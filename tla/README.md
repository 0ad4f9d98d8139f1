# A TLA+ verification of Awaitless

Awaitless starts long jobs for coding agents and keeps track of them. There is
no daemon. Every CLI invocation and every MCP server thread is a short-lived
*client* that shares an SQLite database with the others, and every local job is
carried by a detached *runner*, one process per launch. Queues, recovery after a
crash, cancellation and the delivery of completions are therefore protocols
between processes that know of each other only through rows, files and process
identities. A job on another host or on a cluster is the same thing with a
connection in between that may break at any time. That is what is modelled here, in
TLA+, checked with TLC and, for its safety in all these parts, mostly proved with
TLAPS for any number of jobs and processes.

File names below are relative to `src/src/awaitless/` unless they start with
`src/`. `src/` is the root of the repository.

## 1. The system

| Component | Code | State it keeps | Operations | Model |
|---|---|---|---|---|
| Job store | `db.py`, `constants.py` | rows of `jobs`, `state_events`, `completion_snapshots`, `job_groups`, `queue_config`, in SQLite (`BEGIN IMMEDIATE` for every read-modify-write) | create and reserve, claim a slot, register a runner, requeue an unstarted runner, update, update if active, completion events, snapshots | `JobStore`, and the tables of their own in `Submissions` and `CompletionFeed` |
| Opening and migration | `db.py` 97-227 | the schema | add columns, deduplicate and backfill terminal events | `StoreOpening` |
| Submission, groups | `service.py` 60-94 and 124-382, `db.py` 232-332, target selection in `cli.py`, `mcp_server.py`, `config.py` | `client_request_id` and fingerprint of a row, queue configuration, `job_groups` | choose target and queue, reserve, replay, conflict, submit all | `Submissions` |
| Local backend | `backends/local.py` | `run-spec.json` in the job directory, processes | submit, refresh, cancel | `LocalBackend` |
| Runner | `runner.py` | its command, its control state | own, claim, verify, launch, record, supervise, time out, record the exit | `LocalBackend` |
| SSH backend | `backends/ssh.py` | a job directory and a queue directory on the remote host, slot locks | submit, refresh, cancel, remote wrapper | `SSHBackend` |
| Slurm backend | `backends/slurm.py` | the scheduler's, seen through `squeue` and `sacct` | submit, refresh, cancel | `SlurmBackend` |
| Completion feed | `service.py` 606-767 and 102-122, `db.py` 143-168 and 624-649 | the event log, frozen results, the cursor of each client | completions, snapshot creation, drain, wait for a group | `CompletionFeed` |
| Waiting, tasks, recent jobs | `service.py` 489-604, `mcp_tasks.py`, `cli.py` | `recent-jobs.json` and its lock; tasks with a time to live | wait, detach, recover, create, get and cancel a task | `Deliveries` |
| Logs and artifacts | `service.py` 923-1009, `ssh.py` and `slurm.py` readers, `cli.py` logs | none | tails, follow, sizes and digests | `FileReports` |
| Queue listing, summary | `service.py` 885-909 and 1038-1061 | none | estimates, elapsed times | `QueueReport` |
| tmux baseline | `src/metric/baselines/tmux_job.py` | files of a job, a channel of the tmux server | submit, worker, wait, cancel | `TmuxJob` |
| Configuration, CLI, MCP tools | `config.py`, `cli.py`, `mcp_server.py` | none | reading, mapping of arguments, printing | as callers, in the modules above |
| Benchmarks, preflight | `src/metric/`, `src/scripts/`, `backends/ssh.py` doctor | none | measuring, probing a host | not modelled |

How they interact. A *submission* chooses target and queue, reconciles the queue,
reserves a row in one transaction, writes the job's files, spawns a runner and
registers it in the row by compare-and-swap. The *runner* waits until the row
names it, then polls until it can claim a slot of its queue; it starts the
command, records it, deletes `run-spec.json`, and ends the job. Any other client
may at any moment *refresh* a row it has read before: it looks at the processes
the row names, gives a claimed but unstarted job back to its queue, relaunches its
runner, or declares the job lost. On another host scripts and wrappers do the same
among files, and on a cluster the scheduler does; there a refresh is a few remote
commands. *Cancellation* of a local job commits first and signals afterwards, of a
remote one the other way round. Every commit of a terminal state appends one event
to a log in the same transaction; *completions* pages through that log for clients
that keep a cursor, and freezes the result of each job the first time anybody
collects it. *Waits*, tasks and adaptive runs poll one job and collect the same
frozen result.

### What is hard, and what has to hold

* **Registry.** Transactions of uncoordinated callers. One event per terminal job
  and none for the others; terminal states are final; ranks tell the members of a
  queue apart; the log only grows at its end, since cursors point into it. The
  same after an old database was opened, by two processes at once.
* **Submission.** Clients repeat a call whose answer they did not get, at the same
  time as others. One key is one job, launched once, and everybody who asks with
  the same parameters is told the same, however the target was chosen.
* **Admission and recovery.** Runners race for slots, recoveries race with the
  submission and with one another, all from outdated rows, and each party may die
  between two steps. Slots are never exceeded; two runners of a queued job are
  never both past admission; a waiting job keeps what it needs to be relaunched.
* **Ends.** Exit, timeout, cancellation, loss and failed submissions race. The
  first one wins, and the command of a job that was cancelled or timed out does
  not run on unattended.
* **Progress without a daemon.** Runners alone must move a queue on; after a
  crash a single polling client must be able to repair it.
* **Delivery.** A client may die with a page half processed, hosts become
  unreachable in the middle of a page, two clients collect one result at the same
  time. Nothing is skipped, nothing is reordered, a result never changes, every
  wait returns, and a run that was given up on can be found again.
* **Other hosts.** The answer of a script can get lost after the script did its
  work, and nothing on the host reports by itself. Whoever looks must conclude
  from files and processes that change while it looks. The queue of the host is
  kept in files by scripts and wrappers that may be killed: nobody is overtaken,
  and nobody waits for the dead. The accounting of a cluster follows late.
* **Reports.** What is said of a log, an artifact or a queue is put together from
  several looks at something that moves. It must be of one moment, or say so.

`PROJECT.json` lists each of these hazards at the line where it bites, with the
properties that cover it.

## 2. The modules

| Module | Models | Extends or instantiates |
|---|---|---|
| `JobStore` | the rows, ranks and terminal events, one action per transaction of `db.py` | |
| `JobLifecycle` | the abstract promise of the system about its jobs | |
| `LocalBackend` | clients, runners and commands on one machine | extends `JobStore`, instantiates `JobLifecycle` (refinement) |
| `StoreOpening` | opening an old database | extends `JobStore` |
| `Submissions` | choice of target, idempotent submission, queue creation, groups | extends `JobStore` |
| `CompletionFeed` | clients reading the event log, snapshots, outages | |
| `Deliveries` | waits, adaptive runs, tasks, recent jobs | instantiates `JobLifecycle` (composition) |
| `SSHBackend` | jobs on another host: scripts, wrappers, the remote queue | |
| `SlurmBackend` | jobs of a cluster: scheduler, accounting, observations | |
| `FileReports`, `QueueReport` | tails and artifacts; estimates and times | |
| `TmuxJob` | the wrapper the benchmarks compare with | |
| `JobStoreProofs`, `SubmissionProofs`, `LocalBackendProofs`, `FeedProofs`, `DeliveryProofs`, `SSHProofs`, `SlurmProofs` | theorems and proofs | extend the module they are about, and TLAPS |
| `StandaloneProofs` | the same for the four parts that share no state: `StoreOpening`, `FileReports`, `QueueReport`, `TmuxJob` | extends them and `JobStoreProofs` |
| `MC...` | the instances for TLC | extend the modules they instantiate |

`Deliveries` does not repeat a backend. Its jobs move by the actions of
`JobLifecycle`, which `LocalBackend` is shown to implement, so what it shows of
waiting rests on the promise only.

Each module has one type invariant. In the runs it is the first conjunct of a
property that is about the whole state (`OpeningTypeOK` of `OpenFeedIsSound`,
`SubmissionTypeOK` of `OneJobPerKey`, `FeedTypeOK` of `PageIsConsecutive`,
`DeliveryTypeOK` of `AnswersAgree`, `SSHTypeOK` of `CancelledStops`,
`SlurmTypeOK` of `OutcomeAgrees`, `FileTypeOK` of `CutIsTold`, `QueueTypeOK` of
`TimesFitTogether`); all of them are proved.

### JobStore

`state`, `order`, `owner`, `cmd` and `code` are the columns of a row that decide
anything: `state`, `queue_order`, `runner_pid` with `runner_start_ticks`, `pid`
with `start_ticks`, `exit_code`. `feed` is `state_events` restricted to terminal
states, so an event id is a position. A process identity is one model value
(`Runners`): whether somebody is alive is asked with pid and start ticks together
(`util.py` 81-90). Four places compare the pid of a runner alone (`runner.py` 29,
39 and 53, `db.py` 371). In each it is the runner itself that asks, so the pid is
that of a living process, and an equal pid in the row is another process only if
the number was used again (section 7). The command of a job is identified by the runner that started
it: a runner starts at most one.

`Create`, `ClaimSlot`, `RegisterRunner`, `RequeueRunner`, `UpdateIfActive`,
`UpdateOwner` and `UpdateCode` are the transactions that change a row. Their
conditions are operators of their own (`Claimable`, `Registers`, `Requeues`)
because callers branch on the outcome. `StoreNext` lets anybody call anything
with any argument, so what is proved of `StoreSpec` does not depend on the callers
being well behaved.

### JobLifecycle

What a user may rely on: a job is submitted, admitted first come first served
within the concurrency of its queue, possibly given back before its command was
started, started, perhaps stalled and resumed, and ended once, with one event.
`LocalBackend` implements it (`ImplementsLifecycle`); the refinement mapping is
the identity on the variables of the same name, and every process, file and local
variable of the detailed model is hidden.

### StoreOpening

`Scan` lists the columns outside any transaction, `AddColumn` is one `ALTER
TABLE`, which fails when another process was faster, `LookUp` looks for the index
that marks a migrated feed, `Migrate` is the transaction that drops events that
disagree with their row or repeat, and adds those that are missing. Any process
may be killed between two of these, and whoever has the store open uses it. The
rows and events an earlier version left behind are any at all.

### Submissions

The first definitions are where a request leads, as functions of what it asks and
of the configuration: `HostOf` and `BackendOf` (the same in `cli.py` and
`mcp_server.py`, but for groups, which look at the default host even for
`--backend local`), `AdaptiveQueue` for `run`, and the queue that follows from
resources or a device. `Misfits` are refused; a queue that a resource implies is
created before that. Then `Begin` to `Answer` are the steps of `Service.submit`:
the check of the queue, `Insert` (`reserve_submission`: replay, conflict or a new
row in one transaction), `Files`, `Launch`, `FailSubmission`. A client that dies,
is told an error or loses its answer repeats its request. A group is a client
whose calls are the build and one job for each device; `BuildEnds` is the wait in
between and `WriteGroup` the file at the end. How a launched job runs is left to
its backend (`Proceeds`).

### LocalBackend

One action per store transaction, process launch, signal or file operation.

* *Runner* (`runner.py` `run`): `rpc[r]` is its position. `Boot` reads
  `run-spec.json`; `Own` and `OwnDeadline` are the hand-off loop of lines 24-33;
  `Claim`, `ClaimRefused`, `Verify` lines 35-55; `Launch`, `LaunchFails`,
  `RecordFailure` the `Popen` and its error path; `Record` and `Unlink` lines
  85-97; `Abort`, `Drain`, `Exit`, `Timeout`, `Expire`, `Collect` what follows.
* *Client* (`service.py`, `backends/local.py`): `pc[c]` is its position, `op[c]`
  the operation. `SubmitBegin` to `SubmitFail` is `submit`; `StatusBegin` and
  `ListBegin` read rows, `SweepList` is one query of `_reconcile_local_queue`;
  `LookSettled`, `LookRecover`, `LookGrace`, `LookLost`, `Lose`, `Requeue`,
  `Spawn`, `Register` are `refresh` and the `submit` it calls; `Stall` is
  `_apply_stall`; `CancelMark` and `CancelStop` are `cancel`.
* What a client has read and still uses is in `todo`, `mine`, `cur` and `child`.
  A refresh acts on the row *as it was read*, which is where most of the
  difficulty of this code lies.
* *Commands*: `live` is the set of those that exist as processes, `killed` those
  that were signalled. `launches` is a history variable. A command started by a
  runner that died lives on and ends unobserved (`OrphanEnds`).
* *Faults*: `ClientCrash` and `RunnerCrash` at any step, `Reboot`, a machine so
  slow that a four-second deadline passes (`"slow"`), and `Popen` or file
  operations that raise (`"resource"`). Without `"slow"` a deadline only passes
  when the event it waits for can no longer happen.

Time is left out otherwise: polling loops are enabled actions, the one-second
grace of `refresh` is a choice (`LookGrace` or `LookLost`), a timeout may strike
at any moment of supervision. `terminate_group` sends SIGTERM, waits and sends
SIGKILL; it is one step that makes the command one that will end.

### CompletionFeed

A call of `completions` is the sequence of its reads and writes: `Reconcile` one
row after the other, `Query` the page, `Current` reads the rows again one by one,
then per event `Replay` (there is a snapshot), `Collect` and `Save`, or
`CollectFails`, and finally `Deliver`, `Drained`, `TimedOut` or `Again`.
`Deliver` includes what the client does: process the page, then keep
`next_cursor`. `Crash` is a death between those two, `Drop` a death or a lost
response anywhere else. A reader is one of three (`Roles`): it turns pages for as
long as it likes, drains a selection (`completions --drain`), or waits for a
group, which besides narrows its selection to `active_job_ids` after each page. A
*remote* job gets its row and its event from whichever client asks for its status
while the host is up. A result is `"full"` or `"partial"`: a local job that timed
out is terminal before its exit code is known (`runner.py` 113 and 121), so two
readers can see different rows of one job, and only the snapshot makes their
results equal.

### Deliveries

A client has a role for good: `run` (the adaptive run of the CLI, which records
the job before it waits), `call` (the `run` tool, which records it when it
detaches), `block` (`run_job`), `wait`, `task` (an MCP task polled until it
resolves), `cancel` (`tasks/cancel`) and `recover` (`wait --last`). `Look` is one
status call of a wait or of `tasks/get`; `Detach` and `TimesOut` are the deadlines
of an adaptive and of a plain wait; `Collect` and `Save` are `_terminal_result`;
`Record` takes the lock of `recent-jobs.json` and reads it, `Write` replaces it.
`StatusFails` is the error of an unreachable host: a wait asks again, `tasks/get`
does not, and the collection of the result is not retried by anybody.

### SSHBackend

Three kinds of process share the files of a job directory and of a queue
directory. A file is a set of the jobs that have it (`dir`, `begun` for
`started_at`, `mark` for `cancelled_at`, `pending`) or a function (`exit`,
`ticket`, and `ident`, the number of identity files written so far).

* *Submission*: `Reserve` is the row, then `scr[j]` is the position of the script
  that runs on the host: `MakeDir`, `Register` (lines 112-137, which take the
  dispatch lock and do not give it up), `LaunchWrapper`, and the handshake, which
  ends in `Answers` or `ScriptFails`; both release the lock. The local end of the
  call is separate: `SubmitAnswered`, `SubmitFails` (an error of the script, or a
  connection that broke while the script goes on), `SubmitDies`.
* *Wrapper*: `wpc[j]` is its position. `Identify` writes pid, start ticks and
  process group in turn; `AdmissionPass` is one turn of the loop of lines 144-197,
  atomic because it holds the dispatch lock; `Withdraw` is line 145; then `Begin`,
  `CommandEnds`, `WriteExit`, `Leave`. The slot locks need no variable: they
  belong to the wrappers past admission, and end with them.
* *Refresh*: `LookDir`, `LookAlive` or `LookDead`, `LookExit`, `LookMark` read the
  files one after the other while everybody else moves; `Apply` draws the
  conclusion. A heartbeat less than fifteen seconds old makes a dead wrapper look
  alive, which is the overlap of `LookAlive` and `LookDead`.
* *Cancellation*: `CancelCheck`, `CancelVerify`, `CancelIntend` (the marker),
  `CancelSignal`, `CancelWait`, `CancelSettle`. SIGTERM, the grace and SIGKILL are
  one thing: the group is in `termed` and will end (`GroupDies`), the wrapper at
  once, a command that ignores SIGTERM later. A command under
  `timeout(1)` is not in that group (`Group`), because `timeout` without
  `--foreground` moves to a group of its own.
* *Faults*: an answer lost (`deaf` clients: their script runs on and nobody hears
  the outcome), a submitting client or a wrapper killed, a script killed, be it of a
  submission (`ScriptFails`) or of a cancellation (`CancelKilled`), a handshake that
  takes longer than the script waits. `cut` is a history variable that only
  properties read: the jobs whose cancellation was killed after its marker.

### SlurmBackend

`sched` is what the scheduler did with a job and `books` what its accounting says
of it; both are the environment, and move between any two commands of the code.
`MakeDirectory`, `Sbatch`, `Record` submit; `Poll`, `Squeue`, `Sacct`, `Apply`,
`Stall`, `ReadLogs` are one status call, each remote command an action that may
fail (`Unanswered`); `Scancel` and `Settle` cancel. Time is `age`, what has passed
since `updated_at`, because the accounting grace is measured from that;
`ReadLogs` renews it, which matters (section 5). A command that fails may have had
its effect.

### FileReports and QueueReport

A file is a sequence of bytes of three kinds, part of a line, its end, and one
that cannot be decoded. A reader takes its looks in the order of the code:
`ReadRow` (the status), `TakeSize`, then `TakeTail`, or `TakeDigest` and
`TakeContent`; the command writes between them. The arithmetic of the three tails
is kept as it is (`LocalTail`, `SSHTail`, `SlurmTail`): where they start, which
limit comes first, and how `truncated` is found. The answer carries what the file
held at both looks, for the properties.

In `QueueReport` a queue of equal jobs moves while `list_queues` counts first and
estimates from the rows afterwards. The times of a row come from two clocks that
are `skew` apart, and `Created`, `Finished`, `Elapsed`, `QueueWait` are the
corrections of `Service.summary`.

### TmuxJob

The worker, its waiting clients and its cancellers share `process.json`, the
marker `cancelled`, `result.json` and the temporary file it is written through
(`temp`), and a channel of the tmux server that keeps a signal nobody waits for.

## 3. What is checked

Every run ends by itself and without error, except the last, which shows a
disagreement between the code and what the repository says of it.

| Run | Instance | Question and answer |
|---|---|---|
| `StoreOpening` | 2 processes, 2 jobs in any state, up to 3 legacy events, 2 missing columns or none, 1 kill | Is the feed sound for everybody who has the store open (`OpenFeedIsSound`), is it migrated once, though two may try (`MigratedOnce`), does everybody who keeps trying get in (`EverybodyOpens`)? Yes. |
| `Submissions` | 3 jobs, 1 queue; two clients with one key, one of them with a second request under it; a group with a build and a device; a default host; 1 fault, 2 tries | `OneJobPerKey`, `RepliesAgree`, `GroupIsWhole`, `EventuallyAnswered` hold. |
| `LocalAdmission` | 2 queued jobs, 1 slot, 4 runners, 2 clients (submit; submit, status, list), one command that cannot be executed, one death of a client or a runner | `Capacity`, `OneAdmittedRunner`, `QueuedKeepsSpec`, `NeverRequeuedOnceRunning`, `LaunchedUnrecorded`, and the refinement `ImplementsLifecycle` hold. |
| `LocalOutcomes` | a direct job that never ends by itself and a queued job with timeout and stall detection, 2 clients (submit, status; list, cancel), one exhausted resource or missed deadline | `NoStrayCommand`, `AtMostOneLaunch`, `OneTerminalEvent` and `ImplementsLifecycle` hold wherever cancellation hits. |
| `LocalRecovery` | 2 queued jobs, one of them endless with a timeout, 1 client that submits and may poll, the death of a runner, a reboot or a missed deadline | `EventuallyTerminal`: without a fault the runners alone drain the queue. `WatchedEventuallyTerminal`: after one a client that polls both brings them to an end. |
| `FeedDelivery` | 2 readers, either two that turn pages or a drain beside a group wait, 2 jobs selected in opposite order, 1 of them remote, pages of 2, 1 outage, 1 lost response or crash | `NothingSkipped`, `OneResult`, `PageIsConsecutive`, `EventuallyDelivered`, `WaitReturns` hold. |
| `Deliveries` | 2 jobs, 1 of them remote and queued; clients in groups of three (see `MCDeliveries`), a list of two entries, 1 death or outage | `AnswersAgree`, `RunIsRecoverable`, `OutagesAreRetried`, `EventuallyReturns` hold. |
| `SSHJobs` | 2 queued jobs, 1 slot, a client that polls one and a client that cancels it; one lost answer, or a submitting client, a submission or cancellation script or a wrapper killed, or a slow handshake | `NoOvertaking` holds, and `CancelledStops` but for jobs with a timeout and jobs whose cancellation script was killed after its marker (section 5). |
| `SSHRecovery` | the same queue, one job endless with a timeout, 1 client that polls both, a lost answer, a script or wrapper killed or a handshake given up | `RemoteEventuallyTerminal` holds. |
| `SlurmJobs` | 1 job with a timeout and stall detection, 2 clients that poll, one of which may cancel, every kind of end, 2 faults | `OutcomeAgrees`, `LostIsOver`, `PolledEnds` hold. |
| `Reports` | three scenes: a file of up to 4 bytes read with a budget of 2 on each backend; 4 jobs in 2 slots with clocks apart; a tmux job with 2 waiters and 2 cancellers | `CutIsTold`, `ExitedIsSettled`, `EstimateIsEnough`, `TimesFitTogether`, `WaitEnds`, `ResultHolds` hold. |
| `FeedDrained` | 1 reader that drains or waits for a group, 2 jobs | Violates `WaitIsComplete`, see below. |

### Bounds, and why they suffice for what is asked

* *Jobs.* Two jobs and one slot, local or remote, make a holder and a waiter, the
  only relation admission and recovery are about; a job of a cluster is alone,
  since the backend keeps no state that jobs share. In the feed a page of two is
  full with both. The estimate needs two slots, two that run and two that wait.
  The theorems about ranks and slots have no bound on jobs.
* *Runners.* A runner identity can be used again once no row and no client knows
  it, so four (three with fewer clients) allow any number of relaunches, one
  after the other, with every client and row holding a different stale one. They
  are interchangeable, and are a symmetry set in the safety runs only.
* *Clients.* One that submits and another that interferes is enough for each race
  named in the hazards; each repeats its operations without bound, except that a
  job is submitted once. `Submissions` has two for one key and a third beside
  them, since replay and conflict are between two; `MaxTries` 2 is a call and its
  repetition.
* *`MaxFaults`*, `MaxOutages`, `MaxDrops`, `MaxKills`, `MaxSlow` are 1, in
  `SlurmJobs` 2: one fault at every possible point, and there a command that fails
  after somebody died. They are bounded because the liveness properties need
  faults to stop, and so that the state space is finite. The theorems of section
  6 have no such bound.
* *`launches`* saturates at 2: only "more than one" matters.
* *`MaxRecent`* is 2, for 50 in the code. The instance has two jobs and the list
  names each once, so nothing falls off: that a run which is no longer in the list
  was pushed out by newer ones is shown by the theorem `RunsStayRecoverable` alone.
* *Files*: four bytes against a budget of two give every case of a file that is
  shorter, as long, longer, and longer than twice the budget; `MaxClock` 5 is two
  rounds of jobs of length 2 and a rest; `Skews` has the host clock ahead and
  behind.
* `CHECK_DEADLOCK FALSE`: when all jobs have ended, or every client is done, the
  system may rightly stand still.

### Mutants

Each property of a passing run is paired in `PROJECT.json` with a plausible bug
in one mapped definition (a dropped guard, an off-by-one, a verdict not looked
at) that violates it in the same instance. The mutated operators stand right
before the definitions they replace and are marked as mutants.

## 4. Fairness

* Runners and begun client operations are processes: what is enabled is
  eventually done (`WF` of `RunnerStep` and `ClientStep`). Their loops poll at
  fixed intervals, so an enabled way out is taken.
* `SF` of `LookLost`: the alternative, `LookGrace`, is taken only while the job
  directory changed within the last second, which comes to an end if nothing
  happens to the job; a poller meets it a few times in a row at most.
* `WatchedEventuallyTerminal` assumes a poller itself: `SF` of `StatusBegin` for
  every job. Between polls the client is busy with others, so weak fairness would
  say nothing. It also assumes that no endless command has lost its runner.
* `OrphanEnds` is in the same weak fairness as `RunnerStep`, since a runner that
  died takes no step beside it: a command that may end ends. Endless commands only
  end when killed.
* `SSHBackend`: scripts, wrappers and begun calls go on (`WF` of `SubmitStep`,
  `WrapperStep`, `ClientStep`); a job in `Refreshes` is polled again and again
  (`SF` of `Refresh`, as above). `SF` of `LookDead`: its alternative is a fresh
  heartbeat, and nobody touches the heartbeat of a dead wrapper. Weak
  fairness is enough for the dispatch lock: there are as many submissions as jobs,
  each gives the lock up for good, and an admission pass that changes nothing is
  not a step.
* `SlurmBackend`: begun calls and submissions go on, a polled job is polled again
  and again (`SF` of `Poll`), and the accounting catches up (`WF` of `Books`).
  Jobs need not end.
* `CompletionFeed`: a begun call goes on, a client calls again (one `WF` of
  `Call` and `Works`, which are never enabled together), the host comes back
  (`WF` of `HostUp`). Jobs need not end and exit codes need
  not arrive.
* `Submissions` and `StoreOpening`: clients that repeat their requests, and
  processes that open, go on. A group that fails is not repeated.
* `Deliveries`: clients go on, the host comes back, and jobs end, which is what
  the liveness properties of the backends show of them; `SF` of `Record`, because
  a lock is granted in some order that leaves nobody out.
* `TmuxJob`: worker and clients go on. Nothing is assumed of the command.

Runners and clients that die are not restarted in any model, except where a
client repeats a request.

## 5. Disagreements between the code and what is said of it

One has a run. *Drained too early* (`FeedDrained`): `completions` reads the rows
again (`service.py` 660) after the page of events (655). A job that ends in between
is neither in the page nor active, and the feed is returned as drained with a
completion outstanding, so `completions --drain` (`cli.py` 592) and `wait_group`
(`service.py` 108-122) end without it; `wait_group` besides forgets such a job when
it narrows its selection (113). `cli.py` 146 says of `--drain`: "wait for all
selected jobs".

The others were met while modelling, most of them as counterexamples to a stronger
form of a property. What the checked properties except is named in their comments.

*Local execution.*

* A command can be started twice. The runner starts it at `runner.py` 62 and
  records its pid at 85. If it dies in between, the row is `starting` without a
  pid, `run-spec.json` still exists, and a refresh requeues and relaunches it;
  `src/docs/REFERENCE.md` 312 promises that "transactional claiming prevents
  duplicate command starts". `LaunchedUnrecorded` shows that this is the only way,
  and `AtMostOneLaunch` that without such a death there is none.
* A client that dies between committing `cancelled` and signalling
  (`backends/local.py` 114 and 124) leaves the command running, and a second
  cancellation returns at once. This is why `LocalOutcomes` has no client deaths.
* Reconciliation lists the starting, running and stalled jobs of a queue
  (`service.py` 915), not the queued ones. If the runner of a queued head is gone
  and only a job behind it is polled, that job never ends. The poller of
  `WatchedEventuallyTerminal` polls both.
* A command without end that has lost its runner is never timed out.
* A reserved job is declared lost by the next `status` or `list` when its client
  died before a runner was registered, and even while that client goes on
  (`backends/local.py` 107), where `src/docs/MCP_TASKS.md` 103 says that it is kept
  in `starting`.
* `cancelled` and `timed_out` free the slot before the command is gone, so there
  can be more commands than slots. The number of *rows* that hold one is right
  (`Capacity`).
* A submission that gives up after four seconds marks its job failed although the
  runner may have recorded it as running between the check and the write
  (`backends/local.py` 60-72).
* `status` relaunches runners, although `mcp_server.py` 350 says that the tool
  never starts work.

*Submission.*

* `submit-group` looks at the default host even with `--backend local` (`cli.py`
  432), and is then refused for having a host (`service.py` 164); `submit` does not
  (`cli.py` 459-461).
* A queue implied by resources is created before a request is refused for its host
  (`service.py` 154-165).

*Delivery.*

* A wait retries an outage of the status, but not of the collection of the result
  that follows (`service.py` 494-513); `tasks/get` and `wait --last` retry nothing.
* `wait --last` picks the newest recorded run, which need not be a detached one
  (`README.md` 70 and `src/docs/REFERENCE.md` 192 say "most recently detached").
* A CLI run that dies between the submission and the record (`cli.py` 485-502) is
  in no list.
* A result collected while a timed out job is being killed is frozen without its
  exit code.

*SSH.*

* A remote job with a timeout runs its command under `timeout --signal=TERM`
  (`backends/ssh.py` 248), which makes itself the leader of a new process group.
  Cancellation signals the group of the wrapper (547, 557), so the command runs
  until the timeout under a row that says cancelled; `src/docs/REFERENCE.md` 104
  promises to "stop the managed process group". `CancelledStops` is about jobs
  without a timeout.
* A cancellation script that is killed after it wrote its marker (541) and before
  it signals (547), or before it sends SIGKILL to a command that ignores SIGTERM
  (557), leaves the marker. The next refresh reports the job as cancelled while its
  command runs on, and a second cancellation finds the marker and returns at once
  (527). `CancelledStops` excepts these jobs (`cut`); it is what a client that dies
  between 114 and 124 is to a local job.
* A cancellation that finds the job directory but no identity yet (528), or no
  directory (525), answers lost and leaves no marker, and the wrapper starts the
  command later.
* A finished job is recorded as cancelled when a refresh finds no `exit_code`, the
  wrapper writes it, a cancellation writes `cancelled_at`, and the refresh reads
  that (453-454, 541-545); as lost when the wrapper writes and ends between the two
  checks of a cancellation (526, 532). A cancelled queued job is recorded as lost
  when its wrapper withdraws before the signal (145, 547-549).
* A failed handshake is not undone: the job is failed while its wrapper runs
  (341-343); a queued one whose entry was removed waits for ever.

*Slurm.*

* `read_logs` renews `updated_at` with every status call, and the accounting grace
  is measured from that: a job that squeue and sacct do not know is never declared
  lost while it is polled more often than the grace. With polls further apart than
  the grace a finished job whose accounting is late is lost.
* A cancellation before the scheduler id is recorded makes the row lost, and sbatch
  runs the job. `LostIsOver` excepts it.
* A job that Slurm had completed before `scancel` was called is recorded as
  cancelled if the row was still active (`backends/slurm.py` 483-486). `OutcomeAgrees`
  asks of a cancelled row that the job is over, not how it ended.
* A submission whose answer from `sbatch` is lost records a failure without a
  scheduler id, and nobody looks at the job that runs. `OutcomeAgrees` is about
  failed rows that have an id.
* A requeued job goes back from running to queued, and one that prints nothing
  alternates between stalled and running with each poll.

*Reports.*

* Over SSH `truncated` compares the size of the log with the length of the text
  encoded again (`backends/ssh.py` 600-603): bytes that cannot be decoded count
  three times and can hide a cut. Over SSH and Slurm growth between the size and
  the tail can hide one as well.
* Logs and artifacts of a cancelled or timed out job are collected while its
  command may still write, and are frozen so.
* `logs --follow` asks for the status after it has printed and returns when the job
  has ended (`cli.py` 646-655), without a last look: what was written in between is
  not shown.
* `list_queues` counts per queue and not per host, and an admission between its two
  looks makes its estimate too low, by one round of jobs at most
  (`EstimateIsEnough`).

*tmux baseline.* A cancellation that comes before `process.json` leaves the command
running. `result.json.tmp` is one file for all writers: the rename of one of two
fails, which makes a job failed or a client report an error.

## 6. What is proved

TLAPS checks the following for every value of the constants that satisfies the
assumptions named in the modules (`StoreAssumption`, `SubmissionAssumption`,
`GroupAssumption`, `RequestAssumption`, `PrintAssumption`, `LocalAssumption`,
`FeedAssumption`, `SSHAssumption`, `SlurmAssumption`, `DeliveryAssumption`,
`OpeningAssumption`, `ReportAssumption`, `QueueAssumption`, `TmuxAssumption`): any
number of jobs, queues, clients and runners, any mix of operations, and any number
and kind of faults. The assumptions are types, and say that a model value for "none"
is not one of the things it stands in for; `GroupAssumption` says what
`submit_group` passes on (at least one device, no `client_request_id`). Two
theorems, `LocalAtMostOneLaunch` and `LocalNoStrayCommand`, exclude kinds of fault,
because with those the code does otherwise (section 5).

*`JobStoreProofs`.* The inductive invariant `StoreInv` is `StoreTypeOK`,
`OneTerminalEvent` and `RanksDiffer`: no two jobs ever submitted to a queue have
the same rank. The last is needed because `OneHead` speaks of waiting jobs only,
while a requeued job returns with its old rank; with it alone the invariant
survives `RequeueRunner`. From it follow `StoreTypes`, `StoreOneTerminalEvent`,
`StoreOneHead`, `StoreTerminalIsFinal` and `StoreFeedAppendOnly`.

*`SubmissionProofs`.* `OneJobPerKey` is not inductive, because it counts what was
handed over and not who may still do so. `SubmissionInv` adds to the registry that
a row nobody inserted has no key (`RowsOK`), that a client between its insertion
and its launch has a job that was not launched (`ClientOK`), and that no two
clients are there with one job (`Apart`). The argument: an inserted row keeps its
key and fingerprint (`RowsKept`), and is inserted under a key only if no row has
it, so a key is one job; the client that inserted it alone passes through the
launch, since a replay is answered without. `SubmissionGroupIsWhole` adds
`GroupInv`, for each group: its answered jobs were handed over once, its build has
succeeded unless it is still waited for, and it is complete where it is written. It
holds because the code gives no request of a group a key (`GroupAssumption`): a
replay would answer with a job that its first client may not have launched.

*`LocalBackendProofs`.* `Capacity`, `OneAdmittedRunner` and `QueuedIsIdle` are not
inductive. `LocalInv` says more, of every runner and of every client. `RunnerOK(r)`:
a runner beyond admission owns its queued job, the job is not queued, its command is
there until it has reaped it, and a command that is supervised was recorded.
`ClientOK(c)`: what a client has read as started has started, and a client about to
requeue a claim read an owner that is dead. The argument for admission is then this.
A runner passes admission only as the owner of its job. From there on nobody can
replace it: registration wants a queued row, and requeueing wants an owner that the
client has seen dead. Since identities are not used again, that owner is not the one
that was admitted in the meantime. The proof has one step per action; the lemmas
about `LocalStore` and `Effect` summarise what a step may do to the registry, so
that the conjuncts about runners and clients need not look into the transactions
again. From `LocalInv` follow `LocalTypes`, `LocalCapacity`,
`LocalOneAdmittedRunner`, `LocalQueuedIsIdle` and `LocalNeverRequeuedOnceRunning`.
`LocalImplementsStore` says that every step is a transaction of the registry or
leaves it alone; the theorems about `JobStore` hold of local execution through it.

The first half ends with `LocalImplementsLifecycle`: local execution
implements the promise, which is what `Deliveries` is built on. The registry alone
does not, since anybody may call it with any state. `LocalStore` therefore says what
this backend asks of it (`Allowed`): a job stalls, succeeds or times out only after
it has been running, because a runner supervises only what it has recorded and a
client acts on a row it read as started, and nothing takes a started job back. The
other addition is that a job that was not inserted has no rank (`Unranked`), so that
the rank of a new job is above those of its queue.

The second half of the module is about recovery. `LocalQueuedKeepsSpec`: a waiting job keeps `run-spec.json`.
What makes it hard is that a client looks at the file and requeues and relaunches
some steps later. `SpecSeen(c)` says that as long as the compare-and-set of the
client would still succeed (`Matches`), the file is there. It is inductive because
of what a step may do to one row and to its file: a row that is back in the queue
with the owner it had was not touched or has its file (`RowEffect`), and the file
of a job that waits or whose runner is dead is not removed (`FileEffect`).

Its last part is about commands. `LocalLaunchedUnrecorded`: a
command is started only while the row names none, whatever fails.
`LocalAtMostOneLaunch`: unless a runner or the machine dies, no recovery starts a
second one, although clients die and launches of runners fail or are slow.
`LocalNoStrayCommand`: unless somebody is killed, the command of a job that was
cancelled or timed out is dead or has somebody who will kill it. None of them is
inductive. `CommandInv` says of every runner which stage of the row and of the
history of launches fits its position (`StageOK`), that a job has one runner at work
(for a queued job because it owns the row, for a direct one because only the
submission ever spawns one, `Unspawned` and `NoNewRunner`), that a spawned runner is
known to its client alone until it is registered (`ChildWaits`), and that a job
whose command was started is not back in its queue unless its runner died before it
recorded the command (`Launched`). The row and the command part only between
`Popen` and the record, and there the runner is the one who will act (`CommandOK`).

*`FeedProofs`.* `FeedInv` ties a page to the cursor: the n-th event of a page is
the watched event behind the cursor that exactly n - 1 others precede (`PageOK`).
New events come after all others, so this stays true while the page is assembled
and others write events. The items are a prefix of the page with the frozen results
(`ItemsOK`), and the rows read after the page say how its jobs ended (`RowsOK`).
When the last item becomes the cursor, every watched event up to it is an item or
was before the old cursor (`ItemsComplete`), and a group that narrows its selection
only asks for less. From it follow `FeedNothingSkipped`, `FeedOneResult` and
`FeedPageIsConsecutive`. That the feed ends in complete waits is not among them: it
is false (section 5).

*`DeliveryProofs`.* `AnswersAlwaysAgree`, `RunsStayRecoverable` and
`OutagesAlwaysRetried`. The list of recent jobs is a sequence that `Record` filters,
extends and cuts, so the first lemmas say what that does to its members and its
length; they hold for lists that name each job once, which the list does. `DeliveryInv`
adds that the client that holds the lock has the list as it stands in its hands, so
a write replaces nothing it has not read (`ClientOK`); that whatever was recorded is
in the list or the list is full (`ListOK`); that what a client was told of an end is
the frozen result of a job that is over, and ends are final (`Truthful`); and what
follows from the position of a client for the run it made (`Recorded`) and for an
error it was told (`Retried`).

*`SSHProofs`.* `SSHNoOvertaking` and `SSHCancelledStops`, with the inductive
`SSHInv`. For the order: wrappers drop every entry at the front whose process they
cannot see, so nobody may wait unseen while a wrapper is in its loop. `JobOK(k)`
says that a registered job has failed, or has answered, and then its identity is
complete, or its script still holds the dispatch lock, and then no wrapper makes a
pass (`WaitingIsSeen`). For cancellation: a row becomes cancelled by an answer, an
answer comes from the marker, and a client writes the marker just before it signals
(`StateTraced`, `MarkTraced`, `AnswerTraced`; `Source(k)` is any of the three).
From then on the group is about to be signalled, was signalled, has ended or has
finished (`Halting(k)`). That never changes back (`Onward`), although the marker
itself may be taken back while another client has seen it. The only marker without
a signal after it is that of a script that was killed in between; its job enters
`cut` in the same step, and the invariant says nothing of its end from then on. The marker is written
only for a job whose wrapper exists, hence `wpc[k] # "none"`: a group that has ended
is not started again. Jobs with a timeout are excepted because their command leaves
the group (section 5).

*`SlurmProofs`.* `SlurmOutcomeAgrees` and `SlurmLostIsOver`. What Slurm did with a job
is final once it is over, and a client holds a final state only after it has seen
the job over: in the silence of `squeue` for a job it knows, in the accounting, or in
the success of `scancel`. `ClientOK` says so for every position of a client; `Agrees`
is stable because the scheduler never takes an end back, so what is written late is
still true. For a cancelled row this says that the job is over and no more, since
it may have completed first. `RowAgrees` excepts rows that failed without a scheduler id, which a
submission may write while `sbatch` has run.

*`StandaloneProofs`* has a section for each part that shares no state with the
others. The theorems are about the specification of that part alone (`FileSpec`,
`QueueSpec`, `TmuxSpec`, and `Spec` of `StoreOpening`); `MCReports` checks the first
three in one run, each in a scene in which the other two rest. They are stated
without fairness.

*Opening the store* (`OpenFeeds`, `MigrationOnce`). `OpeningInv` adds to the types
that a process that has found its missing columns knows every column that is still
missing, that one about to migrate has all of them, and that the index is there only
when every terminal job has exactly one event. What the migration writes is
`Migrated`: the events it keeps, in the order of their ids, and one for each terminal
row that has none. That is sound for any history. On a feed that is sound already it
keeps every event, and the increasing enumeration of all ids is the identity
(`InOrder`), so a late second migration moves nothing. The transactions that
follow are those of `JobStore`, whose lemmas are used.

*Reports about files* (`ReportsTellCuts`, `ExitedReportsSettle`). The lemmas about
cuts are about lengths: the last lines of a text are a suffix that is shorter unless
it is the whole, and for each backend, what its answer claims follows from the size
it took first and the bytes it read then, because a file only grows (`DataLook`,
`Told`). `Settled` says that a row is `exited` only when no command writes any more,
and therefore everything seen after such a look at the row is of the file as it
stands: the row must be looked at first, which is what the mutant `RowLast` turns
round.

*Estimates and times* (`QueueInvariant`, `QueueTimesFit`, `QueueEstimates`).
`QueueInv` has the order of the three times of each row (`RowOK`), the order in
which jobs are admitted, and the number that run. `EstimateIsEnough` is not
inductive, since a job that waits ahead of another moves on and the number of full
rounds before the latter, which the estimate was made of, is a fact of the past.
`EstimateInv` therefore keeps what the listing saw: a set of jobs that waited then
and a set of jobs that ran (`Promise`), at most as many as were counted, or, if
somebody was admitted between the looks, as there are slots (`Held`). The latter
costs one round more (`OneRoundMore`), which is what the property allows such a
listing (`Slip`). Every job of the first set
starts within the rounds before it, and every job outside both is over or comes
behind the first set. When the time is up for a waiting job, those before it that
have not ended are fewer than the slots, by counting: of a round that began after
the look at most `Slots` jobs fit into one `Duration`, and the jobs that ran at the
look are over one `Duration` after it. So a slot is free, and time does not pass
while a waiting job could be admitted.

*tmux baseline* (`TmuxResultHolds`). `TmuxInv` says which facts about the process
and its file go with each position of the worker; `TmuxCalm` says that as long as no
worker was slow and no cancellation came before `process.json`, no client is at the
temporary file, so it is the worker's alone, and the result is written once. The
second conjunct of `ResultHolds` rests on a client waiting only for a process that
is over.

Two of the assumptions are new with these proofs. The jobs of a listed queue are
finitely many (in `QueueAssumption`), and the value for "no file" is not a file, nor
the one for "no row" a state (in `ReportAssumption`).

`OneHead`, `TerminalIsFinal`, `FeedAppendOnly`, `QueuedIsIdle` and the type
invariants of `JobStore` and `LocalBackend` are proved and have no run of their own
any more; the first three are about every caller of the registry, and
`OpenFeedIsSound` and `PageIsConsecutive` of the other modules rest on what they
say.

*Only model-checked*: liveness, that is `EverybodyOpens`, `WaitEnds`,
`EventuallyDelivered`, `WaitReturns`, `EventuallyReturns`, `EventuallyAnswered`,
`EventuallyTerminal`, `WatchedEventuallyTerminal`, `RemoteEventuallyTerminal` and
`PolledEnds`; temporal reasoning with fairness and `ENABLED` is out of reach of the
installed prover. Every safety property of the passing runs is proved.

## 7. What is not modelled

* *On a remote host*: a failing `mkdir`, a queue whose concurrency differs, a
  host without `/proc` or with separate PID namespaces, a reboot, the stall
  detection that follows a refresh (it is in `LocalBackend` and `SlurmBackend`),
  and the preflight, one read-only probe.
* *Submission*: options of the backends, environments, redirections that become
  captured logs, and the check of names; a group whose jobs share one queue name.
* *Tasks*: notifications and the protocol around a task; the handle itself, its
  status, result, expiry and cancellation are in `Deliveries`.
* *Reports*: filters and patterns of logs, the diagnosis of a failure, progress,
  the matching of artifact patterns, and the wording of results.
* *Configuration, argument parsing, printing*: no state; where they lead a request
  is in `Submissions`.
* *Benchmarks, scripts, examples*: straight-line drivers of the program.
* *SQLite itself*: a transaction is one atomic step, and a commit is durable. A
  reboot loses no committed row.
* *Process identities that repeat* with equal pid and start ticks.

## 8. What would come next

1. *Larger compositions.* `Deliveries` over jobs that stall and return to their
   queue; `SSHBackend` with a queue that another host's clients share.
