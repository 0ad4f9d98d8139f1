---------------------------- MODULE LocalBackend ----------------------------
(***************************************************************************)
(* Local execution of jobs without a daemon: short-lived client processes  *)
(* (service.py, backends/local.py), one detached runner per launch         *)
(* (runner.py) and the commands the runners start, interleaved at the      *)
(* granularity of store transactions, process launches, signals and file   *)
(* operations.  Any of them may die between two of its steps.              *)
(*                                                                         *)
(* Everything a process has read and still uses is kept in its local       *)
(* variables: a client refreshes the rows it read, not the rows as they    *)
(* are when it gets to them.                                               *)
(***************************************************************************)
EXTENDS JobStore

CONSTANTS
  Clients,     \* CLI invocations and server threads
  NoJob,
  Roles,       \* the operations each client performs
  BadJobs,     \* jobs whose command cannot be executed
  EndlessJobs, \* jobs whose command only ends when it is killed
  TimedJobs,   \* jobs submitted with a timeout
  QuietJobs,   \* jobs submitted with a stall timeout
  Faults,      \* the kinds of fault that may happen
  MaxFaults    \* how many faults may happen (bound)

Operations == {"submit", "status", "list", "cancel"}
FaultKinds == {"client", "runner", "reboot", "slow", "resource"}

ASSUME LocalAssumption ==
  /\ NoJob \notin Jobs
  /\ Roles \in [Clients -> SUBSET Operations]
  /\ BadJobs \subseteq Jobs /\ EndlessJobs \subseteq Jobs
  /\ TimedJobs \subseteq Jobs /\ QuietJobs \subseteq Jobs
  /\ Faults \subseteq FaultKinds
  /\ MaxFaults \in Nat

VARIABLES
  spec,      \* jobs whose run-spec.json exists
  rpc,       \* control state of each runner; "gone" when there is no such process
  rjob,      \* the job a runner was spawned for
  live,      \* runners whose command exists as a process (zombies included)
  killed,    \* those of live whose command was sent SIGTERM, then SIGKILL
  launches,  \* history: commands started per job, saturating at 2
  pc,        \* control state of each client
  op,        \* the operation it performs
  target,    \* the job it performs it on
  sweep,     \* reconciliation: next of SweepStates to list
  todo,      \* rows it has read and not yet refreshed
  mine,      \* status: the row of the target, refreshed last
  cur,       \* the row it is refreshing
  child,     \* the runner it spawned and has not yet registered
  faults     \* faults so far

runnerVars == <<rpc, rjob>>
cmdVars    == <<live, killed, launches>>
clientVars == <<pc, op, target, sweep, todo, mine, cur, child>>
vars == <<store, spec, runnerVars, cmdVars, clientVars, faults>>

-----------------------------------------------------------------------------
Row   == [job : Jobs, state : States, owner : RunnerIds, cmd : RunnerIds]
NoRow == [job |-> NoJob, state |-> "absent", owner |-> NoRunner, cmd |-> NoRunner]

RowOf(j) == [job |-> j, state |-> state[j], owner |-> owner[j], cmd |-> cmd[j]]

\* The order in which _reconcile_local_queue lists the states.
SweepStates == <<"starting", "running", "stalled">>
SweepDone   == Len(SweepStates) + 1

RunnerStates == {"gone", "boot", "own", "claim", "verify", "launch", "fail",
                 "record", "unlink", "unlinkAbort", "supervise", "abort",
                 "drain", "expire", "collect"}
ClientStates == {"idle", "sweep", "requeue", "spawn", "register", "lose",
                 "stall", "create", "files", "await", "fail", "stop"}

TypeOK ==
  /\ StoreTypeOK
  /\ spec \subseteq Jobs
  /\ rpc \in [Runners -> RunnerStates]
  /\ rjob \in [Runners -> Jobs \cup {NoJob}]
  /\ live \subseteq Runners
  /\ killed \subseteq live
  /\ launches \in [Jobs -> 0..2]
  /\ pc \in [Clients -> ClientStates]
  /\ op \in [Clients -> Operations \cup {"none"}]
  /\ target \in [Clients -> Jobs \cup {NoJob}]
  /\ sweep \in [Clients -> 1..SweepDone]
  /\ todo \in [Clients -> SUBSET Row]
  /\ mine \in [Clients -> Row \cup {NoRow}]
  /\ cur \in [Clients -> Row \cup {NoRow}]
  /\ child \in [Clients -> RunnerIds]
  /\ faults \in 0..MaxFaults

Init ==
  /\ StoreInit
  /\ spec = {}
  /\ rpc = [r \in Runners |-> "gone"]
  /\ rjob = [r \in Runners |-> NoJob]
  /\ live = {} /\ killed = {}
  /\ launches = [j \in Jobs |-> 0]
  /\ pc = [c \in Clients |-> "idle"]
  /\ op = [c \in Clients |-> "none"]
  /\ target = [c \in Clients |-> NoJob]
  /\ sweep = [c \in Clients |-> 1]
  /\ todo = [c \in Clients |-> {}]
  /\ mine = [c \in Clients |-> NoRow]
  /\ cur = [c \in Clients |-> NoRow]
  /\ child = [c \in Clients |-> NoRunner]
  /\ faults = 0

-----------------------------------------------------------------------------
(* Processes. *)

Alive(r)     == r \in Runners /\ rpc[r] # "gone"
CmdExists(r) == r \in live

\* Mutant of Managed: the liveness of the runner is not considered.
ManagedByCommand(w) == CmdExists(w.cmd)

\* process_matches for the command and then for the runner of row w.
Managed(w) == CmdExists(w.cmd) \/ Alive(w.owner)

MayEnd(r) == r \in killed \/ rjob[r] \notin EndlessJobs

CommandGone(r) ==
  /\ live' = live \ {r}
  /\ killed' = killed \ {r}
  /\ UNCHANGED launches

Fault(kind) ==
  /\ kind \in Faults
  /\ faults < MaxFaults
  /\ faults' = faults + 1

RunnerGoes(r, from, to) ==
  /\ rpc[r] = from
  /\ rpc' = [rpc EXCEPT ![r] = to]
  /\ UNCHANGED <<rjob, clientVars>>

\* The runner exits; it has reaped its command if it ever had one.
RunnerEnds(r, from) ==
  /\ rpc[r] = from
  /\ rpc' = [rpc EXCEPT ![r] = "gone"]
  /\ rjob' = [rjob EXCEPT ![r] = NoJob]
  /\ UNCHANGED clientVars

-----------------------------------------------------------------------------
(* runner.py: run.  A queued job passes own, claim and verify first. *)

\* A missing run-spec.json ends the runner with an exception.
Boot(r) ==
  /\ \/ /\ rjob[r] \notin spec
        /\ RunnerEnds(r, "boot")
     \/ /\ rjob[r] \in spec
        /\ RunnerGoes(r, "boot", IF Queued(rjob[r]) THEN "own" ELSE "launch")
  /\ UNCHANGED <<store, spec, cmdVars, faults>>

Own(r) ==
  /\ \/ /\ RunnerEnds(r, "own")
        /\ state[rjob[r]] \in Terminal
     \/ /\ RunnerGoes(r, "own", "claim")
        /\ state[rjob[r]] \notin Terminal
        /\ owner[rjob[r]] = r
  /\ UNCHANGED <<store, spec, cmdVars, faults>>

\* Four seconds without ownership.  They only pass while a client that will
\* register the runner is still alive if the machine is slow.
OwnDeadline(r) ==
  /\ RunnerEnds(r, "own")
  /\ \/ Fault("slow")
     \/ /\ owner[rjob[r]] # r
        /\ \A c \in Clients : child[c] # r
        /\ UNCHANGED faults
  /\ UNCHANGED <<store, spec, cmdVars>>

Claim(r) ==
  /\ RunnerGoes(r, "claim", "verify")
  /\ ClaimSlot(rjob[r], r)
  /\ UNCHANGED <<spec, cmdVars, faults>>

\* The job was cancelled or failed, or another runner owns it.  A job that is
\* merely not at the head of a queue with a free slot keeps its runner looping.
ClaimRefused(r) ==
  /\ RunnerEnds(r, "claim")
  /\ state[rjob[r]] # "queued" \/ owner[rjob[r]] # r
  /\ UNCHANGED <<store, spec, cmdVars, faults>>

Verify(r) ==
  /\ rpc[r] = "verify"
  /\ IF state[rjob[r]] = "starting" /\ owner[rjob[r]] = r
       THEN RunnerGoes(r, "verify", "launch")
       ELSE RunnerEnds(r, "verify")
  /\ UNCHANGED <<store, spec, cmdVars, faults>>

Launch(r) ==
  /\ rjob[r] \notin BadJobs
  /\ RunnerGoes(r, "launch", "record")
  /\ live' = live \cup {r}
  /\ launches' = [launches EXCEPT ![rjob[r]] = IF @ < 2 THEN @ + 1 ELSE @]
  /\ UNCHANGED <<store, spec, killed, faults>>

\* Popen raised: the spec goes first, then the row.
LaunchFails(r) ==
  /\ rjob[r] \in BadJobs
  /\ RunnerGoes(r, "launch", "fail")
  /\ spec' = spec \ {rjob[r]}
  /\ UNCHANGED <<store, cmdVars, faults>>

RecordFailure(r) ==
  /\ RunnerEnds(r, "fail")
  /\ SetState(rjob[r], "failed")
  /\ UNCHANGED <<spec, cmdVars, faults>>

\* Mutant of Record: the state that update_if_active returns is not looked at.
RecordRegardless(r) ==
  /\ RunnerGoes(r, "record", "unlink")
  /\ UpdateIfActive(rjob[r], "running", r, code[rjob[r]])
  /\ UNCHANGED <<spec, cmdVars, faults>>

\* The command is already running when the row says so.
Record(r) ==
  /\ RunnerGoes(r, "record",
       IF state[rjob[r]] \in Terminal THEN "unlinkAbort" ELSE "unlink")
  /\ UpdateIfActive(rjob[r], "running", r, code[rjob[r]])
  /\ UNCHANGED <<spec, cmdVars, faults>>

Unlink(r) ==
  /\ \/ RunnerGoes(r, "unlink", "supervise")
     \/ RunnerGoes(r, "unlinkAbort", "abort")
  /\ spec' = spec \ {rjob[r]}
  /\ UNCHANGED <<store, cmdVars, faults>>

\* The job became terminal before the command was recorded.
Abort(r) ==
  /\ RunnerGoes(r, "abort", "drain")
  /\ killed' = killed \cup {r}
  /\ UNCHANGED <<store, spec, live, launches, faults>>

Drain(r) ==
  /\ MayEnd(r)
  /\ RunnerEnds(r, "drain")
  /\ CommandGone(r)
  /\ UNCHANGED <<store, spec, faults>>

\* The command ended, is reaped and its outcome committed.
Exit(r, x) ==
  /\ MayEnd(r)
  /\ RunnerEnds(r, "supervise")
  /\ CommandGone(r)
  /\ UpdateIfActive(rjob[r], IF x = 0 THEN "succeeded" ELSE "failed", cmd[rjob[r]], x)
  /\ UNCHANGED <<spec, faults>>

\* The timeout is committed first, the process group is killed after.
Timeout(r) ==
  /\ rjob[r] \in TimedJobs
  /\ RunnerGoes(r, "supervise", "expire")
  /\ SetState(rjob[r], "timed_out")
  /\ UNCHANGED <<spec, cmdVars, faults>>

Expire(r) ==
  /\ RunnerGoes(r, "expire", "collect")
  /\ killed' = killed \cup {r}
  /\ UNCHANGED <<store, spec, live, launches, faults>>

\* The exit code is added to the row that is terminal already.
Collect(r, x) ==
  /\ MayEnd(r)
  /\ RunnerEnds(r, "collect")
  /\ CommandGone(r)
  /\ UpdateCode(rjob[r], x)
  /\ UNCHANGED <<spec, faults>>

\* The command of a dead runner ends unobserved.
OrphanEnds(r) ==
  /\ r \in live /\ ~Alive(r) /\ MayEnd(r)
  /\ CommandGone(r)
  /\ rjob' = [rjob EXCEPT ![r] = NoJob]
  /\ UNCHANGED <<store, spec, rpc, clientVars, faults>>

RunnerStep(r) ==
  \/ Boot(r) \/ Own(r) \/ OwnDeadline(r) \/ Claim(r) \/ ClaimRefused(r) \/ Verify(r)
  \/ Launch(r) \/ LaunchFails(r) \/ RecordFailure(r) \/ Record(r) \/ Unlink(r)
  \/ Abort(r) \/ Drain(r) \/ Timeout(r) \/ Expire(r)
  \/ \E x \in Codes : Exit(r, x) \/ Collect(r, x)

-----------------------------------------------------------------------------
(* Clients: service.py and LocalBackend (backends/local.py). *)

ClientGoes(c, from, to) ==
  /\ pc[c] = from
  /\ pc' = [pc EXCEPT ![c] = to]

\* The operation returns, or its process dies.
Finish(c) ==
  /\ pc' = [pc EXCEPT ![c] = "idle"]
  /\ op' = [op EXCEPT ![c] = "none"]
  /\ target' = [target EXCEPT ![c] = NoJob]
  /\ sweep' = [sweep EXCEPT ![c] = 1]
  /\ todo' = [todo EXCEPT ![c] = {}]
  /\ mine' = [mine EXCEPT ![c] = NoRow]
  /\ cur' = [cur EXCEPT ![c] = NoRow]
  /\ child' = [child EXCEPT ![c] = NoRunner]

\* refresh of row w returned row: status goes on to _apply_stall with it, every
\* other caller ignores it and takes the next of the rest of its rows.
Refreshed(c, w, row, rest) ==
  IF op[c] = "status" /\ w.job = target[c]
    THEN IF row.job \in QuietJobs /\ row.state \in {"running", "stalled"}
           THEN /\ pc' = [pc EXCEPT ![c] = "stall"]
                /\ cur' = [cur EXCEPT ![c] = row]
                /\ todo' = [todo EXCEPT ![c] = rest]
                /\ UNCHANGED <<op, target, sweep, mine, child>>
           ELSE Finish(c)
    ELSE /\ pc' = [pc EXCEPT ![c] = "sweep"]
         /\ cur' = [cur EXCEPT ![c] = NoRow]
         /\ todo' = [todo EXCEPT ![c] = rest]
         /\ child' = [child EXCEPT ![c] = NoRunner]
         /\ UNCHANGED <<op, target, sweep, mine>>

\* refresh of row w goes on at client state p.
Refreshing(c, w, p) ==
  /\ pc' = [pc EXCEPT ![c] = p]
  /\ cur' = [cur EXCEPT ![c] = w]
  /\ todo' = [todo EXCEPT ![c] = @ \ {w}]
  /\ UNCHANGED <<op, target, sweep, mine, child>>

\* An idle client starts operation o on job j.
Begins(c, o, j, p, s, rows, own) ==
  /\ ClientGoes(c, "idle", p)
  /\ o \in Roles[c]
  /\ op' = [op EXCEPT ![c] = o]
  /\ target' = [target EXCEPT ![c] = j]
  /\ sweep' = [sweep EXCEPT ![c] = s]
  /\ todo' = [todo EXCEPT ![c] = rows]
  /\ mine' = [mine EXCEPT ![c] = own]
  /\ UNCHANGED <<cur, child, store, spec, runnerVars, cmdVars, faults>>

\* submit: the job id is fresh; a queue is reconciled before the row exists.
SubmitBegin(c, j) ==
  /\ state[j] = "absent"
  /\ \A d \in Clients : target[d] # j
  /\ Begins(c, "submit", j, IF Queued(j) THEN "sweep" ELSE "create", 1, {}, NoRow)

\* status: the row is read before the rest of its queue is reconciled.
StatusBegin(c, j) ==
  /\ state[j] # "absent"
  /\ IF Queued(j)
       THEN Begins(c, "status", j, "sweep", 1, {}, RowOf(j))
       ELSE Begins(c, "status", j, "sweep", SweepDone, {RowOf(j)}, NoRow)

\* list: one query returns every row, the active ones are refreshed.
ListBegin(c) ==
  Begins(c, "list", NoJob, "sweep", SweepDone,
         {RowOf(j) : j \in {k \in Jobs : state[k] \in Active}}, NoRow)

\* _reconcile_local_queue lists the next state of the target's queue.
SweepList(c) ==
  /\ pc[c] = "sweep" /\ todo[c] = {} /\ sweep[c] < SweepDone
  /\ sweep' = [sweep EXCEPT ![c] = @ + 1]
  /\ todo' = [todo EXCEPT ![c] =
       {RowOf(j) : j \in {k \in Jobs \ {target[c]} :
                            /\ QueueOf[k] = QueueOf[target[c]]
                            /\ state[k] = SweepStates[sweep[c]]}}]
  /\ UNCHANGED <<pc, op, target, mine, cur, child, store, spec, runnerVars, cmdVars, faults>>

\* All rows are refreshed: status turns to the row it read first, submit to the
\* new job, list is done.
SweepEnd(c) ==
  /\ pc[c] = "sweep" /\ todo[c] = {} /\ sweep[c] = SweepDone
  /\ \/ /\ mine[c] # NoRow
        /\ todo' = [todo EXCEPT ![c] = {mine[c]}]
        /\ mine' = [mine EXCEPT ![c] = NoRow]
        /\ UNCHANGED <<pc, op, target, sweep, cur, child>>
     \/ /\ mine[c] = NoRow /\ op[c] = "submit"
        /\ ClientGoes(c, "sweep", "create")
        /\ UNCHANGED <<op, target, sweep, todo, mine, cur, child>>
     \/ /\ mine[c] = NoRow /\ op[c] = "list"
        /\ Finish(c)
  /\ UNCHANGED <<store, spec, runnerVars, cmdVars, faults>>

-----------------------------------------------------------------------------
(* LocalBackend.refresh of one row read earlier. *)

\* Mutant of Recoverable: the run-spec.json is not looked for.
RecoverableBlindly(w) ==
  /\ Queued(w.job)
  /\ \/ w.state = "queued"
     \/ w.state = "starting" /\ w.cmd = NoRunner

\* The branch that can relaunch the runner of a queued job.
Recoverable(w) ==
  /\ Queued(w.job)
  /\ \/ w.state = "queued"
     \/ w.state = "starting" /\ w.cmd = NoRunner
  /\ w.job \in spec

\* Terminal, or one of its processes is alive: the row is returned.
LookSettled(c, w) ==
  /\ pc[c] = "sweep" /\ w \in todo[c]
  /\ w.state \in Terminal \/ Managed(w)
  /\ Refreshed(c, w, w, todo[c] \ {w})
  /\ UNCHANGED <<store, spec, runnerVars, cmdVars, faults>>

Vanished(c, w) ==
  /\ pc[c] = "sweep" /\ w \in todo[c]
  /\ w.state \notin Terminal
  /\ ~Managed(w)

LookRecover(c, w) ==
  /\ Vanished(c, w)
  /\ Recoverable(w)
  /\ Refreshing(c, w, IF w.state = "starting" THEN "requeue" ELSE "spawn")
  /\ UNCHANGED <<store, spec, runnerVars, cmdVars, faults>>

\* The job directory changed within the last second.
LookGrace(c, w) ==
  /\ Vanished(c, w)
  /\ ~Recoverable(w)
  /\ w.cmd # NoRunner
  /\ Refreshed(c, w, w, todo[c] \ {w})
  /\ UNCHANGED <<store, spec, runnerVars, cmdVars, faults>>

LookLost(c, w) ==
  /\ Vanished(c, w)
  /\ ~Recoverable(w)
  /\ Refreshing(c, w, "lose")
  /\ UNCHANGED <<store, spec, runnerVars, cmdVars, faults>>

Lose(c) ==
  /\ pc[c] = "lose"
  /\ SetState(cur[c].job, "lost")
  /\ Refreshed(c, cur[c], NoRow, todo[c])
  /\ UNCHANGED <<spec, runnerVars, cmdVars, faults>>

Requeue(c) ==
  /\ pc[c] = "requeue"
  /\ LET w == cur[c] IN
       \/ /\ RequeueRunner(w.job, w.owner)
          /\ pc' = [pc EXCEPT ![c] = "spawn"]
          /\ cur' = [cur EXCEPT ![c] = [w EXCEPT !.state = "queued"]]
          /\ UNCHANGED <<op, target, sweep, todo, mine, child>>
       \/ /\ ~Requeues(w.job, w.owner)
          /\ Refreshed(c, w, RowOf(w.job), todo[c])
          /\ UNCHANGED store
  /\ UNCHANGED <<spec, runnerVars, cmdVars, faults>>

-----------------------------------------------------------------------------
(* LocalBackend.submit, called by submit and by refresh. *)

Submitting(c) == op[c] = "submit" /\ cur[c].job = target[c]

\* Pids come with start ticks, so a new process has an identity that no row
\* and no client knows.
FreshRunner(r) ==
  /\ rpc[r] = "gone" /\ r \notin live
  /\ \A j \in Jobs : owner[j] # r /\ cmd[j] # r
  /\ \A c \in Clients :
       /\ child[c] # r
       /\ \A w \in todo[c] \cup {mine[c], cur[c]} : w.owner # r /\ w.cmd # r

Spawn(c) ==
  /\ ClientGoes(c, "spawn", "register")
  /\ \E r \in Runners :
       /\ FreshRunner(r)
       /\ rpc' = [rpc EXCEPT ![r] = "boot"]
       /\ rjob' = [rjob EXCEPT ![r] = cur[c].job]
       /\ child' = [child EXCEPT ![c] = r]
  /\ UNCHANGED <<op, target, sweep, todo, mine, cur, store, spec, cmdVars, faults>>

\* Popen of the runner raises: submit reports it, a refresh is given up.
SpawnFails(c) ==
  /\ pc[c] = "spawn"
  /\ Fault("resource")
  /\ IF Submitting(c)
       THEN /\ pc' = [pc EXCEPT ![c] = "fail"]
            /\ UNCHANGED <<op, target, sweep, todo, mine, cur, child>>
       ELSE Refreshed(c, cur[c], NoRow, todo[c])
  /\ UNCHANGED <<store, spec, runnerVars, cmdVars>>

\* A runner that loses the registration is terminated; until it owns the job it
\* only waits, so the signal is one step with the refusal.
Register(c) ==
  /\ pc[c] = "register"
  /\ Queued(cur[c].job)
  /\ LET w == cur[c] IN
       \/ /\ RegisterRunner(w.job, w.owner, child[c])
          /\ UNCHANGED runnerVars
       \/ /\ ~Registers(w.job, w.owner)
          /\ rpc' = [rpc EXCEPT ![child[c]] = "gone"]
          /\ rjob' = [rjob EXCEPT ![child[c]] = NoJob]
          /\ UNCHANGED store
  /\ IF Submitting(c)
       THEN Finish(c)
       ELSE LET w == [RowOf(cur[c].job) EXCEPT !.owner = owner'[cur[c].job]]
            IN  Refreshed(c, cur[c], w, todo[c])
  /\ UNCHANGED <<spec, cmdVars, faults>>

RegisterDirect(c) ==
  /\ ClientGoes(c, "register", "await")
  /\ ~Queued(cur[c].job)
  /\ UpdateOwner(cur[c].job, child[c])
  /\ UNCHANGED <<op, target, sweep, todo, mine, cur, child, spec, runnerVars, cmdVars, faults>>

-----------------------------------------------------------------------------
(* The rest of JobService.submit. *)

Insert(c) ==
  /\ ClientGoes(c, "create", "files")
  /\ Create(target[c])
  /\ cur' = [cur EXCEPT ![c] = [RowOf(target[c]) EXCEPT !.state = state'[target[c]]]]
  /\ UNCHANGED <<op, target, sweep, todo, mine, child, spec, runnerVars, cmdVars, faults>>

Files(c) ==
  /\ ClientGoes(c, "files", "spawn")
  /\ spec' = spec \cup {target[c]}
  /\ UNCHANGED <<op, target, sweep, todo, mine, cur, child, store, runnerVars, cmdVars, faults>>

FilesFail(c) ==
  /\ ClientGoes(c, "files", "fail")
  /\ Fault("resource")
  /\ UNCHANGED <<op, target, sweep, todo, mine, cur, child, store, spec, runnerVars, cmdVars>>

\* A submission without a queue polls the row until the command was started.
Await(c) ==
  /\ pc[c] = "await"
  /\ state[target[c]] \in {"running", "succeeded", "failed", "timed_out", "lost"}
  /\ Finish(c)
  /\ UNCHANGED <<store, spec, runnerVars, cmdVars, faults>>

\* The runner is gone, or four seconds have passed.
AwaitOver(c) ==
  /\ pc[c] = "await"
  /\ \/ Fault("slow")
     \/ ~Alive(child[c]) /\ UNCHANGED faults
  /\ IF state[target[c]] = "starting"
       THEN /\ pc' = [pc EXCEPT ![c] = "fail"]
            /\ UNCHANGED <<op, target, sweep, todo, mine, cur, child>>
       ELSE Finish(c)
  /\ UNCHANGED <<store, spec, runnerVars, cmdVars>>

SubmitFail(c) ==
  /\ pc[c] = "fail"
  /\ SetState(target[c], "failed")
  /\ Finish(c)
  /\ UNCHANGED <<spec, runnerVars, cmdVars, faults>>

-----------------------------------------------------------------------------
(* _apply_stall and cancel. *)

\* The output grew or not: either verdict, written only when it is a change.
Stall(c) ==
  /\ pc[c] = "stall"
  /\ \E desired \in {"running", "stalled"} :
       IF desired # cur[c].state
         THEN SetState(cur[c].job, desired)
         ELSE UNCHANGED store
  /\ Finish(c)
  /\ UNCHANGED <<spec, runnerVars, cmdVars, faults>>

\* The row is cancelled first; the returned row says what is left to stop.
CancelMark(c, j) ==
  /\ ClientGoes(c, "idle", "stop")
  /\ "cancel" \in Roles[c]
  /\ state[j] \in Active
  /\ SetState(j, "cancelled")
  /\ op' = [op EXCEPT ![c] = "cancel"]
  /\ target' = [target EXCEPT ![c] = j]
  /\ cur' = [cur EXCEPT ![c] = [RowOf(j) EXCEPT !.state = "cancelled"]]
  /\ UNCHANGED <<sweep, todo, mine, child, spec, runnerVars, cmdVars, faults>>

CancelStop(c) ==
  /\ pc[c] = "stop"
  /\ LET w == cur[c] IN
       /\ spec' = IF Queued(w.job) /\ w.cmd = NoRunner THEN spec \ {w.job} ELSE spec
       /\ killed' = IF CmdExists(w.cmd) THEN killed \cup {w.cmd} ELSE killed
  /\ Finish(c)
  /\ UNCHANGED <<store, runnerVars, live, launches, faults>>

-----------------------------------------------------------------------------
(* Faults. *)

ClientCrash(c) ==
  /\ pc[c] # "idle"
  /\ Fault("client")
  /\ Finish(c)
  /\ UNCHANGED <<store, spec, runnerVars, cmdVars>>

RunnerCrash(r) ==
  /\ Alive(r)
  /\ Fault("runner")
  /\ rpc' = [rpc EXCEPT ![r] = "gone"]
  /\ rjob' = [rjob EXCEPT ![r] = IF CmdExists(r) THEN @ ELSE NoJob]
  /\ UNCHANGED <<store, spec, cmdVars, clientVars>>

Reboot ==
  /\ Fault("reboot")
  /\ rpc' = [r \in Runners |-> "gone"]
  /\ rjob' = [r \in Runners |-> NoJob]
  /\ live' = {} /\ killed' = {}
  /\ pc' = [c \in Clients |-> "idle"]
  /\ op' = [c \in Clients |-> "none"]
  /\ target' = [c \in Clients |-> NoJob]
  /\ sweep' = [c \in Clients |-> 1]
  /\ todo' = [c \in Clients |-> {}]
  /\ mine' = [c \in Clients |-> NoRow]
  /\ cur' = [c \in Clients |-> NoRow]
  /\ child' = [c \in Clients |-> NoRunner]
  /\ UNCHANGED <<store, spec, launches>>

-----------------------------------------------------------------------------
\* What a client does once its operation has begun.
ClientStep(c) ==
  \/ SweepList(c) \/ SweepEnd(c)
  \/ \E w \in todo[c] : \/ LookSettled(c, w) \/ LookRecover(c, w)
                        \/ LookGrace(c, w) \/ LookLost(c, w)
  \/ Lose(c) \/ Requeue(c) \/ Spawn(c) \/ SpawnFails(c)
  \/ Register(c) \/ RegisterDirect(c)
  \/ Insert(c) \/ Files(c) \/ FilesFail(c) \/ Await(c) \/ AwaitOver(c) \/ SubmitFail(c)
  \/ Stall(c) \/ CancelStop(c)

ClientBegin(c) ==
  \/ ListBegin(c)
  \/ \E j \in Jobs : SubmitBegin(c, j) \/ StatusBegin(c, j) \/ CancelMark(c, j)

Next ==
  \/ \E r \in Runners : RunnerStep(r) \/ OrphanEnds(r) \/ RunnerCrash(r)
  \/ \E c \in Clients : ClientBegin(c) \/ ClientStep(c) \/ ClientCrash(c)
  \/ Reboot

Spec == Init /\ [][Next]_vars

(* Processes that are not killed keep running, and commands that may end   *)
(* do end.  Operations begin when somebody asks for them: none of them     *)
(* must.  A poller meets the one-second grace of refresh only a few times  *)
(* in a row, hence strong fairness of LookLost.                            *)
Fairness ==
  /\ \A r \in Runners : WF_vars(RunnerStep(r) \/ OrphanEnds(r))
  /\ \A c \in Clients :
       /\ WF_vars(ClientStep(c))
       /\ SF_vars(\E w \in todo[c] : LookLost(c, w))

FairSpec == Spec /\ Fairness

-----------------------------------------------------------------------------
(* Admission. *)

Admitted(r) == Alive(r) /\ rpc[r] \notin {"boot", "own", "claim"}

(* A queue never has more slot holders than its concurrency, through       *)
(* crashes of runners, requeued claims and refreshes of outdated rows.     *)
Capacity ==
  \A q \in Queues : Cardinality(Holders(q)) <= Concurrency[q]

(* Of all the runners ever spawned for a queued job at most one has passed *)
(* admission and is alive: recovery may race with recovery, and with the   *)
(* submission itself, but two runners never execute the job side by side.  *)
OneAdmittedRunner ==
  \A r1, r2 \in Runners :
     /\ Admitted(r1) /\ Admitted(r2)
     /\ rjob[r1] = rjob[r2] /\ Queued(rjob[r1])
     => r1 = r2

(* While a job is queued no runner is beyond admission, so cancelling it   *)
(* then prevents its command from starting: the runners that are left find *)
(* the row terminal before they launch anything.                           *)
QueuedIsIdle ==
  \A r \in Runners :
     Admitted(r) /\ Queued(rjob[r]) => state[rjob[r]] # "queued"

(* A queued job that has been given a runner keeps its run-spec.json until *)
(* it leaves the queue; without the file neither the runner could boot nor *)
(* a refresh relaunch it, and the job would end up lost.                   *)
QueuedKeepsSpec ==
  \A j \in Jobs : state[j] = "queued" /\ owner[j] # NoRunner => j \in spec

(* A job whose command was recorded is never sent back to the queue.       *)
NeverRequeuedOnceRunning ==
  [][\A j \in Jobs : state[j] \in {"running", "stalled"}
        => state'[j] \notin {"queued", "starting"}]_vars

-----------------------------------------------------------------------------
(* Commands. *)

(* At most one command is ever started for a job.                          *)
AtMostOneLaunch == \A j \in Jobs : launches[j] <= 1

(* With runners that die, a command is started only while the row names    *)
(* none: it runs a second time only after a runner that died between       *)
(* starting it and recording it (refresh, local.py 94-101).                *)
LaunchedUnrecorded ==
  [][\A j \in Jobs : launches'[j] # launches[j] => cmd[j] = NoRunner]_vars

(* The command of a job that was cancelled or timed out is on its way out: *)
(* it was killed, or the runner or the cancelling client that will kill it *)
(* is still at work, wherever the cancellation hits the launch.            *)
NoStrayCommand ==
  \A r \in live \ killed :
     state[rjob[r]] \in {"cancelled", "timed_out"} =>
       \/ Alive(r) /\ rpc[r] \in {"record", "unlinkAbort", "abort", "expire"}
       \/ \E c \in Clients : pc[c] = "stop" /\ cur[c].cmd = r

-----------------------------------------------------------------------------
(* Progress. *)

Ends(j) == state[j] # "absent" ~> state[j] \in Terminal

(* While nothing fails, every submitted job whose command ends by itself   *)
(* or by its timeout, and that only such jobs precede, reaches a terminal  *)
(* state although nobody needs to wait for it: without a daemon the        *)
(* runners alone move the queue on.                                        *)
EventuallyTerminal ==
  EndlessJobs \subseteq TimedJobs /\ [](faults = 0) => \A j \in Jobs : Ends(j)

(* After crashes too a job reaches one if somebody goes on polling it and  *)
(* the jobs it shares a queue with: unless a command that does not end has *)
(* lost the runner that was to enforce its timeout.                        *)
Polled  == \A c \in Clients, j \in Jobs : SF_vars(StatusBegin(c, j))
Endless == \E r \in live : ~Alive(r) /\ rjob[r] \in EndlessJobs

WatchedEventuallyTerminal == Polled /\ []~Endless => \A j \in Jobs : Ends(j)

-----------------------------------------------------------------------------
Lifecycle == INSTANCE JobLifecycle WITH state <- state, order <- order, feed <- feed

(* The clients, runners and refreshes together implement the lifecycle:    *)
(* every step is one of its transitions or invisible to it.  In particular *)
(* admission is first come first served within the slots, a job succeeds   *)
(* or times out only after it was running, only a claimed job that has not *)
(* started goes back to its queue, and each end issues one event.          *)
ImplementsLifecycle == Lifecycle!Spec
=============================================================================
