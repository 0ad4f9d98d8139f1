----------------------------- MODULE Deliveries -----------------------------
(***************************************************************************)
(* How a result reaches the one who asked for it: the adaptive run that    *)
(* answers inline or detaches (Service.adaptive_wait), the plain wait, the *)
(* run_job tool that blocks, the MCP Task that is polled until it resolves *)
(* (mcp_tasks.py), and `wait --last`, which takes a job from the list of   *)
(* recent jobs that every run writes before it waits.  Clients die,        *)
(* deadlines and task handles run out, and the remote host drops out and   *)
(* comes back.                                                             *)
(*                                                                         *)
(* The jobs themselves do what JobLifecycle promises, which the backends   *)
(* implement; of queued and direct jobs alike, only the moment at which a  *)
(* terminal state is found matters here.                                   *)
(***************************************************************************)
EXTENDS Naturals, FiniteSets, SequencesExt

CONSTANTS
  Jobs, Queues, NoQueue, QueueOf, Concurrency,
  Remote,      \* jobs whose logs and state are read from another host
  Clients, NoClient, NoJob,
  Roles,       \* assignments of a role and a job to each client
  Contents,    \* what the logs of an ended job may hold when they are read
  MaxRecent,   \* length of the list of recent jobs
  MaxFaults    \* bound: clients that die and times the remote host drops out

RoleNames == {"run", "call", "block", "task", "wait", "recover", "cancel"}

ASSUME DeliveryAssumption ==
  /\ Remote \subseteq Jobs /\ NoJob \notin Jobs /\ NoClient \notin Clients
  /\ Roles \subseteq [Clients -> [name : RoleNames, job : Jobs]]
  /\ Contents \cap {"none", "pending", "cancelled", "expired", "error", "acked"} = {}
  /\ MaxRecent \in Nat \ {0} /\ MaxFaults \in Nat

VARIABLES
  state, order, feed,  \* the jobs, see JobLifecycle
  snapshot,  \* the stored result of each job, or "none"
  expired,   \* jobs older than the time to live of their task handle
  up,        \* is the remote host reachable?
  recent,    \* recent-jobs.json
  lock,      \* who holds recent-jobs.json.lock
  role,      \* what each client is, for good
  pc, job, draft, found,
  answer,    \* what a client was told at last
  kept,      \* history: jobs that were written to the list
  faults

Life == INSTANCE JobLifecycle

jobs   == <<state, order, feed>>
world  == <<snapshot, expired, up, faults>>
list   == <<recent, lock, kept>>
client == <<pc, job, draft, found, answer>>
vars   == <<jobs, world, list, role, client>>

Adaptive == {"run", "call"}
Submitters == Adaptive \cup {"block", "task"}
Told == {"pending", "cancelled", "expired", "error", "acked"}

DeliveryTypeOK ==
  /\ snapshot \in [Jobs -> Contents \cup {"none"}]
  /\ \A j \in Jobs : snapshot[j] # "none" => state[j] \in Life!Ended
  /\ expired \subseteq Jobs
  /\ up \in BOOLEAN /\ faults \in 0..MaxFaults
  /\ recent \in Seq(Jobs) /\ IsInjective(recent) /\ Len(recent) <= MaxRecent
  /\ lock \in Clients \cup {NoClient}
  /\ lock # NoClient => pc[lock] = "write"
  /\ role \in Roles
  /\ pc \in [Clients -> {"idle", "record", "write", "handle", "get", "look", "collect",
                         "save", "done", "dead"}]
  /\ job \in [Clients -> Jobs \cup {NoJob}]
  /\ draft \in [Clients -> Seq(Jobs)]
  /\ found \in [Clients -> Contents \cup {"none"}]
  /\ answer \in [Clients -> Contents \cup Told \cup {"none"}]
  /\ kept \subseteq Jobs

Init ==
  /\ Life!Init
  /\ snapshot = [j \in Jobs |-> "none"]
  /\ expired = {}
  /\ up = TRUE /\ faults = 0
  /\ recent = <<>> /\ lock = NoClient /\ kept = {}
  /\ role \in Roles
  /\ pc = [c \in Clients |-> "idle"]
  /\ job = [c \in Clients |-> NoJob]
  /\ draft = [c \in Clients |-> <<>>]
  /\ found = [c \in Clients |-> "none"]
  /\ answer = [c \in Clients |-> "none"]

Goes(c, from, to) ==
  /\ pc[c] = from
  /\ pc' = [pc EXCEPT ![c] = to]

Tells(c, what) == answer' = [answer EXCEPT ![c] = what]

Ended(j) == state[j] \in Life!Ended

\* SSHError: refresh returns a terminal row as it is and asks the host else.
StatusFails(j) == j \in Remote /\ ~up /\ ~Ended(j)

-----------------------------------------------------------------------------
(* The jobs, the host and the clock. *)

JobEnds(j) == Life!Succeed(j) \/ Life!Lose(j)

\* The steps of a job that a waiting client can tell apart: the other
\* outcomes, stalls and a return to the queue it takes as one of these.
JobProceeds(j) ==
  /\ Life!Admit(j) \/ Life!Start(j) \/ JobEnds(j)
  /\ UNCHANGED <<world, list, role, client>>

HostLost ==
  /\ up /\ faults < MaxFaults
  /\ up' = FALSE /\ faults' = faults + 1
  /\ UNCHANGED <<jobs, snapshot, expired, list, role, client>>

HostBack ==
  /\ ~up
  /\ up' = TRUE
  /\ UNCHANGED <<jobs, snapshot, expired, faults, list, role, client>>

\* The task handle of a job reaches its age.
Expire(j) ==
  /\ state[j] # "absent" /\ j \notin expired
  /\ \E c \in Clients : role[c].name \in {"task", "cancel"} /\ role[c].job = j
  /\ expired' = expired \cup {j}
  /\ UNCHANGED <<jobs, snapshot, up, faults, list, role, client>>

-----------------------------------------------------------------------------
(* How a client comes by a job. *)

\* The command line records the job of a run before it waits.
FirstStep(name) ==
  CASE name = "run"  -> "record"
    [] name = "task" -> "handle"
    [] OTHER         -> "look"

\* The row of a new job, behind everything in its queue.
SubmitNew(j) ==
  \/ Life!SubmitDirect(j)
  \/ /\ order' = [order EXCEPT ![j] = 1 + Cardinality({k \in Jobs : state[k] # "absent"})]
     /\ Life!SubmitQueued(j)

\* A job is submitted, or found under the same client_request_id.
Submit(c) ==
  LET j == role[c].job IN
  /\ role[c].name \in Submitters
  /\ Goes(c, "idle", FirstStep(role[c].name))
  /\ job' = [job EXCEPT ![c] = j]
  /\ IF state[j] = "absent" THEN SubmitNew(j) ELSE UNCHANGED jobs
  /\ UNCHANGED <<world, list, role, draft, found, answer>>

\* A wait for a job whose id the client knows.
Ask(c) ==
  LET j == role[c].job IN
  /\ role[c].name = "wait"
  /\ state[j] # "absent"
  /\ Goes(c, "idle", "look")
  /\ job' = [job EXCEPT ![c] = j]
  /\ UNCHANGED <<jobs, world, list, role, draft, found, answer>>

\* wait --last: the newest entry that passes the filters, and its status,
\* which is not retried.
Recover(c) ==
  /\ role[c].name = "recover"
  /\ \E i \in DOMAIN recent :
       LET j == recent[i] IN
       /\ job' = [job EXCEPT ![c] = j]
       /\ IF StatusFails(j) THEN Goes(c, "idle", "done") /\ Tells(c, "error")
                            ELSE Goes(c, "idle", "look") /\ UNCHANGED answer
  /\ UNCHANGED <<jobs, world, list, role, draft, found>>

-----------------------------------------------------------------------------
(* The list of recent jobs. *)

\* Mutant of LockFree: the lock is not taken.
Unlocked == TRUE

LockFree == lock = NoClient

\* flock, and the list as it stands.
Record(c) ==
  /\ LockFree
  /\ Goes(c, "record", "write")
  /\ lock' = c
  /\ draft' = [draft EXCEPT ![c] = recent]
  /\ UNCHANGED <<jobs, world, recent, kept, role, job, found, answer>>

\* The entries of other jobs: the list holds a job once (DeliveryTypeOK).
Others(entries, j) == RemoveFirst(entries, j)
Newest(entries) == SubSeq(entries, 1, IF Len(entries) < MaxRecent THEN Len(entries) ELSE MaxRecent)

\* The file is replaced, the lock released; a run that was recorded begins
\* to wait, one that detached is over.
Write(c) ==
  /\ Goes(c, "write", IF answer[c] = "none" THEN "look" ELSE "done")
  /\ recent' = Newest(<<job[c]>> \o Others(draft[c], job[c]))
  /\ kept' = kept \cup {job[c]}
  /\ lock' = NoClient
  /\ draft' = [draft EXCEPT ![c] = <<>>]
  /\ UNCHANGED <<jobs, world, role, job, found, answer>>

-----------------------------------------------------------------------------
(* Waiting. *)

\* The deadline of an adaptive wait passes: it detaches and is recorded.
Detach(c) ==
  /\ Goes(c, "look", "record")
  /\ role[c].name \in Adaptive
  /\ ~Ended(job[c])
  /\ Tells(c, "pending")
  /\ UNCHANGED <<jobs, world, list, role, job, draft, found>>

\* The timeout of a wait passes, with an unreachable host as well; nothing is
\* recorded. A wait that reports its progress does so by short ones.
TimesOut(c) ==
  /\ Goes(c, "look", "done")
  /\ role[c].name \in {"wait", "recover"}
  /\ ~Ended(job[c])
  /\ Tells(c, "pending")
  /\ UNCHANGED <<jobs, world, list, role, job, draft, found>>

\* Mutant of GivesUp: the error of an unreachable host ends every call.
GivesUpAlways(c) == StatusFails(job[c])

\* An unreachable host ends tasks/get; a wait asks again.
GivesUp(c) == role[c].name = "task" /\ StatusFails(job[c])

\* Mutant of Resolves: only a result ends the polling of a task.
ResolvesCompleted(c) == Ended(job[c]) /\ ~(role[c].name = "task" /\ state[job[c]] = "cancelled")

\* One status call finds the job over.
Resolves(c) == Ended(job[c])

Look(c) ==
  /\ pc[c] = "look"
  /\ \/ /\ GivesUp(c)
        /\ Goes(c, "look", "done")
        /\ Tells(c, "error")
     \/ /\ Resolves(c)
        /\ IF role[c].name = "task" /\ state[job[c]] = "cancelled"
             THEN Goes(c, "look", "done") /\ Tells(c, "cancelled")
             ELSE Goes(c, "look", "collect") /\ UNCHANGED answer
     \/ /\ role[c].name = "task"
        /\ ~Resolves(c) /\ ~GivesUp(c)
        /\ Goes(c, "look", "get")
        /\ UNCHANGED answer
  /\ UNCHANGED <<jobs, world, list, role, job, draft, found>>

\* _terminal_result: the snapshot, or what the logs and artifacts hold now.
\* The error of an unreachable host is not retried here.
Collect(c) ==
  LET j == job[c] IN
  /\ pc[c] = "collect"
  /\ \/ /\ snapshot[j] # "none"
        /\ Goes(c, "collect", "done")
        /\ Tells(c, snapshot[j])
        /\ UNCHANGED found
     \/ /\ snapshot[j] = "none" /\ j \in Remote /\ ~up
        /\ Goes(c, "collect", "done")
        /\ Tells(c, "error")
        /\ UNCHANGED found
     \/ /\ snapshot[j] = "none" /\ (j \notin Remote \/ up)
        /\ Goes(c, "collect", "save")
        /\ \E x \in Contents : found' = [found EXCEPT ![c] = x]
        /\ UNCHANGED answer
  /\ UNCHANGED <<jobs, world, list, role, job, draft>>

\* Mutant of Stored: the newest result wins.
StoredLast(old, new) == new

\* INSERT OR IGNORE, then the row: the first result wins.
Stored(old, new) == IF old = "none" THEN new ELSE old

Save(c) ==
  LET j == job[c] IN
  /\ Goes(c, "save", "done")
  /\ snapshot' = [snapshot EXCEPT ![j] = Stored(@, found[c])]
  /\ Tells(c, snapshot'[j])
  /\ found' = [found EXCEPT ![c] = "none"]
  /\ UNCHANGED <<jobs, expired, up, faults, list, role, job, draft>>

-----------------------------------------------------------------------------
(* Tasks. *)

\* The handle of a new or replayed task, and each tasks/get.
Handle(c, from, to) ==
  /\ pc[c] = from
  /\ IF job[c] \in expired THEN Goes(c, from, "done") /\ Tells(c, "expired")
                           ELSE Goes(c, from, to) /\ UNCHANGED answer
  /\ UNCHANGED <<jobs, world, list, role, job, draft, found>>

CreateTask(c) == Handle(c, "handle", "get")
GetTask(c)    == Handle(c, "get", "look")

\* tasks/cancel: nothing happens to a job that is over.
CancelTask(c) ==
  LET j == role[c].job IN
  /\ role[c].name = "cancel"
  /\ state[j] # "absent"
  /\ Goes(c, "idle", "done")
  /\ job' = [job EXCEPT ![c] = j]
  /\ \/ j \in expired /\ Tells(c, "expired") /\ UNCHANGED jobs
     \/ j \notin expired /\ StatusFails(j) /\ Tells(c, "error") /\ UNCHANGED jobs
     \/ j \notin expired /\ Ended(j) /\ Tells(c, "acked") /\ UNCHANGED jobs
     \/ j \notin expired /\ ~StatusFails(j) /\ Tells(c, "acked") /\ Life!Cancel(j)
  /\ UNCHANGED <<world, list, role, draft, found>>

\* A client is killed; the kernel releases its lock.
Dies(c) ==
  /\ pc[c] \notin {"idle", "done", "dead"}
  /\ faults < MaxFaults
  /\ faults' = faults + 1
  /\ pc' = [pc EXCEPT ![c] = "dead"]
  /\ lock' = IF lock = c THEN NoClient ELSE lock
  /\ UNCHANGED <<jobs, snapshot, expired, up, recent, kept, role, job, draft, found, answer>>

-----------------------------------------------------------------------------
Arrives(c) == Submit(c) \/ Ask(c) \/ Recover(c) \/ CancelTask(c)

ClientStep(c) ==
  \/ Record(c) \/ Write(c) \/ CreateTask(c) \/ GetTask(c)
  \/ Look(c) \/ Detach(c) \/ TimesOut(c) \/ Collect(c) \/ Save(c)

Next ==
  \/ \E c \in Clients : Arrives(c) \/ ClientStep(c) \/ Dies(c)
  \/ \E j \in Jobs : JobProceeds(j) \/ Expire(j)
  \/ HostLost \/ HostBack

Spec == Init /\ [][Next]_vars

\* Clients go on, the host comes back, and every job ends (shown of the
\* backends: EventuallyTerminal, RemoteEventuallyTerminal, PolledEnds).  The
\* lock is granted in some order that leaves nobody out.
FairSpec ==
  /\ Spec
  /\ \A c \in Clients : WF_vars(ClientStep(c)) /\ SF_vars(Record(c))
  /\ \A j \in Jobs : WF_vars(JobEnds(j) /\ UNCHANGED <<world, list, role, client>>)
  /\ WF_vars(HostBack)

-----------------------------------------------------------------------------
\* The state is well typed, and whoever asks, and through whichever surface, is
\* told the same of a job: the stored result, or that its task was cancelled
\* (JOB_PROTOCOL.md, "MUST be replayable from an immutable snapshot").
AnswersAgree ==
  /\ DeliveryTypeOK
  /\ \A c \in Clients :
    /\ answer[c] \in Contents => Ended(job[c]) /\ answer[c] = snapshot[job[c]]
    /\ answer[c] = "cancelled" => state[job[c]] = "cancelled"

\* A run that waits, that was killed while it waited, or that was detached can
\* be recovered from the list, whatever other runs write to it at the same
\* time, until so many newer ones are recorded that it falls off the end.
RunIsRecoverable ==
  /\ kept \subseteq ToSet(recent) \/ Len(recent) = MaxRecent
  /\ \A c \in Clients :
       \/ role[c].name = "run" /\ pc[c] \in {"look", "collect", "save", "done"}
       \/ role[c].name \in Adaptive /\ pc[c] = "done" /\ answer[c] = "pending"
       => job[c] \in kept

\* A wait without a deadline is not ended by an unreachable host while the job
\* runs (the comment in Service.wait); only the collection of the result of an
\* ended job can fail.
OutagesAreRetried ==
  \A c \in Clients :
    role[c].name \in {"block", "wait"} /\ answer[c] = "error" => Ended(job[c])

\* Every call comes back, with a result where nothing else was said: a wait, a
\* blocked run_job, an adaptive run, and the polling of a task.
EventuallyReturns ==
  \A c \in Clients : pc[c] # "idle" ~> pc[c] \in {"done", "dead"}
=============================================================================
