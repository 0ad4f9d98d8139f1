---------------------------- MODULE SlurmBackend ----------------------------
(***************************************************************************)
(* Jobs of a Slurm cluster (backends/slurm.py).  Submission, refresh and   *)
(* cancellation are sequences of separate commands run on the login host:  *)
(* sbatch, squeue, sacct, scancel and sftp.  The scheduler moves on        *)
(* between any two of them, its accounting follows late or never, and any  *)
(* command can fail with or without having had its effect.                 *)
(*                                                                         *)
(* Time only matters for the accounting grace, which is measured from      *)
(* updated_at.  age[j] is what has passed since the last write of the row, *)
(* up to Grace.                                                            *)
(***************************************************************************)
EXTENDS Naturals, FiniteSets

CONSTANTS
  Jobs, NoJob,
  Clients,      \* processes that poll or cancel
  Polls,        \* the jobs each of them polls
  Cancels,      \* the jobs each of them may cancel
  LimitedJobs,  \* jobs with a timeout: their command runs under timeout(1)
  QuietJobs,    \* jobs with a stall timeout that may look silent
  Ends,         \* <<state, exit code>> pairs a job can end with in Slurm
  Grace,        \* slurm_accounting_grace
  Faults,       \* the kinds of fault that may happen
  MaxFaults     \* how many faults may happen (bound)

FaultKinds == {"net", "client", "slurm"}

\* The names Slurm has for a state, one for each group the code tells apart.
Pending  == {"PENDING", "REQUEUED"}
Running  == {"RUNNING"}
Failures == {"FAILED", "NODE_FAIL", "OUT_OF_MEMORY"}
EndNames == {"COMPLETED", "CANCELLED", "TIMEOUT"} \cup Failures

ASSUME SlurmAssumption ==
  /\ NoJob \notin Jobs
  /\ Polls \in [Clients -> SUBSET Jobs] /\ Cancels \in [Clients -> SUBSET Jobs]
  /\ LimitedJobs \subseteq Jobs /\ QuietJobs \subseteq Jobs
  /\ Ends \subseteq EndNames \X Nat
  /\ Grace \in Nat
  /\ Faults \subseteq FaultKinds /\ MaxFaults \in Nat

VARIABLES
  state,   \* the state column of the row
  known,   \* jobs whose backend_id is recorded
  age,     \* time since updated_at, at most Grace
  sub,     \* where the submission of each job is
  sched,   \* what the scheduler did with it: <<state, exit code>>
  books,   \* what the accounting says of it: "none", "live" or "ended"
  pc,      \* what each client is doing,
  target,  \* on which job,
  seenAge, \* how old the row it has read is by now,
  answer,  \* and what it is about to write: a state, or "nothing"
  faults

rows      == <<state, known, age>>
scheduler == <<sched, books>>
clients   == <<pc, target, seenAge, answer>>
vars      == <<rows, sub, scheduler, clients, faults>>

-----------------------------------------------------------------------------
Terminal == {"succeeded", "failed", "cancelled", "timed_out", "lost"}
Active   == {"starting", "queued", "running", "stalled"}

None    == <<"none", 0>>
Name(j) == sched[j][1]
Live(j) == Name(j) \in Pending \cup Running
Over(j) == Name(j) \in EndNames

SlurmTypeOK ==
  /\ state \in [Jobs -> {"absent"} \cup Active \cup Terminal]
  /\ known \subseteq {j \in Jobs : sched[j] # None}
  /\ age \in [Jobs -> 0..Grace]
  /\ sub \in [Jobs -> {"absent", "mkdir", "sbatch", "record", "failing", "done", "dead"}]
  /\ sched \in [Jobs -> {None} \cup ((Pending \cup Running) \X {0}) \cup Ends
                                \cup {<<"CANCELLED", 0>>}]
  /\ books \in [Jobs -> {"none", "live", "ended"}]
  /\ \A j \in Jobs : books[j] = "ended" => Over(j)
  /\ pc \in [Clients -> {"idle", "squeue", "sacct", "apply", "stall", "logs",
                         "scancel", "settle"}]
  /\ target \in [Clients -> Jobs \cup {NoJob}]
  /\ seenAge \in [Clients -> 0..Grace]
  /\ answer \in [Clients -> {"nothing"} \cup Active \cup Terminal]
  /\ faults \in 0..MaxFaults

Init ==
  /\ state = [j \in Jobs |-> "absent"]
  /\ known = {}
  /\ age = [j \in Jobs |-> 0]
  /\ sub = [j \in Jobs |-> "absent"]
  /\ sched = [j \in Jobs |-> None]
  /\ books = [j \in Jobs |-> "none"]
  /\ pc = [c \in Clients |-> "idle"]
  /\ target = [c \in Clients |-> NoJob]
  /\ seenAge = [c \in Clients |-> 0]
  /\ answer = [c \in Clients |-> "nothing"]
  /\ faults = 0

Fault(kind) ==
  /\ kind \in Faults
  /\ faults < MaxFaults
  /\ faults' = faults + 1

\* Store.update_if_active with a state; every write renews updated_at.
UpdateIfActive(j, s) ==
  IF state[j] \in Active
    THEN state' = [state EXCEPT ![j] = s] /\ age' = [age EXCEPT ![j] = 0]
    ELSE UNCHANGED <<state, age>>

-----------------------------------------------------------------------------
(* The scheduler and its accounting. *)

Schedules(j, from, to) ==
  /\ Name(j) \in from
  /\ sched' = [sched EXCEPT ![j] = to]
  /\ UNCHANGED <<rows, sub, books, clients>>

Starts(j)   == Schedules(j, Pending, <<"RUNNING", 0>>) /\ UNCHANGED faults
Requeues(j) == Schedules(j, Running, <<"REQUEUED", 0>>) /\ Fault("slurm")

JobEnds(j, end) ==
  /\ end[2] = 124 => j \in LimitedJobs
  /\ Schedules(j, Running, end)
  /\ UNCHANGED faults

\* Somebody cancels it with the tools of Slurm while it waits.
OperatorCancels(j) == Schedules(j, Pending, <<"CANCELLED", 0>>) /\ Fault("slurm")

\* The accounting notes the start of a job at some time, and its end later.
Books(j) ==
  /\ sched[j] # None
  /\ \/ books[j] = "none" /\ books' = [books EXCEPT ![j] = "live"]
     \/ Over(j) /\ books[j] # "ended" /\ books' = [books EXCEPT ![j] = "ended"]
  /\ UNCHANGED <<rows, sub, sched, clients, faults>>

Older(a) == IF a < Grace THEN a + 1 ELSE a

Tick ==
  /\ age' = [j \in Jobs |-> IF state[j] \in Active THEN Older(age[j]) ELSE age[j]]
  /\ seenAge' = [c \in Clients |-> IF pc[c] \in {"squeue", "sacct"} THEN Older(seenAge[c]) ELSE seenAge[c]]
  /\ UNCHANGED <<state, known, sub, scheduler, pc, target, answer, faults>>

-----------------------------------------------------------------------------
(* Service.submit and SlurmBackend.submit. *)

Reserve(j) ==
  /\ sub[j] = "absent"
  /\ sub' = [sub EXCEPT ![j] = "mkdir"]
  /\ state' = [state EXCEPT ![j] = "starting"]
  /\ UNCHANGED <<known, age, scheduler, clients, faults>>

SubmitGoes(j, from, to) ==
  /\ sub[j] = from
  /\ sub' = [sub EXCEPT ![j] = to]
  /\ UNCHANGED clients

MakeDirectory(j) ==
  /\ \/ SubmitGoes(j, "mkdir", "sbatch") /\ UNCHANGED faults
     \/ SubmitGoes(j, "mkdir", "failing") /\ Fault("net")
  /\ UNCHANGED <<rows, scheduler>>

\* sbatch takes the job, unless it is refused; the answer may get lost.
Sbatch(j) ==
  \/ /\ SubmitGoes(j, "sbatch", "failing")
     /\ Fault("net")
     /\ UNCHANGED <<rows, scheduler>>
  \/ /\ \/ SubmitGoes(j, "sbatch", "record") /\ UNCHANGED faults
        \/ SubmitGoes(j, "sbatch", "failing") /\ Fault("net")
     /\ sched' = [sched EXCEPT ![j] = <<"PENDING", 0>>]
     /\ UNCHANGED <<rows, books>>

\* The scheduler id is recorded with the state, if the row is still active.
Record(j) ==
  /\ SubmitGoes(j, "record", "done")
  /\ known' = IF state[j] \in Active THEN known \cup {j} ELSE known
  /\ UpdateIfActive(j, "queued")
  /\ UNCHANGED <<scheduler, faults>>

SubmitFails(j) ==
  /\ SubmitGoes(j, "failing", "done")
  /\ UpdateIfActive(j, "failed")
  /\ UNCHANGED <<known, scheduler, faults>>

SubmitDies(j) ==
  /\ \E at \in {"mkdir", "sbatch", "record", "failing"} : SubmitGoes(j, at, "dead")
  /\ Fault("client")
  /\ UNCHANGED <<rows, scheduler>>

-----------------------------------------------------------------------------
(* Service.status: refresh, stall detection, logs.  A row that is already  *)
(* terminal only has its byte counts renewed, which is left out.           *)

Goes(c, from, to) ==
  /\ pc[c] = from
  /\ pc' = [pc EXCEPT ![c] = to]
  /\ target' = IF to = "idle" THEN [target EXCEPT ![c] = NoJob] ELSE target
  /\ seenAge' = IF to = "sacct" THEN seenAge ELSE [seenAge EXCEPT ![c] = 0]
  /\ UNCHANGED <<sub, scheduler>>

\* The row is read; without a scheduler id there is nobody to ask.
Poll(c, j) ==
  /\ pc[c] = "idle" /\ j \in Polls[c]
  /\ state[j] \in Active
  /\ pc' = [pc EXCEPT ![c] = IF j \in known THEN "squeue" ELSE "logs"]
  /\ target' = [target EXCEPT ![c] = j]
  /\ seenAge' = [seenAge EXCEPT ![c] = IF j \in known THEN age[j] ELSE 0]
  /\ UNCHANGED <<rows, sub, scheduler, answer, faults>>

\* Mutant of Mapped: a timeout is told by the exit code of timeout(1) alone.
MappedByCode(j, name, code) ==
  CASE name \in Pending     -> "queued"
    [] name \in Running     -> "running"
    [] name = "COMPLETED"   -> IF code = 0 THEN "succeeded" ELSE "failed"
    [] name = "CANCELLED"   -> "cancelled"
    [] code = 124 /\ j \in LimitedJobs -> "timed_out"
    [] name \in Failures    -> "failed"
    [] OTHER                -> "nothing"

\* What _mapped_update makes of a state and an exit code of Slurm.
Mapped(j, name, code) ==
  CASE name \in Pending     -> "queued"
    [] name \in Running     -> "running"
    [] name = "COMPLETED"   -> IF code = 0 THEN "succeeded" ELSE "failed"
    [] name = "CANCELLED"   -> "cancelled"
    [] name = "TIMEOUT" \/ (code = 124 /\ j \in LimitedJobs) -> "timed_out"
    [] name \in Failures    -> "failed"
    [] OTHER                -> "nothing"

Asked(c, from, to, a) ==
  /\ Goes(c, from, to)
  /\ answer' = [answer EXCEPT ![c] = a]
  /\ UNCHANGED <<rows, faults>>

\* The command fails, which ends the status call.
Unanswered(c) ==
  /\ \E at \in {"squeue", "sacct"} : Goes(c, at, "idle")
  /\ Fault("net")
  /\ UNCHANGED <<rows, answer>>

\* Mutant of Squeue: only a running job is taken to be listed.
SqueueRunning(c) ==
  LET j == target[c] IN
  pc[c] = "squeue" /\
  IF Name(j) \in Running
    THEN Asked(c, "squeue", "apply", Mapped(j, Name(j), 0))
    ELSE Asked(c, "squeue", "sacct", "nothing")

Squeue(c) ==
  LET j == target[c] IN
  pc[c] = "squeue" /\
  IF Live(j)
    THEN Asked(c, "squeue", "apply", Mapped(j, Name(j), 0))
    ELSE Asked(c, "squeue", "sacct", "nothing")

\* The grace has run out for the row as it was read.
Expired(c) == seenAge[c] >= Grace

Sacct(c) ==
  LET j == target[c] IN
  pc[c] = "sacct" /\
  Asked(c, "sacct", "apply",
        CASE books[j] = "ended" -> Mapped(j, Name(j), sched[j][2])
          [] books[j] = "live"  -> "running"
          [] OTHER              -> IF Expired(c) THEN "lost" ELSE "nothing")

Apply(c) ==
  LET j == target[c] IN
  /\ pc[c] = "apply"
  /\ IF answer[c] = "nothing" THEN UNCHANGED <<state, age>> ELSE UpdateIfActive(j, answer[c])
  /\ Goes(c, "apply", IF j \in QuietJobs /\ state'[j] \in {"running", "stalled"} THEN "stall" ELSE "logs")
  /\ answer' = [answer EXCEPT ![c] = "nothing"]
  /\ UNCHANGED <<known, faults>>

\* _apply_stall, after refresh: has there been output lately?
Stall(c) ==
  /\ Goes(c, "stall", "logs")
  /\ \/ UNCHANGED <<state, age>>
     \/ \E s \in {"running", "stalled"} : UpdateIfActive(target[c], s)
  /\ UNCHANGED <<known, answer, faults>>

\* read_logs writes what it has counted, which renews updated_at; when the
\* logs cannot be read status goes on without them.
ReadLogs(c) ==
  /\ Goes(c, "logs", "idle")
  /\ \/ age' = [age EXCEPT ![target[c]] = 0] /\ UNCHANGED faults
     \/ UNCHANGED age /\ Fault("net")
  /\ UNCHANGED <<state, known, answer>>

-----------------------------------------------------------------------------
(* Service.cancel and SlurmBackend.cancel. *)

Cancel(c, j) ==
  /\ pc[c] = "idle" /\ j \in Cancels[c]
  /\ state[j] \in Active
  /\ pc' = [pc EXCEPT ![c] = IF j \in known THEN "scancel" ELSE "settle"]
  /\ target' = [target EXCEPT ![c] = j]
  /\ answer' = [answer EXCEPT ![c] = IF j \in known THEN "cancelled" ELSE "lost"]
  /\ UNCHANGED <<rows, sub, scheduler, seenAge, faults>>

\* Mutant of Scancel: a failed command is taken for a cancellation.
ScancelTrusting(c) ==
  LET j == target[c] IN
  /\ pc[c] = "scancel"
  /\ pc' = [pc EXCEPT ![c] = "settle"]
  /\ \/ /\ sched' = [sched EXCEPT ![j] = IF Live(j) THEN <<"CANCELLED", 0>> ELSE @]
        /\ UNCHANGED faults
     \/ Fault("net") /\ UNCHANGED sched
  /\ UNCHANGED <<rows, sub, books, target, seenAge, answer>>

\* scancel; when it fails, with or without effect, so does the cancellation.
Scancel(c) ==
  LET j == target[c]
      Done == sched' = [sched EXCEPT ![j] = IF Live(j) THEN <<"CANCELLED", 0>> ELSE @]
  IN
  /\ pc[c] = "scancel"
  /\ \/ Done /\ pc' = [pc EXCEPT ![c] = "settle"] /\ UNCHANGED <<target, answer, faults>>
     \/ /\ Done \/ UNCHANGED sched
        /\ Fault("net")
        /\ pc' = [pc EXCEPT ![c] = "idle"]
        /\ target' = [target EXCEPT ![c] = NoJob]
        /\ answer' = [answer EXCEPT ![c] = "nothing"]
  /\ UNCHANGED <<rows, sub, books, seenAge>>

Settle(c) ==
  /\ Goes(c, "settle", "idle")
  /\ UpdateIfActive(target[c], answer[c])
  /\ answer' = [answer EXCEPT ![c] = "nothing"]
  /\ UNCHANGED <<known, faults>>

-----------------------------------------------------------------------------
SubmitStep(j) == MakeDirectory(j) \/ Sbatch(j) \/ Record(j) \/ SubmitFails(j)

ClientStep(c) ==
  \/ Squeue(c) \/ Sacct(c) \/ Apply(c) \/ Stall(c) \/ ReadLogs(c)
  \/ Scancel(c) \/ Settle(c)

Next ==
  \/ \E j \in Jobs :
       \/ Reserve(j) \/ SubmitStep(j) \/ SubmitDies(j)
       \/ Starts(j) \/ Requeues(j) \/ OperatorCancels(j) \/ Books(j)
       \/ \E end \in Ends : JobEnds(j, end)
  \/ \E c \in Clients :
       \/ ClientStep(c) \/ Unanswered(c)
       \/ \E j \in Jobs : Poll(c, j) \/ Cancel(c, j)
  \/ Tick

Spec == Init /\ [][Next]_vars

\* A client that has begun a call goes on, a polled job is polled again and
\* again, and the accounting catches up with the scheduler.
Fairness ==
  /\ \A c \in Clients : WF_vars(ClientStep(c)) /\ \A j \in Polls[c] : SF_vars(Poll(c, j))
  /\ \A j \in Jobs : WF_vars(SubmitStep(j)) /\ WF_vars(Books(j))

FairSpec == Spec /\ Fairness

-----------------------------------------------------------------------------
(* Properties. *)

\* The state is well typed, and what a row says of its end fits what the
\* scheduler did, whatever a stale answer, a requeue or a cancellation in
\* between made of the row before: a success or a timeout is the one the job
\* had, a failure with a scheduler id is one of Slurm's, and no job goes on
\* under a cancelled row. Once a submission is over without a crash, a row
\* that is still active can be asked about: its scheduler id is known.
OutcomeAgrees ==
  /\ SlurmTypeOK
  /\ \A j \in Jobs :
    /\ sub[j] = "done" /\ state[j] \in Active => j \in known
    /\ state[j] = "succeeded" => sched[j] = <<"COMPLETED", 0>>
    /\ state[j] = "timed_out" => \/ Name(j) = "TIMEOUT"
                                 \/ sched[j][2] = 124 /\ j \in LimitedJobs
    /\ state[j] = "failed" /\ j \in known => Name(j) \in Failures \cup {"COMPLETED"}
                                               /\ sched[j] # <<"COMPLETED", 0>>
    /\ state[j] = "cancelled" => Over(j)

\* Only a cancellation that finds no scheduler id can give up a job that
\* Slurm still has: polling never does, however slow the accounting is and
\* whatever happens between squeue, sacct and the write.
LostIsOver ==
  [][\A j \in Jobs : state[j] # "lost" /\ state'[j] = "lost" =>
       Over(j) \/ \E c \in Clients : pc[c] = "settle" /\ target[c] = j /\ answer[c] = "lost"]_vars

\* A polled job that has ended in Slurm is terminal in the end.
PolledEnds ==
  \A c \in Clients : \A j \in Polls[c] : (j \in known /\ Over(j)) ~> state[j] \in Terminal
=============================================================================
