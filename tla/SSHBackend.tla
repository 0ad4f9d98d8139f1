----------------------------- MODULE SSHBackend -----------------------------
(***************************************************************************)
(* Jobs on another host (backends/ssh.py).  A submission runs a script on  *)
(* the host that registers the job in a queue kept in files and launches a *)
(* detached wrapper; the wrapper waits for its turn, runs the command and  *)
(* leaves an exit marker; refresh and cancel run scripts that read and     *)
(* write the same files.  Nobody tells the client anything: its row only   *)
(* follows when it looks.  Any answer can get lost, any process can die.   *)
(*                                                                         *)
(* A file of the job directory is a set of jobs (those that have it) or a  *)
(* function of the job.  The slot locks belong to the wrappers beyond      *)
(* admission: the system releases them when the wrapper ends.              *)
(***************************************************************************)
EXTENDS Naturals, FiniteSets

CONSTANTS
  Jobs,
  NoJob,
  QueuedJobs,    \* those submitted to the queue
  Slots,         \* its concurrency file
  Clients,       \* processes that refresh or cancel
  Refreshes,     \* the jobs each of them polls
  Cancels,       \* the jobs each of them may cancel
  EndlessJobs,   \* jobs whose command only ends when it is killed
  TimedJobs,     \* jobs submitted with a timeout
  Codes,         \* exit codes of commands; 124 is that of timeout(1)
  NoCode,        \* no exit_code
  Faults,        \* the kinds of fault that may happen
  MaxFaults      \* how many faults may happen (bound)

FaultKinds == {"answer", "client", "script", "wrapper", "slow"}

ASSUME SSHAssumption ==
  /\ IsFiniteSet(Jobs) /\ NoJob \notin Jobs
  /\ QueuedJobs \subseteq Jobs
  /\ Refreshes \in [Clients -> SUBSET Jobs] /\ Cancels \in [Clients -> SUBSET Jobs]
  /\ EndlessJobs \subseteq Jobs /\ TimedJobs \subseteq Jobs
  /\ Slots \in Nat \ {0}
  /\ Codes \subseteq Nat /\ NoCode \notin Nat
  /\ Faults \subseteq FaultKinds
  /\ MaxFaults \in Nat

VARIABLES
  state,    \* the state column of the row
  sub,      \* the submitting client: "absent", "call", "done"
  scr,      \* its script on the host
  dir,      \* jobs whose directory exists
  ident,    \* how many of pid, pid_start_ticks and pgid are written
  begun,    \* started_at
  exit,     \* exit_code
  mark,     \* cancelled_at
  pending,  \* entries of the pending directory
  ticket,   \* their numbers, 0 before registration
  lock,     \* the job whose script holds dispatch.lock
  wpc,      \* control state of the wrapper
  rc,       \* what its command returned
  cmds,     \* commands that exist
  termed,   \* process groups that were sent SIGTERM, and SIGKILL after the grace
  pc, target, saw, outcome, \* what each client is doing, on which job; its answer
  deaf,     \* clients whose connection broke
  cut,      \* jobs whose cancellation was killed after its marker (for the properties)
  faults

row     == <<state, sub>>
queue   == <<pending, ticket, lock>>
wrapper == <<wpc, rc, cmds>>
clients == <<pc, target, saw, outcome, deaf, cut>>
vars    == <<row, scr, dir, ident, begun, exit, mark, queue, wrapper, termed, clients, faults>>

-----------------------------------------------------------------------------
Terminal == {"succeeded", "failed", "cancelled", "timed_out", "lost"}
Active   == {"starting", "queued", "running"}

NothingSeen == [gone |-> FALSE, begun |-> FALSE, dead |-> FALSE, exit |-> NoCode, mark |-> FALSE]

SSHTypeOK ==
  /\ state \in [Jobs -> {"absent"} \cup Active \cup Terminal]
  /\ sub \in [Jobs -> {"absent", "call", "done"}]
  /\ scr \in [Jobs -> {"none", "start", "register", "launch", "handshake", "answered", "refused"}]
  /\ dir \subseteq Jobs /\ begun \subseteq Jobs /\ mark \subseteq Jobs
  /\ ident \in [Jobs -> 0..3]
  /\ exit \in [Jobs -> Codes \cup {NoCode}]
  /\ ticket \in [Jobs -> Nat]
  /\ \A j \in pending : j \in QueuedJobs /\ ticket[j] > 0
  /\ lock # NoJob => lock \in QueuedJobs /\ scr[lock] \in {"launch", "handshake"}
  /\ wpc \in [Jobs -> {"none", "boot", "admit", "start", "run", "exit", "leave", "gone"}]
  /\ rc \in [Jobs -> Codes \cup {NoCode}]
  /\ cmds \subseteq Jobs /\ termed \subseteq Jobs
  /\ pc \in [Clients -> {"idle", "look", "alive", "exit", "mark", "apply",
                         "check", "verify", "intend", "signal", "wait", "settle"}]
  /\ target \in [Clients -> Jobs \cup {NoJob}]
  /\ outcome \in [Clients -> {"none", "finished", "cancelled", "lost"}]
  /\ deaf \subseteq Clients /\ cut \subseteq Jobs
  /\ faults \in 0..MaxFaults

Init ==
  /\ state = [j \in Jobs |-> "absent"] /\ sub = [j \in Jobs |-> "absent"]
  /\ scr = [j \in Jobs |-> "none"]
  /\ dir = {} /\ begun = {} /\ mark = {}
  /\ ident = [j \in Jobs |-> 0]
  /\ exit = [j \in Jobs |-> NoCode] /\ rc = [j \in Jobs |-> NoCode]
  /\ pending = {} /\ ticket = [j \in Jobs |-> 0] /\ lock = NoJob
  /\ wpc = [j \in Jobs |-> "none"]
  /\ cmds = {} /\ termed = {}
  /\ pc = [c \in Clients |-> "idle"] /\ target = [c \in Clients |-> NoJob]
  /\ saw = [c \in Clients |-> NothingSeen]
  /\ outcome = [c \in Clients |-> "none"]
  /\ deaf = {} /\ cut = {}
  /\ faults = 0

-----------------------------------------------------------------------------
Alive(j)   == wpc[j] \notin {"none", "gone"}
Present(j) == Alive(j) \/ j \in cmds

\* The process group of the wrapper, which is also that of its command unless
\* the command runs under timeout(1), which moves to a group of its own.
Group(j) == Alive(j) \/ j \in cmds \ TimedJobs

Holding   == {j \in QueuedJobs : wpc[j] \in {"start", "run", "exit", "leave"}}

\* What the admission loop of another wrapper takes for a living candidate.
Candidate(j) == ident[j] >= 2 /\ Alive(j)

Fault(kind) ==
  /\ kind \in Faults
  /\ faults < MaxFaults
  /\ faults' = faults + 1

\* Store.update_if_active
UpdateIfActive(j, s) ==
  state' = IF state[j] \in Active THEN [state EXCEPT ![j] = s] ELSE state

-----------------------------------------------------------------------------
(* SSHBackend.submit and its script. *)

Reserve(j) ==
  /\ sub[j] = "absent"
  /\ sub' = [sub EXCEPT ![j] = "call"]
  /\ state' = [state EXCEPT ![j] = IF j \in QueuedJobs THEN "queued" ELSE "starting"]
  /\ scr' = [scr EXCEPT ![j] = "start"]
  /\ UNCHANGED <<dir, ident, begun, exit, mark, queue, wrapper, termed, clients, faults>>

ScriptGoes(j, from, to) ==
  /\ scr[j] = from
  /\ scr' = [scr EXCEPT ![j] = to]
  /\ UNCHANGED <<row, begun, exit, mark, rc, cmds, termed, clients>>

MakeDir(j) ==
  /\ ScriptGoes(j, "start", IF j \in QueuedJobs THEN "register" ELSE "launch")
  /\ dir' = dir \cup {j}
  /\ UNCHANGED <<ident, queue, wpc, faults>>

\* The number after the last one given out, kept in the counter file.
NextTicket == 1 + Cardinality({k \in Jobs : ticket[k] > 0})

\* Mutant of Register: the dispatch lock is given up before the handshake.
RegisterUnlocked(j) ==
  /\ ScriptGoes(j, "register", "launch")
  /\ lock = NoJob
  /\ ticket' = [ticket EXCEPT ![j] = NextTicket]
  /\ pending' = pending \cup {j}
  /\ UNCHANGED <<dir, ident, lock, wpc, faults>>

\* The dispatch lock is taken here and held until the script ends.
Register(j) ==
  /\ ScriptGoes(j, "register", "launch")
  /\ lock = NoJob
  /\ lock' = j
  /\ ticket' = [ticket EXCEPT ![j] = NextTicket]
  /\ pending' = pending \cup {j}
  /\ UNCHANGED <<dir, ident, wpc, faults>>

LaunchWrapper(j) ==
  /\ ScriptGoes(j, "launch", "handshake")
  /\ wpc' = [wpc EXCEPT ![j] = "boot"]
  /\ UNCHANGED <<dir, ident, queue, faults>>

Unlocked(j) == IF lock = j THEN NoJob ELSE lock

\* The identity is complete, and a job without a queue has started.
Answers(j) ==
  /\ ScriptGoes(j, "handshake", "answered")
  /\ ident[j] = 3
  /\ j \in QueuedJobs \/ j \in begun
  /\ lock' = Unlocked(j)
  /\ UNCHANGED <<dir, ident, pending, ticket, wpc, faults>>

\* The script gives up, and its trap takes the entry back; or it is killed.
ScriptFails(j) ==
  /\ \/ /\ ScriptGoes(j, "handshake", "refused")
        /\ \/ wpc[j] = "gone" /\ UNCHANGED faults
           \/ Fault("slow")
        /\ pending' = pending \ {j}
     \/ /\ \E from \in {"start", "register", "launch", "handshake"} :
             ScriptGoes(j, from, "refused")
        /\ Fault("script")
        /\ pending' \in {pending, pending \ {j}}
  /\ lock' = Unlocked(j)
  /\ UNCHANGED <<dir, ident, ticket, wpc>>

\* The local end of the call.
CallEnds(j) ==
  /\ sub[j] = "call"
  /\ sub' = [sub EXCEPT ![j] = "done"]
  /\ UNCHANGED <<scr, dir, ident, begun, exit, mark, queue, wrapper, termed, clients>>

\* A queued job cannot have started: the script still held the dispatch lock.
SubmitAnswered(j) ==
  /\ scr[j] = "answered"
  /\ CallEnds(j)
  /\ UpdateIfActive(j, IF j \in QueuedJobs THEN "queued" ELSE "running")
  /\ UNCHANGED faults

\* An error of the script, or of the connection while the script goes on.
SubmitFails(j) ==
  /\ CallEnds(j)
  /\ \/ scr[j] = "refused" /\ UNCHANGED faults
     \/ Fault("answer")
  /\ UpdateIfActive(j, "failed")

SubmitDies(j) ==
  /\ CallEnds(j)
  /\ Fault("client")
  /\ UNCHANGED state

-----------------------------------------------------------------------------
(* The wrapper. *)

WrapperGoes(j, from, to) ==
  /\ wpc[j] = from
  /\ wpc' = [wpc EXCEPT ![j] = to]
  /\ UNCHANGED <<row, scr, dir, mark, ticket, lock, termed, clients>>

\* pid, pid_start_ticks and pgid, one after the other.
Identify(j) ==
  /\ WrapperGoes(j, "boot", CASE ident[j] < 2 -> "boot"
                              [] j \in QueuedJobs -> "admit"
                              [] OTHER -> "start")
  /\ ident' = [ident EXCEPT ![j] = @ + 1]
  /\ UNCHANGED <<begun, exit, pending, rc, cmds, faults>>

Withdraw(j) ==
  /\ j \in mark
  /\ WrapperGoes(j, "admit", "gone")
  /\ pending' = pending \ {j}
  /\ UNCHANGED <<ident, begun, exit, rc, cmds, faults>>

\* Mutant of Stale: entries of wrappers that are gone are kept.
StaleNever(k) == FALSE /\ k \in pending

\* Entries at the front of the queue whose wrapper cannot be seen.
Stale(k) ==
  \A m \in pending : ticket[m] <= ticket[k] => ~Candidate(m)

\* One pass of the loop, under the dispatch lock: stale entries are dropped;
\* the wrapper whose entry is then first takes a slot if one is free.
AdmissionPass(j) ==
  LET left == {k \in pending : ~Stale(k)} IN
  /\ lock = NoJob
  /\ j \notin termed
  /\ IF /\ j \in left
        /\ \A k \in left : ticket[j] <= ticket[k]
        /\ Cardinality(Holding) < Slots
       THEN /\ WrapperGoes(j, "admit", "start")
            /\ pending' = left \ {j}
       ELSE /\ WrapperGoes(j, "admit", "admit")
            /\ pending' = left
  /\ UNCHANGED <<ident, begun, exit, rc, cmds, faults>>

\* The trap of a wrapper that was signalled ends it before its next command.
Begin(j) ==
  /\ j \notin termed
  /\ WrapperGoes(j, "start", "run")
  /\ begun' = begun \cup {j}
  /\ cmds' = cmds \cup {j}
  /\ UNCHANGED <<ident, exit, pending, rc, faults>>

\* The command ends by itself, or timeout(1) ends it with 124.
CommandEnds(j, x) ==
  /\ j \notin termed
  /\ x = 124 => j \in TimedJobs
  /\ j \in EndlessJobs => x = 124
  /\ WrapperGoes(j, "run", "exit")
  /\ rc' = [rc EXCEPT ![j] = x]
  /\ cmds' = cmds \ {j}
  /\ UNCHANGED <<ident, begun, exit, pending, faults>>

WriteExit(j) ==
  /\ WrapperGoes(j, "exit", "leave")
  /\ exit' = [exit EXCEPT ![j] = rc[j]]
  /\ UNCHANGED <<ident, begun, pending, rc, cmds, faults>>

Leave(j) ==
  /\ WrapperGoes(j, "leave", "gone")
  /\ UNCHANGED <<ident, begun, exit, pending, rc, cmds, faults>>

\* A signalled group ends, the wrapper perhaps before a command that ignores
\* SIGTERM.  On SIGTERM the wrapper takes its entry back, on SIGKILL it does not;
\* either way it writes no marker any more.
GroupDies(j) ==
  /\ j \in termed
  /\ Group(j)
  /\ wpc' = [wpc EXCEPT ![j] = "gone"]
  /\ cmds' \in {cmds, IF j \in TimedJobs THEN cmds ELSE cmds \ {j}}
  /\ pending' \in {pending, pending \ {j}}
  /\ UNCHANGED <<row, scr, dir, ident, begun, exit, mark, ticket, lock, rc, termed, clients, faults>>

WrapperKilled(j) ==
  /\ Alive(j)
  /\ Fault("wrapper")
  /\ wpc' = [wpc EXCEPT ![j] = "gone"]
  /\ UNCHANGED <<row, scr, dir, ident, begun, exit, mark, queue, rc, cmds, termed, clients>>

OrphanEnds(j) ==
  /\ j \in cmds /\ wpc[j] = "gone"
  /\ j \in EndlessJobs => j \in TimedJobs
  /\ cmds' = cmds \ {j}
  /\ UNCHANGED <<row, scr, dir, ident, begun, exit, mark, queue, wpc, rc, termed, clients, faults>>

-----------------------------------------------------------------------------
(* SSHBackend.refresh: the files are read in this order, the markers last. *)

Looks(c, from, to, seen) ==
  /\ pc[c] = from
  /\ pc' = [pc EXCEPT ![c] = to]
  /\ saw' = [saw EXCEPT ![c] = seen]
  /\ UNCHANGED <<row, scr, dir, ident, begun, exit, mark, queue, wrapper, termed,
                 target, outcome, deaf, cut, faults>>

Refresh(c, j) ==
  /\ pc[c] = "idle"
  /\ j \in Refreshes[c]
  /\ state[j] \in Active
  /\ pc' = [pc EXCEPT ![c] = "look"]
  /\ target' = [target EXCEPT ![c] = j]
  /\ UNCHANGED <<row, scr, dir, ident, begun, exit, mark, queue, wrapper, termed,
                 saw, outcome, deaf, cut, faults>>

LookDir(c) ==
  LET j == target[c] IN
  IF j \in dir
    THEN Looks(c, "look", "alive", [NothingSeen EXCEPT !.begun = j \in begun])
    ELSE Looks(c, "look", "apply", [NothingSeen EXCEPT !.gone = TRUE])

Ended(j) == exit[j] # NoCode \/ j \in mark

\* Nothing to look for, a wrapper that is alive, or the heartbeat of one that
\* has died within the last fifteen seconds.
LookAlive(c) ==
  LET j == target[c] IN
  /\ Looks(c, "alive", "exit", saw[c])
  /\ Ended(j) \/ ident[j] = 0 \/ Alive(j) \/ ident[j] = 3

\* The wrapper is gone; the exit marker may yet become visible.
LookDead(c) ==
  LET j == target[c] IN
  /\ Looks(c, "alive", "exit", [saw[c] EXCEPT !.dead = TRUE])
  /\ ~Ended(j) /\ ident[j] > 0 /\ ~Alive(j)

LookExit(c) == Looks(c, "exit", "mark", [saw[c] EXCEPT !.exit = exit[target[c]]])
LookMark(c) == Looks(c, "mark", "apply", [saw[c] EXCEPT !.mark = target[c] \in mark])

\* The call returns to its caller.
Returns(c) ==
  /\ pc' = [pc EXCEPT ![c] = "idle"]
  /\ target' = [target EXCEPT ![c] = NoJob]
  /\ saw' = [saw EXCEPT ![c] = NothingSeen]
  /\ outcome' = [outcome EXCEPT ![c] = "none"]
  /\ deaf' = deaf \ {c}
  /\ UNCHANGED <<sub, scr, dir, ident, begun, exit, mark, queue, wrapper, termed>>

StateOfExit(j, x) ==
  CASE x = 0 -> "succeeded"
    [] x = 124 /\ j \in TimedJobs -> "timed_out"
    [] OTHER -> "failed"

Verdict(j, s) ==
  CASE s.gone            -> "lost"
    [] s.exit # NoCode   -> StateOfExit(j, s.exit)
    [] s.mark            -> "cancelled"
    [] s.dead            -> "lost"
    [] s.begun           -> "running"
    [] OTHER             -> state[j]

Apply(c) ==
  /\ pc[c] = "apply"
  /\ IF c \in deaf
       THEN UNCHANGED state
       ELSE UpdateIfActive(target[c], Verdict(target[c], saw[c]))
  /\ Returns(c)
  /\ UNCHANGED <<cut, faults>>

-----------------------------------------------------------------------------
(* SSHBackend.cancel. *)

Cancel(c, j) ==
  /\ pc[c] = "idle"
  /\ j \in Cancels[c]
  /\ state[j] \in Active
  /\ pc' = [pc EXCEPT ![c] = "check"]
  /\ target' = [target EXCEPT ![c] = j]
  /\ UNCHANGED <<row, scr, dir, ident, begun, exit, mark, queue, wrapper, termed,
                 saw, outcome, deaf, cut, faults>>

CancelGoes(c, from, to, result) ==
  /\ pc[c] = from
  /\ pc' = [pc EXCEPT ![c] = to]
  /\ outcome' = [outcome EXCEPT ![c] = result]
  /\ UNCHANGED <<row, scr, dir, ident, begun, exit, queue, wrapper, target, saw, deaf, cut, faults>>

CancelCheck(c) ==
  LET j == target[c]
      result == CASE j \notin dir     -> "lost"
                  [] exit[j] # NoCode -> "finished"
                  [] j \in mark       -> "cancelled"
                  [] OTHER            -> "none"
  IN  /\ CancelGoes(c, "check", IF result = "none" THEN "verify" ELSE "settle", result)
      /\ UNCHANGED <<mark, termed>>

\* The wrapper may have finished since, and is then taken for a stranger.
CancelVerify(c) ==
  /\ pc[c] = "verify"
  /\ IF ident[target[c]] = 3 /\ Alive(target[c])
       THEN CancelGoes(c, "verify", "intend", "none")
       ELSE CancelGoes(c, "verify", "settle", "lost")
  /\ UNCHANGED <<mark, termed>>

CancelIntend(c) ==
  /\ CancelGoes(c, "intend", "signal", "none")
  /\ mark' = mark \cup {target[c]}
  /\ UNCHANGED termed

\* Mutant of CancelSignal: the group is not signalled while the job waits.
CancelSignalRunning(c) ==
  LET j == target[c] IN
  \/ /\ CancelGoes(c, "signal", "settle", "cancelled")
     /\ exit[j] = NoCode
     /\ termed' = IF wpc[j] = "run" THEN termed \cup {j} ELSE termed
     /\ UNCHANGED mark
  \/ /\ CancelGoes(c, "signal", "settle", IF exit[j] # NoCode THEN "finished" ELSE "lost")
     /\ exit[j] # NoCode \/ ~Group(j)
     /\ mark' = mark \ {j}
     /\ UNCHANGED termed

\* The intent is taken back when the job has finished, or when there is nobody
\* to signal; a child of the heartbeat can outlive the wrapper by two seconds.
CancelSignal(c) ==
  LET j == target[c] IN
  \/ /\ CancelGoes(c, "signal", "wait", "none")
     /\ exit[j] = NoCode
     /\ termed' = termed \cup {j}
     /\ UNCHANGED mark
  \/ /\ CancelGoes(c, "signal", "settle", IF exit[j] # NoCode THEN "finished" ELSE "lost")
     /\ exit[j] # NoCode \/ ~Group(j)
     /\ mark' = mark \ {j}
     /\ UNCHANGED termed

CancelWait(c) ==
  LET j == target[c] IN
  /\ CancelGoes(c, "wait", "settle", IF exit[j] # NoCode THEN "finished" ELSE "cancelled")
  /\ ~Group(j)
  /\ mark' = IF exit[j] # NoCode THEN mark \ {j} ELSE mark
  /\ UNCHANGED termed

\* A job that finished first is refreshed instead.
CancelSettle(c) ==
  LET j == target[c] IN
  /\ pc[c] = "settle"
  /\ IF outcome[c] = "finished" /\ c \notin deaf /\ state[j] \in Active
       THEN CancelGoes(c, "settle", "look", "none") /\ UNCHANGED <<mark, termed>>
       ELSE /\ IF c \in deaf \/ outcome[c] = "finished"
                 THEN UNCHANGED state
                 ELSE UpdateIfActive(j, outcome[c])
            /\ Returns(c)
            /\ UNCHANGED <<cut, faults>>

\* The script is killed before it has an outcome, and the call raises.  A marker
\* it has written stays, and of its signals those that it has sent.
CancelKilled(c) ==
  /\ pc[c] \in {"check", "verify", "intend", "signal", "wait"}
  /\ Fault("script")
  /\ cut' = IF pc[c] \in {"signal", "wait"} THEN cut \cup {target[c]} ELSE cut
  /\ Returns(c)
  /\ UNCHANGED state

\* The connection of c breaks: its script runs on, but nobody hears the answer.
AnswerLost(c) ==
  /\ pc[c] # "idle" /\ c \notin deaf
  /\ Fault("answer")
  /\ deaf' = deaf \cup {c}
  /\ UNCHANGED <<row, scr, dir, ident, begun, exit, mark, queue, wrapper, termed,
                 pc, target, saw, outcome, cut>>

-----------------------------------------------------------------------------
SubmitStep(j) ==
  \/ MakeDir(j) \/ Register(j) \/ LaunchWrapper(j) \/ Answers(j) \/ ScriptFails(j)
  \/ SubmitAnswered(j) \/ SubmitFails(j) \/ SubmitDies(j)

WrapperStep(j) ==
  \/ Identify(j) \/ Withdraw(j) \/ AdmissionPass(j) \/ Begin(j)
  \/ \E x \in Codes : CommandEnds(j, x)
  \/ WriteExit(j) \/ Leave(j) \/ GroupDies(j)

ClientStep(c) ==
  \/ LookDir(c) \/ LookAlive(c) \/ LookDead(c) \/ LookExit(c) \/ LookMark(c) \/ Apply(c)
  \/ CancelCheck(c) \/ CancelVerify(c) \/ CancelIntend(c) \/ CancelSignal(c) \/ CancelWait(c) \/ CancelSettle(c)

Next ==
  \/ \E j \in Jobs : Reserve(j) \/ SubmitStep(j) \/ WrapperStep(j)
                     \/ WrapperKilled(j) \/ OrphanEnds(j)
  \/ \E c \in Clients : ClientStep(c) \/ AnswerLost(c) \/ CancelKilled(c)
                        \/ \E j \in Jobs : Refresh(c, j) \/ Cancel(c, j)

Spec == Init /\ [][Next]_vars

(* Processes go on; a watched job is refreshed again and again; a heart-   *)
(* beat that nobody touches grows old, so a poller sees it fresh only a    *)
(* few times.  An admission pass that changes nothing is not a step.       *)
Fairness ==
  /\ \A j \in Jobs : WF_vars(SubmitStep(j)) /\ WF_vars(WrapperStep(j)) /\ WF_vars(OrphanEnds(j))
  /\ \A c \in Clients :
       /\ WF_vars(ClientStep(c))
       /\ SF_vars(LookDead(c))
       /\ \A j \in Refreshes[c] : SF_vars(Refresh(c, j))

FairSpec == Spec /\ Fairness

-----------------------------------------------------------------------------
(* First come, first served: no wrapper is admitted while one registered   *)
(* earlier still waits or is still being launched, unless that submission  *)
(* failed.  Wrappers drop every entry at the front whose process they      *)
(* cannot see, so none may meet an entry before its identity is written    *)
(* (ssh.py 119-136, 144-197, 326-337).                                     *)
NoOvertaking ==
  [][\A j, k \in QueuedJobs :
       /\ wpc[j] = "admit" /\ wpc'[j] = "start"
       /\ ticket[k] > 0 /\ scr[k] # "refused" /\ wpc[k] \in {"none", "boot", "admit"}
       => ticket[j] <= ticket[k]]_vars

(* The state is well typed, the dispatch lock is a script's that may hold  *)
(* it, and the command of a job reported as cancelled neither runs on nor  *)
(* is going to run: it and its wrapper are gone, or it finished, or they   *)
(* belong to a group that was signalled or that a script is about to       *)
(* signal, however wrapper, cancellation and refresh meet (ssh.py 277-306, *)
(* 541-558).  Two kinds of job are excepted: one with a timeout, whose     *)
(* command is not in that group, and one whose cancellation script was     *)
(* killed with its marker written and its signals not all sent, for the    *)
(* marker alone makes the next refresh call the job cancelled.             *)
CancelledStops ==
  /\ SSHTypeOK
  /\ \A j \in Jobs \ (TimedJobs \cup cut) : state[j] = "cancelled" =>
       \/ ~Present(j) \/ exit[j] # NoCode
       \/ j \in termed /\ Group(j)
       \/ \E c \in Clients : target[c] = j /\ pc[c] = "signal"

(* A job that somebody polls reaches a terminal state: its turn comes      *)
(* although wrappers ahead of it die, and the end of its wrapper is found  *)
(* out although nobody tells (ssh.py 144-197, 402-455).                    *)
RemoteEventuallyTerminal ==
  \A j \in UNION {Refreshes[c] : c \in Clients} :
    state[j] # "absent" ~> state[j] \in Terminal
=============================================================================
