----------------------------- MODULE SSHProofs -----------------------------
(***************************************************************************)
(* Theorems about jobs on another host, for any number of jobs, clients,   *)
(* slots and faults.                                                       *)
(*                                                                         *)
(* Order of admission: wrappers drop the entries at the front of the queue *)
(* whose process they cannot see.  A job that was registered has either    *)
(* answered, and its identity is complete, or failed, or its script still  *)
(* holds the dispatch lock, and then no wrapper is in its loop.            *)
(*                                                                         *)
(* Cancellation: whatever makes a row cancelled goes back to the marker,   *)
(* which a client writes before it signals.  From then on the group is     *)
(* about to be signalled, was signalled, has gone or has finished, and     *)
(* none of these is ever taken back, even if the marker is.  Only a client *)
(* whose script is killed in between leaves a marker with no signal after  *)
(* it; its job is in cut from then on, and nothing more is said of it.     *)
(***************************************************************************)
EXTENDS SSHBackend, FiniteSetTheorems, TLAPS

Seen == [gone : BOOLEAN, begun : BOOLEAN, dead : BOOLEAN, exit : Codes \cup {NoCode}, mark : BOOLEAN]

-----------------------------------------------------------------------------
(* The inductive invariant. *)

\* Registered, neither failed nor admitted yet.
Waiting(k) ==
  ticket[k] > 0 /\ scr[k] # "refused" /\ wpc[k] \in {"none", "boot", "admit"}

\* How far script, wrapper and files of a job may be apart.
JobOK(k) ==
  /\ sub[k] = "absent" => scr[k] = "none"
  /\ wpc[k] = "none" => ident[k] = 0
  /\ wpc[k] = "none" => k \notin cmds
  /\ wpc[k] = "boot" => ident[k] <= 2
  /\ wpc[k] = "exit" => rc[k] \in Codes
  /\ scr[k] \in {"none", "start", "register", "launch"} => wpc[k] = "none"
  /\ scr[k] \in {"none", "start", "register"} => ticket[k] = 0
  /\ scr[k] = "register" => k \in QueuedJobs
  /\ k \in QueuedJobs /\ scr[k] \in {"launch", "handshake"} => lock = k
  /\ scr[k] = "answered" => ident[k] = 3
  /\ k \in QueuedJobs /\ Waiting(k) => k \in pending

ClientOK(c) ==
  /\ saw[c] \in Seen
  /\ pc[c] # "idle" => target[c] \in Jobs
  /\ pc[c] = "idle" => ~saw[c].mark /\ outcome[c] # "cancelled"
  /\ pc[c] \in {"intend", "signal", "wait"} => wpc[target[c]] # "none"
  /\ pc[c] = "settle" => outcome[c] # "none"

\* What a row becomes cancelled from.
Source(k) ==
  \/ state[k] = "cancelled"
  \/ k \in mark
  \/ \E c \in Clients : target[c] = k /\ (saw[c].mark \/ outcome[c] = "cancelled")

Signalling(k) == \E c \in Clients : target[c] = k /\ pc[c] = "signal"

Halting(k) ==
  /\ wpc[k] # "none"
  /\ ~Present(k) \/ exit[k] # NoCode \/ k \in termed \/ Signalling(k)

SSHInv ==
  /\ SSHTypeOK
  /\ saw \in [Clients -> Seen]
  /\ \A k \in Jobs : JobOK(k)
  /\ \A c \in Clients : ClientOK(c)
  /\ \A k \in Jobs \ (TimedJobs \cup cut) : Source(k) => Halting(k)

LEMMA SSHInvInit == Init => SSHInv
<1> SUFFICES ASSUME Init PROVE SSHInv
  OBVIOUS
<1>1. SSHTypeOK
  BY SSHAssumption DEF Init, SSHTypeOK
<1>2. NothingSeen \in Seen /\ NothingSeen.mark = FALSE
  BY DEF NothingSeen, Seen
<1>3. saw \in [Clients -> Seen]
  BY <1>2 DEF Init
<1>4. ASSUME NEW k \in Jobs PROVE JobOK(k)
  BY <1>4 DEF Init, JobOK, Waiting
<1>5. ASSUME NEW c \in Clients PROVE ClientOK(c)
  BY <1>2, <1>5 DEF Init, ClientOK
<1>6. ASSUME NEW k \in Jobs PROVE ~Source(k)
  BY <1>2, <1>6 DEF Init, Source
<1>7. QED
  BY <1>1, <1>3, <1>4, <1>5, <1>6 DEF SSHInv

-----------------------------------------------------------------------------
(* Types. *)

LEMMA TicketType ==
  ASSUME SSHTypeOK
  PROVE  NextTicket \in Nat /\ NextTicket > 0
<1>1. IsFiniteSet({k \in Jobs : ticket[k] > 0})
  BY SSHAssumption, FS_Subset
<1>2. Cardinality({k \in Jobs : ticket[k] > 0}) \in Nat
  BY <1>1, FS_CardinalityType
<1>3. QED
  BY <1>2 DEF NextTicket

LEMMA UpdateType ==
  ASSUME state \in [Jobs -> {"absent"} \cup Active \cup Terminal], NEW j \in Jobs,
         NEW s \in Active \cup Terminal, UpdateIfActive(j, s)
  PROVE  state' \in [Jobs -> {"absent"} \cup Active \cup Terminal]
BY DEF UpdateIfActive

LEMMA FaultType == ASSUME SSHTypeOK, NEW kind, Fault(kind) PROVE faults' \in 0..MaxFaults
BY SSHAssumption DEF Fault, SSHTypeOK

Types == SSHTypeOK /\ saw \in [Clients -> Seen]

LEMMA SubmitTypes ==
  ASSUME SSHInv, NEW j \in Jobs, Reserve(j) \/ SubmitStep(j)
  PROVE  Types'
<1>1. Types /\ JobOK(j)
  BY DEF SSHInv, Types
<1>2. {"queued", "starting", "running", "failed"} \subseteq Active \cup Terminal
  BY DEF Active, Terminal
<1> USE DEF Types, SSHTypeOK
<1>3. CASE Reserve(j)
  <2>1. lock # j
    BY <1>1, <1>3, SSHAssumption DEF Reserve, JobOK
  <2>2. state' \in [Jobs -> {"absent"} \cup Active \cup Terminal]
    BY <1>1, <1>2, <1>3 DEF Reserve
  <2>3. sub' \in [Jobs -> {"absent", "call", "done"}]
        /\ scr' \in [Jobs -> {"none", "start", "register", "launch", "handshake", "answered", "refused"}]
    BY <1>1, <1>3 DEF Reserve
  <2>4. lock # NoJob => scr'[lock] = scr[lock]
    BY <1>1, <1>3, <2>1, SSHAssumption DEF Reserve
  <2>5. UNCHANGED <<dir, ident, begun, exit, mark, pending, ticket, lock, wpc, rc, cmds, termed,
                    pc, target, saw, outcome, deaf, cut, faults>>
    BY <1>3 DEF Reserve, queue, wrapper, clients
  <2>6. QED
    BY <1>1, <2>2, <2>3, <2>4, <2>5
<1>4. CASE MakeDir(j)
  BY <1>1, <1>4 DEF MakeDir, ScriptGoes, row, queue, clients
<1>5. CASE Register(j)
  BY <1>1, <1>5, TicketType DEF Register, ScriptGoes, row, clients, JobOK
<1>6. CASE LaunchWrapper(j)
  BY <1>1, <1>6 DEF LaunchWrapper, ScriptGoes, row, queue, clients
<1>7. CASE Answers(j)
  BY <1>1, <1>7 DEF Answers, ScriptGoes, Unlocked, row, clients
<1>8. CASE ScriptFails(j)
  <2>1. PICK from : ScriptGoes(j, from, "refused")
    BY <1>8 DEF ScriptFails
  <2>2. pending' \subseteq pending /\ faults' \in 0..MaxFaults
    BY <1>1, <1>8, FaultType DEF ScriptFails
  <2>3. lock' # NoJob => lock' = lock /\ lock # j
    BY <1>8 DEF ScriptFails, Unlocked
  <2>4. scr' \in [Jobs -> {"none", "start", "register", "launch", "handshake", "answered", "refused"}]
    BY <1>1, <2>1 DEF ScriptGoes
  <2>5. lock' # NoJob => lock' \in QueuedJobs /\ scr'[lock'] = scr[lock]
    BY <1>1, <2>1, <2>3, SSHAssumption DEF ScriptGoes
  <2>6. UNCHANGED <<state, sub, dir, ident, begun, exit, mark, ticket, wpc, rc, cmds, termed,
                    pc, target, saw, outcome, deaf, cut>>
    BY <1>8, <2>1 DEF ScriptFails, ScriptGoes, row, clients
  <2>7. QED
    BY <1>1, <2>2, <2>3, <2>4, <2>5, <2>6
<1>9. CASE SubmitAnswered(j)
  BY <1>1, <1>2, <1>9, UpdateType DEF SubmitAnswered, CallEnds, queue, wrapper, clients
<1>10. CASE SubmitFails(j)
  BY <1>1, <1>2, <1>10, UpdateType, FaultType DEF SubmitFails, CallEnds, queue, wrapper, clients
<1>11. CASE SubmitDies(j)
  BY <1>1, <1>2, <1>11, FaultType DEF SubmitDies, CallEnds, queue, wrapper, clients
<1>12. QED
  BY <1>3, <1>4, <1>5, <1>6, <1>7, <1>8, <1>9, <1>10, <1>11 DEF SubmitStep

LEMMA WrapperTypes ==
  ASSUME SSHInv, NEW j \in Jobs, WrapperStep(j) \/ WrapperKilled(j) \/ OrphanEnds(j)
  PROVE  Types'
<1>1. Types /\ JobOK(j)
  BY DEF SSHInv, Types
<1> USE DEF Types, SSHTypeOK
<1>2. CASE Identify(j)
  <2>1. ident[j] \in 0..2
    BY <1>1, <1>2 DEF Identify, WrapperGoes, JobOK
  <2>2. ident' \in [Jobs -> 0..3]
    BY <1>1, <1>2, <2>1 DEF Identify
  <2>3. wpc' \in [Jobs -> {"none", "boot", "admit", "start", "run", "exit", "leave", "gone"}]
    BY <1>1, <1>2 DEF Identify, WrapperGoes
  <2>4. QED
    BY <1>1, <1>2, <2>2, <2>3 DEF Identify, WrapperGoes, row, clients
<1>3. CASE Withdraw(j)
  BY <1>1, <1>3 DEF Withdraw, WrapperGoes, row, clients
<1>4. CASE AdmissionPass(j)
  <2>1. pending' \subseteq pending
    BY <1>4 DEF AdmissionPass
  <2>2. \E to \in {"start", "admit"} : WrapperGoes(j, "admit", to)
    BY <1>4 DEF AdmissionPass
  <2>3. UNCHANGED <<ident, begun, exit, rc, cmds, faults>>
    BY <1>4 DEF AdmissionPass
  <2>4. QED
    BY <1>1, <2>1, <2>2, <2>3 DEF WrapperGoes, row, clients
<1>5. CASE Begin(j)
  BY <1>1, <1>5 DEF Begin, WrapperGoes, row, clients
<1>6. ASSUME NEW x \in Codes, CommandEnds(j, x) PROVE Types'
  BY <1>1, <1>6 DEF CommandEnds, WrapperGoes, row, clients
<1>7. CASE WriteExit(j)
  BY <1>1, <1>7 DEF WriteExit, WrapperGoes, row, clients
<1>8. CASE Leave(j)
  BY <1>1, <1>8 DEF Leave, WrapperGoes, row, clients
<1>9. CASE GroupDies(j)
  BY <1>1, <1>9 DEF GroupDies, row, clients
<1>10. CASE WrapperKilled(j)
  BY <1>1, <1>10, FaultType DEF WrapperKilled, row, queue, clients
<1>11. CASE OrphanEnds(j)
  BY <1>1, <1>11 DEF OrphanEnds, row, queue, clients
<1>12. QED
  BY <1>2, <1>3, <1>4, <1>5, <1>6, <1>7, <1>8, <1>9, <1>10, <1>11 DEF WrapperStep

LEMMA ReturnsTypes ==
  ASSUME Types, NEW c \in Clients, Returns(c), cut' \subseteq Jobs, faults' \in 0..MaxFaults,
         state' \in [Jobs -> {"absent"} \cup Active \cup Terminal]
  PROVE  Types'
<1>1. NothingSeen \in Seen
  BY DEF NothingSeen, Seen
<1>2. QED
  BY <1>1 DEF Returns, Types, SSHTypeOK, queue, wrapper

LEMMA CancelGoesTypes ==
  ASSUME Types, NEW c \in Clients, NEW from,
         NEW to \in {"verify", "intend", "signal", "wait", "settle", "look"},
         NEW result \in {"none", "finished", "cancelled", "lost"},
         CancelGoes(c, from, to, result), mark' \subseteq Jobs, termed' \subseteq Jobs
  PROVE  Types'
BY DEF CancelGoes, Types, SSHTypeOK, row, queue, wrapper

LEMMA LooksTypes ==
  ASSUME Types, NEW c \in Clients, NEW from, NEW to \in {"alive", "exit", "mark", "apply"},
         NEW seen \in Seen, Looks(c, from, to, seen)
  PROVE  Types'
BY DEF Looks, Types, SSHTypeOK, row, queue, wrapper

LEMMA MembershipType == ASSUME NEW x, NEW S PROVE (x \in S) \in BOOLEAN
OBVIOUS

LEMMA ClientTypes ==
  ASSUME SSHInv, NEW c \in Clients,
         \/ ClientStep(c) \/ AnswerLost(c) \/ CancelKilled(c)
         \/ \E j \in Jobs : Refresh(c, j) \/ Cancel(c, j)
  PROVE  Types'
<1>1. Types /\ ClientOK(c) /\ saw[c] \in Seen
  BY DEF SSHInv, Types
<1>2. \A seen \in Seen :
        /\ [seen EXCEPT !.dead = TRUE] \in Seen
        /\ \A x \in Codes \cup {NoCode} : [seen EXCEPT !.exit = x] \in Seen
        /\ \A b \in BOOLEAN : [seen EXCEPT !.mark = b] \in Seen
  BY DEF Seen
<1>3. /\ \A b \in BOOLEAN : [NothingSeen EXCEPT !.begun = b] \in Seen
      /\ [NothingSeen EXCEPT !.gone = TRUE] \in Seen
  BY DEF NothingSeen, Seen
<1>4. pc[c] # "idle" => target[c] \in Jobs /\ exit[target[c]] \in Codes \cup {NoCode}
  BY <1>1 DEF ClientOK, Types, SSHTypeOK
<1>5. CASE LookDir(c)
  <2>1. PICK b \in BOOLEAN : b = (target[c] \in begun)
    BY MembershipType
  <2>2. PICK seen : seen = [NothingSeen EXCEPT !.begun = target[c] \in begun]
    OBVIOUS
  <2>3. seen = [NothingSeen EXCEPT !.begun = b]
    BY <2>1, <2>2
  <2>4. seen \in Seen
    BY <1>3, <2>1, <2>3
  <2>5. CASE target[c] \in dir
    BY <1>1, <1>5, <2>2, <2>4, <2>5, LooksTypes DEF LookDir
  <2>6. CASE target[c] \notin dir
    BY <1>1, <1>3, <1>5, <2>6, LooksTypes DEF LookDir
  <2>7. QED
    BY <2>5, <2>6
<1>6. CASE LookAlive(c) \/ LookDead(c)
  BY <1>1, <1>2, <1>6, LooksTypes DEF LookAlive, LookDead
<1>7. CASE LookExit(c)
  <2>1. PICK seen : seen = [saw[c] EXCEPT !.exit = exit[target[c]]]
    OBVIOUS
  <2>2. seen \in Seen /\ Looks(c, "exit", "mark", seen)
    BY <1>1, <1>2, <1>4, <1>7, <2>1 DEF LookExit, Looks
  <2>3. QED
    BY <1>1, <2>2, LooksTypes
<1>8. CASE LookMark(c)
  <2>1. PICK seen : seen = [saw[c] EXCEPT !.mark = target[c] \in mark]
    OBVIOUS
  <2>2. PICK b \in BOOLEAN : b = (target[c] \in mark)
    BY MembershipType
  <2>3. seen = [saw[c] EXCEPT !.mark = b]
    BY <2>1, <2>2
  <2>4. seen \in Seen
    BY <1>1, <1>2, <2>2, <2>3
  <2>5. Looks(c, "mark", "apply", seen)
    BY <1>8, <2>1 DEF LookMark
  <2>6. QED
    BY <1>1, <2>4, <2>5, LooksTypes
<1>9. CASE Apply(c)
  <2>1. state \in [Jobs -> {"absent"} \cup Active \cup Terminal] /\ target[c] \in Jobs
    BY <1>1, <1>4, <1>9 DEF Apply, Types, SSHTypeOK
  <2>2. state' \in [Jobs -> {"absent"} \cup Active \cup Terminal]
    <3>1. CASE UNCHANGED state
      BY <2>1, <3>1
    <3>2. CASE UpdateIfActive(target[c], Verdict(target[c], saw[c])) /\ state[target[c]] \in Active
      <4>1. Verdict(target[c], saw[c]) \in Active \cup Terminal
        BY <3>2 DEF Verdict, StateOfExit, Active, Terminal
      <4>2. QED
        BY <2>1, <3>2, <4>1, UpdateType
    <3>3. CASE UpdateIfActive(target[c], Verdict(target[c], saw[c])) /\ state[target[c]] \notin Active
      BY <2>1, <3>3 DEF UpdateIfActive
    <3>4. QED
      BY <1>9, <3>1, <3>2, <3>3 DEF Apply
  <2>3. QED
    BY <1>1, <1>9, <2>2, ReturnsTypes DEF Apply, Types, SSHTypeOK
<1>10. mark \subseteq Jobs /\ termed \subseteq Jobs
  BY <1>1 DEF Types, SSHTypeOK
<1>11. CASE CancelCheck(c)
  <2>1. PICK result \in {"none", "finished", "cancelled", "lost"}, to \in {"verify", "settle"} :
           CancelGoes(c, "check", to, result) /\ UNCHANGED <<mark, termed>>
    BY <1>11 DEF CancelCheck
  <2>2. QED
    BY <1>1, <1>10, <2>1, CancelGoesTypes
<1>12. CASE CancelVerify(c)
  BY <1>1, <1>10, <1>12, CancelGoesTypes DEF CancelVerify
<1>13. CASE CancelIntend(c)
  <2>1. mark' \subseteq Jobs
    BY <1>4, <1>10, <1>13 DEF CancelIntend, CancelGoes
  <2>2. QED
    BY <1>1, <1>10, <1>13, <2>1, CancelGoesTypes DEF CancelIntend
<1>14. CASE CancelSignal(c)
  <2>1. mark' \subseteq Jobs /\ termed' \subseteq Jobs
    BY <1>4, <1>10, <1>14 DEF CancelSignal, CancelGoes
  <2>2. QED
    BY <1>1, <1>14, <2>1, CancelGoesTypes DEF CancelSignal
<1>15. CASE CancelWait(c)
  <2>1. mark' \subseteq Jobs /\ termed' \subseteq Jobs
    BY <1>10, <1>15 DEF CancelWait
  <2>2. QED
    BY <1>1, <1>15, <2>1, CancelGoesTypes DEF CancelWait
<1>16. CASE CancelSettle(c)
  <2>1. CASE CancelGoes(c, "settle", "look", "none") /\ UNCHANGED <<mark, termed>>
    BY <1>1, <1>10, <2>1, CancelGoesTypes
  <2>2. CASE /\ Returns(c) /\ UNCHANGED <<cut, faults>>
             /\ UNCHANGED state \/ (outcome[c] # "finished" /\ UpdateIfActive(target[c], outcome[c]))
    <3>1. state \in [Jobs -> {"absent"} \cup Active \cup Terminal] /\ target[c] \in Jobs
          /\ outcome[c] \in {"none", "finished", "cancelled", "lost"}
      BY <1>1, <1>4, <1>16 DEF CancelSettle, Types, SSHTypeOK
    <3>2. outcome[c] # "finished" => outcome[c] \in Active \cup Terminal
      BY <1>1, <1>16, <3>1 DEF CancelSettle, ClientOK, Terminal
    <3>3. state' \in [Jobs -> {"absent"} \cup Active \cup Terminal]
      BY <2>2, <3>1, <3>2, UpdateType
    <3>4. QED
      BY <1>1, <2>2, <3>3, ReturnsTypes DEF Types, SSHTypeOK
  <2>3. QED
    BY <1>16, <2>1, <2>2 DEF CancelSettle
<1>17. CASE AnswerLost(c)
  BY <1>1, <1>17, FaultType DEF AnswerLost, Types, SSHTypeOK, row, queue, wrapper
<1>18. CASE CancelKilled(c)
  <2>1. cut' \subseteq Jobs /\ faults' \in 0..MaxFaults
    BY <1>1, <1>4, <1>18, FaultType DEF CancelKilled, Types, SSHTypeOK
  <2>2. state' \in [Jobs -> {"absent"} \cup Active \cup Terminal]
    BY <1>1, <1>18 DEF CancelKilled, Types, SSHTypeOK
  <2>3. QED
    BY <1>1, <1>18, <2>1, <2>2, ReturnsTypes DEF CancelKilled
<1>19. ASSUME NEW j \in Jobs, Refresh(c, j) \/ Cancel(c, j) PROVE Types'
  BY <1>1, <1>19 DEF Refresh, Cancel, Types, SSHTypeOK, row, queue, wrapper
<1>20. QED
  BY <1>5, <1>6, <1>7, <1>8, <1>9, <1>11, <1>12, <1>13, <1>14, <1>15, <1>16, <1>17, <1>18, <1>19
     DEF ClientStep

-----------------------------------------------------------------------------
(* Steps on the host: scripts, wrappers, commands.                         *)

HostStep(j) ==
  Reserve(j) \/ SubmitStep(j) \/ WrapperStep(j) \/ WrapperKilled(j) \/ OrphanEnds(j)

\* A job goes on, and nothing that was said of its end is taken back.
Onward(k) ==
  /\ wpc[k] # "none" => wpc'[k] # "none" /\ (Present(k)' => Present(k))
  /\ exit[k] # NoCode => exit'[k] # NoCode
  /\ k \in termed => k \in termed'

LEMMA HostFrame ==
  ASSUME SSHInv, NEW j \in Jobs, HostStep(j)
  PROVE  /\ UNCHANGED <<mark, termed, pc, target, saw, outcome, cut>>
         /\ \A k \in Jobs : state'[k] = "cancelled" => state[k] = "cancelled"
<1>1. state \in [Jobs -> {"absent"} \cup Active \cup Terminal]
  BY DEF SSHInv, SSHTypeOK
<1>2. ASSUME NEW s, s # "cancelled", UpdateIfActive(j, s)
      PROVE  \A k \in Jobs : state'[k] = "cancelled" => state[k] = "cancelled"
  BY <1>1, <1>2 DEF UpdateIfActive
<1>3. CASE Reserve(j)
  BY <1>1, <1>3 DEF Reserve, clients
<1>4. CASE MakeDir(j) \/ Register(j) \/ LaunchWrapper(j) \/ Answers(j) \/ ScriptFails(j)
  <2>1. \E from, to : ScriptGoes(j, from, to)
    BY <1>4 DEF MakeDir, Register, LaunchWrapper, Answers, ScriptFails
  <2>2. QED
    BY <2>1 DEF ScriptGoes, row, clients
<1>5. CASE SubmitAnswered(j)
  BY <1>2, <1>5 DEF SubmitAnswered, CallEnds, clients
<1>6. CASE SubmitFails(j)
  BY <1>2, <1>6 DEF SubmitFails, CallEnds, clients
<1>7. CASE SubmitDies(j)
  BY <1>7 DEF SubmitDies, CallEnds, clients
<1>8. CASE WrapperStep(j)
  <2>1. CASE GroupDies(j)
    BY <2>1 DEF GroupDies, row, clients
  <2>2. CASE ~GroupDies(j)
    <3>1. \E from, to : WrapperGoes(j, from, to)
      BY <1>8, <2>2 DEF WrapperStep, Identify, Withdraw, AdmissionPass, Begin, CommandEnds, WriteExit, Leave
    <3>2. QED
      BY <3>1 DEF WrapperGoes, row, clients
  <2>3. QED
    BY <2>1, <2>2
<1>9. CASE WrapperKilled(j) \/ OrphanEnds(j)
  BY <1>9 DEF WrapperKilled, OrphanEnds, row, clients
<1>10. QED
  BY <1>3, <1>4, <1>5, <1>6, <1>7, <1>8, <1>9 DEF HostStep, SubmitStep

\* The call of the client does not touch the job.
LEMMA CallFrame ==
  ASSUME NEW j, Reserve(j) \/ SubmitAnswered(j) \/ SubmitFails(j) \/ SubmitDies(j)
  PROVE  UNCHANGED <<ident, exit, pending, ticket, lock, wpc, rc, cmds>>
BY DEF Reserve, SubmitAnswered, SubmitFails, SubmitDies, CallEnds, queue, wrapper

LEMMA HostOnward ==
  ASSUME SSHInv, NEW j \in Jobs, HostStep(j), NEW k \in Jobs
  PROVE  Onward(k)
<1>1. /\ wpc \in [Jobs -> {"none", "boot", "admit", "start", "run", "exit", "leave", "gone"}]
      /\ exit \in [Jobs -> Codes \cup {NoCode}] /\ rc \in [Jobs -> Codes \cup {NoCode}]
      /\ JobOK(j)
  BY DEF SSHInv, SSHTypeOK
<1>2. UNCHANGED termed
  BY HostFrame
<1>3. Codes \subseteq Nat /\ NoCode \notin Nat
  BY SSHAssumption
<1> USE DEF Onward, Present, Alive
<1>4. CASE Reserve(j) \/ SubmitAnswered(j) \/ SubmitFails(j) \/ SubmitDies(j)
  BY <1>2, <1>4, CallFrame
<1>5. CASE MakeDir(j) \/ Register(j) \/ Answers(j) \/ ScriptFails(j)
  BY <1>2, <1>5 DEF MakeDir, Register, Answers, ScriptFails, ScriptGoes
<1>6. CASE LaunchWrapper(j)
  BY <1>1, <1>2, <1>6 DEF LaunchWrapper, ScriptGoes, JobOK
<1>7. CASE Identify(j)
  BY <1>1, <1>2, <1>7 DEF Identify, WrapperGoes
<1>8. CASE Withdraw(j) \/ Leave(j) \/ Begin(j)
  BY <1>1, <1>2, <1>8 DEF Withdraw, Leave, Begin, WrapperGoes
<1>9. CASE AdmissionPass(j)
  <2>1. \E to \in {"start", "admit"} : WrapperGoes(j, "admit", to)
    BY <1>9 DEF AdmissionPass
  <2>2. UNCHANGED <<exit, cmds>>
    BY <1>9 DEF AdmissionPass
  <2>3. QED
    BY <1>1, <1>2, <2>1, <2>2 DEF WrapperGoes
<1>10. ASSUME NEW x \in Codes, CommandEnds(j, x) PROVE Onward(k)
  BY <1>1, <1>2, <1>10 DEF CommandEnds, WrapperGoes
<1>11. CASE WriteExit(j)
  BY <1>1, <1>2, <1>3, <1>11 DEF WriteExit, WrapperGoes, JobOK
<1>12. CASE GroupDies(j)
  BY <1>1, <1>2, <1>12 DEF GroupDies
<1>13. CASE WrapperKilled(j) \/ OrphanEnds(j)
  BY <1>1, <1>2, <1>13 DEF WrapperKilled, OrphanEnds
<1>14. QED
  BY <1>4, <1>5, <1>6, <1>7, <1>8, <1>9, <1>10, <1>11, <1>12, <1>13
     DEF HostStep, SubmitStep, WrapperStep

\* When no script holds the dispatch lock, whoever waits can be seen waiting.
LEMMA WaitingIsSeen ==
  ASSUME SSHInv, lock = NoJob, NEW k \in QueuedJobs, Waiting(k)
  PROVE  k \in pending /\ ~Stale(k)
<1>1. /\ k \in Jobs /\ JobOK(k)
      /\ ticket \in [Jobs -> Nat] /\ ident \in [Jobs -> 0..3]
      /\ wpc \in [Jobs -> {"none", "boot", "admit", "start", "run", "exit", "leave", "gone"}]
      /\ scr \in [Jobs -> {"none", "start", "register", "launch", "handshake", "answered", "refused"}]
  BY SSHAssumption DEF SSHInv, SSHTypeOK
<1>2. k \in pending
  BY <1>1 DEF JobOK
<1>3. scr[k] = "answered"
  BY <1>1, SSHAssumption DEF JobOK, Waiting
<1>4. ident[k] = 3 /\ wpc[k] = "admit"
  BY <1>1, <1>3 DEF JobOK, Waiting
<1>5. Candidate(k) /\ ticket[k] <= ticket[k]
  BY <1>1, <1>4 DEF Candidate, Alive
<1>6. QED
  BY <1>2, <1>5 DEF Stale

\* What an admission pass leaves in the queue.
LEMMA PassKeeps ==
  ASSUME SSHInv, NEW j \in Jobs, AdmissionPass(j), NEW k \in QueuedJobs, Waiting(k)
  PROVE  /\ k = j \/ k \in pending'
         /\ k = j /\ wpc'[j] # "start" => k \in pending'
         /\ wpc'[j] = "start" => ticket[j] <= ticket[k]
<1>1. k \in {m \in pending : ~Stale(m)}
  BY WaitingIsSeen DEF AdmissionPass
<1>2. wpc \in [Jobs -> {"none", "boot", "admit", "start", "run", "exit", "leave", "gone"}]
  BY DEF SSHInv, SSHTypeOK
<1>3. QED
  BY <1>1, <1>2 DEF AdmissionPass, WrapperGoes

\* Another job's script or wrapper leaves this one where it is.
LEMMA OtherJobOK ==
  ASSUME SSHInv, NEW j \in Jobs, HostStep(j), NEW k \in Jobs, k # j
  PROVE  JobOK(k)'
<1>1. /\ JobOK(k)
      /\ state \in [Jobs -> {"absent"} \cup Active \cup Terminal]
      /\ sub \in [Jobs -> {"absent", "call", "done"}]
      /\ scr \in [Jobs -> {"none", "start", "register", "launch", "handshake", "answered", "refused"}]
      /\ ident \in [Jobs -> 0..3]
      /\ ticket \in [Jobs -> Nat]
      /\ wpc \in [Jobs -> {"none", "boot", "admit", "start", "run", "exit", "leave", "gone"}]
      /\ rc \in [Jobs -> Codes \cup {NoCode}]
  BY DEF SSHInv, SSHTypeOK
<1>2. /\ sub'[k] = sub[k] /\ scr'[k] = scr[k] /\ ident'[k] = ident[k] /\ ticket'[k] = ticket[k]
      /\ wpc'[k] = wpc[k] /\ rc'[k] = rc[k] /\ (k \in cmds' => k \in cmds)
  <2>1. CASE Reserve(j) \/ SubmitAnswered(j) \/ SubmitFails(j) \/ SubmitDies(j)
    BY <1>1, <2>1 DEF Reserve, SubmitAnswered, SubmitFails, SubmitDies, CallEnds, queue, wrapper
  <2>2. CASE MakeDir(j) \/ Register(j) \/ LaunchWrapper(j) \/ Answers(j) \/ ScriptFails(j)
    BY <1>1, <2>2 DEF MakeDir, Register, LaunchWrapper, Answers, ScriptFails, ScriptGoes, row, queue
  <2>3. CASE Identify(j)
    BY <1>1, <2>3 DEF Identify, WrapperGoes, row
  <2>4. CASE AdmissionPass(j)
    BY <1>1, <2>4 DEF AdmissionPass, WrapperGoes, row
  <2>5. CASE Withdraw(j) \/ Begin(j) \/ WriteExit(j) \/ Leave(j)
    BY <1>1, <2>5 DEF Withdraw, Begin, WriteExit, Leave, WrapperGoes, row
  <2>6. ASSUME NEW x \in Codes, CommandEnds(j, x)
        PROVE  /\ sub'[k] = sub[k] /\ scr'[k] = scr[k] /\ ident'[k] = ident[k] /\ ticket'[k] = ticket[k]
               /\ wpc'[k] = wpc[k] /\ rc'[k] = rc[k] /\ (k \in cmds' => k \in cmds)
    BY <1>1, <2>6 DEF CommandEnds, WrapperGoes, row
  <2>7. CASE GroupDies(j) \/ WrapperKilled(j) \/ OrphanEnds(j)
    BY <1>1, <2>7 DEF GroupDies, WrapperKilled, OrphanEnds, row, queue
  <2>8. QED
    BY <2>1, <2>2, <2>3, <2>4, <2>5, <2>6, <2>7 DEF HostStep, SubmitStep, WrapperStep
<1>3. lock = k => lock' = k
  <2>1. CASE Register(j)
    BY <2>1, SSHAssumption DEF Register
  <2>2. CASE Answers(j) \/ ScriptFails(j)
    BY <2>2 DEF Answers, ScriptFails, Unlocked
  <2>3. CASE UNCHANGED lock
    BY <2>3
  <2>4. Register(j) \/ Answers(j) \/ ScriptFails(j) \/ UNCHANGED lock
    BY DEF HostStep, SubmitStep, WrapperStep, Reserve, MakeDir, LaunchWrapper, SubmitAnswered,
           SubmitFails, SubmitDies, CallEnds, Identify, Withdraw, AdmissionPass, Begin, CommandEnds,
           WriteExit, Leave, GroupDies, WrapperKilled, OrphanEnds, WrapperGoes, queue
  <2>5. QED
    BY <2>1, <2>2, <2>3, <2>4
<1>4. k \in QueuedJobs /\ Waiting(k) /\ k \in pending => k \in pending'
  <2>1. CASE AdmissionPass(j)
    BY <2>1, PassKeeps
  <2>2. CASE ~AdmissionPass(j)
    BY <2>2 DEF HostStep, SubmitStep, WrapperStep, Reserve, MakeDir, Register, LaunchWrapper, Answers,
           ScriptFails, SubmitAnswered, SubmitFails, SubmitDies, CallEnds, Identify, Withdraw, Begin,
           CommandEnds, WriteExit, Leave, GroupDies, WrapperKilled, OrphanEnds, queue
  <2>3. QED
    BY <2>1, <2>2
<1>5. QED
  BY <1>1, <1>2, <1>3, <1>4 DEF JobOK, Waiting

LEMMA OwnJobOK ==
  ASSUME SSHInv, NEW j \in Jobs, HostStep(j)
  PROVE  JobOK(j)'
<1>1. /\ JobOK(j)
      /\ sub \in [Jobs -> {"absent", "call", "done"}]
      /\ scr \in [Jobs -> {"none", "start", "register", "launch", "handshake", "answered", "refused"}]
      /\ ident \in [Jobs -> 0..3]
      /\ ticket \in [Jobs -> Nat]
      /\ wpc \in [Jobs -> {"none", "boot", "admit", "start", "run", "exit", "leave", "gone"}]
      /\ rc \in [Jobs -> Codes \cup {NoCode}]
      /\ j # NoJob /\ (lock = j => j \in QueuedJobs)
  BY SSHAssumption DEF SSHInv, SSHTypeOK
<1> USE DEF JobOK, Waiting
<1>2. CASE Reserve(j)
  BY <1>1, <1>2 DEF Reserve, queue, wrapper
<1>3. CASE MakeDir(j)
  BY <1>1, <1>3 DEF MakeDir, ScriptGoes, row, queue
<1>4. CASE Register(j)
  BY <1>1, <1>4 DEF Register, ScriptGoes, row
<1>5. CASE LaunchWrapper(j)
  BY <1>1, <1>5 DEF LaunchWrapper, ScriptGoes, row, queue
<1>6. CASE Answers(j)
  BY <1>1, <1>6 DEF Answers, ScriptGoes, row
<1>7. CASE ScriptFails(j)
  <2>1. \E from \in {"start", "register", "launch", "handshake"} : ScriptGoes(j, from, "refused")
    BY <1>7 DEF ScriptFails
  <2>2. UNCHANGED <<ident, wpc, cmds>>
    BY <1>7, <2>1 DEF ScriptFails, ScriptGoes
  <2>3. QED
    BY <1>1, <2>1, <2>2 DEF ScriptGoes, row
<1>8. CASE SubmitAnswered(j) \/ SubmitFails(j) \/ SubmitDies(j)
  <2>1. UNCHANGED scr /\ sub'[j] # "absent"
    BY <1>1, <1>8 DEF SubmitAnswered, SubmitFails, SubmitDies, CallEnds
  <2>2. QED
    BY <1>1, <1>8, <2>1, CallFrame
<1>9. CASE Identify(j)
  <2>1. /\ wpc[j] = "boot" /\ ident'[j] = ident[j] + 1 /\ wpc'[j] \in {"boot", "admit", "start"}
        /\ wpc'[j] = "boot" => ident[j] < 2
    BY <1>1, <1>9 DEF Identify, WrapperGoes
  <2>2. UNCHANGED <<sub, scr, ticket, lock, pending, rc, cmds>>
    BY <1>9 DEF Identify, WrapperGoes, row
  <2>3. QED
    BY <1>1, <2>1, <2>2
<1>10. CASE Withdraw(j) \/ Begin(j) \/ WriteExit(j) \/ Leave(j)
  BY <1>1, <1>10 DEF Withdraw, Begin, WriteExit, Leave, WrapperGoes, row
<1>11. CASE AdmissionPass(j)
  <2>1. PICK to \in {"start", "admit"} : WrapperGoes(j, "admit", to)
    BY <1>11 DEF AdmissionPass
  <2>2. wpc[j] = "admit" /\ wpc'[j] = to
    BY <1>1, <2>1 DEF WrapperGoes
  <2>3. UNCHANGED <<sub, scr, ticket, lock, ident, rc, cmds>>
    BY <1>11, <2>1 DEF AdmissionPass, WrapperGoes, row
  <2>4. j \in QueuedJobs /\ Waiting(j) /\ wpc'[j] # "start" => j \in pending'
    BY <1>11, PassKeeps
  <2>5. QED
    BY <1>1, <2>2, <2>3, <2>4
<1>12. ASSUME NEW x \in Codes, CommandEnds(j, x) PROVE JobOK(j)'
  BY <1>1, <1>12 DEF CommandEnds, WrapperGoes, row
<1>13. CASE GroupDies(j)
  BY <1>1, <1>13 DEF GroupDies, Group, Alive, row
<1>14. CASE WrapperKilled(j) \/ OrphanEnds(j)
  BY <1>1, <1>14 DEF WrapperKilled, OrphanEnds, Alive, row, queue
<1>15. QED
  BY <1>2, <1>3, <1>4, <1>5, <1>6, <1>7, <1>8, <1>9, <1>10, <1>11, <1>12, <1>13, <1>14
     DEF HostStep, SubmitStep, WrapperStep

LEMMA HostInv ==
  ASSUME SSHInv, NEW j \in Jobs, HostStep(j)
  PROVE  SSHInv'
<1>1. Types'
  BY SubmitTypes, WrapperTypes DEF HostStep
<1>2. ASSUME NEW k \in Jobs PROVE JobOK(k)'
  BY OtherJobOK, OwnJobOK
<1>3. UNCHANGED <<mark, termed, pc, target, saw, outcome, cut>>
  BY HostFrame
<1>4. ASSUME NEW c \in Clients PROVE ClientOK(c)'
  <2>1. ClientOK(c)
    BY DEF SSHInv
  <2>2. pc[c] \in {"intend", "signal", "wait"} => wpc'[target[c]] # "none"
    <3>1. SUFFICES ASSUME pc[c] \in {"intend", "signal", "wait"} PROVE wpc'[target[c]] # "none"
      OBVIOUS
    <3>2. target[c] \in Jobs /\ wpc[target[c]] # "none"
      BY <2>1, <3>1 DEF ClientOK
    <3>3. QED
      BY <3>2, HostOnward DEF Onward
  <2>3. QED
    BY <1>3, <2>1, <2>2 DEF ClientOK
<1>5. ASSUME NEW k \in Jobs \ (TimedJobs \cup cut'), Source(k)' PROVE Halting(k)'
  <2>1. Source(k)
    BY <1>3, <1>5, HostFrame DEF Source
  <2>2. Halting(k)
    BY <1>3, <2>1 DEF SSHInv
  <2>3. Onward(k)
    BY HostOnward
  <2>4. QED
    BY <1>3, <2>2, <2>3 DEF Halting, Signalling, Onward
<1>6. QED
  BY <1>1, <1>2, <1>4, <1>5 DEF SSHInv, Types

-----------------------------------------------------------------------------
(* Steps of clients.                                                       *)

ClientActs(c) ==
  ClientStep(c) \/ AnswerLost(c) \/ CancelKilled(c) \/ \E j \in Jobs : Refresh(c, j) \/ Cancel(c, j)

\* What a client leaves alone, and that what it takes back is not the signal.
LEMMA ClientFrame ==
  ASSUME NEW c, ClientActs(c)
  PROVE  /\ UNCHANGED <<sub, scr, ident, begun, exit, pending, ticket, lock, wpc, rc, cmds>>
         /\ termed \subseteq termed' /\ cut \subseteq cut'
<1>1. CASE LookDir(c) \/ LookAlive(c) \/ LookDead(c) \/ LookExit(c) \/ LookMark(c)
  <2>1. \E from, to, seen : Looks(c, from, to, seen)
    BY <1>1 DEF LookDir, LookAlive, LookDead, LookExit, LookMark
  <2>2. QED
    BY <2>1 DEF Looks, row, queue, wrapper
<1>2. CASE Apply(c) \/ CancelKilled(c)
  BY <1>2 DEF Apply, CancelKilled, Returns, queue, wrapper
<1>3. CASE CancelCheck(c) \/ CancelVerify(c) \/ CancelIntend(c) \/ CancelSignal(c) \/ CancelWait(c)
  <2>1. \E from, to, result : CancelGoes(c, from, to, result)
    BY <1>3 DEF CancelCheck, CancelVerify, CancelIntend, CancelSignal, CancelWait
  <2>2. termed \subseteq termed'
    BY <1>3 DEF CancelCheck, CancelVerify, CancelIntend, CancelSignal, CancelWait
  <2>3. QED
    BY <2>1, <2>2 DEF CancelGoes, row, queue, wrapper
<1>4. CASE CancelSettle(c)
  BY <1>4 DEF CancelSettle, CancelGoes, Returns, row, queue, wrapper
<1>5. CASE AnswerLost(c) \/ \E j \in Jobs : Refresh(c, j) \/ Cancel(c, j)
  BY <1>5 DEF AnswerLost, Refresh, Cancel, row, queue, wrapper
<1>6. QED
  BY <1>1, <1>2, <1>3, <1>4, <1>5 DEF ClientActs, ClientStep

\* What the other clients are doing stays what it was.
LEMMA OtherClients ==
  ASSUME SSHInv, NEW c \in Clients, ClientActs(c), NEW d \in Clients, d # c
  PROVE  pc'[d] = pc[d] /\ target'[d] = target[d] /\ saw'[d] = saw[d] /\ outcome'[d] = outcome[d]
<1>1. /\ pc \in [Clients -> {"idle", "look", "alive", "exit", "mark", "apply",
                             "check", "verify", "intend", "signal", "wait", "settle"}]
      /\ target \in [Clients -> Jobs \cup {NoJob}]
      /\ outcome \in [Clients -> {"none", "finished", "cancelled", "lost"}]
      /\ saw \in [Clients -> Seen]
  BY DEF SSHInv, SSHTypeOK
<1>2. CASE LookDir(c) \/ LookAlive(c) \/ LookDead(c) \/ LookExit(c) \/ LookMark(c)
  <2>1. PICK from, to, seen : Looks(c, from, to, seen)
    BY <1>2 DEF LookDir, LookAlive, LookDead, LookExit, LookMark
  <2>2. QED
    BY <1>1, <2>1 DEF Looks
<1>3. CASE Apply(c) \/ CancelKilled(c)
  BY <1>1, <1>3 DEF Apply, CancelKilled, Returns
<1>4. CASE CancelCheck(c) \/ CancelVerify(c) \/ CancelIntend(c) \/ CancelSignal(c) \/ CancelWait(c)
  <2>1. PICK from, to, result : CancelGoes(c, from, to, result)
    BY <1>4 DEF CancelCheck, CancelVerify, CancelIntend, CancelSignal, CancelWait
  <2>2. QED
    BY <1>1, <2>1 DEF CancelGoes
<1>5. CASE CancelSettle(c)
  BY <1>1, <1>5 DEF CancelSettle, CancelGoes, Returns
<1>6. CASE AnswerLost(c) \/ \E j \in Jobs : Refresh(c, j) \/ Cancel(c, j)
  BY <1>1, <1>6 DEF AnswerLost, Refresh, Cancel
<1>7. QED
  BY <1>2, <1>3, <1>4, <1>5, <1>6 DEF ClientActs, ClientStep

LEMMA OwnClientOK ==
  ASSUME SSHInv, NEW c \in Clients, ClientActs(c)
  PROVE  ClientOK(c)'
<1>1. /\ ClientOK(c)
      /\ pc \in [Clients -> {"idle", "look", "alive", "exit", "mark", "apply",
                             "check", "verify", "intend", "signal", "wait", "settle"}]
      /\ target \in [Clients -> Jobs \cup {NoJob}]
      /\ outcome \in [Clients -> {"none", "finished", "cancelled", "lost"}]
      /\ saw \in [Clients -> Seen]
  BY DEF SSHInv, SSHTypeOK
<1>2. saw'[c] \in Seen
  BY ClientTypes DEF ClientActs, Types
<1>3. UNCHANGED wpc
  BY ClientFrame
<1>4. ASSUME NEW from, NEW to \in {"alive", "exit", "mark", "apply"}, NEW seen, from # "idle",
             Looks(c, from, to, seen)
      PROVE  ClientOK(c)'
  BY <1>1, <1>2, <1>3, <1>4 DEF Looks, ClientOK
<1>5. CASE LookDir(c) \/ LookAlive(c) \/ LookDead(c) \/ LookExit(c) \/ LookMark(c)
  BY <1>4, <1>5 DEF LookDir, LookAlive, LookDead, LookExit, LookMark
<1>6. ASSUME Returns(c) PROVE ClientOK(c)'
  <2>1. NothingSeen.mark = FALSE
    BY DEF NothingSeen
  <2>2. pc'[c] = "idle" /\ saw'[c] = NothingSeen /\ outcome'[c] = "none"
    BY <1>1, <1>6 DEF Returns
  <2>3. QED
    BY <1>2, <2>1, <2>2 DEF ClientOK
<1>7. ASSUME NEW from, NEW to, NEW result, from # "idle", to # "idle",
             to = "settle" => result # "none",
             to \in {"intend", "signal", "wait"} => wpc[target[c]] # "none",
             CancelGoes(c, from, to, result)
      PROVE  ClientOK(c)'
  BY <1>1, <1>2, <1>3, <1>7 DEF CancelGoes, ClientOK
<1>8. CASE CancelCheck(c)
  BY <1>7, <1>8 DEF CancelCheck
<1>9. CASE CancelVerify(c)
  <2>1. Alive(target[c]) => wpc[target[c]] # "none"
    BY DEF Alive
  <2>2. QED
    BY <1>7, <1>9, <2>1 DEF CancelVerify
<1>10. CASE CancelIntend(c)
  <2>1. wpc[target[c]] # "none"
    BY <1>1, <1>10 DEF CancelIntend, CancelGoes, ClientOK
  <2>2. QED
    BY <1>7, <1>10, <2>1 DEF CancelIntend
<1>11. CASE CancelSignal(c)
  <2>1. wpc[target[c]] # "none"
    BY <1>1, <1>11 DEF CancelSignal, CancelGoes, ClientOK
  <2>2. QED
    BY <1>7, <1>11, <2>1 DEF CancelSignal
<1>12. CASE CancelWait(c)
  BY <1>7, <1>12 DEF CancelWait
<1>13. CASE CancelSettle(c)
  BY <1>6, <1>7, <1>13 DEF CancelSettle
<1>14. CASE Apply(c) \/ CancelKilled(c)
  BY <1>6, <1>14 DEF Apply, CancelKilled
<1>15. CASE AnswerLost(c)
  BY <1>1, <1>3, <1>15 DEF AnswerLost, ClientOK
<1>16. ASSUME NEW j \in Jobs, Refresh(c, j) \/ Cancel(c, j) PROVE ClientOK(c)'
  BY <1>1, <1>2, <1>3, <1>16 DEF Refresh, Cancel, ClientOK
<1>17. QED
  BY <1>5, <1>8, <1>9, <1>10, <1>11, <1>12, <1>13, <1>14, <1>15, <1>16 DEF ClientActs, ClientStep

\* The group about to be signalled is signalled, unless it has ended or the
\* script is killed.
LEMMA SignalSent ==
  ASSUME SSHInv, NEW c \in Clients, ClientActs(c), pc[c] = "signal"
  PROVE  \/ target[c] \in termed' \cup cut' \/ exit[target[c]] # NoCode \/ ~Group(target[c])
         \/ pc'[c] = "signal" /\ target'[c] = target[c]
<1>1. CASE CancelSignal(c)
  BY <1>1 DEF CancelSignal
<1>2. CASE AnswerLost(c)
  BY <1>2 DEF AnswerLost
<1>3. CASE CancelKilled(c)
  BY <1>3 DEF CancelKilled
<1>4. CancelSignal(c) \/ AnswerLost(c) \/ CancelKilled(c)
  BY DEF ClientActs, ClientStep, LookDir, LookAlive, LookDead, LookExit, LookMark, Looks, Apply,
         CancelCheck, CancelVerify, CancelIntend, CancelWait, CancelSettle, CancelGoes, Refresh, Cancel
<1>5. QED
  BY <1>1, <1>2, <1>3, <1>4

LEMMA HaltingKept ==
  ASSUME SSHInv, NEW c \in Clients, ClientActs(c), NEW k \in Jobs \ (TimedJobs \cup cut'), Halting(k)
  PROVE  Halting(k)'
<1>1. UNCHANGED <<wpc, cmds, exit>> /\ termed \subseteq termed'
  BY ClientFrame
<1>2. wpc'[k] # "none"
  BY <1>1 DEF Halting
<1>3. CASE ~Present(k) \/ exit[k] # NoCode \/ k \in termed
  BY <1>1, <1>2, <1>3 DEF Halting, Present, Alive
<1>4. ASSUME NEW d \in Clients, target[d] = k, pc[d] = "signal" PROVE Halting(k)'
  <2>1. CASE d # c
    BY <1>2, <1>4, <2>1, OtherClients DEF Halting, Signalling
  <2>2. CASE d = c
    <3>1. ~Group(k) => ~Present(k)
      BY DEF Group, Present
    <3>2. QED
      BY <1>1, <1>2, <1>4, <2>2, <3>1, SignalSent DEF Halting, Signalling, Present, Alive
  <2>3. QED
    BY <2>1, <2>2
<1>5. QED
  BY <1>3, <1>4 DEF Halting, Signalling

\* A row becomes cancelled by an answer, and an answer comes from the marker.
LEMMA StateTraced ==
  ASSUME SSHInv, NEW c \in Clients, ClientActs(c), NEW k \in Jobs, state'[k] = "cancelled"
  PROVE  Source(k)
<1>1. state \in [Jobs -> {"absent"} \cup Active \cup Terminal]
  BY DEF SSHInv, SSHTypeOK
<1>2. ASSUME NEW s, UpdateIfActive(target[c], s),
             s = "cancelled" /\ target[c] = k /\ state[k] \in Active => Source(k)
      PROVE  Source(k)
  BY <1>1, <1>2 DEF UpdateIfActive, Source
<1>3. CASE UNCHANGED state
  BY <1>3 DEF Source
<1>4. CASE Apply(c)
  <2>1. Verdict(target[c], saw[c]) = "cancelled" /\ state[target[c]] \in Active => saw[c].mark
    BY DEF Verdict, StateOfExit, Active
  <2>2. QED
    BY <1>2, <1>3, <1>4, <2>1 DEF Apply, Source
<1>5. CASE CancelSettle(c)
  BY <1>2, <1>3, <1>5 DEF CancelSettle, CancelGoes, row, Source
<1>6. CASE LookDir(c) \/ LookAlive(c) \/ LookDead(c) \/ LookExit(c) \/ LookMark(c)
  <2>1. \E from, to, seen : Looks(c, from, to, seen)
    BY <1>6 DEF LookDir, LookAlive, LookDead, LookExit, LookMark
  <2>2. QED
    BY <1>3, <2>1 DEF Looks, row
<1>7. CASE CancelCheck(c) \/ CancelVerify(c) \/ CancelIntend(c) \/ CancelSignal(c) \/ CancelWait(c)
  <2>1. \E from, to, result : CancelGoes(c, from, to, result)
    BY <1>7 DEF CancelCheck, CancelVerify, CancelIntend, CancelSignal, CancelWait
  <2>2. QED
    BY <1>3, <2>1 DEF CancelGoes, row
<1>8. CASE AnswerLost(c) \/ CancelKilled(c) \/ \E j \in Jobs : Refresh(c, j) \/ Cancel(c, j)
  BY <1>3, <1>8 DEF AnswerLost, CancelKilled, Refresh, Cancel, row
<1>9. QED
  BY <1>4, <1>5, <1>6, <1>7, <1>8 DEF ClientActs, ClientStep

\* The marker is written by a client that is about to signal.
LEMMA MarkTraced ==
  ASSUME SSHInv, NEW c \in Clients, ClientActs(c), NEW k \in Jobs, k \in mark'
  PROVE  Source(k) \/ Halting(k)'
<1>1. CASE CancelIntend(c)
  <2>1. CASE k \in mark
    BY <2>1 DEF Source
  <2>2. CASE k \notin mark
    <3>1. target[c] = k
      BY <1>1, <2>2 DEF CancelIntend
    <3>2. /\ pc \in [Clients -> {"idle", "look", "alive", "exit", "mark", "apply",
                             "check", "verify", "intend", "signal", "wait", "settle"}]
          /\ ClientOK(c)
      BY DEF SSHInv, SSHTypeOK
    <3>3. pc'[c] = "signal" /\ target'[c] = k
      BY <1>1, <3>1, <3>2 DEF CancelIntend, CancelGoes
    <3>4. wpc'[k] # "none"
      BY <1>1, <3>1, <3>2, ClientFrame DEF CancelIntend, CancelGoes, ClientOK
    <3>5. QED
      BY <3>3, <3>4 DEF Halting, Signalling
  <2>3. QED
    BY <2>1, <2>2
<1>2. CASE ~CancelIntend(c)
  <2>1. mark' \subseteq mark
    BY <1>2 DEF ClientActs, ClientStep, LookDir, LookAlive, LookDead, LookExit, LookMark, Looks, Apply,
         Returns, CancelCheck, CancelVerify, CancelSignal, CancelWait, CancelSettle, CancelGoes,
         AnswerLost, CancelKilled, Refresh, Cancel
  <2>2. QED
    BY <2>1 DEF Source
<1>3. QED
  BY <1>1, <1>2

\* So is what a client has seen or is going to report.
LEMMA AnswerTraced ==
  ASSUME SSHInv, NEW c \in Clients, ClientActs(c), NEW k \in Jobs \ TimedJobs,
         target'[c] = k, saw'[c].mark \/ outcome'[c] = "cancelled"
  PROVE  Source(k) \/ Halting(k)'
<1>1. /\ ClientOK(c)
      /\ target \in [Clients -> Jobs \cup {NoJob}]
      /\ outcome \in [Clients -> {"none", "finished", "cancelled", "lost"}]
      /\ saw \in [Clients -> Seen]
  BY DEF SSHInv, SSHTypeOK
<1>2. ASSUME NEW from, NEW to, NEW seen, Looks(c, from, to, seen), seen.mark => saw[c].mark \/ target[c] \in mark
      PROVE  Source(k)
  BY <1>1, <1>2 DEF Looks, Source
<1>3. NothingSeen.mark = FALSE /\ [NothingSeen EXCEPT !.gone = TRUE].mark = FALSE
  BY DEF NothingSeen
<1>4. CASE LookDir(c)
  <2>1. PICK seen : seen = [NothingSeen EXCEPT !.begun = target[c] \in begun]
    OBVIOUS
  <2>2. seen.mark = FALSE
    BY <2>1 DEF NothingSeen
  <2>3. QED
    BY <1>2, <1>3, <1>4, <2>1, <2>2 DEF LookDir
<1>5. saw[c] \in Seen
  BY <1>1
<1>6. CASE LookAlive(c)
  BY <1>2, <1>6 DEF LookAlive
<1>7. CASE LookDead(c)
  <2>1. [saw[c] EXCEPT !.dead = TRUE].mark = saw[c].mark
    BY <1>5 DEF Seen
  <2>2. QED
    BY <1>2, <1>7, <2>1 DEF LookDead
<1>8. CASE LookExit(c)
  <2>1. [saw[c] EXCEPT !.exit = exit[target[c]]].mark = saw[c].mark
    BY <1>5 DEF Seen
  <2>2. QED
    BY <1>2, <1>8, <2>1 DEF LookExit
<1>9. CASE LookMark(c)
  <2>1. [saw[c] EXCEPT !.mark = target[c] \in mark].mark = (target[c] \in mark)
    BY <1>5 DEF Seen
  <2>2. QED
    BY <1>2, <1>9, <2>1 DEF LookMark
<1>10. Returns(c) => FALSE
  BY <1>1, <1>3 DEF Returns
<1>11. CASE Apply(c) \/ CancelKilled(c)
  BY <1>10, <1>11 DEF Apply, CancelKilled
<1>12. ASSUME NEW from, NEW to, NEW result, CancelGoes(c, from, to, result)
       PROVE  target[c] = k /\ (result = "cancelled" \/ Source(k))
  BY <1>1, <1>12 DEF CancelGoes, Source
<1>13. CASE CancelCheck(c)
  <2>1. PICK result, to : /\ CancelGoes(c, "check", to, result)
                          /\ result = "cancelled" => target[c] \in mark
    BY <1>13 DEF CancelCheck
  <2>2. QED
    BY <1>12, <2>1 DEF Source
<1>14. CASE CancelVerify(c) \/ CancelIntend(c) \/ CancelSignal(c)
  BY <1>12, <1>14 DEF CancelVerify, CancelIntend, CancelSignal
<1>15. CASE CancelWait(c)
  <2>1. (~Present(k) /\ wpc[k] # "none") \/ Source(k)
    BY <1>1, <1>12, <1>15 DEF CancelWait, CancelGoes, ClientOK, Group, Present
  <2>2. QED
    BY <2>1, ClientFrame DEF Halting, Present, Alive
<1>16. CASE CancelSettle(c)
  BY <1>10, <1>12, <1>16 DEF CancelSettle
<1>17. CASE AnswerLost(c)
  BY <1>17 DEF AnswerLost, Source
<1>18. ASSUME NEW j \in Jobs, Refresh(c, j) \/ Cancel(c, j) PROVE FALSE
  BY <1>1, <1>18 DEF Refresh, Cancel, ClientOK
<1>19. QED
  BY <1>4, <1>6, <1>7, <1>8, <1>9, <1>11, <1>13, <1>14, <1>15, <1>16, <1>17, <1>18
     DEF ClientActs, ClientStep

LEMMA ClientInv ==
  ASSUME SSHInv, NEW c \in Clients, ClientActs(c)
  PROVE  SSHInv'
<1>1. Types'
  BY ClientTypes DEF ClientActs
<1>2. UNCHANGED <<sub, scr, ident, begun, exit, pending, ticket, lock, wpc, rc, cmds>>
  BY ClientFrame
<1>3. ASSUME NEW k \in Jobs PROVE JobOK(k)'
  BY <1>2 DEF SSHInv, JobOK, Waiting
<1>4. ASSUME NEW d \in Clients PROVE ClientOK(d)'
  <2>1. CASE d = c
    BY <2>1, OwnClientOK
  <2>2. CASE d # c
    BY <1>2, <2>2, OtherClients DEF SSHInv, ClientOK
  <2>3. QED
    BY <2>1, <2>2
<1>5. ASSUME NEW k \in Jobs \ (TimedJobs \cup cut'), Source(k)' PROVE Halting(k)'
  <2>1. Source(k) \/ Halting(k)'
    <3>1. CASE state'[k] = "cancelled"
      BY <3>1, StateTraced
    <3>2. CASE k \in mark'
      BY <3>2, MarkTraced
    <3>3. ASSUME NEW d \in Clients, target'[d] = k, saw'[d].mark \/ outcome'[d] = "cancelled"
          PROVE  Source(k) \/ Halting(k)'
      <4>1. CASE d = c
        BY <3>3, <4>1, AnswerTraced
      <4>2. CASE d # c
        BY <3>3, <4>2, OtherClients DEF Source
      <4>3. QED
        BY <4>1, <4>2
    <3>4. QED
      BY <1>5, <3>1, <3>2, <3>3 DEF Source
  <2>2. Source(k) => Halting(k)
    BY ClientFrame DEF SSHInv
  <2>3. QED
    BY <2>1, <2>2, HaltingKept
<1>6. QED
  BY <1>1, <1>3, <1>4, <1>5 DEF SSHInv, Types

-----------------------------------------------------------------------------
(* The theorems.                                                           *)

LEMMA StutterInv == ASSUME SSHInv, UNCHANGED vars PROVE SSHInv'
<1>1. UNCHANGED <<state, sub, scr, dir, ident, begun, exit, mark, pending, ticket, lock,
                  wpc, rc, cmds, termed, pc, target, saw, outcome, deaf, cut, faults>>
  BY DEF vars, row, queue, wrapper, clients
<1>2. SSHTypeOK' /\ saw' \in [Clients -> Seen]
  BY <1>1 DEF SSHInv, SSHTypeOK
<1>3. ASSUME NEW k \in Jobs PROVE JobOK(k)'
  BY <1>1 DEF SSHInv, JobOK, Waiting
<1>4. ASSUME NEW c \in Clients PROVE ClientOK(c)'
  BY <1>1 DEF SSHInv, ClientOK
<1>5. ASSUME NEW k \in Jobs \ (TimedJobs \cup cut'), Source(k)' PROVE Halting(k)'
  BY <1>1, <1>5 DEF SSHInv, Source, Halting, Signalling, Present, Alive
<1>6. QED
  BY <1>2, <1>3, <1>4, <1>5 DEF SSHInv

LEMMA StepKinds ==
  Next <=> (\E j \in Jobs : HostStep(j)) \/ (\E c \in Clients : ClientActs(c))
BY DEF Next, HostStep, ClientActs

(* The inductive invariant holds for any number of jobs and clients: what  *)
(* script, wrapper, files and row of a job know of each other, and that    *)
(* whatever may make a row cancelled goes back to a group that is being    *)
(* stopped, or to a cancellation script that was killed after its marker   *)
(* (backends/ssh.py).                                                      *)
THEOREM SSHInvariant == Spec => []SSHInv
<1>1. Init => SSHInv
  BY SSHInvInit
<1>2. SSHInv /\ [Next]_vars => SSHInv'
  BY HostInv, ClientInv, StutterInv, StepKinds
<1>3. QED
  BY <1>1, <1>2, PTL DEF Spec

(* The command of a job that is reported as cancelled, and had no timeout, *)
(* neither runs on nor is going to run, in whatever order wrapper, can-    *)
(* cellations and refreshes meet, and although answers get lost and        *)
(* clients, wrappers and submission scripts die; unless a cancellation     *)
(* script of that job was killed between its marker and the end of its     *)
(* signals (ssh.py 277-306, 541-558).                                      *)
THEOREM SSHCancelledStops == Spec => []CancelledStops
<1>1. SSHInv => CancelledStops
  <2>1. SUFFICES ASSUME SSHInv, NEW k \in Jobs \ (TimedJobs \cup cut), state[k] = "cancelled"
                 PROVE  \/ ~Present(k) \/ exit[k] # NoCode
                        \/ k \in termed /\ Group(k)
                        \/ \E c \in Clients : target[c] = k /\ pc[c] = "signal"
    BY DEF CancelledStops, SSHInv
  <2>2. Halting(k)
    BY <2>1 DEF SSHInv, Source
  <2>3. Present(k) => Group(k)
    BY DEF Present, Group
  <2>4. QED
    BY <2>2, <2>3 DEF Halting, Signalling
<1>2. QED
  BY <1>1, SSHInvariant, PTL

(* First come, first served: whoever is admitted is not behind a wrapper   *)
(* that still waits or is still being launched, although every wrapper     *)
(* drops the entries whose process it cannot see, and processes die at any *)
(* moment (ssh.py 119-136, 144-197, 326-337).                              *)
THEOREM SSHNoOvertaking == Spec => NoOvertaking
<1> DEFINE Fair == \A j, k \in QueuedJobs :
             /\ wpc[j] = "admit" /\ wpc'[j] = "start"
             /\ ticket[k] > 0 /\ scr[k] # "refused" /\ wpc[k] \in {"none", "boot", "admit"}
             => ticket[j] <= ticket[k]
<1>1. SSHInv /\ [Next]_vars => [Fair]_vars
  <2>1. SUFFICES ASSUME SSHInv, Next, NEW j \in QueuedJobs, NEW k \in QueuedJobs,
                        wpc[j] = "admit", wpc'[j] = "start", Waiting(k)
                 PROVE  ticket[j] <= ticket[k]
    BY DEF Waiting
  <2>2. ~\E c \in Clients : ClientActs(c)
    BY <2>1, ClientFrame
  <2>3. PICK i \in Jobs : HostStep(i)
    BY <2>1, <2>2, StepKinds
  <2>4. AdmissionPass(i) /\ i = j
    <3>1. wpc \in [Jobs -> {"none", "boot", "admit", "start", "run", "exit", "leave", "gone"}] /\ j \in Jobs
      BY <2>1, SSHAssumption DEF SSHInv, SSHTypeOK
    <3>2. CASE Identify(i)
      BY <2>1, <3>1, <3>2 DEF Identify, WrapperGoes
    <3>3. CASE AdmissionPass(i)
      BY <2>1, <3>1, <3>3 DEF AdmissionPass, WrapperGoes
    <3>4. CASE ~Identify(i) /\ ~AdmissionPass(i)
      BY <2>1, <2>3, <3>1, <3>4
         DEF HostStep, SubmitStep, WrapperStep, Reserve, MakeDir, Register, LaunchWrapper, Answers,
             ScriptFails, ScriptGoes, SubmitAnswered, SubmitFails, SubmitDies, CallEnds, Withdraw,
             Begin, CommandEnds, WriteExit, Leave, GroupDies, WrapperKilled, OrphanEnds, WrapperGoes,
             queue, wrapper
    <3>5. QED
      BY <3>2, <3>3, <3>4
  <2>5. QED
    BY <2>1, <2>3, <2>4, PassKeeps
<1>2. QED
  BY <1>1, SSHInvariant, PTL DEF Spec, NoOvertaking
=============================================================================
