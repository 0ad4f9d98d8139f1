------------------------- MODULE LocalBackendProofs -------------------------
(***************************************************************************)
(* Theorems about local execution for any number of clients, runners, jobs *)
(* and queues and any number of faults.                                    *)
(*                                                                         *)
(* The argument for admission: a runner passes admission only as the owner *)
(* of its job, and from then on nobody can replace it, since registration  *)
(* wants a queued row and requeueing wants the recorded owner to be dead.  *)
(* A refresh that decided to requeue did so because the owner it read was  *)
(* dead, and identities are not reused, so the owner it read is not the    *)
(* one that was admitted in the meantime.                                  *)
(***************************************************************************)
EXTENDS LocalBackend, JobStoreProofs

Started    == {"running", "stalled"}
HasCommand == {"record", "unlink", "unlinkAbort", "supervise", "abort", "drain", "expire", "collect"}
Recorded   == {"unlink", "supervise"}

RowsOf(c) == todo[c] \cup {mine[c], cur[c]}

-----------------------------------------------------------------------------
(* The inductive invariant. *)

\* A runner works for an inserted job; beyond admission it owns a queued job,
\* its command is there until it has reaped it, and recorded before it is
\* supervised.
RunnerOK(r) ==
  Alive(r) =>
    /\ rjob[r] \in Jobs
    /\ state[rjob[r]] # "absent"
    /\ rpc[r] \in HasCommand => r \in live
    /\ rpc[r] \in Recorded => state[rjob[r]] \in Started \cup Terminal
    /\ Admitted(r) /\ Queued(rjob[r]) =>
         owner[rjob[r]] = r /\ state[rjob[r]] # "queued"

\* The rows a client has read are of inserted jobs, and what it read as started
\* has started.
RowOK(w) ==
  /\ w.job \in Jobs => state[w.job] # "absent"
  /\ w.state \in Started => state[w.job] \in Started \cup Terminal

ClientOK(c) ==
  /\ \A w \in RowsOf(c) : RowOK(w)
  /\ pc[c] \in {"requeue", "spawn", "register", "lose", "stall", "files", "stop"}
       => cur[c] \in Row
  /\ pc[c] \in {"create", "files", "await", "fail"} \/ op[c] = "submit"
       => target[c] \in Jobs
  /\ pc[c] \in {"files", "await", "fail"} => state[target[c]] # "absent"
  /\ pc[c] = "create" => op[c] = "submit"
  /\ pc[c] = "files" => Submitting(c)
  /\ pc[c] \in {"spawn", "register"} => Submitting(c) \/ Queued(cur[c].job)
  /\ pc[c] = "register" => child[c] \in Runners
  /\ pc[c] = "stall" => cur[c].state \in Started
  /\ pc[c] = "requeue" => ~Alive(cur[c].owner) /\ Queued(cur[c].job)

QueuedHasQueue == \A j \in Jobs : state[j] = "queued" => Queued(j)

LocalInv ==
  /\ TypeOK
  /\ StoreInv
  /\ QueuedHasQueue
  /\ \A r \in Runners : RunnerOK(r)
  /\ \A c \in Clients : ClientOK(c)

-----------------------------------------------------------------------------
(* What a step of this backend does to the registry: fewer things than the *)
(* registry would allow.                                                   *)
Allowed(j, s) ==
  /\ s \in {"stalled", "succeeded", "timed_out"} => state[j] \in Started \cup Terminal
  /\ s = "running" => state[j] # "queued"

LocalStore ==
  \/ UNCHANGED store
  \/ \E j \in Jobs :
       \/ Create(j)
       \/ /\ state[j] # "absent"
          /\ \/ \E r \in Runners : ClaimSlot(j, r)
             \/ \E e \in RunnerIds, r \in Runners : Queued(j) /\ RegisterRunner(j, e, r)
             \/ \E e \in RunnerIds : ~Alive(e) /\ Queued(j) /\ RequeueRunner(j, e)
             \/ \E s \in Terminal \cup Started, p \in RunnerIds, x \in Codes \cup {NoCode} :
                   Allowed(j, s) /\ UpdateIfActive(j, s, p, x)
             \/ \E r \in Runners : ~Queued(j) /\ UpdateOwner(j, r)
             \/ \E x \in Codes : UpdateCode(j, x)

(* What the rest of the invariant needs to know of such a step.            *)
Effect ==
  /\ StoreInv'
  /\ QueuedHasQueue'
  /\ \A j \in Jobs : state[j] # "absent" => state'[j] # "absent"
  /\ \A j \in Jobs : state[j] \in Started \cup Terminal => state'[j] \in Started \cup Terminal
  /\ \A j \in Jobs :
       Queued(j) /\ Alive(owner[j]) /\ state[j] \notin {"absent", "queued"}
         => owner'[j] = owner[j] /\ state'[j] # "queued"

LEMMA LocalStoreIsStoreStep == LocalStore => [StoreNext]_store
<1> SUFFICES ASSUME LocalStore, ~UNCHANGED store PROVE StoreNext
  OBVIOUS
<1>1. Terminal \cup Started \subseteq States \ {"absent"}
  BY DEF States, Active, Occupying, Terminal, Started
<1>2. QED
  BY <1>1 DEF LocalStore, StoreNext

LEMMA LocalStoreEffect == LocalInv /\ LocalStore => Effect
<1> SUFFICES ASSUME LocalInv, LocalStore PROVE Effect
  OBVIOUS
<1> USE DEF LocalInv, Started
<1>1. StoreInv'
  BY LocalStoreIsStoreStep, StoreInvStep
<1>2. CASE UNCHANGED store
  BY <1>1, <1>2 DEF Effect, store, QueuedHasQueue, Queued
<1>3. ASSUME NEW j \in Jobs, Create(j) PROVE Effect
  BY <1>1, <1>3 DEF Effect, Create, StoreInv, StoreTypeOK, QueuedHasQueue, Queued, Terminal
<1>4. ASSUME NEW j \in Jobs, NEW r \in Runners, ClaimSlot(j, r) PROVE Effect
  BY <1>1, <1>4
     DEF Effect, ClaimSlot, Claimable, StoreInv, StoreTypeOK, QueuedHasQueue, Queued, Terminal
<1>5. ASSUME NEW j \in Jobs, NEW e, NEW r \in Runners, Queued(j), RegisterRunner(j, e, r)
      PROVE  Effect
  BY <1>1, <1>5
     DEF Effect, RegisterRunner, Registers, StoreInv, StoreTypeOK, QueuedHasQueue, Queued
<1>6. ASSUME NEW j \in Jobs, NEW e, ~Alive(e), Queued(j), RequeueRunner(j, e) PROVE Effect
  BY <1>1, <1>6
     DEF Effect, RequeueRunner, Requeues, StoreInv, StoreTypeOK, QueuedHasQueue, Queued, Terminal
<1>7. ASSUME NEW j \in Jobs, state[j] # "absent", NEW s \in Terminal \cup Started, NEW p, NEW x,
             s \in Terminal \/ state[j] # "queued", UpdateIfActive(j, s, p, x)
      PROVE  Effect
  <2>1. CASE state[j] \in Terminal
    BY <1>1, <1>2, <1>7, <2>1 DEF UpdateIfActive
  <2>2. CASE state[j] \notin Terminal
    <3>1. state' = [state EXCEPT ![j] = s] /\ owner' = owner
      BY <1>7, <2>2 DEF UpdateIfActive
    <3>2. QED
      BY <1>1, <1>7, <3>1 DEF Effect, StoreInv, StoreTypeOK, QueuedHasQueue, Queued, Terminal
  <2>3. QED
    BY <2>1, <2>2
<1>8. ASSUME NEW j \in Jobs, NEW r, ~Queued(j), UpdateOwner(j, r) PROVE Effect
  BY <1>1, <1>8 DEF Effect, UpdateOwner, StoreInv, StoreTypeOK, QueuedHasQueue, Queued
<1>9. ASSUME NEW j \in Jobs, NEW x, UpdateCode(j, x) PROVE Effect
  BY <1>1, <1>9 DEF Effect, UpdateCode, QueuedHasQueue, Queued
<1>10. ASSUME NEW j \in Jobs, NEW s \in Terminal \cup Started, Allowed(j, s)
       PROVE  s \in Terminal \/ state[j] # "queued"
  BY <1>10 DEF Allowed, Terminal
<1>11. QED
  BY <1>2, <1>3, <1>4, <1>5, <1>6, <1>7, <1>8, <1>9, <1>10 DEF LocalStore

-----------------------------------------------------------------------------
(* Runners. *)

\* What a runner that makes a step does to the processes.
RunnerMoves(r) ==
  /\ UNCHANGED clientVars
  /\ spec' \subseteq spec
  /\ live' \subseteq Runners /\ killed' \subseteq live'
  /\ live \ {r} \subseteq live'
  /\ launches' \in [Jobs -> 0..2]
  /\ faults' \in 0..MaxFaults
  /\ Alive(r)
  /\ \/ /\ rpc' = [rpc EXCEPT ![r] = "gone"]
        /\ rjob' = [rjob EXCEPT ![r] = NoJob]
     \/ /\ rjob' = rjob
        /\ \E p \in RunnerStates :
             /\ rpc' = [rpc EXCEPT ![r] = p]
             /\ p \in HasCommand => r \in live'
             /\ p \in Recorded => state'[rjob[r]] \in Started \cup Terminal
        /\ \/ Admitted(r)
           \/ ~Admitted(r)'
           \/ ~Queued(rjob[r])
           \/ owner'[rjob[r]] = r /\ state'[rjob[r]] # "queued"

(* What a client has read stays right while the registry moves on.         *)
LEMMA RowKept ==
  ASSUME LocalInv, Effect, NEW w \in Row \cup {NoRow}, RowOK(w)
  PROVE  RowOK(w)'
<1>1. CASE w \in Row
  <2>1. w.job \in Jobs
    BY <1>1 DEF Row
  <2>2. QED
    BY <2>1 DEF RowOK, Effect
<1>2. CASE w = NoRow
  BY <1>2, LocalAssumption DEF NoRow, RowOK, Started
<1>3. QED
  BY <1>1, <1>2

LEMMA RowsKept ==
  ASSUME LocalInv, Effect, NEW c \in Clients, NEW w \in RowsOf(c)
  PROVE  RowOK(w)'
<1>1. RowOK(w) /\ w \in Row \cup {NoRow}
  BY DEF LocalInv, ClientOK, TypeOK, RowsOf
<1>2. QED
  BY <1>1, RowKept

(* A client that makes no step stays in order when no process comes to     *)
(* life behind its back.                                                   *)
LEMMA ClientUntouched ==
  ASSUME LocalInv, Effect, NEW c \in Clients,
         pc'[c] = pc[c], op'[c] = op[c], target'[c] = target[c], todo'[c] = todo[c],
         mine'[c] = mine[c], cur'[c] = cur[c], child'[c] = child[c],
         pc[c] = "requeue" /\ Alive(cur[c].owner)' => Alive(cur[c].owner)
  PROVE  ClientOK(c)'
<1>1. ClientOK(c)
  BY DEF LocalInv
<1>2. \A w \in RowsOf(c)' : RowOK(w)'
  BY RowsKept DEF RowsOf
<1>3. pc[c] \in {"files", "await", "fail"} => state'[target[c]] # "absent"
  BY <1>1 DEF ClientOK, Effect
<1>4. QED
  BY <1>1, <1>2, <1>3 DEF ClientOK, Submitting

LEMMA RunnerMovesKeepsInv ==
  ASSUME LocalInv, Effect, NEW r \in Runners, RunnerMoves(r)
  PROVE  LocalInv'
<1>1. TypeOK'
  BY LocalAssumption DEF Effect, StoreInv, LocalInv, TypeOK, RunnerMoves, clientVars, RunnerStates
<1>2. ASSUME NEW i \in Runners PROVE RunnerOK(i)'
  <2>1. RunnerOK(i) /\ rpc \in [Runners -> RunnerStates] /\ rjob \in [Runners -> Jobs \cup {NoJob}]
    BY DEF LocalInv, TypeOK
  <2>2. CASE i # r
    <3>1. rpc'[i] = rpc[i] /\ rjob'[i] = rjob[i]
      BY <2>1, <2>2 DEF RunnerMoves
    <3>2. QED
      BY <2>1, <3>1 DEF RunnerOK, RunnerMoves, Effect, Alive, Admitted, Queued, HasCommand, Recorded
  <2>3. CASE i = r
    BY <2>1, <2>3 DEF RunnerOK, RunnerMoves, Effect, Alive, Admitted, Queued, HasCommand, Recorded
  <2>4. QED
    BY <2>2, <2>3
<1>3. ASSUME NEW c \in Clients PROVE ClientOK(c)'
  <2>1. ASSUME NEW e, Alive(e)' PROVE Alive(e)
    BY <2>1 DEF RunnerMoves, Alive, LocalInv, TypeOK
  <2>2. QED
    BY <2>1, ClientUntouched DEF RunnerMoves, clientVars
<1>4. QED
  BY <1>1, <1>2, <1>3 DEF LocalInv, Effect

(* An admitted runner never finds its row queued, whether or not the job   *)
(* was submitted to a queue.                                               *)
LEMMA AdmittedNotQueued ==
  ASSUME LocalInv, NEW r \in Runners, Admitted(r)
  PROVE  rjob[r] \in Jobs /\ state[rjob[r]] \notin {"absent", "queued"}
<1>1. RunnerOK(r) /\ Alive(r)
  BY DEF LocalInv, Admitted
<1>2. QED
  BY <1>1 DEF RunnerOK, LocalInv, QueuedHasQueue

LEMMA RunnerStepStore ==
  ASSUME LocalInv, NEW r \in Runners, RunnerStep(r)
  PROVE  LocalStore
<1>1. Alive(r)
  BY DEF RunnerStep, Boot, Own, OwnDeadline, Claim, ClaimRefused, Verify, Launch, LaunchFails,
         RecordFailure, Record, Unlink, Abort, Drain, Timeout, Expire, Exit, Collect,
         RunnerGoes, RunnerEnds, Alive
<1>2. rjob[r] \in Jobs /\ state[rjob[r]] # "absent"
  BY <1>1 DEF LocalInv, RunnerOK
<1>3. ASSUME rpc[r] \in {"fail", "record", "supervise"} PROVE state[rjob[r]] # "queued"
  BY <1>1, <1>3, AdmittedNotQueued DEF Admitted
<1>4. /\ owner[rjob[r]] \in RunnerIds /\ cmd[rjob[r]] \in RunnerIds
      /\ code[rjob[r]] \in Codes \cup {NoCode} /\ r \in RunnerIds
  BY <1>2 DEF LocalInv, TypeOK, StoreTypeOK, RunnerIds
<1>0. rpc[r] = "supervise" => state[rjob[r]] \in Started \cup Terminal
  BY <1>1 DEF LocalInv, RunnerOK, Recorded
<1> USE DEF LocalStore
<1>5. CASE UNCHANGED store
  BY <1>5
<1>6. CASE Claim(r)
  BY <1>2, <1>6 DEF Claim
<1>7. CASE RecordFailure(r)
  BY <1>2, <1>4, <1>7 DEF RecordFailure, SetState, Terminal, Allowed
<1>8. CASE Record(r)
  <2>1. state[rjob[r]] # "queued" /\ UpdateIfActive(rjob[r], "running", r, code[rjob[r]])
    BY <1>3, <1>8 DEF Record, RunnerGoes
  <2>2. QED
    BY <2>1, <1>2, <1>4 DEF Started, Allowed
<1>9. CASE Timeout(r)
  <2>1. rpc[r] = "supervise" /\ SetState(rjob[r], "timed_out")
    BY <1>9 DEF Timeout, RunnerGoes
  <2>2. Allowed(rjob[r], "timed_out") /\ "timed_out" \in Terminal
    BY <1>0, <2>1 DEF Allowed, Terminal
  <2>3. QED
    BY <1>2, <1>4, <2>1, <2>2 DEF SetState
<1>10. ASSUME NEW x \in Codes, Exit(r, x) PROVE LocalStore
  <2>1. PICK s \in {"succeeded", "failed"} : UpdateIfActive(rjob[r], s, cmd[rjob[r]], x)
    BY <1>10 DEF Exit
  <2>2. s \in Terminal /\ Allowed(rjob[r], s)
    BY <1>0, <1>10 DEF Terminal, Allowed, Exit, RunnerEnds
  <2>3. QED
    BY <2>1, <2>2, <1>2, <1>4
<1>11. ASSUME NEW x \in Codes, Collect(r, x) PROVE LocalStore
  BY <1>2, <1>11 DEF Collect
<1>12. QED
  BY <1>5, <1>6, <1>7, <1>8, <1>9, <1>10, <1>11
     DEF RunnerStep, Boot, Own, OwnDeadline, ClaimRefused, Verify, Launch, LaunchFails,
         Unlink, Abort, Drain, Expire

LEMMA RunnerStepMoves ==
  ASSUME LocalInv, NEW r \in Runners, RunnerStep(r)
  PROVE  RunnerMoves(r)
<1>1. TypeOK
  BY DEF LocalInv
<1>2. Fault("slow") => faults' \in 0..MaxFaults
  BY <1>1, LocalAssumption DEF Fault, TypeOK
<1>0. /\ Alive(r) => rjob[r] \in Jobs
      /\ Alive(r) /\ rpc[r] \in HasCommand => r \in live
      /\ Alive(r) /\ rpc[r] \in Recorded => state[rjob[r]] \in Started \cup Terminal
  BY DEF LocalInv, RunnerOK
<1> USE <1>0, <1>1, <1>2 DEF HasCommand, Recorded, TypeOK, RunnerStates, RunnerMoves, RunnerGoes, RunnerEnds, Admitted, Alive, CommandGone
<1>3. CASE Boot(r)
  BY <1>3 DEF Boot, cmdVars
<1>4. CASE Own(r)
  BY <1>4 DEF Own, cmdVars
<1>5. CASE OwnDeadline(r)
  BY <1>5 DEF OwnDeadline, cmdVars
<1>6. CASE Claim(r)
  <2>1. owner'[rjob[r]] = r /\ state'[rjob[r]] # "queued"
    BY <1>6 DEF Claim, ClaimSlot, Claimable, StoreTypeOK
  <2>2. QED
    BY <1>6, <2>1 DEF Claim, cmdVars
<1>7. CASE ClaimRefused(r)
  BY <1>7 DEF ClaimRefused, cmdVars
<1>8. CASE Verify(r)
  BY <1>8 DEF Verify, cmdVars
<1>9. CASE Launch(r)
  <2>1. launches' \in [Jobs -> 0..2]
    <3>1. rjob[r] \in Jobs /\ launches[rjob[r]] \in 0..2
      BY <1>9 DEF Launch
    <3>2. launches[rjob[r]] < 2 => launches[rjob[r]] + 1 \in 0..2
      BY <3>1
    <3>3. QED
      BY <1>9, <3>1, <3>2 DEF Launch
  <2>2. QED
    BY <1>9, <2>1 DEF Launch
<1>10. CASE LaunchFails(r)
  BY <1>10 DEF LaunchFails, cmdVars
<1>11. CASE RecordFailure(r)
  BY <1>11 DEF RecordFailure, cmdVars
<1>12. CASE Record(r)
  <2>1. state[rjob[r]] \notin Terminal => state'[rjob[r]] \in Started
    BY <1>12 DEF Record, UpdateIfActive, Started, StoreTypeOK
  <2>2. QED
    BY <1>12, <2>1 DEF Record, cmdVars
<1>13. CASE Unlink(r)
  BY <1>13 DEF Unlink, cmdVars, store
<1>14. CASE Abort(r)
  BY <1>14 DEF Abort
<1>15. CASE Drain(r)
  BY <1>15 DEF Drain
<1>16. CASE Timeout(r)
  BY <1>16 DEF Timeout, cmdVars
<1>17. CASE Expire(r)
  BY <1>17 DEF Expire
<1>18. ASSUME NEW x \in Codes, Exit(r, x) PROVE RunnerMoves(r)
  BY <1>18 DEF Exit
<1>19. ASSUME NEW x \in Codes, Collect(r, x) PROVE RunnerMoves(r)
  BY <1>19 DEF Collect
<1>20. QED
  BY <1>3, <1>4, <1>5, <1>6, <1>7, <1>8, <1>9, <1>10, <1>11, <1>12, <1>13, <1>14,
     <1>15, <1>16, <1>17, <1>18, <1>19 DEF RunnerStep

-----------------------------------------------------------------------------
(* Clients. *)

ClientTypes ==
  /\ pc \in [Clients -> ClientStates]
  /\ op \in [Clients -> Operations \cup {"none"}]
  /\ target \in [Clients -> Jobs \cup {NoJob}]
  /\ sweep \in [Clients -> 1..SweepDone]
  /\ todo \in [Clients -> SUBSET Row]
  /\ mine \in [Clients -> Row \cup {NoRow}]
  /\ cur \in [Clients -> Row \cup {NoRow}]
  /\ child \in [Clients -> RunnerIds]

SameLocals(d) ==
  /\ pc'[d] = pc[d] /\ op'[d] = op[d] /\ target'[d] = target[d] /\ todo'[d] = todo[d]
  /\ mine'[d] = mine[d] /\ cur'[d] = cur[d] /\ child'[d] = child[d]

\* What a client changes of its own memory, and of the processes.
LocalMoves(c) == ClientTypes' /\ \A d \in Clients \ {c} : SameLocals(d)

ProcessMoves ==
  /\ spec' \subseteq Jobs /\ live' = live /\ killed' \subseteq live'
  /\ launches' = launches
  /\ faults' \in 0..MaxFaults
  /\ \/ UNCHANGED runnerVars
     \/ \E r \in Runners, j \in Jobs :
          /\ state[j] # "absent"
          /\ FreshRunner(r)
          /\ rpc' = [rpc EXCEPT ![r] = "boot"]
          /\ rjob' = [rjob EXCEPT ![r] = j]
     \/ \E r \in Runners :
          /\ rpc' = [rpc EXCEPT ![r] = "gone"]
          /\ rjob' = [rjob EXCEPT ![r] = NoJob]

LEMMA ClientTypesHold == LocalInv => ClientTypes
BY DEF LocalInv, TypeOK, ClientTypes

LEMMA ProcessMovesKeepRunners ==
  ASSUME LocalInv, Effect, ProcessMoves, NEW i \in Runners
  PROVE  RunnerOK(i)'
<1>1. RunnerOK(i) /\ rpc \in [Runners -> RunnerStates] /\ rjob \in [Runners -> Jobs \cup {NoJob}]
  BY DEF LocalInv, TypeOK
<1> USE DEF RunnerOK, Effect, Alive, Admitted, Queued, HasCommand, Recorded, ProcessMoves
<1>2. CASE UNCHANGED runnerVars
  BY <1>1, <1>2 DEF runnerVars
<1>3. ASSUME NEW r \in Runners, NEW j \in Jobs, state[j] # "absent",
             rpc' = [rpc EXCEPT ![r] = "boot"], rjob' = [rjob EXCEPT ![r] = j]
      PROVE  RunnerOK(i)'
  BY <1>1, <1>3
<1>4. ASSUME NEW r \in Runners,
             rpc' = [rpc EXCEPT ![r] = "gone"], rjob' = [rjob EXCEPT ![r] = NoJob]
      PROVE  RunnerOK(i)'
  BY <1>1, <1>4
<1>5. QED
  BY <1>2, <1>3, <1>4

LEMMA ClientMovesKeepInv ==
  ASSUME LocalInv, Effect, NEW c \in Clients, LocalMoves(c), ProcessMoves, ClientOK(c)'
  PROVE  LocalInv'
<1>1. TypeOK'
  <2>1. RunnerStates # {} /\ "boot" \in RunnerStates /\ "gone" \in RunnerStates
    BY DEF RunnerStates
  <2>2. /\ rpc' \in [Runners -> RunnerStates]
        /\ rjob' \in [Runners -> Jobs \cup {NoJob}]
    BY <2>1 DEF LocalInv, TypeOK, ProcessMoves, runnerVars
  <2>3. QED
    BY <2>2 DEF LocalInv, TypeOK, Effect, StoreInv, LocalMoves, ClientTypes, ProcessMoves
<1>2. ASSUME NEW d \in Clients PROVE ClientOK(d)'
  <2>1. CASE d = c
    BY <2>1
  <2>2. CASE d # c
    <3>1. ASSUME pc[d] = "requeue", Alive(cur[d].owner)' PROVE Alive(cur[d].owner)
      <4>1. cur'[d] = cur[d] /\ rpc \in [Runners -> RunnerStates]
        BY <2>2 DEF LocalMoves, SameLocals, LocalInv, TypeOK
      <4>2. ASSUME NEW r \in Runners, FreshRunner(r) PROVE cur[d].owner # r
        BY <4>2 DEF FreshRunner
      <4>3. QED
        BY <3>1, <4>1, <4>2 DEF ProcessMoves, runnerVars, Alive
    <3>2. QED
      BY <2>2, <3>1, ClientUntouched DEF LocalMoves, SameLocals
  <2>3. QED
    BY <2>1, <2>2
<1>3. QED
  BY <1>1, <1>2, ProcessMovesKeepRunners DEF LocalInv, Effect

(* An operation that ends leaves nothing behind.                           *)
LEMMA FinishKeeps ==
  ASSUME LocalInv, NEW c \in Clients, Finish(c)
  PROVE  LocalMoves(c) /\ ClientOK(c)'
<1> USE ClientTypesHold DEF Finish, ClientTypes
<1>1. SweepDone \in Nat /\ 1 \in 1..SweepDone
  BY DEF SweepDone, SweepStates
<1>2. ClientTypes'
  BY <1>1 DEF ClientStates, RunnerIds
<1>3. \A d \in Clients \ {c} : SameLocals(d)
  BY DEF SameLocals
<1>4. /\ pc'[c] = "idle" /\ op'[c] = "none" /\ todo'[c] = {}
      /\ mine'[c] = NoRow /\ cur'[c] = NoRow
  OBVIOUS
<1>5. RowOK(NoRow)'
  BY LocalAssumption DEF RowOK, NoRow, Started
<1>6. ClientOK(c)'
  BY <1>4, <1>5 DEF ClientOK, RowsOf
<1>7. QED
  BY <1>2, <1>3, <1>6 DEF LocalMoves

(* A refresh that ends leads back to the sweep, on to the stall check, or  *)
(* out of the operation.                                                   *)
LEMMA RefreshedKeeps ==
  ASSUME LocalInv, Effect, NEW c \in Clients, NEW w, NEW row \in Row \cup {NoRow},
         NEW rest \in SUBSET Row, \A v \in rest : RowOK(v)', RowOK(row)',
         Refreshed(c, w, row, rest)
  PROVE  LocalMoves(c) /\ ClientOK(c)'
<1>1. CASE Finish(c)
  BY <1>1, FinishKeeps
<1>2. CASE ~Finish(c)
  <2> USE DEF ClientTypes
  <2>1. ClientTypes /\ ClientOK(c)
    BY ClientTypesHold DEF LocalInv
  <2>2. RowOK(NoRow)' /\ \A m : m = mine[c] => RowOK(m)'
    <3>1. RowOK(NoRow)'
      BY LocalAssumption DEF RowOK, NoRow, Started
    <3>2. mine[c] \in RowsOf(c)
      BY DEF RowsOf
    <3>3. QED
      BY <3>1, <3>2, RowsKept
  <2>3. CASE /\ pc' = [pc EXCEPT ![c] = "stall"]
             /\ row.job \in QuietJobs /\ row.state \in Started
             /\ cur' = [cur EXCEPT ![c] = row]
             /\ todo' = [todo EXCEPT ![c] = rest]
             /\ UNCHANGED <<op, target, sweep, mine, child>>
    <3>1. row \in Row
      BY <2>3, LocalAssumption DEF NoRow
    <3>2. ClientTypes'
      BY <2>1, <2>3 DEF ClientStates
    <3>3. \A d \in Clients \ {c} : SameLocals(d)
      BY <2>1, <2>3 DEF SameLocals
    <3>4. pc'[c] = "stall" /\ cur'[c] = row /\ todo'[c] = rest /\ mine'[c] = mine[c]
          /\ op'[c] = op[c] /\ target'[c] = target[c]
      BY <2>1, <2>3
    <3>5. ClientOK(c)'
      BY <2>1, <2>2, <2>3, <3>1, <3>4 DEF ClientOK, RowsOf
    <3>6. QED
      BY <3>2, <3>3, <3>5 DEF LocalMoves
  <2>4. CASE /\ pc' = [pc EXCEPT ![c] = "sweep"]
             /\ cur' = [cur EXCEPT ![c] = NoRow]
             /\ todo' = [todo EXCEPT ![c] = rest]
             /\ child' = [child EXCEPT ![c] = NoRunner]
             /\ UNCHANGED <<op, target, sweep, mine>>
    <3>1. ClientTypes'
      BY <2>1, <2>4 DEF ClientStates, RunnerIds
    <3>2. \A d \in Clients \ {c} : SameLocals(d)
      BY <2>1, <2>4 DEF SameLocals
    <3>3. pc'[c] = "sweep" /\ cur'[c] = NoRow /\ todo'[c] = rest /\ mine'[c] = mine[c]
          /\ op'[c] = op[c] /\ target'[c] = target[c]
      BY <2>1, <2>4
    <3>4. ClientOK(c)'
      BY <2>1, <2>2, <3>3 DEF ClientOK, RowsOf
    <3>5. QED
      BY <3>1, <3>2, <3>4 DEF LocalMoves
  <2>5. QED
    BY <1>2, <2>3, <2>4 DEF Refreshed, Started
<1>3. QED
  BY <1>1, <1>2

(* The registry is moved on by the transactions of clients only as         *)
(* LocalStore says.                                                        *)
LEMMA ClientStepStore ==
  ASSUME LocalInv, NEW c \in Clients, ClientStep(c)
  PROVE  LocalStore
<1>1. ClientOK(c) /\ StoreTypeOK /\ ClientTypes
  BY ClientTypesHold DEF LocalInv, TypeOK
<1>2. ASSUME NEW j \in Jobs
      PROVE  /\ owner[j] \in RunnerIds /\ cmd[j] \in RunnerIds
             /\ code[j] \in Codes \cup {NoCode}
  BY <1>1 DEF StoreTypeOK
<1>3. /\ cur[c] \in Row => cur[c].job \in Jobs /\ cur[c].owner \in RunnerIds
      /\ cur[c] \in Row => state[cur[c].job] # "absent"
  BY <1>1 DEF Row, ClientOK, RowsOf, RowOK
<1> USE DEF LocalStore
<1>4. CASE UNCHANGED store
  BY <1>4
<1>5. CASE Lose(c)
  BY <1>1, <1>2, <1>3, <1>5 DEF Lose, SetState, ClientOK, Terminal, Allowed
<1>6. CASE Requeue(c)
  <2>1. cur[c] \in Row /\ ~Alive(cur[c].owner) /\ Queued(cur[c].job)
    BY <1>1, <1>6 DEF Requeue, ClientOK
  <2>2. QED
    BY <1>3, <1>6, <2>1 DEF Requeue
<1>7. CASE Register(c)
  <2>1. cur[c] \in Row /\ child[c] \in Runners
    BY <1>1, <1>7 DEF Register, ClientOK
  <2>2. QED
    BY <1>3, <1>7, <2>1 DEF Register
<1>8. CASE RegisterDirect(c)
  <2>1. cur[c] \in Row /\ child[c] \in Runners
    BY <1>1, <1>8 DEF RegisterDirect, ClientGoes, ClientOK
  <2>2. QED
    BY <1>3, <1>8, <2>1 DEF RegisterDirect
<1>9. CASE Insert(c)
  <2>1. target[c] \in Jobs
    BY <1>1, <1>9 DEF Insert, ClientGoes, ClientOK
  <2>2. QED
    BY <1>9, <2>1 DEF Insert
<1>10. CASE SubmitFail(c)
  <2>1. target[c] \in Jobs /\ state[target[c]] # "absent"
    BY <1>1, <1>10 DEF SubmitFail, ClientOK
  <2>2. QED
    BY <1>2, <1>10, <2>1 DEF SubmitFail, SetState, Terminal, Allowed
<1>11. CASE Stall(c)
  <2>1. cur[c] \in Row /\ cur[c].state \in Started
    BY <1>1, <1>11 DEF Stall, ClientOK
  <2>2. \A s \in Started : Allowed(cur[c].job, s)
    BY <1>1, <2>1 DEF ClientOK, RowsOf, RowOK, Row, Started, Terminal, Allowed
  <2>3. CASE UNCHANGED store
    BY <2>3
  <2>4. ASSUME NEW s \in Started, SetState(cur[c].job, s) PROVE LocalStore
    BY <1>2, <1>3, <2>1, <2>2, <2>4 DEF SetState
  <2>5. QED
    BY <1>11, <2>3, <2>4 DEF Stall, Started
<1>12. QED
  BY <1>4, <1>5, <1>6, <1>7, <1>8, <1>9, <1>10, <1>11
     DEF ClientStep, SweepList, SweepEnd, LookSettled, LookRecover, LookGrace, LookLost,
         Spawn, SpawnFails, Files, FilesFail, Await, AwaitOver, CancelStop

(* A row that is read now is right, and stays right.                       *)
LEMMA RowOfKept ==
  ASSUME LocalInv, Effect, NEW j \in Jobs, state[j] # "absent", NEW w, w = RowOf(j)
  PROVE  w \in Row /\ w.job = j /\ w.state = state[j] /\ RowOK(w)'
<1>1. w \in Row /\ w.job = j /\ w.state = state[j]
  BY DEF RowOf, Row, LocalInv, TypeOK, StoreTypeOK
<1>2. RowOK(w)
  BY <1>1 DEF RowOK
<1>3. QED
  BY <1>1, <1>2, RowKept

(* Most steps of clients leave files and processes alone.                  *)
LEMMA ProcessesStay ==
  ASSUME LocalInv, UNCHANGED <<spec, runnerVars, cmdVars>>,
         UNCHANGED faults \/ \E kind : Fault(kind)
  PROVE  ProcessMoves
<1>1. faults' \in 0..MaxFaults
  BY LocalAssumption DEF Fault, LocalInv, TypeOK
<1>2. QED
  BY <1>1 DEF ProcessMoves, LocalInv, TypeOK, cmdVars

(* The steps of the sweep over rows read earlier.                          *)
LEMMA SweepKeeps ==
  ASSUME LocalInv, Effect, NEW c \in Clients, SweepList(c) \/ SweepEnd(c)
  PROVE  LocalMoves(c) /\ ProcessMoves /\ ClientOK(c)'
<1> USE DEF ClientTypes
<1>1. ClientTypes /\ ClientOK(c) /\ StoreTypeOK
  BY ClientTypesHold DEF LocalInv, TypeOK
<1>2. ProcessMoves
  BY ProcessesStay DEF SweepList, SweepEnd
<1>3. \A w \in todo[c] \cup {mine[c], cur[c]} : RowOK(w)'
  BY RowsKept DEF RowsOf
<1>4. RowOK(NoRow)'
  BY LocalAssumption DEF RowOK, NoRow, Started
<1>5. CASE SweepList(c)
  <2> DEFINE rows == {RowOf(j) : j \in {k \in Jobs \ {target[c]} :
                            /\ QueueOf[k] = QueueOf[target[c]]
                            /\ state[k] = SweepStates[sweep[c]]}}
  <2>1. sweep[c] \in 1..3 /\ SweepStates[sweep[c]] # "absent"
    BY <1>1, <1>5 DEF SweepList, SweepDone, SweepStates
  <2>2. ASSUME NEW w \in rows PROVE w \in Row /\ RowOK(w)'
    BY <2>1, RowOfKept
  <2>3. rows \in SUBSET Row
    BY <2>2
  <2>4. todo' = [todo EXCEPT ![c] = rows] /\ sweep' = [sweep EXCEPT ![c] = @ + 1]
        /\ pc[c] = "sweep" /\ UNCHANGED <<pc, op, target, mine, cur, child>>
    BY <1>5 DEF SweepList
  <2>5. \A v \in {mine[c], cur[c]} : RowOK(v)'
    BY <1>3
  <2> HIDE DEF rows
  <2>6. ClientTypes'
    <3>1. sweep[c] + 1 \in 1..SweepDone
      BY <2>1 DEF SweepDone, SweepStates
    <3>2. QED
      BY <1>1, <2>3, <2>4, <3>1
  <2>7. \A d \in Clients \ {c} : SameLocals(d)
    BY <1>1, <2>4 DEF SameLocals
  <2>8. pc'[c] = "sweep" /\ todo'[c] = rows /\ UNCHANGED <<op, target, mine, cur>>
    BY <1>1, <2>4
  <2>9. ClientOK(c)'
    BY <1>1, <2>2, <2>5, <2>8 DEF ClientOK, RowsOf
  <2>10. QED
    BY <1>2, <2>6, <2>7, <2>9 DEF LocalMoves
<1>6. CASE SweepEnd(c)
  <2>1. CASE /\ mine[c] # NoRow
             /\ todo' = [todo EXCEPT ![c] = {mine[c]}]
             /\ mine' = [mine EXCEPT ![c] = NoRow]
             /\ UNCHANGED <<pc, op, target, sweep, cur, child>>
    <3>1. mine[c] \in Row
      BY <1>1, <2>1
    <3>2. ClientTypes' /\ \A d \in Clients \ {c} : SameLocals(d)
      BY <1>1, <2>1, <3>1 DEF SameLocals
    <3>3. pc'[c] = "sweep" /\ todo'[c] = {mine[c]} /\ mine'[c] = NoRow
          /\ cur'[c] = cur[c] /\ UNCHANGED <<op, target>>
      BY <1>1, <1>6, <2>1 DEF SweepEnd
    <3>4. ClientOK(c)'
      BY <1>1, <1>3, <1>4, <3>3 DEF ClientOK, RowsOf
    <3>5. QED
      BY <1>2, <3>2, <3>4 DEF LocalMoves
  <2>2. CASE /\ op[c] = "submit"
             /\ pc' = [pc EXCEPT ![c] = "create"]
             /\ UNCHANGED <<op, target, sweep, todo, mine, cur, child>>
    <3>1. ClientTypes' /\ \A d \in Clients \ {c} : SameLocals(d)
      BY <1>1, <2>2 DEF SameLocals, ClientStates
    <3>2. pc'[c] = "create"
      BY <1>1, <2>2
    <3>3. ClientOK(c)'
      BY <1>1, <1>3, <2>2, <3>2 DEF ClientOK, RowsOf
    <3>4. QED
      BY <1>2, <3>1, <3>3 DEF LocalMoves
  <2>3. CASE Finish(c)
    BY <1>2, <2>3, FinishKeeps
  <2>4. QED
    BY <1>6, <2>1, <2>2, <2>3 DEF SweepEnd, ClientGoes
<1>7. QED
  BY <1>5, <1>6


(* The decision about one row, and what follows for a lost or given up one. *)
LEMMA LookKeeps ==
  ASSUME LocalInv, Effect, NEW c \in Clients, NEW w \in todo[c],
         LookSettled(c, w) \/ LookRecover(c, w) \/ LookGrace(c, w) \/ LookLost(c, w)
  PROVE  LocalMoves(c) /\ ProcessMoves /\ ClientOK(c)'
<1> USE DEF ClientTypes
<1>1. ClientTypes /\ ClientOK(c)
  BY ClientTypesHold DEF LocalInv
<1>2. ProcessMoves
  BY ProcessesStay DEF LookSettled, LookRecover, LookGrace, LookLost
<1>3. w \in Row /\ todo[c] \ {w} \in SUBSET Row
  BY <1>1
<1>4. RowOK(w)' /\ \A v \in todo[c] \cup {mine[c]} : RowOK(v)'
  BY RowsKept DEF RowsOf
<1>5. CASE Refreshed(c, w, w, todo[c] \ {w})
  <2> DEFINE rest == todo[c] \ {w}
  <2>1. \A v \in rest : RowOK(v)'
    BY <1>4
  <2> HIDE DEF rest
  <2>2. rest \in SUBSET Row /\ Refreshed(c, w, w, rest)
    BY <1>3, <1>5 DEF rest
  <2>3. QED
    BY <1>2, <1>3, <1>4, <2>1, <2>2, RefreshedKeeps
<1>6. ASSUME NEW p \in {"requeue", "spawn", "lose"}, pc[c] = "sweep", Refreshing(c, w, p),
             p \in {"requeue", "spawn"} => Queued(w.job) /\ ~Alive(w.owner), UNCHANGED rpc
      PROVE  LocalMoves(c) /\ ClientOK(c)'
  <2>1. pc' = [pc EXCEPT ![c] = p] /\ cur' = [cur EXCEPT ![c] = w]
        /\ todo' = [todo EXCEPT ![c] = @ \ {w}] /\ UNCHANGED <<op, target, sweep, mine, child>>
    BY <1>6 DEF Refreshing
  <2>2. ClientTypes' /\ \A d \in Clients \ {c} : SameLocals(d)
    BY <1>1, <1>3, <2>1 DEF SameLocals, ClientStates
  <2>3. pc'[c] = p /\ cur'[c] = w /\ todo'[c] = todo[c] \ {w} /\ mine'[c] = mine[c]
        /\ UNCHANGED <<op, target>>
    BY <1>1, <2>1
  <2>4. ~Alive(w.owner) => ~Alive(w.owner)'
    BY <1>6 DEF Alive
  <2>5. ClientOK(c)'
    BY <1>1, <1>3, <1>4, <1>6, <2>3, <2>4 DEF ClientOK, RowsOf, Queued, Alive
  <2>6. QED
    BY <2>2, <2>5 DEF LocalMoves
<1>7. CASE LookRecover(c, w)
  <2>1. /\ pc[c] = "sweep" /\ Queued(w.job) /\ ~Alive(w.owner) /\ UNCHANGED rpc
        /\ Refreshing(c, w, IF w.state = "starting" THEN "requeue" ELSE "spawn")
    BY <1>7 DEF LookRecover, Vanished, Managed, Recoverable, runnerVars
  <2>2. PICK p \in {"requeue", "spawn"} : Refreshing(c, w, p)
    BY <2>1
  <2>3. QED
    BY <1>2, <1>6, <2>1, <2>2
<1>8. CASE LookLost(c, w)
  BY <1>2, <1>6, <1>8 DEF LookLost, Vanished, runnerVars
<1>9. QED
  BY <1>5, <1>7, <1>8 DEF LookSettled, LookGrace

LEMMA LoseKeeps ==
  ASSUME LocalInv, Effect, NEW c \in Clients, Lose(c)
  PROVE  LocalMoves(c) /\ ProcessMoves /\ ClientOK(c)'
<1>1. ProcessMoves
  BY ProcessesStay DEF Lose
<1>2. RowOK(NoRow)'
  BY LocalAssumption DEF RowOK, NoRow, Started
<1>3. todo[c] \in SUBSET Row /\ \A v \in todo[c] : RowOK(v)'
  BY RowsKept, ClientTypesHold DEF ClientTypes, RowsOf
<1>4. QED
  BY <1>1, <1>2, <1>3, RefreshedKeeps DEF Lose

LEMMA RequeueKeeps ==
  ASSUME LocalInv, Effect, NEW c \in Clients, Requeue(c)
  PROVE  LocalMoves(c) /\ ProcessMoves /\ ClientOK(c)'
<1>1. ClientTypes /\ ClientOK(c)
  BY ClientTypesHold DEF LocalInv
<1>2. ProcessMoves
  BY ProcessesStay DEF Requeue
<1>3. \A v \in todo[c] \cup {mine[c], cur[c]} : RowOK(v)'
  BY RowsKept DEF RowsOf
<1>4. cur[c] \in Row /\ Queued(cur[c].job)
  BY <1>1 DEF Requeue, ClientOK
<1>5. cur[c].job \in Jobs /\ state[cur[c].job] # "absent" /\ todo[c] \in SUBSET Row
  BY <1>1, <1>4 DEF Row, ClientOK, RowsOf, RowOK, ClientTypes
<1>6. CASE Refreshed(c, cur[c], RowOf(cur[c].job), todo[c])
  <2>1. PICK row : row = RowOf(cur[c].job)
    OBVIOUS
  <2>2. row \in Row /\ RowOK(row)'
    BY <1>5, <2>1, RowOfKept
  <2>3. Refreshed(c, cur[c], row, todo[c])
    BY <1>6, <2>1
  <2>4. QED
    BY <1>2, <1>3, <1>5, <2>2, <2>3, RefreshedKeeps
<1>7. CASE /\ pc' = [pc EXCEPT ![c] = "spawn"]
           /\ cur' = [cur EXCEPT ![c] = [cur[c] EXCEPT !.state = "queued"]]
           /\ UNCHANGED <<op, target, sweep, todo, mine, child>>
  <2> DEFINE new == [cur[c] EXCEPT !.state = "queued"]
  <2>1. new \in Row /\ new.job = cur[c].job /\ new.state = "queued"
    BY <1>4 DEF Row, States, Active
  <2>2. ClientTypes' /\ \A d \in Clients \ {c} : SameLocals(d)
    BY <1>1, <1>7, <2>1 DEF SameLocals, ClientStates, ClientTypes
  <2>3. pc'[c] = "spawn" /\ cur'[c] = new /\ UNCHANGED <<op, target, todo, mine>>
    BY <1>1, <1>7 DEF ClientTypes
  <2>4. \A v : v = new => RowOK(v)'
    <3>1. state'[cur[c].job] # "absent"
      BY <1>5 DEF Effect
    <3>2. QED
      BY <2>1, <3>1 DEF RowOK, Started
  <2> HIDE DEF new
  <2>5. ClientOK(c)'
    BY <1>1, <1>3, <1>4, <2>1, <2>3, <2>4 DEF ClientOK, RowsOf, Queued
  <2>6. QED
    BY <1>2, <2>2, <2>5 DEF LocalMoves
<1>8. QED
  BY <1>6, <1>7 DEF Requeue


LEMMA SpawnKeeps ==
  ASSUME LocalInv, Effect, NEW c \in Clients, Spawn(c) \/ SpawnFails(c)
  PROVE  LocalMoves(c) /\ ProcessMoves /\ ClientOK(c)'
<1> USE DEF ClientTypes
<1>1. ClientTypes /\ ClientOK(c)
  BY ClientTypesHold DEF LocalInv
<1>2. pc[c] = "spawn" /\ cur[c] \in Row /\ cur[c].job \in Jobs /\ state[cur[c].job] # "absent"
  BY <1>1 DEF Spawn, SpawnFails, ClientGoes, ClientOK, RowsOf, RowOK, Row
<1>3. /\ todo[c] \in SUBSET Row
      /\ \A v \in todo[c] : RowOK(v)'
      /\ \A v \in {mine[c], cur[c]} : RowOK(v)'
  BY <1>1, RowsKept DEF RowsOf
<1>4. RowOK(NoRow)'
  BY LocalAssumption DEF RowOK, NoRow, Started
<1>5. CASE Spawn(c)
  <2>1. PICK r \in Runners :
          /\ FreshRunner(r)
          /\ rpc' = [rpc EXCEPT ![r] = "boot"]
          /\ rjob' = [rjob EXCEPT ![r] = cur[c].job]
          /\ child' = [child EXCEPT ![c] = r]
    BY <1>5 DEF Spawn
  <2>2. pc' = [pc EXCEPT ![c] = "register"] /\ UNCHANGED <<op, target, sweep, todo, mine, cur>>
    BY <1>5 DEF Spawn, ClientGoes
  <2>3. ProcessMoves
    BY <1>2, <1>5, <2>1 DEF Spawn, ProcessMoves, LocalInv, TypeOK, cmdVars
  <2>4. ClientTypes' /\ \A d \in Clients \ {c} : SameLocals(d)
    BY <1>1, <2>1, <2>2 DEF SameLocals, ClientStates, RunnerIds
  <2>5. pc'[c] = "register" /\ child'[c] = r
    BY <1>1, <2>1, <2>2
  <2>6. ClientOK(c)'
    BY <1>1, <1>2, <1>3, <2>2, <2>5 DEF ClientOK, RowsOf, Submitting, Queued
  <2>7. QED
    BY <2>3, <2>4, <2>6 DEF LocalMoves
<1>6. CASE SpawnFails(c)
  <2>1. ProcessMoves
    BY <1>6, ProcessesStay DEF SpawnFails
  <2>2. CASE Refreshed(c, cur[c], NoRow, todo[c])
    BY <1>3, <1>4, <2>1, <2>2, RefreshedKeeps
  <2>3. CASE /\ Submitting(c)
             /\ pc' = [pc EXCEPT ![c] = "fail"]
             /\ UNCHANGED <<op, target, sweep, todo, mine, cur, child>>
    <3>1. ClientTypes' /\ \A d \in Clients \ {c} : SameLocals(d)
      BY <1>1, <2>3 DEF SameLocals, ClientStates
    <3>2. pc'[c] = "fail" /\ state'[target[c]] # "absent"
      BY <1>1, <1>2, <2>3 DEF Submitting, Effect
    <3>3. ClientOK(c)'
      BY <1>1, <1>3, <2>3, <3>2 DEF ClientOK, RowsOf, Submitting
    <3>4. QED
      BY <2>1, <3>1, <3>3 DEF LocalMoves
  <2>4. QED
    BY <1>6, <2>2, <2>3 DEF SpawnFails
<1>7. QED
  BY <1>5, <1>6

LEMMA RegisterKeeps ==
  ASSUME LocalInv, Effect, NEW c \in Clients, Register(c) \/ RegisterDirect(c)
  PROVE  LocalMoves(c) /\ ProcessMoves /\ ClientOK(c)'
<1> USE DEF ClientTypes
<1>1. ClientTypes /\ ClientOK(c)
  BY ClientTypesHold DEF LocalInv
<1>2. /\ pc[c] = "register" /\ child[c] \in Runners
      /\ cur[c] \in Row /\ cur[c].job \in Jobs /\ state[cur[c].job] # "absent"
  BY <1>1 DEF Register, RegisterDirect, ClientGoes, ClientOK, RowsOf, RowOK, Row
<1>3. /\ todo[c] \in SUBSET Row
      /\ \A v \in todo[c] : RowOK(v)'
      /\ \A v \in {mine[c], cur[c]} : RowOK(v)'
  BY <1>1, RowsKept DEF RowsOf
<1>4. CASE Register(c)
  <2>1. ProcessMoves
    BY <1>2, <1>4 DEF Register, ProcessMoves, LocalInv, TypeOK, cmdVars
  <2>2. CASE Finish(c)
    BY <2>1, <2>2, FinishKeeps
  <2>3. CASE Refreshed(c, cur[c], [RowOf(cur[c].job) EXCEPT !.owner = owner'[cur[c].job]], todo[c])
    <3>1. PICK row : row = [RowOf(cur[c].job) EXCEPT !.owner = owner'[cur[c].job]]
      OBVIOUS
    <3>2. PICK old : old = RowOf(cur[c].job)
      OBVIOUS
    <3>3. old \in Row /\ old.job = cur[c].job /\ RowOK(old)'
      BY <1>2, <3>2, RowOfKept
    <3>4. owner'[cur[c].job] \in RunnerIds
      BY <1>2 DEF Effect, StoreInv, StoreTypeOK
    <3>5. row = [old EXCEPT !.owner = owner'[cur[c].job]]
      BY <3>1, <3>2
    <3>6. row \in Row /\ row.job = old.job /\ row.state = old.state
      BY <3>3, <3>4, <3>5 DEF Row
    <3>7. RowOK(row)'
      BY <3>3, <3>6 DEF RowOK
    <3>8. Refreshed(c, cur[c], row, todo[c])
      BY <2>3, <3>1
    <3>9. QED
      BY <1>3, <2>1, <3>6, <3>7, <3>8, RefreshedKeeps
  <2>4. QED
    BY <1>4, <2>2, <2>3 DEF Register
<1>5. CASE RegisterDirect(c)
  <2>1. ProcessMoves
    BY <1>5, ProcessesStay DEF RegisterDirect
  <2>2. pc' = [pc EXCEPT ![c] = "await"] /\ UNCHANGED <<op, target, sweep, todo, mine, cur, child>>
        /\ ~Queued(cur[c].job)
    BY <1>5 DEF RegisterDirect, ClientGoes
  <2>3. ClientTypes' /\ \A d \in Clients \ {c} : SameLocals(d)
    BY <1>1, <2>2 DEF SameLocals, ClientStates
  <2>4. Submitting(c)
    BY <1>1, <1>2, <2>2 DEF ClientOK
  <2>5. pc'[c] = "await" /\ state'[target[c]] # "absent"
    BY <1>1, <1>2, <2>2, <2>4 DEF Submitting, Effect
  <2>6. ClientOK(c)'
    BY <1>1, <1>3, <2>2, <2>4, <2>5 DEF ClientOK, RowsOf, Submitting
  <2>7. QED
    BY <2>1, <2>3, <2>6 DEF LocalMoves
<1>6. QED
  BY <1>4, <1>5

(* The steps of submit that concern the row it inserts.                    *)
LEMMA SubmitKeeps ==
  ASSUME LocalInv, Effect, NEW c \in Clients,
         \/ Insert(c) \/ Files(c) \/ FilesFail(c)
         \/ Await(c) \/ AwaitOver(c) \/ SubmitFail(c)
  PROVE  LocalMoves(c) /\ ProcessMoves /\ ClientOK(c)'
<1> USE DEF ClientTypes
<1>1. ClientTypes /\ ClientOK(c)
  BY ClientTypesHold DEF LocalInv
<1>2. \A v \in todo[c] \cup {mine[c], cur[c]} : RowOK(v)'
  BY RowsKept DEF RowsOf
<1>3. CASE Finish(c)
  <2>1. ~Files(c)
    BY <1>1, <1>3 DEF Files, Finish, ClientGoes
  <2>2. ProcessMoves
    BY <2>1, ProcessesStay DEF Insert, FilesFail, Await, AwaitOver, SubmitFail
  <2>3. QED
    BY <1>3, <2>2, FinishKeeps
<1>4. CASE Insert(c)
  <2>1. ProcessMoves
    BY <1>4, ProcessesStay DEF Insert
  <2>2. pc[c] = "create" /\ op[c] = "submit" /\ target[c] \in Jobs /\ Create(target[c])
    BY <1>1, <1>4 DEF Insert, ClientGoes, ClientOK
  <2>3. PICK new : new = [RowOf(target[c]) EXCEPT !.state = state'[target[c]]]
    OBVIOUS
  <2>4. state'[target[c]] \in {"queued", "starting"}
    BY <2>2 DEF Create, LocalInv, TypeOK, StoreTypeOK
  <2>5. RowOf(target[c]) \in Row /\ RowOf(target[c]).job = target[c]
    BY <2>2 DEF RowOf, Row, LocalInv, TypeOK, StoreTypeOK
  <2>6. new \in Row /\ new.job = target[c] /\ new.state \notin Started
    BY <2>3, <2>4, <2>5 DEF Row, Started, States, Active, Occupying
  <2>7. RowOK(new)'
    BY <2>4, <2>6 DEF RowOK
  <2>8. pc' = [pc EXCEPT ![c] = "files"] /\ cur' = [cur EXCEPT ![c] = new]
        /\ UNCHANGED <<op, target, sweep, todo, mine, child>>
    BY <1>4, <2>3 DEF Insert, ClientGoes
  <2>9. ClientTypes' /\ \A d \in Clients \ {c} : SameLocals(d)
    BY <1>1, <2>6, <2>8 DEF SameLocals, ClientStates
  <2>10. pc'[c] = "files" /\ cur'[c] = new
    BY <1>1, <2>8
  <2>11. ClientOK(c)'
    BY <1>1, <1>2, <2>2, <2>4, <2>6, <2>7, <2>8, <2>10 DEF ClientOK, RowsOf, Submitting
  <2>12. QED
    BY <2>1, <2>9, <2>11 DEF LocalMoves
<1>5. CASE Files(c)
  <2>1. pc[c] = "files" /\ target[c] \in Jobs /\ Submitting(c)
    BY <1>1, <1>5 DEF Files, ClientGoes, ClientOK
  <2>2. ProcessMoves
    BY <1>5, <2>1 DEF Files, ProcessMoves, LocalInv, TypeOK, cmdVars
  <2>3. pc' = [pc EXCEPT ![c] = "spawn"] /\ UNCHANGED <<op, target, sweep, todo, mine, cur, child>>
    BY <1>5 DEF Files, ClientGoes
  <2>4. ClientTypes' /\ \A d \in Clients \ {c} : SameLocals(d)
    BY <1>1, <2>3 DEF SameLocals, ClientStates
  <2>5. pc'[c] = "spawn"
    BY <1>1, <2>3
  <2>6. ClientOK(c)'
    BY <1>1, <1>2, <2>1, <2>3, <2>5 DEF ClientOK, RowsOf, Submitting
  <2>7. QED
    BY <2>2, <2>4, <2>6 DEF LocalMoves
<1>6. CASE /\ pc[c] \in {"files", "await"}
           /\ pc' = [pc EXCEPT ![c] = "fail"]
           /\ UNCHANGED <<op, target, sweep, todo, mine, cur, child>>
           /\ FilesFail(c) \/ AwaitOver(c)
  <2>1. ProcessMoves
    BY <1>6, ProcessesStay DEF FilesFail, AwaitOver
  <2>2. ClientTypes' /\ \A d \in Clients \ {c} : SameLocals(d)
    BY <1>1, <1>6 DEF SameLocals, ClientStates
  <2>3. pc'[c] = "fail" /\ target[c] \in Jobs /\ state'[target[c]] # "absent"
    BY <1>1, <1>6 DEF ClientOK, Effect
  <2>4. ClientOK(c)'
    BY <1>1, <1>2, <1>6, <2>3 DEF ClientOK, RowsOf
  <2>5. QED
    BY <2>1, <2>2, <2>4 DEF LocalMoves
<1>7. QED
  BY <1>3, <1>4, <1>5, <1>6 DEF FilesFail, ClientGoes, Await, AwaitOver, SubmitFail


LEMMA StallKeeps ==
  ASSUME LocalInv, NEW c \in Clients, Stall(c)
  PROVE  LocalMoves(c) /\ ProcessMoves /\ ClientOK(c)'
BY ProcessesStay, FinishKeeps DEF Stall

LEMMA CancelStopKeeps ==
  ASSUME LocalInv, NEW c \in Clients, CancelStop(c)
  PROVE  LocalMoves(c) /\ ProcessMoves /\ ClientOK(c)'
<1>1. ProcessMoves
  BY DEF CancelStop, ProcessMoves, CmdExists, LocalInv, TypeOK, cmdVars
<1>2. QED
  BY <1>1, FinishKeeps DEF CancelStop

LEMMA ClientStepKeepsInv ==
  ASSUME LocalInv, NEW c \in Clients, ClientStep(c)
  PROVE  LocalInv'
<1>1. Effect
  BY ClientStepStore, LocalStoreEffect
<1>2. LocalMoves(c) /\ ProcessMoves /\ ClientOK(c)'
  BY <1>1, SweepKeeps, LookKeeps, LoseKeeps, RequeueKeeps, SpawnKeeps, RegisterKeeps,
     SubmitKeeps, StallKeeps, CancelStopKeeps DEF ClientStep
<1>3. QED
  BY <1>1, <1>2, ClientMovesKeepInv

(* The first step of each operation.                                       *)
LEMMA BeginStore ==
  ASSUME LocalInv, NEW c \in Clients, ClientBegin(c)
  PROVE  LocalStore
<1>1. CASE UNCHANGED store
  BY <1>1 DEF LocalStore
<1>2. ASSUME NEW j \in Jobs, CancelMark(c, j) PROVE LocalStore
  <2>1. state[j] # "absent"
    BY <1>2 DEF CancelMark, Active, Occupying
  <2>2. cmd[j] \in RunnerIds /\ code[j] \in Codes \cup {NoCode}
    BY DEF LocalInv, TypeOK, StoreTypeOK
  <2>3. QED
    BY <1>2, <2>1, <2>2 DEF CancelMark, SetState, Terminal, Allowed, LocalStore
<1>3. QED
  BY <1>1, <1>2 DEF ClientBegin, ListBegin, SubmitBegin, StatusBegin, Begins

LEMMA BeginKeeps ==
  ASSUME LocalInv, Effect, NEW c \in Clients, ClientBegin(c)
  PROVE  LocalMoves(c) /\ ProcessMoves /\ ClientOK(c)'
<1> USE DEF ClientTypes
<1>1. ClientTypes /\ ClientOK(c)
  BY ClientTypesHold DEF LocalInv
<1>2. ProcessMoves
  BY ProcessesStay DEF ClientBegin, ListBegin, SubmitBegin, StatusBegin, CancelMark, Begins
<1>3. \A v \in {mine[c], cur[c]} : RowOK(v)'
  BY RowsKept DEF RowsOf
<1>4. RowOK(NoRow)'
  BY LocalAssumption DEF RowOK, NoRow, Started
<1>5. 1 \in 1..SweepDone /\ SweepDone \in 1..SweepDone
  BY DEF SweepDone, SweepStates
<1>6. ASSUME NEW o \in Operations, NEW j \in Jobs \cup {NoJob}, NEW p \in {"sweep", "create"},
             NEW s \in 1..SweepDone, NEW rows \in SUBSET Row, NEW own \in Row \cup {NoRow},
             \A v \in rows \cup {own} : RowOK(v)',
             p = "create" => o = "submit", o = "submit" => j \in Jobs,
             Begins(c, o, j, p, s, rows, own)
      PROVE  LocalMoves(c) /\ ClientOK(c)'
  <2>1. /\ pc' = [pc EXCEPT ![c] = p] /\ op' = [op EXCEPT ![c] = o]
        /\ target' = [target EXCEPT ![c] = j] /\ sweep' = [sweep EXCEPT ![c] = s]
        /\ todo' = [todo EXCEPT ![c] = rows] /\ mine' = [mine EXCEPT ![c] = own]
        /\ UNCHANGED <<cur, child>>
    BY <1>6 DEF Begins, ClientGoes
  <2>2. ClientTypes' /\ \A d \in Clients \ {c} : SameLocals(d)
    BY <1>1, <1>6, <2>1 DEF SameLocals, ClientStates
  <2>3. pc'[c] = p /\ op'[c] = o /\ target'[c] = j /\ todo'[c] = rows /\ mine'[c] = own
        /\ cur'[c] = cur[c]
    BY <1>1, <2>1
  <2>4. ClientOK(c)'
    BY <1>3, <1>6, <2>3 DEF ClientOK, RowsOf
  <2>5. QED
    BY <2>2, <2>4 DEF LocalMoves
<1>7. CASE ListBegin(c)
  <2>1. PICK rows : rows = {RowOf(j) : j \in {k \in Jobs : state[k] \in Active}}
    OBVIOUS
  <2>2. ASSUME NEW w \in rows PROVE w \in Row /\ RowOK(w)'
    <3>1. PICK j \in Jobs : w = RowOf(j) /\ state[j] \in Active
      BY <2>1
    <3>2. state[j] # "absent"
      BY <3>1 DEF Active, Occupying
    <3>3. QED
      BY <3>1, <3>2, RowOfKept
  <2>3. rows \in SUBSET Row /\ \A v \in rows \cup {NoRow} : RowOK(v)'
    BY <1>4, <2>2
  <2>4. Begins(c, "list", NoJob, "sweep", SweepDone, rows, NoRow)
    BY <1>7, <2>1 DEF ListBegin
  <2>5. QED
    BY <1>2, <1>5, <1>6, <2>3, <2>4 DEF Operations
<1>8. ASSUME NEW j \in Jobs, SubmitBegin(c, j) PROVE LocalMoves(c) /\ ClientOK(c)'
  <2>1. PICK p \in {"sweep", "create"} : Begins(c, "submit", j, p, 1, {}, NoRow)
    BY <1>8 DEF SubmitBegin
  <2>2. QED
    BY <1>4, <1>5, <1>6, <2>1 DEF Operations
<1>9. ASSUME NEW j \in Jobs, StatusBegin(c, j) PROVE LocalMoves(c) /\ ClientOK(c)'
  <2>1. PICK row : row = RowOf(j)
    OBVIOUS
  <2>2. row \in Row /\ RowOK(row)'
    BY <1>9, <2>1, RowOfKept DEF StatusBegin
  <2>3. CASE Begins(c, "status", j, "sweep", 1, {}, row)
    BY <1>5, <1>6, <2>2, <2>3 DEF Operations
  <2>4. CASE Begins(c, "status", j, "sweep", SweepDone, {row}, NoRow)
    BY <1>4, <1>5, <1>6, <2>2, <2>4 DEF Operations
  <2>5. QED
    BY <1>9, <2>1, <2>3, <2>4 DEF StatusBegin
<1>10. ASSUME NEW j \in Jobs, CancelMark(c, j) PROVE LocalMoves(c) /\ ClientOK(c)'
  <2>1. PICK old : old = RowOf(j)
    OBVIOUS
  <2>2. PICK new : new = [old EXCEPT !.state = "cancelled"]
    OBVIOUS
  <2>3. state[j] # "absent"
    BY <1>10 DEF CancelMark, Active, Occupying
  <2>4. old \in Row /\ old.job = j
    BY <2>1, <2>3, RowOfKept
  <2>5. new \in Row /\ new.job = j /\ new.state = "cancelled"
    BY <2>2, <2>4 DEF Row, States, Terminal
  <2>6. RowOK(new)'
    BY <2>3, <2>5 DEF RowOK, Started, Effect
  <2>7. /\ pc' = [pc EXCEPT ![c] = "stop"] /\ op' = [op EXCEPT ![c] = "cancel"]
        /\ target' = [target EXCEPT ![c] = j] /\ cur' = [cur EXCEPT ![c] = new]
        /\ UNCHANGED <<sweep, todo, mine, child>>
    BY <1>10, <2>1, <2>2 DEF CancelMark, ClientGoes
  <2>8. ClientTypes' /\ \A d \in Clients \ {c} : SameLocals(d)
    BY <1>1, <2>5, <2>7 DEF SameLocals, ClientStates, Operations
  <2>9. pc'[c] = "stop" /\ op'[c] = "cancel" /\ cur'[c] = new /\ UNCHANGED <<todo, mine>>
    BY <1>1, <2>7
  <2>10. \A v \in todo[c] \cup {mine[c]} : RowOK(v)'
    BY RowsKept DEF RowsOf
  <2>11. ClientOK(c)'
    BY <2>5, <2>6, <2>9, <2>10 DEF ClientOK, RowsOf
  <2>12. QED
    BY <2>8, <2>11 DEF LocalMoves
<1>11. QED
  BY <1>2, <1>7, <1>8, <1>9, <1>10 DEF ClientBegin


-----------------------------------------------------------------------------
(* Faults, and commands that end unobserved: processes only disappear.     *)

LEMMA NoStoreStep == LocalInv /\ UNCHANGED store => Effect
BY LocalStoreEffect DEF LocalStore

LEMMA ClientCrashKeepsInv ==
  ASSUME LocalInv, NEW c \in Clients, ClientCrash(c)
  PROVE  LocalInv'
<1>1. Effect
  BY NoStoreStep DEF ClientCrash
<1>2. ProcessMoves
  BY ProcessesStay DEF ClientCrash
<1>3. QED
  BY <1>1, <1>2, FinishKeeps, ClientMovesKeepInv DEF ClientCrash

LEMMA RunnerGoneKeepsInv ==
  ASSUME LocalInv, NEW r \in Runners, OrphanEnds(r) \/ RunnerCrash(r)
  PROVE  LocalInv'
<1>1. Effect
  BY NoStoreStep DEF OrphanEnds, RunnerCrash
<1>2. /\ rpc \in [Runners -> RunnerStates] /\ rjob \in [Runners -> Jobs \cup {NoJob}]
      /\ "gone" \in RunnerStates
  BY DEF LocalInv, TypeOK, RunnerStates
<1>3. rpc'[r] = "gone" /\ \A i \in Runners \ {r} : rpc'[i] = rpc[i] /\ rjob'[i] = rjob[i]
  BY <1>2 DEF OrphanEnds, RunnerCrash, Alive
<1>4. /\ rpc' \in [Runners -> RunnerStates] /\ rjob' \in [Runners -> Jobs \cup {NoJob}]
      /\ faults' \in 0..MaxFaults
      /\ live' \subseteq live /\ live \ {r} \subseteq live' /\ killed' \subseteq live'
      /\ UNCHANGED <<store, spec, launches, clientVars>>
  BY <1>2, LocalAssumption
     DEF OrphanEnds, RunnerCrash, Fault, CommandGone, cmdVars, LocalInv, TypeOK
<1>5. TypeOK'
  BY <1>4 DEF LocalInv, TypeOK, StoreTypeOK, store, clientVars
<1>6. ASSUME NEW i \in Runners PROVE RunnerOK(i)'
  BY <1>3, <1>4 DEF LocalInv, RunnerOK, Alive, Admitted, Queued, store
<1>7. ASSUME NEW c \in Clients PROVE ClientOK(c)'
  <2>1. Alive(cur[c].owner)' => Alive(cur[c].owner)
    BY <1>3, <1>4 DEF Alive, clientVars
  <2>2. QED
    BY <1>1, <1>4, <2>1, ClientUntouched DEF clientVars
<1>8. QED
  BY <1>1, <1>5, <1>6, <1>7 DEF LocalInv, Effect

LEMMA RebootKeepsInv ==
  ASSUME LocalInv, Reboot
  PROVE  LocalInv'
<1>1. Effect
  BY NoStoreStep DEF Reboot
<1>2. TypeOK'
  <2>1. 1 \in 1..SweepDone
    BY DEF SweepDone, SweepStates
  <2>2. faults' \in 0..MaxFaults
    BY LocalAssumption DEF Reboot, Fault, LocalInv, TypeOK
  <2>3. QED
    BY <1>1, <2>1, <2>2
       DEF Reboot, LocalInv, TypeOK, StoreInv, Effect, RunnerStates, ClientStates, RunnerIds
<1>3. ASSUME NEW r \in Runners PROVE RunnerOK(r)'
  BY DEF Reboot, RunnerOK, Alive
<1>4. ASSUME NEW c \in Clients PROVE ClientOK(c)'
  <2>1. RowOK(NoRow)'
    BY LocalAssumption DEF RowOK, NoRow, Started
  <2>2. /\ pc'[c] = "idle" /\ op'[c] = "none" /\ todo'[c] = {}
        /\ mine'[c] = NoRow /\ cur'[c] = NoRow
    BY DEF Reboot
  <2>3. QED
    BY <2>1, <2>2 DEF ClientOK, RowsOf
<1>5. QED
  BY <1>1, <1>2, <1>3, <1>4 DEF LocalInv, Effect

-----------------------------------------------------------------------------
LEMMA LocalInvInit == Init => LocalInv
<1> SUFFICES ASSUME Init PROVE LocalInv
  OBVIOUS
<1>1. StoreInv
  BY StoreInvInit DEF Init
<1>2. TypeOK
  <2>1. 1 \in 1..SweepDone
    BY DEF SweepDone, SweepStates
  <2>2. QED
    BY <1>1, <2>1, LocalAssumption
       DEF Init, TypeOK, StoreInv, RunnerStates, ClientStates, RunnerIds
<1>3. QueuedHasQueue
  BY DEF Init, StoreInit, QueuedHasQueue
<1>4. \A r \in Runners : RunnerOK(r)
  BY DEF Init, RunnerOK, Alive
<1>5. ASSUME NEW c \in Clients PROVE ClientOK(c)
  BY LocalAssumption DEF Init, ClientOK, RowsOf, RowOK, NoRow, Started
<1>6. QED
  BY <1>1, <1>2, <1>3, <1>4, <1>5 DEF LocalInv

LEMMA LocalInvStep == LocalInv /\ [Next]_vars => LocalInv'
<1> SUFFICES ASSUME LocalInv, [Next]_vars PROVE LocalInv'
  OBVIOUS
<1>1. CASE UNCHANGED vars
  <2>1. Effect
    BY <1>1, NoStoreStep DEF vars
  <2>2. TypeOK'
    BY <1>1 DEF vars, store, runnerVars, cmdVars, clientVars, LocalInv, TypeOK, StoreTypeOK
  <2>3. ASSUME NEW r \in Runners PROVE RunnerOK(r)'
    BY <1>1 DEF vars, store, runnerVars, cmdVars, LocalInv, RunnerOK, Alive, Admitted, Queued
  <2>4. ASSUME NEW c \in Clients PROVE ClientOK(c)'
    BY <1>1, <2>1, ClientUntouched DEF vars, runnerVars, clientVars, Alive
  <2>5. QED
    BY <2>1, <2>2, <2>3, <2>4 DEF LocalInv, Effect
<1>2. ASSUME NEW r \in Runners, RunnerStep(r) PROVE LocalInv'
  BY <1>2, RunnerStepStore, LocalStoreEffect, RunnerStepMoves, RunnerMovesKeepsInv
<1>3. ASSUME NEW r \in Runners, OrphanEnds(r) \/ RunnerCrash(r) PROVE LocalInv'
  BY <1>3, RunnerGoneKeepsInv
<1>4. ASSUME NEW c \in Clients, ClientBegin(c) PROVE LocalInv'
  BY <1>4, BeginStore, LocalStoreEffect, BeginKeeps, ClientMovesKeepInv
<1>5. ASSUME NEW c \in Clients, ClientStep(c) PROVE LocalInv'
  BY <1>5, ClientStepKeepsInv
<1>6. ASSUME NEW c \in Clients, ClientCrash(c) PROVE LocalInv'
  BY <1>6, ClientCrashKeepsInv
<1>7. CASE Reboot
  BY <1>7, RebootKeepsInv
<1>8. QED
  BY <1>1, <1>2, <1>3, <1>4, <1>5, <1>6, <1>7 DEF Next

(* The inductive invariant holds: where a runner of a job may be while its *)
(* row is in a given state, and what clients that read the row earlier may *)
(* still rely on (runner.py 24-97, backends/local.py).                     *)
THEOREM LocalInvariant == Spec => []LocalInv
BY LocalInvInit, LocalInvStep, PTL DEF Spec

-----------------------------------------------------------------------------
(* Rows, processes and the memories of clients keep their types; in        *)
(* particular only commands that exist are ever signalled.                 *)
THEOREM LocalTypes == Spec => []TypeOK
<1>1. LocalInv => TypeOK
  BY DEF LocalInv
<1>2. QED
  BY <1>1, LocalInvariant, PTL

(* A job that is waiting in its queue is executed by nobody.               *)
THEOREM LocalQueuedIsIdle == Spec => []QueuedIsIdle
<1>1. LocalInv => QueuedIsIdle
  BY DEF LocalInv, RunnerOK, Admitted, QueuedIsIdle
<1>2. QED
  BY <1>1, LocalInvariant, PTL

(* Recovery never leads to two admitted runners of one queued job.         *)
THEOREM LocalOneAdmittedRunner == Spec => []OneAdmittedRunner
<1>1. LocalInv => OneAdmittedRunner
  BY DEF LocalInv, RunnerOK, Admitted, OneAdmittedRunner
<1>2. QED
  BY <1>1, LocalInvariant, PTL


-----------------------------------------------------------------------------
(* Every step of the backend is at most one transaction of the registry.   *)
LEMMA StepStore == LocalInv /\ [Next]_vars => LocalStore
<1> SUFFICES ASSUME LocalInv, [Next]_vars PROVE LocalStore
  OBVIOUS
<1>1. CASE UNCHANGED store
  BY <1>1 DEF LocalStore
<1>2. QED
  BY <1>1, RunnerStepStore, BeginStore, ClientStepStore
     DEF Next, OrphanEnds, RunnerCrash, ClientCrash, Reboot, vars

(* The backend uses the registry as its transactions allow, so whatever    *)
(* holds of the registry under arbitrary callers holds here.               *)
THEOREM LocalImplementsStore == Spec => StoreSpec
<1>1. Init => StoreInit
  BY DEF Init
<1>2. LocalInv /\ [Next]_vars => [StoreNext]_store
  BY StepStore, LocalStoreIsStoreStep
<1>3. QED
  BY <1>1, <1>2, LocalInvariant, PTL DEF Spec, StoreSpec

(* A job whose command was recorded never waits or starts again.           *)
THEOREM LocalNeverRequeuedOnceRunning == Spec => NeverRequeuedOnceRunning
<1> DEFINE Never == \A j \in Jobs : state[j] \in {"running", "stalled"}
                                      => state'[j] \notin {"queued", "starting"}
<1>1. LocalInv /\ [Next]_vars => [Never]_vars
  <2> SUFFICES ASSUME LocalInv, Next PROVE Never
    OBVIOUS
  <2>1. Effect
    BY StepStore, LocalStoreEffect
  <2>2. QED
    BY <2>1 DEF Effect, Started, Terminal
<1>2. QED
  BY <1>1, LocalInvariant, PTL DEF Spec, NeverRequeuedOnceRunning

(* A step adds at most one holder to a queue, and only below its limit.    *)
LEMMA CapacityStep ==
  ASSUME LocalInv, LocalStore, Capacity
  PROVE  Capacity'
<1> SUFFICES ASSUME NEW q \in Queues
             PROVE  Cardinality(Holders(q)') <= Concurrency[q]
  BY DEF Capacity
<1>1. state \in [Jobs -> States] /\ Concurrency[q] \in Nat
  BY StoreAssumption DEF LocalInv, TypeOK, StoreTypeOK
<1>2. IsFiniteSet(Holders(q)) /\ Cardinality(Holders(q)) \in Nat
  BY StoreAssumption, FS_Subset, FS_CardinalityType DEF Holders
<1>3. Cardinality(Holders(q)) <= Concurrency[q]
  BY DEF Capacity
<1>4. CASE Holders(q)' \subseteq Holders(q)
  <2>1. Cardinality(Holders(q)') <= Cardinality(Holders(q)) /\ Cardinality(Holders(q)') \in Nat
    BY <1>2, <1>4, FS_Subset, FS_CardinalityType
  <2>2. QED
    BY <1>1, <1>2, <1>3, <2>1
<1>5. CASE UNCHANGED store
  BY <1>4, <1>5 DEF Holders, store
<1>6. ASSUME NEW j \in Jobs, Create(j) PROVE Holders(q)' \subseteq Holders(q)
  <2>1. QueueOf[j] = q => Queued(j)
    BY StoreAssumption DEF Queued
  <2>2. QueueOf[j] = q => state'[j] = "queued"
    BY <1>1, <1>6, <2>1 DEF Create
  <2>3. QED
    BY <1>1, <1>6, <2>2 DEF Create, Holders, Occupying
<1>7. ASSUME NEW j \in Jobs, NEW r \in Runners, ClaimSlot(j, r)
      PROVE  Cardinality(Holders(q)') <= Concurrency[q]
  <2>1. CASE QueueOf[j] # q
    <3>1. Holders(q)' \subseteq Holders(q)
      BY <1>1, <1>7, <2>1 DEF ClaimSlot, Holders
    <3>2. QED
      BY <1>4, <3>1
  <2>2. CASE QueueOf[j] = q
    <3>1. Cardinality(Holders(q)) < Concurrency[q] /\ j \notin Holders(q)
      BY <1>7, <2>2 DEF ClaimSlot, Claimable, Holders, Occupying
    <3>2. Holders(q)' = Holders(q) \cup {j}
      BY <1>1, <1>7, <2>2 DEF ClaimSlot, Holders, Occupying
    <3>3. Cardinality(Holders(q)') = Cardinality(Holders(q)) + 1
      BY <1>2, <3>1, <3>2, FS_AddElement
    <3>4. QED
      BY <1>1, <1>2, <3>1, <3>3
  <2>3. QED
    BY <2>1, <2>2
<1>8. ASSUME NEW j \in Jobs, NEW e, RequeueRunner(j, e) PROVE Holders(q)' \subseteq Holders(q)
  BY <1>1, <1>8 DEF RequeueRunner, Holders, Occupying
<1>9. ASSUME NEW j \in Jobs, state[j] # "absent", NEW s \in Terminal \cup Started, NEW p, NEW x,
             s \in Terminal \/ state[j] # "queued", UpdateIfActive(j, s, p, x)
      PROVE  Holders(q)' \subseteq Holders(q)
  <2>1. CASE state[j] \in Terminal
    BY <1>9, <2>1 DEF UpdateIfActive, Holders, store
  <2>2. CASE state[j] \notin Terminal
    <3>1. state' = [state EXCEPT ![j] = s]
      BY <1>9, <2>2 DEF UpdateIfActive
    <3>2. s \in Occupying => state[j] \in Occupying
      BY <1>1, <1>9, <2>2 DEF States, Active, Occupying, Terminal, Started
    <3>3. QED
      BY <1>1, <3>1, <3>2 DEF Holders
  <2>3. QED
    BY <2>1, <2>2
<1>10. CASE state' = state
  BY <1>4, <1>10 DEF Holders
<1>11. ASSUME NEW j \in Jobs, NEW s \in Terminal \cup Started, Allowed(j, s)
       PROVE  s \in Terminal \/ state[j] # "queued"
  BY <1>11 DEF Allowed, Terminal, Started
<1>12. QED
  BY <1>4, <1>5, <1>6, <1>7, <1>8, <1>9, <1>10, <1>11
     DEF LocalStore, RegisterRunner, UpdateOwner, UpdateCode

(* A queue never has more slot holders than slots.                         *)
THEOREM LocalCapacity == Spec => []Capacity
<1>1. Init => Capacity
  <2> SUFFICES ASSUME Init, NEW q \in Queues PROVE Cardinality(Holders(q)) <= Concurrency[q]
    BY DEF Capacity
  <2>1. Holders(q) = {}
    BY DEF Init, StoreInit, Holders, Occupying
  <2>2. Cardinality(Holders(q)) = 0 /\ Concurrency[q] \in Nat
    BY <2>1, FS_EmptySet, StoreAssumption
  <2>3. QED
    BY <2>2
<1>2. LocalInv /\ Capacity /\ [Next]_vars => Capacity'
  BY StepStore, CapacityStep
<1>3. QED
  BY <1>1, <1>2, LocalInvariant, PTL DEF Spec

-----------------------------------------------------------------------------
(* Local execution implements the lifecycle that clients are promised.     *)
(*                                                                         *)
(* Every step is at most one transaction of the registry.  What is left is *)
(* that a transaction is used only where the lifecycle has a transition: a *)
(* job succeeds, times out or stalls only after it was running, which the  *)
(* runner knows from the commit of its command, and a client from the row  *)
(* it read.                                                                *)

\* A job gets its rank when it is inserted.
Unranked == \A j \in Jobs : state[j] = "absent" => order[j] = 0

LEMMA UnrankedInit == Init => Unranked
BY DEF Init, StoreInit, Unranked

LEMMA UnrankedStep == LocalInv /\ Unranked /\ [Next]_vars => Unranked'
<1> SUFFICES ASSUME LocalInv, Unranked, LocalStore PROVE Unranked'
  BY StepStore
<1>1. StoreTypeOK /\ Effect
  BY LocalStoreEffect DEF LocalInv, TypeOK
<1>2. CASE order' = order
  BY <1>1, <1>2 DEF Unranked, Effect
<1>3. ASSUME NEW j \in Jobs, Create(j) PROVE Unranked'
  BY <1>1, <1>3 DEF Create, Unranked, StoreTypeOK
<1>4. QED
  BY <1>2, <1>3 DEF LocalStore, ClaimSlot, RegisterRunner, RequeueRunner, UpdateIfActive,
                    UpdateOwner, UpdateCode, store

-----------------------------------------------------------------------------
(* The transactions, as transitions of the lifecycle.                      *)

Transition == [Lifecycle!Next]_(Lifecycle!lifecycle)

LEMMA Invisible ==
  ASSUME UNCHANGED <<state, order, feed>>
  PROVE  Transition
BY DEF Transition, Lifecycle!lifecycle

LEMMA CreateTransition ==
  ASSUME LocalInv, Unranked, NEW j \in Jobs, Create(j)
  PROVE  Lifecycle!Next
<1>1. StoreTypeOK /\ state[j] = "absent" /\ order[j] = 0
  BY DEF LocalInv, TypeOK, Create, Unranked
<1>2. CASE Queued(j)
  <2>1. /\ state' = [state EXCEPT ![j] = "queued"] /\ feed' = feed
        /\ order' = [order EXCEPT ![j] = NextOrder(QueueOf[j])]
    BY <1>2 DEF Create
  <2>2. order'[j] = NextOrder(QueueOf[j]) /\ order' = [order EXCEPT ![j] = order'[j]]
    BY <1>1, <2>1 DEF StoreTypeOK
  <2>3. \A k \in Lifecycle!Peers(j) : order[k] < order'[j]
    BY <1>1, <2>2, NextOrderIsLast DEF Lifecycle!Peers
  <2>4. Lifecycle!SubmitQueued(j)
    BY <1>1, <1>2, <2>1, <2>2, <2>3 DEF Lifecycle!SubmitQueued, Queued
  <2>5. QED
    BY <2>4 DEF Lifecycle!Next
<1>3. CASE ~Queued(j)
  <2>1. state' = [state EXCEPT ![j] = "starting"] /\ feed' = feed /\ order' = order
    BY <1>1, <1>3 DEF Create, StoreTypeOK
  <2>2. Lifecycle!SubmitDirect(j)
    BY <1>1, <1>3, <2>1 DEF Lifecycle!SubmitDirect, Lifecycle!Moves, Queued
  <2>3. QED
    BY <2>2 DEF Lifecycle!Next
<1>4. QED
  BY <1>2, <1>3

(* The instance has a Cardinality of its own, with the same definition.    *)
LEMMA SameCardinality == \A S : Lifecycle!Cardinality(S) = Cardinality(S)
BY DEF Lifecycle!Cardinality, Cardinality

LEMMA ClaimTransition ==
  ASSUME LocalInv, NEW j \in Jobs, NEW r \in Runners, ClaimSlot(j, r)
  PROVE  Lifecycle!Next
<1>1. {k \in Lifecycle!Peers(j) : state[k] \in Lifecycle!InSlot} = Holders(QueueOf[j])
  BY DEF Lifecycle!Peers, Lifecycle!InSlot, Holders, Occupying
<1>2. /\ QueueOf[j] # NoQueue
      /\ \A k \in Lifecycle!Peers(j) : state[k] = "queued" => order[j] <= order[k]
      /\ Lifecycle!Moves(j, {"queued"}, "starting")
  BY DEF ClaimSlot, Claimable, Oldest, Queued, Lifecycle!Moves, Lifecycle!Peers
<1>3. Cardinality(Holders(QueueOf[j])) < Concurrency[QueueOf[j]]
  BY DEF ClaimSlot, Claimable
<1>4. Lifecycle!Admit(j)
  BY <1>1, <1>2, <1>3, SameCardinality DEF Lifecycle!Admit
<1>5. QED
  BY <1>4 DEF Lifecycle!Next

LEMMA RequeueTransition ==
  ASSUME NEW j \in Jobs, NEW e, Queued(j), RequeueRunner(j, e)
  PROVE  Lifecycle!Next
<1>1. Lifecycle!GiveBack(j)
  BY DEF RequeueRunner, Requeues, Queued, Lifecycle!GiveBack, Lifecycle!Moves
<1>2. QED
  BY <1>1 DEF Lifecycle!Next

LEMMA UpdateTransition ==
  ASSUME LocalInv, NEW j \in Jobs, state[j] # "absent", NEW s \in Terminal \cup Started,
         NEW p, NEW x, Allowed(j, s), UpdateIfActive(j, s, p, x)
  PROVE  Transition
<1>1. state \in [Jobs -> States] /\ state[j] \in States
  BY DEF LocalInv, TypeOK, StoreTypeOK
<1>2. CASE state[j] \in Terminal
  BY <1>2, Invisible DEF UpdateIfActive, store
<1>3. CASE state[j] \notin Terminal /\ s \in Terminal
  <2>1. /\ state' = [state EXCEPT ![j] = s] /\ order' = order
        /\ feed' = Append(feed, [job |-> j, state |-> s])
    BY <1>3 DEF UpdateIfActive, Emit
  <2>2. state[j] \in Lifecycle!Open
    BY <1>1, <1>3 DEF States, Active, Occupying, Lifecycle!Open, Lifecycle!InSlot
  <2>3. s \in {"succeeded", "timed_out"} => state[j] \in Lifecycle!Started
    BY <1>3 DEF Allowed, Started, Lifecycle!Started
  <2>4. s \in {"succeeded", "failed", "cancelled", "timed_out", "lost"}
    BY <1>3 DEF Terminal
  <2>5. \/ Lifecycle!Succeed(j) \/ Lifecycle!TimeOut(j) \/ Lifecycle!Fail(j)
        \/ Lifecycle!Cancel(j) \/ Lifecycle!Lose(j)
    BY <2>1, <2>2, <2>3, <2>4
       DEF Lifecycle!End, Lifecycle!Succeed, Lifecycle!TimeOut, Lifecycle!Fail,
           Lifecycle!Cancel, Lifecycle!Lose
  <2>6. QED
    BY <2>5 DEF Transition, Lifecycle!Next
<1>4. CASE state[j] \notin Terminal /\ s \notin Terminal
  <2>1. state' = [state EXCEPT ![j] = s] /\ order' = order /\ feed' = feed
    BY <1>4 DEF UpdateIfActive, Emit
  <2>2. s \in {"running", "stalled"} /\ state[j] \in {"queued", "starting", "running", "stalled"}
    BY <1>1, <1>4 DEF States, Active, Occupying, Terminal, Started
  <2>3. CASE s = state[j]
    <3>1. state' = state
      BY <1>1, <2>1, <2>3
    <3>2. QED
      BY <2>1, <3>1, Invisible
  <2>4. CASE s # state[j]
    <3>1. \/ s = "running" /\ state[j] \in {"starting", "stalled"}
          \/ s = "stalled" /\ state[j] = "running"
      BY <1>4, <2>2, <2>4 DEF Allowed, Started
    <3>2. Lifecycle!Start(j) \/ Lifecycle!Resume(j) \/ Lifecycle!Stall(j)
      BY <2>1, <3>1 DEF Lifecycle!Start, Lifecycle!Resume, Lifecycle!Stall, Lifecycle!Moves
    <3>3. QED
      BY <3>2 DEF Transition, Lifecycle!Next
  <2>5. QED
    BY <2>3, <2>4
<1>5. QED
  BY <1>2, <1>3, <1>4

LEMMA StepTransition == LocalInv /\ Unranked /\ [Next]_vars => Transition
<1> SUFFICES ASSUME LocalInv, Unranked, LocalStore PROVE Transition
  BY StepStore
<1>1. CASE UNCHANGED <<state, order, feed>>
  BY <1>1, Invisible
<1>2. ASSUME NEW j \in Jobs, Create(j) PROVE Transition
  BY <1>2, CreateTransition DEF Transition
<1>3. ASSUME NEW j \in Jobs, NEW r \in Runners, ClaimSlot(j, r) PROVE Transition
  BY <1>3, ClaimTransition DEF Transition
<1>4. ASSUME NEW j \in Jobs, NEW e, Queued(j), RequeueRunner(j, e) PROVE Transition
  BY <1>4, RequeueTransition DEF Transition
<1>5. QED
  BY <1>1, <1>2, <1>3, <1>4, UpdateTransition
     DEF LocalStore, store, RegisterRunner, UpdateOwner, UpdateCode

(* Clients, runners and refreshes, with all their faults, show their users *)
(* nothing but the lifecycle: admission in order and within the slots,     *)
(* success only after a start, one event for each end.                     *)
THEOREM LocalImplementsLifecycle == Spec => ImplementsLifecycle
<1>1. Init => Lifecycle!Init
  BY DEF Init, StoreInit, Lifecycle!Init
<1>2. LocalInv /\ Unranked /\ [Next]_vars => [Lifecycle!Next]_(Lifecycle!lifecycle)
  BY StepTransition DEF Transition
<1>3. Spec => []Unranked
  BY UnrankedInit, UnrankedStep, LocalInvariant, PTL DEF Spec
<1>4. QED
  BY <1>1, <1>2, <1>3, LocalInvariant, PTL DEF Spec, ImplementsLifecycle, Lifecycle!Spec

-----------------------------------------------------------------------------
(***************************************************************************)
(* What recovery relies on between reading a row and acting on it, for any *)
(* number of clients, runners, jobs, queues and faults.                    *)
(*                                                                         *)
(* A client that saw run-spec.json relaunches a job some steps later, when *)
(* others may have relaunched it too.  The file is removed by an admitted  *)
(* runner of the job, or after its cancellation.  The first owns the job   *)
(* and is alive, so the compare-and-set of the client, which wants the     *)
(* dead owner it read, cannot succeed any more.                            *)
(*                                                                         *)
(* The second part is about the commands themselves.  A runner starts the  *)
(* command of a queued job as its only owner, and of any other job as the  *)
(* only runner there ever is, so the row names no command until it records *)
(* its own; and a job whose command was started returns to its queue only  *)
(* if the runner died before it recorded the command.                      *)
(***************************************************************************)

Relaunching == {"requeue", "spawn", "register"}

\* Requeueing or registering would succeed with what client c has read.
Matches(c) ==
  /\ pc[c] \in Relaunching
  /\ Queued(cur[c].job) /\ owner[cur[c].job] = cur[c].owner
  /\ \/ state[cur[c].job] = "queued"
     \/ state[cur[c].job] = "starting" /\ pc[c] = "requeue"

SpecSeen(c) ==
  /\ Matches(c) => cur[c].job \in spec
  /\ pc[c] = "stop" => state[cur[c].job] \in Terminal

Unowned == \A j \in Jobs : state[j] = "absent" => owner[j] = NoRunner

SpecInv ==
  /\ LocalInv
  /\ Unowned
  /\ QueuedKeepsSpec
  /\ \A c \in Clients : SpecSeen(c)

-----------------------------------------------------------------------------
(* What a step may do to the row of a queued job, and to its file.         *)

RowEffect(j) ==
  \/ state'[j] \notin {"queued", "starting"}
  \/ state'[j] = state[j] /\ owner'[j] = owner[j]
  \/ state[j] \in {"absent", "queued"} /\ owner'[j] = owner[j]
  \/ j \in spec'

FileEffect(j) ==
  j \in spec /\ (state[j] = "queued" \/ (state[j] = "starting" /\ ~Alive(owner[j]))) => j \in spec'

SpecEffect ==
  /\ LocalInv' /\ Effect /\ Unowned'
  /\ \A j \in Jobs : state[j] \in Terminal => state'[j] = state[j]
  /\ \A j \in Jobs : Queued(j) => RowEffect(j) /\ FileEffect(j)

\* The transactions of all steps but the relaunch of a runner.
Ordinary ==
  \/ UNCHANGED store
  \/ \E j \in Jobs :
       \/ Create(j)
       \/ \E r \in Runners : ClaimSlot(j, r)
       \/ \E s \in Terminal \cup Started : \E p, x : UpdateIfActive(j, s, p, x)
       \/ \E r \in Runners : ~Queued(j) /\ UpdateOwner(j, r)
       \/ \E x \in Codes : UpdateCode(j, x)

LEMMA UnownedStep == LocalInv /\ Unowned /\ LocalStore => Unowned'
<1> SUFFICES ASSUME LocalInv, Unowned, LocalStore PROVE Unowned'
  OBVIOUS
<1>1. StoreTypeOK /\ Effect
  BY LocalStoreEffect DEF LocalInv, TypeOK
<1>2. CASE owner' = owner
  BY <1>1, <1>2 DEF Unowned, Effect
<1>3. ASSUME NEW j \in Jobs, state[j] # "absent", NEW r, owner' = [owner EXCEPT ![j] = r]
      PROVE  Unowned'
  BY <1>1, <1>3 DEF Unowned, Effect, StoreTypeOK
<1>4. QED
  BY <1>2, <1>3 DEF LocalStore, Create, ClaimSlot, RegisterRunner, RequeueRunner,
                    UpdateIfActive, UpdateOwner, UpdateCode, store

LEMMA TerminalStays ==
  ASSUME LocalInv, LocalStore
  PROVE  \A j \in Jobs : state[j] \in Terminal => state'[j] = state[j]
<1> SUFFICES ASSUME NEW j \in Jobs, state[j] \in Terminal PROVE state'[j] = state[j]
  OBVIOUS
<1>1. state \in [Jobs -> States]
  BY DEF LocalInv, TypeOK, StoreTypeOK
<1>2. CASE state' = state
  BY <1>2
<1>3. ASSUME NEW k \in Jobs, state[k] \notin Terminal, NEW s, state' = [state EXCEPT ![k] = s]
      PROVE  state'[j] = state[j]
  BY <1>1, <1>3
<1>4. QED
  BY <1>2, <1>3 DEF LocalStore, Create, ClaimSlot, Claimable, RegisterRunner, RequeueRunner,
                    Requeues, UpdateIfActive, UpdateOwner, UpdateCode, store, Terminal

LEMMA OrdinaryRows ==
  ASSUME LocalInv, Ordinary, NEW j \in Jobs, Queued(j)
  PROVE  RowEffect(j)
<1>1. state \in [Jobs -> States] /\ owner \in [Jobs -> RunnerIds]
  BY DEF LocalInv, TypeOK, StoreTypeOK
<1> USE DEF RowEffect
<1>2. CASE state' = state /\ owner' = owner
  BY <1>2
<1>3. ASSUME NEW k \in Jobs, Create(k) PROVE RowEffect(j)
  BY <1>1, <1>3 DEF Create
<1>4. ASSUME NEW k \in Jobs, NEW r \in Runners, ClaimSlot(k, r) PROVE RowEffect(j)
  BY <1>1, <1>4 DEF ClaimSlot, Claimable
<1>5. ASSUME NEW k \in Jobs, NEW s \in Terminal \cup Started, NEW p, NEW x,
             UpdateIfActive(k, s, p, x)
      PROVE  RowEffect(j)
  <2>1. s \notin {"queued", "starting"}
    BY DEF Terminal, Started
  <2>2. CASE state' = [state EXCEPT ![k] = s] /\ owner' = owner
    BY <1>1, <2>1, <2>2
  <2>3. QED
    BY <1>2, <1>5, <2>2 DEF UpdateIfActive, store
<1>6. ASSUME NEW k \in Jobs, NEW r, ~Queued(k), UpdateOwner(k, r) PROVE RowEffect(j)
  BY <1>1, <1>6 DEF UpdateOwner
<1>7. QED
  BY <1>2, <1>3, <1>4, <1>5, <1>6 DEF Ordinary, UpdateCode, store

-----------------------------------------------------------------------------
(* A client keeps what it saw while others make steps.                     *)

LEMMA SeenUntouched ==
  ASSUME SpecInv, SpecEffect, NEW c \in Clients, pc'[c] = pc[c], cur'[c] = cur[c]
  PROVE  SpecSeen(c)'
<1>1. ClientOK(c) /\ SpecSeen(c)
  BY DEF SpecInv, LocalInv
<1>2. pc[c] \in Relaunching \cup {"stop"} => cur[c].job \in Jobs /\ state[cur[c].job] # "absent"
  BY <1>1 DEF ClientOK, RowsOf, RowOK, Row, Relaunching
<1>3. ASSUME pc[c] = "stop" PROVE state'[cur[c].job] \in Terminal
  BY <1>1, <1>2, <1>3 DEF SpecSeen, SpecEffect
<1>4. ASSUME Matches(c)' PROVE cur[c].job \in spec'
  <2> DEFINE j == cur[c].job
  <2>1. /\ pc[c] \in Relaunching /\ j \in Jobs /\ state[j] # "absent" /\ Queued(j)
        /\ owner'[j] = cur[c].owner
        /\ state'[j] = "queued" \/ (state'[j] = "starting" /\ pc[c] = "requeue")
    BY <1>2, <1>4 DEF Matches, Queued
  <2>2. RowEffect(j) /\ FileEffect(j)
    BY <2>1 DEF SpecEffect
  <2>3. CASE j \in spec'
    BY <2>3
  <2>4. CASE state'[j] = state[j] /\ owner'[j] = owner[j]
    <3>1. Matches(c) /\ j \in spec
      BY <1>1, <2>1, <2>4 DEF Matches, SpecSeen
    <3>2. state[j] = "queued" \/ (state[j] = "starting" /\ ~Alive(owner[j]))
      BY <1>1, <2>1, <2>4 DEF ClientOK
    <3>3. QED
      BY <2>2, <3>1, <3>2 DEF FileEffect
  <2>5. CASE state[j] = "queued" /\ owner'[j] = owner[j]
    <3>1. Matches(c) /\ j \in spec
      BY <1>1, <2>1, <2>5 DEF Matches, SpecSeen
    <3>2. QED
      BY <2>2, <2>5, <3>1 DEF FileEffect
  <2>6. QED
    BY <2>1, <2>2, <2>3, <2>4, <2>5 DEF RowEffect
<1>5. QED
  BY <1>3, <1>4 DEF SpecSeen, Matches

LEMMA SpecKept ==
  ASSUME SpecInv, SpecEffect
  PROVE  QueuedKeepsSpec'
<1> SUFFICES ASSUME NEW j \in Jobs, state'[j] = "queued", owner'[j] # NoRunner PROVE j \in spec'
  BY DEF QueuedKeepsSpec
<1>1. Queued(j)
  BY DEF SpecEffect, Effect, QueuedHasQueue, Queued
<1>2. RowEffect(j) /\ FileEffect(j)
  BY <1>1 DEF SpecEffect
<1>3. state[j] = "absent" => owner[j] = NoRunner
  BY DEF SpecInv, Unowned
<1>4. state[j] = "queued" /\ owner[j] # NoRunner => j \in spec
  BY DEF SpecInv, QueuedKeepsSpec
<1>5. QED
  BY <1>2, <1>3, <1>4 DEF RowEffect, FileEffect

(* It is enough to look at the effect of a step, and at the client that    *)
(* makes it.                                                               *)
LEMMA SpecInvKept ==
  ASSUME SpecInv, SpecEffect,
         \A c \in Clients : \/ pc'[c] = pc[c] /\ cur'[c] = cur[c]
                            \/ SpecSeen(c)'
  PROVE  SpecInv'
BY SeenUntouched, SpecKept DEF SpecInv, SpecEffect

LEMMA OrdinaryEffect ==
  ASSUME SpecInv, [Next]_vars, Ordinary,
         \A j \in Jobs : Queued(j) => FileEffect(j)
  PROVE  SpecEffect
<1>1. LocalStore /\ LocalInv'
  BY StepStore, LocalInvStep DEF SpecInv
<1>2. QED
  BY <1>1, LocalStoreEffect, UnownedStep, TerminalStays, OrdinaryRows DEF SpecEffect, SpecInv

-----------------------------------------------------------------------------
(* Runners, and faults.                                                    *)

LEMMA RunnerSpec ==
  ASSUME SpecInv, NEW r \in Runners, RunnerStep(r)
  PROVE  SpecInv'
<1>1. Next /\ LocalInv
  BY DEF Next, SpecInv
<1>2. Ordinary
  <2>1. CASE UNCHANGED store
    BY <2>1 DEF Ordinary
  <2>2. Alive(r) /\ rjob[r] \in Jobs
    <3>1. Alive(r)
      BY <1>1, RunnerStepMoves DEF RunnerMoves
    <3>2. QED
      BY <1>1, <3>1 DEF LocalInv, RunnerOK
  <2>3. CASE Claim(r)
    BY <2>2, <2>3 DEF Claim, Ordinary
  <2>4. CASE RecordFailure(r) \/ Record(r) \/ Timeout(r) \/ \E x \in Codes : Exit(r, x)
    <3>1. \E s \in Terminal \cup Started : \E p, x : UpdateIfActive(rjob[r], s, p, x)
      <4>1. {"failed", "succeeded", "timed_out", "running"} \subseteq Terminal \cup Started
        BY DEF Terminal, Started
      <4>2. CASE \E x \in Codes : Exit(r, x)
        BY <4>1, <4>2 DEF Exit
      <4>3. CASE RecordFailure(r) \/ Record(r) \/ Timeout(r)
        BY <4>1, <4>3 DEF RecordFailure, Record, Timeout, SetState
      <4>4. QED
        BY <2>4, <4>2, <4>3
    <3>2. QED
      BY <2>2, <3>1 DEF Ordinary
  <2>5. ASSUME NEW x \in Codes, Collect(r, x) PROVE Ordinary
    BY <2>2, <2>5 DEF Collect, Ordinary
  <2>6. QED
    BY <2>1, <2>3, <2>4, <2>5
       DEF RunnerStep, Boot, Own, OwnDeadline, ClaimRefused, Verify, Launch, LaunchFails,
           Unlink, Abort, Drain, Expire
<1>3. ASSUME NEW j \in Jobs, Queued(j) PROVE FileEffect(j)
  <2>1. CASE spec \subseteq spec'
    BY <2>1 DEF FileEffect
  <2>2. CASE /\ Admitted(r) /\ spec' = spec \ {rjob[r]}
    <3>1. CASE rjob[r] = j
      <4>1. owner[j] = r /\ state[j] # "queued" /\ Alive(r)
        BY <1>1, <1>3, <2>2, <3>1 DEF LocalInv, RunnerOK, Admitted
      <4>2. QED
        BY <4>1 DEF FileEffect
    <3>2. CASE rjob[r] # j
      BY <2>2, <3>2 DEF FileEffect
    <3>3. QED
      BY <3>1, <3>2
  <2>3. CASE LaunchFails(r) \/ Unlink(r)
    <3>1. Alive(r) /\ rpc[r] \in {"launch", "unlink", "unlinkAbort"}
      BY <2>3 DEF LaunchFails, Unlink, RunnerGoes, Alive
    <3>2. Admitted(r)
      BY <3>1 DEF Admitted
    <3>3. QED
      BY <2>2, <2>3, <3>2 DEF LaunchFails, Unlink
  <2>4. QED
    BY <2>1, <2>3
       DEF RunnerStep, Boot, Own, OwnDeadline, Claim, ClaimRefused, Verify, Launch,
           RecordFailure, Record, Abort, Drain, Timeout, Expire, Exit, Collect
<1>4. UNCHANGED <<pc, cur>>
  BY <1>1, RunnerStepMoves DEF RunnerMoves, clientVars
<1>5. QED
  BY <1>1, <1>2, <1>3, <1>4, OrdinaryEffect, SpecInvKept

\* A client in one of the other states relies on nothing it saw.
LEMMA NothingSeen ==
  ASSUME NEW c, pc'[c] \notin Relaunching \cup {"stop"}
  PROVE  SpecSeen(c)'
BY DEF SpecSeen, Matches

LEMMA FaultSpec ==
  ASSUME SpecInv, [Next]_vars, UNCHANGED <<store, spec>>,
         \A c \in Clients : pc'[c] = "idle" \/ (pc'[c] = pc[c] /\ cur'[c] = cur[c])
  PROVE  SpecInv'
<1>1. Ordinary /\ \A j \in Jobs : FileEffect(j)
  BY DEF Ordinary, FileEffect
<1>2. SpecEffect
  BY <1>1, OrdinaryEffect
<1>3. "idle" \notin Relaunching \cup {"stop"}
  BY DEF Relaunching
<1>4. QED
  BY <1>2, <1>3, NothingSeen, SpecInvKept

-----------------------------------------------------------------------------
(* Clients.                                                                *)

LEMMA ClientLocals ==
  ASSUME LocalInv, NEW c \in Clients, ClientStep(c) \/ ClientBegin(c)
  PROVE  \A d \in Clients \ {c} : pc'[d] = pc[d] /\ cur'[d] = cur[d]
<1>1. Effect
  BY ClientStepStore, BeginStore, LocalStoreEffect
<1>2. LocalMoves(c)
  BY <1>1, SweepKeeps, LookKeeps, LoseKeeps, RequeueKeeps, SpawnKeeps, RegisterKeeps,
     SubmitKeeps, StallKeeps, CancelStopKeeps, BeginKeeps DEF ClientStep
<1>3. QED
  BY <1>2 DEF LocalMoves, SameLocals

\* The effect of a step that relaunches no runner and removes no file.
LEMMA PlainSpec ==
  ASSUME SpecInv, NEW c \in Clients, ClientStep(c) \/ ClientBegin(c),
         Ordinary, spec \subseteq spec',
         SpecEffect => SpecSeen(c)'
  PROVE  SpecInv'
<1>1. Next /\ LocalInv
  BY DEF Next, SpecInv
<1>2. \A j \in Jobs : FileEffect(j)
  BY DEF FileEffect
<1>3. SpecEffect
  BY <1>1, <1>2, OrdinaryEffect
<1>4. QED
  BY <1>1, <1>3, ClientLocals, SpecInvKept

\* Where a refresh that ends leads to.
LEMMA RefreshedNothingSeen ==
  ASSUME LocalInv, NEW c \in Clients, NEW w, NEW row, NEW rest,
         Refreshed(c, w, row, rest) \/ Finish(c)
  PROVE  SpecSeen(c)'
<1>1. pc \in [Clients -> ClientStates]
  BY DEF LocalInv, TypeOK
<1>2. pc'[c] \in {"idle", "stall", "sweep"}
  BY <1>1 DEF Refreshed, Finish
<1>3. QED
  BY <1>2, NothingSeen DEF Relaunching

LEMMA RequeueSpec ==
  ASSUME SpecInv, NEW c \in Clients, Requeue(c)
  PROVE  SpecInv'
<1>1. LocalInv /\ SpecSeen(c) /\ ClientOK(c) /\ ClientStep(c) /\ Next
  BY DEF SpecInv, LocalInv, ClientStep, Next
<1>2. pc[c] = "requeue" /\ spec' = spec /\ cur[c].job \in Jobs /\ Queued(cur[c].job)
  BY <1>1 DEF Requeue, ClientOK, Row
<1>3. CASE Refreshed(c, cur[c], RowOf(cur[c].job), todo[c]) /\ UNCHANGED store
  <2>1. Ordinary
    BY <1>3 DEF Ordinary
  <2>2. SpecSeen(c)'
    BY <1>1, <1>3, RefreshedNothingSeen
  <2>3. QED
    BY <1>1, <1>2, <2>1, <2>2, PlainSpec
<1>4. CASE /\ RequeueRunner(cur[c].job, cur[c].owner)
           /\ pc' = [pc EXCEPT ![c] = "spawn"]
           /\ cur' = [cur EXCEPT ![c] = [cur[c] EXCEPT !.state = "queued"]]
  <2>1. cur[c].job \in spec
    BY <1>1, <1>2, <1>4 DEF RequeueRunner, Requeues, SpecSeen, Matches, Relaunching
  <2>2. /\ state' = [state EXCEPT ![cur[c].job] = "queued"] /\ owner' = owner
        /\ state \in [Jobs -> States]
    BY <1>1, <1>4 DEF RequeueRunner, LocalInv, TypeOK, StoreTypeOK
  <2>3. \A j \in Jobs : RowEffect(j) /\ FileEffect(j)
    BY <1>2, <2>1, <2>2 DEF RowEffect, FileEffect
  <2>4. LocalStore /\ LocalInv'
    BY <1>1, StepStore, LocalInvStep
  <2>5. SpecEffect
    BY <2>3, <2>4, LocalStoreEffect, UnownedStep, TerminalStays DEF SpecEffect, SpecInv
  <2>6. pc'[c] = "spawn" /\ cur'[c].job = cur[c].job
    BY <1>1, <1>2, <1>4 DEF LocalInv, TypeOK, ClientOK, Row
  <2>7. SpecSeen(c)'
    BY <1>2, <2>1, <2>6 DEF SpecSeen
  <2>8. QED
    BY <1>1, <2>5, <2>7, ClientLocals, SpecInvKept
<1>5. QED
  BY <1>3, <1>4 DEF Requeue

LEMMA RegisterSpec ==
  ASSUME SpecInv, NEW c \in Clients, Register(c)
  PROVE  SpecInv'
<1>1. LocalInv /\ SpecSeen(c) /\ ClientOK(c) /\ ClientStep(c) /\ Next
  BY DEF SpecInv, LocalInv, ClientStep, Next
<1>2. pc[c] = "register" /\ spec' = spec /\ cur[c].job \in Jobs /\ Queued(cur[c].job)
  BY <1>1 DEF Register, ClientOK, Row
<1>3. SpecSeen(c)'
  BY <1>1, RefreshedNothingSeen DEF Register
<1>4. CASE UNCHANGED store
  <2>1. Ordinary
    BY <1>4 DEF Ordinary
  <2>2. QED
    BY <1>1, <1>2, <1>3, <2>1, PlainSpec
<1>5. CASE RegisterRunner(cur[c].job, cur[c].owner, child[c])
  <2>1. cur[c].job \in spec
    BY <1>1, <1>2, <1>5 DEF RegisterRunner, Registers, SpecSeen, Matches, Relaunching
  <2>2. /\ owner' = [owner EXCEPT ![cur[c].job] = child[c]] /\ state' = state
        /\ owner \in [Jobs -> RunnerIds]
    BY <1>1, <1>5 DEF RegisterRunner, LocalInv, TypeOK, StoreTypeOK
  <2>3. \A j \in Jobs : RowEffect(j) /\ FileEffect(j)
    BY <1>2, <2>1, <2>2 DEF RowEffect, FileEffect
  <2>4. LocalStore /\ LocalInv'
    BY <1>1, StepStore, LocalInvStep
  <2>5. SpecEffect
    BY <2>3, <2>4, LocalStoreEffect, UnownedStep, TerminalStays DEF SpecEffect, SpecInv
  <2>6. QED
    BY <1>1, <1>3, <2>5, ClientLocals, SpecInvKept
<1>6. QED
  BY <1>4, <1>5 DEF Register

(* The row of a cancelled job was terminal when its file is removed.       *)
LEMMA CancelStopSpec ==
  ASSUME SpecInv, NEW c \in Clients, CancelStop(c)
  PROVE  SpecInv'
<1>1. LocalInv /\ SpecSeen(c) /\ ClientStep(c) /\ Next
  BY DEF SpecInv, ClientStep, Next
<1>2. /\ state[cur[c].job] \in Terminal
      /\ spec' = spec \/ spec' = spec \ {cur[c].job}
  BY <1>1 DEF CancelStop, SpecSeen
<1>3. \A j \in Jobs : FileEffect(j)
  BY <1>2 DEF FileEffect, Terminal
<1>4. SpecEffect
  BY <1>1, <1>3, OrdinaryEffect DEF CancelStop, Ordinary
<1>5. SpecSeen(c)'
  BY <1>1, RefreshedNothingSeen DEF CancelStop
<1>6. QED
  BY <1>1, <1>4, <1>5, ClientLocals, SpecInvKept

(* The steps on the way to a relaunch: the file is seen, or just written.  *)
LEMMA WaySpec ==
  ASSUME SpecInv, NEW c \in Clients,
         \/ \E w \in todo[c] : LookRecover(c, w)
         \/ Spawn(c) \/ Files(c)
  PROVE  SpecInv'
<1>1. LocalInv /\ SpecSeen(c) /\ ClientOK(c) /\ ClientStep(c)
  BY DEF SpecInv, LocalInv, ClientStep
<1>2. /\ pc \in [Clients -> ClientStates] /\ cur \in [Clients -> Row \cup {NoRow}]
      /\ Ordinary
  BY <1>1 DEF LocalInv, TypeOK, LookRecover, Spawn, Files, Ordinary
<1>3. ASSUME NEW w \in todo[c], LookRecover(c, w) PROVE SpecInv'
  <2>1. /\ w.job \in spec /\ spec' = spec /\ cur'[c] = w /\ pc'[c] \in Relaunching
    BY <1>2, <1>3 DEF LookRecover, Recoverable, Refreshing, Relaunching
  <2>2. SpecSeen(c)'
    BY <2>1 DEF SpecSeen, Relaunching
  <2>3. QED
    BY <1>1, <1>2, <2>1, <2>2, PlainSpec
<1>4. CASE Spawn(c)
  <2>1. /\ pc[c] = "spawn" /\ pc'[c] = "register"
        /\ UNCHANGED <<cur, state, owner, spec>>
    BY <1>2, <1>4 DEF Spawn, ClientGoes, store
  <2>2. SpecSeen(c)'
    BY <1>1, <2>1 DEF SpecSeen, Matches, Relaunching, Queued
  <2>3. QED
    BY <1>1, <1>2, <2>1, <2>2, PlainSpec
<1>5. CASE Files(c)
  <2>1. /\ pc'[c] = "spawn" /\ cur' = cur /\ cur[c].job = target[c]
        /\ spec' = spec \cup {target[c]}
    BY <1>1, <1>2, <1>5 DEF Files, ClientGoes, ClientOK, Submitting
  <2>2. SpecSeen(c)'
    BY <2>1 DEF SpecSeen
  <2>3. QED
    BY <1>1, <1>2, <2>1, <2>2, PlainSpec
<1>6. QED
  BY <1>3, <1>4, <1>5

(* All the others: the client relies on nothing it saw afterwards.         *)
LEMMA OtherSpec ==
  ASSUME SpecInv, NEW c \in Clients,
         \/ SweepList(c) \/ SweepEnd(c)
         \/ \E w \in todo[c] : LookSettled(c, w) \/ LookGrace(c, w) \/ LookLost(c, w)
         \/ Lose(c) \/ SpawnFails(c) \/ RegisterDirect(c) \/ Insert(c) \/ FilesFail(c)
         \/ Await(c) \/ AwaitOver(c) \/ SubmitFail(c) \/ Stall(c)
  PROVE  SpecInv'
<1>1. LocalInv /\ ClientOK(c) /\ ClientStep(c)
  BY DEF SpecInv, LocalInv, ClientStep
<1>2. pc \in [Clients -> ClientStates]
  BY <1>1 DEF LocalInv, TypeOK
<1>3. spec' = spec
  BY DEF SweepList, SweepEnd, LookSettled, LookGrace, LookLost, Lose, SpawnFails,
         RegisterDirect, Insert, FilesFail, Await, AwaitOver, SubmitFail, Stall
<1>4. Ordinary
  <2>1. CASE UNCHANGED store
    BY <2>1 DEF Ordinary
  <2>2. CASE Insert(c)
    BY <1>1, <2>2 DEF Insert, ClientGoes, ClientOK, Ordinary
  <2>3. CASE RegisterDirect(c)
    <3>1. cur[c].job \in Jobs /\ child[c] \in Runners
      BY <1>1, <2>3 DEF RegisterDirect, ClientGoes, ClientOK, Row
    <3>2. QED
      BY <2>3, <3>1 DEF RegisterDirect, Ordinary
  <2>4. ASSUME NEW j \in Jobs, NEW s \in Terminal \cup Started, SetState(j, s) PROVE Ordinary
    BY <2>4 DEF SetState, Ordinary
  <2>5. CASE Lose(c)
    <3>1. cur[c].job \in Jobs /\ "lost" \in Terminal /\ SetState(cur[c].job, "lost")
      BY <1>1, <2>5 DEF Lose, ClientOK, Row, Terminal
    <3>2. QED
      BY <2>4, <3>1
  <2>6. CASE SubmitFail(c)
    <3>1. target[c] \in Jobs /\ "failed" \in Terminal /\ SetState(target[c], "failed")
      BY <1>1, <2>6 DEF SubmitFail, ClientOK, Terminal
    <3>2. QED
      BY <2>4, <3>1
  <2>7. CASE Stall(c)
    <3>1. cur[c].job \in Jobs
      BY <1>1, <2>7 DEF Stall, ClientOK, Row
    <3>2. QED
      BY <2>1, <2>4, <2>7, <3>1 DEF Stall, Started
  <2>8. QED
    BY <2>1, <2>2, <2>3, <2>5, <2>6, <2>7
       DEF SweepList, SweepEnd, LookSettled, LookGrace, LookLost, SpawnFails, FilesFail,
           Await, AwaitOver
<1>5. SpecSeen(c)'
  <2>1. CASE Lose(c) \/ Await(c) \/ SubmitFail(c) \/ Stall(c)
    BY <1>1, <2>1, RefreshedNothingSeen DEF Lose, Await, SubmitFail, Stall
  <2>2. CASE \E w \in todo[c] : LookSettled(c, w) \/ LookGrace(c, w)
    BY <1>1, <2>2, RefreshedNothingSeen DEF LookSettled, LookGrace
  <2>3. CASE pc'[c] \in {"sweep", "create", "lose", "files", "fail", "await"}
    BY <2>3, NothingSeen DEF Relaunching
  <2>4. CASE \/ SweepList(c) \/ RegisterDirect(c) \/ Insert(c) \/ FilesFail(c)
             \/ \E w \in todo[c] : LookLost(c, w)
    BY <1>2, <2>3, <2>4
       DEF SweepList, RegisterDirect, Insert, FilesFail, LookLost, Refreshing, ClientGoes
  <2>5. CASE SweepEnd(c) \/ SpawnFails(c) \/ AwaitOver(c)
    <3>1. \/ pc'[c] \in {"sweep", "create", "fail"} \/ Finish(c)
          \/ Refreshed(c, cur[c], NoRow, todo[c])
      BY <1>2, <2>5 DEF SweepEnd, SpawnFails, AwaitOver, ClientGoes
    <3>2. QED
      BY <1>1, <2>3, <3>1, RefreshedNothingSeen
  <2>6. QED
    BY <2>1, <2>2, <2>4, <2>5
<1>6. QED
  BY <1>1, <1>3, <1>4, <1>5, PlainSpec

LEMMA BeginSpec ==
  ASSUME SpecInv, NEW c \in Clients, ClientBegin(c)
  PROVE  SpecInv'
<1>1. LocalInv /\ pc \in [Clients -> ClientStates] /\ cur \in [Clients -> Row \cup {NoRow}]
  BY DEF SpecInv, LocalInv, TypeOK
<1>2. ASSUME NEW j \in Jobs, CancelMark(c, j) PROVE SpecInv'
  <2>1. Ordinary /\ spec' = spec
    BY <1>2 DEF CancelMark, SetState, Ordinary, Terminal
  <2>2. state'[j] \in Terminal /\ pc'[c] = "stop" /\ cur'[c].job = j
    <3>1. state \in [Jobs -> States] /\ state[j] \notin Terminal
      BY <1>1, <1>2 DEF CancelMark, Active, Occupying, Terminal, LocalInv, TypeOK, StoreTypeOK
    <3>2. state'[j] = "cancelled"
      BY <1>2, <3>1 DEF CancelMark, SetState, UpdateIfActive
    <3>3. QED
      BY <1>1, <1>2, <3>2 DEF CancelMark, ClientGoes, RowOf, Terminal
  <2>3. SpecSeen(c)'
    BY <2>2 DEF SpecSeen, Matches, Relaunching
  <2>4. QED
    BY <2>1, <2>3, PlainSpec
<1>3. ASSUME NEW o, NEW j, NEW p \in {"sweep", "create"}, NEW s, NEW rows, NEW own,
             Begins(c, o, j, p, s, rows, own)
      PROVE  SpecInv'
  <2>1. Ordinary /\ spec' = spec /\ pc'[c] = p
    BY <1>1, <1>3 DEF Begins, ClientGoes, Ordinary
  <2>2. SpecSeen(c)'
    BY <2>1, NothingSeen DEF Relaunching
  <2>3. QED
    BY <2>1, <2>2, PlainSpec
<1>4. QED
  BY <1>2, <1>3 DEF ClientBegin, ListBegin, SubmitBegin, StatusBegin

-----------------------------------------------------------------------------
LEMMA SpecInvInit == Init => SpecInv
BY LocalInvInit DEF Init, StoreInit, SpecInv, Unowned, QueuedKeepsSpec, SpecSeen, Matches,
                    Relaunching

LEMMA SpecInvStep == SpecInv /\ [Next]_vars => SpecInv'
<1> SUFFICES ASSUME SpecInv, [Next]_vars PROVE SpecInv'
  OBVIOUS
<1>1. CASE UNCHANGED vars
  BY <1>1, FaultSpec DEF vars, clientVars
<1>2. ASSUME NEW r \in Runners, OrphanEnds(r) \/ RunnerCrash(r) PROVE SpecInv'
  BY <1>2, FaultSpec DEF OrphanEnds, RunnerCrash, clientVars
<1>3. ASSUME NEW c \in Clients, ClientCrash(c) PROVE SpecInv'
  <2>1. pc \in [Clients -> ClientStates] /\ cur \in [Clients -> Row \cup {NoRow}]
    BY DEF SpecInv, LocalInv, TypeOK
  <2>2. \A d \in Clients : pc'[d] = "idle" \/ (pc'[d] = pc[d] /\ cur'[d] = cur[d])
    BY <1>3, <2>1 DEF ClientCrash, Finish
  <2>3. QED
    BY <1>3, <2>2, FaultSpec DEF ClientCrash
<1>4. CASE Reboot
  BY <1>4, FaultSpec DEF Reboot
<1>5. ASSUME NEW c \in Clients, ClientStep(c) PROVE SpecInv'
  BY <1>5, RequeueSpec, RegisterSpec, CancelStopSpec, WaySpec, OtherSpec DEF ClientStep
<1>6. QED
  BY <1>1, <1>2, <1>3, <1>4, <1>5, RunnerSpec, BeginSpec DEF Next

(* A queued job that was given a runner keeps the file it needs to be      *)
(* launched from, however its recoveries race.                             *)
THEOREM LocalQueuedKeepsSpec == Spec => []QueuedKeepsSpec
<1>1. SpecInv => QueuedKeepsSpec
  BY DEF SpecInv
<1>2. QED
  BY <1>1, SpecInvInit, SpecInvStep, PTL DEF Spec

-----------------------------------------------------------------------------
(* The commands that runners start.                                        *)

\* Runners that work on the command of a job: admitted, or of a direct job.
Working(r) == Alive(r) /\ (Admitted(r) \/ ~Queued(rjob[r]))

\* Nothing kills a runner, and nothing kills a client either.
Supervised  == Faults \cap {"runner", "reboot"} = {}
Undisturbed == Faults \cap {"client", "runner", "reboot"} = {}

\* The job of a submission is inserted by that submission, once.
SubmitterOK(c) ==
  /\ op[c] = "submit" /\ cur[c].job # target[c] => state[target[c]] = "absent"
  /\ Submitting(c) => pc[c] \in {"files", "spawn", "register", "await", "fail"}
  /\ \A d \in Clients : op[c] = "submit" /\ op[d] = "submit" /\ target[c] = target[d] => c = d

\* Until the submission spawns its runner nothing runs for a direct job.
Unspawned(c) ==
  Submitting(c) /\ ~Queued(target[c]) /\ pc[c] \in {"files", "spawn"} =>
    /\ cmd[target[c]] = NoRunner /\ launches[target[c]] = 0
    /\ \A r \in Runners : Alive(r) => rjob[r] # target[c]

\* The runner a client is about to register waits, and only this client
\* knows it.
ChildWaits(c) ==
  pc[c] = "register" /\ Queued(cur[c].job) =>
    /\ \A j \in Jobs : owner[j] # child[c]
    /\ \A d \in Clients \ {c} : child[d] # child[c]
    /\ \/ rpc[child[c]] = "gone"
       \/ rjob[child[c]] = cur[c].job /\ rpc[child[c]] \in {"boot", "own"}

\* A command is recorded in the step that makes the job running.
Unstarted(j) ==
  /\ state[j] \in {"absent", "queued", "starting"} => cmd[j] = NoRunner
  /\ state[j] = "absent" => launches[j] = 0

\* A queued job whose command was started never returns to the queue: the
\* runner that is about to record it is alive.
Launched(j) ==
  Supervised =>
    /\ launches[j] <= 1
    /\ Queued(j) /\ launches[j] > 0 =>
         /\ state[j] # "queued"
         /\ state[j] = "starting" => \E r \in Runners : rpc[r] = "record" /\ rjob[r] = j

Unlaunched(r) == rpc[r] \in {"verify", "launch"} \/ (rpc[r] = "boot" /\ ~Queued(rjob[r]))

StageOK(r) ==
  /\ rpc[r] \in {"own", "claim", "verify"} => Queued(rjob[r])
  /\ Unlaunched(r) => cmd[rjob[r]] = NoRunner
  /\ Unlaunched(r) /\ (Supervised \/ ~Queued(rjob[r])) => launches[rjob[r]] = 0
  /\ rpc[r] \in Recorded => cmd[rjob[r]] = r /\ state[rjob[r]] # "timed_out"
  /\ rpc[r] \in {"drain", "collect"} => r \in killed
  /\ \A i \in Runners : Working(r) /\ Working(i) /\ rjob[r] = rjob[i] => r = i

\* Without faults the command of a cancelled job has been killed, or the
\* client that cancelled it is about to.
CommandOK(r) ==
  /\ Supervised /\ r \in live => rpc[r] \in HasCommand
  /\ Undisturbed /\ rpc[r] \in Recorded /\ state[rjob[r]] = "cancelled" /\ r \notin killed =>
       \E c \in Clients : pc[c] = "stop" /\ cur[c].cmd = r

CommandInv ==
  /\ LocalInv
  /\ \A c \in Clients : SubmitterOK(c) /\ Unspawned(c) /\ ChildWaits(c)
  /\ \A j \in Jobs : Unstarted(j) /\ Launched(j)
  /\ \A r \in Runners : StageOK(r) /\ CommandOK(r)

LEMMA CommandInvInit == Init => CommandInv
<1> SUFFICES ASSUME Init PROVE CommandInv
  OBVIOUS
<1>1. LocalInv
  BY LocalInvInit
<1> USE DEF Init, StoreInit
<1>2. ASSUME NEW c \in Clients PROVE SubmitterOK(c) /\ Unspawned(c) /\ ChildWaits(c)
  BY <1>2 DEF SubmitterOK, Unspawned, ChildWaits, Submitting
<1>3. ASSUME NEW j \in Jobs PROVE Unstarted(j) /\ Launched(j)
  BY <1>3 DEF Unstarted, Launched
<1>4. ASSUME NEW r \in Runners PROVE StageOK(r) /\ CommandOK(r)
  BY <1>4 DEF StageOK, CommandOK, Unlaunched, Working, Alive, Recorded
<1>5. QED
  BY <1>1, <1>2, <1>3, <1>4 DEF CommandInv

-----------------------------------------------------------------------------
(* What stays in place for a runner, a job and a client that the step is   *)
(* not about.                                                              *)

LEMMA CommandTypes ==
  ASSUME CommandInv
  PROVE  /\ LocalInv /\ TypeOK
         /\ state \in [Jobs -> States] /\ owner \in [Jobs -> RunnerIds] /\ cmd \in [Jobs -> RunnerIds]
         /\ rpc \in [Runners -> RunnerStates] /\ rjob \in [Runners -> Jobs \cup {NoJob}]
         /\ launches \in [Jobs -> 0..2]
         /\ \A r \in Runners : Alive(r) => rjob[r] \in Jobs /\ state[rjob[r]] # "absent"
         /\ \A r \in Runners : rpc[r] \in HasCommand => r \in live
BY DEF CommandInv, LocalInv, TypeOK, StoreTypeOK, RunnerOK, Alive, HasCommand

\* No direct job gets a further runner.
NoNewRunner ==
  \A r \in Runners : Alive(r)' /\ ~Queued(rjob'[r]) =>
    \/ Alive(r) /\ rjob'[r] = rjob[r]
    \/ \A i \in Runners \ {r} : Alive(i)' => rjob'[i] # rjob'[r]

OneWorker ==
  \A r, i \in Runners : Working(r) /\ Working(i) /\ rjob[r] = rjob[i] => r = i

LEMMA OneWorkerNow == CommandInv => OneWorker
BY DEF CommandInv, StageOK, OneWorker

LEMMA OneWorkerKept ==
  ASSUME CommandInv, LocalInv', NoNewRunner
  PROVE  OneWorker'
<1> SUFFICES ASSUME NEW r \in Runners, NEW i \in Runners,
                    Working(r)', Working(i)', rjob'[r] = rjob'[i]
             PROVE  r = i
  BY DEF OneWorker
<1>1. CASE Queued(rjob'[r])
  <2>1. Admitted(r)' /\ Admitted(i)'
    BY <1>1 DEF Working, Queued
  <2>2. Alive(r)' /\ Alive(i)'
    BY DEF Working
  <2>3. RunnerOK(r)' /\ RunnerOK(i)'
    BY DEF LocalInv
  <2>4. owner'[rjob'[r]] = r /\ owner'[rjob'[i]] = i
    BY <1>1, <2>1, <2>2, <2>3 DEF RunnerOK, Queued
  <2>5. QED
    BY <2>4
<1>2. CASE ~Queued(rjob'[r])
  <2>1. Alive(r)' /\ Alive(i)' /\ ~Queued(rjob'[i])
    BY <1>2 DEF Working
  <2>2. CASE Alive(r) /\ Alive(i) /\ rjob'[r] = rjob[r] /\ rjob'[i] = rjob[i]
    <3>1. Working(r) /\ Working(i) /\ rjob[r] = rjob[i]
      BY <1>2, <2>2 DEF Working, Queued
    <3>2. QED
      BY <3>1, OneWorkerNow DEF OneWorker
  <2>3. CASE ~(Alive(r) /\ Alive(i) /\ rjob'[r] = rjob[r] /\ rjob'[i] = rjob[i])
    BY <1>2, <2>1, <2>3 DEF NoNewRunner
  <2>4. QED
    BY <2>2, <2>3
<1>3. QED
  BY <1>1, <1>2

\* A stage that depends on the row is one of a runner at work on it.
LEMMA StageWorks ==
  ASSUME NEW r \in Runners, Unlaunched(r) \/ rpc[r] \in Recorded
  PROVE  Working(r)
BY DEF Unlaunched, Recorded, Working, Alive, Admitted

LEMMA StageKept ==
  ASSUME CommandInv, OneWorker', NEW r \in Runners,
         rpc'[r] = rpc[r], rjob'[r] = rjob[r], r \in killed => r \in killed',
         Working(r) => /\ cmd'[rjob[r]] = cmd[rjob[r]]
                       /\ launches'[rjob[r]] = launches[rjob[r]]
                       /\ state'[rjob[r]] = "timed_out" => state[rjob[r]] = "timed_out"
  PROVE  StageOK(r)'
<1>1. StageOK(r)
  BY DEF CommandInv
<1>2. \A i \in Runners : Working(r)' /\ Working(i)' /\ rjob'[r] = rjob'[i] => r = i
  BY DEF OneWorker
<1>3. Unlaunched(r)' = Unlaunched(r)
  BY DEF Unlaunched, Queued
<1>4. QED
  BY <1>1, <1>2, <1>3, StageWorks DEF StageOK, Queued

\* What a step does to the row of a job and to the history of its commands.
RowStays(j) ==
  /\ cmd'[j] = cmd[j] /\ launches'[j] = launches[j]
  /\ state'[j] = "timed_out" => state[j] = "timed_out"
  /\ (state'[j] = "absent") = (state[j] = "absent")
  /\ state'[j] \in {"queued", "starting"} => state'[j] = state[j]

LEMMA UnstartedKept ==
  ASSUME NEW j \in Jobs, Unstarted(j),
         state'[j] \in {"absent", "queued", "starting"} =>
           /\ state[j] \in {"absent", "queued", "starting"}
           /\ cmd'[j] = cmd[j],
         state'[j] = "absent" => state[j] = "absent" /\ launches'[j] = launches[j]
  PROVE  Unstarted(j)'
BY DEF Unstarted

LEMMA LaunchedKept ==
  ASSUME NEW j \in Jobs, Launched(j), launches'[j] = launches[j],
         state'[j] = "queued" /\ launches[j] > 0 => state[j] = "queued",
         state'[j] = "starting" /\ launches[j] > 0 => state[j] = "starting",
         Supervised => \A r \in Runners :
             rpc[r] = "record" /\ rjob[r] = j /\ state'[j] = "starting" => rpc'[r] = "record" /\ rjob'[r] = j
  PROVE  Launched(j)'
<1>1. CASE ~Supervised
  BY <1>1 DEF Launched
<1>2. CASE Supervised
  <2>1. Queued(j) /\ launches[j] > 0 /\ state'[j] = "starting" =>
          \E r \in Runners : rpc'[r] = "record" /\ rjob'[r] = j
    BY <1>2 DEF Launched
  <2>2. QED
    BY <1>2, <2>1 DEF Launched, Queued
<1>3. QED
  BY <1>1, <1>2

-----------------------------------------------------------------------------
(* The steps of a runner: by what they do to the row of its job.           *)

\* The others, and what belongs to them.
SameProcess(i) ==
  /\ rpc'[i] = rpc[i] /\ rjob'[i] = rjob[i]
  /\ (i \in live') = (i \in live)
  /\ (i \in killed') = (i \in killed)

SameRow(j) == state'[j] = state[j] /\ cmd'[j] = cmd[j] /\ launches'[j] = launches[j]

RunnerFrame(r) ==
  /\ UNCHANGED <<clientVars, owner>>
  /\ \A i \in Runners \ {r} : SameProcess(i)
  /\ Alive(r) /\ rjob[r] \in Jobs
  /\ Alive(r)' => rjob'[r] = rjob[r]
  /\ \A j \in Jobs : (state[j] = "absent") = (state'[j] = "absent")
  /\ \A j \in Jobs \ {rjob[r]} : SameRow(j)

\* The row stays, or ends, while the runner goes from one stage to another.
Plain(r, from, to) ==
  /\ rpc[r] = from /\ rpc'[r] = to
  /\ launches'[rjob[r]] = launches[rjob[r]] /\ cmd'[rjob[r]] = cmd[rjob[r]]
  /\ state'[rjob[r]] = state[rjob[r]] \/ state'[rjob[r]] \in {"failed", "succeeded"}

Stays(r) == (r \in live') = (r \in live) /\ (r \in killed') = (r \in killed)

Quiet(r) ==
  \/ Stays(r) /\ \E from \in {"boot", "own", "claim", "verify", "fail"} : Plain(r, from, "gone")
  \/ r \notin live' /\ \E from \in {"supervise", "drain", "collect"} : Plain(r, from, "gone")
  \/ Stays(r) /\ Queued(rjob[r]) /\ Plain(r, "boot", "own")
  \/ Stays(r) /\ ~Queued(rjob[r]) /\ Plain(r, "boot", "launch")
  \/ Stays(r) /\ owner[rjob[r]] = r /\ Plain(r, "own", "claim")
  \/ Stays(r) /\ Plain(r, "verify", "launch")
  \/ Stays(r) /\ Plain(r, "launch", "fail")
  \/ Stays(r) /\ state[rjob[r]] \in Terminal /\ Plain(r, "record", "unlinkAbort")
  \/ Stays(r) /\ Plain(r, "unlink", "supervise")
  \/ Stays(r) /\ Plain(r, "unlinkAbort", "abort")
  \/ r \in killed' /\ (r \in live') = (r \in live)
     /\ (Plain(r, "abort", "drain") \/ Plain(r, "expire", "collect"))

Admits(r) ==
  /\ rpc[r] = "claim" /\ rpc'[r] = "verify" /\ Stays(r)
  /\ state[rjob[r]] = "queued" /\ state'[rjob[r]] = "starting" /\ Queued(rjob[r])
  /\ cmd'[rjob[r]] = cmd[rjob[r]] /\ launches'[rjob[r]] = launches[rjob[r]]

Launches(r) ==
  /\ rpc[r] = "launch" /\ rpc'[r] = "record" /\ r \in live' /\ killed' = killed
  /\ state' = state /\ cmd' = cmd
  /\ launches' = [launches EXCEPT ![rjob[r]] = IF @ < 2 THEN @ + 1 ELSE @]

Records(r) ==
  /\ rpc[r] = "record" /\ rpc'[r] = "unlink" /\ Stays(r)
  /\ state'[rjob[r]] = "running" /\ cmd'[rjob[r]] = r
  /\ launches'[rjob[r]] = launches[rjob[r]]

TimesOut(r) ==
  /\ rpc[r] = "supervise" /\ rpc'[r] = "expire" /\ Stays(r)
  /\ launches'[rjob[r]] = launches[rjob[r]] /\ cmd'[rjob[r]] = cmd[rjob[r]]
  /\ state'[rjob[r]] = state[rjob[r]] \/ state'[rjob[r]] = "timed_out"

\* A write of the state leaves the other rows alone.
LEMMA UpdateRow ==
  ASSUME TypeOK, NEW k \in Jobs, NEW s, NEW p, NEW x, UpdateIfActive(k, s, p, x)
  PROVE  /\ owner' = owner
         /\ \A j \in Jobs \ {k} : state'[j] = state[j] /\ cmd'[j] = cmd[j]
         /\ state[k] \in Terminal => state'[k] = state[k] /\ cmd'[k] = cmd[k]
         /\ state[k] \notin Terminal => state'[k] = s /\ cmd'[k] = p
BY DEF TypeOK, StoreTypeOK, UpdateIfActive, store

LEMMA RunnerKinds ==
  ASSUME CommandInv, NEW r \in Runners, RunnerStep(r)
  PROVE  /\ RunnerFrame(r)
         /\ Quiet(r) \/ Admits(r) \/ Launches(r) \/ Records(r) \/ TimesOut(r)
<1>0. RunnerMoves(r)
  BY CommandTypes, RunnerStepMoves
<1>1. Alive(r) /\ rjob[r] \in Jobs /\ state[rjob[r]] # "absent" /\ TypeOK
  BY <1>0, CommandTypes DEF RunnerMoves
<1>2. PICK k \in Jobs : k = rjob[r]
  BY <1>1
<1>3. /\ UNCHANGED clientVars
      /\ \A i \in Runners \ {r} : rpc'[i] = rpc[i] /\ rjob'[i] = rjob[i]
      /\ Alive(r)' => rjob'[r] = rjob[r]
  BY <1>0, CommandTypes DEF RunnerMoves, Alive
<1>4. ASSUME UNCHANGED <<owner, state, cmd, launches>>,
             \A i \in Runners \ {r} : (i \in live') = (i \in live) /\ (i \in killed') = (i \in killed)
      PROVE  RunnerFrame(r)
  BY <1>1, <1>3, <1>4 DEF RunnerFrame, SameProcess, SameRow
<1>5. ASSUME NEW s \in Terminal \cup Started, NEW p, NEW x, UpdateIfActive(k, s, p, x),
             launches' = launches,
             \A i \in Runners \ {r} : (i \in live') = (i \in live) /\ (i \in killed') = (i \in killed)
      PROVE  RunnerFrame(r)
  <2>1. s # "absent"
    BY DEF Terminal, Started
  <2>2. /\ owner' = owner
        /\ \A j \in Jobs \ {k} : state'[j] = state[j] /\ cmd'[j] = cmd[j]
        /\ state'[k] = state[k] \/ state'[k] = s
    BY <1>1, <1>5, UpdateRow
  <2>3. \A j \in Jobs : (state[j] = "absent") = (state'[j] = "absent")
    BY <1>1, <1>2, <2>1, <2>2
  <2>4. QED
    BY <1>1, <1>2, <1>3, <1>5, <2>2, <2>3 DEF RunnerFrame, SameProcess, SameRow
<1>6. CASE Boot(r)
  BY <1>1, <1>4, <1>6, CommandTypes DEF Boot, RunnerEnds, RunnerGoes, Quiet, Plain, Stays, cmdVars, store
<1>7. CASE Own(r)
  BY <1>1, <1>4, <1>7, CommandTypes DEF Own, RunnerEnds, RunnerGoes, Quiet, Plain, Stays, cmdVars, store
<1>8. CASE OwnDeadline(r) \/ ClaimRefused(r)
  BY <1>1, <1>4, <1>8, CommandTypes DEF OwnDeadline, ClaimRefused, RunnerEnds, Quiet, Plain, Stays, cmdVars, store
<1>9. CASE Claim(r)
  <2>1. /\ state' = [state EXCEPT ![k] = "starting"] /\ state[k] = "queued" /\ Queued(k)
        /\ UNCHANGED <<owner, cmd, live, killed, launches>>
        /\ rpc[r] = "claim" /\ rpc'[r] = "verify"
    BY <1>2, <1>9, CommandTypes DEF Claim, ClaimSlot, Claimable, RunnerGoes, cmdVars
  <2>2. RunnerFrame(r)
    BY <1>1, <1>2, <1>3, <2>1, CommandTypes DEF RunnerFrame, SameProcess, SameRow
  <2>3. Admits(r)
    BY <1>2, <2>1, CommandTypes DEF Admits, Stays
  <2>4. QED
    BY <2>2, <2>3
<1>10. CASE Verify(r)
  BY <1>1, <1>4, <1>10, CommandTypes DEF Verify, RunnerEnds, RunnerGoes, Quiet, Plain, Stays, cmdVars, store
<1>11. CASE Launch(r)
  <2>1. /\ UNCHANGED <<owner, state, cmd>> /\ live' = live \cup {r} /\ killed' = killed
        /\ launches' = [launches EXCEPT ![rjob[r]] = IF @ < 2 THEN @ + 1 ELSE @]
        /\ rpc[r] = "launch" /\ rpc'[r] = "record"
    BY <1>11, CommandTypes DEF Launch, RunnerGoes, store
  <2>2. RunnerFrame(r)
    BY <1>1, <1>3, <2>1, CommandTypes DEF RunnerFrame, SameProcess, SameRow
  <2>3. QED
    BY <2>1, <2>2 DEF Launches
<1>12. CASE LaunchFails(r)
  BY <1>1, <1>4, <1>12, CommandTypes DEF LaunchFails, RunnerGoes, Quiet, Plain, Stays, cmdVars, store
<1>13. CASE RecordFailure(r)
  <2>1. /\ UpdateIfActive(k, "failed", cmd[k], code[k]) /\ UNCHANGED <<live, killed, launches>>
        /\ rpc[r] = "fail" /\ rpc'[r] = "gone" /\ "failed" \in Terminal
    BY <1>2, <1>13, CommandTypes DEF RecordFailure, SetState, RunnerEnds, cmdVars, Terminal
  <2>2. RunnerFrame(r)
    BY <1>5, <2>1
  <2>3. cmd'[k] = cmd[k] /\ (state'[k] = state[k] \/ state'[k] = "failed")
    BY <1>1, <2>1, UpdateRow
  <2>4. QED
    BY <1>2, <2>1, <2>2, <2>3 DEF Quiet, Plain, Stays
<1>14. CASE Record(r)
  <2>1. /\ UpdateIfActive(k, "running", r, code[k]) /\ UNCHANGED <<live, killed, launches>>
        /\ rpc[r] = "record" /\ "running" \in Started
        /\ rpc'[r] = IF state[k] \in Terminal THEN "unlinkAbort" ELSE "unlink"
    BY <1>2, <1>14, CommandTypes DEF Record, RunnerGoes, cmdVars, Started
  <2>2. RunnerFrame(r)
    BY <1>5, <2>1
  <2>3. /\ state[k] \in Terminal => state'[k] = state[k] /\ cmd'[k] = cmd[k]
        /\ state[k] \notin Terminal => state'[k] = "running" /\ cmd'[k] = r
    BY <1>1, <2>1, UpdateRow
  <2>4. QED
    BY <1>2, <2>1, <2>2, <2>3 DEF Quiet, Plain, Stays, Records
<1>15. CASE Unlink(r)
  BY <1>1, <1>4, <1>15, CommandTypes DEF Unlink, RunnerGoes, Quiet, Plain, Stays, cmdVars, store
<1>16. CASE Abort(r) \/ Expire(r)
  BY <1>1, <1>4, <1>16, CommandTypes DEF Abort, Expire, RunnerGoes, Quiet, Plain, Stays, cmdVars, store
<1>17. CASE Drain(r)
  BY <1>1, <1>4, <1>17, CommandTypes DEF Drain, RunnerEnds, CommandGone, Quiet, Plain, Stays, cmdVars, store
<1>18. CASE Timeout(r)
  <2>1. /\ UpdateIfActive(k, "timed_out", cmd[k], code[k]) /\ UNCHANGED <<live, killed, launches>>
        /\ rpc[r] = "supervise" /\ rpc'[r] = "expire" /\ "timed_out" \in Terminal
    BY <1>2, <1>18, CommandTypes DEF Timeout, SetState, RunnerGoes, cmdVars, Terminal
  <2>2. RunnerFrame(r)
    BY <1>5, <2>1
  <2>3. cmd'[k] = cmd[k] /\ (state'[k] = state[k] \/ state'[k] = "timed_out")
    BY <1>1, <2>1, UpdateRow
  <2>4. QED
    BY <1>2, <2>1, <2>2, <2>3 DEF TimesOut, Stays
<1>19. ASSUME NEW x \in Codes, Exit(r, x)
       PROVE  RunnerFrame(r) /\ Quiet(r)
  <2>1. PICK s \in {"succeeded", "failed"} : UpdateIfActive(k, s, cmd[k], x)
    BY <1>2, <1>19 DEF Exit
  <2>2. /\ live' = live \ {r} /\ killed' = killed \ {r} /\ launches' = launches
        /\ rpc[r] = "supervise" /\ rpc'[r] = "gone" /\ s \in Terminal
    BY <1>19, CommandTypes DEF Exit, RunnerEnds, CommandGone, Terminal
  <2>3. RunnerFrame(r)
    BY <1>5, <2>1, <2>2
  <2>4. cmd'[k] = cmd[k] /\ (state'[k] = state[k] \/ state'[k] = s)
    BY <1>1, <2>1, UpdateRow
  <2>5. QED
    BY <1>2, <2>2, <2>3, <2>4 DEF Quiet, Plain
<1>20. ASSUME NEW x \in Codes, Collect(r, x)
       PROVE  RunnerFrame(r) /\ Quiet(r)
  BY <1>1, <1>4, <1>20, CommandTypes
     DEF Collect, UpdateCode, RunnerEnds, CommandGone, Quiet, Plain, Stays, cmdVars, store
<1>21. QED
  BY <1>6, <1>7, <1>8, <1>9, <1>10, <1>11, <1>12, <1>13, <1>14, <1>15, <1>16, <1>17, <1>18,
     <1>19, <1>20 DEF RunnerStep

Kinds(r) == Quiet(r) \/ Admits(r) \/ Launches(r) \/ Records(r) \/ TimesOut(r)

LEMMA FrameClients ==
  ASSUME CommandInv, NEW r \in Runners, RunnerFrame(r), Kinds(r), NEW c \in Clients
  PROVE  SubmitterOK(c)' /\ Unspawned(c)' /\ ChildWaits(c)'
<1>1. SubmitterOK(c) /\ Unspawned(c) /\ ChildWaits(c) /\ ClientOK(c) /\ LocalInv
  BY DEF CommandInv, LocalInv
<1>2. UNCHANGED <<pc, op, target, cur, child, owner>>
  BY DEF RunnerFrame, clientVars
<1>3. SubmitterOK(c)'
  BY <1>1, <1>2 DEF SubmitterOK, Submitting, RunnerFrame, ClientOK
<1>4. Unspawned(c)'
  <2>1. SUFFICES ASSUME Submitting(c), ~Queued(target[c]), pc[c] \in {"files", "spawn"}
                 PROVE  /\ cmd'[target[c]] = NoRunner /\ launches'[target[c]] = 0
                        /\ \A i \in Runners : Alive(i)' => rjob'[i] # target[c]
    BY <1>2 DEF Unspawned, Submitting, Queued
  <2>2. /\ target[c] \in Jobs /\ cmd[target[c]] = NoRunner /\ launches[target[c]] = 0
        /\ \A i \in Runners : Alive(i) => rjob[i] # target[c]
    BY <1>1, <2>1 DEF Unspawned, ClientOK, Submitting
  <2>3. target[c] # rjob[r]
    BY <2>2 DEF RunnerFrame
  <2>4. SameRow(target[c])
    BY <2>2, <2>3 DEF RunnerFrame
  <2>5. ASSUME NEW i \in Runners, Alive(i)' PROVE Alive(i) /\ rjob'[i] = rjob[i]
    BY <2>5 DEF RunnerFrame, SameProcess, Alive
  <2>6. QED
    BY <2>2, <2>4, <2>5 DEF SameRow
<1>5. ChildWaits(c)'
  <2>1. SUFFICES ASSUME pc[c] = "register", Queued(cur[c].job)
                 PROVE  \/ rpc'[child[c]] = "gone"
                        \/ rjob'[child[c]] = cur[c].job /\ rpc'[child[c]] \in {"boot", "own"}
    BY <1>1, <1>2 DEF ChildWaits, Queued
  <2>2. /\ child[c] \in Runners /\ \A j \in Jobs : owner[j] # child[c]
        /\ \/ rpc[child[c]] = "gone"
           \/ rjob[child[c]] = cur[c].job /\ rpc[child[c]] \in {"boot", "own"}
    BY <1>1, <2>1 DEF ChildWaits, ClientOK
  <2>3. CASE child[c] # r
    BY <2>2, <2>3 DEF RunnerFrame, SameProcess
  <2>4. CASE child[c] = r
    <3>1. /\ rpc[r] \in {"boot", "own"} /\ rjob[r] = cur[c].job /\ Queued(rjob[r]) /\ owner[rjob[r]] # r
      BY <2>1, <2>2, <2>4 DEF RunnerFrame, Alive
    <3>2. rpc'[r] \in {"gone", "own"}
      BY <3>1 DEF Kinds, Quiet, Plain, Admits, Launches, Records, TimesOut
    <3>3. rpc'[r] # "gone" => rjob'[r] = rjob[r]
      BY DEF RunnerFrame, Alive
    <3>4. QED
      BY <2>4, <3>1, <3>2, <3>3
  <2>5. QED
    BY <2>3, <2>4
<1>6. QED
  BY <1>3, <1>4, <1>5

LEMMA FrameJobs ==
  ASSUME CommandInv, NEW r \in Runners, RunnerFrame(r), Kinds(r), NEW j \in Jobs
  PROVE  Unstarted(j)' /\ Launched(j)'
<1>1. /\ Unstarted(j) /\ Launched(j) /\ StageOK(r) /\ TypeOK
      /\ (state[j] = "absent") = (state'[j] = "absent")
  BY CommandTypes DEF CommandInv, RunnerFrame
<1>2. ASSUME NEW i \in Runners \ {r}, rpc[i] = "record", rjob[i] = j
      PROVE  rpc'[i] = "record" /\ rjob'[i] = j
  BY <1>2 DEF RunnerFrame, SameProcess
<1>3. CASE j # rjob[r]
  <2>1. SameRow(j)
    BY <1>3 DEF RunnerFrame
  <2>2. \A i \in Runners : rpc[i] = "record" /\ rjob[i] = j => rpc'[i] = "record" /\ rjob'[i] = j
    BY <1>2, <1>3
  <2>3. Unstarted(j)'
    BY <1>1, <2>1, UnstartedKept DEF SameRow
  <2>4. Launched(j)'
    BY <1>1, <2>1, <2>2, LaunchedKept DEF SameRow
  <2>5. QED
    BY <2>3, <2>4
<1>4. CASE j = rjob[r]
  <2>1. state[j] # "absent" /\ state'[j] # "absent" /\ launches[j] \in 0..2
    BY <1>1, <1>4, CommandTypes DEF RunnerFrame
  <2>2. CASE Quiet(r) \/ TimesOut(r)
    <3>1. /\ launches'[j] = launches[j] /\ cmd'[j] = cmd[j]
          /\ state'[j] = state[j] \/ state'[j] \in {"failed", "succeeded", "timed_out"}
          /\ rpc[r] = "record" => state[j] \in Terminal
      BY <1>4, <2>2 DEF Quiet, TimesOut, Plain
    <3>2. \A i \in Runners : rpc[i] = "record" /\ rjob[i] = j /\ state'[j] = "starting"
             => rpc'[i] = "record" /\ rjob'[i] = j
      BY <1>2, <3>1 DEF Terminal
    <3>3. Unstarted(j)'
      BY <1>1, <2>1, <3>1, UnstartedKept
    <3>4. Launched(j)'
      BY <1>1, <3>1, <3>2, LaunchedKept
    <3>5. QED
      BY <3>3, <3>4
  <2>3. CASE Admits(r)
    <3>1. /\ state[j] = "queued" /\ state'[j] = "starting" /\ Queued(j)
          /\ launches'[j] = launches[j] /\ cmd'[j] = cmd[j]
      BY <1>4, <2>3 DEF Admits
    <3>2. Unstarted(j)'
      BY <1>1, <3>1 DEF Unstarted
    <3>3. Supervised => launches[j] = 0
      BY <1>1, <2>1, <3>1 DEF Launched
    <3>4. Launched(j)'
      BY <3>1, <3>3 DEF Launched
    <3>5. QED
      BY <3>2, <3>4
  <2>4. CASE Launches(r)
    <3>1. /\ state' = state /\ cmd' = cmd /\ rpc[r] = "launch" /\ rpc'[r] = "record"
          /\ launches'[j] = IF launches[j] < 2 THEN launches[j] + 1 ELSE launches[j]
      BY <1>1, <1>4, <2>4 DEF Launches, TypeOK
    <3>2. rjob'[r] = j
      BY <1>4, <3>1 DEF RunnerFrame, Alive
    <3>3. Unstarted(j)'
      BY <1>1, <2>1, <3>1 DEF Unstarted
    <3>4. Supervised => launches[j] = 0
      BY <1>1, <1>4, <3>1 DEF StageOK, Unlaunched
    <3>5. Supervised => launches'[j] = 1
      BY <3>1, <3>4
    <3>6. state'[j] # "queued"
      <4>1. Admitted(r)
        BY <3>1 DEF Admitted, Alive
      <4>2. QED
        BY <1>4, <3>1, <4>1, AdmittedNotQueued, CommandTypes
    <3>7. Launched(j)'
      BY <3>1, <3>2, <3>5, <3>6 DEF Launched
    <3>8. QED
      BY <3>3, <3>7
  <2>5. CASE Records(r)
    <3>1. state'[j] = "running" /\ launches'[j] = launches[j]
      BY <1>4, <2>5 DEF Records
    <3>2. QED
      BY <1>1, <3>1 DEF Unstarted, Launched
  <2>6. QED
    BY <2>2, <2>3, <2>4, <2>5 DEF Kinds
<1>5. QED
  BY <1>3, <1>4

LEMMA FrameRunners ==
  ASSUME CommandInv, LocalInv', NEW r \in Runners, RunnerFrame(r), Kinds(r), NEW i \in Runners
  PROVE  StageOK(i)' /\ CommandOK(i)'
<1>1. StageOK(i) /\ CommandOK(i) /\ StageOK(r) /\ TypeOK /\ LocalInv
  BY CommandTypes DEF CommandInv
<1>2. OneWorker'
  <2>1. NoNewRunner
    <3>1. SUFFICES ASSUME NEW h \in Runners, Alive(h)' PROVE Alive(h) /\ rjob'[h] = rjob[h]
      BY DEF NoNewRunner
    <3>2. QED
      BY <3>1 DEF RunnerFrame, SameProcess, Alive
  <2>2. QED
    BY <2>1, OneWorkerKept
<1>3. UNCHANGED <<pc, cur>>
  BY DEF RunnerFrame, clientVars
<1>4. CASE i # r
  <2>1. SameProcess(i)
    BY <1>4 DEF RunnerFrame
  <2>2. /\ rpc'[i] = rpc[i] /\ rjob'[i] = rjob[i] /\ (i \in killed') = (i \in killed)
        /\ (i \in live') = (i \in live)
    BY <2>1 DEF SameProcess
  <2>3. Alive(i) => rjob[i] \in Jobs
    BY CommandTypes
  <2>4. ASSUME Working(i)
        PROVE  /\ cmd'[rjob[i]] = cmd[rjob[i]] /\ launches'[rjob[i]] = launches[rjob[i]]
               /\ state'[rjob[i]] = "timed_out" => state[rjob[i]] = "timed_out"
    <3>1. rjob[i] \in Jobs
      BY <2>3, <2>4 DEF Working
    <3>2. CASE rjob[i] # rjob[r]
      BY <3>1, <3>2 DEF RunnerFrame, SameRow
    <3>3. CASE rjob[i] = rjob[r]
      <4>1. ~Working(r)
        BY <1>4, <2>4, <3>3, OneWorkerNow DEF OneWorker
      <4>2. rpc[r] \notin {"launch", "record", "supervise"}
        BY <4>1 DEF Working, Alive, Admitted
      <4>3. Quiet(r) \/ Admits(r)
        BY <4>2 DEF Kinds, Launches, Records, TimesOut
      <4>4. /\ cmd'[rjob[r]] = cmd[rjob[r]] /\ launches'[rjob[r]] = launches[rjob[r]]
            /\ state'[rjob[r]] = "timed_out" => state[rjob[r]] = "timed_out"
        BY <4>3 DEF Quiet, Plain, Admits
      <4>5. QED
        BY <3>3, <4>4
    <3>4. QED
      BY <3>2, <3>3
  <2>5. StageOK(i)'
    BY <1>2, <2>2, <2>4, StageKept
  <2>6. CommandOK(i)'
    <3>1. ASSUME rpc[i] \in Recorded, state'[rjob[i]] = "cancelled" PROVE state[rjob[i]] = "cancelled"
      <4>1. rjob[i] \in Jobs
        BY <2>3, <3>1 DEF Alive, Recorded
      <4>2. CASE rjob[i] # rjob[r]
        BY <3>1, <4>1, <4>2 DEF RunnerFrame, SameRow
      <4>3. CASE rjob[i] = rjob[r]
        BY <3>1, <4>3 DEF Kinds, Quiet, Plain, Admits, Launches, Records, TimesOut
      <4>4. QED
        BY <4>2, <4>3
    <3>2. QED
      BY <1>1, <1>3, <2>2, <3>1 DEF CommandOK
  <2>7. QED
    BY <2>5, <2>6
<1>5. CASE i = r
  <2> DEFINE j == rjob[r]
  <2>1. j \in Jobs /\ Alive(r) /\ (rpc'[r] # "gone" => rjob'[r] = j)
    BY DEF RunnerFrame, Alive
  <2>2. \A h \in Runners : Working(r)' /\ Working(h)' /\ rjob'[r] = rjob'[h] => r = h
    BY <1>2 DEF OneWorker
  <2> HIDE DEF j
  <2>3. CASE rpc'[r] = "gone"
    <3>1. StageOK(r)'
      BY <2>2, <2>3 DEF StageOK, Unlaunched, Recorded
    <3>2. CommandOK(r)'
      <4>1. Supervised => r \notin live'
        BY <1>1, <1>5, <2>3 DEF CommandOK, Kinds, Quiet, Plain, Admits, Launches, Records, TimesOut, Stays, HasCommand
      <4>2. QED
        BY <2>3, <4>1 DEF CommandOK, Recorded
    <3>3. QED
      BY <1>5, <3>1, <3>2
  <2>4. CASE rpc'[r] # "gone"
    <3>1. rjob'[r] = j /\ rjob[r] = j
      BY <2>1, <2>4 DEF j
    <3>2. CASE Quiet(r)
      <4>1. /\ cmd'[j] = cmd[j] /\ launches'[j] = launches[j]
            /\ state'[j] = state[j] \/ state'[j] \in {"failed", "succeeded"}
        BY <3>1, <3>2 DEF Quiet, Plain
      <4>2. StageOK(r)'
        BY <1>1, <2>2, <2>4, <3>1, <3>2, <4>1 DEF StageOK, Unlaunched, Recorded, Quiet, Plain, Queued, Stays
      <4>3. CommandOK(r)'
        BY <1>1, <1>3, <1>5, <2>4, <3>1, <3>2, <4>1
           DEF CommandOK, Recorded, HasCommand, Quiet, Plain, Stays
      <4>4. QED
        BY <1>5, <4>2, <4>3
    <3>3. CASE Admits(r)
      <4>1. Unstarted(j) /\ Launched(j) /\ launches[j] \in 0..2
        BY <2>1, CommandTypes DEF CommandInv
      <4>2. cmd'[j] = NoRunner /\ (Supervised => launches'[j] = 0) /\ Queued(j)
        BY <3>1, <3>3, <4>1 DEF Admits, Unstarted, Launched
      <4>3. StageOK(r)'
        BY <2>2, <3>1, <3>3, <4>2 DEF StageOK, Unlaunched, Recorded, Admits, Queued
      <4>4. CommandOK(r)'
        BY <1>1, <1>5, <3>3 DEF CommandOK, Recorded, HasCommand, Admits, Stays
      <4>5. QED
        BY <1>5, <4>3, <4>4
    <3>4. CASE Launches(r)
      <4>1. rpc'[r] = "record"
        BY <3>4 DEF Launches
      <4>2. QED
        BY <1>5, <2>2, <4>1 DEF StageOK, CommandOK, Unlaunched, Recorded, HasCommand
    <3>5. CASE Records(r)
      <4>1. rpc'[r] = "unlink" /\ cmd'[j] = r /\ state'[j] = "running"
        BY <3>1, <3>5 DEF Records
      <4>2. QED
        BY <1>5, <2>2, <3>1, <4>1 DEF StageOK, CommandOK, Unlaunched, Recorded, HasCommand
    <3>6. CASE TimesOut(r)
      <4>1. rpc'[r] = "expire"
        BY <3>6 DEF TimesOut
      <4>2. QED
        BY <1>5, <2>2, <4>1 DEF StageOK, CommandOK, Unlaunched, Recorded, HasCommand
    <3>7. QED
      BY <3>2, <3>3, <3>4, <3>5, <3>6 DEF Kinds
  <2>5. QED
    BY <2>3, <2>4
<1>6. QED
  BY <1>4, <1>5

LEMMA RunnerStepCommand ==
  ASSUME CommandInv, LocalInv', NEW r \in Runners, RunnerStep(r)
  PROVE  CommandInv'
<1>1. RunnerFrame(r) /\ Kinds(r)
  BY RunnerKinds DEF Kinds
<1>2. QED
  BY <1>1, FrameClients, FrameJobs, FrameRunners DEF CommandInv

-----------------------------------------------------------------------------
(* The steps of a client: what they do to a row, to the processes and to   *)
(* what the client knows.                                                  *)

RowMoves(c, j) ==
  /\ cmd'[j] = cmd[j]
  /\ state'[j] = "absent" => state[j] = "absent"
  /\ state[j] = "absent" => state'[j] = "absent" \/ (pc[c] = "create" /\ j = target[c])
  /\ state'[j] = "timed_out" => state[j] = "timed_out"
  /\ \/ state'[j] \notin {"queued", "starting"}
     \/ state[j] = "absent"
     \/ state'[j] = state[j]
     \/ state[j] = "starting" /\ Queued(j) /\ ~Alive(owner[j])
  /\ state'[j] = "cancelled" =>
       state[j] = "cancelled" \/ (pc'[c] = "stop" /\ cur'[c].cmd = cmd[j])
  /\ owner'[j] = owner[j] \/ (pc[c] = "register" /\ owner'[j] = child[c])

\* The client starts a runner, dismisses the one it started, or neither.
Spawned(c, r) ==
  /\ pc[c] = "spawn" /\ pc'[c] = "register"
  /\ FreshRunner(r) /\ child'[c] = r
  /\ rpc' = [rpc EXCEPT ![r] = "boot"]
  /\ rjob' = [rjob EXCEPT ![r] = cur[c].job]
  /\ cur' = cur

Dismissed(c) ==
  /\ pc[c] = "register" /\ Queued(cur[c].job)
  /\ rpc' = [rpc EXCEPT ![child[c]] = "gone"]
  /\ rjob' = [rjob EXCEPT ![child[c]] = NoJob]

ProcMoves(c) ==
  /\ launches' = launches /\ live' = live /\ killed \subseteq killed'
  /\ pc[c] = "stop" /\ cur[c].cmd \in live => cur[c].cmd \in killed'
  /\ \/ \E r \in Runners : Spawned(c, r)
     \/ /\ pc'[c] # "register" /\ child'[c] \in {child[c], NoRunner}
        /\ UNCHANGED <<rpc, rjob>> \/ Dismissed(c)

\* The ways of a client with respect to the job it submits.
Way(c) ==
  \/ op'[c] # "submit"
  \/ /\ state'[target'[c]] = "absent" /\ \A d \in Clients : target[d] # target'[c]
     /\ cur'[c].job # target'[c] /\ pc'[c] \notin {"files", "spawn"}
  \/ /\ op'[c] = op[c] /\ target'[c] = target[c]
     /\ \/ /\ Submitting(c) /\ cur'[c].job = cur[c].job
           /\ pc'[c] \in {"spawn", "register", "await", "fail"}
           /\ pc'[c] = "spawn" => pc[c] = "files" /\ UNCHANGED <<rpc, rjob>>
        \/ /\ ~Submitting(c) /\ pc[c] # "create" /\ cur'[c].job # target[c]
        \/ /\ pc[c] = "create" /\ pc'[c] = "files" /\ cur'[c].job = target[c]
           /\ state[target[c]] = "absent" /\ UNCHANGED <<rpc, rjob>>

ClientFrame(c) ==
  /\ \A d \in Clients \ {c} : SameLocals(d)
  /\ \A j \in Jobs : RowMoves(c, j)
  /\ ProcMoves(c)
  /\ Way(c)

LEMMA OthersStay ==
  ASSUME LocalInv, NEW c \in Clients, ClientStep(c) \/ ClientBegin(c)
  PROVE  \A d \in Clients \ {c} : SameLocals(d)
<1>1. Effect
  BY ClientStepStore, BeginStore, LocalStoreEffect
<1>2. LocalMoves(c)
  BY <1>1, SweepKeeps, LookKeeps, LoseKeeps, RequeueKeeps, SpawnKeeps, RegisterKeeps,
     SubmitKeeps, StallKeeps, CancelStopKeeps, BeginKeeps DEF ClientStep
<1>3. QED
  BY <1>2 DEF LocalMoves

LEMMA SetStateRows ==
  ASSUME TypeOK, NEW c, NEW k \in Jobs, NEW s \in States \ {"absent", "queued", "starting", "timed_out"},
         SetState(k, s), state[k] # "absent",
         s = "cancelled" => pc'[c] = "stop" /\ cur'[c].cmd = cmd[k],
         NEW j \in Jobs
  PROVE  RowMoves(c, j)
<1>1. UpdateIfActive(k, s, cmd[k], code[k])
  BY DEF SetState
<1>2. /\ owner' = owner
      /\ \A i \in Jobs \ {k} : state'[i] = state[i] /\ cmd'[i] = cmd[i]
      /\ state[k] \in Terminal => state'[k] = state[k] /\ cmd'[k] = cmd[k]
      /\ state[k] \notin Terminal => state'[k] = s /\ cmd'[k] = cmd[k]
  BY <1>1, UpdateRow
<1>3. QED
  BY <1>2 DEF RowMoves

LEMMA ClientRows ==
  ASSUME CommandInv, NEW c \in Clients, ClientStep(c) \/ ClientBegin(c), NEW j \in Jobs
  PROVE  RowMoves(c, j)
<1>1. ClientOK(c) /\ TypeOK
  BY DEF CommandInv, LocalInv
<1>2. state \in [Jobs -> States] /\ owner \in [Jobs -> RunnerIds] /\ ClientTypes
  BY CommandTypes, ClientTypesHold
<1>3. /\ cur[c] \in Row => cur[c].job \in Jobs /\ state[cur[c].job] # "absent"
      /\ {"lost", "failed", "running", "stalled", "cancelled"}
           \subseteq States \ {"absent", "queued", "starting", "timed_out"}
  BY <1>1 DEF Row, ClientOK, RowsOf, RowOK, States, Active, Occupying, Terminal
<1>4. CASE UNCHANGED store
  BY <1>4 DEF store, RowMoves
<1>5. CASE Lose(c)
  <2>1. cur[c] \in Row /\ SetState(cur[c].job, "lost")
    BY <1>1, <1>5 DEF Lose, ClientOK
  <2>2. QED
    BY <1>1, <1>3, <2>1, SetStateRows
<1>6. CASE Requeue(c)
  <2>1. cur[c] \in Row /\ ~Alive(cur[c].owner) /\ Queued(cur[c].job)
    BY <1>1, <1>6 DEF Requeue, ClientOK
  <2>2. CASE RequeueRunner(cur[c].job, cur[c].owner)
    BY <1>2, <1>3, <2>1, <2>2 DEF RequeueRunner, Requeues, RowMoves
  <2>3. QED
    BY <1>4, <1>6, <2>2 DEF Requeue
<1>7. CASE Register(c) \/ RegisterDirect(c)
  <2>1. pc[c] = "register" /\ cur[c] \in Row
    BY <1>1, <1>7 DEF Register, RegisterDirect, ClientGoes, ClientOK
  <2>2. CASE owner' = [owner EXCEPT ![cur[c].job] = child[c]] /\ state' = state /\ cmd' = cmd
    BY <1>2, <1>3, <2>1, <2>2 DEF RowMoves
  <2>3. QED
    BY <1>4, <1>7, <2>2 DEF Register, RegisterDirect, RegisterRunner, UpdateOwner
<1>8. CASE Insert(c)
  <2>1. target[c] \in Jobs /\ pc[c] = "create" /\ Create(target[c])
    BY <1>1, <1>8 DEF Insert, ClientGoes, ClientOK
  <2>2. QED
    BY <1>2, <2>1 DEF Create, RowMoves
<1>9. CASE SubmitFail(c)
  <2>1. target[c] \in Jobs /\ state[target[c]] # "absent" /\ SetState(target[c], "failed")
    BY <1>1, <1>9 DEF SubmitFail, ClientOK
  <2>2. QED
    BY <1>1, <1>3, <2>1, SetStateRows
<1>10. CASE Stall(c)
  <2>1. cur[c] \in Row
    BY <1>1, <1>10 DEF Stall, ClientOK
  <2>2. ASSUME NEW s \in {"running", "stalled"}, SetState(cur[c].job, s) PROVE RowMoves(c, j)
    BY <1>1, <1>3, <2>1, <2>2, SetStateRows
  <2>3. QED
    BY <1>4, <1>10, <2>2 DEF Stall
<1>11. ASSUME NEW k \in Jobs, CancelMark(c, k) PROVE RowMoves(c, j)
  <2>1. SetState(k, "cancelled") /\ state[k] # "absent"
    BY <1>11 DEF CancelMark, Active, Occupying
  <2>2. pc'[c] = "stop" /\ cur'[c].cmd = cmd[k]
    BY <1>2, <1>11 DEF CancelMark, ClientGoes, RowOf, ClientTypes
  <2>3. QED
    BY <1>1, <1>3, <2>1, <2>2, SetStateRows
<1>12. QED
  BY <1>4, <1>5, <1>6, <1>7, <1>8, <1>9, <1>10, <1>11
     DEF ClientStep, ClientBegin, SweepList, SweepEnd, LookSettled, LookRecover, LookGrace, LookLost,
         Spawn, SpawnFails, Files, FilesFail, Await, AwaitOver, CancelStop,
         ListBegin, SubmitBegin, StatusBegin, Begins

\* Where a refresh that ends, and an operation that ends, leave the client.
LEMMA RefreshedEnds ==
  ASSUME LocalInv, NEW c \in Clients, NEW w, NEW row \in Row \cup {NoRow}, NEW rest,
         Refreshed(c, w, row, rest) \/ Finish(c)
  PROVE  /\ pc'[c] \in {"idle", "stall", "sweep"}
         /\ child'[c] \in {child[c], NoRunner}
         /\ op'[c] = "submit" => /\ op[c] = "submit" /\ target'[c] = target[c]
                                 /\ cur'[c] = NoRow
<1>1. ClientTypes
  BY ClientTypesHold
<1>2. CASE Finish(c)
  BY <1>1, <1>2 DEF Finish, ClientTypes
<1>3. CASE ~Finish(c)
  BY <1>1, <1>3 DEF Refreshed, ClientTypes
<1>4. QED
  BY <1>2, <1>3

LEMMA ClientProcs ==
  ASSUME CommandInv, NEW c \in Clients, ClientStep(c) \/ ClientBegin(c)
  PROVE  ProcMoves(c)
<1>1. ClientOK(c) /\ LocalInv /\ ClientTypes /\ killed \subseteq live
  BY ClientTypesHold, CommandTypes DEF CommandInv, LocalInv, TypeOK
<1>2. CASE Spawn(c)
  <2>1. PICK r \in Runners : FreshRunner(r) /\ rpc' = [rpc EXCEPT ![r] = "boot"]
                             /\ rjob' = [rjob EXCEPT ![r] = cur[c].job] /\ child' = [child EXCEPT ![c] = r]
    BY <1>2 DEF Spawn
  <2>2. Spawned(c, r)
    BY <1>1, <1>2, <2>1 DEF Spawn, Spawned, ClientGoes, ClientTypes
  <2>3. pc[c] = "spawn" /\ UNCHANGED cmdVars
    BY <1>2 DEF Spawn, ClientGoes
  <2>4. QED
    BY <2>2, <2>3 DEF ProcMoves, cmdVars
<1>3. CASE CancelStop(c)
  <2>1. pc'[c] # "register" /\ child'[c] \in {child[c], NoRunner}
    BY <1>1, <1>3 DEF CancelStop, Finish, ClientTypes
  <2>2. QED
    BY <1>3, <2>1 DEF CancelStop, ProcMoves, CmdExists, runnerVars
<1>4. ASSUME UNCHANGED cmdVars, pc[c] # "stop", pc'[c] # "register",
             child'[c] \in {child[c], NoRunner}, UNCHANGED runnerVars \/ Dismissed(c)
      PROVE  ProcMoves(c)
  BY <1>4 DEF ProcMoves, cmdVars, runnerVars
<1>5. CASE Lose(c)
  <2>1. Refreshed(c, cur[c], NoRow, todo[c]) /\ pc[c] = "lose"
        /\ UNCHANGED cmdVars /\ UNCHANGED runnerVars
    BY <1>5 DEF Lose
  <2>2. QED
    BY <1>1, <1>4, <2>1, RefreshedEnds
<1>6. CASE Requeue(c)
  <2>1. /\ pc[c] = "requeue" /\ UNCHANGED cmdVars /\ UNCHANGED runnerVars
        /\ \/ pc' = [pc EXCEPT ![c] = "spawn"] /\ child' = child
           \/ Refreshed(c, cur[c], RowOf(cur[c].job), todo[c])
    BY <1>6 DEF Requeue
  <2>2. PICK row : row = RowOf(cur[c].job)
    OBVIOUS
  <2>3. row \in Row
    BY <1>1, <1>6, <2>2 DEF Requeue, ClientOK, Row, RowOf, TypeOK, StoreTypeOK, LocalInv
  <2>4. CASE Refreshed(c, cur[c], row, todo[c])
    BY <1>1, <1>4, <2>1, <2>3, <2>4, RefreshedEnds
  <2>5. CASE pc' = [pc EXCEPT ![c] = "spawn"] /\ child' = child
    BY <1>1, <1>4, <2>1, <2>5 DEF ClientTypes
  <2>6. QED
    BY <2>1, <2>2, <2>4, <2>5
<1>7. CASE Register(c)
  <2>1. /\ pc[c] = "register" /\ UNCHANGED cmdVars
        /\ UNCHANGED runnerVars \/ Dismissed(c)
        /\ \/ Finish(c)
           \/ Refreshed(c, cur[c], [RowOf(cur[c].job) EXCEPT !.owner = owner'[cur[c].job]], todo[c])
    BY <1>7 DEF Register, Dismissed
  <2>2. PICK row : row = [RowOf(cur[c].job) EXCEPT !.owner = owner'[cur[c].job]]
    OBVIOUS
  <2>3. row \in Row
    <3>1. cur[c] \in Row /\ cur[c].job \in Jobs
      BY <1>1, <2>1 DEF ClientOK, Row
    <3>2. LocalInv'
      BY <1>1, <1>7, ClientStepKeepsInv DEF ClientStep
    <3>3. owner'[cur[c].job] \in RunnerIds
      BY <3>1, <3>2 DEF LocalInv, TypeOK, StoreTypeOK
    <3>4. RowOf(cur[c].job) \in Row
      BY <1>1, <3>1 DEF Row, RowOf, LocalInv, TypeOK, StoreTypeOK
    <3>5. QED
      BY <2>2, <3>3, <3>4 DEF Row
  <2>4. Finish(c) \/ Refreshed(c, cur[c], row, todo[c])
    BY <2>1, <2>2
  <2>5. QED
    BY <1>1, <1>4, <2>1, <2>3, <2>4, RefreshedEnds
<1>8. ASSUME NEW w \in todo[c], LookSettled(c, w) \/ LookGrace(c, w) PROVE ProcMoves(c)
  <2>1. Refreshed(c, w, w, todo[c] \ {w}) /\ pc[c] = "sweep" /\ w \in Row
        /\ UNCHANGED cmdVars /\ UNCHANGED runnerVars
    BY <1>1, <1>8 DEF LookSettled, LookGrace, Vanished, ClientTypes
  <2>2. QED
    BY <1>1, <1>4, <2>1, RefreshedEnds
<1>9. ASSUME NEW w \in todo[c], LookRecover(c, w) \/ LookLost(c, w) PROVE ProcMoves(c)
  BY <1>1, <1>4, <1>9 DEF LookRecover, LookLost, Vanished, Refreshing, ClientTypes
<1>10. CASE SpawnFails(c)
  <2>1. /\ pc[c] = "spawn" /\ UNCHANGED cmdVars /\ UNCHANGED runnerVars
        /\ \/ pc' = [pc EXCEPT ![c] = "fail"] /\ child' = child
           \/ Refreshed(c, cur[c], NoRow, todo[c])
    BY <1>10 DEF SpawnFails
  <2>2. QED
    BY <1>1, <1>4, <2>1, RefreshedEnds DEF ClientTypes
<1>11. CASE SweepList(c) \/ SweepEnd(c)
  BY <1>1, <1>4, <1>11 DEF SweepList, SweepEnd, ClientGoes, Finish, ClientTypes
<1>12. CASE RegisterDirect(c) \/ Insert(c) \/ Files(c) \/ FilesFail(c)
  BY <1>1, <1>4, <1>12 DEF RegisterDirect, Insert, Files, FilesFail, ClientGoes, ClientTypes
<1>13. CASE Await(c) \/ AwaitOver(c) \/ SubmitFail(c) \/ Stall(c)
  BY <1>1, <1>4, <1>13 DEF Await, AwaitOver, SubmitFail, Stall, Finish, ClientTypes
<1>14. CASE ClientBegin(c)
  <2>1. /\ pc[c] = "idle" /\ UNCHANGED cmdVars /\ UNCHANGED runnerVars /\ child' = child
        /\ \E p \in {"sweep", "create", "stop"} : pc' = [pc EXCEPT ![c] = p]
    BY <1>14 DEF ClientBegin, ListBegin, SubmitBegin, StatusBegin, CancelMark, Begins, ClientGoes
  <2>2. QED
    BY <1>1, <1>4, <2>1 DEF ClientTypes
<1>15. QED
  BY <1>2, <1>3, <1>5, <1>6, <1>7, <1>8, <1>9, <1>10, <1>11, <1>12, <1>13, <1>14 DEF ClientStep

LEMMA ClientWay ==
  ASSUME CommandInv, NEW c \in Clients, ClientStep(c) \/ ClientBegin(c)
  PROVE  Way(c)
<1>1. ClientOK(c) /\ LocalInv /\ ClientTypes /\ SubmitterOK(c)
  BY ClientTypesHold DEF CommandInv, LocalInv
<1>2. op[c] = "submit" => target[c] \in Jobs /\ target[c] # NoRow.job
  BY <1>1, LocalAssumption DEF ClientOK, NoRow
<1>3. CASE ClientBegin(c)
  <2>1. ASSUME NEW j \in Jobs, SubmitBegin(c, j) PROVE Way(c)
    <3>1. /\ target'[c] = j /\ state'[j] = "absent" /\ state[j] = "absent" /\ cur' = cur
          /\ pc'[c] \in {"sweep", "create"} /\ \A d \in Clients : target[d] # j
      BY <1>1, <2>1 DEF SubmitBegin, Begins, ClientGoes, ClientTypes, store
    <3>2. cur[c].job # j
      BY <1>1, <3>1 DEF ClientOK, RowsOf, RowOK
    <3>3. QED
      BY <3>1, <3>2 DEF Way
  <2>2. CASE op'[c] # "submit"
    BY <2>2 DEF Way
  <2>3. QED
    BY <1>1, <1>3, <2>1, <2>2
       DEF ClientBegin, ListBegin, StatusBegin, CancelMark, Begins, ClientTypes
<1>4. CASE pc[c] = "sweep" /\ ClientStep(c)
  <2>1. op[c] = "submit" => ~Submitting(c)
    BY <1>1, <1>4 DEF SubmitterOK
  <2>2. op[c] = "submit" => state[target[c]] = "absent"
    BY <1>1, <2>1 DEF SubmitterOK, Submitting
  <2>3. ASSUME NEW w \in todo[c], Refreshed(c, w, w, todo[c] \ {w}) PROVE Way(c)
    <3>1. w \in Row
      BY <1>1 DEF ClientTypes
    <3>2. op'[c] = "submit" => op[c] = "submit" /\ target'[c] = target[c] /\ cur'[c] = NoRow
      BY <1>1, <2>3, <3>1, RefreshedEnds
    <3>3. QED
      BY <1>2, <1>4, <2>1, <3>2 DEF Way
  <2>4. ASSUME NEW w \in todo[c], LookRecover(c, w) \/ LookLost(c, w) PROVE Way(c)
    <3>1. cur'[c] = w /\ op' = op /\ target' = target /\ RowOK(w)
      BY <1>1, <2>4 DEF LookRecover, LookLost, Refreshing, ClientTypes, ClientOK, RowsOf
    <3>2. op[c] = "submit" => w.job # target[c]
      BY <1>2, <2>2, <3>1 DEF RowOK
    <3>3. QED
      BY <1>4, <2>1, <3>1, <3>2 DEF Way
  <2>5. CASE SweepList(c) \/ SweepEnd(c)
    <3>1. Finish(c) \/ (op' = op /\ target' = target /\ cur' = cur)
      BY <2>5 DEF SweepList, SweepEnd
    <3>2. Finish(c) => op'[c] = "none"
      BY <1>1 DEF Finish, ClientTypes
    <3>3. QED
      BY <1>4, <2>1, <3>1, <3>2 DEF Way, Submitting
  <2>6. QED
    BY <1>4, <2>3, <2>4, <2>5
       DEF ClientStep, LookSettled, LookGrace, Lose, Requeue, Spawn, SpawnFails, Register,
           RegisterDirect, Insert, Files, FilesFail, Await, AwaitOver, SubmitFail, Stall,
           CancelStop, ClientGoes
<1>5. ASSUME Finish(c) PROVE Way(c)
  BY <1>1, <1>5 DEF Finish, ClientTypes, Way
<1>6. ASSUME NEW w, NEW row \in Row \cup {NoRow}, NEW rest, Refreshed(c, w, row, rest),
             ~Submitting(c), pc[c] # "create"
      PROVE  Way(c)
  <2>1. op'[c] = "submit" => op[c] = "submit" /\ target'[c] = target[c] /\ cur'[c] = NoRow
    BY <1>1, <1>6, RefreshedEnds
  <2>2. QED
    BY <1>2, <1>6, <2>1 DEF Way
<1>7. CASE Lose(c)
  <2>1. pc[c] = "lose" /\ ~Submitting(c) /\ Refreshed(c, cur[c], NoRow, todo[c])
    BY <1>1, <1>7 DEF Lose, SubmitterOK
  <2>2. QED
    BY <1>6, <2>1
<1>8. CASE Requeue(c)
  <2>1. pc[c] = "requeue" /\ ~Submitting(c) /\ cur[c] \in Row
    BY <1>1, <1>8 DEF Requeue, SubmitterOK, ClientOK
  <2>2. PICK row : row = RowOf(cur[c].job)
    OBVIOUS
  <2>3. row \in Row
    BY <1>1, <2>1, <2>2 DEF Row, RowOf, LocalInv, TypeOK, StoreTypeOK
  <2>4. CASE Refreshed(c, cur[c], row, todo[c])
    BY <1>6, <2>1, <2>3, <2>4
  <2>5. CASE cur' = [cur EXCEPT ![c] = [cur[c] EXCEPT !.state = "queued"]] /\ UNCHANGED <<op, target>>
    BY <1>1, <2>1, <2>5 DEF Way, Submitting, ClientTypes, Row
  <2>6. QED
    BY <1>8, <2>2, <2>4, <2>5 DEF Requeue
<1>9. CASE Spawn(c)
  <2>1. pc[c] = "spawn" /\ pc'[c] = "register" /\ UNCHANGED <<op, target, cur>>
    BY <1>1, <1>9 DEF Spawn, ClientGoes, ClientTypes
  <2>2. QED
    BY <2>1 DEF Way, Submitting
<1>10. CASE SpawnFails(c)
  <2>1. CASE Submitting(c)
    BY <1>1, <1>10, <2>1 DEF SpawnFails, ClientTypes, Way
  <2>2. CASE ~Submitting(c)
    BY <1>6, <1>10, <2>2 DEF SpawnFails
  <2>3. QED
    BY <2>1, <2>2
<1>11. CASE Register(c)
  <2>1. pc[c] = "register" /\ cur[c] \in Row
    BY <1>1, <1>11 DEF Register, ClientOK
  <2>2. PICK row : row = [RowOf(cur[c].job) EXCEPT !.owner = owner'[cur[c].job]]
    OBVIOUS
  <2>3. row \in Row
    <3>1. cur[c].job \in Jobs
      BY <2>1 DEF Row
    <3>2. LocalInv'
      BY <1>1, <1>11, ClientStepKeepsInv DEF ClientStep
    <3>3. owner'[cur[c].job] \in RunnerIds
      BY <3>1, <3>2 DEF LocalInv, TypeOK, StoreTypeOK
    <3>4. RowOf(cur[c].job) \in Row
      BY <1>1, <3>1 DEF Row, RowOf, LocalInv, TypeOK, StoreTypeOK
    <3>5. QED
      BY <2>2, <3>3, <3>4 DEF Row
  <2>4. Finish(c) \/ (~Submitting(c) /\ Refreshed(c, cur[c], row, todo[c]))
    BY <1>11, <2>2 DEF Register
  <2>5. QED
    BY <1>5, <1>6, <2>1, <2>3, <2>4
<1>12. CASE RegisterDirect(c) \/ Files(c) \/ FilesFail(c)
  <2>1. pc[c] \in {"register", "files"} /\ Submitting(c)
    BY <1>1, <1>12 DEF RegisterDirect, Files, FilesFail, ClientGoes, ClientOK
  <2>2. /\ UNCHANGED <<op, target, cur>> /\ pc'[c] \in {"spawn", "await", "fail"}
        /\ pc'[c] = "spawn" => pc[c] = "files" /\ UNCHANGED <<rpc, rjob>>
    BY <1>1, <1>12 DEF RegisterDirect, Files, FilesFail, ClientGoes, ClientTypes, runnerVars
  <2>3. QED
    BY <2>1, <2>2 DEF Way
<1>13. CASE Insert(c)
  <2>1. /\ pc[c] = "create" /\ pc'[c] = "files" /\ UNCHANGED <<op, target, rpc, rjob>>
        /\ state[target[c]] = "absent" /\ cur'[c].job = target[c]
    BY <1>1, <1>13 DEF Insert, ClientGoes, Create, ClientTypes, RowOf, runnerVars
  <2>2. QED
    BY <2>1 DEF Way
<1>14. CASE AwaitOver(c) /\ ~Finish(c)
  <2>1. UNCHANGED <<op, target, cur>> /\ pc'[c] = "fail" /\ pc[c] = "await"
    BY <1>1, <1>14 DEF AwaitOver, ClientTypes
  <2>2. QED
    BY <2>1 DEF Way, Submitting
<1>15. QED
  BY <1>3, <1>4, <1>5, <1>7, <1>8, <1>9, <1>10, <1>11, <1>12, <1>13, <1>14
     DEF ClientStep, SweepList, SweepEnd, LookSettled, LookRecover, LookGrace, LookLost, Vanished,
         Await, SubmitFail, Stall, CancelStop

LEMMA ClientFrames ==
  ASSUME CommandInv, NEW c \in Clients, ClientStep(c) \/ ClientBegin(c)
  PROVE  ClientFrame(c)
BY CommandTypes, OthersStay, ClientRows, ClientProcs, ClientWay DEF ClientFrame

\* Runners of the step: the processes either stay, or one is the exception.
LEMMA ProcKept ==
  ASSUME CommandInv, NEW c \in Clients, ProcMoves(c), NEW i \in Runners
  PROVE  \/ rpc'[i] = rpc[i] /\ rjob'[i] = rjob[i]
         \/ Spawned(c, i) /\ rpc[i] = "gone" /\ rpc'[i] = "boot" /\ rjob'[i] = cur[c].job /\ i \notin live
         \/ Dismissed(c) /\ i = child[c] /\ rpc'[i] = "gone" /\ rpc[i] \in {"gone", "boot", "own"}
<1>1. /\ rpc \in [Runners -> RunnerStates] /\ rjob \in [Runners -> Jobs \cup {NoJob}]
      /\ ChildWaits(c)
  BY CommandTypes DEF CommandInv
<1>2. CASE UNCHANGED <<rpc, rjob>>
  BY <1>2
<1>3. ASSUME NEW r \in Runners, Spawned(c, r) PROVE (rpc'[i] = rpc[i] /\ rjob'[i] = rjob[i]) \/ (i = r /\ Spawned(c, i) /\ rpc[i] = "gone" /\ rpc'[i] = "boot" /\ rjob'[i] = cur[c].job /\ i \notin live)
  BY <1>1, <1>3 DEF Spawned, FreshRunner
<1>4. CASE Dismissed(c)
  BY <1>1, <1>4 DEF Dismissed, ChildWaits
<1>5. QED
  BY <1>2, <1>3, <1>4 DEF ProcMoves

LEMMA ActingClient ==
  ASSUME CommandInv, NEW c \in Clients, ClientFrame(c)
  PROVE  SubmitterOK(c)' /\ Unspawned(c)' /\ ChildWaits(c)'
<1>1. /\ SubmitterOK(c) /\ Unspawned(c) /\ ClientOK(c) /\ LocalInv
      /\ \A r \in Runners : Alive(r) => rjob[r] \in Jobs /\ state[rjob[r]] # "absent"
  BY CommandTypes DEF CommandInv, LocalInv
<1>2. /\ \A d \in Clients \ {c} : SameLocals(d)
      /\ \A j \in Jobs : RowMoves(c, j)
      /\ ProcMoves(c) /\ Way(c)
  BY DEF ClientFrame
<1>3. op[c] = "submit" => target[c] \in Jobs
  BY <1>1 DEF ClientOK
<1>4. SubmitterOK(c)'
  <2>1. ASSUME op'[c] = "submit", cur'[c].job # target'[c] PROVE state'[target'[c]] = "absent"
    BY <1>1, <1>2, <1>3, <2>1 DEF Way, SubmitterOK, Submitting, RowMoves
  <2>2. Submitting(c)' => pc'[c] \in {"files", "spawn", "register", "await", "fail"}
    BY <1>2 DEF Way, Submitting
  <2>3. ASSUME NEW d \in Clients, op'[c] = "submit", op'[d] = "submit", target'[c] = target'[d]
        PROVE  c = d
    BY <1>1, <1>2, <2>3 DEF Way, SubmitterOK, SameLocals
  <2>4. QED
    BY <2>1, <2>2, <2>3 DEF SubmitterOK, Submitting
<1>5. Unspawned(c)'
  <2>1. SUFFICES ASSUME op'[c] = "submit", cur'[c].job = target'[c], ~Queued(target'[c]),
                        pc'[c] \in {"files", "spawn"}
                 PROVE  /\ cmd'[target'[c]] = NoRunner /\ launches'[target'[c]] = 0
                        /\ \A r \in Runners : Alive(r)' => rjob'[r] # target'[c]
    BY DEF Unspawned, Submitting, Queued
  <2>2. /\ target'[c] = target[c] /\ target[c] \in Jobs /\ UNCHANGED <<rpc, rjob>> /\ op[c] = "submit"
        /\ \/ Submitting(c) /\ pc[c] = "files"
           \/ state[target[c]] = "absent"
    BY <1>2, <1>3, <2>1 DEF Way
  <2>3. cmd'[target[c]] = cmd[target[c]] /\ launches' = launches
    BY <1>2, <2>2 DEF RowMoves, ProcMoves
  <2>4. CASE state[target[c]] = "absent"
    <3>1. Unstarted(target[c])
      BY <2>2 DEF CommandInv
    <3>2. QED
      BY <1>1, <2>2, <2>3, <2>4, <3>1 DEF Unstarted, Alive
  <2>5. CASE Submitting(c) /\ pc[c] = "files"
    BY <1>1, <2>1, <2>2, <2>3, <2>5 DEF Unspawned, Alive
  <2>6. QED
    BY <2>2, <2>4, <2>5
<1>6. ChildWaits(c)'
  <2>1. SUFFICES ASSUME pc'[c] = "register" PROVE ChildWaits(c)'
    BY DEF ChildWaits
  <2>2. PICK r \in Runners : Spawned(c, r)
    BY <1>2, <2>1 DEF ProcMoves
  <2>3. /\ child'[c] = r /\ cur' = cur /\ pc[c] = "spawn" /\ FreshRunner(r)
        /\ rpc'[r] = "boot" /\ rjob'[r] = cur[c].job
    BY <2>2, CommandTypes DEF Spawned
  <2>4. \A j \in Jobs : owner'[j] # r
    BY <1>2, <2>3 DEF RowMoves, FreshRunner
  <2>5. \A d \in Clients \ {c} : child'[d] # r
    BY <1>2, <2>3 DEF SameLocals, FreshRunner
  <2>6. QED
    BY <2>3, <2>4, <2>5 DEF ChildWaits
<1>7. QED
  BY <1>4, <1>5, <1>6

LEMMA OtherClient ==
  ASSUME CommandInv, NEW c \in Clients, ClientFrame(c), NEW d \in Clients \ {c}
  PROVE  SubmitterOK(d)' /\ Unspawned(d)' /\ ChildWaits(d)'
<1>1. /\ SubmitterOK(d) /\ Unspawned(d) /\ ChildWaits(d) /\ ClientOK(d)
      /\ SubmitterOK(c) /\ ClientOK(c) /\ ChildWaits(c)
  BY DEF CommandInv, LocalInv
<1>2. /\ SameLocals(d)
      /\ \A j \in Jobs : RowMoves(c, j)
      /\ ProcMoves(c) /\ Way(c)
  BY DEF ClientFrame
<1>3. op[d] = "submit" => target[d] \in Jobs
  BY <1>1 DEF ClientOK
<1>4. UNCHANGED <<pc[d], op[d], target[d], cur[d], child[d]>>
  BY <1>2 DEF SameLocals
<1>5. op[c] = "submit" /\ op[d] = "submit" => target[c] # target[d]
  BY <1>1 DEF SubmitterOK
<1>6. SubmitterOK(d)'
  <2>1. ASSUME op[d] = "submit", cur[d].job # target[d] PROVE state'[target[d]] = "absent"
    <3>1. state[target[d]] = "absent" /\ RowMoves(c, target[d])
      BY <1>1, <1>2, <1>3, <2>1 DEF SubmitterOK
    <3>2. pc[c] = "create" => op[c] = "submit"
      BY <1>1 DEF ClientOK
    <3>3. QED
      BY <1>5, <2>1, <3>1, <3>2 DEF RowMoves
  <2>2. ASSUME NEW e \in Clients, op[d] = "submit", op'[e] = "submit", target[d] = target'[e]
        PROVE  d = e
    <3>1. CASE e # c
      BY <1>1, <2>2, <3>1 DEF SubmitterOK, ClientFrame, SameLocals
    <3>2. CASE e = c
      BY <1>2, <1>5, <2>2, <3>2 DEF Way
    <3>3. QED
      BY <3>1, <3>2
  <2>3. QED
    BY <1>1, <1>4, <2>1, <2>2 DEF SubmitterOK, Submitting
<1>7. Unspawned(d)'
  <2>1. SUFFICES ASSUME Submitting(d), ~Queued(target[d]), pc[d] \in {"files", "spawn"}
                 PROVE  /\ cmd'[target[d]] = NoRunner /\ launches'[target[d]] = 0
                        /\ \A r \in Runners : Alive(r)' => rjob'[r] # target[d]
    BY <1>4 DEF Unspawned, Submitting, Queued
  <2>2. /\ target[d] \in Jobs /\ cmd[target[d]] = NoRunner /\ launches[target[d]] = 0
        /\ \A r \in Runners : Alive(r) => rjob[r] # target[d]
    BY <1>1, <1>3, <2>1 DEF Unspawned, Submitting
  <2>3. cmd'[target[d]] = NoRunner /\ launches'[target[d]] = 0
    BY <1>2, <2>2 DEF RowMoves, ProcMoves
  <2>4. ASSUME NEW r \in Runners, Alive(r)' PROVE rjob'[r] # target[d]
    <3>1. CASE rpc'[r] = rpc[r] /\ rjob'[r] = rjob[r]
      BY <2>2, <2>4, <3>1 DEF Alive
    <3>2. CASE Spawned(c, r) /\ rjob'[r] = cur[c].job
      BY <1>1, <1>5, <2>1, <3>2 DEF Spawned, ClientOK, Submitting
    <3>3. QED
      BY <1>2, <2>4, <3>1, <3>2, ProcKept DEF Alive
  <2>5. QED
    BY <2>3, <2>4
<1>8. ChildWaits(d)'
  <2>1. SUFFICES ASSUME pc[d] = "register", Queued(cur[d].job) PROVE ChildWaits(d)'
    BY <1>4 DEF ChildWaits, Queued
  <2>2. /\ child[d] \in Runners /\ \A j \in Jobs : owner[j] # child[d]
        /\ \A e \in Clients \ {d} : child[e] # child[d]
        /\ \/ rpc[child[d]] = "gone"
           \/ rjob[child[d]] = cur[d].job /\ rpc[child[d]] \in {"boot", "own"}
    BY <1>1, <2>1 DEF ChildWaits, ClientOK
  <2>3. child[c] # child[d]
    BY <2>2
  <2>4. \A j \in Jobs : owner'[j] # child[d]
    BY <1>2, <2>2, <2>3 DEF RowMoves
  <2>5. \A r \in Runners : Spawned(c, r) => r # child[d]
    BY DEF Spawned, FreshRunner
  <2>6. child'[c] # child[d]
    BY <1>2, <2>2, <2>3, <2>5, StoreAssumption DEF ProcMoves, Spawned
  <2>7. \A e \in Clients \ {d} : child'[e] # child[d]
    BY <2>2, <2>6 DEF ClientFrame, SameLocals
  <2>8. \/ rpc'[child[d]] = "gone"
        \/ rjob'[child[d]] = cur[d].job /\ rpc'[child[d]] \in {"boot", "own"}
    BY <1>2, <2>2, <2>3, <2>5, ProcKept
  <2>9. QED
    BY <1>4, <2>4, <2>7, <2>8 DEF ChildWaits
<1>9. QED
  BY <1>6, <1>7, <1>8

LEMMA ClientJobs ==
  ASSUME CommandInv, NEW c \in Clients, ClientFrame(c), NEW j \in Jobs
  PROVE  Unstarted(j)' /\ Launched(j)'
<1>1. Unstarted(j) /\ Launched(j) /\ RowMoves(c, j) /\ launches' = launches /\ launches[j] \in 0..2
  BY CommandTypes DEF CommandInv, ClientFrame, ProcMoves
<1>2. Unstarted(j)'
  BY <1>1, UnstartedKept DEF RowMoves
<1>3. Launched(j)'
  <2>1. CASE ~Supervised
    BY <2>1 DEF Launched
  <2>2. CASE Supervised /\ launches[j] = 0
    BY <1>1, <2>2 DEF Launched
  <2>3. CASE Supervised /\ launches[j] # 0 /\ ~Queued(j)
    BY <1>1, <2>3 DEF Launched, Queued
  <2>4. CASE Supervised /\ launches[j] # 0 /\ Queued(j)
    <3>1. launches[j] > 0 /\ launches[j] <= 1
      BY <1>1, <2>4 DEF Launched
    <3>2. /\ state[j] # "queued" /\ state[j] # "absent"
          /\ state[j] = "starting" => \E r \in Runners : rpc[r] = "record" /\ rjob[r] = j
      BY <1>1, <2>4, <3>1 DEF Launched, Unstarted
    <3>3. ASSUME NEW r \in Runners, rpc[r] = "record", rjob[r] = j
          PROVE  Alive(owner[j]) /\ rpc'[r] = "record" /\ rjob'[r] = j
      <4>1. RunnerOK(r) /\ Alive(r) /\ Admitted(r)
        BY <3>3 DEF CommandInv, LocalInv, Alive, Admitted
      <4>2. rpc'[r] = rpc[r] /\ rjob'[r] = rjob[r]
        BY <3>3, ProcKept DEF ClientFrame
      <4>3. QED
        BY <2>4, <3>3, <4>1, <4>2 DEF RunnerOK
    <3>4. state'[j] \in {"queued", "starting"} => state'[j] = state[j]
      BY <1>1, <3>2, <3>3 DEF RowMoves
    <3>5. QED
      BY <1>1, <2>4, <3>1, <3>2, <3>3, <3>4, LaunchedKept
  <2>5. QED
    BY <2>1, <2>2, <2>3, <2>4
<1>4. QED
  BY <1>2, <1>3

LEMMA ClientRunners ==
  ASSUME CommandInv, LocalInv', NEW c \in Clients, ClientFrame(c), NEW i \in Runners
  PROVE  StageOK(i)' /\ CommandOK(i)'
<1>1. /\ StageOK(i) /\ CommandOK(i) /\ Unspawned(c) /\ ClientOK(c)
      /\ Alive(i) => rjob[i] \in Jobs
      /\ rpc[i] \in HasCommand => i \in live
  BY CommandTypes DEF CommandInv, LocalInv
<1>2. /\ \A d \in Clients \ {c} : SameLocals(d)
      /\ \A j \in Jobs : RowMoves(c, j)
      /\ ProcMoves(c)
  BY DEF ClientFrame
<1>3. launches' = launches /\ live' = live /\ (i \in killed => i \in killed')
  BY <1>2 DEF ProcMoves
<1>4. ASSUME NEW r \in Runners, Spawned(c, r), ~Queued(cur[c].job)
      PROVE  /\ cmd[cur[c].job] = NoRunner /\ launches[cur[c].job] = 0 /\ cur[c].job \in Jobs
             /\ \A h \in Runners : Alive(h) => rjob[h] # cur[c].job
  BY <1>1, <1>4 DEF Spawned, ClientOK, Submitting, Unspawned, Row
<1>5. OneWorker'
  <2>1. ASSUME NEW h \in Runners, Alive(h)', ~Queued(rjob'[h])
        PROVE  \/ Alive(h) /\ rjob'[h] = rjob[h]
               \/ \A k \in Runners \ {h} : Alive(k)' => rjob'[k] # rjob'[h]
    <3>1. CASE rpc'[h] = rpc[h] /\ rjob'[h] = rjob[h]
      BY <2>1, <3>1 DEF Alive
    <3>2. CASE Spawned(c, h) /\ rjob'[h] = cur[c].job
      <4>1. ASSUME NEW k \in Runners \ {h}, Alive(k)' PROVE Alive(k) /\ rjob'[k] = rjob[k]
        BY <3>2, <4>1, CommandTypes DEF Spawned, Alive
      <4>2. QED
        BY <1>4, <2>1, <3>2, <4>1
    <3>3. QED
      BY <1>2, <2>1, <3>1, <3>2, ProcKept DEF Alive
  <2>2. QED
    BY <2>1, OneWorkerKept DEF NoNewRunner, Queued
<1>6. CASE rpc'[i] = rpc[i] /\ rjob'[i] = rjob[i]
  <2>1. ASSUME Alive(i) PROVE RowMoves(c, rjob[i])
    BY <1>1, <1>2, <2>1
  <2>2. StageOK(i)'
    BY <1>3, <1>5, <1>6, <2>1, StageKept DEF Working, RowMoves
  <2>3. CommandOK(i)'
    <3>1. SUFFICES ASSUME Undisturbed, rpc[i] \in Recorded, state'[rjob[i]] = "cancelled", i \notin killed'
                   PROVE  \E d \in Clients : pc'[d] = "stop" /\ cur'[d].cmd = i
      BY <1>1, <1>3, <1>6 DEF CommandOK
    <3>2. RowMoves(c, rjob[i]) /\ i \in live /\ cmd[rjob[i]] = i
      BY <1>1, <2>1, <3>1 DEF Recorded, HasCommand, Alive, StageOK
    <3>3. CASE state[rjob[i]] = "cancelled"
      <4>1. PICK d \in Clients : pc[d] = "stop" /\ cur[d].cmd = i
        BY <1>1, <1>3, <3>1, <3>3 DEF CommandOK
      <4>2. d # c
        BY <1>2, <3>1, <3>2, <4>1 DEF ProcMoves
      <4>3. QED
        BY <1>2, <4>1, <4>2 DEF SameLocals
    <3>4. CASE state[rjob[i]] # "cancelled"
      BY <3>1, <3>2, <3>4 DEF RowMoves
    <3>5. QED
      BY <3>3, <3>4
  <2>4. QED
    BY <2>2, <2>3
<1>7. CASE Spawned(c, i) /\ rpc'[i] = "boot" /\ rjob'[i] = cur[c].job /\ i \notin live
  <2>1. \A h \in Runners : Working(i)' /\ Working(h)' /\ rjob'[i] = rjob'[h] => i = h
    BY <1>5 DEF OneWorker
  <2>2. ~Queued(cur[c].job) => cmd'[cur[c].job] = NoRunner /\ launches'[cur[c].job] = 0
    BY <1>2, <1>3, <1>4, <1>7 DEF RowMoves
  <2>3. QED
    BY <1>3, <1>7, <2>1, <2>2 DEF StageOK, CommandOK, Unlaunched, Recorded, Queued
<1>8. CASE rpc'[i] = "gone" /\ rpc[i] \in {"gone", "boot", "own"}
  <2>1. \A h \in Runners : Working(i)' /\ Working(h)' /\ rjob'[i] = rjob'[h] => i = h
    BY <1>5 DEF OneWorker
  <2>2. Supervised => i \notin live'
    BY <1>1, <1>3, <1>8 DEF CommandOK, HasCommand
  <2>3. QED
    BY <1>8, <2>1, <2>2 DEF StageOK, CommandOK, Unlaunched, Recorded
<1>9. QED
  BY <1>2, <1>6, <1>7, <1>8, ProcKept

LEMMA ClientCommand ==
  ASSUME CommandInv, NEW c \in Clients, ClientStep(c) \/ ClientBegin(c)
  PROVE  CommandInv'
<1>1. ClientFrame(c) /\ LocalInv'
  <2>1. [Next]_vars
    BY DEF Next
  <2>2. QED
    BY <2>1, ClientFrames, LocalInvStep DEF CommandInv
<1>2. ASSUME NEW d \in Clients PROVE SubmitterOK(d)' /\ Unspawned(d)' /\ ChildWaits(d)'
  BY <1>1, ActingClient, OtherClient
<1>3. QED
  BY <1>1, <1>2, ClientJobs, ClientRunners DEF CommandInv

-----------------------------------------------------------------------------
(* Faults: processes disappear, and clients forget what they did.          *)

\* What a fault leaves of a client, of a runner and of the rows.
Gone(c) ==
  \/ SameLocals(c)
  \/ op'[c] = "none" /\ pc'[c] = "idle" /\ child'[c] = NoRunner

Dies(r) ==
  \/ rpc'[r] = rpc[r] /\ rjob'[r] = rjob[r] /\ (r \in live') = (r \in live) /\ (r \in killed') = (r \in killed)
  \/ rpc'[r] = "gone" /\ (Supervised => r \notin live')

LEMMA FaultKeeps ==
  ASSUME CommandInv, LocalInv', UNCHANGED <<store, launches>>,
         \A c \in Clients : Gone(c),
         \A r \in Runners : Dies(r),
         Undisturbed => \A c \in Clients : SameLocals(c),
         Supervised => \A r \in Runners : rpc'[r] # rpc[r] => rpc[r] # "record"
  PROVE  CommandInv'
<1>1. UNCHANGED <<state, owner, cmd, launches>>
  BY DEF store
<1>2. OneWorker'
  BY OneWorkerKept DEF NoNewRunner, Dies, Alive
<1>3. ASSUME NEW c \in Clients PROVE SubmitterOK(c)' /\ Unspawned(c)' /\ ChildWaits(c)'
  <2>1. SubmitterOK(c) /\ Unspawned(c) /\ ChildWaits(c) /\ ClientOK(c)
    BY DEF CommandInv, LocalInv
  <2>2. CASE op'[c] = "none" /\ pc'[c] = "idle"
    BY <2>2 DEF SubmitterOK, Unspawned, ChildWaits, Submitting
  <2>3. CASE SameLocals(c)
    <3>1. UNCHANGED <<pc[c], op[c], target[c], cur[c], child[c]>>
      BY <2>3 DEF SameLocals
    <3>2. SubmitterOK(c)'
      <4>1. ASSUME NEW d \in Clients, op'[d] = "submit" PROVE op[d] = "submit" /\ target'[d] = target[d]
        BY <4>1 DEF Gone, SameLocals
      <4>2. QED
        BY <1>1, <2>1, <3>1, <4>1 DEF SubmitterOK, Submitting
    <3>3. Unspawned(c)'
      BY <1>1, <2>1, <3>1 DEF Unspawned, Submitting, Queued, Dies, Alive
    <3>4. ChildWaits(c)'
      <4>1. SUFFICES ASSUME pc[c] = "register", Queued(cur[c].job) PROVE ChildWaits(c)'
        BY <3>1 DEF ChildWaits, Queued
      <4>2. child[c] \in Runners /\ child[c] # NoRunner
        BY <2>1, <4>1, StoreAssumption DEF ClientOK
      <4>3. \A d \in Clients \ {c} : child'[d] # child[c]
        BY <2>1, <4>1, <4>2 DEF ChildWaits, Gone, SameLocals
      <4>4. \/ rpc'[child[c]] = "gone"
            \/ rjob'[child[c]] = cur[c].job /\ rpc'[child[c]] \in {"boot", "own"}
        BY <2>1, <4>1, <4>2 DEF ChildWaits, Dies
      <4>5. QED
        BY <1>1, <2>1, <3>1, <4>1, <4>3, <4>4 DEF ChildWaits
    <3>5. QED
      BY <3>2, <3>3, <3>4
  <2>4. QED
    BY <2>2, <2>3 DEF Gone
<1>4. ASSUME NEW j \in Jobs PROVE Unstarted(j)' /\ Launched(j)'
  <2>1. Unstarted(j) /\ Launched(j)
    BY DEF CommandInv
  <2>2. Supervised => \A r \in Runners :
          rpc[r] = "record" /\ rjob[r] = j => rpc'[r] = "record" /\ rjob'[r] = j
    BY DEF Dies
  <2>3. Unstarted(j)'
    BY <1>1, <2>1 DEF Unstarted
  <2>4. Launched(j)'
    BY <1>1, <2>1, <2>2, LaunchedKept
  <2>5. QED
    BY <2>3, <2>4
<1>5. ASSUME NEW r \in Runners PROVE StageOK(r)' /\ CommandOK(r)'
  <2>1. StageOK(r) /\ CommandOK(r)
    BY DEF CommandInv
  <2>2. CASE rpc'[r] = "gone" /\ (Supervised => r \notin live')
    <3>1. \A i \in Runners : Working(r)' /\ Working(i)' /\ rjob'[r] = rjob'[i] => r = i
      BY <1>2 DEF OneWorker
    <3>2. QED
      BY <2>2, <3>1 DEF StageOK, CommandOK, Unlaunched, Recorded
  <2>3. CASE /\ rpc'[r] = rpc[r] /\ rjob'[r] = rjob[r]
             /\ (r \in live') = (r \in live) /\ (r \in killed') = (r \in killed)
    <3>1. StageOK(r)'
      BY <1>1, <1>2, <2>3, StageKept
    <3>2. CommandOK(r)'
      BY <1>1, <2>1, <2>3 DEF CommandOK, SameLocals
    <3>3. QED
      BY <3>1, <3>2
  <2>4. QED
    BY <2>2, <2>3 DEF Dies
<1>6. QED
  BY <1>3, <1>4, <1>5 DEF CommandInv

LEMMA FaultCommand ==
  ASSUME CommandInv, [Next]_vars,
         \/ \E r \in Runners : OrphanEnds(r) \/ RunnerCrash(r)
         \/ \E c \in Clients : ClientCrash(c)
         \/ Reboot
         \/ UNCHANGED vars
  PROVE  CommandInv'
<1>1. LocalInv' /\ LocalInv /\ ClientTypes
  BY LocalInvStep, ClientTypesHold DEF CommandInv
<1>2. /\ rpc \in [Runners -> RunnerStates] /\ rjob \in [Runners -> Jobs \cup {NoJob}]
      /\ \A r \in Runners : CommandOK(r)
  BY CommandTypes DEF CommandInv
<1>3. CASE UNCHANGED vars
  BY <1>1, <1>3, FaultKeeps DEF vars, runnerVars, cmdVars, clientVars, Gone, Dies, SameLocals
<1>4. ASSUME NEW r \in Runners, OrphanEnds(r) PROVE CommandInv'
  <2>1. /\ UNCHANGED store /\ UNCHANGED launches /\ rpc' = rpc
        /\ \A c \in Clients : SameLocals(c)
    BY <1>4 DEF OrphanEnds, CommandGone, clientVars, SameLocals
  <2>2. \A i \in Runners : Dies(i)
    BY <1>2, <1>4 DEF OrphanEnds, CommandGone, Dies, Alive
  <2>3. QED
    BY <1>1, <2>1, <2>2, FaultKeeps DEF Gone
<1>5. ASSUME NEW r \in Runners, RunnerCrash(r) PROVE CommandInv'
  <2>1. /\ UNCHANGED store /\ UNCHANGED launches /\ "runner" \in Faults
        /\ \A c \in Clients : SameLocals(c)
    BY <1>5 DEF RunnerCrash, Fault, cmdVars, clientVars, SameLocals
  <2>2. ~Supervised
    BY <2>1 DEF Supervised
  <2>3. \A i \in Runners : Dies(i)
    BY <1>2, <1>5, <2>2 DEF RunnerCrash, Dies, cmdVars
  <2>4. QED
    BY <1>1, <2>1, <2>2, <2>3, FaultKeeps DEF Gone
<1>6. ASSUME NEW c \in Clients, ClientCrash(c) PROVE CommandInv'
  <2>1. /\ UNCHANGED store /\ UNCHANGED <<launches, rpc, rjob, live, killed>> /\ "client" \in Faults
        /\ \A d \in Clients : Gone(d)
    BY <1>1, <1>6 DEF ClientCrash, Fault, Finish, runnerVars, cmdVars, Gone, SameLocals, ClientTypes
  <2>2. ~Undisturbed
    BY <2>1 DEF Undisturbed
  <2>3. \A i \in Runners : Dies(i)
    BY <2>1 DEF Dies
  <2>4. QED
    BY <1>1, <2>1, <2>2, <2>3, FaultKeeps
<1>7. CASE Reboot
  <2>1. /\ UNCHANGED store /\ UNCHANGED launches /\ "reboot" \in Faults
        /\ \A d \in Clients : Gone(d)
        /\ \A i \in Runners : Dies(i)
    BY <1>7 DEF Reboot, Fault, Gone, Dies
  <2>2. ~Undisturbed /\ ~Supervised
    BY <2>1 DEF Undisturbed, Supervised
  <2>3. QED
    BY <1>1, <2>1, <2>2, FaultKeeps
<1>8. QED
  BY <1>3, <1>4, <1>5, <1>6, <1>7

LEMMA CommandInvStep == CommandInv /\ [Next]_vars => CommandInv'
<1> SUFFICES ASSUME CommandInv, [Next]_vars PROVE CommandInv'
  OBVIOUS
<1>1. ASSUME NEW r \in Runners, RunnerStep(r) PROVE CommandInv'
  <2>1. LocalInv'
    BY LocalInvStep DEF CommandInv
  <2>2. QED
    BY <1>1, <2>1, RunnerStepCommand
<1>2. QED
  BY <1>1, ClientCommand, FaultCommand DEF Next

(* Of every command it is known who may start it, record it and stop it,   *)
(* and what the row of its job says meanwhile (runner.py 62-97,            *)
(* backends/local.py 48-130).                                              *)
THEOREM CommandInvariant == Spec => []CommandInv
BY CommandInvInit, CommandInvStep, PTL DEF Spec

-----------------------------------------------------------------------------
(* Whatever fails, a command is started only while the row of its job      *)
(* names none.                                                             *)
THEOREM LocalLaunchedUnrecorded == Spec => LaunchedUnrecorded
<1> DEFINE Fresh == \A j \in Jobs : launches'[j] # launches[j] => cmd[j] = NoRunner
<1>1. CommandInv /\ [Next]_vars => [Fresh]_vars
  <2> SUFFICES ASSUME CommandInv, Next, NEW j \in Jobs, launches'[j] # launches[j]
               PROVE  cmd[j] = NoRunner
    OBVIOUS
  <2>1. PICK r \in Runners : RunnerStep(r)
    <3>1. ASSUME NEW c \in Clients, ClientStep(c) \/ ClientBegin(c) PROVE launches' = launches
      BY <3>1, ClientProcs DEF ProcMoves
    <3>2. QED
      BY <3>1 DEF Next, OrphanEnds, RunnerCrash, ClientCrash, Reboot, CommandGone, cmdVars
  <2>2. RunnerFrame(r) /\ Kinds(r) /\ StageOK(r)
    BY <2>1, RunnerKinds DEF Kinds, CommandInv
  <2>3. j = rjob[r]
    BY <2>2 DEF RunnerFrame, SameRow
  <2>4. rpc[r] = "launch"
    BY <2>2, <2>3 DEF Kinds, Quiet, Plain, Admits, Launches, Records, TimesOut
  <2>5. QED
    BY <2>2, <2>3, <2>4 DEF StageOK, Unlaunched
<1>2. QED
  BY <1>1, CommandInvariant, PTL DEF Spec, LaunchedUnrecorded

(* While runners are not killed, recovery never starts a second command:   *)
(* crashes of clients, slow machines and failing launches of runners may   *)
(* hit any step of any recovery.                                           *)
THEOREM LocalAtMostOneLaunch ==
  ASSUME Faults \cap {"runner", "reboot"} = {}
  PROVE  Spec => []AtMostOneLaunch
<1>1. CommandInv => AtMostOneLaunch
  BY DEF CommandInv, Launched, Supervised, AtMostOneLaunch
<1>2. QED
  BY <1>1, CommandInvariant, PTL

(* While no process is killed, the command of a job that was cancelled or  *)
(* timed out is killed, or somebody is still there who will.               *)
THEOREM LocalNoStrayCommand ==
  ASSUME Faults \cap {"client", "runner", "reboot"} = {}
  PROVE  Spec => []NoStrayCommand
<1>1. CommandInv => NoStrayCommand
  <2> SUFFICES ASSUME CommandInv, NEW r \in live \ killed,
                      state[rjob[r]] \in {"cancelled", "timed_out"}
               PROVE  \/ Alive(r) /\ rpc[r] \in {"record", "unlinkAbort", "abort", "expire"}
                      \/ \E c \in Clients : pc[c] = "stop" /\ cur[c].cmd = r
    BY DEF NoStrayCommand
  <2>1. r \in Runners /\ Supervised /\ Undisturbed
    BY CommandTypes DEF TypeOK, Supervised, Undisturbed
  <2>2. StageOK(r) /\ CommandOK(r)
    BY <2>1 DEF CommandInv
  <2>3. rpc[r] \in HasCommand
    BY <2>1, <2>2 DEF CommandOK
  <2>4. CASE rpc[r] \in Recorded
    BY <2>1, <2>2, <2>4 DEF StageOK, CommandOK
  <2>5. QED
    BY <2>1, <2>2, <2>3, <2>4 DEF HasCommand, Recorded, StageOK, Alive
<1>2. QED
  BY <1>1, CommandInvariant, PTL
=============================================================================
