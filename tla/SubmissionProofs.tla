-------------------------- MODULE SubmissionProofs --------------------------
(***************************************************************************)
(* Theorems about submissions, for any number of clients, requests, keys,  *)
(* queues, retries and faults.                                             *)
(*                                                                         *)
(* The argument: a row that was inserted keeps its key and its fingerprint *)
(* for ever, and a row is inserted under a key only if no row has it; so a *)
(* key means one job.  A job is handed to its backend by the client that   *)
(* inserted it and by nobody else, because a replay is answered without    *)
(* passing through the launch; so it is handed over once at most.  A group *)
(* has no keys, so each of its answers is a job it launched itself.        *)
(***************************************************************************)
EXTENDS Submissions, JobStoreProofs

\* Where a client has a job that it has not launched, has one, has a request.
Ahead     == {"files", "launch"}
WithJob   == Ahead \cup {"failing", "answer"}
Underway  == WithJob \cup {"queue", "insert"}

\* The row of j holds the key and the fingerprint of r.
Holds(r, j) == KeyOf[r] # NoKey => key[j] = KeyOf[r] /\ print[j] = PrintOf[r]

-----------------------------------------------------------------------------
(* The inductive invariant. *)

\* An id nobody has inserted has no key and was not launched, and a key is in
\* one row.
RowsOK ==
  /\ \A j \in Jobs : state[j] = "absent" => key[j] = NoKey /\ launched[j] = 0
  /\ \A j \in Jobs : launched[j] <= 1
  /\ \A j, k \in Jobs : key[j] # NoKey /\ key[j] = key[k] => j = k

ClientOK(c) ==
  /\ pc[c] \in Underway => Len(jobs[c]) < Len(Calls[c])
  /\ pc[c] \in WithJob => mine[c] \in Jobs /\ state[mine[c]] # "absent"
  /\ pc[c] \in Ahead => launched[mine[c]] = 0
  /\ pc[c] \in Ahead \cup {"answer"} => Holds(Calls[c][Len(jobs[c]) + 1], mine[c])
  /\ \A i \in 1..Len(jobs[c]) : Holds(Calls[c][i], jobs[c][i])
  /\ groups[c] # <<>> => pc[c] = "stopped"

\* No two clients are about to launch one job.
Apart ==
  \A c, d \in Clients : pc[c] \in Ahead /\ pc[d] \in Ahead /\ mine[c] = mine[d] => c = d

SubmissionInv ==
  /\ SubmissionTypeOK
  /\ StoreInv
  /\ RowsOK
  /\ \A c \in Clients : ClientOK(c)
  /\ Apart

-----------------------------------------------------------------------------
(* What every step does to the rows: what is inserted stays, under the key *)
(* and the fingerprint it was inserted with.                               *)
RowsKept ==
  \A j \in Jobs : state[j] # "absent" =>
    state'[j] # "absent" /\ key'[j] = key[j] /\ print'[j] = print[j]

(* What an answer relies on stays true.                                    *)
LEMMA HoldsKept ==
  ASSUME SubmissionInv, RowsKept, NEW j \in Jobs, NEW r, Holds(r, j)
  PROVE  KeyOf[r] # NoKey => key'[j] = KeyOf[r] /\ print'[j] = PrintOf[r]
BY DEF SubmissionInv, RowsOK, RowsKept, Holds

(* A client that takes no step is not affected by the others.              *)
LEMMA OtherClient ==
  ASSUME SubmissionInv, RowsKept, NEW c \in Clients,
         pc'[c] = pc[c], mine'[c] = mine[c], jobs'[c] = jobs[c], groups'[c] = groups[c],
         pc[c] \in Ahead => launched'[mine[c]] = launched[mine[c]]
  PROVE  ClientOK(c)'
<1>1. ClientOK(c) /\ jobs[c] \in Seq(Jobs)
  BY DEF SubmissionInv, SubmissionTypeOK
<1>2. pc[c] \in WithJob => state'[mine[c]] # "absent"
  BY <1>1 DEF ClientOK, RowsKept
<1>3. \A i \in 1..Len(jobs[c]) : Holds(Calls[c][i], jobs[c][i])'
  <2> SUFFICES ASSUME NEW i \in 1..Len(jobs[c])
               PROVE  KeyOf[Calls[c][i]] # NoKey =>
                        /\ key'[jobs[c][i]] = KeyOf[Calls[c][i]]
                        /\ print'[jobs[c][i]] = PrintOf[Calls[c][i]]
    BY DEF Holds
  <2>1. jobs[c][i] \in Jobs /\ Holds(Calls[c][i], jobs[c][i])
    BY <1>1 DEF ClientOK
  <2>2. QED
    BY <2>1, HoldsKept
<1>4. ASSUME pc[c] \in Ahead \cup {"answer"}
      PROVE  Holds(Calls[c][Len(jobs[c]) + 1], mine[c])'
  <2>1. mine[c] \in Jobs /\ Holds(Calls[c][Len(jobs[c]) + 1], mine[c])
    BY <1>1, <1>4 DEF ClientOK, WithJob
  <2>2. QED
    BY <2>1, HoldsKept DEF Holds
<1>5. QED
  BY <1>1, <1>2, <1>3, <1>4 DEF ClientOK

(* What has been answered stays right, whatever its client does next.      *)
LEMMA AnswersKept ==
  ASSUME SubmissionInv, RowsKept, NEW c \in Clients
  PROVE  \A i \in 1..Len(jobs[c]) :
           KeyOf[Calls[c][i]] # NoKey =>
             /\ key'[jobs[c][i]] = KeyOf[Calls[c][i]]
             /\ print'[jobs[c][i]] = PrintOf[Calls[c][i]]
<1> SUFFICES ASSUME NEW i \in 1..Len(jobs[c])
             PROVE  KeyOf[Calls[c][i]] # NoKey =>
                      /\ key'[jobs[c][i]] = KeyOf[Calls[c][i]]
                      /\ print'[jobs[c][i]] = PrintOf[Calls[c][i]]
  OBVIOUS
<1>1. jobs[c] \in Seq(Jobs) /\ ClientOK(c)
  BY DEF SubmissionInv, SubmissionTypeOK
<1>2. jobs[c][i] \in Jobs /\ Holds(Calls[c][i], jobs[c][i])
  BY <1>1 DEF ClientOK
<1>3. QED
  BY <1>2, HoldsKept

(* A step that leaves the rows alone.                                      *)
LEMMA RowsStay ==
  ASSUME SubmissionInv, UNCHANGED rows
  PROVE  StoreInv' /\ StoreTypeOK' /\ RowsKept
BY DEF rows, store, SubmissionInv, StoreInv, StoreTypeOK, OneTerminalEvent, RanksDiffer, RowsKept

(* A step that ends or moves on an inserted job.                           *)
LEMMA StateMoves ==
  ASSUME SubmissionInv, NEW j \in Jobs, state[j] # "absent",
         NEW s \in {"succeeded", "failed"}, SetState(j, s), UNCHANGED <<key, print>>
  PROVE  /\ StoreInv' /\ StoreTypeOK' /\ RowsKept
         /\ \A k \in Jobs : state'[k] = "absent" => state[k] = "absent"
<1>1. /\ s \in States \ {"absent"} /\ cmd[j] \in RunnerIds /\ code[j] \in Codes \cup {NoCode}
      /\ state \in [Jobs -> States]
  BY DEF SubmissionInv, StoreInv, StoreTypeOK, States, Active, Occupying, Terminal
<1>2. UpdateIfActive(j, s, cmd[j], code[j])
  BY DEF SetState
<1>3. StoreInv'
  <2>1. StoreInv
    BY DEF SubmissionInv
  <2>2. QED
    BY <1>1, <1>2, <2>1, UpdateKeepsInv
<1>4. \A k \in Jobs : state'[k] = state[k] \/ (k = j /\ state'[k] = s)
  BY <1>1, <1>2 DEF UpdateIfActive, store
<1>5. QED
  BY <1>3, <1>4 DEF StoreInv, RowsKept
-----------------------------------------------------------------------------
(* A step of client c keeps the invariant if c itself comes out of it well *)
(* and reaches the launch only with a job nobody else has there.           *)
LEMMA ClientMoves ==
  ASSUME SubmissionInv, RowsKept, StoreInv', SubmissionTypeOK', RowsOK',
         NEW c \in Clients, ClientOK(c)',
         \A d \in Clients \ {c} :
           /\ pc'[d] = pc[d] /\ mine'[d] = mine[d]
           /\ jobs'[d] = jobs[d] /\ groups'[d] = groups[d]
           /\ pc[d] \in Ahead => launched'[mine[d]] = launched[mine[d]],
         pc'[c] \in Ahead =>
           \A d \in Clients \ {c} : pc[d] \in Ahead => mine[d] # mine'[c]
  PROVE  SubmissionInv'
<1>1. \A d \in Clients : ClientOK(d)'
  BY OtherClient
<1>2. Apart'
  BY DEF Apart, SubmissionInv
<1>3. QED
  BY <1>1, <1>2 DEF SubmissionInv

(* Only c moves, with the rows and the launches as they were.              *)
LEMMA QuietClient ==
  ASSUME SubmissionInv, NEW c \in Clients, UNCHANGED <<rows, launched>>, SubmissionTypeOK',
         ClientOK(c)',
         \A d \in Clients \ {c} :
           /\ pc'[d] = pc[d] /\ mine'[d] = mine[d]
           /\ jobs'[d] = jobs[d] /\ groups'[d] = groups[d],
         pc'[c] \in Ahead => pc[c] \in Ahead /\ mine'[c] = mine[c]
  PROVE  SubmissionInv'
<1>1. RowsKept /\ StoreInv'
  BY RowsStay
<1>2. RowsOK'
  BY DEF rows, store, SubmissionInv, RowsOK
<1>3. pc'[c] \in Ahead => \A d \in Clients \ {c} : pc[d] \in Ahead => mine[d] # mine'[c]
  BY DEF SubmissionInv, Apart
<1>4. QED
  BY <1>1, <1>2, <1>3, ClientMoves

-----------------------------------------------------------------------------
LEMMA BeginKeeps ==
  ASSUME SubmissionInv, NEW c \in Clients, Begin(c)
  PROVE  SubmissionInv'
<1>1. SubmissionTypeOK'
  BY SubmissionAssumption, RowsStay
     DEF Begin, Goes, rows, outside, SubmissionInv, SubmissionTypeOK
<1>2. ClientOK(c)'
  BY AnswersKept, RowsStay
     DEF Begin, Goes, Request, rows, outside, SubmissionInv, SubmissionTypeOK, ClientOK, Holds,
         Underway, WithJob, Ahead
<1>3. QED
  BY <1>1, <1>2, QuietClient
     DEF Begin, Goes, rows, outside, SubmissionInv, SubmissionTypeOK, Ahead

\* The queue that follows from a request is one of the configured names.
LEMMA PlaceIsName ==
  ASSUME NEW r \in Requests
  PROVE  PlaceOf[r] \in Queues \cup {NoQueue} /\ (r \in Implied => PlaceOf[r] \in Queues)
<1>1. Asked[r] \in Parameters /\ Settings \in Configuration
  BY RequestAssumption
<1>2. /\ Asked[r].queue \in Names /\ Asked[r].device \in Names /\ Asked[r].resource \in Names
      /\ Asked[r].host \in DOMAIN Settings.backendOf \cup {NoHost}
  BY <1>1 DEF Parameters
<1>3. /\ Settings.host \in DOMAIN Settings.backendOf \cup {NoHost} /\ Settings.queue \in Names
      /\ Settings.queueOf \in [DOMAIN Settings.backendOf -> Names]
  BY <1>1 DEF Configuration
<1>4. HostOf[r] # NoHost => Settings.queueOf[HostOf[r]] \in Names
  <2>1. HostOf[r] \in DOMAIN Settings.backendOf \cup {NoHost}
    BY <1>2, <1>3 DEF HostOf
  <2>2. QED
    BY <1>3, <2>1
<1>5. AdaptiveQueue[r] \in Names
  BY <1>2, <1>3, <1>4 DEF AdaptiveQueue
<1>6. NamedQueue[r] \in Names
  BY <1>2, <1>5 DEF NamedQueue
<1>7. PlaceOf[r] \in Names
  BY <1>2, <1>6 DEF PlaceOf
<1>8. QED
  BY <1>7 DEF Names, Implied

\* A client that is underway has a request.
LEMMA UnderwayHasRequest ==
  ASSUME SubmissionInv, NEW c \in Clients, pc[c] \in Underway
  PROVE  /\ Request(c) = Calls[c][Len(jobs[c]) + 1] /\ Request(c) \in Requests
         /\ Len(jobs[c]) \in Nat
BY SubmissionAssumption DEF SubmissionInv, SubmissionTypeOK, ClientOK, Request

LEMMA CheckQueueKeeps ==
  ASSUME SubmissionInv, NEW c \in Clients, CheckQueue(c)
  PROVE  SubmissionInv'
<1> DEFINE r == Request(c)
<1>1. pc[c] = "queue" /\ r \in Requests
  BY UnderwayHasRequest DEF CheckQueue, Underway
<1>2. /\ \/ pc' = [pc EXCEPT ![c] = "insert"] /\ refused' = refused
         \/ pc' = [pc EXCEPT ![c] = "stopped"] /\ refused' = refused \cup {r}
      /\ UNCHANGED <<rows, mine, jobs, tries, launched, groups, faults>>
  BY DEF CheckQueue, Goes, Refuses
<1>3. slots' = slots \/ (r \in Implied /\ CreatesQueue(PlaceOf[r], 1))
  BY DEF CheckQueue
<1>4. slots' \in [Queues -> Nat] /\ \A q \in Queues : slots'[q] \in {0, 1, Concurrency[q]}
  <2>1. /\ slots \in [Queues -> Nat]
        /\ \A q \in Queues : slots[q] \in {0, 1, Concurrency[q]}
    BY DEF SubmissionInv, SubmissionTypeOK
  <2>2. CASE r \in Implied /\ CreatesQueue(PlaceOf[r], 1)
    <3> DEFINE q == PlaceOf[r]
    <3>1. q \in Queues
      BY <1>1, <2>2, PlaceIsName
    <3>2. slots' = [slots EXCEPT ![q] = IF slots[q] = 0 THEN 1 ELSE slots[q]]
      BY <2>2 DEF CreatesQueue
    <3> HIDE DEF q
    <3>3. QED
      BY <2>1, <3>1, <3>2
  <2>3. QED
    BY <1>3, <2>1, <2>2
<1> HIDE DEF r
<1>5. SubmissionTypeOK'
  BY <1>1, <1>2, <1>4, RowsStay DEF rows, SubmissionInv, SubmissionTypeOK
<1>6. ClientOK(c)'
  BY <1>1, <1>2, AnswersKept, RowsStay
     DEF rows, SubmissionInv, SubmissionTypeOK, ClientOK, Holds, Underway, WithJob, Ahead
<1>7. QED
  BY <1>1, <1>2, <1>5, <1>6, QuietClient DEF rows, SubmissionInv, SubmissionTypeOK, Ahead

LEMMA FilesKeeps ==
  ASSUME SubmissionInv, NEW c \in Clients, Files(c)
  PROVE  SubmissionInv'
<1>1. /\ pc[c] = "files" /\ UNCHANGED <<rows, slots, mine, jobs, tries, outside>>
      /\ pc' = [pc EXCEPT ![c] = "launch"] \/ pc' = [pc EXCEPT ![c] = "failing"]
      /\ faults' = faults \/ (faults < MaxFaults /\ faults' = faults + 1)
  BY DEF Files, Goes, Fault
<1>2. RowsKept /\ StoreTypeOK'
  BY <1>1, RowsStay DEF rows
<1>3. SubmissionTypeOK'
  <2>1. faults' \in 0..MaxFaults
    BY <1>1, SubmissionAssumption DEF SubmissionInv, SubmissionTypeOK
  <2>2. QED
    BY <1>1, <1>2, <2>1 DEF rows, outside, SubmissionInv, SubmissionTypeOK
<1>4. ClientOK(c)'
  BY <1>1 DEF rows, store, outside, SubmissionInv, SubmissionTypeOK, ClientOK, Holds,
              Underway, WithJob, Ahead
<1>5. QED
  BY <1>1, <1>3, <1>4, QuietClient DEF rows, outside, SubmissionInv, SubmissionTypeOK, Ahead

LEMMA DiesKeeps ==
  ASSUME SubmissionInv, NEW c \in Clients, Dies(c)
  PROVE  SubmissionInv'
<1>1. /\ pc[c] # "stopped" /\ UNCHANGED <<rows, slots, jobs, tries, outside>>
      /\ pc' = [pc EXCEPT ![c] = "stopped"] \/ pc' = [pc EXCEPT ![c] = "idle"]
      /\ mine' = [mine EXCEPT ![c] = NoJob]
      /\ faults < MaxFaults /\ faults' = faults + 1
  BY DEF Dies, Fault
<1>2. RowsKept /\ StoreTypeOK'
  BY <1>1, RowsStay DEF rows
<1>3. SubmissionTypeOK'
  <2>1. faults' \in 0..MaxFaults
    BY <1>1, SubmissionAssumption DEF SubmissionInv, SubmissionTypeOK
  <2>2. QED
    BY <1>1, <1>2, <2>1 DEF rows, outside, SubmissionInv, SubmissionTypeOK
<1>4. ClientOK(c)'
  <2>1. /\ pc'[c] \in {"idle", "stopped"}
        /\ jobs' = jobs /\ groups[c] = <<>> /\ groups' = groups
    BY <1>1 DEF outside, SubmissionInv, SubmissionTypeOK, ClientOK
  <2>2. \A i \in 1..Len(jobs[c]) : Holds(Calls[c][i], jobs[c][i])'
    BY <1>2, <2>1, AnswersKept DEF Holds
  <2>3. QED
    BY <2>1, <2>2 DEF ClientOK, Underway, WithJob, Ahead
<1>5. QED
  BY <1>1, <1>3, <1>4, QuietClient DEF rows, outside, SubmissionInv, SubmissionTypeOK, Ahead

LEMMA BuildEndsKeeps ==
  ASSUME SubmissionInv, NEW c \in Clients, BuildEnds(c)
  PROVE  SubmissionInv'
<1>1. /\ pc[c] = "build" /\ UNCHANGED <<rows, slots, mine, jobs, tries, outside, faults>>
      /\ pc' = [pc EXCEPT ![c] = "stopped"] \/ pc' = [pc EXCEPT ![c] = "idle"]
  BY DEF BuildEnds, Goes
<1>2. RowsKept /\ StoreTypeOK'
  BY <1>1, RowsStay DEF rows
<1>3. SubmissionTypeOK'
  BY <1>1, <1>2 DEF rows, outside, SubmissionInv, SubmissionTypeOK
<1>4. ClientOK(c)'
  <2>1. /\ pc'[c] \in {"idle", "stopped"}
        /\ jobs' = jobs /\ groups[c] = <<>> /\ groups' = groups
    BY <1>1 DEF outside, SubmissionInv, SubmissionTypeOK, ClientOK
  <2>2. \A i \in 1..Len(jobs[c]) : Holds(Calls[c][i], jobs[c][i])'
    BY <1>2, <2>1, AnswersKept DEF Holds
  <2>3. QED
    BY <2>1, <2>2 DEF ClientOK, Underway, WithJob, Ahead
<1>5. QED
  BY <1>1, <1>3, <1>4, QuietClient DEF rows, outside, SubmissionInv, SubmissionTypeOK, Ahead

LEMMA WriteGroupKeeps ==
  ASSUME SubmissionInv, NEW c \in Clients, WriteGroup(c)
  PROVE  SubmissionInv'
<1>1. /\ pc[c] = "group" /\ UNCHANGED <<rows, slots, mine, jobs, tries, launched, refused, faults>>
      /\ pc' = [pc EXCEPT ![c] = "stopped"] /\ groups' = [groups EXCEPT ![c] = jobs[c]]
  BY DEF WriteGroup, Goes
<1>2. RowsKept /\ StoreTypeOK'
  BY <1>1, RowsStay DEF rows
<1>3. SubmissionTypeOK'
  BY <1>1, <1>2 DEF rows, SubmissionInv, SubmissionTypeOK
<1>4. ClientOK(c)'
  BY <1>1, <1>2, AnswersKept
     DEF SubmissionInv, SubmissionTypeOK, ClientOK, Holds, Underway, WithJob, Ahead
<1>5. QED
  BY <1>1, <1>3, <1>4, QuietClient DEF rows, SubmissionInv, SubmissionTypeOK, Ahead

(* The id of a new row is fresh, so nobody else is about to launch it, and *)
(* its key is in no other row.                                             *)
LEMMA InsertNewKeeps ==
  ASSUME SubmissionInv, NEW c \in Clients, pc[c] = "insert",
         NEW r \in Requests, r = Calls[c][Len(jobs[c]) + 1], Reserved(r) = {},
         NEW j \in Jobs, Create(j),
         key' = [key EXCEPT ![j] = KeyOf[r]],
         print' = [print EXCEPT ![j] = Fingerprint(r)],
         mine' = [mine EXCEPT ![c] = j], pc' = [pc EXCEPT ![c] = "files"],
         UNCHANGED <<slots, jobs, tries, outside, faults>>
  PROVE  SubmissionInv'
<1>1. SubmissionTypeOK /\ RowsOK /\ ClientOK(c) /\ \A d \in Clients : ClientOK(d)
  BY DEF SubmissionInv
<1>2. StoreInv' /\ StoreTypeOK'
  BY CreateKeepsInv DEF SubmissionInv, StoreInv
<1>3. /\ state[j] = "absent" /\ state'[j] # "absent"
      /\ \A k \in Jobs \ {j} : state'[k] = state[k]
  BY <1>1 DEF Create, SubmissionTypeOK, StoreTypeOK
<1>4. key'[j] = KeyOf[r] /\ print'[j] = Fingerprint(r)
      /\ \A k \in Jobs \ {j} : key'[k] = key[k] /\ print'[k] = print[k]
  BY <1>1 DEF SubmissionTypeOK
<1>5. RowsKept
  BY <1>3, <1>4 DEF RowsKept
<1>6. /\ PrintOf[r] # NoPrint
      /\ KeyOf[r] = NoKey <=> Fingerprint(r) = NoPrint
      /\ KeyOf[r] # NoKey => Fingerprint(r) = PrintOf[r]
      /\ Fingerprint(r) \in {PrintOf[x] : x \in Requests} \cup {NoPrint}
  BY PrintAssumption DEF Fingerprint
<1>7. SubmissionTypeOK'
  <2>1. /\ key' \in [Jobs -> {KeyOf[x] : x \in Requests} \cup {NoKey}]
        /\ print' \in [Jobs -> {PrintOf[x] : x \in Requests} \cup {NoPrint}]
    BY <1>1, <1>6 DEF SubmissionTypeOK
  <2>2. \A k \in Jobs : key'[k] = NoKey <=> print'[k] = NoPrint
    BY <1>1, <1>4, <1>6 DEF SubmissionTypeOK
  <2>3. QED
    BY <1>1, <1>2, <2>1, <2>2 DEF outside, SubmissionTypeOK
<1>8. RowsOK'
  <2>1. \A k \in Jobs : state'[k] = "absent" => key'[k] = NoKey /\ launched'[k] = 0
    BY <1>1, <1>3, <1>4 DEF RowsOK, outside
  <2>2. \A k \in Jobs : KeyOf[r] # NoKey => key[k] # KeyOf[r]
    BY DEF Reserved
  <2>3. \A i, k \in Jobs : key'[i] # NoKey /\ key'[i] = key'[k] => i = k
    BY <1>1, <1>4, <2>2 DEF RowsOK
  <2>4. QED
    BY <1>1, <2>1, <2>3 DEF RowsOK, outside
<1>9. ClientOK(c)'
  <2>1. /\ pc'[c] = "files" /\ mine'[c] = j /\ jobs' = jobs /\ groups' = groups
        /\ launched' = launched
    BY <1>1 DEF outside, SubmissionTypeOK
  <2>2. Len(jobs[c]) < Len(Calls[c]) /\ launched[j] = 0 /\ groups[c] = <<>>
    BY <1>1, <1>3 DEF ClientOK, RowsOK, Underway
  <2>3. Holds(Calls[c][Len(jobs[c]) + 1], mine[c])'
    BY <1>4, <1>6, <2>1 DEF Holds
  <2>4. \A i \in 1..Len(jobs[c]) : Holds(Calls[c][i], jobs[c][i])'
    BY <1>5, <2>1, AnswersKept DEF Holds
  <2>5. QED
    BY <1>3, <2>1, <2>2, <2>3, <2>4 DEF ClientOK
<1>10. \A d \in Clients : pc[d] \in Ahead => mine[d] # j
  BY <1>1, <1>3 DEF ClientOK, WithJob
<1>11. QED
  BY <1>1, <1>2, <1>5, <1>7, <1>8, <1>9, <1>10, ClientMoves DEF outside, SubmissionTypeOK

LEMMA InsertKeeps ==
  ASSUME SubmissionInv, NEW c \in Clients, Insert(c)
  PROVE  SubmissionInv'
<1> DEFINE r == Request(c)
<1>1. /\ pc[c] = "insert" /\ r \in Requests /\ r = Calls[c][Len(jobs[c]) + 1]
      /\ UNCHANGED <<slots, tries, launched, groups, faults>>
  BY UnderwayHasRequest DEF Insert, Underway
<1>2. CASE /\ Reserved(r) = {} /\ Fresh(PlaceOf[r]) # {}
           /\ LET j == CHOOSE j \in Fresh(PlaceOf[r]) : TRUE IN
                /\ Create(j)
                /\ key' = [key EXCEPT ![j] = KeyOf[r]]
                /\ print' = [print EXCEPT ![j] = Fingerprint(r)]
                /\ mine' = [mine EXCEPT ![c] = j]
           /\ Goes(c, "insert", "files") /\ UNCHANGED <<jobs, refused>>
  <2>1. PICK j \in Fresh(PlaceOf[r]) :
          /\ Create(j)
          /\ key' = [key EXCEPT ![j] = KeyOf[r]]
          /\ print' = [print EXCEPT ![j] = Fingerprint(r)]
          /\ mine' = [mine EXCEPT ![c] = j]
    BY <1>2
  <2>2. j \in Jobs
    BY DEF Fresh
  <2>3. pc' = [pc EXCEPT ![c] = "files"] /\ UNCHANGED <<slots, jobs, tries, outside, faults>>
    BY <1>1, <1>2 DEF Goes, outside
  <2> HIDE DEF r
  <2>4. QED
    BY <1>1, <1>2, <2>1, <2>2, <2>3, InsertNewKeeps
<1>3. CASE \E j \in Reserved(r) :
             /\ SameRequest(r, j) /\ Goes(c, "insert", AfterReplay)
             /\ mine' = [mine EXCEPT ![c] = j]
             /\ UNCHANGED <<store, key, print, jobs, refused>>
  <2>1. PICK j \in Reserved(r) :
          /\ SameRequest(r, j) /\ pc' = [pc EXCEPT ![c] = "answer"]
          /\ mine' = [mine EXCEPT ![c] = j]
          /\ UNCHANGED <<store, key, print, jobs, refused>>
    BY <1>3 DEF Goes, AfterReplay
  <2>2. /\ j \in Jobs /\ KeyOf[r] # NoKey /\ key[j] = KeyOf[r] /\ print[j] = PrintOf[r]
    BY <2>1 DEF Reserved, SameRequest
  <2> HIDE DEF r
  <2>3. UNCHANGED rows /\ RowsKept /\ StoreTypeOK'
    <3>1. UNCHANGED rows
      BY <2>1 DEF rows
    <3>2. QED
      BY <3>1, RowsStay
  <2>4. SubmissionTypeOK'
    BY <1>1, <2>1, <2>2, <2>3 DEF SubmissionInv, SubmissionTypeOK
  <2>5. ClientOK(c)'
    <3>1. /\ pc'[c] = "answer" /\ mine'[c] = j /\ jobs' = jobs /\ groups' = groups
          /\ key' = key /\ print' = print
      BY <1>1, <2>1 DEF SubmissionInv, SubmissionTypeOK
    <3>2. Len(jobs[c]) < Len(Calls[c]) /\ groups[c] = <<>>
      BY <1>1 DEF SubmissionInv, ClientOK, Underway
    <3>3. state'[j] # "absent"
      BY <2>2, <2>3 DEF RowsKept, SubmissionInv, RowsOK
    <3>4. Holds(Calls[c][Len(jobs[c]) + 1], mine[c])'
      BY <1>1, <2>2, <3>1 DEF Holds
    <3>5. \A i \in 1..Len(jobs[c]) : Holds(Calls[c][i], jobs[c][i])'
      BY <2>3, <3>1, AnswersKept DEF Holds
    <3>6. QED
      BY <2>2, <3>1, <3>2, <3>3, <3>4, <3>5 DEF ClientOK, Ahead
  <2>6. QED
    BY <1>1, <2>1, <2>3, <2>4, <2>5, QuietClient DEF SubmissionInv, SubmissionTypeOK, Ahead
<1>4. CASE \E j \in Reserved(r) :
             ~SameRequest(r, j) /\ Refuses(c) /\ UNCHANGED <<store, key, print, mine, jobs>>
  <2>1. /\ refused' = refused \cup {r} /\ pc' = [pc EXCEPT ![c] = "stopped"]
        /\ UNCHANGED <<store, key, print, mine, jobs>>
    BY <1>4 DEF Refuses
  <2> HIDE DEF r
  <2>2. UNCHANGED rows /\ RowsKept /\ StoreTypeOK'
    <3>1. UNCHANGED rows
      BY <2>1 DEF rows
    <3>2. QED
      BY <3>1, RowsStay
  <2>3. SubmissionTypeOK'
    BY <1>1, <2>1, <2>2 DEF SubmissionInv, SubmissionTypeOK
  <2>4. ClientOK(c)'
    <3>1. pc'[c] = "stopped" /\ jobs' = jobs
      BY <2>1 DEF SubmissionInv, SubmissionTypeOK
    <3>2. \A i \in 1..Len(jobs[c]) : Holds(Calls[c][i], jobs[c][i])'
      BY <2>2, <3>1, AnswersKept DEF Holds
    <3>3. QED
      BY <3>1, <3>2 DEF ClientOK, Underway, WithJob, Ahead
  <2>5. QED
    BY <1>1, <2>1, <2>2, <2>3, <2>4, QuietClient DEF SubmissionInv, SubmissionTypeOK, Ahead
<1>5. QED
  BY <1>2, <1>3, <1>4 DEF Insert

(* Only the client that inserted a job is about to launch it.              *)
LEMMA LaunchKeeps ==
  ASSUME SubmissionInv, NEW c \in Clients, Launch(c)
  PROVE  SubmissionInv'
<1> DEFINE j == mine[c]
<1>1. /\ pc[c] = "launch" /\ UNCHANGED <<rows, slots, mine, jobs, tries, refused, groups>>
      /\ \/ launched' = [launched EXCEPT ![j] = launched[j] + 1]
         \/ launched' = launched
      /\ \/ pc' = [pc EXCEPT ![c] = "answer"] /\ faults' = faults
         \/ pc' = [pc EXCEPT ![c] = "failing"] /\ faults < MaxFaults /\ faults' = faults + 1
  BY DEF Launch, Goes, Fault
<1>2. /\ SubmissionTypeOK /\ RowsOK /\ ClientOK(c)
      /\ j \in Jobs /\ state[j] # "absent" /\ launched[j] = 0
  BY <1>1 DEF SubmissionInv, ClientOK, WithJob, Ahead
<1>3. UNCHANGED rows /\ RowsKept /\ StoreInv' /\ StoreTypeOK'
  <2>1. UNCHANGED rows
    BY <1>1
  <2>2. QED
    BY <2>1, RowsStay
<1>4. /\ launched' \in [Jobs -> Nat] /\ launched'[j] <= 1
      /\ \A k \in Jobs \ {j} : launched'[k] = launched[k]
  BY <1>1, <1>2 DEF SubmissionTypeOK
<1>5. SubmissionTypeOK'
  <2>1. faults' \in 0..MaxFaults
    BY <1>1, <1>2, SubmissionAssumption DEF SubmissionTypeOK
  <2> HIDE DEF j
  <2>2. QED
    BY <1>1, <1>2, <1>3, <1>4, <2>1 DEF rows, SubmissionTypeOK
<1>6. RowsOK'
  BY <1>2, <1>3, <1>4 DEF rows, store, RowsOK
<1>7. ClientOK(c)'
  <2>1. pc'[c] \in {"answer", "failing"} /\ mine' = mine /\ jobs' = jobs /\ groups' = groups
    BY <1>1, <1>2 DEF SubmissionTypeOK
  <2>2. UNCHANGED <<state, key, print>>
    BY <1>3 DEF rows, store
  <2>3. QED
    BY <1>1, <1>2, <2>1, <2>2 DEF ClientOK, Holds, Underway, WithJob, Ahead
<1>8. \A d \in Clients \ {c} :
        pc[d] \in Ahead => mine[d] \in Jobs /\ launched'[mine[d]] = launched[mine[d]]
  BY <1>1, <1>4 DEF SubmissionInv, Apart, ClientOK, WithJob, Ahead
<1>9. pc'[c] \notin Ahead /\ \A d \in Clients \ {c} : pc'[d] = pc[d]
  BY <1>1, <1>2 DEF SubmissionTypeOK, Ahead
<1>10. QED
  BY <1>1, <1>3, <1>5, <1>6, <1>7, <1>8, <1>9, ClientMoves

LEMMA AnswerKeeps ==
  ASSUME SubmissionInv, NEW c \in Clients, Answer(c)
  PROVE  SubmissionInv'
<1>1. /\ pc[c] = "answer" /\ UNCHANGED <<rows, slots, outside, faults>>
      /\ jobs' = [jobs EXCEPT ![c] = Append(jobs[c], mine[c])]
      /\ mine' = [mine EXCEPT ![c] = NoJob] /\ tries' = [tries EXCEPT ![c] = 0]
  BY DEF Answer
<1>2. \E p \in {"build", "group", "idle"} : pc' = [pc EXCEPT ![c] = p]
  <2> DEFINE p == CASE c \in Builds /\ jobs[c] = <<>>                   -> "build"
                    [] c \in Groups /\ Len(jobs[c]) + 1 = Len(Calls[c]) -> "group"
                    [] OTHER                                            -> "idle"
  <2>1. pc' = [pc EXCEPT ![c] = p]
    BY DEF Answer
  <2>2. p \in {"build", "group", "idle"}
    OBVIOUS
  <2> HIDE DEF p
  <2>3. QED
    BY <2>1, <2>2
<1>3. /\ SubmissionTypeOK /\ ClientOK(c) /\ mine[c] \in Jobs /\ groups[c] = <<>>
      /\ Len(jobs[c]) < Len(Calls[c]) /\ jobs[c] \in Seq(Jobs)
      /\ Holds(Calls[c][Len(jobs[c]) + 1], mine[c])
  BY <1>1 DEF SubmissionInv, SubmissionTypeOK, ClientOK, Underway, WithJob, Ahead
<1>4. UNCHANGED rows /\ RowsKept /\ StoreTypeOK'
  <2>1. UNCHANGED rows
    BY <1>1
  <2>2. QED
    BY <2>1, RowsStay
<1>5. /\ pc'[c] \in {"build", "group", "idle"} /\ groups' = groups
      /\ UNCHANGED <<key, print, launched>>
  BY <1>1, <1>2, <1>3 DEF rows, outside, SubmissionTypeOK
<1>6. /\ jobs'[c] \in Seq(Jobs) /\ Len(jobs'[c]) = Len(jobs[c]) + 1
      /\ jobs'[c][Len(jobs[c]) + 1] = mine[c]
      /\ \A i \in 1..Len(jobs[c]) : jobs'[c][i] = jobs[c][i]
  BY <1>1, <1>3 DEF SubmissionTypeOK
<1>7. SubmissionTypeOK'
  <2>1. /\ jobs' \in [Clients -> Seq(Jobs)]
        /\ \A d \in Clients : Len(jobs'[d]) <= Len(Calls[d])
    <3>1. Calls[c] \in Seq(Requests)
      BY SubmissionAssumption
    <3>2. Len(jobs'[c]) <= Len(Calls[c])
      BY <1>3, <1>6, <3>1
    <3>3. QED
      BY <1>1, <1>3, <1>6, <3>2 DEF SubmissionTypeOK
  <2>2. \A d \in Clients : groups'[d] \in {<<>>, jobs'[d]}
    BY <1>1, <1>3, <1>5 DEF SubmissionTypeOK
  <2>3. pc' \in [Clients -> {"idle", "queue", "insert", "files", "launch",
                             "failing", "answer", "build", "group", "stopped"}]
    BY <1>2, <1>3 DEF SubmissionTypeOK
  <2>4. tries' \in [Clients -> 0..MaxTries] /\ mine' \in [Clients -> Jobs \cup {NoJob}]
    BY <1>1, <1>3, SubmissionAssumption DEF SubmissionTypeOK
  <2>5. QED
    BY <1>1, <1>3, <1>4, <2>1, <2>2, <2>3, <2>4 DEF rows, outside, SubmissionTypeOK
<1>8. ClientOK(c)'
  <2>1. \A i \in 1..Len(jobs[c]) : Holds(Calls[c][i], jobs[c][i])
    BY <1>3 DEF ClientOK
  <2>2. \A i \in 1..Len(jobs'[c]) :
          KeyOf[Calls[c][i]] # NoKey =>
            /\ key'[jobs'[c][i]] = KeyOf[Calls[c][i]]
            /\ print'[jobs'[c][i]] = PrintOf[Calls[c][i]]
    <3> SUFFICES ASSUME NEW i \in 1..Len(jobs'[c]), KeyOf[Calls[c][i]] # NoKey
                 PROVE  /\ key'[jobs'[c][i]] = KeyOf[Calls[c][i]]
                        /\ print'[jobs'[c][i]] = PrintOf[Calls[c][i]]
      OBVIOUS
    <3>1. i \in 1..Len(jobs[c]) \/ i = Len(jobs[c]) + 1
      BY <1>3, <1>6
    <3>2. QED
      BY <1>3, <1>5, <1>6, <2>1, <3>1 DEF Holds
  <2>3. QED
    BY <1>3, <1>5, <2>2 DEF ClientOK, Holds, Underway, WithJob, Ahead
<1>9. QED
  BY <1>1, <1>2, <1>3, <1>4, <1>5, <1>7, <1>8, QuietClient DEF SubmissionTypeOK, Ahead

LEMMA FailSubmissionKeeps ==
  ASSUME SubmissionInv, NEW c \in Clients, FailSubmission(c)
  PROVE  SubmissionInv'
<1> DEFINE j == mine[c]
<1>1. /\ pc[c] = "failing" /\ SetState(j, "failed")
      /\ pc' = [pc EXCEPT ![c] = "stopped"] \/ pc' = [pc EXCEPT ![c] = "idle"]
      /\ mine' = [mine EXCEPT ![c] = NoJob]
      /\ UNCHANGED <<key, print, slots, jobs, tries, outside, faults>>
  BY DEF FailSubmission, Goes
<1>2. /\ SubmissionTypeOK /\ RowsOK /\ j \in Jobs /\ state[j] # "absent" /\ groups[c] = <<>>
  BY <1>1 DEF SubmissionInv, ClientOK, WithJob
<1> HIDE DEF j
<1>3. /\ StoreInv' /\ StoreTypeOK' /\ RowsKept
      /\ \A k \in Jobs : state'[k] = "absent" => state[k] = "absent"
  BY <1>1, <1>2, StateMoves
<1>4. SubmissionTypeOK'
  BY <1>1, <1>2, <1>3 DEF outside, SubmissionTypeOK
<1>5. RowsOK'
  BY <1>1, <1>2, <1>3 DEF outside, RowsOK
<1>6. pc'[c] \in {"idle", "stopped"} /\ jobs' = jobs /\ groups' = groups
  BY <1>1, <1>2 DEF outside, SubmissionTypeOK
<1>7. ClientOK(c)'
  <2>1. \A i \in 1..Len(jobs[c]) : Holds(Calls[c][i], jobs[c][i])'
    BY <1>3, <1>6, AnswersKept DEF Holds
  <2>2. QED
    BY <1>2, <1>6, <2>1 DEF ClientOK, Underway, WithJob, Ahead
<1>8. QED
  BY <1>1, <1>2, <1>3, <1>4, <1>5, <1>6, <1>7, ClientMoves DEF outside, SubmissionTypeOK, Ahead

-----------------------------------------------------------------------------
(* The steps that are nobody's.                                            *)
LEMMA OutsideKeeps ==
  ASSUME SubmissionInv, RowsKept, StoreInv', SubmissionTypeOK', RowsOK', UNCHANGED <<caller, outside>>
  PROVE  SubmissionInv'
<1>1. \A c \in Clients : ClientOK(c)'
  BY OtherClient DEF caller, outside
<1>2. Apart'
  BY DEF caller, SubmissionInv, Apart
<1>3. QED
  BY <1>1, <1>2 DEF SubmissionInv

LEMMA QueueCreatedKeeps ==
  ASSUME SubmissionInv, NEW q \in Queues, QueueCreated(q)
  PROVE  SubmissionInv'
<1>1. /\ slots' = [slots EXCEPT ![q] = IF slots[q] = 0 THEN Concurrency[q] ELSE slots[q]]
      /\ UNCHANGED rows /\ UNCHANGED <<caller, outside, faults>>
  BY DEF QueueCreated, CreatesQueue
<1>2. RowsKept /\ StoreInv' /\ StoreTypeOK'
  BY <1>1, RowsStay
<1>3. SubmissionTypeOK /\ RowsOK
  BY DEF SubmissionInv
<1>4. slots' \in [Queues -> Nat] /\ \A x \in Queues : slots'[x] \in {0, 1, Concurrency[x]}
  <2>1. Concurrency[q] \in Nat
    BY StoreAssumption
  <2>2. QED
    BY <1>1, <1>3, <2>1 DEF SubmissionTypeOK
<1>5. SubmissionTypeOK' /\ RowsOK'
  BY <1>1, <1>2, <1>3, <1>4 DEF rows, store, caller, outside, SubmissionTypeOK, RowsOK
<1>6. QED
  BY <1>1, <1>2, <1>5, OutsideKeeps

LEMMA ProceedsKeeps ==
  ASSUME SubmissionInv, NEW j \in Jobs, Proceeds(j)
  PROVE  SubmissionInv'
<1>1. PICK s \in {"succeeded", "failed"} : SetState(j, s)
  BY DEF Proceeds
<1>2. launched[j] > 0 /\ UNCHANGED <<key, print, slots, caller, outside, faults>>
  BY DEF Proceeds
<1>3. SubmissionTypeOK /\ RowsOK /\ state[j] # "absent"
  BY <1>2 DEF SubmissionInv, RowsOK
<1>4. /\ StoreInv' /\ StoreTypeOK' /\ RowsKept
      /\ \A k \in Jobs : state'[k] = "absent" => state[k] = "absent"
  BY <1>1, <1>2, <1>3, StateMoves
<1>5. SubmissionTypeOK' /\ RowsOK'
  BY <1>2, <1>3, <1>4 DEF caller, outside, SubmissionTypeOK, RowsOK
<1>6. QED
  BY <1>2, <1>4, <1>5, OutsideKeeps

-----------------------------------------------------------------------------
LEMMA SubmissionInvInit == Init => SubmissionInv
<1> SUFFICES ASSUME Init PROVE SubmissionInv
  OBVIOUS
<1>1. StoreInv /\ StoreTypeOK
  BY StoreInvInit DEF Init, StoreInv
<1>2. SubmissionTypeOK
  BY <1>1, SubmissionAssumption DEF Init, SubmissionTypeOK
<1>3. RowsOK /\ Apart /\ \A c \in Clients : ClientOK(c)
  BY DEF Init, RowsOK, Apart, ClientOK, Underway, WithJob, Ahead
<1>4. QED
  BY <1>1, <1>2, <1>3 DEF SubmissionInv

LEMMA SubmissionInvStep == SubmissionInv /\ [Next]_vars => SubmissionInv'
<1> SUFFICES ASSUME SubmissionInv, [Next]_vars PROVE SubmissionInv'
  OBVIOUS
<1>1. CASE UNCHANGED vars
  <2>1. UNCHANGED rows /\ UNCHANGED <<slots, caller, outside, faults>>
    BY <1>1 DEF vars
  <2>2. RowsKept /\ StoreInv' /\ StoreTypeOK'
    BY <2>1, RowsStay
  <2>3. SubmissionTypeOK' /\ RowsOK'
    BY <2>1, <2>2 DEF rows, store, caller, outside, SubmissionInv, SubmissionTypeOK, RowsOK
  <2>4. QED
    BY <2>1, <2>2, <2>3, OutsideKeeps
<1>2. ASSUME NEW c \in Clients, ClientStep(c) \/ Dies(c) PROVE SubmissionInv'
  BY <1>2, BeginKeeps, CheckQueueKeeps, InsertKeeps, FilesKeeps, LaunchKeeps,
     FailSubmissionKeeps, AnswerKeeps, BuildEndsKeeps, WriteGroupKeeps, DiesKeeps
     DEF ClientStep
<1>3. QED
  BY <1>1, <1>2, QueueCreatedKeeps, ProceedsKeeps DEF Next

THEOREM SubmissionInvariant == Spec => []SubmissionInv
BY SubmissionInvInit, SubmissionInvStep, PTL DEF Spec

(* One key is one job, for ever and for every number of submissions under  *)
(* it, and each job is handed to its backend once at most.                 *)
THEOREM SubmissionOneJobPerKey == Spec => []OneJobPerKey
<1>1. SubmissionInv => OneJobPerKey
  BY DEF SubmissionInv, RowsOK, OneJobPerKey
<1>2. QED
  BY <1>1, SubmissionInvariant, PTL

(* All answers under a key name one job, and are of equal requests.        *)
THEOREM SubmissionRepliesAgree == Spec => []RepliesAgree
<1>1. SubmissionInv => RepliesAgree
  <2> SUFFICES ASSUME SubmissionInv, NEW c \in Clients, NEW d \in Clients,
                      NEW i \in DOMAIN jobs[c], NEW k \in DOMAIN jobs[d],
                      KeyOf[Calls[c][i]] = KeyOf[Calls[d][k]], KeyOf[Calls[c][i]] # NoKey
               PROVE  /\ jobs[c][i] = jobs[d][k]
                      /\ PrintOf[Calls[c][i]] = PrintOf[Calls[d][k]]
    BY DEF RepliesAgree
  <2>1. jobs[c] \in Seq(Jobs) /\ jobs[d] \in Seq(Jobs)
    BY DEF SubmissionInv, SubmissionTypeOK
  <2>2. jobs[c][i] \in Jobs /\ i \in 1..Len(jobs[c]) /\ jobs[d][k] \in Jobs /\ k \in 1..Len(jobs[d])
    BY <2>1
  <2>3. Holds(Calls[c][i], jobs[c][i]) /\ Holds(Calls[d][k], jobs[d][k])
    BY <2>2 DEF SubmissionInv, ClientOK
  <2>4. QED
    BY <2>2, <2>3 DEF Holds, SubmissionInv, RowsOK
<1>2. QED
  BY <1>1, SubmissionInvariant, PTL

-----------------------------------------------------------------------------
(* Groups.  A submission of a group has no key, so what it is answered was *)
(* not answered before: it is the row the group inserted and launched. The *)
(* jobs after the build are submitted once the build has succeeded, which  *)
(* a terminal row does not take back.                                      *)
GroupOK(c) ==
  /\ \A i \in 1..Len(jobs[c]) : launched[jobs[c][i]] = 1
  /\ pc[c] = "answer" => launched[mine[c]] = 1
  /\ pc[c] = "build" => Len(jobs[c]) = 1
  /\ pc[c] = "group" => Len(jobs[c]) = Len(Calls[c])
  /\ groups[c] # <<>> => Len(jobs[c]) = Len(Calls[c])
  /\ c \in Builds /\ Len(jobs[c]) > 0 =>
       \/ state[jobs[c][1]] = "succeeded"
       \/ Len(jobs[c]) = 1 /\ pc[c] \in {"build", "stopped"}

GroupInv == \A c \in Groups : GroupOK(c)

(* What every step leaves standing: a launch and a success.                *)
Settled ==
  \A j \in Jobs : /\ launched[j] = 1 => launched'[j] = 1
                  /\ state[j] = "succeeded" => state'[j] = "succeeded"

\* Only Create, and an update of a row that is not terminal, change a state.
LEMMA SuccessStays ==
  ASSUME SubmissionInv, NEW j \in Jobs,
         Create(j) \/ \E s \in {"succeeded", "failed"} : SetState(j, s)
  PROVE  \A k \in Jobs : state[k] = "succeeded" => state'[k] = "succeeded"
<1>1. state \in [Jobs -> States]
  BY DEF SubmissionInv, SubmissionTypeOK, StoreTypeOK
<1>2. CASE Create(j)
  BY <1>1, <1>2 DEF Create
<1>3. CASE \E s \in {"succeeded", "failed"} : SetState(j, s)
  BY <1>1, <1>3 DEF SetState, UpdateIfActive, store, Terminal
<1>4. QED
  BY <1>2, <1>3

LEMMA StepSettles ==
  ASSUME SubmissionInv, SubmissionInv', [Next]_vars
  PROVE  Settled
<1>1. /\ launched \in [Jobs -> Nat] /\ launched' \in [Jobs -> Nat]
      /\ \A j \in Jobs : launched'[j] <= 1
  BY DEF SubmissionInv, SubmissionTypeOK, RowsOK
<1>2. ASSUME UNCHANGED <<state, launched>> PROVE Settled
  BY <1>2 DEF Settled
<1>3. ASSUME NEW j \in Jobs, Create(j) \/ \E s \in {"succeeded", "failed"} : SetState(j, s),
             UNCHANGED launched
      PROVE  Settled
  BY <1>3, SuccessStays DEF Settled
<1>4. ASSUME NEW c \in Clients, ClientStep(c) \/ Dies(c) PROVE Settled
  <2>1. CASE Insert(c)
    <3>1. UNCHANGED launched
      BY <2>1 DEF Insert
    <3>2. CASE UNCHANGED state
      BY <1>2, <3>1, <3>2
    <3>3. CASE ~UNCHANGED state
      <4>1. PICK j \in Fresh(PlaceOf[Request(c)]) : Create(j)
        BY <2>1, <3>3 DEF Insert, store
      <4>2. j \in Jobs
        BY DEF Fresh
      <4>3. QED
        BY <1>3, <3>1, <4>1, <4>2
    <3>4. QED
      BY <3>2, <3>3
  <2>2. CASE Launch(c)
    <3>1. UNCHANGED state
      BY <2>2 DEF Launch, rows, store
    <3>2. \/ launched' = launched
          \/ launched' = [launched EXCEPT ![mine[c]] = launched[mine[c]] + 1]
      BY <2>2 DEF Launch
    <3>3. \A j \in Jobs : launched'[j] >= launched[j]
      BY <1>1, <3>2
    <3>4. QED
      BY <1>1, <3>1, <3>3 DEF Settled
  <2>3. CASE FailSubmission(c)
    <3>1. mine[c] \in Jobs
      BY <2>3 DEF FailSubmission, Goes, SubmissionInv, ClientOK, WithJob
    <3>2. SetState(mine[c], "failed") /\ UNCHANGED launched
      BY <2>3 DEF FailSubmission, outside
    <3>3. QED
      BY <1>3, <3>1, <3>2
  <2>4. CASE Begin(c) \/ CheckQueue(c) \/ Files(c) \/ Answer(c) \/ BuildEnds(c)
             \/ WriteGroup(c) \/ Dies(c)
    <3>1. UNCHANGED <<state, launched>>
      BY <2>4 DEF Begin, CheckQueue, Files, Answer, BuildEnds, WriteGroup, Dies, rows, store,
                  outside
    <3>2. QED
      BY <1>2, <3>1
  <2>5. QED
    BY <1>4, <2>1, <2>2, <2>3, <2>4 DEF ClientStep
<1>5. ASSUME NEW q \in Queues, QueueCreated(q) PROVE Settled
  <2>1. UNCHANGED <<state, launched>>
    BY <1>5 DEF QueueCreated, rows, store, outside
  <2>2. QED
    BY <1>2, <2>1
<1>6. ASSUME NEW j \in Jobs, Proceeds(j) PROVE Settled
  <2>1. UNCHANGED launched
    BY <1>6 DEF Proceeds, outside
  <2>2. QED
    BY <1>3, <1>6, <2>1 DEF Proceeds
<1>7. CASE UNCHANGED vars
  <2>1. UNCHANGED <<state, launched>>
    BY <1>7 DEF vars, rows, store, outside
  <2>2. QED
    BY <1>2, <2>1
<1>8. QED
  BY <1>4, <1>5, <1>6, <1>7 DEF Next

(* A group whose answers stay as they are, and which goes nowhere that     *)
(* asks for more than it has.                                              *)
LEMMA GroupWaits ==
  ASSUME SubmissionInv, Settled, NEW c \in Groups, GroupOK(c),
         jobs'[c] = jobs[c],
         groups'[c] = groups[c] \/ (pc[c] = "group" /\ pc'[c] = "stopped"),
         \/ pc'[c] = pc[c] /\ mine'[c] = mine[c]
         \/ pc'[c] \notin {"answer", "build", "group"},
         \/ pc[c] \notin {"build", "stopped"}
         \/ pc'[c] \in {"build", "stopped"}
         \/ pc[c] = "build" /\ state[jobs[c][1]] = "succeeded"
  PROVE  GroupOK(c)'
<1>1. c \in Clients /\ jobs[c] \in Seq(Jobs) /\ Len(jobs[c]) \in Nat /\ ClientOK(c)
  BY SubmissionAssumption DEF SubmissionInv, SubmissionTypeOK
<1>2. \A i \in 1..Len(jobs[c]) : jobs[c][i] \in Jobs
  BY <1>1
<1>3. \A i \in 1..Len(jobs[c]) : launched'[jobs[c][i]] = 1
  BY <1>2 DEF GroupOK, Settled
<1>4. pc'[c] = "answer" => launched'[mine'[c]] = 1
  <2>1. pc[c] = "answer" => mine[c] \in Jobs
    BY <1>1 DEF ClientOK, WithJob
  <2>2. QED
    BY <2>1 DEF GroupOK, Settled
<1>5. c \in Builds /\ Len(jobs[c]) > 0 =>
        \/ state'[jobs[c][1]] = "succeeded"
        \/ Len(jobs[c]) = 1 /\ pc'[c] \in {"build", "stopped"}
  <2> SUFFICES ASSUME c \in Builds, Len(jobs[c]) > 0
               PROVE  \/ state'[jobs[c][1]] = "succeeded"
                      \/ Len(jobs[c]) = 1 /\ pc'[c] \in {"build", "stopped"}
    OBVIOUS
  <2>1. jobs[c][1] \in Jobs
    BY <1>1, <1>2
  <2>2. QED
    BY <2>1 DEF GroupOK, Settled
<1>6. QED
  BY <1>3, <1>4, <1>5 DEF GroupOK

(* The submission of a group is not a replay, so it has launched its job.  *)
LEMMA GroupInserts ==
  ASSUME SubmissionInv, NEW c \in Groups, Insert(c)
  PROVE  pc'[c] \in {"files", "stopped"} /\ UNCHANGED <<jobs, groups>>
<1>1. c \in Clients /\ pc[c] = "insert"
  BY SubmissionAssumption DEF Insert
<1>2. /\ Request(c) = Calls[c][Len(jobs[c]) + 1]
      /\ Len(jobs[c]) \in Nat /\ Len(jobs[c]) < Len(Calls[c]) /\ Calls[c] \in Seq(Requests)
  BY <1>1, UnderwayHasRequest, SubmissionAssumption DEF Underway, SubmissionInv, ClientOK
<1>3. KeyOf[Request(c)] = NoKey
  BY <1>2, GroupAssumption
<1>4. Reserved(Request(c)) = {}
  BY <1>3 DEF Reserved
<1>5. QED
  BY <1>1, <1>4 DEF Insert, Goes, Refuses, SubmissionInv, SubmissionTypeOK

LEMMA GroupStep ==
  ASSUME SubmissionInv, SubmissionInv', Settled, NEW c \in Groups, GroupOK(c),
         ClientStep(c) \/ Dies(c)
  PROVE  GroupOK(c)'
<1>1. /\ c \in Clients /\ SubmissionTypeOK /\ ClientOK(c)
      /\ jobs[c] \in Seq(Jobs) /\ Len(jobs[c]) \in Nat
  BY SubmissionAssumption DEF SubmissionInv, SubmissionTypeOK
<1>2. CASE Begin(c) \/ CheckQueue(c) \/ Files(c) \/ FailSubmission(c) \/ Dies(c)
  <2>1. /\ jobs'[c] = jobs[c] /\ groups'[c] = groups[c]
        /\ pc'[c] \notin {"answer", "build", "group"}
        /\ pc[c] \notin {"build", "stopped"} \/ pc'[c] = "stopped"
    BY <1>1, <1>2 DEF Begin, CheckQueue, Files, FailSubmission, Dies, Goes, Refuses, outside,
                      SubmissionTypeOK
  <2>2. QED
    BY <2>1, GroupWaits
<1>3. CASE Insert(c)
  <2>1. pc[c] = "insert" /\ pc'[c] \in {"files", "stopped"} /\ UNCHANGED <<jobs, groups>>
    BY <1>3, GroupInserts DEF Insert
  <2>2. QED
    BY <2>1, GroupWaits
<1>4. CASE Launch(c)
  <2>1. /\ pc[c] = "launch" /\ UNCHANGED <<jobs, mine, groups, state>>
        /\ \/ pc'[c] = "failing"
           \/ pc'[c] = "answer" /\ launched' = [launched EXCEPT ![mine[c]] = launched[mine[c]] + 1]
    BY <1>1, <1>4 DEF Launch, Goes, rows, store, SubmissionTypeOK
  <2>2. CASE pc'[c] = "failing"
    BY <2>1, <2>2, GroupWaits
  <2>3. CASE pc'[c] = "answer"
    <3>1. mine[c] \in Jobs /\ launched[mine[c]] = 0 /\ launched \in [Jobs -> Nat]
      BY <1>1, <2>1 DEF ClientOK, WithJob, Ahead, SubmissionTypeOK
    <3>2. launched'[mine'[c]] = 1
      BY <2>1, <2>3, <3>1
    <3>3. \A i \in 1..Len(jobs[c]) : launched'[jobs[c][i]] = 1
      BY <1>1 DEF GroupOK, Settled
    <3>4. QED
      BY <2>1, <2>3, <3>2, <3>3 DEF GroupOK
  <2>4. QED
    BY <2>1, <2>2, <2>3
<1>5. CASE Answer(c)
  <2>1. /\ pc[c] = "answer" /\ mine[c] \in Jobs /\ groups[c] = <<>>
        /\ jobs'[c] = Append(jobs[c], mine[c]) /\ UNCHANGED <<state, launched, groups>>
    BY <1>1, <1>5 DEF Answer, rows, store, outside, ClientOK, WithJob, SubmissionTypeOK
  <2>2. /\ pc'[c] = "build" => c \in Builds /\ jobs[c] = <<>>
        /\ pc'[c] = "group" => Len(jobs[c]) + 1 = Len(Calls[c])
        /\ c \in Builds /\ jobs[c] = <<>> => pc'[c] = "build"
        /\ pc'[c] # "answer"
    <3> DEFINE p == CASE c \in Builds /\ jobs[c] = <<>>                   -> "build"
                      [] c \in Groups /\ Len(jobs[c]) + 1 = Len(Calls[c]) -> "group"
                      [] OTHER                                            -> "idle"
    <3>1. pc' = [pc EXCEPT ![c] = p]
      BY <1>5 DEF Answer
    <3>2. /\ p = "build" <=> c \in Builds /\ jobs[c] = <<>>
          /\ p = "group" => Len(jobs[c]) + 1 = Len(Calls[c])
          /\ p # "answer"
      <4>1. ~(c \in Builds /\ jobs[c] = <<>> /\ Len(jobs[c]) + 1 = Len(Calls[c]))
        BY GroupAssumption
      <4>2. CASE c \in Builds /\ jobs[c] = <<>>
        <5>1. p = "build"
          BY <4>1, <4>2
        <5>2. QED
          BY <4>2, <5>1
      <4>3. CASE ~(c \in Builds /\ jobs[c] = <<>>) /\ c \in Groups /\ Len(jobs[c]) + 1 = Len(Calls[c])
        <5>1. p = "group"
          BY <4>3
        <5>2. QED
          BY <4>3, <5>1
      <4>4. CASE ~(c \in Builds /\ jobs[c] = <<>>)
                 /\ ~(c \in Groups /\ Len(jobs[c]) + 1 = Len(Calls[c]))
        <5>1. p = "idle"
          BY <4>4
        <5>2. QED
          BY <4>4, <5>1
      <4>5. QED
        BY <4>2, <4>3, <4>4
    <3> HIDE DEF p
    <3>3. pc'[c] = p
      BY <1>1, <3>1 DEF SubmissionTypeOK
    <3>4. QED
      BY <3>2, <3>3
  <2>3. /\ Len(jobs'[c]) = Len(jobs[c]) + 1 /\ jobs'[c][Len(jobs[c]) + 1] = mine[c]
        /\ \A i \in 1..Len(jobs[c]) : jobs'[c][i] = jobs[c][i]
    BY <1>1, <2>1
  <2>4. \A i \in 1..Len(jobs'[c]) : launched'[jobs'[c][i]] = 1
    <3> SUFFICES ASSUME NEW i \in 1..Len(jobs'[c]) PROVE launched[jobs'[c][i]] = 1
      BY <2>1
    <3>1. i \in 1..Len(jobs[c]) \/ i = Len(jobs[c]) + 1
      BY <1>1, <2>3
    <3>2. QED
      BY <2>1, <2>3, <3>1 DEF GroupOK
  <2>5. c \in Builds => \/ state'[jobs'[c][1]] = "succeeded"
                        \/ Len(jobs'[c]) = 1 /\ pc'[c] = "build"
    <3>1. CASE jobs[c] = <<>>
      BY <2>2, <2>3, <3>1
    <3>2. CASE jobs[c] # <<>>
      <4>1. Len(jobs[c]) > 0 /\ jobs'[c][1] = jobs[c][1]
        BY <1>1, <2>3, <3>2
      <4>2. QED
        BY <2>1, <4>1 DEF GroupOK
    <3>3. QED
      BY <3>1, <3>2
  <2>6. QED
    BY <1>1, <2>1, <2>2, <2>3, <2>4, <2>5 DEF GroupOK
<1>6. CASE BuildEnds(c)
  <2>1. /\ pc[c] = "build" /\ UNCHANGED <<jobs, groups>>
        /\ pc'[c] = "stopped" \/ (pc'[c] = "idle" /\ state[jobs[c][1]] = "succeeded")
    BY <1>1, <1>6 DEF BuildEnds, Goes, outside, SubmissionTypeOK
  <2>2. QED
    BY <2>1, GroupWaits
<1>7. CASE WriteGroup(c)
  <2>1. pc[c] = "group" /\ pc'[c] = "stopped" /\ UNCHANGED jobs
    BY <1>1, <1>7 DEF WriteGroup, Goes, SubmissionTypeOK
  <2>2. QED
    BY <2>1, GroupWaits
<1>8. QED
  BY <1>2, <1>3, <1>4, <1>5, <1>6, <1>7 DEF ClientStep

(* A step that is not the group's own.                                     *)
LEMMA OthersLeaveGroup ==
  ASSUME SubmissionInv, [Next]_vars, NEW c \in Clients, ~(ClientStep(c) \/ Dies(c))
  PROVE  /\ pc'[c] = pc[c] /\ mine'[c] = mine[c]
         /\ jobs'[c] = jobs[c] /\ groups'[c] = groups[c]
<1>1. SubmissionTypeOK
  BY DEF SubmissionInv
<1>2. ASSUME NEW d \in Clients \ {c}, ClientStep(d) \/ Dies(d)
      PROVE  /\ pc'[c] = pc[c] /\ mine'[c] = mine[c]
             /\ jobs'[c] = jobs[c] /\ groups'[c] = groups[c]
  <2>1. CASE Begin(d) \/ CheckQueue(d) \/ Files(d) \/ Launch(d) \/ FailSubmission(d)
    BY <1>1, <2>1 DEF Begin, CheckQueue, Files, Launch, FailSubmission, Goes, Refuses, outside,
                      SubmissionTypeOK
  <2>2. CASE Insert(d)
    BY <1>1, <2>2 DEF Insert, Goes, Refuses, SubmissionTypeOK
  <2>3. CASE Answer(d) \/ BuildEnds(d) \/ WriteGroup(d) \/ Dies(d)
    BY <1>1, <2>3 DEF Answer, BuildEnds, WriteGroup, Dies, Goes, outside, SubmissionTypeOK
  <2>4. QED
    BY <1>2, <2>1, <2>2, <2>3 DEF ClientStep
<1>3. CASE UNCHANGED vars
  BY <1>3 DEF vars, caller, outside
<1>4. CASE (\E q \in Queues : QueueCreated(q)) \/ (\E j \in Jobs : Proceeds(j))
  BY <1>4 DEF QueueCreated, Proceeds, caller, outside
<1>5. QED
  BY <1>2, <1>3, <1>4 DEF Next

LEMMA GroupInvStep == SubmissionInv /\ SubmissionInv' /\ GroupInv /\ [Next]_vars => GroupInv'
<1> SUFFICES ASSUME SubmissionInv, SubmissionInv', GroupInv, [Next]_vars, NEW c \in Groups
             PROVE  GroupOK(c)'
  BY DEF GroupInv
<1>1. Settled /\ GroupOK(c) /\ c \in Clients
  BY StepSettles, SubmissionAssumption DEF GroupInv
<1>2. CASE ClientStep(c) \/ Dies(c)
  BY <1>1, <1>2, GroupStep
<1>3. CASE ~(ClientStep(c) \/ Dies(c))
  <2>1. /\ pc'[c] = pc[c] /\ mine'[c] = mine[c]
        /\ jobs'[c] = jobs[c] /\ groups'[c] = groups[c]
    BY <1>1, <1>3, OthersLeaveGroup
  <2>2. QED
    BY <1>1, <2>1, GroupWaits
<1>4. QED
  BY <1>2, <1>3

LEMMA GroupInvInit == Init => GroupInv
BY SubmissionAssumption DEF Init, GroupInv, GroupOK

(* No job of a group is submitted before its build has succeeded, and a    *)
(* group that was written down is complete, each of its jobs handed to its *)
(* backend: whatever died, failed or was retried beside it.                *)
THEOREM SubmissionGroupIsWhole == Spec => []GroupIsWhole
<1>1. SubmissionInv /\ GroupInv => GroupIsWhole
  <2> SUFFICES ASSUME SubmissionInv, NEW c \in Groups, GroupOK(c)
               PROVE  /\ c \in Builds /\ Len(jobs[c]) > 1 => state[jobs[c][1]] = "succeeded"
                      /\ groups[c] # <<>> => /\ Len(groups[c]) = Len(Calls[c])
                                             /\ \A i \in DOMAIN groups[c] : launched[groups[c][i]] = 1
    BY DEF GroupInv, GroupIsWhole
  <2>1. c \in Clients /\ jobs[c] \in Seq(Jobs) /\ groups[c] \in {<<>>, jobs[c]}
    BY SubmissionAssumption DEF SubmissionInv, SubmissionTypeOK
  <2>2. Len(jobs[c]) \in Nat /\ DOMAIN jobs[c] = 1..Len(jobs[c])
    BY <2>1
  <2>3. QED
    BY <2>1, <2>2 DEF GroupOK
<1>2. Spec => []SubmissionInv
  BY SubmissionInvariant
<1>3. QED
  BY <1>1, <1>2, GroupInvInit, GroupInvStep, PTL DEF Spec
=============================================================================
