----------------------------- MODULE SlurmProofs -----------------------------
(***************************************************************************)
(* What the rows of Slurm jobs say of their end, for any number of jobs,   *)
(* clients and faults.                                                     *)
(*                                                                         *)
(* The argument: what Slurm did with a job is final once it is over, and   *)
(* a client carries a final state in its hands only after it has seen the  *)
(* job over, in squeue's silence, in the accounting or in the success of   *)
(* scancel.  However long it then takes to write it, it stays true.        *)
(***************************************************************************)
EXTENDS SlurmBackend, TLAPS

-----------------------------------------------------------------------------
(* The inductive invariant. *)

\* Slurm did with job j what state s says of its end.
Agrees(j, s) ==
  /\ s = "succeeded" => sched[j] = <<"COMPLETED", 0>>
  /\ s = "timed_out" => Name(j) = "TIMEOUT" \/ (sched[j][2] = 124 /\ j \in LimitedJobs)
  /\ s = "failed"    => Name(j) \in Failures \cup {"COMPLETED"} /\ sched[j] # <<"COMPLETED", 0>>
  /\ s = "cancelled" => Over(j)

\* Until sbatch Slurm has nothing of the job, and only a submission that went
\* through has recorded the scheduler id.
SubmissionOK(j) ==
  /\ state[j] = "absent" <=> sub[j] = "absent"
  /\ sub[j] \in {"absent", "mkdir", "sbatch"} => sched[j] = None
  /\ sub[j] = "record" => sched[j] # None
  /\ j \in known => sub[j] = "done"
  /\ sub[j] = "done" /\ state[j] \in Active => j \in known

RowAgrees(j) ==
  /\ state[j] # "failed" => Agrees(j, state[j])
  /\ j \in known => Agrees(j, state[j])

\* What a client is about to write is true.
ClientOK(c) ==
  /\ pc[c] # "idle" => target[c] \in Jobs
  /\ pc[c] \in {"squeue", "sacct", "apply", "stall", "scancel"} => target[c] \in known
  /\ pc[c] = "sacct" => Over(target[c])
  /\ pc[c] = "apply" => /\ Agrees(target[c], answer[c])
                        /\ answer[c] = "lost" => Over(target[c])
  /\ pc[c] = "scancel" => answer[c] = "cancelled"
  /\ pc[c] = "settle" => /\ answer[c] \in {"cancelled", "lost"}
                         /\ answer[c] = "cancelled" => Over(target[c])

SlurmInv ==
  /\ SlurmTypeOK
  /\ \A j \in Jobs : SubmissionOK(j)
  /\ \A j \in Jobs : RowAgrees(j)
  /\ \A c \in Clients : ClientOK(c)

-----------------------------------------------------------------------------
(* States of jobs in Slurm. *)

SchedStates == {None} \cup ((Pending \cup Running) \X {0}) \cup Ends \cup {<<"CANCELLED", 0>>}

LEMMA SchedCases ==
  ASSUME NEW s \in SchedStates
  PROVE  /\ s = None \/ s[1] \in Pending \cup Running \/ s[1] \in EndNames
         /\ s[1] \in EndNames => s # None /\ s[1] \notin Pending \cup Running
         /\ s[1] \in Pending \cup Running => s # None
         /\ s = <<s[1], s[2]>>
BY SlurmAssumption DEF SchedStates, None, EndNames, Failures, Pending, Running

LEMMA JobSched ==
  ASSUME SlurmTypeOK, NEW j \in Jobs
  PROVE  /\ sched[j] \in SchedStates
         /\ sched[j] = None \/ Live(j) \/ Over(j)
         /\ Over(j) => sched[j] # None /\ ~Live(j)
         /\ Live(j) => sched[j] # None
         /\ sched[j] = <<Name(j), sched[j][2]>>
<1>1. sched[j] \in SchedStates
  BY DEF SlurmTypeOK, SchedStates
<1>2. QED
  BY <1>1, SchedCases DEF Live, Over, Name

-----------------------------------------------------------------------------
(* What is final stays true. *)

\* What Slurm did with a job that is over does not change, and a scheduler id
\* is never forgotten.
Stable ==
  /\ known \subseteq known'
  /\ \A j \in Jobs : Over(j) => sched'[j] = sched[j]

LEMMA AgreesKept ==
  ASSUME SlurmTypeOK, Stable, NEW j \in Jobs, NEW s, Agrees(j, s)
  PROVE  Agrees(j, s)'
<1>1. Over(j) => sched'[j] = sched[j]
  BY DEF Stable
<1>2. Name(j) \in Failures \cup {"COMPLETED", "TIMEOUT"} => Over(j)
  BY DEF Over, EndNames
<1>3. sched[j] = <<"COMPLETED", 0>> => Name(j) = "COMPLETED"
  BY DEF Name
<1>4. sched[j][2] = 124 => Over(j)
  <2>1. sched[j] \in SchedStates
    BY JobSched
  <2>2. \A s1 \in SchedStates : s1[2] = 124 => s1[1] \in EndNames
    BY SlurmAssumption DEF SchedStates, None, EndNames, Failures, Pending, Running
  <2>3. QED
    BY <2>1, <2>2 DEF Over, Name
<1>5. QED
  BY <1>1, <1>2, <1>3, <1>4 DEF Agrees, Name, Over

LEMMA OverKept ==
  ASSUME Stable, NEW j \in Jobs, Over(j)
  PROVE  Over(j)'
BY DEF Stable, Over, Name

LEMMA ClientKept ==
  ASSUME SlurmInv, Stable, NEW c \in Clients,
         pc'[c] = pc[c], target'[c] = target[c], answer'[c] = answer[c]
  PROVE  ClientOK(c)'
<1>1. ClientOK(c) /\ SlurmTypeOK
  BY DEF SlurmInv
<1>2. PICK t : t = target[c]
  OBVIOUS
<1>3. PICK a : a = answer[c]
  OBVIOUS
<1>4. t \in Jobs /\ Over(t) => Over(t)'
  BY OverKept
<1>5. t \in Jobs /\ Agrees(t, a) => Agrees(t, a)'
  BY <1>1, AgreesKept
<1>6. target'[c] = t /\ answer'[c] = a
  BY <1>2, <1>3
<1>7. QED
  BY <1>1, <1>2, <1>3, <1>4, <1>5, <1>6 DEF ClientOK, Stable

\* A row that a step leaves alone, or writes as something that is true.
RowKept(j) ==
  \/ state'[j] = state[j] /\ (j \in known' => j \in known)
  \/ state'[j] \in Active
  \/ \E s : state'[j] = s /\ Agrees(j, s)'
  \/ state'[j] = "failed" /\ j \notin known'

LEMMA RowsKept ==
  ASSUME SlurmInv, Stable, NEW j \in Jobs, RowKept(j)
  PROVE  RowAgrees(j)'
<1>1. RowAgrees(j) /\ SlurmTypeOK
  BY DEF SlurmInv
<1>2. CASE state'[j] = state[j] /\ (j \in known' => j \in known)
  BY <1>1, <1>2, AgreesKept DEF RowAgrees, Agrees
<1>3. CASE state'[j] \in Active
  BY <1>3 DEF RowAgrees, Agrees, Active
<1>4. CASE \E s : state'[j] = s /\ Agrees(j, s)'
  BY <1>4 DEF RowAgrees, Agrees
<1>5. CASE state'[j] = "failed" /\ j \notin known'
  BY <1>5 DEF RowAgrees
<1>6. QED
  BY <1>2, <1>3, <1>4, <1>5 DEF RowKept

SameLocals(c) == pc'[c] = pc[c] /\ target'[c] = target[c] /\ answer'[c] = answer[c]

\* A step that leaves the submission of job j where it is.
SubmissionKept(j) ==
  /\ sub'[j] = sub[j]
  /\ j \in known' <=> j \in known
  /\ sched'[j] = sched[j] \/ (sched[j] # None /\ sched'[j] # None)
  /\ state'[j] = state[j] \/ (state[j] \in Active /\ state'[j] # "absent")

LEMMA InvStep ==
  ASSUME SlurmInv, SlurmTypeOK', Stable,
         \A j \in Jobs : RowKept(j) /\ (SubmissionKept(j) \/ SubmissionOK(j)'),
         \A c \in Clients : SameLocals(c) \/ ClientOK(c)'
  PROVE  SlurmInv'
<1>1. ASSUME NEW j \in Jobs PROVE SubmissionOK(j)'
  <2>1. SubmissionOK(j)
    BY DEF SlurmInv
  <2>2. ASSUME SubmissionKept(j) PROVE SubmissionOK(j)'
    BY <2>1, <2>2 DEF SubmissionOK, SubmissionKept, Active
  <2>3. QED
    BY <2>2
<1>2. ASSUME NEW c \in Clients PROVE ClientOK(c)'
  BY ClientKept DEF SameLocals
<1>3. QED
  BY <1>1, <1>2, RowsKept DEF SlurmInv

\* What Store.update_if_active does to the rows.
LEMMA Written ==
  ASSUME SlurmTypeOK, NEW j \in Jobs, NEW s \in Active \cup Terminal, UpdateIfActive(j, s)
  PROVE  /\ state' \in [Jobs -> {"absent"} \cup Active \cup Terminal]
         /\ age' \in [Jobs -> 0..Grace]
         /\ \A i \in Jobs \ {j} : state'[i] = state[i]
         /\ state'[j] = IF state[j] \in Active THEN s ELSE state[j]
         /\ s # "absent"
<1>1. state \in [Jobs -> {"absent"} \cup Active \cup Terminal] /\ age \in [Jobs -> 0..Grace]
  BY DEF SlurmTypeOK
<1>2. 0 \in 0..Grace
  BY SlurmAssumption
<1>3. s # "absent"
  BY DEF Active, Terminal
<1>4. CASE state[j] \in Active
  BY <1>1, <1>2, <1>3, <1>4 DEF UpdateIfActive
<1>5. CASE state[j] \notin Active
  BY <1>1, <1>3, <1>5 DEF UpdateIfActive
<1>6. QED
  BY <1>4, <1>5

-----------------------------------------------------------------------------
(* The scheduler, its accounting, and the clock. *)

LEMMA SchedulesKeeps ==
  ASSUME SlurmInv, NEW j \in Jobs, NEW from \in {Pending, Running},
         NEW to \in SchedStates \ {None}, Schedules(j, from, to),
         faults' \in 0..MaxFaults
  PROVE  SlurmInv'
<1>1. SlurmTypeOK /\ sched \in [Jobs -> SchedStates]
  BY DEF SlurmInv, SlurmTypeOK, SchedStates
<1>2. sched[j] # None /\ ~Over(j)
  BY <1>1, JobSched DEF Schedules, Live, Name, Over, Pending, Running, EndNames, Failures
<1>3. sched' = [sched EXCEPT ![j] = to] /\ UNCHANGED <<rows, sub, books, clients>>
  BY DEF Schedules
<1>4. sched' \in [Jobs -> SchedStates] /\ \A i \in Jobs : i # j => sched'[i] = sched[i]
  BY <1>1, <1>3
<1>5. Stable
  BY <1>1, <1>2, <1>3, <1>4 DEF Stable, rows
<1>6. SlurmTypeOK'
  <2>1. \A i \in Jobs : books[i] = "ended" => Over(i)'
    BY <1>1, <1>5, OverKept DEF SlurmTypeOK
  <2>2. known \subseteq {i \in Jobs : sched'[i] # None}
    BY <1>1, <1>2, <1>3, <1>4 DEF SlurmTypeOK
  <2>3. QED
    BY <1>1, <1>3, <1>4, <2>1, <2>2 DEF SlurmTypeOK, rows, clients, SchedStates
<1>7. QED
  BY <1>1, <1>2, <1>3, <1>5, <1>6, InvStep
     DEF rows, clients, SameLocals, RowKept, SubmissionKept

LEMMA SchedulerKeeps ==
  ASSUME SlurmInv, NEW j \in Jobs,
         \/ Starts(j) \/ Requeues(j) \/ OperatorCancels(j)
         \/ \E end \in Ends : JobEnds(j, end)
  PROVE  SlurmInv'
<1>1. faults' \in 0..MaxFaults
  BY SlurmAssumption
     DEF Starts, Requeues, OperatorCancels, JobEnds, Fault, SlurmInv, SlurmTypeOK
<1>2. /\ <<"RUNNING", 0>> \in SchedStates \ {None} /\ <<"REQUEUED", 0>> \in SchedStates \ {None}
      /\ <<"CANCELLED", 0>> \in SchedStates \ {None}
  BY DEF SchedStates, None, Pending, Running
<1>3. Ends \subseteq SchedStates \ {None}
  BY SlurmAssumption DEF SchedStates, None, EndNames, Failures
<1>4. QED
  BY <1>1, <1>2, <1>3, SchedulesKeeps DEF Starts, Requeues, OperatorCancels, JobEnds

LEMMA BooksKeeps ==
  ASSUME SlurmInv, NEW j \in Jobs, Books(j)
  PROVE  SlurmInv'
<1>1. SlurmTypeOK /\ UNCHANGED <<rows, sub, sched, clients, faults>>
  BY DEF SlurmInv, Books
<1>2. \A i \in Jobs : books'[i] = "ended" => Over(i)
  BY <1>1 DEF Books, SlurmTypeOK
<1>3. SlurmTypeOK'
  BY <1>1, <1>2 DEF SlurmTypeOK, Books, rows, clients, Over, Name
<1>4. QED
  BY <1>1, <1>3, InvStep DEF rows, clients, Stable, SameLocals, RowKept, SubmissionKept

LEMMA OlderAge == ASSUME NEW a \in 0..Grace PROVE Older(a) \in 0..Grace
BY SlurmAssumption DEF Older

LEMMA TickKeeps ==
  ASSUME SlurmInv, Tick
  PROVE  SlurmInv'
<1>1. SlurmTypeOK /\ UNCHANGED <<state, known, sub, scheduler, pc, target, answer, faults>>
  BY DEF SlurmInv, Tick
<1>2. age' \in [Jobs -> 0..Grace] /\ seenAge' \in [Clients -> 0..Grace]
  BY <1>1, OlderAge DEF Tick, SlurmTypeOK
<1>3. SlurmTypeOK'
  BY <1>1, <1>2 DEF SlurmTypeOK, scheduler, Over, Name
<1>4. QED
  BY <1>1, <1>3, InvStep DEF scheduler, Stable, SameLocals, RowKept, SubmissionKept

-----------------------------------------------------------------------------
(* Submissions.                                                            *)

LEMMA SubmitKeeps ==
  ASSUME SlurmInv, NEW j \in Jobs,
         \/ Reserve(j) \/ MakeDirectory(j) \/ Sbatch(j) \/ Record(j)
         \/ SubmitFails(j) \/ SubmitDies(j)
  PROVE  SlurmInv'
<1>1. SlurmTypeOK /\ SubmissionOK(j)
  BY DEF SlurmInv
<1>2. faults' \in 0..MaxFaults
  BY <1>1, SlurmAssumption
     DEF Reserve, MakeDirectory, Sbatch, Record, SubmitFails, SubmitDies, Fault, SlurmTypeOK
<1>3. UNCHANGED clients /\ \A c \in Clients : SameLocals(c)
  BY DEF Reserve, MakeDirectory, Sbatch, Record, SubmitFails, SubmitDies, SubmitGoes, clients,
         SameLocals
<1>4. CASE Reserve(j)
  <2>1. /\ sub' = [sub EXCEPT ![j] = "mkdir"] /\ state' = [state EXCEPT ![j] = "starting"]
        /\ UNCHANGED <<known, age, scheduler, clients>> /\ sub[j] = "absent"
    BY <1>4 DEF Reserve
  <2>2. "starting" \in Active
    BY DEF Active
  <2>3. SlurmTypeOK'
    BY <1>1, <1>2, <2>1, <2>2 DEF SlurmTypeOK, scheduler, clients, Over, Name
  <2>4. ASSUME NEW i \in Jobs PROVE RowKept(i) /\ (SubmissionKept(i) \/ SubmissionOK(i)')
    BY <1>1, <2>1, <2>2 DEF SlurmTypeOK, scheduler, RowKept, SubmissionKept, SubmissionOK
  <2>5. QED
    BY <1>3, <2>1, <2>3, <2>4, InvStep DEF Stable, scheduler
<1>5. CASE MakeDirectory(j) \/ SubmitDies(j)
  <2>1. UNCHANGED <<rows, scheduler, clients>>
    BY <1>5 DEF MakeDirectory, SubmitDies, SubmitGoes
  <2>2. PICK to \in {"sbatch", "failing", "dead"} :
          /\ sub' = [sub EXCEPT ![j] = to]
          /\ sub[j] = "mkdir" \/ (to = "dead" /\ sub[j] \in {"mkdir", "sbatch", "record", "failing"})
    BY <1>5 DEF MakeDirectory, SubmitDies, SubmitGoes
  <2>3. SlurmTypeOK'
    BY <1>1, <1>2, <2>1, <2>2 DEF SlurmTypeOK, rows, scheduler, clients, Over, Name
  <2>4. ASSUME NEW i \in Jobs PROVE RowKept(i) /\ (SubmissionKept(i) \/ SubmissionOK(i)')
    BY <1>1, <2>1, <2>2
       DEF SlurmTypeOK, rows, scheduler, RowKept, SubmissionKept, SubmissionOK
  <2>5. QED
    BY <1>3, <2>1, <2>3, <2>4, InvStep DEF Stable, rows, scheduler
<1>6. CASE Sbatch(j)
  <2>1. UNCHANGED <<rows, books, clients>> /\ sub[j] = "sbatch"
    BY <1>6 DEF Sbatch, SubmitGoes, scheduler
  <2>2. PICK to \in {"record", "failing"} :
          /\ sub' = [sub EXCEPT ![j] = to]
          /\ \/ sched' = [sched EXCEPT ![j] = <<"PENDING", 0>>]
             \/ sched' = sched /\ to = "failing"
    BY <1>6 DEF Sbatch, SubmitGoes, scheduler
  <2>3. <<"PENDING", 0>> \in SchedStates \ {None} /\ sched \in [Jobs -> SchedStates]
    BY <1>1 DEF SchedStates, None, Pending, SlurmTypeOK
  <2>4. sched[j] = None /\ j \notin known /\ ~Over(j)
    BY <1>1, <2>1, JobSched DEF SubmissionOK
  <2>5. sched' \in [Jobs -> SchedStates] /\ \A i \in Jobs : i # j => sched'[i] = sched[i]
    BY <2>2, <2>3
  <2>6. Stable
    BY <2>1, <2>4, <2>5 DEF Stable, rows
  <2>7. SlurmTypeOK'
    <3>1. \A i \in Jobs : books[i] = "ended" => Over(i)'
      BY <1>1, <2>6, OverKept DEF SlurmTypeOK
    <3>2. known \subseteq {i \in Jobs : sched'[i] # None}
      BY <1>1, <2>4, <2>5 DEF SlurmTypeOK
    <3>3. QED
      BY <1>1, <1>2, <2>1, <2>2, <2>5, <3>1, <3>2
         DEF SlurmTypeOK, rows, clients, SchedStates
  <2>8. ASSUME NEW i \in Jobs PROVE RowKept(i) /\ (SubmissionKept(i) \/ SubmissionOK(i)')
    BY <1>1, <2>1, <2>2, <2>3, <2>4, <2>5
       DEF SlurmTypeOK, rows, RowKept, SubmissionKept, SubmissionOK
  <2>9. QED
    BY <1>3, <2>6, <2>7, <2>8, InvStep
<1>7. CASE Record(j)
  <2>1. /\ UpdateIfActive(j, "queued") /\ UNCHANGED <<scheduler, clients>> /\ sub[j] = "record"
        /\ sub' = [sub EXCEPT ![j] = "done"]
        /\ known' = IF state[j] \in Active THEN known \cup {j} ELSE known
    BY <1>7 DEF Record, SubmitGoes
  <2>2. "queued" \in Active
    BY DEF Active
  <2>3. /\ state' \in [Jobs -> {"absent"} \cup Active \cup Terminal]
        /\ age' \in [Jobs -> 0..Grace]
        /\ \A i \in Jobs \ {j} : state'[i] = state[i]
        /\ state'[j] = IF state[j] \in Active THEN "queued" ELSE state[j]
    BY <1>1, <2>1, <2>2, Written
  <2>4. sched[j] # None /\ sub[j] # "absent" /\ j \notin known
    BY <1>1, <2>1 DEF SubmissionOK
  <2>5. SlurmTypeOK'
    BY <1>1, <1>2, <2>1, <2>3, <2>4 DEF SlurmTypeOK, scheduler, clients, Over, Name
  <2>6. ASSUME NEW i \in Jobs PROVE RowKept(i) /\ (SubmissionKept(i) \/ SubmissionOK(i)')
    BY <1>1, <2>1, <2>2, <2>3, <2>4
       DEF SlurmTypeOK, scheduler, RowKept, SubmissionKept, SubmissionOK, Active
  <2>7. QED
    BY <1>3, <2>1, <2>5, <2>6, InvStep DEF Stable, scheduler
<1>8. CASE SubmitFails(j)
  <2>1. /\ UpdateIfActive(j, "failed") /\ UNCHANGED <<known, scheduler, clients>>
        /\ sub[j] = "failing" /\ sub' = [sub EXCEPT ![j] = "done"]
    BY <1>8 DEF SubmitFails, SubmitGoes
  <2>2. "failed" \in Terminal /\ "failed" \notin Active
    BY DEF Active, Terminal
  <2>3. /\ state' \in [Jobs -> {"absent"} \cup Active \cup Terminal]
        /\ age' \in [Jobs -> 0..Grace]
        /\ \A i \in Jobs \ {j} : state'[i] = state[i]
        /\ state'[j] = IF state[j] \in Active THEN "failed" ELSE state[j]
    BY <1>1, <2>1, <2>2, Written
  <2>4. sub[j] # "absent" /\ j \notin known
    BY <1>1, <2>1 DEF SubmissionOK
  <2>5. SlurmTypeOK'
    BY <1>1, <1>2, <2>1, <2>3 DEF SlurmTypeOK, scheduler, clients, Over, Name
  <2>6. ASSUME NEW i \in Jobs PROVE RowKept(i) /\ (SubmissionKept(i) \/ SubmissionOK(i)')
    BY <1>1, <2>1, <2>2, <2>3, <2>4
       DEF SlurmTypeOK, scheduler, RowKept, SubmissionKept, SubmissionOK
  <2>7. QED
    BY <1>3, <2>1, <2>5, <2>6, InvStep DEF Stable, scheduler
<1>9. QED
  BY <1>4, <1>5, <1>6, <1>7, <1>8

-----------------------------------------------------------------------------
(* Clients.                                                                *)

\* What the step of a client leaves alone, unless it is scancel.
Asking(c) ==
  /\ UNCHANGED <<known, sub, scheduler>>
  /\ \A d \in Clients \ {c} : SameLocals(d)

ClientTypes ==
  /\ pc \in [Clients -> {"idle", "squeue", "sacct", "apply", "stall", "logs", "scancel", "settle"}]
  /\ target \in [Clients -> Jobs \cup {NoJob}]
  /\ seenAge \in [Clients -> 0..Grace]
  /\ answer \in [Clients -> {"nothing"} \cup Active \cup Terminal]

LEMMA AskingKeeps ==
  ASSUME SlurmInv, NEW c \in Clients, Asking(c), ClientOK(c)', ClientTypes',
         \/ /\ UNCHANGED state
            /\ age' \in [Jobs -> 0..Grace]
         \/ \E s \in Active \cup Terminal :
              /\ UpdateIfActive(target[c], s)
              /\ target[c] \in Jobs
              /\ s \in Active \/ Agrees(target[c], s)
         ,
         UNCHANGED faults \/ \E kind : Fault(kind)
  PROVE  SlurmInv'
<1>1. SlurmTypeOK /\ UNCHANGED <<known, sub, scheduler>>
  BY DEF SlurmInv, Asking
<1>2. faults' \in 0..MaxFaults
  BY <1>1, SlurmAssumption DEF Fault, SlurmTypeOK
<1>3. Stable
  BY <1>1 DEF Stable, scheduler
<1>4. ASSUME state' \in [Jobs -> {"absent"} \cup Active \cup Terminal], age' \in [Jobs -> 0..Grace]
      PROVE  SlurmTypeOK'
  BY <1>1, <1>2, <1>4 DEF SlurmTypeOK, ClientTypes, scheduler, Over, Name
<1>5. CASE UNCHANGED state /\ age' \in [Jobs -> 0..Grace]
  <2>1. SlurmTypeOK'
    BY <1>1, <1>4, <1>5 DEF SlurmTypeOK
  <2>2. QED
    BY <1>1, <1>3, <1>5, <2>1, InvStep DEF Asking, RowKept, SubmissionKept, scheduler
<1>6. ASSUME NEW j \in Jobs, NEW s \in Active \cup Terminal, UpdateIfActive(j, s),
             s \in Active \/ Agrees(j, s)
      PROVE  SlurmInv'
  <2>1. /\ state' \in [Jobs -> {"absent"} \cup Active \cup Terminal]
        /\ age' \in [Jobs -> 0..Grace]
        /\ \A i \in Jobs \ {j} : state'[i] = state[i]
        /\ state'[j] = IF state[j] \in Active THEN s ELSE state[j]
        /\ s # "absent"
    BY <1>1, <1>6, Written
  <2>2. SlurmTypeOK'
    BY <1>4, <2>1
  <2>3. Agrees(j, s) => Agrees(j, s)'
    BY <1>1, <1>3, AgreesKept
  <2>4. ASSUME NEW i \in Jobs PROVE RowKept(i) /\ SubmissionKept(i)
    BY <1>1, <1>6, <2>1, <2>3 DEF RowKept, SubmissionKept, scheduler
  <2>5. QED
    BY <1>3, <2>2, <2>4, InvStep DEF Asking
<1>7. QED
  BY <1>5, <1>6

LEMMA GoesMoves ==
  ASSUME SlurmInv, NEW c \in Clients, NEW from, NEW to \in {"idle", "sacct", "apply", "stall", "logs"},
         Goes(c, from, to)
  PROVE  /\ pc' \in [Clients -> {"idle", "squeue", "sacct", "apply", "stall", "logs", "scancel", "settle"}]
         /\ target' \in [Clients -> Jobs \cup {NoJob}]
         /\ seenAge' \in [Clients -> 0..Grace]
         /\ pc'[c] = to /\ (to # "idle" => target'[c] = target[c])
         /\ \A d \in Clients \ {c} : pc'[d] = pc[d] /\ target'[d] = target[d]
         /\ UNCHANGED <<sub, scheduler>> /\ pc[c] = from
<1>1. 0 \in 0..Grace
  BY SlurmAssumption
<1>2. SlurmTypeOK
  BY DEF SlurmInv
<1>3. CASE to = "idle"
  BY <1>1, <1>2, <1>3 DEF Goes, SlurmTypeOK
<1>4. CASE to # "idle"
  BY <1>1, <1>2, <1>4 DEF Goes, SlurmTypeOK
<1>5. QED
  BY <1>3, <1>4

\* What Slurm says of a job, as the code reads it.
LEMMA MappedAgrees ==
  ASSUME SlurmInv, NEW j \in Jobs, Over(j)
  PROVE  /\ Mapped(j, Name(j), sched[j][2]) \in {"nothing"} \cup (Terminal \ {"lost"})
         /\ Agrees(j, Mapped(j, Name(j), sched[j][2]))
<1>1. sched[j] = <<Name(j), sched[j][2]>> /\ Name(j) \in EndNames
  BY JobSched DEF SlurmInv, Over
<1>2. sched[j] = <<"COMPLETED", 0>> <=> Name(j) = "COMPLETED" /\ sched[j][2] = 0
  BY <1>1
<1>3. QED
  BY <1>1, <1>2 DEF Mapped, Agrees, Over, EndNames, Failures, Pending, Running, Terminal

LEMMA MappedLive ==
  ASSUME NEW j \in Jobs, Live(j)
  PROVE  Mapped(j, Name(j), 0) \in {"queued", "running"}
BY DEF Mapped, Live, Pending, Running, Failures

LEMMA AskedKeeps ==
  ASSUME SlurmInv, NEW c \in Clients, Squeue(c) \/ Sacct(c)
  PROVE  SlurmInv'
<1>1. ClientOK(c) /\ SlurmTypeOK
  BY DEF SlurmInv
<1>2. PICK j : j = target[c]
  OBVIOUS
<1>3. j \in Jobs /\ j \in known /\ (Live(j) \/ Over(j))
  <2>1. pc[c] \in {"squeue", "sacct"}
    BY DEF Squeue, Sacct
  <2>2. QED
    BY <1>1, <1>2, <2>1, JobSched DEF ClientOK, SlurmTypeOK
<1>4. ASSUME NEW from, NEW to \in {"sacct", "apply"},
             NEW a \in {"nothing"} \cup Active \cup Terminal, Asked(c, from, to, a),
             to = "sacct" => Over(j),
             Agrees(j, a), a = "lost" => Over(j)
      PROVE  SlurmInv'
  <2>1. /\ Goes(c, from, to) /\ answer' = [answer EXCEPT ![c] = a]
        /\ UNCHANGED <<state, known, age, faults, sub, scheduler>>
    BY <1>4 DEF Asked, rows, Goes
  <2>2. /\ ClientTypes' /\ Asking(c)
        /\ pc'[c] = to /\ target'[c] = j /\ answer'[c] = a
    BY <1>1, <1>2, <1>4, <2>1, GoesMoves DEF ClientTypes, SlurmTypeOK, Asking, SameLocals
  <2>3. (Over(j) => Over(j)') /\ Agrees(j, a)'
    BY <1>4, <2>1 DEF Over, Name, Agrees, scheduler
  <2>4. ClientOK(c)'
    BY <1>3, <1>4, <2>1, <2>2, <2>3 DEF ClientOK
  <2>5. QED
    BY <1>1, <2>1, <2>2, <2>4, AskingKeeps DEF SlurmTypeOK
<1>5. Agrees(j, "nothing") /\ Agrees(j, "running") /\ Agrees(j, "queued") /\ Agrees(j, "lost")
  BY DEF Agrees
<1>6. CASE Squeue(c)
  <2>1. CASE Live(j)
    <3>1. PICK a \in {"queued", "running"} : Asked(c, "squeue", "apply", a)
      BY <1>2, <1>3, <1>6, <2>1, MappedLive DEF Squeue
    <3>2. QED
      BY <1>4, <1>5, <3>1 DEF Active
  <2>2. CASE ~Live(j)
    <3>1. Asked(c, "squeue", "sacct", "nothing") /\ Over(j)
      BY <1>2, <1>3, <1>6, <2>2 DEF Squeue
    <3>2. QED
      BY <1>4, <1>5, <3>1
  <2>3. QED
    BY <2>1, <2>2
<1>7. CASE Sacct(c)
  <2>1. Over(j)
    BY <1>1, <1>2, <1>7 DEF Sacct, ClientOK
  <2>2. PICK a : /\ Asked(c, "sacct", "apply", a)
                 /\ a \in {"running", "lost", "nothing"} \/ a = Mapped(j, Name(j), sched[j][2])
    BY <1>2, <1>7 DEF Sacct
  <2>3. a \in {"nothing"} \cup Active \cup Terminal /\ Agrees(j, a)
    BY <1>3, <1>5, <2>1, <2>2, MappedAgrees DEF Active, Terminal
  <2>4. QED
    BY <1>4, <2>1, <2>2, <2>3
<1>8. QED
  BY <1>6, <1>7

LEMMA ApplyKeeps ==
  ASSUME SlurmInv, NEW c \in Clients, Apply(c)
  PROVE  SlurmInv'
<1>1. ClientOK(c) /\ SlurmTypeOK /\ pc[c] = "apply"
  BY DEF SlurmInv, Apply
<1>2. PICK j : j = target[c]
  OBVIOUS
<1>3. j \in Jobs /\ j \in known /\ Agrees(j, answer[c])
  BY <1>1, <1>2 DEF ClientOK
<1>4. PICK to \in {"stall", "logs"} : Goes(c, "apply", to)
  BY DEF Apply
<1>5. answer' = [answer EXCEPT ![c] = "nothing"] /\ UNCHANGED <<known, sub, scheduler, faults>>
  BY <1>4 DEF Apply, Goes
<1>6. ClientTypes' /\ Asking(c) /\ pc'[c] = to /\ target'[c] = j
  BY <1>1, <1>2, <1>4, <1>5, GoesMoves DEF ClientTypes, SlurmTypeOK, Asking, SameLocals
<1>7. ClientOK(c)'
  BY <1>3, <1>5, <1>6 DEF ClientOK
<1>8. CASE answer[c] = "nothing"
  BY <1>1, <1>5, <1>6, <1>7, <1>8, AskingKeeps DEF Apply, SlurmTypeOK
<1>9. CASE answer[c] # "nothing"
  <2>1. UpdateIfActive(target[c], answer[c]) /\ answer[c] \in Active \cup Terminal
    BY <1>1, <1>9 DEF Apply, SlurmTypeOK
  <2>2. QED
    BY <1>2, <1>3, <1>5, <1>6, <1>7, <2>1, AskingKeeps
<1>10. QED
  BY <1>8, <1>9

LEMMA AfterKeeps ==
  ASSUME SlurmInv, NEW c \in Clients, Stall(c) \/ ReadLogs(c) \/ Unanswered(c)
  PROVE  SlurmInv'
<1>1. ClientOK(c) /\ SlurmTypeOK
  BY DEF SlurmInv
<1>2. PICK from, to : /\ Goes(c, from, to) /\ to \in {"logs", "idle"}
                      /\ from = "stall" \/ to = "idle"
  BY DEF Stall, ReadLogs, Unanswered
<1>3. UNCHANGED <<known, sub, scheduler, answer>>
  BY <1>2 DEF Stall, ReadLogs, Unanswered, Goes, rows
<1>4. UNCHANGED faults \/ \E kind : Fault(kind)
  BY DEF Stall, ReadLogs, Unanswered
<1>5. /\ ClientTypes' /\ Asking(c) /\ pc'[c] = to /\ (to # "idle" => target'[c] = target[c])
      /\ pc[c] = from
  BY <1>1, <1>2, <1>3, GoesMoves DEF ClientTypes, SlurmTypeOK, Asking, SameLocals
<1>6. ClientOK(c)'
  BY <1>1, <1>2, <1>5 DEF ClientOK
<1>7. CASE Stall(c)
  <2>1. target[c] \in Jobs
    BY <1>1, <1>7 DEF Stall, Goes, ClientOK
  <2>2. \/ UNCHANGED <<state, age>>
        \/ \E s \in Active \cup Terminal : s \in Active /\ UpdateIfActive(target[c], s)
    BY <1>7 DEF Stall, Active
  <2>3. QED
    BY <1>1, <1>4, <1>5, <1>6, <2>1, <2>2, AskingKeeps DEF SlurmTypeOK
<1>8. CASE ReadLogs(c) \/ Unanswered(c)
  <2>1. 0 \in 0..Grace
    BY SlurmAssumption
  <2>2. UNCHANGED state /\ age' \in [Jobs -> 0..Grace]
    BY <1>1, <1>8, <2>1 DEF ReadLogs, Unanswered, rows, SlurmTypeOK
  <2>3. QED
    BY <1>4, <1>5, <1>6, <2>2, AskingKeeps
<1>9. QED
  BY <1>7, <1>8

LEMMA BeginKeeps ==
  ASSUME SlurmInv, NEW c \in Clients, NEW j \in Jobs, Poll(c, j) \/ Cancel(c, j)
  PROVE  SlurmInv'
<1>1. SlurmTypeOK
  BY DEF SlurmInv
<1>2. UNCHANGED <<rows, sub, scheduler, faults>> /\ target' = [target EXCEPT ![c] = j]
  BY DEF Poll, Cancel
<1>3. 0 \in 0..Grace /\ age[j] \in 0..Grace
  BY <1>1, SlurmAssumption DEF SlurmTypeOK
<1>4. seenAge' \in [Clients -> 0..Grace]
  BY <1>1, <1>3 DEF Poll, Cancel, SlurmTypeOK
<1>5. CASE Poll(c, j)
  <2>1. PICK to \in {"squeue", "logs"} :
          pc' = [pc EXCEPT ![c] = to] /\ (to = "squeue" => j \in known)
    BY <1>5 DEF Poll
  <2>2. answer' = answer
    BY <1>5 DEF Poll
  <2>3. ClientTypes' /\ Asking(c) /\ pc'[c] = to /\ target'[c] = j
    BY <1>1, <1>2, <1>4, <2>1, <2>2 DEF ClientTypes, SlurmTypeOK, Asking, SameLocals, rows
  <2>4. ClientOK(c)'
    BY <1>2, <2>1, <2>3 DEF ClientOK, rows
  <2>5. QED
    BY <1>1, <1>2, <2>3, <2>4, AskingKeeps DEF SlurmTypeOK, rows
<1>6. CASE Cancel(c, j)
  <2>1. PICK to \in {"scancel", "settle"} :
          /\ pc' = [pc EXCEPT ![c] = to] /\ (to = "scancel" => j \in known)
          /\ answer' = [answer EXCEPT ![c] = IF to = "scancel" THEN "cancelled" ELSE "lost"]
    BY <1>6 DEF Cancel
  <2>2. /\ ClientTypes' /\ Asking(c) /\ pc'[c] = to /\ target'[c] = j
        /\ answer'[c] = IF to = "scancel" THEN "cancelled" ELSE "lost"
    BY <1>1, <1>2, <1>4, <2>1
       DEF ClientTypes, SlurmTypeOK, Asking, SameLocals, rows, Terminal
  <2>3. ClientOK(c)'
    BY <1>2, <2>1, <2>2 DEF ClientOK, rows
  <2>4. QED
    BY <1>1, <1>2, <2>2, <2>3, AskingKeeps DEF SlurmTypeOK, rows
<1>7. QED
  BY <1>5, <1>6

(* A successful scancel leaves nothing alive in Slurm.                     *)
LEMMA ScancelKeeps ==
  ASSUME SlurmInv, NEW c \in Clients, Scancel(c)
  PROVE  SlurmInv'
<1>1. ClientOK(c) /\ SlurmTypeOK /\ pc[c] = "scancel"
  BY DEF SlurmInv, Scancel
<1>2. PICK j : j = target[c]
  OBVIOUS
<1>3. /\ j \in Jobs /\ j \in known /\ answer[c] = "cancelled"
      /\ Live(j) \/ (Over(j) /\ sched[j] # None)
  BY <1>1, <1>2, JobSched DEF ClientOK, SlurmTypeOK
<1>4. UNCHANGED <<rows, sub, books, seenAge>>
  BY DEF Scancel
<1>5. <<"CANCELLED", 0>> \in SchedStates \ {None} /\ sched \in [Jobs -> SchedStates]
  BY <1>1 DEF SchedStates, None, SlurmTypeOK
<1>6. \/ sched' = sched
      \/ Live(j) /\ sched' = [sched EXCEPT ![j] = <<"CANCELLED", 0>>]
  BY <1>2, <1>3, <1>5 DEF Scancel
<1>7. sched' \in [Jobs -> SchedStates] /\ \A i \in Jobs : i # j => sched'[i] = sched[i]
  BY <1>5, <1>6
<1>8. Live(j) => ~Over(j) /\ sched[j] # None
  BY <1>1, <1>3, JobSched
<1>9. Stable
  BY <1>4, <1>6, <1>7, <1>8 DEF Stable, rows
<1>10. faults' \in 0..MaxFaults
  BY <1>1, SlurmAssumption DEF Scancel, Fault, SlurmTypeOK
<1>11. pc'[c] = "settle" => Over(j)'
  <2>1. SUFFICES ASSUME pc'[c] = "settle" PROVE Over(j)'
    OBVIOUS
  <2>2. sched' = [sched EXCEPT ![j] = IF Live(j) THEN <<"CANCELLED", 0>> ELSE @]
    BY <1>1, <1>2, <2>1 DEF Scancel, SlurmTypeOK
  <2>3. CASE Live(j)
    BY <1>3, <1>5, <2>2, <2>3 DEF Over, Name, EndNames
  <2>4. CASE ~Live(j)
    BY <1>3, <1>9, <2>4, OverKept
  <2>5. QED
    BY <2>3, <2>4
<1>12. \/ pc' = [pc EXCEPT ![c] = "settle"] /\ UNCHANGED <<target, answer>>
       \/ /\ pc' = [pc EXCEPT ![c] = "idle"] /\ target' = [target EXCEPT ![c] = NoJob]
          /\ answer' = [answer EXCEPT ![c] = "nothing"]
  BY DEF Scancel
<1>13. ClientTypes' /\ \A d \in Clients \ {c} : SameLocals(d)
  BY <1>1, <1>4, <1>12 DEF ClientTypes, SlurmTypeOK, SameLocals
<1>14. ClientOK(c)'
  <2>1. pc'[c] = "idle" \/ (pc'[c] = "settle" /\ target'[c] = j /\ answer'[c] = "cancelled")
    BY <1>1, <1>2, <1>3, <1>12 DEF SlurmTypeOK
  <2>2. QED
    BY <1>3, <1>11, <2>1 DEF ClientOK
<1>15. SlurmTypeOK'
  <2>1. \A i \in Jobs : books[i] = "ended" => Over(i)'
    BY <1>1, <1>9, OverKept DEF SlurmTypeOK
  <2>2. known \subseteq {i \in Jobs : sched'[i] # None}
    BY <1>1, <1>3, <1>5, <1>6, <1>7 DEF SlurmTypeOK
  <2>3. QED
    BY <1>1, <1>4, <1>7, <1>10, <1>13, <2>1, <2>2
       DEF SlurmTypeOK, rows, ClientTypes, SchedStates
<1>16. \A i \in Jobs : RowKept(i) /\ SubmissionKept(i)
  BY <1>3, <1>4, <1>5, <1>6, <1>7, <1>8 DEF RowKept, SubmissionKept, rows
<1>17. QED
  BY <1>9, <1>13, <1>14, <1>15, <1>16, InvStep

LEMMA SettleKeeps ==
  ASSUME SlurmInv, NEW c \in Clients, Settle(c)
  PROVE  SlurmInv'
<1>1. /\ ClientOK(c) /\ SlurmTypeOK /\ Goes(c, "settle", "idle")
      /\ answer' = [answer EXCEPT ![c] = "nothing"] /\ UNCHANGED <<known, faults, sub, scheduler>>
  BY DEF SlurmInv, Settle, Goes
<1>2. ClientTypes' /\ Asking(c) /\ pc'[c] = "idle" /\ pc[c] = "settle"
  BY <1>1, GoesMoves DEF ClientTypes, SlurmTypeOK, Asking, SameLocals
<1>3. ClientOK(c)'
  BY <1>2 DEF ClientOK
<1>4. /\ target[c] \in Jobs /\ answer[c] \in {"cancelled", "lost"}
      /\ Agrees(target[c], answer[c])
  BY <1>1, <1>2 DEF ClientOK, Agrees
<1>5. answer[c] \in Active \cup Terminal
  BY <1>4 DEF Terminal
<1>6. QED
  BY <1>1, <1>2, <1>3, <1>4, <1>5, AskingKeeps DEF Settle

-----------------------------------------------------------------------------
LEMMA SlurmInvInit == Init => SlurmInv
<1> SUFFICES ASSUME Init PROVE SlurmInv
  OBVIOUS
<1>1. 0 \in 0..Grace /\ 0 \in 0..MaxFaults
  BY SlurmAssumption
<1>2. SlurmTypeOK
  BY <1>1 DEF Init, SlurmTypeOK
<1>3. QED
  BY <1>2 DEF Init, SlurmInv, SubmissionOK, RowAgrees, Agrees, ClientOK, Active

LEMMA SlurmInvStep == SlurmInv /\ [Next]_vars => SlurmInv'
<1> SUFFICES ASSUME SlurmInv, [Next]_vars PROVE SlurmInv'
  OBVIOUS
<1>1. CASE UNCHANGED vars
  <2>1. SlurmTypeOK'
    BY <1>1 DEF vars, rows, scheduler, clients, SlurmInv, SlurmTypeOK, Over, Name
  <2>2. QED
    BY <1>1, <2>1, InvStep
       DEF vars, rows, scheduler, clients, Stable, RowKept, SubmissionKept, SameLocals
<1>2. CASE Next
  BY <1>2, SchedulerKeeps, BooksKeeps, TickKeeps, SubmitKeeps, AskedKeeps, ApplyKeeps,
     AfterKeeps, BeginKeeps, ScancelKeeps, SettleKeeps DEF Next, SubmitStep, ClientStep
<1>3. QED
  BY <1>1, <1>2

(* A success, a timeout or a failure in a row is the one the job had in    *)
(* Slurm, and the job of a cancelled row is over, however it ended.        *)
THEOREM SlurmOutcomeAgrees == Spec => []OutcomeAgrees
<1>1. ASSUME SlurmInv PROVE OutcomeAgrees
  <2>1. SlurmTypeOK
    BY <1>1 DEF SlurmInv
  <2>2. \A j \in Jobs : SubmissionOK(j) /\ RowAgrees(j)
    BY <1>1 DEF SlurmInv
  <2>3. QED
    BY <2>1, <2>2 DEF OutcomeAgrees, SubmissionOK, RowAgrees, Agrees
<1>2. QED
  BY <1>1, SlurmInvInit, SlurmInvStep, PTL DEF Spec

(* Polling gives up no job that Slurm still has: the silence of squeue and *)
(* of the accounting is only taken for a loss of a job that is over.       *)
THEOREM SlurmLostIsOver == Spec => LostIsOver
<1> DEFINE Given(j) == Over(j) \/ \E c \in Clients : pc[c] = "settle" /\ target[c] = j /\ answer[c] = "lost"
           Lost == \A j \in Jobs : state[j] # "lost" /\ state'[j] = "lost" => Given(j)
<1>1. SlurmInv /\ [Next]_vars => [Lost]_vars
  <2> SUFFICES ASSUME SlurmInv, Next, NEW j \in Jobs, state[j] # "lost", state'[j] = "lost"
               PROVE  Given(j)
    OBVIOUS
  <2>1. SlurmTypeOK /\ \A c \in Clients : ClientOK(c)
    BY DEF SlurmInv
  <2>2. ASSUME NEW i, NEW s, UpdateIfActive(i, s) PROVE i = j /\ s = "lost"
    <3>1. state' = [state EXCEPT ![i] = s] \/ state' = state
      BY <2>2 DEF UpdateIfActive
    <3>2. QED
      BY <2>1, <3>1 DEF SlurmTypeOK
  <2>3. ASSUME NEW c \in Clients, Apply(c) PROVE Given(j)
    <3>1. target[c] = j /\ answer[c] = "lost" /\ pc[c] = "apply"
      BY <2>2, <2>3 DEF Apply
    <3>2. QED
      BY <2>1, <3>1 DEF ClientOK
  <2>4. ASSUME NEW c \in Clients, Settle(c) PROVE Given(j)
    BY <2>2, <2>4 DEF Settle, Goes
  <2>5. ASSUME NEW c \in Clients, Stall(c) PROVE FALSE
    BY <2>2, <2>5 DEF Stall
  <2>6. ASSUME NEW i \in Jobs, Record(i) \/ SubmitFails(i) PROVE FALSE
    BY <2>2, <2>6 DEF Record, SubmitFails
  <2>7. ASSUME NEW i \in Jobs, Reserve(i) PROVE FALSE
    BY <2>1, <2>7 DEF Reserve, SlurmTypeOK
  <2>8. state' # state
    OBVIOUS
  <2>9. QED
    BY <2>3, <2>4, <2>5, <2>6, <2>7, <2>8
       DEF Next, SubmitStep, ClientStep, MakeDirectory, Sbatch, SubmitDies, Starts, Requeues,
           OperatorCancels, Schedules, Books, JobEnds, Tick, Squeue, Sacct, Asked, ReadLogs,
           Scancel, Unanswered, Poll, Cancel, rows
<1>2. QED
  BY <1>1, SlurmInvInit, SlurmInvStep, PTL DEF Spec, LostIsOver
=============================================================================
