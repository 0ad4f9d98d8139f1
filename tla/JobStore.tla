------------------------------ MODULE JobStore ------------------------------
(***************************************************************************)
(* The durable job registry: the rows of the jobs table that the lifecycle *)
(* depends on and the terminal part of the state_events table (db.py).     *)
(* Every method of Store runs one BEGIN IMMEDIATE transaction, so each is  *)
(* one atomic step here, whichever process calls it.                       *)
(*                                                                         *)
(* A process is identified by its pid together with its start ticks, so an *)
(* identity never designates two processes.  The command a runner starts   *)
(* is identified by the runner: cmd[j] = r is "the pid column holds the    *)
(* process that runner r launched".                                        *)
(***************************************************************************)
EXTENDS Naturals, Sequences, FiniteSets, FiniteSetsExt

CONSTANTS
  Jobs,         \* job ids
  Runners,      \* identities of runner processes
  NoRunner,     \* the NULL of the runner_pid and pid columns
  Queues,       \* names of the created queues
  NoQueue,      \* the NULL of the queue_name column
  QueueOf,      \* the queue each job is submitted to, or NoQueue
  Concurrency,  \* slots of each queue, immutable once created
  Codes,        \* exit codes a command can end with
  NoCode        \* the NULL of the exit_code column

ASSUME StoreAssumption ==
  /\ IsFiniteSet(Jobs)
  /\ NoRunner \notin Runners
  /\ NoQueue \notin Queues
  /\ QueueOf \in [Jobs -> Queues \cup {NoQueue}]
  /\ Concurrency \in [Queues -> Nat \ {0}]
  /\ Codes \subseteq Nat
  /\ NoCode \notin Nat

VARIABLES
  state,  \* the state column; "absent" before the row is inserted
  owner,  \* runner_pid and runner_start_ticks
  cmd,    \* pid and pid_start_ticks
  order,  \* queue_order, 0 for NULL
  code,   \* exit_code
  feed    \* terminal rows of state_events, in id order

store == <<state, owner, cmd, order, code, feed>>

-----------------------------------------------------------------------------
Terminal  == {"succeeded", "failed", "cancelled", "timed_out", "lost"}
Occupying == {"starting", "running", "stalled"}
Active    == Occupying \cup {"queued"}
States    == Active \cup Terminal \cup {"absent"}

RunnerIds == Runners \cup {NoRunner}
Event     == [job : Jobs, state : Terminal]

StoreTypeOK ==
  /\ state \in [Jobs -> States]
  /\ owner \in [Jobs -> RunnerIds]
  /\ cmd \in [Jobs -> RunnerIds]
  /\ order \in [Jobs -> Nat]
  /\ code \in [Jobs -> Codes \cup {NoCode}]
  /\ feed \in Seq(Event)

StoreInit ==
  /\ state = [j \in Jobs |-> "absent"]
  /\ owner = [j \in Jobs |-> NoRunner]
  /\ cmd = [j \in Jobs |-> NoRunner]
  /\ order = [j \in Jobs |-> 0]
  /\ code = [j \in Jobs |-> NoCode]
  /\ feed = <<>>

-----------------------------------------------------------------------------
Queued(j) == QueueOf[j] # NoQueue

\* The jobs that hold a slot of queue q.
Holders(q) == {k \in Jobs : QueueOf[k] = q /\ state[k] \in Occupying}

\* COALESCE(MAX(queue_order), 0) + 1 over the rows of queue q.
NextOrder(q) == Max({0} \cup {order[k] : k \in {i \in Jobs : QueueOf[i] = q}}) + 1

\* Mutant of Oldest: jobs that have left the queue are still in the way.
OldestEver(j) ==
  \A k \in Jobs :
     QueueOf[k] = QueueOf[j] /\ state[k] # "absent" => order[j] <= order[k]

\* The oldest queued job of j's queue is j itself.
Oldest(j) ==
  \A k \in Jobs :
     QueueOf[k] = QueueOf[j] /\ state[k] = "queued" => order[j] <= order[k]

\* Mutant of Claimable: admits at the limit.
ClaimableAtLimit(j, r) ==
  /\ Queued(j) /\ state[j] = "queued" /\ owner[j] = r /\ Oldest(j)
  /\ Cardinality(Holders(QueueOf[j])) <= Concurrency[QueueOf[j]]

Claimable(j, r) ==
  /\ Queued(j)
  /\ state[j] = "queued"
  /\ owner[j] = r
  /\ Oldest(j)
  /\ Cardinality(Holders(QueueOf[j])) < Concurrency[QueueOf[j]]

\* A state event is inserted only when the state changes; the completion feed
\* is the part of the events whose state is terminal.
Emit(j, s) ==
  feed' = IF s \in Terminal /\ s # state[j]
            THEN Append(feed, [job |-> j, state |-> s])
            ELSE feed

-----------------------------------------------------------------------------
(* The transactions. *)

\* Store.create, and the inserting branch of Store.reserve_submission.
Create(j) ==
  /\ state[j] = "absent"
  /\ state' = [state EXCEPT ![j] = IF Queued(j) THEN "queued" ELSE "starting"]
  /\ order' = [order EXCEPT ![j] = IF Queued(j) THEN NextOrder(QueueOf[j]) ELSE 0]
  /\ UNCHANGED <<owner, cmd, code, feed>>

\* Store.claim_queue_slot when it admits.
ClaimSlot(j, r) ==
  /\ Claimable(j, r)
  /\ state' = [state EXCEPT ![j] = "starting"]
  /\ UNCHANGED <<owner, cmd, order, code, feed>>

\* Mutant of Registers: only the first registration is accepted.
RegistersFirst(j, expected) == state[j] = "queued" /\ owner[j] = NoRunner

\* Store.register_queue_runner: compare-and-set of the runner identity.
Registers(j, expected) == state[j] = "queued" /\ owner[j] = expected

RegisterRunner(j, expected, r) ==
  /\ Registers(j, expected)
  /\ owner' = [owner EXCEPT ![j] = r]
  /\ UNCHANGED <<state, cmd, order, code, feed>>

\* Mutant of Requeues: a recorded command does not matter.
RequeuesLaunched(j, expected) == state[j] \in Occupying /\ owner[j] = expected

\* Store.requeue_unstarted_runner: give a claimed slot back.
Requeues(j, expected) ==
  state[j] = "starting" /\ cmd[j] = NoRunner /\ owner[j] = expected

RequeueRunner(j, expected) ==
  /\ Requeues(j, expected)
  /\ state' = [state EXCEPT ![j] = "queued"]
  /\ UNCHANGED <<owner, cmd, order, code, feed>>

\* Mutant of UpdateIfActive: a terminal row is overwritten.
UpdateAlways(j, s, p, x) ==
  /\ state' = [state EXCEPT ![j] = s]
  /\ cmd' = [cmd EXCEPT ![j] = p]
  /\ code' = [code EXCEPT ![j] = x]
  /\ Emit(j, s)
  /\ UNCHANGED <<owner, order>>

\* Store.update_if_active writing the state, the pid and the exit code: a row
\* that is already terminal is returned as it is.
UpdateIfActive(j, s, p, x) ==
  IF state[j] \in Terminal
    THEN UNCHANGED store
    ELSE /\ state' = [state EXCEPT ![j] = s]
         /\ cmd' = [cmd EXCEPT ![j] = p]
         /\ code' = [code EXCEPT ![j] = x]
         /\ Emit(j, s)
         /\ UNCHANGED <<owner, order>>

SetState(j, s) == UpdateIfActive(j, s, cmd[j], code[j])

\* Store.update without a state: allowed on a terminal row too.
UpdateOwner(j, r) ==
  /\ owner' = [owner EXCEPT ![j] = r]
  /\ UNCHANGED <<state, cmd, order, code, feed>>

UpdateCode(j, x) ==
  /\ code' = [code EXCEPT ![j] = x]
  /\ UNCHANGED <<state, owner, cmd, order, feed>>

-----------------------------------------------------------------------------
(* The store under arbitrary callers: any backend, any order of calls. *)

StoreNext ==
  \E j \in Jobs :
    \/ Create(j)
    \/ /\ state[j] # "absent"
       /\ \/ \E r \in Runners : ClaimSlot(j, r)
          \/ \E e \in RunnerIds, r \in Runners : RegisterRunner(j, e, r)
          \/ \E e \in RunnerIds : RequeueRunner(j, e)
          \/ \E s \in States \ {"absent"}, p \in RunnerIds, x \in Codes \cup {NoCode} :
                UpdateIfActive(j, s, p, x)
          \/ \E r \in Runners : UpdateOwner(j, r)
          \/ \E x \in Codes : UpdateCode(j, x)

StoreSpec == StoreInit /\ [][StoreNext]_store

-----------------------------------------------------------------------------
(* Exactly one completion event exists for each terminal job, it carries   *)
(* the state of the row, and a job that is not terminal has none: the      *)
(* event is inserted in the transaction that changes the state (db.py      *)
(* _update), so no reader can see one without the other.                   *)
EventsOf(j) == {i \in DOMAIN feed : feed[i].job = j}

OneTerminalEvent ==
  /\ \A i \in DOMAIN feed : state[feed[i].job] = feed[i].state
  /\ \A i, k \in DOMAIN feed : feed[i].job = feed[k].job => i = k
  /\ \A j \in Jobs : state[j] \in Terminal => \E i \in DOMAIN feed : feed[i].job = j

(* A terminal state is never replaced, not even by another terminal state: *)
(* a cancellation that loses the race with the exit of the command leaves  *)
(* the recorded outcome alone, and a lost job is never revived.            *)
TerminalIsFinal ==
  [][\A j \in Jobs : state[j] \in Terminal => state'[j] = state[j]]_store

(* A queue has one head: two waiting jobs are never both the oldest, so    *)
(* capacity is never offered to two runners by one state of the registry.  *)
OneHead ==
  \A j, k \in Jobs :
     /\ Queued(j) /\ QueueOf[j] = QueueOf[k]
     /\ state[j] = "queued" /\ state[k] = "queued"
     /\ Oldest(j) /\ Oldest(k)
     => j = k

(* The feed only grows at its end, so a cursor a client has stored keeps   *)
(* designating the same events.                                            *)
FeedAppendOnly ==
  [][SubSeq(feed', 1, Len(feed)) = feed]_store
=============================================================================
