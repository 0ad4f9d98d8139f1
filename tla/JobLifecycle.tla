---------------------------- MODULE JobLifecycle ----------------------------
(***************************************************************************)
(* What a client of Awaitless is promised about its jobs, whatever the     *)
(* number of processes behind them: the states a job passes through, the   *)
(* admission of queued jobs in the order of submission with a bounded      *)
(* number of slots, and one durable completion event per job, issued in    *)
(* the step that ends it.                                                  *)
(***************************************************************************)
EXTENDS Naturals, Sequences, FiniteSets

CONSTANTS Jobs, Queues, NoQueue, QueueOf, Concurrency

VARIABLES
  state,  \* the lifecycle state of each job
  order,  \* the rank of each job in its queue
  feed    \* the completion events, oldest first

lifecycle == <<state, order, feed>>

-----------------------------------------------------------------------------
Ended   == {"succeeded", "failed", "cancelled", "timed_out", "lost"}
InSlot  == {"starting", "running", "stalled"}
Started == {"running", "stalled"}
Open    == InSlot \cup {"queued"}

Init ==
  /\ state = [j \in Jobs |-> "absent"]
  /\ order = [j \in Jobs |-> 0]
  /\ feed = <<>>

Peers(j) == {k \in Jobs : QueueOf[k] = QueueOf[j]}

Moves(j, from, to) ==
  /\ state[j] \in from
  /\ state' = [state EXCEPT ![j] = to]
  /\ UNCHANGED <<order, feed>>

SubmitDirect(j) ==
  /\ QueueOf[j] = NoQueue
  /\ Moves(j, {"absent"}, "starting")

\* Submission gives the job a rank behind every job of its queue.
SubmitQueued(j) ==
  /\ QueueOf[j] # NoQueue
  /\ state[j] = "absent"
  /\ state' = [state EXCEPT ![j] = "queued"]
  /\ order' = [order EXCEPT ![j] = order'[j]]
  /\ \A k \in Peers(j) : order[k] < order'[j]
  /\ UNCHANGED feed

\* First come, first served, and only into a free slot.
Admit(j) ==
  /\ QueueOf[j] # NoQueue
  /\ \A k \in Peers(j) : state[k] = "queued" => order[j] <= order[k]
  /\ Cardinality({k \in Peers(j) : state[k] \in InSlot}) < Concurrency[QueueOf[j]]
  /\ Moves(j, {"queued"}, "starting")

\* The process that was to start an admitted job disappeared.
GiveBack(j) ==
  /\ QueueOf[j] # NoQueue
  /\ Moves(j, {"starting"}, "queued")

Start(j)  == Moves(j, {"starting"}, "running")
Stall(j)  == Moves(j, {"running"}, "stalled")
Resume(j) == Moves(j, {"stalled"}, "running")

End(j, from, outcome) ==
  /\ state[j] \in from
  /\ state' = [state EXCEPT ![j] = outcome]
  /\ feed' = Append(feed, [job |-> j, state |-> outcome])
  /\ UNCHANGED order

Succeed(j) == End(j, Started, "succeeded")
TimeOut(j) == End(j, Started, "timed_out")
Fail(j)    == End(j, Open, "failed")
Cancel(j)  == End(j, Open, "cancelled")
Lose(j)    == End(j, Open, "lost")

Next ==
  \E j \in Jobs :
    \/ SubmitDirect(j) \/ SubmitQueued(j) \/ Admit(j) \/ GiveBack(j)
    \/ Start(j) \/ Stall(j) \/ Resume(j)
    \/ Succeed(j) \/ TimeOut(j) \/ Fail(j) \/ Cancel(j) \/ Lose(j)

Spec == Init /\ [][Next]_lifecycle
=============================================================================
