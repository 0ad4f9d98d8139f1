---------------------------- MODULE MCDeliveries ----------------------------
(***************************************************************************)
(* A queued remote job and a direct local one, and clients in groups of    *)
(* three: two runs that write the list, a run that is recovered twice, a   *)
(* task with its cancellation and a blocked run_job, and three ways to the *)
(* result of one job.                                                      *)
(***************************************************************************)
EXTENDS Deliveries, TLC

CONSTANTS j1, j2, q, c1, c2, c3

QueueOfJob == (j1 :> q @@ j2 :> NoQueue)
OneSlot    == (q :> 1)

Is(n, j) == [name |-> n, job |-> j]

Scenes ==
  {(c1 :> Is("run", j1) @@ c2 :> Is("run", j2) @@ c3 :> Is("cancel", j2)),
   (c1 :> Is("run", j1) @@ c2 :> Is("recover", j1) @@ c3 :> Is("recover", j1)),
   (c1 :> Is("task", j1) @@ c2 :> Is("block", j1) @@ c3 :> Is("cancel", j1)),
   (c1 :> Is("call", j1) @@ c2 :> Is("wait", j1) @@ c3 :> Is("wait", j1))}
=============================================================================
