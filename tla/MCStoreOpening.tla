--------------------------- MODULE MCStoreOpening ---------------------------
(* Two processes open a database with two jobs at the same time. *)
EXTENDS StoreOpening

CONSTANTS j1, j2

NoPlacement == [j \in Jobs |-> NoQueue]
NoSlots     == [q \in Queues |-> 1]
AnyState    == {"absent", "running", "succeeded", "cancelled"}
AnyEvent    == [job : Jobs, state : {"succeeded", "cancelled"}]
=============================================================================
