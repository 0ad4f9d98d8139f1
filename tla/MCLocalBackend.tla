--------------------------- MODULE MCLocalBackend ---------------------------
(* Small instances of LocalBackend for TLC. *)
EXTENDS LocalBackend, TLC

CONSTANTS j1, j2, q, c1, c2

AllQueued  == [j \in Jobs |-> q]
OneDirect  == [j \in Jobs |-> IF j = j1 THEN NoQueue ELSE q]
OneSlot    == [x \in Queues |-> 1]

\* Who does what: all clients submit and leave; one agent submits and polls;
\* two agents share the work, the second one polling, listing or cancelling.
SubmitOnly      == [c \in Clients |-> {"submit"}]
TwoAgents       == (c1 :> {"submit"} @@ c2 :> {"submit", "status", "list"})
OneAgent        == [c \in Clients |-> {"submit", "status"}]
AgentAndCancel  == (c1 :> {"submit", "status"} @@ c2 :> {"list", "cancel"})

RunnerSymmetry == Permutations(Runners)
=============================================================================
