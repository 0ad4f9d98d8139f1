---------------------------- MODULE MCSSHBackend ----------------------------
(* Small instances of SSHBackend for TLC. *)
EXTENDS SSHBackend, TLC

CONSTANTS j1, j2, c1, c2

\* The first client polls and the second one cancels; or only one of the two.
PollFirst   == (c1 :> {j1} @@ c2 :> {})
CancelFirst == (c1 :> {} @@ c2 :> {j1})
PollAll     == [c \in Clients |-> Jobs]
PollNone    == [c \in Clients |-> {}]
CancelAll   == [c \in Clients |-> Jobs]
CancelNone  == [c \in Clients |-> {}]
=============================================================================
