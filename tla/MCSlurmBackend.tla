--------------------------- MODULE MCSlurmBackend ---------------------------
(* Small instances of SlurmBackend for TLC. *)
EXTENDS SlurmBackend

CONSTANTS j1, c1, c2

OneJob    == {j1}
TwoClients == {c1, c2}

PollAndCancel == [c \in {c1, c2} |-> {j1}]
CancelByOne   == [c \in {c1, c2} |-> IF c = c2 THEN {j1} ELSE {}]

AllEnds == {<<"COMPLETED", 0>>, <<"CANCELLED", 0>>, <<"FAILED", 1>>, <<"FAILED", 124>>,
            <<"OUT_OF_MEMORY", 0>>, <<"NODE_FAIL", 0>>, <<"TIMEOUT", 0>>}
=============================================================================
