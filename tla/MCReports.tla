----------------------------- MODULE MCReports -----------------------------
(***************************************************************************)
(* Three scenes that share nothing: a file that is read while it grows, a  *)
(* queue that is listed while it moves, and a job of the tmux wrapper that *)
(* is waited for and cancelled. In each of them the other two rest.        *)
(***************************************************************************)
EXTENDS FileReports, QueueReport, TmuxJob

VARIABLE scene

ClocksApart == {-2, 1}

Init ==
  /\ FileInit
  /\ QueueInit
  /\ TmuxInit
  /\ scene \in {"file", "queue", "tmux"}
  /\ scene # "file"  => reader.kind = "logs" /\ reader.backend = "local" /\ reader.lines = 0
  /\ scene # "queue" => skew = 1

Next ==
  \/ scene = "file"  /\ FileNext  /\ UNCHANGED <<queueVars, tmuxVars, scene>>
  \/ scene = "queue" /\ QueueNext /\ UNCHANGED <<fileVars, tmuxVars, scene>>
  \/ scene = "tmux"  /\ TmuxNext  /\ UNCHANGED <<fileVars, queueVars, scene>>

Spec == Init /\ [][Next]_<<fileVars, queueVars, tmuxVars, scene>> /\ TmuxFairness
=============================================================================
