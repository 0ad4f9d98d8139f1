------------------------------ MODULE TmuxJob ------------------------------
(***************************************************************************)
(* The wrapper around tmux that the benchmarks measure Awaitless against.  *)
(* One job: submit starts a worker in a tmux session, the worker runs the  *)
(* command and leaves result.json, waiting clients sleep on a channel of   *)
(* the tmux server, and cancel ends the process group or, after two        *)
(* seconds, writes the result itself. The parts share files only, among    *)
(* them the temporary file that becomes result.json.                       *)
(*                                                                         *)
(* The channel is tmux's: a signal that finds no waiter is kept for the    *)
(* next one, a signal that finds some wakes all of them.                   *)
(***************************************************************************)
EXTENDS Naturals, FiniteSets

CONSTANTS
  Waiters, Cancellers,
  MaxSlow      \* how often the worker takes longer than a deadline (bound)

ASSUME TmuxAssumption == MaxSlow \in Nat

VARIABLES
  wpc,         \* the worker
  process,     \* the command: "none", "runs", "over"
  recorded,    \* process.json exists
  marked,      \* the marker cancelled exists
  says,        \* the result the worker is to write
  temp,        \* result.json.tmp, "none" while there is no such file
  result,      \* result.json, "none" before it exists
  kept,        \* the channel keeps a signal
  asleep,      \* the tmux clients that sleep on the channel
  cpc,         \* the clients
  blind,       \* a cancellation found no process.json
  slow

files   == <<recorded, marked, temp, result>>
worker  == <<wpc, process, says>>
channel == <<kept, asleep>>
tmuxVars == <<worker, files, channel, cpc, blind, slow>>

TmuxTypeOK ==
  /\ wpc \in {"none", "start", "record", "wait", "look", "stage", "replace",
              "stageError", "replaceError", "signal", "gone"}
  /\ process \in {"none", "runs", "over"}
  /\ recorded \in BOOLEAN /\ marked \in BOOLEAN
  /\ {says, temp, result} \subseteq {"none", "succeeded", "failed", "cancelled"}
  /\ kept \in BOOLEAN /\ asleep \subseteq Waiters
  /\ cpc \in [Waiters \cup Cancellers ->
               {"idle", "sleep", "poll", "mark", "read", "term", "grace", "await",
                "stage", "replace", "done"}]
  /\ blind \in BOOLEAN /\ slow \in 0..MaxSlow

TmuxInit ==
  /\ wpc = "none" /\ process = "none" /\ says = "none"
  /\ recorded = FALSE /\ marked = FALSE /\ temp = "none" /\ result = "none"
  /\ kept = FALSE /\ asleep = {}
  /\ cpc = [c \in Waiters \cup Cancellers |-> "idle"]
  /\ blind = FALSE /\ slow = 0

Goes(c, from, to) ==
  /\ cpc[c] = from
  /\ cpc' = [cpc EXCEPT ![c] = to]

WorkerGoes(from, to) ==
  /\ wpc = from
  /\ wpc' = to

-----------------------------------------------------------------------------
(* The channel. *)

\* wait-for -S: everybody who sleeps is woken, or the signal is kept.
Signal ==
  /\ asleep' = {}
  /\ kept' = (asleep = {})

-----------------------------------------------------------------------------
(* Submission and worker. *)

\* metadata.json, then the session of the worker; a keeper session holds the
\* server up until its options are set.
Submit ==
  /\ WorkerGoes("none", "start")
  /\ UNCHANGED <<process, says, files, channel, cpc, blind, slow>>

\* A command that cannot be started is a failure of its own.
StartCommand ==
  /\ wpc = "start"
  /\ \/ wpc' = "record" /\ process' = "runs" /\ UNCHANGED says
     \/ wpc' = "stageError" /\ says' = "failed" /\ UNCHANGED process
  /\ UNCHANGED <<files, channel, cpc, blind, slow>>

RecordProcess ==
  /\ WorkerGoes("record", "wait")
  /\ recorded' = TRUE
  /\ UNCHANGED <<process, says, marked, temp, result, channel, cpc, blind, slow>>

ProcessEnds ==
  /\ process = "runs"
  /\ process' = "over"
  /\ UNCHANGED <<wpc, says, files, channel, cpc, blind, slow>>

CommandIsOver ==
  /\ WorkerGoes("wait", "look")
  /\ process = "over"
  /\ UNCHANGED <<process, says, files, channel, cpc, blind, slow>>

LookForMark ==
  /\ WorkerGoes("look", "stage")
  /\ IF marked THEN says' = "cancelled" ELSE says' \in {"succeeded", "failed"}
  /\ UNCHANGED <<process, files, channel, cpc, blind, slow>>

\* atomic_json: the temporary file, which the clients use as well.
Stage(what) ==
  /\ temp' = what
  /\ UNCHANGED <<recorded, marked, result>>

\* atomic_json: the file is renamed, if nobody else has renamed it before.
Replace ==
  /\ temp' = "none"
  /\ result' = IF temp = "none" THEN result ELSE temp
  /\ UNCHANGED <<recorded, marked>>

StageResult ==
  /\ \/ WorkerGoes("stage", "replace") \/ WorkerGoes("stageError", "replaceError")
  /\ Stage(says)
  /\ UNCHANGED <<process, says, channel, cpc, blind, slow>>

\* An exception, that of the rename included, makes the job a failed one; a
\* second one ends the worker.
ReplaceResult ==
  /\ wpc \in {"replace", "replaceError"}
  /\ Replace
  /\ IF wpc = "replace" /\ temp = "none"
       THEN wpc' = "stageError" /\ says' = "failed"
       ELSE wpc' = "signal" /\ UNCHANGED says
  /\ UNCHANGED <<process, channel, cpc, blind, slow>>

SignalDone ==
  /\ WorkerGoes("signal", "gone")
  /\ Signal
  /\ UNCHANGED <<process, says, files, cpc, blind, slow>>

-----------------------------------------------------------------------------
(* wait_for_job. *)

WaitBegins(c) ==
  /\ wpc # "none"
  /\ Goes(c, "idle", IF result = "none" THEN "sleep" ELSE "done")
  /\ UNCHANGED <<worker, files, channel, blind, slow>>

\* The tmux client reaches the server some time after it was started.
FallsAsleep(c) ==
  /\ Goes(c, "sleep", "poll")
  /\ kept' = FALSE
  /\ asleep' = IF kept THEN asleep ELSE asleep \cup {c}
  /\ UNCHANGED <<worker, files, blind, slow>>

\* Mutant of Polls: nobody looks at the file while the tmux client sleeps.
PollsNothing(c) ==
  /\ Goes(c, "poll", "done")
  /\ c \notin asleep
  /\ UNCHANGED <<worker, files, channel, blind, slow>>

\* The client looks whether its tmux client has returned, and if not whether
\* there is a result, and signals the channel then.
Polls(c) ==
  /\ cpc[c] \in {"sleep", "poll"}
  /\ \/ /\ c \notin asleep /\ Goes(c, "poll", "done")
        /\ UNCHANGED channel
     \/ /\ c \in asleep \/ cpc[c] = "sleep"
        /\ result # "none"
        /\ Signal
        /\ UNCHANGED cpc
  /\ UNCHANGED <<worker, files, blind, slow>>

-----------------------------------------------------------------------------
(* cancel. *)

CancelBegins(c) ==
  /\ wpc # "none"
  /\ Goes(c, "idle", IF result = "none" THEN "mark" ELSE "done")
  /\ UNCHANGED <<worker, files, channel, blind, slow>>

Mark(c) ==
  /\ Goes(c, "mark", "read")
  /\ marked' = TRUE
  /\ UNCHANGED <<worker, recorded, temp, result, channel, blind, slow>>

\* Without process.json there is nobody to signal.
ReadProcess(c) ==
  /\ Goes(c, "read", IF recorded THEN "term" ELSE "await")
  /\ blind' = (blind \/ ~recorded)
  /\ UNCHANGED <<worker, files, channel, slow>>

\* process_matches, SIGTERM; the command may take it or not.
Terminate(c) ==
  /\ Goes(c, "term", IF process = "runs" THEN "grace" ELSE "await")
  /\ UNCHANGED <<worker, files, channel, blind, slow>>

\* The grace period ends when the process is gone, or with SIGKILL.
GraceEnds(c) ==
  /\ Goes(c, "grace", "await")
  /\ process' = "over"
  /\ UNCHANGED <<wpc, says, files, channel, blind, slow>>

\* The worker has two seconds to write the result: too few while the command,
\* which nobody signalled, runs on, and otherwise only for a slow worker.
StillRuns == wpc = "wait" /\ process = "runs"

\* Mutant of Awaits: the result is not waited for.
AwaitsNothing(c) ==
  /\ Goes(c, "await", "stage")
  /\ UNCHANGED <<worker, files, channel, blind, slow>>

\* The result appears, or the canceller is to write one.
Awaits(c) ==
  /\ \/ result # "none" /\ Goes(c, "await", "done") /\ UNCHANGED slow
     \/ /\ result = "none" /\ Goes(c, "await", "stage")
        /\ \/ StillRuns /\ UNCHANGED slow
           \/ ~StillRuns /\ slow < MaxSlow /\ slow' = slow + 1
  /\ UNCHANGED <<worker, files, channel, blind>>

StageCancelled(c) ==
  /\ Goes(c, "stage", "replace")
  /\ Stage("cancelled")
  /\ UNCHANGED <<worker, channel, blind, slow>>

\* A rename that fails is an error message of the client.
ReplaceCancelled(c) ==
  /\ Goes(c, "replace", "done")
  /\ Replace
  /\ UNCHANGED <<worker, channel, blind, slow>>

-----------------------------------------------------------------------------
WorkerStep ==
  \/ StartCommand \/ RecordProcess \/ CommandIsOver
  \/ LookForMark \/ StageResult \/ ReplaceResult \/ SignalDone

ClientStep(c) ==
  \/ c \in Waiters /\ (FallsAsleep(c) \/ Polls(c))
  \/ c \in Cancellers /\ \/ Mark(c) \/ ReadProcess(c) \/ Terminate(c) \/ GraceEnds(c)
                         \/ Awaits(c) \/ StageCancelled(c) \/ ReplaceCancelled(c)

TmuxNext ==
  \/ Submit \/ WorkerStep \/ ProcessEnds
  \/ \E c \in Waiters : WaitBegins(c)
  \/ \E c \in Cancellers : CancelBegins(c)
  \/ \E c \in Waiters \cup Cancellers : ClientStep(c)

TmuxSpec == TmuxInit /\ [][TmuxNext]_tmuxVars

\* The worker and the clients go on. Nothing is assumed of the command.
TmuxFairness ==
  /\ WF_tmuxVars(WorkerStep)
  /\ \A c \in Waiters \cup Cancellers : WF_tmuxVars(ClientStep(c))

-----------------------------------------------------------------------------
(* Properties. *)

\* A waiting client returns once there is a result, whether the signal comes
\* before its tmux client has reached the server, wakes another waiter or is
\* never sent (the comment in wait_for_job).
WaitEnds ==
  \A c \in Waiters : cpc[c] \in {"sleep", "poll"} /\ result # "none" ~> cpc[c] = "done"

\* Worker and cancellers write the same file, but a result that is there stays
\* as it is, unless the worker was slow or a cancellation found no
\* process.json; and only then is a job called cancelled while its command
\* runs.
ResultHolds ==
  [][slow' = 0 /\ ~blind' =>
       /\ result # "none" => result' = result
       /\ result' = "cancelled" => process' = "over"]_tmuxVars
=============================================================================
