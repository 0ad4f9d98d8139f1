---------------------------- MODULE QueueReport ----------------------------
(***************************************************************************)
(* list_queues and the times of a summary. A queue of jobs that run for    *)
(* one and the same time moves on while list_queues takes its two looks at *)
(* the registry, first the counts and then the rows, and estimates from    *)
(* them when each waiting job will start. The times in a row come from two *)
(* clocks: creation and cancellation from the client, start and end from   *)
(* the host that runs the job. A job is known by its queue_order.          *)
(***************************************************************************)
EXTENDS Integers, FiniteSets, FiniteSetsExt

CONSTANTS
  QJobs,       \* their places in the order of submission
  NoTime,
  Slots,       \* concurrency of the queue
  Duration,    \* how long every job runs
  Skews,       \* by how much the clock of the host may be ahead
  MaxCancels,  \* how many jobs are cancelled (bound)
  MaxClock     \* the time it ends (bound)

ASSUME QueueAssumption ==
  /\ Slots \in Nat \ {0} /\ Duration \in Nat \ {0} /\ MaxClock \in Nat /\ MaxCancels \in Nat
  /\ Skews \subseteq Int /\ NoTime \notin Int /\ QJobs \subseteq Nat /\ IsFiniteSet(QJobs)

VARIABLES
  clock,     \* of the client
  skew,      \* of the host
  jobRow,    \* the rows, by job
  listing    \* the call of list_queues

queueVars == <<clock, skew, jobRow, listing>>

Times == Int \cup {NoTime}

QueueTypeOK ==
  /\ clock \in 0..MaxClock /\ skew \in Skews
  /\ jobRow \in [QJobs -> [state : {"none", "queued", "running", "succeeded", "cancelled"},
                           created : Times, started : Times, finished : Times]]
  /\ listing.at \in {"idle", "counted", "done"}

QueueInit ==
  /\ clock = 0
  /\ skew \in Skews
  /\ jobRow = [j \in QJobs |-> [state |-> "none", created |-> NoTime,
                               started |-> NoTime, finished |-> NoTime]]
  /\ listing = [at |-> "idle", active |-> 0, time |-> 0, late |-> FALSE,
                estimate |-> [j \in QJobs |-> NoTime]]

In(s) == {j \in QJobs : jobRow[j].state = s}

Host == clock + skew

-----------------------------------------------------------------------------
(* The queue. *)

SubmitJob(j) ==
  /\ jobRow[j].state = "none"
  /\ \A k \in In("none") : j <= k
  /\ jobRow' = [jobRow EXCEPT ![j].state = "queued", ![j].created = clock]
  /\ UNCHANGED <<clock, skew, listing>>

AtHead(j) == j \in In("queued") /\ \A k \in In("queued") : j <= k

\* An admission that falls between the two looks makes the listing late.
Admit(j) ==
  /\ AtHead(j)
  /\ Cardinality(In("running")) < Slots
  /\ jobRow' = [jobRow EXCEPT ![j].state = "running", ![j].started = Host]
  /\ listing' = [listing EXCEPT !.late = @ \/ listing.at = "counted"]
  /\ UNCHANGED <<clock, skew>>

Due(j) == j \in In("running") /\ jobRow[j].started + Duration = Host

Finish(j) ==
  /\ Due(j)
  /\ jobRow' = [jobRow EXCEPT ![j].state = "succeeded", ![j].finished = Host]
  /\ UNCHANGED <<clock, skew, listing>>

CancelJob(j) ==
  /\ j \in In("queued") \cup In("running")
  /\ Cardinality(In("cancelled")) < MaxCancels
  /\ jobRow' = [jobRow EXCEPT ![j].state = "cancelled", ![j].finished = clock]
  /\ UNCHANGED <<clock, skew, listing>>

\* Polls and looks are short: no time passes while one is outstanding.
TimePasses ==
  /\ clock < MaxClock /\ listing.at # "counted"
  /\ \A j \in QJobs : ~Due(j)
  /\ In("queued") # {} => Cardinality(In("running")) = Slots
  /\ clock' = clock + 1
  /\ UNCHANGED <<skew, jobRow, listing>>

-----------------------------------------------------------------------------
(* list_queues. *)

Count ==
  /\ listing.at = "idle"
  /\ listing' = [listing EXCEPT !.at = "counted", !.active = Cardinality(In("running")),
                                !.time = clock]
  /\ UNCHANGED <<clock, skew, jobRow>>

\* The average of what ran, which is what every job runs here unless one was
\* cancelled; none yet, no estimate.
Ran == {j \in QJobs : jobRow[j].started # NoTime /\ jobRow[j].finished # NoTime}

Average ==
  MapThenSumSet(LAMBDA j : jobRow[j].finished - jobRow[j].started, Ran) \div Cardinality(Ran)

Position(j) == Cardinality({k \in In("queued") : k <= j})

\* Mutant: rounded down.
RoundsDown(position, active) == Max({0, (position - Max({0, Slots - active})) \div Slots})

\* Full rounds of the queue before the job at this position starts.
Rounds(position, active) ==
  LET free   == Max({0, Slots - active})
      rounds == (position - free + Slots - 1) \div Slots
  IN  Max({0, rounds})

Estimate ==
  /\ listing.at = "counted"
  /\ listing' = [listing EXCEPT !.at = "done",
       !.estimate = [j \in QJobs |->
          IF j \in In("queued") /\ Ran # {}
          THEN Average * Rounds(Position(j), listing.active) ELSE NoTime]]
  /\ UNCHANGED <<clock, skew, jobRow>>

QueueNext ==
  \/ \E j \in QJobs : SubmitJob(j) \/ Admit(j) \/ Finish(j) \/ CancelJob(j)
  \/ TimePasses \/ Count \/ Estimate

QueueSpec == QueueInit /\ [][QueueNext]_queueVars

-----------------------------------------------------------------------------
(* Service.summary. *)

Later(t, u) == IF t > u THEN t ELSE u

\* Mutant: only the creation is corrected.
FinishedAsRead(r) == r.finished

\* Times out of order are moved together, the start being believed.
Created(r)  == IF r.started # NoTime /\ r.started < r.created THEN r.started ELSE r.created
Finished(r) == IF r.started # NoTime /\ r.finished # NoTime /\ r.finished < r.started
               THEN r.started ELSE r.finished

Elapsed(r) ==
  LET from == IF r.started # NoTime THEN r.started ELSE Created(r)
      to   == IF r.finished # NoTime THEN Finished(r) ELSE clock
  IN  Later(0, to - from)

QueueWait(r) ==
  LET to == IF r.started # NoTime THEN r.started
            ELSE IF r.finished # NoTime THEN Finished(r) ELSE clock
  IN  Later(0, to - Created(r))

-----------------------------------------------------------------------------
(* Properties. *)

\* No job waits longer than list_queues said, with any number of running and
\* waiting jobs, when every job runs as long as those before it. Whoever is
\* admitted between the two looks takes a slot that was counted as free and
\* has left the line: with any number of such admissions, and of jobs that end
\* between the looks, what is said is too short by one round and never by two.
\* Excepted are cancelled jobs, which run shorter (service.py list_queues).
EstimateIsEnough ==
  listing.at = "done" /\ In("cancelled") = {} =>
    \A j \in QJobs : listing.estimate[j] # NoTime =>
      LET start == IF jobRow[j].started = NoTime THEN clock ELSE jobRow[j].started - skew
          round == IF listing.late THEN Duration ELSE 0
      IN  start - listing.time <= listing.estimate[j] + round

\* The state is well typed, the reported times are in order and the reported
\* spans fit together, however far the clocks are apart and whoever ended the
\* job: what it waited and ran add up to the time from creation to end.
TimesFitTogether ==
  /\ QueueTypeOK
  /\ \A j \in QJobs : LET r == jobRow[j] IN
    /\ r.started # NoTime => Created(r) <= r.started
    /\ r.finished # NoTime => Created(r) <= Finished(r)
    /\ r.started # NoTime /\ r.finished # NoTime =>
         /\ r.started <= Finished(r)
         /\ QueueWait(r) + Elapsed(r) = Finished(r) - Created(r)
=============================================================================
