---------------------------- MODULE StoreOpening ----------------------------
(***************************************************************************)
(* Opening the registry (Store.__init__ and _migrate_completions, db.py).  *)
(* Every process that uses a data directory opens its database first, and  *)
(* brings one that an earlier version wrote up to date: missing columns    *)
(* are added one statement at a time, then the state events are made a     *)
(* completion feed in one transaction.  What is missing is read before,    *)
(* outside any transaction, and any number of processes do this at once,   *)
(* may be killed, and then use the store while others still open it.       *)
(***************************************************************************)
EXTENDS JobStore, SequencesExt

CONSTANTS
  Processes,
  Columns,       \* the columns an earlier version did not have
  LegacyStates,  \* states the rows of an earlier version are in
  LegacyEvents,  \* terminal events it may have written
  MaxLegacy,     \* how many of them at most (bound)
  MaxKills       \* how many processes are killed (bound)

ASSUME OpeningAssumption ==
  /\ IsFiniteSet(Columns)
  /\ LegacyStates \subseteq States
  /\ LegacyEvents \subseteq Event
  /\ MaxLegacy \in Nat /\ MaxKills \in Nat

VARIABLES
  columns,  \* the columns there are by now
  index,    \* whether state_events_terminal_job_idx exists
  opening,  \* how far each process is
  missing,  \* the columns it has found missing
  kills

opener == <<opening, missing>>
vars   == <<store, columns, index, opener, kills>>

OpeningTypeOK ==
  /\ StoreTypeOK
  /\ columns \subseteq Columns
  /\ index => columns = Columns
  /\ opening \in [Processes -> {"closed", "columns", "index", "migrate", "open"}]
  /\ missing \in [Processes -> SUBSET Columns]
  /\ \A p \in Processes : opening[p] = "open" => index
  /\ kills \in 0..MaxKills

\* An earlier version wrote its events with the rows but did not keep them
\* unique, and rows of older versions have no event at all.
LegacyFeeds == UNION {[1..n -> LegacyEvents] : n \in 0..MaxLegacy}

Init ==
  /\ state \in [Jobs -> LegacyStates]
  /\ owner = [j \in Jobs |-> NoRunner]
  /\ cmd = [j \in Jobs |-> NoRunner]
  /\ order = [j \in Jobs |-> 0]
  /\ code = [j \in Jobs |-> NoCode]
  /\ feed \in {f \in LegacyFeeds : \A i \in DOMAIN f : state[f[i].job] # "absent"}
  /\ columns \in {{}, Columns}
  /\ index = FALSE
  /\ opening = [p \in Processes |-> "closed"]
  /\ missing = [p \in Processes |-> {}]
  /\ kills = 0

-----------------------------------------------------------------------------
(* Opening. *)

Advance(p, from, to) ==
  /\ opening[p] = from
  /\ opening' = [opening EXCEPT ![p] = to]
  /\ UNCHANGED kills

\* Mutant of Scan: every column of the list is added.
ScanNothing(p) ==
  /\ Advance(p, "closed", "columns")
  /\ missing' = [missing EXCEPT ![p] = Columns]
  /\ UNCHANGED <<store, columns, index>>

\* PRAGMA table_info.
Scan(p) ==
  /\ Advance(p, "closed", "columns")
  /\ missing' = [missing EXCEPT ![p] = Columns \ columns]
  /\ UNCHANGED <<store, columns, index>>

\* ALTER TABLE ADD COLUMN, which fails when somebody else was faster.
AddColumn(p) ==
  \E c \in missing[p] :
    /\ \/ /\ c \notin columns
          /\ Advance(p, "columns", "columns")
          /\ missing' = [missing EXCEPT ![p] = @ \ {c}]
       \/ /\ c \in columns
          /\ Advance(p, "columns", "closed")
          /\ missing' = [missing EXCEPT ![p] = {}]
    /\ columns' = columns \cup {c}
    /\ UNCHANGED <<store, index>>

\* The index is looked up outside the transaction of the migration.
LookUp(p) ==
  /\ missing[p] = {}
  /\ Advance(p, "columns", IF index THEN "open" ELSE "migrate")
  /\ UNCHANGED <<store, columns, index, missing>>

\* Mutant of Kept: of each job the last event is kept.
KeptLast ==
  {i \in DOMAIN feed : \A k \in (i + 1)..Len(feed) : feed[k].job # feed[i].job}

\* Mutant of Kept: the feed is built from the rows alone.
KeptNone == {}

\* The events that are kept: of each job the first that agrees with its row.
Kept ==
  {i \in DOMAIN feed :
     /\ feed[i].state = state[feed[i].job]
     /\ \A k \in 1..(i - 1) : feed[k] # feed[i]}

\* A set of ids in their order.
Increasing(ids) ==
  {s \in SetToSeqs(ids) : \A i, k \in DOMAIN s : i < k => s[i] < s[k]}

\* Rows without an event get one, in the order of finished_at, which any
\* order of the jobs may be.
Migrate(p) ==
  /\ Advance(p, "migrate", "open")
  /\ LET bare == {j \in Jobs : state[j] \in Terminal /\ \A i \in Kept : feed[i].job # j}
     IN \E ids \in Increasing(Kept), js \in SetToSeqs(bare) :
          feed' = [i \in DOMAIN ids |-> feed[ids[i]]]
                    \o [i \in DOMAIN js |-> [job |-> js[i], state |-> state[js[i]]]]
  /\ index' = TRUE
  /\ UNCHANGED <<state, owner, cmd, order, code, columns, missing>>

Kill(p) ==
  /\ opening[p] # "closed"
  /\ kills < MaxKills
  /\ opening' = [opening EXCEPT ![p] = "closed"]
  /\ missing' = [missing EXCEPT ![p] = {}]
  /\ kills' = kills + 1
  /\ UNCHANGED <<store, columns, index>>

\* A process that has opened the store submits jobs and ends them.
Use(p) ==
  /\ opening[p] = "open"
  /\ \E j \in Jobs : Create(j) \/ (state[j] # "absent" /\ \E s \in LegacyStates \ {"absent"} : SetState(j, s))
  /\ UNCHANGED <<columns, index, opener, kills>>

OpenStep(p) == Scan(p) \/ AddColumn(p) \/ LookUp(p) \/ Migrate(p)

Next == \E p \in Processes : OpenStep(p) \/ Kill(p) \/ Use(p)

Spec == Init /\ [][Next]_vars

\* A process that could not open the store is started again.
FairSpec == Spec /\ \A p \in Processes : WF_vars(OpenStep(p))

-----------------------------------------------------------------------------
\* The state is well typed, an open store has its columns and its index, and
\* whoever has it open sees a feed with one event for each terminal
\* job and no other, whatever history an earlier version left behind
\* (_migrate_completions, and the transactions of Store after it).
OpenFeedIsSound == OpeningTypeOK /\ ((\E p \in Processes : opening[p] = "open") => OneTerminalEvent)

\* A second migration, by a process that had looked for the index too early,
\* renumbers and drops nothing: cursors handed out in between stay good.
MigratedOnce == [][index => IsPrefix(feed, feed')]_vars

\* Processes that open an old database at once may make each other fail, but
\* none of them fails for ever.
EverybodyOpens == \A p \in Processes : <>(opening[p] = "open")
=============================================================================
