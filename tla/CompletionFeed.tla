--------------------------- MODULE CompletionFeed ---------------------------
(***************************************************************************)
(* The completion feed: several clients read the terminal events of the    *)
(* jobs they watch in pages behind a cursor they keep themselves           *)
(* (service.py completions), each terminal result being collected once and *)
(* frozen as a snapshot (_terminal_result), while jobs end, remote hosts   *)
(* drop out and come back, and clients die with a page half processed.     *)
(*                                                                         *)
(* The event of a local job is written by its runner at any moment.  That  *)
(* of a remote job is written by the client whose status call finds the    *)
(* command over.  Event ids are the positions of the feed, which only      *)
(* grows at its end (FeedAppendOnly of JobStore), and outcome[j] is what   *)
(* the row of j holds of its end.                                          *)
(*                                                                         *)
(* A reader turns pages for as long as it likes, or makes the calls of one *)
(* command: `completions --drain` (cli.py) reads until nothing is active,  *)
(* and wait_group (service.py) besides narrows its selection to the jobs   *)
(* that were active after the last page.                                   *)
(***************************************************************************)
EXTENDS Naturals, Sequences, FiniteSets

CONSTANTS
  Jobs,        \* the jobs being watched by somebody
  Remote,      \* those that run on another host
  Readers,     \* the clients of the feed
  Roles,       \* what the readers may be, and the jobs each selects, in order
  Limit,       \* page size
  MaxOutages,  \* bound: times the remote host drops out
  MaxDrops     \* bound: clients that die, or whose response is lost

ASSUME FeedAssumption ==
  /\ Remote \subseteq Jobs
  /\ Roles \subseteq [Readers -> [mode : {"pages", "drain", "group"}, jobs : Seq(Jobs) \ {<<>>}]]
  /\ Limit \in Nat \ {0}
  /\ MaxOutages \in Nat
  /\ MaxDrops \in Nat

VARIABLES
  role,         \* what each reader is, for good
  select,       \* the selection of its next call
  over,         \* remote jobs whose command has ended
  outcome,      \* "active"; "partial" while a terminal row lacks the exit code
  feed,         \* jobs in the order of their terminal events
  snapshot,     \* what the frozen result of the job holds, or "none"
  up,           \* is the remote host reachable?
  outages, drops,
  pc,           \* where each reader is in its call
  at,           \* its position in the loop it is in
  unreachable,  \* unreachable_job_ids
  page, more,   \* ids of the events of this page; has_more
  rows,         \* what it read of each watched row after the page
  found,        \* the result it has collected and not yet stored
  items,        \* results assembled so far: <<event id, result>>
  cursor,       \* the cursor the client keeps between calls
  got           \* every item the client has ever processed

world == <<over, outcome, feed, snapshot, up, outages, drops>>
call  == <<pc, at, unreachable, page, more, rows, found, items>>
vars  == <<role, select, world, call, cursor, got>>

-----------------------------------------------------------------------------
Results == {"partial", "full"}
Watched(r) == {role[r].jobs[i] : i \in DOMAIN role[r].jobs}

Selected(r) == {select[r][i] : i \in DOMAIN select[r]}

\* Events after the cursor that concern reader r.
After(r) == {i \in DOMAIN feed : i > cursor[r] /\ feed[i] \in Selected(r)}

\* The first n members of a set of event ids, in order.
FirstOf(ids, n) == {i \in ids : Cardinality({k \in ids : k < i}) < n}

InOrder(ids) ==
  [n \in 1..Cardinality(ids) |-> CHOOSE i \in ids : Cardinality({k \in ids : k < i}) = n - 1]

Unread == [j \in Jobs |-> "unread"]

\* active_job_ids, from the rows read after the page.
StillActive(r) == {j \in Selected(r) : rows[r][j] = "active"}

FeedTypeOK ==
  /\ over \subseteq Remote
  /\ outcome \in [Jobs -> {"active"} \cup Results]
  /\ feed \in Seq(Jobs)
  /\ snapshot \in [Jobs -> {"none"} \cup Results]
  /\ up \in BOOLEAN
  /\ outages \in 0..MaxOutages /\ drops \in 0..MaxDrops
  /\ pc \in [Readers -> {"idle", "reconcile", "current", "assemble", "save", "drained", "done", "gave up"}]
  /\ role \in Roles
  /\ select \in [Readers -> Seq(Jobs)]
  /\ \A r \in Readers : Selected(r) \subseteq Watched(r)
  /\ at \in [Readers -> Nat]
  /\ unreachable \in [Readers -> SUBSET Jobs]
  /\ page \in [Readers -> Seq(DOMAIN feed)]
  /\ more \in [Readers -> BOOLEAN]
  /\ rows \in [Readers -> [Jobs -> {"unread", "active"} \cup Results]]
  /\ found \in [Readers -> {"none"} \cup Results]
  /\ items \in [Readers -> Seq((DOMAIN feed) \X Results)]
  /\ cursor \in [Readers -> 0..Len(feed)]
  /\ got \in [Readers -> SUBSET ((DOMAIN feed) \X Results)]

Init ==
  /\ role \in Roles
  /\ select = [r \in Readers |-> role[r].jobs]
  /\ over = {}
  /\ outcome = [j \in Jobs |-> "active"]
  /\ feed = <<>>
  /\ snapshot = [j \in Jobs |-> "none"]
  /\ up = TRUE
  /\ outages = 0 /\ drops = 0
  /\ pc = [r \in Readers |-> "idle"]
  /\ at = [r \in Readers |-> 1]
  /\ unreachable = [r \in Readers |-> {}]
  /\ page = [r \in Readers |-> <<>>]
  /\ more = [r \in Readers |-> FALSE]
  /\ rows = [r \in Readers |-> Unread]
  /\ found = [r \in Readers |-> "none"]
  /\ items = [r \in Readers |-> <<>>]
  /\ cursor = [r \in Readers |-> 0]
  /\ got = [r \in Readers |-> {}]

-----------------------------------------------------------------------------
(* The jobs and the host. *)

\* The terminal update of a row appends its event in the same transaction.
Ends(j, result) ==
  /\ outcome' = [outcome EXCEPT ![j] = result]
  /\ feed' = Append(feed, j)

\* The runner records the end.  A command that is over time is recorded as
\* timed out before it is killed, so its exit code comes later (Settles) or,
\* if the runner dies first, never.
LocalEnds(j) ==
  /\ j \notin Remote
  /\ outcome[j] = "active"
  /\ \E result \in Results : Ends(j, result)
  /\ UNCHANGED <<role, select, over, snapshot, up, outages, drops, call, cursor, got>>

Settles(j) ==
  /\ outcome[j] = "partial"
  /\ outcome' = [outcome EXCEPT ![j] = "full"]
  /\ UNCHANGED <<role, select, over, feed, snapshot, up, outages, drops, call, cursor, got>>

RemoteEnds(j) ==
  /\ j \in Remote \ over
  /\ over' = over \cup {j}
  /\ UNCHANGED <<role, select, outcome, feed, snapshot, up, outages, drops, call, cursor, got>>

HostDown ==
  /\ up /\ outages < MaxOutages
  /\ up' = FALSE
  /\ outages' = outages + 1
  /\ UNCHANGED <<role, select, over, outcome, feed, snapshot, drops, call, cursor, got>>

HostUp ==
  /\ ~up
  /\ up' = TRUE
  /\ UNCHANGED <<role, select, over, outcome, feed, snapshot, outages, drops, call, cursor, got>>

-----------------------------------------------------------------------------
(* One call of completions. *)

\* A pass over the selection starts, or a call is over: what the last pass
\* has found is gone.
Fresh(r, to) ==
  /\ pc' = [pc EXCEPT ![r] = to]
  /\ at' = [at EXCEPT ![r] = 1]
  /\ unreachable' = [unreachable EXCEPT ![r] = {}]
  /\ page' = [page EXCEPT ![r] = <<>>]
  /\ more' = [more EXCEPT ![r] = FALSE]
  /\ rows' = [rows EXCEPT ![r] = Unread]
  /\ found' = [found EXCEPT ![r] = "none"]
  /\ items' = [items EXCEPT ![r] = <<>>]

Call(r) ==
  /\ pc[r] \in {"idle", "drained"}
  /\ Fresh(r, "reconcile")
  /\ UNCHANGED <<role, select, world, cursor, got>>

\* Mutant of Reconcile: the feed is read from the store alone.
ReconcileNobody(r) ==
  /\ pc[r] = "reconcile"
  /\ at[r] \in DOMAIN select[r]
  /\ at' = [at EXCEPT ![r] = @ + 1]
  /\ UNCHANGED <<role, select, world, pc, unreachable, page, more, rows, found, items, cursor, got>>

\* status of the next watched job that is not terminal.  A remote command
\* that is over gets its terminal row and event here, if the host answers.
Reconcile(r) ==
  /\ pc[r] = "reconcile"
  /\ at[r] \in DOMAIN select[r]
  /\ LET j == select[r][at[r]]
         asks == outcome[j] = "active" /\ j \in Remote
     IN /\ IF asks /\ up /\ j \in over
             THEN Ends(j, "full")
             ELSE UNCHANGED <<outcome, feed>>
        /\ unreachable' = IF asks /\ ~up
                            THEN [unreachable EXCEPT ![r] = @ \cup {j}]
                            ELSE unreachable
  /\ at' = [at EXCEPT ![r] = @ + 1]
  /\ UNCHANGED <<role, select, over, snapshot, up, outages, drops, pc, page, more, rows, found, items, cursor, got>>

\* Mutant of Query: the page starts at the cursor itself.
QueryFromCursor(r) ==
  LET ids == {i \in DOMAIN feed : i >= cursor[r] /\ feed[i] \in Selected(r)} IN
  /\ pc[r] = "reconcile"
  /\ at[r] \notin DOMAIN select[r]
  /\ page' = [page EXCEPT ![r] = InOrder(FirstOf(ids, Limit))]
  /\ more' = [more EXCEPT ![r] = Cardinality(ids) > Limit]
  /\ pc' = [pc EXCEPT ![r] = "current"]
  /\ at' = [at EXCEPT ![r] = 1]
  /\ UNCHANGED <<role, select, world, unreachable, rows, found, items, cursor, got>>

\* Store.completion_events, asked for one event more than the page takes.
Query(r) ==
  /\ pc[r] = "reconcile"
  /\ at[r] \notin DOMAIN select[r]
  /\ page' = [page EXCEPT ![r] = InOrder(FirstOf(After(r), Limit))]
  /\ more' = [more EXCEPT ![r] = Cardinality(After(r)) > Limit]
  /\ pc' = [pc EXCEPT ![r] = "current"]
  /\ at' = [at EXCEPT ![r] = 1]
  /\ UNCHANGED <<role, select, world, unreachable, rows, found, items, cursor, got>>

\* The rows are read again, one by one, after the page.
Current(r) ==
  /\ pc[r] = "current"
  /\ IF at[r] \in DOMAIN select[r]
       THEN /\ LET j == select[r][at[r]] IN rows' = [rows EXCEPT ![r][j] = outcome[j]]
            /\ at' = [at EXCEPT ![r] = @ + 1]
            /\ UNCHANGED pc
       ELSE /\ pc' = [pc EXCEPT ![r] = "assemble"]
            /\ at' = [at EXCEPT ![r] = 1]
            /\ UNCHANGED rows
  /\ UNCHANGED <<role, select, world, unreachable, page, more, found, items, cursor, got>>

\* The next event of the page, while there is one.
Assembling(r) == pc[r] = "assemble" /\ at[r] \in DOMAIN page[r]
NextEvent(r) == page[r][at[r]]

AddItem(r, result) ==
  /\ items' = [items EXCEPT ![r] = Append(@, <<NextEvent(r), result>>)]
  /\ at' = [at EXCEPT ![r] = @ + 1]

\* _terminal_result of a job that has a snapshot: no backend is involved.
Replay(r) ==
  /\ Assembling(r)
  /\ snapshot[feed[NextEvent(r)]] # "none"
  /\ AddItem(r, snapshot[feed[NextEvent(r)]])
  /\ UNCHANGED <<role, select, world, pc, unreachable, page, more, rows, found, cursor, got>>

\* Without one, logs and artifacts are read from where the job ran.
Reachable(j) == j \notin Remote \/ up

Collect(r) ==
  /\ Assembling(r)
  /\ LET j == feed[NextEvent(r)] IN
       /\ snapshot[j] = "none"
       /\ Reachable(j)
       /\ found' = [found EXCEPT ![r] = rows[r][j]]
  /\ pc' = [pc EXCEPT ![r] = "save"]
  /\ UNCHANGED <<role, select, world, at, unreachable, page, more, rows, items, cursor, got>>

\* Mutant of CollectFails: the event is passed over, later ones are returned.
CollectSkips(r) ==
  /\ Assembling(r)
  /\ LET j == feed[NextEvent(r)] IN
       /\ snapshot[j] = "none"
       /\ ~Reachable(j)
       /\ unreachable' = [unreachable EXCEPT ![r] = @ \cup {j}]
  /\ at' = [at EXCEPT ![r] = @ + 1]
  /\ UNCHANGED <<role, select, world, pc, page, more, rows, found, items, cursor, got>>

\* The result is out of reach: the page ends here, with more to come.
CollectFails(r) ==
  /\ Assembling(r)
  /\ LET j == feed[NextEvent(r)] IN
       /\ snapshot[j] = "none"
       /\ ~Reachable(j)
       /\ unreachable' = [unreachable EXCEPT ![r] = @ \cup {j}]
  /\ more' = [more EXCEPT ![r] = TRUE]
  /\ at' = [at EXCEPT ![r] = Len(page[r]) + 1]
  /\ UNCHANGED <<role, select, world, pc, page, rows, found, items, cursor, got>>

\* Mutant of Save: the caller returns what it collected, not what is stored.
SaveOwn(r) ==
  /\ pc[r] = "save"
  /\ LET j == feed[NextEvent(r)] IN
       snapshot' = [snapshot EXCEPT ![j] = IF @ = "none" THEN found[r] ELSE @]
  /\ AddItem(r, found[r])
  /\ pc' = [pc EXCEPT ![r] = "assemble"]
  /\ found' = [found EXCEPT ![r] = "none"]
  /\ UNCHANGED <<role, select, over, outcome, feed, up, outages, drops, unreachable, page, more, rows, cursor, got>>

\* Store.create_snapshot: INSERT OR IGNORE, then return the stored row.
Save(r) ==
  /\ pc[r] = "save"
  /\ LET j == feed[NextEvent(r)] IN
       /\ snapshot' = [snapshot EXCEPT ![j] = IF @ = "none" THEN found[r] ELSE @]
       /\ AddItem(r, snapshot'[j])
  /\ pc' = [pc EXCEPT ![r] = "assemble"]
  /\ found' = [found EXCEPT ![r] = "none"]
  /\ UNCHANGED <<role, select, over, outcome, feed, up, outages, drops, unreachable, page, more, rows, cursor, got>>

-----------------------------------------------------------------------------
(* The response, and what the client does with it. *)

Assembled(r) == pc[r] = "assemble" /\ at[r] \notin DOMAIN page[r]
ItemsOf(r) == {items[r][n] : n \in DOMAIN items[r]}

\* What a reader does next when a call has returned: turn the page later,
\* call again at once, or stop.
CallsAgain(r) ==
  CASE role[r].mode = "pages" -> TRUE
    [] role[r].mode = "drain" -> StillActive(r) # {} \/ more[r]
    [] role[r].mode = "group" -> StillActive(r) # {}

\* The next selection of wait_group: active_job_ids, in the order of this one.
StillSelected(r) ==
  LET kept == InOrder({n \in DOMAIN select[r] : select[r][n] \in StillActive(r)})
  IN  [n \in DOMAIN kept |-> select[r][kept[n]]]

Returned(r, stops) ==
  /\ Fresh(r, IF CallsAgain(r) THEN "idle" ELSE stops)
  /\ select' = IF role[r].mode = "group"
                 THEN [select EXCEPT ![r] = StillSelected(r)]
                 ELSE select
  /\ UNCHANGED <<role, world>>

\* The client processes the page, then keeps next_cursor.
Deliver(r) ==
  /\ Assembled(r)
  /\ items[r] # <<>>
  /\ got' = [got EXCEPT ![r] = @ \cup ItemsOf(r)]
  /\ cursor' = [cursor EXCEPT ![r] = items[r][Len(items[r])][1]]
  /\ Returned(r, "done")

\* It processes the page and dies before it has kept the cursor.
Crash(r) ==
  /\ role[r].mode = "pages"
  /\ Assembled(r) /\ items[r] # <<>>
  /\ drops < MaxDrops
  /\ drops' = drops + 1
  /\ got' = [got EXCEPT ![r] = @ \cup ItemsOf(r)]
  /\ Fresh(r, "idle")
  /\ UNCHANGED <<role, select, over, outcome, feed, snapshot, up, outages, cursor>>

\* It dies, or the response is lost, at any point of the call.
Drop(r) ==
  /\ role[r].mode = "pages"
  /\ pc[r] \notin {"idle", "drained"}
  /\ drops < MaxDrops
  /\ drops' = drops + 1
  /\ Fresh(r, "idle")
  /\ UNCHANGED <<role, select, over, outcome, feed, snapshot, up, outages, cursor, got>>

\* Nothing to deliver, nothing active, nothing out of reach: a drained feed.
IsDrained(r) == StillActive(r) = {} /\ unreachable[r] = {} /\ page[r] = <<>>

Drained(r) ==
  /\ Assembled(r) /\ items[r] = <<>>
  /\ IsDrained(r)
  /\ Fresh(r, IF role[r].mode = "pages" THEN "drained" ELSE "done")
  /\ UNCHANGED <<role, select, world, cursor, got>>

\* The wait of this call is over; the cursor stays.
TimedOut(r) ==
  /\ Assembled(r) /\ items[r] = <<>>
  /\ ~IsDrained(r)
  /\ Fresh(r, IF role[r].mode = "pages" THEN "idle" ELSE "gave up")
  /\ UNCHANGED <<role, select, world, cursor, got>>

\* After the poll interval the selection is reconciled again.
Again(r) ==
  /\ Assembled(r) /\ items[r] = <<>>
  /\ ~IsDrained(r)
  /\ Fresh(r, "reconcile")
  /\ UNCHANGED <<role, select, world, cursor, got>>

-----------------------------------------------------------------------------
Works(r) ==
  \/ Reconcile(r) \/ Query(r) \/ Current(r)
  \/ Replay(r) \/ Collect(r) \/ CollectFails(r) \/ Save(r)
  \/ Deliver(r) \/ Drained(r) \/ TimedOut(r) \/ Again(r)

Next ==
  \/ \E j \in Jobs : LocalEnds(j) \/ Settles(j) \/ RemoteEnds(j)
  \/ HostDown \/ HostUp
  \/ \E r \in Readers : Call(r) \/ Works(r) \/ Crash(r) \/ Drop(r)

Spec == Init /\ [][Next]_vars

\* A call goes on, a client calls again, the host comes back.  Jobs need
\* not end, and the exit code of a timed out job need not arrive.
Fairness ==
  /\ WF_vars(HostUp)
  /\ \A r \in Readers : WF_vars(Call(r) \/ Works(r))

FairSpec == Spec /\ Fairness

-----------------------------------------------------------------------------
(* Cursor order is a delivery guarantee: every watched event up to the     *)
(* cursor has been processed, whatever was unreachable, lost or crashed on *)
(* the way, so a stored cursor never hides a completion (service.py 674).  *)
NothingSkipped ==
  \A r \in Readers : \A i \in DOMAIN feed :
    feed[i] \in Selected(r) /\ i <= cursor[r] => \E x \in got[r] : x[1] = i

(* A completion has one result for ever: two deliveries of an event, to    *)
(* the same client after a lost response or to two clients that collect it *)
(* at the same time, agree, even when the row changed in between.          *)
OneResult ==
  \A r, s \in Readers : \A x \in got[r], y \in got[s] : x[1] = y[1] => x[2] = y[2]

(* The state is well typed, and a page returned is a run of consecutive    *)
(* watched events right behind the cursor: none is repeated, none is left  *)
(* out, so next_cursor is the id of the last of them and nothing between   *)
(* is lost; a page that was cut short says that there is more, and         *)
(* has_more is only said when there is.                                    *)
PageIsConsecutive ==
  /\ FeedTypeOK
  /\ \A r \in Readers : Assembled(r) =>
    LET ids == {x[1] : x \in ItemsOf(r)} IN
      /\ Cardinality(ids) = Len(items[r])
      /\ ids = FirstOf(After(r), Len(items[r]))
      /\ ~more[r] => Len(items[r]) = Len(page[r])
      /\ more[r] => Cardinality(After(r)) > Len(items[r])

(* A completion reaches every client that watches the job and keeps        *)
(* calling: a local job once its event exists, a remote one once its       *)
(* command is over, through any bounded number of outages and crashes.     *)
EventuallyDelivered ==
  <>[](\A r \in Readers : role[r].mode = "pages" =>
         \A j \in Watched(r) : j \in over \/ outcome[j] # "active" =>
           \E x \in got[r] : feed[x[1]] = j)

(* Waiting for a group or draining a selection comes to an end once all of *)
(* its commands have, whatever pages the completions come in and although  *)
(* the host of some of them is away for a while.                           *)
WaitReturns ==
  <>[](\A r \in Readers :
         /\ role[r].mode # "pages"
         /\ \A j \in Watched(r) : j \in over \/ outcome[j] # "active"
         => pc[r] \in {"done", "gave up"})

-----------------------------------------------------------------------------
(* "wait for all selected jobs and manage the cursor internally" (cli.py   *)
(* 146, of --drain): a client that has waited for its selection, and was   *)
(* not timed out, has the completion of every job in it.  A drained page   *)
(* is returned because the selection "cannot produce another completion    *)
(* after this cursor" (service.py 709).                                    *)
WaitIsComplete ==
  \A r \in Readers : pc[r] = "done" =>
    \A j \in Watched(r) : \E x \in got[r] : feed[x[1]] = j
=============================================================================
