-------------------------- MODULE StandaloneProofs ---------------------------
(***************************************************************************)
(* Proofs for the four parts that share no state with any other: how a     *)
(* store is opened, what is reported about the files of a job, the         *)
(* estimates of list_queues with the times of a summary, and the job of    *)
(* the tmux wrapper. Each section has its own specification, invariant and *)
(* theorems.                                                               *)
(***************************************************************************)
EXTENDS StoreOpening, FileReports, QueueReport, TmuxJob, JobStoreProofs,
        SequenceTheorems, FiniteSetTheorems, WellFoundedInduction, TLAPS

\* A set of numbers that is not empty has a least one.
LEMMA LeastOf ==
  ASSUME NEW S \in SUBSET Nat, S # {}
  PROVE  Min(S) \in S /\ \A k \in S : Min(S) <= k
<1>1. \E i \in S : \A k \in S : ~(<<k, i>> \in OpToRel(<, Nat))
  BY NatLessThanWellFounded, WFMin
<1>2. \E i \in S : \A k \in S : ~(k < i)
  BY <1>1 DEF OpToRel
<1>3. \E i \in S : \A k \in S : i <= k
  BY <1>2
<1>4. QED
  BY <1>3 DEF Min

-----------------------------------------------------------------------------
(***************************************************************************)
(* Opening the store.                                                      *)
(*                                                                         *)
(* The migration numbers the feed anew: first the events it keeps, in the  *)
(* order of their ids, then one event for each terminal row that has none. *)
(* On a feed that is sound already it keeps everything, and the increasing *)
(* enumeration of all ids is the identity, so nothing moves.               *)
(***************************************************************************)
\* s has each of the n elements of S once.
Enumerates(s, n, S) ==
  /\ n \in Nat /\ s \in [1..n -> S] /\ s \in Seq(S) /\ Len(s) = n /\ DOMAIN s = 1..n
  /\ \A i, k \in 1..n : s[i] = s[k] => i = k
  /\ \A x \in S : \E i \in 1..n : s[i] = x

\* An enumeration of a finite set has every element once.
LEMMA Enumerated ==
  ASSUME NEW S, IsFiniteSet(S), NEW n, n = Cardinality(S), NEW s \in SetToSeqs(S)
  PROVE  Enumerates(s, n, S)
<1>1. n \in Nat
  BY FS_CardinalityType
<1>2. s \in [1..n -> S] /\ \A i, k \in 1..n : i # k => s[i] # s[k]
  BY DEF SetToSeqs
<1>3. s \in Seq(S) /\ Len(s) = n /\ DOMAIN s = 1..n
  BY <1>1, <1>2
<1>4. s \in Injection(1..n, S)
  BY <1>2 DEF Injection, IsInjective
<1>5. IsFiniteSet(1..n) /\ Cardinality(1..n) = n
  BY <1>1, FS_Interval
<1>6. s \in Surjection(1..n, S)
  BY <1>4, <1>5, FS_Injection
<1>7. \A x \in S : \E i \in 1..n : s[i] = x
  BY <1>6 DEF Surjection
<1>8. QED
  BY <1>1, <1>2, <1>3, <1>7 DEF Enumerates

\* The increasing enumeration of 1..n is the identity.
LEMMA InOrder ==
  ASSUME NEW n \in Nat, NEW s \in Increasing(1..n)
  PROVE  DOMAIN s = 1..n /\ \A i \in 1..n : s[i] = i
<1>1. IsFiniteSet(1..n) /\ Cardinality(1..n) = n
  BY FS_Interval
<1>2. s \in SetToSeqs(1..n) /\ \A i, k \in DOMAIN s : i < k => s[i] < s[k]
  BY DEF Increasing
<1>3. /\ s \in [1..n -> 1..n] /\ DOMAIN s = 1..n
      /\ \A x \in 1..n : \E i \in 1..n : s[i] = x
  <2> DEFINE S == 1..n
  <2>1. IsFiniteSet(S) /\ n = Cardinality(S) /\ s \in SetToSeqs(S)
    BY <1>1, <1>2
  <2> HIDE DEF S
  <2>2. Enumerates(s, n, S)
    BY <2>1, Enumerated
  <2>3. QED
    BY <2>2 DEF S, Enumerates
<1> DEFINE Moved == {i \in 1..n : s[i] # i}
<1>4. SUFFICES ASSUME Moved # {} PROVE FALSE
  BY <1>3
<1>5. PICK i \in Moved : \A k \in Moved : i <= k
  <2>1. Moved \subseteq Nat
    OBVIOUS
  <2> HIDE DEF Moved
  <2>2. QED
    BY <1>4, <2>1, LeastOf
<1>6. i \in 1..n /\ s[i] # i /\ s[i] \in 1..n
  BY <1>3
<1>7. \A k \in 1..n : k < i => s[k] = k
  BY <1>5, <1>6
<1>8. s[i] > i
  <2>1. CASE s[i] < i
    <3>1. s[s[i]] = s[i]
      BY <1>6, <1>7, <2>1
    <3>2. s[s[i]] < s[i]
      BY <1>2, <1>3, <1>6, <2>1
    <3>3. QED
      BY <1>6, <3>1, <3>2
  <2>2. QED
    BY <1>6, <2>1
<1>9. PICK m \in 1..n : s[m] = i
  BY <1>3, <1>6
<1>10. m > i
  <2>1. ~(m < i)
    BY <1>7, <1>9
  <2>2. m # i
    BY <1>6, <1>9
  <2>3. QED
    BY <1>6, <2>1, <2>2
<1>11. s[i] < s[m]
  BY <1>2, <1>3, <1>6, <1>10
<1>12. QED
  BY <1>6, <1>8, <1>9, <1>11

-----------------------------------------------------------------------------
(* The inductive invariant. Whoever is about to migrate has seen all       *)
(* columns, and the index is there only when the feed is sound.            *)
OpeningInv ==
  /\ OpeningTypeOK
  /\ \A p \in Processes :
       /\ opening[p] = "columns" => Columns \subseteq columns \cup missing[p]
       /\ opening[p] = "migrate" => columns = Columns
  /\ index => OneTerminalEvent

Bare == {j \in Jobs : state[j] \in Terminal /\ \A i \in Kept : feed[i].job # j}

\* What the transaction of the migration writes.
LEMMA Migrated ==
  ASSUME StoreTypeOK, NEW ids \in Increasing(Kept), NEW js \in SetToSeqs(Bare),
         feed' = [i \in DOMAIN ids |-> feed[ids[i]]]
                   \o [i \in DOMAIN js |-> [job |-> js[i], state |-> state[js[i]]]],
         state' = state
  PROVE  /\ feed' \in Seq(Event) /\ OneTerminalEvent'
         /\ OneTerminalEvent => IsPrefix(feed, feed')
<1> DEFINE n == Cardinality(Kept)
           b == Cardinality(Bare)
           old == [i \in DOMAIN ids |-> feed[ids[i]]]
           new == [i \in DOMAIN js |-> [job |-> js[i], state |-> state[js[i]]]]
<1>1. /\ feed \in Seq(Event) /\ Len(feed) \in Nat /\ DOMAIN feed = 1..Len(feed)
      /\ \A i \in 1..Len(feed) : feed[i] \in Event /\ feed[i].job \in Jobs /\ feed[i].state \in Terminal
      /\ state \in [Jobs -> States]
  <2>1. feed \in Seq(Event) /\ state \in [Jobs -> States]
    BY DEF StoreTypeOK
  <2>2. Len(feed) \in Nat /\ DOMAIN feed = 1..Len(feed) /\ \A i \in 1..Len(feed) : feed[i] \in Event
    BY <2>1
  <2>3. \A e \in Event : e.job \in Jobs /\ e.state \in Terminal
    BY DEF Event
  <2>4. QED
    BY <2>1, <2>2, <2>3
<1>2. Kept \subseteq 1..Len(feed) /\ IsFiniteSet(Kept)
  <2>1. IsFiniteSet(1..Len(feed)) /\ Kept \subseteq 1..Len(feed)
    BY <1>1, FS_Interval DEF Kept
  <2>2. QED
    BY <2>1, FS_Subset
<1>3. Bare \subseteq Jobs /\ IsFiniteSet(Bare) /\ \A j \in Bare : state[j] \in Terminal
  BY StoreAssumption, FS_Subset DEF Bare
<1>4. ids \in SetToSeqs(Kept)
  BY DEF Increasing
<1>5. /\ n \in Nat /\ ids \in [1..n -> Kept] /\ DOMAIN ids = 1..n
      /\ \A i, k \in 1..n : ids[i] = ids[k] => i = k
      /\ \A x \in Kept : \E i \in 1..n : ids[i] = x
  <2>1. IsFiniteSet(Kept) /\ n = Cardinality(Kept) /\ ids \in SetToSeqs(Kept)
    BY <1>2, <1>4
  <2> HIDE DEF n, b, old, new
  <2>2. Enumerates(ids, n, Kept)
    BY <2>1, Enumerated
  <2>3. QED
    BY <2>2 DEF Enumerates
<1>6. /\ b \in Nat /\ js \in [1..b -> Bare] /\ DOMAIN js = 1..b
      /\ \A i, k \in 1..b : js[i] = js[k] => i = k
      /\ \A x \in Bare : \E i \in 1..b : js[i] = x
  <2>1. IsFiniteSet(Bare) /\ b = Cardinality(Bare) /\ js \in SetToSeqs(Bare)
    BY <1>3
  <2> HIDE DEF n, b, old, new
  <2>2. Enumerates(js, b, Bare)
    BY <2>1, Enumerated
  <2>3. QED
    BY <2>2 DEF Enumerates
<1> HIDE DEF n, b
<1>7. /\ old \in [1..n -> Event] /\ old \in Seq(Event) /\ Len(old) = n
      /\ \A i \in 1..n : old[i] = feed[ids[i]]
  <2>1. \A i \in 1..n : old[i] = feed[ids[i]]
    BY <1>5
  <2>2. \A i \in 1..n : feed[ids[i]] \in Event
    BY <1>1, <1>2, <1>5
  <2>3. old \in [1..n -> Event]
    BY <1>5, <2>2
  <2> HIDE DEF old
  <2>4. QED
    BY <1>5, <2>1, <2>3
<1>8. /\ new \in [1..b -> Event] /\ new \in Seq(Event) /\ Len(new) = b
      /\ \A i \in 1..b : new[i] = [job |-> js[i], state |-> state[js[i]]]
  <2>1. new \in [1..b -> Event]
    BY <1>3, <1>6 DEF Event
  <2>2. \A i \in 1..b : new[i] = [job |-> js[i], state |-> state[js[i]]]
    BY <1>6
  <2> HIDE DEF new
  <2>3. QED
    BY <1>6, <2>1, <2>2
<1>9. feed' = old \o new
  BY DEF old, new
<1> HIDE DEF old, new
<1>10. /\ feed' \in Seq(Event) /\ Len(feed') = n + b /\ DOMAIN feed' = 1..(n + b)
       /\ \A i \in 1..(n + b) : feed'[i] = IF i <= n THEN old[i] ELSE new[i - n]
  BY <1>5, <1>6, <1>7, <1>8, <1>9, ConcatProperties
<1>11. ASSUME NEW i \in 1..n
       PROVE  /\ i \in 1..(n + b) /\ feed'[i] = feed[ids[i]] /\ ids[i] \in Kept
              /\ feed'[i].job \in Jobs /\ feed'[i].job \notin Bare
              /\ feed'[i].state = state[feed'[i].job]
  <2>1. i \in 1..(n + b) /\ feed'[i] = feed[ids[i]] /\ ids[i] \in Kept
    BY <1>5, <1>6, <1>7, <1>10
  <2>2. QED
    BY <1>1, <1>2, <2>1 DEF Kept, Bare
<1>12. ASSUME NEW i \in 1..b
       PROVE  /\ n + i \in 1..(n + b)
              /\ feed'[n + i] = [job |-> js[i], state |-> state[js[i]]]
              /\ feed'[n + i].job = js[i] /\ js[i] \in Bare
              /\ feed'[n + i].state = state[feed'[n + i].job]
  <2>1. /\ n + i \in 1..(n + b) /\ ~(n + i <= n) /\ (n + i) - n = i
    BY <1>5, <1>6
  <2>2. feed'[n + i] = [job |-> js[i], state |-> state[js[i]]]
    BY <1>8, <1>10, <2>1
  <2>3. js[i] \in Bare
    BY <1>6
  <2>4. feed'[n + i].job = js[i] /\ feed'[n + i].state = state[js[i]]
    <3> DEFINE e == [job |-> js[i], state |-> state[js[i]]]
    <3>1. e.job = js[i] /\ e.state = state[js[i]]
      OBVIOUS
    <3>2. feed'[n + i] = e
      BY <2>2
    <3> HIDE DEF e
    <3>3. QED
      BY <3>1, <3>2
  <2>5. QED
    BY <2>1, <2>2, <2>3, <2>4
<1>13. ASSUME NEW i \in 1..(n + b)
       PROVE  i \in 1..n \/ \E k \in 1..b : i = n + k
  <2>1. CASE i > n
    <3>1. i - n \in 1..b /\ i = n + (i - n)
      BY <1>5, <1>6, <2>1
    <3>2. QED
      BY <3>1
  <2>2. QED
    BY <1>5, <2>1
<1>14. \A i \in DOMAIN feed' : state'[feed'[i].job] = feed'[i].state
  <2>1. SUFFICES ASSUME NEW i \in 1..(n + b) PROVE feed'[i].state = state[feed'[i].job]
    BY <1>10
  <2>2. CASE i \in 1..n
    BY <1>11, <2>2
  <2>3. CASE \E k \in 1..b : i = n + k
    <3>1. PICK k \in 1..b : i = n + k
      BY <2>3
    <3>2. feed'[n + k].state = state[feed'[n + k].job]
      BY <1>12
    <3>3. QED
      BY <3>1, <3>2
  <2>4. QED
    BY <1>13, <2>2, <2>3
<1>15. ASSUME NEW i \in DOMAIN feed', NEW k \in DOMAIN feed', feed'[i].job = feed'[k].job
       PROVE  i = k
  <2>1. ASSUME NEW x \in 1..n, NEW y \in 1..n, feed'[x].job = feed'[y].job PROVE x = y
    <3>1. feed[ids[x]] = feed[ids[y]]
      <4>1. /\ feed[ids[x]].job = feed[ids[y]].job /\ feed[ids[x]].state = feed[ids[y]].state
            /\ feed[ids[x]] \in Event /\ feed[ids[y]] \in Event
        <5>1. feed'[x] = feed[ids[x]] /\ feed'[x].state = state[feed'[x].job] /\ ids[x] \in Kept
          BY <1>11
        <5>2. feed'[y] = feed[ids[y]] /\ feed'[y].state = state[feed'[y].job] /\ ids[y] \in Kept
          BY <1>11
        <5>3. feed[ids[x]] \in Event /\ feed[ids[y]] \in Event
          BY <1>1, <1>2, <5>1, <5>2
        <5>4. QED
          BY <2>1, <5>1, <5>2, <5>3
      <4>2. QED
        BY <4>1 DEF Event
    <3>2. ids[x] \in 1..Len(feed) /\ ids[y] \in 1..Len(feed)
      BY <1>2, <1>11
    <3>3. ~(ids[x] < ids[y]) /\ ~(ids[y] < ids[x])
      <4>1. ASSUME NEW u \in Kept, NEW v \in Kept, u < v PROVE feed[u] # feed[v]
        <5>1. u \in 1..(v - 1)
          BY <1>1, <1>2, <4>1
        <5>2. QED
          BY <5>1 DEF Kept
      <4>2. QED
        BY <1>11, <3>1, <4>1
    <3>4. QED
      BY <1>1, <1>5, <3>2, <3>3
  <2>2. ASSUME NEW x \in 1..n, NEW y \in 1..b PROVE feed'[x].job # feed'[n + y].job
    <3>1. feed'[x].job \notin Bare
      BY <1>11
    <3>2. feed'[n + y].job \in Bare
      BY <1>12
    <3>3. QED
      BY <3>1, <3>2
  <2>3. ASSUME NEW x \in 1..b, NEW y \in 1..b, feed'[n + x].job = feed'[n + y].job PROVE x = y
    <3>1. feed'[n + x].job = js[x] /\ feed'[n + y].job = js[y]
      BY <1>12
    <3>2. QED
      BY <1>6, <2>3, <3>1
  <2>4. (i \in 1..n \/ \E x \in 1..b : i = n + x) /\ (k \in 1..n \/ \E x \in 1..b : k = n + x)
    BY <1>10, <1>13
  <2>5. QED
    BY <1>15, <2>1, <2>2, <2>3, <2>4
<1>16. ASSUME NEW j \in Jobs, state'[j] \in Terminal
       PROVE  \E i \in DOMAIN feed' : feed'[i].job = j
  <2>1. CASE j \in Bare
    <3>1. PICK i \in 1..b : js[i] = j
      BY <1>6, <2>1
    <3>2. QED
      BY <1>10, <1>12, <3>1
  <2>2. CASE j \notin Bare
    <3>1. PICK x \in Kept : feed[x].job = j
      BY <1>16, <2>2 DEF Bare
    <3>2. PICK i \in 1..n : ids[i] = x
      BY <1>5
    <3>3. QED
      BY <1>10, <1>11, <3>1, <3>2
  <2>3. QED
    BY <2>1, <2>2
<1>17. OneTerminalEvent'
  BY <1>14, <1>15, <1>16 DEF OneTerminalEvent
<1>18. ASSUME OneTerminalEvent PROVE IsPrefix(feed, feed')
  <2>1. Kept = 1..Len(feed)
    <3>1. ASSUME NEW i \in 1..Len(feed) PROVE i \in Kept
      <4>1. feed[i].state = state[feed[i].job]
        BY <1>1, <1>18 DEF OneTerminalEvent
      <4>2. ASSUME NEW k \in 1..(i - 1) PROVE feed[k] # feed[i]
        <5>1. k \in 1..Len(feed) /\ k # i
          BY <1>1
        <5>2. QED
          BY <1>1, <1>18, <5>1 DEF OneTerminalEvent
      <4>3. QED
        BY <1>1, <4>1, <4>2 DEF Kept
    <3>2. QED
      BY <1>2, <3>1
  <2>2. DOMAIN ids = 1..Len(feed) /\ \A i \in 1..Len(feed) : ids[i] = i
    BY <1>1, <2>1, InOrder
  <2>3. n = Len(feed)
    <3>1. \A m \in Nat : Cardinality(1..m) = m
      BY FS_Interval
    <3>2. QED
      BY <1>1, <2>1, <3>1 DEF n
  <2>4. \A i \in 1..Len(feed) : feed'[i] = feed[i]
    BY <1>11, <2>2, <2>3
  <2>5. SubSeq(feed, 1, Len(feed)) = feed
    BY <1>1, SubSeqFull
  <2>6. /\ SubSeq(feed', 1, Len(feed)) \in Seq(Event)
        /\ Len(SubSeq(feed', 1, Len(feed))) = Len(feed)
        /\ \A i \in 1..Len(feed) : SubSeq(feed', 1, Len(feed))[i] = feed'[i]
    BY <1>1, <1>5, <1>6, <1>10, <2>3
  <2>7. SubSeq(feed', 1, Len(feed)) = feed
    <3> DEFINE part == SubSeq(feed', 1, Len(feed))
    <3>1. part \in Seq(Event) /\ Len(part) = Len(feed) /\ \A i \in 1..Len(feed) : part[i] = feed[i]
      BY <2>4, <2>6
    <3> HIDE DEF part
    <3>2. part = feed
      BY <1>1, <3>1
    <3>3. QED
      BY <3>2 DEF part
  <2>8. QED
    BY <1>1, <1>5, <1>6, <1>10, <2>3, <2>5, <2>7 DEF IsPrefix
<1>19. QED
  BY <1>10, <1>17, <1>18

\* It holds of whatever an earlier version left, and every step keeps it.
LEMMA OpeningInvInit == Init => OpeningInv
<1> SUFFICES ASSUME Init PROVE OpeningInv
  OBVIOUS
<1>1. PICK m \in 0..MaxLegacy : feed \in [1..m -> LegacyEvents]
  BY DEF Init, LegacyFeeds
<1>2. feed \in Seq(Event)
  <2>1. m \in Nat /\ feed \in [1..m -> Event]
    BY <1>1, OpeningAssumption
  <2>2. QED
    BY <2>1
<1>3. StoreTypeOK
  BY <1>2, OpeningAssumption DEF Init, StoreTypeOK, RunnerIds
<1>4. OpeningTypeOK
  BY <1>3, OpeningAssumption DEF Init, OpeningTypeOK
<1>5. QED
  BY <1>4 DEF OpeningInv, Init

LEMMA OpenerKeeps ==
  ASSUME OpeningInv, NEW p \in Processes, Scan(p) \/ AddColumn(p) \/ LookUp(p) \/ Kill(p)
  PROVE  OpeningInv' /\ feed' = feed
<1>1. UNCHANGED <<store, index>>
  BY DEF Scan, AddColumn, LookUp, Kill
<1>2. StoreTypeOK' /\ (OneTerminalEvent => OneTerminalEvent') /\ feed' = feed
  BY <1>1 DEF OpeningInv, OpeningTypeOK, StoreTypeOK, OneTerminalEvent, store
<1> USE <1>1, <1>2 DEF OpeningInv, OpeningTypeOK, Advance
<1>3. CASE Scan(p)
  BY <1>3 DEF Scan
<1>4. CASE AddColumn(p)
  BY <1>4 DEF AddColumn
<1>5. CASE LookUp(p)
  <2>1. missing[p] = {} /\ opening[p] = "columns" /\ columns = Columns
    BY <1>5 DEF LookUp
  <2>2. /\ UNCHANGED <<kills, columns, missing>>
        /\ \/ index /\ opening' = [opening EXCEPT ![p] = "open"]
           \/ ~index /\ opening' = [opening EXCEPT ![p] = "migrate"]
    BY <1>5 DEF LookUp
  <2>3. QED
    BY <2>1, <2>2
<1>6. CASE Kill(p)
  <2>1. /\ opening' = [opening EXCEPT ![p] = "closed"] /\ missing' = [missing EXCEPT ![p] = {}]
        /\ kills' \in 0..MaxKills /\ columns' = columns
    BY <1>6, OpeningAssumption DEF Kill
  <2>2. QED
    BY <2>1
<1>7. QED
  BY <1>3, <1>4, <1>5, <1>6

LEMMA MigrateKeeps ==
  ASSUME OpeningInv, NEW p \in Processes, Migrate(p)
  PROVE  OpeningInv' /\ (index => IsPrefix(feed, feed'))
<1>1. /\ opening[p] = "migrate" /\ opening' = [opening EXCEPT ![p] = "open"]
      /\ index' = TRUE /\ UNCHANGED <<kills, state, owner, cmd, order, code, columns, missing>>
  BY DEF Migrate, Advance
<1>2. PICK ids \in Increasing(Kept), js \in SetToSeqs(Bare) :
        feed' = [i \in DOMAIN ids |-> feed[ids[i]]]
                  \o [i \in DOMAIN js |-> [job |-> js[i], state |-> state[js[i]]]]
  BY DEF Migrate, Bare
<1>3. feed' \in Seq(Event) /\ OneTerminalEvent' /\ (OneTerminalEvent => IsPrefix(feed, feed'))
  BY <1>1, <1>2, Migrated DEF OpeningInv, OpeningTypeOK
<1>4. StoreTypeOK'
  BY <1>1, <1>3 DEF OpeningInv, OpeningTypeOK, StoreTypeOK
<1>5. QED
  BY <1>1, <1>3, <1>4 DEF OpeningInv, OpeningTypeOK

LEMMA UseKeeps ==
  ASSUME OpeningInv, NEW p \in Processes, Use(p)
  PROVE  OpeningInv' /\ IsPrefix(feed, feed')
<1>1. StoreTypeOK /\ OneTerminalEvent /\ index /\ UNCHANGED <<columns, index, opener, kills>>
  BY DEF Use, OpeningInv, OpeningTypeOK
<1>2. feed \in Seq(Event) /\ IsPrefix(feed, feed)
  BY <1>1 DEF StoreTypeOK, IsPrefix
<1>3. PICK j \in Jobs :
        Create(j) \/ (state[j] # "absent" /\ \E s \in LegacyStates \ {"absent"} : SetState(j, s))
  BY DEF Use
<1>4. CASE Create(j)
  <2>1. StoreTypeOK'
    BY <1>1, <1>4, NextOrderIsLast
       DEF Create, StoreTypeOK, States, Active, Occupying, Terminal
  <2>2. feed' = feed /\ \A k \in Jobs :
              state'[k] = state[k] \/ (state[k] \notin Terminal /\ state'[k] \notin Terminal)
    <3>1. /\ feed' = feed /\ state[j] = "absent" /\ state'[j] \in {"queued", "starting"}
          /\ \A k \in Jobs \ {j} : state'[k] = state[k]
      BY <1>1, <1>4 DEF Create, StoreTypeOK
    <3>2. state[j] \notin Terminal /\ state'[j] \notin Terminal
      BY <3>1 DEF Terminal
    <3>3. ASSUME NEW k \in Jobs
          PROVE  \/ state'[k] = state[k]
                 \/ state[k] \notin Terminal /\ state'[k] \notin Terminal
      <4>1. CASE k = j
        BY <3>2, <4>1
      <4>2. CASE k # j
        BY <3>1, <4>2
      <4>3. QED
        BY <4>1, <4>2
    <3>4. QED
      BY <3>1, <3>3
  <2>3. QED
    BY <1>1, <1>2, <2>1, <2>2, QuietStep DEF OpeningInv, OpeningTypeOK, opener
<1>5. ASSUME NEW s \in LegacyStates \ {"absent"}, SetState(j, s)
      PROVE  OpeningInv' /\ IsPrefix(feed, feed')
  <2>1. CASE state[j] \in Terminal
    <3>1. UNCHANGED store
      BY <1>5, <2>1 DEF SetState, UpdateIfActive
    <3>2. QED
      BY <1>1, <1>2, <3>1 DEF store, opener, OpeningInv, OpeningTypeOK, StoreTypeOK, OneTerminalEvent
  <2>2. CASE state[j] \notin Terminal
    <3>1. /\ state' = [state EXCEPT ![j] = s] /\ UNCHANGED <<owner, order>>
          /\ cmd' = [cmd EXCEPT ![j] = cmd[j]] /\ code' = [code EXCEPT ![j] = code[j]]
          /\ feed' = IF s \in Terminal /\ s # state[j]
                      THEN Append(feed, [job |-> j, state |-> s]) ELSE feed
      BY <1>5, <2>2 DEF SetState, UpdateIfActive, Emit
    <3>2. s \in States
      BY OpeningAssumption
    <3>3. CASE s \in Terminal
      <4>1. feed' = Append(feed, [job |-> j, state |-> s])
        BY <2>2, <3>1, <3>3
      <4>2. OneTerminalEvent' /\ feed' \in Seq(Event)
        BY <1>1, <2>2, <3>1, <3>3, <4>1, AppendEvent
      <4>3. IsPrefix(feed, feed')
        BY <1>2, <4>1, <4>2 DEF IsPrefix
      <4>4. StoreTypeOK'
        BY <1>1, <3>1, <3>2, <4>2 DEF StoreTypeOK
      <4>5. QED
        BY <1>1, <4>2, <4>3, <4>4 DEF opener, OpeningInv, OpeningTypeOK
    <3>4. CASE s \notin Terminal
      <4>1. feed' = feed /\ \A k \in Jobs :
              state'[k] = state[k] \/ (state[k] \notin Terminal /\ state'[k] \notin Terminal)
        <5>1. feed' = feed
          BY <3>1, <3>4
        <5>2. state'[j] = s /\ \A k \in Jobs \ {j} : state'[k] = state[k]
          BY <1>1, <3>1 DEF StoreTypeOK
        <5>3. ASSUME NEW k \in Jobs
              PROVE  \/ state'[k] = state[k]
                     \/ state[k] \notin Terminal /\ state'[k] \notin Terminal
          <6>1. CASE k = j
            BY <2>2, <3>4, <5>2, <6>1
          <6>2. CASE k # j
            BY <5>2, <6>2
          <6>3. QED
            BY <6>1, <6>2
        <5>4. QED
          BY <5>1, <5>3
      <4>2. StoreTypeOK'
        BY <1>1, <3>1, <3>2, <4>1 DEF StoreTypeOK
      <4>3. QED
        BY <1>1, <1>2, <4>1, <4>2, QuietStep DEF opener, OpeningInv, OpeningTypeOK
    <3>5. QED
      BY <3>3, <3>4
  <2>3. QED
    BY <2>1, <2>2
<1>6. QED
  BY <1>3, <1>4, <1>5

LEMMA OpeningInvStep ==
  OpeningInv /\ [Next]_vars => OpeningInv' /\ [index => IsPrefix(feed, feed')]_vars
<1> SUFFICES ASSUME OpeningInv, [Next]_vars
             PROVE  OpeningInv' /\ [index => IsPrefix(feed, feed')]_vars
  OBVIOUS
<1>1. CASE UNCHANGED vars
  BY <1>1 DEF vars, store, opener, OpeningInv, OpeningTypeOK, StoreTypeOK, OneTerminalEvent
<1>2. CASE Next
  <2>1. IsPrefix(feed, feed)
    BY DEF OpeningInv, OpeningTypeOK, StoreTypeOK, IsPrefix
  <2>2. QED
    BY <1>2, <2>1, OpenerKeeps, MigrateKeeps, UseKeeps DEF Next, OpenStep
<1>3. QED
  BY <1>1, <1>2

(* Whoever has opened the store sees all columns, the index, and exactly   *)
(* one event for each terminal job, whatever an earlier version left and   *)
(* however many processes open it at once (_migrate_completions).          *)
THEOREM OpenFeeds == Spec => []OpenFeedIsSound
<1>1. OpeningInv => OpenFeedIsSound
  BY DEF OpeningInv, OpeningTypeOK, OpenFeedIsSound
<1>2. QED
  BY OpeningInvInit, OpeningInvStep, <1>1, PTL DEF Spec

(* A second migration, by a process that looked for the index too early,   *)
(* neither renumbers nor drops an event.                                   *)
THEOREM MigrationOnce == Spec => MigratedOnce
<1>1. QED
  BY OpeningInvInit, OpeningInvStep, PTL DEF Spec, MigratedOnce

-----------------------------------------------------------------------------
(***************************************************************************)
(* Reports about files.                                                    *)
(*                                                                         *)
(* What is told about a tail follows from two lengths, taken at two times: *)
(* of the file when its size was asked for and of the bytes that were read *)
(* later. The file only grows, so the first is never more than the second  *)
(* look finds.                                                             *)
(***************************************************************************)
\* A part of a sequence of bytes.
LEMMA Part ==
  ASSUME NEW s \in Seq(Bytes), NEW m \in Nat \ {0}, NEW n \in 0..Len(s)
  PROVE  /\ SubSeq(s, m, n) \in Seq(Bytes)
         /\ Len(SubSeq(s, m, n)) = IF m <= n THEN n - m + 1 ELSE 0
         /\ m = 1 => IsPrefix(SubSeq(s, m, n), s)
         /\ m = 1 /\ n = Len(s) => SubSeq(s, m, n) = s
<1>1. Len(s) \in Nat
  OBVIOUS
<1>2. \A i \in m..n : s[i] \in Bytes
  BY <1>1
<1>3. /\ SubSeq(s, m, n) \in Seq(Bytes)
      /\ Len(SubSeq(s, m, n)) = IF m <= n THEN n - m + 1 ELSE 0
      /\ \A i \in 1..(n - m + 1) : SubSeq(s, m, n)[i] = s[m + i - 1]
  BY <1>1, <1>2, SubSeqProperties
<1>4. ASSUME m = 1 PROVE IsPrefix(SubSeq(s, m, n), s)
  <2> DEFINE t == SubSeq(s, 1, n)
  <2>1. t \in Seq(Bytes) /\ Len(t) = n
    BY <1>1, <1>3, <1>4
  <2>2. SubSeq(t, 1, Len(t)) = t
    BY <2>1, SubSeqFull
  <2>3. QED
    BY <1>1, <1>4, <2>1, <2>2 DEF IsPrefix
<1>5. ASSUME m = 1, n = Len(s) PROVE SubSeq(s, m, n) = s
  BY <1>5, SubSeqFull
<1>6. QED
  BY <1>3, <1>4, <1>5

\* tail -n drops nothing or something, by the number of lines.
LEMMA LastLinesOf ==
  ASSUME NEW s \in Seq(Bytes), NEW n \in Nat
  PROVE  /\ LastLines(s, n) \in Seq(Bytes) /\ Len(LastLines(s, n)) <= Len(s)
         /\ IF Cardinality(LineStarts(s)) <= n THEN LastLines(s, n) = s
            ELSE Len(LastLines(s, n)) < Len(s)
         /\ IsFiniteSet(LineStarts(s)) /\ Cardinality(LineStarts(s)) \in Nat
<1> DEFINE S == LineStarts(s)
           From(i) == {k \in S : k >= i}
           late == {i \in S : Cardinality(From(i)) <= n}
<1>1. Len(s) \in Nat
  OBVIOUS
<1>2. S \subseteq 1..Len(s) /\ S \subseteq Nat \ {0} /\ (Len(s) > 0 => 1 \in S)
  BY <1>1 DEF LineStarts
<1>3. IsFiniteSet(S) /\ Cardinality(S) \in Nat
  <2>1. IsFiniteSet(1..Len(s))
    BY <1>1, FS_Interval
  <2>2. QED
    BY <1>2, <2>1, FS_Subset, FS_CardinalityType
<1>4. From(1) = S
  BY <1>2
<1> HIDE DEF S
<1>5. LastLines(s, n) = IF late = {} THEN <<>> ELSE SubSeq(s, Min(late), Len(s))
  BY DEF LastLines, S
<1>6. CASE Cardinality(S) <= n
  <2>1. late = S
    <3>1. ASSUME NEW i \in S PROVE Cardinality(From(i)) <= n
      <4>1. Cardinality(From(i)) <= Cardinality(S) /\ Cardinality(From(i)) \in Nat
        BY <1>3, FS_Subset, FS_CardinalityType
      <4>2. QED
        BY <1>3, <1>6, <4>1
    <3>2. QED
      BY <3>1
  <2> HIDE DEF late
  <2>2. CASE S = {}
    <3>1. Len(s) = 0
      BY <1>1, <1>2, <2>2
    <3>2. s = <<>>
      BY <3>1
    <3>3. QED
      BY <1>3, <1>5, <1>6, <2>1, <2>2, <3>2 DEF S
  <2>3. CASE S # {}
    <3>1. Min(late) = 1
      <4>1. Min(S) \in S /\ \A k \in S : Min(S) <= k
        BY <1>2, <2>3, LeastOf
      <4>2. 1 \in S
        <5>1. PICK i \in S : TRUE
          BY <2>3
        <5>2. i \in 1..Len(s)
          BY <1>2, <5>1
        <5>3. QED
          BY <1>1, <1>2, <5>2
      <4>3. Min(S) <= 1 /\ Min(S) \in Nat \ {0}
        BY <1>2, <4>1, <4>2
      <4>4. QED
        BY <2>1, <4>3
    <3>2. SubSeq(s, 1, Len(s)) = s
      BY SubSeqFull
    <3>3. QED
      BY <1>1, <1>3, <1>5, <1>6, <2>1, <2>3, <3>1, <3>2 DEF S
  <2>4. QED
    BY <2>2, <2>3
<1>7. CASE ~(Cardinality(S) <= n)
  <2>1. 1 \notin late
    BY <1>4, <1>7
  <2>2. Len(s) > 0
    <3>1. S # {}
      BY <1>7, FS_EmptySet
    <3>2. PICK i \in S : TRUE
      BY <3>1
    <3>3. i \in 1..Len(s)
      BY <1>2, <3>2
    <3>4. QED
      BY <1>1, <3>3
  <2>3. late \subseteq S
    OBVIOUS
  <2> HIDE DEF late
  <2>4. CASE late = {}
    BY <1>1, <1>3, <1>5, <1>7, <2>2, <2>4 DEF S
  <2>5. CASE late # {}
    <3>1. Min(late) \in late
      BY <1>2, <2>3, <2>5, LeastOf
    <3> DEFINE m == Min(late)
    <3>2. m \in 2..Len(s)
      <4>1. m \in 1..Len(s) /\ m # 1
        BY <1>2, <2>1, <2>3, <3>1
      <4> HIDE DEF m
      <4>2. QED
        BY <1>1, <4>1
    <3> HIDE DEF m
    <3>3. SubSeq(s, m, Len(s)) \in Seq(Bytes) /\ Len(SubSeq(s, m, Len(s))) = Len(s) - m + 1
      BY <1>1, <3>2, Part
    <3>4. LastLines(s, n) = SubSeq(s, m, Len(s))
      BY <1>5, <2>5 DEF m
    <3>5. QED
      BY <1>1, <1>3, <1>7, <3>2, <3>3, <3>4 DEF S
  <2>6. QED
    BY <2>4, <2>5
<1>8. QED
  BY <1>6, <1>7

\* tail -c drops nothing or something, by the length.
LEMMA LastBytesOf ==
  ASSUME NEW s \in Seq(Bytes), NEW n \in Nat \ {0}
  PROVE  /\ LastBytes(s, n) \in Seq(Bytes) /\ Len(LastBytes(s, n)) <= Len(s)
         /\ Len(LastBytes(s, n)) = Len(s) => LastBytes(s, n) = s
         /\ Len(s) <= n => LastBytes(s, n) = s
<1> DEFINE m == IF Len(s) > n THEN Len(s) - n + 1 ELSE 1
<1>1. Len(s) \in Nat
  OBVIOUS
<1>2. m \in Nat \ {0} /\ m <= Len(s) + 1 /\ LastBytes(s, n) = SubSeq(s, m, Len(s))
  BY <1>1 DEF LastBytes
<1>3. Len(s) > n => m > 1
  BY <1>1
<1>4. ~(Len(s) > n) => m = 1
  BY <1>1
<1> HIDE DEF m
<1>5. /\ SubSeq(s, m, Len(s)) \in Seq(Bytes)
      /\ Len(SubSeq(s, m, Len(s))) = IF m <= Len(s) THEN Len(s) - m + 1 ELSE 0
      /\ m = 1 => SubSeq(s, m, Len(s)) = s
  BY <1>1, <1>2, Part
<1>6. QED
  BY <1>1, <1>2, <1>3, <1>4, <1>5

\* The text is never shorter than its bytes.
LEMMA EncodedOf ==
  ASSUME NEW s \in Seq(Bytes)
  PROVE  Encoded(s) \in Nat /\ Encoded(s) >= Len(s)
<1> DEFINE S == {i \in 1..Len(s) : s[i] = "b"}
<1>1. Len(s) \in Nat
  OBVIOUS
<1>2. Cardinality(S) \in Nat
  <2>1. IsFiniteSet(1..Len(s)) /\ S \subseteq 1..Len(s)
    BY <1>1, FS_Interval
  <2>2. QED
    BY <2>1, FS_Subset, FS_CardinalityType
<1>3. Encoded(s) = Len(s) + 2 * Cardinality(S)
  BY DEF Encoded
<1> HIDE DEF S
<1>4. QED
  BY <1>1, <1>2, <1>3

-----------------------------------------------------------------------------
\* What CutIsTold says of an answer.
Told(given) ==
  LET seen == IF given.seen = NoFile THEN <<>> ELSE given.seen IN
  /\ given.cut => Len(given.tail) < Len(seen)
  /\ given.seen = given.first /\ (reader.backend = "ssh" => Encoded(given.tail) = Len(given.tail))
       => (given.cut <=> given.tail # seen)
  /\ reader.backend = "local" /\ ~given.cut => IsPrefix(given.tail, seen)

\* What the data look begins from.
DataLook ==
  /\ file \in Seq(Bytes) /\ reader.first \in Seq(Bytes)
  /\ reader.size = Len(reader.first) /\ reader.size <= Len(file)
  /\ reader.lines \in Nat

\* It is enough to know what the cut stands for.
LEMMA ToldOf ==
  ASSUME NEW given, NEW s, NEW cut \in BOOLEAN, NEW tail, s # NoFile,
         given.seen = s, given.cut = cut, given.tail = tail, given.first = reader.first,
         cut => Len(tail) < Len(s) /\ tail # s,
         ~cut /\ s = reader.first /\ (reader.backend = "ssh" => Encoded(tail) = Len(tail))
           => tail = s,
         ~cut /\ reader.backend = "local" => IsPrefix(tail, s)
  PROVE  Told(given)
<1> DEFINE seen == IF given.seen = NoFile THEN <<>> ELSE given.seen
<1>1. seen = s
  OBVIOUS
<1>2. given.cut => Len(given.tail) < Len(seen)
  BY <1>1
<1>3. ASSUME given.seen = given.first, reader.backend = "ssh" => Encoded(given.tail) = Len(given.tail)
      PROVE  given.cut <=> given.tail # seen
  BY <1>1, <1>3
<1>4. ASSUME reader.backend = "local", ~given.cut PROVE IsPrefix(given.tail, seen)
  BY <1>1, <1>4
<1>5. QED
  BY <1>2, <1>3, <1>4 DEF Told

\* Each backend tells the truth, by the order of its looks.
LEMMA LocalTold ==
  ASSUME DataLook, reader.backend = "local"
  PROVE  Told(LocalTail(file, reader.size, reader.lines))
<1> DEFINE s == file
           size == reader.size
           n == reader.lines
           from == IF size > Budget THEN size - Budget ELSE 0
           to == IF Len(s) > from + Budget THEN from + Budget ELSE Len(s)
           raw == LocalRead(s, size)
           given == LocalTail(s, size, n)
<1>0. /\ s \in Seq(Bytes) /\ Len(s) \in Nat /\ size \in Nat /\ size <= Len(s) /\ n \in Nat
      /\ Budget \in Nat \ {0} /\ s # NoFile /\ (s = reader.first => size = Len(s))
  BY ReportAssumption DEF DataLook
<1>1. /\ from \in Nat /\ to \in 0..Len(s) /\ from <= to /\ to - from <= Budget
      /\ size <= Budget => from = 0
      /\ Len(s) <= Budget => to = Len(s)
      /\ size > Budget => from > 0
  BY <1>0
<1>2. raw = SubSeq(s, from + 1, to)
  BY DEF LocalRead
<1> HIDE DEF from, to
<1>3. /\ raw \in Seq(Bytes) /\ Len(raw) = to - from /\ Len(raw) \in Nat
      /\ from = 0 => IsPrefix(raw, s)
      /\ from = 0 /\ to = Len(s) => raw = s
  BY <1>0, <1>1, <1>2, Part
<1> HIDE DEF raw
<1>4. CASE n = 0
  <2>1. given = Answer(<<>>, size > 0, reader.first)
    BY <1>4 DEF LocalTail
  <2>2. IsPrefix(<<>>, s)
    BY <1>0, SubSeqEmpty DEF IsPrefix
  <2>3. given.tail = <<>> /\ given.cut = (size > 0) /\ given.first = reader.first /\ given.seen = s
    BY <2>1 DEF Answer
  <2> DEFINE cut == size > 0
  <2>4. /\ cut => Len(<<>>) < Len(s)
        /\ s = reader.first => (cut <=> <<>> # s)
    BY <1>0
  <2>5. given.cut = cut
    BY <2>3
  <2> HIDE DEF given, cut
  <2>6. cut \in BOOLEAN
    BY DEF cut
  <2>7. Told(given)
    BY <1>0, <2>2, <2>3, <2>4, <2>5, <2>6, ToldOf
  <2>8. QED
    BY <2>7 DEF given
<1>5. CASE n # 0
  <2> DEFINE tail == LastLines(raw, n)
             more == Cardinality(LineStarts(raw)) > n
             cut == size > Len(raw) \/ more
  <2>1. given = Answer(tail, cut, reader.first)
    BY <1>5 DEF LocalTail, raw
  <2>2. /\ given.tail = tail /\ given.cut = cut
        /\ given.first = reader.first /\ given.seen = s
    BY <2>1 DEF Answer
  <2>3. /\ tail \in Seq(Bytes) /\ Len(tail) \in Nat /\ Len(tail) <= Len(raw)
        /\ ~more => tail = raw
        /\ more => Len(tail) < Len(raw)
    BY <1>0, <1>3, LastLinesOf
  <2> HIDE DEF given, tail, more
  <2>4. cut => Len(tail) < Len(s)
    BY <1>0, <1>1, <1>3, <2>3
  <2>5. ASSUME ~cut PROVE from = 0 /\ tail = raw
    BY <1>0, <1>1, <1>3, <2>3, <2>5
  <2>6. ASSUME ~cut, s = reader.first PROVE tail = s
    <3>1. size = Len(s) /\ size <= Budget
      BY <1>0, <1>1, <1>3, <2>2, <2>5, <2>6
    <3>2. QED
      BY <1>0, <1>1, <1>3, <2>5, <2>6, <3>1
  <2>7. ~cut => IsPrefix(tail, s)
    BY <1>3, <2>5
  <2>8. cut => tail # s
    BY <1>0, <2>4
  <2> HIDE DEF cut
  <2>9. cut \in BOOLEAN
    BY DEF cut, more
  <2>10. Told(given)
    BY <1>0, <2>2, <2>4, <2>6, <2>7, <2>8, <2>9, ToldOf
  <2>11. QED
    BY <2>10 DEF given
<1>6. QED
  BY <1>4, <1>5

LEMMA SSHTold ==
  ASSUME DataLook, reader.backend = "ssh"
  PROVE  Told(SSHTail(file, reader.size, reader.lines))
<1> DEFINE s == file
           size == reader.size
           lines == LastLines(s, reader.lines)
           data == LastBytes(lines, Budget)
           cut == size > Encoded(data)
           given == SSHTail(s, size, reader.lines)
<1>0. /\ s \in Seq(Bytes) /\ Len(s) \in Nat /\ size \in Nat /\ size <= Len(s)
      /\ reader.lines \in Nat
      /\ Budget \in Nat \ {0} /\ s # NoFile /\ (s = reader.first => size = Len(s))
  BY ReportAssumption DEF DataLook
<1>1. /\ lines \in Seq(Bytes) /\ Len(lines) \in Nat /\ Len(lines) <= Len(s)
      /\ Len(lines) = Len(s) => lines = s
  BY <1>0, LastLinesOf
<1>2. /\ given.tail = data /\ given.cut = cut
      /\ given.first = reader.first /\ given.seen = s
  BY DEF SSHTail, Answer
<1> HIDE DEF lines
<1>3. /\ data \in Seq(Bytes) /\ Len(data) \in Nat /\ Len(data) <= Len(lines)
      /\ Len(data) = Len(lines) => data = lines
  BY <1>0, <1>1, LastBytesOf
<1> HIDE DEF data, given
<1>4. Encoded(data) \in Nat /\ Encoded(data) >= Len(data)
  BY <1>3, EncodedOf
<1>5. cut => Len(data) < Len(s)
  BY <1>0, <1>1, <1>3, <1>4
<1>6. ASSUME ~cut, s = reader.first, Encoded(data) = Len(data) PROVE data = s
  BY <1>0, <1>1, <1>3, <1>6
<1>7. cut => data # s
  BY <1>0, <1>5
<1> HIDE DEF cut
<1>8. reader.backend # "local"
  OBVIOUS
<1>9. cut \in BOOLEAN
  BY DEF cut
<1>10. Told(given)
  BY <1>0, <1>2, <1>5, <1>6, <1>7, <1>8, <1>9, ToldOf
<1>11. QED
  BY <1>10 DEF given

LEMMA SlurmTold ==
  ASSUME DataLook, reader.backend = "slurm"
  PROVE  Told(SlurmTail(file, reader.size, reader.lines))
<1> DEFINE s == file
           size == reader.size
           n == reader.lines
           from == IF size > Budget THEN size - Budget ELSE 0
           rest == SubSeq(s, from + 1, Len(s))
           data == LastBytes(rest, Budget)
           known == IF size > from + Len(data) THEN size ELSE from + Len(data)
           tail == LastLines(data, n)
           more == Cardinality(LineStarts(data)) > n
           cut == known > Len(data) \/ more
           given == SlurmTail(s, size, n)
<1>0. /\ s \in Seq(Bytes) /\ Len(s) \in Nat /\ size \in Nat /\ size <= Len(s) /\ n \in Nat
      /\ Budget \in Nat \ {0} /\ s # NoFile /\ (s = reader.first => size = Len(s))
  BY ReportAssumption DEF DataLook
<1>1. /\ given.tail = tail /\ given.cut = cut
      /\ given.first = reader.first /\ given.seen = s
  BY DEF SlurmTail, Answer
<1>2. from \in Nat /\ from <= Len(s)
  BY <1>0
<1> HIDE DEF from
<1>3. /\ rest \in Seq(Bytes) /\ Len(rest) = Len(s) - from /\ Len(rest) \in Nat
      /\ from = 0 => rest = s
  BY <1>0, <1>2, Part
<1> HIDE DEF rest
<1>4. /\ data \in Seq(Bytes) /\ Len(data) \in Nat /\ Len(data) <= Len(rest)
      /\ Len(data) = Len(rest) => data = rest
  BY <1>0, <1>3, LastBytesOf
<1> HIDE DEF data
<1>5. /\ tail \in Seq(Bytes) /\ Len(tail) \in Nat /\ Len(tail) <= Len(data)
      /\ ~more => tail = data
      /\ more => Len(tail) < Len(data)
  BY <1>0, <1>4, LastLinesOf
<1> HIDE DEF given, tail, more
<1>6. cut => Len(tail) < Len(s)
  BY <1>0, <1>2, <1>3, <1>4, <1>5
<1>7. ASSUME ~cut, s = reader.first PROVE tail = s
  BY <1>0, <1>2, <1>3, <1>4, <1>5, <1>7
<1>8. cut => tail # s
  BY <1>0, <1>6
<1>9. reader.backend \notin {"local", "ssh"}
  OBVIOUS
<1>10. cut \in BOOLEAN
  BY <1>5 DEF more
<1> HIDE DEF cut
<1>11. Told(given)
  BY <1>0, <1>1, <1>6, <1>7, <1>8, <1>9, <1>10, ToldOf
<1>12. QED
  BY <1>11 DEF given

-----------------------------------------------------------------------------
(* The invariant of the looks; reader.backend stays the same.              *)
ReaderOK ==
  reader = [kind |-> reader.kind, backend |-> reader.backend, lines |-> reader.lines,
            at |-> reader.at, row |-> reader.row, first |-> reader.first,
            size |-> reader.size, answer |-> reader.answer]

FileInv ==
  /\ FileTypeOK
  /\ ReaderOK
  /\ reader.at = "data" => DataLook
  /\ reader.at = "content" => reader.kind = "artifact"
  /\ reader.kind # "artifact" /\ reader.answer # NoAnswer => Told(reader.answer)

\* It holds at the start, and neither the job nor the reader breaks it.
LEMMA FileInvInit == FileInit => FileInv
<1> SUFFICES ASSUME FileInit PROVE FileInv
  OBVIOUS
<1>1. PICK kind \in Kinds, backend \in Backends, lines \in Tails :
        reader = [kind |-> kind, backend |-> backend, lines |-> lines,
                  at |-> FirstLook(kind), row |-> NoRow,
                  first |-> NoFile, size |-> 0, answer |-> NoAnswer]
  BY DEF FileInit
<1>2. FirstLook(kind) \in {"row", "size"}
  BY DEF FirstLook
<1>3. ReaderOK /\ reader.at \notin {"data", "content"} /\ reader.answer = NoAnswer
  BY <1>1, <1>2 DEF ReaderOK
<1>4. FileTypeOK
  BY <1>1, <1>2, ReportAssumption DEF FileInit, FileTypeOK
<1>5. QED
  BY <1>3, <1>4 DEF FileInv

LEMMA JobKeeps ==
  ASSUME FileInv, CreateFile \/ Write \/ CommandEnds \/ Exits \/ Stops
  PROVE  FileInv'
<1>1. /\ reader' = reader
      /\ \/ file' = file
         \/ file = NoFile /\ file' = <<>>
         \/ file # NoFile /\ Len(file) < MaxBytes /\ \E b \in Bytes : file' = Append(file, b)
  BY DEF CreateFile, Write, CommandEnds, Exits, Stops
<1>2. /\ file' = NoFile \/ (file' \in Seq(Bytes) /\ Len(file') <= MaxBytes)
      /\ file \in Seq(Bytes) => file' \in Seq(Bytes) /\ Len(file) <= Len(file')
  <2>1. CASE file' = file
    BY <2>1 DEF FileInv, FileTypeOK
  <2>2. CASE file = NoFile /\ file' = <<>>
    BY <2>2, ReportAssumption
  <2>3. ASSUME file # NoFile, Len(file) < MaxBytes, NEW b \in Bytes, file' = Append(file, b)
        PROVE  file \in Seq(Bytes) /\ file' \in Seq(Bytes) /\ Len(file') = Len(file) + 1
    BY <2>3 DEF FileInv, FileTypeOK
  <2>4. CASE file # NoFile /\ Len(file) < MaxBytes /\ \E b \in Bytes : file' = Append(file, b)
    BY <2>3, <2>4, ReportAssumption
  <2>5. QED
    BY <1>1, <2>1, <2>2, <2>4
<1>3. FileTypeOK'
  <2>1. command' \in BOOLEAN /\ row' \in {"running", "exited", "stopped"}
    BY DEF FileInv, FileTypeOK, CreateFile, Write, CommandEnds, Exits, Stops
  <2>2. QED
    BY <1>1, <1>2, <2>1 DEF FileInv, FileTypeOK
<1>4. DataLook => DataLook'
  BY <1>1, <1>2 DEF DataLook
<1>5. Told(reader.answer) => Told(reader.answer)'
  BY <1>1 DEF Told
<1>6. QED
  BY <1>1, <1>3, <1>4, <1>5 DEF FileInv, ReaderOK

LEMMA LookKeeps ==
  ASSUME FileInv, ReadRow \/ TakeSize \/ TakeTail \/ TakeDigest \/ TakeContent
  PROVE  FileInv'
<1>0. /\ UNCHANGED <<file, command, row>>
      /\ AfterData \in {"row", "done"}
      /\ file # NoFile => file \in Seq(Bytes) /\ Len(file) <= MaxBytes /\ Len(file) \in 0..MaxBytes
      /\ reader.kind \in Kinds /\ reader.backend \in Backends /\ reader.lines \in Nat
  BY ReportAssumption
     DEF FileInv, FileTypeOK, ReadRow, TakeSize, TakeTail, TakeDigest, TakeContent, AfterData
<1>1. CASE ReadRow
  <2>1. /\ ReaderOK' /\ reader'.at \in {"size", "done"} /\ reader'.row = row
        /\ reader'.kind = reader.kind /\ reader'.backend = reader.backend
        /\ reader'.lines = reader.lines /\ reader'.size = reader.size
        /\ reader'.answer = reader.answer
    BY <1>1 DEF ReadRow, FileInv, ReaderOK
  <2>2. FileTypeOK'
    BY <1>0, <2>1 DEF FileInv, FileTypeOK
  <2>3. QED
    BY <2>1, <2>2 DEF FileInv, Told
<1>2. CASE TakeSize
  <2>1. CASE file = NoFile
    <3> DEFINE given == IF reader.kind = "artifact" THEN Missing ELSE Answer(<<>>, FALSE, NoFile)
    <3>1. reader' = [reader EXCEPT !.first = NoFile, !.answer = given, !.at = AfterData]
      BY <1>2, <2>1 DEF TakeSize
    <3>2. /\ ReaderOK' /\ reader'.at = AfterData /\ reader'.answer = given
          /\ reader'.row = reader.row
          /\ reader'.kind = reader.kind /\ reader'.backend = reader.backend
          /\ reader'.lines = reader.lines /\ reader'.size = reader.size
      <4> HIDE DEF given
      <4>1. QED
        BY <3>1 DEF FileInv, ReaderOK
    <3>3. FileTypeOK'
      BY <1>0, <3>2 DEF FileInv, FileTypeOK
    <3>4. ASSUME reader.kind # "artifact" PROVE Told(given)'
      <4>1. given = [tail |-> <<>>, cut |-> FALSE, first |-> NoFile, seen |-> NoFile]
        BY <2>1, <3>4 DEF Answer
      <4>2. IsPrefix(<<>>, <<>>)
        BY DEF IsPrefix
      <4> HIDE DEF given
      <4>3. given' = [tail |-> <<>>, cut |-> FALSE, first |-> NoFile, seen |-> NoFile]
        BY <1>0, <2>1, <3>2, <3>4 DEF given, Answer
      <4>4. QED
        BY <4>2, <4>3 DEF Told
    <3>5. given' = given
      BY <1>0, <3>2 DEF Answer
    <3>6. QED
      BY <1>0, <3>2, <3>3, <3>4, <3>5 DEF FileInv
  <2>2. CASE file # NoFile
    <3>1. reader' = [reader EXCEPT !.first = file, !.size = Len(file), !.answer = NoAnswer,
                                   !.at = "data"]
      BY <1>2, <2>2 DEF TakeSize
    <3>2. /\ ReaderOK' /\ reader'.at = "data" /\ reader'.answer = NoAnswer
          /\ reader'.row = reader.row /\ reader'.first = file /\ reader'.size = Len(file)
          /\ reader'.kind = reader.kind /\ reader'.backend = reader.backend
          /\ reader'.lines = reader.lines
      BY <3>1 DEF FileInv, ReaderOK
    <3>3. FileTypeOK'
      BY <1>0, <2>2, <3>2 DEF FileInv, FileTypeOK
    <3>4. DataLook'
      BY <1>0, <2>2, <3>2 DEF DataLook
    <3>5. QED
      BY <3>2, <3>3, <3>4 DEF FileInv
  <2>3. QED
    BY <2>1, <2>2
<1>3. CASE TakeTail
  <2> DEFINE given == TailAt(file, reader.size)
  <2>1. reader' = [reader EXCEPT !.answer = given, !.at = AfterData] /\ DataLook
    BY <1>3 DEF TakeTail, FileInv
  <2>2. Told(given)
    <3>1. reader.backend \in {"local", "ssh", "slurm"}
      BY <1>0, ReportAssumption
    <3>2. QED
      BY <2>1, <3>1, LocalTold, SSHTold, SlurmTold DEF TailAt
  <2> HIDE DEF given
  <2>3. /\ ReaderOK' /\ reader'.at = AfterData /\ reader'.answer = given
        /\ reader'.row = reader.row
        /\ reader'.kind = reader.kind /\ reader'.backend = reader.backend
        /\ reader'.lines = reader.lines /\ reader'.size = reader.size
    BY <2>1 DEF FileInv, ReaderOK
  <2>4. FileTypeOK'
    BY <1>0, <2>3 DEF FileInv, FileTypeOK
  <2>5. Told(reader.answer)'
    BY <1>0, <2>2, <2>3 DEF Told
  <2>6. QED
    BY <1>0, <2>3, <2>4, <2>5 DEF FileInv
<1>4. CASE TakeDigest \/ TakeContent
  <2>1. \E a, at : /\ reader' = [reader EXCEPT !.answer = a, !.at = at]
                   /\ at \in {"content", "done"} /\ reader.kind = "artifact"
    <3>1. CASE TakeDigest
      BY <3>1 DEF TakeDigest
    <3>2. CASE TakeContent
      BY <3>2 DEF TakeContent, FileInv
    <3>3. QED
      BY <1>4, <3>1, <3>2
  <2>2. /\ ReaderOK' /\ reader'.at \in {"content", "done"} /\ reader'.kind = "artifact"
        /\ reader'.row = reader.row
        /\ reader'.kind = reader.kind /\ reader'.backend = reader.backend
        /\ reader'.lines = reader.lines /\ reader'.size = reader.size
    BY <2>1 DEF FileInv, ReaderOK
  <2>3. FileTypeOK'
    BY <1>0, <2>2 DEF FileInv, FileTypeOK
  <2>4. QED
    BY <2>2, <2>3 DEF FileInv
<1>5. QED
  BY <1>1, <1>2, <1>3, <1>4

LEMMA FileInvStep == FileInv /\ [FileNext]_fileVars => FileInv'
<1> SUFFICES ASSUME FileInv, [FileNext]_fileVars PROVE FileInv'
  OBVIOUS
<1>1. CASE UNCHANGED fileVars
  BY <1>1 DEF fileVars, FileInv, FileTypeOK, ReaderOK, DataLook, Told
<1>2. QED
  BY <1>1, JobKeeps, LookKeeps DEF FileNext

(* A tail says that it is cut exactly when it is, if the file rested, and  *)
(* never invents a cut while it grows, for each backend, every budget and  *)
(* every number of lines; over SSH the first part holds where all bytes    *)
(* can be decoded (_tail_file, read_logs of SSHBackend and SlurmBackend).  *)
THEOREM ReportsTellCuts == FileSpec => []CutIsTold
<1>1. FileInv => CutIsTold
  BY DEF FileInv, CutIsTold, Told
<1>2. QED
  BY FileInvInit, FileInvStep, <1>1, PTL DEF FileSpec

-----------------------------------------------------------------------------
(* A row that says exited was written after the command had ended, so from *)
(* the look at such a row on the file stays as it is.                      *)
Whole(given) ==
  /\ given.exists <=> file # NoFile
  /\ given.exists => given.size = Len(file) /\ given.digest = file /\ given.content \in {NoFile, file}

Settled ==
  /\ row = "exited" => ~command
  /\ reader.row = "exited" => row = "exited"
  /\ reader.kind # "follow" =>
       /\ reader.at = "row" => reader.answer = NoAnswer
       /\ reader.at # "row" => reader.row # NoRow
  /\ reader.kind # "follow" /\ reader.row = "exited" =>
       /\ reader.at = "data" => reader.first = file
       /\ reader.at = "content" =>
            /\ file \in Seq(Bytes) /\ Len(file) <= Budget
            /\ reader.answer = [exists |-> TRUE, size |-> Len(file), digest |-> file, content |-> NoFile]
       /\ reader.at = "done" =>
            IF reader.kind = "logs" THEN reader.answer.seen = file ELSE Whole(reader.answer)

LEMMA SettledInit == FileInit => Settled
<1> SUFFICES ASSUME FileInit PROVE Settled
  OBVIOUS
<1>1. PICK kind \in Kinds, backend \in Backends, lines \in Tails :
        reader = [kind |-> kind, backend |-> backend, lines |-> lines,
                  at |-> FirstLook(kind), row |-> NoRow,
                  first |-> NoFile, size |-> 0, answer |-> NoAnswer]
  BY DEF FileInit
<1>2. kind # "follow" => FirstLook(kind) = "row"
  BY DEF FirstLook
<1>3. QED
  BY <1>1, <1>2, ReportAssumption DEF FileInit, Settled

LEMMA JobSettles ==
  ASSUME FileInv, Settled, CreateFile \/ Write \/ CommandEnds \/ Exits \/ Stops
  PROVE  Settled'
<1>1. reader' = reader
  BY DEF CreateFile, Write, CommandEnds, Exits, Stops
<1>2. row = "exited" => row' = "exited" /\ ~command' /\ file' = file
  BY DEF Settled, CreateFile, Write, CommandEnds, Exits, Stops
<1>3. row' = "exited" => ~command'
  BY DEF Settled, CreateFile, Write, CommandEnds, Exits, Stops
<1>4. QED
  BY <1>1, <1>2, <1>3 DEF Settled, Whole

LEMMA LookSettles ==
  ASSUME FileInv, Settled, ReadRow \/ TakeSize \/ TakeTail \/ TakeDigest \/ TakeContent
  PROVE  Settled'
<1>0. /\ UNCHANGED <<file, command, row>>
      /\ row \in {"running", "exited", "stopped"} /\ NoRow \notin {"running", "exited", "stopped"}
      /\ file = NoFile \/ file \in Seq(Bytes)
      /\ reader.kind \in {"logs", "follow", "artifact"}
  BY ReportAssumption
     DEF FileInv, FileTypeOK, ReadRow, TakeSize, TakeTail, TakeDigest, TakeContent
<1>1. CASE ReadRow
  <2>1. /\ reader'.row = row /\ reader'.kind = reader.kind /\ reader'.answer = reader.answer
        /\ reader.kind # "follow" => reader'.at = "size"
    BY <1>1 DEF ReadRow, FileInv, ReaderOK, Settled
  <2>2. QED
    BY <1>0, <2>1 DEF Settled
<1> DEFINE plain == reader'.kind = reader.kind /\ reader'.row = reader.row
<1>2. CASE TakeSize
  <2>1. CASE file = NoFile
    <3> DEFINE given == IF reader.kind = "artifact" THEN Missing ELSE Answer(<<>>, FALSE, NoFile)
    <3>1. reader' = [reader EXCEPT !.first = NoFile, !.answer = given, !.at = AfterData]
      BY <1>2, <2>1 DEF TakeSize
    <3>2. plain /\ reader'.at = AfterData /\ reader'.answer = given
      <4> HIDE DEF given
      <4>1. QED
        BY <3>1 DEF FileInv, ReaderOK
    <3>3. IF reader.kind = "artifact" THEN Whole(given) ELSE given.seen = file
      BY <2>1 DEF Whole, Missing, Answer
    <3>4. reader.kind # "follow" => AfterData = "done"
      BY <1>2 DEF TakeSize, Settled, AfterData
    <3> HIDE DEF given
    <3>5. reader.kind # "follow" => reader.row # NoRow
      BY <1>2 DEF TakeSize, Settled
    <3>6. reader.kind # "follow" =>
            IF reader'.kind = "logs" THEN reader'.answer.seen = file' ELSE Whole(reader.answer)'
      BY <1>0, <3>2, <3>3 DEF Whole
    <3>7. QED
      BY <1>0, <3>2, <3>4, <3>5, <3>6 DEF Settled
  <2>2. CASE file # NoFile
    <3>1. plain /\ reader'.at = "data" /\ reader'.first = file
      BY <1>2, <2>2 DEF TakeSize, FileInv, ReaderOK
    <3>2. reader.kind # "follow" => reader.row # NoRow
      BY <1>2 DEF TakeSize, Settled
    <3>3. QED
      BY <1>0, <3>1, <3>2 DEF Settled
  <2>3. QED
    BY <2>1, <2>2
<1>3. CASE TakeTail
  <2> DEFINE given == TailAt(file, reader.size)
  <2>1. plain /\ reader'.at = AfterData /\ reader'.answer = given
    BY <1>3 DEF TakeTail, FileInv, ReaderOK
  <2>2. given.seen = file
    <3>1. reader.backend \in {"local", "ssh", "slurm"}
      BY ReportAssumption DEF FileInv, FileTypeOK
    <3>2. QED
      BY <3>1 DEF TailAt, LocalTail, SSHTail, SlurmTail, Answer
  <2>3. reader.kind # "follow" => AfterData = "done"
    BY <1>3 DEF TakeTail, Settled, AfterData
  <2> HIDE DEF given
  <2>4. QED
    BY <1>0, <1>3, <2>1, <2>2, <2>3 DEF Settled, TakeTail
<1>4. CASE TakeDigest
  <2> DEFINE given == [exists |-> TRUE, size |-> reader.size, digest |-> file, content |-> NoFile]
  <2>1. /\ plain /\ reader'.answer = given
        /\ reader'.at = IF reader.size <= Budget THEN "content" ELSE "done"
    BY <1>4 DEF TakeDigest, FileInv, ReaderOK
  <2>2. DataLook /\ file # NoFile
    BY <1>4, ReportAssumption DEF TakeDigest, FileInv, DataLook
  <2>3. ASSUME reader.kind # "follow", reader.row = "exited"
        PROVE  /\ reader.size = Len(file) /\ Whole(given)
    BY <1>4, <2>2, <2>3 DEF TakeDigest, Settled, DataLook, Whole
  <2>4. reader.row # NoRow /\ reader.kind = "artifact"
    BY <1>4 DEF TakeDigest, Settled
  <2>5. CASE reader.row # "exited"
    BY <1>0, <2>1, <2>4, <2>5 DEF Settled
  <2>6. CASE reader.row = "exited"
    <3>1. reader.size = Len(file) /\ Whole(given) /\ file \in Seq(Bytes)
      BY <2>2, <2>3, <2>4, <2>6 DEF DataLook
    <3>2. Whole(reader.answer)'
      BY <1>0, <2>1, <3>1 DEF Whole
    <3>3. /\ reader'.at \in {"content", "done"}
          /\ reader'.at = "content" =>
               /\ Len(file) <= Budget
               /\ reader'.answer = [exists |-> TRUE, size |-> Len(file), digest |-> file,
                                    content |-> NoFile]
      BY <2>1, <3>1
    <3>4. QED
      BY <1>0, <2>1, <2>4, <3>1, <3>2, <3>3 DEF Settled
  <2>7. QED
    BY <2>5, <2>6
<1>5. CASE TakeContent
  <2> DEFINE content == IF reader.backend = "slurm" THEN LastBytes(file, Budget) ELSE file
  <2>1. reader' = [reader EXCEPT !.answer.content = content, !.at = "done"] /\ reader.kind = "artifact"
    BY <1>5 DEF TakeContent, FileInv
  <2>2. plain /\ reader'.at = "done" /\ reader'.answer = [reader.answer EXCEPT !.content = content]
    <3> HIDE DEF content
    <3>1. QED
      BY <2>1 DEF FileInv, ReaderOK
  <2>3. ASSUME reader.row = "exited" PROVE Whole([reader.answer EXCEPT !.content = content])
    <3>1. /\ file \in Seq(Bytes) /\ Len(file) <= Budget
          /\ reader.answer = [exists |-> TRUE, size |-> Len(file), digest |-> file, content |-> NoFile]
      BY <1>5, <2>1, <2>3 DEF Settled, TakeContent
    <3>2. content = file
      BY <3>1, ReportAssumption, LastBytesOf
    <3> HIDE DEF content
    <3>3. QED
      BY <3>1, <3>2, ReportAssumption DEF Whole
  <2> HIDE DEF content
  <2>4. QED
    BY <1>0, <1>5, <2>1, <2>2, <2>3 DEF Settled, Whole, TakeContent
<1>6. QED
  BY <1>1, <1>2, <1>3, <1>4, <1>5

LEMMA SettledStep == FileInv /\ Settled /\ [FileNext]_fileVars => Settled'
<1> SUFFICES ASSUME FileInv, Settled, [FileNext]_fileVars PROVE Settled'
  OBVIOUS
<1>1. CASE UNCHANGED fileVars
  BY <1>1 DEF fileVars, Settled, Whole
<1>2. QED
  BY <1>1, JobSettles, LookSettles DEF FileNext

(* A report made after the row said that the command had exited is of the  *)
(* file as the command left it: nothing is missing from a log, and size,   *)
(* digest and content of an artifact are of one file.                      *)
THEOREM ExitedReportsSettle == FileSpec => []ExitedIsSettled
<1>1. FileInv /\ Settled => ExitedIsSettled
  BY DEF Settled, Whole, ExitedIsSettled
<1>2. QED
  BY FileInvInit, FileInvStep, SettledInit, SettledStep, <1>1, PTL DEF FileSpec

-----------------------------------------------------------------------------
(***************************************************************************)
(* The listing of a queue and the times of a summary.                      *)
(*                                                                         *)
(* All arithmetic here is linear once the product of the slots and the     *)
(* full rounds is a number of its own.                                     *)
(***************************************************************************)
\* Arithmetic.
LEMMA MaxOfTwo ==
  ASSUME NEW m \in Int, NEW n \in Int
  PROVE  Max({m, n}) = IF n > m THEN n ELSE m
<1> DEFINE x == IF n > m THEN n ELSE m
<1>1. x \in {m, n} /\ \A y \in {m, n} : x >= y
  OBVIOUS
<1>2. \A z \in {m, n} : (\A y \in {m, n} : z >= y) => z = x
  OBVIOUS
<1>3. QED
  BY <1>1, <1>2 DEF Max

LEMMA Quotient ==
  ASSUME NEW x \in Int, NEW s \in Nat \ {0}
  PROVE  /\ x \div s \in Int
         /\ s * (x \div s) <= x
         /\ x < s * (x \div s) + s
OBVIOUS

LEMMA QuotientOfProduct ==
  ASSUME NEW d \in Nat, NEW n \in Nat \ {0}
  PROVE  (d * n) \div n = d
OBVIOUS

LEMMA Scaled ==
  ASSUME NEW d \in Nat \ {0}, NEW x \in Int, NEW y \in Int, d * x > d * (y - 1)
  PROVE  x >= y
OBVIOUS

(* How many full rounds of the queue come before a position.               *)
LEMMA RoundsBounds ==
  ASSUME NEW p \in Nat \ {0}, NEW a \in 0..Slots
  PROVE  /\ Rounds(p, a) \in Nat
         /\ p <= Slots * Rounds(p, a) + (Slots - a)
         /\ Rounds(p, a) # 0 => p > Slots * (Rounds(p, a) - 1) + (Slots - a)
<1> DEFINE free == Max({0, Slots - a})
           x == p - free + Slots - 1
           n == x \div Slots
<1>1. Slots \in Nat \ {0}
  BY QueueAssumption
<1>2. free = Slots - a
  BY <1>1, MaxOfTwo
<1>3. x \in Int /\ x = p - (Slots - a) + Slots - 1
  BY <1>1, <1>2
<1>4. n \in Int /\ Slots * n <= x /\ x < Slots * n + Slots
  <2> HIDE DEF x
  <2>1. QED
    BY <1>1, <1>3, Quotient
<1>5. Rounds(p, a) = IF n > 0 THEN n ELSE 0
  <2> HIDE DEF n
  <2>1. Max({0, n}) = IF n > 0 THEN n ELSE 0
    BY <1>4, MaxOfTwo
  <2>2. Rounds(p, a) = Max({0, n})
    BY DEF Rounds, n
  <2>3. QED
    BY <2>1, <2>2
<1> HIDE DEF n, x, free
<1>6. CASE n > 0
  <2>1. Slots * (n - 1) = Slots * n - Slots
    BY <1>1, <1>4
  <2>2. QED
    BY <1>1, <1>3, <1>4, <1>5, <1>6, <2>1
<1>7. CASE ~(n > 0)
  <2>1. Slots * n <= 0
    BY <1>1, <1>4, <1>7
  <2>2. QED
    BY <1>1, <1>3, <1>4, <1>5, <1>7, <2>1
<1>8. QED
  BY <1>6, <1>7

(* A queue that is full is at most one round behind what was counted.      *)
LEMMA OneRoundMore ==
  ASSUME NEW p \in Nat \ {0}, NEW a \in 0..Slots
  PROVE  Rounds(p, Slots) \in Nat /\ Rounds(p, Slots) <= Rounds(p, a) + 1
<1>1. PICK n : n = Rounds(p, a)
  OBVIOUS
<1>2. PICK m : m = Rounds(p, Slots)
  OBVIOUS
<1>3. Slots \in Nat \ {0} /\ Slots \in 0..Slots
  BY QueueAssumption
<1>4. n \in Nat /\ p <= Slots * n + (Slots - a)
  BY <1>1, RoundsBounds
<1>5. m \in Nat /\ (m # 0 => p > Slots * (m - 1) + (Slots - Slots))
  BY <1>2, <1>3, RoundsBounds
<1>6. CASE m = 0
  BY <1>1, <1>2, <1>4, <1>6
<1>7. CASE m # 0
  <2>1. Slots * (n + 1) = Slots * n + Slots /\ Slots * n \in Nat
    BY <1>3, <1>4
  <2>2. Slots * (m - 1) \in Int
    BY <1>3, <1>5
  <2>3. Slots * (n + 1) > Slots * (m - 1)
    BY <1>3, <1>4, <1>5, <1>7, <2>1, <2>2
  <2>4. n + 1 >= m
    BY <1>3, <1>4, <1>5, <2>3, Scaled
  <2>5. QED
    BY <1>1, <1>2, <1>4, <1>5, <2>4
<1>8. QED
  BY <1>6, <1>7

(* The average of equal lengths: their sum is a fold, which is the function *)
(* that its recursive definition has, since there is one.                  *)
LEMMA AverageOfEquals ==
  ASSUME IsFiniteSet(Ran), Ran # {},
         \A j \in Ran : jobRow[j].finished - jobRow[j].started = Duration
  PROVE  Average = Duration
<1> DEFINE IsSum(h) ==
      h = [s \in SUBSET Ran |->
             IF s = {} THEN 0
             ELSE LET x == CHOOSE x \in s : TRUE
                  IN  (jobRow[x].finished - jobRow[x].started) + h[s \ {x}]]
    g   == [s \in SUBSET Ran |-> Duration * Cardinality(s)]
    sum == CHOOSE h : IsSum(h)
    total == MapThenSumSet(LAMBDA j : jobRow[j].finished - jobRow[j].started, Ran)
<1>0. Duration \in Nat
  BY QueueAssumption
<1>1. ASSUME NEW s \in SUBSET Ran, s # {}
      PROVE  LET x == CHOOSE x \in s : TRUE
             IN  /\ x \in Ran /\ s \ {x} \in SUBSET Ran /\ s \ {x} # s
                 /\ Cardinality(s) \in Nat /\ Cardinality(s \ {x}) \in Nat
                 /\ Cardinality(s) = Cardinality(s \ {x}) + 1
                 /\ jobRow[x].finished - jobRow[x].started = Duration
  <2> DEFINE x == CHOOSE x \in s : TRUE
  <2>1. x \in s
    BY <1>1
  <2> HIDE DEF x
  <2>2. IsFiniteSet(s) /\ Cardinality(s) \in Nat
    BY FS_Subset, FS_CardinalityType
  <2>3. /\ IsFiniteSet(s \ {x}) /\ Cardinality(s \ {x}) = Cardinality(s) - 1
    BY <2>1, <2>2, FS_RemoveElement
  <2>4. Cardinality(s \ {x}) \in Nat
    BY <2>3, FS_CardinalityType
  <2>5. QED
    BY <2>1, <2>2, <2>3, <2>4 DEF x
<1>2. IsSum(g)
  <2>1. ASSUME NEW s \in SUBSET Ran
        PROVE  g[s] = IF s = {} THEN 0
                      ELSE LET x == CHOOSE x \in s : TRUE
                           IN  (jobRow[x].finished - jobRow[x].started) + g[s \ {x}]
    <3>1. CASE s = {}
      BY <1>0, <3>1, FS_EmptySet
    <3>2. CASE s # {}
      <4> DEFINE x == CHOOSE x \in s : TRUE
      <4>1. /\ s \ {x} \in SUBSET Ran
            /\ Cardinality(s) \in Nat /\ Cardinality(s \ {x}) \in Nat
            /\ Cardinality(s) = Cardinality(s \ {x}) + 1
            /\ jobRow[x].finished - jobRow[x].started = Duration
        BY <1>1, <3>2
      <4>2. g[s] = Duration * Cardinality(s) /\ g[s \ {x}] = Duration * Cardinality(s \ {x})
        BY <4>1
      <4> HIDE DEF x, g
      <4>3. g[s] = (jobRow[x].finished - jobRow[x].started) + g[s \ {x}]
        BY <1>0, <4>1, <4>2
      <4>4. QED
        BY <3>2, <4>3 DEF x
    <3>3. QED
      BY <3>1, <3>2
  <2>2. QED
    BY <2>1
<1>3. IsSum(sum)
  <2> HIDE DEF IsSum, g
  <2>1. QED
    BY <1>2
<1>4. total = sum[Ran]
  BY DEF MapThenSumSet, MapThenFoldSet
<1>5. \A s \in SUBSET Ran : sum[s] = Duration * Cardinality(s)
  <2> DEFINE Bad == {s \in FiniteSubsetsOf(Ran) : sum[s] # Duration * Cardinality(s)}
  <2>1. SUFFICES ASSUME Bad # {} PROVE FALSE
    <3>1. \A s \in SUBSET Ran : s \in FiniteSubsetsOf(Ran)
      BY FS_Subset DEF FiniteSubsetsOf
    <3> HIDE DEF sum
    <3>2. QED
      BY <3>1
  <2>2. PICK s \in Bad : \A t \in Bad : ~(<<t, s>> \in StrictSubsetOrdering(Ran))
    <3>1. IsWellFoundedOn(StrictSubsetOrdering(Ran), FiniteSubsetsOf(Ran))
      BY FS_StrictSubsetOrderingWellFounded
    <3>2. Bad \subseteq FiniteSubsetsOf(Ran)
      OBVIOUS
    <3> HIDE DEF Bad
    <3>3. QED
      BY <2>1, <3>1, <3>2, WFMin
  <2>3. s \in SUBSET Ran /\ IsFiniteSet(s)
    BY DEF FiniteSubsetsOf
  <2>4. sum[s] = IF s = {} THEN 0
                 ELSE LET x == CHOOSE x \in s : TRUE
                      IN  (jobRow[x].finished - jobRow[x].started) + sum[s \ {x}]
    <3> HIDE DEF sum
    <3>1. QED
      BY <1>3, <2>3
  <2> HIDE DEF sum, IsSum
  <2>5. CASE s = {}
    BY <1>0, <2>2, <2>4, <2>5, FS_EmptySet
  <2>6. CASE s # {}
    <3> DEFINE x == CHOOSE x \in s : TRUE
    <3>1. /\ s \ {x} \in SUBSET Ran /\ s \ {x} # s
          /\ Cardinality(s) \in Nat /\ Cardinality(s \ {x}) \in Nat
          /\ Cardinality(s) = Cardinality(s \ {x}) + 1
          /\ jobRow[x].finished - jobRow[x].started = Duration
      BY <1>1, <2>3, <2>6
    <3>2. sum[s] = (jobRow[x].finished - jobRow[x].started) + sum[s \ {x}]
      BY <2>4, <2>6
    <3> HIDE DEF x
    <3>3. s \ {x} \in FiniteSubsetsOf(Ran) /\ <<s \ {x}, s>> \in StrictSubsetOrdering(Ran)
      BY <2>3, <3>1, FS_Subset DEF FiniteSubsetsOf, StrictSubsetOrdering
    <3>4. sum[s \ {x}] = Duration * Cardinality(s \ {x})
      BY <2>2, <3>3
    <3>5. sum[s] = Duration * Cardinality(s)
      BY <1>0, <3>1, <3>2, <3>4
    <3>6. QED
      BY <2>2, <3>5
  <2>7. QED
    BY <2>5, <2>6
<1>6. Cardinality(Ran) \in Nat \ {0}
  BY FS_CardinalityType, FS_EmptySet
<1>7. total = Duration * Cardinality(Ran)
  <2> HIDE DEF sum, total
  <2>1. QED
    BY <1>4, <1>5
<1>8. Average = total \div Cardinality(Ran)
  BY DEF Average
<1> HIDE DEF total, sum
<1>9. QED
  BY <1>0, <1>6, <1>7, <1>8, QuotientOfProduct

-----------------------------------------------------------------------------
(* The inductive invariant.  A row by its state; the rows of a queue in the *)
(* order of their jobs.                                                    *)
RowOK(j) ==
  LET r == jobRow[j] IN
  /\ r.state = "none" => r.created = NoTime /\ r.started = NoTime /\ r.finished = NoTime
  /\ r.state # "none" => r.created \in 0..clock
  /\ r.state = "queued" => r.started = NoTime /\ r.finished = NoTime
  /\ r.started # NoTime => r.started \in Int /\ r.started - skew <= clock
  /\ r.state = "running" =>
       r.started # NoTime /\ r.finished = NoTime /\ Host <= r.started + Duration
  /\ r.state = "succeeded" => r.started # NoTime /\ r.finished = r.started + Duration
  /\ r.state = "cancelled" => r.finished \in Int /\ r.created <= r.finished

FirstComeFirstServed ==
  \A i, j \in QJobs :
    /\ jobRow[j].state = "none" /\ jobRow[i].state # "none" => i < j
    /\ jobRow[j].state = "queued" /\ jobRow[i].state \in {"running", "succeeded"} => i < j

ListingOK ==
  /\ listing = [at |-> listing.at, active |-> listing.active, time |-> listing.time,
                late |-> listing.late, estimate |-> listing.estimate]
  /\ listing.at \in {"idle", "counted", "done"}
  /\ listing.active \in 0..Slots /\ listing.time \in Nat /\ listing.late \in BOOLEAN

QueueInv ==
  /\ QueueTypeOK
  /\ ListingOK
  /\ \A j \in QJobs : RowOK(j)
  /\ FirstComeFirstServed
  /\ Cardinality(In("running")) <= Slots

\* It holds at the start, and every step keeps it.
LEMMA QueueInvInit == QueueInit => QueueInv
<1> SUFFICES ASSUME QueueInit PROVE QueueInv
  OBVIOUS
<1>1. QueueTypeOK
  BY QueueAssumption DEF QueueInit, QueueTypeOK, Times
<1>2. ListingOK
  <2>1. 0 \in 0..Slots
    BY QueueAssumption
  <2>2. QED
    BY <2>1 DEF QueueInit, ListingOK, Times
<1>3. \A j \in QJobs : RowOK(j)
  BY DEF QueueInit, RowOK
<1>4. FirstComeFirstServed
  BY DEF QueueInit, FirstComeFirstServed
<1>5. Cardinality(In("running")) <= Slots
  <2>1. In("running") = {}
    BY DEF QueueInit, In
  <2>2. QED
    BY <2>1, FS_EmptySet, QueueAssumption
<1>6. QED
  BY <1>1, <1>2, <1>3, <1>4, <1>5 DEF QueueInv

\* The sets of jobs in a state are finite.
LEMMA InIsFinite ==
  ASSUME NEW s
  PROVE  In(s) \subseteq QJobs /\ IsFiniteSet(In(s)) /\ Cardinality(In(s)) \in Nat
BY QueueAssumption, FS_Subset, FS_CardinalityType DEF In

Rows == [state : {"none", "queued", "running", "succeeded", "cancelled"},
         created : Times, started : Times, finished : Times]

\* What a step that changes the row of j alone has to show.
LEMMA RowChanges ==
  ASSUME QueueInv, NEW j \in QJobs, NEW r \in Rows, jobRow' = [jobRow EXCEPT ![j] = r],
         clock' = clock, skew' = skew, RowOK(j)', ListingOK',
         r.state # "none", r.state = "queued" => jobRow[j].state = "none",
         r.state = "running" => jobRow[j].state = "queued",
         r.state = "succeeded" => jobRow[j].state = "running",
         r.state = "cancelled" => jobRow[j].state # "none",
         r.state \in {"queued", "running"} =>
           \A k \in QJobs : jobRow[k].state = jobRow[j].state => j <= k,
         Cardinality(In("running"))' <= Slots
  PROVE  QueueInv'
<1>1. jobRow'[j] = r /\ \A k \in QJobs \ {j} : jobRow'[k] = jobRow[k]
  BY DEF QueueInv, QueueTypeOK
<1>2. QueueTypeOK'
  BY DEF QueueInv, QueueTypeOK, Rows, ListingOK
<1>3. \A k \in QJobs : RowOK(k)'
  <2> SUFFICES ASSUME NEW k \in QJobs \ {j} PROVE RowOK(k)'
    OBVIOUS
  <2>1. RowOK(k) /\ jobRow'[k] = jobRow[k]
    BY <1>1 DEF QueueInv
  <2>2. QED
    BY <2>1 DEF RowOK, Host
<1>4. FirstComeFirstServed'
  <2>1. \A k \in QJobs : k \in Nat
    BY QueueAssumption
  <2>2. r.state \in {"queued", "running", "succeeded", "cancelled"}
    BY DEF Rows
  <2> SUFFICES ASSUME NEW i \in QJobs, NEW k \in QJobs
               PROVE  /\ jobRow'[k].state = "none" /\ jobRow'[i].state # "none" => i < k
                      /\ jobRow'[k].state = "queued" /\ jobRow'[i].state \in {"running", "succeeded"}
                           => i < k
    BY DEF FirstComeFirstServed
  <2>3. CASE i # j /\ k # j
    BY <1>1, <2>3 DEF QueueInv, FirstComeFirstServed
  <2>4. CASE i = j /\ k # j
    <3>1. jobRow[k].state = "none" /\ jobRow[j].state # "none" => j < k
      BY DEF QueueInv, FirstComeFirstServed
    <3>2. jobRow[k].state = "queued" /\ jobRow[j].state = "running" => j < k
      BY DEF QueueInv, FirstComeFirstServed
    <3>3. jobRow[k].state = "queued" /\ r.state = "running" /\ jobRow[j].state = "queued" => j < k
      BY <2>1, <2>4
    <3>4. jobRow[k].state = "none" /\ jobRow[j].state = "none" /\ r.state \in {"queued", "running"}
            => j < k
      BY <2>1, <2>4
    <3>5. jobRow'[i] = r /\ jobRow'[k] = jobRow[k]
      BY <1>1, <2>4
    <3>6. ASSUME jobRow[k].state = "none" PROVE j < k
      BY <2>2, <3>1, <3>4, <3>6
    <3>7. ASSUME jobRow[k].state = "queued", r.state \in {"running", "succeeded"} PROVE j < k
      BY <3>2, <3>3, <3>7
    <3>8. QED
      BY <2>4, <3>5, <3>6, <3>7
  <2>5. CASE k = j
    <3>1. jobRow[i].state # "none" /\ jobRow[j].state = "none" => i < j
      BY DEF QueueInv, FirstComeFirstServed
    <3>2. QED
      BY <1>1, <2>5, <3>1
  <2>6. QED
    BY <2>3, <2>4, <2>5
<1>5. QED
  BY <1>2, <1>3, <1>4 DEF QueueInv

LEMMA SubmitKeeps ==
  ASSUME QueueInv, NEW j \in QJobs, SubmitJob(j)
  PROVE  QueueInv'
<1> DEFINE r == [jobRow[j] EXCEPT !.state = "queued", !.created = clock]
<1>1. /\ jobRow[j].state = "none" /\ clock' = clock /\ skew' = skew /\ listing' = listing
      /\ jobRow' = [jobRow EXCEPT ![j] = r]
      /\ \A k \in QJobs : jobRow[k].state = "none" => j <= k
  BY DEF SubmitJob, In
<1>2. clock \in 0..MaxClock /\ jobRow[j] \in Rows /\ RowOK(j)
  BY DEF QueueInv, QueueTypeOK, Rows
<1>3. /\ r \in Rows /\ r.state = "queued" /\ r.created = clock
      /\ r.started = NoTime /\ r.finished = NoTime
  <2>1. clock \in Times
    BY <1>2, QueueAssumption DEF Times
  <2>2. jobRow[j].started = NoTime /\ jobRow[j].finished = NoTime
    BY <1>1, <1>2 DEF RowOK
  <2>3. QED
    BY <1>2, <2>1, <2>2 DEF Rows
<1> HIDE DEF r
<1>4. jobRow'[j] = r /\ \A k \in QJobs \ {j} : jobRow'[k] = jobRow[k]
  BY <1>1 DEF QueueInv, QueueTypeOK
<1>5. RowOK(j)'
  BY <1>1, <1>2, <1>3, <1>4, QueueAssumption DEF RowOK
<1>6. ListingOK'
  BY <1>1 DEF QueueInv, ListingOK
<1>7. In("running")' = In("running")
  BY <1>1, <1>3, <1>4 DEF In
<1>8. Cardinality(In("running"))' <= Slots
  BY <1>7 DEF QueueInv
<1>9. QED
  BY <1>1, <1>3, <1>5, <1>6, <1>8, RowChanges

LEMMA AdmitKeeps ==
  ASSUME QueueInv, NEW j \in QJobs, Admit(j)
  PROVE  QueueInv'
<1> DEFINE r == [jobRow[j] EXCEPT !.state = "running", !.started = Host]
<1>1. /\ jobRow[j].state = "queued" /\ clock' = clock /\ skew' = skew
      /\ jobRow' = [jobRow EXCEPT ![j] = r]
      /\ \A k \in QJobs : jobRow[k].state = "queued" => j <= k
      /\ Cardinality(In("running")) < Slots
      /\ listing' = [listing EXCEPT !.late = listing.late \/ listing.at = "counted"]
  BY DEF Admit, AtHead, In
<1>2. /\ clock \in Nat /\ skew \in Int /\ Host = clock + skew /\ Host \in Int /\ Host' = Host
      /\ jobRow[j] \in Rows /\ RowOK(j)
  BY <1>1, QueueAssumption DEF QueueInv, QueueTypeOK, Rows, Host
<1>3. /\ r \in Rows /\ r.state = "running" /\ r.created = jobRow[j].created
      /\ r.started = Host /\ r.finished = NoTime
  BY <1>1, <1>2 DEF Rows, Times, RowOK
<1> HIDE DEF r
<1>4. jobRow'[j] = r /\ \A k \in QJobs \ {j} : jobRow'[k] = jobRow[k]
  BY <1>1 DEF QueueInv, QueueTypeOK
<1>5. RowOK(j)'
  BY <1>1, <1>2, <1>3, <1>4, QueueAssumption DEF RowOK
<1>6. ListingOK'
  BY <1>1 DEF QueueInv, ListingOK
<1>7. Cardinality(In("running"))' <= Slots
  <2>1. In("running")' = In("running") \cup {j}
    BY <1>1, <1>3, <1>4 DEF In
  <2>2. j \notin In("running") /\ IsFiniteSet(In("running")) /\ Cardinality(In("running")) \in Nat
    BY <1>1, InIsFinite DEF In
  <2>3. Cardinality(In("running") \cup {j}) = Cardinality(In("running")) + 1
    BY <2>2, FS_AddElement
  <2>4. Cardinality(In("running")') = Cardinality(In("running")) + 1
    BY <2>1, <2>3
  <2>5. QED
    BY <1>1, <2>2, <2>4, QueueAssumption
<1>8. QED
  BY <1>1, <1>3, <1>5, <1>6, <1>7, RowChanges

\* A running job leaves: fewer run.
LEMMA FewerRun ==
  ASSUME QueueInv, In("running")' \subseteq In("running")
  PROVE  /\ Cardinality(In("running"))' <= Slots
         /\ Cardinality(In("running"))' <= Cardinality(In("running"))
<1>1. /\ IsFiniteSet(In("running")) /\ Cardinality(In("running")) \in Nat
      /\ Cardinality(In("running")) <= Slots
  BY InIsFinite DEF QueueInv
<1>2. /\ Cardinality(In("running")') <= Cardinality(In("running"))
      /\ Cardinality(In("running")') \in Nat
  BY <1>1, FS_Subset, FS_CardinalityType
<1>3. QED
  BY <1>1, <1>2, QueueAssumption

LEMMA FinishKeeps ==
  ASSUME QueueInv, NEW j \in QJobs, Finish(j)
  PROVE  QueueInv'
<1> DEFINE r == [jobRow[j] EXCEPT !.state = "succeeded", !.finished = Host]
<1>1. /\ jobRow[j].state = "running" /\ clock' = clock /\ skew' = skew /\ listing' = listing
      /\ jobRow[j].started + Duration = Host
      /\ jobRow' = [jobRow EXCEPT ![j] = r]
  BY DEF Finish, Due, In
<1>2. /\ clock \in Nat /\ skew \in Int /\ Host = clock + skew /\ Host \in Int /\ Host' = Host
      /\ jobRow[j] \in Rows /\ RowOK(j)
  BY <1>1, QueueAssumption DEF QueueInv, QueueTypeOK, Rows, Host
<1>3. /\ r \in Rows /\ r.state = "succeeded" /\ r.created = jobRow[j].created
      /\ r.started = jobRow[j].started /\ r.finished = Host
  BY <1>1, <1>2 DEF Rows, Times
<1> HIDE DEF r
<1>4. jobRow'[j] = r /\ \A k \in QJobs \ {j} : jobRow'[k] = jobRow[k]
  BY <1>1 DEF QueueInv, QueueTypeOK
<1>5. RowOK(j)'
  BY <1>1, <1>2, <1>3, <1>4 DEF RowOK
<1>6. ListingOK'
  BY <1>1 DEF QueueInv, ListingOK
<1>7. In("running")' \subseteq In("running")
  BY <1>1, <1>3, <1>4 DEF In
<1>8. Cardinality(In("running"))' <= Slots
  BY <1>7, FewerRun
<1>9. QED
  BY <1>1, <1>3, <1>5, <1>6, <1>8, RowChanges

LEMMA CancelKeeps ==
  ASSUME QueueInv, NEW j \in QJobs, CancelJob(j)
  PROVE  QueueInv' /\ In("cancelled")' # {}
<1> DEFINE r == [jobRow[j] EXCEPT !.state = "cancelled", !.finished = clock]
<1>1. /\ jobRow[j].state \in {"queued", "running"}
      /\ clock' = clock /\ skew' = skew /\ listing' = listing
      /\ jobRow' = [jobRow EXCEPT ![j] = r]
  BY DEF CancelJob, In
<1>2. clock \in Nat /\ jobRow[j] \in Rows /\ RowOK(j)
  BY <1>1, QueueAssumption DEF QueueInv, QueueTypeOK, Rows
<1>3. /\ r \in Rows /\ r.state = "cancelled" /\ r.created = jobRow[j].created
      /\ r.started = jobRow[j].started /\ r.finished = clock
  <2>1. clock \in Times
    BY <1>2 DEF Times
  <2>2. QED
    BY <1>2, <2>1 DEF Rows
<1> HIDE DEF r
<1>4. jobRow'[j] = r /\ \A k \in QJobs \ {j} : jobRow'[k] = jobRow[k]
  BY <1>1 DEF QueueInv, QueueTypeOK
<1>5. RowOK(j)'
  BY <1>1, <1>2, <1>3, <1>4 DEF RowOK
<1>6. ListingOK'
  BY <1>1 DEF QueueInv, ListingOK
<1>7. In("running")' \subseteq In("running") /\ In("cancelled")' # {}
  BY <1>1, <1>3, <1>4 DEF In
<1>8. Cardinality(In("running"))' <= Slots
  BY <1>7, FewerRun
<1>9. QED
  BY <1>1, <1>3, <1>5, <1>6, <1>7, <1>8, RowChanges

LEMMA TimeKeeps ==
  ASSUME QueueInv, TimePasses
  PROVE  QueueInv'
<1>1. /\ clock' = clock + 1 /\ clock < MaxClock /\ UNCHANGED <<skew, jobRow, listing>>
      /\ \A j \in QJobs : ~Due(j)
  BY DEF TimePasses
<1>2. clock \in Nat /\ skew \in Int /\ Duration \in Nat
  BY QueueAssumption DEF QueueInv, QueueTypeOK
<1>3. QueueTypeOK' /\ ListingOK' /\ FirstComeFirstServed' /\ In("running")' = In("running")
  BY <1>1, <1>2, QueueAssumption
     DEF QueueInv, QueueTypeOK, ListingOK, FirstComeFirstServed, In
<1>4. \A j \in QJobs : RowOK(j)'
  <2> SUFFICES ASSUME NEW j \in QJobs PROVE RowOK(j)'
    OBVIOUS
  <2>1. jobRow[j].state = "running" => jobRow[j].started + Duration # clock + skew
    BY <1>1 DEF Due, In, Host
  <2>2. RowOK(j)
    BY DEF QueueInv
  <2>3. QED
    BY <1>1, <1>2, <2>1, <2>2 DEF RowOK, Host
<1>5. QED
  BY <1>3, <1>4 DEF QueueInv

LEMMA CountKeeps ==
  ASSUME QueueInv, Count
  PROVE  QueueInv'
<1>1. /\ UNCHANGED <<clock, skew, jobRow>>
      /\ listing' = [listing EXCEPT !.at = "counted", !.active = Cardinality(In("running")),
                                    !.time = clock]
  BY DEF Count
<1>2. Cardinality(In("running")) \in 0..Slots /\ clock \in Nat
  BY InIsFinite, QueueAssumption DEF QueueInv, QueueTypeOK
<1>3. QueueTypeOK' /\ ListingOK'
  BY <1>1, <1>2 DEF QueueInv, QueueTypeOK, ListingOK
<1>4. QED
  BY <1>1, <1>3 DEF QueueInv, RowOK, Host, FirstComeFirstServed, In

LEMMA EstimateKeeps ==
  ASSUME QueueInv, Estimate
  PROVE  QueueInv'
<1>1. /\ UNCHANGED <<clock, skew, jobRow>>
      /\ listing' = [listing EXCEPT !.at = "done",
           !.estimate = [j \in QJobs |->
              IF j \in In("queued") /\ Ran # {}
              THEN Average * Rounds(Position(j), listing.active) ELSE NoTime]]
  BY DEF Estimate
<1>2. ListingOK'
  BY <1>1 DEF QueueInv, ListingOK
<1>3. QED
  BY <1>1, <1>2 DEF QueueInv, QueueTypeOK, RowOK, Host, FirstComeFirstServed, In

LEMMA QueueInvStep == QueueInv /\ [QueueNext]_queueVars => QueueInv'
<1> SUFFICES ASSUME QueueInv, [QueueNext]_queueVars PROVE QueueInv'
  OBVIOUS
<1>1. CASE UNCHANGED queueVars
  BY <1>1 DEF queueVars, QueueInv, QueueTypeOK, ListingOK, RowOK, Host, FirstComeFirstServed, In
<1>2. QED
  BY <1>1, SubmitKeeps, AdmitKeeps, FinishKeeps, CancelKeeps, TimeKeeps, CountKeeps, EstimateKeeps
     DEF QueueNext

(* Rows are typed and in order, the jobs of a queue are served in the      *)
(* order they came, and never more of them run than there are slots.       *)
THEOREM QueueInvariant == QueueSpec => []QueueInv
<1>1. QED
  BY QueueInvInit, QueueInvStep, PTL DEF QueueSpec

(* Service.summary reports times in order and spans that fit together,     *)
(* however far the clocks of client and host are apart (service.py).       *)
THEOREM QueueTimesFit == QueueSpec => []TimesFitTogether
<1>1. QueueInv => TimesFitTogether
  <2> SUFFICES ASSUME QueueInv PROVE TimesFitTogether
    OBVIOUS
  <2>1. clock \in Nat /\ skew \in Int /\ Duration \in Nat /\ NoTime \notin Int
    BY QueueAssumption DEF QueueInv, QueueTypeOK
  <2>2. ASSUME NEW j \in QJobs
        PROVE  LET r == jobRow[j] IN
          /\ r.started # NoTime => Created(r) <= r.started
          /\ r.finished # NoTime => Created(r) <= Finished(r)
          /\ r.started # NoTime /\ r.finished # NoTime =>
               /\ r.started <= Finished(r)
               /\ QueueWait(r) + Elapsed(r) = Finished(r) - Created(r)
    <3> DEFINE r == jobRow[j]
    <3>1. /\ r.state \in {"none", "queued", "running", "succeeded", "cancelled"}
          /\ r.created \in Times /\ r.started \in Times /\ r.finished \in Times /\ RowOK(j)
      BY DEF QueueInv, QueueTypeOK
    <3>2. /\ r.started # NoTime => r.created \in Int
          /\ r.finished # NoTime => r.created \in Int /\ (r.started = NoTime => r.created <= r.finished)
      BY <2>1, <3>1 DEF RowOK
    <3> HIDE DEF r
    <3>3. r.started \in Int \/ r.started = NoTime
      BY <3>1 DEF Times
    <3>4. r.finished \in Int \/ r.finished = NoTime
      BY <3>1 DEF Times
    <3>5. r.started # NoTime => Created(r) <= r.started
      BY <2>1, <3>2, <3>3 DEF Created
    <3>6. r.finished # NoTime => Created(r) <= Finished(r)
      BY <2>1, <3>2, <3>3, <3>4 DEF Created, Finished
    <3>7. ASSUME r.started # NoTime, r.finished # NoTime
          PROVE  /\ r.started <= Finished(r)
                 /\ QueueWait(r) + Elapsed(r) = Finished(r) - Created(r)
      <4>1. /\ r.started \in Int /\ Created(r) \in Int /\ Finished(r) \in Int
            /\ Created(r) <= r.started /\ r.started <= Finished(r)
        BY <3>2, <3>3, <3>4, <3>7 DEF Created, Finished
      <4>2. QueueWait(r) = r.started - Created(r)
        BY <3>7, <4>1 DEF QueueWait, Later
      <4>3. Elapsed(r) = Finished(r) - r.started
        BY <3>7, <4>1 DEF Elapsed, Later
      <4>4. QED
        BY <4>1, <4>2, <4>3
    <3>8. QED
      BY <3>5, <3>6, <3>7 DEF r
  <2>3. QED
    BY <2>2 DEF TimesFitTogether, QueueInv
<1>2. QED
  BY QueueInvariant, <1>1, PTL

-----------------------------------------------------------------------------
(* What list_queues has promised: Q are the jobs that waited when it took  *)
(* its second look and A those that ran. Nobody outside Q and A comes      *)
(* before a job of Q, so until that job starts the slots are held by Q and *)
(* A alone, and they leave in rounds. When somebody was admitted between   *)
(* the looks, more may run than were counted, but never more than there    *)
(* are slots, which is one round more. The bound is conditional, as the    *)
(* property is: a cancelled job would make the average of the past too     *)
(* small.                                                                  *)
Held == IF listing.late THEN Slots ELSE listing.active

Slip == IF listing.late THEN Duration ELSE 0

Before(Q, j) == {k \in Q : k <= j}

Bound(Q, j) == Duration * Rounds(Cardinality(Before(Q, j)), Held)

Promise(Q, A) ==
  /\ Cardinality(A) <= Held
  /\ \A j \in QJobs : listing.estimate[j] # NoTime =>
       j \in Q /\ listing.estimate[j] \in Int /\ Bound(Q, j) <= listing.estimate[j] + Slip
  /\ \A j \in Q :
       IF jobRow[j].state = "queued" THEN clock <= listing.time + Bound(Q, j)
       ELSE /\ jobRow[j].state \in {"running", "succeeded"}
            /\ jobRow[j].started - skew <= listing.time + Bound(Q, j)
  /\ \A i \in A : /\ jobRow[i].state \in {"running", "succeeded"}
                  /\ jobRow[i].started - skew <= listing.time
  /\ \A i \in QJobs : \/ i \in Q \cup A
                      \/ jobRow[i].state = "succeeded"
                      \/ \A j \in Q : j < i

EstimateInv ==
  In("cancelled") = {} =>
    /\ listing.at = "counted" => listing.time = clock /\ Cardinality(In("running")) <= Held
    /\ listing.at = "done" => \E Q \in SUBSET QJobs, A \in SUBSET QJobs : Promise(Q, A)

(* The rounds before a job of Q, by the number of them that are not behind *)
(* it.                                                                     *)
LEMMA BoundIsNat ==
  ASSUME QueueInv, NEW Q \in SUBSET QJobs, NEW j \in Q
  PROVE  LET p == Cardinality(Before(Q, j))  rounds == Rounds(p, Held) IN
         /\ j \in Before(Q, j) /\ IsFiniteSet(Before(Q, j)) /\ p \in Nat \ {0}
         /\ rounds \in Nat /\ Bound(Q, j) = Duration * rounds /\ Bound(Q, j) \in Nat
         /\ p <= Slots * rounds + (Slots - Held)
         /\ rounds # 0 => p > Slots * (rounds - 1) + (Slots - Held)
<1> DEFINE p == Cardinality(Before(Q, j))
           rounds == Rounds(p, Held)
<1>1. j \in Nat /\ Duration \in Nat
  BY QueueAssumption
<1>2. j \in Before(Q, j) /\ IsFiniteSet(Before(Q, j))
  <2>1. IsFiniteSet(Q) /\ Before(Q, j) \subseteq Q
    BY QueueAssumption, FS_Subset DEF Before
  <2>2. j \in Before(Q, j)
    BY <1>1 DEF Before
  <2>3. QED
    BY <2>1, <2>2, FS_Subset
<1>3. p \in Nat \ {0}
  BY <1>2, FS_CardinalityType, FS_EmptySet
<1>4. Held \in 0..Slots
  BY QueueAssumption DEF QueueInv, ListingOK, Held
<1>5. /\ rounds \in Nat /\ p <= Slots * rounds + (Slots - Held)
      /\ rounds # 0 => p > Slots * (rounds - 1) + (Slots - Held)
  <2> HIDE DEF p
  <2>1. QED
    BY <1>3, <1>4, RoundsBounds
<1>6. Bound(Q, j) = Duration * rounds
  BY DEF Bound
<1>7. Bound(Q, j) \in Nat
  <2> HIDE DEF rounds
  <2>1. QED
    BY <1>1, <1>5, <1>6
<1>8. QED
  BY <1>2, <1>3, <1>5, <1>6, <1>7

(* Time passes only while a promise leaves some. If none were left to a    *)
(* waiting job, all slots would be held by jobs before it that started     *)
(* less than one round ago: with no full round before it they do not fit   *)
(* into A and the jobs before it, and else none of them is of A and the    *)
(* first of them would itself be a whole round further behind.             *)
LEMMA TimeIsLeft ==
  ASSUME QueueInv, NEW Q \in SUBSET QJobs, NEW A \in SUBSET QJobs, Promise(Q, A),
         TimePasses, NEW j \in Q, jobRow[j].state = "queued"
  PROVE  clock < listing.time + Bound(Q, j)
<1> DEFINE p == Cardinality(Before(Q, j))
           rounds == Rounds(p, Held)
           R == In("running")
           a == Held
<1>0. /\ clock \in Nat /\ skew \in Int /\ Duration \in Nat \ {0} /\ Slots \in Nat \ {0}
      /\ QJobs \subseteq Nat /\ IsFiniteSet(QJobs)
      /\ a \in 0..Slots /\ listing.time \in Nat /\ NoTime \notin Int
  BY QueueAssumption DEF QueueInv, QueueTypeOK, ListingOK, Held
<1>1. /\ j \in Before(Q, j) /\ IsFiniteSet(Before(Q, j)) /\ p \in Nat \ {0}
      /\ rounds \in Nat /\ Bound(Q, j) = Duration * rounds
      /\ p <= Slots * rounds + (Slots - a)
  BY BoundIsNat
<1>2. SUFFICES ASSUME clock = listing.time + Duration * rounds PROVE FALSE
  <2>1. clock <= listing.time + Bound(Q, j)
    BY DEF Promise
  <2>2. Bound(Q, j) \in Nat
    BY BoundIsNat
  <2>3. QED
    BY <1>0, <1>1, <1>2, <2>1, <2>2
<1> HIDE DEF rounds, p
<1>3. /\ R \subseteq QJobs /\ IsFiniteSet(R) /\ Cardinality(R) = Slots
      /\ \A i \in R : jobRow[i].state = "running"
  <2>1. j \in In("queued")
    BY DEF In
  <2>2. Cardinality(R) = Slots
    BY <2>1 DEF TimePasses
  <2>3. QED
    BY <2>2, InIsFinite DEF In
<1>4. ASSUME NEW i \in R
      PROVE  /\ i < j /\ i \in Q \cup A
             /\ jobRow[i].started - skew \in Int
             /\ jobRow[i].started - skew > clock - Duration
  <2>1. jobRow[i].state = "running" /\ i \in QJobs
    BY <1>3
  <2>2. i < j
    BY <2>1 DEF QueueInv, FirstComeFirstServed
  <2>3. jobRow[i].started \in Int /\ clock + skew <= jobRow[i].started + Duration
    BY <2>1 DEF QueueInv, RowOK, Host
  <2>4. jobRow[i].started + Duration # clock + skew
    BY <2>1 DEF TimePasses, Due, Host, In
  <2>5. i \in Q \cup A
    <3>1. j \in Nat /\ i \in Nat /\ ~(j < i)
      BY <1>0, <2>1, <2>2
    <3>2. QED
      BY <2>1, <3>1 DEF Promise
  <2>6. QED
    BY <1>0, <2>2, <2>3, <2>4, <2>5
<1>5. CASE rounds = 0
  <2> DEFINE E == Before(Q, j) \ {j}
  <2>1. IsFiniteSet(E) /\ Cardinality(E) = p - 1
    BY <1>1, FS_RemoveElement DEF p
  <2>2. IsFiniteSet(A) /\ Cardinality(A) \in Nat /\ Cardinality(A) <= a
    BY <1>0, FS_Subset, FS_CardinalityType DEF Promise
  <2>3. R \subseteq A \cup E
    BY <1>0, <1>3, <1>4 DEF Before
  <2> HIDE DEF E
  <2>4. /\ IsFiniteSet(A \cup E)
        /\ Cardinality(A \cup E) = Cardinality(A) + Cardinality(E) - Cardinality(A \cap E)
        /\ Cardinality(A \cap E) \in Nat
    BY <2>1, <2>2, FS_Union, FS_Intersection, FS_CardinalityType
  <2>5. Cardinality(R) <= Cardinality(A \cup E)
    BY <2>3, <2>4, FS_Subset
  <2>6. Slots <= a + (p - 1)
    BY <1>0, <1>1, <1>3, <2>1, <2>2, <2>4, <2>5
  <2>7. p <= Slots - a
    BY <1>0, <1>1, <1>5
  <2>8. QED
    BY <1>0, <1>1, <2>6, <2>7
<1>6. CASE rounds # 0
  <2>1. ASSUME NEW i \in R
        PROVE  /\ i \in Q
               /\ Cardinality(Before(Q, i)) \in Nat
               /\ Cardinality(Before(Q, i)) > Slots * (rounds - 1) + (Slots - a)
    <3>1. i \notin A
      <4>1. SUFFICES ASSUME i \in A PROVE FALSE
        OBVIOUS
      <4>2. jobRow[i].started - skew <= listing.time
        BY <4>1 DEF Promise
      <4>3. Duration * rounds >= Duration
        BY <1>0, <1>1, <1>6
      <4>4. Duration * rounds \in Nat
        BY <1>0, <1>1
      <4>5. QED
        BY <1>0, <1>2, <1>4, <4>2, <4>3, <4>4
    <3>2. i \in Q
      BY <1>4, <3>1
    <3> DEFINE q == Cardinality(Before(Q, i))
               more == Rounds(q, Held)
    <3>3. /\ q \in Nat /\ more \in Nat /\ Bound(Q, i) = Duration * more
          /\ more # 0 => q > Slots * (more - 1) + (Slots - a)
      BY <3>2, BoundIsNat
    <3>4. jobRow[i].started - skew <= listing.time + Bound(Q, i)
      BY <1>3, <3>2 DEF Promise
    <3> HIDE DEF q, more
    <3>5. Duration * more > Duration * (rounds - 1)
      <4>1. Duration * (rounds - 1) = Duration * rounds - Duration
        BY <1>0, <1>1
      <4>2. Duration * more \in Nat /\ Duration * rounds \in Nat
        BY <1>0, <1>1, <3>3
      <4>3. QED
        BY <1>0, <1>2, <1>4, <3>3, <3>4, <4>1, <4>2
    <3>6. more >= rounds
      BY <1>0, <1>1, <3>3, <3>5, Scaled
    <3>7. Slots * (more - 1) >= Slots * (rounds - 1)
      BY <1>0, <1>1, <3>3, <3>6
    <3>8. Slots * (more - 1) \in Int /\ Slots * (rounds - 1) \in Int
      BY <1>0, <1>1, <3>3
    <3>9. q > Slots * (rounds - 1) + (Slots - a)
      BY <1>0, <1>1, <1>6, <3>3, <3>6, <3>7, <3>8
    <3>10. QED
      BY <3>2, <3>3, <3>9 DEF q
  <2>2. PICK i \in R : \A k \in R : i <= k
    <3>1. R # {} /\ R \subseteq Nat
      BY <1>0, <1>3, FS_EmptySet
    <3> HIDE DEF R
    <3>2. QED
      BY <3>1, LeastOf
  <2> DEFINE B == Before(Q, i)
             T == R \cup {j}
  <2>3. i \in Q /\ Cardinality(B) \in Nat /\ Cardinality(B) > Slots * (rounds - 1) + (Slots - a)
    BY <2>1
  <2>4. IsFiniteSet(B) /\ i \in B
    BY <2>3, BoundIsNat
  <2>5. j \notin R
    BY <1>0, <1>4
  <2>6. IsFiniteSet(T) /\ Cardinality(T) = Slots + 1
    BY <1>3, <2>5, FS_AddElement
  <2>7. B \cap T = {i}
    <3>1. i < j
      BY <1>4
    <3>2. ASSUME NEW k \in B \cap T PROVE k = i
      <4>1. k <= i /\ k \in Nat /\ i \in Nat /\ j \in Nat
        <5>1. k \in Q /\ k <= i
          BY DEF Before
        <5>2. QED
          BY <1>0, <2>3, <5>1
      <4>2. k # j
        BY <3>1, <4>1
      <4>3. QED
        BY <2>2, <4>1, <4>2
    <3>3. QED
      BY <2>4, <3>2
  <2>8. B \cup T \subseteq Before(Q, j)
    <3>1. ASSUME NEW k \in B PROVE k \in Before(Q, j)
      <4>1. k \in Q /\ k <= i
        BY DEF Before
      <4>2. i < j
        BY <1>4
      <4>3. k \in Nat /\ i \in Nat /\ j \in Nat
        BY <1>0, <2>3, <4>1
      <4>4. QED
        BY <4>1, <4>2, <4>3 DEF Before
    <3>2. ASSUME NEW k \in R PROVE k \in Before(Q, j)
      <4>1. k \in Q /\ k < j
        BY <1>4, <2>1
      <4>2. k \in Nat /\ j \in Nat
        BY <1>0, <4>1
      <4>3. QED
        BY <4>1, <4>2 DEF Before
    <3>3. QED
      BY <1>1, <3>1, <3>2
  <2> HIDE DEF B, T
  <2>9. /\ IsFiniteSet(B \cup T)
        /\ Cardinality(B \cup T) = Cardinality(B) + Cardinality(T) - Cardinality(B \cap T)
    BY <2>4, <2>6, FS_Union
  <2>10. Cardinality(B \cap T) = 1
    BY <2>7, FS_Singleton
  <2>11. Cardinality(B \cup T) <= p
    BY <1>1, <2>8, FS_Subset DEF p
  <2>12. Slots * (rounds - 1) = Slots * rounds - Slots /\ Slots * rounds \in Nat
    BY <1>0, <1>1
  <2>13. QED
    BY <1>0, <1>1, <2>3, <2>6, <2>9, <2>10, <2>11, <2>12
<1>7. QED
  BY <1>5, <1>6

\* A promise is kept by a step that changes the row of one job.
LEMMA PromiseKept ==
  ASSUME QueueInv, QueueInv', NEW Q \in SUBSET QJobs, NEW A \in SUBSET QJobs, Promise(Q, A),
         clock' = clock, skew' = skew, Held' = Held, Slip' = Slip,
         listing'.time = listing.time, listing'.estimate = listing.estimate,
         NEW j \in QJobs, \A k \in QJobs \ {j} : jobRow'[k] = jobRow[k],
         \/ jobRow[j].state = "none" /\ jobRow'[j].state = "queued"
         \/ /\ jobRow[j].state = "queued" /\ jobRow'[j].state = "running"
            /\ jobRow'[j].started = clock + skew
         \/ /\ jobRow[j].state = "running" /\ jobRow'[j].state = "succeeded"
            /\ jobRow'[j].started = jobRow[j].started
  PROVE  Promise(Q, A)'
<1>1. \A k \in QJobs : Bound(Q, k)' = Bound(Q, k)
  BY DEF Bound, Before, Rounds
<1>2. clock \in Nat /\ skew \in Int
  BY QueueAssumption DEF QueueInv, QueueTypeOK
<1>3. ASSUME NEW k \in Q
      PROVE  IF jobRow'[k].state = "queued" THEN clock <= listing.time + Bound(Q, k)
             ELSE /\ jobRow'[k].state \in {"running", "succeeded"}
                  /\ jobRow'[k].started - skew <= listing.time + Bound(Q, k)
  <2>1. IF jobRow[k].state = "queued" THEN clock <= listing.time + Bound(Q, k)
        ELSE /\ jobRow[k].state \in {"running", "succeeded"}
             /\ jobRow[k].started - skew <= listing.time + Bound(Q, k)
    BY DEF Promise
  <2>2. CASE k # j
    BY <2>1, <2>2
  <2>3. CASE k = j
    <3>1. CASE jobRow[j].state = "queued"
      <4>1. (clock + skew) - skew = clock
        BY <1>2
      <4>2. QED
        BY <2>1, <2>3, <3>1, <4>1
    <3>2. CASE jobRow[j].state # "queued"
      BY <2>1, <2>3, <3>2
    <3>3. QED
      BY <3>1, <3>2
  <2>4. QED
    BY <2>2, <2>3
<1>4. ASSUME NEW i \in A
      PROVE  /\ jobRow'[i].state \in {"running", "succeeded"}
             /\ jobRow'[i].started - skew <= listing.time
  BY DEF Promise
<1>5. ASSUME NEW i \in QJobs
      PROVE  \/ i \in Q \cup A
             \/ jobRow'[i].state = "succeeded"
             \/ \A k \in Q : k < i
  BY DEF Promise
<1>6. QED
  BY <1>1, <1>3, <1>4, <1>5 DEF Promise

\* And made when the estimates are.
LEMMA PromiseMade ==
  ASSUME QueueInv, EstimateInv, Estimate, In("cancelled") = {}
  PROVE  Promise(In("queued"), In("running"))'
<1> DEFINE Q == In("queued")
           A == In("running")
<1>1. /\ listing.at = "counted" /\ UNCHANGED <<clock, skew, jobRow>>
      /\ listing' = [listing EXCEPT !.at = "done",
           !.estimate = [j \in QJobs |->
              IF j \in In("queued") /\ Ran # {}
              THEN Average * Rounds(Position(j), listing.active) ELSE NoTime]]
  BY DEF Estimate
<1>2. listing.time = clock /\ Cardinality(A) <= Held
  BY <1>1 DEF EstimateInv
<1>3. /\ Held' = Held /\ Slip' = Slip /\ listing'.time = clock
      /\ \A j \in QJobs : listing'.estimate[j] =
           IF j \in Q /\ Ran # {} THEN Average * Rounds(Position(j), listing.active) ELSE NoTime
  BY <1>1, <1>2 DEF QueueInv, ListingOK, Held, Slip
<1>4. Q \in SUBSET QJobs /\ A \in SUBSET QJobs /\ Q' = Q /\ A' = A
  BY <1>1 DEF In
<1>5. ASSUME Ran # {} PROVE Average = Duration
  <2>1. IsFiniteSet(Ran)
    BY QueueAssumption, FS_Subset DEF Ran
  <2>2. ASSUME NEW j \in Ran PROVE jobRow[j].finished - jobRow[j].started = Duration
    <3>1. /\ j \in QJobs /\ jobRow[j].started # NoTime /\ jobRow[j].finished # NoTime
          /\ RowOK(j) /\ jobRow[j].state # "cancelled"
          /\ jobRow[j].state \in {"none", "queued", "running", "succeeded", "cancelled"}
      BY DEF Ran, QueueInv, QueueTypeOK, In
    <3>2. jobRow[j].started \in Int /\ jobRow[j].finished = jobRow[j].started + Duration
      BY <3>1 DEF RowOK
    <3>3. QED
      BY <3>2, QueueAssumption
  <2>3. QED
    BY <1>5, <2>1, <2>2, AverageOfEquals
<1>6. ASSUME NEW j \in Q PROVE Bound(Q, j)' = Bound(Q, j)
  BY <1>3, <1>4 DEF Bound, Before, Rounds
<1>7. ASSUME NEW j \in QJobs, listing'.estimate[j] # NoTime
      PROVE  /\ j \in Q /\ listing'.estimate[j] \in Int
             /\ Bound(Q, j)' <= listing'.estimate[j] + Slip'
  <2>1. j \in Q /\ listing'.estimate[j] = Duration * Rounds(Position(j), listing.active)
    BY <1>3, <1>5, <1>7
  <2>2. PICK p : p = Position(j)
    OBVIOUS
  <2>3. Position(j) = Cardinality(Before(Q, j))
    BY DEF Position, Before
  <2>4. p \in Nat \ {0} /\ Bound(Q, j)' = Duration * Rounds(p, Held)
    BY <1>4, <1>6, <2>1, <2>2, <2>3, BoundIsNat
  <2>5. listing.active \in 0..Slots /\ Duration \in Nat
    BY QueueAssumption DEF QueueInv, ListingOK
  <2>6. PICK n \in Nat : n = Rounds(p, listing.active)
    BY <2>4, <2>5, RoundsBounds
  <2>7. Duration * n \in Nat /\ listing'.estimate[j] = Duration * n
    BY <2>1, <2>2, <2>5, <2>6
  <2>8. CASE listing.late
    <3>1. PICK m \in Nat : m = Rounds(p, Slots) /\ m <= n + 1
      BY <2>4, <2>5, <2>6, OneRoundMore
    <3>2. Duration * m <= Duration * (n + 1)
      BY <2>5, <3>1
    <3>3. Duration * (n + 1) = Duration * n + Duration /\ Duration * m \in Nat
      BY <2>5
    <3>4. Bound(Q, j)' = Duration * m /\ Slip' = Duration
      BY <1>3, <2>4, <2>8, <3>1 DEF Held, Slip
    <3>5. QED
      BY <2>1, <2>5, <2>7, <3>2, <3>3, <3>4
  <2>9. CASE ~listing.late
    <3>1. Bound(Q, j)' = Duration * n /\ Slip' = 0
      BY <1>3, <2>4, <2>6, <2>9 DEF Held, Slip
    <3>2. QED
      BY <2>1, <2>7, <3>1
  <2>10. QED
    BY <2>8, <2>9
<1>8. ASSUME NEW j \in Q
      PROVE  jobRow'[j].state = "queued" /\ clock' <= listing'.time + Bound(Q, j)'
  <2>1. Bound(Q, j) \in Nat /\ clock \in Nat
    BY <1>4, BoundIsNat DEF QueueInv, QueueTypeOK
  <2>2. jobRow'[j].state = "queued"
    BY <1>1 DEF In
  <2>3. QED
    BY <1>1, <1>3, <1>6, <2>1, <2>2
<1>9. ASSUME NEW i \in A
      PROVE  jobRow'[i].state = "running" /\ jobRow'[i].started - skew' <= listing'.time
  BY <1>1, <1>3 DEF In, QueueInv, RowOK
<1>10. ASSUME NEW i \in QJobs, i \notin Q \cup A
       PROVE  jobRow'[i].state = "succeeded" \/ \A k \in Q : k < i
  <2>1. jobRow[i].state \in {"none", "succeeded"}
    BY <1>10 DEF In, QueueInv, QueueTypeOK
  <2>2. ASSUME jobRow[i].state = "none", NEW k \in Q PROVE k < i
    BY <2>2 DEF In, QueueInv, FirstComeFirstServed
  <2>3. QED
    BY <1>1, <2>1, <2>2
<1>11. Cardinality(A) <= Held'
  BY <1>2, <1>3
<1> HIDE DEF Q, A
<1>12. Promise(Q, A)'
  BY <1>4, <1>7, <1>8, <1>9, <1>10, <1>11 DEF Promise
<1>13. QED
  BY <1>12 DEF Q, A

(* Only the passing of time could break a promise. Before it is made, an   *)
(* admission can make more jobs run than were counted; the listing is late *)
(* then.                                                                   *)
LEMMA EstimateInvStep == QueueInv /\ EstimateInv /\ [QueueNext]_queueVars => EstimateInv'
<1> SUFFICES ASSUME QueueInv, EstimateInv, [QueueNext]_queueVars,
                    In("cancelled")' = {}
             PROVE  /\ listing'.at = "counted" =>
                         listing'.time = clock' /\ Cardinality(In("running"))' <= Held'
                    /\ listing'.at = "done" =>
                         \E Q \in SUBSET QJobs, A \in SUBSET QJobs : Promise(Q, A)'
  BY DEF EstimateInv
<1>0. QueueInv'
  BY QueueInvStep
<1>1. CASE UNCHANGED queueVars
  <2>1. UNCHANGED <<clock, skew, jobRow, listing>> /\ In("cancelled") = {}
    BY <1>1 DEF queueVars, In
  <2>2. In("running")' = In("running")
    BY <2>1 DEF In
  <2>3. ASSUME NEW Q \in SUBSET QJobs, NEW A \in SUBSET QJobs, Promise(Q, A) PROVE Promise(Q, A)'
    BY <2>1, <2>3 DEF Promise, Bound, Before, Rounds, Held, Slip
  <2>4. Held' = Held
    BY <2>1 DEF Held
  <2>5. QED
    BY <2>1, <2>2, <2>3, <2>4 DEF EstimateInv
<1>2. ASSUME NEW j \in QJobs, Admit(j) \/ SubmitJob(j) \/ Finish(j)
      PROVE  /\ In("cancelled") = {}
             /\ \/ listing.at # "counted" /\ Held' = Held /\ Slip' = Slip
                \/ listing.at = "counted" /\ Held' = Slots
                \/ In("running")' \subseteq In("running") /\ Held' = Held /\ Slip' = Slip
             /\ listing'.time = listing.time
             /\ listing'.at = listing.at /\ listing'.estimate = listing.estimate
             /\ clock' = clock /\ skew' = skew
             /\ \A k \in QJobs \ {j} : jobRow'[k] = jobRow[k]
             /\ \/ jobRow[j].state = "none" /\ jobRow'[j].state = "queued"
                \/ /\ jobRow[j].state = "queued" /\ jobRow'[j].state = "running"
                   /\ jobRow'[j].started = clock + skew
                \/ /\ jobRow[j].state = "running" /\ jobRow'[j].state = "succeeded"
                   /\ jobRow'[j].started = jobRow[j].started
  <2>0. QueueTypeOK
    BY DEF QueueInv
  <2>1. CASE SubmitJob(j)
    BY <2>0, <2>1 DEF SubmitJob, In, QueueTypeOK, Held, Slip
  <2>2. CASE Admit(j)
    <3>1. /\ jobRow[j].state = "queued" /\ clock' = clock /\ skew' = skew
          /\ jobRow' = [jobRow EXCEPT ![j].state = "running", ![j].started = Host]
          /\ listing' = [listing EXCEPT !.late = listing.late \/ listing.at = "counted"]
      BY <2>2 DEF Admit, AtHead, In
    <3>2. /\ jobRow'[j].state = "running" /\ jobRow'[j].started = clock + skew
          /\ \A k \in QJobs \ {j} : jobRow'[k] = jobRow[k]
      BY <3>1 DEF Host, QueueInv, QueueTypeOK
    <3>3. In("cancelled") = {}
      BY <3>1, <3>2 DEF In
    <3>4. /\ listing'.late = (listing.late \/ listing.at = "counted")
          /\ listing'.at = listing.at /\ listing'.time = listing.time
          /\ listing'.estimate = listing.estimate /\ listing'.active = listing.active
      BY <3>1 DEF QueueInv, ListingOK
    <3>5. /\ listing.at = "counted" => Held' = Slots
          /\ listing.at # "counted" => Held' = Held /\ Slip' = Slip
      BY <3>4 DEF Held, Slip, QueueInv, ListingOK
    <3>6. QED
      BY <3>1, <3>2, <3>3, <3>4, <3>5
  <2>3. CASE Finish(j)
    BY <2>0, <2>3 DEF Finish, Due, In, QueueTypeOK, Held, Slip
  <2>4. QED
    BY <1>2, <2>1, <2>2, <2>3
<1>3. CASE \E j \in QJobs : Admit(j) \/ SubmitJob(j) \/ Finish(j)
  <2>1. PICK j \in QJobs : Admit(j) \/ SubmitJob(j) \/ Finish(j)
    BY <1>3
  <2>2. CASE listing.at = "counted"
    <3>1. listing.time = clock /\ Cardinality(In("running")) <= Held
      BY <1>2, <2>1, <2>2 DEF EstimateInv
    <3>2. CASE Held' = Slots
      BY <1>0, <1>2, <2>1, <2>2, <3>1, <3>2 DEF QueueInv
    <3>3. CASE Held' # Slots
      <4>1. In("running")' \subseteq In("running") /\ Held' = Held
        BY <1>2, <2>1, <2>2, <3>3
      <4>2. Cardinality(In("running"))' <= Cardinality(In("running"))
        BY <4>1, FewerRun
      <4>3. /\ Cardinality(In("running")) \in Nat /\ Cardinality(In("running")') \in Nat
            /\ Held \in Nat
        BY <4>1, InIsFinite, FS_Subset, FS_CardinalityType, QueueAssumption DEF QueueInv, ListingOK, Held
      <4>4. QED
        BY <1>2, <2>1, <2>2, <3>1, <4>1, <4>2, <4>3
    <3>4. QED
      BY <3>2, <3>3
  <2>3. CASE listing.at = "done"
    <3>1. PICK Q \in SUBSET QJobs, A \in SUBSET QJobs : Promise(Q, A)
      BY <1>2, <2>1, <2>3 DEF EstimateInv
    <3>2. Held' = Held /\ Slip' = Slip /\ listing'.time = listing.time
          /\ listing'.estimate = listing.estimate /\ clock' = clock /\ skew' = skew
      BY <1>2, <2>1, <2>3
    <3>3. Promise(Q, A)'
      BY <1>0, <1>2, <2>1, <3>1, <3>2, PromiseKept
    <3>4. QED
      BY <1>2, <2>1, <2>3, <3>3
  <2>4. QED
    BY <1>2, <2>1, <2>2, <2>3
<1>4. CASE \E j \in QJobs : CancelJob(j)
  BY <1>4, CancelKeeps
<1>5. CASE TimePasses
  <2>1. /\ listing.at # "counted" /\ clock' = clock + 1 /\ UNCHANGED <<skew, jobRow, listing>>
        /\ In("cancelled") = {} /\ clock \in Nat
    BY <1>5 DEF TimePasses, In, QueueInv, QueueTypeOK
  <2>2. ASSUME listing.at = "done"
        PROVE  \E Q \in SUBSET QJobs, A \in SUBSET QJobs : Promise(Q, A)'
    <3>1. PICK Q \in SUBSET QJobs, A \in SUBSET QJobs : Promise(Q, A)
      BY <2>1, <2>2 DEF EstimateInv
    <3>2. Held' = Held /\ Slip' = Slip /\ \A k \in QJobs : Bound(Q, k)' = Bound(Q, k)
      BY <2>1 DEF Bound, Before, Rounds, Held, Slip
    <3>3. ASSUME NEW j \in Q, jobRow[j].state = "queued"
          PROVE  clock + 1 <= listing.time + Bound(Q, j)
      <4>1. clock < listing.time + Bound(Q, j)
        BY <1>5, <3>1, <3>3, TimeIsLeft
      <4>2. Bound(Q, j) \in Nat /\ listing.time \in Nat
        BY BoundIsNat DEF QueueInv, ListingOK
      <4>3. QED
        BY <2>1, <4>1, <4>2
    <3>4. Promise(Q, A)'
      BY <2>1, <3>1, <3>2, <3>3 DEF Promise
    <3>5. QED
      BY <3>4
  <2>3. QED
    BY <2>1, <2>2
<1>6. CASE Count
  <2>1. /\ clock' = clock /\ listing'.at = "counted" /\ listing'.time = clock
        /\ listing'.active = Cardinality(In("running")) /\ In("running")' = In("running")
    BY <1>6 DEF Count, In, QueueInv, ListingOK
  <2>2. Cardinality(In("running")) \in Nat
    BY InIsFinite
  <2>3. Cardinality(In("running"))' <= Held'
    BY <1>0, <2>1, <2>2 DEF Held, QueueInv
  <2>4. QED
    BY <2>1, <2>3
<1>7. CASE Estimate
  <2>1. listing'.at = "done" /\ In("cancelled") = {}
    BY <1>7 DEF Estimate, In, QueueInv, ListingOK
  <2>2. Promise(In("queued"), In("running"))'
    BY <1>7, <2>1, PromiseMade
  <2>3. PICK Q \in SUBSET QJobs, A \in SUBSET QJobs : Q = In("queued")' /\ A = In("running")'
    BY DEF In
  <2>4. Promise(Q, A)'
    BY <2>2, <2>3 DEF Promise, Bound, Before
  <2>5. QED
    BY <2>1, <2>4
<1>8. QED
  BY <1>1, <1>3, <1>4, <1>5, <1>6, <1>7 DEF QueueNext

(* No job waits longer than list_queues estimated, for any number of jobs  *)
(* and slots and any duration, when all jobs run equally long and none is  *)
(* cancelled; and at most one round longer, however many were admitted     *)
(* between its two looks (queue_summaries and Service.list_queues).        *)
THEOREM QueueEstimates == QueueSpec => []EstimateIsEnough
<1>1. QueueInit => EstimateInv
  BY DEF QueueInit, EstimateInv
<1>2. QueueInv /\ EstimateInv => EstimateIsEnough
  <2> SUFFICES ASSUME QueueInv, EstimateInv, listing.at = "done",
                      In("cancelled") = {}, NEW j \in QJobs, listing.estimate[j] # NoTime
               PROVE  (IF jobRow[j].started = NoTime THEN clock ELSE jobRow[j].started - skew)
                        - listing.time <= listing.estimate[j] + Slip
    BY DEF EstimateIsEnough, Slip
  <2>1. PICK Q \in SUBSET QJobs, A \in SUBSET QJobs : Promise(Q, A)
    BY DEF EstimateInv
  <2>2. /\ j \in Q /\ Bound(Q, j) \in Nat /\ listing.estimate[j] \in Int /\ Slip \in Int
        /\ Bound(Q, j) <= listing.estimate[j] + Slip
        /\ clock \in Nat /\ listing.time \in Nat /\ RowOK(j) /\ skew \in Int
    BY <2>1, BoundIsNat, QueueAssumption DEF Promise, QueueInv, QueueTypeOK, ListingOK, Slip
  <2>3. IF jobRow[j].state = "queued" THEN clock <= listing.time + Bound(Q, j)
        ELSE /\ jobRow[j].state \in {"running", "succeeded"}
             /\ jobRow[j].started - skew <= listing.time + Bound(Q, j)
    BY <2>1, <2>2 DEF Promise
  <2>4. CASE jobRow[j].state = "queued"
    BY <2>2, <2>3, <2>4 DEF RowOK
  <2>5. CASE jobRow[j].state # "queued"
    <3>1. jobRow[j].started \in Int /\ jobRow[j].started # NoTime
      BY <2>2, <2>3, <2>5 DEF RowOK
    <3>2. QED
      BY <2>2, <2>3, <2>5, <3>1
  <2>6. QED
    BY <2>4, <2>5
<1>3. QED
  BY QueueInvInit, QueueInvStep, EstimateInvStep, <1>1, <1>2, PTL DEF QueueSpec

-----------------------------------------------------------------------------
(***************************************************************************)
(* The job of the tmux wrapper.                                            *)
(*                                                                         *)
(* As long as the worker is not slow and no cancellation came too early    *)
(* for process.json, no canceller writes a result: one that waits for the  *)
(* worker has seen the command end, or has ended it.  So the temporary     *)
(* file is the worker's alone, and the result is written once.             *)
(***************************************************************************)
Begun == {"record", "wait", "look", "stage", "replace", "stageError", "replaceError",
          "signal", "gone"}

TmuxInv ==
  /\ TmuxTypeOK
  /\ wpc \in {"none", "start"} => process = "none" /\ says = "none"
  /\ wpc \in {"record", "wait"} => process # "none"
  /\ wpc \in {"look", "stage", "replace"} => process = "over"
  /\ recorded => wpc \in Begun \ {"record"} /\ process # "none"
  /\ \A c \in Waiters \cup Cancellers : cpc[c] \in {"term", "grace"} => recorded
  /\ says = "cancelled" => process = "over"

TmuxCalm ==
  /\ slow = 0 /\ ~blind => \A c \in Waiters \cup Cancellers :
       /\ cpc[c] \notin {"stage", "replace"}
       /\ cpc[c] = "await" => process = "over"
  /\ slow = 0 /\ ~blind =>
       /\ result # "none" => wpc \in {"signal", "gone"}
       /\ wpc \in {"replace", "replaceError"} => temp = says
       /\ result = "cancelled" => process = "over"

\* Both hold at the start, and every step keeps them.
LEMMA TmuxInvInit == TmuxInit => TmuxInv /\ TmuxCalm
<1> SUFFICES ASSUME TmuxInit PROVE TmuxInv /\ TmuxCalm
  OBVIOUS
<1>1. \A c \in Waiters \cup Cancellers : cpc[c] = "idle"
  BY DEF TmuxInit
<1>2. TmuxTypeOK
  <2>1. slow \in 0..MaxSlow
    BY TmuxAssumption DEF TmuxInit
  <2>2. {says, temp, result} \subseteq {"none", "succeeded", "failed", "cancelled"}
    BY DEF TmuxInit
  <2>3. QED
    BY <2>1, <2>2, Zenon DEF TmuxInit, TmuxTypeOK
<1>3. QED
  BY <1>1, <1>2 DEF TmuxInit, TmuxInv, TmuxCalm

LEMMA WorkerKeeps ==
  ASSUME TmuxInv, TmuxCalm, Submit \/ WorkerStep \/ ProcessEnds
  PROVE  TmuxInv' /\ TmuxCalm'
<1> USE DEF TmuxInv, TmuxCalm, TmuxTypeOK, Begun, WorkerGoes, files, channel, worker
<1>1. CASE Submit
  BY <1>1 DEF Submit
<1>2. CASE StartCommand
  BY <1>2 DEF StartCommand
<1>3. CASE RecordProcess
  BY <1>3 DEF RecordProcess
<1>4. CASE ProcessEnds
  BY <1>4 DEF ProcessEnds
<1>5. CASE CommandIsOver
  BY <1>5 DEF CommandIsOver
<1>6. CASE LookForMark
  BY <1>6 DEF LookForMark
<1>7. CASE StageResult
  BY <1>7 DEF StageResult, Stage
<1>8. CASE ReplaceResult
  BY <1>8 DEF ReplaceResult, Replace
<1>9. CASE SignalDone
  BY <1>9 DEF SignalDone, Signal
<1>10. QED
  BY <1>1, <1>2, <1>3, <1>4, <1>5, <1>6, <1>7, <1>8, <1>9 DEF WorkerStep

LEMMA ClientKeeps ==
  ASSUME TmuxInv, TmuxCalm, NEW c \in Waiters \cup Cancellers,
         WaitBegins(c) \/ CancelBegins(c) \/ ClientStep(c)
  PROVE  TmuxInv' /\ TmuxCalm'
<1> USE DEF TmuxInv, TmuxCalm, TmuxTypeOK, Begun, Goes, files, channel, worker
<1>1. CASE WaitBegins(c)
  BY <1>1 DEF WaitBegins
<1>2. CASE CancelBegins(c)
  BY <1>2 DEF CancelBegins
<1>3. CASE c \in Waiters /\ FallsAsleep(c)
  <2>1. /\ cpc' = [cpc EXCEPT ![c] = "poll"] /\ kept' = FALSE
        /\ asleep' \subseteq Waiters /\ UNCHANGED <<worker, files, blind, slow>>
    BY <1>3 DEF FallsAsleep
  <2>2. TmuxTypeOK'
    BY <2>1
  <2>3. QED
    BY <2>1, <2>2
<1>4. CASE Polls(c)
  <2>1. /\ cpc' = cpc \/ cpc' = [cpc EXCEPT ![c] = "done"]
        /\ UNCHANGED <<worker, files, blind, slow>>
    BY <1>4 DEF Polls
  <2>2. kept' \in BOOLEAN /\ asleep' \subseteq Waiters
    BY <1>4 DEF Polls, Signal
  <2>3. TmuxTypeOK'
    BY <2>1, <2>2
  <2>4. QED
    BY <2>1, <2>3
<1>5. CASE Mark(c)
  BY <1>5 DEF Mark
<1>6. CASE ReadProcess(c)
  BY <1>6 DEF ReadProcess
<1>7. CASE Terminate(c)
  BY <1>7 DEF Terminate
<1>8. CASE GraceEnds(c)
  BY <1>8 DEF GraceEnds
<1>9. CASE Awaits(c)
  BY <1>9, TmuxAssumption DEF Awaits, StillRuns
<1>10. CASE StageCancelled(c)
  BY <1>10 DEF StageCancelled, Stage
<1>11. CASE ReplaceCancelled(c)
  BY <1>11 DEF ReplaceCancelled, Replace
<1>12. QED
  BY <1>1, <1>2, <1>3, <1>4, <1>5, <1>6, <1>7, <1>8, <1>9, <1>10, <1>11 DEF ClientStep

LEMMA TmuxInvStep == TmuxInv /\ TmuxCalm /\ [TmuxNext]_tmuxVars => TmuxInv' /\ TmuxCalm'
<1> SUFFICES ASSUME TmuxInv, TmuxCalm, [TmuxNext]_tmuxVars PROVE TmuxInv' /\ TmuxCalm'
  OBVIOUS
<1>1. CASE UNCHANGED tmuxVars
  BY <1>1 DEF tmuxVars, worker, files, channel, TmuxInv, TmuxCalm, TmuxTypeOK
<1>2. QED
  BY <1>1, WorkerKeeps, ClientKeeps DEF TmuxNext

\* A result is written once.
LEMMA ResultStays ==
  ASSUME TmuxInv, TmuxCalm, TmuxNext, slow' = 0, ~blind', result # "none"
  PROVE  result' = result
<1>1. slow = 0 /\ ~blind
  BY DEF TmuxInv, TmuxTypeOK, TmuxNext, WorkerStep, ClientStep, Submit, ProcessEnds,
    StartCommand, RecordProcess, CommandIsOver, LookForMark, StageResult, ReplaceResult, SignalDone,
    WaitBegins, CancelBegins, FallsAsleep, Polls, Mark, ReadProcess, Terminate, GraceEnds, Awaits,
    StageCancelled, ReplaceCancelled
<1>2. wpc \in {"signal", "gone"} /\ \A c \in Waiters \cup Cancellers : cpc[c] # "replace"
  BY <1>1 DEF TmuxCalm
<1>3. CASE Submit \/ WorkerStep \/ ProcessEnds
  BY <1>2, <1>3 DEF WorkerStep, Submit, ProcessEnds, WorkerGoes, files, Stage,
    StartCommand, RecordProcess, CommandIsOver, LookForMark, StageResult, ReplaceResult, SignalDone
<1>4. ASSUME NEW c \in Waiters \cup Cancellers, WaitBegins(c) \/ CancelBegins(c) \/ ClientStep(c)
      PROVE  result' = result
  BY <1>2, <1>4 DEF ClientStep, Goes, files, Stage, worker,
    WaitBegins, CancelBegins, FallsAsleep, Polls, Mark, ReadProcess, Terminate, GraceEnds, Awaits,
    StageCancelled, ReplaceCancelled
<1>5. QED
  BY <1>3, <1>4 DEF TmuxNext

(* While no worker is slow to stop and no cancellation came before         *)
(* process.json, a result that was written is never replaced, and one that *)
(* says cancelled is written after the process ended (tmux baseline).      *)
THEOREM TmuxResultHolds == TmuxSpec => ResultHolds
<1>1. TmuxInv /\ TmuxCalm /\ TmuxInv' /\ TmuxCalm' /\ [TmuxNext]_tmuxVars =>
        [slow' = 0 /\ ~blind' =>
           /\ result # "none" => result' = result
           /\ result' = "cancelled" => process' = "over"]_tmuxVars
  BY ResultStays DEF TmuxCalm, TmuxNext
<1>2. QED
  BY <1>1, TmuxInvInit, TmuxInvStep, PTL DEF TmuxSpec, ResultHolds
=============================================================================
