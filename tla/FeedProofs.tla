----------------------------- MODULE FeedProofs -----------------------------
(***************************************************************************)
(* Theorems about the completion feed for any number of readers, jobs,     *)
(* outages and lost clients, any page size and any selections.             *)
(*                                                                         *)
(* The argument: the n-th event of a page is the watched event behind the  *)
(* cursor that exactly n - 1 others precede.  Events arrive only at the    *)
(* end of the feed, so this stays true while the page is assembled, and    *)
(* since the items are a prefix of the page, the id of the last item can   *)
(* become the cursor.                                                      *)
(***************************************************************************)
EXTENDS CompletionFeed, FiniteSetTheorems, TLAPS

Rank(S, i) == Cardinality({k \in S : k < i})

-----------------------------------------------------------------------------
(* Finite sets of event ids, in order.                                     *)

LEMMA RankType ==
  ASSUME NEW S \in SUBSET Nat, IsFiniteSet(S), NEW i
  PROVE  Rank(S, i) \in Nat /\ IsFiniteSet({k \in S : k < i})
BY FS_Subset, FS_CardinalityType DEF Rank

LEMMA RankBelow ==
  ASSUME NEW S \in SUBSET Nat, IsFiniteSet(S), NEW i \in S, NEW T \in SUBSET S,
         i \in T, {k \in S : k < i} \subseteq T
  PROVE  Rank(S, i) < Cardinality(T)
<1> DEFINE B == {k \in S : k < i}
<1>1. IsFiniteSet(B) /\ Cardinality(B) \in Nat /\ i \notin B
  BY RankType DEF Rank
<1>2. Cardinality(B \cup {i}) = Cardinality(B) + 1
  BY <1>1, FS_AddElement
<1>3. IsFiniteSet(T) /\ Cardinality(T) \in Nat
  BY FS_Subset, FS_CardinalityType
<1>4. Cardinality(B \cup {i}) <= Cardinality(T)
  BY <1>3, FS_Subset
<1>5. QED
  BY <1>1, <1>2, <1>3, <1>4 DEF Rank

LEMMA RankGrows ==
  ASSUME NEW S \in SUBSET Nat, IsFiniteSet(S), NEW i \in S, NEW j \in S, i < j
  PROVE  Rank(S, i) < Rank(S, j)
<1> DEFINE T == {k \in S : k < j}
<1>1. i \in T /\ {k \in S : k < i} \subseteq T
  <2>1. i \in Nat /\ j \in Nat /\ \A k \in S : k \in Nat
    OBVIOUS
  <2>2. \A k \in S : k < i => k < j
    BY <2>1
  <2>3. QED
    BY <2>2
<1>2. Rank(S, i) < Cardinality(T)
  BY <1>1, RankBelow
<1>3. QED
  BY <1>2 DEF Rank

LEMMA RankRange ==
  ASSUME NEW S \in SUBSET Nat, IsFiniteSet(S), NEW i \in S
  PROVE  Rank(S, i) < Cardinality(S)
BY RankBelow

LEMMA RankUnique ==
  ASSUME NEW S \in SUBSET Nat, IsFiniteSet(S), NEW i \in S, NEW j \in S,
         Rank(S, i) = Rank(S, j)
  PROVE  i = j
<1>1. Rank(S, i) \in Nat /\ i \in Nat /\ j \in Nat
  BY RankType
<1>2. ~(i < j) /\ ~(j < i)
  BY <1>1, RankGrows
<1>3. QED
  BY <1>1, <1>2

(* Every rank below the size of the set is the rank of a member.           *)
LEMMA RankOnto ==
  ASSUME NEW S \in SUBSET Nat, IsFiniteSet(S), NEW m \in Nat, m < Cardinality(S)
  PROVE  \E i \in S : Rank(S, i) = m
<1> DEFINE c == Cardinality(S)
           R == 0..(c - 1)
           f == [i \in S |-> Rank(S, i)]
<1>1. c \in Nat
  BY FS_CardinalityType
<1>2. IsFiniteSet(R) /\ Cardinality(R) = c
  <2>1. 0 \in Int /\ c - 1 \in Int /\ (0 > c - 1 => c = 0) /\ c - 1 - 0 + 1 = c
    BY <1>1
  <2>2. /\ IsFiniteSet(0..(c - 1))
        /\ Cardinality(0..(c - 1)) = IF 0 > c - 1 THEN 0 ELSE (c - 1) - 0 + 1
    BY <2>1, FS_Interval
  <2>3. QED
    BY <2>1, <2>2
<1>3. ASSUME NEW i \in S PROVE Rank(S, i) \in R
  <2>1. Rank(S, i) \in Nat /\ Rank(S, i) < c
    BY RankType, RankRange
  <2>2. QED
    BY <1>1, <2>1
<1>4. f \in Injection(S, R)
  <2>1. f \in [S -> R]
    BY <1>3
  <2>2. \A i, j \in S : f[i] = f[j] => i = j
    BY RankUnique
  <2>3. QED
    BY <2>1, <2>2 DEF Injection, IsInjective
<1>5. f \in Surjection(S, R)
  BY <1>2, <1>4, FS_Injection
<1>6. m \in R
  BY <1>1
<1>7. QED
  BY <1>5, <1>6 DEF Surjection

LEMMA SeqOfMore ==
  ASSUME NEW S, NEW T, S \subseteq T, NEW s \in Seq(S)
  PROVE  s \in Seq(T)
<1>1. Len(s) \in Nat /\ s \in [1..Len(s) -> S]
  OBVIOUS
<1>2. s \in [1..Len(s) -> T]
  BY <1>1
<1>3. QED
  BY <1>1, <1>2

LEMMA InOrderRanks ==
  ASSUME NEW S \in SUBSET Nat, IsFiniteSet(S)
  PROVE  /\ InOrder(S) \in Seq(S)
         /\ \A n \in DOMAIN InOrder(S) : Rank(S, InOrder(S)[n]) = n - 1
<1> DEFINE q == InOrder(S)
<1>1. Cardinality(S) \in Nat
  BY FS_CardinalityType
<1>2. DOMAIN q = 1..Cardinality(S)
  BY DEF InOrder
<1>3. ASSUME NEW n \in DOMAIN q PROVE q[n] \in S /\ Rank(S, q[n]) = n - 1
  <2>1. q[n] = CHOOSE i \in S : Cardinality({k \in S : k < i}) = n - 1
    BY <1>2 DEF InOrder
  <2>2. n - 1 \in Nat /\ n - 1 < Cardinality(S)
    BY <1>1, <1>2
  <2>3. \E i \in S : Cardinality({k \in S : k < i}) = n - 1
    BY <2>2, RankOnto DEF Rank
  <2>4. QED
    BY <2>1, <2>3 DEF Rank
<1>4. q \in [1..Cardinality(S) -> S]
  <2>1. ASSUME NEW n \in 1..Cardinality(S)
        PROVE  (CHOOSE i \in S : Cardinality({k \in S : k < i}) = n - 1) \in S
    BY <1>2, <1>3, <2>1 DEF InOrder
  <2>2. QED
    BY <2>1 DEF InOrder
<1> HIDE DEF q
<1>5. q \in Seq(S)
  BY <1>1, <1>4
<1>6. QED
  BY <1>3, <1>5 DEF q

(* The n-th event of a page is preceded by n - 1 of all those there are,   *)
(* and the page is no longer than the limit.                               *)
LEMMA FirstRanks ==
  ASSUME NEW S \in SUBSET Nat, IsFiniteSet(S), NEW n \in Nat,
         NEW q, q = InOrder(FirstOf(S, n))
  PROVE  /\ q \in Seq(S)
         /\ \A m \in DOMAIN q : Rank(S, q[m]) = m - 1
         /\ Len(q) <= n
<1> DEFINE F == FirstOf(S, n)
<1>1. F \in SUBSET S /\ IsFiniteSet(F) /\ F \in SUBSET Nat
  BY FS_Subset DEF FirstOf
<1>2. q \in Seq(F) /\ \A m \in DOMAIN q : Rank(F, q[m]) = m - 1
  BY <1>1, InOrderRanks
<1>3. ASSUME NEW i \in F PROVE Rank(F, i) = Rank(S, i) /\ Rank(S, i) < n
  <2>1. Rank(S, i) < n
    BY DEF FirstOf, Rank
  <2>2. ASSUME NEW k \in S, k < i PROVE k \in F
    <3>1. Rank(S, k) < Rank(S, i)
      BY <1>1, <2>2, RankGrows
    <3>2. Rank(S, k) \in Nat /\ Rank(S, i) \in Nat
      BY RankType
    <3>3. Rank(S, k) < n
      BY <2>1, <3>1, <3>2
    <3>4. QED
      BY <3>3 DEF FirstOf, Rank
  <2>3. {k \in F : k < i} = {k \in S : k < i}
    BY <1>1, <2>2
  <2>4. QED
    BY <2>1, <2>3 DEF Rank
<1> HIDE DEF F
<1>4. \A m \in DOMAIN q : q[m] \in F
  BY <1>2
<1>5. \A m \in DOMAIN q : Rank(S, q[m]) = m - 1 /\ m - 1 < n
  BY <1>2, <1>3, <1>4
<1>6. Len(q) <= n
  <2>1. Len(q) \in Nat /\ DOMAIN q = 1..Len(q)
    BY <1>2
  <2>2. CASE Len(q) = 0
    BY <2>2
  <2>3. CASE Len(q) > 0
    <3>1. Len(q) \in DOMAIN q
      BY <2>1, <2>3
    <3>2. Len(q) - 1 < n
      BY <1>5, <3>1
    <3>3. QED
      BY <2>1, <3>2
  <2>4. QED
    BY <2>1, <2>2, <2>3
<1>7. q \in Seq(S)
  BY <1>1, <1>2, SeqOfMore
<1>8. QED
  BY <1>5, <1>6, <1>7

-----------------------------------------------------------------------------
(* The inductive invariant. *)

\* Each event of the page has its place among the events behind the cursor;
\* there is more when others follow, or when the page was cut short.
PageOK(r) ==
  /\ \A n \in DOMAIN page[r] :
       page[r][n] \in After(r) /\ Rank(After(r), page[r][n]) = n - 1
  /\ more[r] => \/ Cardinality(After(r)) > Len(page[r])
                \/ /\ pc[r] = "assemble" /\ at[r] = Len(page[r]) + 1
                   /\ Len(items[r]) < Len(page[r])

\* What was read of the rows of a page says how the jobs ended.
RowsOK(r) ==
  /\ pc[r] = "current" =>
       \A k \in DOMAIN select[r], n \in DOMAIN page[r] :
         k < at[r] /\ select[r][k] = feed[page[r][n]] => rows[r][select[r][k]] \in Results
  /\ pc[r] \in {"assemble", "save"} =>
       \A n \in DOMAIN page[r] : rows[r][feed[page[r][n]]] \in Results

\* The items are the first events of the page with their frozen results.
ItemsOK(r) ==
  /\ Len(items[r]) <= Len(page[r])
  /\ \A n \in DOMAIN items[r] :
       items[r][n][1] = page[r][n] /\ items[r][n][2] = snapshot[feed[page[r][n]]]
  /\ pc[r] \notin {"assemble", "save"} => items[r] = <<>>
  /\ pc[r] = "assemble" =>
       at[r] = Len(items[r]) + 1 \/ (more[r] /\ at[r] = Len(page[r]) + 1)
  /\ pc[r] = "save" =>
       at[r] = Len(items[r]) + 1 /\ at[r] \in DOMAIN page[r] /\ found[r] \in Results

GotOK(r) ==
  /\ \A x \in got[r] : x[2] = snapshot[feed[x[1]]]
  /\ \A i \in DOMAIN feed :
       feed[i] \in Selected(r) /\ i <= cursor[r] => \E x \in got[r] : x[1] = i

ReaderOK(r) ==
  at[r] >= 1 /\ PageOK(r) /\ RowsOK(r) /\ ItemsOK(r) /\ GotOK(r)

EndedOK == \A i \in DOMAIN feed : outcome[feed[i]] \in Results

FeedInv == FeedTypeOK /\ EndedOK /\ \A r \in Readers : ReaderOK(r)

-----------------------------------------------------------------------------
(* What a step does to the registry and to the memory of a reader.         *)

Grows ==
  /\ outcome' \in [Jobs -> {"active"} \cup Results]
  /\ snapshot' \in [Jobs -> {"none"} \cup Results]
  /\ feed' \in Seq(Jobs)
  /\ DOMAIN feed \subseteq DOMAIN feed' /\ Len(feed) <= Len(feed')
  /\ \A i \in DOMAIN feed : feed'[i] = feed[i]
  /\ \A j \in Jobs : outcome[j] \in Results => outcome'[j] \in Results
  /\ \A j \in Jobs : snapshot[j] # "none" => snapshot'[j] = snapshot[j]
  /\ EndedOK'

SameReader(s) ==
  /\ select'[s] = select[s] /\ pc'[s] = pc[s]
  /\ at'[s] = at[s] \/ (pc[s] = "reconcile" /\ at'[s] = at[s] + 1)
  /\ page'[s] = page[s] /\ more'[s] = more[s] /\ rows'[s] = rows[s]
  /\ found'[s] = found[s] /\ items'[s] = items[s] /\ cursor'[s] = cursor[s]
  /\ got'[s] = got[s]

\* The invariant's types for one reader.
ReaderTypes(r) ==
  /\ select[r] \in Seq(Jobs) /\ at[r] \in Nat
  /\ page[r] \in Seq(DOMAIN feed) /\ more[r] \in BOOLEAN
  /\ rows[r] \in [Jobs -> {"unread", "active"} \cup Results]
  /\ found[r] \in {"none"} \cup Results
  /\ items[r] \in Seq((DOMAIN feed) \X Results)
  /\ cursor[r] \in 0..Len(feed)
  /\ got[r] \subseteq (DOMAIN feed) \X Results

LEMMA TypesOfReader ==
  ASSUME FeedTypeOK, NEW r \in Readers
  PROVE  ReaderTypes(r)
BY DEF FeedTypeOK, ReaderTypes

LEMMA PositionsFinite ==
  ASSUME NEW S, NEW q \in Seq(S), NEW T \in SUBSET DOMAIN q
  PROVE  T \in SUBSET Nat /\ IsFiniteSet(T)
<1>1. DOMAIN q = 1..Len(q) /\ Len(q) \in Nat
  OBVIOUS
<1>2. IsFiniteSet(1..Len(q))
  BY <1>1, FS_Interval
<1>3. QED
  BY <1>1, <1>2, FS_Subset

LEMMA AfterFinite ==
  ASSUME FeedTypeOK, NEW r
  PROVE  After(r) \in SUBSET Nat /\ IsFiniteSet(After(r))
<1>1. After(r) \in SUBSET DOMAIN feed /\ feed \in Seq(Jobs)
  BY DEF After, FeedTypeOK
<1>2. QED
  BY <1>1, PositionsFinite

(* New events come after all others, so no place on a page changes.        *)
LEMMA AfterGrows ==
  ASSUME FeedInv, Grows, NEW r \in Readers, select'[r] = select[r], cursor'[r] = cursor[r]
  PROVE  /\ After(r) \subseteq After(r)'
         /\ \A i \in After(r) : Cardinality({k \in After(r)' : k < i}) = Rank(After(r), i)
         /\ Cardinality(After(r)) <= Cardinality(After(r)')
         /\ Cardinality(After(r)) \in Nat /\ Cardinality(After(r)') \in Nat
<1>1. feed \in Seq(Jobs) /\ feed' \in Seq(Jobs)
  BY DEF FeedInv, FeedTypeOK, Grows
<1>2. Selected(r)' = Selected(r)
  BY DEF Selected
<1>3. After(r) \subseteq After(r)'
  BY <1>2 DEF After, Grows
<1>4. ASSUME NEW i \in After(r) PROVE {k \in After(r)' : k < i} = {k \in After(r) : k < i}
  <2>1. ASSUME NEW k \in DOMAIN feed', k < i PROVE k \in DOMAIN feed
    BY <1>1, <2>1 DEF After
  <2>2. QED
    BY <1>2, <1>3, <2>1 DEF After, Grows
<1>5. IsFiniteSet(After(r)) /\ IsFiniteSet(After(r)')
  <2>1. After(r) \in SUBSET DOMAIN feed /\ After(r)' \in SUBSET DOMAIN feed'
    BY DEF After
  <2>2. QED
    BY <1>1, <2>1, PositionsFinite
<1>6. QED
  BY <1>3, <1>4, <1>5, FS_Subset, FS_CardinalityType DEF Rank

LEMMA GotUntouched ==
  ASSUME FeedInv, Grows, NEW r \in Readers,
         select'[r] = select[r], cursor'[r] = cursor[r], got'[r] = got[r]
  PROVE  GotOK(r)'
<1>1. ReaderOK(r) /\ ReaderTypes(r) /\ feed \in Seq(Jobs)
  BY TypesOfReader DEF FeedInv, FeedTypeOK
<1>2. \A i \in DOMAIN feed : feed'[i] = feed[i] /\ feed[i] \in Jobs
  BY <1>1 DEF Grows
<1>3. ASSUME NEW x \in got[r] PROVE x[2] = snapshot'[feed'[x[1]]]
  <2>1. x[1] \in DOMAIN feed /\ x[2] \in Results /\ x[2] = snapshot[feed[x[1]]]
    BY <1>1 DEF ReaderOK, GotOK, ReaderTypes
  <2>2. QED
    BY <1>2, <2>1 DEF Grows, Results
<1>4. ASSUME NEW i \in DOMAIN feed', feed'[i] \in Selected(r), i <= cursor[r]
      PROVE  \E x \in got[r] : x[1] = i
  <2>1. i \in DOMAIN feed
    BY <1>1, <1>4 DEF ReaderTypes, Grows
  <2>2. QED
    BY <1>1, <1>2, <1>4, <2>1 DEF ReaderOK, GotOK
<1>5. QED
  BY <1>3, <1>4 DEF GotOK, Selected

LEMMA ReaderUntouched ==
  ASSUME FeedInv, Grows, NEW r \in Readers, SameReader(r)
  PROVE  ReaderOK(r)'
<1>1. ReaderOK(r) /\ ReaderTypes(r) /\ feed \in Seq(Jobs)
      /\ snapshot \in [Jobs -> {"none"} \cup Results]
  BY TypesOfReader DEF FeedInv, FeedTypeOK
<1>2. /\ After(r) \subseteq After(r)'
      /\ \A i \in After(r) : Cardinality({k \in After(r)' : k < i}) = Rank(After(r), i)
      /\ Cardinality(After(r)) <= Cardinality(After(r)')
      /\ Cardinality(After(r)) \in Nat /\ Cardinality(After(r)') \in Nat
  BY AfterGrows DEF SameReader
<1>3. \A n \in DOMAIN page[r] : page[r][n] \in DOMAIN feed
  BY <1>1 DEF ReaderTypes
<1>4. \A i \in DOMAIN feed : feed'[i] = feed[i] /\ feed[i] \in Jobs
  BY <1>1 DEF Grows
<1>5. PageOK(r)'
  <2>1. ASSUME NEW n \in DOMAIN page[r]
        PROVE  /\ page[r][n] \in After(r)'
               /\ Cardinality({k \in After(r)' : k < page[r][n]}) = n - 1
    BY <1>1, <1>2 DEF ReaderOK, PageOK
  <2>2. more[r] => \/ Cardinality(After(r)') > Len(page[r])
                   \/ /\ pc[r] = "assemble" /\ at'[r] = Len(page[r]) + 1
                      /\ Len(items[r]) < Len(page[r])
    BY <1>1, <1>2 DEF ReaderOK, PageOK, ReaderTypes, SameReader
  <2>3. QED
    BY <2>1, <2>2 DEF PageOK, SameReader, Rank
<1>6. RowsOK(r)'
  BY <1>1, <1>3, <1>4 DEF ReaderOK, RowsOK, SameReader
<1>7. ItemsOK(r)'
  <2>1. ASSUME NEW n \in DOMAIN items[r] PROVE items[r][n][2] = snapshot'[feed'[page[r][n]]]
    <3>1. items[r][n][2] = snapshot[feed[page[r][n]]] /\ items[r][n][2] \in Results
          /\ n \in DOMAIN page[r]
      BY <1>1 DEF ReaderOK, ItemsOK, ReaderTypes
    <3>2. feed[page[r][n]] \in Jobs /\ feed'[page[r][n]] = feed[page[r][n]]
      BY <1>3, <1>4, <3>1
    <3>3. snapshot'[feed[page[r][n]]] = snapshot[feed[page[r][n]]]
      BY <3>1, <3>2 DEF Grows, Results
    <3>4. QED
      BY <3>1, <3>2, <3>3
  <2>2. QED
    BY <1>1, <2>1 DEF ReaderOK, ItemsOK, SameReader
<1>8. GotOK(r)'
  BY GotUntouched DEF SameReader
<1>9. at'[r] >= 1
  BY <1>1 DEF ReaderOK, ReaderTypes, SameReader
<1>10. QED
  BY <1>5, <1>6, <1>7, <1>8, <1>9 DEF ReaderOK

LEMMA ReaderStepKeeps ==
  ASSUME FeedInv, Grows, NEW r \in Readers, FeedTypeOK', ReaderOK(r)',
         \A s \in Readers \ {r} : SameReader(s)
  PROVE  FeedInv'
<1>1. ASSUME NEW s \in Readers PROVE ReaderOK(s)'
  BY ReaderUntouched
<1>2. QED
  BY <1>1 DEF FeedInv, Grows

LEMMA Quiet ==
  ASSUME FeedInv, UNCHANGED <<feed, outcome, snapshot>>
  PROVE  Grows
<1>1. /\ outcome \in [Jobs -> {"active"} \cup Results]
      /\ snapshot \in [Jobs -> {"none"} \cup Results]
      /\ feed \in Seq(Jobs) /\ EndedOK
  BY DEF FeedInv, FeedTypeOK
<1>2. Len(feed) <= Len(feed') /\ DOMAIN feed \subseteq DOMAIN feed'
  BY <1>1
<1>3. EndedOK'
  BY <1>1 DEF EndedOK
<1>4. QED
  BY <1>1, <1>2, <1>3 DEF Grows

-----------------------------------------------------------------------------
(* Jobs and the host. *)

LEMMA EndsGrows ==
  ASSUME FeedInv, NEW j \in Jobs, outcome[j] = "active", NEW result \in Results,
         Ends(j, result), UNCHANGED snapshot
  PROVE  Grows
<1>1. /\ feed \in Seq(Jobs) /\ feed' = Append(feed, j)
      /\ outcome \in [Jobs -> {"active"} \cup Results]
      /\ outcome' = [outcome EXCEPT ![j] = result]
  BY DEF FeedInv, FeedTypeOK, Ends
<1>2. /\ Len(feed) \in Nat /\ DOMAIN feed = 1..Len(feed)
      /\ feed' \in Seq(Jobs) /\ Len(feed') = Len(feed) + 1 /\ DOMAIN feed' = 1..(Len(feed) + 1)
      /\ \A i \in DOMAIN feed : feed'[i] = feed[i]
      /\ feed'[Len(feed) + 1] = j
  BY <1>1
<1>3. \A k \in Jobs : outcome[k] \in Results => outcome'[k] \in Results
  BY <1>1
<1>4. EndedOK'
  <2>1. ASSUME NEW i \in DOMAIN feed' PROVE outcome'[feed'[i]] \in Results
    <3>1. CASE i = Len(feed) + 1
      BY <1>1, <1>2, <3>1
    <3>2. CASE i \in DOMAIN feed
      BY <1>1, <1>2, <1>3, <3>2 DEF FeedInv, EndedOK
    <3>3. QED
      BY <1>2, <3>1, <3>2
  <2>2. QED
    BY <2>1 DEF EndedOK
<1>5. /\ outcome' \in [Jobs -> {"active"} \cup Results]
      /\ snapshot' \in [Jobs -> {"none"} \cup Results]
      /\ \A k \in Jobs : snapshot'[k] = snapshot[k]
  BY <1>1 DEF FeedInv, FeedTypeOK
<1>6. Len(feed) <= Len(feed') /\ DOMAIN feed \subseteq DOMAIN feed'
  BY <1>2
<1>7. QED
  BY <1>2, <1>3, <1>4, <1>5, <1>6 DEF Grows

\* What readers keep of the feed stays well typed while it grows.
LEMMA EventsStayTyped ==
  ASSUME FeedTypeOK, Grows, UNCHANGED <<page, items, cursor, got>>
  PROVE  /\ page' \in [Readers -> Seq(DOMAIN feed')]
         /\ items' \in [Readers -> Seq((DOMAIN feed') \X Results)]
         /\ cursor' \in [Readers -> 0..Len(feed')]
         /\ got' \in [Readers -> SUBSET ((DOMAIN feed') \X Results)]
<1>1. /\ page \in [Readers -> Seq(DOMAIN feed)]
      /\ items \in [Readers -> Seq((DOMAIN feed) \X Results)]
      /\ cursor \in [Readers -> 0..Len(feed)]
      /\ got \in [Readers -> SUBSET ((DOMAIN feed) \X Results)]
      /\ DOMAIN feed \subseteq DOMAIN feed' /\ Len(feed) <= Len(feed')
      /\ Len(feed) \in Nat /\ Len(feed') \in Nat
  <2>1. feed \in Seq(Jobs) /\ feed' \in Seq(Jobs)
    BY DEF FeedTypeOK, Grows
  <2>2. Len(feed) \in Nat /\ Len(feed') \in Nat
    BY <2>1
  <2>3. QED
    BY <2>2 DEF FeedTypeOK, Grows
<1>2. (DOMAIN feed) \X Results \subseteq (DOMAIN feed') \X Results
  BY <1>1
<1>3. \A r \in Readers : page[r] \in Seq(DOMAIN feed')
  BY <1>1, SeqOfMore
<1>4. \A r \in Readers : items[r] \in Seq((DOMAIN feed') \X Results)
  BY <1>1, <1>2, SeqOfMore
<1>5. \A r \in Readers : cursor[r] \in 0..Len(feed')
  BY <1>1
<1>6. \A r \in Readers : got[r] \in SUBSET ((DOMAIN feed') \X Results)
  BY <1>1, <1>2
<1>7. QED
  BY <1>1, <1>3, <1>4, <1>5, <1>6

LEMMA SelectionKept ==
  ASSUME FeedTypeOK, UNCHANGED <<role, select>>
  PROVE  \A r \in Readers : (Selected(r) \subseteq Watched(r))'
<1>1. \A r \in Readers : Selected(r) \subseteq Watched(r)
  BY DEF FeedTypeOK
<1>2. ASSUME NEW r \in Readers PROVE Selected(r)' = Selected(r) /\ Watched(r)' = Watched(r)
  BY DEF Selected, Watched
<1>3. QED
  BY <1>1, <1>2

LEMMA WorldKeeps ==
  ASSUME FeedInv, Grows, UNCHANGED <<role, select, call, cursor, got>>,
         over' \subseteq Remote, up' \in BOOLEAN,
         outages' \in 0..MaxOutages, drops' \in 0..MaxDrops
  PROVE  FeedInv'
<1>1. UNCHANGED <<page, items, cursor, got>> /\ FeedTypeOK
  BY DEF call, FeedInv
<1>2. FeedTypeOK'
  <2>1. \A r \in Readers : (Selected(r) \subseteq Watched(r))'
    BY <1>1, SelectionKept
  <2>2. QED
    BY <1>1, <2>1, EventsStayTyped DEF FeedTypeOK, Grows, call
<1>3. ASSUME NEW r \in Readers PROVE ReaderOK(r)'
  BY ReaderUntouched DEF SameReader, call
<1>4. QED
  BY <1>2, <1>3 DEF FeedInv, Grows

LEMMA WorldStep ==
  ASSUME FeedInv,
         \/ \E j \in Jobs : LocalEnds(j) \/ Settles(j) \/ RemoteEnds(j)
         \/ HostDown \/ HostUp
  PROVE  FeedInv'
<1>1. /\ over \subseteq Remote /\ up \in BOOLEAN
      /\ outages \in 0..MaxOutages /\ drops \in 0..MaxDrops
      /\ outcome \in [Jobs -> {"active"} \cup Results] /\ EndedOK
      /\ MaxOutages \in Nat
  BY FeedAssumption DEF FeedInv, FeedTypeOK
<1>2. ASSUME NEW j \in Jobs, LocalEnds(j) PROVE FeedInv'
  <2>1. Grows
    BY <1>2, EndsGrows DEF LocalEnds
  <2>2. QED
    BY <1>1, <1>2, <2>1, WorldKeeps DEF LocalEnds
<1>3. ASSUME NEW j \in Jobs, Settles(j) PROVE FeedInv'
  <2>1. outcome' = [outcome EXCEPT ![j] = "full"] /\ UNCHANGED <<feed, snapshot>>
    BY <1>3 DEF Settles
  <2>2. /\ snapshot \in [Jobs -> {"none"} \cup Results] /\ feed \in Seq(Jobs)
        /\ Len(feed) <= Len(feed') /\ DOMAIN feed' = DOMAIN feed
    <3>1. snapshot \in [Jobs -> {"none"} \cup Results] /\ feed \in Seq(Jobs)
      BY DEF FeedInv, FeedTypeOK
    <3>2. Len(feed) \in Nat
      BY <3>1
    <3>3. QED
      BY <2>1, <3>1, <3>2
  <2>3. \A k \in Jobs : outcome[k] \in Results => outcome'[k] \in Results
    BY <1>1, <2>1 DEF Results
  <2>4. EndedOK'
    BY <1>1, <2>1, <2>2, <2>3 DEF EndedOK
  <2>5. outcome' \in [Jobs -> {"active"} \cup Results]
    BY <1>1, <2>1 DEF Results
  <2>6. Grows
    BY <2>1, <2>2, <2>3, <2>4, <2>5 DEF Grows
  <2>7. QED
    BY <1>1, <1>3, <2>6, WorldKeeps DEF Settles
<1>4. ASSUME NEW j \in Jobs, RemoteEnds(j) PROVE FeedInv'
  BY <1>1, <1>4, Quiet, WorldKeeps DEF RemoteEnds
<1>5. CASE HostDown
  <2>1. outages' \in 0..MaxOutages
    BY <1>1, <1>5 DEF HostDown
  <2>2. QED
    BY <1>1, <1>5, <2>1, Quiet, WorldKeeps DEF HostDown
<1>6. CASE HostUp
  BY <1>1, <1>6, Quiet, WorldKeeps DEF HostUp
<1>7. QED
  BY <1>2, <1>3, <1>4, <1>5, <1>6

-----------------------------------------------------------------------------
(* A call starts, ends, or starts over. *)

PassStates == {"idle", "reconcile", "drained", "done", "gave up"}

LEMMA FreshTypes ==
  ASSUME FeedInv, NEW r \in Readers, NEW to \in PassStates, Fresh(r, to),
         UNCHANGED <<role, feed, outcome, over, snapshot, up, outages>>,
         drops' \in 0..MaxDrops,
         select' \in [Readers -> Seq(Jobs)], Selected(r)' \subseteq Selected(r),
         cursor' \in [Readers -> 0..Len(feed)],
         got' \in [Readers -> SUBSET ((DOMAIN feed) \X Results)],
         \A s \in Readers \ {r} :
           select'[s] = select[s] /\ cursor'[s] = cursor[s] /\ got'[s] = got[s]
  PROVE  FeedTypeOK' /\ \A s \in Readers \ {r} : SameReader(s)
<1>1. FeedTypeOK
  BY DEF FeedInv
<1>2. Unread \in [Jobs -> {"unread", "active"} \cup Results]
  BY DEF Unread
<1>3. \A s \in Readers \ {r} : SameReader(s)
  BY <1>1 DEF Fresh, FeedTypeOK, SameReader
<1>4. /\ pc' \in [Readers -> {"idle", "reconcile", "current", "assemble", "save",
                              "drained", "done", "gave up"}]
      /\ at' \in [Readers -> Nat] /\ unreachable' \in [Readers -> SUBSET Jobs]
      /\ more' \in [Readers -> BOOLEAN] /\ found' \in [Readers -> {"none"} \cup Results]
  BY <1>1 DEF Fresh, FeedTypeOK, PassStates
<1>5. rows' \in [Readers -> [Jobs -> {"unread", "active"} \cup Results]]
  BY <1>1, <1>2 DEF Fresh, FeedTypeOK
<1>6. /\ page' \in [Readers -> Seq(DOMAIN feed)]
      /\ items' \in [Readers -> Seq((DOMAIN feed) \X Results)]
  <2>1. <<>> \in Seq(DOMAIN feed) /\ <<>> \in Seq((DOMAIN feed) \X Results)
    OBVIOUS
  <2>2. QED
    BY <1>1, <2>1 DEF Fresh, FeedTypeOK
<1>7. ASSUME NEW s \in Readers PROVE (Selected(s) \subseteq Watched(s))'
  <2>1. Selected(s) \subseteq Watched(s) /\ Watched(s)' = Watched(s)
    BY <1>1 DEF FeedTypeOK, Watched
  <2>2. Selected(s)' \subseteq Selected(s)
    BY DEF Selected
  <2>3. QED
    BY <2>1, <2>2
<1>8. QED
  BY <1>1, <1>3, <1>4, <1>5, <1>6, <1>7 DEF FeedTypeOK

LEMMA FreshKeeps ==
  ASSUME FeedInv, NEW r \in Readers, NEW to \in PassStates, Fresh(r, to),
         UNCHANGED <<role, feed, outcome, over, snapshot, up, outages>>,
         drops' \in 0..MaxDrops,
         select' \in [Readers -> Seq(Jobs)], Selected(r)' \subseteq Selected(r),
         cursor' \in [Readers -> 0..Len(feed)],
         got' \in [Readers -> SUBSET ((DOMAIN feed) \X Results)],
         \A s \in Readers \ {r} :
           select'[s] = select[s] /\ cursor'[s] = cursor[s] /\ got'[s] = got[s],
         GotOK(r)'
  PROVE  FeedInv'
<1>1. FeedTypeOK' /\ \A s \in Readers \ {r} : SameReader(s)
  BY FreshTypes
<1>2. /\ pc'[r] = to /\ at'[r] = 1 /\ page'[r] = <<>> /\ more'[r] = FALSE /\ items'[r] = <<>>
  BY DEF Fresh, FeedInv, FeedTypeOK
<1>3. PageOK(r)' /\ RowsOK(r)' /\ ItemsOK(r)'
  <2>1. PageOK(r)'
    BY <1>2 DEF PageOK
  <2>2. RowsOK(r)'
    BY <1>2 DEF RowsOK, PassStates
  <2>3. ItemsOK(r)'
    <3>1. Len(<<>>) = 0 /\ DOMAIN <<>> = {}
      OBVIOUS
    <3>2. to \notin {"assemble", "save"}
      BY DEF PassStates
    <3>3. Len(items'[r]) <= Len(page'[r])
      BY <1>2, <3>1
    <3>4. QED
      BY <1>2, <3>1, <3>2, <3>3 DEF ItemsOK
  <2>4. QED
    BY <2>1, <2>2, <2>3
<1>4. ReaderOK(r)'
  BY <1>2, <1>3 DEF ReaderOK
<1>5. QED
  BY <1>1, <1>4, Quiet, ReaderStepKeeps

\* Nothing of what the reader keeps changes.
LEMMA FreshAlone ==
  ASSUME FeedInv, NEW r \in Readers, NEW to \in PassStates, Fresh(r, to),
         UNCHANGED <<role, select, over, outcome, feed, snapshot, up, outages, cursor, got>>,
         drops' \in 0..MaxDrops
  PROVE  FeedInv'
<1>1. /\ select \in [Readers -> Seq(Jobs)]
      /\ cursor \in [Readers -> 0..Len(feed)]
      /\ got \in [Readers -> SUBSET ((DOMAIN feed) \X Results)]
  BY DEF FeedInv, FeedTypeOK
<1>2. GotOK(r)'
  BY DEF FeedInv, ReaderOK, GotOK, Selected
<1>3. Selected(r)' \subseteq Selected(r)
  BY DEF Selected
<1>4. QED
  BY <1>1, <1>2, <1>3, FreshKeeps

LEMMA PassSteps ==
  ASSUME FeedInv, NEW r \in Readers,
         Call(r) \/ Drained(r) \/ TimedOut(r) \/ Again(r) \/ Drop(r)
  PROVE  FeedInv'
<1>1. PICK to \in PassStates : Fresh(r, to)
  BY DEF Call, Drained, TimedOut, Again, Drop, PassStates
<1>2. UNCHANGED <<role, select, over, outcome, feed, snapshot, up, outages, cursor, got>>
  BY DEF Call, Drained, TimedOut, Again, Drop, world
<1>3. drops' \in 0..MaxDrops
  <2>1. drops \in 0..MaxDrops /\ MaxDrops \in Nat
    BY FeedAssumption DEF FeedInv, FeedTypeOK
  <2>2. CASE drops' = drops
    BY <2>1, <2>2
  <2>3. CASE Drop(r)
    BY <2>1, <2>3 DEF Drop
  <2>4. QED
    BY <2>2, <2>3 DEF Call, Drained, TimedOut, Again, world
<1>4. QED
  BY <1>1, <1>2, <1>3, FreshAlone

(* The items of a response are completions with the results frozen for     *)
(* them, whatever the client does next.                                    *)
LEMMA ItemsTyped ==
  ASSUME FeedInv, NEW r \in Readers
  PROVE  /\ ItemsOf(r) \subseteq (DOMAIN feed) \X Results
         /\ \A x \in ItemsOf(r) : x[2] = snapshot[feed[x[1]]]
<1>1. ReaderTypes(r) /\ ReaderOK(r)
  BY TypesOfReader DEF FeedInv
<1>2. ASSUME NEW n \in DOMAIN items[r]
      PROVE  /\ items[r][n] \in (DOMAIN feed) \X Results
             /\ items[r][n][2] = snapshot[feed[items[r][n][1]]]
  <2>1. items[r] \in Seq((DOMAIN feed) \X Results) /\ ItemsOK(r)
    BY <1>1 DEF ReaderTypes, ReaderOK
  <2>2. items[r][n] \in (DOMAIN feed) \X Results
    BY <2>1
  <2>3. QED
    BY <2>1, <2>2 DEF ItemsOK
<1>3. QED
  BY <1>2 DEF ItemsOf

LEMMA CrashStep ==
  ASSUME FeedInv, NEW r \in Readers, Crash(r)
  PROVE  FeedInv'
<1>1. /\ got' = [got EXCEPT ![r] = @ \cup ItemsOf(r)] /\ Fresh(r, "idle")
      /\ UNCHANGED <<role, select, over, outcome, feed, snapshot, up, outages, cursor>>
  BY DEF Crash
<1>2. /\ select \in [Readers -> Seq(Jobs)]
      /\ cursor \in [Readers -> 0..Len(feed)]
      /\ got \in [Readers -> SUBSET ((DOMAIN feed) \X Results)]
      /\ GotOK(r)
  BY DEF FeedInv, FeedTypeOK, ReaderOK
<1>3. /\ got' \in [Readers -> SUBSET ((DOMAIN feed) \X Results)]
      /\ got'[r] = got[r] \cup ItemsOf(r)
      /\ \A s \in Readers \ {r} : got'[s] = got[s]
  BY <1>1, <1>2, ItemsTyped
<1>4. drops' \in 0..MaxDrops
  <2>1. drops \in 0..MaxDrops /\ MaxDrops \in Nat
    BY FeedAssumption DEF FeedInv, FeedTypeOK
  <2>2. QED
    BY <2>1 DEF Crash
<1>5. GotOK(r)'
  <2>1. \A x \in got'[r] : x[2] = snapshot[feed[x[1]]]
    BY <1>2, <1>3, ItemsTyped DEF GotOK
  <2>2. QED
    BY <1>1, <1>2, <1>3, <2>1 DEF GotOK, Selected
<1>6. Selected(r)' \subseteq Selected(r)
  BY <1>1 DEF Selected
<1>7. QED
  BY <1>1, <1>2, <1>3, <1>4, <1>5, <1>6, FreshKeeps DEF PassStates

(* The next selection of a group is a part of this one.                    *)
LEMMA Narrowed ==
  ASSUME FeedInv, NEW r \in Readers
  PROVE  /\ StillSelected(r) \in Seq(Jobs)
         /\ \A n \in DOMAIN StillSelected(r) : StillSelected(r)[n] \in Selected(r)
<1> DEFINE K == {n \in DOMAIN select[r] : select[r][n] \in StillActive(r)}
<1>1. select[r] \in Seq(Jobs) /\ K \in SUBSET DOMAIN select[r]
  BY DEF FeedInv, FeedTypeOK
<1>2. K \in SUBSET Nat /\ IsFiniteSet(K)
  BY <1>1, PositionsFinite
<1> HIDE DEF K
<1>3. InOrder(K) \in Seq(K)
  BY <1>2, InOrderRanks
<1>4. /\ Len(InOrder(K)) \in Nat /\ DOMAIN InOrder(K) = 1..Len(InOrder(K))
      /\ \A n \in DOMAIN InOrder(K) : InOrder(K)[n] \in DOMAIN select[r]
  BY <1>1, <1>3
<1>5. StillSelected(r) = [n \in DOMAIN InOrder(K) |-> select[r][InOrder(K)[n]]]
  BY DEF StillSelected, K
<1>6. \A n \in DOMAIN InOrder(K) :
        select[r][InOrder(K)[n]] \in Jobs /\ select[r][InOrder(K)[n]] \in Selected(r)
  BY <1>1, <1>4 DEF Selected
<1>7. StillSelected(r) \in [1..Len(InOrder(K)) -> Jobs]
  BY <1>4, <1>5, <1>6
<1>8. StillSelected(r) \in Seq(Jobs)
  BY <1>4, <1>7
<1>9. QED
  BY <1>5, <1>6, <1>8

(* Every watched event up to the last of the items is one of the items, or *)
(* lies before the cursor.                                                 *)
LEMMA ItemsComplete ==
  ASSUME FeedInv, NEW r \in Readers, NEW n \in DOMAIN items[r],
         NEW i \in After(r), i <= items[r][n][1]
  PROVE  \E m \in DOMAIN items[r] : items[r][m][1] = i
<1>1. ReaderTypes(r) /\ PageOK(r) /\ ItemsOK(r)
  BY TypesOfReader DEF FeedInv, ReaderOK
<1>2. After(r) \in SUBSET Nat /\ IsFiniteSet(After(r))
  BY AfterFinite DEF FeedInv
<1>3. /\ items[r][n][1] = page[r][n] /\ n \in DOMAIN page[r] /\ n \in Nat
      /\ Len(items[r]) \in Nat /\ Len(page[r]) \in Nat /\ Len(items[r]) <= Len(page[r])
      /\ DOMAIN items[r] = 1..Len(items[r]) /\ DOMAIN page[r] = 1..Len(page[r])
  BY <1>1 DEF ItemsOK, ReaderTypes
<1>4. page[r][n] \in After(r) /\ Rank(After(r), page[r][n]) = n - 1
  BY <1>1, <1>3 DEF PageOK
<1>5. CASE i = page[r][n]
  BY <1>3, <1>5
<1>6. CASE i # page[r][n]
  <2>1. i \in Nat /\ page[r][n] \in Nat /\ i < page[r][n]
    BY <1>2, <1>3, <1>4, <1>6
  <2>2. Rank(After(r), i) < n - 1 /\ Rank(After(r), i) \in Nat
    BY <1>2, <1>4, <2>1, RankGrows, RankType
  <2>3. PICK m \in Nat : m = Rank(After(r), i) + 1
    BY <2>2
  <2>4. m \in DOMAIN items[r] /\ m \in DOMAIN page[r]
    BY <1>3, <2>2, <2>3
  <2>5. page[r][m] \in After(r) /\ Rank(After(r), page[r][m]) = Rank(After(r), i)
    BY <1>1, <2>2, <2>3, <2>4 DEF PageOK
  <2>6. page[r][m] = i
    BY <1>2, <2>5, RankUnique
  <2>7. QED
    BY <1>1, <2>4, <2>6 DEF ItemsOK
<1>7. QED
  BY <1>5, <1>6

LEMMA DeliverStep ==
  ASSUME FeedInv, NEW r \in Readers, Deliver(r)
  PROVE  FeedInv'
<1> DEFINE last == items[r][Len(items[r])][1]
<1>1. /\ items[r] # <<>>
      /\ got' = [got EXCEPT ![r] = @ \cup ItemsOf(r)]
      /\ cursor' = [cursor EXCEPT ![r] = last]
      /\ Returned(r, "done")
  BY DEF Deliver
<1>2. /\ ReaderTypes(r) /\ GotOK(r)
      /\ select \in [Readers -> Seq(Jobs)]
      /\ cursor \in [Readers -> 0..Len(feed)]
      /\ got \in [Readers -> SUBSET ((DOMAIN feed) \X Results)]
      /\ feed \in Seq(Jobs)
  BY TypesOfReader DEF FeedInv, FeedTypeOK, ReaderOK
<1>3. UNCHANGED <<role, over, outcome, feed, snapshot, up, outages, drops>>
  BY <1>1 DEF Returned, world
<1>4. PICK to \in PassStates : Fresh(r, to)
  BY <1>1 DEF Returned, PassStates
<1>5. Len(items[r]) \in DOMAIN items[r] /\ last \in DOMAIN feed /\ last \in 0..Len(feed)
  BY <1>1, <1>2 DEF ReaderTypes
<1> HIDE DEF last
<1>6. /\ got' \in [Readers -> SUBSET ((DOMAIN feed) \X Results)]
      /\ got'[r] = got[r] \cup ItemsOf(r)
      /\ \A s \in Readers \ {r} : got'[s] = got[s]
  BY <1>1, <1>2, ItemsTyped
<1>7. /\ cursor' \in [Readers -> 0..Len(feed)] /\ cursor'[r] = last
      /\ \A s \in Readers \ {r} : cursor'[s] = cursor[s]
  BY <1>1, <1>2, <1>5
<1>8. /\ select' \in [Readers -> Seq(Jobs)]
      /\ Selected(r)' \subseteq Selected(r)
      /\ \A s \in Readers \ {r} : select'[s] = select[s]
  <2>1. CASE select' = select
    BY <1>2, <2>1 DEF Selected
  <2>2. CASE select' = [select EXCEPT ![r] = StillSelected(r)]
    <3>1. select' \in [Readers -> Seq(Jobs)] /\ select'[r] = StillSelected(r)
          /\ \A s \in Readers \ {r} : select'[s] = select[s]
      BY <1>2, <2>2, Narrowed
    <3>2. QED
      BY <3>1, Narrowed DEF Selected
  <2>3. QED
    BY <1>1, <2>1, <2>2 DEF Returned
<1>9. GotOK(r)'
  <2>1. \A x \in got'[r] : x[2] = snapshot[feed[x[1]]]
    BY <1>2, <1>6, ItemsTyped DEF GotOK
  <2>2. ASSUME NEW i \in DOMAIN feed, feed[i] \in Selected(r), i <= last
        PROVE  \E x \in got'[r] : x[1] = i
    <3>1. CASE i <= cursor[r]
      BY <1>2, <1>6, <2>2, <3>1 DEF GotOK
    <3>2. CASE i > cursor[r]
      <4>1. i \in After(r)
        BY <2>2, <3>2 DEF After
      <4>2. PICK m \in DOMAIN items[r] : items[r][m][1] = i
        BY <1>5, <2>2, <4>1, ItemsComplete DEF last
      <4>3. QED
        BY <1>6, <4>2 DEF ItemsOf
    <3>3. i \in Nat /\ cursor[r] \in Nat
      BY <1>2
    <3>4. QED
      BY <3>1, <3>2, <3>3
  <2>3. QED
    BY <1>3, <1>7, <1>8, <2>1, <2>2 DEF GotOK
<1>10. drops' \in 0..MaxDrops
  BY <1>3 DEF FeedInv, FeedTypeOK
<1>11. QED
  BY <1>3, <1>4, <1>6, <1>7, <1>8, <1>9, <1>10, FreshKeeps

-----------------------------------------------------------------------------
(* Inside a call. *)

LEMMA ReconcileStep ==
  ASSUME FeedInv, NEW r \in Readers, Reconcile(r)
  PROVE  FeedInv'
<1>1. FeedTypeOK /\ select[r] \in Seq(Jobs) /\ at[r] \in DOMAIN select[r]
  BY DEF FeedInv, FeedTypeOK, Reconcile
<1>2. PICK j \in Jobs : j = select[r][at[r]]
  BY <1>1
<1>3. Grows
  <2>1. CASE UNCHANGED <<outcome, feed>>
    BY <2>1, Quiet DEF Reconcile
  <2>2. CASE outcome[j] = "active" /\ Ends(j, "full")
    BY <2>2, EndsGrows DEF Reconcile, Results
  <2>3. QED
    BY <1>2, <2>1, <2>2 DEF Reconcile
<1>4. /\ pc[r] = "reconcile" /\ at' = [at EXCEPT ![r] = @ + 1]
      /\ UNCHANGED <<role, select, over, snapshot, up, outages, drops, pc, page, more, rows,
                     found, items, cursor, got>>
  BY DEF Reconcile
<1>5. unreachable' \in [Readers -> SUBSET Jobs]
  BY <1>1, <1>2 DEF Reconcile, FeedTypeOK
<1>6. FeedTypeOK'
  <2>1. \A s \in Readers : (Selected(s) \subseteq Watched(s))'
    BY <1>1, <1>4, SelectionKept
  <2>2. at' \in [Readers -> Nat]
    <3>1. at \in [Readers -> Nat]
      BY <1>1 DEF FeedTypeOK
    <3>2. at[r] + 1 \in Nat
      BY <3>1
    <3>3. QED
      BY <1>4, <3>1, <3>2
  <2>3. QED
    BY <1>1, <1>3, <1>4, <1>5, <2>1, <2>2, EventsStayTyped DEF FeedTypeOK, Grows
<1>7. ASSUME NEW s \in Readers PROVE ReaderOK(s)'
  <2>1. SameReader(s)
    BY <1>1, <1>4 DEF SameReader, FeedTypeOK
  <2>2. QED
    BY <1>3, <2>1, ReaderUntouched
<1>8. QED
  BY <1>3, <1>6, <1>7 DEF FeedInv, Grows

\* A step of a call after the reconciliation leaves the feed alone.
Inside(r) ==
  /\ UNCHANGED <<role, select, over, outcome, feed, up, outages, drops, cursor, got>>
  /\ snapshot' \in [Jobs -> {"none"} \cup Results]
  /\ \A j \in Jobs : snapshot[j] # "none" => snapshot'[j] = snapshot[j]
  /\ pc' \in [Readers -> {"idle", "reconcile", "current", "assemble", "save", "drained", "done", "gave up"}]
  /\ at' \in [Readers -> Nat] /\ at'[r] >= 1
  /\ unreachable' \in [Readers -> SUBSET Jobs]
  /\ page' \in [Readers -> Seq(DOMAIN feed)]
  /\ more' \in [Readers -> BOOLEAN]
  /\ rows' \in [Readers -> [Jobs -> {"unread", "active"} \cup Results]]
  /\ found' \in [Readers -> {"none"} \cup Results]
  /\ items' \in [Readers -> Seq((DOMAIN feed) \X Results)]
  /\ \A s \in Readers \ {r} :
       /\ pc'[s] = pc[s] /\ at'[s] = at[s] /\ page'[s] = page[s] /\ more'[s] = more[s]
       /\ rows'[s] = rows[s] /\ found'[s] = found[s] /\ items'[s] = items[s]

LEMMA InsideKeeps ==
  ASSUME FeedInv, NEW r \in Readers, Inside(r), PageOK(r)', RowsOK(r)', ItemsOK(r)'
  PROVE  FeedInv'
<1>1. FeedTypeOK /\ EndedOK
  BY DEF FeedInv
<1>2. feed \in Seq(Jobs) /\ Len(feed) <= Len(feed')
  <2>1. feed \in Seq(Jobs)
    BY <1>1 DEF FeedTypeOK
  <2>2. Len(feed) \in Nat
    BY <2>1
  <2>3. QED
    <3>1. feed' = feed
      BY DEF Inside
    <3>2. QED
      BY <2>1, <2>2, <3>1
<1>3. EndedOK'
  BY <1>1 DEF Inside, EndedOK
<1>4. Grows
  BY <1>1, <1>2, <1>3 DEF Inside, Grows, FeedTypeOK
<1>5. FeedTypeOK'
  <2>1. \A s \in Readers : (Selected(s) \subseteq Watched(s))'
    BY <1>1, SelectionKept DEF Inside
  <2>2. QED
    BY <1>1, <2>1 DEF FeedTypeOK, Inside
<1>6. GotOK(r)'
  BY <1>4, GotUntouched DEF Inside
<1>7. ReaderOK(r)'
  BY <1>6 DEF ReaderOK, Inside
<1>8. \A s \in Readers \ {r} : SameReader(s)
  BY DEF Inside, SameReader
<1>9. QED
  BY <1>4, <1>5, <1>7, <1>8, ReaderStepKeeps

LEMMA SameAfter ==
  ASSUME NEW r, UNCHANGED <<select, feed, cursor>>
  PROVE  After(r)' = After(r)
BY DEF After, Selected

\* What most of these steps start from.
LEMMA InsideTypes ==
  ASSUME FeedInv
  PROVE  /\ pc \in [Readers -> {"idle", "reconcile", "current", "assemble", "save",
                                "drained", "done", "gave up"}]
         /\ at \in [Readers -> Nat] /\ unreachable \in [Readers -> SUBSET Jobs]
         /\ page \in [Readers -> Seq(DOMAIN feed)] /\ more \in [Readers -> BOOLEAN]
         /\ rows \in [Readers -> [Jobs -> {"unread", "active"} \cup Results]]
         /\ found \in [Readers -> {"none"} \cup Results]
         /\ items \in [Readers -> Seq((DOMAIN feed) \X Results)]
         /\ snapshot \in [Jobs -> {"none"} \cup Results]
         /\ outcome \in [Jobs -> {"active"} \cup Results]
         /\ feed \in Seq(Jobs)
BY DEF FeedInv, FeedTypeOK

LEMMA QueryStep ==
  ASSUME FeedInv, NEW r \in Readers, Query(r)
  PROVE  FeedInv'
<1> DEFINE new == InOrder(FirstOf(After(r), Limit))
           full == Cardinality(After(r)) > Limit
<1>1. ReaderOK(r) /\ ReaderTypes(r) /\ FeedTypeOK
  BY TypesOfReader DEF FeedInv
<1>2. /\ page' = [page EXCEPT ![r] = new]
      /\ more' = [more EXCEPT ![r] = full]
      /\ pc[r] = "reconcile" /\ pc' = [pc EXCEPT ![r] = "current"]
      /\ at' = [at EXCEPT ![r] = 1]
      /\ UNCHANGED <<role, select, over, outcome, feed, snapshot, up, outages, drops,
                     unreachable, rows, found, items, cursor, got>>
  BY DEF Query, world
<1>3. After(r) \in SUBSET Nat /\ IsFiniteSet(After(r)) /\ After(r) \subseteq DOMAIN feed
      /\ Cardinality(After(r)) \in Nat /\ Limit \in Nat
  BY <1>1, AfterFinite, FS_CardinalityType, FeedAssumption DEF After
<1>4. /\ new \in Seq(After(r)) /\ Len(new) <= Limit
      /\ \A n \in DOMAIN new : Rank(After(r), new[n]) = n - 1
  BY <1>3, FirstRanks
<1>5. new \in Seq(DOMAIN feed) /\ Len(new) \in Nat /\ \A n \in DOMAIN new : new[n] \in After(r)
  BY <1>3, <1>4, SeqOfMore
<1>0. full \in BOOLEAN /\ (full => Cardinality(After(r)) > Len(new))
  BY <1>3, <1>4, <1>5
<1> HIDE DEF new, full
<1>6. /\ pc'[r] = "current" /\ at'[r] = 1 /\ page'[r] = new
      /\ more'[r] = full /\ items'[r] = <<>>
  BY <1>1, <1>2, InsideTypes DEF ReaderOK, ItemsOK
<1>7. Inside(r)
  <2>1. page' \in [Readers -> Seq(DOMAIN feed)]
        /\ \A s \in Readers \ {r} : page'[s] = page[s]
    BY <1>2, <1>5, InsideTypes
  <2>2. more' \in [Readers -> BOOLEAN] /\ \A s \in Readers \ {r} : more'[s] = more[s]
    BY <1>0, <1>2, InsideTypes
  <2>3. /\ at' \in [Readers -> Nat] /\ at'[r] >= 1
        /\ \A s \in Readers \ {r} : at'[s] = at[s]
    <3>1. at' \in [Readers -> Nat] /\ \A s \in Readers \ {r} : at'[s] = at[s]
      BY <1>2, InsideTypes
    <3>2. at'[r] >= 1
      BY <1>6
    <3>3. QED
      BY <3>1, <3>2
  <2>4. /\ pc' \in [Readers -> {"idle", "reconcile", "current", "assemble", "save",
                                "drained", "done", "gave up"}]
        /\ \A s \in Readers \ {r} : pc'[s] = pc[s]
    BY <1>2, InsideTypes
  <2>5. QED
    BY <1>2, <2>1, <2>2, <2>3, <2>4, InsideTypes DEF Inside
<1>8. PageOK(r)'
  <2>1. After(r)' = After(r)
    BY <1>2, SameAfter
  <2>2. more'[r] => Cardinality(After(r)) > Len(new)
    BY <1>0, <1>6
  <2>3. QED
    BY <1>4, <1>5, <1>6, <2>1, <2>2 DEF PageOK, Rank
<1>9. RowsOK(r)'
  <2>1. \A k \in DOMAIN select[r] : ~(k < 1)
    BY <1>1 DEF ReaderTypes
  <2>2. QED
    BY <1>2, <1>6, <2>1 DEF RowsOK
<1>10. ItemsOK(r)'
  <2>1. Len(<<>>) = 0 /\ DOMAIN <<>> = {} /\ Len(<<>>) <= Len(new)
    BY <1>5
  <2>2. QED
    BY <1>6, <2>1 DEF ItemsOK
<1>11. QED
  BY <1>7, <1>8, <1>9, <1>10, InsideKeeps

LEMMA CurrentStep ==
  ASSUME FeedInv, NEW r \in Readers, Current(r)
  PROVE  FeedInv'
<1>1. ReaderOK(r) /\ ReaderTypes(r) /\ FeedTypeOK /\ EndedOK
  BY TypesOfReader DEF FeedInv
<1>2. /\ pc[r] = "current" /\ items[r] = <<>>
      /\ UNCHANGED <<role, select, over, outcome, feed, snapshot, up, outages, drops,
                     unreachable, page, more, found, items, cursor, got>>
  BY <1>1 DEF Current, world, ReaderOK, ItemsOK
<1>3. Len(<<>>) = 0 /\ DOMAIN <<>> = {}
  OBVIOUS
<1>4. ASSUME NEW n \in DOMAIN page[r]
      PROVE  /\ feed[page[r][n]] \in Jobs /\ outcome[feed[page[r][n]]] \in Results
             /\ \E k \in DOMAIN select[r] : select[r][k] = feed[page[r][n]]
  <2>1. page[r][n] \in After(r)
    BY <1>1 DEF ReaderOK, PageOK
  <2>2. page[r][n] \in DOMAIN feed /\ feed[page[r][n]] \in Selected(r)
    BY <2>1 DEF After
  <2>3. feed \in Seq(Jobs) /\ outcome[feed[page[r][n]]] \in Results
    BY <1>1, <2>2, InsideTypes DEF EndedOK
  <2>4. feed[page[r][n]] \in Jobs
    BY <2>2, <2>3
  <2>5. \E k \in DOMAIN select[r] : select[r][k] = feed[page[r][n]]
    BY <2>2 DEF Selected
  <2>6. QED
    BY <2>3, <2>4, <2>5
<1>5. PageOK(r)'
  <2>1. After(r)' = After(r)
    BY <1>2, SameAfter
  <2>2. more[r] => Cardinality(After(r)) > Len(page[r])
    BY <1>1, <1>2 DEF ReaderOK, PageOK
  <2>3. QED
    BY <1>1, <1>2, <2>1, <2>2 DEF PageOK, ReaderOK, Rank
<1>6. CASE at[r] \in DOMAIN select[r]
  <2>1. PICK j \in Jobs : j = select[r][at[r]]
    BY <1>1, <1>6 DEF ReaderTypes
  <2>2. rows' = [rows EXCEPT ![r][j] = outcome[j]] /\ at' = [at EXCEPT ![r] = @ + 1] /\ pc' = pc
    BY <1>6, <2>1 DEF Current
  <2>3. /\ rows'[r] = [rows[r] EXCEPT ![j] = outcome[j]] /\ at'[r] = at[r] + 1
        /\ \A s \in Readers \ {r} : rows'[s] = rows[s] /\ at'[s] = at[s]
    BY <2>2, InsideTypes
  <2>4. /\ rows' \in [Readers -> [Jobs -> {"unread", "active"} \cup Results]]
        /\ at[r] \in Nat /\ at[r] + 1 \in Nat /\ at[r] + 1 >= 1
    <3>1. at[r] \in Nat
      BY InsideTypes
    <3>2. outcome[j] \in {"unread", "active"} \cup Results
      BY <2>1, InsideTypes
    <3>3. [rows[r] EXCEPT ![j] = outcome[j]] \in [Jobs -> {"unread", "active"} \cup Results]
      BY <1>1, <3>2 DEF ReaderTypes
    <3>4. rows' = [rows EXCEPT ![r] = [rows[r] EXCEPT ![j] = outcome[j]]]
      BY <2>2
    <3>5. rows' \in [Readers -> [Jobs -> {"unread", "active"} \cup Results]]
      BY <3>3, <3>4, InsideTypes
    <3>6. QED
      BY <3>1, <3>5
  <2>5. at' \in [Readers -> Nat]
    BY <2>2, <2>4, InsideTypes
  <2>6. Inside(r)
    BY <1>2, <2>2, <2>3, <2>4, <2>5, InsideTypes DEF Inside
  <2>7. RowsOK(r)'
    <3>1. ASSUME NEW k \in DOMAIN select[r], NEW n \in DOMAIN page[r],
                 k < at[r] + 1, select[r][k] = feed[page[r][n]]
          PROVE  rows'[r][select[r][k]] \in Results
      <4> rows[r] \in [Jobs -> {"unread", "active"} \cup Results]
        BY <1>1 DEF ReaderTypes
      <4>1. CASE select[r][k] = j
        <5>1. rows'[r][j] = outcome[j]
          BY <2>1, <2>3
        <5>2. outcome[j] \in Results
          BY <1>4, <3>1, <4>1
        <5>3. QED
          BY <4>1, <5>1, <5>2
      <4>2. CASE select[r][k] # j
        <5>1. k < at[r]
          BY <1>1, <2>1, <2>4, <3>1, <4>2 DEF ReaderTypes
        <5>2. rows[r][select[r][k]] \in Results /\ select[r][k] \in Jobs
          BY <1>1, <1>2, <1>4, <3>1, <5>1 DEF ReaderOK, RowsOK
        <5>3. rows'[r][select[r][k]] = rows[r][select[r][k]]
          BY <2>3, <4>2, <5>2
        <5>4. QED
          BY <5>2, <5>3
      <4>3. QED
        BY <4>1, <4>2
    <3>2. QED
      BY <1>2, <2>2, <2>3, <3>1 DEF RowsOK
  <2>8. ItemsOK(r)'
    BY <1>1, <1>2, <1>3, <2>2 DEF ItemsOK, ReaderOK
  <2>9. QED
    BY <1>5, <2>6, <2>7, <2>8, InsideKeeps
<1>7. CASE at[r] \notin DOMAIN select[r]
  <2>1. pc' = [pc EXCEPT ![r] = "assemble"] /\ at' = [at EXCEPT ![r] = 1] /\ rows' = rows
    BY <1>7 DEF Current
  <2>2. pc'[r] = "assemble" /\ at'[r] = 1
    BY <2>1, InsideTypes
  <2>3. Inside(r)
    <3>1. /\ at' \in [Readers -> Nat] /\ at'[r] >= 1
          /\ \A s \in Readers \ {r} : at'[s] = at[s]
      <4>1. at' \in [Readers -> Nat] /\ \A s \in Readers \ {r} : at'[s] = at[s]
        BY <2>1, InsideTypes
      <4>2. at'[r] >= 1
        BY <2>2
      <4>3. QED
        BY <4>1, <4>2
    <3>2. /\ pc' \in [Readers -> {"idle", "reconcile", "current", "assemble", "save",
                                  "drained", "done", "gave up"}]
          /\ \A s \in Readers \ {r} : pc'[s] = pc[s]
      BY <2>1, InsideTypes
    <3>3. QED
      BY <1>2, <2>1, <3>1, <3>2, InsideTypes DEF Inside
  <2>4. \A k \in DOMAIN select[r] : k < at[r]
    BY <1>1, <1>7 DEF ReaderTypes, ReaderOK
  <2>5. RowsOK(r)'
    <3>1. ASSUME NEW n \in DOMAIN page[r] PROVE rows[r][feed[page[r][n]]] \in Results
      BY <1>1, <1>2, <1>4, <2>4 DEF ReaderOK, RowsOK
    <3>2. QED
      BY <1>2, <2>1, <2>2, <3>1 DEF RowsOK
  <2>6. ItemsOK(r)'
    BY <1>1, <1>2, <1>3, <2>1, <2>2 DEF ItemsOK, ReaderOK
  <2>7. QED
    BY <1>5, <2>3, <2>5, <2>6, InsideKeeps
<1>8. QED
  BY <1>6, <1>7

\* While there is a next event, the items end right before it.
LEMMA AssemblingAt ==
  ASSUME FeedInv, NEW r \in Readers, Assembling(r) \/ pc[r] = "save"
  PROVE  /\ at[r] = Len(items[r]) + 1 /\ at[r] \in DOMAIN page[r]
         /\ Len(items[r]) \in Nat /\ Len(page[r]) \in Nat /\ Len(items[r]) < Len(page[r])
         /\ page[r][at[r]] \in DOMAIN feed /\ feed[page[r][at[r]]] \in Jobs
         /\ rows[r][feed[page[r][at[r]]]] \in Results
         /\ more[r] => Cardinality(After(r)) > Len(page[r])
<1>1. ReaderOK(r) /\ ReaderTypes(r) /\ feed \in Seq(Jobs)
  BY TypesOfReader, InsideTypes DEF FeedInv
<1>2. /\ Len(items[r]) \in Nat /\ Len(page[r]) \in Nat
      /\ DOMAIN page[r] = 1..Len(page[r]) /\ DOMAIN items[r] = 1..Len(items[r])
  BY <1>1 DEF ReaderTypes
<1>3. at[r] = Len(items[r]) + 1 /\ at[r] \in DOMAIN page[r]
  BY <1>1, <1>2 DEF Assembling, ReaderOK, ItemsOK
<1>4. page[r][at[r]] \in DOMAIN feed /\ rows[r][feed[page[r][at[r]]]] \in Results
  BY <1>1, <1>3 DEF ReaderTypes, ReaderOK, RowsOK, Assembling
<1>5. more[r] => Cardinality(After(r)) > Len(page[r])
  BY <1>1, <1>2, <1>3 DEF ReaderOK, PageOK
<1>6. QED
  BY <1>1, <1>2, <1>3, <1>4, <1>5

LEMMA Appended ==
  ASSUME NEW S, NEW q \in Seq(S), NEW x \in S
  PROVE  /\ Append(q, x) \in Seq(S) /\ Len(q) \in Nat
         /\ Len(Append(q, x)) = Len(q) + 1
         /\ DOMAIN Append(q, x) = 1..(Len(q) + 1)
         /\ DOMAIN q = 1..Len(q)
         /\ Append(q, x)[Len(q) + 1] = x
         /\ \A n \in DOMAIN q : Append(q, x)[n] = q[n]
OBVIOUS

\* A step that adds an item, as the lemma below needs it.
AddsItem(r, result) ==
  /\ Assembling(r) \/ pc[r] = "save"
  /\ AddItem(r, result)
  /\ UNCHANGED <<role, select, over, outcome, feed, up, outages, drops,
                 unreachable, page, more, rows, cursor, got>>
  /\ pc' \in [Readers -> {"idle", "reconcile", "current", "assemble", "save",
                          "drained", "done", "gave up"}]
  /\ pc'[r] = "assemble" /\ \A s \in Readers \ {r} : pc'[s] = pc[s]
  /\ found' \in [Readers -> {"none"} \cup Results]
  /\ \A s \in Readers \ {r} : found'[s] = found[s]
  /\ snapshot' \in [Jobs -> {"none"} \cup Results]
  /\ \A j \in Jobs : snapshot[j] # "none" => snapshot'[j] = snapshot[j]
  /\ snapshot'[feed[NextEvent(r)]] = result

(* The next item is the next event of the page with the result frozen for  *)
(* its job, whichever call froze it.                                       *)
LEMMA AddItemKeeps ==
  ASSUME FeedInv, NEW r \in Readers, NEW result \in Results, AddsItem(r, result)
  PROVE  FeedInv'
<1> DEFINE e == page[r][at[r]]
           x == <<e, result>>
<1>1. ReaderOK(r) /\ ReaderTypes(r) /\ PageOK(r) /\ RowsOK(r) /\ ItemsOK(r)
  BY TypesOfReader DEF FeedInv, ReaderOK
<1>2. /\ at[r] = Len(items[r]) + 1 /\ at[r] \in DOMAIN page[r]
      /\ Len(items[r]) \in Nat /\ Len(page[r]) \in Nat /\ Len(items[r]) < Len(page[r])
      /\ e \in DOMAIN feed
      /\ more[r] => Cardinality(After(r)) > Len(page[r])
  BY AssemblingAt DEF AddsItem
<1>3. /\ items[r] \in Seq((DOMAIN feed) \X Results)
      /\ items' = [items EXCEPT ![r] = Append(items[r], x)]
      /\ at' = [at EXCEPT ![r] = at[r] + 1]
  BY <1>1 DEF AddsItem, AddItem, NextEvent, ReaderTypes
<1>4. x \in (DOMAIN feed) \X Results /\ x[1] = e /\ x[2] = result
  BY <1>2
<1>5. /\ snapshot'[feed[e]] = result
      /\ \A j \in Jobs : snapshot[j] # "none" => snapshot'[j] = snapshot[j]
      /\ feed' = feed /\ page' = page /\ more' = more /\ rows' = rows /\ pc'[r] = "assemble"
      /\ UNCHANGED <<select, cursor>>
      /\ Assembling(r) \/ pc[r] = "save"
  BY DEF NextEvent, AddsItem
<1> HIDE DEF x, e
<1>6. /\ Append(items[r], x) \in Seq((DOMAIN feed) \X Results)
      /\ Len(Append(items[r], x)) = Len(items[r]) + 1
      /\ DOMAIN Append(items[r], x) = 1..(Len(items[r]) + 1)
      /\ DOMAIN items[r] = 1..Len(items[r])
      /\ Append(items[r], x)[Len(items[r]) + 1] = x
      /\ \A n \in DOMAIN items[r] : Append(items[r], x)[n] = items[r][n]
  BY <1>3, <1>4, Appended
<1>7. /\ items' \in [Readers -> Seq((DOMAIN feed) \X Results)]
      /\ items'[r] = Append(items[r], x)
      /\ \A s \in Readers \ {r} : items'[s] = items[s]
  <2> DEFINE I == Seq((DOMAIN feed) \X Results)
             longer == Append(items[r], x)
  <2>1. items \in [Readers -> I] /\ longer \in I /\ items' = [items EXCEPT ![r] = longer]
    BY <1>3, <1>6, InsideTypes
  <2> HIDE DEF I, longer
  <2>2. /\ items' \in [Readers -> I] /\ items'[r] = longer
        /\ \A s \in Readers \ {r} : items'[s] = items[s]
    BY <2>1
  <2>3. QED
    BY <2>2 DEF I, longer
<1>8. at[r] + 1 \in Nat /\ at[r] + 1 >= 1 /\ at[r] + 1 = Len(items'[r]) + 1
  BY <1>2, <1>6, <1>7
<1>9. /\ at' \in [Readers -> Nat] /\ at'[r] = at[r] + 1
      /\ \A s \in Readers \ {r} : at'[s] = at[s]
  BY <1>3, <1>8, InsideTypes
<1>10. Inside(r)
  <2>1. at'[r] >= 1
    BY <1>8, <1>9
  <2>2. QED
    BY <1>7, <1>9, <2>1, InsideTypes DEF Inside, AddsItem
<1>11. PageOK(r)'
  <2>1. After(r)' = After(r)
    BY <1>5, SameAfter
  <2>2. QED
    BY <1>1, <1>2, <1>5, <2>1 DEF PageOK, Rank
<1>12. RowsOK(r)'
  BY <1>1, <1>5 DEF RowsOK, Assembling
<1>13. ItemsOK(r)'
  <2>1. ASSUME NEW n \in DOMAIN items'[r]
        PROVE  items'[r][n][1] = page[r][n] /\ items'[r][n][2] = snapshot'[feed[page[r][n]]]
    <3>1. CASE n = Len(items[r]) + 1
      <4>1. items'[r][n] = x /\ page[r][n] = e
        BY <1>2, <1>6, <1>7, <3>1 DEF e
      <4>2. QED
        BY <1>4, <1>5, <4>1
    <3>2. CASE n \in DOMAIN items[r]
      <4>1. items'[r][n] = items[r][n]
        BY <1>6, <1>7, <3>2
      <4>2. /\ items[r][n][1] = page[r][n]
            /\ items[r][n][2] = snapshot[feed[page[r][n]]]
            /\ items[r][n] \in (DOMAIN feed) \X Results
        <5>1. items[r][n] \in (DOMAIN feed) \X Results
          BY <1>3, <3>2
        <5>2. QED
          BY <1>1, <3>2, <5>1 DEF ItemsOK
      <4>3. snapshot[feed[page[r][n]]] # "none" /\ page[r][n] \in DOMAIN feed
        BY <4>2 DEF Results
      <4>4. feed[page[r][n]] \in Jobs
        <5>1. feed \in Seq(Jobs)
          BY InsideTypes
        <5>2. QED
          BY <4>3, <5>1
      <4>5. snapshot'[feed[page[r][n]]] = snapshot[feed[page[r][n]]]
        BY <1>5, <4>3, <4>4
      <4>6. QED
        BY <1>5, <4>1, <4>2, <4>5
    <3>3. QED
      <4>1. n \in 1..(Len(items[r]) + 1)
        BY <1>6, <1>7
      <4>2. n = Len(items[r]) + 1 \/ n \in 1..Len(items[r])
        BY <1>2, <4>1
      <4>3. QED
        BY <1>6, <3>1, <3>2, <4>2
  <2>2. Len(items'[r]) <= Len(page[r])
    BY <1>2, <1>6, <1>7
  <2>3. QED
    BY <1>5, <1>8, <1>9, <2>1, <2>2 DEF ItemsOK
<1>14. QED
  BY <1>10, <1>11, <1>12, <1>13, InsideKeeps

LEMMA ReplayStep ==
  ASSUME FeedInv, NEW r \in Readers, Replay(r)
  PROVE  FeedInv'
<1> DEFINE result == snapshot[feed[NextEvent(r)]]
<1>1. /\ Assembling(r) /\ pc[r] = "assemble" /\ AddItem(r, result) /\ result # "none"
      /\ UNCHANGED <<role, select, over, outcome, feed, snapshot, up, outages, drops, pc,
                     unreachable, page, more, rows, found, cursor, got>>
  BY DEF Replay, Assembling, world
<1>2. feed[NextEvent(r)] \in Jobs
  BY <1>1, AssemblingAt DEF NextEvent
<1>3. result \in Results
  BY <1>1, <1>2, InsideTypes
<1>4. AddsItem(r, result)
  BY <1>1, <1>3, InsideTypes DEF AddsItem
<1>5. QED
  BY <1>3, <1>4, AddItemKeeps

LEMMA SaveStep ==
  ASSUME FeedInv, NEW r \in Readers, Save(r)
  PROVE  FeedInv'
<1> DEFINE j == feed[NextEvent(r)]
           result == IF snapshot[j] = "none" THEN found[r] ELSE snapshot[j]
<1>1. /\ pc[r] = "save" /\ snapshot' = [snapshot EXCEPT ![j] = result]
      /\ AddItem(r, snapshot'[j])
      /\ pc' = [pc EXCEPT ![r] = "assemble"] /\ found' = [found EXCEPT ![r] = "none"]
      /\ UNCHANGED <<role, select, over, outcome, feed, up, outages, drops,
                     unreachable, page, more, rows, cursor, got>>
  BY DEF Save
<1>2. j \in Jobs
  BY <1>1, AssemblingAt DEF NextEvent
<1>3. found[r] \in Results
  BY <1>1 DEF FeedInv, ReaderOK, ItemsOK
<1>4. result \in Results
  BY <1>2, <1>3, InsideTypes
<1>5. snapshot'[j] = result /\ snapshot' \in [Jobs -> {"none"} \cup Results]
      /\ \A k \in Jobs : snapshot[k] # "none" => snapshot'[k] = snapshot[k]
  BY <1>1, <1>2, <1>4, InsideTypes
<1> HIDE DEF result
<1>6. /\ pc' \in [Readers -> {"idle", "reconcile", "current", "assemble", "save",
                              "drained", "done", "gave up"}]
      /\ pc'[r] = "assemble" /\ \A s \in Readers \ {r} : pc'[s] = pc[s]
  BY <1>1, InsideTypes
<1>7. /\ found' \in [Readers -> {"none"} \cup Results]
      /\ \A s \in Readers \ {r} : found'[s] = found[s]
  BY <1>1, InsideTypes
<1>8. AddItem(r, result)
  BY <1>1, <1>5
<1>9. AddsItem(r, result)
  BY <1>1, <1>5, <1>6, <1>7, <1>8 DEF AddsItem
<1>10. QED
  BY <1>4, <1>9, AddItemKeeps

LEMMA CollectStep ==
  ASSUME FeedInv, NEW r \in Readers, Collect(r)
  PROVE  FeedInv'
<1> DEFINE result == rows[r][feed[NextEvent(r)]]
<1>1. /\ Assembling(r) /\ pc[r] = "assemble"
      /\ found' = [found EXCEPT ![r] = result] /\ pc' = [pc EXCEPT ![r] = "save"]
      /\ UNCHANGED <<role, select, over, outcome, feed, snapshot, up, outages, drops,
                     at, unreachable, page, more, rows, items, cursor, got>>
  BY DEF Collect, Assembling, world
<1>2. /\ at[r] = Len(items[r]) + 1 /\ at[r] \in DOMAIN page[r]
      /\ result \in Results
      /\ more[r] => Cardinality(After(r)) > Len(page[r])
  BY <1>1, AssemblingAt DEF NextEvent
<1>3. PageOK(r) /\ RowsOK(r) /\ ItemsOK(r) /\ at[r] >= 1
  BY DEF FeedInv, ReaderOK
<1> HIDE DEF result
<1>4. /\ found' \in [Readers -> {"none"} \cup Results] /\ found'[r] = result
      /\ \A s \in Readers \ {r} : found'[s] = found[s]
  BY <1>1, <1>2, InsideTypes
<1>5. /\ pc' \in [Readers -> {"idle", "reconcile", "current", "assemble", "save",
                              "drained", "done", "gave up"}]
      /\ pc'[r] = "save" /\ \A s \in Readers \ {r} : pc'[s] = pc[s]
  BY <1>1, InsideTypes
<1>6. Inside(r)
  BY <1>1, <1>3, <1>4, <1>5, InsideTypes DEF Inside
<1>7. PageOK(r)'
  <2>1. After(r)' = After(r)
    BY <1>1, SameAfter
  <2>2. QED
    BY <1>1, <1>2, <1>3, <2>1 DEF PageOK, Rank
<1>8. RowsOK(r)'
  BY <1>1, <1>3, <1>5 DEF RowsOK
<1>9. ItemsOK(r)'
  BY <1>1, <1>2, <1>3, <1>4, <1>5 DEF ItemsOK
<1>10. QED
  BY <1>6, <1>7, <1>8, <1>9, InsideKeeps

LEMMA CollectFailsStep ==
  ASSUME FeedInv, NEW r \in Readers, CollectFails(r)
  PROVE  FeedInv'
<1> DEFINE j == feed[NextEvent(r)]
<1>1. /\ Assembling(r) /\ pc[r] = "assemble"
      /\ unreachable' = [unreachable EXCEPT ![r] = unreachable[r] \cup {j}]
      /\ more' = [more EXCEPT ![r] = TRUE]
      /\ at' = [at EXCEPT ![r] = Len(page[r]) + 1]
      /\ UNCHANGED <<role, select, over, outcome, feed, snapshot, up, outages, drops,
                     pc, page, rows, found, items, cursor, got>>
  BY DEF CollectFails, Assembling, world
<1>2. /\ Len(items[r]) \in Nat /\ Len(page[r]) \in Nat /\ Len(items[r]) < Len(page[r])
      /\ j \in Jobs
  BY <1>1, AssemblingAt DEF NextEvent
<1>3. PageOK(r) /\ RowsOK(r) /\ ItemsOK(r)
  BY DEF FeedInv, ReaderOK
<1> HIDE DEF j
<1>4. /\ unreachable' \in [Readers -> SUBSET Jobs]
  BY <1>1, <1>2, InsideTypes
<1>5. /\ more' \in [Readers -> BOOLEAN] /\ more'[r] = TRUE
      /\ \A s \in Readers \ {r} : more'[s] = more[s]
  BY <1>1, InsideTypes
<1>6. Len(page[r]) + 1 \in Nat /\ Len(page[r]) + 1 >= 1
  BY <1>2
<1>7. /\ at' \in [Readers -> Nat] /\ at'[r] = Len(page[r]) + 1
      /\ \A s \in Readers \ {r} : at'[s] = at[s]
  BY <1>1, <1>6, InsideTypes
<1>8. Inside(r)
  BY <1>1, <1>4, <1>5, <1>6, <1>7, InsideTypes DEF Inside
<1>9. PageOK(r)'
  <2>1. After(r)' = After(r)
    BY <1>1, SameAfter
  <2>2. QED
    BY <1>1, <1>2, <1>3, <1>7, <2>1 DEF PageOK, Rank
<1>10. RowsOK(r)'
  BY <1>1, <1>3 DEF RowsOK
<1>11. ItemsOK(r)'
  BY <1>1, <1>3, <1>5, <1>7 DEF ItemsOK
<1>12. QED
  BY <1>8, <1>9, <1>10, <1>11, InsideKeeps

-----------------------------------------------------------------------------
(* The feed starts empty.                                                  *)

LEMMA FeedInvInit ==
  ASSUME Init
  PROVE  FeedInv
<1>1. FeedTypeOK
  <2>1. role \in [Readers -> [mode : {"pages", "drain", "group"}, jobs : Seq(Jobs) \ {<<>>}]]
    BY FeedAssumption DEF Init
  <2>2. select \in [Readers -> Seq(Jobs)]
    BY <2>1 DEF Init
  <2>3. \A r \in Readers : Selected(r) \subseteq Watched(r)
    BY DEF Init, Selected, Watched
  <2>4. feed = <<>> /\ Len(feed) = 0 /\ DOMAIN feed = {} /\ feed \in Seq(Jobs)
    BY DEF Init
  <2>5. page \in [Readers -> Seq(DOMAIN feed)]
    <3>1. <<>> \in Seq(DOMAIN feed)
      OBVIOUS
    <3>2. QED
      BY <3>1 DEF Init
  <2>6. items \in [Readers -> Seq((DOMAIN feed) \X Results)]
    <3>1. <<>> \in Seq((DOMAIN feed) \X Results)
      OBVIOUS
    <3>2. QED
      BY <3>1 DEF Init
  <2>7. cursor \in [Readers -> 0..Len(feed)]
    <3>1. 0 \in 0..Len(feed)
      BY <2>4
    <3>2. QED
      BY <3>1 DEF Init
  <2>8. got \in [Readers -> SUBSET ((DOMAIN feed) \X Results)]
    BY DEF Init
  <2>9. rows \in [Readers -> [Jobs -> {"unread", "active"} \cup Results]]
    <3>1. Unread \in [Jobs -> {"unread", "active"} \cup Results]
      BY DEF Unread
    <3>2. QED
      BY <3>1 DEF Init
  <2>10. outages \in 0..MaxOutages /\ drops \in 0..MaxDrops
    BY FeedAssumption DEF Init
  <2>11. /\ over \subseteq Remote /\ up \in BOOLEAN /\ role \in Roles
         /\ outcome \in [Jobs -> {"active"} \cup Results]
         /\ snapshot \in [Jobs -> {"none"} \cup Results]
    BY DEF Init
  <2>12. /\ pc \in [Readers -> {"idle", "reconcile", "current", "assemble", "save",
                                "drained", "done", "gave up"}]
         /\ at \in [Readers -> Nat] /\ unreachable \in [Readers -> SUBSET Jobs]
         /\ more \in [Readers -> BOOLEAN] /\ found \in [Readers -> {"none"} \cup Results]
    BY DEF Init
  <2>13. QED
    BY <2>2, <2>3, <2>4, <2>5, <2>6, <2>7, <2>8, <2>9, <2>10, <2>11, <2>12 DEF FeedTypeOK
<1>2. EndedOK
  BY DEF Init, EndedOK
<1>3. ASSUME NEW r \in Readers PROVE ReaderOK(r)
  <2>1. /\ pc[r] = "idle" /\ at[r] = 1 /\ page[r] = <<>> /\ more[r] = FALSE
        /\ items[r] = <<>> /\ got[r] = {} /\ feed = <<>>
    BY DEF Init
  <2>2. DOMAIN <<>> = {} /\ Len(<<>>) = 0 /\ Len(<<>>) <= Len(<<>>) /\ 1 >= 1
    OBVIOUS
  <2>3. PageOK(r)
    BY <2>1, <2>2 DEF PageOK
  <2>4. RowsOK(r)
    BY <2>1 DEF RowsOK
  <2>5. ItemsOK(r)
    BY <2>1, <2>2 DEF ItemsOK
  <2>6. GotOK(r)
    BY <2>1, <2>2 DEF GotOK
  <2>7. QED
    BY <2>1, <2>2, <2>3, <2>4, <2>5, <2>6 DEF ReaderOK
<1>4. QED
  BY <1>1, <1>2, <1>3 DEF FeedInv

LEMMA FeedInvStep ==
  ASSUME FeedInv, [Next]_vars
  PROVE  FeedInv'
<1>1. CASE \/ \E j \in Jobs : LocalEnds(j) \/ Settles(j) \/ RemoteEnds(j)
           \/ HostDown \/ HostUp
  BY <1>1, WorldStep
<1>2. ASSUME NEW r \in Readers, Call(r) \/ Works(r) \/ Crash(r) \/ Drop(r)
      PROVE  FeedInv'
  <2>1. CASE Call(r) \/ Drained(r) \/ TimedOut(r) \/ Again(r) \/ Drop(r)
    BY <2>1, PassSteps
  <2>2. CASE Crash(r)
    BY <2>2, CrashStep
  <2>3. CASE Deliver(r)
    BY <2>3, DeliverStep
  <2>4. CASE Reconcile(r)
    BY <2>4, ReconcileStep
  <2>5. CASE Query(r)
    BY <2>5, QueryStep
  <2>6. CASE Current(r)
    BY <2>6, CurrentStep
  <2>7. CASE Replay(r)
    BY <2>7, ReplayStep
  <2>8. CASE Collect(r)
    BY <2>8, CollectStep
  <2>9. CASE CollectFails(r)
    BY <2>9, CollectFailsStep
  <2>10. CASE Save(r)
    BY <2>10, SaveStep
  <2>11. QED
    BY <1>2, <2>1, <2>2, <2>3, <2>4, <2>5, <2>6, <2>7, <2>8, <2>9, <2>10 DEF Works
<1>3. CASE UNCHANGED vars
  <2>1. /\ UNCHANGED <<role, select, call, cursor, got>>
        /\ UNCHANGED <<over, outcome, feed, snapshot, up, outages, drops>>
    BY <1>3 DEF vars, world
  <2>2. /\ over \subseteq Remote /\ up \in BOOLEAN
        /\ outages \in 0..MaxOutages /\ drops \in 0..MaxDrops
    BY DEF FeedInv, FeedTypeOK
  <2>3. QED
    BY <2>1, <2>2, Quiet, WorldKeeps
<1>4. QED
  BY <1>1, <1>2, <1>3 DEF Next

-----------------------------------------------------------------------------
(* Every reachable state satisfies the inductive invariant: pages are the  *)
(* watched events behind the cursor in order, items a prefix of the page   *)
(* with the frozen results, and what a client has covers its cursor.       *)
THEOREM FeedInvariant == Spec => []FeedInv
<1>1. Init => FeedInv
  BY FeedInvInit
<1>2. FeedInv /\ [Next]_vars => FeedInv'
  BY FeedInvStep
<1>3. QED
  BY <1>1, <1>2, PTL DEF Spec

(* For every number of readers and page size, through any outages, lost    *)
(* responses and crashes: a cursor never passes a watched completion that  *)
(* its client has not processed.                                           *)
THEOREM FeedNothingSkipped == Spec => []NothingSkipped
<1>1. FeedInv => NothingSkipped
  BY DEF FeedInv, ReaderOK, GotOK, NothingSkipped
<1>2. QED
  BY <1>1, FeedInvariant, PTL

(* Any two deliveries of an event, to one client or to two, carry the same *)
(* result, the first that was stored.                                      *)
THEOREM FeedOneResult == Spec => []OneResult
<1>1. FeedInv => OneResult
  BY DEF FeedInv, ReaderOK, GotOK, OneResult
<1>2. QED
  BY <1>1, FeedInvariant, PTL

(* The first events of a page are the first of the set it was made from.   *)
LEMMA PagePrefix ==
  ASSUME NEW S \in SUBSET Nat, IsFiniteSet(S), NEW q \in Seq(S),
         \A n \in DOMAIN q : Rank(S, q[n]) = n - 1,
         NEW m \in Nat, m <= Len(q)
  PROVE  /\ {q[n] : n \in 1..m} = FirstOf(S, m)
         /\ Cardinality({q[n] : n \in 1..m}) = m
<1> DEFINE ids == {q[n] : n \in 1..m}
           f == [n \in 1..m |-> q[n]]
<1>1. Len(q) \in Nat /\ DOMAIN q = 1..Len(q) /\ \A n \in 1..m : n \in DOMAIN q /\ n \in Nat
  OBVIOUS
<1>2. \A n \in 1..m : q[n] \in S /\ Rank(S, q[n]) = n - 1
  BY <1>1
<1>3. ids = FirstOf(S, m)
  <2>1. ASSUME NEW n \in 1..m PROVE q[n] \in FirstOf(S, m)
    <3>1. n - 1 < m
      BY <1>1
    <3>2. QED
      BY <1>2, <3>1 DEF FirstOf, Rank
  <2>2. ASSUME NEW i \in FirstOf(S, m) PROVE i \in ids
    <3>1. i \in S /\ Rank(S, i) < m /\ Rank(S, i) \in Nat
      BY RankType DEF FirstOf, Rank
    <3>2. PICK n \in 1..m : n = Rank(S, i) + 1
      BY <3>1
    <3>3. Rank(S, q[n]) = Rank(S, i) /\ q[n] \in S
      BY <1>1, <1>2, <3>1, <3>2
    <3>4. q[n] = i
      BY <3>1, <3>3, RankUnique
    <3>5. QED
      BY <3>4
  <2>3. QED
    BY <2>1, <2>2
<1>4. ExistsBijection(1..m, ids)
  <2>1. f \in [1..m -> ids]
    OBVIOUS
  <2>2. ASSUME NEW a \in 1..m, NEW b \in 1..m, f[a] = f[b] PROVE a = b
    <3>1. a - 1 = b - 1
      BY <1>2, <2>2
    <3>2. QED
      BY <1>1, <3>1
  <2>3. \A i \in ids : \E n \in 1..m : f[n] = i
    OBVIOUS
  <2>4. f \in Bijection(1..m, ids)
    BY <2>1, <2>2, <2>3 DEF Bijection, Injection, Surjection, IsInjective
  <2>5. QED
    BY <2>4 DEF ExistsBijection
<1>5. Cardinality(ids) = m
  <2>1. IsFiniteSet(1..m) /\ Cardinality(1..m) = m
    <3>1. /\ IsFiniteSet(1..m)
          /\ Cardinality(1..m) = IF 1 > m THEN 0 ELSE m - 1 + 1
      BY FS_Interval
    <3>2. QED
      BY <3>1
  <2>2. QED
    BY <1>4, <2>1, FS_Bijection
<1>6. QED
  BY <1>3, <1>5

LEMMA AssembledPage ==
  ASSUME FeedInv, NEW r \in Readers, Assembled(r)
  PROVE  LET ids == {x[1] : x \in ItemsOf(r)} IN
           /\ Cardinality(ids) = Len(items[r])
           /\ ids = FirstOf(After(r), Len(items[r]))
           /\ ~more[r] => Len(items[r]) = Len(page[r])
           /\ more[r] => Cardinality(After(r)) > Len(items[r])
<1> DEFINE L == Len(items[r])
<1>1. ReaderTypes(r) /\ PageOK(r) /\ ItemsOK(r) /\ at[r] >= 1
  BY TypesOfReader DEF FeedInv, ReaderOK
<1>2. After(r) \in SUBSET Nat /\ IsFiniteSet(After(r)) /\ Cardinality(After(r)) \in Nat
  BY AfterFinite, FS_CardinalityType DEF FeedInv
<1>3. /\ L \in Nat /\ Len(page[r]) \in Nat /\ L <= Len(page[r]) /\ at[r] \in Nat
      /\ DOMAIN items[r] = 1..L /\ DOMAIN page[r] = 1..Len(page[r])
  BY <1>1 DEF ReaderTypes, ItemsOK
<1>4. page[r] \in Seq(After(r)) /\ \A n \in DOMAIN page[r] : Rank(After(r), page[r][n]) = n - 1
  <2>1. \A n \in 1..Len(page[r]) : page[r][n] \in After(r)
    BY <1>1, <1>3 DEF PageOK
  <2>2. page[r] \in [1..Len(page[r]) -> After(r)]
    BY <1>1, <1>3, <2>1 DEF ReaderTypes
  <2>3. QED
    BY <1>1, <1>3, <2>2 DEF PageOK
<1>5. {x[1] : x \in ItemsOf(r)} = {page[r][n] : n \in 1..L}
  <2>1. \A n \in 1..L : items[r][n][1] = page[r][n]
    BY <1>1, <1>3 DEF ItemsOK
  <2>2. {x[1] : x \in ItemsOf(r)} = {items[r][n][1] : n \in 1..L}
    BY <1>3 DEF ItemsOf
  <2>3. QED
    BY <2>1, <2>2
<1>6. Cardinality({x[1] : x \in ItemsOf(r)}) = L /\ {x[1] : x \in ItemsOf(r)} = FirstOf(After(r), L)
  <2> HIDE DEF L
  <2>1. /\ {page[r][n] : n \in 1..L} = FirstOf(After(r), L)
        /\ Cardinality({page[r][n] : n \in 1..L}) = L
    BY <1>2, <1>3, <1>4, PagePrefix
  <2>2. QED
    BY <1>5, <2>1
<1>7. ASSUME ~more[r] PROVE L = Len(page[r])
  <2>1. at[r] = L + 1 /\ at[r] \notin 1..Len(page[r])
    BY <1>1, <1>3, <1>7 DEF Assembled, ItemsOK
  <2>2. QED
    BY <1>3, <2>1
<1>8. ASSUME more[r] PROVE Cardinality(After(r)) > L
  <2>1. CASE Cardinality(After(r)) > Len(page[r])
    BY <1>2, <1>3, <2>1
  <2>2. CASE L < Len(page[r])
    <3>1. Len(page[r]) \in DOMAIN page[r]
      BY <1>3, <2>2
    <3>2. page[r][Len(page[r])] \in After(r)
          /\ Rank(After(r), page[r][Len(page[r])]) = Len(page[r]) - 1
      BY <1>1, <3>1 DEF PageOK
    <3>3. Len(page[r]) - 1 < Cardinality(After(r))
      BY <1>2, <3>2, RankRange
    <3>4. QED
      BY <1>2, <1>3, <2>2, <3>3
  <2>3. QED
    BY <1>1, <1>8, <2>1, <2>2 DEF PageOK
<1>9. QED
  BY <1>6, <1>7, <1>8

(* A page is well typed and holds the next watched completions after the   *)
(* cursor, none left out and none twice, and has_more tells the truth.     *)
THEOREM FeedPageIsConsecutive == Spec => []PageIsConsecutive
<1>1. FeedInv => PageIsConsecutive
  BY AssembledPage DEF FeedInv, PageIsConsecutive
<1>2. QED
  BY <1>1, FeedInvariant, PTL
=============================================================================
