--------------------------- MODULE JobStoreProofs ---------------------------
(***************************************************************************)
(* What the transactions of the registry guarantee on their own, for any   *)
(* number of jobs, queues and runners and for every order of calls.        *)
(***************************************************************************)
EXTENDS JobStore, FiniteSetTheorems, WellFoundedInduction, TLAPS

(* A function into Nat has a maximum on a finite set.  The set of finite   *)
(* subsets without one would have a minimal element.                       *)
LEMMA ArgMax ==
  ASSUME NEW S, IsFiniteSet(S), NEW f \in [S -> Nat]
  PROVE  S # {} => \E x \in S : \A y \in S : f[y] <= f[x]
<1> DEFINE HasMax(U) == \E x \in U : \A y \in U : f[y] <= f[x]
           Bad == {U \in FiniteSubsetsOf(S) : U # {} /\ ~HasMax(U)}
<1>1. SUFFICES ASSUME Bad # {} PROVE FALSE
  <2>1. S \in FiniteSubsetsOf(S)
    BY DEF FiniteSubsetsOf
  <2>2. QED
    BY <2>1, <1>1
<1>2. IsWellFoundedOn(StrictSubsetOrdering(S), FiniteSubsetsOf(S))
  BY FS_StrictSubsetOrderingWellFounded
<1>3. PICK U \in Bad : \A V \in Bad : ~(<<V, U>> \in StrictSubsetOrdering(S))
  <2>1. Bad \subseteq FiniteSubsetsOf(S)
    OBVIOUS
  <2> HIDE DEF Bad
  <2>2. QED
    BY <1>1, <1>2, <2>1, WFMin
<1>4. PICK z \in U : TRUE
  BY <1>3
<1> DEFINE V == U \ {z}
<1>5. V \in FiniteSubsetsOf(S) /\ <<V, U>> \in StrictSubsetOrdering(S)
  <2>1. U \in SUBSET S /\ IsFiniteSet(U)
    BY <1>3 DEF FiniteSubsetsOf
  <2>2. IsFiniteSet(V)
    BY <2>1, FS_RemoveElement
  <2>3. QED
    BY <1>4, <2>1, <2>2 DEF FiniteSubsetsOf, StrictSubsetOrdering
<1>6. U \subseteq S
  BY <1>3 DEF FiniteSubsetsOf
<1>7. CASE V = {}
  <2>1. U = {z}
    BY <1>4, <1>7
  <2>2. f[z] \in Nat
    BY <1>4, <1>6
  <2>3. HasMax(U)
    BY <2>1, <2>2
  <2>4. QED
    BY <2>3, <1>3
<1>8. CASE V # {}
  <2>1. PICK x \in V : \A y \in V : f[y] <= f[x]
    BY <1>3, <1>5, <1>8
  <2>2. f[x] \in Nat /\ f[z] \in Nat /\ \A y \in U : f[y] \in Nat
    BY <1>4, <1>6
  <2>3. CASE f[z] <= f[x]
    <3>1. \A y \in U : f[y] <= f[x]
      BY <2>1, <2>3
    <3>2. QED
      BY <3>1, <1>3
  <2>4. CASE f[x] <= f[z]
    <3>1. \A y \in U : f[y] <= f[z]
      <4>1. SUFFICES ASSUME NEW y \in U PROVE f[y] <= f[z]
        OBVIOUS
      <4>2. y = z \/ f[y] <= f[x]
        BY <2>1
      <4>3. QED
        BY <4>2, <2>2, <2>4
    <3>2. QED
      BY <3>1, <1>3, <1>4
  <2>5. QED
    BY <2>2, <2>3, <2>4
<1>9. QED
  BY <1>7, <1>8

(* The rank a new job receives is above every rank of its queue.           *)
LEMMA NextOrderIsLast ==
  ASSUME StoreTypeOK, NEW q
  PROVE  /\ NextOrder(q) \in Nat
         /\ \A k \in Jobs : QueueOf[k] = q => order[k] < NextOrder(q)
<1> DEFINE Q == {i \in Jobs : QueueOf[i] = q}
           R == {0} \cup {order[k] : k \in Q}
<1>1. R \subseteq Nat
  BY DEF StoreTypeOK
<1>2. \E m \in R : \A y \in R : m >= y
  <2>1. CASE Q = {}
    <3>1. R = {0}
      BY <2>1
    <3>2. QED
      BY <3>1
  <2>2. CASE Q # {}
    <3> DEFINE f == [i \in Q |-> order[i]]
    <3>1. IsFiniteSet(Q)
      BY StoreAssumption, FS_Subset
    <3>2. f \in [Q -> Nat]
      BY DEF StoreTypeOK
    <3>3. PICK x \in Q : \A y \in Q : f[y] <= f[x]
      <4> HIDE DEF f, Q
      <4> QED BY <3>1, <3>2, <2>2, ArgMax
    <3>4. order[x] \in R /\ order[x] \in Nat
      BY <1>1, <3>3
    <3>5. \A y \in R : order[x] >= y
      <4>1. \A k \in Q : order[k] <= order[x] /\ order[k] \in Nat
        BY <3>3 DEF StoreTypeOK
      <4>2. QED
        BY <4>1, <3>4
    <3>6. QED
      BY <3>4, <3>5
  <2>3. QED
    BY <2>1, <2>2
<1>3. Max(R) \in R /\ \A y \in R : Max(R) >= y
  <2> HIDE DEF R
  <2> QED BY <1>2 DEF Max
<1>4. NextOrder(q) = Max(R) + 1
  BY DEF NextOrder
<1>5. \A k \in Jobs : QueueOf[k] = q => order[k] \in R
  OBVIOUS
<1>6. Max(R) \in Nat
  BY <1>1, <1>3
<1>7. \A k \in Jobs : QueueOf[k] = q => order[k] \in Nat /\ order[k] <= Max(R)
  <2> HIDE DEF R
  <2> QED BY <1>1, <1>3, <1>5, <1>6
<1>8. QED
  <2> DEFINE m == Max(R)
  <2>1. m \in Nat /\ NextOrder(q) = m + 1
    BY <1>4, <1>6
  <2>2. \A k \in Jobs : QueueOf[k] = q => order[k] \in Nat /\ order[k] <= m
    BY <1>7
  <2> HIDE DEF m
  <2>3. QED
    BY <2>1, <2>2

-----------------------------------------------------------------------------
(* The inductive invariant.  Ranks are compared between inserted rows: a   *)
(* row that is still absent has rank 0.                                    *)
RanksDiffer ==
  \A j, k \in Jobs :
     /\ j # k /\ Queued(j) /\ QueueOf[j] = QueueOf[k]
     /\ state[j] # "absent" /\ state[k] # "absent"
     => order[j] # order[k]

StoreInv == StoreTypeOK /\ OneTerminalEvent /\ RanksDiffer

LEMMA StoreInvInit == StoreInit => StoreInv
<1> SUFFICES ASSUME StoreInit PROVE StoreInv
  OBVIOUS
<1> USE DEF StoreInit, States, Terminal, Active, Occupying, RunnerIds
<1>1. StoreTypeOK
  BY DEF StoreTypeOK
<1>2. OneTerminalEvent
  BY DEF OneTerminalEvent
<1>3. RanksDiffer
  BY DEF RanksDiffer
<1>4. QED
  BY <1>1, <1>2, <1>3 DEF StoreInv

(* Appending the event of a job that has none keeps the feed in step.      *)
LEMMA AppendEvent ==
  ASSUME StoreTypeOK, OneTerminalEvent,
         NEW j \in Jobs, NEW s \in Terminal, state[j] \notin Terminal,
         state' = [state EXCEPT ![j] = s],
         feed' = Append(feed, [job |-> j, state |-> s])
  PROVE  OneTerminalEvent' /\ feed' \in Seq(Event)
<1> DEFINE e == [job |-> j, state |-> s]
<1>1. e \in Event /\ feed \in Seq(Event) /\ state \in [Jobs -> States]
  BY DEF StoreTypeOK, Event
<1>2. feed' \in Seq(Event)
  BY <1>1
<1>3. /\ Len(feed) \in Nat /\ Len(feed') = Len(feed) + 1
      /\ DOMAIN feed = 1..Len(feed) /\ DOMAIN feed' = 1..Len(feed)+1
      /\ \A i \in 1..Len(feed) : feed'[i] = feed[i]
      /\ feed'[Len(feed) + 1] = e
  BY <1>1
<1>4. \A i \in 1..Len(feed) : feed[i] \in Event
  BY <1>1, <1>3
<1>5. \A i \in 1..Len(feed) : feed[i].job # j
  BY <1>3, <1>4 DEF OneTerminalEvent, Event
<1>6. \A i \in 1..Len(feed) : feed[i].job \in Jobs /\ state[feed[i].job] = feed[i].state
  BY <1>3, <1>4 DEF OneTerminalEvent, Event
<1>7. \A i \in 1..Len(feed) : state'[feed[i].job] = feed[i].state
  BY <1>1, <1>5, <1>6
<1>8. state'[j] = s /\ e.job = j /\ e.state = s
  BY <1>1
<1>9. \A i \in DOMAIN feed' : state'[feed'[i].job] = feed'[i].state
  BY <1>3, <1>7, <1>8
<1>10. \A i, k \in DOMAIN feed' : feed'[i].job = feed'[k].job => i = k
  BY <1>3, <1>5, <1>8 DEF OneTerminalEvent
<1>11. ASSUME NEW k \in Jobs, state'[k] \in Terminal
       PROVE  \E i \in DOMAIN feed' : feed'[i].job = k
  <2>1. CASE k = j
    BY <1>3, <1>8, <2>1
  <2>2. CASE k # j
    <3>1. state[k] \in Terminal
      BY <1>1, <1>11, <2>2
    <3>2. PICK i \in DOMAIN feed : feed[i].job = k
      BY <3>1 DEF OneTerminalEvent
    <3>3. QED
      BY <3>2, <1>3
  <2>3. QED
    BY <2>1, <2>2
<1>12. QED
  BY <1>2, <1>9, <1>10, <1>11 DEF OneTerminalEvent

(* A step that leaves the feed and every terminal state alone, and makes   *)
(* no job terminal, keeps the feed in step.                                *)
LEMMA QuietStep ==
  ASSUME OneTerminalEvent, StoreTypeOK, feed' = feed,
         \A k \in Jobs : state'[k] = state[k]
                         \/ (state[k] \notin Terminal /\ state'[k] \notin Terminal)
  PROVE  OneTerminalEvent'
<1>1. \A i \in DOMAIN feed : feed[i].job \in Jobs /\ feed[i].state \in Terminal
  <2>1. feed \in Seq(Event)
    BY DEF StoreTypeOK
  <2>2. \A i \in DOMAIN feed : feed[i] \in Event
    BY <2>1
  <2>3. QED
    BY <2>2 DEF Event
<1>2. \A i \in DOMAIN feed' : state'[feed'[i].job] = feed'[i].state
  BY <1>1 DEF OneTerminalEvent
<1>3. \A k \in Jobs : state'[k] \in Terminal => state[k] \in Terminal
  OBVIOUS
<1>4. \A k \in Jobs : state'[k] \in Terminal => \E i \in DOMAIN feed' : feed'[i].job = k
  BY <1>3 DEF OneTerminalEvent
<1>5. QED
  BY <1>2, <1>4 DEF OneTerminalEvent

LEMMA UpdateKeepsInv ==
  ASSUME StoreInv, NEW j \in Jobs, state[j] # "absent",
         NEW s \in States \ {"absent"}, NEW p \in RunnerIds,
         NEW x \in Codes \cup {NoCode}, UpdateIfActive(j, s, p, x)
  PROVE  StoreInv'
<1>1. CASE state[j] \in Terminal
  BY <1>1 DEF UpdateIfActive, store, StoreInv, StoreTypeOK, OneTerminalEvent,
              RanksDiffer
<1>2. CASE state[j] \notin Terminal
  <2>1. /\ state' = [state EXCEPT ![j] = s] /\ cmd' = [cmd EXCEPT ![j] = p]
        /\ code' = [code EXCEPT ![j] = x] /\ Emit(j, s) /\ UNCHANGED <<owner, order>>
    BY <1>2 DEF UpdateIfActive
  <2>2. OneTerminalEvent' /\ feed' \in Seq(Event)
    <3>1. CASE s \in Terminal
      <4>1. feed' = Append(feed, [job |-> j, state |-> s])
        BY <1>2, <2>1, <3>1 DEF Emit
      <4>2. QED
        BY <1>2, <2>1, <3>1, <4>1, AppendEvent DEF StoreInv
    <3>2. CASE s \notin Terminal
      <4>1. feed' = feed
        BY <2>1, <3>2 DEF Emit
      <4>2. \A k \in Jobs : state'[k] = state[k]
                            \/ (state[k] \notin Terminal /\ state'[k] \notin Terminal)
        BY <1>2, <2>1, <3>2 DEF StoreInv, StoreTypeOK
      <4>3. QED
        BY <4>1, <4>2, QuietStep DEF StoreInv, StoreTypeOK
    <3>3. QED
      BY <3>1, <3>2
  <2>3. StoreTypeOK'
    BY <2>1, <2>2 DEF StoreInv, StoreTypeOK
  <2>4. RanksDiffer'
    BY <2>1 DEF StoreInv, StoreTypeOK, RanksDiffer
  <2>5. QED
    BY <2>2, <2>3, <2>4 DEF StoreInv
<1>3. QED
  BY <1>1, <1>2

LEMMA CreateKeepsInv ==
  ASSUME StoreInv, NEW j \in Jobs, Create(j)
  PROVE  StoreInv'
<1> USE DEF StoreInv
<1>1. StoreTypeOK'
  <2>1. order' \in [Jobs -> Nat]
    BY NextOrderIsLast DEF Create, StoreTypeOK
  <2>2. QED
    BY <2>1 DEF Create, StoreTypeOK, States, Active, Occupying
<1>2. OneTerminalEvent'
  <2>1. \A k \in Jobs : state'[k] = state[k]
                        \/ (state[k] \notin Terminal /\ state'[k] \notin Terminal)
    BY DEF Create, StoreTypeOK, Terminal
  <2>2. QED
    BY <2>1, QuietStep DEF Create
<1>3. RanksDiffer'
  <2> SUFFICES ASSUME NEW i \in Jobs, NEW k \in Jobs, i # k, Queued(i),
                      QueueOf[i] = QueueOf[k],
                      state'[i] # "absent", state'[k] # "absent"
               PROVE  order'[i] # order'[k]
    BY DEF RanksDiffer
  <2>1. CASE i # j /\ k # j
    BY <2>1 DEF Create, StoreTypeOK, RanksDiffer
  <2>2. CASE i = j
    <3>1. order'[i] = NextOrder(QueueOf[i]) /\ order'[k] = order[k]
      BY <2>2 DEF Create, StoreTypeOK
    <3>2. order[k] \in Nat /\ order[k] < NextOrder(QueueOf[i]) /\ NextOrder(QueueOf[i]) \in Nat
      BY NextOrderIsLast DEF StoreTypeOK
    <3>3. QED
      BY <3>1, <3>2
  <2>3. CASE k = j
    <3>1. order'[k] = NextOrder(QueueOf[k]) /\ order'[i] = order[i]
      BY <2>3 DEF Create, StoreTypeOK, Queued
    <3>2. order[i] \in Nat /\ order[i] < NextOrder(QueueOf[k]) /\ NextOrder(QueueOf[k]) \in Nat
      BY NextOrderIsLast DEF StoreTypeOK
    <3>3. QED
      BY <3>1, <3>2
  <2>4. QED
    BY <2>1, <2>2, <2>3
<1>4. QED
  BY <1>1, <1>2, <1>3

(* The transactions that touch neither the feed nor a rank, and move a job *)
(* only between states that are not terminal.                              *)
LEMMA QuietKeepsInv ==
  ASSUME StoreInv, StoreTypeOK', feed' = feed, order' = order,
         \A k \in Jobs : state'[k] = state[k]
                         \/ (state[k] \in Active /\ state'[k] \in Active)
  PROVE  StoreInv'
<1>1. \A k \in Jobs : state'[k] = state[k]
                      \/ (state[k] \notin Terminal /\ state'[k] \notin Terminal)
  BY DEF Terminal, Active, Occupying
<1>2. OneTerminalEvent'
  BY <1>1, QuietStep DEF StoreInv
<1>3. \A k \in Jobs : state'[k] # "absent" => state[k] # "absent"
  BY DEF Active, Occupying
<1>4. RanksDiffer'
  BY <1>3 DEF StoreInv, RanksDiffer
<1>5. QED
  BY <1>2, <1>4 DEF StoreInv

(* Every transaction keeps the inductive invariant.                        *)
LEMMA StoreInvStep == StoreInv /\ [StoreNext]_store => StoreInv'
<1> SUFFICES ASSUME StoreInv, [StoreNext]_store PROVE StoreInv'
  OBVIOUS
<1>1. CASE UNCHANGED store
  BY <1>1 DEF store, StoreInv, StoreTypeOK, OneTerminalEvent, RanksDiffer
<1>2. CASE StoreNext
  <2>1. PICK j \in Jobs :
          \/ Create(j)
          \/ /\ state[j] # "absent"
             /\ \/ \E r \in Runners : ClaimSlot(j, r)
                \/ \E e \in RunnerIds, r \in Runners : RegisterRunner(j, e, r)
                \/ \E e \in RunnerIds : RequeueRunner(j, e)
                \/ \E s \in States \ {"absent"}, p \in RunnerIds, x \in Codes \cup {NoCode} :
                      UpdateIfActive(j, s, p, x)
                \/ \E r \in Runners : UpdateOwner(j, r)
                \/ \E x \in Codes : UpdateCode(j, x)
    BY <1>2 DEF StoreNext
  <2> USE DEF States, Active, Occupying, RunnerIds
  <2>2. CASE Create(j)
    BY <2>2, CreateKeepsInv
  <2>3. ASSUME NEW r \in Runners, ClaimSlot(j, r) PROVE StoreInv'
    <3>1. StoreTypeOK'
      BY <2>3 DEF ClaimSlot, StoreInv, StoreTypeOK
    <3>2. QED
      BY <2>3, <3>1, QuietKeepsInv DEF ClaimSlot, Claimable, StoreInv, StoreTypeOK
  <2>4. ASSUME NEW e \in RunnerIds, NEW r \in Runners, RegisterRunner(j, e, r)
        PROVE  StoreInv'
    <3>1. StoreTypeOK'
      BY <2>4 DEF RegisterRunner, StoreInv, StoreTypeOK
    <3>2. QED
      BY <2>4, <3>1, QuietKeepsInv DEF RegisterRunner
  <2>5. ASSUME NEW e \in RunnerIds, RequeueRunner(j, e) PROVE StoreInv'
    <3>1. StoreTypeOK'
      BY <2>5 DEF RequeueRunner, StoreInv, StoreTypeOK
    <3>2. QED
      BY <2>5, <3>1, QuietKeepsInv DEF RequeueRunner, Requeues, StoreInv, StoreTypeOK
  <2>6. ASSUME state[j] # "absent", NEW s \in States \ {"absent"},
               NEW p \in RunnerIds, NEW x \in Codes \cup {NoCode},
               UpdateIfActive(j, s, p, x)
        PROVE  StoreInv'
    <3> USE DEF States, RunnerIds
    <3>1. QED
      BY <2>6, UpdateKeepsInv
  <2>7. ASSUME NEW r \in Runners, UpdateOwner(j, r) PROVE StoreInv'
    <3>1. StoreTypeOK'
      BY <2>7 DEF UpdateOwner, StoreInv, StoreTypeOK
    <3>2. QED
      BY <2>7, <3>1, QuietKeepsInv DEF UpdateOwner
  <2>8. ASSUME NEW x \in Codes, UpdateCode(j, x) PROVE StoreInv'
    <3>1. StoreTypeOK'
      BY <2>8 DEF UpdateCode, StoreInv, StoreTypeOK
    <3>2. QED
      BY <2>8, <3>1, QuietKeepsInv DEF UpdateCode
  <2>9. QED
    BY <2>1, <2>2, <2>3, <2>4, <2>5, <2>6, <2>7, <2>8
<1>3. QED
  BY <1>1, <1>2

THEOREM StoreInvariant == StoreSpec => []StoreInv
BY StoreInvInit, StoreInvStep, PTL DEF StoreSpec

-----------------------------------------------------------------------------
(* The columns keep their types: in particular the feed only ever holds    *)
(* terminal events of existing jobs.                                       *)
THEOREM StoreTypes == StoreSpec => []StoreTypeOK
<1>1. StoreInv => StoreTypeOK
  BY DEF StoreInv
<1>2. QED
  BY <1>1, StoreInvariant, PTL

(* Exactly one completion event per terminal job, none for the others.     *)
THEOREM StoreOneTerminalEvent == StoreSpec => []OneTerminalEvent
<1>1. StoreInv => OneTerminalEvent
  BY DEF StoreInv
<1>2. QED
  BY <1>1, StoreInvariant, PTL

(* The head of a queue is unique, because ranks are never shared.          *)
THEOREM StoreOneHead == StoreSpec => []OneHead
<1>1. StoreInv => OneHead
  <2> SUFFICES ASSUME StoreInv, NEW j \in Jobs, NEW k \in Jobs,
                      Queued(j), QueueOf[j] = QueueOf[k],
                      state[j] = "queued", state[k] = "queued",
                      Oldest(j), Oldest(k)
               PROVE  j = k
    BY DEF OneHead
  <2>1. order[j] <= order[k] /\ order[k] <= order[j]
    BY DEF Oldest
  <2>2. order[j] \in Nat /\ order[k] \in Nat
    BY DEF StoreInv, StoreTypeOK
  <2>3. order[j] = order[k]
    BY <2>1, <2>2
  <2>4. QED
    BY <2>3 DEF StoreInv, RanksDiffer
<1>2. QED
  BY <1>1, StoreInvariant, PTL

(* No transaction leaves a terminal state.                                 *)
THEOREM StoreTerminalIsFinal == StoreSpec => TerminalIsFinal
<1> DEFINE Final == \A j \in Jobs : state[j] \in Terminal => state'[j] = state[j]
<1>1. StoreInv /\ [StoreNext]_store => [Final]_store
  <2> SUFFICES ASSUME StoreTypeOK, StoreNext PROVE Final
    BY DEF StoreInv
  <2> USE DEF StoreTypeOK, Terminal
  <2>1. PICK j \in Jobs :
          \/ Create(j)
          \/ /\ state[j] # "absent"
             /\ \/ \E r \in Runners : ClaimSlot(j, r)
                \/ \E e \in RunnerIds, r \in Runners : RegisterRunner(j, e, r)
                \/ \E e \in RunnerIds : RequeueRunner(j, e)
                \/ \E s \in States \ {"absent"}, p \in RunnerIds, x \in Codes \cup {NoCode} :
                      UpdateIfActive(j, s, p, x)
                \/ \E r \in Runners : UpdateOwner(j, r)
                \/ \E x \in Codes : UpdateCode(j, x)
    BY DEF StoreNext
  <2>2. CASE Create(j)
    BY <2>2 DEF Create
  <2>3. ASSUME NEW r \in Runners, ClaimSlot(j, r) PROVE Final
    BY <2>3 DEF ClaimSlot, Claimable
  <2>4. ASSUME NEW e \in RunnerIds, NEW r \in Runners, RegisterRunner(j, e, r) PROVE Final
    BY <2>4 DEF RegisterRunner
  <2>5. ASSUME NEW e \in RunnerIds, RequeueRunner(j, e) PROVE Final
    BY <2>5 DEF RequeueRunner, Requeues
  <2>6. ASSUME NEW s, NEW p, NEW x, UpdateIfActive(j, s, p, x) PROVE Final
    BY <2>6 DEF UpdateIfActive, store
  <2>7. ASSUME NEW r, UpdateOwner(j, r) PROVE Final
    BY <2>7 DEF UpdateOwner
  <2>8. ASSUME NEW x, UpdateCode(j, x) PROVE Final
    BY <2>8 DEF UpdateCode
  <2>9. QED
    BY <2>1, <2>2, <2>3, <2>4, <2>5, <2>6, <2>7, <2>8
<1>2. QED
  BY <1>1, StoreInvariant, PTL DEF StoreSpec, TerminalIsFinal

(* What a cursor has passed never changes.                                 *)
THEOREM StoreFeedAppendOnly == StoreSpec => FeedAppendOnly
<1> DEFINE Kept == SubSeq(feed', 1, Len(feed)) = feed
<1>1. StoreInv /\ [StoreNext]_store => [Kept]_store
  <2> SUFFICES ASSUME StoreTypeOK, StoreNext PROVE Kept
    BY DEF StoreInv
  <2>1. feed \in Seq(Event)
    BY DEF StoreTypeOK
  <2>2. feed' = feed \/ \E e \in Event : feed' = Append(feed, e)
    BY DEF StoreNext, Create, ClaimSlot, RegisterRunner, RequeueRunner, UpdateIfActive,
           Emit, UpdateOwner, UpdateCode, store, Event
  <2>3. QED
    BY <2>1, <2>2
<1>2. QED
  BY <1>1, StoreInvariant, PTL DEF StoreSpec, FeedAppendOnly
=============================================================================
