--------------------------- MODULE DeliveryProofs ---------------------------
(***************************************************************************)
(* Whoever asks for a result is told the same, and a run can be recovered  *)
(* from the list of recent jobs, for any number of jobs, clients and       *)
(* faults, any assignment of roles and any length of the list.             *)
(*                                                                         *)
(* The argument: the client that holds the lock has the list as it stands  *)
(* in its hands, so a write replaces nothing it has not read; the end of a *)
(* job is final, so what a client saw of it is still true when it answers; *)
(* and a stored result is never replaced.                                  *)
(***************************************************************************)
EXTENDS Deliveries, SequenceTheorems, TLAPS

-----------------------------------------------------------------------------
(* The list of recent jobs. *)

LEMMA ToSetType ==
  ASSUME NEW S, NEW s \in Seq(S)
  PROVE  /\ ToSet(s) \subseteq S
         /\ \A x : x \in ToSet(s) <=> \E i \in 1..Len(s) : s[i] = x
BY DEF ToSet

\* Leaving out position n keeps the other elements, in their order.
LEMMA RemoveAtPosition ==
  ASSUME NEW S, NEW s \in Seq(S), NEW n \in 1..Len(s)
  PROVE  /\ RemoveAt(s, n) \in Seq(S)
         /\ Len(RemoveAt(s, n)) = Len(s) - 1
         /\ \A i \in 1..(Len(s) - 1) :
              RemoveAt(s, n)[i] = IF i < n THEN s[i] ELSE s[i + 1]
<1> DEFINE a == SubSeq(s, 1, n - 1)
           b == SubSeq(s, n + 1, Len(s))
<1>1. Len(s) \in Nat /\ n \in Nat /\ 1 <= n /\ n <= Len(s)
  OBVIOUS
<1>2. \A i \in 1..Len(s) : s[i] \in S
  OBVIOUS
<1>3. /\ a \in Seq(S) /\ Len(a) = n - 1
      /\ \A i \in 1..(n - 1) : a[i] = s[i]
  <2>1. \A i \in 1..(n - 1) : s[i] \in S
    BY <1>1, <1>2
  <2>2. /\ a \in Seq(S) /\ Len(a) = IF 1 <= n - 1 THEN (n - 1) - 1 + 1 ELSE 0
        /\ \A i \in 1..((n - 1) - 1 + 1) : a[i] = s[1 + i - 1]
    BY <1>1, <2>1, SubSeqProperties
  <2>3. QED
    BY <1>1, <2>2
<1>4. /\ b \in Seq(S) /\ Len(b) = Len(s) - n
      /\ \A i \in 1..(Len(s) - n) : b[i] = s[n + i]
  <2>1. \A i \in (n + 1)..Len(s) : s[i] \in S
    BY <1>1, <1>2
  <2>2. /\ b \in Seq(S) /\ Len(b) = IF n + 1 <= Len(s) THEN Len(s) - (n + 1) + 1 ELSE 0
        /\ \A i \in 1..(Len(s) - (n + 1) + 1) : b[i] = s[(n + 1) + i - 1]
    BY <1>1, <2>1, SubSeqProperties
  <2>3. QED
    BY <1>1, <2>2
<1>5. RemoveAt(s, n) = a \o b
  BY DEF RemoveAt
<1> HIDE DEF a, b
<1>6. /\ a \o b \in Seq(S) /\ Len(a \o b) = Len(a) + Len(b)
      /\ \A i \in 1..(Len(a) + Len(b)) : (a \o b)[i] = IF i <= Len(a) THEN a[i] ELSE b[i - Len(a)]
  BY <1>3, <1>4, ConcatProperties
<1>7. ASSUME NEW i \in 1..(Len(s) - 1) PROVE (a \o b)[i] = IF i < n THEN s[i] ELSE s[i + 1]
  <2>1. i \in 1..(Len(a) + Len(b))
    BY <1>1, <1>3, <1>4
  <2>2. CASE i < n
    <3>1. i \in 1..(n - 1) /\ i <= Len(a)
      BY <1>1, <1>3, <2>2
    <3>2. QED
      BY <1>3, <1>6, <2>1, <2>2, <3>1
  <2>3. CASE ~(i < n)
    <3>1. /\ ~(i <= Len(a)) /\ i - Len(a) \in 1..(Len(s) - n)
          /\ n + (i - Len(a)) = i + 1
      BY <1>1, <1>3, <2>3
    <3>2. QED
      BY <1>4, <1>6, <2>1, <2>3, <3>1
  <2>4. QED
    BY <2>2, <2>3
<1>8. QED
  BY <1>1, <1>3, <1>4, <1>5, <1>6, <1>7

\* Of a list that holds each job once, the others are all but the job.
LEMMA OthersOnce ==
  ASSUME NEW S, NEW s \in Seq(S), IsInjective(s), NEW j
  PROVE  /\ Others(s, j) \in Seq(S)
         /\ IsInjective(Others(s, j))
         /\ ToSet(Others(s, j)) = ToSet(s) \ {j}
         /\ Len(Others(s, j)) = IF j \in ToSet(s) THEN Len(s) - 1 ELSE Len(s)
<1>1. Len(s) \in Nat /\ DOMAIN s = 1..Len(s)
  OBVIOUS
<1>2. CASE \A i \in 1..Len(s) : s[i] # j
  <2>1. Others(s, j) = s
    BY <1>2 DEF Others, RemoveFirst
  <2>2. j \notin ToSet(s)
    BY <1>2, ToSetType
  <2>3. QED
    BY <2>1, <2>2
<1>3. ASSUME NEW n \in 1..Len(s), s[n] = j
      PROVE  Others(s, j) = RemoveAt(s, n)
  <2> DEFINE I == {i \in 1..Len(s) : s[i] = j}
  <2>1. I = {n}
    BY <1>1, <1>3 DEF IsInjective
  <2>2. SelectInSeq(s, LAMBDA v : v = j) = Min(I)
    BY <2>1 DEF SelectInSeq
  <2>3. Min(I) = n
    BY <2>1 DEF Min
  <2>4. QED
    BY <1>3, <2>2, <2>3 DEF Others, RemoveFirst
<1>4. ASSUME NEW n \in 1..Len(s), s[n] = j
      PROVE  /\ Others(s, j) \in Seq(S)
             /\ IsInjective(Others(s, j))
             /\ ToSet(Others(s, j)) = ToSet(s) \ {j}
             /\ Len(Others(s, j)) = Len(s) - 1
             /\ j \in ToSet(s)
  <2> DEFINE o == Others(s, j)
  <2>1. /\ o \in Seq(S) /\ Len(o) = Len(s) - 1
        /\ \A i \in 1..(Len(s) - 1) : o[i] = IF i < n THEN s[i] ELSE s[i + 1]
    BY <1>3, <1>4, RemoveAtPosition
  <2> HIDE DEF o
  <2>2. n \in Nat /\ 1 <= n /\ n <= Len(s) /\ DOMAIN o = 1..(Len(s) - 1)
    BY <1>1, <2>1
  <2>3. IsInjective(o)
    <3>1. SUFFICES ASSUME NEW a \in 1..(Len(s) - 1), NEW b \in 1..(Len(s) - 1), o[a] = o[b]
                   PROVE  a = b
      BY <2>2 DEF IsInjective
    <3> DEFINE A == IF a < n THEN a ELSE a + 1
               B == IF b < n THEN b ELSE b + 1
    <3>2. A \in 1..Len(s) /\ B \in 1..Len(s)
      BY <1>1, <2>2
    <3>3. o[a] = s[A] /\ o[b] = s[B]
      BY <2>1
    <3>4. A = B
      BY <1>1, <3>1, <3>2, <3>3 DEF IsInjective
    <3>5. QED
      BY <1>1, <2>2, <3>4
  <2>4. ToSet(s) \ {j} \subseteq ToSet(o)
    <3>1. SUFFICES ASSUME NEW i \in 1..Len(s), s[i] # j PROVE s[i] \in ToSet(o)
      BY ToSetType
    <3>2. i # n
      BY <1>4, <3>1
    <3> DEFINE k == IF i < n THEN i ELSE i - 1
    <3>3. k \in 1..(Len(s) - 1) /\ (IF k < n THEN k ELSE k + 1) = i
      BY <1>1, <2>2, <3>2
    <3>4. o[k] = s[i]
      BY <2>1, <3>3
    <3>5. QED
      BY <2>1, <3>3, <3>4, ToSetType
  <2>5. ToSet(o) \subseteq ToSet(s) \ {j}
    <3>1. SUFFICES ASSUME NEW k \in 1..(Len(s) - 1) PROVE o[k] \in ToSet(s) /\ o[k] # j
      BY <2>1, ToSetType
    <3> DEFINE i == IF k < n THEN k ELSE k + 1
    <3>2. i \in 1..Len(s) /\ i # n
      BY <1>1, <2>2
    <3>3. o[k] = s[i]
      BY <2>1
    <3>4. s[i] # j
      BY <1>1, <1>4, <3>2 DEF IsInjective
    <3>5. QED
      BY <3>2, <3>3, <3>4, ToSetType
  <2>6. j \in ToSet(s)
    BY <1>4, ToSetType
  <2>7. QED
    BY <2>1, <2>3, <2>4, <2>5, <2>6 DEF o
<1>5. QED
  BY <1>2, <1>4

IsList(s) == s \in Seq(Jobs) /\ IsInjective(s) /\ Len(s) <= MaxRecent

\* List r is list s with job j at its head.
Updates(s, j, r) ==
  /\ IsList(r)
  /\ j \in ToSet(r)
  /\ Len(r) = MaxRecent \/ ToSet(r) = ToSet(s) \cup {j}
  /\ Len(s) = MaxRecent => Len(r) = MaxRecent

\* What a write leaves: the job first, no job twice, no more than the list
\* may hold, and nothing dropped unless it is full.
LEMMA WrittenList ==
  ASSUME NEW s, IsList(s), NEW j \in Jobs
  PROVE  Updates(s, j, Newest(<<j>> \o Others(s, j)))
<1> DEFINE r == Newest(<<j>> \o Others(s, j))
<1> HIDE DEF r
<1> s \in Seq(Jobs) /\ IsInjective(s) /\ Len(s) <= MaxRecent
  BY DEF IsList
<1> DEFINE o == Others(s, j)
           e == <<j>> \o o
<1>1. /\ o \in Seq(Jobs) /\ IsInjective(o) /\ ToSet(o) = ToSet(s) \ {j}
      /\ Len(o) = IF j \in ToSet(s) THEN Len(s) - 1 ELSE Len(s)
  BY OthersOnce
<1>2. MaxRecent \in Nat /\ MaxRecent >= 1
  BY DeliveryAssumption
<1> HIDE DEF o
<1>3. /\ e \in Seq(Jobs) /\ Len(e) = 1 + Len(o)
      /\ e[1] = j /\ \A i \in 2..Len(e) : e[i] = o[i - 1]
  <2>1. <<j>> \in Seq(Jobs) /\ Len(<<j>>) = 1 /\ <<j>>[1] = j
    OBVIOUS
  <2>2. /\ e \in Seq(Jobs) /\ Len(e) = Len(<<j>>) + Len(o)
        /\ \A i \in 1..(Len(<<j>>) + Len(o)) : e[i] = IF i <= Len(<<j>>) THEN <<j>>[i] ELSE o[i - Len(<<j>>)]
    BY <1>1, <2>1, ConcatProperties
  <2>3. QED
    BY <1>1, <2>1, <2>2
<1> HIDE DEF e
<1>4. Len(o) \in Nat /\ Len(e) \in Nat /\ Len(s) \in Nat
  BY <1>1, <1>3
<1> DEFINE m == IF Len(e) < MaxRecent THEN Len(e) ELSE MaxRecent
<1>5. m \in Nat /\ 1 <= m /\ m <= Len(e) /\ m <= MaxRecent /\ (m = MaxRecent \/ m = Len(e))
  BY <1>2, <1>3, <1>4
<1>6. /\ r \in Seq(Jobs) /\ Len(r) = m /\ \A i \in 1..m : r[i] = e[i]
  <2>1. r = SubSeq(e, 1, m)
    BY DEF Newest, e, o, r
  <2> HIDE DEF m
  <2>2. \A i \in 1..m : e[i] \in Jobs
    BY <1>3, <1>5
  <2>3. /\ SubSeq(e, 1, m) \in Seq(Jobs) /\ Len(SubSeq(e, 1, m)) = IF 1 <= m THEN m - 1 + 1 ELSE 0
        /\ \A i \in 1..(m - 1 + 1) : SubSeq(e, 1, m)[i] = e[1 + i - 1]
    BY <1>5, <2>2, SubSeqProperties
  <2>4. QED
    BY <1>5, <2>1, <2>3
<1> HIDE DEF m
<1>7. IsInjective(e)
  <2>1. SUFFICES ASSUME NEW a \in 1..Len(e), NEW b \in 1..Len(e), e[a] = e[b], a < b PROVE FALSE
    BY <1>3, <1>4 DEF IsInjective
  <2>2. b \in 2..Len(e) /\ b - 1 \in 1..Len(o) /\ e[b] = o[b - 1]
    BY <1>3, <1>4, <2>1
  <2>3. CASE a = 1
    <3>1. o[b - 1] = j
      BY <1>3, <2>1, <2>2, <2>3
    <3>2. j \in ToSet(o)
      BY <1>1, <2>2, <3>1, ToSetType
    <3>3. QED
      BY <1>1, <3>2
  <2>4. CASE a # 1
    <3>1. a \in 2..Len(e) /\ a - 1 \in 1..Len(o) /\ e[a] = o[a - 1] /\ a - 1 # b - 1
      BY <1>3, <1>4, <2>1, <2>4
    <3>2. QED
      BY <1>1, <2>1, <2>2, <3>1 DEF IsInjective
  <2>5. QED
    BY <2>3, <2>4
<1>8. IsInjective(r)
  <2>1. SUFFICES ASSUME NEW a \in 1..m, NEW b \in 1..m, r[a] = r[b] PROVE a = b
    BY <1>6 DEF IsInjective
  <2>2. a \in 1..Len(e) /\ b \in 1..Len(e) /\ e[a] = e[b]
    BY <1>4, <1>5, <1>6, <2>1
  <2>3. QED
    BY <1>3, <1>7, <2>2 DEF IsInjective
<1>9. j \in ToSet(r)
  <2>1. 1 \in 1..Len(r) /\ 1 \in 1..m
    BY <1>5, <1>6
  <2>2. r[1] = j
    BY <1>3, <1>6, <2>1
  <2>3. QED
    BY <1>6, <2>1, <2>2, ToSetType
<1>10. ASSUME m = Len(e) PROVE ToSet(r) = ToSet(s) \cup {j}
  <2>1. ASSUME NEW x \in ToSet(s), x # j PROVE x \in ToSet(r)
    <3>1. x \in ToSet(o)
      BY <1>1, <2>1
    <3>2. PICK i \in 1..Len(o) : o[i] = x
      BY <1>1, <3>1, ToSetType
    <3>3. i + 1 \in 2..Len(e) /\ (i + 1) - 1 = i /\ i + 1 \in 1..m
      BY <1>3, <1>4, <1>10
    <3>4. r[i + 1] = x
      BY <1>3, <1>6, <3>2, <3>3
    <3>5. QED
      BY <1>6, <3>3, <3>4, ToSetType
  <2>2. ASSUME NEW i \in 1..m PROVE r[i] \in ToSet(s) \cup {j}
    <3>1. CASE i = 1
      BY <1>3, <1>6, <3>1
    <3>2. CASE i # 1
      <4>1. i \in 2..Len(e) /\ i - 1 \in 1..Len(o)
        BY <1>3, <1>4, <1>5, <3>2
      <4>2. r[i] = o[i - 1]
        BY <1>3, <1>6, <4>1
      <4>3. o[i - 1] \in ToSet(o)
        BY <1>1, <4>1, ToSetType
      <4>4. QED
        BY <1>1, <4>2, <4>3
    <3>3. QED
      BY <3>1, <3>2
  <2>3. QED
    BY <1>6, <1>9, <2>1, <2>2, ToSetType
<1>11. ASSUME Len(s) = MaxRecent PROVE m = MaxRecent
  <2>1. Len(e) >= MaxRecent
    BY <1>1, <1>2, <1>3, <1>4, <1>11
  <2>2. QED
    BY <1>2, <1>4, <2>1 DEF m
<1>12. QED
  BY <1>5, <1>6, <1>8, <1>9, <1>10, <1>11 DEF IsList, Updates, r
-----------------------------------------------------------------------------
(* The inductive invariant. *)

States == {"absent"} \cup Life!Open \cup Life!Ended

\* A client has a job from its first step on, and keeps it; the holder of the
\* lock has the list as it stands; what was found belongs to an ended job.
ClientOK(c) ==
  /\ pc[c] = "idle" => answer[c] = "none"
  /\ pc[c] # "idle" => job[c] \in Jobs
  /\ pc[c] = "write" => lock = c /\ draft[c] = recent
  /\ pc[c] \in {"handle", "get"} => role[c].name = "task"
  /\ pc[c] \in {"record", "write"} => answer[c] \in {"none", "pending"}
  /\ pc[c] \in {"collect", "save"} => Ended(job[c])
  /\ pc[c] = "save" => found[c] \in Contents

Truthful(c) ==
  /\ answer[c] \in Contents => Ended(job[c]) /\ answer[c] = snapshot[job[c]]
  /\ answer[c] = "cancelled" => state[job[c]] = "cancelled"

Recorded(c) ==
  \/ role[c].name = "run" /\ pc[c] \in {"look", "collect", "save", "done"}
  \/ role[c].name \in Adaptive /\ pc[c] = "done" /\ answer[c] = "pending"
  => job[c] \in kept

Retried(c) ==
  role[c].name \in {"block", "wait"} /\ answer[c] = "error" => Ended(job[c])

ListOK == kept \subseteq ToSet(recent) \/ Len(recent) = MaxRecent

DeliveryInv ==
  /\ DeliveryTypeOK
  /\ state \in [Jobs -> States]
  /\ ListOK
  /\ \A c \in Clients : ClientOK(c) /\ Truthful(c) /\ Recorded(c) /\ Retried(c)

LEMMA InitInv == Init => DeliveryInv
<1> SUFFICES ASSUME Init PROVE DeliveryInv
  OBVIOUS
<1> USE DEF Init, Life!Init
<1>1. /\ <<>> \in Seq(Jobs) /\ IsInjective(<<>>) /\ Len(<<>>) = 0 /\ ToSet(<<>>) = {}
  BY DEF IsInjective, ToSet
<1>2. DeliveryTypeOK
  BY <1>1, DeliveryAssumption DEF DeliveryTypeOK
<1>3. state \in [Jobs -> States]
  BY DEF States
<1>4. ListOK
  BY <1>1 DEF ListOK
<1>5. "none" \notin Contents
  BY DeliveryAssumption
<1>6. ASSUME NEW c \in Clients PROVE ClientOK(c) /\ Truthful(c) /\ Recorded(c) /\ Retried(c)
  BY <1>5 DEF ClientOK, Truthful, Recorded, Retried, Adaptive
<1>7. QED
  BY <1>2, <1>3, <1>4, <1>6 DEF DeliveryInv

-----------------------------------------------------------------------------
(* What every step leaves in place. *)

\* The end of a job is final.
JobsMove ==
  /\ state' \in [Jobs -> States]
  /\ \A j \in Jobs : Ended(j) => state'[j] = state[j]

\* So are its stored result, and what was written to the list.
Monotone ==
  /\ JobsMove
  /\ role' = role
  /\ \A j \in Jobs : snapshot[j] # "none" => snapshot'[j] = snapshot[j]
  /\ kept \subseteq kept'

\* Client d takes no step, and the list is not written under its lock.
Idles(d) ==
  /\ pc'[d] = pc[d] /\ job'[d] = job[d] /\ draft'[d] = draft[d]
  /\ found'[d] = found[d] /\ answer'[d] = answer[d]
  /\ pc[d] = "write" => lock' = lock /\ recent' = recent

LEMMA IdleKept ==
  ASSUME DeliveryInv, Monotone, NEW d \in Clients, Idles(d)
  PROVE  ClientOK(d)' /\ Truthful(d)' /\ Recorded(d)' /\ Retried(d)'
<1> DEFINE j == job[d]
<1>1. ClientOK(d) /\ Truthful(d) /\ Recorded(d) /\ Retried(d)
  BY DEF DeliveryInv
<1>2. pc[d] # "idle" => job[d] \in Jobs /\ (Ended(job[d]) => state'[job[d]] = state[job[d]])
  BY <1>1 DEF ClientOK, Monotone, JobsMove
<1>3. "none" \notin Contents /\ "cancelled" \in Life!Ended
  BY DeliveryAssumption DEF Life!Ended
<1>4. ClientOK(d)'
  BY <1>1, <1>2 DEF ClientOK, Idles, Ended, Monotone
<1>5. Truthful(d)'
  <2>1. CASE pc[d] = "idle"
    BY <1>1, <1>3, <2>1 DEF ClientOK, Truthful, Idles
  <2>2. CASE pc[d] # "idle"
    <3>1. ASSUME answer[d] \in Contents
          PROVE  Ended(job[d])' /\ answer'[d] = snapshot'[job'[d]]
      <4>1. Ended(job[d]) /\ snapshot[job[d]] # "none" /\ answer[d] = snapshot[job[d]]
        BY <1>1, <1>3, <3>1 DEF Truthful
      <4>2. snapshot'[job[d]] = snapshot[job[d]] /\ state'[job[d]] = state[job[d]]
        BY <1>2, <2>2, <4>1 DEF Monotone
      <4>3. QED
        BY <4>1, <4>2 DEF Idles, Ended
    <3>2. ASSUME answer[d] = "cancelled" PROVE state'[job'[d]] = "cancelled"
      BY <1>1, <1>2, <1>3, <2>2, <3>2 DEF Truthful, Idles, Ended
    <3>3. QED
      BY <3>1, <3>2 DEF Truthful, Idles
  <2>3. QED
    BY <2>1, <2>2
<1>6. Recorded(d)'
  BY <1>1 DEF Recorded, Idles, Monotone
<1>7. Retried(d)'
  <2>1. CASE pc[d] = "idle"
    BY <1>1, <2>1 DEF ClientOK, Retried, Idles
  <2>2. CASE pc[d] # "idle"
    BY <1>1, <1>2, <2>2 DEF Retried, Idles, Ended, Monotone
  <2>3. QED
    BY <2>1, <2>2
<1>8. QED
  BY <1>4, <1>5, <1>6, <1>7

ActorOK(c) == ClientOK(c) /\ Truthful(c) /\ Recorded(c) /\ Retried(c)

\* It is enough to look at the client that takes the step.
LEMMA InvStep ==
  ASSUME DeliveryInv, Monotone, DeliveryTypeOK', ListOK',
         NEW c \in Clients, ActorOK(c)', \A d \in Clients \ {c} : Idles(d)
  PROVE  DeliveryInv'
<1>1. ASSUME NEW d \in Clients PROVE ClientOK(d)' /\ Truthful(d)' /\ Recorded(d)' /\ Retried(d)'
  <2>1. CASE d = c
    BY <2>1 DEF ActorOK
  <2>2. CASE d # c
    BY <2>2, IdleKept
  <2>3. QED
    BY <2>1, <2>2
<1>2. QED
  BY <1>1 DEF DeliveryInv, Monotone, JobsMove

LEMMA SameJobs ==
  ASSUME DeliveryInv, UNCHANGED <<state, role, snapshot>>, kept \subseteq kept'
  PROVE  Monotone
BY DEF DeliveryInv, Monotone, JobsMove

\* A transition of the lifecycle starts from a job that is not over.
LEMMA MoveStep ==
  ASSUME DeliveryInv, NEW j \in Jobs, NEW s \in States, ~Ended(j),
         state' = [state EXCEPT ![j] = s]
  PROVE  JobsMove
<1>1. state \in [Jobs -> States]
  BY DEF DeliveryInv
<1>2. QED
  BY <1>1 DEF JobsMove

LEMMA LifeSteps ==
  ASSUME DeliveryInv, NEW j \in Jobs,
         \/ Life!Admit(j) \/ Life!Start(j) \/ JobEnds(j) \/ Life!Cancel(j)
         \/ SubmitNew(j)
  PROVE  JobsMove
<1> USE DEF Life!Moves, Life!End, Life!Started, Life!Open, Life!InSlot, Life!Ended
<1>1. /\ "starting" \in States /\ "running" \in States /\ "queued" \in States
      /\ "succeeded" \in States /\ "lost" \in States /\ "cancelled" \in States
  BY DEF States
<1>2. CASE Life!Admit(j)
  BY <1>1, <1>2, MoveStep DEF Life!Admit, Ended
<1>3. CASE Life!Start(j)
  BY <1>1, <1>3, MoveStep DEF Life!Start, Ended
<1>4. CASE JobEnds(j)
  BY <1>1, <1>4, MoveStep DEF JobEnds, Life!Succeed, Life!Lose, Ended
<1>5. CASE Life!Cancel(j)
  BY <1>1, <1>5, MoveStep DEF Life!Cancel, Ended
<1>6. CASE SubmitNew(j)
  BY <1>1, <1>6, MoveStep DEF SubmitNew, Life!SubmitDirect, Life!SubmitQueued, Ended
<1>7. QED
  BY <1>2, <1>3, <1>4, <1>5, <1>6

\* What is stored belongs to a job that stays over.
LEMMA StoredStays ==
  ASSUME DeliveryInv, JobsMove, snapshot' = snapshot
  PROVE  \A j \in Jobs : snapshot'[j] # "none" => state'[j] \in Life!Ended
BY DEF DeliveryInv, DeliveryTypeOK, JobsMove, Ended

-----------------------------------------------------------------------------
(* The steps of the world. *)

LEMMA WorldStep ==
  ASSUME DeliveryInv, Monotone, DeliveryTypeOK', UNCHANGED <<list, client>>
  PROVE  DeliveryInv'
<1>1. ASSUME NEW d \in Clients PROVE ClientOK(d)' /\ Truthful(d)' /\ Recorded(d)' /\ Retried(d)'
  BY IdleKept DEF Idles, list, client
<1>2. ListOK'
  BY DEF DeliveryInv, ListOK, list
<1>3. QED
  BY <1>1, <1>2 DEF DeliveryInv, Monotone, JobsMove

LEMMA JobProceedsInv ==
  ASSUME DeliveryInv, NEW j \in Jobs, JobProceeds(j)
  PROVE  DeliveryInv'
<1>1. JobsMove
  BY LifeSteps DEF JobProceeds
<1>2. Monotone
  BY <1>1 DEF JobProceeds, Monotone, world, list
<1>3. DeliveryTypeOK'
  BY <1>1, StoredStays DEF JobProceeds, DeliveryInv, DeliveryTypeOK, world, list, client
<1>4. QED
  BY <1>2, <1>3, WorldStep DEF JobProceeds

LEMMA HostInv ==
  ASSUME DeliveryInv, HostLost \/ HostBack
  PROVE  DeliveryInv'
<1>1. UNCHANGED <<jobs, snapshot, list, role, client>>
  BY DEF HostLost, HostBack
<1>2. Monotone
  BY <1>1, SameJobs DEF jobs, list
<1>3. faults' \in 0..MaxFaults
  <2>1. faults \in 0..MaxFaults /\ MaxFaults \in Nat
    BY DeliveryAssumption DEF DeliveryInv, DeliveryTypeOK
  <2>2. faults' = faults \/ (faults < MaxFaults /\ faults' = faults + 1)
    BY DEF HostLost, HostBack
  <2>3. QED
    BY <2>1, <2>2
<1>4. up' \in BOOLEAN /\ expired' = expired
  BY DEF HostLost, HostBack
<1>5. DeliveryTypeOK'
  BY <1>1, <1>3, <1>4 DEF DeliveryInv, DeliveryTypeOK, jobs, list, client
<1>6. QED
  BY <1>1, <1>2, <1>5, WorldStep

LEMMA ExpireInv ==
  ASSUME DeliveryInv, NEW j \in Jobs, Expire(j)
  PROVE  DeliveryInv'
<1>1. UNCHANGED <<jobs, snapshot, up, faults, list, role, client>> /\ expired' \subseteq Jobs
  BY DEF Expire, DeliveryInv, DeliveryTypeOK
<1>2. Monotone
  BY <1>1, SameJobs DEF jobs, list
<1>3. DeliveryTypeOK'
  BY <1>1 DEF DeliveryInv, DeliveryTypeOK, jobs, list, client
<1>4. QED
  BY <1>1, <1>2, <1>3, WorldStep

-----------------------------------------------------------------------------
(* The steps of the clients. *)

\* What a client is and has.
LEMMA ClientFacts ==
  ASSUME DeliveryInv, NEW c \in Clients
  PROVE  /\ role[c].name \in RoleNames /\ role[c].job \in Jobs
         /\ pc[c] # "idle" => job[c] \in Jobs
         /\ ActorOK(c)
         /\ "none" \notin Contents /\ Contents \cap Told = {}
<1>1. role \in [Clients -> [name : RoleNames, job : Jobs]]
  BY DeliveryAssumption DEF DeliveryInv, DeliveryTypeOK
<1>2. ActorOK(c)
  BY DEF DeliveryInv, ActorOK
<1>3. "none" \notin Contents
  BY DeliveryAssumption
<1>4. Contents \cap Told = {}
  BY DeliveryAssumption DEF Told
<1>5. QED
  BY <1>1, <1>2, <1>3, <1>4 DEF ActorOK, ClientOK

\* A client moves on, and may be told something; the list is not touched.
LEMMA ClientMoves ==
  ASSUME DeliveryInv, NEW c \in Clients, JobsMove,
         UNCHANGED <<world, list, role, draft, found>>, lock # c,
         NEW p \in {"record", "handle", "get", "look", "collect", "save", "done"},
         pc' = [pc EXCEPT ![c] = p],
         NEW a \in Contents \cup Told \cup {"none"}, answer' = [answer EXCEPT ![c] = a],
         NEW j \in Jobs, job' = [job EXCEPT ![c] = j],
         ActorOK(c)'
  PROVE  DeliveryInv'
<1>1. Monotone
  BY DEF Monotone, world, list
<1>2. ASSUME NEW d \in Clients \ {c} PROVE Idles(d)
  BY <1>1 DEF DeliveryInv, DeliveryTypeOK, Idles, list
<1>3. DeliveryTypeOK'
  <2>1. lock # NoClient => pc'[lock] = "write"
    BY DEF DeliveryInv, DeliveryTypeOK
  <2>2. \A k \in Jobs : snapshot'[k] # "none" => state'[k] \in Life!Ended
    BY StoredStays DEF world
  <2>3. /\ pc' \in [Clients -> {"idle", "record", "write", "handle", "get", "look", "collect",
                               "save", "done", "dead"}]
        /\ job' \in [Clients -> Jobs \cup {NoJob}]
        /\ answer' \in [Clients -> Contents \cup Told \cup {"none"}]
    BY DEF DeliveryInv, DeliveryTypeOK
  <2>4. QED
    BY <2>1, <2>2, <2>3 DEF DeliveryInv, DeliveryTypeOK, world, list
<1>4. ListOK'
  BY DEF DeliveryInv, ListOK, list
<1>5. QED
  BY <1>1, <1>2, <1>3, <1>4, InvStep

\* Nobody but the holder of the lock is writing.
LEMMA NotLocked ==
  ASSUME DeliveryInv, NEW c \in Clients, pc[c] # "write"
  PROVE  lock # c
<1>1. c # NoClient
  BY DeliveryAssumption
<1>2. QED
  BY <1>1 DEF DeliveryInv, DeliveryTypeOK

LEMMA SubmitInv ==
  ASSUME DeliveryInv, NEW c \in Clients, Submit(c)
  PROVE  DeliveryInv'
<1> DEFINE p == FirstStep(role[c].name)
<1>1. /\ pc[c] = "idle" /\ pc' = [pc EXCEPT ![c] = p]
      /\ role[c].name \in Submitters
      /\ job' = [job EXCEPT ![c] = role[c].job]
      /\ UNCHANGED <<world, list, role, draft, found, answer>>
  BY DEF Submit, Goes
<1>2. /\ role[c].job \in Jobs /\ answer[c] = "none" /\ lock # c
      /\ "none" \notin Contents
  BY <1>1, ClientFacts, NotLocked DEF ActorOK, ClientOK
<1>3. JobsMove
  <2>1. CASE state[role[c].job] = "absent"
    BY <1>2, <2>1, LifeSteps DEF Submit
  <2>2. CASE state[role[c].job] # "absent"
    BY <2>2 DEF Submit, jobs, JobsMove, DeliveryInv
  <2>3. QED
    BY <2>1, <2>2
<1>4. /\ p \in {"record", "handle", "look"}
      /\ p = "handle" => role[c].name = "task"
      /\ p = "look" => role[c].name # "run"
  BY DEF FirstStep
<1> HIDE DEF p
<1>5. pc'[c] = p /\ job'[c] = role[c].job /\ answer' = [answer EXCEPT ![c] = "none"]
  BY <1>1, <1>2 DEF DeliveryInv, DeliveryTypeOK
<1>6. ActorOK(c)'
  BY <1>1, <1>2, <1>4, <1>5 DEF ActorOK, ClientOK, Truthful, Recorded, Retried
<1>7. QED
  BY <1>1, <1>2, <1>3, <1>4, <1>5, <1>6, ClientMoves

LEMMA AskInv ==
  ASSUME DeliveryInv, NEW c \in Clients, Ask(c)
  PROVE  DeliveryInv'
<1>1. /\ pc[c] = "idle" /\ pc' = [pc EXCEPT ![c] = "look"] /\ role[c].name = "wait"
      /\ job' = [job EXCEPT ![c] = role[c].job]
      /\ UNCHANGED <<jobs, world, list, role, draft, found, answer>>
  BY DEF Ask, Goes
<1>2. /\ role[c].job \in Jobs /\ answer[c] = "none" /\ lock # c
      /\ "none" \notin Contents
  BY <1>1, ClientFacts, NotLocked DEF ActorOK, ClientOK
<1>3. JobsMove
  BY <1>1 DEF jobs, JobsMove, DeliveryInv
<1>4. pc'[c] = "look" /\ job'[c] = role[c].job /\ answer' = [answer EXCEPT ![c] = "none"]
  BY <1>1, <1>2 DEF DeliveryInv, DeliveryTypeOK
<1>5. ActorOK(c)'
  BY <1>1, <1>2, <1>4 DEF ActorOK, ClientOK, Truthful, Recorded, Retried
<1>6. QED
  BY <1>1, <1>2, <1>3, <1>4, <1>5, ClientMoves

LEMMA RecoverInv ==
  ASSUME DeliveryInv, NEW c \in Clients, Recover(c)
  PROVE  DeliveryInv'
<1>1. PICK i \in DOMAIN recent :
        /\ job' = [job EXCEPT ![c] = recent[i]]
        /\ IF StatusFails(recent[i]) THEN Goes(c, "idle", "done") /\ Tells(c, "error")
                                     ELSE Goes(c, "idle", "look") /\ UNCHANGED answer
  BY DEF Recover
<1>2. /\ pc[c] = "idle" /\ role[c].name = "recover"
      /\ UNCHANGED <<jobs, world, list, role, draft, found>>
  BY <1>1 DEF Recover, Goes
<1>3. recent[i] \in Jobs
  BY DEF DeliveryInv, DeliveryTypeOK
<1>4. PICK j \in Jobs : j = recent[i]
  BY <1>3
<1>5. /\ answer[c] = "none" /\ lock # c /\ "none" \notin Contents /\ "error" \notin Contents
  BY <1>2, ClientFacts, NotLocked, DeliveryAssumption DEF ActorOK, ClientOK
<1>6. JobsMove
  BY <1>2 DEF jobs, JobsMove, DeliveryInv
<1>7. PICK p \in {"done", "look"}, a \in {"error", "none"} :
        pc' = [pc EXCEPT ![c] = p] /\ answer' = [answer EXCEPT ![c] = a]
  <2>1. answer = [answer EXCEPT ![c] = "none"]
    BY <1>5 DEF DeliveryInv, DeliveryTypeOK
  <2>2. QED
    BY <1>1, <2>1 DEF Goes, Tells
<1>8. pc'[c] = p /\ job'[c] = j /\ answer'[c] = a
  BY <1>1, <1>4, <1>7 DEF DeliveryInv, DeliveryTypeOK
<1>9. ActorOK(c)'
  BY <1>2, <1>5, <1>7, <1>8 DEF ActorOK, ClientOK, Truthful, Recorded, Retried, Adaptive
<1>10. a \in Contents \cup Told \cup {"none"} /\ job' = [job EXCEPT ![c] = j]
  BY <1>1, <1>4, <1>7 DEF Told
<1>11. QED
  BY <1>2, <1>5, <1>6, <1>7, <1>9, <1>10, ClientMoves

LEMMA CancelTaskInv ==
  ASSUME DeliveryInv, NEW c \in Clients, CancelTask(c)
  PROVE  DeliveryInv'
<1>1. /\ pc[c] = "idle" /\ pc' = [pc EXCEPT ![c] = "done"] /\ role[c].name = "cancel"
      /\ job' = [job EXCEPT ![c] = role[c].job]
      /\ UNCHANGED <<world, list, role, draft, found>>
  BY DEF CancelTask, Goes
<1>2. PICK a \in {"expired", "error", "acked"} :
        /\ Tells(c, a)
        /\ UNCHANGED jobs \/ Life!Cancel(role[c].job)
  BY DEF CancelTask
<1>3. /\ role[c].job \in Jobs /\ lock # c /\ a \notin Contents /\ a \in Told
  BY <1>1, ClientFacts, NotLocked, DeliveryAssumption DEF Told
<1>4. JobsMove
  <2>1. CASE UNCHANGED jobs
    BY <2>1 DEF jobs, JobsMove, DeliveryInv
  <2>2. CASE Life!Cancel(role[c].job)
    BY <1>3, <2>2, LifeSteps
  <2>3. QED
    BY <1>2, <2>1, <2>2
<1>5. pc'[c] = "done" /\ job'[c] = role[c].job /\ answer' = [answer EXCEPT ![c] = a] /\ answer'[c] = a
  BY <1>1, <1>2 DEF DeliveryInv, DeliveryTypeOK, Tells
<1>6. ActorOK(c)'
  BY <1>1, <1>2, <1>3, <1>5 DEF ActorOK, ClientOK, Truthful, Recorded, Retried, Adaptive
<1>7. QED
  BY <1>1, <1>3, <1>4, <1>5, <1>6, ClientMoves

\* A client that has its job learns nothing of the world but what it is told.
LEMMA ClientSteps ==
  ASSUME DeliveryInv, NEW c \in Clients, UNCHANGED <<jobs, world, list, role, job, draft, found>>,
         pc[c] \notin {"idle", "write"},
         NEW p \in {"record", "handle", "get", "look", "collect", "save", "done"},
         pc' = [pc EXCEPT ![c] = p],
         NEW a \in Contents \cup Told \cup {"none"}, answer' = [answer EXCEPT ![c] = a],
         ActorOK(c)'
  PROVE  DeliveryInv'
<1>1. PICK j \in Jobs : j = job[c]
  BY ClientFacts
<1>2. job' = [job EXCEPT ![c] = j]
  BY <1>1 DEF DeliveryInv, DeliveryTypeOK
<1>3. JobsMove
  BY DEF jobs, JobsMove, DeliveryInv
<1>4. lock # c
  BY NotLocked
<1>5. QED
  BY <1>2, <1>3, <1>4, ClientMoves

LEMMA DetachInv ==
  ASSUME DeliveryInv, NEW c \in Clients, Detach(c)
  PROVE  DeliveryInv'
<1>1. /\ pc[c] = "look" /\ pc' = [pc EXCEPT ![c] = "record"]
      /\ answer' = [answer EXCEPT ![c] = "pending"]
      /\ UNCHANGED <<jobs, world, list, role, job, draft, found>>
  BY DEF Detach, Goes, Tells
<1>2. pc'[c] = "record" /\ answer'[c] = "pending" /\ job'[c] = job[c] /\ job[c] \in Jobs
      /\ "pending" \notin Contents /\ "pending" \in Told
  BY <1>1, ClientFacts, DeliveryAssumption DEF DeliveryInv, DeliveryTypeOK, Told
<1>3. ActorOK(c)'
  BY <1>2 DEF ActorOK, ClientOK, Truthful, Recorded, Retried
<1>4. QED
  BY <1>1, <1>2, <1>3, ClientSteps

LEMMA TimesOutInv ==
  ASSUME DeliveryInv, NEW c \in Clients, TimesOut(c)
  PROVE  DeliveryInv'
<1>1. /\ pc[c] = "look" /\ pc' = [pc EXCEPT ![c] = "done"]
      /\ role[c].name \in {"wait", "recover"}
      /\ answer' = [answer EXCEPT ![c] = "pending"]
      /\ UNCHANGED <<jobs, world, list, role, job, draft, found>>
  BY DEF TimesOut, Goes, Tells
<1>2. pc'[c] = "done" /\ answer'[c] = "pending" /\ job'[c] = job[c] /\ job[c] \in Jobs
      /\ "pending" \notin Contents /\ "pending" \in Told
  BY <1>1, ClientFacts, DeliveryAssumption DEF DeliveryInv, DeliveryTypeOK, Told
<1>3. ActorOK(c)'
  BY <1>1, <1>2 DEF ActorOK, ClientOK, Truthful, Recorded, Retried, Adaptive
<1>4. QED
  BY <1>1, <1>2, <1>3, ClientSteps

LEMMA LookInv ==
  ASSUME DeliveryInv, NEW c \in Clients, Look(c)
  PROVE  DeliveryInv'
<1>1. pc[c] = "look" /\ UNCHANGED <<jobs, world, list, role, job, draft, found>>
  BY DEF Look
<1>2. /\ job'[c] = job[c] /\ job[c] \in Jobs /\ role'[c] = role[c] /\ ActorOK(c)
      /\ "error" \notin Contents /\ "cancelled" \notin Contents
  BY <1>1, ClientFacts, DeliveryAssumption
<1>3. UNCHANGED <<state, snapshot, kept>>
  BY <1>1 DEF jobs, world, list
<1>4. CASE GivesUp(c) /\ Goes(c, "look", "done") /\ Tells(c, "error")
  <2>1. /\ pc' = [pc EXCEPT ![c] = "done"] /\ answer' = [answer EXCEPT ![c] = "error"]
        /\ role[c].name = "task" /\ "error" \in Told
    BY <1>4 DEF Goes, Tells, GivesUp, Told
  <2>2. pc'[c] = "done" /\ answer'[c] = "error"
    BY <2>1 DEF DeliveryInv, DeliveryTypeOK
  <2>3. ActorOK(c)'
    BY <1>2, <2>1, <2>2 DEF ActorOK, ClientOK, Truthful, Recorded, Retried, Adaptive
  <2>4. QED
    BY <1>1, <2>1, <2>3, ClientSteps
<1>5. CASE /\ Ended(job[c]) /\ role[c].name = "task" /\ state[job[c]] = "cancelled"
           /\ Goes(c, "look", "done") /\ Tells(c, "cancelled")
  <2>1. /\ pc' = [pc EXCEPT ![c] = "done"] /\ answer' = [answer EXCEPT ![c] = "cancelled"]
        /\ "cancelled" \in Told
    BY <1>5 DEF Goes, Tells, Told
  <2>2. pc'[c] = "done" /\ answer'[c] = "cancelled"
    BY <2>1 DEF DeliveryInv, DeliveryTypeOK
  <2>3. ActorOK(c)'
    BY <1>2, <1>3, <1>5, <2>1, <2>2 DEF ActorOK, ClientOK, Truthful, Recorded, Retried, Adaptive
  <2>4. QED
    BY <1>1, <2>1, <2>3, ClientSteps
<1>6. ASSUME NEW p \in {"collect", "get"},
             p = "collect" => Ended(job[c]), p = "get" => role[c].name = "task",
             Goes(c, "look", p), UNCHANGED answer
      PROVE  DeliveryInv'
  <2>1. PICK a \in Contents \cup Told \cup {"none"} : a = answer[c]
    BY DEF DeliveryInv, DeliveryTypeOK
  <2>2. /\ pc' = [pc EXCEPT ![c] = p] /\ answer' = [answer EXCEPT ![c] = a]
        /\ pc'[c] = p /\ answer'[c] = answer[c]
    BY <1>6, <2>1 DEF Goes, DeliveryInv, DeliveryTypeOK
  <2>3. ClientOK(c)'
    BY <1>2, <1>3, <1>6, <2>2 DEF ClientOK, Ended
  <2>4. Truthful(c)' /\ Retried(c)'
    BY <1>2, <1>3, <2>2 DEF ActorOK, Truthful, Retried, Ended
  <2>5. Recorded(c)'
    BY <1>1, <1>2, <1>3, <1>6, <2>2 DEF ActorOK, Recorded
  <2>6. QED
    BY <1>1, <1>6, <2>2, <2>3, <2>4, <2>5, ClientSteps DEF ActorOK
<1>7. QED
  BY <1>4, <1>5, <1>6 DEF Look, Resolves

LEMMA HandleInv ==
  ASSUME DeliveryInv, NEW c \in Clients, CreateTask(c) \/ GetTask(c)
  PROVE  DeliveryInv'
<1>1. PICK from \in {"handle", "get"}, to \in {"get", "look"} : Handle(c, from, to)
  BY DEF CreateTask, GetTask
<1>2. /\ pc[c] \in {"handle", "get"} /\ role[c].name = "task"
      /\ UNCHANGED <<jobs, world, list, role, job, draft, found>>
  BY <1>1, ClientFacts DEF Handle, ActorOK, ClientOK
<1>3. /\ job'[c] = job[c] /\ job[c] \in Jobs /\ ActorOK(c)
      /\ "expired" \notin Contents /\ "expired" \in Told
  BY <1>2, ClientFacts, DeliveryAssumption DEF Told
<1>4. UNCHANGED <<state, snapshot, kept>>
  BY <1>2 DEF jobs, world, list
<1>5. PICK p \in {"get", "look", "done"}, a \in {"expired", answer[c]} :
        pc' = [pc EXCEPT ![c] = p] /\ answer' = [answer EXCEPT ![c] = a]
  <2>1. answer = [answer EXCEPT ![c] = answer[c]]
    BY DEF DeliveryInv, DeliveryTypeOK
  <2>2. QED
    BY <1>1, <2>1 DEF Handle, Goes, Tells
<1>6. pc'[c] = p /\ answer'[c] = a /\ a \in Contents \cup Told \cup {"none"}
  BY <1>3, <1>5 DEF DeliveryInv, DeliveryTypeOK
<1>7. ActorOK(c)'
  BY <1>2, <1>3, <1>4, <1>5, <1>6 DEF ActorOK, ClientOK, Truthful, Recorded, Retried, Adaptive, Ended
<1>8. QED
  BY <1>2, <1>5, <1>6, <1>7, ClientSteps

LEMMA CollectInv ==
  ASSUME DeliveryInv, NEW c \in Clients, Collect(c)
  PROVE  DeliveryInv'
<1>1. pc[c] = "collect" /\ UNCHANGED <<jobs, world, list, role, job, draft>>
  BY DEF Collect
<1>2. /\ job'[c] = job[c] /\ job[c] \in Jobs /\ role'[c] = role[c] /\ ActorOK(c)
      /\ Ended(job[c]) /\ "error" \notin Contents /\ "pending" \notin Contents
      /\ "cancelled" \notin Contents /\ "none" \notin Contents
  BY <1>1, ClientFacts, DeliveryAssumption DEF ActorOK, ClientOK
<1>3. UNCHANGED <<state, snapshot, kept>> /\ Ended(job[c])'
  BY <1>1, <1>2 DEF jobs, world, list, Ended
<1>4. ASSUME UNCHANGED found,
             NEW a, Goes(c, "collect", "done") /\ Tells(c, a),
             a = "error" \/ (a = snapshot[job[c]] /\ snapshot[job[c]] # "none")
      PROVE  DeliveryInv'
  <2>1. a \in Contents \cup {"error"} /\ a \in Contents \cup Told \cup {"none"}
    BY <1>2, <1>4 DEF DeliveryInv, DeliveryTypeOK, Told
  <2>2. /\ pc' = [pc EXCEPT ![c] = "done"] /\ answer' = [answer EXCEPT ![c] = a]
        /\ pc'[c] = "done" /\ answer'[c] = a
    BY <1>4 DEF Goes, Tells, DeliveryInv, DeliveryTypeOK
  <2>3. ClientOK(c)' /\ Retried(c)'
    BY <1>2, <1>3, <2>2 DEF ClientOK, Retried
  <2>4. Truthful(c)'
    BY <1>2, <1>3, <1>4, <2>1, <2>2 DEF Truthful
  <2>5. Recorded(c)'
    BY <1>1, <1>2, <1>3, <2>1, <2>2 DEF ActorOK, Recorded
  <2>6. QED
    BY <1>1, <1>4, <2>1, <2>2, <2>3, <2>4, <2>5, ClientSteps DEF ActorOK
<1>5. ASSUME NEW x \in Contents, found' = [found EXCEPT ![c] = x],
             Goes(c, "collect", "save"), UNCHANGED answer
      PROVE  DeliveryInv'
  <2>1. /\ pc' = [pc EXCEPT ![c] = "save"] /\ pc'[c] = "save" /\ found'[c] = x
        /\ answer'[c] = answer[c]
    BY <1>5 DEF Goes, DeliveryInv, DeliveryTypeOK
  <2>2. Monotone
    BY <1>1, SameJobs DEF jobs, world, list
  <2>3. ASSUME NEW d \in Clients \ {c} PROVE Idles(d)
    BY <1>1, <1>5, <2>1 DEF DeliveryInv, DeliveryTypeOK, Idles, list
  <2>4. DeliveryTypeOK'
    <3>1. lock # c
      BY <1>1, NotLocked
    <3>2. lock # NoClient => pc'[lock] = "write"
      BY <2>1, <3>1 DEF DeliveryInv, DeliveryTypeOK
    <3>3. found' \in [Clients -> Contents \cup {"none"}]
      BY <1>5 DEF DeliveryInv, DeliveryTypeOK
    <3>4. pc' \in [Clients -> {"idle", "record", "write", "handle", "get", "look", "collect",
                              "save", "done", "dead"}]
      BY <2>1 DEF DeliveryInv, DeliveryTypeOK
    <3>5. QED
      BY <1>1, <1>5, <3>2, <3>3, <3>4 DEF DeliveryInv, DeliveryTypeOK, jobs, world, list
  <2>5. ListOK'
    BY <1>1 DEF DeliveryInv, ListOK, list
  <2>6. ClientOK(c)'
    BY <1>2, <1>3, <2>1 DEF ClientOK
  <2>7. Truthful(c)' /\ Retried(c)'
    BY <1>2, <1>3, <2>1 DEF ActorOK, Truthful, Retried, Ended
  <2>8. Recorded(c)'
    BY <1>1, <1>2, <1>3, <2>1 DEF ActorOK, Recorded
  <2>9. QED
    BY <2>2, <2>3, <2>4, <2>5, <2>6, <2>7, <2>8, InvStep DEF ActorOK
<1>6. QED
  BY <1>4, <1>5 DEF Collect

LEMMA SaveInv ==
  ASSUME DeliveryInv, NEW c \in Clients, Save(c)
  PROVE  DeliveryInv'
<1>1. /\ pc[c] = "save" /\ pc' = [pc EXCEPT ![c] = "done"]
      /\ snapshot' = [snapshot EXCEPT ![job[c]] = Stored(@, found[c])]
      /\ answer' = [answer EXCEPT ![c] = snapshot'[job[c]]]
      /\ found' = [found EXCEPT ![c] = "none"]
      /\ UNCHANGED <<jobs, expired, up, faults, list, role, job, draft>>
  BY DEF Save, Goes, Tells
<1>2. /\ job'[c] = job[c] /\ job[c] \in Jobs /\ role'[c] = role[c] /\ ActorOK(c)
      /\ Ended(job[c]) /\ found[c] \in Contents /\ "error" \notin Contents
      /\ "pending" \notin Contents /\ "cancelled" \notin Contents /\ "none" \notin Contents
  BY <1>1, ClientFacts, DeliveryAssumption DEF ActorOK, ClientOK
<1>3. UNCHANGED <<state, kept>> /\ Ended(job[c])'
  BY <1>1, <1>2 DEF jobs, list, Ended
<1>4. /\ snapshot' \in [Jobs -> Contents \cup {"none"}]
      /\ snapshot'[job[c]] \in Contents
      /\ \A j \in Jobs : snapshot[j] # "none" => snapshot'[j] = snapshot[j]
      /\ \A j \in Jobs : snapshot'[j] # "none" => Ended(j)
  BY <1>1, <1>2 DEF Stored, DeliveryInv, DeliveryTypeOK, Ended
<1>5. pc'[c] = "done" /\ answer'[c] = snapshot'[job[c]]
  BY <1>1 DEF DeliveryInv, DeliveryTypeOK
<1>6. Monotone
  BY <1>1, <1>3, <1>4 DEF Monotone, JobsMove, DeliveryInv
<1>7. ASSUME NEW d \in Clients \ {c} PROVE Idles(d)
  BY <1>1 DEF DeliveryInv, DeliveryTypeOK, Idles, list
<1>8. DeliveryTypeOK'
  <2>1. lock # c
    BY <1>1, NotLocked
  <2>2. lock # NoClient => pc'[lock] = "write"
    BY <1>1, <2>1 DEF DeliveryInv, DeliveryTypeOK
  <2>3. /\ found' \in [Clients -> Contents \cup {"none"}]
        /\ answer' \in [Clients -> Contents \cup Told \cup {"none"}]
        /\ pc' \in [Clients -> {"idle", "record", "write", "handle", "get", "look", "collect",
                               "save", "done", "dead"}]
    BY <1>1, <1>4 DEF DeliveryInv, DeliveryTypeOK
  <2>4. QED
    BY <1>1, <1>3, <1>4, <2>2, <2>3 DEF DeliveryInv, DeliveryTypeOK, list, Ended
<1>9. ListOK'
  BY <1>1 DEF DeliveryInv, ListOK, list
<1>10. ActorOK(c)'
  BY <1>1, <1>2, <1>3, <1>4, <1>5 DEF ActorOK, ClientOK, Truthful, Recorded, Retried
<1>11. QED
  BY <1>6, <1>7, <1>8, <1>9, <1>10, InvStep

LEMMA RecordInv ==
  ASSUME DeliveryInv, NEW c \in Clients, Record(c)
  PROVE  DeliveryInv'
<1>1. /\ lock = NoClient /\ lock' = c
      /\ pc[c] = "record" /\ pc' = [pc EXCEPT ![c] = "write"]
      /\ draft' = [draft EXCEPT ![c] = recent]
      /\ UNCHANGED <<jobs, world, recent, kept, role, job, found, answer>>
  BY DEF Record, Goes, LockFree
<1>2. /\ job'[c] = job[c] /\ job[c] \in Jobs /\ ActorOK(c) /\ c # NoClient
      /\ pc'[c] = "write" /\ draft'[c] = recent
  BY <1>1, ClientFacts, DeliveryAssumption DEF DeliveryInv, DeliveryTypeOK
<1>3. UNCHANGED <<state, snapshot>>
  BY <1>1 DEF jobs, world
<1>4. Monotone
  BY <1>1, <1>3, SameJobs
<1>5. ASSUME NEW d \in Clients \ {c} PROVE Idles(d)
  <2>1. pc[d] # "write"
    BY <1>1, DeliveryAssumption DEF DeliveryInv, ClientOK
  <2>2. QED
    BY <1>1, <2>1 DEF DeliveryInv, DeliveryTypeOK, Idles
<1>6. DeliveryTypeOK'
  <2>1. /\ pc' \in [Clients -> {"idle", "record", "write", "handle", "get", "look", "collect",
                               "save", "done", "dead"}]
        /\ draft' \in [Clients -> Seq(Jobs)]
        /\ lock' \in Clients
    BY <1>1 DEF DeliveryInv, DeliveryTypeOK
  <2>2. QED
    BY <1>1, <1>2, <2>1 DEF DeliveryInv, DeliveryTypeOK, jobs, world
<1>7. ListOK'
  BY <1>1 DEF DeliveryInv, ListOK
<1>8. ActorOK(c)'
  BY <1>1, <1>2, <1>3 DEF ActorOK, ClientOK, Truthful, Recorded, Retried, Ended
<1>9. QED
  BY <1>4, <1>5, <1>6, <1>7, <1>8, InvStep

\* The writer replaces the list it read.
LEMMA WriteInv ==
  ASSUME DeliveryInv, NEW c \in Clients, Write(c)
  PROVE  DeliveryInv'
<1> DEFINE p == IF answer[c] = "none" THEN "look" ELSE "done"
<1>1. /\ pc[c] = "write" /\ pc' = [pc EXCEPT ![c] = p]
      /\ recent' = Newest(<<job[c]>> \o Others(draft[c], job[c]))
      /\ kept' = kept \cup {job[c]}
      /\ lock' = NoClient
      /\ draft' = [draft EXCEPT ![c] = <<>>]
      /\ UNCHANGED <<jobs, world, role, job, found, answer>>
  BY DEF Write, Goes
<1>2. /\ job'[c] = job[c] /\ job[c] \in Jobs /\ ActorOK(c)
      /\ lock = c /\ draft[c] = recent /\ answer[c] \in {"none", "pending"}
      /\ pc'[c] = p /\ answer'[c] = answer[c]
  BY <1>1, ClientFacts DEF ActorOK, ClientOK, DeliveryInv, DeliveryTypeOK
<1>3. UNCHANGED <<state, snapshot>>
  BY <1>1 DEF jobs, world
<1>4. /\ recent' \in Seq(Jobs) /\ IsInjective(recent') /\ Len(recent') <= MaxRecent
      /\ job[c] \in ToSet(recent')
      /\ Len(recent') = MaxRecent \/ ToSet(recent') = ToSet(recent) \cup {job[c]}
      /\ Len(recent) = MaxRecent => Len(recent') = MaxRecent
  <2>1. IsList(recent)
    BY DEF DeliveryInv, DeliveryTypeOK, IsList
  <2>2. PICK j, s : j \in Jobs /\ j = job[c] /\ s = recent
    BY <1>2
  <2>3. IsList(s) /\ recent' = Newest(<<j>> \o Others(s, j))
    BY <1>1, <1>2, <2>1, <2>2
  <2>4. Updates(s, j, recent')
    BY <2>2, <2>3, WrittenList
  <2>5. QED
    BY <2>2, <2>4 DEF IsList, Updates
<1>5. Monotone
  BY <1>1, <1>3, SameJobs
<1>6. ASSUME NEW d \in Clients \ {c} PROVE Idles(d)
  <2>1. pc[d] # "write"
    BY <1>2 DEF DeliveryInv, ClientOK
  <2>2. QED
    BY <1>1, <2>1 DEF DeliveryInv, DeliveryTypeOK, Idles
<1>7. DeliveryTypeOK'
  <2>1. <<>> \in Seq(Jobs)
    OBVIOUS
  <2>2. /\ pc' \in [Clients -> {"idle", "record", "write", "handle", "get", "look", "collect",
                               "save", "done", "dead"}]
        /\ draft' \in [Clients -> Seq(Jobs)]
        /\ kept' \subseteq Jobs
    BY <1>1, <1>2, <2>1 DEF DeliveryInv, DeliveryTypeOK
  <2>3. QED
    BY <1>1, <1>4, <2>2 DEF DeliveryInv, DeliveryTypeOK, jobs, world
<1>8. ListOK'
  BY <1>1, <1>4 DEF DeliveryInv, ListOK
<1>9. ActorOK(c)'
  BY <1>1, <1>2, <1>3 DEF ActorOK, ClientOK, Truthful, Recorded, Retried, Ended
<1>10. QED
  BY <1>5, <1>6, <1>7, <1>8, <1>9, InvStep

LEMMA DiesInv ==
  ASSUME DeliveryInv, NEW c \in Clients, Dies(c)
  PROVE  DeliveryInv'
<1>1. /\ pc[c] \notin {"idle", "done", "dead"} /\ pc' = [pc EXCEPT ![c] = "dead"]
      /\ faults < MaxFaults /\ faults' = faults + 1
      /\ lock' = IF lock = c THEN NoClient ELSE lock
      /\ UNCHANGED <<jobs, snapshot, expired, up, recent, kept, role, job, draft, found, answer>>
  BY DEF Dies
<1>2. /\ job'[c] = job[c] /\ job[c] \in Jobs /\ ActorOK(c)
      /\ pc'[c] = "dead" /\ answer'[c] = answer[c]
  BY <1>1, ClientFacts DEF DeliveryInv, DeliveryTypeOK
<1>3. state' = state
  BY <1>1 DEF jobs
<1>4. Monotone
  BY <1>1, <1>3, SameJobs
<1>5. ASSUME NEW d \in Clients \ {c} PROVE Idles(d)
  <2>1. pc[d] = "write" => lock = d
    BY DEF DeliveryInv, ClientOK
  <2>2. QED
    BY <1>1, <2>1 DEF DeliveryInv, DeliveryTypeOK, Idles
<1>6. DeliveryTypeOK'
  <2>1. faults' \in 0..MaxFaults
    BY <1>1, DeliveryAssumption DEF DeliveryInv, DeliveryTypeOK
  <2>2. /\ pc' \in [Clients -> {"idle", "record", "write", "handle", "get", "look", "collect",
                               "save", "done", "dead"}]
        /\ lock' \in Clients \cup {NoClient}
        /\ lock' # NoClient => pc'[lock'] = "write"
    BY <1>1 DEF DeliveryInv, DeliveryTypeOK
  <2>3. QED
    BY <1>1, <2>1, <2>2 DEF DeliveryInv, DeliveryTypeOK, jobs
<1>7. ListOK'
  BY <1>1 DEF DeliveryInv, ListOK
<1>8. ActorOK(c)'
  BY <1>1, <1>2, <1>3 DEF ActorOK, ClientOK, Truthful, Recorded, Retried, Ended
<1>9. QED
  BY <1>4, <1>5, <1>6, <1>7, <1>8, InvStep

-----------------------------------------------------------------------------
LEMMA NextInv == DeliveryInv /\ [Next]_vars => DeliveryInv'
<1> SUFFICES ASSUME DeliveryInv, [Next]_vars PROVE DeliveryInv'
  OBVIOUS
<1>1. CASE UNCHANGED vars
  <2>1. UNCHANGED <<state, world, list, role, client>>
    BY <1>1 DEF vars, jobs
  <2>2. Monotone
    BY <2>1, SameJobs DEF world, list
  <2>3. DeliveryTypeOK'
    BY <2>1 DEF DeliveryInv, DeliveryTypeOK, world, list, client
  <2>4. QED
    BY <2>1, <2>2, <2>3, WorldStep
<1>2. ASSUME NEW c \in Clients, Arrives(c) \/ ClientStep(c) \/ Dies(c) PROVE DeliveryInv'
  BY <1>2, SubmitInv, AskInv, RecoverInv, CancelTaskInv, RecordInv, WriteInv, HandleInv, LookInv,
     DetachInv, TimesOutInv, CollectInv, SaveInv, DiesInv
     DEF Arrives, ClientStep
<1>3. ASSUME NEW j \in Jobs, JobProceeds(j) \/ Expire(j) PROVE DeliveryInv'
  BY <1>3, JobProceedsInv, ExpireInv
<1>4. CASE HostLost \/ HostBack
  BY <1>4, HostInv
<1>5. QED
  BY <1>1, <1>2, <1>3, <1>4 DEF Next

LEMMA DeliveryInvariant == Spec => []DeliveryInv
<1>1. QED
  BY InitInv, NextInv, PTL DEF Spec

\* Whoever asks, through whichever surface, is told the same of a job, and a
\* task is told cancelled only of a job that was cancelled.
THEOREM AnswersAlwaysAgree == Spec => []AnswersAgree
<1>1. DeliveryInv => AnswersAgree
  BY DEF DeliveryInv, AnswersAgree, Truthful
<1>2. QED
  BY <1>1, DeliveryInvariant, PTL

\* A run is on the list of recent jobs before it waits and when it is
\* detached, and other runs do not push it out before the list is full.
THEOREM RunsStayRecoverable == Spec => []RunIsRecoverable
<1>1. DeliveryInv => RunIsRecoverable
  BY DEF DeliveryInv, ListOK, RunIsRecoverable, Recorded
<1>2. QED
  BY <1>1, DeliveryInvariant, PTL

\* No outage ends a wait without a deadline while its job runs.
THEOREM OutagesAlwaysRetried == Spec => []OutagesAreRetried
<1>1. DeliveryInv => OutagesAreRetried
  BY DEF DeliveryInv, OutagesAreRetried, Retried
<1>2. QED
  BY <1>1, DeliveryInvariant, PTL
=============================================================================
