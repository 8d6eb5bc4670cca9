--------------------------- MODULE AtomicQueueProofs ---------------------------
(***************************************************************************)
(* For any threads and items: of those that find the queue inactive,       *)
(* exactly one becomes its consumer, and the queue is marked inactive      *)
(* exactly while it has none.                                              *)
(***************************************************************************)
EXTENDS AtomicQueue, SequenceTheorems, FiniteSetTheorems, WellFoundedInduction, TLAPS

(* A thread that is enqueuing has an item to enqueue. *)
EnqueuesAnItem == \A t \in Threads : pc[t] \in {"enqueue", "or_mark_active"} => mine[t] \in Items

IInv == TypeOk /\ EnqueuesAnItem /\ OneConsumer

USE NamesAreApart DEF Null, Inactive, NoThread

LEMMA InitIInv == Init => IInv
BY DEF Init, IInv, TypeOk, EnqueuesAnItem, OneConsumer

(* Linking keeps the members' types. *)
LEMMA LinkedType ==
  ASSUME TypeOk, NEW t \in Threads, mine[t] \in Items
  PROVE  Linked(t) \in [Items -> Items \cup {Null}]
BY DEF TypeOk, Linked

(* An item is stored: if the mark was there, the thread becomes the        *)
(* consumer, and there was none.                                           *)
LEMMA PushIInv ==
  ASSUME IInv, NEW t \in Threads, Push(t)
  PROVE  IInv'
<1>1. mine[t] \in Items
  BY DEF IInv, EnqueuesAnItem, Push
<1>2. TypeOk'
  BY <1>1, LinkedType DEF IInv, TypeOk, Push, Goto
<1>3. EnqueuesAnItem'
  BY DEF IInv, TypeOk, EnqueuesAnItem, Push, Goto
<1>4. OneConsumer'
  <2>1. CASE old[t] = Inactive
    BY <1>1, <2>1 DEF IInv, TypeOk, OneConsumer, Push, Goto
  <2>2. CASE old[t] # Inactive
    BY <1>1, <2>2 DEF IInv, TypeOk, OneConsumer, Push, Goto
  <2>. QED
    BY <2>1, <2>2
<1>. QED
  BY <1>2, <1>3, <1>4 DEF IInv

(* The thread that replaces the mark becomes the consumer. *)
LEMMA MarkActiveIInv ==
  ASSUME IInv, NEW t \in Threads, MarkActive(t)
  PROVE  IInv'
<1>1. mine[t] \in Items
  BY DEF IInv, EnqueuesAnItem, MarkActive
<1>2. TypeOk'
  BY <1>1 DEF IInv, TypeOk, MarkActive, Goto
<1>3. EnqueuesAnItem'
  BY DEF IInv, TypeOk, EnqueuesAnItem, MarkActive, Goto
<1>4. OneConsumer'
  BY DEF IInv, TypeOk, OneConsumer, MarkActive, Goto
<1>. QED
  BY <1>2, <1>3, <1>4 DEF IInv

(* The consumer gives the queue up, unless somebody was faster. *)
LEMMA MarkInactiveIInv ==
  ASSUME IInv, NEW t \in Threads, MarkInactive(t)
  PROVE  IInv'
<1>1. CASE head = Null
  BY <1>1 DEF IInv, TypeOk, EnqueuesAnItem, OneConsumer, MarkInactive, Goto
<1>2. CASE head # Null
  BY <1>2 DEF IInv, TypeOk, EnqueuesAnItem, OneConsumer, MarkInactive, Goto
<1>. QED
  BY <1>1, <1>2

LEMMA StepIInv == IInv /\ [Next]_vars => IInv'
<1>. SUFFICES ASSUME IInv, [Next]_vars PROVE IInv'
  OBVIOUS
<1>1. ASSUME NEW t \in Threads, NEW i \in Items, Load(t, i) PROVE IInv'
  BY <1>1 DEF IInv, TypeOk, EnqueuesAnItem, OneConsumer, Load
<1>2. ASSUME NEW t \in Threads, Retry(t) PROVE IInv'
  BY <1>2 DEF IInv, TypeOk, EnqueuesAnItem, OneConsumer, Retry
<1>3. ASSUME NEW t \in Threads, DequeueAll(t) PROVE IInv'
  BY <1>3 DEF IInv, TypeOk, EnqueuesAnItem, OneConsumer, DequeueAll
<1>4. ASSUME NEW t \in Threads, RunFirst(t) PROVE IInv'
  BY <1>4 DEF IInv, TypeOk, EnqueuesAnItem, OneConsumer, RunFirst
<1>5. ASSUME NEW t \in Threads, TryMarkInactive(t) PROVE IInv'
  BY <1>5 DEF IInv, TypeOk, EnqueuesAnItem, OneConsumer, TryMarkInactive, Goto
<1>6. CASE UNCHANGED vars
  BY <1>6 DEF IInv, TypeOk, EnqueuesAnItem, OneConsumer, vars
<1>. QED
  BY <1>1, <1>2, <1>3, <1>4, <1>5, <1>6, PushIInv, MarkActiveIInv, MarkInactiveIInv
  DEF Next, ProducerStep, ConsumerStep

(* The members of every queue hold what their types allow. *)
THEOREM TypesAreKept == Spec => []TypeOk
<1>1. IInv => TypeOk
  BY DEF IInv
<1>. QED
  BY InitIInv, StepIInv, <1>1, PTL DEF Spec

(* Whatever enqueue(), enqueue_or_mark_active() and try_mark_inactive() do *)
(* at the same time, however often an item comes back to the head: there   *)
(* is at most one consumer, and the mark says whether there is.            *)
THEOREM ThereIsOneConsumer == Spec => []OneConsumer
<1>1. IInv => OneConsumer
  BY DEF IInv
<1>. QED
  BY InitIInv, StepIInv, <1>1, PTL DEF Spec

-----------------------------------------------------------------------------
(* The least number principle, from which an induction over a set *)

LEMMA LeastNumber ==
  ASSUME NEW S \in SUBSET Nat, S # {}
  PROVE  \E n \in S : \A m \in S : n <= m
<1>. DEFINE Less == {pair \in Nat \X Nat : pair[1] < pair[2]}
<1>1. Less = OpToRel(<, Nat)
  BY DEF OpToRel
<1>2. IsWellFoundedOn(Less, Nat)
  BY <1>1, NatLessThanWellFounded
<1>3. ASSUME NEW n \in Nat, NEW m \in Nat, m < n PROVE <<m, n>> \in Less
  BY <1>3
<1>. HIDE DEF Less
<1>4. PICK n \in S : \A m \in S : ~(<<m, n>> \in Less)
  BY <1>2, WFMin
<1>5. \A m \in S : ~(m < n)
  BY <1>3, <1>4
<1>. QED
  BY <1>4, <1>5

LEMMA SetInduction ==
  ASSUME NEW S, 0 \in S, \A n \in Nat : n \in S => n + 1 \in S
  PROVE  Nat \subseteq S
<1>. SUFFICES ASSUME Nat \ S # {} PROVE FALSE
  OBVIOUS
<1>1. PICK n \in Nat \ S : \A m \in Nat \ S : n <= m
  BY LeastNumber
<1>2. n # 0 /\ n - 1 \in Nat
  BY <1>1
<1>3. n - 1 \in S
  BY <1>1, <1>2
<1>4. (n - 1) + 1 \in S
  BY <1>2, <1>3
<1>. QED
  BY <1>1, <1>4

-----------------------------------------------------------------------------
(* Linked lists *)

(* A list that has no item twice; and whether an item is in it. *)
Sound(s) == s \in Seq(Items) /\ \A m, n \in 1..Len(s) : s[m] = s[n] => m = n
Holds(s, i) == \E n \in 1..Len(s) : s[n] = i

(* Two lists from the same first item agree, as far as the one goes. *)
LEMMA ListsAgree ==
  ASSUME NEW s \in Seq(Items), NEW u \in Seq(Items), NEW first, NEW link,
         IsList(s, first, link), IsList(u, first, link)
  PROVE  \A n \in 1..Len(s) : n <= Len(u) /\ s[n] = u[n]
<1>. DEFINE Agree == {n \in Nat : n + 1 <= Len(s) => n + 1 <= Len(u) /\ s[n + 1] = u[n + 1]}
<1>1. 0 \in Agree
  <2>1. CASE s = <<>>
    BY <2>1
  <2>2. CASE s # <<>>
    <3>1. s[1] \in Items /\ first = s[1]
      BY <2>2 DEF IsList
    <3>2. u # <<>>
      BY <3>1 DEF IsList
    <3>. QED
      BY <2>2, <3>1, <3>2 DEF IsList
  <2>. QED
    BY <2>1, <2>2
<1>2. ASSUME NEW n \in Nat, n \in Agree PROVE n + 1 \in Agree
  <2>. SUFFICES ASSUME n + 2 <= Len(s) PROVE n + 2 <= Len(u) /\ s[n + 2] = u[n + 2]
    OBVIOUS
  <2>1. n + 1 <= Len(u) /\ s[n + 1] = u[n + 1]
    BY <1>2
  <2>2. link[s[n + 1]] = s[n + 2] /\ s[n + 2] \in Items
    BY DEF IsList
  <2>3. link[u[n + 1]] = IF n + 1 < Len(u) THEN u[n + 2] ELSE Null
    BY <2>1 DEF IsList
  <2>. QED
    BY <2>1, <2>2, <2>3
<1>3. Nat \subseteq Agree
  <2>. HIDE DEF Agree
  <2>. QED
    BY <1>1, <1>2, SetInduction
<1>4. ASSUME NEW n \in 1..Len(s) PROVE n <= Len(u) /\ s[n] = u[n]
  <2>1. n - 1 \in Nat
    OBVIOUS
  <2>2. n - 1 \in Agree
    BY <1>3, <2>1
  <2>. QED
    BY <2>1, <2>2
<1>. QED
  BY <1>4

(* The pointers determine the list, which is not longer than there are items. *)
LEMMA ListFromIs ==
  ASSUME NEW s, Sound(s), NEW first, NEW link, IsList(s, first, link)
  PROVE  ListFrom(first, link) = s
<1>1. s \in [1..Len(s) -> Items] /\ Len(s) \in Nat
  BY DEF Sound
<1>2. s \in Injection(1..Len(s), Items)
  BY <1>1 DEF Sound, Injection, IsInjective
<1>3. Cardinality(1..Len(s)) = Len(s)
  <2>1. Len(s) \in Int /\ 1 \in Int
    BY <1>1
  <2>2. Cardinality(1..Len(s)) = IF 1 > Len(s) THEN 0 ELSE Len(s) - 1 + 1
    BY <2>1, FS_Interval
  <2>. QED
    BY <1>1, <2>2
<1>4. Len(s) <= Cardinality(Items) /\ Cardinality(Items) \in Nat
  BY <1>2, <1>3, FS_Injection, FS_CardinalityType, ItemsAreFinite
<1>5. s \in SeqOf(Items, Cardinality(Items))
  BY <1>1, <1>4 DEF SeqOf
<1>6. ASSUME NEW u \in SeqOf(Items, Cardinality(Items)), IsList(u, first, link)
      PROVE  u = s
  <2>1. u \in Seq(Items) /\ s \in Seq(Items)
    BY <1>4 DEF SeqOf, Sound
  <2>2. \A n \in 1..Len(s) : n <= Len(u) /\ s[n] = u[n]
    BY <1>6, <2>1, ListsAgree
  <2>3. \A n \in 1..Len(u) : n <= Len(s) /\ u[n] = s[n]
    BY <1>6, <2>1, ListsAgree
  <2>4. Len(s) = Len(u)
    BY <2>1, <2>2, <2>3
  <2>. QED
    BY <2>1, <2>2, <2>4
<1>. QED
  BY <1>5, <1>6 DEF ListFrom

(* Where a list ends there is nothing. *)
LEMMA EmptyList ==
  ASSUME NEW first \in {Null, Inactive}, NEW link
  PROVE  Sound(<<>>) /\ IsList(<<>>, first, link)
BY DEF Sound, IsList

LEMMA OnlyEmptyList ==
  ASSUME NEW s, Sound(s), NEW first \in {Null, Inactive}, NEW link, IsList(s, first, link)
  PROVE  s = <<>>
<1>. SUFFICES ASSUME s # <<>> PROVE FALSE
  OBVIOUS
<1>1. s[1] \in Items /\ first = s[1]
  BY DEF Sound, IsList
<1>. QED
  BY <1>1

(* One more item in front of a list, which the reversed list has at its end *)
LEMMA PushedList ==
  ASSUME NEW s, Sound(s), NEW i \in Items, ~Holds(s, i),
         NEW first \in Items \cup {Null, Inactive},
         NEW link \in [Items -> Items \cup {Null}], IsList(s, first, link)
  PROVE  LET longer == <<i>> \o s
             linked == [link EXCEPT ![i] = IF first = Inactive THEN Null ELSE first]
         IN  /\ Sound(longer)
             /\ IsList(longer, i, linked)
             /\ Reverse(longer) = Append(Reverse(s), i)
             /\ \A j \in Items : Holds(longer, j) <=> (j = i \/ Holds(s, j))
<1>. DEFINE longer == <<i>> \o s
            linked == [link EXCEPT ![i] = IF first = Inactive THEN Null ELSE first]
<1>1. s \in Seq(Items) /\ Len(s) \in Nat
  BY DEF Sound
<1>2. /\ longer \in Seq(Items) /\ Len(longer) = Len(s) + 1
      /\ longer[1] = i
      /\ \A n \in 1..Len(s) : longer[n + 1] = s[n]
  BY <1>1
<1>. HIDE DEF longer
<1>3. Sound(longer)
  <2>. SUFFICES ASSUME NEW m \in 1..Len(longer), NEW n \in 1..Len(longer),
                       longer[m] = longer[n]
                PROVE  m = n
    BY <1>2 DEF Sound
  <2>1. m = 1 \/ (m - 1 \in 1..Len(s) /\ longer[m] = s[m - 1])
    BY <1>1, <1>2
  <2>2. n = 1 \/ (n - 1 \in 1..Len(s) /\ longer[n] = s[n - 1])
    BY <1>1, <1>2
  <2>. QED
    BY <1>1, <1>2, <2>1, <2>2 DEF Sound, Holds
<1>4. IsList(longer, i, linked)
  <2>1. longer # <<>> /\ i = longer[1]
    BY <1>1, <1>2
  <2>2. linked[longer[1]] = IF 1 < Len(longer) THEN longer[2] ELSE Null
    <3>1. CASE s = <<>>
      BY <1>1, <1>2, <3>1 DEF IsList
    <3>2. CASE s # <<>>
      BY <1>1, <1>2, <3>2 DEF IsList
    <3>. QED
      BY <3>1, <3>2
  <2>3. ASSUME NEW n \in 1..Len(s)
        PROVE  linked[longer[n + 1]] = IF n + 1 < Len(longer) THEN longer[n + 2] ELSE Null
    <3>1. longer[n + 1] = s[n] /\ s[n] \in Items /\ s[n] # i
      BY <1>1, <1>2 DEF Holds
    <3>2. linked[s[n]] = link[s[n]]
      BY <3>1
    <3>3. n < Len(s) => longer[n + 2] = s[n + 1]
      BY <1>1, <1>2
    <3>. QED
      BY <1>1, <1>2, <3>1, <3>2, <3>3 DEF IsList
  <2>4. ASSUME NEW n \in 1..Len(longer)
        PROVE  linked[longer[n]] = IF n < Len(longer) THEN longer[n + 1] ELSE Null
    <3>. HIDE DEF linked
    <3>1. CASE n = 1
      BY <2>2, <3>1
    <3>2. CASE n # 1
      <4>1. n - 1 \in 1..Len(s)
        BY <1>1, <1>2, <3>2
      <4>2. (n - 1) + 1 = n /\ (n - 1) + 2 = n + 1
        BY <4>1
      <4>. QED
        BY <2>3, <4>1, <4>2
    <3>. QED
      BY <3>1, <3>2
  <2>. QED
    BY <2>1, <2>4 DEF IsList
<1>5. Reverse(longer) = Append(Reverse(s), i)
  <2>1. Reverse(longer) = [n \in 1..Len(s) + 1 |-> longer[Len(s) + 2 - n]]
    BY <1>1, <1>2 DEF Reverse
  <2>2. Reverse(s) \in Seq(Items) /\ Len(Reverse(s)) = Len(s)
    BY <1>1 DEF Reverse
  <2>3. ASSUME NEW n \in 1..Len(s) + 1
        PROVE  Append(Reverse(s), i)[n] = longer[Len(s) + 2 - n]
    BY <1>1, <1>2, <2>2 DEF Reverse
  <2>4. /\ Append(Reverse(s), i) \in Seq(Items)
        /\ Len(Append(Reverse(s), i)) = Len(s) + 1
    BY <1>1, <2>2
  <2>5. Reverse(longer) \in Seq(Items) /\ Len(Reverse(longer)) = Len(s) + 1
    BY <1>1, <1>2 DEF Reverse
  <2>6. \A n \in 1..Len(s) + 1 : Append(Reverse(s), i)[n] = Reverse(longer)[n]
    BY <2>1, <2>3
  <2>. QED
    BY ONLY <2>4, <2>5, <2>6, SeqEqual
<1>6. ASSUME NEW j \in Items PROVE Holds(longer, j) <=> (j = i \/ Holds(s, j))
  <2>1. Holds(longer, j) => j = i \/ Holds(s, j)
    <3>. SUFFICES ASSUME NEW n \in 1..Len(longer), longer[n] = j, j # i PROVE Holds(s, j)
      BY DEF Holds
    <3>1. n - 1 \in 1..Len(s) /\ s[n - 1] = j
      BY <1>1, <1>2
    <3>. QED
      BY <3>1 DEF Holds
  <2>2. Holds(s, j) => Holds(longer, j)
    BY <1>1, <1>2 DEF Holds
  <2>3. Holds(longer, i)
    BY <1>1, <1>2 DEF Holds
  <2>. QED
    BY <2>1, <2>2, <2>3
<1>. QED
  BY <1>3, <1>4, <1>5, <1>6 DEF longer

(* The consumer puts what it dequeues after what it has. *)
LEMMA JoinedLists ==
  ASSUME NEW s, Sound(s), NEW u, Sound(u),
         \A i \in Items : ~(Holds(s, i) /\ Holds(u, i))
  PROVE  /\ Sound(s \o Reverse(u))
         /\ \A i \in Items : Holds(s \o Reverse(u), i) <=> Holds(s, i) \/ Holds(u, i)
<1>1. s \in Seq(Items) /\ Len(s) \in Nat /\ u \in Seq(Items) /\ Len(u) \in Nat
  BY DEF Sound
<1>2. /\ Reverse(u) \in Seq(Items) /\ Len(Reverse(u)) = Len(u)
      /\ \A n \in 1..Len(u) : Reverse(u)[n] = u[Len(u) + 1 - n]
  BY <1>1 DEF Reverse
<1>. DEFINE both == s \o Reverse(u)
<1>3. /\ both \in Seq(Items) /\ Len(both) = Len(s) + Len(u)
      /\ \A n \in 1..Len(s) : both[n] = s[n]
      /\ \A n \in 1..Len(u) : both[Len(s) + n] = u[Len(u) + 1 - n]
  <2>1. \A n \in 1..Len(s) + Len(u) :
           both[n] = IF n <= Len(s) THEN s[n] ELSE Reverse(u)[n - Len(s)]
    BY <1>1, <1>2, ConcatProperties
  <2>2. both \in Seq(Items) /\ Len(both) = Len(s) + Len(u)
    BY <1>1, <1>2, ConcatProperties
  <2>3. ASSUME NEW n \in 1..Len(s) PROVE both[n] = s[n]
    BY <1>1, <2>1
  <2>4. ASSUME NEW n \in 1..Len(u) PROVE both[Len(s) + n] = u[Len(u) + 1 - n]
    <3>1. Len(s) + n \in 1..Len(s) + Len(u) /\ ~(Len(s) + n <= Len(s))
      BY <1>1
    <3>2. (Len(s) + n) - Len(s) = n
      BY <1>1
    <3>. QED
      BY <1>2, <2>1, <3>1, <3>2
  <2>. QED
    BY <2>2, <2>3, <2>4
<1>. HIDE DEF both
<1>4. ASSUME NEW n \in 1..Len(both)
      PROVE  \/ n \in 1..Len(s) /\ both[n] = s[n]
             \/ /\ Len(s) + Len(u) + 1 - n \in 1..Len(u)
                /\ n > Len(s)
                /\ both[n] = u[Len(s) + Len(u) + 1 - n]
  <2>1. CASE n <= Len(s)
    BY <1>1, <1>3, <2>1
  <2>2. CASE n > Len(s)
    <3>1. n - Len(s) \in 1..Len(u)
      BY <1>1, <1>3, <2>2
    <3>. QED
      BY <1>1, <1>3, <2>2, <3>1
  <2>. QED
    BY <1>1, <1>3, <2>1, <2>2
<1>5. Sound(both)
  <2>. SUFFICES ASSUME NEW m \in 1..Len(both), NEW n \in 1..Len(both), both[m] = both[n]
                PROVE  m = n
    BY <1>3 DEF Sound
  <2>. DEFINE M == Len(s) + Len(u) + 1 - m
              N == Len(s) + Len(u) + 1 - n
  <2>1. both[m] \in Items
    BY <1>3
  <2>2. \/ m \in 1..Len(s) /\ both[m] = s[m]
        \/ M \in 1..Len(u) /\ both[m] = u[M]
    BY ONLY <1>4, m \in 1..Len(both)
  <2>3. \/ n \in 1..Len(s) /\ both[n] = s[n]
        \/ N \in 1..Len(u) /\ both[n] = u[N]
    BY ONLY <1>4, n \in 1..Len(both)
  <2>4. M = N => m = n
    BY <1>1, <1>3
  <2>. HIDE DEF M, N
  <2>. QED
    BY <2>1, <2>2, <2>3, <2>4 DEF Sound, Holds
<1>6. ASSUME NEW i \in Items PROVE Holds(both, i) <=> Holds(s, i) \/ Holds(u, i)
  <2>1. Holds(both, i) => Holds(s, i) \/ Holds(u, i)
    BY <1>4 DEF Holds
  <2>2. Holds(s, i) => Holds(both, i)
    BY <1>1, <1>3 DEF Holds
  <2>3. Holds(u, i) => Holds(both, i)
    <3>. SUFFICES ASSUME NEW n \in 1..Len(u), u[n] = i PROVE Holds(both, i)
      BY DEF Holds
    <3>1. Len(u) + 1 - n \in 1..Len(u) /\ both[Len(s) + (Len(u) + 1 - n)] = i
      <4>. DEFINE k == Len(u) + 1 - n
      <4>1. k \in 1..Len(u) /\ Len(u) + 1 - k = n
        BY ONLY <1>1, n \in 1..Len(u)
      <4>. HIDE DEF k
      <4>2. both[Len(s) + k] = u[Len(u) + 1 - k]
        BY ONLY <1>3, <4>1
      <4>. QED
        BY <4>1, <4>2 DEF k
    <3>2. Len(s) + (Len(u) + 1 - n) \in 1..Len(both)
      BY <1>1, <1>3
    <3>. QED
      BY <3>1, <3>2 DEF Holds
  <2>. QED
    BY <2>1, <2>2, <2>3
<1>. QED
  BY <1>5, <1>6 DEF both

(* The first item leaves the batch. *)
LEMMA ShorterList ==
  ASSUME NEW s, Sound(s), s # <<>>
  PROVE  /\ Sound(Tail(s)) /\ Head(s) \in Items
         /\ Holds(s, Head(s)) /\ ~Holds(Tail(s), Head(s))
         /\ \A i \in Items : Holds(Tail(s), i) => Holds(s, i)
<1>1. s \in Seq(Items) /\ Len(s) \in Nat /\ Len(s) > 0
  BY DEF Sound
<1>2. /\ Tail(s) \in Seq(Items) /\ Len(Tail(s)) = Len(s) - 1
      /\ \A n \in 1..Len(s) - 1 : Tail(s)[n] = s[n + 1]
      /\ Head(s) = s[1] /\ s[1] \in Items
  BY <1>1
<1>3. Sound(Tail(s))
  BY <1>1, <1>2 DEF Sound
<1>4. Holds(s, Head(s)) /\ ~Holds(Tail(s), Head(s))
  BY <1>1, <1>2 DEF Sound, Holds
<1>5. \A i \in Items : Holds(Tail(s), i) => Holds(s, i)
  BY <1>1, <1>2 DEF Holds
<1>. QED
  BY <1>2, <1>3, <1>4, <1>5

-----------------------------------------------------------------------------
(* Refinement *)

(* Nobody else has what is on the stack or in the batch. *)
ItemsAreApart ==
    /\ free \subseteq Items
    /\ \A i \in Items : ~(Holds(batch, i) /\ Holds(Stack, i))
    /\ \A i \in free : ~Holds(Stack, i) /\ ~Holds(batch, i)
    /\ \A t \in Threads : mine[t] \in Items =>
          /\ mine[t] \notin free
          /\ ~Holds(Stack, mine[t]) /\ ~Holds(batch, mine[t])
    /\ \A t, u \in Threads : mine[t] = mine[u] /\ mine[t] \in Items => t = u

StackIsList == Sound(Stack) /\ IsList(Stack, head, next)

BatchIsRun == \A t \in Threads : pc[t] = "mark_inactive" => batch = <<>>

QInv == StackIsList /\ Sound(batch) /\ ItemsAreApart /\ BatchIsRun

LEMMA InitQInv == Init => QInv /\ Promised!Init
<1>. SUFFICES ASSUME Init PROVE QInv /\ Promised!Init
  OBVIOUS
<1>1. Sound(<<>>) /\ IsList(<<>>, Inactive, next)
  BY EmptyList
<1>2. Stack = <<>>
  BY <1>1, ListFromIs DEF Init, Stack
<1>3. StackIsList /\ Sound(batch)
  BY <1>1, <1>2 DEF Init, StackIsList
<1>4. ItemsAreApart /\ BatchIsRun
  BY <1>2 DEF Init, ItemsAreApart, BatchIsRun, Holds
<1>5. Reverse(<<>>) = <<>>
  BY DEF Reverse
<1>6. Promised!Init
  BY <1>2, <1>5 DEF Init, Promised!Init, Promised!NoThread
<1>. QED
  BY <1>3, <1>4, <1>6 DEF QInv

(* Whatever does not write the stack leaves the queue as it is. *)
LEMMA StackStays ==
  ASSUME UNCHANGED <<head, next>>, StackIsList
  PROVE  Stack' = Stack /\ StackIsList'
BY DEF Stack, StackIsList

LEMMA LoadKeeps ==
  ASSUME IInv, QInv, NEW t \in Threads, NEW i \in Items, Load(t, i)
  PROVE  QInv' /\ UNCHANGED Promised!vars
<1>1. Stack' = Stack /\ StackIsList'
  BY StackStays DEF Load, QInv
<1>2. ItemsAreApart'
  BY <1>1 DEF IInv, TypeOk, QInv, ItemsAreApart, Load
<1>3. BatchIsRun'
  BY DEF IInv, TypeOk, QInv, BatchIsRun, Load
<1>. QED
  BY <1>1, <1>2, <1>3 DEF QInv, Load, Promised!vars

LEMMA RetryKeeps ==
  ASSUME IInv, QInv, NEW t \in Threads, Retry(t)
  PROVE  QInv' /\ UNCHANGED Promised!vars
<1>1. Stack' = Stack /\ StackIsList'
  BY StackStays DEF Retry, QInv
<1>2. ItemsAreApart'
  BY <1>1 DEF QInv, ItemsAreApart, Retry
<1>3. BatchIsRun'
  BY DEF QInv, BatchIsRun, Retry
<1>. QED
  BY <1>1, <1>2, <1>3 DEF QInv, Retry, Promised!vars

(* A successful exchange enqueues the item; that the head is what it was   *)
(* when it was loaded is enough, whatever happened in between.             *)
LEMMA PushEnqueues ==
  ASSUME IInv, QInv, NEW t \in Threads, Push(t)
  PROVE  QInv' /\ Promised!Enqueue(t, mine[t]) /\ mine[t] \in Items
<1>. DEFINE i == mine[t]
            longer == <<i>> \o Stack
<1>1. i \in Items /\ old[t] = head
  BY DEF IInv, EnqueuesAnItem, Push
<1>2. Sound(Stack) /\ IsList(Stack, head, next) /\ ~Holds(Stack, i)
  BY <1>1 DEF QInv, StackIsList, ItemsAreApart
<1>3. head' = i /\ next' = [next EXCEPT ![i] = IF head = Inactive THEN Null ELSE head]
  BY <1>1 DEF Push, Linked
<1>4. /\ Sound(longer) /\ IsList(longer, head', next')
      /\ Reverse(longer) = Append(Reverse(Stack), i)
      /\ \A j \in Items : Holds(longer, j) <=> (j = i \/ Holds(Stack, j))
  BY <1>1, <1>2, <1>3, PushedList DEF IInv, TypeOk
<1>5. Stack' = longer
  BY <1>4, ListFromIs DEF Stack
<1>. HIDE DEF longer
<1>6. StackIsList'
  BY <1>4, <1>5 DEF StackIsList
<1>7. ItemsAreApart'
  BY <1>1, <1>4, <1>5 DEF IInv, TypeOk, QInv, ItemsAreApart, Push
<1>8. BatchIsRun'
  BY DEF IInv, TypeOk, QInv, BatchIsRun, Push, Goto
<1>9. Promised!Claim(t)
  BY <1>1 DEF IInv, OneConsumer, Push, Promised!Claim, Promised!NoThread
<1>. QED
  BY <1>1, <1>4, <1>5, <1>6, <1>7, <1>8, <1>9 DEF QInv, Push, Promised!Enqueue

LEMMA MarkActiveClaims ==
  ASSUME IInv, QInv, NEW t \in Threads, MarkActive(t)
  PROVE  QInv' /\ Promised!KeepAndClaim(t, mine[t]) /\ mine[t] \in Items
<1>1. mine[t] \in Items
  BY DEF IInv, EnqueuesAnItem, MarkActive
<1>2. Stack = <<>>
  BY OnlyEmptyList DEF QInv, StackIsList, MarkActive
<1>3. Sound(<<>>) /\ IsList(<<>>, head', next')
  BY EmptyList DEF MarkActive
<1>4. Stack' = <<>> /\ StackIsList'
  BY <1>3, ListFromIs DEF Stack, StackIsList
<1>5. ~Holds(batch, mine[t])
  BY <1>1 DEF QInv, ItemsAreApart
<1>6. /\ Sound(batch')
      /\ \A j \in Items : Holds(batch', j) <=> (j = mine[t] \/ Holds(batch, j))
  BY <1>1, <1>5 DEF QInv, Sound, Holds, MarkActive
<1>7. ItemsAreApart'
  BY <1>1, <1>2, <1>4, <1>6 DEF IInv, TypeOk, QInv, ItemsAreApart, MarkActive
<1>8. BatchIsRun'
  BY DEF IInv, TypeOk, OneConsumer, QInv, BatchIsRun, MarkActive, Goto
<1>9. consumer = NoThread
  BY DEF IInv, OneConsumer, MarkActive
<1>. QED
  BY <1>1, <1>2, <1>4, <1>6, <1>7, <1>8, <1>9
  DEF QInv, MarkActive, Promised!KeepAndClaim, Promised!NoThread

LEMMA DequeueDequeues ==
  ASSUME IInv, QInv, NEW t \in Threads, DequeueAll(t)
  PROVE  QInv' /\ Promised!DequeueAll
<1>1. Sound(<<>>) /\ IsList(<<>>, head', next')
  BY EmptyList DEF DequeueAll
<1>2. Stack' = <<>> /\ StackIsList'
  BY <1>1, ListFromIs DEF Stack, StackIsList
<1>3. /\ Sound(batch')
      /\ \A j \in Items : Holds(batch', j) <=> Holds(batch, j) \/ Holds(Stack, j)
  BY JoinedLists DEF QInv, StackIsList, ItemsAreApart, DequeueAll
<1>4. \A j \in Items : ~Holds(Stack', j)
  BY <1>2 DEF Holds
<1>5. ItemsAreApart'
  BY <1>3, <1>4 DEF QInv, ItemsAreApart, DequeueAll
<1>6. BatchIsRun'
  BY DEF IInv, OneConsumer, QInv, BatchIsRun, DequeueAll
<1>7. consumer # NoThread
  BY DEF IInv, OneConsumer, DequeueAll
<1>8. Reverse(<<>>) = <<>>
  BY DEF Reverse
<1>. QED
  BY <1>2, <1>3, <1>5, <1>6, <1>7, <1>8
  DEF QInv, DequeueAll, Promised!DequeueAll, Promised!NoThread

LEMMA RunFirstRuns ==
  ASSUME IInv, QInv, NEW t \in Threads, RunFirst(t)
  PROVE  QInv' /\ Promised!RunFirst
<1>1. Stack' = Stack /\ StackIsList'
  BY StackStays DEF RunFirst, QInv
<1>2. /\ Sound(batch') /\ Head(batch) \in Items
      /\ Holds(batch, Head(batch)) /\ ~Holds(batch', Head(batch))
      /\ \A i \in Items : Holds(batch', i) => Holds(batch, i)
  BY ShorterList DEF QInv, RunFirst
<1>3. ItemsAreApart'
  BY <1>1, <1>2 DEF QInv, ItemsAreApart, RunFirst
<1>4. BatchIsRun'
  BY DEF IInv, OneConsumer, QInv, BatchIsRun, RunFirst
<1>. QED
  BY <1>1, <1>2, <1>3, <1>4 DEF QInv, RunFirst, Promised!RunFirst

LEMMA TryMarkInactiveKeeps ==
  ASSUME IInv, QInv, NEW t \in Threads, TryMarkInactive(t)
  PROVE  QInv' /\ UNCHANGED Promised!vars
<1>1. Stack' = Stack /\ StackIsList'
  BY StackStays DEF TryMarkInactive, QInv
<1>2. ItemsAreApart'
  BY <1>1 DEF QInv, ItemsAreApart, TryMarkInactive
<1>3. BatchIsRun'
  BY DEF QInv, BatchIsRun, TryMarkInactive
<1>. QED
  BY <1>1, <1>2, <1>3 DEF QInv, TryMarkInactive, Promised!vars

(* Only an empty queue is marked inactive. *)
LEMMA MarkInactiveRetires ==
  ASSUME IInv, QInv, NEW t \in Threads, MarkInactive(t)
  PROVE  QInv' /\ (Promised!MarkInactive \/ UNCHANGED Promised!vars)
<1>1. ItemsAreApart' /\ BatchIsRun' /\ StackIsList' /\ Stack' = Stack
  <2>1. CASE head = Null
    <3>1. Stack = <<>>
      BY <2>1, OnlyEmptyList DEF QInv, StackIsList
    <3>2. Sound(<<>>) /\ IsList(<<>>, head', next')
      BY <2>1, EmptyList DEF MarkInactive
    <3>3. Stack' = <<>> /\ StackIsList'
      BY <3>2, ListFromIs DEF Stack, StackIsList
    <3>. QED
      BY <3>1, <3>3 DEF IInv, TypeOk, QInv, ItemsAreApart, BatchIsRun, MarkInactive, Goto
  <2>2. CASE head # Null
    <3>1. Stack' = Stack /\ StackIsList'
      BY <2>2, StackStays DEF QInv, MarkInactive
    <3>. QED
      BY <2>2, <3>1 DEF IInv, TypeOk, QInv, ItemsAreApart, BatchIsRun, MarkInactive, Goto
  <2>. QED
    BY <2>1, <2>2
<1>2. CASE head = Null
  <2>1. Stack = <<>>
    BY <1>2, OnlyEmptyList DEF QInv, StackIsList
  <2>2. Reverse(<<>>) = <<>>
    BY DEF Reverse
  <2>3. batch = <<>>
    BY DEF QInv, BatchIsRun, MarkInactive
  <2>. QED
    BY <1>1, <1>2, <2>1, <2>2, <2>3
    DEF QInv, MarkInactive, Promised!MarkInactive, Promised!NoThread
<1>3. CASE head # Null
  BY <1>1, <1>3 DEF QInv, MarkInactive, Promised!vars
<1>. QED
  BY <1>2, <1>3

(* Each step of the members is one of the promised queue, or none. *)
LEMMA StepRefines ==
  ASSUME IInv, QInv, [Next]_vars
  PROVE  QInv' /\ [Promised!Next]_(Promised!vars)
<1>1. ASSUME NEW t \in Threads, NEW i \in Items, Load(t, i)
      PROVE  QInv' /\ [Promised!Next]_(Promised!vars)
  BY <1>1, LoadKeeps
<1>2. ASSUME NEW t \in Threads, ProducerStep(t)
      PROVE  QInv' /\ [Promised!Next]_(Promised!vars)
  BY <1>2, RetryKeeps, PushEnqueues, MarkActiveClaims DEF ProducerStep, Promised!Next
<1>3. ASSUME NEW t \in Threads, ConsumerStep(t)
      PROVE  QInv' /\ [Promised!Next]_(Promised!vars)
  BY <1>3, DequeueDequeues, RunFirstRuns, TryMarkInactiveKeeps, MarkInactiveRetires
  DEF ConsumerStep, Promised!Next
<1>4. ASSUME UNCHANGED vars
      PROVE  QInv' /\ [Promised!Next]_(Promised!vars)
  <2>1. Stack' = Stack /\ StackIsList'
    BY <1>4, StackStays DEF QInv, vars
  <2>. QED
    BY <1>4, <2>1 DEF QInv, vars, ItemsAreApart, BatchIsRun, Promised!vars
<1>. QED
  BY <1>1, <1>2, <1>3, <1>4 DEF Next

(* The stack of next pointers, pushed to by any number of threads while    *)
(* one takes it away, is the queue that atomic_intrusive_queue promises:   *)
(* items come out in the order in which they went in and none is lost.     *)
THEOREM QueueIsAsPromised == Spec => ImplementsRemoteQueue
<1>. QED
  BY InitIInv, StepIInv, InitQInv, StepRefines, PTL
  DEF Spec, ImplementsRemoteQueue, Promised!Spec
=============================================================================
