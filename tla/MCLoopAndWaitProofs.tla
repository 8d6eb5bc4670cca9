-------------------------- MODULE MCLoopAndWaitProofs --------------------------
(***************************************************************************)
(* For any runners and any finite set of items, the pointers of            *)
(* manual_event_loop are at every moment those of one queue, the one that  *)
(* the loop promises.  A call of sync_wait() returns when nothing uses its *)
(* frame any more.                                                         *)
(***************************************************************************)
EXTENDS MCLoopAndWait, SequencesExt, FiniteSetTheorems, WellFoundedInduction, TLAPS

-----------------------------------------------------------------------------
(* Induction, over a set *)

LEMMA LeastNumber ==
    ASSUME NEW S \in SUBSET Nat, S # {}
    PROVE  \E n \in S : \A m \in S : n <= m
<1> DEFINE Less == {pair \in Nat \X Nat : pair[1] < pair[2]}
<1>1. Less = OpToRel(<, Nat)
  BY DEF OpToRel
<1>2. IsWellFoundedOn(Less, Nat)
  BY <1>1, NatLessThanWellFounded
<1>3. ASSUME NEW n \in Nat, NEW m \in Nat, m < n PROVE <<m, n>> \in Less
  BY <1>3
<1> HIDE DEF Less
<1>4. PICK n \in S : \A m \in S : ~(<<m, n>> \in Less)
  BY <1>2, WFMin
<1>5. \A m \in S : ~(m < n)
  BY <1>3, <1>4
<1> QED BY <1>4, <1>5

LEMMA SetInduction ==
    ASSUME NEW S, 0 \in S, \A n \in Nat : n \in S => n + 1 \in S
    PROVE  Nat \subseteq S
<1> SUFFICES ASSUME Nat \ S # {} PROVE FALSE
  OBVIOUS
<1>1. PICK n \in Nat \ S : \A m \in Nat \ S : n <= m
  BY LeastNumber
<1>2. n # 0 /\ n - 1 \in Nat
  BY <1>1
<1>3. n - 1 \in S
  BY <1>1, <1>2
<1>4. (n - 1) + 1 \in S
  BY <1>2, <1>3
<1> QED BY <1>1, <1>4

-----------------------------------------------------------------------------
(* Doubly linked queues.  The nodes of a sequence s of items are the head, *)
(* the items, and null.                                                    *)
Node(s, n) == IF n = 0 THEN "head" ELSE IF n \in 1..Len(s) THEN s[n] ELSE "null"

(* The pointers c to the next node and p to the one before, and the        *)
(* address l of the last pointer, describe the sequence s of items of I.   *)
IsPath(s, I, c, p, l) ==
    /\ s \in Seq(I)
    /\ \A m, n \in 1..Len(s) : s[m] = s[n] => m = n
    /\ \A n \in 0..Len(s) : c[Node(s, n)] = Node(s, n + 1)
    /\ \A n \in 1..Len(s) : p[s[n]] = Node(s, n - 1)
    /\ \A i \in I : p[i] # "null" => \E n \in 1..Len(s) : s[n] = i
    /\ l = Node(s, Len(s))

Apart(I) == I \cap {"null", "head"} = {}

Pointers(I, c, p) == /\ c \in [I \cup {"head"} -> I \cup {"null"}]
                     /\ p \in [I -> (I \cup {"head"}) \cup {"null"}]

(* No node comes twice, and null is at the end only. *)
LEMMA NodesDiffer ==
    ASSUME NEW I, Apart(I), NEW s \in Seq(I),
           \A m, n \in 1..Len(s) : s[m] = s[n] => m = n
    PROVE  /\ \A n \in 0..Len(s) : Node(s, n) \in I \cup {"head"}
           /\ \A n \in 1..Len(s) : Node(s, n) = s[n] /\ s[n] \in I
           /\ Node(s, 0) = "head" /\ Node(s, Len(s) + 1) = "null"
           /\ \A m, n \in 0..Len(s) : Node(s, m) = Node(s, n) => m = n
<1>1. Len(s) \in Nat /\ \A n \in 1..Len(s) : s[n] \in I
  OBVIOUS
<1>2. \A n \in 1..Len(s) : Node(s, n) = s[n] /\ s[n] \in I
  BY <1>1 DEF Node
<1>3. Node(s, 0) = "head" /\ Node(s, Len(s) + 1) = "null"
  BY <1>1 DEF Node
<1>4. \A n \in 0..Len(s) : n = 0 \/ n \in 1..Len(s)
  BY <1>1
<1>5. \A n \in 0..Len(s) : Node(s, n) \in I \cup {"head"}
  BY <1>2, <1>3, <1>4
<1>6. "head" \notin I
  BY DEF Apart
<1>7. ASSUME NEW m \in 0..Len(s), NEW n \in 0..Len(s), Node(s, m) = Node(s, n) PROVE m = n
  BY <1>2, <1>3, <1>4, <1>6, <1>7
<1> QED BY <1>2, <1>3, <1>5, <1>7

(* An item is put behind the last one. *)
LEMMA AppendedPath ==
    ASSUME NEW I, Apart(I), NEW c, NEW p, Pointers(I, c, p), NEW l, NEW s,
           IsPath(s, I, c, p, l), NEW i \in I, p[i] = "null", c[i] = "null"
    PROVE  IsPath(Append(s, i), I, [c EXCEPT ![l] = i], [p EXCEPT ![i] = l], i)
<1> DEFINE u == Append(s, i)
           d == [c EXCEPT ![l] = i]
           q == [p EXCEPT ![i] = l]
<1>1. /\ s \in Seq(I) /\ Len(s) \in Nat /\ l = Node(s, Len(s))
      /\ \A m, n \in 1..Len(s) : s[m] = s[n] => m = n
      /\ \A n \in 0..Len(s) : c[Node(s, n)] = Node(s, n + 1)
      /\ \A n \in 1..Len(s) : p[s[n]] = Node(s, n - 1)
      /\ \A j \in I : p[j] # "null" => \E n \in 1..Len(s) : s[n] = j
  BY DEF IsPath
<1>2. /\ \A n \in 0..Len(s) : Node(s, n) \in I \cup {"head"}
      /\ \A n \in 1..Len(s) : Node(s, n) = s[n] /\ s[n] \in I
      /\ Node(s, 0) = "head" /\ Node(s, Len(s) + 1) = "null"
      /\ \A m, n \in 0..Len(s) : Node(s, m) = Node(s, n) => m = n
  BY <1>1, NodesDiffer
<1>3. "null" \notin I /\ "head" \notin I /\ l \in I \cup {"head"}
  BY <1>1, <1>2 DEF Apart
<1>4. \A n \in 1..Len(s) : s[n] # i
  <2> SUFFICES ASSUME NEW n \in 1..Len(s), s[n] = i PROVE FALSE
    OBVIOUS
  <2>1. n - 1 \in 0..Len(s)
    BY <1>1
  <2>2. p[i] \in I \cup {"head"}
    BY <1>1, <1>2, <2>1
  <2> QED BY <1>3, <2>2
<1>5. /\ u \in Seq(I) /\ Len(u) = Len(s) + 1 /\ u[Len(s) + 1] = i
      /\ \A n \in 1..Len(s) : u[n] = s[n]
  BY <1>1
<1> HIDE DEF u
<1>6. \A m, n \in 1..Len(u) : u[m] = u[n] => m = n
  <2> SUFFICES ASSUME NEW m \in 1..Len(u), NEW n \in 1..Len(u), u[m] = u[n] PROVE m = n
    OBVIOUS
  <2>1. (m \in 1..Len(s) \/ m = Len(s) + 1) /\ (n \in 1..Len(s) \/ n = Len(s) + 1)
    BY <1>1, <1>5
  <2> QED BY <1>1, <1>4, <1>5, <2>1
<1>7. /\ \A n \in 0..Len(s) : Node(u, n) = Node(s, n)
      /\ Node(u, Len(s) + 1) = i /\ Node(u, Len(s) + 2) = "null"
  BY <1>1, <1>5 DEF Node
<1>8. /\ d[l] = i /\ q[i] = l
      /\ \A x \in I \cup {"head"} : x # l => d[x] = c[x]
      /\ \A x \in I : x # i => q[x] = p[x]
  BY <1>3 DEF Pointers
<1> HIDE DEF d, q
<1>9. \A n \in 0..Len(u) : d[Node(u, n)] = Node(u, n + 1)
  <2> SUFFICES ASSUME NEW n \in 0..Len(u) PROVE d[Node(u, n)] = Node(u, n + 1)
    OBVIOUS
  <2>1. CASE n \in 0..(Len(s) - 1)
    <3>1. n \in 0..Len(s) /\ n + 1 \in 0..Len(s) /\ Len(s) \in 0..Len(s) /\ n # Len(s)
      BY <1>1, <2>1
    <3>2. Node(s, n) # l /\ Node(s, n) \in I \cup {"head"}
      BY <1>1, <1>2, <3>1
    <3> QED BY <1>1, <1>7, <1>8, <3>1, <3>2
  <2>2. CASE n = Len(s)
    <3>1. n \in 0..Len(s)
      BY <1>1, <2>2
    <3> QED BY <1>1, <1>7, <1>8, <2>2, <3>1
  <2>3. CASE n = Len(s) + 1
    <3>1. i # l
      <4>1. l = "head" \/ l \in {s[k] : k \in 1..Len(s)}
        BY <1>1, <1>2
      <4> QED BY <1>3, <1>4, <4>1
    <3>2. n + 1 = Len(s) + 2
      BY <1>1, <2>3
    <3> QED BY <1>7, <1>8, <2>3, <3>1, <3>2
  <2> QED BY <1>1, <1>5, <2>1, <2>2, <2>3
<1>10. \A n \in 1..Len(u) : q[u[n]] = Node(u, n - 1)
  <2> SUFFICES ASSUME NEW n \in 1..Len(u) PROVE q[u[n]] = Node(u, n - 1)
    OBVIOUS
  <2>1. CASE n \in 1..Len(s)
    <3>1. n - 1 \in 0..Len(s) /\ u[n] = s[n] /\ s[n] \in I /\ s[n] # i
      BY <1>1, <1>2, <1>4, <1>5, <2>1
    <3>2. q[s[n]] = p[s[n]] /\ p[s[n]] = Node(s, n - 1) /\ Node(u, n - 1) = Node(s, n - 1)
      BY <1>1, <1>7, <1>8, <2>1, <3>1
    <3> QED BY <3>1, <3>2
  <2>2. CASE n = Len(s) + 1
    <3>1. n - 1 = Len(s) /\ Len(s) \in 0..Len(s)
      BY <1>1, <2>2
    <3> QED BY <1>1, <1>5, <1>7, <1>8, <2>2, <3>1
  <2> QED BY <1>1, <1>5, <2>1, <2>2
<1>11. \A j \in I : q[j] # "null" => \E n \in 1..Len(u) : u[n] = j
  <2> SUFFICES ASSUME NEW j \in I, q[j] # "null" PROVE \E n \in 1..Len(u) : u[n] = j
    OBVIOUS
  <2>1. CASE j = i
    <3>1. Len(s) + 1 \in 1..Len(u)
      BY <1>1, <1>5
    <3> QED BY <1>5, <2>1, <3>1
  <2>2. CASE j # i
    <3>1. PICK n \in 1..Len(s) : s[n] = j
      BY <1>1, <1>8, <2>2
    <3>2. n \in 1..Len(u) /\ u[n] = j
      BY <1>1, <1>5, <3>1
    <3> QED BY <3>2
  <2> QED BY <2>1, <2>2
<1>12. i = Node(u, Len(u))
  BY <1>5, <1>7
<1>13. IsPath(u, I, d, q, i)
  BY <1>5, <1>6, <1>9, <1>10, <1>11, <1>12 DEF IsPath
<1> QED BY <1>13 DEF u, d, q

(* The item at a place is taken out, by its neighbours' pointers. *)
LEMMA RemovedPath ==
    ASSUME NEW I, Apart(I), NEW c, NEW p, Pointers(I, c, p), NEW l, NEW s,
           IsPath(s, I, c, p, l), NEW k \in 1..Len(s), NEW i, i = s[k]
    PROVE  IsPath(RemoveAt(s, k), I, [c EXCEPT ![p[i]] = c[i]],
                  [j \in I |-> IF j = i THEN "null" ELSE IF j = c[i] THEN p[i] ELSE p[j]],
                  IF c[i] = "null" THEN p[i] ELSE l)
<1> DEFINE u == RemoveAt(s, k)
           d == [c EXCEPT ![p[i]] = c[i]]
           q == [j \in I |-> IF j = i THEN "null" ELSE IF j = c[i] THEN p[i] ELSE p[j]]
           e == IF c[i] = "null" THEN p[i] ELSE l
<1>1. /\ s \in Seq(I) /\ Len(s) \in Nat /\ l = Node(s, Len(s))
      /\ \A m, n \in 1..Len(s) : s[m] = s[n] => m = n
      /\ \A n \in 0..Len(s) : c[Node(s, n)] = Node(s, n + 1)
      /\ \A n \in 1..Len(s) : p[s[n]] = Node(s, n - 1)
      /\ \A j \in I : p[j] # "null" => \E n \in 1..Len(s) : s[n] = j
  BY DEF IsPath
<1>2. /\ \A n \in 0..Len(s) : Node(s, n) \in I \cup {"head"}
      /\ \A n \in 1..Len(s) : Node(s, n) = s[n] /\ s[n] \in I
      /\ Node(s, 0) = "head" /\ Node(s, Len(s) + 1) = "null"
      /\ \A m, n \in 0..Len(s) : Node(s, m) = Node(s, n) => m = n
  BY <1>1, NodesDiffer
<1>3. "null" \notin I /\ "head" \notin I /\ i \in I
  BY <1>1, <1>2 DEF Apart
<1>4. /\ u \in Seq(I) /\ Len(u) = Len(s) - 1
      /\ \A n \in 1..Len(u) : u[n] = IF n < k THEN s[n] ELSE s[n + 1]
  <2> DEFINE a == SubSeq(s, 1, k - 1)
             b == SubSeq(s, k + 1, Len(s))
  <2>1. a \in Seq(I) /\ Len(a) = k - 1 /\ \A n \in 1..(k - 1) : a[n] = s[n]
    BY <1>1
  <2>2. b \in Seq(I) /\ Len(b) = Len(s) - k /\ \A n \in 1..(Len(s) - k) : b[n] = s[k + n]
    BY <1>1
  <2>3. u = a \o b
    BY <1>1 DEF RemoveAt
  <2> HIDE DEF a, b, u
  <2>4. /\ u \in Seq(I) /\ Len(u) = Len(s) - 1
        /\ \A n \in 1..Len(u) : u[n] = IF n <= k - 1 THEN a[n] ELSE b[n - (k - 1)]
    <3>1. a \in Seq(I) /\ b \in Seq(I)
      BY <2>1, <2>2
    <3>2. /\ u \in Seq(I) /\ Len(u) = Len(a) + Len(b)
          /\ \A n \in 1..(Len(a) + Len(b)) :
                u[n] = IF n <= Len(a) THEN a[n] ELSE b[n - Len(a)]
      BY ONLY <2>3, <3>1
    <3> QED BY <1>1, <2>1, <2>2, <3>2
  <2>5. ASSUME NEW n \in 1..Len(u) PROVE u[n] = IF n < k THEN s[n] ELSE s[n + 1]
    <3>1. CASE n < k
      BY <1>1, <2>1, <2>4, <3>1
    <3>2. CASE ~(n < k)
      <4>1. n - (k - 1) \in 1..(Len(s) - k) /\ k + (n - (k - 1)) = n + 1 /\ ~(n <= k - 1)
        BY <1>1, <2>4, <3>2
      <4> QED BY <2>2, <2>4, <3>2, <4>1
    <3> QED BY <3>1, <3>2
  <2> QED BY <2>4, <2>5
<1> HIDE DEF u
<1>5. \A n \in 0..(Len(u) + 1) : Node(u, n) = IF n < k THEN Node(s, n) ELSE Node(s, n + 1)
  <2> SUFFICES ASSUME NEW n \in 0..(Len(u) + 1)
               PROVE  Node(u, n) = IF n < k THEN Node(s, n) ELSE Node(s, n + 1)
    OBVIOUS
  <2>1. CASE n = 0
    BY <1>1, <2>1 DEF Node
  <2>2. CASE n \in 1..Len(u)
    <3>1. Node(u, n) = u[n] /\ n \in 1..Len(s) /\ n + 1 \in 1..Len(s)
      BY <1>1, <1>4, <2>2 DEF Node
    <3> QED BY <1>2, <1>4, <2>2, <3>1
  <2>3. CASE n = Len(u) + 1
    <3>1. Node(u, n) = "null" /\ ~(n < k) /\ n + 1 = Len(s) + 1
      BY <1>1, <1>4, <2>3 DEF Node
    <3> QED BY <1>2, <3>1
  <2>4. n = 0 \/ n \in 1..Len(u) \/ n = Len(u) + 1
    <3>1. Len(u) \in Nat
      BY <1>4
    <3> QED BY <3>1
  <2> QED BY <2>1, <2>2, <2>3, <2>4
<1>6. /\ p[i] = Node(s, k - 1) /\ c[i] = Node(s, k + 1)
      /\ k - 1 \in 0..Len(s) /\ k \in 0..Len(s) /\ p[i] \in I \cup {"head"}
  BY <1>1, <1>2
<1>7. /\ d[p[i]] = c[i]
      /\ \A x \in I \cup {"head"} : x # p[i] => d[x] = c[x]
      /\ q[i] = "null"
      /\ \A x \in I : x # i => q[x] = IF x = c[i] THEN p[i] ELSE p[x]
  BY <1>3, <1>6 DEF Pointers
<1> HIDE DEF d, q
<1>8. \A m, n \in 1..Len(u) : u[m] = u[n] => m = n
  <2> SUFFICES ASSUME NEW m \in 1..Len(u), NEW n \in 1..Len(u), u[m] = u[n] PROVE m = n
    OBVIOUS
  <2> DEFINE f(x) == IF x < k THEN x ELSE x + 1
  <2>1. f(m) \in 1..Len(s) /\ f(n) \in 1..Len(s) /\ u[m] = s[f(m)] /\ u[n] = s[f(n)]
    BY <1>1, <1>4
  <2>2. f(m) = f(n)
    BY <1>1, <2>1
  <2> QED BY <1>1, <1>4, <2>2
<1>9. \A n \in 0..Len(u) : d[Node(u, n)] = Node(u, n + 1)
  <2> SUFFICES ASSUME NEW n \in 0..Len(u) PROVE d[Node(u, n)] = Node(u, n + 1)
    OBVIOUS
  <2>0. /\ n \in 0..(Len(u) + 1) /\ n + 1 \in 0..(Len(u) + 1)
        /\ n \in 0..Len(s) /\ n + 1 \in 0..Len(s)
    BY <1>1, <1>4
  <2>1. CASE n < k - 1
    <3>1. n < k /\ n + 1 < k /\ n # k - 1
      BY <1>1, <2>1
    <3>2. Node(u, n) = Node(s, n) /\ Node(u, n + 1) = Node(s, n + 1)
      BY <1>5, <2>0, <3>1
    <3>3. Node(s, n) # p[i] /\ Node(s, n) \in I \cup {"head"}
      BY <1>2, <1>6, <2>0, <3>1
    <3> QED BY <1>1, <1>7, <2>0, <3>2, <3>3
  <2>2. CASE n = k - 1
    <3>1. n < k /\ ~(n + 1 < k) /\ (n + 1) + 1 = k + 1
      BY <1>1, <2>2
    <3>2. Node(u, n) = Node(s, n) /\ Node(u, n + 1) = Node(s, k + 1)
      BY <1>5, <2>0, <3>1
    <3> QED BY <1>6, <1>7, <2>2, <3>2
  <2>3. CASE n >= k
    <3>1. ~(n < k) /\ ~(n + 1 < k) /\ n + 1 # k - 1
      BY <1>1, <2>3
    <3>2. Node(u, n) = Node(s, n + 1) /\ Node(u, n + 1) = Node(s, (n + 1) + 1)
      BY <1>5, <2>0, <3>1
    <3>3. Node(s, n + 1) # p[i] /\ Node(s, n + 1) \in I \cup {"head"}
      BY <1>2, <1>6, <2>0, <3>1
    <3> QED BY <1>1, <1>7, <2>0, <3>2, <3>3
  <2> QED BY <1>1, <2>0, <2>1, <2>2, <2>3
<1>10. \A n \in 1..Len(u) : q[u[n]] = Node(u, n - 1)
  <2> SUFFICES ASSUME NEW n \in 1..Len(u) PROVE q[u[n]] = Node(u, n - 1)
    OBVIOUS
  <2>0. /\ n - 1 \in 0..(Len(u) + 1) /\ n \in 1..Len(s) /\ n + 1 \in 1..Len(s)
        /\ (n + 1) - 1 = n /\ (n - 1) + 1 = n
    BY <1>1, <1>4
  <2>1. CASE n < k
    <3>1. u[n] = s[n] /\ Node(u, n - 1) = Node(s, n - 1)
      BY <1>1, <1>4, <1>5, <2>0, <2>1
    <3>2. s[n] # i /\ s[n] \in I
      BY <1>1, <1>2, <2>0, <2>1
    <3>3. s[n] # c[i]
      <4>1. CASE k = Len(s)
        BY <1>2, <1>3, <1>6, <3>2, <4>1
      <4>2. CASE k # Len(s)
        <5>1. k + 1 \in 1..Len(s) /\ n # k + 1
          BY <1>1, <2>1, <4>2
        <5> QED BY <1>1, <1>2, <1>6, <2>0, <5>1
      <4> QED BY <4>1, <4>2
    <3>4. q[s[n]] = p[s[n]] /\ p[s[n]] = Node(s, n - 1)
      BY <1>1, <1>7, <2>0, <3>2, <3>3
    <3> QED BY <3>1, <3>4
  <2>2. CASE n = k
    <3>1. u[n] = s[n + 1] /\ Node(u, n - 1) = Node(s, k - 1)
      BY <1>1, <1>4, <1>5, <2>0, <2>2
    <3>2. s[n + 1] # i /\ s[n + 1] \in I /\ s[n + 1] = c[i]
      BY <1>1, <1>2, <1>6, <2>0, <2>2
    <3> QED BY <1>6, <1>7, <3>1, <3>2
  <2>3. CASE n > k
    <3>1. u[n] = s[n + 1] /\ Node(u, n - 1) = Node(s, n)
      <4>1. k \in Nat /\ ~(n < k) /\ ~(n - 1 < k)
        BY <1>1, <2>0, <2>3
      <4>2. u[n] = s[n + 1]
        BY <1>4, <4>1
      <4>3. Node(u, n - 1) = Node(s, (n - 1) + 1)
        BY <1>5, <2>0, <4>1
      <4> QED BY <2>0, <4>2, <4>3
    <3>2. k + 1 \in 1..Len(s) /\ n + 1 # k + 1 /\ n + 1 # k
      BY <1>1, <2>0, <2>3
    <3>3. s[n + 1] # i /\ s[n + 1] \in I /\ s[n + 1] # c[i]
      BY <1>1, <1>2, <1>6, <2>0, <3>2
    <3>4. q[s[n + 1]] = p[s[n + 1]] /\ p[s[n + 1]] = Node(s, (n + 1) - 1)
      BY <1>1, <1>7, <2>0, <3>3
    <3> QED BY <2>0, <3>1, <3>4
  <2> QED BY <1>1, <2>0, <2>1, <2>2, <2>3
<1>11. ASSUME NEW m \in 1..Len(s), m # k PROVE \E n \in 1..Len(u) : u[n] = s[m]
  <2>1. CASE m < k
    <3>1. m \in 1..Len(u) /\ u[m] = s[m]
      BY <1>1, <1>4, <2>1
    <3> QED BY <3>1
  <2>2. CASE m > k
    <3>1. m - 1 \in 1..Len(u) /\ ~(m - 1 < k) /\ (m - 1) + 1 = m
      BY <1>1, <1>4, <2>2
    <3> QED BY <1>4, <3>1
  <2> QED BY <1>1, <1>11, <2>1, <2>2
<1>12. \A j \in I : q[j] # "null" => \E n \in 1..Len(u) : u[n] = j
  <2> SUFFICES ASSUME NEW j \in I, q[j] # "null" PROVE \E n \in 1..Len(u) : u[n] = j
    OBVIOUS
  <2>1. j # i
    BY <1>7
  <2>2. \E m \in 1..Len(s) : s[m] = j
    <3>1. CASE j = c[i]
      <4>1. k # Len(s)
        BY <1>2, <1>3, <1>6, <3>1
      <4>2. k + 1 \in 1..Len(s)
        BY <1>1, <4>1
      <4> QED BY <1>2, <1>6, <3>1, <4>2
    <3>2. CASE j # c[i]
      BY <1>1, <1>7, <2>1, <3>2
    <3> QED BY <3>1, <3>2
  <2>3. PICK m \in 1..Len(s) : s[m] = j
    BY <2>2
  <2> QED BY <1>11, <2>1, <2>3
<1>13. e = Node(u, Len(u))
  <2>0. Len(u) \in 0..(Len(u) + 1) /\ Len(u) = Len(s) - 1
    BY <1>1, <1>4
  <2>1. CASE k = Len(s)
    <3>1. Node(u, Len(u)) = Node(s, k - 1)
      BY <1>1, <1>5, <2>0, <2>1
    <3> QED BY <1>2, <1>6, <2>1, <3>1
  <2>2. CASE k # Len(s)
    <3>1. ~(Len(u) < k) /\ Len(u) + 1 = Len(s) /\ k + 1 \in 0..Len(s)
      BY <1>1, <2>0, <2>2
    <3>2. Node(u, Len(u)) = l
      BY <1>1, <1>5, <2>0, <3>1
    <3>3. c[i] # "null"
      BY <1>2, <1>3, <1>6, <3>1
    <3> QED BY <3>2, <3>3
  <2> QED BY <2>1, <2>2
<1> HIDE DEF e
<1>14. IsPath(u, I, d, q, e)
  BY <1>4, <1>8, <1>9, <1>10, <1>12, <1>13 DEF IsPath
<1> QED BY <1>14 DEF u, d, q, e

-----------------------------------------------------------------------------
(* The loop *)

(* The pointers are those of a queue. *)
LoopPath(s) == IsPath(s, Items, cell, prev_next, last_next)

(* What was not started is not in the loop yet, what is queued or run has  *)
(* not completed, and what is queued nobody runs, or one runner does.      *)
ItemsFit ==
    /\ \A i \in Items : outcome[i] = "unstarted" =>
           prev_next[i] = "null" /\ cell[i] = "null" /\ \A r \in Runners : item[r] # i
    /\ \A i \in Items : prev_next[i] # "null" =>
           outcome[i] = "none" /\ \A r \in Runners : item[r] # i
    /\ \A r \in Runners : item[r] # "null" => outcome[item[r]] = "none"
    /\ \A q, r \in Runners : item[q] # "null" /\ item[q] = item[r] => q = r

LoopInv == Loop!TypeOk /\ (\E s : LoopPath(s)) /\ ItemsFit

USE NamesAreApart DEF Loop!Null, Loop!HeadCell, Loop!Free

LEMMA LoopNames == Apart(Items) /\ "free" \notin Runners
BY DEF Apart

LEMMA LoopPointers == ASSUME Loop!TypeOk PROVE Pointers(Items, cell, prev_next)
BY DEF Loop!TypeOk, Pointers, Loop!Cells

(* The first and the queued items *)
LEMMA PathEnds == ASSUME Loop!TypeOk, NEW s, LoopPath(s)
                  PROVE  /\ s \in Seq(Items) /\ Len(s) \in Nat
                         /\ cell["head"] = "null" <=> s = <<>>
                         /\ s # <<>> => /\ cell["head"] = s[1] /\ s[1] \in Items
                                        /\ 1 \in 1..Len(s)
                         /\ \A n \in 1..Len(s) : s[n] \in Items /\ prev_next[s[n]] # "null"
                         /\ \A i \in Items : prev_next[i] # "null" =>
                                \E n \in 1..Len(s) : s[n] = i
<1>1. /\ s \in Seq(Items) /\ Len(s) \in Nat
      /\ \A m, n \in 1..Len(s) : s[m] = s[n] => m = n
      /\ \A n \in 0..Len(s) : cell[Node(s, n)] = Node(s, n + 1)
      /\ \A n \in 1..Len(s) : prev_next[s[n]] = Node(s, n - 1)
      /\ \A i \in Items : prev_next[i] # "null" => \E n \in 1..Len(s) : s[n] = i
  BY DEF LoopPath, IsPath
<1>2. /\ \A n \in 0..Len(s) : Node(s, n) \in Items \cup {"head"}
      /\ \A n \in 1..Len(s) : Node(s, n) = s[n] /\ s[n] \in Items
      /\ Node(s, 0) = "head" /\ Node(s, Len(s) + 1) = "null"
  BY <1>1, LoopNames, NodesDiffer
<1>3. cell["head"] = Node(s, 1)
  <2>1. 0 \in 0..Len(s) /\ 0 + 1 = 1
    BY <1>1
  <2> QED BY <1>1, <1>2, <2>1
<1>4. CASE s = <<>>
  <2>1. Len(s) = 0
    BY <1>4
  <2> QED BY <1>1, <1>2, <1>3, <1>4, <2>1
<1>5. CASE s # <<>>
  <2>1. 1 \in 1..Len(s)
    BY <1>1, <1>5
  <2>2. cell["head"] = s[1] /\ s[1] \in Items
    BY <1>2, <1>3, <2>1
  <2>3. \A n \in 1..Len(s) : prev_next[s[n]] # "null"
    <3> SUFFICES ASSUME NEW n \in 1..Len(s) PROVE prev_next[s[n]] # "null"
      OBVIOUS
    <3>1. n - 1 \in 0..Len(s)
      BY <1>1
    <3> QED BY <1>1, <1>2, <3>1
  <2> QED BY <1>1, <1>2, <1>5, <2>1, <2>2, <2>3
<1> QED BY <1>4, <1>5

(* The queue, as it is read from the pointers, is the only one there is.   *)
LEMMA QueueIs == ASSUME Loop!TypeOk, NEW s, LoopPath(s) PROVE Loop!Queue = s
<1> DEFINE C == Cardinality(Items)
           G(f) == [n \in 1..C + 1 |->
                       LET before == IF n = 1 THEN "head" ELSE f[n - 1]
                       IN  IF before = "null" THEN "null" ELSE cell[before]]
           w == [n \in 1..C + 1 |-> Node(s, n)]
<1>1. /\ s \in Seq(Items) /\ Len(s) \in Nat
      /\ \A m, n \in 1..Len(s) : s[m] = s[n] => m = n
      /\ \A n \in 0..Len(s) : cell[Node(s, n)] = Node(s, n + 1)
      /\ \A n \in 1..Len(s) : prev_next[s[n]] # "null"
      /\ \A i \in Items : prev_next[i] # "null" => \E n \in 1..Len(s) : s[n] = i
  BY PathEnds DEF LoopPath, IsPath
<1>2. /\ \A n \in 0..Len(s) : Node(s, n) \in Items \cup {"head"}
      /\ \A n \in 1..Len(s) : Node(s, n) = s[n] /\ s[n] \in Items
      /\ Node(s, 0) = "head"
      /\ \A n \in Nat : n > Len(s) => Node(s, n) = "null"
  <2>1. \A n \in Nat : n > Len(s) => Node(s, n) = "null"
    BY <1>1 DEF Node
  <2> QED BY <1>1, <2>1, LoopNames, NodesDiffer
<1>3. "null" \notin Items
  BY LoopNames DEF Apart
<1>4. Cardinality(1..Len(s)) = Len(s)
  <2>1. Cardinality(1..Len(s)) = IF 1 > Len(s) THEN 0 ELSE Len(s) - 1 + 1
    BY <1>1, FS_Interval
  <2> QED BY <1>1, <2>1
<1>5. Len(s) <= C /\ C \in Nat
  <2>1. s \in [1..Len(s) -> Items]
    BY <1>1
  <2>2. s \in Injection(1..Len(s), Items)
    BY <1>1, <2>1 DEF Injection, IsInjective
  <2> QED BY <1>4, <2>2, FS_Injection, FS_CardinalityType, ItemsAreFinite
<1>6. Loop!Length = Len(s)
  <2> DEFINE Q == {i \in Items : prev_next[i] # "null"}
  <2>1. s \in [1..Len(s) -> Q]
    BY <1>1, <1>2
  <2>2. \A i \in Q : \E n \in 1..Len(s) : s[n] = i
    BY <1>1
  <2>3. s \in Surjection(1..Len(s), Q)
    BY <2>1, <2>2 DEF Surjection
  <2>4. s \in Injection(1..Len(s), Q)
    BY <1>1, <2>1 DEF Injection, IsInjective
  <2>5. IsFiniteSet(Q) /\ IsFiniteSet(1..Len(s))
    BY <1>1, ItemsAreFinite, FS_Subset, FS_Interval
  <2>6. Cardinality(1..Len(s)) <= Cardinality(Q)
    BY <2>4, <2>5, FS_Injection
  <2>7. Cardinality(Q) <= Cardinality(1..Len(s))
    BY <2>3, <2>5, FS_Surjection
  <2>8. Cardinality(Q) = Len(s)
    BY <1>1, <1>4, <2>5, <2>6, <2>7, FS_CardinalityType
  <2>9. Loop!Length = Cardinality(Q)
    BY DEF Loop!Length, Loop!Cardinality, Cardinality
  <2> QED BY <2>8, <2>9
<1>7. Loop!Nth = CHOOSE f : f = G(f)
  <2>1. Loop!Cardinality(Items) = C
    BY DEF Loop!Cardinality, Cardinality
  <2> HIDE DEF C
  <2> QED BY <2>1 DEF Loop!Nth
<1> HIDE DEF C
<1>8. w = G(w)
  <2> SUFFICES ASSUME NEW n \in 1..C + 1
               PROVE  w[n] = LET before == IF n = 1 THEN "head" ELSE w[n - 1]
                             IN  IF before = "null" THEN "null" ELSE cell[before]
    BY Zenon
  <2>1. n \in Nat /\ n - 1 \in Nat /\ (n - 1) + 1 = n /\ w[n] = Node(s, n)
    BY <1>5
  <2>2. (IF n = 1 THEN "head" ELSE w[n - 1]) = Node(s, n - 1)
    BY <1>2, <1>5
  <2>3. CASE n - 1 \in 0..Len(s)
    <3>1. Node(s, n - 1) # "null" /\ cell[Node(s, n - 1)] = Node(s, n)
      BY <1>1, <1>2, <1>3, <2>1, <2>3
    <3> QED BY <2>1, <2>2, <3>1
  <2>4. CASE n - 1 > Len(s)
    <3>1. Node(s, n - 1) = "null" /\ Node(s, n) = "null"
      BY <1>1, <1>2, <2>1, <2>4
    <3> QED BY <2>1, <2>2, <3>1
  <2> QED BY <1>1, <2>1, <2>3, <2>4
<1>9. Loop!Nth = G(Loop!Nth)
  <2> HIDE DEF G, w
  <2> QED BY <1>7, <1>8
<1>10. \A n \in 1..C + 1 :
          Loop!Nth[n] = LET before == IF n = 1 THEN "head" ELSE Loop!Nth[n - 1]
                        IN  IF before = "null" THEN "null" ELSE cell[before]
  <2> DEFINE f == Loop!Nth
  <2> HIDE DEF f
  <2>1. f = G(f)
    BY <1>9 DEF f
  <2>2. \A n \in 1..C + 1 :
          f[n] = LET before == IF n = 1 THEN "head" ELSE f[n - 1]
                 IN  IF before = "null" THEN "null" ELSE cell[before]
    BY <2>1
  <2> QED BY <2>2 DEF f
<1> HIDE DEF G, w
<1>11. Nat \subseteq {n \in Nat : n + 1 <= Len(s) => Loop!Nth[n + 1] = s[n + 1]}
  <2> DEFINE Agree == {n \in Nat : n + 1 <= Len(s) => Loop!Nth[n + 1] = s[n + 1]}
  <2>1. 0 \in Agree
    <3> SUFFICES ASSUME 1 <= Len(s) PROVE Loop!Nth[1] = s[1]
      OBVIOUS
    <3>1. 1 \in 1..C + 1 /\ 1 \in 1..Len(s) /\ 0 \in 0..Len(s) /\ 0 + 1 = 1
      BY <1>1, <1>5
    <3>2. Loop!Nth[1] = cell["head"]
      BY <1>10, <3>1
    <3> QED BY <1>1, <1>2, <3>1, <3>2
  <2>2. ASSUME NEW n \in Nat, n \in Agree PROVE n + 1 \in Agree
    <3> SUFFICES ASSUME n + 2 <= Len(s) PROVE Loop!Nth[n + 2] = s[n + 2]
      OBVIOUS
    <3>1. /\ n + 2 \in 1..C + 1 /\ n + 2 # 1 /\ (n + 2) - 1 = n + 1 /\ (n + 1) + 1 = n + 2
          /\ n + 1 \in 1..Len(s) /\ n + 2 \in 1..Len(s) /\ n + 1 \in 0..Len(s)
      BY <1>1, <1>5
    <3>2. Loop!Nth[n + 1] = s[n + 1] /\ s[n + 1] # "null" /\ Node(s, n + 1) = s[n + 1]
      BY <1>2, <1>3, <2>2, <3>1
    <3>3. Loop!Nth[n + 2] = cell[s[n + 1]]
      BY <1>10, <3>1, <3>2
    <3>4. cell[s[n + 1]] = Node(s, n + 2) /\ Node(s, n + 2) = s[n + 2]
      BY <1>1, <1>2, <3>1, <3>2
    <3> QED BY <3>3, <3>4
  <2> HIDE DEF Agree
  <2>3. Nat \subseteq Agree
    BY <2>1, <2>2, SetInduction
  <2> QED BY <2>3 DEF Agree
<1>12. \A n \in 1..Len(s) : Loop!Nth[n] = s[n]
  <2> SUFFICES ASSUME NEW n \in 1..Len(s) PROVE Loop!Nth[n] = s[n]
    OBVIOUS
  <2>1. n - 1 \in Nat /\ (n - 1) + 1 = n /\ n <= Len(s)
    BY <1>1
  <2> QED BY <1>11, <2>1
<1>13. s = [n \in 1..Len(s) |-> s[n]]
  BY <1>1
<1> QED BY <1>6, <1>12, <1>13 DEF Loop!Queue

-----------------------------------------------------------------------------
(* The steps of the loop *)

PathAfter(s) == IsPath(s, Items, cell', prev_next', last_next')

LEMMA EnqueueStep ==
    ASSUME LoopInv, NEW i \in Items, Loop!Enqueue(i), NEW s, LoopPath(s)
    PROVE  /\ PathAfter(Append(s, i))
           /\ Pointers(Items, cell', prev_next') /\ last_next' \in Items \cup {"head"}
           /\ \A j \in Items \ {i} : /\ prev_next'[j] = prev_next[j]
                                     /\ prev_next[j] = "null" => cell'[j] = cell[j]
           /\ prev_next[i] = "null" /\ \A r \in Runners : item[r] # i
<1>1. Pointers(Items, cell, prev_next) /\ last_next \in Items \cup {"head"}
  BY LoopPointers DEF LoopInv, Loop!TypeOk, Loop!Cells
<1>2. /\ prev_next[i] = "null" /\ cell[i] = "null"
      /\ \A r \in Runners : item[r] # i
  BY DEF LoopInv, ItemsFit, Loop!Enqueue
<1>3. /\ cell' = [cell EXCEPT ![last_next] = i]
      /\ prev_next' = [prev_next EXCEPT ![i] = last_next]
      /\ last_next' = i
  BY DEF Loop!Enqueue
<1>4. PathAfter(Append(s, i))
  BY <1>1, <1>2, <1>3, LoopNames, AppendedPath DEF LoopPath, PathAfter
<1>5. Pointers(Items, cell', prev_next') /\ last_next' \in Items \cup {"head"}
  BY <1>1, <1>3 DEF Pointers
<1>6. last_next = "head" \/ \E n \in 1..Len(s) : last_next = s[n]
  BY DEF LoopPath, IsPath, Node
<1>7. \A j \in Items : prev_next[j] = "null" => last_next # j
  <2>1. "head" \notin Items /\ \A n \in 1..Len(s) : prev_next[s[n]] # "null"
    BY PathEnds, LoopNames DEF LoopInv, Apart
  <2> QED BY <1>6, <2>1
<1>8. \A j \in Items \ {i} : /\ prev_next'[j] = prev_next[j]
                             /\ prev_next[j] = "null" => cell'[j] = cell[j]
  BY <1>1, <1>3, <1>7 DEF Pointers
<1> QED BY <1>2, <1>4, <1>5, <1>8

LEMMA UnlinkStep ==
    ASSUME LoopInv, NEW s, LoopPath(s), NEW k \in 1..Len(s), NEW i, i = s[k],
           Loop!Unlink(i)
    PROVE  /\ PathAfter(RemoveAt(s, k))
           /\ Pointers(Items, cell', prev_next') /\ last_next' \in Items \cup {"head"}
           /\ i \in Items /\ prev_next[i] # "null" /\ prev_next'[i] = "null"
           /\ \A j \in Items \ {i} : /\ prev_next'[j] # "null" => prev_next[j] # "null"
                                     /\ prev_next[j] = "null" => cell'[j] = cell[j]
<1>1. Pointers(Items, cell, prev_next) /\ last_next \in Items \cup {"head"}
  BY LoopPointers DEF LoopInv, Loop!TypeOk, Loop!Cells
<1>2. /\ cell' = [cell EXCEPT ![prev_next[i]] = cell[i]]
      /\ last_next' = IF cell[i] = "null" THEN prev_next[i] ELSE last_next
      /\ prev_next' = [j \in Items |-> IF j = i THEN "null"
                                       ELSE IF j = cell[i] THEN prev_next[i]
                                       ELSE prev_next[j]]
  BY DEF Loop!Unlink
<1>3. PathAfter(RemoveAt(s, k))
  <2>1. IsPath(RemoveAt(s, k), Items, [cell EXCEPT ![prev_next[i]] = cell[i]],
               [j \in Items |-> IF j = i THEN "null"
                                ELSE IF j = cell[i] THEN prev_next[i]
                                ELSE prev_next[j]],
               IF cell[i] = "null" THEN prev_next[i] ELSE last_next)
    <3>1. IsPath(s, Items, cell, prev_next, last_next)
      BY DEF LoopPath
    <3> QED BY <1>1, <3>1, LoopNames, RemovedPath
  <2> QED BY <1>2, <2>1 DEF PathAfter
<1>4. /\ i \in Items /\ prev_next[i] # "null" /\ s \in Seq(Items) /\ Len(s) \in Nat
      /\ \A n \in 1..Len(s) : s[n] \in Items /\ prev_next[s[n]] # "null"
  BY PathEnds DEF LoopInv
<1>5. Pointers(Items, cell', prev_next') /\ last_next' \in Items \cup {"head"}
  BY <1>1, <1>2, <1>4 DEF Pointers
<1>6. /\ prev_next[i] = "head" \/ \E n \in 1..Len(s) : prev_next[i] = s[n]
      /\ cell[i] = "null" \/ \E n \in 1..Len(s) : cell[i] = s[n]
  <2>1. /\ prev_next[i] = Node(s, k - 1) /\ cell[Node(s, k)] = Node(s, k + 1)
        /\ Node(s, k) = i
    <3>1. k \in 0..Len(s)
      BY <1>4
    <3> QED BY <3>1 DEF LoopPath, IsPath, Node
  <2> QED BY <2>1 DEF Node
<1>7. \A j \in Items : prev_next[j] = "null" => prev_next[i] # j /\ cell[i] # j
  <2>1. "head" \notin Items /\ "null" \notin Items
    BY LoopNames DEF Apart
  <2> QED BY <1>4, <1>6, <2>1
<1>8. \A j \in Items \ {i} : /\ prev_next'[j] # "null" => prev_next[j] # "null"
                             /\ prev_next[j] = "null" => cell'[j] = cell[j]
  BY <1>1, <1>2, <1>4, <1>7 DEF Pointers
<1> QED BY <1>2, <1>3, <1>4, <1>5, <1>8

(* Taking the first item is unlinking it. *)
LEMMA DequeueStep ==
    ASSUME LoopInv, NEW s, LoopPath(s), cell["head"] # "null", Loop!Dequeue
    PROVE  /\ s # <<>> /\ s \in Seq(Items) /\ 1 \in 1..Len(s) /\ cell["head"] = s[1]
           /\ Loop!Unlink(s[1])
<1>1. /\ s # <<>> /\ s \in Seq(Items) /\ 1 \in 1..Len(s)
      /\ cell["head"] = s[1] /\ s[1] \in Items
  BY PathEnds DEF LoopInv
<1>2. prev_next[s[1]] = "head"
  BY <1>1 DEF LoopPath, IsPath, Node
<1>3. Loop!Unlink(s[1])
  BY <1>1, <1>2 DEF Loop!Dequeue, Loop!Unlink
<1> QED BY <1>1, <1>3

(* The invariant from its parts *)

LEMMA LoopTypes ==
    ASSUME Pointers(Items, cell', prev_next'), last_next' \in Items \cup {"head"},
           mut' \in Runners \cup {"free"},
           stop_requested' \in [Runners -> BOOLEAN],
           stopping' \in [Runners -> {"no", "wake", "done"}],
           pc' \in [Runners -> Loop!Labels],
           item' \in [Runners -> Items \cup {"null"}],
           outcome' \in [Items -> {"unstarted", "none", "value", "stopped"}],
           \A r \in Runners : (item'[r] # "null") <=> (pc'[r] = "executing")
    PROVE  Loop!TypeOk'
BY DEF Loop!TypeOk, Loop!Cells, Pointers, Loop!Labels

LEMMA LoopTyped ==
    ASSUME LoopInv
    PROVE  /\ Pointers(Items, cell, prev_next) /\ last_next \in Items \cup {"head"}
           /\ mut \in Runners \cup {"free"}
           /\ stop_requested \in [Runners -> BOOLEAN]
           /\ stopping \in [Runners -> {"no", "wake", "done"}]
           /\ pc \in [Runners -> Loop!Labels]
           /\ item \in [Runners -> Items \cup {"null"}]
           /\ outcome \in [Items -> {"unstarted", "none", "value", "stopped"}]
           /\ \A r \in Runners : (item[r] # "null") <=> (pc[r] = "executing")
BY DEF LoopInv, Loop!TypeOk, Loop!Cells, Pointers

(* A step that leaves the queue, the items and what became of them alone *)
LEMMA QuietStep ==
    ASSUME LoopInv, UNCHANGED <<cell, prev_next, last_next, item, outcome>>,
           mut' \in Runners \cup {"free"},
           stop_requested' \in [Runners -> BOOLEAN],
           stopping' \in [Runners -> {"no", "wake", "done"}],
           pc' \in [Runners -> Loop!Labels],
           \A r \in Runners : pc'[r] = "executing" <=> pc[r] = "executing"
    PROVE  LoopInv'
<1>1. Loop!TypeOk'
  <2>1. Pointers(Items, cell', prev_next') /\ last_next' \in Items \cup {"head"}
    BY LoopTyped
  <2>2. /\ item' \in [Runners -> Items \cup {"null"}]
        /\ outcome' \in [Items -> {"unstarted", "none", "value", "stopped"}]
    BY LoopTyped
  <2>3. \A r \in Runners : (item'[r] # "null") <=> (pc'[r] = "executing")
    BY LoopTyped
  <2> QED BY <2>1, <2>2, <2>3, LoopTypes
<1>2. (\E s : LoopPath(s))'
  BY DEF LoopInv, LoopPath
<1>3. ItemsFit'
  BY DEF LoopInv, ItemsFit
<1> QED BY <1>1, <1>2, <1>3 DEF LoopInv

(* A notified runner was waiting. *)
LEMMA Notified ==
    ASSUME LoopInv, Loop!NotifyOne \/ Loop!NotifyAll
    PROVE  /\ pc' \in [Runners -> Loop!Labels]
           /\ \A r \in Runners : pc'[r] = "executing" <=> pc[r] = "executing"
<1>1. pc \in [Runners -> Loop!Labels] /\ "relock" \in Loop!Labels
  BY LoopTyped DEF Loop!Labels
<1>2. CASE Loop!NotifyAll
  BY <1>1, <1>2 DEF Loop!NotifyAll
<1>3. CASE Loop!NotifyOne
  <2>1. CASE UNCHANGED pc
    BY <1>1, <2>1
  <2>2. CASE \E r \in Runners : pc[r] = "waiting" /\ pc' = [pc EXCEPT ![r] = "relock"]
    BY <1>1, <2>2
  <2> QED BY <1>3, <2>1, <2>2 DEF Loop!NotifyOne, Loop!Goto
<1> QED BY <1>2, <1>3

LEMMA LoopInit == Loop!Init => LoopInv
<1> SUFFICES ASSUME Loop!Init PROVE LoopInv
  OBVIOUS
<1>1. Loop!TypeOk
  BY DEF Loop!Init, Loop!TypeOk, Loop!Cells, Loop!Labels
<1>2. LoopPath(<<>>)
  <2>1. <<>> \in Seq(Items) /\ Len(<<>>) = 0
    OBVIOUS
  <2>2. cell["head"] = "null" /\ Node(<<>>, 0) = "head" /\ Node(<<>>, 1) = "null"
    BY DEF Loop!Init, Loop!Cells, Node
  <2>3. \A n \in 0..0 : n = 0 /\ n + 1 = 1
    OBVIOUS
  <2>4. (\A i \in Items : prev_next[i] = "null") /\ last_next = "head"
    BY DEF Loop!Init
  <2> QED BY <2>1, <2>2, <2>3, <2>4 DEF LoopPath, IsPath
<1>3. ItemsFit
  BY DEF Loop!Init, ItemsFit, Loop!Cells
<1> QED BY <1>1, <1>2, <1>3 DEF LoopInv

LEMMA EnqueueKeeps == ASSUME LoopInv, NEW i \in Items, Loop!Enqueue(i) PROVE LoopInv'
<1>1. PICK s : LoopPath(s)
  BY DEF LoopInv
<1>2. /\ PathAfter(Append(s, i))
      /\ Pointers(Items, cell', prev_next') /\ last_next' \in Items \cup {"head"}
      /\ \A j \in Items \ {i} : /\ prev_next'[j] = prev_next[j]
                                /\ prev_next[j] = "null" => cell'[j] = cell[j]
      /\ prev_next[i] = "null" /\ \A r \in Runners : item[r] # i
  BY <1>1, EnqueueStep
<1>3. /\ outcome[i] = "unstarted" /\ outcome' = [outcome EXCEPT ![i] = "none"]
      /\ Loop!NotifyOne \/ UNCHANGED pc
      /\ UNCHANGED <<mut, stop_requested, stopping, item>>
  BY DEF Loop!Enqueue, Loop!stopVars
<1>4. /\ pc' \in [Runners -> Loop!Labels]
      /\ \A r \in Runners : pc'[r] = "executing" <=> pc[r] = "executing"
  <2>1. CASE UNCHANGED pc
    BY <2>1, LoopTyped
  <2> QED BY <1>3, <2>1, Notified
<1>5. Loop!TypeOk'
  <2>1. /\ mut' \in Runners \cup {"free"}
        /\ stop_requested' \in [Runners -> BOOLEAN]
        /\ stopping' \in [Runners -> {"no", "wake", "done"}]
        /\ item' \in [Runners -> Items \cup {"null"}]
        /\ outcome' \in [Items -> {"unstarted", "none", "value", "stopped"}]
    BY <1>3, LoopTyped
  <2>2. \A r \in Runners : (item'[r] # "null") <=> (pc'[r] = "executing")
    BY <1>3, <1>4, LoopTyped
  <2> QED BY <1>2, <1>4, <2>1, <2>2, LoopTypes
<1>6. ItemsFit'
  <2>1. ItemsFit /\ outcome \in [Items -> {"unstarted", "none", "value", "stopped"}]
    BY LoopTyped DEF LoopInv
  <2>2. outcome'[i] = "none" /\ \A j \in Items \ {i} : outcome'[j] = outcome[j]
    BY <1>3, <2>1
  <2>3. item' = item /\ item \in [Runners -> Items \cup {"null"}]
    BY <1>3, LoopTyped
  <2>4. ASSUME NEW j \in Items, outcome'[j] = "unstarted"
        PROVE  /\ prev_next'[j] = "null" /\ cell'[j] = "null"
               /\ \A r \in Runners : item'[r] # j
    BY <1>2, <2>1, <2>2, <2>3, <2>4 DEF ItemsFit
  <2>5. ASSUME NEW j \in Items, prev_next'[j] # "null"
        PROVE  outcome'[j] = "none" /\ \A r \in Runners : item'[r] # j
    BY <1>2, <2>1, <2>2, <2>3, <2>5 DEF ItemsFit
  <2>6. ASSUME NEW r \in Runners, item'[r] # "null" PROVE outcome'[item'[r]] = "none"
    <3>1. item[r] \in Items \ {i}
      BY <1>2, <2>3, <2>6
    <3> QED BY <2>1, <2>2, <2>3, <2>6, <3>1 DEF ItemsFit
  <2>7. \A q, r \in Runners : item'[q] # "null" /\ item'[q] = item'[r] => q = r
    BY <2>1, <2>3 DEF ItemsFit
  <2> QED BY <2>4, <2>5, <2>6, <2>7 DEF ItemsFit
<1>7. (\E u : LoopPath(u))'
  BY <1>2 DEF LoopPath, PathAfter
<1> QED BY <1>5, <1>6, <1>7 DEF LoopInv

LEMMA TryRemoveKeeps ==
    ASSUME LoopInv, NEW i \in Items, Loop!TryRemove(i)
    PROVE  LoopInv' /\ \E s : LoopPath(s) /\ \E k \in 1..Len(s) :
                           s[k] = i /\ PathAfter(RemoveAt(s, k))
<1>1. PICK s : LoopPath(s)
  BY DEF LoopInv
<1>2. /\ prev_next[i] # "null" /\ Loop!Unlink(i)
      /\ outcome' = [outcome EXCEPT ![i] = "stopped"]
      /\ UNCHANGED <<mut, stop_requested, stopping, pc, item>>
  BY DEF Loop!TryRemove, Loop!stopVars
<1>3. PICK k \in 1..Len(s) : s[k] = i
  BY <1>1, <1>2, PathEnds DEF LoopInv
<1>4. /\ PathAfter(RemoveAt(s, k))
      /\ Pointers(Items, cell', prev_next') /\ last_next' \in Items \cup {"head"}
      /\ prev_next'[i] = "null"
      /\ \A j \in Items \ {i} : /\ prev_next'[j] # "null" => prev_next[j] # "null"
                                /\ prev_next[j] = "null" => cell'[j] = cell[j]
  BY <1>1, <1>2, <1>3, UnlinkStep
<1>5. Loop!TypeOk'
  <2>1. /\ mut' \in Runners \cup {"free"}
        /\ stop_requested' \in [Runners -> BOOLEAN]
        /\ stopping' \in [Runners -> {"no", "wake", "done"}]
        /\ pc' \in [Runners -> Loop!Labels]
        /\ item' \in [Runners -> Items \cup {"null"}]
        /\ outcome' \in [Items -> {"unstarted", "none", "value", "stopped"}]
    BY <1>2, LoopTyped
  <2>2. \A r \in Runners : (item'[r] # "null") <=> (pc'[r] = "executing")
    BY <1>2, LoopTyped
  <2> QED BY <1>4, <2>1, <2>2, LoopTypes
<1>6. ItemsFit'
  <2>1. ItemsFit /\ outcome \in [Items -> {"unstarted", "none", "value", "stopped"}]
    BY LoopTyped DEF LoopInv
  <2>2. outcome'[i] = "stopped" /\ \A j \in Items \ {i} : outcome'[j] = outcome[j]
    BY <1>2, <2>1
  <2>3. item' = item /\ item \in [Runners -> Items \cup {"null"}]
    BY <1>2, LoopTyped
  <2>4. ASSUME NEW j \in Items, outcome'[j] = "unstarted"
        PROVE  /\ prev_next'[j] = "null" /\ cell'[j] = "null"
               /\ \A r \in Runners : item'[r] # j
    BY <1>4, <2>1, <2>2, <2>3, <2>4 DEF ItemsFit
  <2>5. ASSUME NEW j \in Items, prev_next'[j] # "null"
        PROVE  outcome'[j] = "none" /\ \A r \in Runners : item'[r] # j
    BY <1>4, <2>1, <2>2, <2>3, <2>5 DEF ItemsFit
  <2>6. ASSUME NEW r \in Runners, item'[r] # "null" PROVE outcome'[item'[r]] = "none"
    <3>1. item[r] \in Items \ {i}
      BY <1>2, <2>1, <2>3, <2>6 DEF ItemsFit
    <3> QED BY <2>1, <2>2, <2>3, <2>6, <3>1 DEF ItemsFit
  <2>7. \A q, r \in Runners : item'[q] # "null" /\ item'[q] = item'[r] => q = r
    BY <2>1, <2>3 DEF ItemsFit
  <2> QED BY <2>4, <2>5, <2>6, <2>7 DEF ItemsFit
<1>7. (\E u : LoopPath(u))'
  BY <1>4 DEF LoopPath, PathAfter
<1> QED BY <1>1, <1>3, <1>4, <1>5, <1>6, <1>7 DEF LoopInv

LEMMA TakeKeeps ==
    ASSUME LoopInv, NEW r \in Runners, cell["head"] # "null", pc[r] # "executing",
           Loop!Take(r), UNCHANGED <<Loop!stopVars, outcome>>
    PROVE  LoopInv' /\ \E s : LoopPath(s) /\ \E k \in 1..Len(s) :
                           /\ k = 1 /\ s[k] = cell["head"] /\ s \in Seq(Items)
                           /\ PathAfter(RemoveAt(s, k))
<1>1. PICK s : LoopPath(s)
  BY DEF LoopInv
<1> DEFINE i == cell["head"]
<1>2. /\ Loop!Dequeue
      /\ item' = [item EXCEPT ![r] = i]
      /\ mut' = "free"
      /\ pc' = [pc EXCEPT ![r] = "executing"]
      /\ UNCHANGED <<stop_requested, stopping, outcome>>
  BY DEF Loop!Take, Loop!Goto, Loop!stopVars
<1>3. s \in Seq(Items) /\ 1 \in 1..Len(s) /\ i = s[1] /\ Loop!Unlink(i)
  BY <1>1, <1>2, DequeueStep
<1> HIDE DEF i
<1>4. /\ PathAfter(RemoveAt(s, 1))
      /\ Pointers(Items, cell', prev_next') /\ last_next' \in Items \cup {"head"}
      /\ i \in Items /\ prev_next[i] # "null" /\ prev_next'[i] = "null"
      /\ \A j \in Items \ {i} : /\ prev_next'[j] # "null" => prev_next[j] # "null"
                                /\ prev_next[j] = "null" => cell'[j] = cell[j]
  BY <1>1, <1>3, UnlinkStep
<1>5. /\ item \in [Runners -> Items \cup {"null"}] /\ item[r] = "null" /\ i # "null"
      /\ item'[r] = i /\ \A q \in Runners \ {r} : item'[q] = item[q]
  BY <1>2, <1>4, LoopTyped, LoopNames DEF Apart
<1>6. Loop!TypeOk'
  <2>1. /\ mut' \in Runners \cup {"free"}
        /\ stop_requested' \in [Runners -> BOOLEAN]
        /\ stopping' \in [Runners -> {"no", "wake", "done"}]
        /\ item' \in [Runners -> Items \cup {"null"}]
        /\ outcome' \in [Items -> {"unstarted", "none", "value", "stopped"}]
    BY <1>2, <1>4, LoopTyped
  <2>2. /\ pc \in [Runners -> Loop!Labels] /\ pc' \in [Runners -> Loop!Labels]
        /\ pc'[r] = "executing" /\ \A q \in Runners \ {r} : pc'[q] = pc[q]
    BY <1>2, LoopTyped DEF Loop!Labels
  <2>3. \A q \in Runners : (item'[q] # "null") <=> (pc'[q] = "executing")
    BY <1>5, <2>2, LoopTyped
  <2> QED BY <1>4, <2>1, <2>2, <2>3, LoopTypes
<1>7. ItemsFit'
  <2>1. ItemsFit /\ outcome' = outcome
    BY <1>2 DEF LoopInv
  <2>2. outcome[i] = "none" /\ \A q \in Runners : item[q] # i
    BY <1>4, <2>1 DEF ItemsFit
  <2>3. ASSUME NEW j \in Items, outcome'[j] = "unstarted"
        PROVE  /\ prev_next'[j] = "null" /\ cell'[j] = "null"
               /\ \A q \in Runners : item'[q] # j
    <3>1. /\ j # i /\ prev_next[j] = "null" /\ cell[j] = "null"
          /\ \A q \in Runners : item[q] # j
      BY <2>1, <2>2, <2>3 DEF ItemsFit
    <3> QED BY <1>4, <1>5, <3>1
  <2>4. ASSUME NEW j \in Items, prev_next'[j] # "null"
        PROVE  outcome'[j] = "none" /\ \A q \in Runners : item'[q] # j
    <3>1. j # i /\ prev_next[j] # "null"
      BY <1>4, <2>4
    <3>2. outcome[j] = "none" /\ \A q \in Runners : item[q] # j
      BY <2>1, <3>1 DEF ItemsFit
    <3> QED BY <1>5, <2>1, <3>1, <3>2
  <2>5. ASSUME NEW q \in Runners, item'[q] # "null" PROVE outcome'[item'[q]] = "none"
    BY <1>5, <2>1, <2>2, <2>5 DEF ItemsFit
  <2>6. ASSUME NEW p \in Runners, NEW q \in Runners,
               item'[p] # "null", item'[p] = item'[q]
        PROVE  p = q
    BY <1>5, <2>1, <2>2, <2>6 DEF ItemsFit
  <2> QED BY <2>3, <2>4, <2>5, <2>6 DEF ItemsFit
<1>8. (\E u : LoopPath(u))'
  BY <1>4 DEF LoopPath, PathAfter
<1> QED BY <1>1, <1>3, <1>4, <1>6, <1>7, <1>8 DEF LoopInv, i

LEMMA ExecuteKeeps == ASSUME LoopInv, NEW r \in Runners, Loop!Execute(r)
                      PROVE  /\ LoopInv' /\ item[r] \in Items /\ item[r] # "null"
                             /\ \E s : LoopPath(s) /\ PathAfter(s)
<1> DEFINE i == item[r]
<1>1. /\ pc[r] = "executing"
      /\ outcome' = [outcome EXCEPT ![i] = "value"]
      /\ item' = [item EXCEPT ![r] = "null"]
      /\ pc' = [pc EXCEPT ![r] = "lock"]
      /\ UNCHANGED <<cell, prev_next, last_next, mut, stop_requested, stopping>>
  BY DEF Loop!Execute, Loop!Goto, Loop!queueVars, Loop!stopVars
<1>2. i \in Items /\ i # "null"
  BY <1>1, LoopTyped
<1>3. /\ item'[r] = "null" /\ \A q \in Runners \ {r} : item'[q] = item[q]
      /\ outcome'[i] = "value" /\ \A j \in Items \ {i} : outcome'[j] = outcome[j]
      /\ pc'[r] = "lock" /\ \A q \in Runners \ {r} : pc'[q] = pc[q]
  BY <1>1, <1>2, LoopTyped
<1>4. Loop!TypeOk'
  <2>1. /\ mut' \in Runners \cup {"free"}
        /\ stop_requested' \in [Runners -> BOOLEAN]
        /\ stopping' \in [Runners -> {"no", "wake", "done"}]
        /\ item' \in [Runners -> Items \cup {"null"}]
        /\ outcome' \in [Items -> {"unstarted", "none", "value", "stopped"}]
        /\ pc' \in [Runners -> Loop!Labels]
    BY <1>1, <1>2, LoopTyped DEF Loop!Labels
  <2>2. \A q \in Runners : (item'[q] # "null") <=> (pc'[q] = "executing")
    BY <1>3, LoopTyped
  <2>3. Pointers(Items, cell', prev_next') /\ last_next' \in Items \cup {"head"}
    BY <1>1, LoopTyped
  <2> QED BY <2>1, <2>2, <2>3, LoopTypes
<1>5. ItemsFit'
  <2>1. ItemsFit /\ prev_next' = prev_next /\ cell' = cell
    BY <1>1 DEF LoopInv
  <2>2. outcome[i] = "none" /\ prev_next[i] = "null" /\ \A q \in Runners \ {r} : item[q] # i
    BY <1>2, <2>1 DEF ItemsFit
  <2>3. ASSUME NEW j \in Items, outcome'[j] = "unstarted"
        PROVE  /\ prev_next'[j] = "null" /\ cell'[j] = "null"
               /\ \A q \in Runners : item'[q] # j
    <3>1. /\ j # i /\ prev_next[j] = "null" /\ cell[j] = "null"
          /\ \A q \in Runners : item[q] # j
      BY <1>3, <2>1, <2>3 DEF ItemsFit
    <3>2. j # "null"
      BY LoopNames DEF Apart
    <3> QED BY <1>3, <2>1, <3>1, <3>2
  <2>4. ASSUME NEW j \in Items, prev_next'[j] # "null"
        PROVE  outcome'[j] = "none" /\ \A q \in Runners : item'[q] # j
    <3>1. j # i /\ outcome[j] = "none" /\ \A q \in Runners : item[q] # j
      BY <2>1, <2>2, <2>4 DEF ItemsFit
    <3>2. j # "null"
      BY LoopNames DEF Apart
    <3> QED BY <1>3, <3>1, <3>2
  <2>5. ASSUME NEW q \in Runners, item'[q] # "null" PROVE outcome'[item'[q]] = "none"
    <3>1. q # r /\ item'[q] = item[q] /\ item[q] \in Items \ {i}
      BY <1>3, <2>2, <2>5, LoopTyped
    <3> QED BY <1>3, <2>1, <3>1, <2>5 DEF ItemsFit
  <2>6. ASSUME NEW p \in Runners, NEW q \in Runners,
               item'[p] # "null", item'[p] = item'[q]
        PROVE  p = q
    BY <1>3, <2>1, <2>6 DEF ItemsFit
  <2> QED BY <2>3, <2>4, <2>5, <2>6 DEF ItemsFit
<1>6. PICK s : LoopPath(s)
  BY DEF LoopInv
<1>7. PathAfter(s) /\ (\E u : LoopPath(u))'
  BY <1>1, <1>6 DEF LoopPath, PathAfter
<1> QED BY <1>2, <1>4, <1>5, <1>6, <1>7 DEF LoopInv

(* Everything a step can do to the queue and the items *)
LEMMA LoopSteps ==
    ASSUME LoopInv, Loop!Next
    PROVE  \/ \E i \in Items : Loop!Enqueue(i) \/ Loop!TryRemove(i)
           \/ \E r \in Runners : /\ cell["head"] # "null" /\ pc[r] # "executing"
                                 /\ Loop!Take(r) /\ UNCHANGED <<Loop!stopVars, outcome>>
           \/ \E r \in Runners : Loop!Execute(r)
           \/ LoopInv' /\ UNCHANGED <<cell, prev_next, last_next, item, outcome>>
<1>1. SUFFICES ASSUME NEW r \in Runners,
                      \/ Loop!Run(r) \/ Loop!Lock(r) \/ Loop!Predicate(r) \/ Loop!Block(r)
                      \/ Loop!Relock(r) \/ Loop!Return(r) \/ Loop!WakeSpuriously(r)
                      \/ Loop!TestAndSet(r) \/ Loop!WakeRunThreads(r)
               PROVE  \/ /\ cell["head"] # "null" /\ pc[r] # "executing"
                         /\ Loop!Take(r) /\ UNCHANGED <<Loop!stopVars, outcome>>
                      \/ LoopInv' /\ UNCHANGED <<cell, prev_next, last_next, item, outcome>>
  BY DEF Loop!Next, Loop!RunnerStep
<1>2. /\ mut \in Runners \cup {"free"} /\ pc \in [Runners -> Loop!Labels]
      /\ stop_requested \in [Runners -> BOOLEAN]
      /\ stopping \in [Runners -> {"no", "wake", "done"}]
  BY LoopTyped
<1>3. ASSUME NEW label \in Loop!Labels \ {"executing"}, pc[r] # "executing",
             pc' = [pc EXCEPT ![r] = label],
             mut' \in Runners \cup {"free"},
             UNCHANGED <<cell, prev_next, last_next, item, outcome, stop_requested, stopping>>
      PROVE  LoopInv'
  <2>1. /\ pc' \in [Runners -> Loop!Labels]
        /\ \A q \in Runners : pc'[q] = "executing" <=> pc[q] = "executing"
    BY <1>2, <1>3
  <2> QED BY <1>2, <1>3, <2>1, QuietStep
<1>4. {"lock", "predicate", "block", "waiting", "relock", "leaving", "returned"}
          \subseteq Loop!Labels \ {"executing"}
  BY DEF Loop!Labels
<1> USE DEF Loop!Goto, Loop!queueVars, Loop!stopVars
<1>5. CASE Loop!Run(r)
  BY <1>2, <1>3, <1>4, <1>5 DEF Loop!Run
<1>6. CASE Loop!Lock(r)
  BY <1>2, <1>3, <1>4, <1>6 DEF Loop!Lock
<1>7. CASE Loop!Predicate(r)
  BY <1>2, <1>3, <1>4, <1>7 DEF Loop!Predicate
<1>8. CASE Loop!Block(r)
  BY <1>2, <1>3, <1>4, <1>8 DEF Loop!Block
<1>9. CASE Loop!Relock(r)
  BY <1>2, <1>3, <1>4, <1>9 DEF Loop!Relock
<1>10. CASE Loop!Return(r)
  BY <1>2, <1>3, <1>4, <1>10 DEF Loop!Return
<1>11. CASE Loop!WakeSpuriously(r)
  BY <1>2, <1>3, <1>4, <1>11 DEF Loop!WakeSpuriously
<1>12. CASE Loop!TestAndSet(r)
  BY <1>2, <1>12, QuietStep DEF Loop!TestAndSet
<1>13. CASE Loop!WakeRunThreads(r)
  BY <1>2, <1>13, Notified, QuietStep DEF Loop!WakeRunThreads
<1> QED BY <1>1, <1>5, <1>6, <1>7, <1>8, <1>9, <1>10, <1>11, <1>12, <1>13

LEMMA LoopNext == LoopInv /\ Loop!Next => LoopInv'
BY LoopSteps, EnqueueKeeps, TryRemoveKeeps, TakeKeeps, ExecuteKeeps

LEMMA LoopStutters == LoopInv /\ UNCHANGED loopVars => LoopInv'
BY LoopTyped, QuietStep DEF loopVars

-----------------------------------------------------------------------------
(* What the invariant says of the pointers *)

QueueFits == \A s : Loop!TypeOk /\ LoopPath(s) => Loop!Queue = s

LEMMA QueueIsThePath == QueueFits
BY QueueIs DEF QueueFits

LEMMA LoopInvFits == LoopInv => Loop!PointersFit
<1> SUFFICES ASSUME LoopInv PROVE Loop!PointersFit
  OBVIOUS
<1>1. PICK s : LoopPath(s)
  BY DEF LoopInv
<1>2. Loop!TypeOk /\ ItemsFit /\ Loop!Queue = s
  BY <1>1, QueueIs DEF LoopInv
<1>3. /\ s \in Seq(Items) /\ Len(s) \in Nat
      /\ \A n \in 0..Len(s) : cell[Node(s, n)] = Node(s, n + 1)
      /\ \A n \in 1..Len(s) : prev_next[s[n]] = Node(s, n - 1)
      /\ last_next = Node(s, Len(s))
      /\ \A n \in 1..Len(s) : s[n] \in Items /\ prev_next[s[n]] # "null"
      /\ \A i \in Items : prev_next[i] # "null" => \E n \in 1..Len(s) : s[n] = i
  BY <1>1, <1>2, PathEnds DEF LoopPath, IsPath
<1>4. "head" \notin Items /\ "null" \notin Items
  BY LoopNames DEF Apart
<1>5. Loop!Length = Len(s)
  <2>1. DOMAIN Loop!Queue = 1..Loop!Length
    BY DEF Loop!Queue
  <2>2. Loop!Length \in Nat
    <3> DEFINE Q == {i \in Items : prev_next[i] # "null"}
    <3>1. Cardinality(Q) \in Nat
      BY ItemsAreFinite, FS_Subset, FS_CardinalityType
    <3> QED BY <3>1 DEF Loop!Length, Loop!Cardinality, Cardinality
  <2>3. 1..Loop!Length = 1..Len(s)
    BY <1>2, <1>3, <2>1
  <2> HIDE DEF Loop!Length
  <2> QED BY <1>3, <2>2, <2>3
<1>6. Loop!ListIsWellFormed
  <2>1. ASSUME NEW n \in 1..Len(s)
        PROVE  /\ s[n] \in Items
               /\ prev_next[s[n]] = IF n = 1 THEN "head" ELSE s[n - 1]
    BY <1>3 DEF Node
  <2>2. last_next = IF Len(s) = 0 THEN "head" ELSE s[Len(s)]
    BY <1>3 DEF Node
  <2>3. cell[last_next] = "null"
    <3>1. Len(s) \in 0..Len(s) /\ Node(s, Len(s) + 1) = "null"
      BY <1>3 DEF Node
    <3> QED BY <1>3, <3>1
  <2> QED BY <1>2, <1>5, <2>1, <2>2, <2>3 DEF Loop!ListIsWellFormed
<1>7. Loop!CompletedIsForgotten
  <2> SUFFICES ASSUME NEW i \in Items, Loop!Completed(i)
               PROVE  /\ prev_next[i] = "null" /\ last_next # i
                      /\ \A c \in Items \cup {"head"} :
                             cell[c] = i => c # "head" /\ prev_next[c] = "null"
                      /\ \A r \in Runners : item[r] # i
    BY DEF Loop!CompletedIsForgotten, Loop!Cells
  <2>1. prev_next[i] = "null" /\ \A r \in Runners : item[r] # i
    BY <1>2, <1>4 DEF ItemsFit, Loop!Completed
  <2>2. \A n \in Nat : Node(s, n) # i
    BY <1>3, <1>4, <2>1 DEF Node
  <2>3. last_next # i
    BY <1>3, <2>2
  <2>4. ASSUME NEW c \in Items \cup {"head"}, cell[c] = i
        PROVE  c # "head" /\ prev_next[c] = "null"
    <3>1. \A n \in 0..Len(s) : Node(s, n) # c
      <4> SUFFICES ASSUME NEW n \in 0..Len(s), Node(s, n) = c PROVE FALSE
        OBVIOUS
      <4>1. n \in Nat /\ n + 1 \in Nat /\ cell[c] = Node(s, n + 1)
        BY <1>3
      <4> QED BY <2>2, <2>4, <4>1
    <3>2. c # "head"
      <4>1. 0 \in 0..Len(s) /\ Node(s, 0) = "head"
        BY <1>3 DEF Node
      <4> QED BY <3>1, <4>1
    <3>3. \A n \in 1..Len(s) : s[n] # c
      <4> SUFFICES ASSUME NEW n \in 1..Len(s), s[n] = c PROVE FALSE
        OBVIOUS
      <4>1. n \in 0..Len(s) /\ Node(s, n) = s[n]
        BY <1>3 DEF Node
      <4> QED BY <3>1, <4>1
    <3> QED BY <1>3, <3>2, <3>3
  <2> QED BY <2>1, <2>3, <2>4
<1> QED BY <1>2, <1>6, <1>7 DEF Loop!PointersFit

-----------------------------------------------------------------------------
(* sync_wait(): the one call, its worker, and the item that the sender may *)
(* have scheduled on the loop.                                             *)

Main == w_place["main"]
Worker == w_place["worker"]
Runner == w_pc["main"]

(* Inside request_stop(), and while the callback is being run *)
Completing == {"request_stop", "on_stop", "wake", "callback_done", "finish_request"}
RunsCallback(t) == \/ w_place[t] \in {"on_stop", "wake", "callback_done"}
                   \/ w_place[t] = "finish_request" /\ w_req[t] = "store_done"

(* A place in sync_wait() and one in the loop's run() *)
PlacesFit ==
    /\ Main \in {"idle", "construct", "registered", "inline_stop", "inline_wake",
                 "inline_done"} => Runner = "idle"
    /\ Main \in {"store_result", "request_stop"} => Runner \in {"idle", "lock"}
    /\ Main \in {"on_stop", "wake", "callback_done", "finish_request"} => Runner = "lock"
    /\ Main = "run" => Runner \notin {"idle", "returned"}
    /\ Main = "run_stopped" => Runner \in {"lock", "leaving"}
    /\ Main = "deregister" => Runner = "leaving"
    /\ Main = "returned" => Runner = "returned"
    /\ Main # "working"
    /\ Worker \in {"idle", "working", "store_result", "returned"} \cup Completing
    /\ w_mut = "main" <=> Runner \in {"predicate", "block"}

(* The item is in the queue from its start until the runner takes it. *)
ChildFits ==
    /\ IF w_outcome["child"] = "none" /\ w_item["main"] = "null"
       THEN /\ w_cell["head"] = "child"
            /\ w_prev_next["child"] = "head" /\ w_last_next = "child"
       ELSE /\ w_cell["head"] = "null"
            /\ w_prev_next["child"] = "null" /\ w_last_next = "head"
    /\ w_cell["child"] = "null"
    /\ w_outcome["child"] # "stopped"
    /\ w_item["main"] = "child" => w_outcome["child"] = "none"

(* As long as there is no result one of three is bound to store it: the    *)
(* main thread inside start() or an item, the worker, or the item.         *)
ResultFits ==
    /\ Main = "idle" => /\ w_result = 0 /\ Worker = "idle"
                        /\ w_outcome["child"] = "unstarted"
    /\ Main # "idle" /\ w_result = 0 =>
           \/ /\ Main = "store_result" /\ Worker \in {"idle", "returned"}
              /\ w_outcome["child"] # "none"
           \/ /\ Main # "store_result" /\ Worker \in {"working", "store_result"}
              /\ w_outcome["child"] = "unstarted"
           \/ /\ Main # "store_result" /\ Worker \in {"idle", "returned"}
              /\ w_outcome["child"] = "none"
    /\ w_result = 0 => Main \notin Completing /\ Worker \notin Completing
    /\ w_result = 1 => /\ Main # "store_result"
                       /\ Worker \notin {"working", "store_result"}
                       /\ w_outcome["child"] # "none"
    /\ Main \in Completing => Worker \in {"idle", "returned"}

(* Each thread's place in request_stop() *)
RequestsFit ==
    \A t \in {"main", "worker"} :
        /\ w_place[t] = "on_stop" => w_req[t] \in {"store_id", "execute"}
        /\ w_place[t] \in {"wake", "callback_done"} => w_req[t] = "execute"
        /\ w_place[t] = "finish_request" => w_req[t] \in {"store_done", "notify", "out"}
        /\ w_place[t] \notin {"on_stop", "wake", "callback_done", "finish_request"} =>
               w_req[t] = "out"
        /\ w_req[t] \in {"execute", "store_done"} => w_stopping_thread = t
        /\ RunsCallback(t) => w_source_state = "requested"
        /\ w_place[t] = "finish_request" /\ ~RunsCallback(t) => w_source_state = "done"

(* Without a registered callback the request was over before the           *)
(* constructor looked; with one the main thread passes the destructor only *)
(* when the callback has been run.                                         *)
SourceFits ==
    /\ w_source_state \in {"null", "callback"} <=>
           w_result = 0 \/ Main = "request_stop" \/ Worker = "request_stop"
    /\ w_source_state = "null" =>
           /\ Main \in {"idle", "construct", "store_result", "request_stop"}
           /\ Runner = "idle"
    /\ w_source_state = "callback" =>
           \/ Main \in {"registered", "run"}
           \/ Main \in {"store_result", "request_stop"} /\ Runner = "lock"
    /\ Main \in {"construct", "inline_stop", "inline_wake", "inline_done", "run_stopped"} =>
           \/ Main = "construct" /\ w_source_state = "null"
           \/ w_source_state = "requested" /\ Worker \in {"idle", "returned"}
    /\ Main \in {"registered", "run", "deregister"} /\ w_source_state = "requested" =>
           RunsCallback("worker")
    /\ Main = "deregister" /\ w_dereg["main"] = "out" => w_source_state = "done"
    /\ Main = "returned" => \/ w_source_state = "done"
                            \/ Worker \in {"idle", "returned"}
    /\ w_stopping_thread = "main" => RunsCallback("main") \/ w_source_state = "done"

(* The loop is left when it was stopped, which takes a stop request. *)
FlagsFit ==
    /\ w_stop_requested["main"] => w_source_state \in {"requested", "done"}
    /\ Main \in {"inline_wake", "inline_done", "run_stopped"} => w_stop_requested["main"]
    /\ Runner \in {"leaving", "returned"} => w_stop_requested["main"]
    /\ w_dereg["worker"] = "out"
    /\ w_dereg["main"] # "out" => Main = "deregister"

WaitParts == PlacesFit /\ ChildFits /\ ResultFits /\ RequestsFit /\ SourceFits /\ FlagsFit
WaitInv == Wait!SyncWaitTypeOk /\ WaitParts

-----------------------------------------------------------------------------
(* The steps of sync_wait() *)

(* The sender                                                              *)
LEMMA StartKeeps ==
    ASSUME WaitInv, Wait!Start \/ Wait!WorkerCompletes \/ Wait!WorkerSchedules
    PROVE  WaitInv'
<1> USE DEF WaitInv, WaitParts, PlacesFit, ChildFits, ResultFits, RequestsFit,
            SourceFits, FlagsFit, Main, Worker, Runner, Completing, RunsCallback,
            Wait!Go, Wait!Goto, Wait!loopVars, Wait!sourceVars, Wait!queueVars,
            Wait!stopVars, Wait!Null, Wait!HeadCell, Wait!Free, Wait!NoThread,
            Wait!SyncWaitTypeOk, Wait!TypeOk, Wait!SourceTypeOk, Wait!Cells,
            Wait!Labels, Wait!SourceStates
<1>1. CASE Wait!StartInline
  BY <1>1 DEF Wait!StartInline
<1>2. CASE Wait!StartOnLoop
  BY <1>2 DEF Wait!StartOnLoop, Wait!Enqueue, Wait!NotifyOne
<1>3. CASE Wait!StartOnWorker
  BY <1>3 DEF Wait!StartOnWorker
<1>4. CASE Wait!WorkerCompletes
  BY <1>4 DEF Wait!WorkerCompletes
<1>5. CASE Wait!WorkerSchedules
  BY <1>5 DEF Wait!WorkerSchedules, Wait!Enqueue, Wait!NotifyOne
<1> QED BY <1>1, <1>2, <1>3, <1>4, <1>5 DEF Wait!Start

(* The receiver, and the stop source                                       *)
LEMMA ReceiverKeeps ==
    ASSUME WaitInv, NEW t \in {"main", "worker"}, Wait!ReceiverStep(t)
    PROVE  WaitInv'
<1> USE DEF WaitInv, WaitParts, PlacesFit, ChildFits, ResultFits, RequestsFit,
            SourceFits, FlagsFit, Main, Worker, Runner, Completing, RunsCallback,
            Wait!Go, Wait!Goto, Wait!loopVars, Wait!sourceVars, Wait!queueVars,
            Wait!stopVars, Wait!Null, Wait!HeadCell, Wait!Free, Wait!NoThread,
            Wait!SyncWaitTypeOk, Wait!TypeOk, Wait!SourceTypeOk, Wait!Cells,
            Wait!Labels, Wait!SourceStates
<1>1. CASE Wait!StoreResult(t)
  BY <1>1 DEF Wait!StoreResult
<1>2. CASE Wait!RequestStop(t)
  BY <1>2 DEF Wait!RequestStop, Wait!SourceRequestStop, Wait!StopRequested, Wait!After
<1>3. CASE Wait!OnStop(t)
  BY <1>3 DEF Wait!OnStop, Wait!TestAndSet
<1>4. CASE Wait!Wake(t)
  BY <1>4 DEF Wait!Wake, Wait!WakeRunThreads, Wait!NotifyAll
<1>5. CASE Wait!FinishRequest(t)
  BY <1>5 DEF Wait!FinishRequest, Wait!CallbackReturns
<1>6. CASE Wait!LeaveRequest(t)
  BY <1>6 DEF Wait!LeaveRequest, Wait!After
<1>7. CASE Wait!StoreId(t) /\ UNCHANGED <<Wait!loopVars, w_result, w_place>>
  BY <1>7 DEF Wait!StoreId
<1>8. CASE Wait!StoreDone(t) /\ UNCHANGED <<Wait!loopVars, w_result, w_place>>
  BY <1>8 DEF Wait!StoreDone
<1>9. CASE Wait!Notify(t) /\ UNCHANGED <<Wait!loopVars, w_result, w_place>>
  BY <1>9 DEF Wait!Notify
<1>10. CASE Wait!Compare(t) /\ UNCHANGED <<Wait!loopVars, w_result, w_place>>
  BY <1>10 DEF Wait!Compare
<1>11. CASE Wait!Load(t) /\ UNCHANGED <<Wait!loopVars, w_result, w_place>>
  BY <1>11 DEF Wait!Load
<1> QED BY <1>1, <1>2, <1>3, <1>4, <1>5, <1>6, <1>7, <1>8, <1>9, <1>10, <1>11 DEF
            Wait!ReceiverStep, Wait!SourceStep

(* The main thread inside run()                                            *)
LEMMA MainKeeps ==
    ASSUME WaitInv, Wait!MainStep \/ Wait!SpuriousWakeUp
    PROVE  WaitInv'
<1> USE DEF WaitInv, WaitParts, PlacesFit, ChildFits, ResultFits, RequestsFit,
            SourceFits, FlagsFit, Main, Worker, Runner, Completing, RunsCallback,
            Wait!Go, Wait!Goto, Wait!loopVars, Wait!sourceVars, Wait!queueVars,
            Wait!stopVars, Wait!Null, Wait!HeadCell, Wait!Free, Wait!NoThread,
            Wait!SyncWaitTypeOk, Wait!TypeOk, Wait!SourceTypeOk, Wait!Cells,
            Wait!Labels, Wait!SourceStates
<1>1. CASE Wait!Construct
  BY <1>1 DEF Wait!Construct, Wait!TryRegisterSucceeds, Wait!TryRegisterFails,
    Wait!StopRequested
<1>2. CASE Wait!InlineOnStop
  BY <1>2 DEF Wait!InlineOnStop, Wait!TestAndSet
<1>3. CASE Wait!InlineWake
  BY <1>3 DEF Wait!InlineWake, Wait!WakeRunThreads, Wait!NotifyAll
<1>4. CASE Wait!RunLoop
  BY <1>4 DEF Wait!RunLoop, Wait!Run
<1>5. CASE Wait!LoopStep /\ Wait!Lock("main")
  BY <1>5 DEF Wait!LoopStep, Wait!Lock, Wait!Take, Wait!Dequeue
<1>6. CASE Wait!LoopStep /\ Wait!Predicate("main")
  BY <1>6 DEF Wait!LoopStep, Wait!Predicate, Wait!Take, Wait!Dequeue
<1>7. CASE Wait!LoopStep /\ Wait!Block("main")
  BY <1>7 DEF Wait!LoopStep, Wait!Block
<1>8. CASE Wait!LoopStep /\ Wait!Relock("main")
  BY <1>8 DEF Wait!LoopStep, Wait!Relock
<1>9. CASE Wait!ExecuteChild
  BY <1>9 DEF Wait!ExecuteChild, Wait!Execute
<1>10. CASE Wait!DestroyCallback
  BY <1>10 DEF Wait!DestroyCallback, Wait!Deregister
<1>11. CASE Wait!ReturnResult
  BY <1>11 DEF Wait!ReturnResult
<1>12. CASE Wait!SpuriousWakeUp
  BY <1>12 DEF Wait!SpuriousWakeUp, Wait!WakeSpuriously
<1> QED BY <1>1, <1>2, <1>3, <1>4, <1>5, <1>6, <1>7, <1>8, <1>9, <1>10, <1>11, <1>12
            DEF Wait!MainStep, Wait!LoopStep

LEMMA WaitInit == Wait!SyncWaitInit => WaitInv
BY DEF Wait!SyncWaitInit, Wait!Init, Wait!SourceInit, WaitInv, WaitParts, PlacesFit,
       ChildFits, ResultFits, RequestsFit, SourceFits, FlagsFit, Main, Worker, Runner,
       Completing, RunsCallback, Wait!Null, Wait!HeadCell, Wait!Free, Wait!NoThread,
       Wait!SyncWaitTypeOk, Wait!TypeOk, Wait!SourceTypeOk, Wait!Cells, Wait!Labels,
       Wait!SourceStates

LEMMA WaitNext == WaitInv /\ Wait!SyncWaitNext => WaitInv'
BY StartKeeps, ReceiverKeeps, MainKeeps DEF Wait!SyncWaitNext

LEMMA WaitStutters == WaitInv /\ UNCHANGED waitVars => WaitInv'
BY DEF waitVars, WaitInv, WaitParts, PlacesFit, ChildFits, ResultFits, RequestsFit,
       SourceFits, FlagsFit, Main, Worker, Runner, RunsCallback, Wait!SyncWaitTypeOk,
       Wait!TypeOk, Wait!SourceTypeOk

(* One item: the queue is empty or has it. *)
LEMMA WaitInvFits == WaitInv => Wait!PointersFit
<1> SUFFICES ASSUME WaitInv PROVE Wait!PointersFit
  OBVIOUS
<1> USE DEF Wait!Null, Wait!HeadCell, Wait!Free
<1>1. Wait!TypeOk /\ ChildFits
  BY DEF WaitInv, WaitParts, Wait!SyncWaitTypeOk
<1>2. w_last_next = IF w_prev_next["child"] = "null" THEN "head" ELSE "child"
  BY <1>1 DEF ChildFits
<1>3. /\ w_prev_next["child"] = "null" => w_cell["head"] = "null"
      /\ w_prev_next["child"] # "null" => w_prev_next["child"] = "head" /\ w_cell["head"] = "child"
  BY <1>1 DEF ChildFits
<1>4. Wait!Length = IF w_prev_next["child"] = "null" THEN 0 ELSE 1
  <2> DEFINE Q == {i \in {"child"} : w_prev_next[i] # "null"}
  <2>1. Q = IF w_prev_next["child"] = "null" THEN {} ELSE {"child"}
    OBVIOUS
  <2>2. Cardinality({}) = 0 /\ Cardinality({"child"}) = 1
    BY FS_EmptySet, FS_Singleton
  <2> QED BY <2>1, <2>2 DEF Wait!Length, Wait!Cardinality, Cardinality
<1>5. Wait!Nth[1] = w_cell["head"]
  <2> DEFINE G(f) == [n \in 1..Wait!Cardinality({"child"}) + 1 |->
                         LET before == IF n = 1 THEN "head" ELSE f[n - 1]
                         IN  IF before = "null" THEN "null" ELSE w_cell[before]]
             w == [n \in 1..Wait!Cardinality({"child"}) + 1 |->
                      IF n = 1 THEN w_cell["head"]
                      ELSE IF w_cell["head"] = "null" THEN "null" ELSE w_cell[w_cell["head"]]]
  <2>1. Wait!Cardinality({"child"}) = 1
    BY FS_Singleton DEF Wait!Cardinality, Cardinality
  <2>2. 1..1 + 1 = {1, 2}
    OBVIOUS
  <2>3. w = G(w)
    BY <2>1, <2>2
  <2>4. Wait!Nth = CHOOSE f : f = G(f)
    BY DEF Wait!Nth
  <2>5. Wait!Nth = G(Wait!Nth)
    <3> HIDE DEF G, w
    <3> QED BY <2>3, <2>4
  <2> DEFINE f == Wait!Nth
  <2>6. f = G(f)
    BY <2>5
  <2> HIDE DEF f
  <2>7. f[1] = w_cell["head"]
    BY <2>1, <2>2, <2>6
  <2> QED BY <2>7 DEF f
<1>6. Wait!ListIsWellFormed
  <2>1. w_prev_next["child"] # "null" => Wait!Queue[1] = "child"
    BY <1>3, <1>4, <1>5 DEF Wait!Queue
  <2>2. w_cell[w_last_next] = "null"
    BY <1>1, <1>2, <1>3 DEF ChildFits
  <2> HIDE DEF Wait!Length, Wait!Queue
  <2> QED BY <1>2, <1>3, <1>4, <2>1, <2>2 DEF Wait!ListIsWellFormed
<1>7. Wait!CompletedIsForgotten
  BY <1>1 DEF ChildFits, Wait!CompletedIsForgotten, Wait!Completed, Wait!Cells, Wait!TypeOk
<1> QED BY <1>1, <1>6, <1>7 DEF Wait!PointersFit

LEMMA WaitInvFrees == WaitInv => FrameIsFree
BY DEF FrameIsFree, Wait!FrameIsFree, WaitInv, WaitParts, PlacesFit, ChildFits,
       ResultFits, RequestsFit, SourceFits, FlagsFit, Main, Worker, Runner, Completing,
       RunsCallback, Wait!SyncWaitTypeOk, Wait!TypeOk, Wait!SourceTypeOk, Wait!Cells,
       Wait!Null, Wait!HeadCell, Wait!Free, Wait!NoThread

-----------------------------------------------------------------------------
(* Both halves *)

LEMMA BothInit == Init => LoopInv /\ WaitInv
BY LoopInit, WaitInit DEF Init

LEMMA BothNext == LoopInv /\ WaitInv /\ [Next]_vars => (LoopInv /\ WaitInv)'
<1> SUFFICES ASSUME LoopInv, WaitInv, [Next]_vars PROVE LoopInv' /\ WaitInv'
  OBVIOUS
<1>1. Loop!Next \/ UNCHANGED loopVars
  BY DEF Next, vars
<1>2. Wait!SyncWaitNext \/ UNCHANGED waitVars
  BY DEF Next, vars
<1> QED BY <1>1, <1>2, LoopNext, LoopStutters, WaitNext, WaitStutters

(* For every finite set of items and any runners, whichever of them are    *)
(* stopped, and for the loop of sync_wait(): head, the items' next and     *)
(* prev_next and last_next describe one queue, a runner holds an item      *)
(* exactly while it executes it, and an operation that has completed is    *)
(* reached by no pointer of the loop.                                      *)
THEOREM ThePointersFit == Spec => []PointersFit
<1>1. Spec => Init /\ [][Next]_vars
  BY PTL DEF Spec
<1>2. LoopInv /\ WaitInv => PointersFit
  BY LoopInvFits, WaitInvFits DEF PointersFit
<1> QED BY <1>1, <1>2, BothInit, BothNext, PTL

(* When sync_wait() returns, its result has been stored, the loop is empty *)
(* and unlocked, and the worker, should it be in request_stop() still, has *)
(* run the callback and touches the frame no more than to notify.          *)
THEOREM TheFrameIsFree == Spec => []FrameIsFree
<1>1. Spec => Init /\ [][Next]_vars
  BY PTL DEF Spec
<1> QED BY <1>1, WaitInvFrees, BothInit, BothNext, PTL

-----------------------------------------------------------------------------
(* The steps are those of the promised queue. *)

Running == {item[r] : r \in Runners} \ {Loop!Null}
Outcomes == [i \in Items |-> IF Loop!Completed(i) THEN outcome[i] ELSE "none"]

LEMMA TailIsRemoval == ASSUME NEW S, NEW s \in Seq(S), 1 \in 1..Len(s)
                       PROVE  RemoveAt(s, 1) = Tail(s) /\ Head(s) = s[1]
<1> DEFINE a == SubSeq(s, 1, 0)
           b == SubSeq(s, 2, Len(s))
<1>1. Len(s) \in Nat
  OBVIOUS
<1>2. a = <<>> /\ b = Tail(s) /\ Head(s) = s[1]
  BY <1>1
<1>3. b \in Seq(S)
  BY <1>1
<1>4. RemoveAt(s, 1) = a \o b
  BY <1>1 DEF RemoveAt
<1> HIDE DEF a, b
<1>5. <<>> \o b = b
  BY <1>3
<1> QED BY <1>2, <1>4, <1>5

LEMMA PromisedStart ==
    ASSUME LoopInv, QueueFits', NEW i \in Items, Loop!Enqueue(i) PROVE Loop!Promised!Start(i)
<1>1. PICK s : LoopPath(s)
  BY DEF LoopInv
<1>2. /\ PathAfter(Append(s, i)) /\ prev_next[i] = "null"
      /\ \A r \in Runners : item[r] # i
  BY <1>1, EnqueueStep
<1>3. Loop!Queue = s /\ Loop!Queue' = Append(s, i)
  <2>1. LoopInv'
    BY EnqueueKeeps
  <2>2. LoopPath(Append(s, i))'
    BY <1>2 DEF LoopPath, PathAfter
  <2> QED BY <1>1, <2>1, <2>2, QueueIs DEF LoopInv, QueueFits
<1>4. ~Loop!Promised!Contains(s, i)
  BY <1>1, <1>2, PathEnds DEF LoopInv, Loop!Promised!Contains
<1>5. i \notin Running /\ UNCHANGED Running
  BY <1>2 DEF Running, Loop!Enqueue
<1>6. Outcomes[i] = "none" /\ UNCHANGED Outcomes
  <2>1. outcome[i] = "unstarted" /\ outcome' = [outcome EXCEPT ![i] = "none"]
    BY DEF Loop!Enqueue
  <2>2. outcome'[i] = "none" /\ \A j \in Items \ {i} : outcome'[j] = outcome[j]
    BY <2>1, LoopTyped
  <2> QED BY <2>1, <2>2 DEF Outcomes, Loop!Completed
<1> QED BY <1>3, <1>4, <1>5, <1>6 DEF Loop!Promised!Start, Running, Outcomes

LEMMA PromisedCancel ==
    ASSUME LoopInv, QueueFits', NEW i \in Items, Loop!TryRemove(i) PROVE Loop!Promised!Cancel(i)
<1>1. PICK s : LoopPath(s) /\ \E k \in 1..Len(s) : s[k] = i /\ PathAfter(RemoveAt(s, k))
  BY TryRemoveKeeps
<1>2. PICK k \in 1..Len(s) : s[k] = i /\ PathAfter(RemoveAt(s, k))
  BY <1>1
<1>3. Loop!Queue = s /\ Loop!Queue' = RemoveAt(s, k)
  <2>1. LoopInv'
    BY TryRemoveKeeps
  <2>2. LoopPath(RemoveAt(s, k))'
    BY <1>2 DEF LoopPath, PathAfter
  <2> QED BY <1>1, <2>1, <2>2, QueueIs DEF LoopInv, QueueFits
<1>4. Loop!Promised!RemoveAt(s, k) = RemoveAt(s, k)
  BY DEF Loop!Promised!RemoveAt, RemoveAt
<1>5. DOMAIN s = 1..Len(s)
  BY <1>1, PathEnds DEF LoopInv
<1>6. UNCHANGED Running
  BY DEF Running, Loop!TryRemove
<1>7. Outcomes' = [Outcomes EXCEPT ![i] = "stopped"]
  <2>1. outcome' = [outcome EXCEPT ![i] = "stopped"]
    BY DEF Loop!TryRemove
  <2>2. outcome'[i] = "stopped" /\ \A j \in Items \ {i} : outcome'[j] = outcome[j]
    BY <2>1, LoopTyped
  <2> QED BY <2>2 DEF Outcomes, Loop!Completed
<1> QED BY <1>2, <1>3, <1>4, <1>5, <1>6, <1>7 DEF Loop!Promised!Cancel, Running, Outcomes

LEMMA PromisedTake ==
    ASSUME LoopInv, QueueFits', NEW r \in Runners, cell["head"] # "null",
           pc[r] # "executing", Loop!Take(r), UNCHANGED <<Loop!stopVars, outcome>>
    PROVE  Loop!Promised!Take
<1>1. PICK s : LoopPath(s) /\ \E k \in 1..Len(s) :
                  /\ k = 1 /\ s[k] = cell["head"] /\ s \in Seq(Items)
                  /\ PathAfter(RemoveAt(s, k))
  BY TakeKeeps
<1>2. /\ 1 \in 1..Len(s) /\ s[1] = cell["head"] /\ s \in Seq(Items)
      /\ PathAfter(RemoveAt(s, 1))
  BY <1>1
<1>3. RemoveAt(s, 1) = Tail(s) /\ Head(s) = s[1] /\ s # <<>>
  BY <1>2, TailIsRemoval
<1>4. Loop!Queue = s /\ Loop!Queue' = Tail(s)
  <2>1. LoopInv'
    BY TakeKeeps
  <2>2. LoopPath(RemoveAt(s, 1))'
    BY <1>2 DEF LoopPath, PathAfter
  <2> QED BY <1>1, <1>3, <2>1, <2>2, QueueIs DEF LoopInv, QueueFits
<1>5. Running' = Running \cup {s[1]}
  <2>1. item[r] = "null" /\ item \in [Runners -> Items \cup {"null"}]
    BY LoopTyped
  <2>2. item' = [item EXCEPT ![r] = s[1]]
    BY <1>2 DEF Loop!Take
  <2>3. item'[r] = s[1] /\ \A q \in Runners \ {r} : item'[q] = item[q]
    BY <2>1, <2>2
  <2>4. s[1] # "null"
    BY <1>2, LoopNames DEF Apart
  <2> QED BY <2>1, <2>3, <2>4 DEF Running
<1>6. UNCHANGED Outcomes
  BY DEF Outcomes, Loop!Completed
<1> QED BY <1>3, <1>4, <1>5, <1>6 DEF Loop!Promised!Take, Running, Outcomes

LEMMA PromisedExecute ==
    ASSUME LoopInv, QueueFits', NEW r \in Runners, Loop!Execute(r)
    PROVE  \E i \in Items : Loop!Promised!Execute(i)
<1>1. PICK s : LoopPath(s) /\ PathAfter(s)
  BY ExecuteKeeps
<1>2. PICK i \in Items : i = item[r] /\ i # "null"
  BY ExecuteKeeps
<1>3. UNCHANGED Loop!Queue
  <2>1. LoopInv'
    BY ExecuteKeeps
  <2>2. LoopPath(s)'
    BY <1>1 DEF LoopPath, PathAfter
  <2> QED BY <1>1, <2>1, <2>2, QueueIs DEF LoopInv, QueueFits
<1>4. /\ outcome' = [outcome EXCEPT ![i] = "value"]
      /\ item' = [item EXCEPT ![r] = "null"]
  BY <1>2 DEF Loop!Execute
<1>5. i \in Running /\ Running' = Running \ {i}
  <2>1. item'[r] = "null" /\ \A q \in Runners \ {r} : item'[q] = item[q] /\ item[q] # i
    BY <1>2, <1>4, LoopTyped DEF LoopInv, ItemsFit
  <2> QED BY <1>2, <2>1 DEF Running
<1>6. Outcomes' = [Outcomes EXCEPT ![i] = "value"]
  <2>1. outcome'[i] = "value" /\ \A j \in Items \ {i} : outcome'[j] = outcome[j]
    BY <1>2, <1>4, LoopTyped
  <2> QED BY <1>2, <2>1 DEF Outcomes, Loop!Completed
<1>7. Loop!Promised!Execute(i)
  BY <1>3, <1>5, <1>6 DEF Loop!Promised!Execute, Running, Outcomes
<1> QED BY <1>7

LEMMA PromisedStutter ==
    ASSUME LoopInv, QueueFits', LoopInv', UNCHANGED <<cell, prev_next, last_next, item, outcome>>
    PROVE  UNCHANGED Loop!Promised!vars
<1>1. PICK s : LoopPath(s)
  BY DEF LoopInv
<1>2. LoopPath(s)'
  BY <1>1 DEF LoopPath
<1>3. UNCHANGED Loop!Queue
  BY <1>1, <1>2, QueueIs DEF LoopInv, QueueFits
<1>4. UNCHANGED <<Running, Outcomes>>
  BY DEF Running, Outcomes, Loop!Completed
<1> QED BY <1>3, <1>4 DEF Loop!Promised!vars, Running, Outcomes

LEMMA PromisedNext ==
    ASSUME LoopInv, QueueFits', [Next]_vars PROVE [Loop!Promised!Next]_(Loop!Promised!vars)
<1>1. CASE Loop!Next
  <2>1. ASSUME NEW i \in Items, Loop!Enqueue(i) \/ Loop!TryRemove(i) PROVE Loop!Promised!Next
    BY <2>1, PromisedStart, PromisedCancel DEF Loop!Promised!Next
  <2>2. ASSUME NEW r \in Runners, cell["head"] # "null", pc[r] # "executing",
               Loop!Take(r), UNCHANGED <<Loop!stopVars, outcome>>
        PROVE  Loop!Promised!Next
    BY <2>2, PromisedTake DEF Loop!Promised!Next
  <2>3. ASSUME NEW r \in Runners, Loop!Execute(r) PROVE Loop!Promised!Next
    <3>1. \E i \in Items : Loop!Promised!Execute(i)
      BY <2>3, PromisedExecute
    <3> QED BY <3>1 DEF Loop!Promised!Next
  <2> QED BY <1>1, <2>1, <2>2, <2>3, LoopSteps, PromisedStutter
<1>2. CASE UNCHANGED loopVars
  BY <1>2, LoopStutters, PromisedStutter DEF loopVars
<1> QED BY <1>1, <1>2 DEF Next, vars

LEMMA PromisedInit == Init => Loop!Promised!Init
<1> SUFFICES ASSUME Init PROVE Loop!Promised!Init
  OBVIOUS
<1>1. Loop!Queue = <<>>
  <2>1. LoopPath(Loop!Queue)
    BY LoopInit, QueueIs DEF Init, LoopInv
  <2>2. cell["head"] = "null" /\ LoopInv
    BY LoopInit DEF Init, Loop!Init, Loop!Cells
  <2> QED BY <2>1, <2>2, PathEnds DEF LoopInv
<1>2. Running = {}
  BY DEF Running, Init, Loop!Init
<1>3. Outcomes = [i \in Items |-> "none"]
  BY DEF Outcomes, Init, Loop!Init, Loop!Completed
<1> QED BY <1>1, <1>2, <1>3 DEF Loop!Promised!Init, Running, Outcomes

(* The pointers implement the promised queue: items are taken in the order *)
(* in which they were started, run once by whoever took them, and complete *)
(* once; a stop request takes out exactly what nobody has taken.           *)
THEOREM TheLoopIsAsPromised == Spec => ImplementsEventLoop
<1>1. Spec => Init /\ [][Next]_vars
  BY PTL DEF Spec
<1>2. QueueFits
  BY QueueIsThePath
<1> QED
  BY <1>1, <1>2, BothInit, BothNext, PromisedInit, PromisedNext, PTL
  DEF ImplementsEventLoop, Loop!ImplementsEventLoop, Loop!Promised!Spec
=============================================================================
