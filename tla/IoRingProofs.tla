----------------------------- MODULE IoRingProofs -----------------------------
(***************************************************************************)
(* The two rings of io_uring and the constructors, for every size of the   *)
(* rings, of the counters and of the mapping, every set of requests and of *)
(* setups: until an index is stored past the mapping, thread and kernel    *)
(* agree on what is where; and whatever the kernel gave is released once.  *)
(***************************************************************************)
EXTENDS MCIoContext, TLAPS

(***************************************************************************)
(* Positions                                                               *)
(***************************************************************************)

(* The parts of a division *)
LEMMA Division ==
    ASSUME NEW x \in Nat, NEW S \in Nat \ {0}
    PROVE  /\ x \div S \in Nat /\ x % S \in Nat /\ x % S < S
           /\ x = (S * (x \div S)) + (x % S)
OBVIOUS

(* and they are the only ones of their kind. *)
LEMMA RemainderUnique ==
    ASSUME NEW x \in Nat, NEW S \in Nat \ {0}, NEW q \in Nat, NEW r \in Nat,
           r < S, x = (S * q) + r
    PROVE  x % S = r
OBVIOUS

(* What is less than its divisor is its own remainder. *)
LEMMA RemainderOfSmall == ASSUME NEW x \in Nat, NEW S \in Nat, x < S
                          PROVE  x % S = x
<1>1. S \in Nat \ {0} /\ 0 \in Nat /\ x = (S * 0) + x
  OBVIOUS
<1> QED BY <1>1, RemainderUnique

(* Less than twice the divisor: it is subtracted at most once. *)
LEMMA RemainderOnce == ASSUME NEW x \in Nat, NEW S \in Nat, x < S + S
                       PROVE  x % S = IF x < S THEN x ELSE x - S
<1>1. CASE x < S
  BY <1>1, RemainderOfSmall
<1>2. CASE ~(x < S)
  <2>1. S \in Nat \ {0} /\ 1 \in Nat /\ x - S \in Nat /\ x - S < S
    BY <1>2
  <2>2. x = (S * 1) + (x - S)
    BY <1>2
  <2>3. x % S = x - S
    BY <2>1, <2>2, RemainderUnique
  <2> QED BY <2>3, <1>2
<1> QED BY <1>1, <1>2

(* A multiple of the divisor makes no difference. *)
LEMMA RemainderOfSum == ASSUME NEW x \in Nat, NEW W \in Nat, NEW S \in Nat \ {0}, W % S = 0
                        PROVE  (x + W) % S = x % S
<1> DEFINE q == x \div S
           p == W \div S
           r == x % S
<1>1. q \in Nat /\ p \in Nat /\ r \in Nat /\ r < S /\ x = (S * q) + r /\ W = S * p
  BY Division
<1> HIDE DEF q, p, r
<1>2. x + W = (S * (q + p)) + r /\ x + W \in Nat /\ q + p \in Nat
  BY ONLY <1>1, S \in Nat
<1>3. (x + W) % S = r
  BY ONLY <1>1, <1>2, RemainderUnique, S \in Nat \ {0}
<1> QED BY <1>3 DEF r

(* Two numbers that are not a divisor apart have different remainders. *)
LEMMA RemaindersDiffer == ASSUME NEW x \in Nat, NEW y \in Nat, NEW S \in Nat \ {0},
                                 x < y, y < x + S
                          PROVE  x % S # y % S
<1> DEFINE q == x \div S
           p == y \div S
           r == x % S
<1> SUFFICES ASSUME y % S = r PROVE FALSE
  OBVIOUS
<1>1. /\ q \in Nat /\ p \in Nat /\ r \in Nat /\ r < S
      /\ x = (S * q) + r /\ y = (S * p) + r
  BY Division
<1> HIDE DEF q, p, r
<1>2. S * q < S * p /\ S * p < (S * q) + S
  BY ONLY <1>1, x < y, y < x + S, S \in Nat, x \in Nat, y \in Nat
<1>3. CASE p <= q
  <2>1. S * p <= S * q
    BY <1>1, <1>3
  <2> QED BY <2>1, <1>2, <1>1
<1>4. CASE p >= q + 1
  <2>1. S * p >= S * (q + 1)
    BY <1>1, <1>4
  <2>2. S * (q + 1) = (S * q) + S
    BY <1>1
  <2> QED BY ONLY <2>1, <2>2, <1>2, <1>1, S \in Nat
<1> QED BY <1>1, <1>3, <1>4

Position == 0..(Wrap - 1)

(* The counters, which wrap at most once at a time *)
LEMMA PlusIs == ASSUME NEW i \in Position, NEW n \in Nat, n <= Wrap
                PROVE  /\ Plus(i, n) \in Position
                       /\ Plus(i, n) = IF i + n < Wrap THEN i + n ELSE (i + n) - Wrap
<1>1. Wrap \in Nat /\ i + n \in Nat /\ i + n < Wrap + Wrap
  BY SizeAssumption DEF Position
<1>2. (i + n) % Wrap = IF i + n < Wrap THEN i + n ELSE (i + n) - Wrap
  BY <1>1, RemainderOnce
<1> QED BY <1>1, <1>2 DEF Plus, Position

LEMMA MinusIs == ASSUME NEW i \in Position, NEW j \in Position
                 PROVE  /\ Minus(i, j) \in Position
                        /\ Minus(i, j) = IF i >= j THEN i - j ELSE (i + Wrap) - j
<1>1. Wrap \in Nat /\ (i + Wrap) - j \in Nat /\ (i + Wrap) - j < Wrap + Wrap
  BY SizeAssumption DEF Position
<1>2. i + Wrap - j = (i + Wrap) - j
  BY SizeAssumption DEF Position
<1>3. ((i + Wrap) - j) % Wrap
         = IF (i + Wrap) - j < Wrap THEN (i + Wrap) - j ELSE ((i + Wrap) - j) - Wrap
  BY <1>1, RemainderOnce
<1>4. Minus(i, j) = IF (i + Wrap) - j < Wrap THEN (i + Wrap) - j
                                              ELSE ((i + Wrap) - j) - Wrap
  BY <1>2, <1>3 DEF Minus
<1> QED BY <1>1, <1>4 DEF Position

(* An entry is added at the tail; *)
LEMMA MinusAfterAdding == ASSUME NEW t \in Position, NEW h \in Position,
                                 Minus(t, h) + 1 < Wrap
                          PROVE  /\ Plus(t, 1) \in Position
                                 /\ Minus(Plus(t, 1), h) = Minus(t, h) + 1
<1>1. Wrap \in Nat /\ 1 \in Nat /\ 1 <= Wrap
  BY SizeAssumption DEF Position
<1>2. Plus(t, 1) \in Position /\ Plus(t, 1) = IF t + 1 < Wrap THEN t + 1 ELSE (t + 1) - Wrap
  BY <1>1, PlusIs
<1>3. Minus(t, h) = IF t >= h THEN t - h ELSE (t + Wrap) - h
  BY MinusIs
<1>4. Minus(Plus(t, 1), h) = IF Plus(t, 1) >= h THEN Plus(t, 1) - h
                                                ELSE (Plus(t, 1) + Wrap) - h
  BY <1>2, MinusIs
<1> QED BY <1>1, <1>2, <1>3, <1>4 DEF Position

(* some are taken at the head. *)
LEMMA MinusAfterTaking == ASSUME NEW t \in Position, NEW h \in Position,
                                 NEW n \in Nat, n <= Minus(t, h)
                          PROVE  /\ Plus(h, n) \in Position
                                 /\ Minus(t, Plus(h, n)) = Minus(t, h) - n
<1>1. Minus(t, h) \in Position /\ Minus(t, h) = IF t >= h THEN t - h ELSE (t + Wrap) - h
  BY MinusIs
<1>2. Wrap \in Nat /\ n <= Wrap
  BY <1>1, SizeAssumption DEF Position
<1>3. Plus(h, n) \in Position /\ Plus(h, n) = IF h + n < Wrap THEN h + n ELSE (h + n) - Wrap
  BY <1>2, PlusIs
<1>4. Minus(t, Plus(h, n)) = IF t >= Plus(h, n) THEN t - Plus(h, n)
                                                ELSE (t + Wrap) - Plus(h, n)
  BY <1>3, MinusIs
<1> QED BY <1>1, <1>2, <1>3, <1>4 DEF Position

(* The tail is as far from the head as there are entries. *)
LEMMA TailIsAtItsDistance == ASSUME NEW t \in Position, NEW h \in Position
                             PROVE  Plus(h, Minus(t, h)) = t
<1>1. Minus(t, h) \in Position /\ Minus(t, h) = IF t >= h THEN t - h ELSE (t + Wrap) - h
  BY MinusIs
<1>2. Wrap \in Nat /\ Minus(t, h) \in Nat /\ Minus(t, h) <= Wrap
  BY <1>1, SizeAssumption DEF Position
<1>3. Plus(h, Minus(t, h))
         = IF h + Minus(t, h) < Wrap THEN h + Minus(t, h) ELSE (h + Minus(t, h)) - Wrap
  BY <1>2, PlusIs
<1> QED BY <1>1, <1>2, <1>3 DEF Position

Size == {S \in Nat \ {0} : S < Wrap /\ Wrap % S = 0}

LEMMA SizesAre == SqSize \in Size /\ CqSize \in Size
BY SizeAssumption DEF Size

(* Where a counter points to does not depend on whether it has wrapped. *)
LEMMA SlotOfPlus == ASSUME NEW S \in Size, NEW h \in Position, NEW n \in Nat, n <= Wrap
                    PROVE  Plus(h, n) % S = (h + n) % S
<1>1. /\ Wrap \in Nat /\ S \in Nat \ {0} /\ Wrap % S = 0 /\ h \in Nat
      /\ Plus(h, n) = IF h + n < Wrap THEN h + n ELSE (h + n) - Wrap
  BY SizeAssumption, PlusIs DEF Size, Position
<1>2. CASE h + n < Wrap
  BY <1>1, <1>2
<1>3. CASE ~(h + n < Wrap)
  <2>1. (h + n) - Wrap \in Nat /\ ((h + n) - Wrap) + Wrap = h + n
    BY <1>1, <1>3
  <2>2. (((h + n) - Wrap) + Wrap) % S = ((h + n) - Wrap) % S
    BY <1>1, <2>1, RemainderOfSum
  <2> QED BY <1>1, <1>3, <2>1, <2>2
<1> QED BY <1>2, <1>3

LEMMA SlotIsInRange == ASSUME NEW S \in Size, NEW p \in Position
                       PROVE  p % S \in 0..(S - 1)
<1>1. S \in Nat \ {0} /\ p \in Nat /\ Wrap \in Nat
  BY SizeAssumption DEF Size, Position
<1>2. p % S \in Nat /\ p % S < S
  BY <1>1, Division
<1> QED BY <1>1, <1>2

(* The entries between head and tail are in slots of their own, as long as *)
(* there are no more than the ring has.                                    *)
LEMMA SlotsDiffer == ASSUME NEW S \in Size, NEW h \in Position,
                            NEW k \in Nat, NEW n \in Nat, k < n, n < S + k, n <= Wrap
                     PROVE  Plus(h, k) % S # Plus(h, n) % S
<1>1. Wrap \in Nat /\ S \in Nat \ {0} /\ h \in Nat
  BY SizeAssumption DEF Size, Position
<1>2. Plus(h, k) % S = (h + k) % S /\ Plus(h, n) % S = (h + n) % S
  BY <1>1, SlotOfPlus
<1>3. h + k \in Nat /\ h + n \in Nat /\ h + k < h + n /\ h + n < (h + k) + S
  BY <1>1
<1>4. (h + k) % S # (h + n) % S
  BY ONLY <1>1, <1>3, RemaindersDiffer
<1> QED BY <1>2, <1>4

(* What was n places from the head is n - c from where the head has moved. *)
LEMMA SlotsKeepTheirPlace == ASSUME NEW h \in Position, NEW c \in Nat, NEW n \in Nat,
                                    c + n <= Wrap
                             PROVE  Plus(Plus(h, c), n) = Plus(h, c + n)
<1>1. Wrap \in Nat /\ c <= Wrap /\ n <= Wrap /\ c + n \in Nat
  BY SizeAssumption
<1>2. Plus(h, c) \in Position /\ Plus(h, c) = IF h + c < Wrap THEN h + c ELSE (h + c) - Wrap
  BY <1>1, PlusIs
<1>3. Plus(Plus(h, c), n) = IF Plus(h, c) + n < Wrap THEN Plus(h, c) + n
                                                     ELSE (Plus(h, c) + n) - Wrap
  BY <1>1, <1>2, PlusIs
<1>4. Plus(h, c + n) = IF h + (c + n) < Wrap THEN h + (c + n) ELSE (h + (c + n)) - Wrap
  BY <1>1, PlusIs
<1> QED BY <1>1, <1>2, <1>3, <1>4 DEF Position
(***************************************************************************)
(* The rings                                                               *)
(***************************************************************************)

SqSlots == 0..(SqSize - 1)
CqSlots == 0..(CqSize - 1)

SqSlot(n) == Plus(sq_head, n) % SqSize
CqSlot(n) == Plus(cq_head, n) % CqSize

Sqe == [user_data : Requests \cup {None}, fields : SUBSET UNION {Fields(r) : r \in Requests}]

(* The counters *)
CountersFit == /\ sqe_head \in Position /\ sqe_tail \in Position
               /\ sq_tail \in Position /\ sq_head \in Position
               /\ cq_head \in Position /\ cq_tail \in Position

(* What the system call may take is a part of what is there, and the       *)
(* kernel's own thread is there if the setup asked for it.                 *)
CallFits == /\ setup \in Setups
            /\ Unsubmitted <= SqSize
            /\ Minus(sq_tail, sq_head) <= Unsubmitted
            /\ to_submit \in Nat
            /\ setup # "sqpoll" => to_submit <= Minus(sq_tail, sq_head)
            /\ call \in {"none", "submit", "events", "submit_if_asleep",
                         "events_after_wakeup"}
            /\ sq_thread \in (IF setup = "sqpoll" THEN {"awake", "dozing", "asleep"}
                                                  ELSE {"none"})

(* The indices are not masked when they are written: once written each is  *)
(* its own position, for ever.                                             *)
IndicesFit == /\ index_array \in [SqSlots -> SqSlots]
              /\ \A i \in SqSlots : i < sqe_tail => index_array[i] = i
              /\ \A k \in 0..(SqSize - 1) :
                    k < Unsubmitted => index_array[SqSlot(k)] = SqSlot(k)

(* The entries that are not yet taken are those that were enqueued.        *)
EntriesFit == /\ sqes \in [SqSlots -> Sqe]
              /\ pending \in Seq(Requests)
              /\ Len(pending) = Unsubmitted
              /\ \A k \in 0..(SqSize - 1) :
                    k < Unsubmitted => /\ sqes[SqSlot(k)].user_data = pending[k + 1]
                                       /\ sqes[SqSlot(k)].fields = Fields(pending[k + 1])

KernelFits == kernel \subseteq Requests /\ work \subseteq Requests /\ backlog \in Seq(Requests)

(* The completions that are not yet given back are those that were put     *)
(* there, and the view is of the first of them.                            *)
CompletionsFit == /\ cqes \in [CqSlots -> Requests \cup {None}]
                  /\ completed \in Seq(Requests)
                  /\ Minus(cq_tail, cq_head) <= CqSize
                  /\ Len(completed) = Minus(cq_tail, cq_head)
                  /\ \A k \in 0..(CqSize - 1) :
                        k < Len(completed) => cqes[CqSlot(k)] = completed[k + 1]

ViewFits == /\ view \in [head : Position, count : 0..CqSize, next : 0..CqSize]
            /\ view.next <= view.count
            /\ view.count <= Len(completed)
            /\ view # NoView => view.head = cq_head

RingsInv == CountersFit /\ CallFits /\ IndicesFit /\ EntriesFit /\ KernelFits
            /\ CompletionsFit /\ ViewFits
(* What a step leaves alone stays as it fits. *)
LEMMA CountersStay == ASSUME CountersFit, UNCHANGED <<sqe_head, sqe_tail, sq_tail, sq_head,
                                                      cq_head, cq_tail>>
                      PROVE  CountersFit'
BY DEF CountersFit, Position

LEMMA CallStays == ASSUME CallFits, UNCHANGED <<setup, sqe_tail, sq_tail, sq_head, callVars>>
                   PROVE  CallFits'
BY DEF CallFits, Unsubmitted, Minus, callVars

LEMMA IndicesStay == ASSUME IndicesFit, UNCHANGED <<index_array, sqe_tail, sq_head>>
                     PROVE  IndicesFit'
BY DEF IndicesFit, SqSlots, SqSlot, Unsubmitted, Minus, Plus

LEMMA EntriesStay == ASSUME EntriesFit, UNCHANGED <<sqes, sqe_tail, sq_head, pending>>
                     PROVE  EntriesFit'
BY DEF EntriesFit, SqSlots, SqSlot, Unsubmitted, Minus, Plus, Sqe

LEMMA KernelStays == ASSUME KernelFits, UNCHANGED <<kernelVars, backlog>>
                     PROVE  KernelFits'
BY DEF KernelFits, kernelVars

LEMMA CompletionsStay == ASSUME CompletionsFit, UNCHANGED <<cqes, cq_tail, cq_head, completed>>
                         PROVE  CompletionsFit'
BY DEF CompletionsFit, CqSlots, CqSlot, Minus, Plus

LEMMA ViewStays == ASSUME ViewFits, UNCHANGED <<view, cq_head, completed>>
                   PROVE  ViewFits'
BY DEF ViewFits, NoView, Position

(* The distances that the invariant is about are numbers. *)
LEMMA DistancesFit == ASSUME CountersFit
                      PROVE  /\ Unsubmitted \in Position /\ Minus(sq_tail, sq_head) \in Position
                             /\ Minus(cq_tail, cq_head) \in Position
                             /\ Wrap \in Nat /\ SqSize \in Nat /\ CqSize \in Nat
                             /\ 0 < SqSize /\ 0 < CqSize /\ SqSize < Wrap /\ CqSize < Wrap
BY MinusIs, SizeAssumption DEF CountersFit, Unsubmitted

-----------------------------------------------------------------------------

LEMMA RingsInit == Init => RingsInv
<1> SUFFICES ASSUME Init PROVE RingsInv
  OBVIOUS
<1>1. 0 \in Position /\ SqSize \in Nat \ {0} /\ CqSize \in Nat \ {0}
  BY SizeAssumption DEF Position
<1>2. CountersFit
  BY <1>1 DEF Init, CountersFit
<1>3. Unsubmitted = 0 /\ Minus(sq_tail, sq_head) = 0 /\ Minus(cq_tail, cq_head) = 0
  BY <1>1, MinusIs DEF Init, Unsubmitted
<1>4. CallFits
  BY <1>1, <1>3 DEF Init, CallFits
<1>5. IndicesFit
  <2>1. 0 \in SqSlots /\ sqe_tail = 0
    BY <1>1 DEF SqSlots, Init
  <2>2. index_array \in [SqSlots -> SqSlots]
    BY <2>1 DEF Init, SqSlots
  <2>3. \A i \in SqSlots : ~(i < 0)
    BY <1>1 DEF SqSlots
  <2>4. \A k \in 0..(SqSize - 1) : ~(k < 0)
    BY <1>1
  <2> QED BY <1>3, <2>1, <2>2, <2>3, <2>4 DEF IndicesFit
<1>6. EntriesFit
  <2>1. sqes \in [SqSlots -> Sqe] /\ pending = <<>>
    BY DEF Init, SqSlots, Sqe
  <2>2. pending \in Seq(Requests) /\ Len(pending) = 0
    BY <2>1
  <2>3. \A k \in 0..(SqSize - 1) : ~(k < 0)
    BY <1>1
  <2> QED BY <1>3, <2>1, <2>2, <2>3 DEF EntriesFit
<1>7. KernelFits
  BY DEF Init, KernelFits
<1>8. CompletionsFit
  <2>1. cqes \in [CqSlots -> Requests \cup {None}] /\ completed = <<>>
    BY DEF Init, CqSlots
  <2>2. completed \in Seq(Requests) /\ Len(completed) = 0
    BY <2>1
  <2>3. \A k \in 0..(CqSize - 1) : ~(k < 0)
    BY <1>1
  <2> QED BY <1>1, <1>3, <2>1, <2>2, <2>3 DEF CompletionsFit
<1>9. ViewFits
  BY <1>1 DEF Init, ViewFits, NoView
<1> QED BY <1>2, <1>4, <1>5, <1>6, <1>7, <1>8, <1>9 DEF RingsInv

(* The entry that is written is not one of those not yet taken. *)
LEMMA EnqueueStep == ASSUME RingsInv, NEW r \in Requests, Enqueue(r) PROVE RingsInv'
<1> DEFINE slot == sqe_tail % SqSize
<1>1. /\ CountersFit /\ CallFits /\ IndicesFit /\ EntriesFit /\ KernelFits
      /\ CompletionsFit /\ ViewFits
  BY DEF RingsInv
<1>2. /\ Unsubmitted < SqSize
      /\ sqes' = [sqes EXCEPT ![slot] = Prepare(r, @)]
      /\ index_array' = IF sqe_tail < SqSize THEN [index_array EXCEPT ![sqe_tail] = slot]
                                             ELSE index_array
      /\ sqe_tail' = Plus(sqe_tail, 1)
      /\ pending' = Append(pending, r)
  BY DEF Enqueue, MayEnqueue, StoreIndex
<1>3. /\ UNCHANGED <<setup, sqe_head, sq_tail, sq_head, cq_head, cq_tail>>
      /\ UNCHANGED <<callVars, to_submit, call, sq_thread>>
      /\ UNCHANGED <<kernelVars, backlog, cqes, completed, view>>
  BY DEF Enqueue, callVars, cqVars
<1>4. /\ Unsubmitted \in Position /\ Minus(sq_tail, sq_head) \in Position
      /\ Wrap \in Nat /\ SqSize \in Nat /\ 0 < SqSize /\ SqSize < Wrap
  BY <1>1, DistancesFit
<1>5. Unsubmitted \in Nat /\ Unsubmitted + 1 < Wrap /\ Minus(sq_tail, sq_head) \in Nat
  BY <1>2, <1>4 DEF Position
<1>6. sqe_tail \in Position /\ sq_head \in Position
  BY <1>1 DEF CountersFit
<1>7. sqe_tail' \in Position /\ Unsubmitted' = Unsubmitted + 1
  BY <1>2, <1>3, <1>5, <1>6, MinusAfterAdding DEF Unsubmitted, Minus
<1>8. SqSlot(Unsubmitted) = slot /\ slot \in SqSlots
  BY <1>6, TailIsAtItsDistance, SlotIsInRange, SizesAre DEF SqSlot, Unsubmitted, SqSlots
<1>9. \A k \in 0..(SqSize - 1) : k < Unsubmitted => SqSlot(k) # slot
  <2> SUFFICES ASSUME NEW k \in 0..(SqSize - 1), k < Unsubmitted PROVE SqSlot(k) # slot
    OBVIOUS
  <2>1. k \in Nat /\ Unsubmitted < SqSize + k /\ Unsubmitted <= Wrap
    BY <1>2, <1>4, <1>5
  <2>2. SqSlot(k) # SqSlot(Unsubmitted)
    BY <1>5, <1>6, <2>1, SlotsDiffer, SizesAre DEF SqSlot
  <2> QED BY <1>8, <2>2
<1>10. \A k \in 0..(SqSize - 1) : SqSlot(k)' = SqSlot(k) /\ SqSlot(k) \in SqSlots
  <2> SUFFICES ASSUME NEW k \in 0..(SqSize - 1)
               PROVE  SqSlot(k)' = SqSlot(k) /\ SqSlot(k) \in SqSlots
    OBVIOUS
  <2>1. k \in Nat /\ k <= Wrap
    BY <1>4
  <2>2. Plus(sq_head, k) \in Position
    BY <1>6, <2>1, PlusIs
  <2> QED BY <1>3, <2>2, SlotIsInRange, SizesAre DEF SqSlot, SqSlots, Plus
<1> HIDE DEF slot
<1>11. CountersFit'
  BY <1>1, <1>3, <1>7 DEF CountersFit, Position
<1>12. CallFits'
  <2>1. Minus(sq_tail, sq_head)' = Minus(sq_tail, sq_head)
    BY <1>3 DEF Minus
  <2>2. /\ setup' = setup /\ to_submit' = to_submit /\ call' = call
        /\ sq_thread' = sq_thread
    BY <1>3
  <2>3. Unsubmitted' <= SqSize /\ Minus(sq_tail, sq_head)' <= Unsubmitted'
    BY <1>1, <1>2, <1>4, <1>5, <1>7, <2>1 DEF CallFits
  <2> QED BY <1>1, <2>1, <2>2, <2>3 DEF CallFits
<1>13. /\ index_array' \in [SqSlots -> SqSlots]
       /\ index_array'[slot] = slot
       /\ \A i \in SqSlots : index_array'[i] # index_array[i] => index_array'[i] = i
  <2>1. index_array \in [SqSlots -> SqSlots]
    BY <1>1 DEF IndicesFit
  <2>2. CASE sqe_tail < SqSize
    <3>1. sqe_tail \in SqSlots /\ slot = sqe_tail
      BY <1>4, <1>6, <2>2, RemainderOfSmall DEF SqSlots, Position, slot
    <3>2. index_array' = [index_array EXCEPT ![sqe_tail] = slot]
      BY <1>2, <2>2
    <3> QED BY <1>8, <2>1, <3>1, <3>2
  <2>3. CASE ~(sqe_tail < SqSize)
    <3>1. slot < sqe_tail
      BY <1>4, <1>6, <1>8, <2>3 DEF SqSlots, Position
    <3> QED BY <1>1, <1>2, <1>8, <2>1, <2>3, <3>1 DEF IndicesFit
  <2> QED BY <2>2, <2>3
<1>14. IndicesFit'
  <2>1. \A i \in SqSlots : i < sqe_tail' => index_array'[i] = i
    <3> SUFFICES ASSUME NEW i \in SqSlots, i < sqe_tail' PROVE index_array'[i] = i
      OBVIOUS
    <3>1. sqe_tail' = IF sqe_tail + 1 < Wrap THEN sqe_tail + 1 ELSE (sqe_tail + 1) - Wrap
      BY <1>2, <1>4, <1>6, PlusIs
    <3>2. CASE i < sqe_tail
      BY <1>1, <1>13, <3>2 DEF IndicesFit
    <3>3. CASE ~(i < sqe_tail)
      <4>1. i = sqe_tail /\ sqe_tail < SqSize
        BY <1>4, <1>6, <3>1, <3>3 DEF SqSlots, Position
      <4>2. slot = i
        BY <1>4, <1>6, <4>1, RemainderOfSmall DEF Position, slot
      <4> QED BY <1>13, <4>2
    <3> QED BY <3>2, <3>3
  <2>2. \A k \in 0..(SqSize - 1) :
           k < Unsubmitted' => index_array'[SqSlot(k)'] = SqSlot(k)'
    <3> SUFFICES ASSUME NEW k \in 0..(SqSize - 1), k < Unsubmitted'
                 PROVE  index_array'[SqSlot(k)'] = SqSlot(k)'
      OBVIOUS
    <3>1. CASE k < Unsubmitted
      <4>1. index_array[SqSlot(k)] = SqSlot(k)
        BY <1>1, <3>1 DEF IndicesFit
      <4> QED BY <1>10, <1>13, <4>1
    <3>2. CASE ~(k < Unsubmitted)
      <4>1. k = Unsubmitted
        BY <1>5, <1>7, <3>2
      <4> QED BY <1>8, <1>10, <1>13, <4>1
    <3> QED BY <3>1, <3>2
  <2> QED BY <1>13, <2>1, <2>2 DEF IndicesFit, SqSlots
<1>15. EntriesFit'
  <2>1. sqes \in [SqSlots -> Sqe] /\ pending \in Seq(Requests) /\ Len(pending) = Unsubmitted
    BY <1>1 DEF EntriesFit
  <2>2. sqes[slot] \in Sqe
    BY <1>8, <2>1
  <2>3. /\ Prepare(r, sqes[slot]) \in Sqe
        /\ Prepare(r, sqes[slot]).user_data = r
        /\ Prepare(r, sqes[slot]).fields = Fields(r)
    BY <2>2 DEF Prepare, Fill, Clear, Sqe
  <2>4. /\ sqes' \in [SqSlots -> Sqe]
        /\ sqes'[slot] = Prepare(r, sqes[slot])
        /\ \A i \in SqSlots : i # slot => sqes'[i] = sqes[i]
    BY <1>2, <1>8, <2>1, <2>3
  <2>5. /\ pending' \in Seq(Requests)
        /\ Len(pending') = Unsubmitted'
        /\ \A i \in 1..Unsubmitted : pending'[i] = pending[i]
        /\ pending'[Unsubmitted + 1] = r
    BY <1>2, <1>5, <1>7, <2>1
  <2>6. \A k \in 0..(SqSize - 1) :
           k < Unsubmitted' => /\ sqes'[SqSlot(k)'].user_data = pending'[k + 1]
                               /\ sqes'[SqSlot(k)'].fields = Fields(pending'[k + 1])
    <3> SUFFICES ASSUME NEW k \in 0..(SqSize - 1), k < Unsubmitted'
                 PROVE  /\ sqes'[SqSlot(k)'].user_data = pending'[k + 1]
                        /\ sqes'[SqSlot(k)'].fields = Fields(pending'[k + 1])
      OBVIOUS
    <3>1. CASE k < Unsubmitted
      <4>1. /\ sqes[SqSlot(k)].user_data = pending[k + 1]
            /\ sqes[SqSlot(k)].fields = Fields(pending[k + 1])
        BY <1>1, <3>1 DEF EntriesFit
      <4>2. pending'[k + 1] = pending[k + 1]
        BY <1>5, <2>5, <3>1
      <4>3. sqes'[SqSlot(k)'] = sqes[SqSlot(k)]
        BY <1>9, <1>10, <2>4, <3>1
      <4> QED BY <4>1, <4>2, <4>3
    <3>2. CASE ~(k < Unsubmitted)
      <4>1. k = Unsubmitted
        BY <1>5, <1>7, <3>2
      <4>2. SqSlot(k)' = slot
        BY <1>8, <1>10, <4>1
      <4> QED BY <2>3, <2>4, <2>5, <4>1, <4>2
    <3> QED BY <3>1, <3>2
  <2> QED BY <2>4, <2>5, <2>6 DEF EntriesFit, SqSlots, Sqe
<1>16. KernelFits' /\ CompletionsFit' /\ ViewFits'
  BY <1>1, <1>3, KernelStays, CompletionsStay, ViewStays
<1> QED BY <1>11, <1>12, <1>14, <1>15, <1>16 DEF RingsInv
(* The tail is published: the kernel may take all that was enqueued.       *)
LEMMA FlushStep == ASSUME RingsInv, Submit \/ SubmitAndWait PROVE RingsInv'
<1>1. /\ CountersFit /\ CallFits /\ IndicesFit /\ EntriesFit /\ KernelFits
      /\ CompletionsFit /\ ViewFits
  BY DEF RingsInv
<1>2. Flush
  BY DEF Submit, SubmitAndWait
<1>3. /\ UNCHANGED <<setup, sqes, index_array, sqe_tail, sq_head, sq_thread, cq_tail, cq_head>>
      /\ UNCHANGED <<kernelVars, backlog, cqes, view, pending, completed>>
  BY DEF Submit, SubmitAndWait, cqVars
<1>4. call' \in {"none", "submit", "events", "submit_if_asleep", "events_after_wakeup"}
  BY Zenon DEF Submit, SubmitAndWait
<1>5. Unsubmitted \in Nat
  BY <1>1, DistancesFit DEF Position
<1>6. CountersFit'
  BY <1>1, <1>2, <1>3 DEF CountersFit, Flush, Position
<1>7. CallFits'
  <2>1. Unsubmitted' = Unsubmitted /\ Minus(sq_tail, sq_head)' = Unsubmitted
    BY <1>2, <1>3 DEF Unsubmitted, Minus, Flush
  <2>2. to_submit' = Unsubmitted
    BY <1>2 DEF Flush
  <2> QED BY <1>1, <1>3, <1>4, <1>5, <2>1, <2>2 DEF CallFits
<1>8. IndicesFit' /\ EntriesFit' /\ KernelFits' /\ CompletionsFit' /\ ViewFits'
  BY <1>1, <1>3, IndicesStay, EntriesStay, KernelStays, CompletionsStay, ViewStays
<1> QED BY <1>6, <1>7, <1>8 DEF RingsInv

(* What only the call and the kernel's thread change                       *)
LEMMA CallStep == ASSUME RingsInv, GetEvents \/ Wakeup \/ CallReturns \/ SqThreadDozes
                  PROVE  RingsInv'
<1>1. /\ CountersFit /\ CallFits /\ IndicesFit /\ EntriesFit /\ KernelFits
      /\ CompletionsFit /\ ViewFits
  BY DEF RingsInv
<1>2. /\ UNCHANGED <<setup, sqes, index_array, sqe_head, sqe_tail, sq_tail, sq_head>>
      /\ UNCHANGED <<cq_tail, cq_head, kernelVars, backlog, cqes, view, pending, completed>>
  BY DEF GetEvents, Wakeup, CallReturns, SqThreadDozes, cqVars, sqVars
<1>3. to_submit' \in {0, to_submit}
  BY DEF GetEvents, Wakeup, CallReturns, SqThreadDozes, callVars
<1>4. call' \in {"none", "submit", "events", "submit_if_asleep", "events_after_wakeup"}
  BY <1>1, Zenon DEF GetEvents, Wakeup, CallReturns, SqThreadDozes, CallFits
<1>5. sq_thread' \in (IF setup = "sqpoll" THEN {"awake", "dozing", "asleep"} ELSE {"none"})
  BY <1>1 DEF GetEvents, Wakeup, CallReturns, SqThreadDozes, CallFits, NeedWakeupFlag
<1>6. Minus(sq_tail, sq_head) \in Nat
  BY <1>1, DistancesFit DEF Position
<1>7. CallFits'
  <2>1. Unsubmitted' = Unsubmitted /\ Minus(sq_tail, sq_head)' = Minus(sq_tail, sq_head)
    BY <1>2 DEF Unsubmitted, Minus
  <2>2. to_submit' \in Nat /\ (setup # "sqpoll" => to_submit' <= Minus(sq_tail, sq_head))
    BY <1>1, <1>3, <1>6 DEF CallFits
  <2> QED BY <1>1, <1>2, <1>4, <1>5, <2>1, <2>2 DEF CallFits
<1>8. CountersFit' /\ IndicesFit' /\ EntriesFit' /\ KernelFits' /\ CompletionsFit' /\ ViewFits'
  BY <1>1, <1>2, CountersStay, IndicesStay, EntriesStay, KernelStays, CompletionsStay,
     ViewStays
<1> QED BY <1>7, <1>8 DEF RingsInv

(* The kernel takes the first entry, and the others are where they were.   *)
LEMMA KernelTakesStep == ASSUME RingsInv, KernelTakes PROVE RingsInv'
<1>1. /\ CountersFit /\ CallFits /\ IndicesFit /\ EntriesFit /\ KernelFits
      /\ CompletionsFit /\ ViewFits
  BY DEF RingsInv
<1>2. /\ setup # "sqpoll" => to_submit > 0
      /\ sq_head # sq_tail
      /\ kernel' = kernel \cup {sqes[index_array[sq_head % SqSize]].user_data}
      /\ sq_head' = Plus(sq_head, 1)
      /\ to_submit' = IF setup = "sqpoll" THEN to_submit ELSE to_submit - 1
      /\ pending' = Tail(pending)
  BY DEF KernelTakes
<1>3. /\ UNCHANGED <<setup, sqes, index_array, sqe_head, sqe_tail, sq_tail, call, sq_thread>>
      /\ UNCHANGED <<work, backlog, cq_tail, cq_head, cqes, view, completed>>
  BY DEF KernelTakes, cqVars, sqVars
<1>4. /\ Unsubmitted \in Nat /\ Minus(sq_tail, sq_head) \in Nat
      /\ Wrap \in Nat /\ SqSize \in Nat /\ 0 < SqSize /\ SqSize < Wrap
  BY <1>1, DistancesFit DEF Position
<1>5. sqe_tail \in Position /\ sq_head \in Position /\ sq_tail \in Position
  BY <1>1 DEF CountersFit
<1>6. 1 <= Minus(sq_tail, sq_head) /\ 1 <= Unsubmitted
  <2>1. Minus(sq_tail, sq_head)
           = IF sq_tail >= sq_head THEN sq_tail - sq_head ELSE (sq_tail + Wrap) - sq_head
    BY <1>5, MinusIs
  <2>2. Minus(sq_tail, sq_head) # 0
    BY <1>2, <1>4, <1>5, <2>1 DEF Position
  <2> QED BY <1>1, <1>4, <2>2 DEF CallFits
<1>7. /\ sq_head' \in Position
      /\ Unsubmitted' = Unsubmitted - 1
      /\ Minus(sq_tail, sq_head)' = Minus(sq_tail, sq_head) - 1
  <2>1. 1 \in Nat
    OBVIOUS
  <2>2. /\ Plus(sq_head, 1) \in Position
        /\ Minus(sq_tail, Plus(sq_head, 1)) = Minus(sq_tail, sq_head) - 1
    BY <1>5, <1>6, <2>1, MinusAfterTaking
  <2>3. Minus(sqe_tail, Plus(sq_head, 1)) = Minus(sqe_tail, sq_head) - 1
    BY <1>5, <1>6, <2>1, MinusAfterTaking DEF Unsubmitted
  <2>4. Minus(sq_tail, sq_head)' = Minus(sq_tail, Plus(sq_head, 1))
    BY <1>2, <1>3 DEF Minus
  <2>5. Unsubmitted' = Minus(sqe_tail, Plus(sq_head, 1))
    BY <1>2, <1>3 DEF Minus, Unsubmitted
  <2> QED BY <1>2, <2>2, <2>3, <2>4, <2>5 DEF Unsubmitted
<1>8. \A k \in 0..(SqSize - 1) : k < Unsubmitted' => /\ k + 1 \in 0..(SqSize - 1)
                                                     /\ k + 1 < Unsubmitted
                                                     /\ SqSlot(k)' = SqSlot(k + 1)
  <2> SUFFICES ASSUME NEW k \in 0..(SqSize - 1), k < Unsubmitted'
               PROVE  /\ k + 1 \in 0..(SqSize - 1) /\ k + 1 < Unsubmitted
                      /\ SqSlot(k)' = SqSlot(k + 1)
    OBVIOUS
  <2>1. k + 1 \in 0..(SqSize - 1) /\ k + 1 < Unsubmitted
    BY <1>1, <1>4, <1>7 DEF CallFits
  <2>2. k \in Nat /\ 1 \in Nat /\ 1 + k <= Wrap /\ k + 1 = 1 + k
    BY <1>4, <2>1
  <2>3. Plus(Plus(sq_head, 1), k) = Plus(sq_head, k + 1)
    BY <1>5, <2>2, SlotsKeepTheirPlace
  <2>4. SqSlot(k)' = Plus(Plus(sq_head, 1), k) % SqSize
    BY <1>2 DEF SqSlot, Plus
  <2> QED BY <2>1, <2>3, <2>4 DEF SqSlot
<1>9. CountersFit'
  BY <1>1, <1>3, <1>7 DEF CountersFit, Position
<1>10. CallFits'
  <2>1. to_submit' \in Nat /\ (setup # "sqpoll" => to_submit' <= Minus(sq_tail, sq_head) - 1)
    BY <1>1, <1>2, <1>4, <1>6 DEF CallFits
  <2>2. Unsubmitted - 1 <= SqSize /\ Minus(sq_tail, sq_head) - 1 <= Unsubmitted - 1
    BY <1>1, <1>4 DEF CallFits
  <2> QED BY <1>1, <1>3, <1>7, <2>1, <2>2 DEF CallFits
<1>11. IndicesFit'
  <2>1. \A k \in 0..(SqSize - 1) :
           k < Unsubmitted' => index_array[SqSlot(k)'] = SqSlot(k)'
    BY <1>1, <1>8 DEF IndicesFit
  <2> QED BY <1>1, <1>3, <2>1 DEF IndicesFit, SqSlots
<1>12. EntriesFit'
  <2>1. pending \in Seq(Requests) /\ Len(pending) = Unsubmitted /\ pending # <<>>
    BY <1>1, <1>4, <1>6 DEF EntriesFit
  <2>2. /\ pending' \in Seq(Requests)
        /\ Len(pending') = Unsubmitted'
        /\ \A i \in 1..Unsubmitted' : pending'[i] = pending[i + 1]
    BY <1>2, <1>7, <2>1
  <2>3. \A k \in 0..(SqSize - 1) :
           k < Unsubmitted' => /\ sqes[SqSlot(k)'].user_data = pending'[k + 1]
                               /\ sqes[SqSlot(k)'].fields = Fields(pending'[k + 1])
    <3> SUFFICES ASSUME NEW k \in 0..(SqSize - 1), k < Unsubmitted'
                 PROVE  /\ sqes[SqSlot(k)'].user_data = pending'[k + 1]
                        /\ sqes[SqSlot(k)'].fields = Fields(pending'[k + 1])
      OBVIOUS
    <3>1. /\ k + 1 \in 0..(SqSize - 1) /\ k + 1 < Unsubmitted
          /\ SqSlot(k)' = SqSlot(k + 1)
      BY <1>8
    <3>2. pending'[k + 1] = pending[(k + 1) + 1]
      BY <1>4, <1>7, <2>2, <3>1
    <3> QED BY <1>1, <3>1, <3>2 DEF EntriesFit
  <2> QED BY <1>1, <1>3, <2>2, <2>3 DEF EntriesFit, SqSlots, Sqe
<1>13. KernelFits'
  <2>1. 0 \in 0..(SqSize - 1) /\ 0 < Unsubmitted /\ 0 \in Nat /\ 0 <= Wrap
    BY <1>4, <1>6
  <2>2. SqSlot(0) = sq_head % SqSize
    BY <1>4, <1>5, <2>1, PlusIs DEF SqSlot, Position
  <2>3. sqes[index_array[sq_head % SqSize]].user_data = pending[0 + 1]
    BY <1>1, <2>1, <2>2 DEF IndicesFit, EntriesFit
  <2>4. pending[0 + 1] \in Requests
    BY <1>1, <1>4, <1>6 DEF EntriesFit
  <2> QED BY <1>1, <1>2, <1>3, <2>3, <2>4 DEF KernelFits
<1>14. CompletionsFit' /\ ViewFits'
  BY <1>1, <1>3, CompletionsStay, ViewStays
<1> QED BY <1>9, <1>10, <1>11, <1>12, <1>13, <1>14 DEF RingsInv

(* A completion is put behind those that the thread has not given back.    *)
LEMMA PutStep ==
    ASSUME CountersFit, CompletionsFit, ViewFits, NEW r \in Requests, Room, Put(r),
           UNCHANGED <<sqe_head, sqe_tail, sq_tail, sq_head, cq_head, view>>
    PROVE  CountersFit' /\ CompletionsFit' /\ ViewFits'
<1> DEFINE slot == cq_tail % CqSize
           n == Len(completed)
<1>1. /\ cqes' = [cqes EXCEPT ![slot] = r]
      /\ cq_tail' = Plus(cq_tail, 1)
      /\ completed' = Append(completed, r)
  BY DEF Put
<1>2. /\ completed \in Seq(Requests) /\ n \in Nat /\ n = Minus(cq_tail, cq_head)
      /\ n < CqSize
      /\ Wrap \in Nat /\ CqSize \in Nat /\ 0 < CqSize /\ CqSize < Wrap
  BY DistancesFit DEF CompletionsFit, Room
<1>3. cq_tail \in Position /\ cq_head \in Position
  BY DEF CountersFit
<1>4. cq_tail' \in Position /\ Minus(cq_tail, cq_head)' = n + 1
  <2>1. Minus(cq_tail, cq_head) + 1 < Wrap
    BY <1>2
  <2>2. Plus(cq_tail, 1) \in Position /\ Minus(Plus(cq_tail, 1), cq_head) = n + 1
    BY <1>2, <1>3, <2>1, MinusAfterAdding
  <2> QED BY <1>1, <2>2 DEF Minus
<1>5. CqSlot(n) = slot /\ slot \in CqSlots
  BY <1>2, <1>3, TailIsAtItsDistance, SlotIsInRange, SizesAre DEF CqSlot, CqSlots
<1>6. \A k \in 0..(CqSize - 1) : k < n => CqSlot(k) # slot
  <2> SUFFICES ASSUME NEW k \in 0..(CqSize - 1), k < n PROVE CqSlot(k) # slot
    OBVIOUS
  <2>1. k \in Nat /\ n < CqSize + k /\ n <= Wrap
    BY <1>2
  <2>2. CqSlot(k) # CqSlot(n)
    BY <1>2, <1>3, <2>1, SlotsDiffer, SizesAre DEF CqSlot
  <2> QED BY <1>5, <2>2
<1>7. \A k \in 0..(CqSize - 1) : CqSlot(k)' = CqSlot(k) /\ CqSlot(k) \in CqSlots
  <2> SUFFICES ASSUME NEW k \in 0..(CqSize - 1)
               PROVE  CqSlot(k)' = CqSlot(k) /\ CqSlot(k) \in CqSlots
    OBVIOUS
  <2>1. k \in Nat /\ k <= Wrap
    BY <1>2
  <2>2. Plus(cq_head, k) \in Position
    BY <1>3, <2>1, PlusIs
  <2> QED BY <2>2, SlotIsInRange, SizesAre DEF CqSlot, CqSlots, Plus
<1> HIDE DEF slot
<1>8. /\ completed' \in Seq(Requests) /\ Len(completed') = n + 1
      /\ \A i \in 1..n : completed'[i] = completed[i]
      /\ completed'[n + 1] = r
  BY <1>1, <1>2
<1>9. /\ cqes' \in [CqSlots -> Requests \cup {None}]
      /\ cqes'[slot] = r
      /\ \A i \in CqSlots : i # slot => cqes'[i] = cqes[i]
  BY <1>1, <1>5 DEF CompletionsFit
<1>10. \A k \in 0..(CqSize - 1) :
          k < Len(completed') => cqes'[CqSlot(k)'] = completed'[k + 1]
  <2> SUFFICES ASSUME NEW k \in 0..(CqSize - 1), k < n + 1
               PROVE  cqes'[CqSlot(k)'] = completed'[k + 1]
    BY <1>8
  <2>1. CASE k < n
    <3>1. cqes[CqSlot(k)] = completed[k + 1] /\ completed'[k + 1] = completed[k + 1]
      BY <1>2, <1>8, <2>1 DEF CompletionsFit
    <3> QED BY <1>6, <1>7, <1>9, <2>1, <3>1
  <2>2. CASE ~(k < n)
    <3>1. k = n
      BY <1>2, <2>2
    <3> QED BY <1>5, <1>7, <1>8, <1>9, <3>1
  <2> QED BY <2>1, <2>2
<1>11. CompletionsFit'
  <2>1. n + 1 <= CqSize
    BY <1>2
  <2> QED BY <1>4, <1>8, <1>9, <1>10, <2>1 DEF CompletionsFit, CqSlots
<1>12. CountersFit'
  BY <1>4 DEF CountersFit, Position
<1>13. ViewFits'
  <2>1. view \in [head : Position, count : 0..CqSize, next : 0..CqSize]
    BY DEF ViewFits
  <2>2. view.count <= n /\ view.count \in Nat
    BY <2>1, <1>2 DEF ViewFits
  <2>3. view.count <= n + 1
    BY <1>2, <2>2
  <2> QED BY <1>8, <2>3 DEF ViewFits, NoView, Position
<1> QED BY <1>11, <1>12, <1>13

(* The kernel posts what it is done with, or sets it aside, and later puts *)
(* it in the ring: in each case in the order in which it was posted.       *)
LEMMA KernelCompletionStep ==
    ASSUME RingsInv, KernelFlushes \/ \E r \in Requests : KernelCompletes(r) \/ KernelPosts(r)
    PROVE  RingsInv'
<1>1. /\ CountersFit /\ CallFits /\ IndicesFit /\ EntriesFit /\ KernelFits
      /\ CompletionsFit /\ ViewFits
  BY DEF RingsInv
<1>2. /\ UNCHANGED <<setup, sqes, index_array, sqe_head, sqe_tail, sq_tail, sq_head, pending>>
      /\ UNCHANGED <<cq_head, view, callVars>>
  BY DEF KernelFlushes, KernelCompletes, KernelPosts, sqVars
<1>3. CallFits' /\ IndicesFit' /\ EntriesFit'
  BY <1>1, <1>2, CallStays, IndicesStay, EntriesStay
<1>4. kernel \subseteq Requests /\ work \subseteq Requests /\ backlog \in Seq(Requests)
  BY <1>1 DEF KernelFits
<1>5. CASE KernelFlushes
  <2>1. backlog # <<>> /\ Head(backlog) \in Requests /\ Tail(backlog) \in Seq(Requests)
    BY <1>4, <1>5 DEF KernelFlushes
  <2>2. CountersFit' /\ CompletionsFit' /\ ViewFits'
    BY <1>1, <1>2, <1>5, <2>1, PutStep DEF KernelFlushes
  <2>3. KernelFits'
    BY <1>4, <1>5, <2>1 DEF KernelFlushes, KernelFits, kernelVars
  <2> QED BY <1>3, <2>2, <2>3 DEF RingsInv
<1>6. CASE \E r \in Requests : KernelCompletes(r)
  <2> PICK r \in Requests : KernelCompletes(r)
    BY <1>6
  <2>1. KernelFits'
    BY <1>4 DEF KernelCompletes, cqVars, KernelFits
  <2>2. UNCHANGED <<cq_tail, cqes, completed>>
    BY DEF KernelCompletes, cqVars
  <2>3. CountersFit' /\ CompletionsFit' /\ ViewFits'
    BY <1>1, <1>2, <2>2, CountersStay, CompletionsStay, ViewStays
  <2> QED BY <1>3, <2>1, <2>3 DEF RingsInv
<1>7. CASE \E r \in Requests : KernelPosts(r)
  <2> PICK r \in Requests : KernelPosts(r)
    BY <1>7
  <2>1. kernel' = kernel /\ work' = work \ {r}
    BY DEF KernelPosts
  <2>2. CASE Room /\ backlog = <<>>
    <3>1. Put(r) /\ backlog' = backlog
      BY <2>2 DEF KernelPosts
    <3>2. CountersFit' /\ CompletionsFit' /\ ViewFits'
      BY <1>1, <1>2, <2>2, <3>1, PutStep
    <3>3. KernelFits'
      BY <1>4, <2>1, <3>1 DEF KernelFits
    <3> QED BY <1>3, <3>2, <3>3 DEF RingsInv
  <2>3. CASE ~(Room /\ backlog = <<>>)
    <3>1. backlog' = Append(backlog, r) /\ UNCHANGED <<cqes, cq_tail, completed>>
      BY <2>3 DEF KernelPosts
    <3>2. KernelFits'
      BY <1>4, <2>1, <3>1 DEF KernelFits
    <3>3. CountersFit' /\ CompletionsFit' /\ ViewFits'
      BY <1>1, <1>2, <3>1, CountersStay, CompletionsStay, ViewStays
    <3> QED BY <1>3, <3>2, <3>3 DEF RingsInv
  <2> QED BY <2>2, <2>3
<1> QED BY <1>5, <1>6, <1>7

(* A view is of what is there when it is taken, and it is read to its end. *)
LEMMA ViewStep == ASSUME RingsInv, GetCompletionEntries \/ ReadNext PROVE RingsInv'
<1>1. /\ CountersFit /\ CallFits /\ IndicesFit /\ EntriesFit /\ KernelFits
      /\ CompletionsFit /\ ViewFits
  BY DEF RingsInv
<1>2. /\ UNCHANGED <<setup, sqes, index_array, sqe_head, sqe_tail, sq_tail, sq_head, pending>>
      /\ UNCHANGED <<callVars, kernelVars, backlog, cqes, cq_head, cq_tail, completed>>
  BY DEF GetCompletionEntries, ReadNext, sqVars, cqVars
<1>3. CountersFit' /\ CallFits' /\ IndicesFit' /\ EntriesFit' /\ KernelFits' /\ CompletionsFit'
  BY <1>1, <1>2, CountersStay, CallStays, IndicesStay, EntriesStay, KernelStays,
     CompletionsStay
<1>4. /\ Minus(cq_tail, cq_head) \in Nat /\ Minus(cq_tail, cq_head) <= CqSize
      /\ Len(completed) = Minus(cq_tail, cq_head) /\ CqSize \in Nat /\ cq_head \in Position
  BY <1>1, DistancesFit DEF CompletionsFit, CountersFit, Position
<1>5. CASE GetCompletionEntries
  <2>1. view' = [head |-> cq_head, count |-> Minus(cq_tail, cq_head), next |-> 0]
    BY <1>5 DEF GetCompletionEntries
  <2>2. ViewFits'
    BY <1>2, <1>4, <2>1 DEF ViewFits, Position
  <2> QED BY <1>3, <2>2 DEF RingsInv
<1>6. CASE ReadNext
  <2>1. view.next < view.count /\ view' = [view EXCEPT !.next = @ + 1]
    BY <1>6 DEF ReadNext
  <2>2. /\ view \in [head : Position, count : 0..CqSize, next : 0..CqSize]
        /\ view.count <= Len(completed)
        /\ view # NoView => view.head = cq_head
    BY <1>1 DEF ViewFits
  <2>3. view.head = cq_head
    BY <2>1, <2>2, SizeAssumption DEF NoView
  <2>4. /\ view'.head = view.head /\ view'.count = view.count
        /\ view'.next = view.next + 1
        /\ view' \in [head : Position, count : 0..CqSize, next : 0..CqSize]
    BY <1>4, <2>1, <2>2
  <2>5. view'.next <= view'.count
    BY <1>4, <2>1, <2>2, <2>4
  <2>6. ViewFits'
    BY <1>2, <2>2, <2>3, <2>4, <2>5 DEF ViewFits, NoView, Position
  <2> QED BY <1>3, <2>6 DEF RingsInv
<1> QED BY <1>5, <1>6

(* Those of the view are given back, and those put since are the first.    *)
LEMMA AdvanceStep == ASSUME RingsInv, CompletionQueueAdvance PROVE RingsInv'
<1> DEFINE c == view.count
<1>1. /\ CountersFit /\ CallFits /\ IndicesFit /\ EntriesFit /\ KernelFits
      /\ CompletionsFit /\ ViewFits
  BY DEF RingsInv
<1>2. /\ cq_head' = Plus(cq_head, c)
      /\ completed' = SubSeq(completed, c + 1, Len(completed))
      /\ view' = NoView
  BY DEF CompletionQueueAdvance
<1>3. /\ UNCHANGED <<setup, sqes, index_array, sqe_head, sqe_tail, sq_tail, sq_head, pending>>
      /\ UNCHANGED <<callVars, kernelVars, backlog, cqes, cq_tail>>
  BY DEF CompletionQueueAdvance, sqVars, cqVars
<1>4. CallFits' /\ IndicesFit' /\ EntriesFit' /\ KernelFits'
  BY <1>1, <1>3, CallStays, IndicesStay, EntriesStay, KernelStays
<1>5. /\ completed \in Seq(Requests) /\ Len(completed) \in Nat
      /\ Len(completed) = Minus(cq_tail, cq_head) /\ Len(completed) <= CqSize
      /\ Wrap \in Nat /\ CqSize \in Nat /\ CqSize < Wrap
      /\ c \in Nat /\ c <= Len(completed)
      /\ cq_tail \in Position /\ cq_head \in Position
  BY <1>1, DistancesFit DEF CompletionsFit, ViewFits, CountersFit
<1> HIDE DEF c
<1>6. cq_head' \in Position /\ Minus(cq_tail, cq_head)' = Len(completed) - c
  <2>1. /\ Plus(cq_head, c) \in Position
        /\ Minus(cq_tail, Plus(cq_head, c)) = Minus(cq_tail, cq_head) - c
    BY <1>5, MinusAfterTaking
  <2>2. Minus(cq_tail, cq_head)' = Minus(cq_tail, Plus(cq_head, c))
    BY <1>2, <1>3 DEF Minus
  <2> QED BY <1>2, <1>5, <2>1, <2>2
<1>7. /\ completed' \in Seq(Requests)
      /\ Len(completed') = Len(completed) - c
      /\ \A i \in 1..(Len(completed) - c) : completed'[i] = completed[c + i]
  BY <1>2, <1>5
<1>8. CountersFit'
  BY <1>1, <1>3, <1>6 DEF CountersFit, Position
<1>9. CompletionsFit'
  <2>1. \A k \in 0..(CqSize - 1) :
           k < Len(completed') => cqes[CqSlot(k)'] = completed'[k + 1]
    <3> SUFFICES ASSUME NEW k \in 0..(CqSize - 1), k < Len(completed')
                 PROVE  cqes[CqSlot(k)'] = completed'[k + 1]
      OBVIOUS
    <3>1. k \in Nat /\ c + k \in 0..(CqSize - 1) /\ c + k < Len(completed) /\ c + k <= Wrap
      BY <1>5, <1>7
    <3>2. Plus(Plus(cq_head, c), k) = Plus(cq_head, c + k)
      BY <1>5, <3>1, SlotsKeepTheirPlace
    <3>3. CqSlot(k)' = CqSlot(c + k)
      BY <1>2, <3>2 DEF CqSlot, Plus
    <3>4. completed'[k + 1] = completed[(c + k) + 1]
      BY <1>5, <1>7, <3>1
    <3> QED BY <1>1, <3>1, <3>3, <3>4 DEF CompletionsFit
  <2>2. Len(completed) - c <= CqSize
    BY <1>5
  <2> QED BY <1>1, <1>3, <1>6, <1>7, <2>1, <2>2 DEF CompletionsFit, CqSlots
<1>10. ViewFits'
  <2>1. Len(completed') >= 0 /\ 0 \in Position
    BY <1>5, <1>7, SizeAssumption DEF Position
  <2> QED BY <1>2, <1>5, <2>1 DEF ViewFits, NoView, Position
<1> QED BY <1>4, <1>8, <1>9, <1>10 DEF RingsInv

LEMMA RingsStep == ASSUME RingsInv, [Next]_vars PROVE RingsInv'
<1>1. CASE UNCHANGED vars \/ \E r \in Requests : EnqueueOutside(r)
  <2>1. /\ UNCHANGED <<setup, sqes, index_array, sqe_head, sqe_tail, sq_tail, sq_head, pending>>
        /\ UNCHANGED <<callVars, kernelVars, backlog, cqes, cq_head, cq_tail, completed, view>>
    BY <1>1 DEF vars, sqVars, cqVars, EnqueueOutside
  <2> QED BY <2>1, CountersStay, CallStays, IndicesStay, EntriesStay, KernelStays,
             CompletionsStay, ViewStays DEF RingsInv
<1>2. CASE ThreadStep
  BY <1>2, FlushStep, CallStep, ViewStep, AdvanceStep DEF ThreadStep
<1>3. CASE KernelStep
  BY <1>3, KernelTakesStep, CallStep, KernelCompletionStep DEF KernelStep
<1>4. CASE \E r \in Requests : Enqueue(r)
  BY <1>4, EnqueueStep
<1> QED BY <1>1, <1>2, <1>3, <1>4 DEF Next

(* The invariant is what the thread and the kernel need to agree.          *)
LEMMA RingsSafe == RingsInv => RingsAgree
<1> SUFFICES ASSUME RingsInv PROVE RingsAgree
  OBVIOUS
<1>1. /\ CountersFit /\ CallFits /\ IndicesFit /\ EntriesFit /\ KernelFits
      /\ CompletionsFit /\ ViewFits
  BY DEF RingsInv
<1>2. /\ Unsubmitted \in Nat /\ SqSize \in Nat /\ CqSize \in Nat
  BY <1>1, DistancesFit DEF Position
<1>3. TypeOk
  <2>1. \A i \in 0..(SqSize - 1) : sqes[i].user_data \in Requests \cup {None}
    BY <1>1 DEF EntriesFit, Sqe, SqSlots
  <2>2. {sqe_head, sqe_tail, sq_tail, sq_head, cq_head, cq_tail} \subseteq 0..(Wrap - 1)
    BY <1>1 DEF CountersFit, Position
  <2>3. index_array \in [0..(SqSize - 1) -> 0..(SqSize - 1)]
    BY <1>1 DEF IndicesFit, SqSlots
  <2>4. cqes \in [0..(CqSize - 1) -> Requests \cup {None}] /\ Minus(cq_tail, cq_head) <= CqSize
    BY <1>1 DEF CompletionsFit, CqSlots
  <2>5. view.next <= view.count /\ view.count <= CqSize
    BY <1>1, <1>2 DEF ViewFits
  <2>6. kernel \cup work \subseteq Requests /\ backlog \in Seq(Requests)
    BY <1>1 DEF KernelFits
  <2> QED BY <1>1, <2>1, <2>2, <2>3, <2>4, <2>5, <2>6 DEF TypeOk, CallFits
<1>4. KernelReadsWhatWasEnqueued
  <2>1. pending \in Seq(Requests) /\ Len(pending) = Unsubmitted /\ Unsubmitted <= SqSize
    BY <1>1 DEF EntriesFit, CallFits
  <2>2. ASSUME NEW i \in DOMAIN pending
        PROVE  /\ sqes[index_array[Plus(sq_head, i - 1) % SqSize]].user_data = pending[i]
               /\ sqes[index_array[Plus(sq_head, i - 1) % SqSize]].fields = Fields(pending[i])
    <3>1. i - 1 \in 0..(SqSize - 1) /\ i - 1 < Unsubmitted /\ (i - 1) + 1 = i
      BY <1>2, <2>1
    <3> QED BY <1>1, <3>1 DEF EntriesFit, IndicesFit, SqSlot
  <2> QED BY <2>1, <2>2 DEF KernelReadsWhatWasEnqueued
<1>5. ViewIsStable
  <2>1. /\ completed \in Seq(Requests) /\ Len(completed) = Minus(cq_tail, cq_head)
        /\ Minus(cq_tail, cq_head) <= CqSize
    BY <1>1 DEF CompletionsFit
  <2>2. ASSUME NEW i \in DOMAIN completed
        PROVE  cqes[Plus(cq_head, i - 1) % CqSize] = completed[i]
    <3>1. i - 1 \in 0..(CqSize - 1) /\ i - 1 < Len(completed) /\ (i - 1) + 1 = i
      BY <1>2, <2>1
    <3> QED BY <1>1, <3>1 DEF CompletionsFit, CqSlot
  <2> QED BY <1>1, <2>1, <2>2 DEF ViewIsStable, ViewFits
<1> QED BY <1>3, <1>4, <1>5 DEF RingsAgree

(* Whatever the sizes of the rings, of the counters and of the mapping:    *)
(* until enqueue_entry_for_submission() stores an index past the mapping,  *)
(* the kernel reads the entries that the thread has filled, each once and  *)
(* in their order, and the thread the completions that the kernel has put. *)
THEOREM TheRingsAgree == Spec => []RingsAgree
<1>1. Init => RingsInv
  BY RingsInit
<1>2. RingsInv /\ [Next]_vars => RingsInv'
  BY RingsStep
<1>3. RingsInv => RingsAgree
  BY RingsSafe
<1> QED BY <1>1, <1>2, <1>3, PTL DEF Spec

(* The same of a behaviour of the run, which is one of the rings, of the   *)
(* context's loop or of one object from its setup to its end.              *)
THEOREM TheRingsOfTheRunAgree == PartsSpec => []RingsAgree
<1>1. PartsInit => RingsInv
  BY RingsInit DEF PartsInit
<1>2. RingsInv /\ [PartsNext]_partsVars => RingsInv'
  <2> SUFFICES ASSUME RingsInv, [PartsNext]_partsVars PROVE RingsInv'
    OBVIOUS
  <2>1. [Next]_vars
    BY DEF PartsNext, partsVars
  <2> QED BY <2>1, RingsStep
<1>3. RingsInv => RingsAgree
  BY RingsSafe
<1> QED BY <1>1, <1>2, <1>3, PTL DEF PartsSpec
(***************************************************************************)
(* The constructors and destructors                                        *)
(***************************************************************************)

Resources == {"fd", "cq_map", "sq_map", "sqe_map", "event_fd"}

(* What the object that is being constructed does not have yet             *)
Ahead == [setup |-> Resources,
          sq_map |-> {"sq_map", "cq_map", "sqe_map", "event_fd"},
          cq_map |-> {"cq_map", "sqe_map", "event_fd"},
          sqe_map |-> {"sqe_map", "event_fd"},
          members |-> {"event_fd"},
          ring |-> {"event_fd"},
          event_fd |-> {"event_fd"}]

(* Each thing of the kernel's has a member of its own for it, in the two   *)
(* objects; no failure is taken for one.                                   *)
MembersFit == /\ s_members \in [{"ring", "moved_to"} -> [Resources -> {"empty"} \cup Resources]]
              /\ \A o \in {"ring", "moved_to"}, m \in Resources :
                    s_members[o][m] \in {"empty", m}

(* Only a move puts something into the other object, and by then, as at    *)
(* the end, there is nothing in this one.                                  *)
ObjectsFit == /\ s_pc \in DOMAIN Ahead =>
                     \A m \in Ahead[s_pc] : s_members["ring"][m] = "empty"
              /\ s_pc # "moved" => \A m \in Resources : s_members["moved_to"][m] = "empty"
              /\ s_pc \in {"moved", "destroyed", "thrown"} =>
                     \A m \in Resources : s_members["ring"][m] = "empty"

(* What is held is open, and the other way round.                          *)
OpenFits == /\ s_stray = FALSE
            /\ s_open \subseteq Resources
            /\ \A m \in Resources :
                  m \in s_open <=> \/ s_members["ring"][m] = m
                                   \/ s_members["moved_to"][m] = m

ArgsFit == /\ s_args \subseteq Arguments
           /\ Setup!KernelAccepts
           /\ s_single_mmap \in BOOLEAN
           /\ s_timed_wait \in BOOLEAN
           /\ s_failed \in BOOLEAN

SetupInv == ArgsFit /\ MembersFit /\ ObjectsFit /\ OpenFits

(* The failures that are noticed where they happen                         *)
Noticed == "arguments" \notin Failures /\ "no_memory" \notin Failures
LEMMA EmptyIs == /\ DOMAIN Setup!Empty = Resources
                 /\ Setup!Empty \in [Resources -> {"empty"} \cup Resources]
                 /\ \A m \in Resources : Setup!Empty[m] = "empty"
                 /\ "empty" \notin Resources
BY DEF Setup!Empty, Resources

(* What an object releases is what it has a member for. *)
LEMMA HeldIs == ASSUME MembersFit, NEW o \in {"ring", "moved_to"}
                PROVE  Setup!Held(o) = {m \in Resources : s_members[o][m] = m}
<1>1. \A m \in Resources : s_members[o][m] \in {"empty", m} /\ m # "empty"
  BY EmptyIs DEF MembersFit
<1>2. Setup!Held(o) = {s_members[o][m] : m \in Resources} \ {"empty"}
  BY EmptyIs DEF Setup!Held
<1> QED BY <1>1, <1>2

LEMMA SetupArgsStay == ASSUME ArgsFit, UNCHANGED <<s_args, s_single_mmap, s_timed_wait>>,
                              s_failed' \in BOOLEAN
                       PROVE  ArgsFit'
<1>1. Setup!KernelAccepts'
  BY DEF ArgsFit, Setup!KernelAccepts, Setup!Flags
<1> QED BY <1>1 DEF ArgsFit

(* An object is released: what it held is no longer open, and it has not   *)
(* held what the other one holds.                                          *)
LEMMA ReleaseStep == ASSUME SetupInv, NEW o \in {"ring", "moved_to"}, Setup!Release(o)
                     PROVE  /\ MembersFit' /\ OpenFits'
                            /\ \A m \in Resources : s_members'[o][m] = "empty"
                            /\ \A p \in {"ring", "moved_to"} :
                                  p # o => s_members'[p] = s_members[p]
<1>1. MembersFit /\ ObjectsFit /\ OpenFits
  BY DEF SetupInv
<1>2. /\ s_open' = s_open \ Setup!Held(o)
      /\ s_stray' = (s_stray \/ ~(Setup!Held(o) \subseteq s_open))
      /\ s_members' = [s_members EXCEPT ![o] = Setup!Empty]
  BY DEF Setup!Release
<1>3. Setup!Held(o) = {m \in Resources : s_members[o][m] = m}
  BY <1>1, HeldIs
<1>4. s_members \in [{"ring", "moved_to"} -> [Resources -> {"empty"} \cup Resources]]
  BY <1>1 DEF MembersFit
<1>5. /\ s_members' \in [{"ring", "moved_to"} -> [Resources -> {"empty"} \cup Resources]]
      /\ s_members'[o] = Setup!Empty
      /\ \A p \in {"ring", "moved_to"} : p # o => s_members'[p] = s_members[p]
  BY <1>2, <1>4, EmptyIs
<1>6. \A m \in Resources : s_members'[o][m] = "empty"
  BY <1>5, EmptyIs
<1>7. MembersFit'
  BY <1>1, <1>5, <1>6 DEF MembersFit, Resources
<1>8. Setup!Held(o) \subseteq s_open
  BY <1>1, <1>3 DEF OpenFits
<1>9. \A m \in Resources : s_members["ring"][m] = "empty" \/ s_members["moved_to"][m] = "empty"
  BY <1>1 DEF ObjectsFit
<1>10. ASSUME NEW m \in Resources
       PROVE  m \in s_open' <=> s_members'["ring"][m] = m \/ s_members'["moved_to"][m] = m
  <2>1. /\ m # "empty" /\ s_members'[o][m] = "empty"
        /\ m \in s_open <=> s_members["ring"][m] = m \/ s_members["moved_to"][m] = m
        /\ m \in s_open' <=> m \in s_open /\ s_members[o][m] # m
        /\ s_members["ring"][m] = "empty" \/ s_members["moved_to"][m] = "empty"
    BY <1>1, <1>2, <1>3, <1>6, <1>9, EmptyIs DEF OpenFits
  <2>2. CASE o = "ring"
    <3>1. s_members'["moved_to"][m] = s_members["moved_to"][m]
      BY <1>5, <2>2
    <3> QED BY ONLY <2>1, <2>2, <3>1
  <2>3. CASE o = "moved_to"
    <3>1. s_members'["ring"][m] = s_members["ring"][m]
      BY <1>5, <2>3
    <3> QED BY ONLY <2>1, <2>3, <3>1
  <2> QED BY <2>2, <2>3
<1>11. OpenFits'
  <2>1. s_stray' = FALSE
    BY <1>1, <1>2, <1>8 DEF OpenFits
  <2>2. s_open' \subseteq Resources
    BY <1>1, <1>2 DEF OpenFits
  <2> QED BY <1>10, <2>1, <2>2 DEF OpenFits, Resources
<1> QED BY <1>5, <1>6, <1>7, <1>11

(* One more thing is open, in a member that was empty.                     *)
LEMMA ObtainStep == ASSUME SetupInv, NEW n \in Resources, Setup!Obtain(n)
                    PROVE  /\ MembersFit' /\ OpenFits' /\ s_failed' = s_failed
                           /\ s_members'["moved_to"] = s_members["moved_to"]
                           /\ \A m \in Resources :
                                 m # n => s_members'["ring"][m] = s_members["ring"][m]
<1>1. MembersFit /\ ObjectsFit /\ OpenFits
  BY DEF SetupInv
<1>2. /\ s_members' = [s_members EXCEPT !["ring"][n] = n]
      /\ s_open' = s_open \cup {n}
      /\ UNCHANGED <<s_stray, s_failed>>
  BY DEF Setup!Obtain, Setup!Adopt
<1>3. s_members \in [{"ring", "moved_to"} -> [Resources -> {"empty"} \cup Resources]]
  BY <1>1 DEF MembersFit
<1>4. s_members["ring"] \in [Resources -> {"empty"} \cup Resources]
  BY <1>3
<1>5. /\ s_members' \in [{"ring", "moved_to"} -> [Resources -> {"empty"} \cup Resources]]
      /\ s_members'["moved_to"] = s_members["moved_to"]
      /\ s_members'["ring"] = [s_members["ring"] EXCEPT ![n] = n]
  BY <1>2, <1>3, <1>4
<1>6. /\ s_members'["ring"][n] = n
      /\ \A m \in Resources : m # n => s_members'["ring"][m] = s_members["ring"][m]
  BY <1>4, <1>5
<1>7. MembersFit'
  <2>1. ASSUME NEW m \in Resources
        PROVE  s_members'["ring"][m] \in {"empty", m} /\ s_members'["moved_to"][m] \in {"empty", m}
    BY <1>1, <1>5, <1>6 DEF MembersFit
  <2> QED BY <1>5, <2>1 DEF MembersFit, Resources
<1>8. OpenFits'
  <2>1. ASSUME NEW m \in Resources
        PROVE  m \in s_open' <=> s_members'["ring"][m] = m \/ s_members'["moved_to"][m] = m
    BY <1>1, <1>2, <1>5, <1>6 DEF OpenFits
  <2> QED BY <1>1, <1>2, <2>1 DEF OpenFits, Resources
<1> QED BY <1>2, <1>5, <1>6, <1>7, <1>8

-----------------------------------------------------------------------------

LEMMA SetupInit == ASSUME Noticed, Setup!Init PROVE SetupInv
<1>1. ArgsFit
  BY DEF Setup!Init, ArgsFit, Noticed
<1>2. \A o \in {"ring", "moved_to"}, m \in Resources : s_members[o][m] = "empty"
  BY EmptyIs DEF Setup!Init, Setup!Objects
<1>3. MembersFit
  BY <1>2, EmptyIs DEF Setup!Init, Setup!Objects, MembersFit
<1>4. ObjectsFit
  BY <1>2 DEF Setup!Init, ObjectsFit, Ahead
<1>5. OpenFits
  BY <1>2, EmptyIs DEF Setup!Init, OpenFits
<1> QED BY <1>1, <1>3, <1>4, <1>5 DEF SetupInv

(* A constructor throws, and what it has so far is released.               *)
LEMMA UnwindStep == ASSUME SetupInv, Setup!Unwind, s_pc \in DOMAIN Ahead,
                           UNCHANGED <<s_args, s_single_mmap, s_timed_wait>>
                    PROVE  SetupInv'
<1>1. Setup!Release("ring") /\ s_pc' = "thrown" /\ s_failed' = TRUE
  BY DEF Setup!Unwind
<1>2. s_pc # "moved" /\ ObjectsFit /\ ArgsFit
  BY DEF SetupInv, Ahead
<1>3. /\ MembersFit' /\ OpenFits'
      /\ \A m \in Resources : s_members'["ring"][m] = "empty"
      /\ s_members'["moved_to"] = s_members["moved_to"]
  BY <1>1, ReleaseStep
<1>4. ObjectsFit'
  BY <1>1, <1>2, <1>3 DEF ObjectsFit, Ahead, Resources
<1>5. ArgsFit'
  BY <1>1, <1>2, SetupArgsStay
<1> QED BY <1>3, <1>4, <1>5 DEF SetupInv

(* A constructor gets its next thing, and goes on to a later one.          *)
LEMMA NextThingStep == ASSUME SetupInv, NEW n \in Resources, Setup!Obtain(n),
                              s_pc \in DOMAIN Ahead, s_pc' \in DOMAIN Ahead \cup {"context"},
                              n \in Ahead[s_pc],
                              s_pc' \in DOMAIN Ahead => Ahead[s_pc'] \subseteq Ahead[s_pc] \ {n}
                       PROVE  MembersFit' /\ ObjectsFit' /\ OpenFits'
<1>1. /\ MembersFit' /\ OpenFits'
      /\ s_members'["moved_to"] = s_members["moved_to"]
      /\ \A m \in Resources : m # n => s_members'["ring"][m] = s_members["ring"][m]
  BY ObtainStep
<1>2. ObjectsFit
  BY DEF SetupInv
<1>3. s_pc # "moved" /\ s_pc' \notin {"moved", "destroyed", "thrown"}
  BY DEF Ahead
<1>4. \A m \in Ahead[s_pc] : m \in Resources /\ s_members["ring"][m] = "empty"
  BY <1>2 DEF ObjectsFit, Ahead, Resources
<1>5. s_pc' \in DOMAIN Ahead => \A m \in Ahead[s_pc'] : s_members'["ring"][m] = "empty"
  BY <1>1, <1>4
<1>6. ObjectsFit'
  BY <1>1, <1>2, <1>3, <1>5 DEF ObjectsFit, Resources, Ahead
<1> QED BY <1>1, <1>6

LEMMA SetUpStep == ASSUME Noticed, SetupInv, Setup!SetUp PROVE SetupInv'
<1>1. s_pc = "setup" /\ s_args' = s_args /\ ArgsFit
  BY DEF Setup!SetUp, SetupInv
<1>2. CASE Setup!Obtain("fd") /\ s_single_mmap' \in BOOLEAN /\ s_timed_wait' \in BOOLEAN
           /\ s_pc' = "sq_map"
  <2>1. /\ "fd" \in Resources /\ "fd" \in Ahead[s_pc] /\ s_pc \in DOMAIN Ahead
        /\ s_pc' \in DOMAIN Ahead /\ Ahead[s_pc'] \subseteq Ahead[s_pc] \ {"fd"}
    BY <1>1, <1>2 DEF Ahead, Resources
  <2>2. MembersFit' /\ ObjectsFit' /\ OpenFits'
    BY <1>2, <2>1, NextThingStep
  <2>3. Setup!KernelAccepts'
    BY <1>1 DEF ArgsFit, Setup!KernelAccepts, Setup!Flags
  <2>4. ArgsFit'
    BY <1>1, <1>2, <2>3 DEF ArgsFit, Setup!Obtain
  <2> QED BY <2>2, <2>4 DEF SetupInv
<1>3. CASE Setup!Unwind /\ UNCHANGED <<s_single_mmap, s_timed_wait>>
  <2>1. s_pc \in DOMAIN Ahead
    BY <1>1 DEF Ahead
  <2> QED BY <1>1, <1>3, <2>1, UnwindStep
<1> QED BY <1>1, <1>2, <1>3 DEF Setup!SetUp, ArgsFit, Noticed

LEMMA MapStep == ASSUME Noticed, SetupInv, Setup!MapSq \/ Setup!MapCq \/ Setup!MapSqe
                 PROVE  SetupInv'
<1>1. PICK n \in {"sq_map", "cq_map", "sqe_map"} :
         /\ s_pc = n
         /\ Setup!Obtain(n) \/ s_members["ring"].fd = "failure"
         /\ \/ n = "sq_map" /\ s_pc' \in {"sqe_map", "cq_map"}
            \/ n = "cq_map" /\ s_pc' = "sqe_map"
            \/ n = "sqe_map" /\ s_pc' = "members"
         /\ UNCHANGED <<s_args, s_single_mmap, s_timed_wait>>
  BY DEF Setup!MapSq, Setup!MapCq, Setup!MapSqe, Setup!Map, Noticed
<1>2. Setup!Obtain(n)
  BY <1>1, EmptyIs DEF SetupInv, MembersFit, Resources
<1>3. /\ n \in Resources /\ n \in Ahead[s_pc] /\ s_pc \in DOMAIN Ahead
      /\ s_pc' \in DOMAIN Ahead /\ Ahead[s_pc'] \subseteq Ahead[s_pc] \ {n}
  BY <1>1 DEF Ahead, Resources
<1>4. MembersFit' /\ ObjectsFit' /\ OpenFits'
  BY <1>2, <1>3, NextThingStep
<1>5. ArgsFit'
  BY <1>1, <1>2, ObtainStep, SetupArgsStay, <1>3 DEF SetupInv, ArgsFit
<1> QED BY <1>4, <1>5 DEF SetupInv

(* The steps that only go on, or throw                                     *)
LEMMA CheckStep == ASSUME SetupInv, Setup!InitMembers \/ Setup!CheckTimedWait
                   PROVE  SetupInv'
<1>1. ArgsFit /\ MembersFit /\ ObjectsFit /\ OpenFits
  BY DEF SetupInv
<1>2. ASSUME UNCHANGED <<s_args, s_single_mmap, s_timed_wait, s_members, s_open, s_stray,
                         s_failed>>,
             s_pc \in DOMAIN Ahead, s_pc' \in DOMAIN Ahead, Ahead[s_pc'] = Ahead[s_pc]
      PROVE  SetupInv'
  <2>1. ArgsFit'
    BY <1>1, <1>2, SetupArgsStay DEF ArgsFit
  <2>2. MembersFit' /\ OpenFits'
    BY <1>1, <1>2 DEF MembersFit, OpenFits, Resources
  <2>3. s_pc # "moved" /\ s_pc' \notin {"moved", "destroyed", "thrown"}
    BY <1>2 DEF Ahead
  <2>4. \A m \in Ahead[s_pc'] : s_members["ring"][m] = "empty"
    BY <1>1, <1>2 DEF ObjectsFit
  <2>5. ObjectsFit'
    BY <1>1, <1>2, <2>3, <2>4 DEF ObjectsFit, Resources, Ahead
  <2> QED BY <2>1, <2>2, <2>5 DEF SetupInv
<1>3. CASE Setup!InitMembers
  <2>1. /\ s_pc = "members"
        /\ s_pc' = IF "failure" \in {s_members["ring"].sq_map, s_members["ring"].cq_map}
                   THEN "fault" ELSE "ring"
        /\ UNCHANGED <<s_args, s_single_mmap, s_timed_wait, s_members, s_open, s_stray,
                       s_failed>>
    BY <1>3 DEF Setup!InitMembers
  <2>2. "failure" \notin {s_members["ring"].sq_map, s_members["ring"].cq_map}
    BY <1>1 DEF MembersFit, Resources
  <2>3. s_pc' = "ring"
    BY <2>1, <2>2
  <2>4. s_pc \in DOMAIN Ahead /\ s_pc' \in DOMAIN Ahead /\ Ahead[s_pc'] = Ahead[s_pc]
    BY <2>1, <2>3 DEF Ahead
  <2> QED BY <1>2, <2>1, <2>4
<1>4. CASE Setup!CheckTimedWait
  <2>1. s_pc = "ring" /\ UNCHANGED <<s_args, s_single_mmap, s_timed_wait>>
    BY <1>4 DEF Setup!CheckTimedWait
  <2>2. s_pc \in DOMAIN Ahead
    BY <2>1 DEF Ahead
  <2>3. CASE s_timed_wait
    <3>1. s_pc' = "event_fd" /\ UNCHANGED <<s_members, s_open, s_stray, s_failed>>
      BY <1>4, <2>3 DEF Setup!CheckTimedWait
    <3>2. s_pc' \in DOMAIN Ahead /\ Ahead[s_pc'] = Ahead[s_pc]
      BY <2>1, <3>1 DEF Ahead
    <3> QED BY <1>2, <2>1, <2>2, <3>1, <3>2
  <2>4. CASE ~s_timed_wait
    <3>1. Setup!Unwind
      BY <1>4, <2>4 DEF Setup!CheckTimedWait
    <3> QED BY <2>1, <2>2, <3>1, UnwindStep
  <2> QED BY <2>3, <2>4
<1> QED BY <1>3, <1>4

LEMMA CreateEventFdStep == ASSUME SetupInv, Setup!CreateEventFd PROVE SetupInv'
<1>1. s_pc = "event_fd" /\ UNCHANGED <<s_args, s_single_mmap, s_timed_wait>>
  BY DEF Setup!CreateEventFd
<1>2. /\ "event_fd" \in Resources /\ "event_fd" \in Ahead[s_pc] /\ s_pc \in DOMAIN Ahead
      /\ "context" \notin DOMAIN Ahead
  BY <1>1 DEF Ahead, Resources
<1>3. CASE Setup!Obtain("event_fd") /\ s_pc' = "context"
  <2>1. MembersFit' /\ ObjectsFit' /\ OpenFits'
    BY <1>2, <1>3, NextThingStep
  <2>2. ArgsFit'
    BY <1>1, <1>2, <1>3, ObtainStep, SetupArgsStay DEF SetupInv, ArgsFit
  <2> QED BY <2>1, <2>2 DEF SetupInv
<1>4. CASE Setup!Unwind
  BY <1>1, <1>2, <1>4, UnwindStep
<1> QED BY <1>3, <1>4 DEF Setup!CreateEventFd

(* Everything goes over to the other object, and nothing stays.            *)
LEMMA MoveStep == ASSUME SetupInv, Setup!Move PROVE SetupInv'
<1>1. ArgsFit /\ MembersFit /\ ObjectsFit /\ OpenFits
  BY DEF SetupInv
<1>2. /\ s_pc = "ring" /\ s_pc' = "moved"
      /\ s_members'["ring"] = Setup!Empty
      /\ s_members'["moved_to"] = s_members["ring"]
      /\ s_members' = [ring |-> Setup!Empty, moved_to |-> s_members["ring"]]
      /\ UNCHANGED <<s_args, s_single_mmap, s_timed_wait, s_open, s_stray, s_failed>>
  BY DEF Setup!Move
<1>3. ArgsFit'
  BY <1>1, <1>2, SetupArgsStay DEF ArgsFit
<1>4. \A m \in Resources : /\ s_members'["ring"][m] = "empty"
                           /\ s_members'["moved_to"][m] = s_members["ring"][m]
                           /\ s_members["moved_to"][m] = "empty"
  BY <1>1, <1>2, EmptyIs DEF ObjectsFit
<1>5. MembersFit'
  <2>1. s_members' \in [{"ring", "moved_to"} -> [Resources -> {"empty"} \cup Resources]]
    BY <1>1, <1>2, EmptyIs DEF MembersFit
  <2>2. \A m \in Resources : /\ s_members'["ring"][m] \in {"empty", m}
                             /\ s_members'["moved_to"][m] \in {"empty", m}
    BY <1>1, <1>4 DEF MembersFit
  <2> QED BY <2>1, <2>2 DEF MembersFit, Resources
<1>6. ObjectsFit'
  BY <1>2, <1>4 DEF ObjectsFit, Ahead, Resources
<1>7. OpenFits'
  BY <1>1, <1>2, <1>4, EmptyIs DEF OpenFits, Resources
<1> QED BY <1>3, <1>5, <1>6, <1>7 DEF SetupInv

LEMMA DestroyStep == ASSUME SetupInv, NEW o \in Setup!Objects, Setup!Destroy(o) PROVE SetupInv'
<1>1. ArgsFit /\ MembersFit /\ ObjectsFit /\ OpenFits
  BY DEF SetupInv
<1>2. /\ o \in {"ring", "moved_to"} /\ Setup!Release(o) /\ s_pc' = "destroyed"
      /\ Setup!Held(o) # {}
      /\ UNCHANGED <<s_args, s_single_mmap, s_timed_wait, s_failed>>
  BY DEF Setup!Destroy, Setup!Objects
<1>3. /\ MembersFit' /\ OpenFits'
      /\ \A m \in Resources : s_members'[o][m] = "empty"
      /\ \A p \in {"ring", "moved_to"} : p # o => s_members'[p] = s_members[p]
  BY <1>2, ReleaseStep
<1>4. PICK h \in Resources : s_members[o][h] # "empty"
  BY <1>1, <1>2, HeldIs, EmptyIs
<1>5. ArgsFit'
  BY <1>1, <1>2, SetupArgsStay DEF ArgsFit
<1>6. \A m \in Resources : s_members'["ring"][m] = "empty" /\ s_members'["moved_to"][m] = "empty"
  <2>1. CASE o = "ring"
    <3>1. s_pc # "moved"
      BY <1>1, <1>4, <2>1 DEF ObjectsFit
    <3> QED BY <1>1, <1>3, <2>1, <3>1 DEF ObjectsFit
  <2>2. CASE o = "moved_to"
    <3>1. s_pc = "moved"
      BY <1>1, <1>4, <2>2 DEF ObjectsFit
    <3> QED BY <1>1, <1>3, <2>2, <3>1 DEF ObjectsFit
  <2> QED BY <1>2, <2>1, <2>2
<1>7. ObjectsFit'
  BY <1>2, <1>6 DEF ObjectsFit, Ahead, Resources
<1> QED BY <1>3, <1>5, <1>7 DEF SetupInv

LEMMA SetupStep == ASSUME Noticed, SetupInv, [Setup!Next]_setupVars PROVE SetupInv'
<1>1. CASE UNCHANGED setupVars
  <2>1. ArgsFit /\ MembersFit /\ ObjectsFit /\ OpenFits
    BY DEF SetupInv
  <2>2. ArgsFit'
    BY <1>1, <2>1, SetupArgsStay DEF setupVars, ArgsFit
  <2>3. MembersFit' /\ ObjectsFit' /\ OpenFits'
    BY <1>1, <2>1 DEF setupVars, MembersFit, ObjectsFit, OpenFits, Resources, Ahead
  <2> QED BY <2>2, <2>3 DEF SetupInv
<1>2. CASE Setup!Next
  BY <1>2, SetUpStep, MapStep, CheckStep, CreateEventFdStep, MoveStep, DestroyStep
     DEF Setup!Next
<1> QED BY <1>1, <1>2

(* Nothing is open that is in no member, or in two of them, and none of    *)
(* it is left when an object has gone.                                     *)
LEMMA SetupSafe == ASSUME SetupInv PROVE ReleasedOnce
<1>1. ArgsFit /\ MembersFit /\ ObjectsFit /\ OpenFits
  BY DEF SetupInv
<1>2. /\ Setup!Held("ring") = {m \in Resources : s_members["ring"][m] = m}
      /\ Setup!Held("moved_to") = {m \in Resources : s_members["moved_to"][m] = m}
  BY <1>1, HeldIs
<1>3. Setup!TypeOk
  <2>1. s_members \in [Setup!Objects -> [DOMAIN Setup!Empty ->
                           {"empty", "failure"} \cup DOMAIN Setup!Empty]]
    BY <1>1, EmptyIs DEF MembersFit, Setup!Objects
  <2>2. {s_stray, s_failed, s_single_mmap, s_timed_wait} \subseteq BOOLEAN
    BY <1>1, Zenon DEF ArgsFit, OpenFits
  <2>3. s_args \subseteq Arguments /\ s_open \subseteq DOMAIN Setup!Empty
    BY <1>1, EmptyIs DEF ArgsFit, OpenFits
  <2> QED BY <2>1, <2>2, <2>3 DEF Setup!TypeOk
<1>4. s_open = Setup!Held("ring") \cup Setup!Held("moved_to")
  BY <1>1, <1>2 DEF OpenFits
<1>5. Setup!Held("ring") \cap Setup!Held("moved_to") = {}
  BY <1>1, <1>2, EmptyIs DEF ObjectsFit
<1>6. s_pc \in {"thrown", "destroyed"} => s_open = {}
  BY <1>1, EmptyIs DEF ObjectsFit, OpenFits
<1> QED BY <1>1, <1>3, <1>4, <1>5, <1>6 DEF ReleasedOnce, Setup!ReleasedOnce, OpenFits

(* Whatever the arguments, and whichever of the calls fail whose failure   *)
(* the constructors notice: the descriptors and mappings that the kernel   *)
(* gave are each in one member of one object, and go with it.              *)
THEOREM WhatIsHeldIsReleasedOnce == ASSUME Noticed PROVE PartsSpec => []ReleasedOnce
<1>1. PartsInit => SetupInv
  BY SetupInit DEF PartsInit
<1>2. SetupInv /\ [PartsNext]_partsVars => SetupInv'
  <2> SUFFICES ASSUME SetupInv, [PartsNext]_partsVars PROVE SetupInv'
    OBVIOUS
  <2>1. [Setup!Next]_setupVars
    BY DEF PartsNext, partsVars
  <2> QED BY <2>1, SetupStep
<1>3. SetupInv => ReleasedOnce
  BY SetupSafe
<1> QED BY <1>1, <1>2, <1>3, PTL DEF PartsSpec
=============================================================================
