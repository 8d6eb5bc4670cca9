--------------------------- MODULE BinnedTimeQueue ---------------------------
(***************************************************************************)
(* binned_time_priority_queue, which holds the timers of iouring_context.  *)
(* A time is a numeral of Majors digits to the base Radix.  An item due at *)
(* t is in the bin of the highest digit where t differs from active_time,  *)
(* under the value of that digit: bins of higher digits hold what is due   *)
(* later, less precisely.  Items come down one digit at a time, when they  *)
(* are looked for; an item due before active_time makes them go up.        *)
(*                                                                         *)
(* One thread uses the queue, so an operation is one step.                 *)
(***************************************************************************)
EXTENDS Integers, FiniteSets, SequencesExt, FiniteSetsExt

CONSTANTS Items,
          Radix,            \* MinorBinsPerMajorBin, more than 1
          Majors,           \* major_bin_count
          Times,            \* the times that items are due
          Asks,             \* the times that the queue is asked about
          Shifts,           \* by how much the clock's base advances
          SignMajor,        \* the major that has the sign bit of an int
          MayMoveUp         \* whether an addition may move items to a higher bin

VARIABLES queue,            \* the queue: its four members
          due,              \* get_item_due_time() of each queued item
          before            \* of two queued items, which was added first (history)

vars == <<queue, due, before>>

NoBin == Majors * Radix     \* total_bin_count
Bins == 0..(NoBin - 1)
Nil == "nil"

(* What a one counts in the digit m *)
Weight[m \in 0..Majors] == IF m = 0 THEN 1 ELSE Radix * Weight[m - 1]

Digit(t, m) == (t \div Weight[m]) % Radix
FromDigit(t, m) == (t \div Weight[m]) * Weight[m]

Major(b) == b \div Radix
Minor(b) == b % Radix

(* countr_zero() of nonempty_bins_ *)
First(nonempty) == Min(nonempty \cup {NoBin})

HighestDifference(s, t) ==
    Max({0} \cup {m \in 0..(Majors - 1) : Digit(s, m) # Digit(t, m)})

(* get_bin_index() *)
BinIndex(active, t) == LET m == HighestDifference(active, t)
                       IN m * Radix + Digit(t, m)

(* get_bin_time() *)
BinTime(active, b) == FromDigit(active, Major(b) + 1) + Minor(b) * Weight[Major(b)]

(* earliest_due_time_lower_bound() *)
LowerBound(q) == IF q.first = NoBin THEN Weight[Majors] - 1 ELSE BinTime(q.active, q.first)

Empty == [active |-> 0, first |-> NoBin, nonempty |-> {}, bins |-> [b \in Bins |-> <<>>]]

Init == /\ queue = Empty
        /\ due = [x \in {} |-> 0]
        /\ before = {}

-----------------------------------------------------------------------------
(* add() *)

(* The bin that set_earlier_active_time() moves all lower ones into.  The  *)
(* width of a number is one more than the index of its highest bit: where  *)
(* that is the top bit of a digit, the width is in the next major.         *)
TargetOf(q, t) ==
    LET m == HighestDifference(FromDigit(t, 1), q.active)
        Upper(s) == Digit(s, m) >= Radix \div 2
        major == IF Upper(t) # Upper(q.active) THEN m + 1 ELSE m
    IN major * Radix + Digit(q.active, major)

(* The bits of the bins that are emptied are reset; that of the target is  *)
(* not set.  What goes past the last bin is out of the queue.              *)
SetEarlierActiveTime(q, t) ==
    LET target == TargetOf(q, t)
        moved == {b \in q.nonempty : b < target}
        items == FlattenSeq([i \in 1..Cardinality(moved) |->
                                 q.bins[SetToSortSeq(moved, <)[i]]])
    IN [active |-> FromDigit(t, 1),
        first |-> First(q.nonempty \ moved),
        nonempty |-> q.nonempty \ moved,
        bins |-> [b \in Bins |-> IF b \in moved THEN <<>>
                                 ELSE IF b = target THEN q.bins[b] \o items
                                 ELSE q.bins[b]]]

Added(q, x, t) ==
    LET e == IF t < q.active THEN SetEarlierActiveTime(q, t) ELSE q
        b == BinIndex(e.active, t)
    IN IF e.bins[b] = <<>>
       THEN [e EXCEPT !.bins[b] = <<x>>, !.nonempty = @ \cup {b}, !.first = Min({@, b})]
       ELSE [e EXCEPT !.bins[b] = Append(@, x)]

Queued == DOMAIN due

Add(x, t) == /\ x \notin Queued
             /\ MayMoveUp \/ t >= queue.active \/ queue.first >= TargetOf(queue, t)
             /\ queue' = Added(queue, x, t)
             /\ due' = [y \in Queued \cup {x} |-> IF y = x THEN t ELSE due[y]]
             /\ before' = before \cup (Queued \X {x})

-----------------------------------------------------------------------------
(* remove() *)

Forget(x) == LET rest == Queued \ {x}
             IN due' = [y \in rest |-> due[y]] /\ before' = before \cap (rest \X rest)

Without(q, b, items) ==
    LET nonempty == IF items = <<>> THEN q.nonempty \ {b} ELSE q.nonempty
    IN [q EXCEPT !.bins[b] = items,
                 !.nonempty = nonempty,
                 !.first = IF items = <<>> /\ b = @ THEN First(nonempty) ELSE @]

BinOf(x) == BinIndex(queue.active, due[x])

(* Only from the bin that get_bin_index() gives: elsewhere it is undefined. *)
RemoveItem(x) == /\ x \in Queued
                 /\ \E n \in DOMAIN queue.bins[BinOf(x)] :
                       /\ queue.bins[BinOf(x)][n] = x
                       /\ queue' = Without(queue, BinOf(x), RemoveAt(queue.bins[BinOf(x)], n))
                 /\ Forget(x)

-----------------------------------------------------------------------------
(* try_dequeue_next_due_by() *)

(* Mutant: what comes down is pushed to the front. *)
PushFront(bin, x) == <<x>> \o bin

PushBack(bin, x) == Append(bin, x)

(* The items of the first bin go to the bins of the next digit, one by     *)
(* one, and active_time becomes the time of that bin.                      *)
Spread(q) ==
    LET source == q.bins[q.first]
        major == Major(q.first) - 1
        Target(x) == major * Radix + Digit(due[x], major)
        after[n \in 0..Len(source)] ==
            IF n = 0 THEN [q.bins EXCEPT ![q.first] = <<>>]
            ELSE [after[n - 1] EXCEPT ![Target(source[n])] = PushBack(@, source[n])]
        filled == {Target(x) : x \in ToSet(source)}
    IN [active |-> BinTime(q.active, q.first),
        first |-> Min(filled),
        nonempty |-> (q.nonempty \cup filled) \ {q.first},
        bins |-> after[Len(source)]]

(* The time of the first bin as the loop computes it, by a shift of an     *)
(* int: a digit that reaches the sign bit makes it smaller.  A shift by    *)
(* more than that is undefined, and yields it or something smaller.        *)
IntBinTime(q) ==
    IF Major(q.first) = SignMajor /\ Minor(q.first) >= Radix \div 2
    THEN BinTime(q.active, q.first) - Weight[SignMajor + 1]
    ELSE BinTime(q.active, q.first)

Undefined == {m \in 0..(Majors - 1) : m > SignMajor}

(* Down to the lowest digit, or to a bin whose time has not come; goOn has *)
(* the majors where an undefined time makes the descent go on.             *)
Descended(q, now, goOn) ==
    LET Stops(r) == \/ Major(r.first) = 0
                    \/ now < IntBinTime(r) /\ Major(r.first) \notin goOn
        after[n \in 0..Majors] ==
            IF n = 0 THEN q
            ELSE IF Stops(after[n - 1]) THEN after[n - 1] ELSE Spread(after[n - 1])
    IN  after[Majors]

Dequeued(q, now, goOn) ==
    IF q.first = NoBin \/ now < BinTime(q.active, q.first)
    THEN [item |-> Nil, queue |-> q]
    ELSE LET d == Descended(q, now, goOn)
         IN IF now < BinTime(d.active, d.first)
            THEN [item |-> Nil, queue |-> d]
            ELSE [item |-> Head(d.bins[d.first]),
                  queue |-> Without(d, d.first, Tail(d.bins[d.first]))]

TryDequeueNextDueBy(now) == \E goOn \in SUBSET Undefined :
    LET d == Dequeued(queue, now, goOn)
    IN /\ queue' = d.queue
       /\ IF d.item = Nil THEN UNCHANGED <<due, before>> ELSE Forget(d.item)

-----------------------------------------------------------------------------
(* reindex_items(), after the base of the clock has advanced by s *)
ReindexItems(s) ==
    LET taken[b \in 0..NoBin] ==
            IF b = 0 THEN <<>>
            ELSE IF b - 1 \in queue.nonempty THEN taken[b - 1] \o queue.bins[b - 1]
            ELSE taken[b - 1]
        all == taken[NoBin]
        rest == [b \in Bins |-> IF b \in queue.nonempty THEN <<>> ELSE queue.bins[b]]
        added[n \in 0..Len(all)] ==
            IF n = 0 THEN [Empty EXCEPT !.bins = rest]
            ELSE Added(added[n - 1], all[n], due[all[n]] - s)
    IN /\ \A x \in Queued : due[x] >= s
       /\ due' = [x \in Queued |-> due[x] - s]
       /\ queue' = added[Len(all)]
       /\ UNCHANGED before

Next == \/ \E x \in Items : RemoveItem(x) \/ \E t \in Times : Add(x, t)
        \/ \E now \in Asks : TryDequeueNextDueBy(now)
        \/ \E s \in Shifts : ReindexItems(s)

Spec == Init /\ [][Next]_vars

-----------------------------------------------------------------------------
(* Properties *)

(* Members hold what their types allow; active_time is a multiple of Radix. *)
TypeOk == /\ queue.active \in {t \in 0..(Weight[Majors] - 1) : t % Radix = 0}
          /\ queue.first \in Bins \cup {NoBin}
          /\ queue.nonempty \subseteq Bins
          /\ queue.bins \in [Bins -> Seq(Items)]
          /\ Queued \subseteq Items /\ due \in [Queued -> 0..(Weight[Majors] - 1)]
          /\ before \subseteq Queued \X Queued

(* Every queued item is in one bin, once: that which remove() would look   *)
(* in.  The bits and the cached first bin are those of the bins, and no    *)
(* item is due before active_time.                                         *)
BinsFit ==
    /\ queue.nonempty = {b \in Bins : queue.bins[b] # <<>>}
    /\ queue.first = First(queue.nonempty)
    /\ \A x \in Queued : due[x] >= queue.active
    /\ \A b \in Bins :
           /\ IsInjective(queue.bins[b])
           /\ ToSet(queue.bins[b]) = {x \in Queued : BinOf(x) = b}

(* remove() finds every queued item in the list that it takes it out of.   *)
RemoveFinds == \A x \in Queued : x \in ToSet(queue.bins[BinOf(x)])

(* It is due by now, before all others that are queued, or added before    *)
(* those that are due with it.                                             *)
IsEarliest(x, now) ==
    /\ x \in Queued /\ due[x] <= now
    /\ \A y \in Queued \ {x} : \/ due[x] < due[y]
                               \/ due[x] = due[y] /\ <<x, y>> \in before

(* Whenever it is asked, try_dequeue_next_due_by() returns the item with   *)
(* the earliest due time, of several the one that was added first, and     *)
(* null only if none is due.                                               *)
DequeuesEarliest ==
    \A now \in Asks : \A goOn \in SUBSET Undefined :
        LET x == Dequeued(queue, now, goOn).item
        IN IF x = Nil THEN \A y \in Queued : due[y] > now ELSE IsEarliest(x, now)

(* The time that the I/O thread sleeps until is not after that of any      *)
(* item, so that none is late; and when it finds nothing due now, that     *)
(* time is later than now, so that it does sleep.                          *)
SleepsUntilDue ==
    /\ \A x \in Queued : LowerBound(queue) <= due[x]
    /\ \A now \in Asks : \A goOn \in SUBSET Undefined :
           LET d == Dequeued(queue, now, goOn)
           IN (d.item = Nil /\ Queued # {}) => LowerBound(d.queue) > now
=============================================================================
