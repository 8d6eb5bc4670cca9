------------------------------- MODULE MCTimers -------------------------------
(***************************************************************************)
(* What timers are made of, side by side for one run: a behaviour is that  *)
(* of the timer queue, of the I/O thread with the base of its timestamps,  *)
(* of one time point of the clock, of two of the lists that the bins and   *)
(* the loop's queues are, or of one bitset.  For TLC the queue has times   *)
(* of four digits to the base 4, and is asked about those of three; the    *)
(* I/O thread has seconds of four nanoseconds and timestamps of two that   *)
(* last seven seconds; the clock has seconds of four nanoseconds in four   *)
(* bits; the bitsets have no chunk, one or two whole ones, or a last one   *)
(* that is partly used.                                                    *)
(***************************************************************************)
EXTENDS Integers, Sequences, FiniteSets

CONSTANTS Items, Timers,
          Radix, Majors,         \* the digits of the times in the queue,
          Times, Asks, Shifts,   \* when items are due, when the queue is asked,
                                 \* and by how much the times shift,
          SignMajor,             \* the digit with the sign bit of an int
          Nanos,                 \* nanoseconds of a second
          DueTimes, Jumps,       \* when timers are due, how the clock moves on,
          Grain, MaxTimestamp,   \* the timestamps,
          Past, Start, MaxTime,  \* the base, and the bounds of the clock
          MaxSec,                \* the range of a time point's seconds
          Seconds, Parts,        \* durations in seconds and in nanoseconds
          Counts, ChunkBits      \* the bitsets

(* Durations are within the range of time points, and a second is longer   *)
(* than a granule; when the base is to be moved, the clock is past it.     *)
ASSUME ClockAssumption == /\ Nanos \in Nat \ {0} /\ MaxSec \in Nat
                          /\ Seconds \subseteq 0..MaxSec
                          /\ Parts \subseteq 0..(MaxSec * Nanos)

ASSUME LoopAssumption == /\ Grain \in 1..Nanos /\ MaxTimestamp \in Nat /\ Past \in Nat
                         /\ Past < ((MaxTimestamp \div 2) * Grain) \div Nanos
                         /\ DueTimes \subseteq Nat /\ Jumps \subseteq Nat
                         /\ MaxTime \in Nat /\ Start \in 0..MaxTime

ASSUME BitsAssumption == Counts \subseteq Nat /\ ChunkBits \in Nat \ {0}

VARIABLES kind,
          queue, q_due, before,
          now, base, max_time, reindex_due, started, due, pc, current, until,
          reindexed,
          seconds, nanoseconds, exact, lost,
          head, tail, next, prev,
          count, chunks

(* No item is added so early that others are moved to a higher bin, where  *)
(* the queue would lose them (run timer_queue_early).                      *)
Queue == INSTANCE BinnedTimeQueue WITH MayMoveUp <- FALSE, due <- q_due

(* The queue is asked about times that leave the sign bit of an int alone; *)
(* its items may be due at any time, as the reindex timer is.              *)
ASSUME QueueAssumption == /\ Radix \in Nat \ {0, 1} /\ Majors \in Nat \ {0}
                          /\ SignMajor \in 0..(Majors - 1)
                          /\ Times \subseteq 0..(Queue!Weight[Majors] - 1)
                          /\ Asks \subseteq 0..(Queue!Weight[SignMajor + 1] - 1)
                          /\ Shifts \subseteq Nat
                          /\ Queue!Nil \notin Items

Loop == INSTANCE TimerBase

(* Durations have either sign. *)
Signed(durations) == durations \cup {-d : d \in durations}

Clock == INSTANCE MonotonicClock WITH
             Seconds <- Signed(Seconds), Parts <- Signed(Parts)

List == INSTANCE IntrusiveList WITH Lists <- {"bin", "other"}

(* Null points to no item. *)
ASSUME ItemsAssumption == IsFiniteSet(Items) /\ List!Null \notin Items

Bits == INSTANCE Bitset

queueVars == <<queue, q_due, before>>
loopVars == <<now, base, max_time, reindex_due, started, due, pc, current,
              until, reindexed>>
clockVars == <<seconds, nanoseconds, exact, lost>>
listVars == <<head, tail, next, prev>>
bitVars == <<count, chunks>>
vars == <<kind, queueVars, loopVars, clockVars, listVars, bitVars>>

Init == /\ kind \in {"queue", "loop", "clock", "lists", "bits"}
        /\ Queue!Init /\ Loop!Init /\ Clock!Init /\ List!Init /\ Bits!Init
        /\ kind # "bits" => count = 0

Next == \/ /\ kind = "queue"
           /\ Queue!Next
           /\ UNCHANGED <<kind, loopVars, clockVars, listVars, bitVars>>
        \/ /\ kind = "loop"
           /\ Loop!Next
           /\ UNCHANGED <<kind, queueVars, clockVars, listVars, bitVars>>
        \/ /\ kind = "clock"
           /\ Clock!Next
           /\ UNCHANGED <<kind, queueVars, loopVars, listVars, bitVars>>
        \/ /\ kind = "lists"
           /\ List!Next
           /\ UNCHANGED <<kind, queueVars, loopVars, clockVars, bitVars>>
        \/ /\ kind = "bits"
           /\ Bits!Next
           /\ UNCHANGED <<kind, queueVars, loopVars, clockVars, listVars>>

Spec == Init /\ [][Next]_vars /\ (kind = "loop" => Loop!Fairness)

-----------------------------------------------------------------------------
(* Properties *)

(* The state has the types of the code's members. *)
TypeOk == Queue!TypeOk /\ Loop!TypeOk /\ Clock!TypeOk /\ Bits!TypeOk

(* Every queued timer is in the one bin where remove() looks for it; the   *)
(* cached bits and first bin are those of the bins, and the bitset that    *)
(* keeps the bits finds the first.  Whenever it is asked the queue gives   *)
(* the earliest timer that is due, and a lower bound for those that are    *)
(* not that does let the thread sleep.                                     *)
DequeuesEarliest == /\ Queue!BinsFit
                    /\ Queue!DequeuesEarliest /\ Queue!SleepsUntilDue
                    /\ Bits!FindsFirst

(* However due times are rounded and cut off, and wherever the base moves, *)
(* the I/O thread does not sleep over a timer, and but in a round where    *)
(* the base moved, none runs early, nor overtakes another.                 *)
TimersAreOnTime == /\ []Loop!SleepsUntilDue
                   /\ Loop!EarlyOnlyAfterReindex /\ Loop!RunsInOrder

(* All that are due run, however far they were from the base.              *)
DueIsRun == Loop!DueIsRun

(* A time point to which durations are added and from which they are       *)
(* subtracted is exact, or the end of the range that it went past: until   *)
(* operator-= is given a part of a second, which it adds, or a carry goes  *)
(* past that end with no whole second to add.                              *)
CountsExactly == Clock!CountsExactly

(* However lists are taken apart and joined, their pointers in both        *)
(* directions are those of the same sequences of items.                    *)
ImplementsList == List!ImplementsList
=============================================================================
