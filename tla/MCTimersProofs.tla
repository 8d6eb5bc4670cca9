---------------------------- MODULE MCTimersProofs ----------------------------
(***************************************************************************)
(* Proofs about the clock, the timestamps of the I/O thread, the bitset,   *)
(* the lists and the timer queue                                           *)
(***************************************************************************)
EXTENDS MCTimers, SequencesExt, FiniteSetTheorems, WellFoundedInduction, TLAPS

(***************************************************************************)
(* Integers                                                                *)
(***************************************************************************)

LEMMA Division ==
    ASSUME NEW n \in Int, NEW d \in Nat \ {0}
    PROVE  /\ n \div d \in Int /\ n % d \in 0..(d - 1)
           /\ n = ((n \div d) * d) + (n % d)
  OBVIOUS

LEMMA Products ==
    ASSUME NEW a \in Int, NEW b \in Int, NEW d \in Nat \ {0}
    PROVE  /\ a * d \in Int
           /\ (a + b) * d = (a * d) + (b * d)
           /\ (a - b) * d = (a * d) - (b * d)
           /\ a < b <=> a * d < b * d
           /\ a < b => (a * d) + d <= b * d
  OBVIOUS

(***************************************************************************)
(* The clock                                                               *)
(***************************************************************************)

(* A sum of seconds and a part of a second is kept, or saturates by its    *)
(* seconds.                                                                *)
LEMMA Saturates ==
    ASSUME NEW s \in Int, NEW n \in 0..(Nanos - 1)
    PROVE  Clock!Clamp((s * Nanos) + n) =
               IF s < Clock!MinSec THEN Clock!MinSec * Nanos
               ELSE IF s > MaxSec THEN (MaxSec * Nanos) + (Nanos - 1)
               ELSE (s * Nanos) + n
  <1> USE ClockAssumption DEF Clock!MinSec
  <1>1. CASE s < Clock!MinSec
    <2>1. /\ (s * Nanos) + Nanos <= Clock!MinSec * Nanos
          /\ s * Nanos \in Int /\ Clock!MinSec * Nanos \in Int
      BY <1>1, Products
    <2>2. (s * Nanos) + n < Clock!MinSec * Nanos
      BY <2>1
    <2>3. Clock!MinTotal = Clock!MinSec * Nanos
      BY DEF Clock!MinTotal
    <2> HIDE DEF Clock!MinSec
    <2> QED
      BY <1>1, <2>2, <2>3 DEF Clock!Clamp
  <1>2. CASE s > MaxSec
    <2>1. (MaxSec * Nanos) + Nanos <= s * Nanos
      BY <1>2, Products
    <2>2. Clock!MinSec * Nanos < MaxSec * Nanos
      BY Products
    <2> QED
      BY <1>2, <2>1, <2>2 DEF Clock!Clamp, Clock!MinTotal, Clock!MaxTotal
  <1>3. CASE s \in Clock!MinSec..MaxSec
    <2>1. Clock!MinSec * Nanos <= s * Nanos /\ s * Nanos <= MaxSec * Nanos
      BY <1>3, Products
    <2> QED
      BY <1>3, <2>1 DEF Clock!Clamp, Clock!MinTotal, Clock!MaxTotal
  <1> QED
    BY <1>1, <1>2, <1>3

(* What fits does not wrap. *)
LEMMA Wraps ==
    ASSUME NEW n \in Int
    PROVE  /\ Clock!Wrapped(n) \in Clock!MinSec..MaxSec
           /\ n \in Clock!MinSec..MaxSec => Clock!Wrapped(n) = n
  <1> DEFINE width == MaxSec - Clock!MinSec + 1
  <1>1. /\ Clock!MinSec = -MaxSec - 1 /\ MaxSec \in Nat /\ Clock!MinSec \in Int
        /\ width \in Nat \ {0} /\ n - Clock!MinSec \in Int
    BY ClockAssumption DEF Clock!MinSec
  <1>2. Clock!Wrapped(n) = ((n - Clock!MinSec) % width) + Clock!MinSec
    BY DEF Clock!Wrapped, Clock!MinSec
  <1>3. (n - Clock!MinSec) % width \in 0..(width - 1)
    <2> HIDE DEF width
    <2> QED
      BY <1>1, Division
  <1>4. n - Clock!MinSec \in 0..(width - 1) => (n - Clock!MinSec) % width = n - Clock!MinSec
    <2>1. \A w \in Nat \ {0} : \A x \in 0..(w - 1) : x % w = x
      OBVIOUS
    <2> HIDE DEF width
    <2> QED
      BY <1>1, <2>1
  <1> QED
    BY <1>1, <1>2, <1>3, <1>4

ClockInv == Clock!TypeOk /\ Clock!CountsExactly

(* The floor of a duration, and the carry of what remains of it            *)
LEMMA Carries ==
    ASSUME NEW s \in Int, NEW n \in 0..(Nanos - 1), NEW d \in Int
    PROVE  LET sum == n + (d % Nanos)
               extra == sum \div Nanos
           IN /\ d \div Nanos \in Int /\ extra \in 0..1 /\ sum % Nanos \in 0..(Nanos - 1)
              /\ (s * Nanos) + n + d
                    = ((s + (d \div Nanos) + extra) * Nanos) + (sum % Nanos)
  <1> USE ClockAssumption
  <1> DEFINE sum == n + (d % Nanos)
             extra == sum \div Nanos
             whole == d \div Nanos
  <1>1. /\ whole \in Int /\ d % Nanos \in 0..(Nanos - 1)
        /\ d = (whole * Nanos) + (d % Nanos)
    BY Division
  <1>2. sum \in 0..(Nanos + Nanos - 2)
    BY <1>1
  <1>3. /\ extra \in Int /\ sum % Nanos \in 0..(Nanos - 1)
        /\ sum = (extra * Nanos) + (sum % Nanos)
    <2>1. \A i \in Int : /\ i \div Nanos \in Int /\ i % Nanos \in 0..(Nanos - 1)
                         /\ i = ((i \div Nanos) * Nanos) + (i % Nanos)
      BY Division
    <2>2. sum \in Int
      BY <1>2
    <2> HIDE DEF sum
    <2> QED
      BY <2>1, <2>2
  <1>4. extra \in 0..1
    <2>1. -1 * Nanos = -Nanos /\ 2 * Nanos = Nanos + Nanos /\ 1 * Nanos = Nanos
      OBVIOUS
    <2>2. extra < 0 => extra * Nanos <= -Nanos
      BY <1>3, Products
    <2>3. extra > 1 => extra * Nanos >= Nanos + Nanos
      BY <1>3, Products
    <2> QED
      BY <1>2, <1>3, <2>2, <2>3
  <1>5. /\ (s + whole) * Nanos = (s * Nanos) + (whole * Nanos)
        /\ ((s + whole) + extra) * Nanos = ((s + whole) * Nanos) + (extra * Nanos)
    BY <1>1, <1>3, Products
  <1>6. /\ s * Nanos \in Int /\ whole * Nanos \in Int /\ extra * Nanos \in Int
        /\ sum = n + (d % Nanos)
    BY <1>1, <1>3, Products
  <1>7. (s * Nanos) + n + d = ((s + whole + extra) * Nanos) + (sum % Nanos)
    <2> HIDE DEF sum, extra, whole
    <2> QED
      BY <1>1, <1>2, <1>3, <1>5, <1>6
  <1> QED
    BY <1>1, <1>3, <1>4, <1>7

LEMMA ClockState ==
    ASSUME ClockInv
    PROVE  /\ seconds \in Clock!MinSec..MaxSec /\ nanoseconds \in 0..(Nanos - 1) /\ lost \in BOOLEAN
           /\ lost \/ exact = (seconds * Nanos) + nanoseconds
           /\ MaxSec \in Nat /\ Nanos \in Nat \ {0} /\ Clock!MinSec = -MaxSec - 1
  <1>1. Clock!TypeOk /\ (lost \/ exact = (seconds * Nanos) + nanoseconds)
    BY DEF ClockInv, Clock!CountsExactly, Clock!Total
  <1>2. seconds \in Clock!MinSec..MaxSec /\ nanoseconds \in 0..(Nanos - 1) /\ lost \in BOOLEAN
    BY <1>1 DEF Clock!TypeOk, Clock!IsSecond, Clock!MinSec
  <1> QED
    BY <1>1, <1>2, ClockAssumption DEF Clock!MinSec

LEMMA AddCounts ==
    ASSUME ClockInv, NEW d \in Int, Clock!Add(d)
    PROVE  ClockInv'
  <1> DEFINE sum == nanoseconds + (d % Nanos)
             extra == sum \div Nanos
             whole == d \div Nanos
             after == seconds + whole + extra
             rest == sum % Nanos
  <1>1. /\ seconds \in Clock!MinSec..MaxSec /\ nanoseconds \in 0..(Nanos - 1) /\ lost \in BOOLEAN
        /\ lost \/ exact = (seconds * Nanos) + nanoseconds
        /\ MaxSec \in Nat /\ Nanos \in Nat \ {0} /\ Clock!MinSec = -MaxSec - 1
    BY ClockState
  <1>2. /\ whole \in Int /\ extra \in 0..1 /\ rest \in 0..(Nanos - 1)
        /\ (seconds * Nanos) + nanoseconds + d = (after * Nanos) + rest
    <2>1. seconds \in Int
      BY <1>1
    <2> HIDE DEF Clock!MinSec
    <2> QED
      BY <1>1, <2>1, Carries
  <1>3. after \in Int
    BY <1>1, <1>2
  <1>4. ~lost => exact' = IF after < Clock!MinSec THEN Clock!MinSec * Nanos
                          ELSE IF after > MaxSec THEN (MaxSec * Nanos) + (Nanos - 1)
                          ELSE (after * Nanos) + rest
    <2> HIDE DEF after, rest
    <2> QED
      BY <1>1, <1>2, <1>3, Saturates DEF Clock!Add
  <1>5. /\ lost' = (lost \/ (whole = 0 /\ seconds + extra > MaxSec))
        /\ IF whole > 0 /\ seconds > MaxSec - whole - extra
           THEN seconds' = MaxSec /\ nanoseconds' = Nanos - 1
           ELSE IF whole < 0 /\ seconds < Clock!MinSec - whole - extra
           THEN seconds' = Clock!MinSec /\ nanoseconds' = 0
           ELSE seconds' = Clock!Wrapped(after) /\ nanoseconds' = rest
    BY DEF Clock!Add, Clock!Become, Clock!BecomeMax, Clock!BecomeMin, Clock!MinSec
  <1>6. /\ Clock!Wrapped(after) \in Clock!MinSec..MaxSec
        /\ (after \in Clock!MinSec..MaxSec => Clock!Wrapped(after) = after)
    BY <1>3, Wraps
  <1>7. seconds' \in Clock!MinSec..MaxSec /\ nanoseconds' \in 0..(Nanos - 1) /\ lost' \in BOOLEAN
    <2> HIDE DEF after, rest, extra, whole
    <2> QED
      BY <1>1, <1>2, <1>5, <1>6
  <1>8. lost' \/ exact' = (seconds' * Nanos) + nanoseconds'
    <2> SUFFICES ASSUME ~lost' PROVE exact' = (seconds' * Nanos) + nanoseconds'
      OBVIOUS
    <2>1. ~lost /\ ~(whole = 0 /\ seconds + extra > MaxSec)
      BY <1>5
    <2>2. after = seconds + whole + extra
      OBVIOUS
    <2> HIDE DEF after, rest, extra, whole
    <2>3. CASE after < Clock!MinSec
      BY <1>1, <1>2, <1>4, <1>5, <2>1, <2>2, <2>3
    <2>4. CASE after > MaxSec
      BY <1>1, <1>2, <1>4, <1>5, <2>1, <2>2, <2>4
    <2>5. CASE after \in Clock!MinSec..MaxSec
      <3>1. seconds' = after /\ nanoseconds' = rest
        BY <1>1, <1>2, <1>5, <1>6, <2>2, <2>5
      <3> QED
        BY <1>1, <1>4, <2>1, <2>5, <3>1
    <2> QED
      BY <1>1, <1>3, <2>3, <2>4, <2>5
  <1> QED
    BY <1>7, <1>8 DEF ClockInv, Clock!TypeOk, Clock!IsSecond, Clock!CountsExactly,
                      Clock!Total, Clock!MinSec

(* If what is subtracted is whole seconds, the floor leaves no carry.      *)
LEMMA SubtractCounts ==
    ASSUME ClockInv, NEW w \in -MaxSec..MaxSec, Clock!Subtract(w * Nanos)
    PROVE  ClockInv'
  <1> DEFINE d == w * Nanos
  <1>1. /\ seconds \in Clock!MinSec..MaxSec /\ nanoseconds \in 0..(Nanos - 1) /\ lost \in BOOLEAN
        /\ lost \/ exact = (seconds * Nanos) + nanoseconds
        /\ MaxSec \in Nat /\ Nanos \in Nat \ {0} /\ Clock!MinSec = -MaxSec - 1
        /\ w \in -MaxSec..MaxSec
    BY ClockState, ClockAssumption
  <1>2. d \div Nanos = w /\ d % Nanos = 0
    <2>1. /\ d \in Int /\ d \div Nanos \in Int /\ d % Nanos \in 0..(Nanos - 1)
          /\ d = ((d \div Nanos) * Nanos) + (d % Nanos)
      <3>1. d \in Int
        BY <1>1, Products
      <3> HIDE DEF d
      <3> QED
        BY <1>1, <3>1, Division
    <2>2. ~(d \div Nanos < w) /\ ~(w < d \div Nanos)
      <3>1. \A a, b \in Int : a < b => (a * Nanos) + Nanos <= b * Nanos
        BY <1>1, Products
      <3>2. (d \div Nanos) * Nanos \in Int
        BY <1>1, <2>1, Products
      <3>3. d = w * Nanos
        OBVIOUS
      <3> HIDE DEF d
      <3> QED
        BY <1>1, <2>1, <3>1, <3>2, <3>3
    <2> QED
      BY <1>1, <2>1, <2>2
  <1>3. LET sum == nanoseconds + (d % Nanos)
        IN sum % Nanos = nanoseconds /\ sum \div Nanos = 0
    <2>1. \A n \in Nat \ {0} : \A x \in 0..(n - 1) : x % n = x /\ x \div n = 0
      OBVIOUS
    <2>2. nanoseconds + (d % Nanos) = nanoseconds
      BY <1>1, <1>2
    <2> QED
      BY <1>1, <2>1, <2>2
  <1>4. /\ lost' = lost
        /\ exact' = Clock!Clamp(exact - d)
        /\ IF w > 0 /\ seconds < Clock!MinSec + w
           THEN seconds' = Clock!MinSec /\ nanoseconds' = 0
           ELSE IF w < 0 /\ seconds > Clock!Wrapped(MaxSec + w)
           THEN seconds' = MaxSec /\ nanoseconds' = Nanos - 1
           ELSE seconds' = Clock!Wrapped(seconds - w) /\ nanoseconds' = nanoseconds
    <2>1. Clock!MinSec + w - 0 = Clock!MinSec + w /\ MaxSec + w - 0 = MaxSec + w
          /\ seconds - w + 0 = seconds - w
      BY <1>1
    <2> HIDE DEF d
    <2>2. lost' = (lost \/ d % Nanos # 0) /\ exact' = Clock!Clamp(exact - d)
      BY DEF Clock!Subtract, d
    <2>3. lost' = lost
      BY <1>1, <1>2, <2>2
    <2>4. IF w > 0 /\ seconds < Clock!MinSec + w
          THEN seconds' = Clock!MinSec /\ nanoseconds' = 0
          ELSE IF w < 0 /\ seconds > Clock!Wrapped(MaxSec + w)
          THEN seconds' = MaxSec /\ nanoseconds' = Nanos - 1
          ELSE seconds' = Clock!Wrapped(seconds - w) /\ nanoseconds' = nanoseconds
      BY <1>2, <1>3, <2>1
         DEF Clock!Subtract, Clock!Become, Clock!BecomeMax, Clock!BecomeMin, Clock!MinSec, d
    <2> QED
      BY <2>2, <2>3, <2>4
  <1>5. MaxSec + w >= Clock!MinSec /\ (w < 0 => Clock!Wrapped(MaxSec + w) = MaxSec + w)
    BY <1>1, Wraps
  <1>6. /\ Clock!Wrapped(seconds - w) \in Clock!MinSec..MaxSec
        /\ seconds - w \in Clock!MinSec..MaxSec => Clock!Wrapped(seconds - w) = seconds - w
    BY <1>1, Wraps
  <1>7. ~lost => exact' = IF seconds - w < Clock!MinSec THEN Clock!MinSec * Nanos
                          ELSE IF seconds - w > MaxSec THEN (MaxSec * Nanos) + (Nanos - 1)
                          ELSE ((seconds - w) * Nanos) + nanoseconds
    <2>1. (seconds - w) * Nanos = (seconds * Nanos) - d /\ d \in Int /\ seconds * Nanos \in Int
      BY <1>1, Products
    <2>2. ((seconds * Nanos) + nanoseconds) - d = ((seconds - w) * Nanos) + nanoseconds
      <3> HIDE DEF d
      <3> QED
        BY <1>1, <2>1
    <2>3. seconds - w \in Int
      BY <1>1
    <2> HIDE DEF d
    <2>4. ~lost => exact' = Clock!Clamp(((seconds - w) * Nanos) + nanoseconds)
      BY <1>1, <1>4, <2>2
    <2> DEFINE s == seconds - w
    <2>5. s \in Int
      BY <2>3
    <2> HIDE DEF s
    <2>6. ~lost => exact' = IF s < Clock!MinSec THEN Clock!MinSec * Nanos
                            ELSE IF s > MaxSec THEN (MaxSec * Nanos) + (Nanos - 1)
                            ELSE (s * Nanos) + nanoseconds
      BY <1>1, <2>4, <2>5, Saturates DEF s
    <2> QED
      BY <2>6 DEF s
  <1>8. seconds' \in Clock!MinSec..MaxSec /\ nanoseconds' \in 0..(Nanos - 1) /\ lost' \in BOOLEAN
    BY <1>1, <1>4, <1>6
  <1>9. lost' \/ exact' = (seconds' * Nanos) + nanoseconds'
    BY <1>1, <1>4, <1>5, <1>6, <1>7
  <1> QED
    BY <1>8, <1>9 DEF ClockInv, Clock!TypeOk, Clock!IsSecond, Clock!CountsExactly,
                      Clock!Total, Clock!MinSec

(* If it is not, it is not known where the difference is.                  *)
LEMMA SubtractStays ==
    ASSUME ClockInv, NEW d \in Int, Clock!Subtract(d), d % Nanos # 0
    PROVE  ClockInv'
  <1> DEFINE rest == (nanoseconds + (d % Nanos)) % Nanos
             after == seconds - (d \div Nanos) + ((nanoseconds + (d % Nanos)) \div Nanos)
  <1>1. /\ seconds \in Clock!MinSec..MaxSec /\ nanoseconds \in 0..(Nanos - 1)
        /\ MaxSec \in Nat /\ Nanos \in Nat \ {0} /\ Clock!MinSec = -MaxSec - 1
    BY ClockState
  <1>2. rest \in 0..(Nanos - 1) /\ after \in Int
    <2>1. seconds \in Int
      BY <1>1
    <2>2. /\ d \div Nanos \in Int /\ (nanoseconds + (d % Nanos)) \div Nanos \in 0..1
          /\ rest \in 0..(Nanos - 1)
      BY <1>1, <2>1, Carries
    <2> QED
      BY <1>1, <2>2
  <1>3. Clock!Wrapped(after) \in Clock!MinSec..MaxSec
    BY <1>2, Wraps
  <1>4. /\ lost' = TRUE
        /\ \/ seconds' = Clock!MinSec /\ nanoseconds' = 0
           \/ seconds' = MaxSec /\ nanoseconds' = Nanos - 1
           \/ seconds' = Clock!Wrapped(after) /\ nanoseconds' = rest
    BY DEF Clock!Subtract, Clock!Become, Clock!BecomeMax, Clock!BecomeMin, Clock!MinSec
  <1> HIDE DEF rest, after
  <1>5. seconds' \in Clock!MinSec..MaxSec /\ nanoseconds' \in 0..(Nanos - 1)
    BY <1>1, <1>2, <1>3, <1>4
  <1> QED
    BY <1>4, <1>5 DEF ClockInv, Clock!TypeOk, Clock!IsSecond, Clock!CountsExactly,
                      Clock!MinSec

(* Which of the two it is                                                  *)
LEMMA PartIsSubtracted ==
    ASSUME ClockInv, NEW d \in Signed(Parts), Clock!Subtract(d)
    PROVE  ClockInv'
  <1> DEFINE w == d \div Nanos
  <1>1. /\ MaxSec \in Nat /\ Nanos \in Nat \ {0} /\ d \in Int
        /\ MaxSec * Nanos \in Int /\ -(MaxSec * Nanos) <= d /\ d <= MaxSec * Nanos
    <2>1. MaxSec * Nanos \in Int
      BY ClockAssumption, Products
    <2> QED
      BY <2>1, ClockAssumption DEF Signed
  <1>2. w \in Int /\ d % Nanos \in 0..(Nanos - 1) /\ d = (w * Nanos) + (d % Nanos)
    BY <1>1, Division
  <1> HIDE DEF w
  <1>3. CASE d % Nanos = 0
    <2>1. d = w * Nanos /\ w * Nanos \in Int
      BY <1>1, <1>2, <1>3
    <2>2. -MaxSec \in Int /\ (-MaxSec) * Nanos = -(MaxSec * Nanos)
      BY <1>1, Products
    <2>3. ~(w < -MaxSec)
      BY <1>1, <1>2, <2>1, <2>2, Products
    <2>4. ~(MaxSec < w)
      BY <1>1, <1>2, <2>1, Products
    <2>5. w \in -MaxSec..MaxSec
      BY <1>1, <1>2, <2>3, <2>4
    <2> QED
      BY <2>1, <2>5, SubtractCounts
  <1>4. CASE d % Nanos # 0
    BY <1>1, <1>4, SubtractStays
  <1> QED
    BY <1>3, <1>4

LEMMA WholeSecondsCount ==
    ASSUME ClockInv, NEW d \in Int, Clock!AddSeconds(d) \/ Clock!SubtractSeconds(d)
    PROVE  ClockInv'
  <1>1. /\ seconds \in Clock!MinSec..MaxSec /\ nanoseconds \in 0..(Nanos - 1) /\ lost \in BOOLEAN
        /\ lost \/ exact = (seconds * Nanos) + nanoseconds
        /\ MaxSec \in Nat /\ Nanos \in Nat \ {0} /\ Clock!MinSec = -MaxSec - 1
    BY ClockState
  <1>2. /\ seconds' \in Clock!MinSec..MaxSec /\ nanoseconds' = nanoseconds /\ lost' = lost
        /\ \/ seconds' = seconds + d /\ exact' = Clock!Clamp(exact + (d * Nanos))
           \/ seconds' = seconds - d /\ exact' = Clock!Clamp(exact - (d * Nanos))
    BY DEF Clock!AddSeconds, Clock!SubtractSeconds, Clock!IsSecond, Clock!Become,
       Clock!MinSec
  <1>3. /\ (seconds + d) * Nanos = (seconds * Nanos) + (d * Nanos)
        /\ (seconds - d) * Nanos = (seconds * Nanos) - (d * Nanos)
        /\ seconds * Nanos \in Int /\ d * Nanos \in Int
    BY <1>1, Products
  <1>4. lost' \/ exact' = Clock!Clamp((seconds' * Nanos) + nanoseconds)
    <2> SUFFICES ASSUME ~lost PROVE exact' = Clock!Clamp((seconds' * Nanos) + nanoseconds)
      BY <1>2
    <2>1. /\ exact + (d * Nanos) = ((seconds + d) * Nanos) + nanoseconds
          /\ exact - (d * Nanos) = ((seconds - d) * Nanos) + nanoseconds
      BY <1>1, <1>3
    <2> QED
      BY <1>2, <2>1
  <1>5. lost' \/ exact' = (seconds' * Nanos) + nanoseconds'
    <2>1. Clock!Clamp((seconds' * Nanos) + nanoseconds) = (seconds' * Nanos) + nanoseconds
      <3>1. seconds' \in Int
        BY <1>1, <1>2
      <3> QED
        BY <1>1, <1>2, <3>1, Saturates
    <2> QED
      BY <1>2, <1>4, <2>1
  <1> QED
    BY <1>1, <1>2, <1>5 DEF ClockInv, Clock!TypeOk, Clock!IsSecond,
       Clock!CountsExactly, Clock!Total, Clock!MinSec

(* The duration is no longer than the range of time points, so that a sum  *)
(* leaves the range only on the side of the seconds.                       *)
LEMMA MadeExactly ==
    ASSUME NEW s \in {Clock!MinSec, MaxSec}, NEW n \in Signed(Parts),
           Clock!FromSecondsAndNanoseconds(s, n)
    PROVE  ClockInv'
  <1> DEFINE whole == Clock!Quotient(n)
             rest == n - (whole * Nanos)
             after == s + (IF rest < 0 THEN whole - 1 ELSE whole)
             part == IF rest < 0 THEN rest + Nanos ELSE rest
  <1>1. /\ MaxSec \in Nat /\ Nanos \in Nat \ {0} /\ Clock!MinSec = -MaxSec - 1
        /\ s \in Int /\ n \in Int /\ -(MaxSec * Nanos) <= n /\ n <= MaxSec * Nanos
        /\ MaxSec * Nanos \in Int
    <2>1. MaxSec * Nanos \in Int
      BY ClockAssumption, Products
    <2> QED
      BY <2>1, ClockAssumption DEF Signed, Clock!MinSec
  <1>2. /\ whole \in Int /\ rest \in -(Nanos - 1)..(Nanos - 1)
        /\ n = (whole * Nanos) + rest
        /\ whole \in -MaxSec..MaxSec
        /\ whole = -MaxSec => rest >= 0
    <2>1. \A i \in Nat : /\ i \div Nanos \in Nat /\ i % Nanos \in 0..(Nanos - 1)
                         /\ i = ((i \div Nanos) * Nanos) + (i % Nanos)
                         /\ i <= MaxSec * Nanos => i \div Nanos <= MaxSec
                         /\ i <= MaxSec * Nanos /\ i \div Nanos = MaxSec => i % Nanos = 0
      <3> SUFFICES ASSUME NEW i \in Nat
                   PROVE  /\ i \div Nanos \in Nat /\ i % Nanos \in 0..(Nanos - 1)
                          /\ i = ((i \div Nanos) * Nanos) + (i % Nanos)
                          /\ i <= MaxSec * Nanos => i \div Nanos <= MaxSec
                          /\ i <= MaxSec * Nanos /\ i \div Nanos = MaxSec => i % Nanos = 0
        OBVIOUS
      <3> DEFINE q == i \div Nanos
      <3>1. /\ q \in Int /\ i % Nanos \in 0..(Nanos - 1)
            /\ i = (q * Nanos) + (i % Nanos)
        BY <1>1, Division
      <3>2. \A a, b \in Int : a < b => (a * Nanos) + Nanos <= b * Nanos
        BY <1>1, Products
      <3>3. 0 * Nanos = 0 /\ q * Nanos \in Int
        BY <1>1, <3>1, Products
      <3> HIDE DEF q
      <3>4. q >= 0
        BY <1>1, <3>1, <3>2, <3>3
      <3>5. i <= MaxSec * Nanos => q <= MaxSec
        BY <1>1, <3>1, <3>2, <3>3
      <3>6. i <= MaxSec * Nanos /\ q = MaxSec => i % Nanos = 0
        BY <1>1, <3>1, <3>3
      <3> QED
        BY <3>1, <3>4, <3>5, <3>6 DEF q
    <2>2. CASE n >= 0
      <3>1. n \in Nat /\ whole = n \div Nanos
        BY <1>1, <2>2 DEF Clock!Quotient
      <3>2. rest = n % Nanos
        BY <1>1, <2>1, <3>1, Products
      <3> HIDE DEF rest, whole
      <3> QED
        BY <1>1, <2>1, <3>1, <3>2
    <2>3. CASE n < 0
      <3> DEFINE q == (-n) \div Nanos
      <3>1. -n \in Nat /\ whole = -q
        BY <1>1, <2>3 DEF Clock!Quotient
      <3>2. /\ q \in Nat /\ (-n) % Nanos \in 0..(Nanos - 1)
            /\ -n = (q * Nanos) + ((-n) % Nanos)
            /\ q <= MaxSec /\ (q = MaxSec => (-n) % Nanos = 0)
        <4>1. -n <= MaxSec * Nanos
          BY <1>1
        <4> DEFINE i == -n
        <4>2. i \in Nat /\ i <= MaxSec * Nanos
          BY <3>1, <4>1
        <4> HIDE DEF i
        <4>3. /\ i \div Nanos \in Nat /\ i % Nanos \in 0..(Nanos - 1)
              /\ i = ((i \div Nanos) * Nanos) + (i % Nanos)
              /\ i \div Nanos <= MaxSec /\ (i \div Nanos = MaxSec => i % Nanos = 0)
          BY <2>1, <4>2
        <4> QED
          BY <4>3 DEF i
      <3>3. (-q) * Nanos = -(q * Nanos) /\ q * Nanos \in Int
        BY <1>1, <3>2, Products
      <3>4. rest = -((-n) % Nanos)
        BY <1>1, <3>1, <3>2, <3>3
      <3>5. n = (whole * Nanos) + rest
        <4> HIDE DEF q
        <4> QED
          BY <1>1, <3>1, <3>2, <3>3, <3>4
      <3> HIDE DEF rest, whole, q
      <3> QED
        BY <1>1, <3>1, <3>2, <3>4, <3>5
    <2> QED
      BY <1>1, <2>2, <2>3
  <1>3. /\ after \in Int /\ part \in 0..(Nanos - 1)
        /\ s < 0 => after <= MaxSec
        /\ s >= 0 => after >= Clock!MinSec
    <2> HIDE DEF rest, whole
    <2> QED
      BY <1>1, <1>2
  <1>4. (s * Nanos) + n = (after * Nanos) + part
    <2>1. /\ (s + whole) * Nanos = (s * Nanos) + (whole * Nanos)
          /\ ((s + whole) - 1) * Nanos = ((s + whole) * Nanos) - (1 * Nanos)
          /\ 1 * Nanos = Nanos /\ s * Nanos \in Int /\ whole * Nanos \in Int
      <3> HIDE DEF whole
      <3> QED
        BY <1>1, <1>2, Products
    <2>2. /\ rest < 0 => after = (s + whole) - 1 /\ part = rest + Nanos
          /\ ~(rest < 0) => after = s + whole /\ part = rest
      <3> HIDE DEF whole, rest
      <3> QED
        BY <1>1, <1>2 DEF after, part
    <2> HIDE DEF rest, whole, after, part
    <2> QED
      BY <1>1, <1>2, <2>1, <2>2
  <1>5. /\ lost' = FALSE
        /\ exact' = Clock!Clamp((s * Nanos) + n)
        /\ IF ~(after \in Clock!MinSec..MaxSec)
           THEN IF s < 0 THEN seconds' = Clock!MinSec /\ nanoseconds' = 0
                         ELSE seconds' = MaxSec /\ nanoseconds' = Nanos - 1
           ELSE seconds' = after /\ nanoseconds' = part
    BY DEF Clock!FromSecondsAndNanoseconds, Clock!IsSecond, Clock!Become,
       Clock!BecomeMax, Clock!BecomeMin, Clock!MinSec
  <1>6. exact' = IF after < Clock!MinSec THEN Clock!MinSec * Nanos
                 ELSE IF after > MaxSec THEN (MaxSec * Nanos) + (Nanos - 1)
                 ELSE (after * Nanos) + part
    <2> HIDE DEF after, part
    <2> QED
      BY <1>3, <1>4, <1>5, Saturates
  <1> HIDE DEF after, part
  <1>7. seconds' \in Clock!MinSec..MaxSec /\ nanoseconds' \in 0..(Nanos - 1) /\ lost' \in BOOLEAN
    <2>1. Clock!MinSec \in Clock!MinSec..MaxSec /\ MaxSec \in Clock!MinSec..MaxSec
      BY <1>1
    <2>2. 0 \in 0..(Nanos - 1) /\ Nanos - 1 \in 0..(Nanos - 1)
      BY <1>1
    <2> QED
      BY <1>3, <1>5, <2>1, <2>2
  <1>8. exact' = (seconds' * Nanos) + nanoseconds'
    BY <1>1, <1>3, <1>5, <1>6, Products
  <1> QED
    BY <1>7, <1>8 DEF ClockInv, Clock!TypeOk, Clock!IsSecond, Clock!CountsExactly,
                      Clock!Total, Clock!MinSec

(* Whatever durations are added and subtracted, in any order and for any   *)
(* range, the time point is the one that they come to, or the end of the   *)
(* range that it went past: until a part of a second is subtracted, which  *)
(* operator-= adds, or a carry goes past the end with no whole second to   *)
(* add, for which the code does not look.  From then on nothing is said of *)
(* it before the next one is made by from_seconds_and_nanoseconds().       *)
THEOREM ClockCountsExactly == Spec => []CountsExactly
  <1>1. Init => ClockInv
    <2>1. (0 * Nanos) + 0 = 0 /\ 0 \in 0..(Nanos - 1) /\ 0 \in (-MaxSec - 1)..MaxSec
      BY ClockAssumption
    <2>2. Init => seconds = 0 /\ nanoseconds = 0 /\ exact = 0 /\ lost = FALSE
      BY DEF Init, Clock!Init
    <2> QED
      BY <2>1, <2>2 DEF ClockInv, Clock!TypeOk, Clock!IsSecond, Clock!CountsExactly,
         Clock!Total, Clock!MinSec
  <1>2. ClockInv /\ [Next]_vars => ClockInv'
    <2> SUFFICES ASSUME ClockInv, [Next]_vars PROVE ClockInv'
      OBVIOUS
    <2>1. CASE UNCHANGED clockVars
      BY <2>1 DEF clockVars, ClockInv, Clock!TypeOk, Clock!IsSecond,
         Clock!CountsExactly, Clock!Total
    <2>2. CASE Clock!Next
      <3>1. Signed(Parts) \subseteq Int /\ Signed(Seconds) \subseteq Int
        <4>1. MaxSec * Nanos \in Int
          BY ClockAssumption, Products
        <4>2. Parts \subseteq Int /\ Seconds \subseteq Int
          BY <4>1, ClockAssumption
        <4>3. ASSUME NEW D, D \subseteq Int PROVE Signed(D) \subseteq Int
          <5>1. \A x \in D : x \in Int /\ -x \in Int
            BY <4>3
          <5> QED
            BY <5>1 DEF Signed
        <4> QED
          BY <4>2, <4>3
      <3>2. ASSUME NEW s \in {Clock!MinSec, MaxSec}, NEW n \in Signed(Parts),
                   Clock!FromSecondsAndNanoseconds(s, n)
            PROVE  ClockInv'
        BY <3>2, MadeExactly
      <3>3. ASSUME NEW d \in Signed(Seconds), Clock!AddSeconds(d) \/ Clock!SubtractSeconds(d)
            PROVE  ClockInv'
        BY <3>1, <3>3, WholeSecondsCount
      <3>4. ASSUME NEW d \in Signed(Parts), Clock!Add(d)
            PROVE  ClockInv'
        BY <3>1, <3>4, AddCounts
      <3>5. ASSUME NEW d \in Signed(Parts), Clock!Subtract(d)
            PROVE  ClockInv'
        BY <3>5, PartIsSubtracted
      <3> QED
        BY <2>2, <3>2, <3>3, <3>4, <3>5 DEF Clock!Next
    <2> QED
      BY <2>1, <2>2 DEF Next, vars
  <1> QED
    BY <1>1, <1>2, PTL DEF Spec, ClockInv, CountsExactly

(***************************************************************************)
(* Timestamps                                                              *)
(***************************************************************************)

(* The seconds that the timestamps and the first half of them reach.       *)
FullRange == (MaxTimestamp * Grain) \div Nanos
HalfRange == ((MaxTimestamp \div 2) * Grain) \div Nanos

(* The timestamp of t when the base is b, where time_point_to_timestamp()  *)
(* reads the members                                                       *)
Ends(b, t, inside) == IF t \div Nanos < b THEN 0
                      ELSE IF t \div Nanos >= b + FullRange THEN MaxTimestamp
                      ELSE inside
Ceiling(b, t) == Ends(b, t, ((t - (b * Nanos)) + Grain - 1) \div Grain)
Floor(b, t) == Ends(b, t, (t - (b * Nanos)) \div Grain)

(* The times of the base and of the reindex timer *)
BaseTime(b) == b * Nanos
Reindex(b) == (b + HalfRange) * Nanos

LEMMA Ranges ==
    /\ FullRange \in Nat /\ HalfRange \in Nat /\ Past < HalfRange /\ HalfRange < FullRange
    /\ FullRange * Nanos <= MaxTimestamp * Grain
    /\ HalfRange * Nanos <= (MaxTimestamp \div 2) * Grain
    /\ MaxTimestamp \div 2 \in Nat /\ MaxTimestamp \div 2 < MaxTimestamp
    /\ Grain \in Nat \ {0} /\ Nanos \in Nat \ {0} /\ Grain <= Nanos /\ MaxTimestamp \in Nat
    /\ Past \in Nat
  <1> DEFINE half == MaxTimestamp \div 2
  <1>1. /\ Grain \in Nat \ {0} /\ Nanos \in Nat \ {0} /\ Grain <= Nanos /\ MaxTimestamp \in Nat
        /\ Past \in Nat /\ Past < HalfRange
    BY LoopAssumption, ClockAssumption DEF HalfRange
  <1>2. half \in Nat /\ half + half <= MaxTimestamp
    BY <1>1
  <1>3. /\ half * Grain \in Nat /\ MaxTimestamp * Grain \in Nat
        /\ (half + half) * Grain = (half * Grain) + (half * Grain)
        /\ (half * Grain) + (half * Grain) <= MaxTimestamp * Grain
    <2> HIDE DEF half
    <2>1. \A a, b \in Int : /\ a * Grain \in Int
                            /\ (a + b) * Grain = (a * Grain) + (b * Grain)
                            /\ a < b => a * Grain < b * Grain
      BY <1>1, Products
    <2>2. half * Grain \in Nat
      <3>1. \A a \in Nat : \A d \in Nat : a * d \in Nat
        OBVIOUS
      <3> QED
        BY <1>1, <1>2, <3>1
    <2>3. (half + half) * Grain <= MaxTimestamp * Grain
      BY <1>1, <1>2, <2>1
    <2> QED
      BY <1>1, <1>2, <2>1, <2>2, <2>3
  <1>4. /\ HalfRange \in Int /\ half * Grain = (HalfRange * Nanos) + ((half * Grain) % Nanos)
        /\ (half * Grain) % Nanos \in 0..(Nanos - 1)
    <2> DEFINE x == half * Grain
    <2>1. x \in Int
      BY <1>3
    <2>2. HalfRange = x \div Nanos
      BY DEF HalfRange
    <2> HIDE DEF x
    <2>3. x \div Nanos \in Int /\ x = ((x \div Nanos) * Nanos) + (x % Nanos) /\ x % Nanos \in 0..(Nanos - 1)
      BY <1>1, <2>1, Division
    <2> QED
      BY <2>2, <2>3 DEF x
  <1>5. /\ FullRange \in Int /\ MaxTimestamp * Grain = (FullRange * Nanos) + ((MaxTimestamp * Grain) % Nanos)
        /\ (MaxTimestamp * Grain) % Nanos \in 0..(Nanos - 1)
    <2> DEFINE x == MaxTimestamp * Grain
    <2>1. x \in Int
      BY <1>3
    <2>2. FullRange = x \div Nanos
      BY DEF FullRange
    <2> HIDE DEF x
    <2>3. x \div Nanos \in Int /\ x = ((x \div Nanos) * Nanos) + (x % Nanos) /\ x % Nanos \in 0..(Nanos - 1)
      BY <1>1, <2>1, Division
    <2> QED
      BY <2>2, <2>3 DEF x
  <1>6. HalfRange \in Nat /\ HalfRange >= 1
    BY <1>1, <1>4
  <1>7. half > 0 /\ half < MaxTimestamp
    <2>1. 0 * Grain = 0 /\ HalfRange * Nanos >= Nanos
      <3>1. 1 * Nanos = Nanos /\ (1 < HalfRange => 1 * Nanos < HalfRange * Nanos)
        BY <1>1, <1>4, Products
      <3> QED
        BY <1>1, <1>6, <3>1
    <2>2. HalfRange * Nanos \in Int
      BY <1>1, <1>4, Products
    <2>3. half # 0
      <3>1. half = 0 => half * Grain = 0
        BY <1>1
      <3> DEFINE x == half * Grain
                 h == HalfRange * Nanos
      <3>2. x = h + (x % Nanos) /\ x % Nanos >= 0 /\ h >= Nanos /\ (half = 0 => x = 0)
        BY <1>1, <1>4, <2>1, <3>1
      <3>3. h \in Int /\ x % Nanos \in Int
        BY <1>1, <1>4, <2>2
      <3> HIDE DEF half, x, h
      <3> QED
        BY <1>1, <3>2, <3>3
    <2> QED
      BY <1>1, <1>2, <2>3
  <1>8. HalfRange < FullRange
    <2> SUFFICES ASSUME FullRange <= HalfRange PROVE FALSE
      BY <1>4, <1>5
    <2>1. /\ HalfRange * Nanos \in Int /\ FullRange * Nanos \in Int
          /\ FullRange * Nanos <= HalfRange * Nanos
          /\ 1 * Nanos = Nanos /\ (1 < HalfRange => 1 * Nanos < HalfRange * Nanos)
      BY <1>1, <1>4, <1>5, Products
    <2>2. HalfRange * Nanos >= Nanos
      BY <1>1, <1>6, <2>1
    <2> HIDE DEF half
    <2> QED
      BY <1>1, <1>3, <1>4, <1>5, <2>1, <2>2
  <1>9. FullRange * Nanos <= MaxTimestamp * Grain /\ HalfRange * Nanos <= half * Grain
    <2>1. HalfRange * Nanos \in Int /\ FullRange * Nanos \in Int
      BY <1>1, <1>4, <1>5, Products
    <2> HIDE DEF half
    <2> QED
      BY <1>1, <1>3, <1>4, <1>5, <2>1
  <1> QED
    BY <1>1, <1>2, <1>5, <1>6, <1>7, <1>8, <1>9

(* A timestamp is the granule of its time, but at both ends.               *)
LEMMA Granules ==
    ASSUME NEW b \in Int, NEW t \in Int
    PROVE  LET B == b * Nanos
               F == FullRange * Nanos
           IN /\ B \in Int /\ F \in Int
              /\ t < B => Ceiling(b, t) = 0 /\ Floor(b, t) = 0
              /\ t >= B + F => /\ Ceiling(b, t) = MaxTimestamp
                              /\ Floor(b, t) = MaxTimestamp
              /\ B <= t /\ t < B + F =>
                    /\ Ceiling(b, t) \in Nat /\ Floor(b, t) \in Nat
                    /\ t - B <= Ceiling(b, t) * Grain
                    /\ Ceiling(b, t) * Grain < (t - B) + Grain
                    /\ Floor(b, t) * Grain <= t - B
                    /\ t - B < (Floor(b, t) * Grain) + Grain
  <1> DEFINE B == b * Nanos
             F == FullRange * Nanos
             s == t \div Nanos
  <1>1. /\ B \in Int /\ F \in Int /\ s \in Int
        /\ (b + FullRange) * Nanos = B + F
    BY Ranges, Products, Division
  <1>2. /\ s < b <=> t < B
        /\ s >= b + FullRange <=> t >= B + F
    <2>1. /\ t = (s * Nanos) + (t % Nanos) /\ t % Nanos \in 0..(Nanos - 1)
          /\ s * Nanos \in Int
      BY <1>1, Ranges, Division, Products
    <2>2. ASSUME NEW c \in Int PROVE s < c <=> t < c * Nanos
      <3>1. /\ c * Nanos \in Int
            /\ s < c => (s * Nanos) + Nanos <= c * Nanos
            /\ c < s => c * Nanos < s * Nanos
        BY <1>1, Ranges, Products
      <3> HIDE DEF s
      <3>2. CASE s < c
        BY <2>1, <3>1, <3>2, Ranges
      <3>3. CASE c <= s
        BY <1>1, <2>1, <3>1, <3>3, Ranges
      <3> QED
        BY <1>1, <3>2, <3>3
    <2>3. b + FullRange \in Int
      BY Ranges
    <2>4. s < b <=> t < B
      BY <2>2
    <2>5. s < b + FullRange <=> t < B + F
      BY <1>1, <2>2, <2>3
    <2> HIDE DEF s, B, F
    <2> QED
      BY <1>1, <2>3, <2>4, <2>5
  <1>3. ASSUME B <= t, t < B + F
        PROVE  /\ Ceiling(b, t) \in Nat /\ Floor(b, t) \in Nat
               /\ t - B <= Ceiling(b, t) * Grain
               /\ Ceiling(b, t) * Grain < (t - B) + Grain
               /\ Floor(b, t) * Grain <= t - B
               /\ t - B < (Floor(b, t) * Grain) + Grain
    <2> DEFINE x == t - B
               y == (t - B) + Grain - 1
    <2>1. /\ Floor(b, t) = x \div Grain
          /\ Ceiling(b, t) = y \div Grain
      <3>1. ~(s < b) /\ ~(s >= b + FullRange)
        <4> HIDE DEF s, B, F
        <4> QED
          BY <1>1, <1>2, <1>3
      <3> QED
        BY <3>1 DEF Ceiling, Floor, Ends
    <2>2. x \in Nat /\ y \in Nat /\ y = x + Grain - 1
      <3> HIDE DEF B, F
      <3> QED
        BY <1>1, <1>3, Ranges
    <2>3. x = t - B
      OBVIOUS
    <2> HIDE DEF x, y, B, F
    <2>4. ASSUME NEW n \in Nat
          PROVE  /\ n \div Grain \in Nat /\ (n \div Grain) * Grain <= n
                 /\ n < ((n \div Grain) * Grain) + Grain
      <3>1. /\ n \div Grain \in Int /\ n = ((n \div Grain) * Grain) + (n % Grain)
            /\ n % Grain \in 0..(Grain - 1) /\ (n \div Grain) * Grain \in Int
        BY Ranges, Division, Products
      <3>2. n \div Grain < 0 => ((n \div Grain) * Grain) + Grain <= 0 * Grain
        BY <3>1, Ranges, Products
      <3>3. 0 * Grain = 0
        BY Ranges
      <3> DEFINE q == n \div Grain
      <3> HIDE DEF q
      <3> QED
        BY <3>1, <3>2, <3>3, Ranges DEF q
    <2>5. /\ x \div Grain \in Nat /\ (x \div Grain) * Grain <= x
          /\ x < ((x \div Grain) * Grain) + Grain
          /\ y \div Grain \in Nat /\ (y \div Grain) * Grain <= y
          /\ y < ((y \div Grain) * Grain) + Grain
          /\ (x \div Grain) * Grain \in Int /\ (y \div Grain) * Grain \in Int
      BY <2>2, <2>4, Ranges, Products
    <2> DEFINE p == x \div Grain
               q == y \div Grain
    <2>6. p * Grain \in Int /\ q * Grain \in Int
      BY <2>5
    <2> HIDE DEF p, q
    <2>7. /\ x <= q * Grain /\ q * Grain < x + Grain
          /\ p * Grain <= x /\ x < (p * Grain) + Grain
      BY <2>2, <2>5, <2>6, Ranges DEF p, q
    <2> QED
      BY <2>1, <2>3, <2>5, <2>7 DEF p, q
  <1>4. /\ t < B => Ceiling(b, t) = 0 /\ Floor(b, t) = 0
        /\ t >= B + F => Ceiling(b, t) = MaxTimestamp /\ Floor(b, t) = MaxTimestamp
    <2>1. t >= B + F => ~(t < B)
      <3>1. F >= 0
        BY Ranges
      <3> HIDE DEF B, F
      <3> QED
        BY <1>1, <3>1
    <2> HIDE DEF B, F
    <2> QED
      BY <1>2, <2>1 DEF Ceiling, Floor, Ends
  <1> QED
    BY <1>1, <1>3, <1>4

(* The reindex timer has a timestamp before the last one.                  *)
LEMMA ReindexBeforeLast ==
    ASSUME NEW b \in Int
    PROVE  /\ Ceiling(b, Reindex(b)) \in Nat
           /\ Ceiling(b, Reindex(b)) < MaxTimestamp
           /\ Ceiling(b, Reindex(b)) * Grain < (FullRange * Nanos) + Grain
           /\ Reindex(b) \in Int
  <1> DEFINE B == b * Nanos
             H == HalfRange * Nanos
             F == FullRange * Nanos
             m == MaxTimestamp \div 2
             ts == Ceiling(b, Reindex(b))
  <1>1. /\ Reindex(b) = B + H /\ B \in Int /\ H \in Int /\ F \in Int
        /\ 0 <= H /\ H < F
    <2>1. /\ H \in Int /\ F \in Int /\ B \in Int /\ (b + HalfRange) * Nanos = B + H
          /\ HalfRange < FullRange <=> H < F
      BY Ranges, Products
    <2>2. \A x, y \in Nat : x * y \in Nat
      OBVIOUS
    <2>3. H \in Nat
      BY Ranges, <2>2
    <2> QED
      BY <2>1, <2>3, Ranges DEF Reindex
  <1>2. ts \in Nat /\ ts * Grain < (Reindex(b) - B) + Grain /\ Reindex(b) \in Int
    <2>1. Reindex(b) \in Int /\ B <= Reindex(b) /\ Reindex(b) < B + F
      <3> HIDE DEF B, H, F
      <3> QED
        BY <1>1
    <2> QED
      BY <2>1, Granules
  <1>3. ts * Grain < H + Grain /\ ts * Grain \in Int /\ H <= m * Grain /\ m \in Nat /\ m < MaxTimestamp
    <2>1. ts * Grain \in Int
      <3> HIDE DEF ts
      <3> QED
        BY <1>2, Ranges, Products
    <2>2. Reindex(b) - B = H
      <3> HIDE DEF B, H
      <3> QED
        BY <1>1
    <2> HIDE DEF B, H, ts, m
    <2> QED
      BY <1>2, <2>1, <2>2, Ranges DEF H, m
  <1>4. ts <= m
    <2> HIDE DEF ts, H, m
    <2> SUFFICES ASSUME m < ts PROVE FALSE
      BY <1>2, <1>3
    <2>1. (m * Grain) + Grain <= ts * Grain /\ m * Grain \in Int
      BY <1>2, <1>3, Ranges, Products
    <2> QED
      BY <1>1, <1>3, <2>1, Ranges
  <1>5. ts * Grain < F + Grain
    <2> HIDE DEF ts, H, F
    <2> QED
      BY <1>1, <1>3, Ranges
  <1> QED
    <2> HIDE DEF ts, m
    <2>1. ts < MaxTimestamp
      BY <1>2, <1>3, <1>4, Ranges
    <2> QED
      BY <1>2, <1>5, <2>1 DEF ts

(* What is not after the clock's own timestamp is due, unless it has the   *)
(* last one.                                                               *)
LEMMA NotEarly ==
    ASSUME NEW b \in Int, NEW t \in Int, NEW n \in Int, BaseTime(b) <= n,
           Ceiling(b, t) <= Floor(b, n),
           Ceiling(b, t) < MaxTimestamp
    PROVE  t <= n
  <1> USE DEF BaseTime
  <1> DEFINE B == b * Nanos
             F == FullRange * Nanos
             ts == Ceiling(b, t)
             ns == Floor(b, n)
  <1>1. /\ B \in Int /\ F \in Int
        /\ ~(t >= B + F)
        /\ B <= t /\ t < B + F => ts \in Nat /\ t - B <= ts * Grain
        /\ B <= n /\ n < B + F => ns \in Nat /\ ns * Grain <= n - B
    <2>1. t >= B + F => ts = MaxTimestamp
      BY Granules
    <2>2. ts < MaxTimestamp
      OBVIOUS
    <2>3. ~(t >= B + F)
      <3> HIDE DEF B, F, ts
      <3> QED
        BY <2>1, <2>2, Ranges
    <2> QED
      BY <2>3, Granules
  <1>2. B <= n /\ ts <= ns
    OBVIOUS
  <1>3. ts \in Int /\ ns \in Int => ts * Grain <= ns * Grain /\ ts * Grain \in Int /\ ns * Grain \in Int
    <2> HIDE DEF ts, ns
    <2> QED
      BY <1>2, Ranges, Products
  <1> HIDE DEF B, F, ts, ns
  <1> QED
    BY <1>1, <1>2, <1>3

(* Timestamps do not run back while the base stays.                        *)
LEMMA StampsGrow ==
    ASSUME NEW b \in Int, NEW m \in Int, NEW n \in Int, BaseTime(b) <= m, m <= n
    PROVE  Floor(b, m) <= Floor(b, n) /\ Floor(b, n) \in Int
  <1> USE DEF BaseTime
  <1> DEFINE B == b * Nanos
             F == FullRange * Nanos
             ms == Floor(b, m)
             ns == Floor(b, n)
  <1>1. /\ B \in Int /\ F \in Int
        /\ m >= B + F => ms = MaxTimestamp
        /\ n >= B + F => ns = MaxTimestamp
        /\ B <= m /\ m < B + F => ms \in Nat /\ ms * Grain <= m - B
        /\ B <= n /\ n < B + F => ns \in Nat /\ n - B < (ns * Grain) + Grain
        /\ B <= m
    BY Granules
  <1>2. \A x, y \in Int : /\ x * Grain \in Int /\ y * Grain \in Int
                          /\ x < y => (x * Grain) + Grain <= y * Grain
    BY Ranges, Products
  <1>3. F <= MaxTimestamp * Grain /\ MaxTimestamp \in Nat
    BY Ranges
  <1> SUFFICES ms <= ns /\ ns \in Int
    OBVIOUS
  <1> HIDE DEF B, F, ms, ns
  <1>4. CASE m >= B + F
    BY <1>1, <1>3, <1>4
  <1>5. CASE m < B + F /\ n >= B + F
    <2>1. ms \in Int /\ ms * Grain < MaxTimestamp * Grain
      BY <1>1, <1>2, <1>3, <1>5
    <2> QED
      BY <1>1, <1>2, <1>3, <1>5, <2>1, Ranges
  <1>6. CASE n < B + F
    <2>1. ms \in Int /\ ns \in Int /\ ms * Grain < (ns * Grain) + Grain
      BY <1>1, <1>2, <1>6, Ranges
    <2> QED
      BY <1>2, <2>1, Ranges
  <1> QED
    BY <1>1, <1>4, <1>5, <1>6

(* Timestamps tell times apart that are a granule or more apart.           *)
LEMMA InOrder ==
    ASSUME NEW b \in Int, NEW t \in Int, NEW u \in Int,
           Ceiling(b, t) <= Ceiling(b, u),
           Ceiling(b, t) < MaxTimestamp
    PROVE  t < u + Grain \/ t <= BaseTime(b)
  <1> USE DEF BaseTime
  <1> DEFINE B == b * Nanos
             F == FullRange * Nanos
             ts == Ceiling(b, t)
             us == Ceiling(b, u)
  <1>1. /\ B \in Int /\ F \in Int
        /\ ~(t >= B + F)
        /\ B <= t /\ t < B + F => ts \in Nat /\ t - B <= ts * Grain
        /\ u < B => us = 0
        /\ B <= u /\ u < B + F => us \in Nat /\ us * Grain < (u - B) + Grain
    <2>1. t >= B + F => ts = MaxTimestamp
      BY Granules
    <2>2. ts < MaxTimestamp
      OBVIOUS
    <2>3. ~(t >= B + F)
      <3> HIDE DEF B, F, ts
      <3> QED
        BY <2>1, <2>2, Ranges
    <2> QED
      BY <2>3, Granules
  <1>2. ts <= us
    OBVIOUS
  <1>3. ts \in Int /\ us \in Int => ts * Grain <= us * Grain /\ ts * Grain \in Int /\ us * Grain \in Int
    <2> HIDE DEF ts, us
    <2> QED
      BY <1>2, Ranges, Products
  <1>4. 0 * Grain = 0
    BY Ranges
  <1>5. SUFFICES ASSUME B < t PROVE t < u + Grain
    BY <1>1
  <1> HIDE DEF B, F, ts, us
  <1>6. CASE u < B
    BY <1>1, <1>2, <1>3, <1>4, <1>5, <1>6
  <1>7. CASE B <= u /\ u < B + F
    BY <1>1, <1>3, <1>5, <1>7, Ranges
  <1>8. CASE u >= B + F
    BY <1>1, <1>8, Ranges
  <1> QED
    BY <1>1, <1>6, <1>7, <1>8

(* The time of a timestamp that is no later than that of a timer, nor than *)
(* that of the reindex timer, is no more than a granule after the timer's. *)
LEMMA NotLate ==
    ASSUME NEW b \in Int, NEW t \in Int, NEW n \in Int, NEW ts \in Int, BaseTime(b) <= n,
           ts <= Ceiling(b, t), ts <= Ceiling(b, Reindex(b))
    PROVE  BaseTime(b) + (ts * Grain) <= n \/ BaseTime(b) + (ts * Grain) < t + Grain
  <1> USE DEF BaseTime
  <1> DEFINE B == b * Nanos
             F == FullRange * Nanos
             us == Ceiling(b, t)
             rs == Ceiling(b, Reindex(b))
  <1>1. /\ B \in Int /\ F \in Int
        /\ t < B => us = 0
        /\ B <= t /\ t < B + F => us \in Nat /\ us * Grain < (t - B) + Grain
        /\ rs \in Nat /\ rs * Grain < F + Grain
    BY Granules, ReindexBeforeLast
  <1>2. \A x, y \in Int : /\ x * Grain \in Int /\ y * Grain \in Int
                          /\ x <= y => x * Grain <= y * Grain
    BY Ranges, Products
  <1>3. B <= n /\ ts <= us /\ ts <= rs
    OBVIOUS
  <1>4. 0 * Grain = 0
    BY Ranges
  <1> HIDE DEF B, F, us, rs
  <1>5. CASE t < B
    <2>1. ts * Grain <= 0 * Grain /\ ts * Grain \in Int
      BY <1>1, <1>2, <1>3, <1>5
    <2>2. B + (ts * Grain) <= n
      BY <1>1, <1>3, <1>4, <2>1
    <2> QED
      BY <2>2 DEF B
  <1>6. CASE B <= t /\ t < B + F
    <2>1. ts * Grain <= us * Grain /\ ts * Grain \in Int /\ us * Grain \in Int
      BY <1>1, <1>2, <1>3, <1>6
    <2>2. B + (ts * Grain) < t + Grain
      BY <1>1, <1>6, <2>1, Ranges
    <2> QED
      BY <2>2 DEF B
  <1>7. CASE t >= B + F
    <2>1. ts * Grain <= rs * Grain /\ ts * Grain \in Int /\ rs * Grain \in Int
      BY <1>1, <1>2, <1>3
    <2>2. B + (ts * Grain) < t + Grain
      BY <1>1, <1>7, <2>1, Ranges
    <2> QED
      BY <2>2 DEF B
  <1> QED
    BY <1>1, <1>5, <1>6, <1>7

(***************************************************************************)
(* The I/O thread                                                          *)
(***************************************************************************)

(* The base is behind the clock, and the members that follow from it are   *)
(* those that reset_timer_base() computes.                                 *)
BaseFits == /\ now \in Nat /\ base \in Int
            /\ (base + Past) * Nanos <= now
            /\ max_time = base + FullRange
            /\ reindex_due = Reindex(base)

TimersFit == /\ DOMAIN due \subseteq started /\ started \subseteq Timers
             /\ \A t \in DOMAIN due : due[t] \in DueTimes

(* Until the base moves, the loop's timestamp is one that the clock has    *)
(* reached.                                                                *)
CurrentFits == pc = "timers" /\ ~reindexed => current <= Floor(base, now)

LoopInv == /\ BaseFits /\ TimersFit /\ CurrentFits
           /\ current \in Int
           /\ Loop!SleepsUntilDue /\ (pc = "asleep" => until \in Int)

LEMMA StampIs ==
    ASSUME max_time = base + FullRange, NEW t
    PROVE  Loop!Timestamp(t, TRUE) = Ceiling(base, t) /\ Loop!Timestamp(t, FALSE) = Floor(base, t)
  BY DEF Loop!Timestamp, Ceiling, Floor, Ends

LEMMA BaseBehind ==
    ASSUME NEW b \in Int, NEW n \in Int, (b + Past) * Nanos <= n
    PROVE  BaseTime(b) <= n /\ BaseTime(b) \in Int
  <1>1. (b + Past) * Nanos = (b * Nanos) + (Past * Nanos) /\ b * Nanos \in Int /\ Past * Nanos \in Int
    BY Ranges, Products
  <1>2. Past * Nanos >= 0
    <2>1. \A x, y \in Nat : x * y \in Nat
      OBVIOUS
    <2> QED
      BY <2>1, Ranges
  <1> QED
    BY <1>1, <1>2 DEF BaseTime

(* What reset_timer_base() makes of the clock *)
LEMMA NewBaseFits ==
    ASSUME now \in Nat
    PROVE  /\ Loop!NewBase \in Int /\ (Loop!NewBase + Past) * Nanos <= now
           /\ Loop!NewMax = Loop!NewBase + FullRange
           /\ Loop!NewReindexDue = Reindex(Loop!NewBase)
  <1>1. /\ now \div Nanos \in Int /\ now = ((now \div Nanos) * Nanos) + (now % Nanos)
        /\ now % Nanos \in 0..(Nanos - 1) /\ (now \div Nanos) * Nanos \in Int
    BY Ranges, Division, Products
  <1>2. Loop!NewBase \in Int /\ Loop!NewBase + Past = now \div Nanos
    BY <1>1, Ranges DEF Loop!NewBase
  <1>3. (now \div Nanos) * Nanos <= now
    <2> DEFINE q == (now \div Nanos) * Nanos
    <2> HIDE DEF q
    <2> QED
      BY <1>1, Ranges DEF q
  <1> QED
    BY <1>2, <1>3 DEF Loop!NewMax, Loop!NewReindexDue, FullRange, Reindex, HalfRange

LEMMA LoopInit == Init => LoopInv
  <1> SUFFICES ASSUME Init PROVE LoopInv
    OBVIOUS
  <1>1. /\ now = Start /\ base = Loop!NewBase /\ max_time = Loop!NewMax
        /\ reindex_due = Loop!NewReindexDue /\ started = {} /\ due = [t \in {} |-> 0]
        /\ pc = "check" /\ current = 0
    BY DEF Init, Loop!Init
  <1>2. now \in Nat
    BY <1>1, LoopAssumption
  <1>3. BaseFits
    BY <1>1, <1>2, NewBaseFits DEF BaseFits
  <1>4. TimersFit /\ CurrentFits /\ current \in Int /\ pc # "asleep"
    BY <1>1 DEF TimersFit, CurrentFits
  <1> QED
    BY <1>3, <1>4 DEF LoopInv, Loop!SleepsUntilDue

LEMMA CeilingIsInt ==
    ASSUME NEW b \in Int, NEW t \in Int
    PROVE  Ceiling(b, t) \in Int
  <1> DEFINE B == b * Nanos
             F == FullRange * Nanos
  <1>1. /\ B \in Int /\ F \in Int
        /\ t < B => Ceiling(b, t) = 0
        /\ t >= B + F => Ceiling(b, t) = MaxTimestamp
        /\ B <= t /\ t < B + F => Ceiling(b, t) \in Nat
    BY Granules
  <1>2. MaxTimestamp \in Int
    BY Ranges
  <1> HIDE DEF B, F
  <1> QED
    BY <1>1, <1>2

(* A timer that is executed has a timestamp that is neither after that of  *)
(* the reindex timer nor after the loop's, and no other is before it.      *)
LEMMA ExecutedStamp ==
    ASSUME LoopInv, NEW t, Loop!Execute(t)
    PROVE  /\ t \in DOMAIN due /\ due[t] \in Int /\ pc = "timers"
           /\ Ceiling(base, due[t]) < MaxTimestamp
           /\ Ceiling(base, due[t]) <= current
           /\ \A u \in DOMAIN due : /\ due[u] \in Int
                                   /\ Ceiling(base, due[t]) <= Ceiling(base, due[u])
  <1>1. /\ t \in DOMAIN due /\ pc = "timers" /\ current \in Int
        /\ \A u \in DOMAIN due : due[u] \in Int
        /\ base \in Int /\ max_time = base + FullRange /\ reindex_due = Reindex(base)
    <2>1. \A x \in DueTimes : x \in Int
      BY LoopAssumption
    <2> QED
      BY <2>1 DEF LoopInv, BaseFits, TimersFit, Loop!Execute, Loop!Queued
  <1>2. /\ Loop!DueTimestamp(t) = Ceiling(base, due[t])
        /\ Loop!ReindexTimestamp = Ceiling(base, Reindex(base))
        /\ \A u : Loop!DueTimestamp(u) = Ceiling(base, due[u])
    BY <1>1, StampIs DEF Loop!DueTimestamp, Loop!ReindexTimestamp
  <1>3. /\ Ceiling(base, due[t]) <= Ceiling(base, Reindex(base))
        /\ Ceiling(base, due[t]) <= current
        /\ \A u \in DOMAIN due : Ceiling(base, due[t]) <= Ceiling(base, due[u])
    BY <1>1, <1>2 DEF Loop!Execute, Loop!IsEarliest, Loop!Queued
  <1>4. Ceiling(base, due[t]) \in Int
    BY <1>1, CeilingIsInt
  <1>5. Ceiling(base, due[t]) < MaxTimestamp
    <2>1. /\ Ceiling(base, Reindex(base)) \in Nat
          /\ Ceiling(base, Reindex(base)) < MaxTimestamp
      BY <1>1, ReindexBeforeLast
    <2>2. MaxTimestamp \in Int
      BY Ranges
    <2> QED
      BY <1>3, <1>4, <2>1, <2>2
  <1> QED
    BY <1>1, <1>3, <1>5

LEMMA LoopStep == LoopInv /\ Loop!Next => LoopInv'
  <1> SUFFICES ASSUME LoopInv, Loop!Next PROVE LoopInv'
    OBVIOUS
  <1>1. /\ now \in Nat /\ base \in Int /\ (base + Past) * Nanos <= now
        /\ max_time = base + FullRange /\ reindex_due = Reindex(base)
        /\ BaseTime(base) <= now /\ BaseTime(base) \in Int /\ (base + Past) * Nanos \in Int
    <2>1. /\ now \in Nat /\ base \in Int /\ (base + Past) * Nanos <= now
          /\ max_time = base + FullRange /\ reindex_due = Reindex(base)
      BY DEF LoopInv, BaseFits
    <2>2. now \in Int /\ base + Past \in Int
      BY <2>1, Ranges
    <2>3. (base + Past) * Nanos \in Int
      BY <2>2, Ranges, Products
    <2> QED
      BY <2>1, <2>2, <2>3, BaseBehind
  <1>2. CASE Loop!Tick
    <2>1. PICK d \in Nat : now' = now + d
      BY <1>2, LoopAssumption DEF Loop!Tick
    <2>2. /\ UNCHANGED <<base, max_time, reindex_due>>
          /\ UNCHANGED <<started, due, pc, current, until, reindexed>>
      BY <1>2 DEF Loop!Tick, Loop!baseVars
    <2>3. now' \in Nat /\ now <= now'
      BY <1>1, <2>1
    <2>4. BaseFits'
      BY <1>1, <2>2, <2>3 DEF BaseFits
    <2>5. CurrentFits'
      <3>1. Floor(base, now) <= Floor(base, now') /\ Floor(base, now') \in Int
        BY <1>1, <2>3, StampsGrow
      <3>2. Floor(base, now) \in Int
        BY <1>1, StampsGrow
      <3> QED
        BY <2>2, <3>1, <3>2 DEF LoopInv, CurrentFits
    <2>6. Loop!SleepsUntilDue'
      <3> SUFFICES ASSUME pc = "asleep", NEW t \in DOMAIN due
                   PROVE  until <= now' \/ until < due[t] + Grain
        BY <2>2 DEF Loop!SleepsUntilDue, Loop!Queued
      <3> QED
        BY <1>1, <2>3 DEF LoopInv, Loop!SleepsUntilDue, Loop!Queued
    <2> QED
      BY <2>2, <2>4, <2>5, <2>6 DEF LoopInv, TimersFit
  <1>3. CASE Loop!CheckTimers
    <2>1. /\ pc' = "timers" /\ current' = Floor(base, now)
          /\ UNCHANGED <<now, base, max_time, reindex_due, started, due, until>>
      BY <1>1, <1>3, StampIs DEF Loop!CheckTimers, Loop!baseVars
    <2>2. current' \in Int
      BY <1>1, <2>1, StampsGrow
    <2> QED
      BY <2>1, <2>2 DEF LoopInv, BaseFits, TimersFit, CurrentFits, Loop!SleepsUntilDue
  <1>4. CASE Loop!ResetTimerBase
    <2>1. /\ base' = Loop!NewBase /\ max_time' = Loop!NewMax /\ reindex_due' = Loop!NewReindexDue
          /\ reindexed' = TRUE /\ pc' = "timers"
          /\ UNCHANGED <<now, started, due, current>>
      BY <1>4 DEF Loop!ResetTimerBase
    <2>2. BaseFits'
      BY <1>1, <2>1, NewBaseFits DEF BaseFits
    <2> QED
      BY <2>1, <2>2 DEF LoopInv, TimersFit, CurrentFits, Loop!SleepsUntilDue
  <1>5. CASE Loop!TimersDone \/ Loop!PollAgain \/ Loop!WakeUp
    <2>1. /\ pc' \in {"poll", "check"}
          /\ UNCHANGED <<now, base, max_time, reindex_due, started, due, current>>
      BY <1>5 DEF Loop!TimersDone, Loop!PollAgain, Loop!WakeUp, Loop!baseVars
    <2> QED
      BY <2>1 DEF LoopInv, BaseFits, TimersFit, CurrentFits, Loop!SleepsUntilDue
  <1>6. CASE Loop!Sleep
    <2>1. /\ pc' = "asleep"
          /\ UNCHANGED <<now, base, max_time, reindex_due, started, due, current>>
      BY <1>6 DEF Loop!Sleep, Loop!baseVars
    <2>2. \A t \in DOMAIN due : due[t] \in Int
      <3>1. \A x \in DueTimes : x \in Int
        BY LoopAssumption
      <3> QED
        BY <3>1 DEF LoopInv, TimersFit
    <2>3. /\ Loop!ReindexTimestamp = Ceiling(base, Reindex(base))
          /\ \A t : Loop!DueTimestamp(t) = Ceiling(base, due[t])
      BY <1>1, StampIs DEF Loop!DueTimestamp, Loop!ReindexTimestamp
    <2>4. PICK ts \in {Loop!ReindexTimestamp} \cup {Loop!DueTimestamp(t) : t \in Loop!Queued} :
              Loop!IsEarliest(ts) /\ until' = BaseTime(base) + (ts * Grain)
      BY <1>6 DEF Loop!Sleep, BaseTime
    <2>5. ts \in Int
      <3>1. \A x \in Int : Ceiling(base, x) \in Int
        BY <1>1, CeilingIsInt
      <3>2. Reindex(base) \in Int
        BY <1>1, ReindexBeforeLast
      <3> QED
        BY <2>2, <2>3, <2>4, <3>1, <3>2 DEF Loop!Queued
    <2>6. until' \in Int
      <3>1. ts * Grain \in Int
        BY <2>5, Ranges, Products
      <3> QED
        BY <1>1, <2>4, <3>1
    <2>7. ts <= Ceiling(base, Reindex(base))
      BY <2>3, <2>4 DEF Loop!IsEarliest
    <2>8. ASSUME NEW t \in DOMAIN due PROVE until' <= now \/ until' < due[t] + Grain
      <3>1. ts <= Ceiling(base, due[t])
        BY <2>3, <2>4 DEF Loop!IsEarliest, Loop!Queued
      <3> QED
        BY <1>1, <2>2, <2>4, <2>5, <2>7, <3>1, NotLate
    <2>9. Loop!SleepsUntilDue'
      BY <2>1, <2>8 DEF Loop!SleepsUntilDue, Loop!Queued
    <2> QED
      BY <2>1, <2>6, <2>9 DEF LoopInv, BaseFits, TimersFit, CurrentFits
  <1>7. ASSUME NEW t \in Timers, Loop!Execute(t)
        PROVE  LoopInv'
    <2>1. /\ pc' = "timers" /\ due' = [u \in DOMAIN due \ {t} |-> due[u]]
          /\ UNCHANGED <<now, base, max_time, reindex_due, started, current, reindexed>>
          /\ pc = "timers"
      BY <1>7 DEF Loop!Execute, Loop!baseVars, Loop!Queued
    <2>2. TimersFit'
      BY <2>1 DEF LoopInv, TimersFit
    <2> QED
      BY <2>1, <2>2 DEF LoopInv, BaseFits, CurrentFits, Loop!SleepsUntilDue
  <1>8. ASSUME NEW t \in Timers, NEW time \in DueTimes, Loop!ScheduleAtLocal(t, time)
        PROVE  LoopInv'
    <2>1. /\ pc # "asleep" /\ started' = started \cup {t}
          /\ due' = [u \in DOMAIN due \cup {t} |-> IF u = t THEN time ELSE due[u]]
          /\ UNCHANGED <<now, base, max_time, reindex_due, pc, current, reindexed>>
      BY <1>8 DEF Loop!ScheduleAtLocal, Loop!baseVars, Loop!Queued
    <2>2. TimersFit'
      BY <2>1 DEF LoopInv, TimersFit
    <2> QED
      BY <2>1, <2>2 DEF LoopInv, BaseFits, CurrentFits, Loop!SleepsUntilDue
  <1> QED
    BY <1>2, <1>3, <1>4, <1>5, <1>6, <1>7, <1>8 DEF Loop!Next

LEMMA LoopInvHolds == Spec => []LoopInv
  <1>1. LoopInv /\ [Next]_vars => LoopInv'
    <2> SUFFICES ASSUME LoopInv, [Next]_vars PROVE LoopInv'
      OBVIOUS
    <2>1. CASE UNCHANGED loopVars
      BY <2>1 DEF loopVars, LoopInv, BaseFits, TimersFit, CurrentFits,
         Loop!SleepsUntilDue, Loop!Queued
    <2>2. CASE Loop!Next
      BY <2>2, LoopStep
    <2> QED
      BY <2>1, <2>2 DEF Next, vars
  <1> QED
    BY <1>1, LoopInit, PTL DEF Spec

(* The I/O thread does not sleep until later than a granule after the time *)
(* that any of its timers is due at.                                       *)
LEMMA LoopSleepsUntilDue == Spec => []Loop!SleepsUntilDue
  <1>1. LoopInv => Loop!SleepsUntilDue
    BY DEF LoopInv
  <1> QED
    BY <1>1, LoopInvHolds, PTL

(* No timer runs early, but in a round where the base moved.               *)
LEMMA TimersAreNotEarly == Spec => Loop!EarlyOnlyAfterReindex
  <1>1. LoopInv /\ [Next]_vars =>
            [\A t \in Timers : Loop!Runs(t) => now >= due[t] \/ reindexed]_(Loop!vars)
    <2> SUFFICES ASSUME LoopInv, [Next]_vars, ~(UNCHANGED loopVars),
                        NEW t \in Timers, Loop!Runs(t), ~reindexed
                 PROVE  now >= due[t]
      BY DEF Loop!vars, loopVars
    <2>1. Loop!Next
      BY DEF Next, vars
    <2>2. t \in DOMAIN due /\ t \notin DOMAIN due'
      BY DEF Loop!Runs, Loop!Queued
    <2>3. Loop!Execute(t)
      BY <2>1, <2>2 DEF Loop!Next, Loop!Tick, Loop!CheckTimers, Loop!ResetTimerBase,
            Loop!TimersDone, Loop!PollAgain, Loop!Sleep, Loop!WakeUp, Loop!Execute,
            Loop!ScheduleAtLocal, Loop!Queued
    <2>4. /\ due[t] \in Int /\ pc = "timers" /\ Ceiling(base, due[t]) < MaxTimestamp
          /\ Ceiling(base, due[t]) <= current
      BY <2>3, ExecutedStamp
    <2>5. /\ now \in Int /\ base \in Int /\ (base + Past) * Nanos <= now
          /\ current \in Int /\ current <= Floor(base, now)
      BY <2>4 DEF LoopInv, BaseFits, CurrentFits
    <2>6. BaseTime(base) <= now /\ Floor(base, now) \in Int
      <3>1. BaseTime(base) <= now
        BY <2>5, BaseBehind
      <3> QED
        BY <2>5, <3>1, StampsGrow
    <2>7. Ceiling(base, due[t]) \in Int
      BY <2>4, <2>5, CeilingIsInt
    <2>8. Ceiling(base, due[t]) <= Floor(base, now)
      BY <2>4, <2>5, <2>6, <2>7
    <2> QED
      BY <2>4, <2>5, <2>6, <2>8, NotEarly
  <1> QED
    BY <1>1, LoopInvHolds, PTL DEF Spec, Loop!EarlyOnlyAfterReindex

(* A timer does not overtake one that was due a granule earlier, unless    *)
(* neither is due after the base.                                          *)
LEMMA TimersRunInOrder == Spec => Loop!RunsInOrder
  <1>1. LoopInv /\ [Next]_vars =>
            [\A t \in Timers : \A u \in Loop!Queued \ {t} :
                 Loop!Runs(t) => \/ due[t] < due[u] + Grain
                                 \/ due[t] <= base * Nanos
                                 \/ reindexed]_(Loop!vars)
    <2> SUFFICES ASSUME LoopInv, [Next]_vars, ~(UNCHANGED loopVars),
                        NEW t \in Timers, NEW u \in DOMAIN due, Loop!Runs(t)
                 PROVE  due[t] < due[u] + Grain \/ due[t] <= base * Nanos
      BY DEF Loop!vars, loopVars, Loop!Queued
    <2>1. Loop!Next
      BY DEF Next, vars
    <2>2. t \in DOMAIN due /\ t \notin DOMAIN due'
      BY DEF Loop!Runs, Loop!Queued
    <2>3. Loop!Execute(t)
      BY <2>1, <2>2 DEF Loop!Next, Loop!Tick, Loop!CheckTimers, Loop!ResetTimerBase,
            Loop!TimersDone, Loop!PollAgain, Loop!Sleep, Loop!WakeUp, Loop!Execute,
            Loop!ScheduleAtLocal, Loop!Queued
    <2>4. /\ due[t] \in Int /\ due[u] \in Int /\ Ceiling(base, due[t]) < MaxTimestamp
          /\ Ceiling(base, due[t]) <= Ceiling(base, due[u])
      BY <2>3, ExecutedStamp
    <2> QED
      <3>1. base \in Int
        BY DEF LoopInv, BaseFits
      <3>2. due[t] < due[u] + Grain \/ due[t] <= BaseTime(base)
        BY <2>4, <3>1, InOrder
      <3> QED
        BY <3>2 DEF BaseTime
  <1> QED
    BY <1>1, LoopInvHolds, PTL DEF Spec, Loop!RunsInOrder

(* The I/O thread sleeps over no timer; and but in a round where the base  *)
(* moved, no timer runs before its time, nor before one that was due a     *)
(* granule earlier, if it was due after the base.                          *)
THEOREM TimersAreAlwaysOnTime == Spec => TimersAreOnTime
  BY LoopSleepsUntilDue, TimersAreNotEarly, TimersRunInOrder DEF TimersAreOnTime

(***************************************************************************)
(* The bitset                                                              *)
(***************************************************************************)

(* A set of natural numbers has a least one.                               *)
LEMMA LeastNumber ==
    ASSUME NEW S \in SUBSET Nat, S # {}
    PROVE  \E m \in S : \A n \in S : m <= n
  <1> DEFINE R == {p \in Nat \X Nat : p[1] < p[2]}
  <1>1. IsWellFoundedOn(R, Nat)
    BY NatLessThanWellFounded DEF OpToRel
  <1>2. \A m, n \in Nat : <<m, n>> \in R <=> m < n
    OBVIOUS
  <1> HIDE DEF R
  <1>3. \E m \in S : \A n \in S : ~ (<<n, m>> \in R)
    BY <1>1, WFMin
  <1>4. PICK m \in S : \A n \in S : ~ (<<n, m>> \in R)
    BY <1>3
  <1>5. ASSUME NEW n \in S PROVE m <= n
    <2>1. m \in Nat /\ n \in Nat /\ ~(n < m)
      BY <1>2, <1>4
    <2> QED
      BY <2>1
  <1> QED
    BY <1>5

LEMMA MinIsLeast ==
    ASSUME NEW S \in SUBSET Nat, S # {}
    PROVE  /\ Bits!Min(S) \in S /\ \A n \in S : Bits!Min(S) <= n
           /\ \A m \in S : (\A n \in S : m <= n) => Bits!Min(S) = m
  <1>1. Bits!Min(S) \in S /\ \A n \in S : Bits!Min(S) <= n
    BY LeastNumber DEF Bits!Min
  <1>2. ASSUME NEW m \in S, \A n \in S : m <= n
        PROVE  Bits!Min(S) = m
    <2>1. m \in Nat /\ Bits!Min(S) \in Nat /\ m <= Bits!Min(S) /\ Bits!Min(S) <= m
      BY <1>1, <1>2
    <2> QED
      BY <2>1
  <1> QED
    BY <1>1, <1>2

Chunks == 0..(Bits!chunk_count - 1)
Chunk == 0..(ChunkBits - 1)

BitsInv == /\ count \in Nat /\ chunks \in [Chunks -> SUBSET Chunk]
           /\ \A i \in Chunks : \A b \in chunks[i] : (i * ChunkBits) + b < count

(* An index is that of a chunk and of a bit in it.                         *)
LEMMA Index ==
    /\ \A x \in Nat : /\ x \div ChunkBits \in Nat /\ x % ChunkBits \in Chunk
                      /\ x = ((x \div ChunkBits) * ChunkBits) + (x % ChunkBits)
    /\ \A i \in Nat : \A b \in Chunk :
           /\ (i * ChunkBits) + b \in Nat
           /\ ((i * ChunkBits) + b) \div ChunkBits = i
           /\ ((i * ChunkBits) + b) % ChunkBits = b
    /\ ChunkBits \in Nat \ {0}
  <1>1. ChunkBits \in Nat \ {0}
    BY BitsAssumption
  <1>2. \A x, y \in Nat : x * y \in Nat
    OBVIOUS
  <1>3. ASSUME NEW x \in Nat
        PROVE  /\ x \div ChunkBits \in Nat /\ x % ChunkBits \in Chunk
               /\ x = ((x \div ChunkBits) * ChunkBits) + (x % ChunkBits)
    <2> DEFINE q == x \div ChunkBits
               r == x % ChunkBits
    <2>1. q \in Int /\ r \in 0..(ChunkBits - 1) /\ x = (q * ChunkBits) + r
      BY <1>1, Division
    <2>2. q < 0 => (q * ChunkBits) + ChunkBits <= 0
      <3>1. q < 0 => (q * ChunkBits) + ChunkBits <= 0 * ChunkBits
        BY <1>1, <2>1, Products
      <3> QED
        BY <1>1, <3>1
    <2>3. q * ChunkBits \in Int
      BY <1>1, <2>1, Products
    <2> HIDE DEF q, r
    <2>4. q \in Nat
      BY <1>1, <2>1, <2>2, <2>3
    <2> QED
      BY <2>1, <2>4 DEF q, r, Chunk
  <1>4. ASSUME NEW i \in Nat, NEW b \in Chunk
        PROVE  /\ (i * ChunkBits) + b \in Nat
               /\ ((i * ChunkBits) + b) \div ChunkBits = i
               /\ ((i * ChunkBits) + b) % ChunkBits = b
    <2> DEFINE x == (i * ChunkBits) + b
               q == x \div ChunkBits
               r == x % ChunkBits
    <2>1. x \in Nat /\ i * ChunkBits \in Int
      BY <1>1, <1>2 DEF Chunk
    <2>2. q \in Nat /\ r \in 0..(ChunkBits - 1) /\ x = (q * ChunkBits) + r /\ q * ChunkBits \in Int
      <3> HIDE DEF x
      <3> QED
        BY <1>1, <1>3, <2>1, Products DEF Chunk
    <2>3. /\ q < i => (q * ChunkBits) + ChunkBits <= i * ChunkBits
          /\ i < q => (i * ChunkBits) + ChunkBits <= q * ChunkBits
      <3> HIDE DEF q
      <3> QED
        BY <1>1, <2>2, Products
    <2>4. x = (i * ChunkBits) + b /\ b \in 0..(ChunkBits - 1)
      BY DEF Chunk
    <2> HIDE DEF x, q, r
    <2> QED
      BY <1>1, <2>1, <2>2, <2>3, <2>4 DEF x, q, r
  <1> QED
    BY <1>1, <1>3, <1>4

(* The chunks are the whole ones, and one that is not if there is a rest.  *)
LEMMA ChunkCounts ==
    ASSUME count \in Nat
    PROVE  LET w == Bits!whole_chunk_count
               p == count % ChunkBits
           IN /\ w \in Nat /\ p \in Chunk /\ count = (w * ChunkBits) + p
              /\ Bits!chunk_count = IF p = 0 THEN w ELSE w + 1
              /\ Bits!HasPartialChunk <=> p # 0
  <1> DEFINE w == count \div ChunkBits
             p == count % ChunkBits
             K == (count + ChunkBits - 1) \div ChunkBits
  <1>1. w \in Nat /\ p \in Chunk /\ count = (w * ChunkBits) + p /\ ChunkBits \in Nat \ {0}
    BY Index
  <1>2. K = IF p = 0 THEN w ELSE w + 1
    <2>1. w * ChunkBits \in Int /\ (w + 1) * ChunkBits = (w * ChunkBits) + ChunkBits
      <3>1. 1 * ChunkBits = ChunkBits
        BY <1>1
      <3> HIDE DEF w
      <3> QED
        BY <1>1, <3>1, Products
    <2> HIDE DEF w, p
    <2>2. CASE p = 0
      <3>1. count + ChunkBits - 1 = (w * ChunkBits) + (ChunkBits - 1) /\ ChunkBits - 1 \in Chunk
        BY <1>1, <2>1, <2>2 DEF Chunk
      <3> QED
        BY <1>1, <2>2, <3>1, Index
    <2>3. CASE p # 0
      <3>1. count + ChunkBits - 1 = ((w + 1) * ChunkBits) + (p - 1) /\ p - 1 \in Chunk /\ w + 1 \in Nat
        BY <1>1, <2>1, <2>3 DEF Chunk
      <3> QED
        BY <1>1, <2>3, <3>1, Index
    <2> QED
      BY <2>2, <2>3
  <1>3. Bits!whole_chunk_count = w /\ Bits!chunk_count = K
    BY DEF Bits!whole_chunk_count, Bits!chunk_count
  <1> HIDE DEF w, K
  <1> QED
    BY <1>1, <1>2, <1>3 DEF Bits!HasPartialChunk

Ones == Bits!Ones

(* An index is one of a bit that is one if its chunk says so.              *)
LEMMA OnesAre ==
    ASSUME BitsInv, NEW i \in Chunks, NEW b \in chunks[i]
    PROVE  (i * ChunkBits) + b \in Ones /\ b \in Chunk /\ i \in Nat
  <1>1. i \in Nat /\ b \in Chunk /\ (i * ChunkBits) + b < count /\ count \in Nat
    BY DEF BitsInv, Chunks
  <1>2. /\ (i * ChunkBits) + b \in Nat
        /\ ((i * ChunkBits) + b) \div ChunkBits = i
        /\ ((i * ChunkBits) + b) % ChunkBits = b
    BY <1>1, Index
  <1> DEFINE x == (i * ChunkBits) + b
  <1>3. x \in Nat /\ x < count /\ x \div ChunkBits = i /\ x % ChunkBits = b
    BY <1>1, <1>2
  <1> HIDE DEF x
  <1>4. x \in Ones
    BY <1>1, <1>3 DEF Ones, Bits!Ones
  <1> QED
    BY <1>1, <1>4 DEF x

LEMMA OnesOnly ==
    ASSUME BitsInv, NEW x \in Ones
    PROVE  LET i == x \div ChunkBits
               b == x % ChunkBits
           IN /\ i \in Chunks /\ b \in chunks[i] /\ b \in Chunk
              /\ x = (i * ChunkBits) + b /\ x \in 0..(count - 1)
  <1> DEFINE i == x \div ChunkBits
             b == x % ChunkBits
  <1>1. x \in 0..(count - 1) /\ b \in chunks[i] /\ count \in Nat /\ x \in Nat
    BY DEF Ones, Bits!Ones, BitsInv
  <1>2. i \in Nat /\ b \in Chunk /\ x = (i * ChunkBits) + b
    BY <1>1, Index
  <1>3. i \in Chunks
    <2> DEFINE w == Bits!whole_chunk_count
               p == count % ChunkBits
               K == Bits!chunk_count
    <2>1. w \in Nat /\ p \in Chunk /\ count = (w * ChunkBits) + p /\ K = IF p = 0 THEN w ELSE w + 1
      BY <1>1, ChunkCounts
    <2>2. /\ w < i => (w * ChunkBits) + ChunkBits <= i * ChunkBits
          /\ w * ChunkBits \in Int /\ i * ChunkBits \in Int
          /\ ChunkBits \in Nat \ {0}
      <3> HIDE DEF i, w
      <3> QED
        BY <1>2, <2>1, Index, Products
    <2>3. i <= w /\ (p = 0 => i # w)
      <3> HIDE DEF w, p, i, b
      <3> QED
        BY <1>1, <1>2, <2>1, <2>2 DEF Chunk
    <2> HIDE DEF w, p, i
    <2> QED
      BY <1>2, <2>1, <2>3 DEF Chunks, K
  <1> QED
    BY <1>1, <1>2, <1>3

LEMMA ScanFindsFirst == BitsInv => Bits!countr_zero = Bits!Min(Ones \cup {count})
  <1> SUFFICES ASSUME BitsInv PROVE Bits!countr_zero = Bits!Min(Ones \cup {count})
    OBVIOUS
  <1> DEFINE w == Bits!whole_chunk_count
             p == count % ChunkBits
             K == Bits!chunk_count
             m == Bits!countr_zero
             last == K - 1
             earlier == {i \in 0..(last - 1) : chunks[i] # {}}
             first == IF earlier # {} THEN Bits!Min(earlier) ELSE last
             padding == IF first = last /\ Bits!HasPartialChunk
                        THEN Bits!all_ones_chunk \ Bits!last_chunk_mask ELSE {}
             scanned == chunks[first] \cup padding
             z == Bits!CountrZero(scanned)
  <1>1. /\ count \in Nat /\ chunks \in [Chunks -> SUBSET Chunk]
        /\ \A i \in Chunks : \A b \in chunks[i] : (i * ChunkBits) + b < count
    BY DEF BitsInv
  <1>2. /\ w \in Nat /\ p \in Chunk /\ count = (w * ChunkBits) + p
        /\ K = (IF p = 0 THEN w ELSE w + 1) /\ (Bits!HasPartialChunk <=> p # 0)
    BY <1>1, ChunkCounts
  <1>3. ChunkBits \in Nat \ {0} /\ Chunks = 0..(K - 1)
    BY Index DEF Chunks
  <1>4. Ones \cup {count} \subseteq Nat
    BY <1>1 DEF Ones, Bits!Ones
  <1>5. SUFFICES m \in Ones \cup {count} /\ \A y \in Ones \cup {count} : m <= y
    <2> DEFINE S == Ones \cup {count}
    <2>1. S \in SUBSET Nat /\ S # {}
      BY <1>4
    <2> HIDE DEF m, S
    <2> QED
      BY <1>5, <2>1, MinIsLeast DEF m, S
  <1>6. CASE count = 0
    <2>1. m = 0
      BY <1>6 DEF Bits!countr_zero
    <2>2. Ones = {}
      BY <1>6 DEF Ones, Bits!Ones
    <2> QED
      BY <1>6, <2>1, <2>2
  <1>7. CASE count # 0
    <2>1. m = (first * ChunkBits) + z
      BY <1>7 DEF Bits!countr_zero
    <2>2. K \in Nat /\ K >= 1
      <3> HIDE DEF w, p, K
      <3>1. w = 0 => w * ChunkBits = 0
        BY <1>3
      <3> QED
        BY <1>1, <1>2, <1>3, <1>7, <3>1 DEF Chunk
    <2>3. last \in Nat /\ last \in Chunks /\ last = K - 1
      <3> HIDE DEF K
      <3> QED
        BY <1>3, <2>2
    <2>4. earlier \in SUBSET Nat /\ \A i \in earlier : i < last /\ i \in Chunks /\ chunks[i] # {}
      <3> HIDE DEF K
      <3> QED
        BY <1>3, <2>2
    <2>5. /\ first \in Chunks /\ first \in Nat /\ first <= last
          /\ first # last => chunks[first] # {}
          /\ \A i \in Chunks : i < first => chunks[i] = {}
      <3>1. CASE earlier = {}
        <4>1. first = last
          BY <3>1
        <4>2. \A i \in Chunks : i < last => i \in 0..(last - 1)
          <5> HIDE DEF K
          <5> QED
            BY <1>3, <2>2
        <4> QED
          BY <2>3, <3>1, <4>1, <4>2
      <3>2. CASE earlier # {}
        <4>1. first \in earlier /\ \A i \in earlier : first <= i
          <5> HIDE DEF earlier
          <5> QED
            BY <2>4, <3>2, MinIsLeast
        <4>2. \A i \in Chunks : i < first => i \in 0..(last - 1)
          <5> HIDE DEF first, K, earlier
          <5> QED
            BY <1>3, <2>2, <2>4, <4>1
        <4>3. ASSUME NEW i \in Chunks, i < first, chunks[i] # {}
              PROVE  FALSE
          <5>1. i \in earlier
            BY <4>2, <4>3
          <5>2. first <= i
            BY <4>1, <5>1
          <5>3. i \in Nat /\ first \in Nat
            BY <2>4, <4>1, <5>1
          <5> HIDE DEF first
          <5> QED
            BY <4>3, <5>2, <5>3
        <4>4. first \in Chunks /\ first \in Nat /\ first < last /\ chunks[first] # {}
          BY <2>4, <4>1
        <4> HIDE DEF first, last
        <4> QED
          BY <2>3, <4>3, <4>4
      <3> QED
        BY <3>1, <3>2
    <2>6. /\ padding \subseteq Chunk
          /\ first # last \/ p = 0 => padding = {}
          /\ first = last /\ p # 0 => padding = {b \in Chunk : b >= p}
      <3>1. Bits!all_ones_chunk = Chunk /\ Bits!last_chunk_mask = {b \in Chunk : b < p}
        BY DEF Bits!all_ones_chunk, Bits!last_chunk_mask, Chunk
      <3>2. \A b \in Chunk : ~(b < p) <=> b >= p
        <4> HIDE DEF p
        <4> QED
          BY <1>2 DEF Chunk
      <3> HIDE DEF first, last, p
      <3> QED
        BY <1>2, <3>1, <3>2
    <2>7. scanned \subseteq Chunk /\ chunks[first] \subseteq Chunk
      <3> HIDE DEF first, padding
      <3> QED
        BY <1>1, <2>5, <2>6
    <2>8. /\ z \in scanned \cup {ChunkBits} /\ \A b \in scanned \cup {ChunkBits} : z <= b
      <3> DEFINE S == scanned \cup {ChunkBits}
      <3> HIDE DEF scanned
      <3>1. S \in SUBSET Nat /\ S # {}
        BY <1>3, <2>7 DEF Chunk
      <3>2. z = Bits!Min(S)
        BY DEF Bits!CountrZero
      <3> HIDE DEF S
      <3>3. z \in S /\ \A b \in S : z <= b
        BY <3>1, <3>2, MinIsLeast
      <3> QED
        BY <3>3 DEF S
    <2> HIDE DEF z, first, last, w, p, K, earlier, padding, m
    <2>9. z \in Nat /\ z <= ChunkBits /\ m \in Nat /\ first * ChunkBits \in Nat
      <3>1. z \in Nat /\ z <= ChunkBits
        BY <1>3, <2>7, <2>8 DEF Chunk
      <3>2. \A a, b \in Nat : a * b \in Nat
        OBVIOUS
      <3>3. first * ChunkBits \in Nat
        BY <1>3, <2>5, <3>2
      <3> QED
        BY <2>1, <3>1, <3>3
    <2>10. z \in chunks[first] => m \in Ones
      BY <2>1, <2>5, OnesAre
    <2>11. m <= count /\ m \in Ones \cup {count}
      <3>1. m \in Ones => m <= count
        BY <1>1, <2>9 DEF Ones, Bits!Ones
      <3>2. CASE z \in chunks[first]
        BY <2>10, <3>1, <3>2
      <3>3. CASE z \notin chunks[first]
        <4>1. first = last
          <5>1. SUFFICES ASSUME first # last PROVE FALSE
            OBVIOUS
          <5>2. PICK b \in chunks[first] : TRUE
            BY <2>5, <5>1
          <5>3. b \in Chunk /\ z <= b /\ z = ChunkBits
            BY <2>6, <2>7, <2>8, <3>3, <5>1, <5>2
          <5> QED
            BY <1>3, <5>3 DEF Chunk
        <4>2. CASE p = 0
          <5>1. z = ChunkBits /\ first = w - 1
            BY <1>2, <2>3, <2>6, <2>8, <3>3, <4>1, <4>2
          <5>2. w = first + 1
            BY <1>2, <5>1
          <5>3. (first + 1) * ChunkBits = (first * ChunkBits) + ChunkBits
            <6>1. (first + 1) * ChunkBits = (first * ChunkBits) + (1 * ChunkBits)
              BY <1>3, <2>5, Products
            <6> QED
              BY <1>3, <6>1
          <5>4. m = count
            BY <1>2, <1>3, <2>1, <2>9, <4>2, <5>1, <5>2, <5>3
          <5> QED
            BY <1>1, <5>4
        <4>3. CASE p # 0
          <5>1. first = w
            BY <1>2, <2>3, <4>1, <4>3
          <5>2. p \in padding /\ z <= p
            <6>1. p \in padding
              BY <1>2, <2>6, <4>1, <4>3 DEF Chunk
            <6> QED
              BY <2>8, <6>1
          <5>3. z \in padding
            BY <1>2, <1>3, <2>8, <2>9, <3>3, <5>2 DEF Chunk
          <5>4. z = p
            BY <1>2, <2>6, <2>9, <4>1, <4>3, <5>2, <5>3 DEF Chunk
          <5>5. m = count
            BY <1>2, <2>1, <5>1, <5>4
          <5> QED
            BY <1>1, <5>5
        <4> QED
          BY <4>2, <4>3
      <3> QED
        BY <3>2, <3>3
    <2>12. ASSUME NEW y \in Ones PROVE m <= y
      <3> DEFINE i == y \div ChunkBits
                 b == y % ChunkBits
      <3>1. /\ i \in Chunks /\ b \in chunks[i] /\ b \in Chunk
            /\ y = (i * ChunkBits) + b
        BY OnesOnly
      <3> HIDE DEF i, b
      <3>2. i \in Nat /\ first <= i /\ i * ChunkBits \in Int
        <4>1. i \in Nat /\ i <= last
          BY <1>3, <2>2, <2>3, <3>1 DEF K
        <4>2. ~(i < first)
          BY <2>5, <3>1
        <4> QED
          BY <1>3, <2>5, <4>1, <4>2, Products
      <3>3. CASE i = first
        <4>1. z <= b
          BY <2>8, <3>1, <3>3
        <4> QED
          BY <2>1, <2>9, <3>1, <3>3, <4>1 DEF Chunk
      <3>4. CASE i # first
        <4>1. first < i /\ i <= last
          BY <1>3, <2>2, <2>3, <2>5, <3>1, <3>2, <3>4
        <4>2. (first * ChunkBits) + ChunkBits <= i * ChunkBits
          BY <1>3, <2>5, <3>2, <4>1, Products
        <4> QED
          BY <1>3, <2>1, <2>9, <3>1, <3>2, <4>2 DEF Chunk
      <3> QED
        BY <3>3, <3>4
    <2> QED
      BY <2>11, <2>12
  <1> QED
    BY <1>6, <1>7

LEMMA AllAndNone ==
    BitsInv => (Bits!all <=> Ones = 0..(count - 1)) /\ (Bits!none <=> Ones = {})
  <1> SUFFICES ASSUME BitsInv
               PROVE  (Bits!all <=> Ones = 0..(count - 1)) /\ (Bits!none <=> Ones = {})
    OBVIOUS
  <1> DEFINE w == Bits!whole_chunk_count
             p == count % ChunkBits
  <1>1. /\ count \in Nat /\ chunks \in [Chunks -> SUBSET Chunk] /\ DOMAIN chunks = Chunks
        /\ \A i \in Chunks : \A b \in chunks[i] : (i * ChunkBits) + b < count
    BY DEF BitsInv
  <1>2. /\ w \in Nat /\ p \in Chunk /\ count = (w * ChunkBits) + p
        /\ Bits!chunk_count = (IF p = 0 THEN w ELSE w + 1)
    BY <1>1, ChunkCounts
  <1>3. ChunkBits \in Nat \ {0} /\ w * ChunkBits \in Int
    BY <1>2, Index, Products
  <1>4. Bits!all_ones_chunk = Chunk /\ Bits!last_chunk_mask = {b \in Chunk : b < p}
    BY DEF Bits!all_ones_chunk, Bits!last_chunk_mask, Chunk
  <1> HIDE DEF w, p
  (* The mask has the bits of a chunk that belong to an index.             *)
  <1>5. ASSUME NEW i \in Chunks, NEW b \in Chunk
        PROVE  /\ i \in Nat /\ (i * ChunkBits) + b \in Nat
               /\ (i * ChunkBits) + b < count <=> (i < w \/ b < p)
    <2>1. i \in Nat /\ b \in 0..(ChunkBits - 1) /\ i <= w /\ (p = 0 => i < w)
      BY <1>2 DEF Chunks, Chunk
    <2>2. i * ChunkBits \in Int /\ (i < w => (i * ChunkBits) + ChunkBits <= w * ChunkBits)
      BY <1>2, <1>3, <2>1, Products
    <2>3. (i * ChunkBits) + b \in Nat
      BY <2>1, Index DEF Chunk
    <2>4. CASE i < w
      BY <1>2, <1>3, <2>1, <2>2, <2>3, <2>4 DEF Chunk
    <2>5. CASE i = w
      BY <1>2, <1>3, <2>1, <2>2, <2>3, <2>5 DEF Chunk
    <2> QED
      BY <1>2, <2>1, <2>3, <2>4, <2>5
  <1>6. Bits!all => Ones = 0..(count - 1)
    <2> SUFFICES ASSUME Bits!all, NEW x \in 0..(count - 1) PROVE x \in Ones
      BY DEF Ones, Bits!Ones
    <2> DEFINE i == x \div ChunkBits
               b == x % ChunkBits
    <2>1. x \in Nat /\ x < count
      BY <1>1
    <2>2. i \in Nat /\ b \in Chunk /\ x = (i * ChunkBits) + b
      BY <2>1, Index
    <2>3. i \in Chunks
      <3> HIDE DEF i, b
      <3>1. /\ w < i => (w * ChunkBits) + ChunkBits <= i * ChunkBits
            /\ i * ChunkBits \in Int
        BY <1>2, <1>3, <2>2, Products
      <3>2. i <= w /\ (p = 0 => i # w)
        BY <1>2, <1>3, <2>1, <2>2, <3>1 DEF Chunk
      <3> QED
        BY <1>2, <2>2, <3>2 DEF Chunks
    <2>4. i < w \/ b < p
      <3> HIDE DEF i, b
      <3> QED
        BY <1>5, <2>1, <2>2, <2>3
    <2>5. chunks[i] = IF i < w THEN Chunk ELSE {c \in Chunk : c < p}
      <3> HIDE DEF i
      <3> QED
        BY <1>1, <1>4, <2>3 DEF Bits!all, w
    <2>6. b \in chunks[i]
      <3> HIDE DEF i, b
      <3> QED
        BY <2>2, <2>4, <2>5
    <2> QED
      BY <2>6 DEF Ones, Bits!Ones
  <1>7. Ones = 0..(count - 1) => Bits!all
    <2> SUFFICES ASSUME Ones = 0..(count - 1), NEW i \in Chunks
                 PROVE  chunks[i] = IF i < w THEN Chunk ELSE {c \in Chunk : c < p}
      BY <1>1, <1>4 DEF Bits!all, w
    <2>1. ASSUME NEW b \in Chunk PROVE b \in chunks[i] <=> (i < w \/ b < p)
      <3> DEFINE x == (i * ChunkBits) + b
      <3>1. i \in Nat /\ x \in Nat /\ (x < count <=> (i < w \/ b < p))
        BY <1>5
      <3>2. x \div ChunkBits = i /\ x % ChunkBits = b
        BY <3>1, Index
      <3>3. b \in chunks[i] => x < count
        BY <1>1
      <3> HIDE DEF x
      <3>4. x < count => b \in chunks[i]
        BY <1>1, <3>1, <3>2 DEF Ones, Bits!Ones
      <3> QED
        BY <3>1, <3>3, <3>4
    <2> QED
      BY <1>1, <2>1
  <1>8. Bits!none <=> Ones = {}
    <2>1. Bits!none => Ones = {}
      <3> SUFFICES ASSUME Bits!none, NEW x \in Ones PROVE FALSE
        OBVIOUS
      <3> QED
        BY <1>1, OnesOnly DEF Bits!none
    <2>2. Ones = {} => Bits!none
      BY <1>1, OnesAre DEF Bits!none
    <2> QED
      BY <2>1, <2>2
  <1> QED
    BY <1>6, <1>7, <1>8

LEMMA BitsStep == BitsInv /\ Bits!Next => BitsInv'
  <1> SUFFICES ASSUME BitsInv, Bits!Next PROVE BitsInv'
    OBVIOUS
  <1>1. /\ count \in Nat /\ chunks \in [Chunks -> SUBSET Chunk] /\ DOMAIN chunks = Chunks
        /\ \A i \in Chunks : \A b \in chunks[i] : (i * ChunkBits) + b < count
    BY DEF BitsInv
  <1>2. count' = count /\ Chunks' = Chunks
    BY DEF Bits!Next, Chunks, Bits!chunk_count
  <1>3. ASSUME NEW f \in [Chunks -> SUBSET Chunk], chunks' = f,
               \A i \in Chunks : \A b \in f[i] : (i * ChunkBits) + b < count
        PROVE  BitsInv'
    BY <1>1, <1>2, <1>3 DEF BitsInv
  <1>4. ASSUME NEW index \in 0..(count - 1), Bits!set(index) \/ Bits!reset(index)
        PROVE  BitsInv'
    <2> DEFINE j == index \div ChunkBits
               c == index % ChunkBits
    <2>1. index \in Nat /\ index < count
      BY <1>1
    <2>2. j \in Nat /\ c \in Chunk /\ index = (j * ChunkBits) + c
      BY <2>1, Index
    <2>3. \/ chunks' = [chunks EXCEPT ![j] = @ \cup {c}]
          \/ chunks' = [chunks EXCEPT ![j] = @ \ {c}]
      BY <1>4 DEF Bits!set, Bits!reset
    <2> HIDE DEF j, c
    <2>4. chunks' \in [Chunks -> SUBSET Chunk]
      BY <1>1, <2>2, <2>3
    <2>5. ASSUME NEW i \in Chunks, NEW b \in chunks'[i]
          PROVE  (i * ChunkBits) + b < count
      <3>1. b \in chunks[i] \/ (i = j /\ b = c)
        BY <1>1, <2>3
      <3> QED
        BY <1>1, <2>1, <2>2, <3>1
    <2> QED
      BY <1>3, <2>4, <2>5
  <1>5. CASE Bits!reset_all
    BY <1>1, <1>2, <1>5 DEF Bits!reset_all, BitsInv
  <1>6. CASE Bits!set_all
    <2> DEFINE w == Bits!whole_chunk_count
               p == count % ChunkBits
    <2>1. Bits!all_ones_chunk = Chunk /\ Bits!last_chunk_mask = {b \in Chunk : b < p}
      BY DEF Bits!all_ones_chunk, Bits!last_chunk_mask, Chunk
    <2>2. chunks' = [i \in Chunks |-> IF i < w THEN Chunk ELSE {b \in Chunk : b < p}]
      BY <1>1, <1>6, <2>1 DEF Bits!set_all
    <2>3. /\ w \in Nat /\ p \in Chunk /\ count = (w * ChunkBits) + p
          /\ Bits!chunk_count = (IF p = 0 THEN w ELSE w + 1)
      BY <1>1, ChunkCounts
    <2>4. ChunkBits \in Nat \ {0} /\ w * ChunkBits \in Int
      BY <2>3, Index, Products
    <2> HIDE DEF w, p
    <2>5. chunks' \in [Chunks -> SUBSET Chunk]
      BY <2>2
    <2>6. ASSUME NEW i \in Chunks, NEW b \in chunks'[i]
          PROVE  (i * ChunkBits) + b < count
      <3>1. i \in Nat /\ b \in 0..(ChunkBits - 1) /\ i <= w /\ (i < w \/ b < p)
        BY <2>2, <2>3 DEF Chunks, Chunk
      <3>2. i * ChunkBits \in Int /\ (i < w => (i * ChunkBits) + ChunkBits <= w * ChunkBits)
        BY <2>3, <2>4, <3>1, Products
      <3>3. CASE i < w
        BY <2>3, <2>4, <3>1, <3>2, <3>3 DEF Chunk
      <3>4. CASE i = w
        BY <2>3, <2>4, <3>1, <3>2, <3>4 DEF Chunk
      <3> QED
        BY <2>3, <3>1, <3>3, <3>4
    <2> QED
      BY <1>3, <2>5, <2>6
  <1> QED
    BY <1>4, <1>5, <1>6 DEF Bits!Next

(* The scan finds the first bit that is one, or the size if there is none, *)
(* and all() and none() are right, whatever the sizes of the bitset and of *)
(* its chunks.                                                             *)
THEOREM BitsetFindsFirst == Spec => []Bits!FindsFirst
  <1>1. Init => BitsInv
    <2> SUFFICES ASSUME Init PROVE BitsInv
      OBVIOUS
    <2>1. count \in Nat /\ chunks = [i \in Chunks |-> {}]
      BY BitsAssumption DEF Init, Bits!Init, Chunks
    <2> QED
      BY <2>1 DEF BitsInv
  <1>2. BitsInv /\ [Next]_vars => BitsInv'
    <2> SUFFICES ASSUME BitsInv, [Next]_vars PROVE BitsInv'
      OBVIOUS
    <2>1. CASE UNCHANGED bitVars
      BY <2>1 DEF bitVars, BitsInv, Chunks, Bits!chunk_count
    <2>2. CASE Bits!Next
      BY <2>2, BitsStep
    <2> QED
      BY <2>1, <2>2 DEF Next, vars
  <1>3. BitsInv => Bits!FindsFirst
    BY ScanFindsFirst, AllAndNone DEF Bits!FindsFirst, Ones
  <1> QED
    BY <1>1, <1>2, <1>3, PTL DEF Spec
(***************************************************************************)
(* The lists                                                               *)
(***************************************************************************)

At(s, n) == IF n \in 1..Len(s) THEN s[n] ELSE List!Null

Pointers == [Items -> Items \cup {List!Null}]

(* The pointers nx and pv link the items of s, and nothing outside, from h *)
(* to t and back.                                                          *)
IsChain(nx, pv, s, h, t) ==
    /\ s \in Seq(Items)
    /\ \A m, n \in 1..Len(s) : s[m] = s[n] => m = n
    /\ h = At(s, 1) /\ t = At(s, Len(s))
    /\ \A n \in 1..Len(s) : nx[s[n]] = At(s, n + 1) /\ pv[s[n]] = At(s, n - 1)

LEMMA ChainIs ==
    ASSUME NEW nx, NEW pv, NEW s, NEW h, NEW t, IsChain(nx, pv, s, h, t)
    PROVE  /\ s \in Seq(Items) /\ Len(s) \in Nat
           /\ \A n \in 1..Len(s) : s[n] \in Items
           /\ \A m, n \in 1..Len(s) : s[m] = s[n] => m = n
           /\ s = <<>> => h = List!Null /\ t = List!Null
           /\ s # <<>> => /\ 1 \in 1..Len(s) /\ h = s[1] /\ h \in Items
                          /\ Len(s) \in 1..Len(s) /\ t = s[Len(s)] /\ t \in Items
           /\ \A n \in 1..Len(s) :
                 /\ nx[s[n]] = IF n = Len(s) THEN List!Null ELSE s[n + 1]
                 /\ pv[s[n]] = IF n = 1 THEN List!Null ELSE s[n - 1]
           /\ h = List!Null <=> s = <<>>
           /\ t = List!Null <=> s = <<>>
  <1>1. /\ s \in Seq(Items) /\ Len(s) \in Nat
        /\ \A n \in 1..Len(s) : s[n] \in Items
    BY DEF IsChain
  <1>2. s = <<>> => h = List!Null /\ t = List!Null
    BY DEF IsChain, At
  <1>3. s # <<>> => /\ 1 \in 1..Len(s) /\ h = s[1] /\ h \in Items
                    /\ Len(s) \in 1..Len(s) /\ t = s[Len(s)] /\ t \in Items
    <2> SUFFICES ASSUME s # <<>>
                 PROVE  1 \in 1..Len(s) /\ Len(s) \in 1..Len(s) /\ h = s[1] /\ t = s[Len(s)]
      BY <1>1
    <2>1. 1 \in 1..Len(s) /\ Len(s) \in 1..Len(s)
      BY <1>1
    <2> QED
      BY <2>1 DEF IsChain, At
  <1>4. ASSUME NEW n \in 1..Len(s)
        PROVE  /\ nx[s[n]] = IF n = Len(s) THEN List!Null ELSE s[n + 1]
               /\ pv[s[n]] = IF n = 1 THEN List!Null ELSE s[n - 1]
    <2>1. /\ n + 1 \in 1..Len(s) <=> n # Len(s)
          /\ n - 1 \in 1..Len(s) <=> n # 1
      BY <1>1
    <2> QED
      BY <2>1 DEF IsChain, At
  <1> QED
    BY <1>1, <1>2, <1>3, <1>4, ItemsAssumption DEF IsChain

LEMMA ChainMade ==
    ASSUME NEW nx, NEW pv, NEW s \in Seq(Items), s # <<>>,
           \A m, n \in 1..Len(s) : s[m] = s[n] => m = n,
           \A n \in 1..Len(s) :
                 /\ nx[s[n]] = IF n = Len(s) THEN List!Null ELSE s[n + 1]
                 /\ pv[s[n]] = IF n = 1 THEN List!Null ELSE s[n - 1]
    PROVE  IsChain(nx, pv, s, s[1], s[Len(s)])
  <1>1. Len(s) \in Nat /\ 1 \in 1..Len(s) /\ Len(s) \in 1..Len(s)
    OBVIOUS
  <1>2. ASSUME NEW n \in 1..Len(s)
        PROVE  nx[s[n]] = At(s, n + 1) /\ pv[s[n]] = At(s, n - 1)
    <2>1. /\ n + 1 \in 1..Len(s) <=> n # Len(s)
          /\ n - 1 \in 1..Len(s) <=> n # 1
      BY <1>1
    <2> QED
      BY <2>1 DEF At
  <1> QED
    BY <1>1, <1>2 DEF IsChain, At

LEMMA EmptyChain ==
    ASSUME NEW nx, NEW pv PROVE IsChain(nx, pv, <<>>, List!Null, List!Null)
  BY DEF IsChain, At

(* A chain stays one while only pointers of other items change.            *)
LEMMA ChainFrame ==
    ASSUME NEW nx, NEW pv, NEW s, NEW h, NEW t, IsChain(nx, pv, s, h, t),
           NEW nx2, NEW pv2,
           \A n \in 1..Len(s) : nx2[s[n]] = nx[s[n]] /\ pv2[s[n]] = pv[s[n]]
    PROVE  IsChain(nx2, pv2, s, h, t)
  BY DEF IsChain

LEMMA SingleChain ==
    ASSUME NEW nx, NEW pv, NEW i \in Items, nx[i] = List!Null, pv[i] = List!Null
    PROVE  IsChain(nx, pv, <<i>>, i, i)
  <1>1. <<i>> \in Seq(Items) /\ <<i>> # <<>> /\ Len(<<i>>) = 1 /\ <<i>>[1] = i
    OBVIOUS
  <1> DEFINE s == <<i>>
  <1>2. \A n \in 1..Len(s) : n = 1
    BY <1>1
  <1> HIDE DEF s
  <1>3. s \in Seq(Items) /\ s # <<>> /\ Len(s) = 1 /\ s[1] = i
    BY <1>1 DEF s
  <1>4. IsChain(nx, pv, s, s[1], s[Len(s)])
    BY <1>2, <1>3, ChainMade
  <1> QED
    BY <1>3, <1>4 DEF s

(* Two chains are linked at their ends.                                    *)
LEMMA ChainsJoin ==
    ASSUME NEW nx \in Pointers, NEW pv \in Pointers,
           NEW a, NEW ha, NEW ta, IsChain(nx, pv, a, ha, ta), a # <<>>,
           NEW b, NEW hb, NEW tb, IsChain(nx, pv, b, hb, tb), b # <<>>,
           \A m \in 1..Len(a) : \A n \in 1..Len(b) : a[m] # b[n]
    PROVE  IsChain([nx EXCEPT ![ta] = hb], [pv EXCEPT ![hb] = ta], a \o b, ha, tb)
  <1> DEFINE s == a \o b
             nx2 == [nx EXCEPT ![ta] = hb]
             pv2 == [pv EXCEPT ![hb] = ta]
  <1>1. /\ a \in Seq(Items) /\ Len(a) \in Nat /\ Len(a) > 0
        /\ \A n \in 1..Len(a) : a[n] \in Items
        /\ \A m, n \in 1..Len(a) : a[m] = a[n] => m = n
        /\ 1 \in 1..Len(a) /\ Len(a) \in 1..Len(a)
        /\ ha = a[1] /\ ta = a[Len(a)] /\ ta \in Items
        /\ \A n \in 1..Len(a) :
                 /\ nx[a[n]] = IF n = Len(a) THEN List!Null ELSE a[n + 1]
                 /\ pv[a[n]] = IF n = 1 THEN List!Null ELSE a[n - 1]
    BY ChainIs
  <1>2. /\ b \in Seq(Items) /\ Len(b) \in Nat /\ Len(b) > 0
        /\ \A n \in 1..Len(b) : b[n] \in Items
        /\ \A m, n \in 1..Len(b) : b[m] = b[n] => m = n
        /\ 1 \in 1..Len(b) /\ Len(b) \in 1..Len(b)
        /\ hb = b[1] /\ tb = b[Len(b)] /\ hb \in Items
        /\ \A n \in 1..Len(b) :
                 /\ nx[b[n]] = IF n = Len(b) THEN List!Null ELSE b[n + 1]
                 /\ pv[b[n]] = IF n = 1 THEN List!Null ELSE b[n - 1]
    BY ChainIs
  <1>3. /\ s \in Seq(Items) /\ Len(s) = Len(a) + Len(b)
        /\ \A n \in 1..Len(s) : s[n] = IF n <= Len(a) THEN a[n] ELSE b[n - Len(a)]
    BY <1>1, <1>2
  <1> HIDE DEF s
  <1>4. \A n \in 1..Len(s) : \/ n \in 1..Len(a) /\ s[n] = a[n] /\ n <= Len(a)
                             \/ /\ n - Len(a) \in 1..Len(b) /\ s[n] = b[n - Len(a)]
                                /\ n > Len(a)
    BY <1>1, <1>2, <1>3
  <1>5. ASSUME NEW m \in 1..Len(s), NEW n \in 1..Len(s), s[m] = s[n] PROVE m = n
    <2>1. CASE m \in 1..Len(a) /\ n \in 1..Len(a) /\ s[m] = a[m] /\ s[n] = a[n]
      BY <1>1, <1>5, <2>1
    <2>2. CASE /\ m - Len(a) \in 1..Len(b) /\ s[m] = b[m - Len(a)]
               /\ n - Len(a) \in 1..Len(b) /\ s[n] = b[n - Len(a)]
      <3>1. m - Len(a) = n - Len(a)
        BY <1>2, <1>5, <2>2
      <3> QED
        BY <1>1, <1>3, <3>1
    <2> QED
      BY <1>4, <1>5, <2>1, <2>2
  <1>6. /\ nx2[ta] = hb /\ \A i \in Items : i # ta => nx2[i] = nx[i]
        /\ pv2[hb] = ta /\ \A i \in Items : i # hb => pv2[i] = pv[i]
    BY <1>1, <1>2 DEF Pointers
  <1> HIDE DEF nx2, pv2
  <1>7. ASSUME NEW n \in 1..Len(s)
        PROVE  /\ nx2[s[n]] = IF n = Len(s) THEN List!Null ELSE s[n + 1]
               /\ pv2[s[n]] = IF n = 1 THEN List!Null ELSE s[n - 1]
    <2>1. CASE n \in 1..Len(a) /\ s[n] = a[n]
      <3>1. pv2[s[n]] = IF n = 1 THEN List!Null ELSE s[n - 1]
        <4>1. a[n] # hb /\ a[n] \in Items
          BY <1>1, <1>2, <2>1
        <4>2. pv2[s[n]] = IF n = 1 THEN List!Null ELSE a[n - 1]
          BY <1>1, <1>6, <2>1, <4>1
        <4>3. n # 1 => n - 1 \in 1..Len(s) /\ n - 1 <= Len(a)
          BY <1>1, <1>3, <2>1
        <4>4. n # 1 => s[n - 1] = a[n - 1]
          BY <1>3, <4>3
        <4> QED
          BY <4>2, <4>4
      <3>2. CASE n = Len(a)
        <4>1. n + 1 \in 1..Len(s) /\ ~(n + 1 <= Len(a)) /\ (n + 1) - Len(a) = 1 /\ n # Len(s)
          BY <1>1, <1>2, <1>3, <3>2
        <4>2. s[n + 1] = hb
          BY <1>2, <1>3, <4>1
        <4> QED
          BY <1>1, <1>6, <2>1, <3>1, <3>2, <4>1, <4>2
      <3>3. CASE n # Len(a)
        <4>1. a[n] # ta /\ a[n] \in Items
          BY <1>1, <2>1, <3>3
        <4>2. n + 1 \in 1..Len(s) /\ n + 1 <= Len(a) /\ n # Len(s)
          BY <1>1, <1>2, <1>3, <2>1, <3>3
        <4> QED
          BY <1>1, <1>3, <1>6, <2>1, <3>1, <3>3, <4>1, <4>2
      <3> QED
        BY <3>2, <3>3
    <2>2. CASE n - Len(a) \in 1..Len(b) /\ s[n] = b[n - Len(a)] /\ n > Len(a)
      <3>1. PICK k \in 1..Len(b) : n = k + Len(a) /\ n - Len(a) = k /\ s[n] = b[k]
        BY <1>1, <2>2
      <3>2. nx2[s[n]] = IF n = Len(s) THEN List!Null ELSE s[n + 1]
        <4>1. b[k] # ta /\ b[k] \in Items
          BY <1>1, <1>2, <3>1
        <4>2. CASE k = Len(b)
          <5>1. n = Len(s)
            <6>1. Len(a) \in Nat /\ Len(b) \in Nat /\ Len(s) = Len(a) + Len(b)
              BY <1>1, <1>2, <1>3
            <6> QED
              BY <3>1, <4>2, <6>1
          <5>2. nx2[s[n]] = nx[b[k]]
            BY <1>6, <3>1, <4>1
          <5>3. nx[b[k]] = List!Null
            BY <1>2, <4>2
          <5> QED
            BY <5>1, <5>2, <5>3
        <4>3. CASE k # Len(b)
          <5>1. /\ n # Len(s) /\ n + 1 \in 1..Len(s) /\ ~(n + 1 <= Len(a))
                /\ (n + 1) - Len(a) = k + 1
            BY <1>1, <1>2, <1>3, <3>1, <4>3
          <5>2. s[n + 1] = b[k + 1]
            BY <1>3, <5>1
          <5>3. nx2[s[n]] = nx[b[k]]
            BY <1>6, <3>1, <4>1
          <5>4. nx[b[k]] = b[k + 1]
            BY <1>2, <4>3
          <5> QED
            BY <5>1, <5>2, <5>3, <5>4
        <4> QED
          BY <4>2, <4>3
      <3>3. n # 1 /\ n - 1 \in 1..Len(s)
        BY <1>1, <1>2, <1>3, <3>1
      <3>4. CASE k = 1
        <4>1. n - 1 = Len(a) /\ s[n - 1] = ta
          BY <1>1, <1>3, <3>1, <3>3, <3>4
        <4>2. s[n] = hb
          BY <1>2, <3>1, <3>4
        <4> QED
          BY <1>6, <3>2, <3>3, <4>1, <4>2
      <3>5. CASE k # 1
        <4>1. b[k] # hb /\ b[k] \in Items
          BY <1>2, <3>1, <3>5
        <4>2. ~(n - 1 <= Len(a)) /\ (n - 1) - Len(a) = k - 1
          BY <1>1, <3>1, <3>5
        <4>3. s[n - 1] = b[k - 1]
          BY <1>3, <3>3, <4>2
        <4>4. pv2[b[k]] = b[k - 1]
          BY <1>2, <1>6, <3>5, <4>1
        <4> QED
          BY <3>1, <3>2, <3>3, <4>3, <4>4
      <3> QED
        BY <3>4, <3>5
    <2> QED
      BY <1>4, <2>1, <2>2
  <1>8. s # <<>> /\ s[1] = ha /\ s[Len(s)] = tb
    <2>1. /\ 1 \in 1..Len(s) /\ 1 <= Len(a) /\ Len(s) \in 1..Len(s)
          /\ ~(Len(s) <= Len(a)) /\ Len(s) - Len(a) = Len(b) /\ Len(s) > 0
      BY <1>1, <1>2, <1>3
    <2>2. s # <<>>
      BY <2>1
    <2>3. s[1] = a[1] /\ s[Len(s)] = b[Len(b)]
      BY <1>3, <2>1
    <2> QED
      BY <1>1, <1>2, <2>2, <2>3
  <1>9. IsChain(nx2, pv2, s, s[1], s[Len(s)])
    BY <1>3, <1>5, <1>7, <1>8, ChainMade
  <1> QED
    BY <1>8, <1>9 DEF s, nx2, pv2
LEMMA RemovedAt ==
    ASSUME NEW s \in Seq(Items), NEW k \in 1..Len(s)
    PROVE  /\ RemoveAt(s, k) \in Seq(Items) /\ Len(RemoveAt(s, k)) = Len(s) - 1
           /\ \A n \in 1..(Len(s) - 1) :
                 RemoveAt(s, k)[n] = IF n < k THEN s[n] ELSE s[n + 1]
  <1> DEFINE a == SubSeq(s, 1, k - 1)
             b == SubSeq(s, k + 1, Len(s))
             u == RemoveAt(s, k)
  <1>1. Len(s) \in Nat
    OBVIOUS
  <1>2. a \in Seq(Items) /\ Len(a) = k - 1 /\ \A n \in 1..(k - 1) : a[n] = s[n]
    BY <1>1
  <1>3. b \in Seq(Items) /\ Len(b) = Len(s) - k /\ \A n \in 1..(Len(s) - k) : b[n] = s[k + n]
    BY <1>1
  <1>4. u = a \o b
    BY <1>1 DEF RemoveAt
  <1> HIDE DEF a, b, u
  <1>5. /\ u \in Seq(Items) /\ Len(u) = Len(a) + Len(b)
        /\ \A n \in 1..(Len(a) + Len(b)) : u[n] = IF n <= Len(a) THEN a[n] ELSE b[n - Len(a)]
    <2>1. a \in Seq(Items) /\ b \in Seq(Items)
      BY <1>2, <1>3
    <2> QED
      BY ONLY <1>4, <2>1
  <1>6. Len(u) = Len(s) - 1
    BY <1>1, <1>2, <1>3, <1>5
  <1>7. ASSUME NEW n \in 1..(Len(s) - 1) PROVE u[n] = IF n < k THEN s[n] ELSE s[n + 1]
    <2>1. u[n] = IF n <= k - 1 THEN a[n] ELSE b[n - (k - 1)]
      BY <1>2, <1>5, <1>6
    <2>2. CASE n < k
      BY <1>1, <1>2, <2>1, <2>2
    <2>3. CASE ~(n < k)
      <3>1. n - (k - 1) \in 1..(Len(s) - k) /\ k + (n - (k - 1)) = n + 1 /\ ~(n <= k - 1)
        BY <1>1, <2>3
      <3> QED
        BY <1>3, <2>1, <2>3, <3>1
    <2> QED
      BY <2>2, <2>3
  <1> QED
    BY <1>5, <1>6, <1>7 DEF u

(* An item of a chain is taken out by what it points to.                   *)
LEMMA ChainCut ==
    ASSUME NEW nx \in Pointers, NEW pv \in Pointers, NEW s, NEW h, NEW t,
           IsChain(nx, pv, s, h, t), NEW k \in 1..Len(s), NEW i, i = s[k]
    PROVE  IsChain(IF pv[i] # List!Null THEN [nx EXCEPT ![pv[i]] = nx[i]] ELSE nx,
                   IF nx[i] # List!Null THEN [pv EXCEPT ![nx[i]] = pv[i]] ELSE pv,
                   RemoveAt(s, k),
                   IF pv[i] # List!Null THEN h ELSE nx[i],
                   IF nx[i] # List!Null THEN t ELSE pv[i])
  <1> DEFINE u == RemoveAt(s, k)
             nx2 == IF pv[i] # List!Null THEN [nx EXCEPT ![pv[i]] = nx[i]] ELSE nx
             pv2 == IF nx[i] # List!Null THEN [pv EXCEPT ![nx[i]] = pv[i]] ELSE pv
             h2 == IF pv[i] # List!Null THEN h ELSE nx[i]
             t2 == IF nx[i] # List!Null THEN t ELSE pv[i]
  <1>1. /\ s \in Seq(Items) /\ Len(s) \in Nat /\ k \in Nat /\ 1 <= k /\ k <= Len(s)
        /\ \A n \in 1..Len(s) : s[n] \in Items /\ s[n] # List!Null
        /\ \A m, n \in 1..Len(s) : s[m] = s[n] => m = n
        /\ h = At(s, 1) /\ t = At(s, Len(s))
        /\ \A n \in 1..Len(s) : nx[s[n]] = At(s, n + 1) /\ pv[s[n]] = At(s, n - 1)
    BY ItemsAssumption DEF IsChain
  <1>2. /\ u \in Seq(Items) /\ Len(u) = Len(s) - 1
        /\ \A n \in 1..(Len(s) - 1) : u[n] = IF n < k THEN s[n] ELSE s[n + 1]
    BY <1>1, RemovedAt
  <1> HIDE DEF u
  <1>3. ASSUME NEW n \in 0..Len(s)
        PROVE  At(u, n) = IF n < k THEN At(s, n) ELSE At(s, n + 1)
    <2>1. CASE n \in 1..(Len(s) - 1)
      <3>1. n \in 1..Len(u) /\ n \in 1..Len(s) /\ n + 1 \in 1..Len(s)
        BY <1>1, <1>2, <2>1
      <3> QED
        BY <1>2, <2>1, <3>1 DEF At
    <2>2. CASE n = 0
      <3>1. n \notin 1..Len(u) /\ n \notin 1..Len(s) /\ n < k
        BY <1>1, <2>2
      <3> QED
        BY <3>1 DEF At
    <2>3. CASE n = Len(s)
      <3>1. n \notin 1..Len(u) /\ n + 1 \notin 1..Len(s) /\ ~(n < k)
        BY <1>1, <1>2, <2>3
      <3> QED
        BY <3>1 DEF At
    <2> QED
      BY <1>1, <2>1, <2>2, <2>3
  <1>4. /\ nx[i] = At(s, k + 1) /\ pv[i] = At(s, k - 1)
    BY <1>1
  <1>5. /\ k > 1 => k - 1 \in 1..Len(s) /\ pv[i] = s[k - 1] /\ pv[i] # List!Null
        /\ k = 1 => pv[i] = List!Null
    <2>1. k > 1 => k - 1 \in 1..Len(s)
      BY <1>1
    <2>2. k = 1 => k - 1 \notin 1..Len(s)
      BY <1>1
    <2> QED
      BY <1>1, <1>4, <2>1, <2>2 DEF At
  <1>6. /\ k < Len(s) => k + 1 \in 1..Len(s) /\ nx[i] = s[k + 1] /\ nx[i] # List!Null
        /\ k = Len(s) => nx[i] = List!Null
    <2>1. k < Len(s) => k + 1 \in 1..Len(s)
      BY <1>1
    <2>2. k = Len(s) => k + 1 \notin 1..Len(s)
      BY <1>1
    <2> QED
      BY <1>1, <1>4, <2>1, <2>2 DEF At
  <1>7. \A j \in 1..Len(s) :
           /\ nx2[s[j]] = IF j = k - 1 THEN At(s, k + 1) ELSE At(s, j + 1)
           /\ pv2[s[j]] = IF j = k + 1 THEN At(s, k - 1) ELSE At(s, j - 1)
    <2> SUFFICES ASSUME NEW j \in 1..Len(s)
                 PROVE  /\ nx2[s[j]] = IF j = k - 1 THEN At(s, k + 1) ELSE At(s, j + 1)
                        /\ pv2[s[j]] = IF j = k + 1 THEN At(s, k - 1) ELSE At(s, j - 1)
      OBVIOUS
    <2>1. s[j] \in Items /\ nx[s[j]] = At(s, j + 1) /\ pv[s[j]] = At(s, j - 1)
      BY <1>1
    <2>2. CASE k > 1
      <3>1. s[j] = pv[i] <=> j = k - 1
        BY <1>1, <1>5, <2>2
      <3> QED
        <4>1. nx2 = [nx EXCEPT ![pv[i]] = nx[i]] /\ pv[i] \in Items
          BY <1>1, <1>5, <2>2
        <4>2. nx2[s[j]] = IF j = k - 1 THEN At(s, k + 1) ELSE At(s, j + 1)
          BY <1>4, <2>1, <3>1, <4>1 DEF Pointers
        <4>3. pv2[s[j]] = IF j = k + 1 THEN At(s, k - 1) ELSE At(s, j - 1)
          <5>1. CASE k < Len(s)
            <6>1. s[j] = nx[i] <=> j = k + 1
              BY <1>1, <1>6, <5>1
            <6>2. pv2 = [pv EXCEPT ![nx[i]] = pv[i]] /\ nx[i] \in Items
              BY <1>1, <1>6, <5>1
            <6> QED
              BY <1>4, <2>1, <6>1, <6>2 DEF Pointers
          <5>2. CASE k = Len(s)
            <6>1. pv2 = pv /\ j # k + 1
              BY <1>1, <1>6, <5>2
            <6> QED
              BY <2>1, <6>1
          <5> QED
            BY <1>1, <5>1, <5>2
        <4> QED
          BY <4>2, <4>3
    <2>3. CASE k = 1
      <3>1. nx2 = nx /\ j # k - 1
        BY <1>1, <1>5, <2>3
      <3>2. pv2[s[j]] = IF j = k + 1 THEN At(s, k - 1) ELSE At(s, j - 1)
        <4>1. CASE k < Len(s)
          <5>1. s[j] = nx[i] <=> j = k + 1
            BY <1>1, <1>6, <4>1
          <5>2. pv2 = [pv EXCEPT ![nx[i]] = pv[i]] /\ nx[i] \in Items
            BY <1>1, <1>6, <4>1
          <5> QED
            BY <1>4, <2>1, <5>1, <5>2 DEF Pointers
        <4>2. CASE k = Len(s)
          <5>1. pv2 = pv /\ j # k + 1
            BY <1>1, <1>6, <4>2
          <5> QED
            BY <2>1, <5>1
        <4> QED
          BY <1>1, <4>1, <4>2
      <3> QED
        BY <2>1, <3>1, <3>2
    <2> QED
      BY <1>1, <2>2, <2>3
  <1>8. h2 = At(u, 1) /\ t2 = At(u, Len(u))
    <2>1. h2 = At(u, 1)
      <3>1. At(u, 1) = IF 1 < k THEN At(s, 1) ELSE At(s, 2)
        BY <1>1, <1>3
      <3>2. CASE k > 1
        BY <1>1, <1>5, <3>1, <3>2
      <3>3. CASE k = 1
        BY <1>4, <1>5, <3>1, <3>3
      <3> QED
        BY <1>1, <3>2, <3>3
    <2>2. t2 = At(u, Len(u))
      <3>1. Len(u) \in 0..Len(s) /\ Len(u) = Len(s) - 1 /\ (Len(s) - 1) + 1 = Len(s)
        BY <1>1, <1>2
      <3>2. At(u, Len(u)) = IF Len(s) - 1 < k THEN At(s, Len(s) - 1) ELSE At(s, Len(s))
        BY <1>3, <3>1
      <3>3. CASE k = Len(s)
        BY <1>1, <1>4, <1>6, <3>2, <3>3
      <3>4. CASE k < Len(s)
        BY <1>1, <1>6, <3>2, <3>4
      <3> QED
        BY <1>1, <3>3, <3>4
    <2> QED
      BY <2>1, <2>2
  <1> HIDE DEF nx2, pv2, h2, t2
  <1>9. \A n \in 1..Len(u) :
           \E j \in 1..Len(s) : /\ u[n] = s[j] /\ j = (IF n < k THEN n ELSE n + 1) /\ j # k
                                /\ n \in 1..(Len(s) - 1)
    BY <1>1, <1>2
  <1>10. ASSUME NEW n \in 1..Len(u) PROVE nx2[u[n]] = At(u, n + 1) /\ pv2[u[n]] = At(u, n - 1)
    <2>1. PICK j \in 1..Len(s) : /\ u[n] = s[j] /\ j = (IF n < k THEN n ELSE n + 1) /\ j # k
                                 /\ n \in 1..(Len(s) - 1)
      BY <1>9
    <2>2. /\ n + 1 \in 0..Len(s) /\ n - 1 \in 0..Len(s) /\ n \in Nat
          /\ (n - 1) + 1 = n /\ (n + 1) + 1 = n + 2
      BY <1>1, <2>1
    <2>3. /\ At(u, n + 1) = IF n + 1 < k THEN At(s, n + 1) ELSE At(s, n + 2)
          /\ At(u, n - 1) = IF n - 1 < k THEN At(s, n - 1) ELSE At(s, n)
      BY <1>3, <2>2
    <2>4. /\ nx2[s[j]] = IF j = k - 1 THEN At(s, k + 1) ELSE At(s, j + 1)
          /\ pv2[s[j]] = IF j = k + 1 THEN At(s, k - 1) ELSE At(s, j - 1)
      BY <1>7
    <2>5. CASE n < k
      <3>1. j = n /\ (n = k - 1 => n + 2 = k + 1) /\ n # k + 1 /\ n - 1 < k
            /\ (n + 1 < k <=> n # k - 1)
        BY <1>1, <2>1, <2>2, <2>5, SMTT(30)
      <3> QED
        BY <2>1, <2>3, <2>4, <3>1
    <2>6. CASE ~(n < k)
      <3>1. /\ j = n + 1 /\ j # k - 1 /\ ~(n + 1 < k) /\ j + 1 = n + 2 /\ j - 1 = n
            /\ (j = k + 1 <=> n - 1 < k) /\ (j = k + 1 => k - 1 = n - 1)
        BY <1>1, <2>1, <2>2, <2>6
      <3> QED
        BY <2>1, <2>3, <2>4, <3>1
    <2> QED
      BY <2>5, <2>6
  <1>11. ASSUME NEW m \in 1..Len(u), NEW n \in 1..Len(u), u[m] = u[n] PROVE m = n
    <2>1. m \in 1..(Len(s) - 1) /\ n \in 1..(Len(s) - 1)
      BY <1>2
    <2>2. (IF m < k THEN m ELSE m + 1) = (IF n < k THEN n ELSE n + 1)
      BY <1>1, <1>9, <1>11
    <2> QED
      BY <1>1, <2>1, <2>2
  <1>12. IsChain(nx2, pv2, u, h2, t2)
    BY <1>2, <1>8, <1>10, <1>11 DEF IsChain
  <1> QED
    BY <1>12 DEF u, nx2, pv2, h2, t2

(***************************************************************************)
(* Reading a list from its links                                           *)
(***************************************************************************)

LEMMA Induction ==
    ASSUME NEW S, 0 \in S, \A n \in Nat : n \in S => n + 1 \in S
    PROVE  Nat \subseteq S
  <1> SUFFICES ASSUME Nat \ S # {} PROVE FALSE
    OBVIOUS
  <1>1. PICK n \in Nat \ S : \A m \in Nat \ S : n <= m
    BY LeastNumber
  <1>2. n - 1 \in Nat /\ (n - 1) + 1 = n
    BY <1>1
  <1>3. n - 1 \in S
    BY <1>1, <1>2
  <1> QED
    BY <1>1, <1>2, <1>3

Begin(s, n) == SubSeq(s, 1, n)

LEMMA Beginnings ==
    ASSUME NEW s \in Seq(Items)
    PROVE  /\ Begin(s, 0) = <<>> /\ Begin(s, Len(s)) = s
           /\ \A n \in 1..Len(s) : /\ Begin(s, n) # <<>> /\ Last(Begin(s, n)) = s[n]
                                   /\ Begin(s, n) = Append(Begin(s, n - 1), s[n])
  <1>1. Begin(s, 0) = <<>> /\ Begin(s, Len(s)) = s
    BY DEF Begin
  <1>2. ASSUME NEW n \in 1..Len(s)
        PROVE  /\ Begin(s, n) # <<>> /\ Last(Begin(s, n)) = s[n]
               /\ Begin(s, n) = Append(Begin(s, n - 1), s[n])
    <2> DEFINE a == Begin(s, n - 1)
               b == Begin(s, n)
    <2>1. Len(s) \in Nat /\ n \in Nat /\ s[n] \in Items
      OBVIOUS
    <2>2. a \in Seq(Items) /\ Len(a) = n - 1 /\ \A k \in 1..(n - 1) : a[k] = s[k]
      BY <2>1 DEF Begin
    <2>3. b \in Seq(Items) /\ Len(b) = n /\ \A k \in 1..n : b[k] = s[k]
      BY <2>1 DEF Begin
    <2> HIDE DEF a, b
    <2>4. b # <<>> /\ Last(b) = s[n]
      BY <2>1, <2>3 DEF Last
    <2>5. b = Append(a, s[n])
      <3>1. /\ Append(a, s[n]) \in Seq(Items) /\ Len(Append(a, s[n])) = n
            /\ \A k \in 1..n : Append(a, s[n])[k] = IF k = n THEN s[n] ELSE a[k]
        BY <2>1, <2>2
      <3>2. \A k \in 1..n : Append(a, s[n])[k] = b[k]
        BY <2>1, <2>2, <2>3, <3>1
      <3> QED
        BY <2>3, <3>1, <3>2
    <2> QED
      BY <2>4, <2>5 DEF a, b
  <1> QED
    BY <1>1, <1>2

(* No list is longer than there are items.                                 *)
LEMMA NoLonger ==
    ASSUME NEW s \in Seq(Items), \A m, n \in 1..Len(s) : s[m] = s[n] => m = n
    PROVE  Cardinality(Items) \in Nat /\ Len(s) <= Cardinality(Items)
  <1>1. Len(s) \in Nat
    OBVIOUS
  <1>2. Cardinality(1..Len(s)) = Len(s)
    <2>1. Cardinality(1..Len(s)) = IF 1 > Len(s) THEN 0 ELSE Len(s) - 1 + 1
      BY <1>1, FS_Interval
    <2> QED
      BY <1>1, <2>1
  <1>3. s \in [1..Len(s) -> Items]
    OBVIOUS
  <1>4. s \in Injection(1..Len(s), Items)
    BY <1>1, <1>3 DEF Injection, IsInjective
  <1> QED
    BY <1>2, <1>4, FS_Injection, FS_CardinalityType, ItemsAssumption

(* Following the links from the first item yields the list.                *)
LEMMA WalkIs ==
    ASSUME NEW link, NEW i, NEW s \in Seq(Items),
           \A m, n \in 1..Len(s) : s[m] = s[n] => m = n,
           i = At(s, 1), \A n \in 1..Len(s) : link[s[n]] = At(s, n + 1)
    PROVE  List!Walk(link, i) = s
  <1> DEFINE C == Cardinality(Items)
             After(rest) == LET j == IF rest = <<>> THEN i ELSE link[Last(rest)]
                            IN  IF j = List!Null THEN rest ELSE Append(rest, j)
             G(f) == [n \in 0..C |-> IF n = 0 THEN <<>> ELSE After(f[n - 1])]
             Prefix(n) == IF n <= Len(s) THEN Begin(s, n) ELSE s
             w == [n \in 0..C |-> Prefix(n)]
             from == CHOOSE f : f = G(f)
  <1>1. C \in Nat /\ Len(s) \in Nat /\ Len(s) <= C
    BY NoLonger
  <1>2. List!Walk(link, i) = from[C]
    BY Zenon DEF List!Walk, List!Cardinality, Cardinality, List!Last, Last
  <1>3. \A n \in 1..C : Prefix(n) = After(Prefix(n - 1))
    <2> SUFFICES ASSUME NEW n \in 1..C PROVE Prefix(n) = After(Prefix(n - 1))
      OBVIOUS
    <2>1. n \in Nat /\ n - 1 \in Nat /\ (n - 1) + 1 = n /\ 1 <= n
      BY <1>1
    <2>2. CASE n <= Len(s)
      <3>1. /\ n \in 1..Len(s) /\ s[n] \in Items /\ s[n] # List!Null /\ At(s, n) = s[n]
        BY <1>1, <2>1, <2>2, ItemsAssumption DEF At
      <3>2. Begin(s, n) = Append(Begin(s, n - 1), s[n])
        BY <3>1, Beginnings
      <3>3. Prefix(n - 1) = Begin(s, n - 1) /\ Prefix(n) = Begin(s, n)
        BY <1>1, <2>1, <2>2
      <3>4. CASE n = 1
        <4>1. Begin(s, n - 1) = <<>>
          BY <3>4, Beginnings
        <4> QED
          BY <3>1, <3>2, <3>3, <3>4, <4>1
      <3>5. CASE n # 1
        <4>1. n - 1 \in 1..Len(s)
          BY <1>1, <2>1, <2>2, <3>5
        <4>2. Begin(s, n - 1) # <<>> /\ Last(Begin(s, n - 1)) = s[n - 1]
          BY <4>1, Beginnings
        <4>3. link[s[n - 1]] = s[n]
          BY <2>1, <3>1, <4>1
        <4> QED
          BY <3>1, <3>2, <3>3, <4>2, <4>3
      <3> QED
        BY <3>4, <3>5
    <2>3. CASE ~(n <= Len(s))
      <3>1. Prefix(n) = s
        BY <2>3
      <3>2. Prefix(n - 1) = s
        <4>1. CASE n - 1 = Len(s)
          BY <4>1, Beginnings
        <4>2. CASE n - 1 # Len(s)
          <5>1. ~(n - 1 <= Len(s))
            BY <1>1, <2>1, <2>3, <4>2
          <5> QED
            BY <5>1
        <4> QED
          BY <4>1, <4>2
      <3>3. CASE s = <<>>
        <4>1. i = List!Null
          BY <3>3 DEF At
        <4> QED
          BY <3>1, <3>2, <3>3, <4>1
      <3>4. CASE s # <<>>
        <4>1. Len(s) \in 1..Len(s) /\ Len(s) + 1 \notin 1..Len(s)
          BY <1>1, <3>4
        <4>2. Last(s) = s[Len(s)] /\ link[s[Len(s)]] = List!Null
          BY <4>1 DEF Last, At
        <4> QED
          BY <3>1, <3>2, <3>4, <4>2
      <3> QED
        BY <3>3, <3>4
    <2> QED
      BY <2>2, <2>3
  <1>4. Prefix(0) = <<>> /\ Prefix(C) = s
    <2>1. 0 <= Len(s)
      BY <1>1
    <2>2. CASE C = Len(s)
      BY <2>1, <2>2, Beginnings
    <2>3. CASE C # Len(s)
      <3>1. ~(C <= Len(s))
        BY <1>1, <2>3
      <3> QED
        BY <2>1, <3>1, Beginnings
    <2> QED
      BY <2>2, <2>3
  <1> HIDE DEF C, After, Prefix
  <1>5. w = G(w)
    <2> SUFFICES ASSUME NEW n \in 0..C
                 PROVE  Prefix(n) = IF n = 0 THEN <<>> ELSE After(w[n - 1])
      BY Zenon
    <2>1. CASE n = 0
      BY <1>4, <2>1
    <2>2. CASE n # 0
      <3>1. n \in 1..C /\ n - 1 \in 0..C
        BY <1>1, <2>2
      <3> QED
        BY <1>3, <2>2, <3>1
    <2> QED
      BY <2>1, <2>2
  <1>6. from = G(from)
    <2> HIDE DEF G, w
    <2> QED
      BY <1>5
  <1>7. \A n \in 0..C : from[n] = IF n = 0 THEN <<>> ELSE After(from[n - 1])
    <2> HIDE DEF from
    <2> QED
      BY <1>6
  <1> HIDE DEF from, G, w
  <1>8. Nat \subseteq {n \in Nat : n <= C => from[n] = Prefix(n)}
    <2> DEFINE Agree == {n \in Nat : n <= C => from[n] = Prefix(n)}
    <2>1. 0 \in Agree
      BY <1>1, <1>4, <1>7
    <2>2. ASSUME NEW n \in Nat, n \in Agree PROVE n + 1 \in Agree
      <3> SUFFICES ASSUME n + 1 <= C PROVE from[n + 1] = Prefix(n + 1)
        OBVIOUS
      <3>1. n + 1 \in 0..C /\ n + 1 \in 1..C /\ n + 1 # 0 /\ (n + 1) - 1 = n /\ n <= C
        BY <1>1
      <3>2. from[n] = Prefix(n)
        BY <2>2, <3>1
      <3>3. from[n + 1] = After(from[n])
        BY <1>7, <3>1
      <3>4. Prefix(n + 1) = After(Prefix(n))
        BY <1>3, <3>1
      <3> QED
        BY <3>2, <3>3, <3>4
    <2> HIDE DEF Agree
    <2>3. Nat \subseteq Agree
      BY <2>1, <2>2, Induction
    <2> QED
      BY <2>3 DEF Agree
  <1>9. from[C] = Prefix(C)
    BY <1>1, <1>8
  <1> QED
    BY <1>2, <1>4, <1>9

(* Both directions yield the same list.                                    *)
LEMMA BothWays ==
    ASSUME NEW nx, NEW pv, NEW s, NEW h, NEW t, IsChain(nx, pv, s, h, t)
    PROVE  List!Walk(nx, h) = s /\ Reverse(List!Walk(pv, t)) = s
  <1>1. /\ s \in Seq(Items) /\ Len(s) \in Nat
        /\ \A n \in 1..Len(s) : s[n] \in Items
        /\ \A m, n \in 1..Len(s) : s[m] = s[n] => m = n
        /\ h = At(s, 1) /\ t = At(s, Len(s))
        /\ \A n \in 1..Len(s) : nx[s[n]] = At(s, n + 1) /\ pv[s[n]] = At(s, n - 1)
    BY DEF IsChain
  <1>2. List!Walk(nx, h) = s
    BY <1>1, WalkIs
  <1> DEFINE r == [n \in 1..Len(s) |-> s[(Len(s) - n) + 1]]
  <1>3. /\ r \in Seq(Items) /\ Len(r) = Len(s)
        /\ \A n \in 1..Len(s) : /\ (Len(s) - n) + 1 \in 1..Len(s)
                                /\ r[n] = s[(Len(s) - n) + 1]
    BY <1>1
  <1> HIDE DEF r
  <1>4. \A n \in Int : At(r, n) = At(s, (Len(s) - n) + 1)
    <2> SUFFICES ASSUME NEW n \in Int PROVE At(r, n) = At(s, (Len(s) - n) + 1)
      OBVIOUS
    <2>1. n \in 1..Len(r) <=> (Len(s) - n) + 1 \in 1..Len(s)
      BY <1>1, <1>3
    <2> QED
      BY <1>3, <2>1 DEF At
  <1>5. \A m, n \in 1..Len(r) : r[m] = r[n] => m = n
    <2> SUFFICES ASSUME NEW m \in 1..Len(r), NEW n \in 1..Len(r), r[m] = r[n] PROVE m = n
      OBVIOUS
    <2>1. /\ m \in 1..Len(s) /\ n \in 1..Len(s)
          /\ (Len(s) - m) + 1 \in 1..Len(s) /\ (Len(s) - n) + 1 \in 1..Len(s)
          /\ s[(Len(s) - m) + 1] = s[(Len(s) - n) + 1]
      BY <1>3
    <2>2. (Len(s) - m) + 1 = (Len(s) - n) + 1
      BY <1>1, <2>1
    <2> QED
      BY <1>1, <2>1, <2>2
  <1>6. t = At(r, 1)
    <2>1. (Len(s) - 1) + 1 = Len(s)
      BY <1>1
    <2> QED
      BY <1>1, <1>4, <2>1
  <1>7. ASSUME NEW n \in 1..Len(r) PROVE pv[r[n]] = At(r, n + 1)
    <2>1. /\ (Len(s) - n) + 1 \in 1..Len(s) /\ r[n] = s[(Len(s) - n) + 1]
          /\ ((Len(s) - n) + 1) - 1 = (Len(s) - (n + 1)) + 1 /\ n + 1 \in Int
      BY <1>1, <1>3, SMTT(30)
    <2> QED
      BY <1>1, <1>4, <2>1
  <1>8. List!Walk(pv, t) = r
    BY <1>3, <1>5, <1>6, <1>7, WalkIs
  <1>9. Reverse(r) = s
    <2> DEFINE q == Reverse(r)
    <2>1. q = [n \in 1..Len(s) |-> r[(Len(s) - n) + 1]]
      BY <1>3 DEF Reverse
    <2>2. ASSUME NEW n \in 1..Len(s) PROVE q[n] = s[n]
      <3>1. /\ (Len(s) - n) + 1 \in 1..Len(s)
            /\ (Len(s) - ((Len(s) - n) + 1)) + 1 = n
        BY <1>1
      <3> QED
        BY <1>3, <2>1, <3>1
    <2>3. s = [n \in 1..Len(s) |-> s[n]]
      BY <1>1
    <2> QED
      BY <2>1, <2>2, <2>3
  <1> QED
    BY <1>2, <1>8, <1>9

(***************************************************************************)
(* The steps of the lists                                                  *)
(***************************************************************************)

Names == {"bin", "other"}

Apart(a, b) == \A m \in 1..Len(a) : \A n \in 1..Len(b) : a[m] # b[n]

(* The lists are the sequences S, of which no two share an item.           *)
AreLists(nx, pv, h, t, S) ==
    /\ S \in [Names -> Seq(Items)]
    /\ \A l \in Names : IsChain(nx, pv, S[l], h[l], t[l])
    /\ \A l, m \in Names : l # m => Apart(S[l], S[m])

ListEnds == [Names -> Items \cup {List!Null}]

ListTypes == head \in ListEnds /\ tail \in ListEnds /\ next \in Pointers /\ prev \in Pointers

ListInv == ListTypes /\ \E S : AreLists(next, prev, head, tail, S)

LEMMA ApartIs ==
    ASSUME NEW a \in Seq(Items), NEW b \in Seq(Items)
    PROVE  /\ Apart(<<>>, b) /\ (Apart(a, b) => Apart(b, a))
           /\ \A k \in 1..Len(a) : Apart(a, b) => Apart(RemoveAt(a, k), b)
           /\ \A c \in Seq(Items) : Apart(a, b) /\ Apart(c, b) => Apart(a \o c, b)
           /\ \A i \in Items : (\A n \in 1..Len(b) : b[n] # i) => Apart(<<i>>, b)
  <1>1. Apart(<<>>, b) /\ (Apart(a, b) => Apart(b, a))
    BY DEF Apart
  <1>2. ASSUME NEW k \in 1..Len(a), Apart(a, b) PROVE Apart(RemoveAt(a, k), b)
    <2>1. /\ Len(RemoveAt(a, k)) = Len(a) - 1 /\ Len(a) \in Nat
          /\ \A n \in 1..(Len(a) - 1) : RemoveAt(a, k)[n] = IF n < k THEN a[n] ELSE a[n + 1]
      BY RemovedAt
    <2>2. \A n \in 1..(Len(a) - 1) : n \in 1..Len(a) /\ n + 1 \in 1..Len(a)
      BY <2>1
    <2> QED
      BY <1>2, <2>1, <2>2 DEF Apart
  <1>3. ASSUME NEW c \in Seq(Items), Apart(a, b), Apart(c, b) PROVE Apart(a \o c, b)
    <2> DEFINE s == a \o c
    <2>1. /\ Len(a) \in Nat /\ Len(c) \in Nat /\ Len(s) = Len(a) + Len(c)
          /\ \A n \in 1..Len(s) : s[n] = IF n <= Len(a) THEN a[n] ELSE c[n - Len(a)]
      OBVIOUS
    <2> HIDE DEF s
    <2>2. \A n \in 1..Len(s) : \/ n \in 1..Len(a) /\ s[n] = a[n]
                               \/ n - Len(a) \in 1..Len(c) /\ s[n] = c[n - Len(a)]
      BY <2>1
    <2>3. Apart(s, b)
      BY <1>3, <2>2 DEF Apart
    <2> QED
      BY <2>3 DEF s
  <1>4. ASSUME NEW i \in Items, \A n \in 1..Len(b) : b[n] # i PROVE Apart(<<i>>, b)
    <2> DEFINE s == <<i>>
    <2>1. Len(s) = 1 /\ s[1] = i /\ \A n \in 1..Len(s) : n = 1
      OBVIOUS
    <2> HIDE DEF s
    <2>2. Apart(s, b)
      BY <1>4, <2>1 DEF Apart
    <2> QED
      BY <2>2 DEF s
  <1> QED
    BY <1>1, <1>2, <1>3, <1>4

(* What the other lists point to stays, and nothing of theirs moves here.  *)
OthersStay(nx, pv, h, t, S, nx2, pv2, h2, t2, S2, l) ==
    \A m \in Names \ {l} :
        /\ h2[m] = h[m] /\ t2[m] = t[m] /\ S2[m] = S[m] /\ Apart(S2[l], S[m])
        /\ \A n \in 1..Len(S[m]) : /\ nx2[S[m][n]] = nx[S[m][n]]
                                   /\ pv2[S[m][n]] = pv[S[m][n]]

(* One list changes, and what the others point to does not.                *)
LEMMA ChangeOne ==
    ASSUME NEW nx, NEW pv, NEW h, NEW t, NEW S, AreLists(nx, pv, h, t, S),
           NEW nx2, NEW pv2, NEW h2, NEW t2, NEW l \in Names,
           NEW S2, S2 \in [Names -> Seq(Items)],
           IsChain(nx2, pv2, S2[l], h2[l], t2[l]),
           OthersStay(nx, pv, h, t, S, nx2, pv2, h2, t2, S2, l)
    PROVE  AreLists(nx2, pv2, h2, t2, S2)
  <1> USE DEF OthersStay
  <1>1. ASSUME NEW m \in Names PROVE IsChain(nx2, pv2, S2[m], h2[m], t2[m])
    <2>1. CASE m = l
      BY <2>1
    <2>2. CASE m # l
      <3>1. IsChain(nx, pv, S[m], h[m], t[m])
        BY DEF AreLists
      <3>2. IsChain(nx2, pv2, S[m], h[m], t[m])
        BY <2>2, <3>1, ChainFrame
      <3> QED
        BY <2>2, <3>2
    <2> QED
      BY <2>1, <2>2
  <1>2. ASSUME NEW m \in Names, NEW k \in Names, m # k PROVE Apart(S2[m], S2[k])
    <2>1. S[m] \in Seq(Items) /\ S[k] \in Seq(Items) /\ Apart(S[m], S[k])
      BY <1>2 DEF AreLists
    <2>2. CASE m = l
      BY <1>2, <2>2
    <2>3. CASE k = l
      <3>1. Apart(S2[l], S[m])
        BY <1>2, <2>3
      <3> QED
        BY <1>2, <2>1, <2>3, <3>1, ApartIs
    <2> QED
      BY <2>1, <2>2, <2>3
  <1> QED
    BY <1>1, <1>2 DEF AreLists

(* What the ends of a list, and of its links, are                          *)
LEMMA EndsAre ==
    ASSUME NEW nx, NEW pv, NEW h, NEW t, NEW S, AreLists(nx, pv, h, t, S),
           NEW l \in Names
    PROVE  /\ S[l] \in Seq(Items) /\ IsChain(nx, pv, S[l], h[l], t[l])
           /\ h[l] = List!Null <=> S[l] = <<>>
           /\ t[l] = List!Null <=> S[l] = <<>>
           /\ S[l] # <<>> => /\ h[l] = S[l][1] /\ 1 \in 1..Len(S[l]) /\ h[l] \in Items
                             /\ t[l] = S[l][Len(S[l])] /\ Len(S[l]) \in 1..Len(S[l])
                             /\ t[l] \in Items
  <1>1. S[l] \in Seq(Items) /\ IsChain(nx, pv, S[l], h[l], t[l])
    BY DEF AreLists
  <1> QED
    BY <1>1, ChainIs

LEMMA PushFront ==
    ASSUME ListTypes, NEW S, AreLists(next, prev, head, tail, S), NEW l \in Names,
           NEW i \in Items, \A m \in Names : \A n \in 1..Len(S[m]) : S[m][n] # i,
           next' = [next EXCEPT ![i] = head[l]],
           prev' = [j \in Items |-> IF j = i THEN List!Null
                                    ELSE IF j = head[l] THEN i ELSE prev[j]],
           tail' = IF head[l] = List!Null THEN [tail EXCEPT ![l] = i] ELSE tail,
           head' = [head EXCEPT ![l] = i]
    PROVE  AreLists(next', prev', head', tail', [S EXCEPT ![l] = <<i>> \o @])
  <1> DEFINE nx == [next EXCEPT ![i] = List!Null]
             pv == [prev EXCEPT ![i] = List!Null]
             s == S[l]
  <1>1. /\ s \in Seq(Items) /\ IsChain(next, prev, s, head[l], tail[l])
        /\ head[l] = List!Null <=> s = <<>>
        /\ s # <<>> => head[l] = s[1] /\ 1 \in 1..Len(s) /\ head[l] \in Items
    BY EndsAre
  <1>2. \A m \in Names : \A n \in 1..Len(S[m]) : S[m][n] \in Items
    BY DEF AreLists
  <1>3. /\ nx \in Pointers /\ pv \in Pointers /\ nx[i] = List!Null /\ pv[i] = List!Null
        /\ \A j \in Items \ {i} : nx[j] = next[j] /\ pv[j] = prev[j]
    BY DEF ListTypes, Pointers
  <1>4. /\ head' \in ListEnds /\ tail' \in ListEnds /\ head'[l] = i
        /\ tail'[l] = IF s = <<>> THEN i ELSE tail[l]
        /\ \A m \in Names \ {l} : head'[m] = head[m] /\ tail'[m] = tail[m]
    BY <1>1 DEF ListTypes, ListEnds
  <1>5. IsChain(nx, pv, <<i>>, i, i)
    BY <1>3, SingleChain
  <1> HIDE DEF nx, pv
  <1>6. IsChain(next', prev', <<i>> \o s, i, tail'[l])
    <2>1. CASE s = <<>>
      <3>1. next' = nx /\ prev' = pv
        <4>1. head[l] = List!Null
          BY <1>1, <2>1
        <4>2. next' = nx
          BY <4>1 DEF nx
        <4>3. \A j \in Items : j # head[l]
          BY <4>1, ItemsAssumption
        <4>4. prev' = [j \in Items |-> IF j = i THEN List!Null ELSE prev[j]]
          BY <4>3
        <4>5. pv = [j \in Items |-> IF j = i THEN List!Null ELSE prev[j]]
          BY DEF pv, ListTypes, Pointers
        <4> QED
          BY <4>2, <4>4, <4>5
      <3>2. <<i>> \o <<>> = <<i>>
        OBVIOUS
      <3> QED
        BY <1>4, <1>5, <2>1, <3>1, <3>2
    <2>2. CASE s # <<>>
      <3>1. IsChain(nx, pv, s, head[l], tail[l])
        BY <1>1, <1>2, <1>3, ChainFrame
      <3>2. Apart(<<i>>, s)
        BY <1>1, ApartIs
      <3>3. <<i>> # <<>>
        OBVIOUS
      <3>4. IsChain([nx EXCEPT ![i] = head[l]], [pv EXCEPT ![head[l]] = i], <<i>> \o s,
                    i, tail[l])
        BY <1>3, <1>5, <2>2, <3>1, <3>2, <3>3, ChainsJoin DEF Apart
      <3>5. next' = [nx EXCEPT ![i] = head[l]]
        BY DEF nx, ListTypes, Pointers
      <3>6. prev' = [pv EXCEPT ![head[l]] = i]
        <4>1. head[l] # i /\ head[l] \in Items
          BY <1>1, <2>2
        <4> QED
          BY <4>1 DEF pv, ListTypes, Pointers
      <3> QED
        BY <1>4, <2>2, <3>4, <3>5, <3>6
    <2> QED
      BY <2>1, <2>2
  <1>7. <<i>> \o s \in Seq(Items)
    BY <1>1
  <1>8. ASSUME NEW m \in Names \ {l}
        PROVE  /\ Apart(<<i>> \o s, S[m])
               /\ \A n \in 1..Len(S[m]) : /\ next'[S[m][n]] = next[S[m][n]]
                                          /\ prev'[S[m][n]] = prev[S[m][n]]
    <2>1. Apart(s, S[m]) /\ S[m] \in Seq(Items)
      BY DEF AreLists
    <2>2. Apart(<<i>>, S[m])
      BY <2>1, ApartIs
    <2>3. Apart(<<i>> \o s, S[m])
      <3>1. <<i>> \in Seq(Items)
        OBVIOUS
      <3> QED
        BY <1>1, <2>1, <2>2, <3>1, ApartIs
    <2>4. ASSUME NEW n \in 1..Len(S[m])
          PROVE  next'[S[m][n]] = next[S[m][n]] /\ prev'[S[m][n]] = prev[S[m][n]]
      <3>1. S[m][n] \in Items /\ S[m][n] # i
        BY <1>2
      <3>2. S[m][n] # head[l]
        <4>1. s # <<>> => s[1] # S[m][n]
          BY <1>1, <2>1 DEF Apart
        <4>2. s = <<>> => head[l] \notin Items
          BY <1>1, ItemsAssumption
        <4> QED
          BY <1>1, <3>1, <4>1, <4>2
      <3> QED
        BY <3>1, <3>2 DEF ListTypes, Pointers
    <2> QED
      BY <2>3, <2>4
  <1>9. [S EXCEPT ![l] = <<i>> \o @] = [S EXCEPT ![l] = <<i>> \o s]
    OBVIOUS
  <1> DEFINE S2 == [S EXCEPT ![l] = <<i>> \o @]
  <1>10. /\ S2 \in [Names -> Seq(Items)] /\ S2[l] = <<i>> \o s
         /\ \A m \in Names \ {l} : S2[m] = S[m]
    BY <1>7, <1>9 DEF AreLists
  <1> HIDE DEF S2
  <1>11. AreLists(next', prev', head', tail', S2)
    <2>1. /\ AreLists(next, prev, head, tail, S) /\ l \in Names
          /\ S2 \in [Names -> Seq(Items)]
          /\ IsChain(next', prev', S2[l], head'[l], tail'[l])
          /\ OthersStay(next, prev, head, tail, S, next', prev', head', tail', S2, l)
      BY <1>4, <1>6, <1>8, <1>10 DEF OthersStay
    <2> QED
      BY ONLY <2>1, ChangeOne
  <1> QED
    BY <1>11 DEF S2

LEMMA PushBack ==
    ASSUME ListTypes, NEW S, AreLists(next, prev, head, tail, S), NEW l \in Names,
           NEW i \in Items, \A m \in Names : \A n \in 1..Len(S[m]) : S[m][n] # i,
           prev' = [prev EXCEPT ![i] = tail[l]],
           next' = [j \in Items |-> IF j = i THEN List!Null
                                    ELSE IF j = tail[l] THEN i ELSE next[j]],
           head' = IF tail[l] = List!Null THEN [head EXCEPT ![l] = i] ELSE head,
           tail' = [tail EXCEPT ![l] = i]
    PROVE  AreLists(next', prev', head', tail', [S EXCEPT ![l] = Append(@, i)])
  <1> DEFINE nx == [next EXCEPT ![i] = List!Null]
             pv == [prev EXCEPT ![i] = List!Null]
             s == S[l]
  <1>1. /\ s \in Seq(Items) /\ IsChain(next, prev, s, head[l], tail[l])
        /\ tail[l] = List!Null <=> s = <<>>
        /\ s # <<>> => tail[l] = s[Len(s)] /\ Len(s) \in 1..Len(s) /\ tail[l] \in Items
    BY EndsAre
  <1>2. \A m \in Names : \A n \in 1..Len(S[m]) : S[m][n] \in Items
    BY DEF AreLists
  <1>3. /\ nx \in Pointers /\ pv \in Pointers /\ nx[i] = List!Null /\ pv[i] = List!Null
        /\ \A j \in Items \ {i} : nx[j] = next[j] /\ pv[j] = prev[j]
    BY DEF ListTypes, Pointers
  <1>4. /\ head' \in ListEnds /\ tail' \in ListEnds /\ tail'[l] = i
        /\ head'[l] = IF s = <<>> THEN i ELSE head[l]
        /\ \A m \in Names \ {l} : head'[m] = head[m] /\ tail'[m] = tail[m]
    BY <1>1 DEF ListTypes, ListEnds
  <1>5. IsChain(nx, pv, <<i>>, i, i)
    BY <1>3, SingleChain
  <1> HIDE DEF nx, pv
  <1>6. IsChain(next', prev', s \o <<i>>, head'[l], i)
    <2>1. CASE s = <<>>
      <3>1. next' = nx /\ prev' = pv
        <4>1. tail[l] = List!Null
          BY <1>1, <2>1
        <4>2. prev' = pv
          BY <4>1 DEF pv
        <4>3. \A j \in Items : j # tail[l]
          BY <4>1, ItemsAssumption
        <4>4. next' = [j \in Items |-> IF j = i THEN List!Null ELSE next[j]]
          BY <4>3
        <4>5. nx = [j \in Items |-> IF j = i THEN List!Null ELSE next[j]]
          BY DEF nx, ListTypes, Pointers
        <4> QED
          BY <4>2, <4>4, <4>5
      <3>2. <<>> \o <<i>> = <<i>>
        OBVIOUS
      <3> QED
        BY <1>4, <1>5, <2>1, <3>1, <3>2
    <2>2. CASE s # <<>>
      <3>1. IsChain(nx, pv, s, head[l], tail[l])
        BY <1>1, <1>2, <1>3, ChainFrame
      <3>2. Apart(s, <<i>>)
        <4>1. Apart(<<i>>, s) /\ <<i>> \in Seq(Items)
          BY <1>1, ApartIs
        <4> QED
          BY <1>1, <4>1, ApartIs
      <3>3. <<i>> # <<>>
        OBVIOUS
      <3>4. IsChain([nx EXCEPT ![tail[l]] = i], [pv EXCEPT ![i] = tail[l]], s \o <<i>>,
                    head[l], i)
        BY <1>3, <1>5, <2>2, <3>1, <3>2, <3>3, ChainsJoin DEF Apart
      <3>5. prev' = [pv EXCEPT ![i] = tail[l]]
        BY DEF pv, ListTypes, Pointers
      <3>6. next' = [nx EXCEPT ![tail[l]] = i]
        <4>1. tail[l] # i /\ tail[l] \in Items
          BY <1>1, <2>2
        <4> QED
          BY <4>1 DEF nx, ListTypes, Pointers
      <3> QED
        BY <1>4, <2>2, <3>4, <3>5, <3>6
    <2> QED
      BY <2>1, <2>2
  <1>7. s \o <<i>> \in Seq(Items)
    BY <1>1
  <1>8. ASSUME NEW m \in Names \ {l}
        PROVE  /\ Apart(s \o <<i>>, S[m])
               /\ \A n \in 1..Len(S[m]) : /\ next'[S[m][n]] = next[S[m][n]]
                                          /\ prev'[S[m][n]] = prev[S[m][n]]
    <2>1. Apart(s, S[m]) /\ S[m] \in Seq(Items)
      BY DEF AreLists
    <2>2. Apart(<<i>>, S[m])
      BY <2>1, ApartIs
    <2>3. Apart(s \o <<i>>, S[m])
      <3>1. <<i>> \in Seq(Items)
        OBVIOUS
      <3> QED
        BY <1>1, <2>1, <2>2, <3>1, ApartIs
    <2>4. ASSUME NEW n \in 1..Len(S[m])
          PROVE  next'[S[m][n]] = next[S[m][n]] /\ prev'[S[m][n]] = prev[S[m][n]]
      <3>1. S[m][n] \in Items /\ S[m][n] # i
        BY <1>2
      <3>2. S[m][n] # tail[l]
        <4>1. s # <<>> => s[Len(s)] # S[m][n]
          BY <1>1, <2>1 DEF Apart
        <4>2. s = <<>> => tail[l] \notin Items
          BY <1>1, ItemsAssumption
        <4> QED
          BY <1>1, <3>1, <4>1, <4>2
      <3> QED
        BY <3>1, <3>2 DEF ListTypes, Pointers
    <2> QED
      BY <2>3, <2>4
  <1>9. [S EXCEPT ![l] = Append(@, i)] = [S EXCEPT ![l] = s \o <<i>>]
    <2>1. Append(s, i) = s \o <<i>>
      BY <1>1
    <2> QED
      BY <2>1
  <1> DEFINE S2 == [S EXCEPT ![l] = Append(@, i)]
  <1>10. /\ S2 \in [Names -> Seq(Items)] /\ S2[l] = s \o <<i>>
         /\ \A m \in Names \ {l} : S2[m] = S[m]
    BY <1>7, <1>9 DEF AreLists
  <1> HIDE DEF S2
  <1>11. AreLists(next', prev', head', tail', S2)
    <2>1. /\ AreLists(next, prev, head, tail, S) /\ l \in Names
          /\ S2 \in [Names -> Seq(Items)]
          /\ IsChain(next', prev', S2[l], head'[l], tail'[l])
          /\ OthersStay(next, prev, head, tail, S, next', prev', head', tail', S2, l)
      BY <1>4, <1>6, <1>8, <1>10 DEF OthersStay
    <2> QED
      BY ONLY <2>1, ChangeOne
  <1> QED
    BY <1>11 DEF S2
(* An item is cut out of a list: pop_front, pop_back and remove.           *)
LEMMA CutOut ==
    ASSUME ListTypes, NEW S, AreLists(next, prev, head, tail, S), NEW l \in Names,
           NEW k \in 1..Len(S[l]), NEW i, i = S[l][k],
           next' = IF prev[i] # List!Null THEN [next EXCEPT ![prev[i]] = next[i]] ELSE next,
           prev' = IF next[i] # List!Null THEN [prev EXCEPT ![next[i]] = prev[i]] ELSE prev,
           head' = IF prev[i] # List!Null THEN head ELSE [head EXCEPT ![l] = next[i]],
           tail' = IF next[i] # List!Null THEN tail ELSE [tail EXCEPT ![l] = prev[i]]
    PROVE  AreLists(next', prev', head', tail', [S EXCEPT ![l] = RemoveAt(@, k)])
  <1> DEFINE s == S[l]
  <1>1. s \in Seq(Items) /\ IsChain(next, prev, s, head[l], tail[l])
    BY EndsAre
  <1>2. \A m \in Names : \A n \in 1..Len(S[m]) : S[m][n] \in Items
    BY DEF AreLists
  <1>3. i \in Items /\ next[i] \in Items \cup {List!Null} /\ prev[i] \in Items \cup {List!Null}
    BY <1>2 DEF ListTypes, Pointers
  <1>4. /\ head'[l] = IF prev[i] # List!Null THEN head[l] ELSE next[i]
        /\ tail'[l] = IF next[i] # List!Null THEN tail[l] ELSE prev[i]
        /\ \A m \in Names \ {l} : head'[m] = head[m] /\ tail'[m] = tail[m]
    BY DEF ListTypes, ListEnds
  <1>5. /\ prev[i] # List!Null => \E n \in 1..Len(s) : prev[i] = s[n]
        /\ next[i] # List!Null => \E n \in 1..Len(s) : next[i] = s[n]
    <2>1. next[i] = At(s, k + 1) /\ prev[i] = At(s, k - 1)
      BY <1>1 DEF IsChain
    <2> QED
      BY <2>1 DEF At
  <1>6. IsChain(next', prev', RemoveAt(s, k), head'[l], tail'[l])
    <2>1. next \in Pointers /\ prev \in Pointers
      BY DEF ListTypes
    <2>2. IsChain(IF prev[i] # List!Null THEN [next EXCEPT ![prev[i]] = next[i]] ELSE next,
                  IF next[i] # List!Null THEN [prev EXCEPT ![next[i]] = prev[i]] ELSE prev,
                  RemoveAt(s, k),
                  IF prev[i] # List!Null THEN head[l] ELSE next[i],
                  IF next[i] # List!Null THEN tail[l] ELSE prev[i])
      BY <1>1, <2>1, ChainCut
    <2> QED
      BY <1>4, <2>2
  <1>7. RemoveAt(s, k) \in Seq(Items)
    BY <1>1, RemovedAt
  <1>8. ASSUME NEW m \in Names \ {l}
        PROVE  /\ Apart(RemoveAt(s, k), S[m])
               /\ \A n \in 1..Len(S[m]) : /\ next'[S[m][n]] = next[S[m][n]]
                                          /\ prev'[S[m][n]] = prev[S[m][n]]
    <2>1. Apart(s, S[m]) /\ S[m] \in Seq(Items)
      BY DEF AreLists
    <2>2. Apart(RemoveAt(s, k), S[m])
      BY <1>1, <2>1, ApartIs
    <2>3. ASSUME NEW n \in 1..Len(S[m])
          PROVE  next'[S[m][n]] = next[S[m][n]] /\ prev'[S[m][n]] = prev[S[m][n]]
      <3>1. S[m][n] \in Items
        BY <1>2
      <3>2. /\ prev[i] # List!Null => S[m][n] # prev[i]
            /\ next[i] # List!Null => S[m][n] # next[i]
        BY <1>5, <2>1 DEF Apart
      <3> QED
        BY <3>1, <3>2 DEF ListTypes, Pointers
    <2> QED
      BY <2>2, <2>3
  <1> DEFINE S2 == [S EXCEPT ![l] = RemoveAt(@, k)]
  <1>9. /\ S2 \in [Names -> Seq(Items)] /\ S2[l] = RemoveAt(s, k)
        /\ \A m \in Names \ {l} : S2[m] = S[m]
    BY <1>7 DEF AreLists
  <1> HIDE DEF S2
  <1>10. AreLists(next', prev', head', tail', S2)
    <2>1. /\ AreLists(next, prev, head, tail, S) /\ l \in Names
          /\ S2 \in [Names -> Seq(Items)]
          /\ IsChain(next', prev', S2[l], head'[l], tail'[l])
          /\ OthersStay(next, prev, head, tail, S, next', prev', head', tail', S2, l)
      BY <1>4, <1>6, <1>8, <1>9 DEF OthersStay
    <2> QED
      BY ONLY <2>1, ChangeOne
  <1> QED
    BY <1>10 DEF S2

(* One list gets the items of both, the other is left empty.               *)
LEMMA BecomeOne ==
    ASSUME NEW S, AreLists(next, prev, head, tail, S), NEW l \in Names, NEW m \in Names,
           l # m, NEW s, IsChain(next', prev', s, head'[l], tail'[l]),
           head'[m] = List!Null, tail'[m] = List!Null,
           NEW S2 \in [Names -> Seq(Items)], S2[l] = s, S2[m] = <<>>
    PROVE  AreLists(next', prev', head', tail', S2)
  <1>1. \A j \in Names : j = l \/ j = m
    BY DEF Names
  <1>2. IsChain(next', prev', <<>>, head'[m], tail'[m])
    BY EmptyChain
  <1>3. \A j \in Names : IsChain(next', prev', S2[j], head'[j], tail'[j])
    BY <1>1, <1>2
  <1>4. Apart(S2[l], S2[m]) /\ Apart(S2[m], S2[l])
    <2>1. s \in Seq(Items) /\ <<>> \in Seq(Items)
      BY DEF IsChain
    <2> QED
      BY <2>1, ApartIs
  <1>5. \A j, k \in Names : j # k => Apart(S2[j], S2[k])
    BY <1>1, <1>4
  <1> QED
    BY <1>3, <1>5 DEF AreLists

LEMMA Joins ==
    ASSUME ListTypes, NEW S, AreLists(next, prev, head, tail, S), NEW l \in Names,
           NEW m \in Names
    PROVE  /\ List!append(l, m) =>
                  AreLists(next', prev', head', tail',
                           [S EXCEPT ![l] = S[l] \o S[m], ![m] = <<>>])
           /\ List!prepend(l, m) =>
                  AreLists(next', prev', head', tail',
                           [S EXCEPT ![l] = S[m] \o S[l], ![m] = <<>>])
  <1> DEFINE Joined(s) == [S EXCEPT ![l] = s, ![m] = <<>>]
  <1>1. /\ S[l] \in Seq(Items) /\ IsChain(next, prev, S[l], head[l], tail[l])
        /\ S[m] \in Seq(Items) /\ IsChain(next, prev, S[m], head[m], tail[m])
        /\ head[l] = List!Null <=> S[l] = <<>>
        /\ head[m] = List!Null <=> S[m] = <<>>
    BY EndsAre
  <1>2. ASSUME NEW h, NEW t, l # m, List!Move(l, m, h, t)
        PROVE  head'[l] = h /\ head'[m] = List!Null /\ tail'[l] = t /\ tail'[m] = List!Null
    BY <1>2 DEF List!Move, ListTypes, ListEnds
  <1>3. ASSUME NEW s \in Seq(Items), l # m, NEW h, NEW t, List!Move(l, m, h, t),
               IsChain(next', prev', s, h, t)
        PROVE  AreLists(next', prev', head', tail', Joined(s))
    <2>1. /\ head'[l] = h /\ head'[m] = List!Null /\ tail'[l] = t /\ tail'[m] = List!Null
          /\ IsChain(next', prev', s, head'[l], tail'[l])
      BY <1>2, <1>3
    <2>2. /\ Joined(s) \in [Names -> Seq(Items)] /\ Joined(s)[l] = s
          /\ Joined(s)[m] = <<>>
      BY <1>3, SMTT(30) DEF AreLists
    <2> HIDE DEF Joined
    <2>3. l # m /\ l \in Names /\ m \in Names /\ AreLists(next, prev, head, tail, S)
      BY <1>3
    <2> QED
      BY ONLY <2>1, <2>2, <2>3, BecomeOne
  <1>4. S[l] \o S[m] \in Seq(Items) /\ S[m] \o S[l] \in Seq(Items)
    BY <1>1
  <1>5. ASSUME l # m, List!TakeOver(l, m)
        PROVE  /\ AreLists(next', prev', head', tail', Joined(S[l] \o S[m]))
               /\ AreLists(next', prev', head', tail', Joined(S[m] \o S[l]))
    <2>1. S[l] = <<>> /\ List!Move(l, m, head[m], tail[m]) /\ next' = next /\ prev' = prev
      BY <1>1, <1>5 DEF List!TakeOver, List!Empty
    <2>2. S[l] \o S[m] = S[m] /\ S[m] \o S[l] = S[m]
      BY <1>1, <2>1
    <2>3. IsChain(next', prev', S[m], head[m], tail[m])
      BY <1>1, <2>1
    <2>4. AreLists(next', prev', head', tail', Joined(S[m]))
      <3> HIDE DEF Joined
      <3> QED
        BY <1>1, <1>3, <1>5, <2>1, <2>3
    <2> QED
      BY <2>2, <2>4
  <1>6. next \in Pointers /\ prev \in Pointers
    BY DEF ListTypes
  <1>7. l # m => Apart(S[l], S[m]) /\ Apart(S[m], S[l])
    BY DEF AreLists
  <1>8. ASSUME List!append(l, m)
        PROVE  AreLists(next', prev', head', tail', Joined(S[l] \o S[m]))
    <2>1. l # m
      BY <1>8 DEF List!append
    <2>2. CASE List!TakeOver(l, m)
      BY <1>5, <2>1, <2>2
    <2>3. CASE ~List!TakeOver(l, m)
      <3>1. /\ S[l] # <<>> /\ S[m] # <<>> /\ List!Move(l, m, head[l], tail[m])
            /\ next' = [next EXCEPT ![tail[l]] = head[m]]
            /\ prev' = [prev EXCEPT ![head[m]] = tail[l]]
        BY <1>1, <1>8, <2>3 DEF List!append, List!Empty
      <3>2. IsChain(next', prev', S[l] \o S[m], head[l], tail[m])
        BY <1>1, <1>6, <1>7, <2>1, <3>1, ChainsJoin DEF Apart
      <3> HIDE DEF Joined
      <3> QED
        BY <1>3, <1>4, <2>1, <3>1, <3>2
    <2> QED
      BY <2>2, <2>3
  <1>9. ASSUME List!prepend(l, m)
        PROVE  AreLists(next', prev', head', tail', Joined(S[m] \o S[l]))
    <2>1. l # m
      BY <1>9 DEF List!prepend
    <2>2. CASE List!TakeOver(l, m)
      BY <1>5, <2>1, <2>2
    <2>3. CASE ~List!TakeOver(l, m)
      <3>1. /\ S[l] # <<>> /\ S[m] # <<>> /\ List!Move(l, m, head[m], tail[l])
            /\ next' = [next EXCEPT ![tail[m]] = head[l]]
            /\ prev' = [prev EXCEPT ![head[l]] = tail[m]]
        BY <1>1, <1>9, <2>3 DEF List!prepend, List!Empty
      <3>2. IsChain(next', prev', S[m] \o S[l], head[m], tail[l])
        BY <1>1, <1>6, <1>7, <2>1, <3>1, ChainsJoin DEF Apart
      <3> HIDE DEF Joined
      <3> QED
        BY <1>3, <1>4, <2>1, <3>1, <3>2
    <2> QED
      BY <2>2, <2>3
  <1> QED
    BY <1>8, <1>9

(* The steps that the sequences take.                                      *)
Held(S) == UNION {ToSet(S[l]) : l \in Names}

Moved(S, S2) ==
    \E l \in Names :
       \/ \E i \in Items : /\ i \notin Held(S)
                           /\ S2 \in {[S EXCEPT ![l] = <<i>> \o @], [S EXCEPT ![l] = Append(@, i)]}
       \/ /\ S[l] # <<>>
          /\ \E n \in DOMAIN S[l] : S2 = [S EXCEPT ![l] = RemoveAt(@, n)]
       \/ \E m \in Names :
             /\ l # m
             /\ S2 \in {[S EXCEPT ![l] = @ \o S[m], ![m] = <<>>],
                        [S EXCEPT ![l] = S[m] \o @, ![m] = <<>>]}

(* What the walks along the pointers find *)
LEMMA WalksFind ==
    ASSUME NEW nx, NEW pv, NEW h, NEW t, NEW S, AreLists(nx, pv, h, t, S), NEW l \in Names
    PROVE  List!Walk(nx, h[l]) = S[l] /\ List!Reverse(List!Walk(pv, t[l])) = S[l]
  <1>1. IsChain(nx, pv, S[l], h[l], t[l])
    BY DEF AreLists
  <1>2. List!Walk(nx, h[l]) = S[l] /\ Reverse(List!Walk(pv, t[l])) = S[l]
    BY <1>1, BothWays
  <1> QED
    BY <1>2 DEF List!Reverse, Reverse

LEMMA ListFits ==
    ASSUME NEW S, AreLists(next, prev, head, tail, S)
    PROVE  /\ [l \in Names |-> List!Content(l)] = S
           /\ \A l \in Names : List!Walk(next, head[l]) = S[l]
           /\ List!Listed = Held(S)
  <1>1. ASSUME NEW l \in Names
        PROVE  /\ List!Walk(next, head[l]) = S[l]
               /\ List!Reverse(List!Walk(prev, tail[l])) = S[l]
    BY WalksFind
  <1>2. \A l \in Names : List!Content(l) = S[l]
    BY <1>1 DEF List!Content
  <1>3. [l \in Names |-> List!Content(l)] = S
    BY <1>2 DEF AreLists
  <1>4. List!Listed = Held(S)
    BY <1>1 DEF List!Listed, Held, Names, List!ToSet, ToSet
  <1> QED
    BY <1>1, <1>3, <1>4

LEMMA NextListFits ==
    ASSUME NEW S, AreLists(next', prev', head', tail', S)
    PROVE  [l \in Names |-> List!Content(l)]' = S
  <1>1. ASSUME NEW l \in Names
        PROVE  /\ List!Walk(next', head'[l]) = S[l]
               /\ List!Reverse(List!Walk(prev', tail'[l])) = S[l]
    BY WalksFind
  <1>2. \A l \in Names : List!Content(l)' = S[l]
    BY <1>1 DEF List!Content
  <1> QED
    BY <1>2 DEF AreLists

LEMMA ListTypesStep == ListInv /\ List!Next => ListTypes'
  <1> SUFFICES ASSUME ListInv, NEW l \in Names,
                      \/ \E i \in Items : \/ List!push_front(l, i) \/ List!push_back(l, i)
                                          \/ List!remove(l, i)
                      \/ List!pop_front(l) \/ List!pop_back(l)
                      \/ \E other \in Names : List!append(l, other) \/ List!prepend(l, other)
               PROVE  ListTypes'
    BY DEF List!Next, Names
  <1>1. head[l] # List!Null => tail[l] \in Items
    BY EndsAre DEF ListInv
  <1> USE DEF ListInv, ListTypes, ListEnds, Pointers
  <1>2. CASE \E i \in Items : List!push_front(l, i)
    BY <1>2 DEF List!push_front, List!Empty
  <1>3. CASE \E i \in Items : List!push_back(l, i)
    BY <1>3 DEF List!push_back
  <1>4. CASE \E i \in Items : List!remove(l, i)
    BY <1>4 DEF List!remove
  <1>5. CASE List!pop_front(l)
    <2>1. head[l] \in Items
      BY <1>5 DEF List!pop_front, List!Empty
    <2> QED
      BY <1>5, <2>1 DEF List!pop_front
  <1>6. CASE List!pop_back(l)
    BY <1>1, <1>6 DEF List!pop_back, List!Empty
  <1>7. CASE \E other \in Names : List!append(l, other)
    BY <1>7 DEF List!append, List!TakeOver, List!Move
  <1>8. CASE \E other \in Names : List!prepend(l, other)
    BY <1>8 DEF List!prepend, List!TakeOver, List!Move
  <1> QED
    BY <1>2, <1>3, <1>4, <1>5, <1>6, <1>7, <1>8

LEMMA ListMoves ==
    ASSUME ListTypes, NEW S, AreLists(next, prev, head, tail, S), List!Next
    PROVE  \E S2 : AreLists(next', prev', head', tail', S2) /\ Moved(S, S2)
  <1> SUFFICES ASSUME NEW l \in Names,
                      \/ \E i \in Items : \/ List!push_front(l, i) \/ List!push_back(l, i)
                                          \/ List!remove(l, i)
                      \/ List!pop_front(l) \/ List!pop_back(l)
                      \/ \E other \in Names : List!append(l, other) \/ List!prepend(l, other)
               PROVE  \E S2 : AreLists(next', prev', head', tail', S2) /\ Moved(S, S2)
    BY DEF List!Next, Names
  <1>1. /\ S[l] \in Seq(Items) /\ IsChain(next, prev, S[l], head[l], tail[l])
        /\ head[l] = List!Null <=> S[l] = <<>>
        /\ tail[l] = List!Null <=> S[l] = <<>>
        /\ S[l] # <<>> => /\ head[l] = S[l][1] /\ 1 \in 1..Len(S[l]) /\ head[l] \in Items
                          /\ tail[l] = S[l][Len(S[l])] /\ Len(S[l]) \in 1..Len(S[l])
                          /\ tail[l] \in Items
    BY EndsAre
  <1>2. DOMAIN S[l] = 1..Len(S[l])
    BY <1>1
  <1>3. ASSUME NEW i \in Items, List!push_front(l, i) \/ List!push_back(l, i)
        PROVE  i \notin Held(S) /\ \A m \in Names : \A n \in 1..Len(S[m]) : S[m][n] # i
    <2>1. i \notin Held(S)
      BY <1>3, ListFits DEF List!push_front, List!push_back
    <2>2. \A m \in Names : DOMAIN S[m] = 1..Len(S[m])
      BY DEF AreLists
    <2> QED
      BY <2>1, <2>2 DEF Held, ToSet
  <1>4. ASSUME NEW k \in 1..Len(S[l]), NEW i, i = S[l][k],
               next' = IF prev[i] # List!Null THEN [next EXCEPT ![prev[i]] = next[i]] ELSE next,
               prev' = IF next[i] # List!Null THEN [prev EXCEPT ![next[i]] = prev[i]] ELSE prev,
               head' = IF prev[i] # List!Null THEN head ELSE [head EXCEPT ![l] = next[i]],
               tail' = IF next[i] # List!Null THEN tail ELSE [tail EXCEPT ![l] = prev[i]]
        PROVE  \E S2 : AreLists(next', prev', head', tail', S2) /\ Moved(S, S2)
    <2>1. AreLists(next', prev', head', tail', [S EXCEPT ![l] = RemoveAt(@, k)])
      BY <1>4, CutOut
    <2>2. S[l] # <<>>
      BY <1>4
    <2>3. Moved(S, [S EXCEPT ![l] = RemoveAt(@, k)])
      BY <1>2, <2>2 DEF Moved
    <2> QED
      BY <2>1, <2>3
  <1>5. CASE \E i \in Items : List!push_front(l, i)
    <2>1. PICK i \in Items : List!push_front(l, i)
      BY <1>5
    <2>2. AreLists(next', prev', head', tail', [S EXCEPT ![l] = <<i>> \o @])
      <3>1. \A m \in Names : \A n \in 1..Len(S[m]) : S[m][n] # i
        BY <1>3, <2>1
      <3> QED
        BY <2>1, <3>1, PushFront DEF List!push_front, List!Empty
    <2>3. Moved(S, [S EXCEPT ![l] = <<i>> \o @])
      BY <1>3, <2>1 DEF Moved
    <2> QED
      BY <2>2, <2>3
  <1>6. CASE \E i \in Items : List!push_back(l, i)
    <2>1. PICK i \in Items : List!push_back(l, i)
      BY <1>6
    <2>2. AreLists(next', prev', head', tail', [S EXCEPT ![l] = Append(@, i)])
      <3>1. \A m \in Names : \A n \in 1..Len(S[m]) : S[m][n] # i
        BY <1>3, <2>1
      <3> QED
        BY <2>1, <3>1, PushBack DEF List!push_back
    <2>3. Moved(S, [S EXCEPT ![l] = Append(@, i)])
      BY <1>3, <2>1 DEF Moved
    <2> QED
      BY <2>2, <2>3
  <1>7. CASE List!pop_front(l)
    <2>1. S[l] # <<>>
      BY <1>1, <1>7 DEF List!pop_front, List!Empty
    <2>2. 1 \in 1..Len(S[l]) /\ head[l] = S[l][1] /\ head[l] \in Items
      BY <1>1, <2>1
    <2>3. prev[head[l]] = List!Null
      BY <1>1, <2>2, ChainIs
    <2>4. /\ next' = next
          /\ prev' = IF next[head[l]] # List!Null
                     THEN [prev EXCEPT ![next[head[l]]] = prev[head[l]]] ELSE prev
          /\ head' = [head EXCEPT ![l] = next[head[l]]]
          /\ tail' = IF next[head[l]] # List!Null
                     THEN tail ELSE [tail EXCEPT ![l] = prev[head[l]]]
      BY <1>7, <2>3 DEF List!pop_front
    <2> QED
      BY <1>4, <2>2, <2>3, <2>4
  <1>8. CASE List!pop_back(l)
    <2>1. S[l] # <<>>
      BY <1>1, <1>8 DEF List!pop_back, List!Empty
    <2>2. /\ Len(S[l]) \in 1..Len(S[l]) /\ tail[l] = S[l][Len(S[l])] /\ tail[l] \in Items
      BY <1>1, <2>1
    <2>3. next[tail[l]] = List!Null
      BY <1>1, <2>2, ChainIs
    <2>4. /\ prev' = prev
          /\ next' = IF prev[tail[l]] # List!Null
                     THEN [next EXCEPT ![prev[tail[l]]] = next[tail[l]]] ELSE next
          /\ tail' = [tail EXCEPT ![l] = prev[tail[l]]]
          /\ head' = IF prev[tail[l]] # List!Null
                     THEN head ELSE [head EXCEPT ![l] = next[tail[l]]]
      BY <1>8, <2>3 DEF List!pop_back
    <2> QED
      BY <1>4, <2>2, <2>3, <2>4
  <1>9. CASE \E i \in Items : List!remove(l, i)
    <2>1. PICK i \in Items : List!remove(l, i)
      BY <1>9
    <2>2. PICK k \in 1..Len(S[l]) : i = S[l][k]
      <3>1. i \in ToSet(S[l])
        BY <2>1, ListFits DEF List!remove, List!ToSet, ToSet
      <3> QED
        BY <1>2, <3>1 DEF ToSet
    <2>3. /\ next' = IF prev[i] # List!Null THEN [next EXCEPT ![prev[i]] = next[i]] ELSE next
          /\ prev' = IF next[i] # List!Null THEN [prev EXCEPT ![next[i]] = prev[i]] ELSE prev
          /\ head' = IF prev[i] # List!Null THEN head ELSE [head EXCEPT ![l] = next[i]]
          /\ tail' = IF next[i] # List!Null THEN tail ELSE [tail EXCEPT ![l] = prev[i]]
      BY <2>1 DEF List!remove
    <2> QED
      BY <1>4, <2>2, <2>3
  <1>10. CASE \E m \in Names : List!append(l, m) \/ List!prepend(l, m)
    <2>1. PICK m \in Names : List!append(l, m) \/ List!prepend(l, m)
      BY <1>10
    <2>2. l # m
      BY <2>1 DEF List!append, List!prepend
    <2>3. CASE List!append(l, m)
      <3>1. AreLists(next', prev', head', tail',
                     [S EXCEPT ![l] = S[l] \o S[m], ![m] = <<>>])
        BY <2>3, Joins
      <3>2. Moved(S, [S EXCEPT ![l] = S[l] \o S[m], ![m] = <<>>])
        BY <2>2 DEF Moved
      <3> QED
        BY <3>1, <3>2
    <2>4. CASE List!prepend(l, m)
      <3>1. AreLists(next', prev', head', tail',
                     [S EXCEPT ![l] = S[m] \o S[l], ![m] = <<>>])
        BY <2>4, Joins
      <3>2. Moved(S, [S EXCEPT ![l] = S[m] \o S[l], ![m] = <<>>])
        BY <2>2 DEF Moved
      <3> QED
        BY <3>1, <3>2
    <2> QED
      BY <2>1, <2>3, <2>4
  <1> QED
    BY <1>5, <1>6, <1>7, <1>8, <1>9, <1>10

(* Whatever happens to them, the pointers of intrusive_list are those of   *)
(* the sequences of items that its operations make, in both directions and *)
(* for any number of items.                                                *)
THEOREM ListsAreAsPromised == Spec => ImplementsList
  <1> DEFINE Lists2 == [l \in Names |-> List!Content(l)]
  <1>1. Init => ListInv /\ List!Abstract!Init
    <2> SUFFICES ASSUME Init PROVE ListInv /\ List!Abstract!Init
      OBVIOUS
    <2> DEFINE S == [l \in Names |-> <<>>]
    <2>1. ListTypes
      BY DEF Init, List!Init, ListTypes, ListEnds, Pointers, Names
    <2>2. AreLists(next, prev, head, tail, S)
      <3>1. \A l \in Names : head[l] = List!Null /\ tail[l] = List!Null
        BY DEF Init, List!Init, Names
      <3>2. S \in [Names -> Seq(Items)] /\ \A l \in Names : S[l] = <<>>
        OBVIOUS
      <3>3. \A l \in Names : IsChain(next, prev, S[l], head[l], tail[l])
        BY <3>1, EmptyChain
      <3>4. \A l, m \in Names : Apart(S[l], S[m])
        BY DEF Apart
      <3> QED
        BY <3>2, <3>3, <3>4 DEF AreLists
    <2>3. Lists2 = S
      BY <2>2, ListFits
    <2> QED
      BY <2>1, <2>2, <2>3 DEF ListInv, List!Abstract!Init, Names
  <1>2. ListInv /\ [Next]_vars => ListInv' /\ (List!Abstract!Next \/ Lists2' = Lists2)
    <2> SUFFICES ASSUME ListInv, [Next]_vars
                 PROVE  ListInv' /\ (List!Abstract!Next \/ Lists2' = Lists2)
      OBVIOUS
    <2>1. PICK S : AreLists(next, prev, head, tail, S)
      BY DEF ListInv
    <2>2. Lists2 = S
      BY <2>1, ListFits
    <2>3. CASE UNCHANGED listVars
      <3>1. AreLists(next', prev', head', tail', S) /\ ListTypes'
        BY <2>1, <2>3 DEF listVars, ListInv, ListTypes
      <3>2. Lists2' = S
        BY <3>1, NextListFits
      <3> QED
        BY <2>2, <3>1, <3>2 DEF ListInv
    <2>4. CASE List!Next
      <3>1. PICK S2 : AreLists(next', prev', head', tail', S2) /\ Moved(S, S2)
        BY <2>1, <2>4, ListMoves DEF ListInv
      <3>2. Lists2' = S2
        BY <3>1, NextListFits
      <3>3. ListInv'
        BY <2>4, <3>1, ListTypesStep DEF ListInv
      <3>4. List!Abstract!Next
        <4>1. Moved(Lists2, Lists2')
          BY <2>2, <3>1, <3>2
        <4> HIDE DEF Lists2
        <4> QED
          BY <4>1 DEF Lists2, Moved, Held, ToSet, RemoveAt, Names,
             List!Abstract!Next, List!Abstract!Insert, List!Abstract!TakeOut,
             List!Abstract!Join, List!Abstract!Listed, List!Abstract!ToSet,
             List!Abstract!RemoveAt
      <3> QED
        BY <3>3, <3>4
    <2> QED
      BY <2>3, <2>4 DEF Next, vars
  <1>3. ListInv /\ [Next]_vars => ListInv' /\ [List!Abstract!Next]_(Lists2)
    BY <1>2
  <1> QED
    BY <1>1, <1>3, PTL DEF Spec, ImplementsList, List!ImplementsList,
       List!Abstract!Spec, Names

(***************************************************************************)
(* Recursive functions of numbers                                          *)
(***************************************************************************)

(* Where a step leads from number to number, there is a recursive function.*)
IsRecursion(f, N, init, step) ==
    f = [n \in 0..N |-> IF n = 0 THEN init ELSE step[<<n, f[n - 1]>>]]

LEMMA RecursionExists ==
    ASSUME NEW N \in Nat, NEW init, NEW step
    PROVE  \E f : IsRecursion(f, N, init, step)
  <1> DEFINE Upto(k, f) == IsRecursion(f, k, init, step)
             S == {k \in Nat : \E f : Upto(k, f)}
  <1>1. 0 \in S
    <2>1. Upto(0, [n \in 0..0 |-> init])
      BY DEF IsRecursion
    <2> QED
      BY <2>1
  <1>2. ASSUME NEW k \in Nat, k \in S
        PROVE  k + 1 \in S
    <2>1. PICK f : Upto(k, f)
      BY <1>2
    <2> DEFINE g == [n \in 0..(k + 1) |-> IF n = k + 1 THEN step[<<n, f[k]>>] ELSE f[n]]
    <2>2. \A n \in 0..k : f[n] = IF n = 0 THEN init ELSE step[<<n, f[n - 1]>>]
      BY <2>1 DEF IsRecursion
    <2>3. ASSUME NEW n \in 0..(k + 1)
          PROVE  g[n] = IF n = 0 THEN init ELSE step[<<n, g[n - 1]>>]
      <3>1. CASE n = k + 1
        <4>1. g[n] = step[<<n, f[k]>>] /\ g[n - 1] = f[k] /\ n # 0
          BY <3>1
        <4> QED
          BY <4>1
      <3>2. CASE n # k + 1
        <4>1. n \in 0..k /\ g[n] = f[n]
          BY <3>2
        <4>2. n # 0 => g[n - 1] = f[n - 1]
          BY <4>1
        <4> QED
          BY <2>2, <4>1, <4>2
      <3> QED
        BY <3>1, <3>2
    <2>4. Upto(k + 1, g)
      BY <2>3, Zenon DEF IsRecursion
    <2> HIDE DEF Upto, g
    <2>5. \E f2 : Upto(k + 1, f2)
      BY <2>4
    <2> QED
      BY <2>5
  <1> HIDE DEF S
  <1>3. N \in S
    BY <1>1, <1>2, Induction
  <1> QED
    BY <1>3 DEF S

(* What holds at 0 and of n if of n - 1, holds up to N. *)
LEMMA UpTo ==
    ASSUME NEW N \in Nat, NEW S, 0 \in S, \A n \in 1..N : n - 1 \in S => n \in S
    PROVE  0..N \subseteq S
  <1> DEFINE T == {n \in Nat : n <= N => n \in S}
  <1>1. 0 \in T
    OBVIOUS
  <1>2. \A n \in Nat : n \in T => n + 1 \in T
    <2> SUFFICES ASSUME NEW n \in Nat, n \in T, n + 1 <= N PROVE n + 1 \in S
      OBVIOUS
    <2>1. n + 1 \in 1..N /\ (n + 1) - 1 = n /\ n \in S
      OBVIOUS
    <2> QED
      BY <2>1
  <1> HIDE DEF T
  <1>3. Nat \subseteq T
    BY <1>1, <1>2, Induction
  <1> QED
    BY <1>3 DEF T

LEMMA GreatestNumber ==
    ASSUME NEW N \in Nat, NEW S \in SUBSET (0..N), S # {}
    PROVE  /\ Queue!Max(S) \in S
           /\ \A n \in S : n <= Queue!Max(S)
  <1> DEFINE T == {N - n : n \in S}
  <1>1. \A n \in S : n \in Int /\ N - n \in Nat
    OBVIOUS
  <1>2. T \in SUBSET Nat /\ T # {}
    BY <1>1
  <1>3. PICK m \in T : \A n \in T : m <= n
    BY <1>2, LeastNumber
  <1>4. PICK k \in S : m = N - k
    BY <1>3
  <1>5. \A n \in S : k >= n
    <2> SUFFICES ASSUME NEW n \in S PROVE k >= n
      OBVIOUS
    <2>1. N - n \in T /\ n \in Int /\ k \in Int
      BY <1>1
    <2>2. N - k <= N - n
      BY <1>3, <1>4, <2>1
    <2> HIDE DEF T
    <2> QED
      BY <2>1, <2>2
  <1>6. /\ Queue!Max(S) \in S /\ \A n \in S : Queue!Max(S) >= n
    BY <1>4, <1>5 DEF Queue!Max
  <1>7. ASSUME NEW n \in S PROVE n <= Queue!Max(S)
    <2>1. n \in Int /\ Queue!Max(S) \in Int /\ Queue!Max(S) >= n
      BY <1>6, <1>1
    <2> QED
      BY <2>1
  <1> QED
    BY <1>6, <1>7

LEMMA QueueMin ==
    ASSUME NEW S \in SUBSET Nat, S # {}
    PROVE  /\ Queue!Min(S) \in S
           /\ \A n \in S : Queue!Min(S) <= n
           /\ \A m \in S : (\A n \in S : m <= n) => Queue!Min(S) = m
  <1>1. Queue!Min(S) \in S /\ \A n \in S : Queue!Min(S) <= n
    BY LeastNumber DEF Queue!Min
  <1>2. ASSUME NEW m \in S, \A n \in S : m <= n
        PROVE  Queue!Min(S) = m
    <2>1. m \in Nat /\ Queue!Min(S) \in Nat /\ m <= Queue!Min(S) /\ Queue!Min(S) <= m
      BY <1>1, <1>2
    <2> QED
      BY <2>1
  <1> QED
    BY <1>1, <1>2

(***************************************************************************)
(* The digits of a time                                                    *)
(***************************************************************************)

W(m) == Queue!Weight[m]

LEMMA WeightIs ==
    /\ W(0) = 1 /\ \A m \in 0..Majors : W(m) \in Nat \ {0}
    /\ \A m \in 0..(Majors - 1) : W(m + 1) = Radix * W(m)
  <1> USE QueueAssumption
  <1> DEFINE G(f) == [m \in 0..Majors |-> IF m = 0 THEN 1 ELSE Radix * f[m - 1]]
             step == [p \in Nat \X Nat |-> Radix * p[2]]
             weight == CHOOSE f : f = G(f)
             S == {m \in 0..Majors : weight[m] \in Nat \ {0}}
  <1>1. Queue!Weight = weight
    BY Zenon DEF Queue!Weight
  <1>2. \A r, n \in Nat \ {0} : r * n \in Nat \ {0}
    OBVIOUS
  <1>3. Majors \in Nat
    OBVIOUS
  <1>4. \E f : IsRecursion(f, Majors, 1, step)
    BY <1>3, RecursionExists
  <1>5. PICK f : f = [n \in 0..Majors |-> IF n = 0 THEN 1 ELSE step[<<n, f[n - 1]>>]]
    <2> HIDE DEF step
    <2> QED
      BY <1>4 DEF IsRecursion
  <1>6. \A n \in 0..Majors : f[n] \in Nat \ {0}
    <2> DEFINE T == {n \in 0..Majors : f[n] \in Nat \ {0}}
    <2>1. 0 \in T
      BY <1>5
    <2>2. ASSUME NEW n \in 1..Majors, n - 1 \in T
          PROVE  n \in T
      <3>1. n \in Nat /\ n \in 0..Majors /\ n # 0 /\ f[n - 1] \in Nat \ {0}
        BY <2>2
      <3>2. f[n] = step[<<n, f[n - 1]>>]
        BY <1>5, <3>1
      <3>3. step[<<n, f[n - 1]>>] = Radix * f[n - 1]
        BY <3>1
      <3> QED
        BY <1>2, <3>1, <3>2, <3>3
    <2> HIDE DEF T
    <2>3. 0..Majors \subseteq T
      BY <1>3, <2>1, <2>2, UpTo
    <2> QED
      BY <2>3 DEF T
  <1>7. f = G(f)
    <2>1. ASSUME NEW n \in 0..Majors, n # 0
          PROVE  step[<<n, f[n - 1]>>] = Radix * f[n - 1]
      <3>1. n \in Nat /\ n - 1 \in 0..Majors /\ f[n - 1] \in Nat
        BY <1>6, <2>1
      <3> QED
        BY <3>1
    <2>2. \A n \in 0..Majors : (IF n = 0 THEN 1 ELSE step[<<n, f[n - 1]>>])
                                 = (IF n = 0 THEN 1 ELSE Radix * f[n - 1])
      BY <2>1
    <2> HIDE DEF step
    <2> QED
      BY <1>5, <2>2, Zenon
  <1>8. weight = G(weight)
    BY <1>7
  <1> HIDE DEF weight
  <1>9. \A m \in 0..Majors : weight[m] = IF m = 0 THEN 1 ELSE Radix * weight[m - 1]
    BY <1>8
  <1>10. 0..Majors \subseteq S
    <2>1. 0 \in S
      BY <1>9
    <2>2. ASSUME NEW m \in 1..Majors, m - 1 \in S PROVE m \in S
      <3>1. m \in 0..Majors /\ m # 0 /\ weight[m - 1] \in Nat \ {0}
        BY <2>2
      <3> QED
        BY <1>2, <1>9, <3>1
    <2> HIDE DEF S
    <2> QED
      BY <1>3, <2>1, <2>2, UpTo
  <1>11. ASSUME NEW m \in 0..(Majors - 1) PROVE weight[m + 1] = Radix * weight[m]
    <2>1. m + 1 \in 0..Majors /\ m + 1 # 0 /\ (m + 1) - 1 = m
      OBVIOUS
    <2> QED
      BY <1>9, <2>1
  <1> QED
    BY <1>1, <1>9, <1>10, <1>11 DEF W

(* What is left of a time without its digits below m *)
High(t, m) == t \div W(m)

LEMMA QuotientIs ==
    ASSUME NEW q \in Int, NEW d \in Nat \ {0}, NEW c \in 0..(d - 1)
    PROVE  ((q * d) + c) \div d = q /\ ((q * d) + c) % d = c
  OBVIOUS

LEMMA DivideTwice ==
    ASSUME NEW t \in Nat, NEW w \in Nat \ {0}, NEW r \in Nat \ {0}
    PROVE  /\ r * w \in Nat \ {0}
           /\ t \div (r * w) = (t \div w) \div r
  <1> DEFINE h == t \div w
             c == t % w
             g == h \div r
             d == h % r
  <1>1. h \in Int /\ c \in 0..(w - 1) /\ t = (h * w) + c
    BY Division
  <1>2. g \in Int /\ d \in 0..(r - 1) /\ h = (g * r) + d
    <2> HIDE DEF h
    <2> QED
      BY <1>1, Division
  <1> HIDE DEF h, c, g, d
  <1>3. r * w \in Nat \ {0}
    OBVIOUS
  <1>4. h * w = (g * (r * w)) + (d * w)
    <2>1. ((g * r) + d) * w = ((g * r) * w) + (d * w)
      BY <1>2
    <2>2. (g * r) * w = g * (r * w)
      BY <1>2
    <2> QED
      BY <1>2, <2>1, <2>2
  <1>5. (d * w) + c \in 0..((r * w) - 1)
    <2>1. d * w \in Nat /\ (d * w) + w <= r * w
      <3>1. d \in Int /\ r \in Int /\ d < r /\ d >= 0
        BY <1>2
      <3>2. (d * w) + w <= r * w
        BY <3>1, Products
      <3>3. d * w >= 0 /\ d * w \in Int
        BY <3>1
      <3> QED
        BY <3>2, <3>3
    <2> QED
      BY <1>1, <1>3, <2>1
  <1>6. t = (g * (r * w)) + ((d * w) + c)
    <2>1. d * w \in Int /\ g * (r * w) \in Int
      BY <1>2, <1>3
    <2> QED
      BY <1>1, <1>4, <2>1
  <1>7. t \div (r * w) = g
    BY <1>2, <1>3, <1>5, <1>6, QuotientIs
  <1> QED
    BY <1>3, <1>7 DEF g, h

LEMMA DigitsOf ==
    ASSUME NEW t \in Nat, NEW m \in 0..Majors
    PROVE  /\ High(t, m) \in Nat
           /\ Queue!Digit(t, m) \in 0..(Radix - 1)
           /\ Queue!Digit(t, m) = High(t, m) % Radix
           /\ High(t, 0) = t
           /\ m < Majors => High(t, m) = (High(t, m + 1) * Radix) + Queue!Digit(t, m)
  <1>1. Radix \in Nat \ {0} /\ Majors \in Nat
    BY QueueAssumption
  <1>2. W(m) \in Nat \ {0} /\ W(0) = 1
    BY WeightIs
  <1>3. High(t, m) \in Nat
    <2>1. \A w \in Nat \ {0} : t \div w \in Nat
      OBVIOUS
    <2> QED
      BY <1>2, <2>1 DEF High
  <1>4. Queue!Digit(t, m) = High(t, m) % Radix
    BY DEF Queue!Digit, High, W
  <1>5. \A h \in Nat : h % Radix \in 0..(Radix - 1) /\ h = ((h \div Radix) * Radix) + (h % Radix)
    BY <1>1, Division
  <1>6. Queue!Digit(t, m) \in 0..(Radix - 1)
    BY <1>3, <1>4, <1>5
  <1>7. High(t, 0) = t
    BY <1>2 DEF High
  <1>8. ASSUME m < Majors PROVE High(t, m) = (High(t, m + 1) * Radix) + Queue!Digit(t, m)
    <2>1. m \in 0..(Majors - 1)
      BY <1>1, <1>8
    <2>2. W(m + 1) = Radix * W(m)
      BY <2>1, WeightIs
    <2>3. High(t, m + 1) = High(t, m) \div Radix
      BY <1>1, <1>2, <2>2, DivideTwice DEF High
    <2> QED
      BY <1>3, <1>4, <1>5, <2>3
  <1> QED
    BY <1>3, <1>4, <1>6, <1>7, <1>8

LEMMA PairsCompare ==
    ASSUME NEW r \in Nat \ {0}, NEW a \in Nat, NEW b \in Nat,
           NEW c \in 0..(r - 1), NEW d \in 0..(r - 1)
    PROVE  /\ (a * r) + c < (b * r) + d <=> a < b \/ (a = b /\ c < d)
           /\ (a * r) + c = (b * r) + d <=> a = b /\ c = d
  <1>1. /\ a * r \in Int /\ b * r \in Int
        /\ a < b => (a * r) + r <= b * r
        /\ b < a => (b * r) + r <= a * r
    BY Products
  <1>2. a = b => a * r = b * r
    OBVIOUS
  <1> DEFINE x == a * r
             y == b * r
  <1>3. /\ x \in Int /\ y \in Int /\ c \in Int /\ d \in Int
        /\ c < r /\ d < r /\ 0 <= c /\ 0 <= d
        /\ a < b => x + r <= y
        /\ b < a => y + r <= x
        /\ a = b => x = y
    BY <1>1, <1>2
  <1> HIDE DEF x, y
  <1>4. /\ x + c < y + d <=> a < b \/ (a = b /\ c < d)
        /\ x + c = y + d <=> a = b /\ c = d
    BY <1>3
  <1> QED
    BY <1>4 DEF x, y

(* Times compare as their digits do, from the highest.                     *)
LEMMA DigitsCompare ==
    ASSUME NEW s \in Nat, NEW t \in Nat, NEW m \in 0..(Majors - 1)
    PROVE  /\ High(s, m) < High(t, m) <=>
                  \/ High(s, m + 1) < High(t, m + 1)
                  \/ /\ High(s, m + 1) = High(t, m + 1)
                     /\ Queue!Digit(s, m) < Queue!Digit(t, m)
           /\ High(s, m) = High(t, m) <=> /\ High(s, m + 1) = High(t, m + 1)
                                          /\ Queue!Digit(s, m) = Queue!Digit(t, m)
  <1>1. Radix \in Nat \ {0} /\ m \in 0..Majors /\ m + 1 \in 0..Majors /\ m < Majors
    BY QueueAssumption
  <1>2. /\ High(s, m + 1) \in Nat /\ High(t, m + 1) \in Nat
        /\ Queue!Digit(s, m) \in 0..(Radix - 1) /\ Queue!Digit(t, m) \in 0..(Radix - 1)
        /\ High(s, m) = (High(s, m + 1) * Radix) + Queue!Digit(s, m)
        /\ High(t, m) = (High(t, m + 1) * Radix) + Queue!Digit(t, m)
    BY <1>1, DigitsOf
  <1> QED
    BY <1>1, <1>2, PairsCompare

LEMMA HighGrows ==
    ASSUME NEW s \in Nat, NEW t \in Nat, NEW m \in 0..Majors
    PROVE  /\ s <= t => High(s, m) <= High(t, m)
           /\ High(s, m) < High(t, m) => s < t
           /\ High(s, m) # High(t, m) => s # t
  <1>1. W(m) \in Nat \ {0}
    BY WeightIs
  <1>2. \A w \in Nat \ {0} : s <= t => s \div w <= t \div w
    OBVIOUS
  <1>3. \A w \in Nat \ {0} : t <= s => t \div w <= s \div w
    OBVIOUS
  <1>4. High(s, m) \in Nat /\ High(t, m) \in Nat
    BY DigitsOf
  <1>5. (s <= t => High(s, m) <= High(t, m)) /\ (t <= s => High(t, m) <= High(s, m))
    BY <1>1, <1>2, <1>3 DEF High
  <1> QED
    BY <1>4, <1>5

(* What is equal from a digit on is equal from every higher digit on.      *)
LEMMA EqualAbove ==
    ASSUME NEW s \in Nat, NEW t \in Nat, NEW m \in 0..Majors, NEW k \in m..Majors,
           High(s, m) = High(t, m)
    PROVE  High(s, k) = High(t, k)
  <1> DEFINE S == {n \in 0..Majors : n >= m => High(s, n) = High(t, n)}
  <1>1. Majors \in Nat
    BY QueueAssumption
  <1>2. 0 \in S
    <2>1. 0 >= m => m = 0
      OBVIOUS
    <2> QED
      BY <1>1, <2>1
  <1>3. ASSUME NEW n \in 1..Majors, n - 1 \in S
        PROVE  n \in S
    <2> SUFFICES ASSUME n >= m PROVE High(s, n) = High(t, n)
      BY <1>3
    <2>1. CASE n = m
      BY <2>1
    <2>2. CASE n # m
      <3>1. n - 1 \in 0..(Majors - 1) /\ (n - 1) + 1 = n /\ n - 1 >= m
        BY <1>1, <2>2
      <3>2. High(s, n - 1) = High(t, n - 1)
        BY <1>3, <3>1
      <3> QED
        BY <3>1, <3>2, DigitsCompare
    <2> QED
      BY <2>1, <2>2
  <1> HIDE DEF S
  <1>4. 0..Majors \subseteq S
    BY <1>1, <1>2, <1>3, UpTo
  <1> QED
    BY <1>4 DEF S

(***************************************************************************)
(* The bins                                                                *)
(***************************************************************************)

LEMMA BinIs ==
    ASSUME NEW m \in 0..(Majors - 1), NEW c \in 0..(Radix - 1)
    PROVE  /\ (m * Radix) + c \in Queue!Bins
           /\ Queue!Major((m * Radix) + c) = m
           /\ Queue!Minor((m * Radix) + c) = c
  <1>1. Radix \in Nat \ {0} /\ Majors \in Nat /\ m \in Nat /\ m < Majors
    BY QueueAssumption
  <1>2. (m * Radix) + Radix <= Majors * Radix /\ m * Radix \in Nat /\ Majors * Radix \in Nat
    BY <1>1, Products
  <1>3. (m * Radix) + c \in 0..((Majors * Radix) - 1)
    <2> DEFINE x == m * Radix
               y == Majors * Radix
    <2>1. x + Radix <= y /\ x \in Nat /\ y \in Nat
      BY <1>2
    <2> HIDE DEF x, y
    <2>2. x + c \in 0..(y - 1)
      BY <1>1, <2>1
    <2> QED
      BY <2>2 DEF x, y
  <1> QED
    BY <1>1, <1>3, QuotientIs DEF Queue!Bins, Queue!NoBin, Queue!Major, Queue!Minor

LEMMA BinParts ==
    ASSUME NEW b \in Queue!Bins
    PROVE  /\ b \in Nat
           /\ Queue!Major(b) \in 0..(Majors - 1) /\ Queue!Minor(b) \in 0..(Radix - 1)
           /\ b = (Queue!Major(b) * Radix) + Queue!Minor(b)
  <1>1. Radix \in Nat \ {0} /\ Majors \in Nat
    BY QueueAssumption
  <1>2. Majors * Radix \in Nat
    BY <1>1
  <1>3. b \in Nat /\ b < Majors * Radix
    BY <1>2 DEF Queue!Bins, Queue!NoBin
  <1> DEFINE m == b \div Radix
             c == b % Radix
  <1>4. m \in Int /\ c \in 0..(Radix - 1) /\ b = (m * Radix) + c
    BY <1>1, <1>3, Division
  <1>5. m \in Nat
    <2>1. \A r \in Nat \ {0} : b \div r \in Nat
      BY <1>3
    <2> QED
      BY <1>1, <2>1
  <1>6. m < Majors
    <2>1. CASE Majors <= m
      <3>1. Majors * Radix <= m * Radix
        <4>1. CASE Majors = m
          BY <1>2, <4>1
        <4>2. CASE Majors < m
          <5>1. Majors * Radix < m * Radix /\ m * Radix \in Int
            BY <1>1, <1>5, <4>2, Products
          <5> HIDE DEF m
          <5> QED
            BY <1>2, <5>1
        <4> HIDE DEF m
        <4> QED
          BY <1>1, <1>5, <2>1, <4>1, <4>2
      <3> DEFINE x == m * Radix
                 y == Majors * Radix
      <3>2. x \in Int /\ y \in Int /\ y <= x /\ b = x + c /\ b < y /\ c \in Nat
        <4>1. x \in Int
          BY <1>1, <1>5
        <4> QED
          BY <1>2, <1>3, <1>4, <3>1, <4>1
      <3> HIDE DEF x, y, c
      <3> QED
        BY <3>2
    <2> HIDE DEF m
    <2> QED
      BY <1>1, <1>5, <2>1
  <1> HIDE DEF m, c
  <1>7. m \in 0..(Majors - 1)
    BY <1>1, <1>5, <1>6
  <1> QED
    BY <1>3, <1>4, <1>7 DEF m, c, Queue!Major, Queue!Minor

LEMMA BinsCompare ==
    ASSUME NEW b \in Queue!Bins, NEW c \in Queue!Bins
    PROVE  /\ b < c <=> \/ Queue!Major(b) < Queue!Major(c)
                        \/ /\ Queue!Major(b) = Queue!Major(c)
                           /\ Queue!Minor(b) < Queue!Minor(c)
           /\ b = c <=> Queue!Major(b) = Queue!Major(c) /\ Queue!Minor(b) = Queue!Minor(c)
  <1>1. Radix \in Nat \ {0} /\ Majors \in Nat
    BY QueueAssumption
  <1>2. /\ Queue!Major(b) \in Nat /\ Queue!Minor(b) \in 0..(Radix - 1)
        /\ Queue!Major(c) \in Nat /\ Queue!Minor(c) \in 0..(Radix - 1)
        /\ b = (Queue!Major(b) * Radix) + Queue!Minor(b)
        /\ c = (Queue!Major(c) * Radix) + Queue!Minor(c)
    <2>1. \A m \in 0..(Majors - 1) : m \in Nat
      BY <1>1
    <2> QED
      BY <2>1, BinParts
  <1> DEFINE m == Queue!Major(b)
             i == Queue!Minor(b)
             n == Queue!Major(c)
             j == Queue!Minor(c)
  <1>3. /\ (m * Radix) + i < (n * Radix) + j <=> m < n \/ (m = n /\ i < j)
        /\ (m * Radix) + i = (n * Radix) + j <=> m = n /\ i = j
    <2>1. m \in Nat /\ i \in 0..(Radix - 1) /\ n \in Nat /\ j \in 0..(Radix - 1)
      BY <1>2
    <2> HIDE DEF m, i, n, j
    <2> QED
      BY <1>1, <2>1, PairsCompare
  <1>4. b = (m * Radix) + i /\ c = (n * Radix) + j
    BY <1>2
  <1> QED
    BY <1>3, <1>4

(* A time t is as active_time a above the digit of the bin, which it has   *)
Near(a, t, b) == /\ b \in Queue!Bins
                 /\ High(t, Queue!Major(b) + 1) = High(a, Queue!Major(b) + 1)
                 /\ Queue!Digit(t, Queue!Major(b)) = Queue!Minor(b)

(* and differs from it at that digit, unless it is the lowest.             *)
Differs(a, t, b) == \/ Queue!Major(b) = 0
                    \/ High(t, Queue!Major(b)) # High(a, Queue!Major(b))

LEMMA MajorFits ==
    ASSUME NEW b \in Queue!Bins
    PROVE  /\ Queue!Major(b) \in 0..(Majors - 1) /\ Queue!Major(b) \in 0..Majors
           /\ Queue!Major(b) + 1 \in 0..Majors /\ Queue!Major(b) \in Nat
           /\ Queue!Major(b) < Majors
  <1>1. Majors \in Nat /\ Queue!Major(b) \in 0..(Majors - 1)
    BY QueueAssumption, BinParts
  <1> QED
    BY <1>1

LEMMA NearIsOne ==
    ASSUME NEW a \in Nat, NEW t \in Nat, NEW b, NEW c,
           Near(a, t, b), Differs(a, t, b), Near(a, t, c), Differs(a, t, c)
    PROVE  b = c
  <1>1. b \in Queue!Bins /\ c \in Queue!Bins
    BY DEF Near
  <1>2. \A d, e \in Queue!Bins : /\ Near(a, t, d) /\ Near(a, t, e) /\ Differs(a, t, e)
                                 => ~(Queue!Major(d) < Queue!Major(e))
    <2> SUFFICES ASSUME NEW d \in Queue!Bins, NEW e \in Queue!Bins,
                        Near(a, t, d), Differs(a, t, e), Queue!Major(d) < Queue!Major(e)
                 PROVE  FALSE
      OBVIOUS
    <2> DEFINE m == Queue!Major(d)
               k == Queue!Major(e)
    <2>1. m + 1 \in 0..Majors /\ k \in (m + 1)..Majors /\ k # 0
      <3>1. m \in Nat /\ k \in Nat /\ m < k /\ k < Majors /\ m + 1 \in 0..Majors
        BY MajorFits
      <3>2. Majors \in Nat
        BY QueueAssumption
      <3> HIDE DEF m, k
      <3> QED
        BY <3>1, <3>2
    <2>2. High(t, m + 1) = High(a, m + 1)
      BY DEF Near
    <2>3. High(t, k) # High(a, k)
      BY <2>1 DEF Differs
    <2> HIDE DEF m, k
    <2> QED
      BY <2>1, <2>2, <2>3, EqualAbove
  <1>3. Queue!Major(b) = Queue!Major(c)
    <2>1. Queue!Major(b) \in Nat /\ Queue!Major(c) \in Nat
      BY <1>1, MajorFits
    <2> QED
      BY <1>1, <1>2, <2>1
  <1>4. Queue!Minor(b) = Queue!Minor(c)
    BY <1>3 DEF Near
  <1> QED
    BY <1>1, <1>3, <1>4, BinsCompare

LEMMA BinIndexIs ==
    ASSUME NEW a \in Nat, NEW t \in Nat, High(a, Majors) = High(t, Majors)
    PROVE  /\ Near(a, t, Queue!BinIndex(a, t)) /\ Differs(a, t, Queue!BinIndex(a, t))
  <1> DEFINE D == {k \in 0..(Majors - 1) : Queue!Digit(a, k) # Queue!Digit(t, k)}
             m == Queue!Max({0} \cup D)
  <1>1. Majors \in Nat /\ Majors - 1 \in Nat
    BY QueueAssumption
  <1>2. m = Queue!HighestDifference(a, t)
    BY DEF Queue!HighestDifference
  <1>3. m \in {0} \cup D /\ \A n \in {0} \cup D : n <= m
    <2> DEFINE T == {0} \cup D
    <2>1. T \in SUBSET (0..(Majors - 1)) /\ T # {}
      BY <1>1
    <2> HIDE DEF T
    <2>2. Queue!Max(T) \in T /\ \A n \in T : n <= Queue!Max(T)
      BY <1>1, <2>1, GreatestNumber
    <2> QED
      BY <2>2 DEF T
  <1> HIDE DEF m
  <1>4. m \in 0..(Majors - 1) /\ m \in Nat /\ m + 1 \in 0..Majors
    BY <1>1, <1>3
  <1>5. High(a, m + 1) = High(t, m + 1)
    <2> DEFINE S == {j \in 0..(Majors - (m + 1)) : High(a, Majors - j) = High(t, Majors - j)}
    <2>1. 0 \in S /\ Majors - (m + 1) \in Nat
      BY <1>1, <1>4
    <2>2. ASSUME NEW j \in 1..(Majors - (m + 1)), j - 1 \in S
          PROVE  j \in S
      <3> DEFINE k == Majors - j
      <3>1. /\ k \in 0..(Majors - 1) /\ k + 1 = Majors - (j - 1) /\ m < k
            /\ j \in 0..(Majors - (m + 1))
        BY <1>1, <1>4
      <3>2. High(a, k + 1) = High(t, k + 1)
        BY <2>2, <3>1
      <3>3. Queue!Digit(a, k) = Queue!Digit(t, k)
        <4>1. k \notin D
          <5>1. k \in Nat /\ m < k
            BY <1>1, <3>1
          <5> HIDE DEF k
          <5> QED
            BY <1>3, <1>4, <5>1
        <4> QED
          BY <3>1, <4>1
      <3>4. High(a, k) = High(t, k)
        BY <3>1, <3>2, <3>3, DigitsCompare
      <3> QED
        BY <3>1, <3>4
    <2> HIDE DEF S
    <2>3. 0..(Majors - (m + 1)) \subseteq S
      BY <2>1, <2>2, UpTo
    <2>4. Majors - (m + 1) \in S
      BY <2>1, <2>3
    <2>5. Majors - (Majors - (m + 1)) = m + 1
      BY <1>1, <1>4
    <2> QED
      BY <2>4, <2>5 DEF S
  <1>6. m = 0 \/ High(a, m) # High(t, m)
    <2>1. CASE m \in D
      <3>1. Queue!Digit(a, m) # Queue!Digit(t, m)
        BY <2>1
      <3> QED
        BY <1>4, <3>1, DigitsCompare
    <2> QED
      BY <1>3, <2>1
  <1>7. Queue!BinIndex(a, t) = (m * Radix) + Queue!Digit(t, m)
    BY <1>2 DEF Queue!BinIndex
  <1>8. Queue!Digit(t, m) \in 0..(Radix - 1)
    <2>1. t \in Nat
      BY <1>1
    <2>2. m \in 0..Majors
      BY <1>1, <1>4
    <2> HIDE DEF D
    <2> QED
      BY <2>1, <2>2, DigitsOf
  <1>9. /\ Queue!BinIndex(a, t) \in Queue!Bins
        /\ Queue!Major(Queue!BinIndex(a, t)) = m
        /\ Queue!Minor(Queue!BinIndex(a, t)) = Queue!Digit(t, m)
    BY <1>4, <1>7, <1>8, BinIs
  <1> QED
    BY <1>5, <1>6, <1>9 DEF Near, Differs

LEMMA BinIndexOnly ==
    ASSUME NEW a \in Nat, NEW t \in Nat, NEW b, Near(a, t, b), Differs(a, t, b)
    PROVE  b = Queue!BinIndex(a, t)
  <1>1. b \in Queue!Bins /\ High(t, Queue!Major(b) + 1) = High(a, Queue!Major(b) + 1)
    BY DEF Near
  <1> DEFINE k == Queue!Major(b) + 1
  <1>2. k \in 0..Majors /\ Majors \in k..Majors
    <2>1. Majors \in Nat /\ k \in 0..Majors
      BY <1>1, MajorFits, QueueAssumption
    <2> HIDE DEF k
    <2> QED
      BY <2>1
  <1>3. High(a, Majors) = High(t, Majors)
    <2>1. High(t, k) = High(a, k)
      BY <1>1
    <2> HIDE DEF k
    <2> QED
      BY <1>2, <2>1, EqualAbove
  <1> QED
    BY <1>3, BinIndexIs, NearIsOne

(* What is in a later bin is due later.                                    *)
LEMMA LaterBins ==
    ASSUME NEW a \in Nat, NEW s \in Nat, NEW t \in Nat, NEW b, NEW c,
           Near(a, s, b), Near(a, t, c), Differs(a, t, c), a <= t, b < c
    PROVE  High(s, Queue!Major(c)) < High(t, Queue!Major(c)) /\ s < t
  <1>1. b \in Queue!Bins /\ c \in Queue!Bins
    BY DEF Near
  <1> DEFINE m == Queue!Major(b)
             k == Queue!Major(c)
  <1>2. /\ m + 1 \in 0..Majors /\ k \in 0..Majors /\ k \in 0..(Majors - 1)
        /\ m \in Nat /\ k \in Nat /\ Majors \in Nat
    BY <1>1, MajorFits, QueueAssumption
  <1>3. /\ High(s, m + 1) = High(a, m + 1) /\ High(t, k + 1) = High(a, k + 1)
        /\ Queue!Digit(s, m) = Queue!Minor(b) /\ Queue!Digit(t, k) = Queue!Minor(c)
    BY DEF Near
  <1>4. m < k \/ (m = k /\ Queue!Minor(b) < Queue!Minor(c))
    BY <1>1, BinsCompare
  <1>5. High(t, k) # High(a, k) \/ k = 0
    BY DEF Differs
  <1> HIDE DEF m, k
  <1>6. High(s, k) < High(t, k)
    <2>1. CASE m < k
      <3>1. k \in (m + 1)..Majors /\ k # 0
        BY <1>2, <2>1
      <3>2. High(s, k) = High(a, k)
        BY <1>2, <1>3, <3>1, EqualAbove
      <3>3. High(a, k) <= High(t, k) /\ High(a, k) \in Nat /\ High(t, k) \in Nat
        BY <1>2, HighGrows, DigitsOf
      <3> QED
        BY <1>5, <3>1, <3>2, <3>3
    <2>2. CASE m = k /\ Queue!Minor(b) < Queue!Minor(c)
      <3>1. High(s, k + 1) = High(t, k + 1) /\ Queue!Digit(s, k) < Queue!Digit(t, k)
        BY <1>3, <2>2
      <3> QED
        BY <1>2, <3>1, DigitsCompare
    <2> QED
      BY <1>4, <2>1, <2>2
  <1>7. s < t
    BY <1>2, <1>6, HighGrows
  <1> QED
    BY <1>6, <1>7 DEF k

(* The time of a bin is that of what is in it, but for the lower digits.   *)
LEMMA BinTimeIs ==
    ASSUME NEW a \in Nat, NEW t \in Nat, NEW b, Near(a, t, b)
    PROVE  LET e == Queue!BinTime(a, b)
               m == Queue!Major(b)
           IN  /\ e \in Nat /\ e <= t /\ (m = 0 => e = t)
               /\ e = High(t, m) * W(m)
               /\ High(e, m) = High(t, m)
               /\ m > 0 => Queue!Digit(e, m - 1) = 0
  <1> DEFINE e == Queue!BinTime(a, b)
             m == Queue!Major(b)
             h == High(t, m)
  <1>1. b \in Queue!Bins
    BY DEF Near
  <1>2. /\ m \in 0..(Majors - 1) /\ m \in 0..Majors /\ m + 1 \in 0..Majors
        /\ m \in Nat /\ m < Majors /\ Majors \in Nat
    BY <1>1, MajorFits, QueueAssumption
  <1>3. /\ W(m) \in Nat \ {0} /\ W(m + 1) = Radix * W(m) /\ Radix \in Nat \ {0}
    BY <1>2, WeightIs, QueueAssumption
  <1>4. e = (High(t, m + 1) * W(m + 1)) + (Queue!Digit(t, m) * W(m))
    BY DEF Near, Queue!BinTime, Queue!FromDigit, High, W
  <1>5. /\ h \in Nat /\ High(t, m + 1) \in Nat /\ Queue!Digit(t, m) \in 0..(Radix - 1)
        /\ h = (High(t, m + 1) * Radix) + Queue!Digit(t, m)
    BY <1>2, DigitsOf
  <1>6. e = h * W(m)
    <2> DEFINE g == High(t, m + 1)
               d == Queue!Digit(t, m)
               w == W(m)
    <2>1. g \in Int /\ d \in Int /\ w \in Int /\ Radix \in Int
      BY <1>3, <1>5
    <2>2. e = (g * (Radix * w)) + (d * w) /\ h = (g * Radix) + d
      BY <1>3, <1>4, <1>5
    <2> HIDE DEF g, d, w, e, h
    <2>3. ((g * Radix) + d) * w = (g * (Radix * w)) + (d * w)
      BY <2>1
    <2> QED
      BY <2>2, <2>3 DEF w
  <1>7. e \in Nat /\ e <= t
    <2>1. \A w \in Nat \ {0} : t % w \in 0..(w - 1) /\ t = ((t \div w) * w) + (t % w)
      BY Division
    <2>2. t % W(m) \in 0..(W(m) - 1) /\ t = ((t \div W(m)) * W(m)) + (t % W(m))
      BY <1>3, <2>1
    <2>3. h * W(m) \in Nat
      <3>1. \A x, y \in Nat : x * y \in Nat
        OBVIOUS
      <3> QED
        BY <1>3, <1>5, <3>1
    <2>4. t = e + (t % W(m))
      BY <1>6, <2>2 DEF High
    <2>5. e \in Nat
      BY <1>6, <2>3
    <2> HIDE DEF e
    <2> QED
      BY <1>3, <2>2, <2>4, <2>5
  <1>8. High(e, m) = h
    <2>1. 0 \in 0..(W(m) - 1) /\ h \in Int
      BY <1>3, <1>5
    <2>2. ((h * W(m)) + 0) \div W(m) = h
      BY <1>3, <2>1, QuotientIs
    <2>3. h * W(m) = (h * W(m)) + 0
      BY <1>6, <1>7
    <2> QED
      BY <1>6, <2>2, <2>3 DEF High
  <1>9. ASSUME m = 0 PROVE e = t
    <2>1. W(m) = 1 /\ h = t
      BY <1>2, <1>9, WeightIs, DigitsOf
    <2> QED
      BY <1>6, <2>1
  <1>10. ASSUME m > 0 PROVE Queue!Digit(e, m - 1) = 0
    <2>1. m - 1 \in 0..(Majors - 1) /\ (m - 1) + 1 = m
      <3> HIDE DEF m
      <3> QED
        BY <1>2, <1>10
    <2>2. W(m) = Radix * W(m - 1) /\ W(m - 1) \in Nat \ {0}
      <3>1. m - 1 \in 0..Majors
        <4> HIDE DEF m
        <4> QED
          BY <1>2, <1>10
      <3> HIDE DEF m
      <3> QED
        BY <2>1, <3>1, WeightIs
    <2> DEFINE w == W(m - 1)
    <2>3. e = (h * Radix) * w
      <3>1. h \in Int /\ Radix \in Int /\ w \in Int
        BY <1>3, <1>5, <2>2
      <3> HIDE DEF h, w
      <3>2. h * (Radix * w) = (h * Radix) * w
        BY <3>1
      <3> QED
        BY <1>6, <2>2, <3>2 DEF w, h
    <2>4. ((h * Radix) * w + 0) \div w = h * Radix /\ h * Radix \in Int
      <3>1. h * Radix \in Int /\ 0 \in 0..(w - 1)
        BY <1>3, <1>5, <2>2
      <3> QED
        BY <2>2, <3>1, QuotientIs
    <2>5. e \div w = h * Radix
      <3>1. e = ((h * Radix) * w) + 0
        BY <1>7, <2>3
      <3> QED
        BY <2>4, <3>1
    <2>6. ((h * Radix) + 0) % Radix = 0
      <3>1. 0 \in 0..(Radix - 1) /\ h \in Int
        BY <1>3, <1>5
      <3> QED
        BY <1>3, <3>1, QuotientIs
    <2>7. (h * Radix) % Radix = 0
      BY <2>4, <2>6
    <2> QED
      BY <2>5, <2>7 DEF Queue!Digit, W
  <1> QED
    BY <1>6, <1>7, <1>8, <1>9, <1>10

(***************************************************************************)
(* Sequences of items                                                      *)
(***************************************************************************)

(* s has the members of S once each, in an order that R allows.            *)
Lists(s, S, R) == /\ s \in Seq(S)
                  /\ \A x \in S : \E i \in 1..Len(s) : s[i] = x
                  /\ \A i, j \in 1..Len(s) : i < j => s[i] # s[j] /\ <<s[i], s[j]>> \in R

LEMMA ListsNone ==
    ASSUME NEW R
    PROVE  /\ Lists(<<>>, {}, R)
           /\ \A s, S : Lists(s, S, R) => (s = <<>> <=> S = {})
  <1>1. Lists(<<>>, {}, R)
    BY DEF Lists
  <1>2. ASSUME NEW s, NEW S, Lists(s, S, R) PROVE s = <<>> <=> S = {}
    <2>1. s \in Seq(S) /\ \A x \in S : \E i \in 1..Len(s) : s[i] = x
      BY <1>2 DEF Lists
    <2>2. CASE s = <<>>
      <3>1. Len(s) = 0 /\ 1..Len(s) = {}
        BY <2>2
      <3> QED
        BY <2>1, <2>2, <3>1
    <2>3. CASE s # <<>>
      <3>1. s[1] \in S
        BY <2>1, <2>3
      <3> QED
        BY <2>3, <3>1
    <2> QED
      BY <2>2, <2>3
  <1> QED
    BY <1>1, <1>2

LEMMA ListsAppend ==
    ASSUME NEW s, NEW S, NEW R, Lists(s, S, R), NEW x, x \notin S,
           \A y \in S : <<y, x>> \in R
    PROVE  Lists(Append(s, x), S \cup {x}, R)
  <1> DEFINE T == S \cup {x}
             r == Append(s, x)
  <1>1. s \in Seq(S) /\ Len(s) \in Nat /\ \A i \in 1..Len(s) : s[i] \in S
    BY DEF Lists
  <1>2. s \in Seq(T)
    BY <1>1
  <1>3. /\ r \in Seq(T) /\ Len(r) = Len(s) + 1
        /\ \A i \in 1..Len(s) : r[i] = s[i]
        /\ r[Len(s) + 1] = x
    BY <1>2
  <1> HIDE DEF r
  <1>4. \A i \in 1..Len(r) : i \in 1..Len(s) \/ i = Len(s) + 1
    BY <1>1, <1>3
  <1>5. ASSUME NEW y \in T PROVE \E i \in 1..Len(r) : r[i] = y
    <2>1. CASE y = x
      <3>1. Len(s) + 1 \in 1..Len(r)
        BY <1>1, <1>3
      <3> QED
        BY <1>3, <2>1, <3>1
    <2>2. CASE y \in S
      <3>1. PICK i \in 1..Len(s) : s[i] = y
        BY <2>2 DEF Lists
      <3>2. i \in 1..Len(r)
        BY <1>1, <1>3
      <3> QED
        BY <1>3, <3>1, <3>2
    <2> QED
      BY <2>1, <2>2
  <1>6. ASSUME NEW i \in 1..Len(r), NEW j \in 1..Len(r), i < j
        PROVE  r[i] # r[j] /\ <<r[i], r[j]>> \in R
    <2>1. i \in 1..Len(s)
      BY <1>1, <1>3, <1>6
    <2>2. CASE j \in 1..Len(s)
      <3>1. s[i] # s[j] /\ <<s[i], s[j]>> \in R
        BY <1>6, <2>1, <2>2 DEF Lists
      <3> QED
        BY <1>3, <2>1, <2>2, <3>1
    <2>3. CASE j = Len(s) + 1
      BY <1>1, <1>3, <2>1, <2>3
    <2> QED
      BY <1>4, <2>2, <2>3
  <1> QED
    BY <1>3, <1>5, <1>6 DEF Lists, r

LEMMA ListsJoin ==
    ASSUME NEW s, NEW S, NEW t, NEW T, NEW R, Lists(s, S, R), Lists(t, T, R),
           \A x \in S, y \in T : x # y /\ <<x, y>> \in R
    PROVE  Lists(s \o t, S \cup T, R)
  <1> DEFINE U == S \cup T
             r == s \o t
  <1>1. /\ s \in Seq(S) /\ Len(s) \in Nat /\ \A i \in 1..Len(s) : s[i] \in S
        /\ t \in Seq(T) /\ Len(t) \in Nat /\ \A i \in 1..Len(t) : t[i] \in T
    BY DEF Lists
  <1>2. s \in Seq(U) /\ t \in Seq(U)
    BY <1>1
  <1>3. /\ r \in Seq(U) /\ Len(r) = Len(s) + Len(t)
        /\ \A i \in 1..Len(s) : r[i] = s[i]
        /\ \A i \in 1..Len(t) : r[Len(s) + i] = t[i]
    BY <1>1, <1>2
  <1> HIDE DEF r
  <1>4. \A i \in 1..Len(r) : i \in 1..Len(s) \/ (i - Len(s) \in 1..Len(t) /\ r[i] = t[i - Len(s)])
    <2> SUFFICES ASSUME NEW i \in 1..Len(r), i \notin 1..Len(s)
                 PROVE  i - Len(s) \in 1..Len(t) /\ r[i] = t[i - Len(s)]
      OBVIOUS
    <2>1. i - Len(s) \in 1..Len(t) /\ Len(s) + (i - Len(s)) = i
      BY <1>1, <1>3
    <2> QED
      BY <1>3, <2>1
  <1>5. ASSUME NEW y \in U PROVE \E i \in 1..Len(r) : r[i] = y
    <2>1. CASE y \in S
      <3>1. PICK i \in 1..Len(s) : s[i] = y
        BY <2>1 DEF Lists
      <3>2. i \in 1..Len(r)
        BY <1>1, <1>3
      <3> QED
        BY <1>3, <3>1, <3>2
    <2>2. CASE y \in T
      <3>1. PICK i \in 1..Len(t) : t[i] = y
        BY <2>2 DEF Lists
      <3>2. Len(s) + i \in 1..Len(r)
        BY <1>1, <1>3
      <3> QED
        BY <1>3, <3>1, <3>2
    <2> QED
      BY <2>1, <2>2
  <1>6. ASSUME NEW i \in 1..Len(r), NEW j \in 1..Len(r), i < j
        PROVE  r[i] # r[j] /\ <<r[i], r[j]>> \in R
    <2>1. CASE j \in 1..Len(s)
      <3>1. i \in 1..Len(s)
        BY <1>1, <1>6, <2>1
      <3>2. s[i] # s[j] /\ <<s[i], s[j]>> \in R
        BY <1>6, <2>1, <3>1 DEF Lists
      <3> QED
        BY <1>3, <2>1, <3>1, <3>2
    <2>2. CASE j \notin 1..Len(s)
      <3>1. j - Len(s) \in 1..Len(t) /\ r[j] = t[j - Len(s)]
        BY <1>4, <2>2
      <3>2. CASE i \in 1..Len(s)
        <4>1. r[i] \in S /\ r[j] \in T
          BY <1>1, <1>3, <3>1, <3>2
        <4> QED
          BY <4>1
      <3>3. CASE i \notin 1..Len(s)
        <4>1. i - Len(s) \in 1..Len(t) /\ r[i] = t[i - Len(s)]
          BY <1>4, <3>3
        <4>2. i - Len(s) < j - Len(s)
          BY <1>1, <1>6
        <4>3. t[i - Len(s)] # t[j - Len(s)] /\ <<t[i - Len(s)], t[j - Len(s)]>> \in R
          BY <3>1, <4>1, <4>2 DEF Lists
        <4> QED
          BY <3>1, <4>1, <4>3
      <3> QED
        BY <3>2, <3>3
    <2> QED
      BY <2>1, <2>2
  <1> QED
    BY <1>3, <1>5, <1>6 DEF Lists, r

LEMMA ListsRemove ==
    ASSUME NEW s, NEW S, NEW R, Lists(s, S, R), NEW n \in 1..Len(s)
    PROVE  Lists(Queue!RemoveAt(s, n), S \ {s[n]}, R)
  <1> DEFINE T == S \ {s[n]}
             r == Queue!RemoveAt(s, n)
             Place(i) == IF i < n THEN i ELSE i + 1
  <1>1. s \in Seq(S) /\ Len(s) \in Nat /\ n \in Nat /\ 1 <= n /\ n <= Len(s)
    BY DEF Lists
  <1>2. /\ r \in Seq(S) /\ Len(r) = Len(s) - 1
        /\ \A i \in 1..Len(r) : r[i] = s[Place(i)]
    <2>1. /\ SubSeq(s, 1, n - 1) \in Seq(S) /\ Len(SubSeq(s, 1, n - 1)) = n - 1
          /\ \A i \in 1..(n - 1) : SubSeq(s, 1, n - 1)[i] = s[i]
      BY <1>1
    <2>2. /\ SubSeq(s, n + 1, Len(s)) \in Seq(S) /\ Len(SubSeq(s, n + 1, Len(s))) = Len(s) - n
          /\ \A i \in 1..(Len(s) - n) : SubSeq(s, n + 1, Len(s))[i] = s[n + i]
      BY <1>1
    <2> DEFINE u == SubSeq(s, 1, n - 1)
               v == SubSeq(s, n + 1, Len(s))
    <2> HIDE DEF u, v
    <2>3. r = u \o v
      BY DEF u, v, Queue!RemoveAt
    <2>4. u \in Seq(S) /\ v \in Seq(S) /\ Len(u) = n - 1 /\ Len(v) = Len(s) - n
      BY <2>1, <2>2 DEF u, v
    <2>5. /\ r \in Seq(S) /\ Len(r) = Len(u) + Len(v)
          /\ \A i \in 1..(Len(u) + Len(v)) :
                 r[i] = IF i <= Len(u) THEN u[i] ELSE v[i - Len(u)]
      <3> HIDE DEF r
      <3>1. u \in Seq(S) /\ v \in Seq(S)
        BY <2>4
      <3> QED
        BY ONLY <2>3, <3>1
    <2>6. Len(r) = Len(s) - 1
      BY <1>1, <2>4, <2>5
    <2>7. ASSUME NEW i \in 1..Len(r) PROVE r[i] = s[Place(i)]
      <3>1. r[i] = IF i <= n - 1 THEN u[i] ELSE v[i - (n - 1)]
        BY <2>4, <2>5
      <3>2. CASE i < n
        <4>1. i \in 1..(n - 1) /\ i <= n - 1
          BY <1>1, <2>6, <3>2
        <4> QED
          BY <2>1, <3>1, <3>2, <4>1 DEF u
      <3>3. CASE ~(i < n)
        <4>1. /\ i - (n - 1) \in 1..(Len(s) - n) /\ n + (i - (n - 1)) = i + 1
              /\ ~(i <= n - 1)
          BY <1>1, <2>6, <3>3
        <4> QED
          BY <2>2, <3>1, <3>3, <4>1 DEF v
      <3> QED
        BY <3>2, <3>3
    <2> QED
      BY <2>5, <2>6, <2>7
  <1> HIDE DEF r
  <1>3. \A i \in 1..Len(r) : Place(i) \in 1..Len(s) /\ Place(i) # n
    BY <1>1, <1>2
  <1>4. \A i, j \in 1..Len(r) : i < j => Place(i) < Place(j)
    BY <1>1, <1>2
  <1>5. \A k \in 1..Len(s) : k # n => \E i \in 1..Len(r) : Place(i) = k
    <2> SUFFICES ASSUME NEW k \in 1..Len(s), k # n PROVE \E i \in 1..Len(r) : Place(i) = k
      OBVIOUS
    <2>1. CASE k < n
      <3>1. k \in 1..Len(r) /\ Place(k) = k
        BY <1>1, <1>2, <2>1
      <3> QED
        BY <3>1
    <2>2. CASE ~(k < n)
      <3>1. k - 1 \in 1..Len(r) /\ Place(k - 1) = k
        BY <1>1, <1>2, <2>2
      <3> QED
        BY <3>1
    <2> QED
      BY <2>1, <2>2
  <1> HIDE DEF Place
  <1>6. \A k, l \in 1..Len(s) : k # l => s[k] # s[l]
    <2> SUFFICES ASSUME NEW k \in 1..Len(s), NEW l \in 1..Len(s), k # l PROVE s[k] # s[l]
      OBVIOUS
    <2>1. k < l \/ l < k
      OBVIOUS
    <2> QED
      BY <2>1 DEF Lists
  <1>7. r \in Seq(T)
    <2>1. \A i \in 1..Len(r) : r[i] \in T
      BY <1>1, <1>2, <1>3, <1>6
    <2> QED
      BY <1>2, <2>1
  <1>8. ASSUME NEW y \in T PROVE \E i \in 1..Len(r) : r[i] = y
    <2>1. PICK k \in 1..Len(s) : s[k] = y
      BY DEF Lists
    <2>2. k # n
      BY <2>1
    <2>3. PICK i \in 1..Len(r) : Place(i) = k
      BY <1>5, <2>2
    <2> QED
      BY <1>2, <2>1, <2>3
  <1>9. ASSUME NEW i \in 1..Len(r), NEW j \in 1..Len(r), i < j
        PROVE  r[i] # r[j] /\ <<r[i], r[j]>> \in R
    <2>1. /\ Place(i) \in 1..Len(s) /\ Place(j) \in 1..Len(s) /\ Place(i) < Place(j)
          /\ r[i] = s[Place(i)] /\ r[j] = s[Place(j)]
      BY <1>2, <1>3, <1>4, <1>9
    <2>2. s[Place(i)] # s[Place(j)] /\ <<s[Place(i)], s[Place(j)]>> \in R
      BY <2>1 DEF Lists
    <2> QED
      BY <2>1, <2>2
  <1> QED
    BY <1>7, <1>8, <1>9 DEF Lists, r

LEMMA ListsTail ==
    ASSUME NEW s, NEW S, NEW R, Lists(s, S, R), s # <<>>
    PROVE  /\ Head(s) \in S /\ Lists(Tail(s), S \ {Head(s)}, R)
           /\ \A y \in S \ {Head(s)} : <<Head(s), y>> \in R
  <1>1. s \in Seq(S) /\ Len(s) \in Nat /\ 1 \in 1..Len(s) /\ Head(s) = s[1]
    BY DEF Lists
  <1>2. Lists(Queue!RemoveAt(s, 1), S \ {s[1]}, R)
    BY <1>1, ListsRemove
  <1>3. Queue!RemoveAt(s, 1) = Tail(s)
    <2>1. SubSeq(s, 1, 1 - 1) = <<>>
      BY <1>1
    <2>2. SubSeq(s, 1 + 1, Len(s)) = Tail(s) /\ Tail(s) \in Seq(S)
      BY <1>1
    <2>3. <<>> \o Tail(s) = Tail(s)
      BY ONLY <2>2
    <2>4. Queue!RemoveAt(s, 1) = SubSeq(s, 1, 1 - 1) \o SubSeq(s, 1 + 1, Len(s))
      BY Zenon DEF Queue!RemoveAt
    <2> QED
      BY ONLY <2>1, <2>2, <2>3, <2>4
  <1>4. ASSUME NEW y \in S \ {s[1]} PROVE <<s[1], y>> \in R
    <2>1. PICK k \in 1..Len(s) : s[k] = y
      BY DEF Lists
    <2>2. 1 < k
      BY <2>1
    <2> QED
      BY <1>1, <2>1, <2>2 DEF Lists
  <1>5. Head(s) \in S
    BY <1>1
  <1>6. Lists(Tail(s), S \ {Head(s)}, R)
    BY <1>1, <1>2, <1>3, Zenon
  <1> QED
    BY <1>1, <1>4, <1>5, <1>6

LEMMA ListsOrder ==
    ASSUME NEW s, NEW S, NEW R, NEW Q, Lists(s, S, R),
           \A x, y \in S : <<x, y>> \in R => <<x, y>> \in Q
    PROVE  Lists(s, S, Q)
  <1>1. \A i \in 1..Len(s) : s[i] \in S
    BY DEF Lists
  <1> QED
    BY <1>1 DEF Lists

LEMMA ListsSet ==
    ASSUME NEW s, NEW S, NEW R, Lists(s, S, R)
    PROVE  Queue!ToSet(s) = S /\ Queue!IsInjective(s)
  <1>1. s \in Seq(S) /\ Len(s) \in Nat /\ DOMAIN s = 1..Len(s)
    BY DEF Lists
  <1>2. Queue!ToSet(s) = S
    BY <1>1 DEF Lists, Queue!ToSet
  <1>3. ASSUME NEW i \in 1..Len(s), NEW j \in 1..Len(s), s[i] = s[j] PROVE i = j
    <2>1. ~(i < j) /\ ~(j < i)
      BY <1>3 DEF Lists
    <2> QED
      BY <2>1
  <1> QED
    BY <1>1, <1>2, <1>3 DEF Queue!IsInjective

(***************************************************************************)
(* The bins of the queue                                                   *)
(***************************************************************************)

Records == [active : Nat, first : Nat, nonempty : SUBSET Queue!Bins,
            bins : [Queue!Bins -> Seq(Items)]]

InPlace(S, place, b) == {x \in S : place[x] = b}

(* The bins of q have the items of S, each in its place, in an order that  *)
(* R allows; the bits and the first bin are theirs.                        *)
IsFilled(q, S, place, R) ==
    /\ q \in Records
    /\ S \subseteq Items /\ place \in [S -> Queue!Bins]
    /\ \A b \in Queue!Bins : Lists(q.bins[b], InPlace(S, place, b), R)
    /\ q.nonempty = {place[x] : x \in S}
    /\ q.first = Queue!First(q.nonempty)

LEMMA NoBinIs == Queue!NoBin \in Nat /\ \A b \in Queue!Bins : b \in Nat /\ b < Queue!NoBin
  <1>1. Majors \in Nat /\ Radix \in Nat
    BY QueueAssumption
  <1>2. Majors * Radix \in Nat
    BY <1>1
  <1> QED
    BY <1>2 DEF Queue!NoBin, Queue!Bins

LEMMA FirstOf ==
    ASSUME NEW B \in SUBSET Queue!Bins
    PROVE  /\ Queue!First(B) \in Nat /\ \A b \in B : Queue!First(B) <= b
           /\ B = {} => Queue!First(B) = Queue!NoBin
           /\ B # {} => Queue!First(B) \in B
           /\ \A m \in B : (\A b \in B : m <= b) => Queue!First(B) = m
           /\ \A b \in Queue!Bins : Queue!First(B \cup {b}) = Queue!Min({Queue!First(B), b})
  <1> DEFINE C == B \cup {Queue!NoBin}
             m == Queue!Min(C)
  <1>1. C \in SUBSET Nat /\ C # {}
    BY NoBinIs
  <1>2. m \in C /\ \A n \in C : m <= n
    BY <1>1, QueueMin
  <1>3. Queue!First(B) = m
    BY DEF Queue!First
  <1>4. B # {} => m # Queue!NoBin
    BY <1>2, NoBinIs
  <1>5. \A k \in B : (\A b \in B : k <= b) => m = k
    <2> SUFFICES ASSUME NEW k \in B, \A b \in B : k <= b PROVE m = k
      OBVIOUS
    <2>1. \A n \in C : k <= n
      BY NoBinIs
    <2> QED
      BY <1>1, <2>1, QueueMin
  <1>6. ASSUME NEW b \in Queue!Bins PROVE Queue!First(B \cup {b}) = Queue!Min({m, b})
    <2> DEFINE D == (B \cup {b}) \cup {Queue!NoBin}
               k == Queue!Min({m, b})
    <2>1. {m, b} \in SUBSET Nat /\ {m, b} # {} /\ D \in SUBSET Nat /\ D # {}
      BY <1>1, <1>2, NoBinIs
    <2>2. k \in {m, b} /\ k <= m /\ k <= b
      BY <2>1, QueueMin
    <2>3. k \in Nat /\ m \in Nat
      BY <2>1, <2>2
    <2>4. \A n \in D : n \in Nat /\ (n = b \/ n \in C)
      BY <2>1
    <2>5. k \in D /\ \A n \in D : k <= n
      BY <1>2, <2>2, <2>3, <2>4
    <2>6. Queue!Min(D) = k
      BY <2>1, <2>5, QueueMin
    <2> QED
      BY <2>6 DEF Queue!First
  <1> HIDE DEF m
  <1> QED
    BY <1>1, <1>2, <1>3, <1>4, <1>5, <1>6

(* The first bin has an item, unless there is none.                        *)
LEMMA FirstBin ==
    ASSUME NEW q, NEW S, NEW place, NEW R, IsFilled(q, S, place, R)
    PROVE  /\ q.nonempty \subseteq Queue!Bins
           /\ \A b \in Queue!Bins : b \in q.nonempty <=> q.bins[b] # <<>>
           /\ \A x \in S : q.first <= place[x] /\ place[x] \in Queue!Bins
           /\ S = {} => q.first = Queue!NoBin
           /\ S # {} => /\ q.first \in Queue!Bins /\ q.first < Queue!NoBin
                        /\ \E x \in S : place[x] = q.first
                        /\ q.bins[q.first] # <<>>
  <1>1. /\ q.nonempty \in SUBSET Queue!Bins /\ q.nonempty = {place[x] : x \in S}
        /\ q.first = Queue!First(q.nonempty) /\ place \in [S -> Queue!Bins]
    BY DEF IsFilled, Records
  <1>2. ASSUME NEW b \in Queue!Bins PROVE b \in q.nonempty <=> q.bins[b] # <<>>
    <2>1. Lists(q.bins[b], InPlace(S, place, b), R)
      BY DEF IsFilled
    <2>2. q.bins[b] = <<>> <=> InPlace(S, place, b) = {}
      BY <2>1, ListsNone
    <2> QED
      BY <1>1, <2>2 DEF InPlace
  <1>3. /\ \A b \in q.nonempty : q.first <= b
        /\ q.nonempty = {} => q.first = Queue!NoBin
        /\ q.nonempty # {} => q.first \in q.nonempty
    <2> DEFINE B == q.nonempty
    <2>1. B \in SUBSET Queue!Bins /\ q.first = Queue!First(B)
      BY <1>1
    <2> HIDE DEF B
    <2>2. /\ \A b \in B : q.first <= b
          /\ B = {} => q.first = Queue!NoBin
          /\ B # {} => q.first \in B
      BY <2>1, FirstOf
    <2> QED
      BY <2>2 DEF B
  <1>4. S # {} => q.first \in q.nonempty
    <2> SUFFICES ASSUME NEW x \in S PROVE q.first \in q.nonempty
      OBVIOUS
    <2>1. place[x] \in q.nonempty
      BY <1>1
    <2> QED
      BY <1>3, <2>1
  <1> QED
    BY <1>1, <1>2, <1>3, <1>4, NoBinIs

(* An item is added to a bin.                                              *)
Placed(place, S, x, b) == [y \in S \cup {x} |-> IF y = x THEN b ELSE place[y]]

Put(e, x, b) ==
    IF e.bins[b] = <<>>
    THEN [e EXCEPT !.bins[b] = <<x>>, !.nonempty = @ \cup {b}, !.first = Queue!Min({@, b})]
    ELSE [e EXCEPT !.bins[b] = Append(@, x)]

LEMMA PutBack ==
    ASSUME NEW e, NEW S, NEW place, NEW R, IsFilled(e, S, place, R),
           NEW x \in Items \ S, NEW b \in Queue!Bins,
           \A y \in S : place[y] = b => <<y, x>> \in R
    PROVE  /\ IsFilled(Put(e, x, b), S \cup {x}, Placed(place, S, x, b), R)
           /\ Put(e, x, b).active = e.active
  <1> DEFINE T == S \cup {x}
             at == Placed(place, S, x, b)
             r == Put(e, x, b)
  <1>1. /\ e \in Records /\ S \subseteq Items /\ place \in [S -> Queue!Bins]
        /\ e.nonempty = {place[y] : y \in S} /\ e.first = Queue!First(e.nonempty)
    BY DEF IsFilled
  <1>2. /\ T \subseteq Items /\ at \in [T -> Queue!Bins] /\ at[x] = b
        /\ \A y \in S : at[y] = place[y] /\ y # x
    BY <1>1 DEF Placed
  <1>3. ASSUME NEW c \in Queue!Bins
        PROVE  Lists(e.bins[c], InPlace(S, place, c), R)
    BY DEF IsFilled
  <1>4. \A c \in Queue!Bins : InPlace(T, at, c) = IF c = b THEN InPlace(S, place, c) \cup {x}
                                                  ELSE InPlace(S, place, c)
    BY <1>2 DEF InPlace
  <1>5. Append(e.bins[b], x) \in Seq(Items) /\ e.bins[b] \in Seq(Items)
    BY <1>1 DEF Records
  <1>6. /\ r \in Records /\ r.active = e.active
        /\ r.bins = [e.bins EXCEPT ![b] = Append(@, x)]
        /\ r.nonempty = e.nonempty \cup {b}
        /\ r.first = Queue!First(e.nonempty \cup {b})
    <2>1. CASE e.bins[b] = <<>>
      <3>1. Append(e.bins[b], x) = <<x>>
        BY <2>1
      <3> DEFINE B == e.nonempty
      <3>2. B \in SUBSET Queue!Bins /\ B \cup {b} \in SUBSET Queue!Bins
            /\ e.first = Queue!First(B)
        BY <1>1 DEF Records
      <3> HIDE DEF B
      <3>3. Queue!First(B \cup {b}) \in Nat
        BY <3>2, FirstOf
      <3>4. Queue!First(B \cup {b}) = Queue!Min({e.first, b})
        BY <3>2, FirstOf
      <3>5. Queue!First(e.nonempty \cup {b}) = Queue!Min({e.first, b})
        BY <3>4 DEF B
      <3>6. Queue!First(e.nonempty \cup {b}) \in Nat
        BY <3>3 DEF B
      <3>7. r = [e EXCEPT !.bins[b] = <<x>>, !.nonempty = @ \cup {b},
                          !.first = Queue!Min({@, b})]
        BY <2>1 DEF Put
      <3>8. /\ r.active = e.active /\ r.bins = [e.bins EXCEPT ![b] = <<x>>]
            /\ r.nonempty = e.nonempty \cup {b} /\ r.first = Queue!Min({e.first, b})
            /\ r = [active |-> r.active, first |-> r.first, nonempty |-> r.nonempty,
                    bins |-> r.bins]
        BY <1>1, <3>7 DEF Records
      <3>9. r.bins \in [Queue!Bins -> Seq(Items)]
        BY <1>1, <1>5, <3>1, <3>8 DEF Records
      <3> QED
        BY <1>1, <3>1, <3>5, <3>6, <3>8, <3>9 DEF Records
    <2>2. CASE e.bins[b] # <<>>
      <3>1. b \in e.nonempty
        BY <2>2, FirstBin
      <3>2. e.nonempty \cup {b} = e.nonempty
        BY <3>1
      <3>3. r = [e EXCEPT !.bins[b] = Append(@, x)]
        BY <2>2 DEF Put
      <3>4. /\ r.active = e.active /\ r.bins = [e.bins EXCEPT ![b] = Append(@, x)]
            /\ r.nonempty = e.nonempty /\ r.first = e.first
            /\ r = [active |-> r.active, first |-> r.first, nonempty |-> r.nonempty,
                    bins |-> r.bins]
        BY <1>1, <3>3 DEF Records
      <3>5. r.bins \in [Queue!Bins -> Seq(Items)]
        BY <1>1, <1>5, <3>4 DEF Records
      <3> QED
        BY <1>1, <3>2, <3>4, <3>5 DEF Records
    <2> QED
      BY <2>1, <2>2
  <1> HIDE DEF at, r
  <1>7. ASSUME NEW c \in Queue!Bins
        PROVE  Lists(r.bins[c], InPlace(T, at, c), R)
    <2>1. CASE c = b
      <3>1. x \notin InPlace(S, place, b) /\ \A y \in InPlace(S, place, b) : <<y, x>> \in R
        BY DEF InPlace
      <3>2. Lists(Append(e.bins[b], x), InPlace(S, place, b) \cup {x}, R)
        BY <1>3, <3>1, ListsAppend
      <3>3. r.bins[b] = Append(e.bins[b], x)
        BY <1>1, <1>6 DEF Records
      <3> QED
        BY <1>4, <2>1, <3>2, <3>3
    <2>2. CASE c # b
      <3>1. r.bins[c] = e.bins[c]
        BY <1>1, <1>6, <2>2 DEF Records
      <3> QED
        BY <1>3, <1>4, <2>2, <3>1
    <2> QED
      BY <2>1, <2>2
  <1>8. r.nonempty = {at[y] : y \in T}
    BY <1>1, <1>2, <1>6
  <1>9. IsFilled(r, T, at, R)
    BY <1>2, <1>6, <1>7, <1>8 DEF IsFilled
  <1> QED
    BY <1>6, <1>9 DEF at, r

(* An item is taken out of its bin.                                        *)
Rest(place, T) == [y \in T |-> place[y]]

LEMMA TakeOut ==
    ASSUME NEW q, NEW S, NEW place, NEW R, IsFilled(q, S, place, R),
           NEW x \in S, NEW b, b = place[x], NEW items, NEW C, Lists(items, C, R),
           C = InPlace(S, place, b) \ {x}, NEW T, T = S \ {x}
    PROVE  /\ IsFilled(Queue!Without(q, b, items), T, Rest(place, T), R)
           /\ Queue!Without(q, b, items).active = q.active
  <1> DEFINE at == Rest(place, T)
             B == IF items = <<>> THEN q.nonempty \ {b} ELSE q.nonempty
             f == IF items = <<>> /\ b = q.first THEN Queue!First(B) ELSE q.first
             r == Queue!Without(q, b, items)
  <1>1. /\ q \in Records /\ S \subseteq Items /\ place \in [S -> Queue!Bins]
        /\ q.nonempty = {place[y] : y \in S} /\ q.first = Queue!First(q.nonempty)
        /\ b \in Queue!Bins
    BY DEF IsFilled
  <1>2. /\ T \subseteq Items /\ at \in [T -> Queue!Bins]
        /\ \A y \in T : at[y] = place[y]
    BY <1>1 DEF Rest
  <1>3. ASSUME NEW c \in Queue!Bins
        PROVE  Lists(q.bins[c], InPlace(S, place, c), R)
    BY DEF IsFilled
  <1>4. \A c \in Queue!Bins : InPlace(T, at, c) = IF c = b THEN InPlace(S, place, c) \ {x}
                                                  ELSE InPlace(S, place, c)
    BY <1>2 DEF InPlace
  <1>5. items \in Seq(Items)
    <2>1. items \in Seq(InPlace(S, place, b) \ {x})
      BY DEF Lists
    <2>2. InPlace(S, place, b) \ {x} \subseteq Items
      BY <1>1 DEF InPlace
    <2> QED
      BY <2>1, <2>2
  <1>6. items = <<>> <=> InPlace(S, place, b) \ {x} = {}
    BY ListsNone
  <1>7. B = {at[y] : y \in T}
    <2> HIDE DEF at
    <2>1. \A y \in S : place[y] = b /\ y # x => items # <<>>
      BY <1>6 DEF InPlace
    <2>2. items # <<>> => \E y \in S : place[y] = b /\ y # x
      BY <1>6 DEF InPlace
    <2>3. ASSUME NEW y \in T PROVE at[y] \in B
      BY <1>1, <1>2, <2>1
    <2>4. ASSUME NEW c \in B PROVE \E y \in T : at[y] = c
      <3>1. PICK y \in S : place[y] = c
        BY <1>1
      <3>2. CASE y # x
        BY <1>2, <3>1, <3>2
      <3>3. CASE y = x
        <4>1. items # <<>>
          BY <3>1, <3>3
        <4>2. PICK z \in S : place[z] = b /\ z # x
          BY <2>2, <4>1
        <4> QED
          BY <1>2, <3>1, <3>3, <4>2
      <3> QED
        BY <3>2, <3>3
    <2> HIDE DEF B
    <2> QED
      BY <2>3, <2>4
  <1>8. B \in SUBSET Queue!Bins /\ B \subseteq q.nonempty
    BY <1>1 DEF Records
  <1>9. f = Queue!First(B) /\ f \in Nat
    <2>1. CASE items = <<>> /\ b = q.first
      BY <1>8, <2>1, FirstOf
    <2>2. CASE items = <<>> /\ b # q.first
      <3>1. S # {} /\ q.first \in q.nonempty
        BY <1>1, FirstBin
      <3>2. q.first \in B /\ f = q.first
        BY <2>2, <3>1
      <3>3. \A c \in B : q.first <= c
        BY <1>1, <1>8, FirstOf
      <3>4. Queue!First(B) = q.first /\ Queue!First(B) \in Nat
        BY <1>8, <3>2, <3>3, FirstOf
      <3> QED
        BY <3>2, <3>4
    <2>3. CASE items # <<>>
      BY <1>1, <2>3 DEF Records
    <2> QED
      BY <2>1, <2>2, <2>3
  <1>10. /\ r \in Records /\ r.active = q.active /\ r.nonempty = B /\ r.first = f
         /\ r.bins = [q.bins EXCEPT ![b] = items]
    <2>1. r = [q EXCEPT !.bins[b] = items, !.nonempty = B, !.first = f]
      BY DEF Queue!Without
    <2> HIDE DEF r, B, f
    <2>2. /\ r.active = q.active /\ r.bins = [q.bins EXCEPT ![b] = items]
          /\ r.nonempty = B /\ r.first = f
          /\ r = [active |-> r.active, first |-> r.first, nonempty |-> r.nonempty,
                  bins |-> r.bins]
      BY <1>1, <2>1 DEF Records
    <2>3. r.bins \in [Queue!Bins -> Seq(Items)]
      BY <1>1, <1>5, <2>2 DEF Records
    <2> QED
      BY <1>1, <1>8, <1>9, <2>2, <2>3 DEF Records
  <1> HIDE DEF at, r, B, f
  <1>11. ASSUME NEW c \in Queue!Bins
         PROVE  Lists(r.bins[c], InPlace(T, at, c), R)
    <2>1. CASE c = b
      <3>1. r.bins[b] = items
        BY <1>1, <1>10 DEF Records
      <3> QED
        BY <1>4, <2>1, <3>1
    <2>2. CASE c # b
      <3>1. r.bins[c] = q.bins[c]
        BY <1>1, <1>10, <2>2 DEF Records
      <3> QED
        BY <1>3, <1>4, <2>2, <3>1
    <2> QED
      BY <2>1, <2>2
  <1>12. IsFilled(r, T, at, R)
    BY <1>2, <1>7, <1>9, <1>10, <1>11 DEF IsFilled
  <1> QED
    BY <1>10, <1>12 DEF at, r

(***************************************************************************)
(* The queue                                                               *)
(***************************************************************************)

IsTime(t) == t \in Nat /\ High(t, Majors) = 0

(* A time at which the queue is asked: no digit is above that of the sign. *)
IsAsked(m) == m \in Nat /\ High(m, SignMajor + 1) = 0

LEMMA BelowWeight ==
    ASSUME NEW k \in 0..Majors, NEW t \in 0..(W(k) - 1)
    PROVE  t \in Nat /\ High(t, k) = 0
  <1> DEFINE w == W(k)
  <1>1. w \in Nat \ {0} /\ t \in 0..(w - 1)
    BY WeightIs
  <1> HIDE DEF w
  <1>2. ((0 * w) + t) \div w = 0
    BY <1>1, QuotientIs
  <1>3. (0 * w) + t = t /\ t \in Nat
    BY <1>1
  <1>4. t \div w = 0
    BY <1>2, <1>3
  <1> QED
    BY <1>3, <1>4 DEF w, High

LEMMA TimesAre ==
    /\ \A t \in 0..(W(Majors) - 1) : IsTime(t)
    /\ \A s, t : IsTime(s) /\ t \in Nat /\ t <= s => IsTime(t)
    /\ \A s, t : IsTime(s) /\ IsTime(t) => High(s, Majors) = High(t, Majors)
  <1>1. Majors \in Nat /\ Majors \in 0..Majors
    BY QueueAssumption
  <1>2. ASSUME NEW t \in 0..(W(Majors) - 1) PROVE IsTime(t)
    BY <1>1, BelowWeight DEF IsTime
  <1>3. ASSUME NEW s, NEW t \in Nat, IsTime(s), t <= s PROVE IsTime(t)
    <2>1. s \in Nat /\ High(s, Majors) = 0
      BY <1>3 DEF IsTime
    <2>2. High(t, Majors) <= High(s, Majors)
      BY <1>1, <1>3, <2>1, HighGrows
    <2>3. High(t, Majors) \in Nat
      BY <1>1, DigitsOf
    <2> QED
      BY <2>1, <2>2, <2>3 DEF IsTime
  <1> QED
    BY <1>2, <1>3 DEF IsTime

LEMMA AskedAre == \A m \in Asks : IsAsked(m)
  <1>1. SignMajor + 1 \in 0..Majors /\ Asks \subseteq 0..(W(SignMajor + 1) - 1)
    BY QueueAssumption DEF W
  <1> QED
    BY <1>1, BelowWeight DEF IsAsked

(* A bin whose time has come when the queue is asked is not above the      *)
(* digit of the sign: what is due later stays where it is.                 *)
LEMMA DueBin ==
    ASSUME NEW a \in Nat, NEW t \in Nat, NEW e \in Nat, NEW m, IsAsked(m),
           NEW b \in Queue!Bins, a <= t, Differs(a, t, b), e <= m,
           High(e, Queue!Major(b)) = High(t, Queue!Major(b))
    PROVE  Queue!Major(b) <= SignMajor
  <1> DEFINE k == Queue!Major(b)
             n == SignMajor + 1
  <1>1. k \in 0..Majors /\ k \in Nat /\ k < Majors
    BY MajorFits
  <1>2. n \in 0..Majors /\ SignMajor \in Nat /\ Majors \in Nat
    BY QueueAssumption
  <1> SUFFICES ASSUME ~(k <= SignMajor) PROVE FALSE
    OBVIOUS
  <1>3. k \in n..Majors /\ k # 0
    BY <1>1, <1>2
  <1>4. High(a, k) < High(t, k) /\ High(a, k) \in Nat /\ High(t, k) \in Nat
    <2>1. High(a, k) <= High(t, k)
      BY <1>1, HighGrows
    <2>2. High(t, k) # High(a, k)
      BY <1>3 DEF Differs
    <2>3. High(a, k) \in Nat /\ High(t, k) \in Nat
      BY <1>1, DigitsOf
    <2> QED
      BY <2>1, <2>2, <2>3
  <1>5. High(e, n) = 0
    <2>1. m \in Nat /\ High(m, n) = 0
      BY DEF IsAsked
    <2>2. High(e, n) <= High(m, n) /\ High(e, n) \in Nat
      BY <1>2, <2>1, HighGrows, DigitsOf
    <2> QED
      BY <2>1, <2>2
  <1>6. High(0, n) = 0 /\ High(0, k) = 0
    <2>1. 0 \in 0..(W(n) - 1) /\ 0 \in 0..(W(k) - 1)
      BY <1>1, <1>2, WeightIs
    <2> QED
      BY <1>1, <1>2, <2>1, BelowWeight
  <1>7. High(e, k) = High(0, k)
    <2>1. High(e, n) = High(0, n) /\ 0 \in Nat
      BY <1>5, <1>6
    <2> QED
      BY <1>2, <1>3, <2>1, EqualAbove
  <1> QED
    BY <1>4, <1>6, <1>7

(* Every item of S is in the bin that get_bin_index() gives, and due no    *)
(* earlier than a.                                                         *)
Fits(a, d, S, place) ==
    \A x \in S : /\ IsTime(d[x]) /\ a <= d[x]
                 /\ Near(a, d[x], place[x]) /\ Differs(a, d[x], place[x])

IsQueue(q, S, d, place, R) == /\ IsFilled(q, S, place, R)
                              /\ IsTime(q.active) /\ Fits(q.active, d, S, place)

(* Where active_time becomes earlier and no item is to move up, all stay   *)
(* where they are, and are still in the right bins.                        *)
LEMMA EarlierFits ==
    ASSUME NEW q, NEW S, NEW d, NEW place, NEW R, IsQueue(q, S, d, place, R),
           NEW t, IsTime(t), t < q.active, q.first >= Queue!TargetOf(q, t)
    PROVE  LET f == Queue!FromDigit(t, 1)
           IN  /\ IsTime(f) /\ f <= t /\ Fits(f, d, S, place)
               /\ Queue!TargetOf(q, t) \in Nat
  <1> DEFINE f == Queue!FromDigit(t, 1)
             a == q.active
             m == Queue!HighestDifference(f, a)
             bin == Queue!BinIndex(f, a)
             target == Queue!TargetOf(q, t)
  <1>1. /\ Majors \in Nat \ {0} /\ Radix \in Nat \ {0, 1} /\ 1 \in 0..Majors /\ 0 \in 0..Majors
    BY QueueAssumption
  <1>2. a \in Nat /\ t \in Nat /\ t < a /\ IsTime(a)
    BY DEF IsQueue, IsTime
  <1>3. f \in Nat /\ f <= t
    <2>1. W(1) \in Nat \ {0}
      BY <1>1, WeightIs
    <2>2. \A w \in Nat \ {0} : (t \div w) * w \in Nat /\ (t \div w) * w <= t
      <3> SUFFICES ASSUME NEW w \in Nat \ {0}
                   PROVE  (t \div w) * w \in Nat /\ (t \div w) * w <= t
        OBVIOUS
      <3>1. t \div w \in Int /\ t % w \in 0..(w - 1) /\ t = ((t \div w) * w) + (t % w)
        BY <1>2, Division
      <3>2. t \div w \in Nat
        BY <1>2
      <3>3. (t \div w) * w \in Nat
        BY <3>2
      <3> QED
        BY <1>2, <3>1, <3>3
    <2>3. f = (t \div W(1)) * W(1)
      BY DEF Queue!FromDigit, W
    <2> QED
      BY <2>1, <2>2, <2>3
  <1>4. IsTime(f) /\ High(f, Majors) = High(a, Majors)
    BY <1>2, <1>3, TimesAre
  <1>5. Near(f, a, bin) /\ Differs(f, a, bin)
    BY <1>2, <1>3, <1>4, BinIndexIs
  <1>6. m \in 0..(Majors - 1) /\ bin = (m * Radix) + Queue!Digit(a, m)
    <2> DEFINE D == {k \in 0..(Majors - 1) : Queue!Digit(f, k) # Queue!Digit(a, k)}
    <2>1. {0} \cup D \in SUBSET (0..(Majors - 1)) /\ {0} \cup D # {} /\ Majors - 1 \in Nat
      BY <1>1
    <2>2. m = Queue!Max({0} \cup D)
      BY DEF Queue!HighestDifference
    <2> HIDE DEF D
    <2>3. m \in {0} \cup D
      BY <2>1, <2>2, GreatestNumber
    <2>4. bin = (m * Radix) + Queue!Digit(a, m)
      BY DEF Queue!BinIndex
    <2> QED
      BY <2>1, <2>3, <2>4
  <1> HIDE DEF f, a, m, bin, target
  <1>7. /\ m \in Nat /\ m \in 0..Majors /\ m + 1 \in 0..Majors /\ m < Majors
    BY <1>1, <1>6
  <1>8. /\ Queue!Major(bin) = m /\ Queue!Minor(bin) = Queue!Digit(a, m)
    <2>1. Queue!Digit(a, m) \in 0..(Radix - 1)
      BY <1>2, <1>7, DigitsOf
    <2> QED
      BY <1>6, <2>1, BinIs
  <1>9. /\ High(a, m + 1) = High(f, m + 1)
        /\ m = 0 \/ High(a, m) # High(f, m)
    BY <1>5, <1>8 DEF Near, Differs
  <1>10. PICK M \in {m, m + 1} : target = (M * Radix) + Queue!Digit(a, M)
    <2> DEFINE Upper(s) == Queue!Digit(s, m) >= Radix \div 2
               M == IF Upper(t) # Upper(a) THEN m + 1 ELSE m
    <2>1. target = (M * Radix) + Queue!Digit(a, M)
      BY DEF Queue!TargetOf, f, a, m, target
    <2>2. M \in {m, m + 1}
      OBVIOUS
    <2> HIDE DEF M
    <2> QED
      BY <2>1, <2>2
  <1>11. M \in Nat /\ M \in 0..Majors /\ Queue!Digit(a, M) \in 0..(Radix - 1)
    <2>1. M = m \/ M = m + 1
      BY <1>10
    <2>2. M \in 0..Majors
      BY <1>7, <2>1
    <2>3. a \in Nat
      BY <1>2
    <2>4. Queue!Digit(a, M) \in 0..(Radix - 1)
      BY <2>2, <2>3, DigitsOf
    <2>5. M \in Nat
      BY <2>2
    <2> QED
      BY <2>2, <2>4, <2>5
  <1>12. target \in Nat
    <2>1. M * Radix \in Nat
      BY <1>1, <1>11
    <2> QED
      BY <1>10, <1>11, <2>1
  <1>13. ASSUME NEW x \in S
         PROVE  Near(f, d[x], place[x]) /\ Differs(f, d[x], place[x]) /\ f <= d[x]
    <2> DEFINE b == place[x]
               k == Queue!Major(b)
               s == d[x]
    <2>1. /\ IsTime(s) /\ a <= s /\ Near(a, s, b) /\ Differs(a, s, b)
      BY DEF IsQueue, Fits, a
    <2> HIDE DEF b, s
    <2>2. b \in Queue!Bins /\ s \in Nat
      BY <2>1 DEF Near, IsTime
    <2>3. target <= b
      <3>1. q.first <= place[x] /\ q.first \in Nat
        BY FirstBin DEF IsQueue, IsFilled, Records
      <3>2. b \in Nat
        BY <2>2, NoBinIs
      <3> QED
        BY <1>12, <3>1, <3>2 DEF b, target
    <2>4. /\ k \in Nat /\ Queue!Minor(b) \in 0..(Radix - 1) /\ b = (k * Radix) + Queue!Minor(b)
          /\ k \in 0..(Majors - 1) /\ k \in 0..Majors /\ k + 1 \in 0..Majors /\ k < Majors
      BY <2>2, BinParts, MajorFits
    <2>5. M < k \/ (M = k /\ Queue!Digit(a, M) <= Queue!Minor(b))
      <3> DEFINE i == Queue!Minor(b)
                 j == Queue!Digit(a, M)
      <3>1. /\ k \in Nat /\ M \in Nat /\ Radix \in Nat \ {0}
            /\ i \in 0..(Radix - 1) /\ j \in 0..(Radix - 1)
        BY <1>1, <1>11, <2>4
      <3>2. ~((k * Radix) + i < (M * Radix) + j)
        <4>1. (k * Radix) + i \in Int /\ (M * Radix) + j \in Int
          BY <3>1
        <4> QED
          BY <1>10, <2>3, <2>4, <4>1
      <3> HIDE DEF i, j, k
      <3>3. ~(k < M \/ (k = M /\ i < j))
        BY <3>1, <3>2, PairsCompare
      <3> QED
        BY <3>1, <3>3 DEF i, j
    <2>6. m <= k
      BY <1>7, <1>10, <2>4, <2>5
    <2>7. /\ High(s, k + 1) = High(a, k + 1) /\ Queue!Digit(s, k) = Queue!Minor(b)
          /\ k = 0 \/ High(s, k) # High(a, k)
      BY <2>1 DEF Near, Differs
    <2>8. High(a, k + 1) = High(f, k + 1)
      <3>1. k + 1 \in (m + 1)..Majors
        BY <1>1, <1>7, <2>4, <2>6
      <3> QED
        BY <1>2, <1>3, <1>7, <1>9, <3>1, EqualAbove
    <2>9. Near(f, s, b)
      BY <2>2, <2>7, <2>8 DEF Near
    <2>10. CASE m < k
      <3>1. k \in (m + 1)..Majors
        BY <1>1, <1>7, <2>4, <2>10
      <3>2. High(a, k) = High(f, k)
        BY <1>2, <1>3, <1>7, <1>9, <3>1, EqualAbove
      <3>3. Differs(f, s, b)
        BY <2>7, <3>2 DEF Differs
      <3> QED
        BY <1>2, <1>3, <2>1, <2>2, <2>9, <3>3 DEF b, s
    <2>11. CASE m = k /\ k # 0
      <3>1. M = m /\ Queue!Digit(a, m) <= Queue!Digit(s, m)
        BY <1>7, <1>10, <2>5, <2>7, <2>11
      <3>2. High(f, m) <= High(a, m)
        BY <1>2, <1>3, <1>7, HighGrows
      <3>3. High(f, m) < High(a, m)
        <4>1. High(f, m) \in Nat /\ High(a, m) \in Nat
          BY <1>2, <1>3, <1>7, DigitsOf
        <4> QED
          BY <1>9, <2>11, <3>2, <4>1
      <3>4. Queue!Digit(f, m) < Queue!Digit(a, m)
        <4>1. \/ High(f, m + 1) < High(a, m + 1)
              \/ /\ High(f, m + 1) = High(a, m + 1)
                 /\ Queue!Digit(f, m) < Queue!Digit(a, m)
          BY <1>2, <1>3, <1>6, <3>3, DigitsCompare
        <4>2. High(f, m + 1) \in Nat /\ High(a, m + 1) \in Nat
          BY <1>2, <1>3, <1>7, DigitsOf
        <4> QED
          BY <1>9, <4>1, <4>2
      <3>5. Queue!Digit(f, m) # Queue!Digit(s, m)
        <4>1. Queue!Digit(f, m) \in Int /\ Queue!Digit(a, m) \in Int /\ Queue!Digit(s, m) \in Int
          BY <1>2, <1>3, <1>7, <2>2, DigitsOf
        <4> QED
          BY <3>1, <3>4, <4>1
      <3>6. High(s, m) # High(f, m)
        BY <1>3, <1>6, <2>2, <3>5, DigitsCompare
      <3>7. Differs(f, s, b)
        BY <2>11, <3>6 DEF Differs
      <3> QED
        BY <1>2, <1>3, <2>1, <2>2, <2>9, <3>7 DEF b, s
    <2>12. CASE k = 0
      <3>1. Differs(f, s, b)
        BY <2>12 DEF Differs
      <3> QED
        BY <1>2, <1>3, <2>1, <2>2, <2>9, <3>1 DEF b, s
    <2> QED
      BY <1>7, <2>4, <2>6, <2>10, <2>11, <2>12
  <1>14. Fits(f, d, S, place)
    BY <1>13 DEF Fits, IsQueue
  <1> QED
    BY <1>3, <1>4, <1>12, <1>14 DEF f, target

LEMMA FlattenNone == Queue!FlattenSeq(<<>>) = <<>>
  <1>1. Len(<<>>) = 0
    OBVIOUS
  <1> QED
    BY <1>1 DEF Queue!FlattenSeq

(* Then the queue is what it was, but for its active_time.                 *)
LEMMA EarlierQueue ==
    ASSUME NEW q, NEW S, NEW d, NEW place, NEW R, IsQueue(q, S, d, place, R),
           NEW t, IsTime(t), t < q.active, q.first >= Queue!TargetOf(q, t)
    PROVE  LET e == Queue!SetEarlierActiveTime(q, t)
           IN  e.active <= t /\ IsQueue(e, S, d, place, R)
  <1> DEFINE f == Queue!FromDigit(t, 1)
             target == Queue!TargetOf(q, t)
             moved == {b \in q.nonempty : b < target}
             lists == [i \in 1..Queue!Cardinality(moved) |->
                          q.bins[Queue!SetToSortSeq(moved, <)[i]]]
             items == Queue!FlattenSeq(lists)
             e == Queue!SetEarlierActiveTime(q, t)
  <1>1. IsTime(f) /\ f <= t /\ Fits(f, d, S, place) /\ target \in Nat
    BY EarlierFits
  <1>2. /\ IsFilled(q, S, place, R) /\ q \in Records
        /\ q.first = Queue!First(q.nonempty) /\ q.nonempty \in SUBSET Queue!Bins
        /\ q.bins \in [Queue!Bins -> Seq(Items)] /\ q.first \in Nat
    BY DEF IsQueue, IsFilled, Records
  <1>3. moved = {}
    <2>1. \A b \in q.nonempty : q.first <= b /\ b \in Nat
      BY <1>2, FirstOf, NoBinIs
    <2> QED
      BY <1>1, <1>2, <2>1
  <1>4. items = <<>>
    <2>1. Queue!Cardinality(moved) = 0
      BY <1>3, FS_EmptySet DEF Queue!Cardinality
    <2>2. Len(<<>>) = 0
      OBVIOUS
    <2> HIDE DEF moved
    <2>3. lists = <<>>
      BY <2>1
    <2> HIDE DEF lists
    <2>4. items = Queue!FlattenSeq(<<>>)
      BY <2>3
    <2> QED
      BY <2>4, FlattenNone
  <1>5. e = [active |-> f, first |-> Queue!First(q.nonempty \ moved),
             nonempty |-> q.nonempty \ moved,
             bins |-> [b \in Queue!Bins |-> IF b \in moved THEN <<>>
                                            ELSE IF b = target THEN q.bins[b] \o items
                                            ELSE q.bins[b]]]
    BY DEF Queue!SetEarlierActiveTime
  <1> HIDE DEF f, target, moved, lists, items, e
  <1>6. q.nonempty \ moved = q.nonempty
    BY <1>3
  <1>7. [b \in Queue!Bins |-> IF b \in moved THEN <<>>
                              ELSE IF b = target THEN q.bins[b] \o items
                              ELSE q.bins[b]] = q.bins
    <2>1. \A b \in Queue!Bins : q.bins[b] \o items = q.bins[b]
      BY <1>2, <1>4
    <2> QED
      BY <1>2, <1>3, <2>1
  <1>8. e = [active |-> f, first |-> q.first, nonempty |-> q.nonempty, bins |-> q.bins]
    BY <1>2, <1>5, <1>6, <1>7
  <1>9. IsFilled(e, S, place, R)
    BY <1>1, <1>2, <1>8 DEF IsFilled, Records, IsTime
  <1> QED
    BY <1>1, <1>8, <1>9 DEF IsQueue, e, f

(* One item is added.                                                      *)
LEMMA AddOne ==
    ASSUME NEW q, NEW S, NEW d, NEW place, NEW R, IsQueue(q, S, d, place, R),
           NEW x \in Items \ S, \A y \in S : <<y, x>> \in R,
           NEW f, \A y \in S : f[y] = d[y], IsTime(f[x]),
           f[x] >= q.active \/ q.first >= Queue!TargetOf(q, f[x])
    PROVE  /\ \E at : IsQueue(Queue!Added(q, x, f[x]), S \cup {x}, f, at, R)
           /\ f[x] >= q.active => Queue!Added(q, x, f[x]).active = q.active
  <1> DEFINE t == f[x]
             e == IF t < q.active THEN Queue!SetEarlierActiveTime(q, t) ELSE q
             b == Queue!BinIndex(e.active, t)
             at == Placed(place, S, x, b)
             r == Queue!Added(q, x, t)
  <1>1. t \in Nat /\ q.active \in Nat
    BY DEF IsTime, IsQueue
  <1>2. e.active <= t /\ IsQueue(e, S, d, place, R)
    <2>1. CASE t < q.active
      <3>1. q.first >= Queue!TargetOf(q, t)
        BY <1>1, <2>1
      <3> QED
        BY <2>1, <3>1, EarlierQueue
    <2>2. CASE ~(t < q.active)
      BY <1>1, <2>2
    <2> QED
      BY <2>1, <2>2
  <1>3. r = Put(e, x, b)
    BY Zenon DEF Queue!Added, Put
  <1> HIDE DEF e, r
  <1>4. IsFilled(e, S, place, R) /\ IsTime(e.active) /\ IsTime(t) /\ Fits(e.active, d, S, place)
    BY <1>2 DEF IsQueue
  <1>5. Near(e.active, t, b) /\ Differs(e.active, t, b) /\ b \in Queue!Bins
    <2>1. High(e.active, Majors) = High(t, Majors) /\ e.active \in Nat
      BY <1>4, TimesAre DEF IsTime
    <2> QED
      BY <1>1, <2>1, BinIndexIs DEF Near
  <1> HIDE DEF b, t
  <1>6. IsFilled(r, S \cup {x}, at, R) /\ r.active = e.active
    BY <1>3, <1>4, <1>5, PutBack
  <1>7. at[x] = b /\ \A y \in S : at[y] = place[y]
    BY DEF Placed
  <1> HIDE DEF at
  <1>8. Fits(e.active, f, S \cup {x}, at)
    <2>1. ASSUME NEW y \in S
          PROVE  /\ IsTime(f[y]) /\ e.active <= f[y]
                 /\ Near(e.active, f[y], at[y]) /\ Differs(e.active, f[y], at[y])
      <3>1. /\ IsTime(d[y]) /\ e.active <= d[y]
            /\ Near(e.active, d[y], place[y]) /\ Differs(e.active, d[y], place[y])
        BY <1>4 DEF Fits
      <3>2. f[y] = d[y] /\ at[y] = place[y]
        BY <1>7
      <3> QED
        BY <3>1, <3>2
    <2>2. /\ IsTime(f[x]) /\ e.active <= f[x]
          /\ Near(e.active, f[x], at[x]) /\ Differs(e.active, f[x], at[x])
      BY <1>2, <1>4, <1>5, <1>7 DEF t
    <2> QED
      BY <2>1, <2>2 DEF Fits
  <1>9. IsQueue(r, S \cup {x}, f, at, R)
    BY <1>4, <1>6, <1>8 DEF IsQueue
  <1>10. t >= q.active => r.active = q.active
    <2>1. t >= q.active => ~(t < q.active)
      BY <1>1 DEF t
    <2> QED
      BY <1>6, <2>1 DEF e, t
  <1> QED
    BY <1>9, <1>10 DEF r, t

(* Where each step leads from one set to the next, the recursive function  *)
(* stays in them.                                                          *)
LEMMA StaysIn ==
    ASSUME NEW N \in Nat, NEW inv, NEW g, g[0] \in inv[0],
           \A n \in 1..N : g[n - 1] \in inv[n - 1] => g[n] \in inv[n]
    PROVE  \A n \in 0..N : g[n] \in inv[n]
  <1> DEFINE S == {n \in 0..N : g[n] \in inv[n]}
  <1>1. 0 \in S
    OBVIOUS
  <1>2. ASSUME NEW n \in 1..N, n - 1 \in S PROVE n \in S
    <2>1. g[n - 1] \in inv[n - 1]
      BY <1>2
    <2>2. g[n] \in inv[n]
      BY <2>1
    <2>3. n \in 0..N
      OBVIOUS
    <2> QED
      BY <2>2, <2>3
  <1> HIDE DEF S
  <1>3. 0..N \subseteq S
    BY <1>1, <1>2, UpTo
  <1> QED
    BY <1>3 DEF S

LEMMA Recursive ==
    ASSUME NEW N \in Nat, NEW inv, NEW init \in inv[0], NEW step,
           \A n \in 1..N : \A r \in inv[n - 1] : step[<<n, r>>] \in inv[n]
    PROVE  \E f : IsRecursion(f, N, init, step) /\ \A n \in 0..N : f[n] \in inv[n]
  <1>1. PICK f : IsRecursion(f, N, init, step)
    BY RecursionExists
  <1>2. \A n \in 0..N : f[n] = IF n = 0 THEN init ELSE step[<<n, f[n - 1]>>]
    BY <1>1 DEF IsRecursion
  <1>3. f[0] \in inv[0]
    <2>1. 0 \in 0..N
      OBVIOUS
    <2>2. f[0] = init
      BY <1>2, <2>1
    <2>3. init \in inv[0]
      OBVIOUS
    <2> QED
      BY <2>2, <2>3
  <1>4. ASSUME NEW n \in 1..N, f[n - 1] \in inv[n - 1] PROVE f[n] \in inv[n]
    <2>1. n \in 0..N /\ n # 0
      OBVIOUS
    <2>2. f[n] = step[<<n, f[n - 1]>>]
      BY <1>2, <2>1
    <2> QED
      BY <1>4, <2>2
  <1>5. \A n \in 0..N : f[n] \in inv[n]
    BY <1>3, <1>4, StaysIn
  <1> QED
    BY <1>1, <1>5

(***************************************************************************)
(* The items of the first bin come down by a digit                         *)
(***************************************************************************)

NextMajor(q) == Queue!Major(q.first) - 1

Target(q, x) == NextMajor(q) * Radix + Queue!Digit(q_due[x], NextMajor(q))

Down(q, S, place) == [x \in S |-> IF place[x] = q.first THEN Target(q, x) ELSE place[x]]

Emptied(q) == [q.bins EXCEPT ![q.first] = <<>>]

Moves(q, f) ==
    [n \in 0..Len(q.bins[q.first]) |->
        IF n = 0 THEN Emptied(q)
        ELSE [f[n - 1] EXCEPT ![Target(q, q.bins[q.first][n])] =
                                  Queue!PushBack(@, q.bins[q.first][n])]]

LEMMA SpreadIs ==
    ASSUME NEW q
    PROVE  Queue!Spread(q) =
             [active |-> Queue!BinTime(q.active, q.first),
              first |-> Queue!Min({Target(q, x) : x \in Queue!ToSet(q.bins[q.first])}),
              nonempty |-> (q.nonempty \cup {Target(q, x) : x \in Queue!ToSet(q.bins[q.first])})
                              \ {q.first},
              bins |-> (CHOOSE f : f = Moves(q, f))[Len(q.bins[q.first])]]
  BY Zenon DEF Queue!Spread, Moves, Target, NextMajor, Emptied

(* What the bin c has after n of the items have moved                      *)
HasMoved(q, S, place, n, c) ==
    {x \in S : place[x] = c /\ c # q.first}
        \cup {x \in S : Target(q, x) = c /\ \E i \in 1..n : q.bins[q.first][i] = x}

HaveMoved(q, S, place, R, n) ==
    {f \in [Queue!Bins -> Seq(Items)] :
        \A c \in Queue!Bins : Lists(f[c], HasMoved(q, S, place, n, c), R)}

LEMMA TargetIs ==
    ASSUME NEW q, NEW S, NEW place, NEW R, IsFilled(q, S, place, R), S # {},
           Queue!Major(q.first) > 0, NEW x \in S, q_due[x] \in Nat
    PROVE  /\ Target(q, x) \in Queue!Bins /\ Target(q, x) < q.first
           /\ Queue!Major(Target(q, x)) = NextMajor(q)
           /\ Queue!Minor(Target(q, x)) = Queue!Digit(q_due[x], NextMajor(q))
           /\ NextMajor(q) \in Nat /\ NextMajor(q) + 1 = Queue!Major(q.first)
  <1> DEFINE m == NextMajor(q)
             k == Queue!Major(q.first)
             c == Queue!Digit(q_due[x], m)
  <1>1. q.first \in Queue!Bins
    BY FirstBin
  <1>2. k \in 0..(Majors - 1) /\ Majors \in Nat
    BY <1>1, BinParts, QueueAssumption
  <1>3. m = k - 1
    BY DEF NextMajor
  <1> HIDE DEF m, k
  <1>4. m \in 0..(Majors - 1) /\ m \in 0..Majors /\ m + 1 = k /\ m \in Nat /\ m < k
    BY <1>2, <1>3 DEF k
  <1>5. c \in 0..(Radix - 1)
    BY <1>4, DigitsOf
  <1>6. Target(q, x) = (m * Radix) + c
    BY DEF Target, m
  <1> HIDE DEF c
  <1>7. /\ Target(q, x) \in Queue!Bins /\ Queue!Major(Target(q, x)) = m
        /\ Queue!Minor(Target(q, x)) = c
    BY <1>4, <1>5, <1>6, BinIs
  <1>8. Target(q, x) < q.first
    BY <1>1, <1>4, <1>7, BinsCompare DEF k
  <1> QED
    BY <1>4, <1>7, <1>8 DEF m, k, c

LEMMA MoveOne ==
    ASSUME NEW q, NEW S, NEW place, NEW R, IsFilled(q, S, place, R), S # {},
           Queue!Major(q.first) > 0, \A x \in S : q_due[x] \in Nat,
           NEW n \in 1..Len(q.bins[q.first]), NEW f \in HaveMoved(q, S, place, R, n - 1)
    PROVE  [f EXCEPT ![Target(q, q.bins[q.first][n])] =
                Queue!PushBack(@, q.bins[q.first][n])] \in HaveMoved(q, S, place, R, n)
  <1> DEFINE source == q.bins[q.first]
             x == source[n]
             t == Target(q, x)
             g == [f EXCEPT ![t] = Queue!PushBack(@, x)]
  <1>1. /\ S \subseteq Items /\ q.first \in Queue!Bins /\ place \in [S -> Queue!Bins]
    BY FirstBin DEF IsFilled
  <1>2. Lists(source, InPlace(S, place, q.first), R)
    BY <1>1 DEF IsFilled
  <1>3. source \in Seq(InPlace(S, place, q.first)) /\ Len(source) \in Nat
    BY <1>2 DEF Lists
  <1>4. x \in S /\ place[x] = q.first /\ x \in Items
    <2>1. x \in InPlace(S, place, q.first)
      BY <1>3
    <2> QED
      BY <1>1, <2>1 DEF InPlace
  <1>5. t \in Queue!Bins /\ t < q.first
    BY <1>4, TargetIs
  <1>6. f \in [Queue!Bins -> Seq(Items)]
    BY DEF HaveMoved
  <1>7. \A c \in Queue!Bins : Lists(f[c], HasMoved(q, S, place, n - 1, c), R)
    BY DEF HaveMoved
  <1>8. g = [f EXCEPT ![t] = Append(@, x)] /\ g \in [Queue!Bins -> Seq(Items)]
    BY <1>4, <1>5, <1>6 DEF Queue!PushBack
  <1> HIDE DEF source, t, g
  <1>9. \A i \in 1..(n - 1) : i \in 1..Len(source) /\ i < n
    BY <1>3 DEF source
  <1>10. \A i \in 1..n : i \in 1..(n - 1) \/ i = n
    BY <1>3 DEF source
  <1>11. n \in 1..n /\ n \in 1..Len(source) /\ \A i \in 1..(n - 1) : i \in 1..n
    BY <1>3 DEF source
  <1>12. ASSUME NEW c \in Queue!Bins
         PROVE  HasMoved(q, S, place, n, c) = IF c = t THEN HasMoved(q, S, place, n - 1, c) \cup {x}
                                              ELSE HasMoved(q, S, place, n - 1, c)
    <2> DEFINE A(k) == {y \in S : Target(q, y) = c /\ \E i \in 1..k : source[i] = y}
               B == {y \in S : place[y] = c /\ c # q.first}
    <2>1. HasMoved(q, S, place, n, c) = B \cup A(n)
      BY DEF HasMoved, source
    <2>2. HasMoved(q, S, place, n - 1, c) = B \cup A(n - 1)
      BY DEF HasMoved, source
    <2>3. A(n) = IF c = t THEN A(n - 1) \cup {x} ELSE A(n - 1)
      <3>1. ASSUME NEW y \in S
            PROVE  (\E i \in 1..n : source[i] = y) <=> (\E i \in 1..(n - 1) : source[i] = y) \/ y = x
        BY <1>10, <1>11
      <3>2. Target(q, x) = t
        BY DEF t
      <3> QED
        BY <1>4, <3>1, <3>2
    <2> QED
      BY <2>1, <2>2, <2>3
  <1>13. ASSUME NEW y \in HasMoved(q, S, place, n - 1, t) PROVE y # x /\ <<y, x>> \in R
    <2>1. \A z \in S : q.first <= place[z]
      BY FirstBin
    <2>2. q.first \in Nat /\ t \in Nat
      BY <1>1, <1>5, NoBinIs
    <2>3. \A z \in S : place[z] # t
      BY <1>5, <2>1, <2>2
    <2>4. PICK i \in 1..(n - 1) : source[i] = y
      BY <2>3 DEF HasMoved, source
    <2>5. i \in 1..Len(source) /\ i < n
      BY <1>9
    <2> QED
      BY <1>2, <1>11, <2>4, <2>5 DEF Lists, source
  <1>14. ASSUME NEW c \in Queue!Bins PROVE Lists(g[c], HasMoved(q, S, place, n, c), R)
    <2>1. CASE c = t
      <3>1. g[t] = Append(f[t], x)
        BY <1>5, <1>6, <1>8
      <3>2. Lists(Append(f[t], x), HasMoved(q, S, place, n - 1, t) \cup {x}, R)
        <4>1. Lists(f[t], HasMoved(q, S, place, n - 1, t), R)
          BY <1>5, <1>7
        <4>2. x \notin HasMoved(q, S, place, n - 1, t)
          BY <1>13
        <4> HIDE DEF x
        <4> QED
          BY <1>13, <4>1, <4>2, ListsAppend
      <3>3. HasMoved(q, S, place, n, c) = HasMoved(q, S, place, n - 1, t) \cup {x}
        BY <1>12, <2>1
      <3> QED
        BY <2>1, <3>1, <3>2, <3>3
    <2>2. CASE c # t
      <3>1. g[c] = f[c]
        BY <1>5, <1>6, <1>8, <2>2
      <3> QED
        BY <1>7, <1>12, <2>2, <3>1
    <2> QED
      BY <2>1, <2>2
  <1>15. g \in HaveMoved(q, S, place, R, n)
    BY <1>8, <1>14 DEF HaveMoved
  <1> QED
    BY <1>15 DEF g, t, source

LEMMA AllMoved ==
    ASSUME NEW q, NEW S, NEW place, NEW R, IsFilled(q, S, place, R), S # {},
           Queue!Major(q.first) > 0, \A x \in S : q_due[x] \in Nat
    PROVE  (CHOOSE f : f = Moves(q, f))[Len(q.bins[q.first])]
               \in HaveMoved(q, S, place, R, Len(q.bins[q.first]))
  <1> DEFINE source == q.bins[q.first]
             N == Len(source)
             inv == [n \in 0..N |-> HaveMoved(q, S, place, R, n)]
             Next1(n, f) == [f EXCEPT ![Target(q, source[n])] = Queue!PushBack(@, source[n])]
             X == [Queue!Bins -> Seq(Items)]
             step == [p \in (1..N) \X X |-> Next1(p[1], p[2])]
             init == Emptied(q)
             after == CHOOSE f : f = Moves(q, f)
  <1>1. /\ q.first \in Queue!Bins /\ q.bins \in [Queue!Bins -> Seq(Items)]
        /\ S \subseteq Items /\ place \in [S -> Queue!Bins]
    BY FirstBin DEF IsFilled, Records
  <1>2. source \in Seq(Items) /\ N \in Nat
    BY <1>1
  <1>3. init \in HaveMoved(q, S, place, R, 0)
    <2>1. init \in X
      BY <1>1 DEF Emptied
    <2>2. ASSUME NEW c \in Queue!Bins PROVE Lists(init[c], HasMoved(q, S, place, 0, c), R)
      <3>1. 1..0 = {}
        OBVIOUS
      <3>2. CASE c = q.first
        <4>1. init[c] = <<>> /\ HasMoved(q, S, place, 0, c) = {}
          BY <1>1, <3>1, <3>2 DEF Emptied, HasMoved
        <4> QED
          BY <4>1, ListsNone
      <3>3. CASE c # q.first
        <4>1. init[c] = q.bins[c] /\ HasMoved(q, S, place, 0, c) = InPlace(S, place, c)
          BY <1>1, <3>1, <3>3 DEF Emptied, HasMoved, InPlace
        <4>2. Lists(q.bins[c], InPlace(S, place, c), R)
          BY DEF IsFilled
        <4> QED
          BY <4>1, <4>2
      <3> QED
        BY <3>2, <3>3
    <2> HIDE DEF init
    <2> QED
      BY <2>1, <2>2 DEF HaveMoved
  <1>4. ASSUME NEW n \in 1..N, NEW f \in HaveMoved(q, S, place, R, n - 1)
        PROVE  Next1(n, f) \in HaveMoved(q, S, place, R, n)
    BY MoveOne
  <1>5. \A n : HaveMoved(q, S, place, R, n) \subseteq X
    BY DEF HaveMoved
  <1> HIDE DEF source, init, Next1
  <1>6. ASSUME NEW n \in 1..N
        PROVE  /\ n - 1 \in 0..N /\ n \in 0..N /\ n # 0
               /\ inv[n - 1] = HaveMoved(q, S, place, R, n - 1)
               /\ inv[n] = HaveMoved(q, S, place, R, n)
    BY <1>2
  <1>7. ASSUME NEW n \in 1..N, NEW f \in X PROVE step[<<n, f>>] = Next1(n, f)
    OBVIOUS
  <1>8. inv[0] = HaveMoved(q, S, place, R, 0)
    BY <1>2
  <1> HIDE DEF inv, step, N, X
  <1>9. ASSUME NEW n \in 1..N, NEW f \in inv[n - 1]
        PROVE  step[<<n, f>>] \in inv[n] /\ step[<<n, f>>] = Next1(n, f)
    BY <1>4, <1>5, <1>6, <1>7
  <1>10. PICK f : IsRecursion(f, N, init, step) /\ \A n \in 0..N : f[n] \in inv[n]
    BY <1>2, <1>3, <1>8, <1>9, Recursive
  <1>11. f = Moves(q, f)
    <2>1. f = [n \in 0..N |-> IF n = 0 THEN init ELSE step[<<n, f[n - 1]>>]]
      BY <1>10 DEF IsRecursion
    <2>2. ASSUME NEW n \in 0..N, n # 0 PROVE step[<<n, f[n - 1]>>] = Next1(n, f[n - 1])
      <3>1. n \in 1..N /\ n - 1 \in 0..N
        BY <1>2, <2>2
      <3> QED
        BY <1>9, <1>10, <3>1
    <2>3. \A n \in 0..N : (IF n = 0 THEN init ELSE step[<<n, f[n - 1]>>])
                            = (IF n = 0 THEN init ELSE Next1(n, f[n - 1]))
      BY <2>2
    <2>4. f = [n \in 0..N |-> IF n = 0 THEN init ELSE Next1(n, f[n - 1])]
      BY <2>1, <2>3, Zenon
    <2>5. Moves(q, f) = [n \in 0..N |-> IF n = 0 THEN init ELSE Next1(n, f[n - 1])]
      BY Zenon DEF Moves, N, source, init, Next1
    <2> QED
      BY <2>4, <2>5
  <1>12. after = Moves(q, after)
    BY <1>11
  <1> HIDE DEF after
  <1>13. \A n \in 0..N : after[n] = IF n = 0 THEN init ELSE Next1(n, after[n - 1])
    <2>1. Moves(q, after) = [n \in 0..N |-> IF n = 0 THEN init ELSE Next1(n, after[n - 1])]
      BY Zenon DEF Moves, N, source, init, Next1
    <2> QED
      BY <1>12, <2>1
  <1>14. after[0] \in inv[0]
    BY <1>2, <1>3, <1>8, <1>13
  <1>15. ASSUME NEW n \in 1..N, after[n - 1] \in inv[n - 1] PROVE after[n] \in inv[n]
    BY <1>6, <1>9, <1>13, <1>15
  <1>16. after[N] \in inv[N]
    <2>1. \A n \in 0..N : after[n] \in inv[n]
      BY <1>2, <1>14, <1>15, StaysIn
    <2> QED
      BY <1>2, <2>1
  <1>17. inv[N] = HaveMoved(q, S, place, R, N)
    BY <1>2 DEF inv
  <1> QED
    BY <1>16, <1>17 DEF after, N, source

(* On the way down all items are in the bins of their times, but those of  *)
(* the first bin may belong lower, if active_time is not after m.          *)
IsLoose(q, S, place, R, m) ==
    /\ IsFilled(q, S, place, R) /\ IsTime(q.active)
    /\ \A x \in S :
           /\ IsTime(q_due[x]) /\ q.active <= q_due[x] /\ Near(q.active, q_due[x], place[x])
           /\ \/ Differs(q.active, q_due[x], place[x])
              \/ place[x] = q.first /\ q.active <= m

FirstTime(q) == Queue!BinTime(q.active, q.first)

LEMMA FirstTimeIs ==
    ASSUME NEW q, NEW S, NEW place, NEW R, NEW m, IsLoose(q, S, place, R, m), S # {}
    PROVE  /\ IsTime(FirstTime(q))
           /\ \A x \in S : FirstTime(q) <= q_due[x]
           /\ \A x \in S : place[x] = q.first =>
                 /\ Queue!Major(q.first) = 0 => FirstTime(q) = q_due[x]
                 /\ High(FirstTime(q), Queue!Major(q.first)) = High(q_due[x], Queue!Major(q.first))
                 /\ Queue!Major(q.first) > 0 =>
                        Queue!Digit(FirstTime(q), Queue!Major(q.first) - 1) = 0
                 /\ Differs(q.active, q_due[x], q.first) \/ FirstTime(q) <= q.active
           /\ \A x \in S : place[x] # q.first =>
                 /\ FirstTime(q) < q_due[x]
                 /\ Near(FirstTime(q), q_due[x], place[x])
                 /\ Differs(FirstTime(q), q_due[x], place[x])
  <1> DEFINE b == q.first
             k == Queue!Major(b)
             a == q.active
             e == FirstTime(q)
  <1>1. IsFilled(q, S, place, R) /\ IsTime(a) /\ a \in Nat
    BY DEF IsLoose, IsTime
  <1>2. ASSUME NEW x \in S
        PROVE  /\ IsTime(q_due[x]) /\ q_due[x] \in Nat /\ a <= q_due[x]
               /\ Near(a, q_due[x], place[x]) /\ place[x] \in Queue!Bins
               /\ place[x] # b => Differs(a, q_due[x], place[x]) /\ b < place[x]
    <2>1. /\ IsTime(q_due[x]) /\ a <= q_due[x] /\ Near(a, q_due[x], place[x])
          /\ place[x] # b => Differs(a, q_due[x], place[x])
      BY DEF IsLoose
    <2>2. q_due[x] \in Nat /\ place[x] \in Queue!Bins
      BY <2>1 DEF IsTime, Near
    <2>3. b <= place[x] /\ b \in Nat /\ place[x] \in Nat
      BY <1>1, <2>2, FirstBin, NoBinIs DEF IsFilled, Records
    <2> QED
      BY <2>1, <2>2, <2>3
  <1>3. PICK y \in S : place[y] = b
    BY <1>1, FirstBin
  <1>4. /\ b \in Queue!Bins /\ k \in Nat /\ k \in 0..Majors /\ k + 1 \in 0..Majors /\ k < Majors
        /\ Majors \in Nat
    BY <1>2, <1>3, MajorFits, QueueAssumption
  <1>5. ASSUME NEW x \in S, place[x] = b
        PROVE  /\ e \in Nat /\ e <= q_due[x]
               /\ k = 0 => e = q_due[x]
               /\ e = High(q_due[x], k) * W(k) /\ High(e, k) = High(q_due[x], k)
               /\ k > 0 => Queue!Digit(e, k - 1) = 0
    <2>1. Near(a, q_due[x], b) /\ q_due[x] \in Nat
      BY <1>2, <1>5
    <2> QED
      BY <1>1, <2>1, BinTimeIs DEF FirstTime
  <1> HIDE DEF k, e, b, a
  <1>6. IsTime(e) /\ e \in Nat
    <2>1. e \in Nat /\ e <= q_due[y] /\ IsTime(q_due[y])
      BY <1>2, <1>3, <1>5
    <2> QED
      BY <2>1, TimesAre
  <1>7. ASSUME NEW x \in S, place[x] = b, ~Differs(a, q_due[x], b) PROVE e <= a
    <2>1. High(q_due[x], k) = High(a, k)
      BY <1>7 DEF Differs, k
    <2>2. e = High(a, k) * W(k)
      BY <1>5, <1>7, <2>1
    <2>3. W(k) \in Nat \ {0}
      BY <1>4, WeightIs
    <2>4. \A w \in Nat \ {0} : (a \div w) * w <= a
      <3> SUFFICES ASSUME NEW w \in Nat \ {0} PROVE (a \div w) * w <= a
        OBVIOUS
      <3>1. a \div w \in Int /\ a % w \in 0..(w - 1) /\ a = ((a \div w) * w) + (a % w)
        BY <1>1, Division
      <3>2. (a \div w) * w \in Int
        BY <3>1
      <3> QED
        BY <1>1, <3>1, <3>2
    <2> QED
      BY <2>2, <2>3, <2>4 DEF High
  <1>8. ASSUME NEW x \in S, place[x] # b
        PROVE  e < q_due[x] /\ Near(e, q_due[x], place[x]) /\ Differs(e, q_due[x], place[x])
    <2> DEFINE c == place[x]
               l == Queue!Major(c)
               s == q_due[y]
               t == q_due[x]
    <2>1. /\ t \in Nat /\ Near(a, t, c) /\ Differs(a, t, c) /\ a <= t /\ b < c
          /\ c \in Queue!Bins /\ s \in Nat /\ Near(a, s, b)
      BY <1>2, <1>3, <1>8
    <2> HIDE DEF c, s, t
    <2>2. High(s, l) < High(t, l) /\ s < t
      BY <1>1, <2>1, LaterBins
    <2>3. /\ l \in Nat /\ l \in 0..Majors /\ l + 1 \in 0..Majors /\ l < Majors
      BY <2>1, MajorFits
    <2>4. k <= l
      BY <1>4, <2>1, <2>3, BinsCompare DEF k
    <2>5. /\ e \in Nat /\ e <= s /\ High(e, k) = High(s, k)
      BY <1>3, <1>5 DEF s
    <2>6. High(e, l) = High(s, l)
      <3>1. l \in k..Majors
        BY <1>4, <2>3, <2>4
      <3> QED
        BY <1>4, <2>1, <2>5, <3>1, EqualAbove
    <2>7. High(e, l + 1) = High(a, l + 1)
      <3>1. l + 1 \in k..Majors /\ l + 1 \in (k + 1)..Majors
        BY <1>4, <2>3, <2>4
      <3>2. High(e, l + 1) = High(s, l + 1)
        BY <1>4, <2>1, <2>5, <3>1, EqualAbove
      <3>3. High(s, k + 1) = High(a, k + 1)
        BY <2>1 DEF Near, k
      <3>4. High(s, l + 1) = High(a, l + 1)
        BY <1>1, <1>4, <2>1, <3>1, <3>3, EqualAbove
      <3> QED
        BY <3>2, <3>4
    <2>8. Near(e, t, c)
      BY <2>1, <2>7 DEF Near
    <2>9. High(t, l) # High(e, l)
      <3>1. High(s, l) \in Nat /\ High(t, l) \in Nat
        BY <2>1, <2>3, DigitsOf
      <3> QED
        BY <2>2, <2>6, <3>1
    <2>10. Differs(e, t, c)
      BY <2>9 DEF Differs
    <2>11. e < t
      BY <2>1, <2>2, <2>5
    <2> QED
      BY <2>8, <2>10, <2>11 DEF t, c
  <1>9. \A x \in S : e <= q_due[x]
    <2> SUFFICES ASSUME NEW x \in S PROVE e <= q_due[x]
      OBVIOUS
    <2>1. q_due[x] \in Nat
      BY <1>2
    <2> QED
      BY <1>5, <1>6, <1>8, <2>1
  <1> QED
    BY <1>5, <1>6, <1>7, <1>8, <1>9 DEF e, b, k, a

(* The first bin's items come down to the next digit.                      *)
LEMMA SpreadLoose ==
    ASSUME NEW q, NEW S, NEW place, NEW R, NEW m, IsLoose(q, S, place, R, m), S # {},
           Queue!Major(q.first) > 0, FirstTime(q) <= m
    PROVE  /\ IsLoose(Queue!Spread(q), S, Down(q, S, place), R, m)
           /\ Queue!Major(Queue!Spread(q).first) = NextMajor(q)
           /\ NextMajor(q) \in Nat /\ NextMajor(q) + 1 = Queue!Major(q.first)
  <1> DEFINE r == Queue!Spread(q)
             at == Down(q, S, place)
             source == q.bins[q.first]
             N == Len(source)
             e == FirstTime(q)
             k == NextMajor(q)
             F == {Target(q, x) : x \in Queue!ToSet(source)}
             after == (CHOOSE f : f = Moves(q, f))[N]
  <1>1. /\ IsFilled(q, S, place, R) /\ q \in Records /\ S \subseteq Items
        /\ place \in [S -> Queue!Bins] /\ q.nonempty = {place[x] : x \in S}
        /\ q.first \in Queue!Bins /\ q.first \in Nat
        /\ \A x \in S : q_due[x] \in Nat
    BY FirstBin, NoBinIs DEF IsLoose, IsFilled, IsTime
  <1>2. /\ IsTime(e) /\ e \in Nat /\ \A x \in S : e <= q_due[x]
    BY FirstTimeIs DEF IsTime
  <1>3. ASSUME NEW x \in S
        PROVE  /\ Target(q, x) \in Queue!Bins /\ Target(q, x) < q.first
               /\ Queue!Major(Target(q, x)) = k
               /\ Queue!Minor(Target(q, x)) = Queue!Digit(q_due[x], k)
               /\ k \in Nat /\ k + 1 = Queue!Major(q.first)
    BY <1>1, TargetIs
  <1>4. /\ r.active = e /\ r.first = Queue!Min(F) /\ r.bins = after
        /\ r.nonempty = (q.nonempty \cup F) \ {q.first}
        /\ r = [active |-> r.active, first |-> r.first, nonempty |-> r.nonempty,
                bins |-> r.bins]
    <2>1. r = [active |-> Queue!BinTime(q.active, q.first), first |-> Queue!Min(F),
               nonempty |-> (q.nonempty \cup F) \ {q.first}, bins |-> after]
      BY SpreadIs, Zenon
    <2> HIDE DEF r, F, after
    <2> QED
      BY <2>1 DEF FirstTime
  <1>5. Lists(source, InPlace(S, place, q.first), R)
    BY <1>1 DEF IsFilled
  <1>6. after \in HaveMoved(q, S, place, R, N)
    BY <1>1, AllMoved
  <1> HIDE DEF r, source, e, after
  <1>7. Queue!ToSet(source) = {x \in S : place[x] = q.first}
    BY <1>5, ListsSet DEF InPlace
  <1>8. /\ at \in [S -> Queue!Bins]
        /\ \A x \in S : at[x] = IF place[x] = q.first THEN Target(q, x) ELSE place[x]
    BY <1>1, <1>3 DEF Down
  <1>9. \A x \in S : (\E i \in 1..N : source[i] = x) <=> place[x] = q.first
    <2>1. /\ source \in Seq(InPlace(S, place, q.first))
          /\ \A x \in InPlace(S, place, q.first) : \E i \in 1..N : source[i] = x
      BY <1>5 DEF Lists
    <2>2. \A i \in 1..N : source[i] \in InPlace(S, place, q.first)
      BY <2>1
    <2> QED
      BY <2>1, <2>2 DEF InPlace
  <1> HIDE DEF N, at
  <1>10. ASSUME NEW c \in Queue!Bins PROVE HasMoved(q, S, place, N, c) = InPlace(S, at, c)
    <2>1. HasMoved(q, S, place, N, c) =
              {x \in S : place[x] = c /\ c # q.first}
                 \cup {x \in S : Target(q, x) = c /\ \E i \in 1..N : source[i] = x}
      BY DEF HasMoved, source
    <2> QED
      BY <1>8, <1>9, <2>1 DEF InPlace
  <1>11. /\ after \in [Queue!Bins -> Seq(Items)]
         /\ \A c \in Queue!Bins : Lists(after[c], InPlace(S, at, c), R)
    BY <1>6, <1>10 DEF HaveMoved
  <1>12. F = {Target(q, x) : x \in {z \in S : place[z] = q.first}}
    BY <1>7
  <1>13. PICK y \in S : place[y] = q.first
    BY <1>1, FirstBin
  <1>14. F \in SUBSET Nat /\ F # {} /\ \A b \in F : b < q.first /\ b \in Queue!Bins
    BY <1>3, <1>12, <1>13, NoBinIs
  <1>15. r.first \in F /\ \A b \in F : r.first <= b
    <2> HIDE DEF F
    <2>1. F \in SUBSET Nat /\ F # {} /\ r.first = Queue!Min(F)
      BY <1>4, <1>14
    <2> QED
      BY <2>1, QueueMin
  <1>16. r.nonempty = {at[x] : x \in S}
    <2>1. ASSUME NEW x \in S PROVE at[x] \in r.nonempty
      <3>1. CASE place[x] = q.first
        <4> HIDE DEF F
        <4>1. at[x] \in F
          BY <1>8, <1>12, <3>1
        <4>2. at[x] \in F /\ at[x] # q.first
          BY <1>1, <1>14, <4>1
        <4> QED
          BY <1>4, <4>2
      <3>2. CASE place[x] # q.first
        BY <1>1, <1>4, <1>8, <3>2
      <3> QED
        BY <3>1, <3>2
    <2>2. ASSUME NEW b \in r.nonempty PROVE \E x \in S : at[x] = b
      <3>1. CASE b \in F
        BY <1>8, <1>12, <3>1
      <3>2. CASE b \notin F
        <4>1. b \in q.nonempty /\ b # q.first
          BY <1>4, <2>2, <3>2
        <4> QED
          BY <1>1, <1>8, <4>1
      <3> QED
        BY <3>1, <3>2
    <2> QED
      BY <2>1, <2>2
  <1>17. ASSUME NEW x \in S PROVE r.first <= at[x] /\ (place[x] # q.first => r.first # at[x])
    <2>1. CASE place[x] = q.first
      BY <1>8, <1>12, <1>15, <2>1
    <2>2. CASE place[x] # q.first
      <3>1. q.first <= place[x] /\ place[x] \in Nat
        BY <1>1, FirstBin, NoBinIs
      <3>2. r.first < q.first /\ r.first \in Nat
        BY <1>14, <1>15
      <3> QED
        BY <1>1, <1>8, <2>2, <3>1, <3>2
    <2> QED
      BY <2>1, <2>2
  <1>18. r.nonempty \in SUBSET Queue!Bins /\ r.first \in r.nonempty /\ r.first \in Nat
    <2>1. r.first # q.first
      BY <1>1, <1>14, <1>15
    <2> QED
      BY <1>4, <1>8, <1>14, <1>15, <1>16, <2>1
  <1>19. r.first = Queue!First(r.nonempty)
    <2> DEFINE B == r.nonempty
    <2>1. \A b \in B : r.first <= b
      BY <1>16, <1>17
    <2>2. B \in SUBSET Queue!Bins /\ r.first \in B
      BY <1>18
    <2> HIDE DEF B
    <2>3. Queue!First(B) = r.first
      BY <2>1, <2>2, FirstOf
    <2> QED
      BY <2>3 DEF B
  <1>20. IsFilled(r, S, at, R)
    <2>1. r \in Records
      BY <1>2, <1>4, <1>11, <1>18 DEF Records
    <2> QED
      BY <1>1, <1>4, <1>8, <1>11, <1>16, <1>19, <2>1 DEF IsFilled
  <1>21. Queue!Major(r.first) = k /\ r.first \in Queue!Bins
    BY <1>3, <1>12, <1>14, <1>15
  <1>22. /\ k \in Nat /\ k + 1 = Queue!Major(q.first) /\ k \in 0..(Majors - 1) /\ k < Majors
         /\ k \in 0..Majors /\ k + 1 \in 0..Majors
    <2>1. k \in Nat /\ k + 1 = Queue!Major(q.first)
      BY <1>3, <1>13
    <2> QED
      BY <1>1, <2>1, MajorFits, QueueAssumption
  <1> HIDE DEF k, F
  <1>23. ASSUME NEW x \in S
         PROVE  /\ IsTime(q_due[x]) /\ e <= q_due[x] /\ Near(e, q_due[x], at[x])
                /\ \/ Differs(e, q_due[x], at[x])
                   \/ at[x] = r.first /\ e <= m
    <2> DEFINE t == q_due[x]
    <2>1. IsTime(t) /\ e <= t /\ t \in Nat
      BY <1>1, <1>2 DEF IsLoose
    <2>2. CASE place[x] # q.first
      <3>1. Near(e, t, place[x]) /\ Differs(e, t, place[x])
        BY <2>2, FirstTimeIs DEF e
      <3> QED
        BY <1>8, <2>1, <2>2, <3>1
    <2>3. CASE place[x] = q.first
      <3>1. /\ High(e, k + 1) = High(t, k + 1)
            /\ Queue!Major(q.first) > 0 => Queue!Digit(e, Queue!Major(q.first) - 1) = 0
        BY <1>22, <2>3, FirstTimeIs DEF e
      <3>2. Queue!Digit(e, k) = 0
        BY <3>1 DEF k, NextMajor
      <3>3. /\ at[x] \in Queue!Bins /\ Queue!Major(at[x]) = k
            /\ Queue!Minor(at[x]) = Queue!Digit(t, k)
        BY <1>3, <1>8, <2>3 DEF k
      <3>4. Near(e, t, at[x])
        BY <3>1, <3>3 DEF Near
      <3>5. CASE Queue!Digit(t, k) # 0
        <4>1. High(t, k) # High(e, k)
          BY <1>2, <1>22, <2>1, <3>2, <3>5, DigitsCompare
        <4>2. Differs(e, t, at[x])
          BY <3>3, <4>1 DEF Differs
        <4> QED
          BY <2>1, <3>4, <4>2
      <3>6. CASE Queue!Digit(t, k) = 0
        <4>1. ~(r.first < at[x])
          <5>1. Queue!Minor(r.first) \in 0..(Radix - 1)
            BY <1>21, BinParts
          <5>2. ~(Queue!Minor(r.first) < 0)
            BY <5>1, QueueAssumption
          <5> QED
            BY <1>21, <1>22, <3>3, <3>6, <5>2, BinsCompare
        <4>2. r.first = at[x]
          <5>1. r.first <= at[x] /\ r.first \in Nat /\ at[x] \in Nat
            BY <1>17, <1>18, <3>3, NoBinIs
          <5> QED
            BY <4>1, <5>1
        <4> QED
          BY <2>1, <3>4, <4>2 DEF e
      <3> QED
        BY <3>5, <3>6
    <2> QED
      BY <2>2, <2>3
  <1>24. IsLoose(r, S, at, R, m)
    BY <1>2, <1>4, <1>20, <1>23 DEF IsLoose
  <1> QED
    BY <1>21, <1>22, <1>24 DEF r, at, k

(* The time of the first bin as an int is no later, and the same below     *)
(* the digit of the sign.                                                  *)
LEMMA IntTimeIs ==
    ASSUME NEW q, NEW S, NEW place, NEW R, NEW m, IsLoose(q, S, place, R, m), S # {}
    PROVE  /\ FirstTime(q) \in Nat /\ Queue!IntBinTime(q) \in Int
           /\ Queue!IntBinTime(q) <= FirstTime(q)
           /\ Queue!Major(q.first) < SignMajor => Queue!IntBinTime(q) = FirstTime(q)
  <1>1. FirstTime(q) \in Nat
    BY FirstTimeIs DEF IsTime
  <1>2. W(SignMajor + 1) \in Nat
    BY WeightIs, QueueAssumption
  <1>3. Queue!IntBinTime(q) =
            IF Queue!Major(q.first) = SignMajor /\ Queue!Minor(q.first) >= Radix \div 2
            THEN FirstTime(q) - W(SignMajor + 1) ELSE FirstTime(q)
    BY Zenon DEF Queue!IntBinTime, FirstTime, W
  <1>4. Queue!Major(q.first) < SignMajor => Queue!Major(q.first) # SignMajor
    <2>1. q.first \in Queue!Bins
      BY FirstBin DEF IsLoose
    <2>2. Queue!Major(q.first) \in Int /\ SignMajor \in Int
      BY <2>1, BinParts, QueueAssumption
    <2> QED
      BY <2>2
  <1> QED
    BY <1>1, <1>2, <1>3, <1>4

(* What the queue is on its way down.                                      *)
OnTheWay(S, R, m) ==
    {r \in Records : /\ \E place : IsLoose(r, S, place, R, m)
                     /\ Queue!Major(r.first) <= SignMajor
                     /\ Queue!Major(r.first) = SignMajor => FirstTime(r) <= m}

StopsAt(r, m, goOn) == \/ Queue!Major(r.first) = 0
                       \/ m < Queue!IntBinTime(r) /\ Queue!Major(r.first) \notin goOn

LEMMA WayDown ==
    ASSUME NEW S, S # {}, NEW R, NEW m \in Nat, NEW r \in OnTheWay(S, R, m),
           NEW goOn \in SUBSET Queue!Undefined, ~StopsAt(r, m, goOn)
    PROVE  /\ Queue!Spread(r) \in OnTheWay(S, R, m)
           /\ Queue!Major(Queue!Spread(r).first) \in Nat
           /\ Queue!Major(Queue!Spread(r).first) + 1 = Queue!Major(r.first)
  <1> DEFINE k == Queue!Major(r.first)
             s == Queue!Spread(r)
  <1>1. PICK place : IsLoose(r, S, place, R, m)
    BY DEF OnTheWay
  <1>2. k <= SignMajor /\ (k = SignMajor => FirstTime(r) <= m)
    BY DEF OnTheWay
  <1>3. k \in Nat /\ SignMajor \in Nat
    <2>1. r.first \in Queue!Bins
      BY <1>1, FirstBin DEF IsLoose
    <2> QED
      BY <2>1, BinParts, QueueAssumption
  <1>4. k \notin goOn
    BY <1>2, <1>3 DEF Queue!Undefined
  <1>5. k # 0 /\ ~(m < Queue!IntBinTime(r))
    BY <1>4 DEF StopsAt
  <1>6. FirstTime(r) <= m
    <2>1. /\ FirstTime(r) \in Nat /\ Queue!IntBinTime(r) \in Int
          /\ k < SignMajor => Queue!IntBinTime(r) = FirstTime(r)
      BY <1>1, IntTimeIs
    <2>2. k < SignMajor \/ k = SignMajor
      BY <1>2, <1>3
    <2> QED
      BY <1>2, <1>5, <2>1, <2>2
  <1>7. k > 0
    BY <1>3, <1>5
  <1>8. /\ IsLoose(s, S, Down(r, S, place), R, m)
        /\ Queue!Major(s.first) = NextMajor(r)
        /\ NextMajor(r) \in Nat /\ NextMajor(r) + 1 = k
    BY <1>1, <1>6, <1>7, SpreadLoose
  <1> HIDE DEF k, s
  <1>9. s \in Records
    BY <1>8 DEF IsLoose, IsFilled
  <1>10. Queue!Major(s.first) <= SignMajor /\ Queue!Major(s.first) # SignMajor
    BY <1>2, <1>3, <1>8
  <1>11. s \in OnTheWay(S, R, m)
    BY <1>8, <1>9, <1>10 DEF OnTheWay
  <1> QED
    BY <1>8, <1>11 DEF k, s

Descends(q, m, goOn, f) ==
    [n \in 0..Majors |-> IF n = 0 THEN q
                         ELSE IF StopsAt(f[n - 1], m, goOn) THEN f[n - 1]
                         ELSE Queue!Spread(f[n - 1])]

LEMMA DescendedIs ==
    ASSUME NEW S, S # {}, NEW R, NEW m \in Nat, NEW q \in OnTheWay(S, R, m),
           NEW goOn \in SUBSET Queue!Undefined
    PROVE  /\ Queue!Descended(q, m, goOn) \in OnTheWay(S, R, m)
           /\ StopsAt(Queue!Descended(q, m, goOn), m, goOn)
  <1> DEFINE X == OnTheWay(S, R, m)
             Lower(n) == {r \in X : \/ StopsAt(r, m, goOn)
                                    \/ Queue!Major(r.first) + n <= Majors - 1}
             inv == [n \in 0..Majors |-> Lower(n)]
             NextDown(r) == IF StopsAt(r, m, goOn) THEN r ELSE Queue!Spread(r)
             step == [p \in (1..Majors) \X X |-> NextDown(p[2])]
             after == CHOOSE f : f = Descends(q, m, goOn, f)
  <1>1. Majors \in Nat
    BY QueueAssumption
  <1>2. ASSUME NEW r \in X PROVE Queue!Major(r.first) \in 0..(Majors - 1)
    <2>1. PICK place : IsLoose(r, S, place, R, m)
      BY DEF OnTheWay
    <2>2. r.first \in Queue!Bins
      BY <2>1, FirstBin DEF IsLoose
    <2> QED
      BY <2>2, BinParts
  <1>3. q \in Lower(0)
    BY <1>1, <1>2
  <1>4. ASSUME NEW n \in 1..Majors, NEW r \in Lower(n - 1) PROVE NextDown(r) \in Lower(n)
    <2>1. CASE StopsAt(r, m, goOn)
      BY <2>1
    <2>2. CASE ~StopsAt(r, m, goOn)
      <3> DEFINE s == Queue!Spread(r)
      <3>1. /\ r \in X /\ Queue!Major(r.first) + (n - 1) <= Majors - 1
        BY <2>2
      <3>2. s \in X /\ Queue!Major(s.first) \in Nat /\ Queue!Major(s.first) + 1 = Queue!Major(r.first)
        BY <2>2, <3>1, WayDown
      <3> HIDE DEF s, X
      <3>3. Queue!Major(s.first) + n <= Majors - 1
        BY <1>1, <3>1, <3>2
      <3>4. s \in Lower(n)
        BY <3>2, <3>3
      <3> QED
        BY <2>2, <3>4 DEF s
    <2> QED
      BY <2>1, <2>2
  <1>5. \A n : Lower(n) \subseteq X
    OBVIOUS
  <1> HIDE DEF Lower, NextDown
  <1>6. ASSUME NEW n \in 1..Majors
        PROVE  /\ n - 1 \in 0..Majors /\ n \in 0..Majors /\ n # 0
               /\ inv[n - 1] = Lower(n - 1) /\ inv[n] = Lower(n)
    BY <1>1
  <1>7. ASSUME NEW n \in 1..Majors, NEW r \in X PROVE step[<<n, r>>] = NextDown(r)
    OBVIOUS
  <1>8. inv[0] = Lower(0)
    BY <1>1
  <1>9. inv[Majors] = Lower(Majors)
    BY <1>1
  <1> HIDE DEF inv, step, X
  <1>10. ASSUME NEW n \in 1..Majors, NEW r \in inv[n - 1]
         PROVE  step[<<n, r>>] \in inv[n] /\ step[<<n, r>>] = NextDown(r)
    BY <1>4, <1>5, <1>6, <1>7
  <1>11. PICK f : IsRecursion(f, Majors, q, step) /\ \A n \in 0..Majors : f[n] \in inv[n]
    BY <1>1, <1>3, <1>8, <1>10, Recursive
  <1>12. f = Descends(q, m, goOn, f)
    <2>1. f = [n \in 0..Majors |-> IF n = 0 THEN q ELSE step[<<n, f[n - 1]>>]]
      BY <1>11 DEF IsRecursion
    <2>2. ASSUME NEW n \in 0..Majors, n # 0 PROVE step[<<n, f[n - 1]>>] = NextDown(f[n - 1])
      <3>1. n \in 1..Majors /\ n - 1 \in 0..Majors
        BY <1>1, <2>2
      <3> QED
        BY <1>10, <1>11, <3>1
    <2>3. \A n \in 0..Majors : (IF n = 0 THEN q ELSE step[<<n, f[n - 1]>>])
                                 = (IF n = 0 THEN q ELSE NextDown(f[n - 1]))
      BY <2>2
    <2>4. f = [n \in 0..Majors |-> IF n = 0 THEN q ELSE NextDown(f[n - 1])]
      BY <2>1, <2>3, Zenon
    <2>5. Descends(q, m, goOn, f) = [n \in 0..Majors |-> IF n = 0 THEN q ELSE NextDown(f[n - 1])]
      BY Zenon DEF Descends, NextDown
    <2> QED
      BY <2>4, <2>5
  <1>13. after = Descends(q, m, goOn, after)
    BY <1>12
  <1>14. Queue!Descended(q, m, goOn) = after[Majors]
    BY Zenon DEF Queue!Descended, Descends, StopsAt
  <1> HIDE DEF after
  <1>15. \A n \in 0..Majors : after[n] = IF n = 0 THEN q ELSE NextDown(after[n - 1])
    <2>1. Descends(q, m, goOn, after)
            = [n \in 0..Majors |-> IF n = 0 THEN q ELSE NextDown(after[n - 1])]
      BY Zenon DEF Descends, NextDown
    <2> QED
      BY <1>13, <2>1
  <1>16. after[0] \in inv[0]
    BY <1>1, <1>3, <1>8, <1>15
  <1>17. ASSUME NEW n \in 1..Majors, after[n - 1] \in inv[n - 1] PROVE after[n] \in inv[n]
    BY <1>6, <1>10, <1>15, <1>17
  <1>18. after[Majors] \in Lower(Majors)
    <2>1. \A n \in 0..Majors : after[n] \in inv[n]
      BY <1>1, <1>16, <1>17, StaysIn
    <2> QED
      BY <1>1, <1>9, <2>1
  <1>19. after[Majors] \in X /\ StopsAt(after[Majors], m, goOn)
    <2>1. after[Majors] \in X
      BY <1>5, <1>18
    <2>2. ~(Queue!Major(after[Majors].first) + Majors <= Majors - 1)
      BY <1>1, <1>2, <2>1
    <2> QED
      BY <1>18, <2>1, <2>2 DEF Lower
  <1> QED
    BY <1>14, <1>19 DEF X

(* At its end all items are in their bins.                                 *)
LEMMA AtTheEnd ==
    ASSUME NEW S, S # {}, NEW R, NEW m \in Nat, NEW q, NEW place, IsLoose(q, S, place, R, m),
           Queue!Major(q.first) = 0 \/ m < FirstTime(q)
    PROVE  IsQueue(q, S, q_due, place, R)
  <1>1. ASSUME NEW x \in S PROVE Differs(q.active, q_due[x], place[x])
    <2> SUFFICES ASSUME ~Differs(q.active, q_due[x], place[x]) PROVE FALSE
      OBVIOUS
    <2>1. place[x] = q.first /\ q.active <= m
      BY DEF IsLoose
    <2>2. Queue!Major(q.first) # 0
      BY <2>1 DEF Differs
    <2>3. FirstTime(q) <= q.active
      BY <2>1, FirstTimeIs
    <2>4. FirstTime(q) \in Nat /\ q.active \in Nat
      <3>1. IsTime(FirstTime(q)) /\ IsTime(q.active)
        BY FirstTimeIs DEF IsLoose
      <3> QED
        BY <3>1 DEF IsTime
    <2> QED
      BY <2>1, <2>2, <2>3, <2>4
  <1> QED
    BY <1>1 DEF IsQueue, IsLoose, Fits

(* A queue is on its way when the time of its first bin has come.          *)
LEMMA FirstIsLoose ==
    ASSUME NEW S, S # {}, NEW R, NEW m \in Nat, NEW q, NEW place,
           IsQueue(q, S, q_due, place, R)
    PROVE  /\ IsLoose(q, S, place, R, m)
           /\ IsAsked(m) /\ FirstTime(q) <= m => q \in OnTheWay(S, R, m)
  <1>1. IsLoose(q, S, place, R, m)
    BY DEF IsLoose, IsQueue, Fits
  <1>2. PICK x \in S : place[x] = q.first
    BY FirstBin DEF IsQueue
  <1>3. ASSUME IsAsked(m), FirstTime(q) <= m PROVE Queue!Major(q.first) <= SignMajor
    <2>1. /\ q.active \in Nat /\ q_due[x] \in Nat /\ q.active <= q_due[x]
          /\ Differs(q.active, q_due[x], q.first) /\ q.first \in Queue!Bins
      BY <1>2 DEF IsQueue, Fits, Near, IsTime
    <2>2. /\ FirstTime(q) \in Nat
          /\ High(FirstTime(q), Queue!Major(q.first)) = High(q_due[x], Queue!Major(q.first))
      BY <1>1, <1>2, FirstTimeIs DEF IsTime
    <2> QED
      BY <1>3, <2>1, <2>2, DueBin
  <1>4. q \in Records
    BY DEF IsQueue, IsFilled
  <1> QED
    BY <1>1, <1>3, <1>4 DEF OnTheWay

(* Item x is due by m, before the others or with those that it precedes.   *)
IsFirst(x, S, R, m) ==
    /\ x \in S /\ q_due[x] <= m
    /\ \A y \in S \ {x} : \/ q_due[x] < q_due[y]
                          \/ q_due[x] = q_due[y] /\ <<x, y>> \in R

(* What try_dequeue_next_due_by() returns, and what it leaves.             *)
LEMMA DequeuedIs ==
    ASSUME NEW q, NEW S, NEW place, NEW R, IsQueue(q, S, q_due, place, R),
           NEW m \in Nat, IsAsked(m), NEW goOn \in SUBSET Queue!Undefined, NEW d, d = Queue!Dequeued(q, m, goOn)
    PROVE  /\ d.item = Queue!Nil =>
                 /\ \A x \in S : q_due[x] > m
                 /\ \E at : IsQueue(d.queue, S, q_due, at, R)
                 /\ S # {} => d.queue.first # Queue!NoBin /\ FirstTime(d.queue) > m
           /\ d.item # Queue!Nil =>
                 /\ IsFirst(d.item, S, R, m)
                 /\ \E at : IsQueue(d.queue, S \ {d.item}, q_due, at, R)
  <1> DEFINE e == Queue!Descended(q, m, goOn)
             x == Head(e.bins[e.first])
  <1>1. d = IF q.first = Queue!NoBin \/ m < FirstTime(q) THEN [item |-> Queue!Nil, queue |-> q]
            ELSE IF m < FirstTime(e) THEN [item |-> Queue!Nil, queue |-> e]
            ELSE [item |-> x, queue |-> Queue!Without(e, e.first, Tail(e.bins[e.first]))]
    BY Zenon DEF Queue!Dequeued, FirstTime
  <1> HIDE DEF e
  <1>2. IsFilled(q, S, place, R) /\ S \subseteq Items /\ Queue!Nil \notin S
    BY QueueAssumption DEF IsQueue, IsFilled
  <1>3. CASE S = {}
    <2>1. q.first = Queue!NoBin
      BY <1>2, <1>3, FirstBin
    <2>2. d.item = Queue!Nil /\ d.queue = q
      BY <1>1, <2>1
    <2> QED
      BY <1>3, <2>2
  <1>4. CASE S # {} /\ m < FirstTime(q)
    <2>1. d.item = Queue!Nil /\ d.queue = q
      BY <1>1, <1>4
    <2>2. q.first # Queue!NoBin
      BY <1>2, <1>4, FirstBin, NoBinIs
    <2>3. ASSUME NEW y \in S PROVE q_due[y] > m
      <3>1. FirstTime(q) <= q_due[y] /\ FirstTime(q) \in Nat
        BY <1>4, FirstIsLoose, FirstTimeIs DEF IsTime
      <3>2. q_due[y] \in Nat
        BY DEF IsQueue, Fits, IsTime
      <3> QED
        BY <1>4, <3>1, <3>2
    <2> QED
      BY <1>4, <2>1, <2>2, <2>3
  <1>5. CASE S # {} /\ ~(m < FirstTime(q))
    <2>1. q \in OnTheWay(S, R, m) /\ q.first # Queue!NoBin
      <3>1. FirstTime(q) \in Nat
        BY <1>5, FirstIsLoose, FirstTimeIs DEF IsTime
      <3>2. FirstTime(q) <= m
        BY <1>5, <3>1
      <3>3. q.first # Queue!NoBin
        BY <1>2, <1>5, FirstBin, NoBinIs
      <3> QED
        BY <1>5, <3>2, <3>3, FirstIsLoose
    <2>2. e \in OnTheWay(S, R, m) /\ StopsAt(e, m, goOn)
      BY <1>5, <2>1, DescendedIs DEF e
    <2>3. PICK at : IsLoose(e, S, at, R, m)
      BY <2>2 DEF OnTheWay
    <2>4. /\ FirstTime(e) \in Nat /\ Queue!IntBinTime(e) \in Int
          /\ Queue!IntBinTime(e) <= FirstTime(e)
      BY <1>5, <2>3, IntTimeIs
    <2>5. Queue!Major(e.first) = 0 \/ m < FirstTime(e)
      BY <2>2, <2>4 DEF StopsAt
    <2>6. IsQueue(e, S, q_due, at, R)
      BY <1>5, <2>3, <2>5, AtTheEnd
    <2>7. \A y \in S : FirstTime(e) <= q_due[y] /\ q_due[y] \in Nat
      BY <1>5, <2>3, FirstTimeIs DEF IsLoose, IsTime
    <2>8. IsFilled(e, S, at, R) /\ e.first # Queue!NoBin /\ e.first \in Queue!Bins
          /\ e.bins[e.first] # <<>>
      BY <1>5, <2>3, FirstBin, NoBinIs DEF IsLoose
    <2>9. CASE m < FirstTime(e)
      <3>1. d.item = Queue!Nil /\ d.queue = e
        BY <1>1, <1>5, <2>1, <2>9
      <3>2. \A y \in S : q_due[y] > m
        BY <2>4, <2>7, <2>9
      <3> QED
        BY <2>4, <2>6, <2>8, <2>9, <3>1, <3>2
    <2>10. CASE ~(m < FirstTime(e))
      <3> DEFINE items == Tail(e.bins[e.first])
                 C == InPlace(S, at, e.first)
                 T == S \ {x}
                 af == Rest(at, T)
                 r == Queue!Without(e, e.first, items)
      <3>1. d.item = x /\ d.queue = r
        BY <1>1, <1>5, <2>1, <2>10
      <3>2. Lists(e.bins[e.first], C, R)
        BY <2>8 DEF IsFilled
      <3>3. /\ x \in C /\ Lists(items, C \ {x}, R)
            /\ \A y \in C \ {x} : <<x, y>> \in R
        BY <2>8, <3>2, ListsTail
      <3> HIDE DEF x, items, r
      <3>4. x \in S /\ at[x] = e.first
        BY <3>3 DEF InPlace
      <3>5. Queue!Major(e.first) = 0
        BY <2>5, <2>10
      <3>6. \A y \in S : at[y] = e.first => q_due[y] = FirstTime(e)
        BY <1>5, <2>3, <3>5, FirstTimeIs
      <3>7. \A y \in S : at[y] # e.first => FirstTime(e) < q_due[y]
        BY <1>5, <2>3, FirstTimeIs
      <3>8. q_due[x] <= m /\ q_due[x] = FirstTime(e)
        BY <2>4, <2>10, <3>4, <3>6
      <3>9. IsFirst(x, S, R, m)
        <4>1. ASSUME NEW y \in S \ {x}
              PROVE  \/ q_due[x] < q_due[y]
                     \/ q_due[x] = q_due[y] /\ <<x, y>> \in R
          <5>1. CASE at[y] = e.first
            BY <3>3, <3>6, <3>8, <5>1 DEF InPlace
          <5>2. CASE at[y] # e.first
            BY <3>7, <3>8, <5>2
          <5> QED
            BY <5>1, <5>2
        <4> QED
          BY <3>4, <3>8, <4>1 DEF IsFirst
      <3>10. IsFilled(r, T, af, R) /\ r.active = e.active
        <4> DEFINE D == C \ {x}
        <4>1. Lists(items, D, R) /\ D = InPlace(S, at, e.first) \ {x} /\ x \in S
              /\ e.first = at[x] /\ IsFilled(e, S, at, R) /\ T = S \ {x}
          BY <2>8, <3>3, <3>4
        <4> HIDE DEF D, C, T, af
        <4>2. /\ IsFilled(Queue!Without(e, e.first, items), T, Rest(at, T), R)
              /\ Queue!Without(e, e.first, items).active = e.active
          BY <4>1, TakeOut
        <4> QED
          BY <4>2 DEF r, af
      <3>11. IsQueue(r, T, q_due, af, R)
        BY <2>6, <3>10 DEF IsQueue, Fits, Rest
      <3>12. x # Queue!Nil
        BY <1>2, <3>4
      <3> QED
        BY <3>1, <3>9, <3>11, <3>12
    <2> QED
      BY <2>9, <2>10
  <1> QED
    BY <1>3, <1>4, <1>5

(***************************************************************************)
(* The items are taken out and added again                                 *)
(***************************************************************************)

EmptyQueue(q) == q = [active |-> 0, first |-> Queue!NoBin, nonempty |-> {},
                      bins |-> [b \in Queue!Bins |-> <<>>]]

LEMMA EmptyIs ==
    ASSUME NEW q, EmptyQueue(q), NEW S, S = {}, NEW d, NEW R
    PROVE  \E at : IsQueue(q, S, d, at, R)
  <1> DEFINE at == [x \in S |-> 0]
  <1>1. /\ q.active = 0 /\ q.first = Queue!NoBin /\ q.nonempty = {}
        /\ q.bins = [b \in Queue!Bins |-> <<>>] /\ q \in Records
    BY NoBinIs DEF EmptyQueue, Records
  <1>2. at \in [S -> Queue!Bins] /\ S \subseteq Items
    OBVIOUS
  <1>3. \A b \in Queue!Bins : Lists(q.bins[b], InPlace(S, at, b), R)
    <2> SUFFICES ASSUME NEW b \in Queue!Bins PROVE Lists(q.bins[b], InPlace(S, at, b), R)
      OBVIOUS
    <2>1. q.bins[b] = <<>> /\ InPlace(S, at, b) = {}
      BY <1>1 DEF InPlace
    <2> QED
      BY <2>1, ListsNone
  <1>4. Queue!First({}) = Queue!NoBin
    BY FirstOf
  <1>5. IsFilled(q, S, at, R)
    <2>1. q.nonempty = {at[x] : x \in S}
      BY <1>1
    <2> HIDE DEF at
    <2> QED
      BY <1>1, <1>2, <1>3, <1>4, <2>1 DEF IsFilled
  <1>6. IsTime(0)
    <2>1. 0 \in 0..(W(Majors) - 1)
      BY WeightIs, QueueAssumption
    <2> QED
      BY <2>1, TimesAre
  <1>7. IsQueue(q, S, d, at, R)
    BY <1>1, <1>5, <1>6 DEF IsQueue, Fits
  <1> QED
    BY <1>7

(* The same items in the same order, with the same times, are as well a    *)
(* queue.                                                                  *)
LEMMA SameQueue ==
    ASSUME NEW q, NEW S, NEW d, NEW place, NEW R, IsQueue(q, S, d, place, R),
           NEW f, \A x \in S : f[x] = d[x],
           NEW Q, \A x, y \in S : <<x, y>> \in R => <<x, y>> \in Q
    PROVE  IsQueue(q, S, f, place, Q)
  <1>1. ASSUME NEW b \in Queue!Bins PROVE Lists(q.bins[b], InPlace(S, place, b), Q)
    <2>1. Lists(q.bins[b], InPlace(S, place, b), R)
      BY DEF IsQueue, IsFilled
    <2>2. \A x, y \in InPlace(S, place, b) : <<x, y>> \in R => <<x, y>> \in Q
      BY DEF InPlace
    <2> QED
      BY <2>1, <2>2, ListsOrder
  <1>2. IsFilled(q, S, place, Q)
    BY <1>1 DEF IsQueue, IsFilled
  <1> QED
    BY <1>2 DEF IsQueue, Fits

Takes(q, f) ==
    [b \in 0..Queue!NoBin |->
        IF b = 0 THEN <<>>
        ELSE IF b - 1 \in q.nonempty THEN f[b - 1] \o q.bins[b - 1] ELSE f[b - 1]]

TakenOut(q) == (CHOOSE f : f = Takes(q, f))[Queue!NoBin]

Below(S, place, R, b) == {s \in Seq(Items) : Lists(s, {x \in S : place[x] < b}, R)}

(* All items are taken out, in the order of the bins.                      *)
LEMMA TakenOutIs ==
    ASSUME NEW q, NEW S, NEW d, NEW place, NEW R, IsQueue(q, S, d, place, R),
           \A x, y \in S : d[x] # d[y] => <<x, y>> \in R
    PROVE  Lists(TakenOut(q), S, R)
  <1> DEFINE N == Queue!NoBin
             inv == [b \in 0..N |-> Below(S, place, R, b)]
             NextTaken(b, s) == IF b - 1 \in q.nonempty THEN s \o q.bins[b - 1] ELSE s
             step == [p \in (1..N) \X Seq(Items) |-> NextTaken(p[1], p[2])]
             after == CHOOSE f : f = Takes(q, f)
  <1>1. /\ IsFilled(q, S, place, R) /\ S \subseteq Items /\ place \in [S -> Queue!Bins]
        /\ q.bins \in [Queue!Bins -> Seq(Items)] /\ N \in Nat
        /\ \A x \in S : place[x] \in Nat /\ place[x] < N
    BY NoBinIs DEF IsQueue, IsFilled, Records
  <1>2. <<>> \in Below(S, place, R, 0)
    <2>1. {x \in S : place[x] < 0} = {}
      BY <1>1
    <2>2. Lists(<<>>, {x \in S : place[x] < 0}, R)
      BY <2>1, ListsNone
    <2> QED
      BY <2>2 DEF Below
  <1>3. ASSUME NEW n \in 1..N, NEW s \in Below(S, place, R, n - 1)
        PROVE  NextTaken(n, s) \in Below(S, place, R, n)
    <2> DEFINE b == n - 1
               A == {x \in S : place[x] < b}
               B == InPlace(S, place, b)
               C == {x \in S : place[x] < n}
               t == q.bins[b]
    <2>1. b \in Queue!Bins /\ b \in Nat /\ b + 1 = n
      BY <1>1 DEF Queue!Bins
    <2>2. s \in Seq(Items) /\ Lists(s, A, R)
      BY DEF Below
    <2>3. C = A \cup B
      <3> HIDE DEF b
      <3>1. \A x \in S : place[x] < n <=> place[x] < b \/ place[x] = b
        BY <1>1, <2>1
      <3> QED
        BY <3>1 DEF InPlace
    <2>4. Lists(t, B, R) /\ t \in Seq(Items)
      BY <1>1, <2>1 DEF IsFilled
    <2>5. ASSUME NEW x \in A, NEW y \in B PROVE x # y /\ <<x, y>> \in R
      <3>1. x \in S /\ y \in S /\ place[x] < place[y] /\ place[y] = b
        BY <1>1, <2>1 DEF InPlace
      <3>2. /\ Near(q.active, d[x], place[x]) /\ Near(q.active, d[y], place[y])
            /\ Differs(q.active, d[y], place[y]) /\ q.active <= d[y]
            /\ IsTime(d[x]) /\ IsTime(d[y]) /\ IsTime(q.active)
        BY <3>1 DEF IsQueue, Fits
      <3>3. d[x] \in Nat /\ d[y] \in Nat /\ q.active \in Nat
        BY <3>2 DEF IsTime
      <3>4. d[x] < d[y]
        BY <3>1, <3>2, <3>3, LaterBins
      <3> QED
        BY <3>1, <3>3, <3>4
    <2> HIDE DEF A, B, C, t
    <2>6. CASE b \in q.nonempty
      <3>1. Lists(s \o t, C, R)
        BY <2>2, <2>3, <2>4, <2>5, ListsJoin
      <3>2. s \o t \in Seq(Items)
        BY <2>2, <2>4
      <3>3. NextTaken(n, s) = s \o t
        BY <2>6 DEF t
      <3> HIDE DEF NextTaken
      <3> QED
        BY <3>1, <3>2, <3>3 DEF Below, C
    <2>7. CASE b \notin q.nonempty
      <3>1. t = <<>>
        BY <1>1, <2>1, <2>7, FirstBin DEF t
      <3>2. B = {}
        BY <2>4, <3>1, ListsNone
      <3>3. NextTaken(n, s) = s /\ C = A
        BY <2>3, <2>7, <3>2
      <3> QED
        BY <2>2, <3>3 DEF Below, C
    <2> QED
      BY <2>6, <2>7
  <1>4. \A b : Below(S, place, R, b) \subseteq Seq(Items)
    BY DEF Below
  <1> HIDE DEF NextTaken
  <1>5. ASSUME NEW n \in 1..N
        PROVE  /\ n - 1 \in 0..N /\ n \in 0..N /\ n # 0
               /\ inv[n - 1] = Below(S, place, R, n - 1) /\ inv[n] = Below(S, place, R, n)
    BY <1>1
  <1>6. ASSUME NEW n \in 1..N, NEW s \in Seq(Items) PROVE step[<<n, s>>] = NextTaken(n, s)
    OBVIOUS
  <1>7. inv[0] = Below(S, place, R, 0) /\ inv[N] = Below(S, place, R, N)
    BY <1>1
  <1> HIDE DEF inv, step, N
  <1>8. ASSUME NEW n \in 1..N, NEW s \in inv[n - 1]
        PROVE  step[<<n, s>>] \in inv[n] /\ step[<<n, s>>] = NextTaken(n, s)
    BY <1>3, <1>4, <1>5, <1>6
  <1>9. PICK f : IsRecursion(f, N, <<>>, step) /\ \A n \in 0..N : f[n] \in inv[n]
    BY <1>1, <1>2, <1>7, <1>8, Recursive
  <1>10. f = Takes(q, f)
    <2>1. f = [n \in 0..N |-> IF n = 0 THEN <<>> ELSE step[<<n, f[n - 1]>>]]
      BY <1>9 DEF IsRecursion
    <2>2. ASSUME NEW n \in 0..N, n # 0 PROVE step[<<n, f[n - 1]>>] = NextTaken(n, f[n - 1])
      <3>1. n \in 1..N /\ n - 1 \in 0..N
        BY <1>1, <2>2
      <3> QED
        BY <1>8, <1>9, <3>1
    <2>3. \A n \in 0..N : (IF n = 0 THEN <<>> ELSE step[<<n, f[n - 1]>>])
                            = (IF n = 0 THEN <<>> ELSE NextTaken(n, f[n - 1]))
      BY <2>2
    <2>4. f = [n \in 0..N |-> IF n = 0 THEN <<>> ELSE NextTaken(n, f[n - 1])]
      BY <2>1, <2>3, Zenon
    <2>5. Takes(q, f) = [n \in 0..N |-> IF n = 0 THEN <<>> ELSE NextTaken(n, f[n - 1])]
      BY Zenon DEF Takes, NextTaken, N
    <2> QED
      BY <2>4, <2>5
  <1>11. after = Takes(q, after)
    BY <1>10
  <1> HIDE DEF after
  <1>12. \A n \in 0..N : after[n] = IF n = 0 THEN <<>> ELSE NextTaken(n, after[n - 1])
    <2>1. Takes(q, after) = [n \in 0..N |-> IF n = 0 THEN <<>> ELSE NextTaken(n, after[n - 1])]
      BY Zenon DEF Takes, NextTaken, N
    <2> QED
      BY <1>11, <2>1
  <1>13. after[0] \in inv[0]
    BY <1>1, <1>2, <1>7, <1>12
  <1>14. ASSUME NEW n \in 1..N, after[n - 1] \in inv[n - 1] PROVE after[n] \in inv[n]
    BY <1>5, <1>8, <1>12, <1>14
  <1>15. after[N] \in Below(S, place, R, N)
    <2>1. \A n \in 0..N : after[n] \in inv[n]
      BY <1>1, <1>13, <1>14, StaysIn
    <2> QED
      BY <1>1, <1>7, <2>1
  <1>16. {x \in S : place[x] < N} = S
    BY <1>1
  <1> QED
    BY <1>15, <1>16 DEF Below, TakenOut, after, N

(* What the queue is when n items have been added again.                   *)
Adds(q, all, s, f) ==
    [n \in 0..Len(all) |-> IF n = 0 THEN q
                           ELSE Queue!Added(f[n - 1], all[n], q_due[all[n]] - s)]

Begun(all, n) == {all[i] : i \in 1..n}

AddedQueues(all, d, R, n) ==
    {r \in Records : r.active = 0 /\ \E at : IsQueue(r, Begun(all, n), d, at, R)}

LEMMA AddAgain ==
    ASSUME NEW S \in SUBSET Items, NEW R, NEW all, Lists(all, S, R), NEW d,
           \A x \in S : IsTime(d[x]),
           NEW n \in 1..Len(all), NEW r \in AddedQueues(all, d, R, n - 1)
    PROVE  Queue!Added(r, all[n], d[all[n]]) \in AddedQueues(all, d, R, n)
  <1> DEFINE x == all[n]
             T == Begun(all, n - 1)
             U == Begun(all, n)
             q == Queue!Added(r, x, d[x])
  <1>1. all \in Seq(S) /\ Len(all) \in Nat /\ \A i \in 1..Len(all) : all[i] \in S
    BY DEF Lists
  <1>2. x \in S /\ IsTime(d[x]) /\ d[x] \in Nat
    BY <1>1 DEF IsTime
  <1>3. \A i \in 1..(n - 1) : i \in 1..Len(all) /\ i < n
    BY <1>1
  <1>4. ASSUME NEW y \in T PROVE y # x /\ <<y, x>> \in R
    <2>1. PICK i \in 1..(n - 1) : all[i] = y
      BY DEF Begun
    <2>2. i \in 1..Len(all) /\ i < n
      BY <1>3
    <2> QED
      BY <2>1, <2>2 DEF Lists
  <1>5. U = T \cup {x}
    <2>1. \A i \in 1..n : i \in 1..(n - 1) \/ i = n
      BY <1>1
    <2>2. n \in 1..n /\ \A i \in 1..(n - 1) : i \in 1..n
      BY <1>1
    <2> QED
      BY <2>1, <2>2 DEF Begun
  <1>6. PICK at : IsQueue(r, T, d, at, R)
    BY DEF AddedQueues
  <1>7. r.active = 0 /\ d[x] >= r.active
    BY <1>2 DEF AddedQueues
  <1>8. x \in Items \ T
    BY <1>2, <1>4
  <1> HIDE DEF x, T, U, q
  <1>9. /\ \E af : IsQueue(Queue!Added(r, x, d[x]), T \cup {x}, d, af, R)
        /\ Queue!Added(r, x, d[x]).active = r.active
    <2>1. \A y \in T : <<y, x>> \in R
      BY <1>4
    <2>2. \A y \in T : d[y] = d[y]
      OBVIOUS
    <2>3. d[x] >= r.active \/ r.first >= Queue!TargetOf(r, d[x])
      BY <1>7
    <2>4. IsTime(d[x])
      BY <1>2
    <2>5. \E af : IsQueue(Queue!Added(r, x, d[x]), T \cup {x}, d, af, R)
      BY <1>6, <1>8, <2>1, <2>2, <2>3, <2>4, AddOne
    <2>6. Queue!Added(r, x, d[x]).active = r.active
      <3>1. ~(d[x] < r.active) /\ r \in Records
        BY <1>2, <1>7 DEF AddedQueues
      <3>2. r = [active |-> r.active, first |-> r.first,
                 nonempty |-> r.nonempty, bins |-> r.bins]
        BY <3>1 DEF Records
      <3> QED
        BY <3>1, <3>2 DEF Queue!Added
    <2> QED
      BY <2>5, <2>6
  <1>10. PICK af : IsQueue(q, U, d, af, R)
    BY <1>5, <1>9 DEF q
  <1>11. q \in Records /\ q.active = 0
    BY <1>7, <1>9, <1>10 DEF IsQueue, IsFilled, q
  <1> QED
    BY <1>10, <1>11 DEF AddedQueues, q, U, x

LEMMA AddedAgain ==
    ASSUME NEW S \in SUBSET Items, NEW R, NEW all, Lists(all, S, R), NEW s, NEW d,
           \A x \in S : d[x] = q_due[x] - s /\ IsTime(d[x]),
           NEW q, EmptyQueue(q)
    PROVE  \E at : IsQueue((CHOOSE f : f = Adds(q, all, s, f))[Len(all)], S, d, at, R)
  <1> DEFINE N == Len(all)
             X == Records
             inv == [n \in 0..N |-> AddedQueues(all, d, R, n)]
             NextAdded(n, r) == Queue!Added(r, all[n], q_due[all[n]] - s)
             step == [p \in (1..N) \X X |-> NextAdded(p[1], p[2])]
             after == CHOOSE f : f = Adds(q, all, s, f)
  <1>1. all \in Seq(S) /\ N \in Nat /\ \A i \in 1..N : all[i] \in S
    BY DEF Lists
  <1>2. q \in AddedQueues(all, d, R, 0)
    <2>1. Begun(all, 0) = {}
      BY DEF Begun
    <2>2. PICK at : IsQueue(q, Begun(all, 0), d, at, R)
      BY <2>1, EmptyIs
    <2>3. q.active = 0
      BY DEF EmptyQueue
    <2>4. q \in Records
      BY <2>2 DEF IsQueue, IsFilled
    <2> QED
      BY <2>2, <2>3, <2>4 DEF AddedQueues
  <1>3. ASSUME NEW n \in 1..N, NEW r \in AddedQueues(all, d, R, n - 1)
        PROVE  NextAdded(n, r) \in AddedQueues(all, d, R, n)
    <2>1. Queue!Added(r, all[n], d[all[n]]) \in AddedQueues(all, d, R, n)
      BY AddAgain
    <2>2. d[all[n]] = q_due[all[n]] - s
      BY <1>1
    <2> QED
      BY <2>1, <2>2
  <1>4. \A n : AddedQueues(all, d, R, n) \subseteq X
    BY DEF AddedQueues
  <1> HIDE DEF NextAdded
  <1>5. ASSUME NEW n \in 1..N
        PROVE  /\ n - 1 \in 0..N /\ n \in 0..N /\ n # 0
               /\ inv[n - 1] = AddedQueues(all, d, R, n - 1)
               /\ inv[n] = AddedQueues(all, d, R, n)
    BY <1>1
  <1>6. ASSUME NEW n \in 1..N, NEW r \in X PROVE step[<<n, r>>] = NextAdded(n, r)
    OBVIOUS
  <1>7. inv[0] = AddedQueues(all, d, R, 0) /\ inv[N] = AddedQueues(all, d, R, N)
    BY <1>1
  <1> HIDE DEF inv, step, N, X
  <1>8. ASSUME NEW n \in 1..N, NEW r \in inv[n - 1]
        PROVE  step[<<n, r>>] \in inv[n] /\ step[<<n, r>>] = NextAdded(n, r)
    BY <1>3, <1>4, <1>5, <1>6
  <1>9. PICK f : IsRecursion(f, N, q, step) /\ \A n \in 0..N : f[n] \in inv[n]
    BY <1>1, <1>2, <1>7, <1>8, Recursive
  <1>10. f = Adds(q, all, s, f)
    <2>1. f = [n \in 0..N |-> IF n = 0 THEN q ELSE step[<<n, f[n - 1]>>]]
      BY <1>9 DEF IsRecursion
    <2>2. ASSUME NEW n \in 0..N, n # 0 PROVE step[<<n, f[n - 1]>>] = NextAdded(n, f[n - 1])
      <3>1. n \in 1..N /\ n - 1 \in 0..N
        BY <1>1, <2>2
      <3> QED
        BY <1>8, <1>9, <3>1
    <2>3. \A n \in 0..N : (IF n = 0 THEN q ELSE step[<<n, f[n - 1]>>])
                            = (IF n = 0 THEN q ELSE NextAdded(n, f[n - 1]))
      BY <2>2
    <2>4. f = [n \in 0..N |-> IF n = 0 THEN q ELSE NextAdded(n, f[n - 1])]
      BY <2>1, <2>3, Zenon
    <2>5. Adds(q, all, s, f) = [n \in 0..N |-> IF n = 0 THEN q ELSE NextAdded(n, f[n - 1])]
      BY Zenon DEF Adds, NextAdded, N
    <2> QED
      BY <2>4, <2>5
  <1>11. after = Adds(q, all, s, after)
    BY <1>10
  <1> HIDE DEF after
  <1>12. \A n \in 0..N : after[n] = IF n = 0 THEN q ELSE NextAdded(n, after[n - 1])
    <2>1. Adds(q, all, s, after)
            = [n \in 0..N |-> IF n = 0 THEN q ELSE NextAdded(n, after[n - 1])]
      BY Zenon DEF Adds, NextAdded, N
    <2> QED
      BY <1>11, <2>1
  <1>13. after[0] \in inv[0]
    BY <1>1, <1>2, <1>7, <1>12
  <1>14. ASSUME NEW n \in 1..N, after[n - 1] \in inv[n - 1] PROVE after[n] \in inv[n]
    BY <1>5, <1>8, <1>12, <1>14
  <1>15. after[N] \in AddedQueues(all, d, R, N)
    <2>1. \A n \in 0..N : after[n] \in inv[n]
      BY <1>1, <1>13, <1>14, StaysIn
    <2> QED
      BY <1>1, <1>7, <2>1
  <1>16. Begun(all, N) = S
    <2>1. \A x \in S : \E i \in 1..N : all[i] = x
      BY DEF Lists, N
    <2> QED
      BY <1>1, <2>1 DEF Begun
  <1>17. \E at : IsQueue(after[N], S, d, at, R)
    BY <1>15, <1>16 DEF AddedQueues
  <1> QED
    BY <1>17 DEF after, N

(***************************************************************************)
(* The steps of the queue                                                  *)
(***************************************************************************)

(* Of two items with one due time, the one that was added first is first.  *)
Order(d, bef) == {p \in Items \X Items : d[p[1]] # d[p[2]] \/ p \in bef}

QueueInv == \E place : IsQueue(queue, Queue!Queued, q_due, place, Order(q_due, before))

LEMMA AddStep ==
    ASSUME QueueInv, NEW x \in Items, NEW t \in Times, Queue!Add(x, t)
    PROVE  QueueInv'
  <1> DEFINE S == Queue!Queued
             f == [y \in S \cup {x} |-> IF y = x THEN t ELSE q_due[y]]
             bef == before \cup (S \X {x})
             R == Order(q_due, before)
             Q == Order(f, bef)
  <1>1. PICK place : IsQueue(queue, S, q_due, place, R)
    BY DEF QueueInv
  <1>2. /\ x \notin S /\ (t >= queue.active \/ queue.first >= Queue!TargetOf(queue, t))
        /\ queue' = Queue!Added(queue, x, t) /\ q_due' = f /\ before' = bef
    BY DEF Queue!Add, Queue!Queued
  <1>3. S \subseteq Items
    BY <1>1 DEF IsQueue, IsFilled
  <1>4. IsTime(t)
    BY QueueAssumption, TimesAre DEF W
  <1>5. f[x] = t /\ \A y \in S : f[y] = q_due[y]
    BY <1>2
  <1>6. DOMAIN f = S \cup {x}
    OBVIOUS
  <1>7. IsQueue(queue, S, q_due, place, Q)
    <2>1. \A y, z \in S : <<y, z>> \in R => <<y, z>> \in Q
      BY <1>3, <1>5 DEF Order
    <2> HIDE DEF R, Q, f, S
    <2> QED
      BY <1>1, <2>1, SameQueue
  <1>8. \A y \in S : <<y, x>> \in Q
    BY <1>3 DEF Order
  <1> HIDE DEF S, Q, f
  <1>9. PICK at : IsQueue(Queue!Added(queue, x, f[x]), S \cup {x}, f, at, Q)
    <2>1. x \in Items \ S /\ IsTime(f[x])
          /\ (f[x] >= queue.active \/ queue.first >= Queue!TargetOf(queue, f[x]))
      BY <1>2, <1>4, <1>5
    <2> QED
      BY <1>5, <1>7, <1>8, <2>1, AddOne
  <1>10. IsQueue(queue', DOMAIN q_due', q_due', at, Order(q_due', before'))
    BY <1>2, <1>5, <1>6, <1>9 DEF Q
  <1> QED
    BY <1>10 DEF QueueInv, Queue!Queued

(* One item is forgotten.                                                  *)
LEMMA ForgetStep ==
    ASSUME NEW q, NEW x, NEW place, Queue!Forget(x), queue' = q,
           IsQueue(q, Queue!Queued \ {x}, q_due, place, Order(q_due, before))
    PROVE  QueueInv'
  <1> DEFINE T == Queue!Queued \ {x}
             f == [y \in T |-> q_due[y]]
             bef == before \cap (T \X T)
             R == Order(q_due, before)
             Q == Order(f, bef)
  <1>1. q_due' = f /\ before' = bef /\ DOMAIN f = T
    BY DEF Queue!Forget, Queue!Queued
  <1>2. \A y \in T : f[y] = q_due[y]
    OBVIOUS
  <1>3. T \subseteq Items
    BY DEF IsQueue, IsFilled
  <1>4. \A y, z \in T : <<y, z>> \in R => <<y, z>> \in Q
    BY <1>2, <1>3 DEF Order
  <1>5. IsQueue(q, T, q_due, place, R)
    OBVIOUS
  <1> HIDE DEF R, Q, f, T
  <1>6. IsQueue(q, T, f, place, Q)
    BY <1>2, <1>4, <1>5, SameQueue
  <1>7. IsQueue(queue', DOMAIN q_due', q_due', place, Order(q_due', before'))
    BY <1>1, <1>6 DEF Q
  <1> QED
    BY <1>7 DEF QueueInv, Queue!Queued

LEMMA RemoveStep ==
    ASSUME QueueInv, NEW x \in Items, Queue!RemoveItem(x)
    PROVE  QueueInv'
  <1> DEFINE S == Queue!Queued
             T == S \ {x}
             b == Queue!BinOf(x)
             R == Order(q_due, before)
  <1>1. PICK place : IsQueue(queue, S, q_due, place, R)
    BY DEF QueueInv
  <1>2. /\ x \in S /\ Queue!Forget(x)
        /\ \E n \in DOMAIN queue.bins[b] :
              /\ queue.bins[b][n] = x
              /\ queue' = Queue!Without(queue, b, Queue!RemoveAt(queue.bins[b], n))
    BY DEF Queue!RemoveItem
  <1>3. PICK n \in DOMAIN queue.bins[b] :
              /\ queue.bins[b][n] = x
              /\ queue' = Queue!Without(queue, b, Queue!RemoveAt(queue.bins[b], n))
    BY <1>2
  <1>4. b = place[x] /\ b \in Queue!Bins
    <2>1. /\ Near(queue.active, q_due[x], place[x]) /\ Differs(queue.active, q_due[x], place[x])
          /\ queue.active \in Nat /\ q_due[x] \in Nat
      BY <1>1, <1>2 DEF IsQueue, Fits, IsTime
    <2>2. place[x] = Queue!BinIndex(queue.active, q_due[x])
      BY <2>1, BinIndexOnly
    <2> QED
      BY <2>1, <2>2 DEF Queue!BinOf, Near
  <1> DEFINE s == queue.bins[b]
             C == InPlace(S, place, b)
             items == Queue!RemoveAt(s, n)
             D == C \ {x}
             q == Queue!Without(queue, b, items)
  <1>5. Lists(s, C, R)
    BY <1>1, <1>4 DEF IsQueue, IsFilled
  <1>6. n \in 1..Len(s) /\ s[n] = x
    <2>1. s \in Seq(C)
      BY <1>5 DEF Lists
    <2> QED
      BY <1>3, <2>1
  <1> HIDE DEF s, C, items, b, S, T, R, q
  <1>7. Lists(items, D, R)
    BY <1>5, <1>6, ListsRemove DEF items
  <1>8. IsFilled(queue, S, place, R) /\ D = InPlace(S, place, b) \ {x} /\ T = S \ {x}
    BY <1>1 DEF IsQueue, C, T
  <1> HIDE DEF D
  <1>9. IsFilled(q, T, Rest(place, T), R) /\ q.active = queue.active
    BY <1>2, <1>4, <1>7, <1>8, TakeOut DEF q
  <1>10. IsQueue(q, T, q_due, Rest(place, T), R)
    <2>1. T \subseteq S /\ \A y \in T : Rest(place, T)[y] = place[y]
      BY <1>8 DEF Rest
    <2> QED
      BY <1>1, <1>9, <2>1 DEF IsQueue, Fits
  <1>11. queue' = q
    BY <1>3 DEF q, items, s
  <1> QED
    BY <1>2, <1>10, <1>11, ForgetStep DEF T, S, R

LEMMA DequeueStep ==
    ASSUME QueueInv, NEW m \in Asks, Queue!TryDequeueNextDueBy(m)
    PROVE  QueueInv'
  <1> DEFINE S == Queue!Queued
             R == Order(q_due, before)
  <1>1. PICK place : IsQueue(queue, S, q_due, place, R)
    BY DEF QueueInv
  <1>2. PICK goOn \in SUBSET Queue!Undefined :
            LET d == Queue!Dequeued(queue, m, goOn)
            IN /\ queue' = d.queue
               /\ IF d.item = Queue!Nil THEN UNCHANGED <<q_due, before>> ELSE Queue!Forget(d.item)
    BY Zenon DEF Queue!TryDequeueNextDueBy
  <1>3. m \in Nat /\ IsAsked(m)
    BY AskedAre DEF IsAsked
  <1> DEFINE d == Queue!Dequeued(queue, m, goOn)
  <1>4. /\ queue' = d.queue
        /\ d.item = Queue!Nil => UNCHANGED <<q_due, before>>
        /\ d.item # Queue!Nil => Queue!Forget(d.item)
    BY <1>2
  <1> HIDE DEF d
  <1>5. /\ d.item = Queue!Nil => \E at : IsQueue(d.queue, S, q_due, at, R)
        /\ d.item # Queue!Nil => \E at : IsQueue(d.queue, S \ {d.item}, q_due, at, R)
    <2>1. d = Queue!Dequeued(queue, m, goOn)
      BY DEF d
    <2> HIDE DEF S, R
    <2> QED
      BY <1>1, <1>3, <2>1, DequeuedIs
  <1>6. CASE d.item = Queue!Nil
    <2>1. PICK at : IsQueue(d.queue, S, q_due, at, R)
      BY <1>5, <1>6
    <2>2. queue' = d.queue /\ q_due' = q_due /\ before' = before
      BY <1>4, <1>6
    <2>3. IsQueue(queue', DOMAIN q_due', q_due', at, Order(q_due', before'))
      BY <2>1, <2>2 DEF Queue!Queued
    <2> QED
      BY <2>3 DEF QueueInv, Queue!Queued
  <1>7. CASE d.item # Queue!Nil
    <2>1. PICK at : IsQueue(d.queue, S \ {d.item}, q_due, at, R)
      BY <1>5, <1>7
    <2>2. queue' = d.queue /\ Queue!Forget(d.item)
      BY <1>4, <1>7
    <2> QED
      BY <2>1, <2>2, ForgetStep
  <1> QED
    BY <1>6, <1>7

LEMMA ReindexStep ==
    ASSUME QueueInv, NEW s \in Shifts, Queue!ReindexItems(s)
    PROVE  QueueInv'
  <1> DEFINE S == Queue!Queued
             R == Order(q_due, before)
             f == [x \in S |-> q_due[x] - s]
             Q == Order(f, before)
             all == TakenOut(queue)
             rest == [b \in Queue!Bins |-> IF b \in queue.nonempty THEN <<>> ELSE queue.bins[b]]
             q == [Queue!Empty EXCEPT !.bins = rest]
             after == (CHOOSE g : g = Adds(q, all, s, g))[Len(all)]
  <1>1. PICK place : IsQueue(queue, S, q_due, place, R)
    BY DEF QueueInv
  <1>2. /\ \A x \in S : q_due[x] >= s
        /\ q_due' = f /\ queue' = after /\ before' = before
    BY Zenon DEF Queue!ReindexItems, Queue!Queued, TakenOut, Takes, Adds
  <1>3. s \in Nat
    BY QueueAssumption
  <1>4. /\ S \subseteq Items /\ IsFilled(queue, S, place, R)
        /\ \A x \in S : IsTime(q_due[x]) /\ q_due[x] \in Nat
    BY <1>1 DEF IsQueue, IsFilled, Fits, IsTime
  <1>5. ASSUME NEW x \in S PROVE f[x] = q_due[x] - s /\ IsTime(f[x])
    <2>1. q_due[x] - s \in Nat /\ q_due[x] - s <= q_due[x]
      BY <1>2, <1>3, <1>4
    <2> QED
      BY <1>4, <2>1, TimesAre
  <1>6. \A x, y \in S : <<x, y>> \in R => <<x, y>> \in Q
    <2> SUFFICES ASSUME NEW x \in S, NEW y \in S, <<x, y>> \in R PROVE <<x, y>> \in Q
      OBVIOUS
    <2>1. q_due[x] # q_due[y] => f[x] # f[y]
      BY <1>3, <1>4, <1>5
    <2> QED
      BY <1>4, <2>1 DEF Order
  <1>7. \A x, y \in S : q_due[x] # q_due[y] => <<x, y>> \in R
    BY <1>4 DEF Order
  <1>8. EmptyQueue(q)
    <2>1. rest = [b \in Queue!Bins |-> <<>>]
      BY <1>4, FirstBin
    <2> DEFINE none == [b \in Queue!Bins |-> <<>>]
    <2>2. Queue!Empty = [active |-> 0, first |-> Queue!NoBin, nonempty |-> {}, bins |-> none]
      BY DEF Queue!Empty
    <2>3. rest = none
      BY <2>1
    <2> HIDE DEF rest, none
    <2>4. q = [active |-> 0, first |-> Queue!NoBin, nonempty |-> {}, bins |-> none]
      BY <2>2, <2>3
    <2> QED
      BY <2>4 DEF EmptyQueue, none
  <1> HIDE DEF S, R, Q, f, all, q
  <1>9. Lists(all, S, Q)
    <2>1. Lists(all, S, R)
      BY <1>1, <1>7, TakenOutIs DEF all
    <2> QED
      BY <1>6, <2>1, ListsOrder
  <1>10. PICK at : IsQueue(after, S, f, at, Q)
    BY <1>4, <1>5, <1>8, <1>9, AddedAgain
  <1>11. DOMAIN f = S
    BY DEF f
  <1> HIDE DEF after
  <1>12. IsQueue(queue', DOMAIN q_due', q_due', at, Order(q_due', before'))
    BY <1>2, <1>10, <1>11 DEF Q
  <1> QED
    BY <1>12 DEF QueueInv, Queue!Queued

LEMMA QueueInvHolds == Spec => []QueueInv
  <1>1. Init => QueueInv
    <2> SUFFICES ASSUME Init PROVE QueueInv
      OBVIOUS
    <2>1. queue = Queue!Empty /\ q_due = [x \in {} |-> 0]
      BY DEF Init, Queue!Init
    <2>2. EmptyQueue(queue)
      BY <2>1 DEF EmptyQueue, Queue!Empty
    <2>3. Queue!Queued = {}
      BY <2>1 DEF Queue!Queued
    <2> QED
      BY <2>2, <2>3, EmptyIs DEF QueueInv
  <1>2. QueueInv /\ [Next]_vars => QueueInv'
    <2> SUFFICES ASSUME QueueInv, [Next]_vars PROVE QueueInv'
      OBVIOUS
    <2>1. CASE UNCHANGED queueVars
      <3>1. queue' = queue /\ q_due' = q_due /\ before' = before
        BY <2>1 DEF queueVars
      <3>2. PICK place : IsQueue(queue, DOMAIN q_due, q_due, place, Order(q_due, before))
        BY DEF QueueInv, Queue!Queued
      <3>3. IsQueue(queue', DOMAIN q_due', q_due', place, Order(q_due', before'))
        BY <3>1, <3>2
      <3> QED
        BY <3>3 DEF QueueInv, Queue!Queued
    <2>2. CASE Queue!Next
      <3>1. \/ \E x \in Items : Queue!RemoveItem(x)
            \/ \E x \in Items : \E t \in Times : Queue!Add(x, t)
            \/ \E m \in Asks : Queue!TryDequeueNextDueBy(m)
            \/ \E s \in Shifts : Queue!ReindexItems(s)
        BY <2>2, Zenon DEF Queue!Next
      <3> QED
        BY <3>1, RemoveStep, AddStep, DequeueStep, ReindexStep
    <2> QED
      BY <2>1, <2>2 DEF Next, vars
  <1> QED
    BY <1>1, <1>2, PTL DEF Spec

LEMMA QueuedInBins == QueueInv => Queue!BinsFit
  <1> SUFFICES ASSUME QueueInv PROVE Queue!BinsFit
    OBVIOUS
  <1> DEFINE S == Queue!Queued
             R == Order(q_due, before)
  <1>1. PICK place : IsQueue(queue, S, q_due, place, R)
    BY DEF QueueInv
  <1>2. IsFilled(queue, S, place, R)
    BY <1>1 DEF IsQueue
  <1>3. ASSUME NEW x \in S
        PROVE  place[x] = Queue!BinOf(x) /\ q_due[x] >= queue.active
    <2>1. /\ Near(queue.active, q_due[x], place[x]) /\ Differs(queue.active, q_due[x], place[x])
          /\ queue.active \in Nat /\ q_due[x] \in Nat /\ queue.active <= q_due[x]
      BY <1>1 DEF IsQueue, Fits, IsTime
    <2>2. place[x] = Queue!BinIndex(queue.active, q_due[x])
      BY <2>1, BinIndexOnly
    <2> QED
      BY <2>1, <2>2 DEF Queue!BinOf
  <1>4. queue.nonempty = {b \in Queue!Bins : queue.bins[b] # <<>>}
    BY <1>2, FirstBin
  <1>5. queue.first = Queue!First(queue.nonempty)
    BY <1>2 DEF IsFilled
  <1>6. ASSUME NEW b \in Queue!Bins
        PROVE  /\ Queue!IsInjective(queue.bins[b])
               /\ Queue!ToSet(queue.bins[b]) = {x \in S : Queue!BinOf(x) = b}
    <2>1. Lists(queue.bins[b], InPlace(S, place, b), R)
      BY <1>2 DEF IsFilled
    <2>2. InPlace(S, place, b) = {x \in S : Queue!BinOf(x) = b}
      BY <1>3 DEF InPlace
    <2> QED
      BY <2>1, <2>2, ListsSet
  <1> QED
    BY <1>3, <1>4, <1>5, <1>6 DEF Queue!BinsFit

LEMMA EarliestIsDequeued == QueueInv => Queue!DequeuesEarliest /\ Queue!SleepsUntilDue
  <1> SUFFICES ASSUME QueueInv PROVE Queue!DequeuesEarliest /\ Queue!SleepsUntilDue
    OBVIOUS
  <1> DEFINE S == Queue!Queued
             R == Order(q_due, before)
  <1>1. PICK place : IsQueue(queue, S, q_due, place, R)
    BY DEF QueueInv
  <1>2. IsFilled(queue, S, place, R) /\ \A x \in S : q_due[x] \in Nat
    BY <1>1 DEF IsQueue, Fits, IsTime
  <1>3. \A m \in Asks : m \in Nat /\ IsAsked(m)
    BY AskedAre DEF IsAsked
  <1>4. ASSUME NEW x \in S PROVE Queue!LowerBound(queue) <= q_due[x]
    <2>1. S # {} /\ queue.first # Queue!NoBin
      BY <1>2, FirstBin, NoBinIs
    <2>2. IsLoose(queue, S, place, R, 0)
      BY <1>1, <2>1, FirstIsLoose
    <2>3. FirstTime(queue) <= q_due[x]
      BY <2>1, <2>2, FirstTimeIs
    <2>4. Queue!LowerBound(queue) = FirstTime(queue)
      BY <2>1 DEF Queue!LowerBound, FirstTime
    <2> QED
      BY <2>3, <2>4
  <1>5. ASSUME NEW m \in Asks, NEW goOn \in SUBSET Queue!Undefined
        PROVE  LET d == Queue!Dequeued(queue, m, goOn)
               IN  /\ d.item = Queue!Nil => \A y \in S : q_due[y] > m
                   /\ d.item # Queue!Nil => Queue!IsEarliest(d.item, m)
                   /\ (d.item = Queue!Nil /\ S # {}) => Queue!LowerBound(d.queue) > m
    <2> DEFINE d == Queue!Dequeued(queue, m, goOn)
    <2>1. d = Queue!Dequeued(queue, m, goOn) /\ m \in Nat /\ IsAsked(m)
      BY <1>3
    <2> HIDE DEF d, S, R
    <2>2. /\ d.item = Queue!Nil =>
                /\ \A y \in S : q_due[y] > m
                /\ S # {} => d.queue.first # Queue!NoBin /\ FirstTime(d.queue) > m
          /\ d.item # Queue!Nil => IsFirst(d.item, S, R, m)
      BY <1>1, <2>1, DequeuedIs
    <2>3. ASSUME d.item # Queue!Nil PROVE Queue!IsEarliest(d.item, m)
      <3>1. d.item \in S /\ q_due[d.item] <= m
        BY <2>2, <2>3 DEF IsFirst
      <3>2. ASSUME NEW y \in S \ {d.item}
            PROVE  \/ q_due[d.item] < q_due[y]
                   \/ q_due[d.item] = q_due[y] /\ <<d.item, y>> \in before
        <4>1. \/ q_due[d.item] < q_due[y]
              \/ q_due[d.item] = q_due[y] /\ <<d.item, y>> \in R
          BY <2>2, <2>3, <3>2 DEF IsFirst
        <4> QED
          BY <4>1 DEF R, Order
      <3> QED
        BY <3>1, <3>2 DEF Queue!IsEarliest, S
    <2>4. ASSUME d.item = Queue!Nil, S # {} PROVE Queue!LowerBound(d.queue) > m
      <3>1. d.queue.first # Queue!NoBin /\ FirstTime(d.queue) > m
        BY <2>2, <2>4
      <3>2. Queue!LowerBound(d.queue) = FirstTime(d.queue)
        BY <3>1, Zenon DEF Queue!LowerBound, FirstTime
      <3> QED
        BY <3>1, <3>2
    <2> QED
      BY <2>2, <2>3, <2>4 DEF d
  <1>6. Queue!DequeuesEarliest
    <2> SUFFICES ASSUME NEW m \in Asks, NEW goOn \in SUBSET Queue!Undefined
                 PROVE  LET x == Queue!Dequeued(queue, m, goOn).item
                        IN  IF x = Queue!Nil THEN \A y \in Queue!Queued : q_due[y] > m
                            ELSE Queue!IsEarliest(x, m)
      BY Zenon DEF Queue!DequeuesEarliest
    <2> QED
      BY <1>5
  <1>7. Queue!SleepsUntilDue
    <2> SUFFICES ASSUME NEW m \in Asks, NEW goOn \in SUBSET Queue!Undefined
                 PROVE  LET d == Queue!Dequeued(queue, m, goOn)
                        IN  (d.item = Queue!Nil /\ Queue!Queued # {}) =>
                                Queue!LowerBound(d.queue) > m
      BY <1>4, Zenon DEF Queue!SleepsUntilDue
    <2> QED
      BY <1>5
  <1> QED
    BY <1>6, <1>7

(* Whenever it is asked, the queue of the timers gives the one that is due *)
(* first, of several the one that was added first, and null only if none   *)
(* is due; every timer is in the bin where remove() looks for it, and the  *)
(* time that the thread sleeps until is not after that of any: for every   *)
(* number of digits and base, and whatever times the items are due at, as  *)
(* long as it is asked about times that leave the sign bit of an int alone *)
(* and no addition moves an item to a higher bin.                          *)
THEOREM EarliestTimerIsDequeued == Spec => []DequeuesEarliest
  <1>1. QueueInv => Queue!BinsFit /\ Queue!DequeuesEarliest /\ Queue!SleepsUntilDue
    BY QueuedInBins, EarliestIsDequeued
  <1>2. Spec => [](Queue!BinsFit /\ Queue!DequeuesEarliest /\ Queue!SleepsUntilDue)
    BY <1>1, QueueInvHolds, PTL
  <1> QED
    BY <1>2, BitsetFindsFirst, PTL DEF DequeuesEarliest

==============================================================================
