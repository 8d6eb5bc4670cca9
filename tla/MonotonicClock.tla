----------------------------- MODULE MonotonicClock -----------------------------
(***************************************************************************)
(* monotonic_clock::time_point: a signed count of seconds, and nanoseconds *)
(* from 0 up, to which durations are added and from which they are         *)
(* subtracted.  It saturates at both ends.                                 *)
(*                                                                         *)
(* Seconds are from MinSec to MaxSec and wrap, where the code lets them    *)
(* overflow.  A duration that is whole seconds by its type takes another   *)
(* overload than one that is counted in parts of a second.                 *)
(***************************************************************************)
EXTENDS Integers

CONSTANTS Nanos,            \* nanoseconds of a second
          MaxSec,           \* the greatest 64-bit integer
          Seconds,          \* the durations in seconds
          Parts             \* those in nanoseconds

VARIABLES seconds,          \* seconds_
          nanoseconds,      \* nanoseconds_
          exact,            \* what it should be, in nanoseconds (history)
          lost              \* what it need not be any more: at its end a carry wrapped
                            \* it, or a part of a second was subtracted (history)

vars == <<seconds, nanoseconds, exact, lost>>

MinSec == -MaxSec - 1

Total == seconds * Nanos + nanoseconds

MinTotal == MinSec * Nanos
MaxTotal == MaxSec * Nanos + Nanos - 1

Clamp(n) == IF n < MinTotal THEN MinTotal ELSE IF n > MaxTotal THEN MaxTotal ELSE n

(* A sum as the processor leaves it *)
Wrapped(n) == ((n - MinSec) % (MaxSec - MinSec + 1)) + MinSec

IsSecond(n) == n \in MinSec..MaxSec

(* max() and min() *)
BecomeMax == seconds' = MaxSec /\ nanoseconds' = Nanos - 1
BecomeMin == seconds' = MinSec /\ nanoseconds' = 0

Become(s, n) == seconds' = s /\ nanoseconds' = n

Init == seconds = 0 /\ nanoseconds = 0 /\ exact = 0 /\ lost = FALSE

(* Division rounds to zero. *)
Quotient(n) == IF n >= 0 THEN n \div Nanos ELSE -((-n) \div Nanos)

-----------------------------------------------------------------------------
(* from_seconds_and_nanoseconds() *)
FromSecondsAndNanoseconds(s, n) ==
    LET rest == n - Quotient(n) * Nanos
        extra == IF rest < 0 THEN Quotient(n) - 1 ELSE Quotient(n)
    IN /\ IF ~IsSecond(s + extra)
          THEN IF s < 0 THEN BecomeMin ELSE BecomeMax
          ELSE Become(s + extra, IF rest < 0 THEN rest + Nanos ELSE rest)
       /\ exact' = Clamp(s * Nanos + n)
       /\ lost' = FALSE

(* operator+= and operator-= for whole seconds: that they fit is asserted. *)
AddSeconds(d) == /\ IsSecond(seconds + d)
                 /\ Become(seconds + d, nanoseconds)
                 /\ exact' = Clamp(exact + d * Nanos)
                 /\ UNCHANGED lost

SubtractSeconds(d) == /\ IsSecond(seconds - d)
                      /\ Become(seconds - d, nanoseconds)
                      /\ exact' = Clamp(exact - d * Nanos)
                      /\ UNCHANGED lost

(* Mutant: the bounds leave the carry out. *)
AddPartsNoCarry(d) ==
    LET whole == d \div Nanos
        sum == nanoseconds + (d % Nanos)
        extra == sum \div Nanos
    IN /\ IF whole > 0 /\ seconds > MaxSec - whole THEN BecomeMax
          ELSE IF whole < 0 /\ seconds < MinSec - whole THEN BecomeMin
          ELSE Become(Wrapped(seconds + whole + extra), sum % Nanos)
       /\ exact' = Clamp(exact + d)
       /\ lost' = (lost \/ (whole = 0 /\ seconds + extra > MaxSec))

(* operator+= for parts of a second: floor, carry, and saturate.  With no  *)
(* whole second to add, neither bound is looked at.                        *)
Add(d) == LET whole == d \div Nanos
              sum == nanoseconds + (d % Nanos)
              extra == sum \div Nanos
          IN /\ IF whole > 0 /\ seconds > MaxSec - whole - extra THEN BecomeMax
                ELSE IF whole < 0 /\ seconds < MinSec - whole - extra THEN BecomeMin
                ELSE Become(Wrapped(seconds + whole + extra), sum % Nanos)
             /\ exact' = Clamp(exact + d)
             /\ lost' = (lost \/ (whole = 0 /\ seconds + extra > MaxSec))

(* operator-= for parts of a second: the same floor and the same carry, so *)
(* that what is left beside the whole seconds is added: the time is too    *)
(* late by twice as much.                                                  *)
Subtract(d) ==
    LET whole == d \div Nanos
        sum == nanoseconds + (d % Nanos)
        extra == sum \div Nanos
    IN /\ IF whole > 0 /\ seconds < MinSec + whole - extra THEN BecomeMin
          ELSE IF (whole < 0 \/ extra > 0) /\ seconds > Wrapped(MaxSec + whole - extra)
          THEN BecomeMax
          ELSE Become(Wrapped(seconds - whole + extra), sum % Nanos)
       /\ exact' = Clamp(exact - d)
       /\ lost' = (lost \/ d % Nanos # 0)

Next == \/ \E s \in {MinSec, MaxSec} : \E n \in Parts : FromSecondsAndNanoseconds(s, n)
        \/ \E d \in Seconds : AddSeconds(d) \/ SubtractSeconds(d)
        \/ \E d \in Parts : Add(d) \/ Subtract(d)

Spec == Init /\ [][Next]_vars

-----------------------------------------------------------------------------
(* Properties *)

(* However a time point came about, its nanoseconds are those of a second, *)
(* as nanoseconds_part() says.                                             *)
TypeOk == /\ IsSecond(seconds)
          /\ nanoseconds \in 0..(Nanos - 1)
          /\ lost \in BOOLEAN

(* Sums, and differences of whole seconds, leave the time that they come   *)
(* to, or the end of the range that they went past: until a part of a      *)
(* second is subtracted, which operator-= adds, or a sum at the end wraps  *)
(* with no whole second to add, and until the time is made anew.           *)
CountsExactly == lost \/ Total = exact
=============================================================================
