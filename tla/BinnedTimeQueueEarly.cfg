\* Two items, of which the second may be due before the active time.
SPECIFICATION Spec
CONSTANTS
    Items = {a, b}
    Radix = 4
    Majors = 3
    Times = {1, 6, 18}
    Asks = {1, 6, 18}
    Shifts = {1}
    SignMajor = 2
    MayMoveUp = TRUE
INVARIANT DequeuesEarliest
