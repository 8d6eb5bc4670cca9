\* One item, two digits above the one that it differs in from a time it is
\* asked about: 97 is 1201 to the base 4.
SPECIFICATION Spec
CONSTANTS
    Items = {a}
    Radix = 4
    Majors = 4
    Times = {64, 97}
    Asks = {64, 97}
    Shifts = {}
    SignMajor = 2
    MayMoveUp = FALSE
INVARIANT RemoveFinds
