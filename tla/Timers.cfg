\* Three items of the queue, which are also those of the lists, and two timers
\* of the I/O thread.
SPECIFICATION Spec
CONSTANTS
    Items = {a, b, c}
    Timers = {t1, t2}
    Radix = 4
    Majors = 4
    Times = {1, 18, 29, 70}
    Asks = {1, 6, 29, 55}
    Shifts = {17}
    SignMajor = 2
    Nanos = 4
    DueTimes = {5, 13, 18, 40}
    Jumps = {1, 9}
    Grain = 2
    MaxTimestamp = 15
    Past = 1
    Start = 12
    MaxTime = 44
    MaxSec = 7
    Seconds = {0, 1, 5, 7}
    Parts = {1, 4, 7, 9, 20, 27, 28}
    Counts = {0, 1, 6, 7}
    ChunkBits = 3
INVARIANTS
    DequeuesEarliest
    CountsExactly
PROPERTIES
    TimersAreOnTime
    DueIsRun
    ImplementsList
