\* The work: two pieces, one of which may be a copy of the other's sender.
\* The scope: three refs and two copies: try_get against close, copies against
\* the last release, join before and after the work ends.
\* The future: all four combinations of a stoppable child and a receiver that
\* may stop; neither the spawned operation nor the user of the future need ever
\* go on.
CONSTANTS
    Refs = {r1, r2, r3}
    Works = {r1, r2}
    Join = Join
    MaxCopies = 2
SPECIFICATION ScopeRun
CHECK_DEADLOCK FALSE
INVARIANTS
    JoinRunsLast
    IInv
    RefsAreCarried
    JoinWaitsForWork
    MemoryIsOwned
    NoUseAfterEnd
    AssertionsHold
PROPERTIES
    ImplementsScope
    StopTakesEffect
    EverythingEnds
