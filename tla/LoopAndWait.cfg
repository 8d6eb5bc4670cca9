\* Three items, so that one is removed between two others; one runner may be
\* stopped and the other serves the loop for good.  One call of sync_wait()
\* and one other thread.
SPECIFICATION Spec
CONSTANTS
    Items = {i1, i2, i3}
    Runners = {r1, r2}
    Stoppable = {r1}
CHECK_DEADLOCK FALSE
INVARIANTS
    PointersFit
    FrameIsFree
PROPERTIES
    ImplementsEventLoop
    StartedCompletes
    CallsReturn
