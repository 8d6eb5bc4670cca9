\* Two operations on a ring of one entry, so that both kinds of waiting for an
\* entry happen; or three files, one after the other, on two descriptors.
SPECIFICATION Spec
CONSTANTS
    Ops = {o1, o2}
    SqSize = 1
CHECK_DEADLOCK FALSE
INVARIANTS
    FunctionsSuitQueues
    CompletesLast
    ResultsAreKept
PROPERTY OperationsComplete
