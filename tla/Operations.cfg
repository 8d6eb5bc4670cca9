\* Three children: two may race to decide the result while the third runs.
CONSTANT N = 3
SPECIFICATION Spec
CHECK_DEADLOCK FALSE
INVARIANTS
    CompletesLast
    StopCallsAreLegal
    ResultIsRight
    DeliversDeclared
    IndexNamesTheObject
PROPERTIES
    FirstDecides
    StopCompletes
