\* One spawn() whose source throws when it is connected, while the owner joins.
CONSTANTS
    Refs = {r1}
    Works = {r1}
    Join = Join
    MaxCopies = 0
SPECIFICATION WorkRun
CHECK_DEADLOCK FALSE
INVARIANT AllocationsAreReleased
