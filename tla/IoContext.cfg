\* Of the context: two operations, one stop item, and run() called any number
\* of times.
\* Of the rings: two requests, of which one sets fields that the other leaves zero;
\* two entries in the submission ring and one in the other, so that the kernel has a
\* backlog; three rounds until an index is past the mapping; the kinds of setup one
\* at a time.
\* For a setup, the calls that may fail with an error that the code notices.
SPECIFICATION PartsSpec
CONSTANTS
    Ops = {o1, o2}
    Stops = {x1}
    BatchLimit = 1
    Requests = {"READ", "OPENAT"}
    Setups = {"plain", "coop", "coop_flag", "defer", "iopoll", "sqpoll"}
    SqSize = 2
    CqSize = 1
    Mapped = 6
    Wrap = 8
    Arguments = {"thread_idle", "coop", "coop_flag", "defer", "single_issuer"}
    Failures = {"not_permitted", "event_fd"}
CHECK_DEADLOCK FALSE
INVARIANTS
    NoWakeUpIsLost
    NoReadOutlives
    RingsAgree
    ReleasedOnce
PROPERTIES
    NothingWaitsForever
    EnqueuedIsHandled
