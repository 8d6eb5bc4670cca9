\* Memory may run out in the call for the ring and in each mapping.
SPECIFICATION Spec
CONSTANTS
    Arguments = {"thread_idle", "coop", "coop_flag", "defer", "single_issuer"}
    Failures = {"arguments", "no_memory", "not_permitted", "event_fd"}
CHECK_DEADLOCK FALSE
INVARIANT FailureThrows
