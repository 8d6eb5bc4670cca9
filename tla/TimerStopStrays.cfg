\* One timer, which elapses while another thread asks it to stop.
SPECIFICATION Spec
CONSTANT Ops = {o1}
CHECK_DEADLOCK FALSE
INVARIANT RemovesQueued
