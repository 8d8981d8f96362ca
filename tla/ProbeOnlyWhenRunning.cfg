CONSTANTS
    N = 1
    Timed <- AllTimed
SPECIFICATION Spec
INVARIANT ProbeOnlyWhenRunning
CHECK_DEADLOCK FALSE
