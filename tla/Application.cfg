CONSTANT MaxSignals = 4
CHECK_DEADLOCK FALSE
SPECIFICATION FairSpec
INVARIANTS
    StopsOnlyBySignal
PROPERTIES
    SignalEndsTheWait
