CONSTANT MaxSignals = 4
CHECK_DEADLOCK FALSE
SPECIFICATION FairSpec
PROPERTY HandledSignalStops
