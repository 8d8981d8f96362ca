CONSTANT Adds = 6
CHECK_DEADLOCK FALSE
SPECIFICATION FairSpec
INVARIANTS
    SurplusIsTimeouts
    AddLagsByTimeouts
    JoinedIsComplete
PROPERTIES
    MainEnds
