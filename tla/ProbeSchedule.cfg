CONSTANTS
    Rate = 3
    MaxBack = 4
    MaxTime = 20
SPECIFICATION Spec
INVARIANTS
    OnGrid
    ScheduleFollowsClock
PROPERTIES
    StampsIncrease
    PromptSampleKeepsPace
\* The clock stops at MaxTime.
CHECK_DEADLOCK FALSE
