CONSTANTS
    solo = solo  shared = shared  t1 = t1  t2 = t2  t3 = t3
    Client = {solo, shared}
    Order <- MCOrder
    Thread = {t1, t2, t3}
    Owner <- MCOwner
    LogsAt <- MCLogsAt
    DEBUG_LEVEL = 1
    Hwm = 1
    MaxRecords = 2
    MaxSettings = 1
    NoClient = NoClient
SPECIFICATION FairSpec
INVARIANTS
    TypeOK
    LevelsFollow
    OnlySharedClientsMix
    RecordsInOrder
PROPERTY DestructorReturns
\* A service that has been destroyed, or waits for a dead thread, stops.
CHECK_DEADLOCK FALSE
