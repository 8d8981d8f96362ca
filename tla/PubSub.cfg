CONSTANTS
    p = p  controller = controller  broker = broker
    dump = dump  monitor = monitor  ofA = ofA  a = a  b = b
    Probe = {p}
    Testpoint = {controller, broker}
    Client = {dump, monitor}
    Links <- MCLinks
    Topic = {a, b}
    Filter = {ofA}
    Covers <- MCCovers
    Wants <- MCWants
    Hwm <- MCHwm
    MaxReports = 2
    MaxBreaks = 2
SPECIFICATION FairSpec
INVARIANTS
    TypeOK
    SubscriptionsAgree
    SubscribersMissNothing
PROPERTIES
    StreamOfReports
    SubscriptionsSpread
\* When all is published and nothing fails any more, the system rests.
CHECK_DEADLOCK FALSE
