CONSTANTS
    N = 2
    Timed <- AllTimed
SPECIFICATION FairSpec
INVARIANTS
    OneExchange
    ContainerAgreesWithPlugin
    PublishedIsAdvertised
    RunningIsSampled
    NoForgottenProcess
PROPERTIES
    PluginContract
    SetupCompletes
    ShutdownEndsEveryProcess
\* A daemon that has ended, or hangs in a wait without a timeout, stops.
CHECK_DEADLOCK FALSE
