CONSTANTS
    Hal = hal
    Shell = shell
    Writers = {hal, shell}
    Timer = timer
    Power = power
    Full = 1
    Default = 2
    States <- TheStates
    Batteries <- Steady
    MaxMeddle = 1
SPECIFICATION FairSpec
CHECK_DEADLOCK FALSE
INVARIANTS
    QuietWithoutTrigger
    BlinksUnlessLost
    ShownWhenSet

PROPERTIES
    StoresEnd
