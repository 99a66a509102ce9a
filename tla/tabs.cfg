\* Two tabs over time, two stations, one failure.
CONSTANTS
    MaxTabs = 2
    Station = {LFPG, EGLL}
    Blank = Blank
    None = None
    MaxFaults = 1
SPECIFICATION FairSpec
INVARIANTS
    TypeOK
    OneListenerEach
    ConnectedCanSend
    SomeTabIsShown
PROPERTIES
    ClosedFallSilent
    ConnectedAreServed
CHECK_DEADLOCK FALSE
