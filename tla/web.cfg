\* One station, one connection that may fail.
CONSTANTS
    Station = {1}
    Uplinks4Me <- Instructions
    Menu <- Requests
    MaxMin = 3
    MaxArrivals = 2
    MaxWritten = 2
    MaxDrafts = 1
    MaxConnects = 2
    MaxFaults = 1
    MaxEvents = 5
    MaxElements = 1
SPECIFICATION FairSpec
INVARIANTS
    TypeOK
    TransientIsAwaited
    AnsweredOnce
    FarewellIsLast
    HeardOnce
PROPERTIES
    ReopenedByItsAnswer
    DisconnectEnds
CHECK_DEADLOCK FALSE
