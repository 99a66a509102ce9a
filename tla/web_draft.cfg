\* Two requests, replies to them, and nothing fails.
CONSTANTS
    Station = {1}
    Uplinks4Me <- Questions
    Menu <- Requests
    MaxMin = 63
    MaxArrivals = 2
    MaxWritten = 1
    MaxDrafts = 2
    MaxConnects = 1
    MaxFaults = 0
    MaxEvents = 5
    MaxElements = 1
SPECIFICATION Spec
INVARIANTS
    DraftsAreWithinReach
CHECK_DEADLOCK FALSE
