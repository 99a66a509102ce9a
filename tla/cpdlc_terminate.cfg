\* terminate_sessions_for_station against its comment.
CONSTANTS
    AFR1 = AFR1
    BAW2 = BAW2
    A1 = A1
    A2 = A2
    LFPG = LFPG
    EGLL = EGLL
    None = None
    Callsign = {AFR1, LFPG, EGLL}
    Address = {A1}
    Routing <- RoutingOfOne
    Body <- Bodies
    Min <- Mins
SPECIFICATION Spec
INVARIANTS
    StationLeavesEverySession
