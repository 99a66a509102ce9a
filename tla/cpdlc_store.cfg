\* Two aircraft that share a station, one of them with a second station.
CONSTANTS
    AFR1 = AFR1
    BAW2 = BAW2
    A1 = A1
    A2 = A2
    LFPG = LFPG
    EGLL = EGLL
    None = None
    Callsign = {AFR1, BAW2, LFPG, EGLL}
    Address = {A1, A2}
    Routing <- RoutingOfTwo
    Body <- Bodies
    Min <- Mins
SPECIFICATION Spec
INVARIANTS
    TypeOK
    SlotsWellFormed
PROPERTIES
    HandoverByPromotion
    ImplementsDataAuthority
