\* One aircraft, one station, one fault.
CONSTANTS
    AFR1 = AFR1
    LFPG = LFPG
    EGLL = EGLL
    A1 = A1
    N1 = N1
    N2 = N2
    N3 = N3
    None = None
    Callsign = {AFR1, LFPG}
    Address = {A1}
    Routing <- RoutingOfOne
    Body <- EndService
    Min = {1}
    StationId = {N1, N2}
    Key = {AFR1, LFPG}
    IndexKey <- UpperOfOne
    Licence <- LicenceOfOne
    Ttl = 1
    MaxFaults = 1
    Relogon = FALSE
SPECIFICATION FairSpec
INVARIANTS
    TypeOK
    ViewsCurrent
PROPERTIES
    VanishedAreReleased
    HeartbeatsRepairViews

