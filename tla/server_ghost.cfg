\* What a station that lost its slot is shown, against the comment.
CONSTANTS
    AFR1 = AFR1
    LFPG = LFPG
    EGLL = EGLL
    A1 = A1
    N1 = N1
    N2 = N2
    N3 = N3
    None = None
    Callsign = {AFR1, LFPG, EGLL}
    Address = {A1}
    Routing <- RoutingOfTwo
    Body <- Handover
    Min = {1}
    StationId = {N1, N2, N3}
    Key = {AFR1, LFPG, EGLL}
    IndexKey <- Upper
    Licence <- LicenceOfTwo
    Ttl = 0
    MaxFaults = 0
    Relogon = FALSE
SPECIFICATION Spec
INVARIANTS
    NoGhostConnection
