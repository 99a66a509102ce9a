\* Two stations, one callsign shared and one spelled in two ways.
CONSTANTS
    N1 = N1
    N2 = N2
    LFPG = LFPG
    lfpg = lfpg
    EGLL = EGLL
    KLFPG = KLFPG
    KEGLL = KEGLL
    None = None
    StationId = {N1, N2}
    Callsign = {LFPG, lfpg, EGLL}
    Key = {KLFPG, KEGLL}
    IndexKey <- Upper
    Licence <- Mixed
    Ttl = 2
    MaxFaults = 2
SPECIFICATION FairSpec
INVARIANTS
    TypeOK
    IndexSound
    IndexComplete
PROPERTIES
    LapsedGoesOffline
