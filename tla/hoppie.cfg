\* One pilot, one station, two MINs.
CONSTANTS
    AFR = AFR
    LFPG = LFPG
    Aircraft = {AFR}
    Station = {LFPG}
    Mode = "Full"
    MaxMin = 2
    SeenLimit = 1
    MaxPackets = 3
    MaxEnvelopes = 2
    MaxRepeats = 1
    MaxFaults = 1
SPECIFICATION Spec
INVARIANTS
    TypeOK
    AnswersResolve
    MinsReusedLast
    AcceptanceIsBacked
    RelayedOnce
