\* Both pilot screens, one station that may start its numbering over.
CONSTANTS
    Stations = {1}
    Aircraft = {}
    Screens = {"DCDU", "A320"}
    Uplinks4Me <- ToContact
    Downlinks4Me <- Nothing
    Menu <- OfPilot
    Templates <- OfController
    Phases = {"LogonPending", "Connected"}
    MaxMin = 3
    MaxArrivals = 2
    MaxOutgoing <- OnceTwice
    MaxElements = 1
    MaxRenumber = 1
SPECIFICATION Spec
INVARIANTS
    TypeOK
    AcksMatch
    CompositionIsClean
    DraftStaysOpen
CHECK_DEADLOCK FALSE
