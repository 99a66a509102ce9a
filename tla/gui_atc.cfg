\* The controller with two aircraft.
CONSTANTS
    Stations = {}
    Aircraft = {1, 2}
    Screens = {"ATC"}
    Uplinks4Me <- Nothing
    Downlinks4Me <- ToClimb
    Menu <- OfPilot
    Templates <- OfController
    Phases = {"LogonPending", "Connected"}
    MaxMin = 3
    MaxArrivals = 2
    MaxOutgoing <- Once
    MaxElements = 1
    MaxRenumber = 1
SPECIFICATION Spec
INVARIANTS
    TypeOK
    AcksMatch
    SelectedIsAFlight
    ReplyKeepsItsTarget
    RequestsAreQueued
CHECK_DEADLOCK FALSE
