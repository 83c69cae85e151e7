SPECIFICATION Spec
CONSTANTS
    Sessions = {s1, s2}
    Plugs = {p1}
    Vehicles = {v1}
    Clients = {c1}
    Background = {b1}
    Checker = checker
    Poller = poller
    Inbound = inbound
    NoSession = noSession
    NoPlug = noPlug
    NoVehicle = noVehicle
    NoProc = noProc
    MaxInFlight = 2
    Targets = {FALSE}
    Stages = {FALSE}
    HangUps = FALSE
    MaxPresses = 0
    MaxDrops = 1
    MaxOutages = 0
    MaxCrashes = 0
SYMMETRY Symmetry
INVARIANTS OneSessionPerPlug PendingIsOwned ClaimInv RestingRelayIsTracked
PROPERTIES ClaimsRespected
