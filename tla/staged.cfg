SPECIFICATION Spec
CONSTANTS
    Sessions = {s1, s2}
    Plugs = {p1}
    Vehicles = {v1}
    Clients = {c1}
    Background = {}
    Checker = checker
    Poller = poller
    Inbound = inbound
    NoSession = noSession
    NoPlug = noPlug
    NoVehicle = noVehicle
    NoProc = noProc
    MaxInFlight = 2
    Targets = {FALSE, TRUE}
    Stages = {TRUE}
    HangUps = FALSE
    MaxPresses = 0
    MaxDrops = 0
    MaxOutages = 0
    MaxCrashes = 0
SYMMETRY Symmetry
INVARIANTS TypeOK
PROPERTIES BornOnFreePlug
