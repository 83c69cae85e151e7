SPECIFICATION Spec
CONSTANTS
    Sessions = {s1}
    Plugs = {p1}
    Vehicles = {v1}
    Clients = {c1}
    Background = {b1}
    Checker = checker
    Poller = poller
    Inbound = inbound
    NoSession = noSession
    NoPlug = noPlug
    NoVehicle = noVehicle
    NoProc = noProc
    MaxInFlight = 2
    Targets = {FALSE}
    Stages = {TRUE}
    HangUps = TRUE
    MaxPresses = 1
    MaxDrops = 0
    MaxOutages = 0
    MaxCrashes = 0
SYMMETRY Symmetry
PROPERTIES HoldsOnce
