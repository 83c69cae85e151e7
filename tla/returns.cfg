SPECIFICATION FairSpec
CONSTANTS
    Sessions = {s1}
    Plugs = {p1}
    Vehicles = {v1}
    Clients = {c1}
    Background = {}
    Checker = checker
    Poller = poller
    Inbound = inbound
    NoSession = noSession
    NoPlug = noPlug
    NoVehicle = noVehicle
    NoProc = noProc
    MaxInFlight = 2
    Targets = {FALSE}
    Stages = {TRUE}
    HangUps = TRUE
    MaxPresses = 0
    MaxDrops = 0
    MaxOutages = 0
    MaxCrashes = 1
PROPERTIES PendingIsResolved OperationsReturn
