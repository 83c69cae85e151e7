SPECIFICATION FairSpec
CONSTANTS
    Sessions = {s1}
    Plugs = {p1}
    Vehicles = {v1}
    Clients = {}
    Background = {b1}
    Checker = checker
    Poller = poller
    Inbound = inbound
    NoSession = noSession
    NoPlug = noPlug
    NoVehicle = noVehicle
    NoProc = noProc
    MaxInFlight = 2
    Targets = {FALSE}
    Stages = {FALSE}
    HangUps = FALSE
    MaxPresses = 0
    MaxDrops = 2
    MaxOutages = 1
    MaxCrashes = 1
INVARIANTS RestingRelayIsTracked
PROPERTIES UntrackedRelayIsCut
