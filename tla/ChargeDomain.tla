---------------------------- MODULE ChargeDomain ----------------------------
(***************************************************************************)
(* The identities the session modules talk about.                          *)
(***************************************************************************)
CONSTANTS Sessions,     \* ids a run may hand out (generateID never reuses one)
          Plugs,        \* charging plugs
          Vehicles,
          Clients,      \* goroutines serving HTTP requests: as many at once as
                        \* this set has
          Background,   \* goroutines of the schedule activator, manual toggles,
                        \* offline timers and the poller's cancellations
          Checker,      \* the auto-stop checker's goroutine
          Poller,       \* the energy poller's goroutine, on pending sessions
          Inbound,      \* the MQTT client's inbound message loop
          NoSession, NoPlug, NoVehicle, NoProc

Requests == Clients \cup Background
Procs == Requests \cup {Checker, Poller, Inbound}

ASSUME DomainAssumption ==
    /\ NoSession \notin Sessions
    /\ NoPlug \notin Plugs
    /\ NoVehicle \notin Vehicles
    /\ NoProc \notin Procs
    /\ Clients \cap Background = {}
    /\ Requests \cap {Checker, Poller, Inbound} = {}
    /\ Checker # Inbound /\ Checker # Poller /\ Poller # Inbound

=============================================================================
