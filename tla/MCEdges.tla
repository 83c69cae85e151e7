------------------------------- MODULE MCEdges -------------------------------
(***************************************************************************)
(* The machines around charging, each on its own: every behaviour picks    *)
(* one of them and leaves the variables of the others alone, so that their *)
(* states add up instead of multiplying.                                   *)
(***************************************************************************)
EXTENDS Breaker, Tokens, Presence, Provisioning, Maintenance, CarbonCache, Bill,
        Delivery, Workers, MCFigures

CONSTANTS Machines
VARIABLES which
vars == <<breakerVars, tokensVars, presenceVars, provisioningVars, maintenanceVars,
          carbonVars, billVars, deliveryVars, workersVars, plansVars, which>>

Init ==
    /\ which \in Machines
    /\ BreakerInit /\ TokensInit /\ PresenceInit /\ ProvisioningInit /\ MaintenanceInit
    /\ CarbonInit /\ DeliveryInit /\ WorkersInit
    /\ BillInit /\ (which # "bill" => windows = <<>>)
    /\ IF which = "plans" THEN PlansInit ELSE NoPlans

Keeps(machine, v) == IF which = machine THEN TRUE ELSE UNCHANGED v
Others ==
    /\ UNCHANGED which
    /\ Keeps("breaker", breakerVars) /\ Keeps("tokens", tokensVars)
    /\ Keeps("presence", presenceVars) /\ Keeps("provisioning", provisioningVars)
    /\ Keeps("maintenance", maintenanceVars) /\ Keeps("carbon", carbonVars)
    /\ Keeps("bill", billVars) /\ Keeps("delivery", deliveryVars)
    /\ Keeps("workers", workersVars) /\ Keeps("plans", plansVars)

Next ==
    \/ which = "breaker" /\ BreakerNext /\ Others
    \/ which = "tokens" /\ TokensNext /\ Others
    \/ which = "presence" /\ PresenceNext /\ Others
    \/ which = "provisioning" /\ ProvisioningNext /\ Others
    \/ which = "maintenance" /\ MaintenanceNext /\ Others
    \/ which = "carbon" /\ CarbonNext /\ Others
    \/ which = "bill" /\ BillNext /\ Others
    \/ which = "delivery" /\ DeliveryNext /\ Others
    \/ which = "workers" /\ WorkersNext /\ Others
    \/ which = "plans" /\ PlansTick /\ Others

\* Callers poll the device, and every request is answered or given up.
BreakerRuns == which = "breaker"
BreakerFairness ==
    /\ WF_breakerVars(BreakerRuns /\ BreakerTick)
    /\ \A c \in Callers :
        /\ WF_breakerVars(BreakerRuns /\ Call(c))
        /\ WF_breakerVars(BreakerRuns /\ (Success(c) \/ Failure(c)))

\* Timers fire, their callbacks and the inbound loop go on.
PresenceRuns == which = "presence"
PresenceFairness ==
    /\ WF_presenceVars(PresenceRuns /\ PresenceTick)
    /\ WF_presenceVars(PresenceRuns /\ (HandleOnline \/ MarkOnline \/ Configure))
    /\ WF_presenceVars(PresenceRuns /\ (HandleOfflineAgain \/ \E t \in Timers : HandleOffline(t)))
    /\ \A t \in Timers :
        /\ WF_presenceVars(PresenceRuns /\ Fire(t))
        /\ WF_presenceVars(PresenceRuns /\ Confirm(t))

\* The device obeys and reports, the inbound loop and the handlers go on.
MaintenanceRuns == which = "maintenance"
MaintenanceFairness ==
    /\ WF_maintenanceVars(MaintenanceRuns /\ Obey)
    /\ WF_maintenanceVars(MaintenanceRuns /\ Telemetry)
    /\ WF_maintenanceVars(MaintenanceRuns /\ (DispatchPower \/ DispatchState))
    /\ \A q \in Switchers :
        WF_maintenanceVars(MaintenanceRuns /\ (GiveUpSwitch(q) \/ PersistSwitch(q)))

FairSpec ==
    Init /\ [][Next]_vars /\ BreakerFairness /\ PresenceFairness /\ MaintenanceFairness
=============================================================================
