------------------------------ MODULE Maintenance ------------------------------
(***************************************************************************)
(* The relay of a maintenance plug: switched by TogglePower                *)
(* (plug_handler.go), by its button, or not at all when a command is lost, *)
(* and what the table says of it.  Two goroutines write plugs.power_on:    *)
(* the inbound loop, for every report, and the handler, after it.          *)
(***************************************************************************)
EXTENDS Integers, Sequences

CONSTANTS
    Switchers,      \* requests of TogglePower under way
    MaxSwitches     \* bound: commands, presses and lost messages

ASSUME MaintenanceAssumption == MaxSwitches \in Nat

VARIABLES
    relay,          \* of the device
    commands,       \* on their way to it
    reports,        \* on their way to the inbound loop: topic and state
    confirmer,      \* who waits for the next stat/POWER, NoSwitcher if nobody
    powerOn,        \* plugs.power_on
    switcher,       \* each request: pc and the state it asks for
    switches        \* bound
maintenanceVars == <<relay, commands, reports, confirmer, powerOn, switcher, switches>>

CONSTANT NoSwitcher
NotSwitching == [pc |-> "none", on |-> FALSE]

MaintenanceInit ==
    /\ relay = FALSE /\ powerOn = FALSE
    /\ commands = <<>> /\ reports = <<>>
    /\ confirmer = NoSwitcher
    /\ switcher = [q \in Switchers |-> NotSwitching]
    /\ switches = 0

Happens == switches < MaxSwitches /\ switches' = switches + 1

\* SetPowerAndWait: the confirmer of another request is replaced.
TogglePower(q, on) ==
    /\ Happens
    /\ switcher[q].pc = "none"
    /\ switcher' = [switcher EXCEPT ![q] = [pc |-> "wait", on |-> on]]
    /\ confirmer' = q
    /\ commands' = Append(commands, on)
    /\ UNCHANGED <<relay, reports, powerOn>>

Obey ==
    /\ commands # <<>>
    /\ commands' = Tail(commands)
    /\ relay' = Head(commands)
    /\ reports' = Append(reports, [topic |-> "POWER", on |-> relay'])
    /\ UNCHANGED <<confirmer, powerOn, switcher, switches>>

LoseMessage ==
    /\ Happens
    /\ \/ commands # <<>> /\ commands' = Tail(commands) /\ UNCHANGED reports
       \/ reports # <<>> /\ reports' = Tail(reports) /\ UNCHANGED commands
    /\ UNCHANGED <<relay, confirmer, powerOn, switcher>>

PressSwitch ==
    /\ Happens
    /\ relay' = ~relay
    /\ reports' = Append(reports, [topic |-> "POWER", on |-> relay'])
    /\ UNCHANGED <<commands, confirmer, powerOn, switcher>>

\* tele/STATE, every TelePeriod.
Telemetry ==
    /\ reports = <<>>
    /\ reports' = <<[topic |-> "STATE", on |-> relay]>>
    /\ UNCHANGED <<relay, commands, confirmer, powerOn, switcher, switches>>

\* dispatchSTAT_POWER; a report of the other state makes the waiting request
\* register again.
DispatchPower ==
    /\ reports # <<>> /\ Head(reports).topic = "POWER"
    /\ reports' = Tail(reports)
    /\ powerOn' = Head(reports).on
    /\ IF confirmer # NoSwitcher /\ switcher[confirmer].on = Head(reports).on
       THEN /\ switcher' = [switcher EXCEPT ![confirmer].pc = "persist"]
            /\ confirmer' = NoSwitcher
       ELSE UNCHANGED <<switcher, confirmer>>
    /\ UNCHANGED <<relay, commands, switches>>

\* Mutant: telemetry reaches the cache only.
DispatchStateCachesOnly ==
    /\ reports # <<>> /\ Head(reports).topic = "STATE"
    /\ reports' = Tail(reports)
    /\ UNCHANGED <<relay, commands, confirmer, powerOn, switcher, switches>>

DispatchState ==
    /\ reports # <<>> /\ Head(reports).topic = "STATE"
    /\ reports' = Tail(reports)
    /\ powerOn' = Head(reports).on
    /\ UNCHANGED <<relay, commands, confirmer, switcher, switches>>

GiveUpSwitch(q) ==
    /\ switcher[q].pc = "wait"
    /\ switcher' = [switcher EXCEPT ![q] = NotSwitching]
    /\ confirmer' = NoSwitcher
    /\ UNCHANGED <<relay, commands, reports, powerOn, switches>>

\* The handler stores what was asked for, whatever was reported since.
PersistSwitch(q) ==
    /\ switcher[q].pc = "persist"
    /\ powerOn' = switcher[q].on
    /\ switcher' = [switcher EXCEPT ![q] = NotSwitching]
    /\ UNCHANGED <<relay, commands, reports, confirmer, switches>>

MaintenanceNext ==
    \/ Obey \/ LoseMessage \/ PressSwitch \/ Telemetry \/ DispatchPower \/ DispatchState
    \/ \E q \in Switchers : GiveUpSwitch(q) \/ PersistSwitch(q)
    \/ \E q \in Switchers, on \in BOOLEAN : TogglePower(q, on)

MaintenanceSpec == MaintenanceInit /\ [][MaintenanceNext]_maintenanceVars

----------------------------------------------------------------------------
\* Whatever is lost, reported late or written in the wrong order, the table
\* says in the end how the relay is: telemetry repairs what the handler stored
\* after a newer report (plug_handler.go:241).
ShownPowerSettles == <>[](powerOn = relay)
=============================================================================
