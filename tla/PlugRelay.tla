----------------------------- MODULE PlugRelay ------------------------------
(***************************************************************************)
(* The relay of each smart plug, the commands on their way to it, and the  *)
(* dispatcher's bookkeeping of the reports that come back: the cached      *)
(* relay state, the one-shot power confirmers and the external edges it    *)
(* hands to the manual-power handler (mqtt/dispatcher.go,                  *)
(* mqtt/publisher.go).                                                     *)
(*                                                                         *)
(* The plug itself is external: Tasmota applies the commands of one topic  *)
(* in order and publishes stat/POWER after each of them and after a press  *)
(* of its button.  The API's own connection to the broker is external too: *)
(* it breaks and comes back, and what is published meanwhile fails.        *)
(***************************************************************************)
EXTENDS ChargeDomain, Naturals, Sequences

CONSTANT MaxInFlight      \* bound: commands under way to one plug

ASSUME InFlightAssumption == MaxInFlight \in Nat \ {0}

VARIABLES
    relay,      \* relay[p]: what the plug's relay really is
    online,     \* online[p]: the plug holds its broker connection
    cmds,       \* cmds[p]: published POWER commands not yet applied
    cached,     \* Dispatcher.lastPowerStates
    confirmer,  \* Dispatcher.confirmers: whose channel is registered
    signal,     \* signal[g]: what the channel g waits on has received
    edges,      \* manual-power goroutines started and not yet run
    hello,      \* plugs whose Online message the inbound loop has to handle, or
                \* will have when it is replayed
    link        \* the API holds its broker connection

relayVars == <<relay, online, cmds, cached, confirmer, signal, edges, hello, link>>
wire == <<relay, online, cached, edges, hello, link>>

Power == {"on", "off"}
Opposite(x) == IF x = "on" THEN "off" ELSE "on"

RelayTypeOK ==
    /\ relay \in [Plugs -> Power]
    /\ online \in [Plugs -> BOOLEAN]
    /\ cmds \in [Plugs -> Seq(Power)]
    /\ cached \in [Plugs -> Power \cup {"unknown"}]
    /\ confirmer \in [Plugs -> Procs \cup {NoProc}]
    /\ signal \in [Procs -> Power \cup {"none"}]
    /\ edges \subseteq Plugs \X Power
    /\ hello \subseteq Plugs
    /\ link \in BOOLEAN

RelayInit ==
    /\ relay = [p \in Plugs |-> "off"]
    /\ online = [p \in Plugs |-> TRUE]
    /\ cmds = [p \in Plugs |-> <<>>]
    /\ cached = [p \in Plugs |-> "off"]
    /\ confirmer = [p \in Plugs |-> NoProc]
    /\ signal = [g \in Procs |-> "none"]
    /\ edges = {}
    /\ hello = {}
    /\ link = TRUE

----------------------------------------------------------------------------
(* Publisher. *)

(* SetPower: publish and return; no confirmer is registered.  Without its   *)
(* connection the client refuses to publish, which callers only log.        *)
(* Bound: when MaxInFlight commands are under way the new one takes the     *)
(* place of the last, so that the relay still ends up as last commanded.    *)
SetPower(p, x) ==
    cmds' = IF link
            THEN [cmds EXCEPT ![p] = IF Len(@) < MaxInFlight THEN Append(@, x)
                                     ELSE [@ EXCEPT ![MaxInFlight] = x]]
            ELSE cmds

(* RegisterPowerConfirm: a fresh channel replaces whatever was registered. *)
RegisterPowerConfirm(g, p) ==
    /\ confirmer' = [confirmer EXCEPT ![p] = g]
    /\ signal' = [signal EXCEPT ![g] = "none"]

(* RemovePowerConfirm deletes the plug's entry, whoever registered it; the *)
(* caller's own channel is dropped with it.                                *)
RemovePowerConfirm(g, p) ==
    /\ confirmer' = [confirmer EXCEPT ![p] = NoProc]
    /\ signal' = [signal EXCEPT ![g] = "none"]

(* SetPowerAndWait up to its select: register, then publish. *)
SetPowerAndWait(g, p, x) == RegisterPowerConfirm(g, p) /\ SetPower(p, x)

(* The select received a report of the opposite state: register again. *)
Rearm(g, p, x) ==
    /\ signal[g] = Opposite(x)
    /\ RegisterPowerConfirm(g, p)
    /\ UNCHANGED <<wire, cmds>>

----------------------------------------------------------------------------
(* Dispatcher. *)

(* dispatchSTAT_POWER: cache the state, pop the confirmer and signal it;   *)
(* a change that no confirmer was registered for is an external action.    *)
(* Two edges of one plug to the same state that wait together are one.     *)
dispatchSTAT_POWER(p, x) ==
    /\ cached' = [cached EXCEPT ![p] = x]
    /\ confirmer' = [confirmer EXCEPT ![p] = NoProc]
    /\ signal' = IF confirmer[p] # NoProc
                 THEN [signal EXCEPT ![confirmer[p]] = x] ELSE signal
    /\ edges' = IF confirmer[p] = NoProc /\ cached[p] = Opposite(x)
                THEN edges \cup {<<p, x>>} ELSE edges

(* A report that finds the API away is lost. *)
Publish(p, x) ==
    IF link THEN dispatchSTAT_POWER(p, x) ELSE UNCHANGED <<cached, confirmer, signal, edges>>

(* External: the plug applies its oldest command and reports. *)
ApplyCommand(p) ==
    /\ online[p] /\ cmds[p] # <<>>
    /\ relay' = [relay EXCEPT ![p] = Head(cmds[p])]
    /\ cmds' = [cmds EXCEPT ![p] = Tail(@)]
    /\ Publish(p, Head(cmds[p]))
    /\ UNCHANGED <<online, hello, link>>

(* External: somebody presses the button of a connected plug. *)
PressButton(p) ==
    /\ online[p]
    /\ relay' = [relay EXCEPT ![p] = Opposite(@)]
    /\ Publish(p, Opposite(relay[p]))
    /\ UNCHANGED <<online, cmds, hello, link>>

(* External: a command that was under way when the connection broke, or     *)
(* was published since, is lost, or was applied and its report is lost.     *)
LoseCommand(p) ==
    /\ ~online[p] /\ cmds[p] # <<>>
    /\ \E x \in {relay[p], Head(cmds[p])} : relay' = [relay EXCEPT ![p] = x]
    /\ cmds' = [cmds EXCEPT ![p] = Tail(@)]
    /\ UNCHANGED <<online, cached, edges, hello, confirmer, signal, link>>

(* External: the connection of a plug breaks; its relay keeps its state. *)
DropConnection(p) ==
    /\ online[p]
    /\ online' = [online EXCEPT ![p] = FALSE]
    /\ hello' = hello \ {p}
    /\ UNCHANGED <<relay, cmds, cached, confirmer, signal, edges, link>>

(* dispatchSTATE: a tele/STATE is cached without looking for an edge. *)
CacheState(p) == cached' = IF link THEN [cached EXCEPT ![p] = relay[p]] ELSE cached

(* External: the plug is back and publishes LWT Online and tele/STATE. *)
Reconnect(p) ==
    /\ ~online[p] /\ cmds[p] = <<>>
    /\ online' = [online EXCEPT ![p] = TRUE]
    /\ hello' = hello \cup {p}
    /\ CacheState(p)
    /\ UNCHANGED <<relay, cmds, confirmer, signal, edges, link>>

(* External: the periodic tele/STATE of a connected plug. *)
Telemetry(p) ==
    /\ online[p] /\ link
    /\ cached[p] # relay[p]
    /\ CacheState(p)
    /\ UNCHANGED <<relay, online, cmds, confirmer, signal, edges, hello, link>>

(* External: the API's connection breaks.  Commands that the broker has     *)
(* acknowledged are still delivered.                                        *)
LoseLink ==
    /\ link
    /\ link' = FALSE
    /\ UNCHANGED <<relay, online, cmds, cached, confirmer, signal, edges, hello>>

(* OnConnectionUp subscribes again, and the broker replays the retained LWT *)
(* Online of every connected plug.                                          *)
RegainLink ==
    /\ ~link
    /\ link' = TRUE
    /\ hello' = {p \in Plugs : online[p]}
    /\ UNCHANGED <<relay, online, cmds, cached, confirmer, signal, edges>>

(* A restarted API has lost everything the dispatcher kept in memory; its  *)
(* subscription replays the retained LWT Online of every connected plug.   *)
RestartDispatcher ==
    /\ cached' = [p \in Plugs |-> "unknown"]
    /\ confirmer' = [p \in Plugs |-> NoProc]
    /\ signal' = [g \in Procs |-> "none"]
    /\ edges' = {}
    /\ hello' = {p \in Plugs : online[p]}
    /\ UNCHANGED <<relay, online, cmds, link>>

=============================================================================
