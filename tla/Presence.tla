------------------------------- MODULE Presence -------------------------------
(***************************************************************************)
(* lwt.go: what the API makes of the Online and Offline messages of a      *)
(* plug, with the inbound loop, the debounce timers whose callbacks are    *)
(* goroutines of their own, and plug_initializer.go.  One plug: all state  *)
(* is kept per plug.  The broker retains the last message and replays it   *)
(* when the API subscribes again.  ChargeSession has what cancelling a     *)
(* session and reconciling the relay do; here they are single steps.       *)
(***************************************************************************)
EXTENDS Integers, Sequences

CONSTANTS
    Timers,             \* time.Timers and their callbacks, alive at once
    Debounce,           \* lwtOfflineDebounce
    Cooldown,           \* lwtOfflineCooldown
    MaxFlaps, MaxRestarts   \* bounds: lost connections, of the plug and the API

ASSUME PresenceAssumption ==
    /\ Timers \subseteq Nat \ {0}
    /\ Debounce \in Nat \ {0} /\ Cooldown \in Nat \ {0}
    /\ MaxFlaps \in Nat /\ MaxRestarts \in Nat

VARIABLES
    connected,      \* the plug's connection to the broker
    retained,       \* the broker's retained message
    inbox,          \* messages not yet dispatched
    greeting,       \* what the inbound loop still has to do for an Online
    entry,          \* LWTManager.timers[plug]; NoTimer without one
    timer,          \* each timer: pc, age, whether its message was retained
    plugRow,        \* online, initialized; age of last_offline_notified_at
    charging,       \* whether the plug has a session in progress
    flaps, restarts, \* bounds
    orphaned        \* history: a callback deleted the entry of another timer
device == <<connected, retained>>
bounds == <<flaps, restarts, orphaned>>
presenceVars == <<device, inbox, greeting, entry, timer, plugRow, charging, bounds>>

NoTimer == 0
Free == [pc |-> "free", age |-> 0, retained |-> FALSE]

PresenceInit ==
    /\ connected = FALSE /\ retained = "Offline"
    /\ inbox = <<>> /\ greeting = "none"
    /\ entry = NoTimer /\ timer = [t \in Timers |-> Free]
    /\ plugRow = [online |-> FALSE, initialized |-> FALSE, notified |-> Cooldown]
    /\ charging = FALSE
    /\ flaps = 0 /\ restarts = 0 /\ orphaned = FALSE

Callback(t) == timer[t].pc \notin {"free", "running"}

\* A message of the plug, or its last will.
Says(what) ==
    /\ retained' = what
    /\ inbox' = Append(inbox, [what |-> what, retained |-> FALSE])

PlugConnects ==
    /\ ~connected /\ connected' = TRUE
    /\ Says("Online")
    /\ UNCHANGED <<greeting, entry, timer, plugRow, charging, bounds>>

PlugLost ==
    /\ connected /\ connected' = FALSE
    /\ flaps < MaxFlaps /\ flaps' = flaps + 1
    /\ Says("Offline")
    /\ UNCHANGED <<greeting, entry, timer, plugRow, charging, restarts, orphaned>>

\* A start is confirmed by the plug.
SessionBegins ==
    /\ connected /\ ~charging
    /\ charging' = TRUE
    /\ UNCHANGED <<device, inbox, greeting, entry, timer, plugRow, bounds>>

\* One unit of time: a callback takes less than a debounce window, and so
\* does a timer that is due until it runs.
PresenceTick ==
    /\ \A t \in Timers :
        /\ timer[t].pc = "running" => timer[t].age < Debounce
        /\ Callback(t) => timer[t].age + 1 < Debounce
    /\ timer' = [t \in Timers |->
                    IF timer[t].pc = "free" THEN Free ELSE [timer[t] EXCEPT !.age = @ + 1]]
    /\ plugRow' = [plugRow EXCEPT !.notified = IF @ < Cooldown THEN @ + 1 ELSE @]
    /\ UNCHANGED <<device, inbox, greeting, entry, charging, bounds>>

----------------------------------------------------------------------------
(* The inbound loop.                                                       *)

Arrives(what) == greeting = "none" /\ inbox # <<>> /\ Head(inbox).what = what

\* Mutant: the stopped timer stays in the map.
HandleOnlineKeepsEntry ==
    /\ Arrives("Online")
    /\ inbox' = Tail(inbox)
    /\ timer' = IF entry # NoTimer /\ timer[entry].pc = "running"
                THEN [timer EXCEPT ![entry] = Free] ELSE timer
    /\ greeting' = "mark"
    /\ UNCHANGED <<device, entry, plugRow, charging, bounds>>

\* handleOnline, under the lock: a timer that has fired already is not stopped.
HandleOnline ==
    /\ Arrives("Online")
    /\ inbox' = Tail(inbox)
    /\ timer' = IF entry # NoTimer /\ timer[entry].pc = "running"
                THEN [timer EXCEPT ![entry] = Free] ELSE timer
    /\ entry' = NoTimer
    /\ greeting' = "mark"
    /\ UNCHANGED <<device, plugRow, charging, bounds>>

MarkOnline ==
    /\ greeting = "mark"
    /\ plugRow' = [plugRow EXCEPT !.online = TRUE]
    /\ greeting' = "configure"
    /\ UNCHANGED <<device, inbox, entry, timer, charging, bounds>>

\* OnPlugOnline: the commands asserted every time, then, once, those of the
\* first connection; a publish may fail.  Then reconcileRelay.
Configure ==
    /\ greeting = "configure"
    /\ plugRow' \in {plugRow, [plugRow EXCEPT !.initialized = TRUE]}
    /\ greeting' = "none"
    /\ UNCHANGED <<device, inbox, entry, timer, charging, bounds>>

\* handleOffline, with a running debounce.
HandleOfflineAgain ==
    /\ Arrives("Offline")
    /\ entry # NoTimer
    /\ inbox' = Tail(inbox)
    /\ UNCHANGED <<device, greeting, entry, timer, plugRow, charging, bounds>>

HandleOffline(t) ==
    /\ Arrives("Offline")
    /\ entry = NoTimer
    /\ timer[t].pc = "free" /\ \A u \in Timers : u < t => timer[u].pc # "free"
    /\ timer' = [timer EXCEPT ![t] =
                    [pc |-> "running", age |-> 0, retained |-> Head(inbox).retained]]
    /\ entry' = t
    /\ inbox' = Tail(inbox)
    /\ UNCHANGED <<device, greeting, plugRow, charging, bounds>>

----------------------------------------------------------------------------
(* confirmOffline, in the goroutine of timer t.                            *)

Callbacks(t, pc) == timer[t].pc = pc
Steps(t, pc) == timer' = [timer EXCEPT ![t].pc = pc]
Ends(t) == timer' = [timer EXCEPT ![t] = Free]

Fire(t) ==
    /\ Callbacks(t, "running") /\ timer[t].age = Debounce
    /\ timer' = [timer EXCEPT ![t].pc = "fired", ![t].age = 0]
    /\ UNCHANGED <<device, inbox, greeting, entry, plugRow, charging, bounds>>

\* Whichever timer the map holds by now is deleted from it.
ConfirmDelete(t) ==
    /\ Callbacks(t, "fired")
    /\ entry' = NoTimer
    /\ orphaned' = (orphaned \/ entry \notin {t, NoTimer})
    /\ Steps(t, "mark")
    /\ UNCHANGED <<device, inbox, greeting, plugRow, charging, flaps, restarts>>

ConfirmMark(t) ==
    /\ Callbacks(t, "mark")
    /\ plugRow' = [plugRow EXCEPT !.online = FALSE]
    /\ Steps(t, "cancel")
    /\ UNCHANGED <<device, inbox, greeting, entry, charging, bounds>>

\* A retained message cancels a session, too; only the notice is skipped.
ConfirmCancel(t) ==
    /\ Callbacks(t, "cancel")
    /\ charging' = FALSE
    /\ IF timer[t].retained THEN Ends(t) ELSE Steps(t, "notice")
    /\ UNCHANGED <<device, inbox, greeting, entry, plugRow, bounds>>

\* Mutant: every confirmed Offline is announced.
ConfirmNoticeAlways(t) ==
    /\ Callbacks(t, "notice")
    /\ Steps(t, "notify")
    /\ UNCHANGED <<device, inbox, greeting, entry, plugRow, charging, bounds>>

ConfirmNotice(t) ==
    /\ Callbacks(t, "notice")
    /\ IF plugRow.notified < Cooldown THEN Ends(t) ELSE Steps(t, "notify")
    /\ UNCHANGED <<device, inbox, greeting, entry, plugRow, charging, bounds>>

\* UpdateLastOfflineNotifiedAt and the notice.
Notify(t) ==
    /\ Callbacks(t, "notify")
    /\ plugRow' = [plugRow EXCEPT !.notified = 0]
    /\ Ends(t)
    /\ UNCHANGED <<device, inbox, greeting, entry, charging, bounds>>

Confirm(t) ==
    ConfirmDelete(t) \/ ConfirmMark(t) \/ ConfirmCancel(t) \/ ConfirmNotice(t) \/ Notify(t)

\* CancelAll, or a process that dies: the timers are gone, the table stays, and
\* so does the retained message.
PresenceRestart ==
    /\ restarts < MaxRestarts /\ restarts' = restarts + 1
    /\ inbox' = <<[what |-> retained, retained |-> TRUE]>>
    /\ greeting' = "none" /\ entry' = NoTimer
    /\ timer' = [t \in Timers |-> Free]
    /\ UNCHANGED <<device, plugRow, charging, flaps, orphaned>>

\* The API's own connection breaks; what was under way is lost.
Resubscribe ==
    /\ restarts < MaxRestarts /\ restarts' = restarts + 1
    /\ inbox' = <<[what |-> retained, retained |-> TRUE]>>
    /\ UNCHANGED <<device, greeting, entry, timer, plugRow, charging, flaps, orphaned>>

PresenceNext ==
    \/ PlugConnects \/ PlugLost \/ SessionBegins \/ PresenceTick
    \/ HandleOnline \/ MarkOnline \/ Configure \/ HandleOfflineAgain
    \/ PresenceRestart \/ Resubscribe
    \/ \E t \in Timers : HandleOffline(t) \/ Fire(t) \/ Confirm(t)

PresenceSpec == PresenceInit /\ [][PresenceNext]_presenceVars

----------------------------------------------------------------------------
\* A plug that stays away is shown as such and loses its session, whatever
\* flaps, replays of retained messages and restarts came before: no Offline is
\* dropped for the sake of a timer that never acts (lwt.go:153).
SilenceIsNoticed == <>[]~connected => <>[](~plugRow.online /\ ~charging)

\* Two notices of one plug are at least a cooldown apart (lwt.go:22), also
\* across a restart: the callbacks that read the time of the last notice and
\* write it are not in each other's way, unless one of them met an Online and
\* an Offline between its timer's firing and its first step and so left the
\* newer timer without an entry, out of the reach of the next Online.
NoticesAreSpaced ==
    [][plugRow'.notified < plugRow.notified =>
          plugRow.notified = Cooldown \/ orphaned]_presenceVars

\* "Retained LWT messages are skipped: they reflect stale broker state"
\* (docs/ARCHITECTURE.md:185): none of them ends a session.
RetainedIsSkipped ==
    [][\A t \in Timers : timer[t].retained => (charging => charging')]_presenceVars
=============================================================================
