---------------------------- MODULE ChargeSession ----------------------------
(***************************************************************************)
(* Charge sessions as the API runs them: every goroutine that starts,      *)
(* stops, cancels, holds, resumes, retargets or deletes a session, between *)
(* the points where another goroutine can get in (services/                *)
(* session_lifecycle_service.go, session_monitoring_service.go,            *)
(* charge_session_service.go, internal/workers, mqtt/lwt.go).              *)
(*                                                                         *)
(* A step is one statement on the table, one publish, or one report.  The  *)
(* shared sessionLock is taken for single writes by most operations; only  *)
(* startSession keeps it over several steps, to the end of its power       *)
(* round-trip.  A locked single write is therefore one step, enabled when  *)
(* the lock is free.                                                       *)
(*                                                                         *)
(* Percentages, energy and time appear as what they decide: whether a      *)
(* target or hold point is reached, a taper or idle streak is seen or a    *)
(* timeout is over is a nondeterministic choice of the step that asks.     *)
(***************************************************************************)
EXTENDS SessionStore, PlugRelay

CONSTANTS Targets,       \* TRUE \in Targets: a session may aim at 100 %
          Stages,        \* TRUE \in Stages: a session may be two-stage
          HangUps,       \* TRUE: an HTTP client may go away mid-request
          MaxPresses,    \* bounds on what the environment does
          MaxDrops,
          MaxOutages,
          MaxCrashes

ASSUME ModeAssumption ==
    /\ Targets \subseteq BOOLEAN /\ Targets # {}
    /\ Stages \subseteq BOOLEAN /\ Stages # {}
    /\ HangUps \in BOOLEAN
    /\ {MaxPresses, MaxDrops, MaxOutages, MaxCrashes} \subseteq Nat

VARIABLES
    lock,      \* sessionLock.mu: its holder
    pc,        \* pc[g]: what goroutine g does next
    sess,      \* sess[g]: the session g read and now acts on
    plug,      \* plug[g]: the plug of that session, or of the call
    todo,      \* the checker's ListActive snapshot, rows still to look at
    budget     \* what the environment has left of its bounds

procVars == <<lock, pc, sess, plug, todo, budget>>
vars == <<rows, relayVars, procVars>>

Labels == {"idle", "start_check", "start_create", "start_wait", "start_cut", "start_off",
           "stop_write", "stop_publish", "stop_wait",
           "cancel_write", "cut", "poll_cut", "manual_resume", "delete_write",
           "condition_write", "hold_wait", "hold_write",
           "resume_wait", "resume_write", "sensor_lock"}

(* The checks of one tick of the auto-stop checker, and the statuses each of *)
(* them picks from its own ListActive.                                       *)
Picks == [reaching |-> {"active"}, conditioning |-> {"conditioning"},
          idle |-> {"active", "conditioning"}, resume |-> {"holding"}]
Checks == {"reaching", "conditioning", "idle", "resume"}

Snapshot == [check: Checks, s: Sessions, full: BOOLEAN, hold: BOOLEAN]

ProcTypeOK ==
    /\ lock \in Procs \cup {NoProc}
    /\ pc \in [Procs -> Labels]
    /\ sess \in [Procs -> Sessions \cup {NoSession}]
    /\ plug \in [Procs -> Plugs \cup {NoPlug}]
    /\ todo \subseteq Snapshot
    /\ budget \in [presses: Nat, drops: Nat, outages: Nat, crashes: Nat]

(* What every step of every mode keeps: statuses, labels, queues and owners  *)
(* are the ones the code knows.                                              *)
TypeOK == StoreTypeOK /\ RelayTypeOK /\ ProcTypeOK

Init ==
    /\ StoreInit
    /\ RelayInit
    /\ lock = NoProc
    /\ pc = [g \in Procs |-> "idle"]
    /\ sess = [g \in Procs |-> NoSession]
    /\ plug = [g \in Procs |-> NoPlug]
    /\ todo = {}
    /\ budget = [presses |-> MaxPresses, drops |-> MaxDrops, outages |-> MaxOutages,
                 crashes |-> MaxCrashes]

----------------------------------------------------------------------------
(* Control flow of a goroutine. *)

At(g, label) == pc[g] = label

(* g goes on to label, keeping the session and plug it works on. *)
Goto(g, label) ==
    /\ pc' = [pc EXCEPT ![g] = label]
    /\ UNCHANGED <<sess, plug>>

(* g, not yet committed to anything, starts on session s of plug p. *)
Enter(g, label, s, p) ==
    /\ pc' = [pc EXCEPT ![g] = label]
    /\ sess' = [sess EXCEPT ![g] = s]
    /\ plug' = [plug EXCEPT ![g] = p]

Return(g) == Enter(g, "idle", NoSession, NoPlug)

Free == lock = NoProc
NoPowerIO == UNCHANGED relayVars
KeepRest == UNCHANGED <<todo, budget>>

(* The commanded state was reported; until the goroutine takes note, its    *)
(* deadline can still pass first.                                           *)
Confirmed(g, x) == signal[g] = x

(* The state a goroutine in SetPowerAndWait commanded. *)
Commanded == [start_wait |-> "on", start_off |-> "off", stop_wait |-> "off",
              hold_wait |-> "off", resume_wait |-> "on"]

Waits(g) == pc[g] \in DOMAIN Commanded

(* Its select received the opposite state: it waits on with a new channel. *)
WaitOn(g) ==
    /\ Waits(g)
    /\ Rearm(g, plug[g], Commanded[pc[g]])
    /\ UNCHANGED <<rows, procVars>>

----------------------------------------------------------------------------
(* startSession: the only holder of the lock across a power round-trip.    *)

(* Mutant: check without the lock. *)
StartCheckUnlocked(g, p) ==
    /\ At(g, "idle") \/ (At(g, "start_check") /\ plug[g] = p)
    /\ InProgressOn(p) = {} /\ Unborn # {}
    /\ Enter(g, "start_create", NoSession, p)
    /\ UNCHANGED <<rows, lock>> /\ NoPowerIO /\ KeepRest

(* Lock, then ensureNoActiveSessionForPlug; ErrActiveSessionExists returns. *)
(* The caller is a user, a schedule, or ManualOn on its way.  Before it has *)
(* the lock a call only validates its arguments, so it begins here.         *)
(* Bound: with no id left to hand out the call is turned away as well.      *)
StartCheck(g, p) ==
    /\ At(g, "idle") \/ (At(g, "start_check") /\ plug[g] = p)
    /\ Free
    /\ IF InProgressOn(p) = {} /\ Unborn # {}
       THEN lock' = g /\ Enter(g, "start_create", NoSession, p)
       ELSE lock' = lock /\ Return(g)
    /\ UNCHANGED rows /\ NoPowerIO /\ KeepRest

(* Mutant: unlock before the power round-trip. *)
StartCreateUnlocks(g) ==
    /\ At(g, "start_create")
    /\ \E s \in Unborn, v \in Vehicles, full \in Targets, hold \in Stages :
          /\ Create(s, plug[g], v, full, hold)
          /\ Enter(g, "start_wait", s, plug[g])
    /\ SetPowerAndWait(g, plug[g], "on")
    /\ lock' = NoProc
    /\ UNCHANGED wire /\ KeepRest

(* createSessionFromPercent, then register the confirmer and publish ON. *)
StartCreate(g) ==
    /\ At(g, "start_create")
    /\ \E s \in Unborn, v \in Vehicles, full \in Targets, hold \in Stages :
          /\ Create(s, plug[g], v, full, hold)
          /\ Enter(g, "start_wait", s, plug[g])
    /\ SetPowerAndWait(g, plug[g], "on")
    /\ UNCHANGED <<lock, wire>> /\ KeepRest

StartConfirmed(g) ==
    /\ At(g, "start_wait") /\ Confirmed(g, "on")
    /\ ActivatePending(sess[g])
    /\ RemovePowerConfirm(g, plug[g])
    /\ lock' = NoProc
    /\ Return(g)
    /\ UNCHANGED <<wire, cmds>> /\ KeepRest

(* Mutant: no best-effort OFF. *)
StartTimeoutKeepsPower(g) ==
    /\ At(g, "start_wait")
    /\ CancelPending(sess[g])
    /\ RemovePowerConfirm(g, plug[g])
    /\ lock' = NoProc
    /\ Return(g)
    /\ UNCHANGED <<wire, cmds>> /\ KeepRest

(* The wait failed, or the publish did: cancel the pending row ...          *)
StartTimeout(g) ==
    /\ At(g, "start_wait")
    /\ CancelPending(sess[g])
    /\ RemovePowerConfirm(g, plug[g])
    /\ Goto(g, "start_cut")
    /\ UNCHANGED <<lock, wire, cmds>> /\ KeepRest

(* ... then best-effort OFF. *)
StartCut(g) ==
    /\ At(g, "start_cut")
    /\ SetPowerAndWait(g, plug[g], "off")
    /\ Goto(g, "start_off")
    /\ UNCHANGED <<rows, lock, wire>> /\ KeepRest

(* Mutant: a return path without the unlock. *)
StartOffKeepsLock(g) ==
    /\ At(g, "start_off")
    /\ RemovePowerConfirm(g, plug[g])
    /\ Return(g)
    /\ UNCHANGED <<rows, lock, wire, cmds>> /\ KeepRest

StartOffDone(g) ==
    /\ At(g, "start_off")
    /\ RemovePowerConfirm(g, plug[g])
    /\ lock' = NoProc
    /\ Return(g)
    /\ UNCHANGED <<rows, wire, cmds>> /\ KeepRest

----------------------------------------------------------------------------
(* Stop and stopWithPercent, CancelActiveSession and cancelPendingSession.  *)

(* Stop looks at the status the caller read; the write comes later.         *)
StopLabel(status) == IF status = "pending" THEN "cancel_write" ELSE "stop_write"

StopRead(g, s) ==
    /\ At(g, "idle")
    /\ s \in ListActive
    /\ Enter(g, StopLabel(Status(s)), s, rows[s].plug)
    /\ UNCHANGED <<rows, lock>> /\ NoPowerIO /\ KeepRest

(* The locked UpdateEndWithStats, on the id alone. *)
StopWrite(g) ==
    /\ At(g, "stop_write") /\ Free
    /\ UpdateEndWithStats(sess[g])
    /\ Goto(g, "stop_publish")
    /\ UNCHANGED lock /\ NoPowerIO /\ KeepRest

StopPublish(g) ==
    /\ At(g, "stop_publish")
    /\ SetPowerAndWait(g, plug[g], "off")
    /\ Goto(g, "stop_wait")
    /\ UNCHANGED <<rows, lock, wire>> /\ KeepRest

(* Confirmed or timed out: either way the session is already completed. *)
StopDone(g) ==
    /\ At(g, "stop_wait")
    /\ RemovePowerConfirm(g, plug[g])
    /\ Return(g)
    /\ UNCHANGED <<rows, lock, wire, cmds>> /\ KeepRest

(* confirmOffline: the debounce is over and Online was not handled meanwhile *)
(* (it may have come and wait its turn).  If a session is found, all that   *)
(* follows this read is CancelActiveSession.                                *)
ConfirmOffline(g, p) ==
    /\ At(g, "idle") /\ (~online[p] \/ p \in hello)
    /\ \E s \in InProgressOn(p) : Enter(g, "cancel_write", s, p)
    /\ UNCHANGED <<rows, lock>> /\ NoPowerIO /\ KeepRest

(* CheckAndCancelDisconnectedSession, after three polls without energy. *)
PollDisconnected(g, s) ==
    /\ At(g, "idle")
    /\ Status(s) \in {"active", "conditioning"}
    /\ Enter(g, "cancel_write", s, rows[s].plug)
    /\ UNCHANGED <<rows, lock>> /\ NoPowerIO /\ KeepRest

(* The locked UpdateCancelData, on the id alone. *)
CancelWrite(g) ==
    /\ At(g, "cancel_write") /\ Free
    /\ UpdateCancelData(sess[g])
    /\ Goto(g, "cut")
    /\ UNCHANGED lock /\ NoPowerIO /\ KeepRest

(* SetPower(OFF) without a confirmer, and the end of the operation. *)
CutPower(g) ==
    /\ At(g, "cut")
    /\ SetPower(plug[g], "off")
    /\ Return(g)
    /\ UNCHANGED <<rows, lock, wire, confirmer, signal>> /\ KeepRest

----------------------------------------------------------------------------
(* The energy poller's two locked checks of pending sessions. *)

(* CancelPendingIfTimedOut: the row is older than 60 s.  Read and written   *)
(* under the lock; where several rows are, the lock is kept between them,   *)
(* and others may get in here.                                              *)
PollTimeout(s) ==
    /\ At(Poller, "idle") /\ Free
    /\ Status(s) = "pending"
    /\ CancelPending(s)
    /\ lock' = Poller
    /\ Enter(Poller, "poll_cut", s, rows[s].plug)
    /\ NoPowerIO /\ KeepRest

(* Mutant: the relay is forgotten. *)
PollCutKeepsPower ==
    /\ At(Poller, "poll_cut")
    /\ lock' = NoProc
    /\ Return(Poller)
    /\ UNCHANGED rows /\ NoPowerIO /\ KeepRest

(* SetPower(OFF), still under the lock. *)
PollCut ==
    /\ At(Poller, "poll_cut")
    /\ SetPower(plug[Poller], "off")
    /\ lock' = NoProc
    /\ Return(Poller)
    /\ UNCHANGED <<rows, wire, confirmer, signal>> /\ KeepRest

(* activatePendingIfDrawing: the cached reading is above half the rated     *)
(* output; it may be older than the session.  All of it has the lock.       *)
PollActivate(s) ==
    /\ At(Poller, "idle") /\ Free
    /\ Status(s) = "pending"
    /\ ActivatePending(s)
    /\ UNCHANGED <<relayVars, procVars>>

----------------------------------------------------------------------------
(* HandleManualPowerToggle, in a goroutine of its own. *)

ManualOff(g, p) ==
    /\ At(g, "idle") /\ <<p, "off">> \in edges
    /\ edges' = edges \ {<<p, "off">>}
    /\ \/ \E s \in InProgressOn(p) :
             IF Status(s) = "holding" THEN UNCHANGED <<pc, sess, plug>>
                                      ELSE Enter(g, StopLabel(Status(s)), s, p)
       \/ InProgressOn(p) = {} /\ UNCHANGED <<pc, sess, plug>>
    /\ UNCHANGED <<rows, lock, relay, online, cmds, cached, confirmer, signal, hello, link>>
    /\ KeepRest

(* With a session: resume one that holds, leave any other alone.  Without:  *)
(* start one, or cut the power (no vehicle, or already at its target).      *)
ManualOn(g, p) ==
    /\ At(g, "idle") /\ <<p, "on">> \in edges
    /\ edges' = edges \ {<<p, "on">>}
    /\ \/ \E s \in InProgressOn(p) :
             IF Status(s) = "holding" THEN Enter(g, "manual_resume", s, p)
                                      ELSE UNCHANGED <<pc, sess, plug>>
       \/ /\ InProgressOn(p) = {}
          /\ \E label \in {"start_check", "cut"} : Enter(g, label, NoSession, p)
    /\ UNCHANGED <<rows, lock, relay, online, cmds, cached, confirmer, signal, hello, link>>
    /\ KeepRest

ManualResume(g) ==
    /\ At(g, "manual_resume") /\ Free
    /\ ResumeHolding(sess[g])
    /\ Return(g)
    /\ UNCHANGED lock /\ NoPowerIO /\ KeepRest

----------------------------------------------------------------------------
(* An HTTP client goes away.  With the request context cancelled, every     *)
(* further statement and publish of its handler fails without effect, and   *)
(* the deferred unlocks and removals run.  (A goroutine that waits in       *)
(* SetPowerAndWait ends there; one before it does nothing more.)            *)

(* Mutant: the unlock is not deferred. *)
HangUpKeepsLock(g) ==
    /\ HangUps
    /\ At(g, "start_wait")
    /\ RemovePowerConfirm(g, plug[g])
    /\ Return(g)
    /\ UNCHANGED <<rows, lock, wire, cmds>> /\ KeepRest

HangUp(g) ==
    /\ HangUps
    /\ pc[g] \in {"start_create", "start_wait", "start_cut", "start_off",
                  "stop_write", "stop_publish", "stop_wait",
                  "cancel_write", "cut", "delete_write"}
    /\ IF pc[g] \in {"start_wait", "start_off", "stop_wait"}
       THEN RemovePowerConfirm(g, plug[g]) ELSE UNCHANGED <<confirmer, signal>>
    /\ lock' = IF lock = g THEN NoProc ELSE lock
    /\ Return(g)
    /\ UNCHANGED <<rows, wire, cmds>> /\ KeepRest

----------------------------------------------------------------------------
(* UpdateTarget and DeleteSession take no lock. *)

(* Whatever UpdateTarget read before, its UPDATE decides by its guard. *)
Retarget(s, full) ==
    /\ Status(s) = "active" /\ rows[s].full # full
    /\ UpdateTarget(s, full)
    /\ UNCHANGED <<relayVars, procVars>>

(* Only active, pending and conditioning sessions are refused. *)
DeleteRead(g, s) ==
    /\ At(g, "idle")
    /\ Exists(s) /\ Status(s) \notin {"active", "pending", "conditioning"}
    /\ Enter(g, "delete_write", s, rows[s].plug)
    /\ UNCHANGED <<rows, lock>> /\ NoPowerIO /\ KeepRest

DeleteWrite(g) ==
    /\ At(g, "delete_write")
    /\ Delete(sess[g])
    /\ Return(g)
    /\ UNCHANGED lock /\ NoPowerIO /\ KeepRest

----------------------------------------------------------------------------
(* The auto-stop checker: one ListActive per check, its rows one by one.    *)
(* What it decides, it decides from the row as it was listed.               *)

CheckerList(check) ==
    /\ At(Checker, "idle") /\ todo = {}
    /\ \E s \in Sessions : Status(s) \in Picks[check]
    /\ todo' = {[check |-> check, s |-> s, full |-> rows[s].full, hold |-> rows[s].hold] :
                   s \in {r \in Sessions : Status(r) \in Picks[check]}}
    /\ UNCHANGED <<rows, relayVars, lock, pc, sess, plug, budget>>

(* Mutant: the listing is used more than once. *)
TakeAgain(t) == At(Checker, "idle") /\ t \in todo /\ todo' = todo

Take(t) == At(Checker, "idle") /\ t \in todo /\ todo' = todo \ {t}

(* Nothing to do about this one yet. *)
CheckerSkip(t) ==
    /\ Take(t)
    /\ UNCHANGED <<rows, relayVars, lock, pc, sess, plug, budget>>

(* The hold point is reached: power off, and hold once that is confirmed. *)
CheckerHold(t) ==
    /\ Take(t) /\ t.check = "reaching" /\ t.hold
    /\ SetPowerAndWait(Checker, rows[t.s].plug, "off")
    /\ Enter(Checker, "hold_wait", t.s, rows[t.s].plug)
    /\ UNCHANGED <<rows, lock, wire, budget>>

(* The target of 100 % is reached: condition. *)
CheckerCondition(t) ==
    /\ Take(t) /\ t.check = "reaching" /\ ~t.hold /\ t.full
    /\ Enter(Checker, "condition_write", t.s, rows[t.s].plug)
    /\ UNCHANGED <<rows, relayVars, lock, budget>>

(* A lower target is reached, the taper is over, or the plug drew nothing   *)
(* for too long.                                                            *)
CheckerStop(t) ==
    /\ Take(t)
    /\ t.check = "reaching" => ~t.hold /\ ~t.full
    /\ t.check # "resume"
    /\ Enter(Checker, "stop_write", t.s, rows[t.s].plug)
    /\ UNCHANGED <<rows, relayVars, lock, budget>>

(* It is time to resume: power on, and resume once that is confirmed. *)
CheckerResume(t) ==
    /\ Take(t) /\ t.check = "resume"
    /\ SetPowerAndWait(Checker, rows[t.s].plug, "on")
    /\ Enter(Checker, "resume_wait", t.s, rows[t.s].plug)
    /\ UNCHANGED <<rows, lock, wire, budget>>

(* The command of each wait, and the write that follows its confirmation. *)
CheckerConfirmed ==
    /\ \/ At(Checker, "hold_wait") /\ Confirmed(Checker, "off") /\ Goto(Checker, "hold_write")
       \/ At(Checker, "resume_wait") /\ Confirmed(Checker, "on") /\ Goto(Checker, "resume_write")
    /\ RemovePowerConfirm(Checker, plug[Checker])
    /\ UNCHANGED <<rows, lock, wire, cmds>> /\ KeepRest

(* Not confirmed: left to the next tick. *)
CheckerTimeout ==
    /\ pc[Checker] \in {"hold_wait", "resume_wait"}
    /\ RemovePowerConfirm(Checker, plug[Checker])
    /\ Return(Checker)
    /\ UNCHANGED <<rows, lock, wire, cmds>> /\ KeepRest

(* Mutant: write without the lock. *)
CheckerWriteUnlocked ==
    /\ \/ At(Checker, "hold_write") /\ UpdateStatus(sess[Checker], "holding")
       \/ At(Checker, "condition_write") /\ UpdateStatus(sess[Checker], "conditioning")
       \/ At(Checker, "resume_write") /\ ResumeHolding(sess[Checker])
    /\ Return(Checker)
    /\ UNCHANGED lock /\ NoPowerIO /\ KeepRest

CheckerWrite ==
    /\ Free
    /\ \/ At(Checker, "hold_write") /\ UpdateStatus(sess[Checker], "holding")
       \/ At(Checker, "condition_write") /\ UpdateStatus(sess[Checker], "conditioning")
       \/ At(Checker, "resume_write") /\ ResumeHolding(sess[Checker])
    /\ Return(Checker)
    /\ UNCHANGED lock /\ NoPowerIO /\ KeepRest

----------------------------------------------------------------------------
(* The inbound message loop runs its handlers itself; until one returns, no *)
(* further message is dispatched.                                           *)

(* Mutant: no reconciliation. *)
ReconcileNothing(p) ==
    /\ At(Inbound, "idle") /\ link /\ p \in hello
    /\ hello' = hello \ {p}
    /\ UNCHANGED <<rows, relay, online, cmds, cached, confirmer, signal, edges, link, procVars>>

(* handleOnline: a charging plug without a session gets an OFF command.     *)
ReconcileRead(p) ==
    /\ At(Inbound, "idle") /\ link /\ p \in hello
    /\ hello' = hello \ {p}
    /\ IF InProgressOn(p) = {} THEN Enter(Inbound, "cut", NoSession, p)
                               ELSE UNCHANGED <<pc, sess, plug>>
    /\ UNCHANGED <<rows, lock, relay, online, cmds, cached, confirmer, signal, edges, link>>
    /\ KeepRest

(* A live SENSOR message of a plug with a session waits for the lock (one   *)
(* that finds it free passes through and changes nothing kept here) ...     *)
SensorArrives(p) ==
    /\ At(Inbound, "idle") /\ online[p] /\ link
    /\ InProgressOn(p) # {} /\ ~Free
    /\ Enter(Inbound, "sensor_lock", NoSession, p)
    /\ UNCHANGED <<rows, lock>> /\ NoPowerIO /\ KeepRest

(* ... and saves a reading, which changes no column kept here. *)
SensorSave ==
    /\ At(Inbound, "sensor_lock") /\ Free
    /\ Return(Inbound)
    /\ UNCHANGED <<rows, lock>> /\ NoPowerIO /\ KeepRest

(* The next stat/POWER report. *)
Report(p) == At(Inbound, "idle") /\ ApplyCommand(p) /\ UNCHANGED <<rows, procVars>>

----------------------------------------------------------------------------
(* The environment, within its bounds. *)

Spend(what) ==
    /\ budget[what] > 0
    /\ budget' = [budget EXCEPT ![what] = @ - 1]

Press(p) ==
    /\ Spend("presses") /\ At(Inbound, "idle") /\ PressButton(p)
    /\ UNCHANGED <<rows, lock, pc, sess, plug, todo>>

Drop(p) ==
    /\ Spend("drops") /\ DropConnection(p)
    /\ UNCHANGED <<rows, lock, pc, sess, plug, todo>>

Lose(p) == LoseCommand(p) /\ UNCHANGED <<rows, procVars>>

ComeBack(p) == At(Inbound, "idle") /\ Reconnect(p) /\ UNCHANGED <<rows, procVars>>

(* The API's connection to the broker. *)
Disconnect ==
    /\ Spend("outages") /\ LoseLink
    /\ UNCHANGED <<rows, lock, pc, sess, plug, todo>>

Connect == At(Inbound, "idle") /\ RegainLink /\ UNCHANGED <<rows, procVars>>

State(p) == At(Inbound, "idle") /\ Telemetry(p) /\ UNCHANGED <<rows, procVars>>

(* The API process dies and is started again: the table is all it keeps. *)
Crash ==
    /\ Spend("crashes") /\ RestartDispatcher
    /\ lock' = NoProc
    /\ pc' = [g \in Procs |-> "idle"]
    /\ sess' = [g \in Procs |-> NoSession]
    /\ plug' = [g \in Procs |-> NoPlug]
    /\ todo' = {}
    /\ UNCHANGED rows

----------------------------------------------------------------------------
(* An operation begins. *)
Begin ==
    \/ \E g \in Requests, p \in Plugs : At(g, "idle") /\ StartCheck(g, p)
    \/ \E g \in Clients, s \in Sessions : StopRead(g, s) \/ DeleteRead(g, s)
    \/ \E g \in Background, p \in Plugs :
          ConfirmOffline(g, p) \/ ManualOff(g, p) \/ ManualOn(g, p)
    \/ \E g \in Background, s \in Sessions : PollDisconnected(g, s)
    \/ \E s \in Sessions, full \in Targets : Retarget(s, full)
    \/ \E check \in Checks : CheckerList(check)
    \/ \E t \in todo : CheckerSkip(t) \/ CheckerHold(t) \/ CheckerCondition(t)
                         \/ CheckerStop(t) \/ CheckerResume(t)
    \/ \E p \in Plugs : SensorArrives(p)

(* A goroutine under way takes its next step: one that needs the lock ...   *)
LockedStep(g) ==
    \/ \E p \in Plugs : At(g, "start_check") /\ StartCheck(g, p)
    \/ StopWrite(g) \/ CancelWrite(g) \/ ManualResume(g)

(* ... or one that does not. *)
FreeStep(g) ==
    \/ StartCreate(g) \/ StartConfirmed(g) \/ StartTimeout(g) \/ StartCut(g) \/ StartOffDone(g)
    \/ StopPublish(g) \/ StopDone(g) \/ CutPower(g) \/ DeleteWrite(g)

Step ==
    \/ \E g \in Procs : LockedStep(g) \/ FreeStep(g) \/ WaitOn(g)
    \/ CheckerConfirmed \/ CheckerTimeout \/ CheckerWrite
    \/ SensorSave

Poll == PollCut \/ \E s \in Sessions : PollTimeout(s) \/ PollActivate(s)

Wire ==
    \/ \E p \in Plugs : Report(p) \/ State(p) \/ ReconcileRead(p) \/ Lose(p) \/ ComeBack(p)
    \/ Connect

Fault ==
    \/ \E g \in Clients : HangUp(g)
    \/ \E p \in Plugs : Press(p) \/ Drop(p)
    \/ Disconnect \/ Crash

Next == Begin \/ Step \/ Poll \/ Wire \/ Fault

Spec == Init /\ [][Next]_vars

(* What goroutine g does next once its operation has begun. *)
Run(g) ==
    \/ LockedStep(g) \/ FreeStep(g)
    \/ g = Checker /\ (CheckerTimeout \/ CheckerWrite)
    \/ g = Inbound /\ SensorSave

(***************************************************************************)
(* Fairness.  A goroutine is scheduled; sync.Mutex hands itself to a       *)
(* waiter it has starved for 1 ms, so a waiter gets the lock in the end    *)
(* (hence strong fairness); the poller ticks; the inbound loop gets to the *)
(* messages of every plug; a plug that is away comes back, and so does the *)
(* API's own connection, which is tried again every 5 s.  Nothing is       *)
(* assumed of users, faults, the checker's findings, or that a report      *)
(* comes before the deadline.                                              *)
(***************************************************************************)
Fairness ==
    /\ \A g \in Procs \ {Poller} : SF_vars(Run(g))
    /\ WF_vars(PollCut)
    /\ \A s \in Sessions : SF_vars(PollTimeout(s))
    /\ \A p \in Plugs : /\ SF_vars(Report(p) \/ ReconcileRead(p))
                        /\ SF_vars(Lose(p) \/ ComeBack(p))
    /\ WF_vars(Connect)

FairSpec == Spec /\ Fairness

----------------------------------------------------------------------------
(* Safety. *)

(* Two sessions never charge, or wait to charge, on one plug: the check of  *)
(* startSession and the insert it permits cannot be separated by another    *)
(* start, stop or resume (docs/ARCHITECTURE.md, "Invariants protected").    *)
OneSessionPerPlug ==
    \A s, t \in ListActive : rows[s].plug = rows[t].plug => s = t

(* At most one session of a vehicle is in progress, whatever the plugs.     *)
OneSessionPerVehicle ==
    \A s, t \in ListActive : rows[s].vehicle = rows[t].vehicle => s = t

(* Nothing is under way for plug p: its broker connection and the API's are *)
(* up, every command was applied, every message handled and every goroutine *)
(* returned.                                                                *)
AtRest(p) ==
    /\ online[p] /\ link /\ cmds[p] = <<>> /\ p \notin hello
    /\ \A x \in Power : <<p, x>> \notin edges
    /\ \A g \in Procs : plug[g] # p

(* "Energy must never flow untracked" (HandleManualPowerToggle): when all   *)
(* that was under way for a plug has come to its end and the relay is on, a *)
(* session is there to account for the energy and to stop it.               *)
RestingRelayIsTracked ==
    \A p \in Plugs : AtRest(p) /\ relay[p] = "on" => InProgressOn(p) # {}

(* "A holding session's relay is already off" (handleManualPowerOff): when  *)
(* all has come to its end, no plug charges a session that holds.           *)
RestingHoldIsDark ==
    \A p \in Plugs : AtRest(p) /\ relay[p] = "on" =>
        \A s \in InProgressOn(p) : Status(s) # "holding"

(* "App-initiated relay changes never reach this method": as long as nobody *)
(* pressed a button, no change is reported as an external one.              *)
EdgesArePresses == edges # {} => budget.presses < MaxPresses

(* A session is born on a plug that has none in progress at that moment,    *)
(* although the check was an earlier statement: no resurrected, resumed or  *)
(* concurrently started session gets in between.                            *)
BornOnFreePlug ==
    [][\A s \in Sessions :
          (Status(s) = "unborn" /\ Status(s)' # "unborn")
             => \A t \in ListActive : rows[t].plug # rows[s]'.plug]_vars

(* A session that ended stays ended: no step that waited for the lock or    *)
(* for a plug brings it back in progress.                                   *)
EndedIsFinal ==
    [][\A s \in Sessions :
          Status(s) \in Ended \cup {"deleted"} => Status(s)' \notin InProgress]_vars

(* A two-stage session holds once: after a resume, the checker's or one by  *)
(* hand, no hold decided on an older listing is written.                    *)
HoldsOnce ==
    [][\A s \in Sessions :
          (Status(s) # "holding" /\ Status(s)' = "holding") => rows[s].hold]_vars

(* While all clients stay and the process lives, every pending row belongs  *)
(* to the start that holds the lock, so no poll can see one and neither     *)
(* time it out nor activate it behind that start's back.                    *)
PendingIsOwned ==
    \A s \in Sessions : Status(s) = "pending" =>
        /\ lock # NoProc
        /\ pc[lock] = "start_wait"
        /\ sess[lock] = s

(* Nobody holds the lock for a power report while the loop that has to      *)
(* dispatch the report waits for the lock ("blocking here would stall the   *)
(* client's inbound message loop", mqtt/dispatcher.go).                     *)
LockNeverStallsReports ==
    ~(At(Inbound, "sensor_lock") /\ lock # NoProc /\ Waits(lock))

(* What the table shows of a session is a claim on its plug: claimed once,  *)
(* by one session at a time, and never again once given up.                 *)
Claims == INSTANCE PlugClaim WITH
    claim <- [s \in Sessions |-> IF Status(s) \in InProgress THEN rows[s].plug ELSE NoPlug],
    spent <- {s \in Sessions : Status(s) \in Ended \cup {"deleted"}}

(* The services implement that promise. *)
ClaimsRespected == Claims!ClaimSpec

(* Why they do, when no session is two-stage and none aims at 100 %: the     *)
(* writes that could bring a session back are never reached ...              *)
PlainRows ==
    \A s \in Sessions : /\ ~rows[s].full /\ ~rows[s].hold
                        /\ Status(s) \notin {"holding", "conditioning"}

PlainChecker ==
    /\ \A t \in todo : ~t.full /\ ~t.hold /\ t.check # "resume"
    /\ pc[Checker] \notin {"hold_wait", "hold_write", "condition_write",
                           "resume_wait", "resume_write"}

(* ... every session in progress has a plug ... *)
OwnPlug == \A s \in ListActive : rows[s].plug \in Plugs

(* ... and a start that has checked its plug has the lock until it is done,  *)
(* as the poller has until its power-off, so that the plug is still free     *)
(* when the start inserts the row.                                           *)
HolderLabels == {"start_create", "start_wait", "start_cut", "start_off", "poll_cut"}
LockHeld == \A g \in Procs : pc[g] \in HolderLabels => lock = g
StillFree ==
    \A g \in Procs : At(g, "start_create") => plug[g] \in Plugs /\ InProgressOn(plug[g]) = {}

(* The inductive invariant behind ClaimsRespected. *)
ClaimInv ==
    /\ PlainRows /\ PlainChecker /\ OwnPlug
    /\ LockHeld /\ StillFree /\ OneSessionPerPlug

----------------------------------------------------------------------------
(* Liveness. *)

(* A pending session is activated or cancelled, even if its start crashed   *)
(* or lost its client: "it survives browser refresh or API crash".          *)
PendingIsResolved ==
    \A s \in Sessions : Status(s) = "pending" ~> Status(s) # "pending"

(* Energy does not flow untracked for ever: a relay that is on without a    *)
(* session goes off or gets one.                                            *)
UntrackedRelayIsCut ==
    \A p \in Plugs :
        (relay[p] = "on" /\ InProgressOn(p) = {})
            ~> (relay[p] = "off" \/ InProgressOn(p) # {})

(* Every operation returns, whatever the others and the plugs do. *)
OperationsReturn == \A g \in Procs : ~At(g, "idle") ~> At(g, "idle")

=============================================================================
