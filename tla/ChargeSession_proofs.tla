------------------------ MODULE ChargeSession_proofs ------------------------
(***************************************************************************)
(* Proofs about ChargeSession for every set of sessions, plugs, vehicles   *)
(* and goroutines and every bound.                                         *)
(***************************************************************************)
EXTENDS ChargeSession, SequenceTheorems, TLAPS

----------------------------------------------------------------------------
(* Typing of the statements on the table. *)

LEMMA SetStatusType ==
    ASSUME StoreTypeOK, NEW s, NEW st \in Statuses, SetStatus(s, st)
    PROVE  StoreTypeOK'
BY DEF StoreTypeOK, SetStatus, Exists, Status, Row

LEMMA GuardedType ==
    ASSUME StoreTypeOK, NEW s,
           ActivatePending(s) \/ CancelPending(s) \/ ResumeHolding(s)
    PROVE  StoreTypeOK'
BY DEF StoreTypeOK, ActivatePending, CancelPending, ResumeHolding, Status, Row,
       Statuses, InProgress, Ended

LEMMA CreateType ==
    ASSUME StoreTypeOK, NEW s, NEW p \in Plugs \cup {NoPlug}, NEW v \in Vehicles,
           NEW full \in BOOLEAN, NEW hold \in BOOLEAN, Create(s, p, v, full, hold)
    PROVE  StoreTypeOK'
BY DEF StoreTypeOK, Create, Row, Statuses, InProgress

LEMMA KnownStatuses ==
    /\ "completed" \in Statuses /\ "cancelled" \in Statuses /\ "deleted" \in Statuses
    /\ "holding" \in Statuses /\ "conditioning" \in Statuses
BY DEF Statuses, InProgress, Ended

----------------------------------------------------------------------------
(* Typing of the publishes and the bookkeeping of confirmations. *)

LEMMA SetPowerType ==
    ASSUME RelayTypeOK, NEW p, NEW x \in Power, SetPower(p, x)
    PROVE  cmds' \in [Plugs -> Seq(Power)]
<1>1. \A q \in Seq(Power) : ~(Len(q) < MaxInFlight) => MaxInFlight \in 1 .. Len(q)
  BY InFlightAssumption, LenProperties
<1>2. \A q \in Seq(Power) :
         (IF Len(q) < MaxInFlight THEN Append(q, x) ELSE [q EXCEPT ![MaxInFlight] = x])
            \in Seq(Power)
  BY <1>1, ExceptSeq, AppendProperties
<1> DEFINE full(q) == IF Len(q) < MaxInFlight THEN Append(q, x)
                      ELSE [q EXCEPT ![MaxInFlight] = x]
<1>3. cmds' = [cmds EXCEPT ![p] = full(cmds[p])] \/ cmds' = cmds
  BY DEF SetPower
<1>4. \A q \in Seq(Power) : full(q) \in Seq(Power)
  BY <1>2
<1> HIDE DEF full
<1>5. CASE cmds' = [cmds EXCEPT ![p] = full(cmds[p])]
  BY <1>4, <1>5 DEF RelayTypeOK
<1>6. CASE cmds' = cmds
  BY <1>6 DEF RelayTypeOK
<1> QED BY <1>3, <1>5, <1>6

LEMMA ConfirmType ==
    ASSUME RelayTypeOK, NEW g \in Procs, NEW p,
           RegisterPowerConfirm(g, p) \/ RemovePowerConfirm(g, p)
    PROVE  /\ confirmer' \in [Plugs -> Procs \cup {NoProc}]
           /\ signal' \in [Procs -> Power \cup {"none"}]
BY DEF RelayTypeOK, RegisterPowerConfirm, RemovePowerConfirm

LEMMA DispatchType ==
    ASSUME RelayTypeOK, NEW p \in Plugs, NEW x \in Power, dispatchSTAT_POWER(p, x)
    PROVE  /\ cached' \in [Plugs -> Power \cup {"unknown"}]
           /\ confirmer' \in [Plugs -> Procs \cup {NoProc}]
           /\ signal' \in [Procs -> Power \cup {"none"}]
           /\ edges' \subseteq Plugs \X Power
BY DEF RelayTypeOK, dispatchSTAT_POWER

(* A report, whether it reaches the API or not. *)
LEMMA ReportType ==
    ASSUME RelayTypeOK, NEW p \in Plugs, NEW x \in Power, Publish(p, x)
    PROVE  /\ cached' \in [Plugs -> Power \cup {"unknown"}]
           /\ confirmer' \in [Plugs -> Procs \cup {NoProc}]
           /\ signal' \in [Procs -> Power \cup {"none"}]
           /\ edges' \subseteq Plugs \X Power
BY DispatchType DEF Publish, RelayTypeOK

(* The steps that leave the connection and the relay alone. *)
LEMMA WaitType ==
    ASSUME RelayTypeOK, NEW g \in Procs, NEW p, NEW x \in Power,
           SetPowerAndWait(g, p, x), UNCHANGED wire
    PROVE  RelayTypeOK'
BY SetPowerType, ConfirmType DEF SetPowerAndWait, wire, RelayTypeOK

LEMMA PublishType ==
    ASSUME RelayTypeOK, NEW p, NEW x \in Power,
           SetPower(p, x), UNCHANGED <<wire, confirmer, signal>>
    PROVE  RelayTypeOK'
BY SetPowerType DEF wire, RelayTypeOK

LEMMA RemoveType ==
    ASSUME RelayTypeOK, NEW g \in Procs, NEW p,
           RemovePowerConfirm(g, p), UNCHANGED <<wire, cmds>>
    PROVE  RelayTypeOK'
BY ConfirmType DEF wire, RelayTypeOK

LEMMA NoPowerType == ASSUME RelayTypeOK, UNCHANGED relayVars PROVE RelayTypeOK'
BY DEF relayVars, RelayTypeOK

(* The wire: what plugs do and what the dispatcher makes of it. *)
LEMMA WireType ==
    ASSUME RelayTypeOK, NEW p \in Plugs,
           \/ ApplyCommand(p) \/ PressButton(p) \/ LoseCommand(p)
           \/ DropConnection(p) \/ Reconnect(p) \/ Telemetry(p)
           \/ LoseLink \/ RegainLink \/ RestartDispatcher
    PROVE  RelayTypeOK'
<1>1. CASE ApplyCommand(p)
  <2>1. Head(cmds[p]) \in Power /\ Tail(cmds[p]) \in Seq(Power)
    BY <1>1, HeadTailProperties DEF ApplyCommand, RelayTypeOK
  <2> QED BY <1>1, <2>1, ReportType DEF ApplyCommand, RelayTypeOK
<1>2. CASE PressButton(p)
  <2>1. Opposite(relay[p]) \in Power
    BY DEF Opposite, Power
  <2> QED BY <1>2, <2>1, ReportType DEF PressButton, RelayTypeOK
<1>3. CASE LoseCommand(p)
  <2>1. Tail(cmds[p]) \in Seq(Power)
    BY <1>3, HeadTailProperties DEF LoseCommand, RelayTypeOK
  <2> QED BY <1>3, <2>1 DEF LoseCommand, RelayTypeOK
<1>4. CASE DropConnection(p)
  BY <1>4 DEF DropConnection, RelayTypeOK
<1>5. CASE Reconnect(p) \/ Telemetry(p)
  BY <1>5 DEF Reconnect, Telemetry, CacheState, RelayTypeOK
<1>6. CASE LoseLink \/ RegainLink \/ RestartDispatcher
  BY <1>6 DEF LoseLink, RegainLink, RestartDispatcher, RelayTypeOK
<1> QED BY <1>1, <1>2, <1>3, <1>4, <1>5, <1>6

----------------------------------------------------------------------------
(* Typing of the goroutines. *)

LEMMA EnterType ==
    ASSUME ProcTypeOK, NEW g \in Procs, NEW label \in Labels,
           NEW s \in Sessions \cup {NoSession}, NEW p \in Plugs \cup {NoPlug},
           Enter(g, label, s, p)
    PROVE  /\ pc' \in [Procs -> Labels]
           /\ sess' \in [Procs -> Sessions \cup {NoSession}]
           /\ plug' \in [Procs -> Plugs \cup {NoPlug}]
BY DEF ProcTypeOK, Enter

LEMMA ReturnType ==
    ASSUME ProcTypeOK, NEW g \in Procs, Return(g)
    PROVE  /\ pc' \in [Procs -> Labels]
           /\ sess' \in [Procs -> Sessions \cup {NoSession}]
           /\ plug' \in [Procs -> Plugs \cup {NoPlug}]
BY EnterType DEF Return, Labels

LEMMA GotoType ==
    ASSUME ProcTypeOK, NEW g \in Procs, NEW label \in Labels, Goto(g, label)
    PROVE  /\ pc' \in [Procs -> Labels]
           /\ sess' \in [Procs -> Sessions \cup {NoSession}]
           /\ plug' \in [Procs -> Plugs \cup {NoPlug}]
BY DEF ProcTypeOK, Goto

(* The operands of a goroutine that is under way. *)
LEMMA Operands ==
    ASSUME TypeOK, NEW g \in Procs
    PROVE  plug[g] \in Plugs \cup {NoPlug} /\ sess[g] \in Sessions \cup {NoSession}
BY DEF TypeOK, ProcTypeOK

LEMMA PlugOf ==
    ASSUME TypeOK, NEW s \in Sessions
    PROVE  /\ rows[s].plug \in Plugs \cup {NoPlug}
           /\ rows[s].full \in BOOLEAN /\ rows[s].hold \in BOOLEAN
BY DEF TypeOK, StoreTypeOK, Row

LEMMA WorkersAreProcs ==
    /\ Checker \in Procs /\ Poller \in Procs /\ Inbound \in Procs
    /\ Clients \subseteq Procs /\ Background \subseteq Procs /\ Requests \subseteq Procs
BY DEF Procs, Requests

(* One lemma per group of actions. *)

LEMMA StartTypes ==
    ASSUME TypeOK, NEW g \in Procs,
           \/ \E p \in Plugs : StartCheck(g, p)
           \/ StartCreate(g) \/ StartConfirmed(g) \/ StartTimeout(g)
           \/ StartCut(g) \/ StartOffDone(g)
    PROVE  TypeOK'
<1> USE DEF TypeOK
<1>0. "on" \in Power /\ "off" \in Power
  BY DEF Power
<1>1. CASE \E p \in Plugs : StartCheck(g, p)
  <2>1. PICK p \in Plugs : StartCheck(g, p)
    BY <1>1
  <2>2. "start_create" \in Labels
    BY DEF Labels
  <2>3. ProcTypeOK'
    BY <2>1, <2>2, EnterType, ReturnType DEF StartCheck, KeepRest, ProcTypeOK
  <2> QED BY <2>1, <2>3, NoPowerType DEF StartCheck, NoPowerIO, StoreTypeOK
<1>2. CASE StartCreate(g)
  <2>1. PICK s \in Unborn, v \in Vehicles, full \in Targets, hold \in Stages :
           Create(s, plug[g], v, full, hold) /\ Enter(g, "start_wait", s, plug[g])
    BY <1>2 DEF StartCreate
  <2>2. "start_wait" \in Labels /\ s \in Sessions
    BY DEF Labels, Unborn
  <2>3. StoreTypeOK'
    BY <2>1, CreateType, Operands, ModeAssumption
  <2>4. ProcTypeOK'
    BY <1>2, <2>1, <2>2, EnterType, Operands DEF StartCreate, KeepRest, ProcTypeOK
  <2> QED BY <1>0, <1>2, <2>3, <2>4, WaitType DEF StartCreate
<1>3. CASE StartConfirmed(g)
  <2>1. StoreTypeOK'
    BY <1>3, GuardedType DEF StartConfirmed
  <2>2. ProcTypeOK'
    BY <1>3, ReturnType DEF StartConfirmed, KeepRest, ProcTypeOK
  <2> QED BY <1>3, <2>1, <2>2, RemoveType DEF StartConfirmed
<1>4. CASE StartTimeout(g)
  <2>1. StoreTypeOK'
    BY <1>4, GuardedType DEF StartTimeout
  <2>2. "start_cut" \in Labels
    BY DEF Labels
  <2>3. ProcTypeOK'
    BY <1>4, <2>2, GotoType DEF StartTimeout, KeepRest, ProcTypeOK
  <2> QED BY <1>4, <2>1, <2>3, RemoveType DEF StartTimeout
<1>6. CASE StartCut(g)
  <2>1. "start_off" \in Labels
    BY DEF Labels
  <2>2. ProcTypeOK'
    BY <1>6, <2>1, GotoType DEF StartCut, KeepRest, ProcTypeOK
  <2> QED BY <1>0, <1>6, <2>2, WaitType DEF StartCut, StoreTypeOK
<1>5. CASE StartOffDone(g)
  <2>1. ProcTypeOK'
    BY <1>5, ReturnType DEF StartOffDone, KeepRest, ProcTypeOK
  <2> QED BY <1>5, <2>1, RemoveType DEF StartOffDone, StoreTypeOK
<1> QED BY <1>1, <1>2, <1>3, <1>4, <1>5, <1>6

LEMMA StopTypes ==
    ASSUME TypeOK, NEW g \in Procs,
           \/ \E s \in Sessions : StopRead(g, s) \/ PollDisconnected(g, s)
           \/ \E p \in Plugs : ConfirmOffline(g, p)
           \/ StopWrite(g) \/ StopPublish(g) \/ StopDone(g)
           \/ CancelWrite(g) \/ CutPower(g)
    PROVE  TypeOK'
<1> USE DEF TypeOK
<1>0. /\ "off" \in Power
      /\ {"cancel_write", "stop_write", "stop_publish", "stop_wait", "cut"} \subseteq Labels
  BY DEF Power, Labels
<1>1. CASE \E s \in Sessions : StopRead(g, s) \/ PollDisconnected(g, s)
  <2>1. PICK s \in Sessions : StopRead(g, s) \/ PollDisconnected(g, s)
    BY <1>1
  <2>2. StopLabel(Status(s)) \in Labels
    BY <1>0 DEF StopLabel
  <2>3. ProcTypeOK'
    BY <1>0, <2>1, <2>2, EnterType, PlugOf DEF StopRead, PollDisconnected, KeepRest, ProcTypeOK
  <2> QED BY <2>1, <2>3, NoPowerType DEF StopRead, PollDisconnected, NoPowerIO, StoreTypeOK
<1>2. CASE \E p \in Plugs : ConfirmOffline(g, p)
  <2>1. PICK p \in Plugs : ConfirmOffline(g, p)
    BY <1>2
  <2>2. \A s \in InProgressOn(p) : s \in Sessions
    BY DEF InProgressOn, ListActive
  <2>3. ProcTypeOK'
    BY <1>0, <2>1, <2>2, EnterType DEF ConfirmOffline, KeepRest, ProcTypeOK
  <2> QED BY <2>1, <2>3, NoPowerType DEF ConfirmOffline, NoPowerIO, StoreTypeOK
<1>3. CASE StopWrite(g)
  <2>1. StoreTypeOK'
    BY <1>3, SetStatusType, KnownStatuses DEF StopWrite, UpdateEndWithStats
  <2>2. ProcTypeOK'
    BY <1>0, <1>3, GotoType DEF StopWrite, KeepRest, ProcTypeOK
  <2> QED BY <1>3, <2>1, <2>2, NoPowerType DEF StopWrite, NoPowerIO
<1>4. CASE StopPublish(g)
  <2>1. ProcTypeOK'
    BY <1>0, <1>4, GotoType DEF StopPublish, KeepRest, ProcTypeOK
  <2> QED BY <1>0, <1>4, <2>1, WaitType DEF StopPublish, StoreTypeOK
<1>5. CASE StopDone(g)
  <2>1. ProcTypeOK'
    BY <1>5, ReturnType DEF StopDone, KeepRest, ProcTypeOK
  <2> QED BY <1>5, <2>1, RemoveType DEF StopDone, StoreTypeOK
<1>6. CASE CancelWrite(g)
  <2>1. StoreTypeOK'
    BY <1>6, SetStatusType, KnownStatuses DEF CancelWrite, UpdateCancelData
  <2>2. ProcTypeOK'
    BY <1>0, <1>6, GotoType DEF CancelWrite, KeepRest, ProcTypeOK
  <2> QED BY <1>6, <2>1, <2>2, NoPowerType DEF CancelWrite, NoPowerIO
<1>7. CASE CutPower(g)
  <2>1. ProcTypeOK'
    BY <1>7, ReturnType DEF CutPower, KeepRest, ProcTypeOK
  <2> QED BY <1>0, <1>7, <2>1, PublishType DEF CutPower, StoreTypeOK
<1> QED BY <1>1, <1>2, <1>3, <1>4, <1>5, <1>6, <1>7

LEMMA PollTypes ==
    ASSUME TypeOK, PollCut \/ \E s \in Sessions : PollTimeout(s) \/ PollActivate(s)
    PROVE  TypeOK'
<1> USE DEF TypeOK
<1>0. "off" \in Power /\ "poll_cut" \in Labels /\ Poller \in Procs
  BY WorkersAreProcs DEF Power, Labels
<1>1. ASSUME NEW s \in Sessions, PollTimeout(s) PROVE TypeOK'
  <2>1. ProcTypeOK'
    BY <1>0, <1>1, EnterType, PlugOf DEF PollTimeout, KeepRest, ProcTypeOK
  <2> QED BY <1>1, <2>1, GuardedType, NoPowerType DEF PollTimeout, NoPowerIO
<1>2. CASE PollCut
  <2>1. ProcTypeOK'
    BY <1>0, <1>2, ReturnType DEF PollCut, KeepRest, ProcTypeOK
  <2> QED BY <1>0, <1>2, <2>1, PublishType DEF PollCut, StoreTypeOK
<1>3. ASSUME NEW s \in Sessions, PollActivate(s) PROVE TypeOK'
  BY <1>3, GuardedType, NoPowerType DEF PollActivate, procVars, ProcTypeOK
<1> QED BY <1>1, <1>2, <1>3

LEMMA ManualTypes ==
    ASSUME TypeOK, NEW g \in Procs,
           \/ \E p \in Plugs : ManualOff(g, p) \/ ManualOn(g, p)
           \/ ManualResume(g)
    PROVE  TypeOK'
<1> USE DEF TypeOK
<1>0. {"stop_write", "cancel_write", "manual_resume", "start_check", "cut"} \subseteq Labels
  BY DEF Labels
<1>1. CASE \E p \in Plugs : ManualOff(g, p) \/ ManualOn(g, p)
  <2>1. PICK p \in Plugs : ManualOff(g, p) \/ ManualOn(g, p)
    BY <1>1
  <2>2. RelayTypeOK' /\ StoreTypeOK'
    BY <2>1 DEF ManualOff, ManualOn, RelayTypeOK, StoreTypeOK
  <2>3. \A s \in InProgressOn(p) : s \in Sessions /\ StopLabel(Status(s)) \in Labels
    BY <1>0 DEF InProgressOn, ListActive, StopLabel
  <2>4. \/ UNCHANGED <<pc, sess, plug>>
        \/ \E label \in Labels, s \in Sessions \cup {NoSession} : Enter(g, label, s, p)
    BY <1>0, <2>1, <2>3 DEF ManualOff, ManualOn
  <2>5. ProcTypeOK'
    BY <2>1, <2>4, EnterType DEF ManualOff, ManualOn, KeepRest, ProcTypeOK
  <2> QED BY <2>2, <2>5
<1>2. CASE ManualResume(g)
  <2>1. StoreTypeOK'
    BY <1>2, GuardedType DEF ManualResume
  <2>2. ProcTypeOK'
    BY <1>2, ReturnType DEF ManualResume, KeepRest, ProcTypeOK
  <2> QED BY <1>2, <2>1, <2>2, NoPowerType DEF ManualResume, NoPowerIO
<1> QED BY <1>1, <1>2

LEMMA ClientTypes ==
    ASSUME TypeOK, NEW g \in Procs,
           \/ HangUp(g) \/ DeleteWrite(g)
           \/ \E s \in Sessions : \/ DeleteRead(g, s)
                                  \/ \E full \in Targets : Retarget(s, full)
    PROVE  TypeOK'
<1> USE DEF TypeOK
<1>1. CASE HangUp(g)
  <2>1. ProcTypeOK'
    BY <1>1, ReturnType DEF HangUp, KeepRest, ProcTypeOK
  <2>2. RelayTypeOK'
    BY <1>1, ConfirmType DEF HangUp, wire, RelayTypeOK
  <2> QED BY <1>1, <2>1, <2>2 DEF HangUp, StoreTypeOK
<1>2. CASE DeleteWrite(g)
  <2>1. StoreTypeOK'
    BY <1>2, SetStatusType, KnownStatuses DEF DeleteWrite, Delete
  <2>2. ProcTypeOK'
    BY <1>2, ReturnType DEF DeleteWrite, KeepRest, ProcTypeOK
  <2> QED BY <1>2, <2>1, <2>2, NoPowerType DEF DeleteWrite, NoPowerIO
<1>3. CASE \E s \in Sessions : DeleteRead(g, s)
  <2>1. PICK s \in Sessions : DeleteRead(g, s)
    BY <1>3
  <2>2. "delete_write" \in Labels
    BY DEF Labels
  <2>3. ProcTypeOK'
    BY <2>1, <2>2, EnterType, PlugOf DEF DeleteRead, KeepRest, ProcTypeOK
  <2> QED BY <2>1, <2>3, NoPowerType DEF DeleteRead, NoPowerIO, StoreTypeOK
<1>4. CASE \E s \in Sessions, full \in Targets : Retarget(s, full)
  <2>1. PICK s \in Sessions, full \in Targets : Retarget(s, full)
    BY <1>4
  <2>2. full \in BOOLEAN
    BY ModeAssumption
  <2>3. StoreTypeOK'
    BY <2>1, <2>2 DEF Retarget, UpdateTarget, StoreTypeOK, Row
  <2> QED BY <2>1, <2>3, NoPowerType DEF Retarget, procVars, ProcTypeOK
<1> QED BY <1>1, <1>2, <1>3, <1>4

LEMMA CheckerTypes ==
    ASSUME TypeOK,
           \/ \E check \in Checks : CheckerList(check)
           \/ \E t \in todo : \/ CheckerSkip(t) \/ CheckerHold(t) \/ CheckerCondition(t)
                              \/ CheckerStop(t) \/ CheckerResume(t)
           \/ CheckerConfirmed \/ CheckerTimeout \/ CheckerWrite
    PROVE  TypeOK'
<1> USE DEF TypeOK
<1>0. /\ "on" \in Power /\ "off" \in Power
      /\ {"hold_wait", "hold_write", "condition_write", "stop_write",
          "resume_wait", "resume_write"} \subseteq Labels
      /\ Checker \in Procs
  BY WorkersAreProcs DEF Power, Labels
<1>1. CASE \E check \in Checks : CheckerList(check)
  <2>1. PICK check \in Checks : CheckerList(check)
    BY <1>1
  <2>2. \A s \in Sessions : [check |-> check, s |-> s, full |-> rows[s].full,
                             hold |-> rows[s].hold] \in Snapshot
    BY PlugOf DEF Snapshot
  <2>3. todo' \subseteq Snapshot
    BY <2>1, <2>2 DEF CheckerList
  <2> QED BY <2>1, <2>3, NoPowerType DEF CheckerList, ProcTypeOK, StoreTypeOK
<1>2. CASE \E t \in todo : \/ CheckerSkip(t) \/ CheckerHold(t) \/ CheckerCondition(t)
                           \/ CheckerStop(t) \/ CheckerResume(t)
  <2>1. PICK t \in todo : \/ CheckerSkip(t) \/ CheckerHold(t) \/ CheckerCondition(t)
                          \/ CheckerStop(t) \/ CheckerResume(t)
    BY <1>2
  <2>2. t.s \in Sessions /\ rows[t.s].plug \in Plugs \cup {NoPlug} /\ todo \subseteq Snapshot
    BY PlugOf DEF ProcTypeOK, Snapshot
  <2>3. \/ UNCHANGED <<pc, sess, plug>>
        \/ \E label \in Labels : Enter(Checker, label, t.s, rows[t.s].plug)
    BY <1>0, <2>1 DEF CheckerSkip, CheckerHold, CheckerCondition, CheckerStop, CheckerResume
  <2>4. todo' \subseteq Snapshot
    BY <2>1, <2>2 DEF CheckerSkip, CheckerHold, CheckerCondition, CheckerStop,
                      CheckerResume, Take
  <2>5. ProcTypeOK'
    BY <1>0, <2>1, <2>2, <2>3, <2>4, EnterType
    DEF CheckerSkip, CheckerHold, CheckerCondition, CheckerStop, CheckerResume, ProcTypeOK
  <2>6. RelayTypeOK'
    BY <1>0, <2>1, WaitType, NoPowerType
    DEF CheckerSkip, CheckerHold, CheckerCondition, CheckerStop, CheckerResume
  <2>7. StoreTypeOK'
    BY <2>1 DEF CheckerSkip, CheckerHold, CheckerCondition, CheckerStop, CheckerResume,
                StoreTypeOK
  <2> QED BY <2>5, <2>6, <2>7
<1>3. CASE CheckerConfirmed
  <2>1. ProcTypeOK'
    BY <1>0, <1>3, GotoType DEF CheckerConfirmed, KeepRest, ProcTypeOK
  <2> QED BY <1>0, <1>3, <2>1, RemoveType DEF CheckerConfirmed, StoreTypeOK
<1>4. CASE CheckerTimeout
  <2>1. ProcTypeOK'
    BY <1>0, <1>4, ReturnType DEF CheckerTimeout, KeepRest, ProcTypeOK
  <2> QED BY <1>0, <1>4, <2>1, RemoveType DEF CheckerTimeout, StoreTypeOK
<1>5. CASE CheckerWrite
  <2>1. StoreTypeOK'
    BY <1>5, SetStatusType, GuardedType, KnownStatuses DEF CheckerWrite, UpdateStatus
  <2>2. ProcTypeOK'
    BY <1>0, <1>5, ReturnType DEF CheckerWrite, KeepRest, ProcTypeOK
  <2> QED BY <1>5, <2>1, <2>2, NoPowerType DEF CheckerWrite, NoPowerIO
<1> QED BY <1>1, <1>2, <1>3, <1>4, <1>5

LEMMA InboundTypes ==
    ASSUME TypeOK,
           \/ \E p \in Plugs : \/ ReconcileRead(p) \/ SensorArrives(p) \/ Report(p)
                               \/ Lose(p) \/ ComeBack(p) \/ State(p)
                               \/ Press(p) \/ Drop(p)
           \/ SensorSave \/ Disconnect \/ Connect \/ Crash
    PROVE  TypeOK'
<1> USE DEF TypeOK
<1>0. {"cut", "sensor_lock", "idle"} \subseteq Labels /\ Inbound \in Procs
  BY WorkersAreProcs DEF Labels
<1>1. ASSUME NEW p \in Plugs, ReconcileRead(p) PROVE TypeOK'
  <2>1. ProcTypeOK'
    BY <1>0, <1>1, EnterType DEF ReconcileRead, KeepRest, ProcTypeOK
  <2> QED BY <1>1, <2>1 DEF ReconcileRead, RelayTypeOK, StoreTypeOK
<1>2. ASSUME NEW p \in Plugs, SensorArrives(p) PROVE TypeOK'
  <2>1. ProcTypeOK'
    BY <1>0, <1>2, EnterType DEF SensorArrives, KeepRest, ProcTypeOK
  <2> QED BY <1>2, <2>1, NoPowerType DEF SensorArrives, NoPowerIO, StoreTypeOK
<1>3. ASSUME NEW p \in Plugs, Report(p) \/ Lose(p) \/ ComeBack(p) \/ State(p)
      PROVE  TypeOK'
  BY <1>3, WireType DEF Report, Lose, ComeBack, State, procVars, ProcTypeOK, StoreTypeOK
<1>4. ASSUME NEW p \in Plugs, Press(p) \/ Drop(p) PROVE TypeOK'
  <2>1. budget' \in [presses: Nat, drops: Nat, outages: Nat, crashes: Nat]
    BY <1>4 DEF Press, Drop, Spend, ProcTypeOK
  <2> QED BY <1>4, <2>1, WireType DEF Press, Drop, ProcTypeOK, StoreTypeOK
<1>5. CASE SensorSave
  <2>1. ProcTypeOK'
    BY <1>0, <1>5, ReturnType DEF SensorSave, KeepRest, ProcTypeOK
  <2> QED BY <1>5, <2>1, NoPowerType DEF SensorSave, NoPowerIO, StoreTypeOK
<1>6. CASE Crash
  <2>1. budget' \in [presses: Nat, drops: Nat, outages: Nat, crashes: Nat]
    BY <1>6 DEF Crash, Spend, ProcTypeOK
  <2>2. RelayTypeOK'
    BY <1>6 DEF Crash, RestartDispatcher, RelayTypeOK
  <2> QED BY <1>0, <1>6, <2>1, <2>2 DEF Crash, ProcTypeOK, StoreTypeOK, Snapshot
<1>7. CASE Disconnect \/ Connect
  <2>1. RelayTypeOK'
    BY <1>7 DEF Disconnect, Connect, LoseLink, RegainLink, RelayTypeOK
  <2>2. budget' \in [presses: Nat, drops: Nat, outages: Nat, crashes: Nat]
    BY <1>7 DEF Disconnect, Connect, Spend, procVars, ProcTypeOK
  <2> QED BY <1>7, <2>1, <2>2 DEF Disconnect, Connect, procVars, ProcTypeOK, StoreTypeOK
<1> QED BY <1>1, <1>2, <1>3, <1>4, <1>5, <1>6, <1>7

LEMMA WaitOnType == ASSUME TypeOK, NEW g \in Procs, WaitOn(g) PROVE TypeOK'
<1>1. RelayTypeOK'
  BY ConfirmType DEF WaitOn, Rearm, TypeOK, RelayTypeOK, wire
<1> QED BY <1>1 DEF WaitOn, TypeOK, ProcTypeOK, procVars, StoreTypeOK

(***************************************************************************)
(* The steps of Next, sorted the way the lemmas are.                       *)
(***************************************************************************)
LEMMA NextCases ==
    ASSUME Next
    PROVE  \/ \E g \in Procs :
                 \/ \E p \in Plugs : StartCheck(g, p)
                 \/ StartCreate(g) \/ StartConfirmed(g) \/ StartTimeout(g)
                 \/ StartCut(g) \/ StartOffDone(g)
           \/ \E g \in Procs :
                 \/ \E s \in Sessions : StopRead(g, s) \/ PollDisconnected(g, s)
                 \/ \E p \in Plugs : ConfirmOffline(g, p)
                 \/ StopWrite(g) \/ StopPublish(g) \/ StopDone(g)
                 \/ CancelWrite(g) \/ CutPower(g)
           \/ PollCut \/ \E s \in Sessions : PollTimeout(s) \/ PollActivate(s)
           \/ \E g \in Procs : \/ \E p \in Plugs : ManualOff(g, p) \/ ManualOn(g, p)
                               \/ ManualResume(g)
           \/ \E g \in Procs :
                 \/ HangUp(g) \/ DeleteWrite(g)
                 \/ \E s \in Sessions : \/ DeleteRead(g, s)
                                        \/ \E full \in Targets : Retarget(s, full)
           \/ \/ \E check \in Checks : CheckerList(check)
              \/ \E t \in todo : \/ CheckerSkip(t) \/ CheckerHold(t) \/ CheckerCondition(t)
                                 \/ CheckerStop(t) \/ CheckerResume(t)
              \/ CheckerConfirmed \/ CheckerTimeout \/ CheckerWrite
           \/ \/ \E p \in Plugs : \/ ReconcileRead(p) \/ SensorArrives(p) \/ Report(p)
                                  \/ Lose(p) \/ ComeBack(p) \/ State(p)
                                  \/ Press(p) \/ Drop(p)
              \/ SensorSave \/ Disconnect \/ Connect \/ Crash
           \/ \E g \in Procs : WaitOn(g)
<1>1. CASE Begin
  BY <1>1, WorkersAreProcs DEF Begin
<1>2. CASE Step
  BY <1>2 DEF Step, LockedStep, FreeStep
<1>3. CASE Poll \/ Wire \/ Fault
  BY <1>3, WorkersAreProcs DEF Poll, Wire, Fault
<1> QED BY <1>1, <1>2, <1>3 DEF Next

LEMMA TypeStep == ASSUME TypeOK, [Next]_vars PROVE TypeOK'
<1>1. CASE Next
  BY <1>1, NextCases, StartTypes, StopTypes, PollTypes, ManualTypes, ClientTypes,
     CheckerTypes, InboundTypes, WaitOnType
<1>2. CASE UNCHANGED vars
  BY <1>2 DEF vars, relayVars, procVars, TypeOK, StoreTypeOK, RelayTypeOK, ProcTypeOK
<1> QED BY <1>1, <1>2

LEMMA TypeInit == ASSUME Init PROVE TypeOK
<1>1. StoreTypeOK
  BY DEF Init, StoreInit, NoRow, StoreTypeOK, Row, Statuses
<1>2. RelayTypeOK
  BY DEF Init, RelayInit, RelayTypeOK, Power
<1>3. ProcTypeOK
  BY ModeAssumption DEF Init, ProcTypeOK, Labels
<1> QED BY <1>1, <1>2, <1>3 DEF TypeOK

(***************************************************************************)
(* In every mode, whatever interleaves and fails, the rows, the commands,  *)
(* the confirmers and the goroutines stay within what the code knows.      *)
(***************************************************************************)
THEOREM TypeCorrect == Spec => []TypeOK
<1>1. Init => TypeOK
  BY TypeInit
<1>2. TypeOK /\ [Next]_vars => TypeOK'
  BY TypeStep
<1> QED BY <1>1, <1>2, PTL DEF Spec

----------------------------------------------------------------------------
(* Births: in every mode a row is inserted on a free plug.  A write that    *)
(* puts a session in progress, or back in progress, needs the lock, and a   *)
(* start has it from its check to its insert.                               *)

BirthInv == LockHeld /\ StillFree

NoBirth == \A s \in Sessions : rows[s].status = "unborn" => rows'[s].status = "unborn"

(* A step after which no session is in progress that was not before. *)
NothingBegins ==
    /\ NoBirth
    /\ \A s \in Sessions : rows'[s].status \in InProgress =>
          rows[s].status \in InProgress /\ rows'[s].plug = rows[s].plug

(* A step that takes no holder of the lock further and leaves the lock      *)
(* where it is.                                                             *)
NoStartMoves ==
    /\ lock' = lock
    /\ \A g \in Procs : pc'[g] \in HolderLabels => pc'[g] = pc[g] /\ plug'[g] = plug[g]

LEMMA FreePlugsStayFree ==
    ASSUME NothingBegins, NEW p, InProgressOn(p) = {}
    PROVE  \A s \in ListActive' : rows'[s].plug # p
BY DEF NothingBegins, InProgressOn, ListActive, Status

LEMMA BirthKept ==
    ASSUME BirthInv, NothingBegins, NoStartMoves
    PROVE  BirthInv'
<1>1. LockHeld'
  BY DEF BirthInv, LockHeld, NoStartMoves
<1>2. StillFree'
  <2> SUFFICES ASSUME NEW g \in Procs, pc'[g] = "start_create"
               PROVE  plug'[g] \in Plugs /\ \A s \in ListActive' : rows'[s].plug # plug'[g]
    BY DEF StillFree, At, InProgressOn
  <2>1. At(g, "start_create") /\ plug'[g] = plug[g]
    BY DEF NoStartMoves, HolderLabels, At
  <2> QED BY <2>1, FreePlugsStayFree DEF BirthInv, StillFree
<1> QED BY <1>1, <1>2 DEF BirthInv

(* The statements. *)

LEMMA UnchangedBegins ==
    ASSUME \A s \in Sessions : rows'[s] = rows[s]
    PROVE  NothingBegins
BY DEF NothingBegins, NoBirth

LEMMA StatusBegins ==
    ASSUME StoreTypeOK, NEW r, NEW st, rows' = [rows EXCEPT ![r].status = st],
           rows[r].status # "unborn",
           st \in InProgress => rows[r].status \in InProgress
    PROVE  NothingBegins
<1>1. \A s \in Sessions : s # r => rows'[s] = rows[s]
  BY DEF StoreTypeOK
<1>2. r \in Sessions => rows'[r].status = st /\ rows'[r].plug = rows[r].plug
  BY DEF StoreTypeOK, Row
<1> QED BY <1>1, <1>2 DEF NothingBegins, NoBirth

LEMMA EndsBegin ==
    ASSUME StoreTypeOK, NEW r, NEW st \in {"completed", "cancelled", "deleted"},
           SetStatus(r, st)
    PROVE  NothingBegins
<1>1. CASE ~Exists(r)
  BY <1>1, UnchangedBegins DEF SetStatus
<1>2. CASE Exists(r)
  <2>1. rows[r].status # "unborn" /\ st \notin InProgress
    BY <1>2 DEF Exists, Status, InProgress, Ended
  <2> QED BY <1>2, <2>1, StatusBegins DEF SetStatus
<1> QED BY <1>1, <1>2

LEMMA GuardsBegin ==
    ASSUME StoreTypeOK, NEW r,
           ActivatePending(r) \/ CancelPending(r) \/ ResumeHolding(r)
    PROVE  NothingBegins
<1>1. CASE ActivatePending(r)
  BY <1>1, UnchangedBegins, StatusBegins DEF ActivatePending, Status, InProgress
<1>2. CASE CancelPending(r)
  BY <1>2, UnchangedBegins, StatusBegins DEF CancelPending, Status, InProgress
<1>3. CASE ResumeHolding(r)
  <2>1. CASE rows[r].status # "holding"
    BY <1>3, <2>1, UnchangedBegins DEF ResumeHolding, Status
  <2>2. CASE rows[r].status = "holding"
    <3>1. \A s \in Sessions : s # r => rows'[s] = rows[s]
      BY <1>3, <2>2 DEF ResumeHolding, Status, StoreTypeOK
    <3>2. r \in Sessions => rows'[r].plug = rows[r].plug
      BY <1>3, <2>2 DEF ResumeHolding, Status, StoreTypeOK, Row
    <3> QED BY <2>2, <3>1, <3>2 DEF NothingBegins, NoBirth, InProgress
  <2> QED BY <2>1, <2>2
<1> QED BY <1>1, <1>2, <1>3

(* Going anywhere but into a start. *)
LEMMA ElsewhereStays ==
    ASSUME ProcTypeOK, lock' = lock, NEW g \in Procs, NEW label, label \notin HolderLabels,
           Goto(g, label) \/ \E s, p : Enter(g, label, s, p)
    PROVE  NoStartMoves
<1>1. pc' = [pc EXCEPT ![g] = label]
  BY DEF Goto, Enter
<1>2. \A h \in Procs : h # g => pc'[h] = pc[h] /\ plug'[h] = plug[h]
  BY DEF Goto, Enter, ProcTypeOK
<1>3. pc'[g] = label
  BY <1>1 DEF ProcTypeOK
<1> QED BY <1>2, <1>3 DEF NoStartMoves

(* Every action but those of a start, the checker's write and a crash. *)

LEMMA StopBirth ==
    ASSUME TypeOK, NEW g \in Procs,
           \/ \E s \in Sessions : StopRead(g, s) \/ PollDisconnected(g, s)
           \/ \E p \in Plugs : ConfirmOffline(g, p)
           \/ StopWrite(g) \/ StopPublish(g) \/ StopDone(g)
           \/ CancelWrite(g) \/ CutPower(g)
    PROVE  NothingBegins /\ NoStartMoves
<1> USE DEF TypeOK
<1>1. NothingBegins
  BY UnchangedBegins, EndsBegin
  DEF StopRead, PollDisconnected, ConfirmOffline, StopWrite, StopPublish, StopDone,
      CancelWrite, CutPower, UpdateEndWithStats, UpdateCancelData
<1>2. \E label \in {"cancel_write", "stop_write", "stop_publish", "stop_wait", "cut", "idle"} :
          Goto(g, label) \/ \E s, p : Enter(g, label, s, p)
  BY DEF StopRead, PollDisconnected, ConfirmOffline, StopWrite, StopPublish, StopDone,
      CancelWrite, CutPower, StopLabel, Return
<1>3. lock' = lock
  BY DEF StopRead, PollDisconnected, ConfirmOffline, StopWrite, StopPublish, StopDone,
      CancelWrite, CutPower
<1> QED BY <1>1, <1>2, <1>3, ElsewhereStays DEF HolderLabels

LEMMA PollBirth ==
    ASSUME TypeOK, NEW s \in Sessions, PollActivate(s)
    PROVE  NothingBegins /\ NoStartMoves
BY GuardsBegin DEF TypeOK, PollActivate, procVars, NoStartMoves

LEMMA ManualBirth ==
    ASSUME TypeOK, NEW g \in Procs,
           \/ \E p \in Plugs : ManualOff(g, p) \/ ManualOn(g, p)
           \/ ManualResume(g)
    PROVE  NothingBegins /\ NoStartMoves
<1> USE DEF TypeOK
<1>1. NothingBegins
  BY UnchangedBegins, GuardsBegin DEF ManualOff, ManualOn, ManualResume
<1>2. \/ UNCHANGED <<pc, plug>>
      \/ \E label \in {"cancel_write", "stop_write", "manual_resume", "start_check", "cut",
                       "idle"} :
             \E s, p : Enter(g, label, s, p)
  BY DEF ManualOff, ManualOn, ManualResume, StopLabel, Return
<1>3. lock' = lock
  BY DEF ManualOff, ManualOn, ManualResume
<1>4. NoStartMoves
  BY <1>2, <1>3, ElsewhereStays DEF NoStartMoves, HolderLabels
<1> QED BY <1>1, <1>4

LEMMA ClientBirth ==
    ASSUME TypeOK, NEW g \in Procs,
           \/ DeleteWrite(g)
           \/ \E s \in Sessions : \/ DeleteRead(g, s)
                                  \/ \E full \in Targets : Retarget(s, full)
    PROVE  NothingBegins /\ NoStartMoves
<1> USE DEF TypeOK
<1>1. CASE DeleteWrite(g)
  <2>1. NothingBegins
    BY <1>1, EndsBegin DEF DeleteWrite, Delete
  <2> QED BY <1>1, <2>1, ElsewhereStays DEF DeleteWrite, Return, HolderLabels
<1>2. CASE \E s \in Sessions : DeleteRead(g, s)
  <2>1. NothingBegins
    BY <1>2, UnchangedBegins DEF DeleteRead
  <2> QED BY <1>2, <2>1, ElsewhereStays DEF DeleteRead, HolderLabels
<1>3. ASSUME NEW s \in Sessions, NEW full \in Targets, Retarget(s, full)
      PROVE NothingBegins /\ NoStartMoves
  <2>1. \A t \in Sessions : rows'[t].status = rows[t].status /\ rows'[t].plug = rows[t].plug
    BY <1>3 DEF Retarget, UpdateTarget, StoreTypeOK, Row
  <2> QED BY <1>3, <2>1 DEF NothingBegins, NoBirth, NoStartMoves, Retarget, procVars
<1> QED BY <1>1, <1>2, <1>3

LEMMA CheckerBirth ==
    ASSUME TypeOK,
           \/ \E check \in Checks : CheckerList(check)
           \/ \E t \in todo : \/ CheckerSkip(t) \/ CheckerHold(t) \/ CheckerCondition(t)
                              \/ CheckerStop(t) \/ CheckerResume(t)
           \/ CheckerConfirmed \/ CheckerTimeout
    PROVE  NothingBegins /\ NoStartMoves
<1> USE DEF TypeOK
<1>1. rows' = rows /\ lock' = lock
  BY DEF CheckerList, CheckerSkip, CheckerHold, CheckerCondition, CheckerStop, CheckerResume,
         CheckerConfirmed, CheckerTimeout
<1>2. \/ UNCHANGED <<pc, plug>>
      \/ \E label \in {"hold_wait", "condition_write", "stop_write", "resume_wait",
                       "hold_write", "resume_write", "idle"} :
             Goto(Checker, label) \/ \E s, p : Enter(Checker, label, s, p)
  BY DEF CheckerList, CheckerSkip, CheckerHold, CheckerCondition, CheckerStop, CheckerResume,
         CheckerConfirmed, CheckerTimeout, Return
<1>3. NoStartMoves
  BY <1>1, <1>2, ElsewhereStays, WorkersAreProcs DEF NoStartMoves, HolderLabels
<1> QED BY <1>1, <1>3, UnchangedBegins

LEMMA InboundBirth ==
    ASSUME TypeOK,
           \/ \E p \in Plugs : \/ ReconcileRead(p) \/ SensorArrives(p) \/ Report(p)
                               \/ Lose(p) \/ ComeBack(p) \/ State(p)
                               \/ Press(p) \/ Drop(p)
           \/ SensorSave \/ Disconnect \/ Connect
           \/ \E g \in Procs : WaitOn(g)
    PROVE  NothingBegins /\ NoStartMoves
<1> USE DEF TypeOK
<1>1. rows' = rows /\ lock' = lock
  BY DEF ReconcileRead, SensorArrives, Report, Lose, ComeBack, State, Press, Drop,
         Disconnect, Connect, SensorSave,
         WaitOn, procVars
<1>2. \/ UNCHANGED <<pc, plug>>
      \/ \E label \in {"cut", "sensor_lock", "idle"} :
             \E s, p : Enter(Inbound, label, s, p)
  BY DEF ReconcileRead, SensorArrives, Report, Lose, ComeBack, State, Press, Drop,
         Disconnect, Connect, SensorSave,
         WaitOn, procVars, Return
<1>3. NoStartMoves
  BY <1>1, <1>2, ElsewhereStays, WorkersAreProcs DEF NoStartMoves, HolderLabels
<1> QED BY <1>1, <1>3, UnchangedBegins

(* Nobody is in a start when the lock is free: the checker may revive what  *)
(* it wants, it comes between no check and its insert.                      *)
LEMMA CheckerWriteBirth ==
    ASSUME TypeOK, BirthInv, CheckerWrite
    PROVE  NoBirth /\ BirthInv'
<1> USE DEF TypeOK
<1>1. NoBirth
  <2>1. CASE ResumeHolding(sess[Checker])
    BY <2>1, GuardsBegin DEF NothingBegins
  <2>2. ASSUME NEW st \in {"holding", "conditioning"}, UpdateStatus(sess[Checker], st)
        PROVE NoBirth
    <3>1. \A s \in Sessions : s # sess[Checker] \/ ~Exists(s) => rows'[s] = rows[s]
      BY <2>2 DEF UpdateStatus, SetStatus, StoreTypeOK
    <3> QED BY <3>1 DEF NoBirth, Exists, Status, InProgress, Ended
  <2> QED BY <2>1, <2>2 DEF CheckerWrite
<1>2. \A g \in Procs : pc[g] \notin HolderLabels
  BY DomainAssumption DEF CheckerWrite, Free, BirthInv, LockHeld
<1>3. NoStartMoves
  BY ElsewhereStays, WorkersAreProcs DEF CheckerWrite, Return, HolderLabels
<1>4. \A g \in Procs : pc'[g] \notin HolderLabels
  BY <1>2, <1>3 DEF NoStartMoves
<1> QED BY <1>1, <1>4 DEF BirthInv, LockHeld, StillFree, At, HolderLabels

(* The steps of a start, and of the poller with the lock. *)
LEMMA StartBirth ==
    ASSUME TypeOK, BirthInv, NEW g \in Procs,
           \/ \E p \in Plugs : StartCheck(g, p)
           \/ StartConfirmed(g) \/ StartTimeout(g)
           \/ StartCut(g) \/ StartOffDone(g) \/ HangUp(g)
           \/ g = Poller /\ (PollCut \/ \E s \in Sessions : PollTimeout(s))
    PROVE  NothingBegins /\ BirthInv'
<1> USE DEF TypeOK
<1>1. NothingBegins
  BY UnchangedBegins, GuardsBegin
  DEF StartCheck, StartConfirmed, StartTimeout, StartCut, StartOffDone, HangUp, PollTimeout,
      PollCut
<1>2. ASSUME NEW h \in Procs, h # g
      PROVE  pc'[h] = pc[h] /\ plug'[h] = plug[h]
  BY <1>2 DEF StartCheck, StartConfirmed, StartTimeout, StartCut, StartOffDone, HangUp,
     PollTimeout, PollCut,
              Enter, Goto, Return, ProcTypeOK
<1>3. \/ lock' = lock /\ pc'[g] \notin HolderLabels
      \/ lock = g /\ lock' = NoProc /\ pc'[g] \notin HolderLabels
      \/ lock \in {g, NoProc} /\ lock' = g
  <2>1. CASE \E p \in Plugs : StartCheck(g, p)
    BY <2>1 DEF StartCheck, Free, Enter, Return, ProcTypeOK, HolderLabels
  <2>2. CASE StartConfirmed(g)
    BY <2>2 DEF StartConfirmed, At, Return, Enter, ProcTypeOK, HolderLabels, BirthInv, LockHeld
  <2>3. CASE StartTimeout(g)
    BY <2>3 DEF StartTimeout, At, Goto, ProcTypeOK, HolderLabels, BirthInv, LockHeld
  <2>4. CASE StartOffDone(g)
    BY <2>4 DEF StartOffDone, At, Return, Enter, ProcTypeOK, HolderLabels, BirthInv, LockHeld
  <2>5. CASE HangUp(g)
    BY <2>5 DEF HangUp, Return, Enter, ProcTypeOK, HolderLabels
  <2>6. CASE StartCut(g)
    BY <2>6 DEF StartCut, At, Goto, ProcTypeOK, HolderLabels, BirthInv, LockHeld
  <2>7. CASE g = Poller /\ \E s \in Sessions : PollTimeout(s)
    BY <2>7 DEF PollTimeout, Free
  <2>8. CASE g = Poller /\ PollCut
    BY <2>8 DEF PollCut, At, Return, Enter, ProcTypeOK, HolderLabels, BirthInv, LockHeld
  <2> QED BY <2>1, <2>2, <2>3, <2>4, <2>5, <2>6, <2>7, <2>8
<1>4. LockHeld'
  <2> SUFFICES ASSUME NEW h \in Procs, pc'[h] \in HolderLabels PROVE lock' = h
    BY DEF LockHeld
  <2>1. CASE h = g
    BY <1>3, <2>1
  <2>2. CASE h # g
    <3>1. lock = h
      BY <1>2, <2>2 DEF BirthInv, LockHeld
    <3> QED BY <1>3, <2>2, <3>1, DomainAssumption
  <2> QED BY <2>1, <2>2
<1>5. pc'[g] = "start_create" => plug'[g] \in Plugs /\ InProgressOn(plug'[g]) = {}
  BY DEF StartCheck, StartConfirmed, StartTimeout, StartCut, StartOffDone, HangUp,
         PollTimeout, PollCut,
         Enter, Goto, Return, ProcTypeOK
<1>6. StillFree'
  <2> SUFFICES ASSUME NEW h \in Procs, pc'[h] = "start_create"
               PROVE  plug'[h] \in Plugs /\ \A s \in ListActive' : rows'[s].plug # plug'[h]
    BY DEF StillFree, At, InProgressOn
  <2>1. plug'[h] \in Plugs /\ InProgressOn(plug'[h]) = {}
    <3>1. CASE h = g
      BY <1>5, <3>1
    <3>2. CASE h # g
      BY <1>2, <3>2 DEF BirthInv, StillFree, At
    <3> QED BY <3>1, <3>2
  <2> QED BY <1>1, <2>1, FreePlugsStayFree
<1> QED BY <1>1, <1>4, <1>6 DEF BirthInv

LEMMA CrashBirth == ASSUME Crash PROVE NothingBegins /\ BirthInv'
<1>1. NothingBegins
  BY UnchangedBegins DEF Crash
<1>2. BirthInv'
  BY DEF Crash, BirthInv, LockHeld, StillFree, At, HolderLabels
<1> QED BY <1>1, <1>2

(* The insert itself: its plug is the one that was checked. *)
LEMMA CreateBirth ==
    ASSUME TypeOK, BirthInv, NEW g \in Procs, StartCreate(g)
    PROVE  /\ BirthInv'
           /\ \E s \in Sessions : /\ \A t \in Sessions \ {s} : rows'[t] = rows[t]
                                  /\ InProgressOn(rows'[s].plug) = {}
<1> USE DEF TypeOK
<1>1. PICK s \in Sessions, v \in Vehicles, full \in Targets, hold \in Stages :
         Create(s, plug[g], v, full, hold) /\ Enter(g, "start_wait", s, plug[g])
  BY DEF StartCreate, Unborn
<1>2. InProgressOn(plug[g]) = {} /\ lock = g
  BY DEF StartCreate, At, BirthInv, StillFree, LockHeld, HolderLabels
<1>3. rows'[s].plug = plug[g] /\ \A t \in Sessions \ {s} : rows'[t] = rows[t]
  BY <1>1 DEF Create, StoreTypeOK
<1>4. /\ lock' = lock /\ pc'[g] = "start_wait"
      /\ \A h \in Procs : h # g => pc'[h] = pc[h]
  BY <1>1 DEF StartCreate, Enter, ProcTypeOK
<1>5. LockHeld'
  BY <1>2, <1>4 DEF BirthInv, LockHeld
<1>6. \A h \in Procs : pc'[h] # "start_create"
  BY <1>2, <1>4 DEF BirthInv, LockHeld, HolderLabels
<1> QED BY <1>2, <1>3, <1>5, <1>6 DEF BirthInv, StillFree, At

LEMMA BirthStep ==
    ASSUME TypeOK, BirthInv, [Next]_vars
    PROVE  BirthInv' /\ (NoBirth \/ \E g \in Procs : StartCreate(g))
<1>1. CASE Next
  BY <1>1, NextCases, WorkersAreProcs, StartBirth, CreateBirth, StopBirth, PollBirth,
     ManualBirth, ClientBirth,
     CheckerBirth, CheckerWriteBirth, InboundBirth, CrashBirth, BirthKept DEF NothingBegins
<1>2. CASE UNCHANGED vars
  <2>1. NothingBegins /\ NoStartMoves
    BY <1>2, UnchangedBegins DEF vars, procVars, NoStartMoves
  <2> QED BY <2>1, BirthKept DEF NothingBegins
<1> QED BY <1>1, <1>2

(***************************************************************************)
(* In every mode, whatever the checker revives from an old listing and     *)
(* whichever client hangs up: a session is born on a plug that has none in *)
(* progress at that moment.                                                *)
(***************************************************************************)
THEOREM BirthsAreOnFreePlugs == Spec => BornOnFreePlug
<1>1. Init => BirthInv
  BY DEF Init, BirthInv, LockHeld, StillFree, At, HolderLabels
<1>2. TypeOK /\ BirthInv /\ [Next]_vars => BirthInv'
  BY BirthStep
<1>3. TypeOK /\ BirthInv /\ [Next]_vars =>
         [\A s \in Sessions :
             (Status(s) = "unborn" /\ Status(s)' # "unborn")
                => \A t \in ListActive : rows[t].plug # rows[s]'.plug]_vars
  <2> SUFFICES ASSUME TypeOK, BirthInv, [Next]_vars, NEW s \in Sessions,
                      Status(s) = "unborn", Status(s)' # "unborn"
               PROVE  \A t \in ListActive : rows[t].plug # rows[s]'.plug
    OBVIOUS
  <2>1. PICK g \in Procs : StartCreate(g)
    BY BirthStep DEF NoBirth, Status
  <2>2. PICK r \in Sessions : /\ \A t \in Sessions \ {r} : rows'[t] = rows[t]
                              /\ InProgressOn(rows'[r].plug) = {}
    BY <2>1, CreateBirth
  <2>3. r = s
    BY <2>2 DEF Status
  <2> QED BY <2>2, <2>3 DEF InProgressOn
<1> QED BY <1>1, <1>2, <1>3, TypeCorrect, PTL DEF Spec, BornOnFreePlug

----------------------------------------------------------------------------
(* Holds: in every mode the checker puts a session on hold only if it still *)
(* has its hold point.  From the listing to the write nobody else can hold  *)
(* or resume the session, and the checker takes each listed row once.       *)

HoldLabels == {"hold_wait", "hold_write"}

Ready(s) == rows[s].hold /\ rows[s].status \notin {"unborn", "holding"}

HoldInv ==
    /\ \A t \in todo : t.check = "reaching" /\ t.hold => Ready(t.s)
    /\ \A t, u \in todo : t.s = u.s => t = u
    /\ pc[Checker] \in HoldLabels =>
          /\ sess[Checker] \in Sessions /\ Ready(sess[Checker])
          /\ \A t \in todo : t.s # sess[Checker]

(* A step of the table that puts nobody on hold and keeps who is ready. *)
NoHold ==
    \A s \in Sessions : /\ Ready(s) => Ready(s)'
                        /\ rows'[s].status = "holding" => rows[s].status = "holding"

LEMMA UnchangedHolds ==
    ASSUME \A s \in Sessions : rows'[s] = rows[s]
    PROVE  NoHold
BY DEF NoHold, Ready

LEMMA StatusHolds ==
    ASSUME StoreTypeOK, NEW r, NEW st, st \notin {"unborn", "holding"},
           rows' = [rows EXCEPT ![r].status = st]
    PROVE  NoHold
<1>1. \A s \in Sessions : s # r => rows'[s] = rows[s]
  BY DEF StoreTypeOK
<1>2. r \in Sessions => rows'[r].status = st /\ rows'[r].hold = rows[r].hold
  BY DEF StoreTypeOK, Row
<1> QED BY <1>1, <1>2 DEF NoHold, Ready

LEMMA SetStatusHolds ==
    ASSUME StoreTypeOK, NEW r, NEW st, st \notin {"unborn", "holding"}, SetStatus(r, st)
    PROVE  NoHold
BY UnchangedHolds, StatusHolds DEF SetStatus

LEMMA GuardsHold ==
    ASSUME StoreTypeOK, NEW r,
           ActivatePending(r) \/ CancelPending(r) \/ ResumeHolding(r)
    PROVE  NoHold
<1>1. CASE ActivatePending(r) \/ CancelPending(r)
  BY <1>1, UnchangedHolds, StatusHolds DEF ActivatePending, CancelPending
<1>2. CASE ResumeHolding(r)
  <2>1. CASE rows[r].status # "holding"
    BY <1>2, <2>1, UnchangedHolds DEF ResumeHolding, Status
  <2>2. CASE rows[r].status = "holding"
    <3>1. \A s \in Sessions : s # r => rows'[s] = rows[s]
      BY <1>2, <2>2 DEF ResumeHolding, Status, StoreTypeOK
    <3>2. ~Ready(r)
      BY <2>2 DEF Ready
    <3> QED BY <2>2, <3>1, <3>2 DEF NoHold, Ready
  <2> QED BY <2>1, <2>2
<1> QED BY <1>1, <1>2

(* Every step but the checker's own decisions. *)
LEMMA HoldKept ==
    ASSUME TypeOK, HoldInv, NoHold, todo' \subseteq todo,
           \/ pc'[Checker] \notin HoldLabels
           \/ /\ pc'[Checker] \in HoldLabels => pc[Checker] \in HoldLabels
              /\ sess'[Checker] = sess[Checker]
    PROVE  HoldInv'
<1>1. \A t \in todo : t.s \in Sessions
  BY DEF TypeOK, ProcTypeOK, Snapshot
<1> QED BY <1>1 DEF HoldInv, NoHold, Ready

(* The groups of actions. *)

LEMMA OthersHold ==
    ASSUME TypeOK, NEW g \in Procs,
           \/ \E p \in Plugs : StartCheck(g, p)
           \/ StartConfirmed(g) \/ StartTimeout(g) \/ StartCut(g) \/ StartOffDone(g)
           \/ \E s \in Sessions : StopRead(g, s) \/ PollDisconnected(g, s)
           \/ \E p \in Plugs : ConfirmOffline(g, p)
           \/ StopWrite(g) \/ StopPublish(g) \/ StopDone(g)
           \/ CancelWrite(g) \/ CutPower(g)
           \/ \E p \in Plugs : ManualOff(g, p) \/ ManualOn(g, p)
           \/ ManualResume(g) \/ HangUp(g) \/ DeleteWrite(g)
           \/ \E s \in Sessions : DeleteRead(g, s)
    PROVE  NoHold
<1> USE DEF TypeOK
<1>1. CASE \/ StopWrite(g) \/ CancelWrite(g) \/ DeleteWrite(g)
  BY <1>1, SetStatusHolds
  DEF StopWrite, CancelWrite, DeleteWrite, UpdateEndWithStats, UpdateCancelData, Delete
<1>2. CASE StartConfirmed(g) \/ StartTimeout(g) \/ ManualResume(g)
  BY <1>2, GuardsHold DEF StartConfirmed, StartTimeout, ManualResume
<1>3. CASE rows' = rows
  BY <1>3, UnchangedHolds
<1> QED BY <1>1, <1>2, <1>3
  DEF StartCheck, StartCut, StartOffDone, StopRead, PollDisconnected, ConfirmOffline,
      StopPublish,
      StopDone, CutPower, ManualOff, ManualOn, HangUp, DeleteRead

LEMMA OthersStayAway ==
    ASSUME TypeOK, NEW g \in Procs,
           \/ \E p \in Plugs : StartCheck(g, p)
           \/ StartCreate(g) \/ StartConfirmed(g) \/ StartTimeout(g)
           \/ StartCut(g) \/ StartOffDone(g)
           \/ \E s \in Sessions : StopRead(g, s) \/ PollDisconnected(g, s)
           \/ \E p \in Plugs : ConfirmOffline(g, p)
           \/ StopWrite(g) \/ StopPublish(g) \/ StopDone(g)
           \/ CancelWrite(g) \/ CutPower(g)
           \/ \E p \in Plugs : ManualOff(g, p) \/ ManualOn(g, p)
           \/ ManualResume(g) \/ HangUp(g) \/ DeleteWrite(g)
           \/ \E s \in Sessions : DeleteRead(g, s)
    PROVE  /\ todo' = todo
           /\ \/ pc'[Checker] \notin HoldLabels
              \/ pc'[Checker] = pc[Checker] /\ sess'[Checker] = sess[Checker]
<1> USE DEF TypeOK
<1>1. todo' = todo
  BY DEF StartCheck, StartCreate, StartConfirmed, StartTimeout, StartCut, StartOffDone,
         StopRead,
      PollDisconnected, ConfirmOffline, StopWrite, StopPublish, StopDone, CancelWrite, CutPower,
      ManualOff, ManualOn, ManualResume, HangUp, DeleteWrite, DeleteRead, KeepRest
<1>2. \/ UNCHANGED <<pc, sess>>
      \/ \E label \in Labels \ HoldLabels :
             Goto(g, label) \/ \E s, p : Enter(g, label, s, p)
  BY DEF StartCheck, StartCreate, StartConfirmed, StartTimeout, StartCut, StartOffDone,
         StopRead,
      PollDisconnected, ConfirmOffline, StopWrite, StopPublish, StopDone, CancelWrite, CutPower,
      ManualOff, ManualOn, ManualResume, HangUp, DeleteWrite, DeleteRead, StopLabel, Return,
      Labels, HoldLabels
<1>3. ASSUME NEW label \in Labels \ HoldLabels,
             Goto(g, label) \/ \E s, p : Enter(g, label, s, p)
      PROVE  \/ pc'[Checker] \notin HoldLabels
             \/ pc'[Checker] = pc[Checker] /\ sess'[Checker] = sess[Checker]
  BY <1>3, WorkersAreProcs DEF Goto, Enter, ProcTypeOK
<1> QED BY <1>1, <1>2, <1>3

(* A row is inserted without being on hold. *)
LEMMA CreateHolds ==
    ASSUME TypeOK, NEW g \in Procs, StartCreate(g)
    PROVE  NoHold
<1>1. PICK s \in Unborn, v \in Vehicles, full \in Targets, hold \in Stages :
         Create(s, plug[g], v, full, hold)
  BY DEF StartCreate
<1>2. \A t \in Sessions : t # s => rows'[t] = rows[t]
  BY <1>1 DEF Create, TypeOK, StoreTypeOK
<1>3. ~Ready(s) /\ rows'[s].status = "pending"
  BY <1>1 DEF Ready, Unborn, Status, Create, TypeOK, StoreTypeOK
<1> QED BY <1>2, <1>3 DEF NoHold, Ready

LEMMA PollHolds ==
    ASSUME TypeOK,
           \/ PollCut \/ \E s \in Sessions : PollTimeout(s) \/ PollActivate(s)
           \/ \E s \in Sessions, full \in Targets : Retarget(s, full)
    PROVE  /\ NoHold /\ todo' = todo
           /\ pc'[Checker] = pc[Checker] /\ sess'[Checker] = sess[Checker]
<1> USE DEF TypeOK
<1>1. CASE PollCut \/ \E s \in Sessions : PollTimeout(s) \/ PollActivate(s)
  <2>1. NoHold
    BY <1>1, UnchangedHolds, GuardsHold DEF PollCut, PollTimeout, PollActivate
  <2>2. \/ UNCHANGED <<pc, sess>>
        \/ \E label, s, p : Enter(Poller, label, s, p)
    BY <1>1 DEF PollCut, PollTimeout, PollActivate, procVars, Return
  <2>3. pc'[Checker] = pc[Checker] /\ sess'[Checker] = sess[Checker]
    BY <2>2, WorkersAreProcs, DomainAssumption DEF Enter, ProcTypeOK
  <2> QED BY <1>1, <2>1, <2>3 DEF PollCut, PollTimeout, PollActivate, KeepRest, procVars
<1>2. ASSUME NEW s \in Sessions, NEW full \in Targets, Retarget(s, full)
      PROVE NoHold /\ UNCHANGED <<todo, pc, sess>>
  <2>1. \A t \in Sessions : rows'[t].status = rows[t].status /\ rows'[t].hold = rows[t].hold
    BY <1>2 DEF Retarget, UpdateTarget, StoreTypeOK, Row
  <2> QED BY <1>2, <2>1 DEF NoHold, Ready, Retarget, procVars
<1> QED BY <1>1, <1>2

LEMMA InboundHolds ==
    ASSUME TypeOK,
           \/ \E p \in Plugs : \/ ReconcileRead(p) \/ SensorArrives(p) \/ Report(p)
                               \/ Lose(p) \/ ComeBack(p) \/ State(p)
                               \/ Press(p) \/ Drop(p)
           \/ SensorSave \/ Disconnect \/ Connect
           \/ \E g \in Procs : WaitOn(g)
    PROVE  /\ NoHold /\ todo' = todo
           /\ pc'[Checker] = pc[Checker] /\ sess'[Checker] = sess[Checker]
<1> USE DEF TypeOK
<1>1. rows' = rows /\ todo' = todo
  BY DEF ReconcileRead, SensorArrives, Report, Lose, ComeBack, State, Press, Drop,
         Disconnect, Connect, SensorSave,
         WaitOn, procVars, KeepRest
<1>2. \/ UNCHANGED <<pc, sess>>
      \/ \E label, s, p : Enter(Inbound, label, s, p)
  BY DEF ReconcileRead, SensorArrives, Report, Lose, ComeBack, State, Press, Drop,
         Disconnect, Connect, SensorSave,
         WaitOn, procVars, Return
<1>3. pc'[Checker] = pc[Checker] /\ sess'[Checker] = sess[Checker]
  BY <1>2, WorkersAreProcs, DomainAssumption DEF Enter, ProcTypeOK
<1> QED BY <1>1, <1>3, UnchangedHolds

(* The checker lists, takes one row, decides and waits. *)
LEMMA CheckerHolds ==
    ASSUME TypeOK, HoldInv,
           \/ \E check \in Checks : CheckerList(check)
           \/ \E t \in todo : \/ CheckerSkip(t) \/ CheckerHold(t) \/ CheckerCondition(t)
                              \/ CheckerStop(t) \/ CheckerResume(t)
           \/ CheckerConfirmed \/ CheckerTimeout
    PROVE  NoHold /\ HoldInv'
<1> USE DEF TypeOK
<1>1. NoHold
  BY UnchangedHolds
  DEF CheckerList, CheckerSkip, CheckerHold, CheckerCondition, CheckerStop, CheckerResume,
      CheckerConfirmed, CheckerTimeout
<1>2. ASSUME NEW check \in Checks, CheckerList(check) PROVE HoldInv'
  <2>1. pc'[Checker] = "idle" /\ rows' = rows
    BY <1>2 DEF CheckerList, At
  <2>2. \A t \in todo' : /\ t.check = check /\ t.hold = rows[t.s].hold
                         /\ rows[t.s].status \in Picks[check]
    BY <1>2 DEF CheckerList, Status
  <2>3. \A t, u \in todo' : t.s = u.s => t = u
    BY <1>2 DEF CheckerList
  <2>4. \A t \in todo' : t.check = "reaching" /\ t.hold => Ready(t.s)'
    BY <2>1, <2>2 DEF Picks, Ready
  <2> QED BY <2>1, <2>3, <2>4 DEF HoldInv, HoldLabels
<1>3. ASSUME NEW t \in todo, CheckerHold(t) PROVE HoldInv'
  <2>1. /\ t.check = "reaching" /\ t.hold /\ todo' = todo \ {t} /\ rows' = rows
        /\ pc'[Checker] = "hold_wait" /\ sess'[Checker] = t.s
    BY <1>3, WorkersAreProcs DEF CheckerHold, Take, Enter, ProcTypeOK
  <2>2. t.s \in Sessions
    BY DEF ProcTypeOK, Snapshot
  <2> QED BY <2>1, <2>2 DEF HoldInv, Ready
<1>4. ASSUME NEW t \in todo,
             CheckerSkip(t) \/ CheckerCondition(t) \/ CheckerStop(t) \/ CheckerResume(t)
      PROVE HoldInv'
  <2>1. todo' \subseteq todo /\ pc'[Checker] \notin HoldLabels
    BY <1>4, WorkersAreProcs
    DEF CheckerSkip, CheckerCondition, CheckerStop, CheckerResume, Take, Enter, At,
        ProcTypeOK, HoldLabels
  <2> QED BY <1>1, <2>1, HoldKept
<1>5. CASE CheckerConfirmed \/ CheckerTimeout
  <2>1. /\ todo' = todo
        /\ \/ pc'[Checker] \notin HoldLabels
           \/ pc[Checker] \in HoldLabels /\ sess'[Checker] = sess[Checker]
    BY <1>5, WorkersAreProcs
    DEF CheckerConfirmed, CheckerTimeout, KeepRest, Goto, Return, Enter, At, ProcTypeOK,
        HoldLabels
  <2> QED BY <1>1, <2>1, HoldKept
<1> QED BY <1>1, <1>2, <1>3, <1>4, <1>5

(* Its write holds a session that is ready, and no other. *)
LEMMA CheckerWriteHolds ==
    ASSUME TypeOK, HoldInv, CheckerWrite
    PROVE  /\ HoldInv'
           /\ \A s \in Sessions : rows[s].status # "holding" /\ rows'[s].status = "holding" =>
                                      rows[s].hold
<1> USE DEF TypeOK
<1>1. todo' = todo /\ pc'[Checker] = "idle" /\ "idle" \notin HoldLabels
  BY WorkersAreProcs DEF CheckerWrite, KeepRest, Return, Enter, ProcTypeOK, HoldLabels
<1>2. CASE NoHold
  <2>1. HoldInv'
    BY <1>1, <1>2, HoldKept
  <2> QED BY <1>2, <2>1 DEF NoHold
<1>3. CASE At(Checker, "hold_write") /\ UpdateStatus(sess[Checker], "holding")
  <2>1. Ready(sess[Checker]) /\ \A t \in todo : t.s # sess[Checker] /\ t.s \in Sessions
    BY <1>3 DEF At, HoldInv, HoldLabels, ProcTypeOK, Snapshot
  <2>2. \A s \in Sessions : s # sess[Checker] => rows'[s] = rows[s]
    BY <1>3 DEF UpdateStatus, SetStatus, StoreTypeOK
  <2>3. \A t \in todo : rows'[t.s] = rows[t.s]
    BY <2>1, <2>2
  <2> QED BY <1>1, <2>1, <2>2, <2>3 DEF HoldInv, Ready
<1>4. CASE \/ At(Checker, "condition_write") /\ UpdateStatus(sess[Checker], "conditioning")
           \/ At(Checker, "resume_write") /\ ResumeHolding(sess[Checker])
  BY <1>2, <1>4, SetStatusHolds, GuardsHold DEF UpdateStatus
<1> QED BY <1>3, <1>4 DEF CheckerWrite

LEMMA CrashHolds == ASSUME Crash PROVE NoHold /\ HoldInv'
<1>1. NoHold
  BY UnchangedHolds DEF Crash
<1>2. HoldInv'
  BY WorkersAreProcs DEF Crash, HoldInv, HoldLabels
<1> QED BY <1>1, <1>2

LEMMA HoldStep ==
    ASSUME TypeOK, HoldInv, [Next]_vars
    PROVE  HoldInv' /\ (NoHold \/ CheckerWrite)
<1>1. ASSUME NoHold, todo' = todo,
             \/ pc'[Checker] \notin HoldLabels
             \/ pc'[Checker] = pc[Checker] /\ sess'[Checker] = sess[Checker]
      PROVE  HoldInv'
  BY <1>1, HoldKept
<1>2. CASE Next
  BY <1>1, <1>2, NextCases, OthersHold, OthersStayAway, CreateHolds, PollHolds, InboundHolds,
     CheckerHolds, CheckerWriteHolds, CrashHolds
<1>3. CASE UNCHANGED vars
  <2>1. NoHold
    BY <1>3, UnchangedHolds DEF vars
  <2> QED BY <1>1, <1>3, <2>1 DEF vars, procVars
<1> QED BY <1>2, <1>3

(***************************************************************************)
(* In every mode: a session is put on hold only while it has its hold      *)
(* point, so that one which was resumed is never held again by a decision  *)
(* taken on an older listing.                                              *)
(***************************************************************************)
THEOREM SessionsHoldOnce == Spec => HoldsOnce
<1>1. Init => HoldInv
  BY WorkersAreProcs DEF Init, HoldInv, HoldLabels
<1>2. TypeOK /\ HoldInv /\ [Next]_vars => HoldInv'
  BY HoldStep
<1>3. TypeOK /\ HoldInv /\ [Next]_vars =>
         [\A s \in Sessions :
             (Status(s) # "holding" /\ Status(s)' = "holding") => rows[s].hold]_vars
  BY HoldStep, CheckerWriteHolds DEF NoHold, Status
<1> QED BY <1>1, <1>2, <1>3, TypeCorrect, PTL DEF Spec, HoldsOnce

=============================================================================
