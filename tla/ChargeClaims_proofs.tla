------------------------ MODULE ChargeClaims_proofs -------------------------
(***************************************************************************)
(* A proof that ChargeSession implements PlugClaim when no session is      *)
(* two-stage and none aims at 100 %, for every number of sessions, plugs   *)
(* and goroutines, with every fault the model knows.                       *)
(***************************************************************************)
EXTENDS ChargeSession_proofs

Plain == Targets = {FALSE} /\ Stages = {FALSE}

(* A step after which no session is in progress that was not before. *)
NoneBegins ==
    /\ \A s \in Sessions :
          /\ rows'[s].plug = rows[s].plug /\ ~rows'[s].full /\ ~rows'[s].hold
          /\ rows'[s].status \in InProgress => rows[s].status \in InProgress
          /\ rows'[s].status \notin {"holding", "conditioning"}
          /\ rows'[s].status = "unborn" <=> rows[s].status = "unborn"
    /\ \A s, t \in Sessions :
          rows'[s].status # rows[s].status /\ rows'[t].status # rows[t].status => s = t

(* A step that neither starts anything nor takes or gives the lock. *)
KeepsControl ==
    /\ lock' = lock
    /\ \A g \in Procs : pc'[g] \in HolderLabels => pc'[g] = pc[g] /\ plug'[g] = plug[g]
    /\ \A t \in todo' : ~t.full /\ ~t.hold /\ t.check # "resume"
    /\ pc'[Checker] \notin {"hold_wait", "hold_write", "condition_write",
                            "resume_wait", "resume_write"}

----------------------------------------------------------------------------
(* The statements on the table. *)

LEMMA NoStatement ==
    ASSUME PlainRows, \A t \in Sessions : rows'[t] = rows[t]
    PROVE  NoneBegins
BY DEF NoneBegins, PlainRows, Status

(* An UPDATE of the status of one row. *)
LEMMA OneStatement ==
    ASSUME StoreTypeOK, PlainRows, NEW r, NEW st \in {"active", "completed", "cancelled", "deleted"},
           rows' = [rows EXCEPT ![r].status = st],
           rows[r].status # "unborn",
           st = "active" => rows[r].status \in InProgress
    PROVE  NoneBegins
<1>1. st # "unborn" /\ st \notin {"holding", "conditioning"}
  OBVIOUS
<1>2. st \in InProgress => rows[r].status \in InProgress
  BY DEF InProgress
<1>3. \A t \in Sessions : t # r => rows'[t] = rows[t]
  BY DEF StoreTypeOK
<1>4. r \in Sessions => /\ rows'[r].status = st /\ rows'[r].plug = rows[r].plug
                        /\ rows'[r].full = rows[r].full /\ rows'[r].hold = rows[r].hold
  BY DEF StoreTypeOK, Row
<1>5. \A t \in Sessions :
          /\ rows'[t].plug = rows[t].plug /\ ~rows'[t].full /\ ~rows'[t].hold
          /\ rows'[t].status \in InProgress => rows[t].status \in InProgress
          /\ rows'[t].status \notin {"holding", "conditioning"}
          /\ rows'[t].status = "unborn" <=> rows[t].status = "unborn"
  <2> SUFFICES ASSUME NEW t \in Sessions
               PROVE  /\ rows'[t].plug = rows[t].plug /\ ~rows'[t].full /\ ~rows'[t].hold
                      /\ rows'[t].status \in InProgress => rows[t].status \in InProgress
                      /\ rows'[t].status \notin {"holding", "conditioning"}
                      /\ rows'[t].status = "unborn" <=> rows[t].status = "unborn"
    OBVIOUS
  <2>1. CASE t = r
    BY <1>1, <1>2, <1>4, <2>1 DEF PlainRows
  <2>2. CASE t # r
    BY <1>3, <2>2 DEF PlainRows, Status
  <2> QED BY <2>1, <2>2
<1>6. \A s, t \in Sessions :
          rows'[s].status # rows[s].status /\ rows'[t].status # rows[t].status => s = t
  BY <1>3
<1> QED BY <1>5, <1>6 DEF NoneBegins

LEMMA EndStatement ==
    ASSUME StoreTypeOK, PlainRows, NEW s, NEW st \in {"completed", "cancelled", "deleted"},
           SetStatus(s, st)
    PROVE  NoneBegins
<1>1. CASE ~Exists(s)
  BY <1>1, NoStatement DEF SetStatus
<1>2. CASE Exists(s)
  <2>1. rows[s].status # "unborn"
    BY <1>2 DEF Exists, Status, InProgress, Ended
  <2> QED BY <1>2, <2>1, OneStatement DEF SetStatus
<1> QED BY <1>1, <1>2

LEMMA GuardedStatement ==
    ASSUME StoreTypeOK, PlainRows, NEW s,
           ActivatePending(s) \/ CancelPending(s) \/ ResumeHolding(s)
    PROVE  NoneBegins
<1>1. CASE ActivatePending(s)
  BY <1>1, NoStatement, OneStatement DEF ActivatePending, Status, InProgress
<1>2. CASE CancelPending(s)
  BY <1>2, NoStatement, OneStatement DEF CancelPending, Status
<1>3. CASE ResumeHolding(s)
  BY <1>3, NoStatement DEF ResumeHolding, PlainRows, StoreTypeOK
<1> QED BY <1>1, <1>2, <1>3

----------------------------------------------------------------------------
(* The actions.  Every one but StartCreate begins nothing; every one that is *)
(* not part of a start, a hang-up or a crash also keeps control.             *)

Elsewhere == {"idle", "start_check", "stop_write", "stop_publish", "stop_wait", "cancel_write",
              "cut", "manual_resume", "delete_write", "sensor_lock"}

LEMMA ElsewhereKeeps ==
    ASSUME ProcTypeOK, PlainChecker, UNCHANGED <<lock, todo>>,
           NEW g \in Procs, NEW label \in Elsewhere,
           Goto(g, label) \/ \E s, p : Enter(g, label, s, p)
    PROVE  KeepsControl
<1>1. pc' = [pc EXCEPT ![g] = label]
  BY DEF Goto, Enter
<1>2. \A h \in Procs : h # g => pc'[h] = pc[h] /\ plug'[h] = plug[h]
  BY DEF Goto, Enter, ProcTypeOK
<1>3. label \notin HolderLabels \cup {"hold_wait", "hold_write", "condition_write",
                                     "resume_wait", "resume_write"}
  BY DEF Elsewhere, HolderLabels
<1>4. pc'[g] = label
  BY <1>1 DEF ProcTypeOK
<1> QED BY <1>2, <1>3, <1>4, WorkersAreProcs DEF KeepsControl, PlainChecker

LEMMA StayKeeps ==
    ASSUME PlainChecker, UNCHANGED <<lock, todo, pc, plug>>
    PROVE  KeepsControl
BY DEF KeepsControl, PlainChecker

LEMMA StopKeeps ==
    ASSUME TypeOK, ClaimInv, NEW g \in Procs,
           \/ \E s \in Sessions : StopRead(g, s) \/ PollDisconnected(g, s)
           \/ \E p \in Plugs : ConfirmOffline(g, p)
           \/ StopWrite(g) \/ StopPublish(g) \/ StopDone(g)
           \/ CancelWrite(g) \/ CutPower(g)
    PROVE  NoneBegins /\ KeepsControl
<1> USE DEF TypeOK, ClaimInv
<1>1. NoneBegins
  BY NoStatement, EndStatement
  DEF StopRead, PollDisconnected, ConfirmOffline, StopWrite, StopPublish, StopDone,
      CancelWrite, CutPower, UpdateEndWithStats, UpdateCancelData
<1>2. \E label \in Elsewhere : Goto(g, label) \/ \E s, p : Enter(g, label, s, p)
  BY DEF StopRead, PollDisconnected, ConfirmOffline, StopWrite, StopPublish, StopDone,
      CancelWrite, CutPower, StopLabel, Return, Elsewhere
<1>3. UNCHANGED <<lock, todo>>
  BY DEF StopRead, PollDisconnected, ConfirmOffline, StopWrite, StopPublish, StopDone,
      CancelWrite, CutPower, KeepRest, wire
<1>4. KeepsControl
  BY <1>2, <1>3, ElsewhereKeeps
<1> QED BY <1>1, <1>4

LEMMA PollKeeps ==
    ASSUME TypeOK, ClaimInv, NEW s \in Sessions, PollActivate(s)
    PROVE  NoneBegins /\ KeepsControl
BY GuardedStatement, StayKeeps DEF PollActivate, procVars, TypeOK, ClaimInv

LEMMA ManualKeeps ==
    ASSUME TypeOK, ClaimInv, NEW g \in Procs,
           \/ \E p \in Plugs : ManualOff(g, p) \/ ManualOn(g, p)
           \/ ManualResume(g)
    PROVE  NoneBegins /\ KeepsControl
<1> USE DEF TypeOK, ClaimInv
<1>1. NoneBegins
  BY NoStatement, GuardedStatement DEF ManualOff, ManualOn, ManualResume
<1>2. \/ UNCHANGED <<pc, plug>>
      \/ \E label \in Elsewhere : \E s, p : Enter(g, label, s, p)
  BY DEF ManualOff, ManualOn, ManualResume, StopLabel, Return, Elsewhere
<1>3. UNCHANGED <<lock, todo>>
  BY DEF ManualOff, ManualOn, ManualResume, KeepRest
<1>4. KeepsControl
  BY <1>2, <1>3, ElsewhereKeeps, StayKeeps
<1> QED BY <1>1, <1>4

LEMMA CheckerKeeps ==
    ASSUME TypeOK, ClaimInv,
           \/ \E check \in Checks : CheckerList(check)
           \/ \E t \in todo : \/ CheckerSkip(t) \/ CheckerHold(t) \/ CheckerCondition(t)
                              \/ CheckerStop(t) \/ CheckerResume(t)
           \/ CheckerConfirmed \/ CheckerTimeout \/ CheckerWrite
    PROVE  NoneBegins /\ KeepsControl
<1> USE DEF TypeOK, ClaimInv
<1>1. CASE \E check \in Checks : CheckerList(check)
  <2>1. PICK check \in Checks : CheckerList(check)
    BY <1>1
  <2>2. check # "resume"
    BY <2>1 DEF CheckerList, Picks, PlainRows
  <2>3. \A t \in todo' : ~t.full /\ ~t.hold /\ t.check # "resume"
    BY <2>1, <2>2 DEF CheckerList, PlainRows
  <2>4. KeepsControl
    BY <2>1, <2>3 DEF CheckerList, KeepsControl, PlainChecker
  <2> QED BY <2>1, <2>4, NoStatement DEF CheckerList
<1>2. CASE \E t \in todo : \/ CheckerSkip(t) \/ CheckerHold(t) \/ CheckerCondition(t)
                           \/ CheckerStop(t) \/ CheckerResume(t)
  <2>1. PICK t \in todo : CheckerSkip(t) \/ CheckerStop(t)
    BY <1>2 DEF CheckerHold, CheckerCondition, CheckerResume, PlainChecker
  <2>2. KeepsControl
    BY <2>1 DEF CheckerSkip, CheckerStop, Take, Enter, KeepsControl, ProcTypeOK,
                HolderLabels, PlainChecker
  <2> QED BY <2>1, <2>2, NoStatement DEF CheckerSkip, CheckerStop
<1>3. ~(CheckerConfirmed \/ CheckerTimeout \/ CheckerWrite)
  BY DEF CheckerConfirmed, CheckerTimeout, CheckerWrite, At, PlainChecker
<1> QED BY <1>1, <1>2, <1>3

LEMMA InboundKeeps ==
    ASSUME TypeOK, ClaimInv,
           \/ \E p \in Plugs : \/ ReconcileRead(p) \/ SensorArrives(p) \/ Report(p)
                               \/ Lose(p) \/ ComeBack(p) \/ State(p)
                               \/ Press(p) \/ Drop(p)
           \/ SensorSave \/ Disconnect \/ Connect
    PROVE  NoneBegins /\ KeepsControl
<1> USE DEF TypeOK, ClaimInv
<1>1. NoneBegins
  BY NoStatement DEF ReconcileRead, SensorArrives, Report, Lose, ComeBack, State,
                     Press, Drop, Disconnect, Connect, SensorSave
<1>2. \/ UNCHANGED <<pc, plug>>
      \/ \E label \in Elsewhere : \E s, p : Enter(Inbound, label, s, p)
  BY DEF ReconcileRead, SensorArrives, Report, Lose, ComeBack, State,
         Press, Drop, Disconnect, Connect, SensorSave,
      procVars, Return, Elsewhere
<1>3. UNCHANGED <<lock, todo>>
  BY DEF ReconcileRead, SensorArrives, Report, Lose, ComeBack, State,
         Press, Drop, Disconnect, Connect, SensorSave,
      procVars, KeepRest
<1>4. KeepsControl
  BY <1>2, <1>3, ElsewhereKeeps, StayKeeps, WorkersAreProcs
<1> QED BY <1>1, <1>4

LEMMA ClientKeeps ==
    ASSUME TypeOK, ClaimInv, Plain, NEW g \in Procs,
           \/ DeleteWrite(g)
           \/ \E s \in Sessions : \/ DeleteRead(g, s)
                                  \/ \E full \in Targets : Retarget(s, full)
    PROVE  NoneBegins /\ KeepsControl
<1> USE DEF TypeOK, ClaimInv
<1>1. CASE DeleteWrite(g)
  <2>1. NoneBegins
    BY <1>1, EndStatement DEF DeleteWrite, Delete
  <2>2. KeepsControl
    BY <1>1, ElsewhereKeeps DEF DeleteWrite, Return, KeepRest, Elsewhere
  <2> QED BY <2>1, <2>2
<1>2. CASE \E s \in Sessions : DeleteRead(g, s)
  <2>1. NoneBegins
    BY <1>2, NoStatement DEF DeleteRead
  <2>2. KeepsControl
    BY <1>2, ElsewhereKeeps DEF DeleteRead, KeepRest, Elsewhere
  <2> QED BY <2>1, <2>2
<1>3. ASSUME NEW s \in Sessions, NEW full \in Targets PROVE ~Retarget(s, full)
  BY DEF Retarget, Plain, PlainRows, StoreTypeOK, Row
<1> QED BY <1>1, <1>2, <1>3

LEMMA WaitOnKeeps ==
    ASSUME TypeOK, ClaimInv, NEW g \in Procs, WaitOn(g)
    PROVE  NoneBegins /\ KeepsControl
BY NoStatement, StayKeeps DEF WaitOn, procVars, TypeOK, ClaimInv

----------------------------------------------------------------------------
(* The inductive step. *)

LEMMA RowsKeep ==
    ASSUME TypeOK, ClaimInv, NoneBegins
    PROVE  /\ PlainRows' /\ OwnPlug' /\ OneSessionPerPlug'
           /\ \A p : InProgressOn(p)' \subseteq InProgressOn(p)
BY DEF ClaimInv, NoneBegins, PlainRows, OwnPlug, OneSessionPerPlug, InProgressOn,
       ListActive, Status

LEMMA KeepsInv ==
    ASSUME TypeOK, ClaimInv, NoneBegins, KeepsControl
    PROVE  ClaimInv'
<1>1. LockHeld'
  BY DEF ClaimInv, KeepsControl, LockHeld
<1>2. \A g \in Procs : pc'[g] = "start_create" => pc[g] = "start_create" /\ plug'[g] = plug[g]
  BY DEF KeepsControl, HolderLabels
<1>3. StillFree'
  BY <1>2, RowsKeep DEF ClaimInv, StillFree, At
<1>4. PlainChecker'
  BY DEF KeepsControl, PlainChecker
<1> QED BY <1>1, <1>3, <1>4, RowsKeep DEF ClaimInv

(* The steps of a start, and the ends the lock can come to. *)

LEMMA StartKeeps ==
    ASSUME TypeOK, ClaimInv, NEW g \in Procs,
           \/ \E p \in Plugs : StartCheck(g, p)
           \/ StartConfirmed(g) \/ StartTimeout(g)
           \/ StartCut(g) \/ StartOffDone(g) \/ HangUp(g)
           \/ g = Poller /\ (PollCut \/ \E s \in Sessions : PollTimeout(s))
    PROVE  NoneBegins /\ ClaimInv'
<1> USE DEF TypeOK
<1>1. NoneBegins
  BY NoStatement, GuardedStatement
  DEF ClaimInv, StartCheck, StartConfirmed, StartTimeout, StartCut, StartOffDone, HangUp,
                PollTimeout, PollCut
<1>2. ASSUME NEW h \in Procs, h # g
      PROVE  pc'[h] = pc[h] /\ plug'[h] = plug[h]
  BY <1>2 DEF StartCheck, StartConfirmed, StartTimeout, StartCut, StartOffDone, HangUp,
              PollTimeout, PollCut,
              Enter, Goto, Return, ProcTypeOK
<1>3. PlainChecker'
  <2>1. todo' = todo
    BY DEF StartCheck, StartConfirmed, StartTimeout, StartCut, StartOffDone, HangUp,
           PollTimeout, PollCut, KeepRest
  <2>2. pc'[g] \in {"start_create", "start_cut", "start_off", "poll_cut", "idle"}
    BY DEF StartCheck, StartConfirmed, StartTimeout, StartCut, StartOffDone, HangUp,
           PollTimeout, PollCut,
           Enter, Goto, Return, ProcTypeOK
  <2> QED BY <1>2, <2>1, <2>2, WorkersAreProcs DEF ClaimInv, PlainChecker
<1>4. \/ lock' = lock /\ pc'[g] \notin HolderLabels
      \/ lock = g /\ lock' = NoProc /\ pc'[g] \notin HolderLabels
      \/ lock \in {g, NoProc} /\ lock' = g
  <2>1. CASE \E p \in Plugs : StartCheck(g, p)
    BY <2>1 DEF StartCheck, Free, Enter, Return, ProcTypeOK, HolderLabels
  <2>2. CASE StartConfirmed(g)
    BY <2>2 DEF StartConfirmed, At, Return, Enter, ProcTypeOK, HolderLabels, ClaimInv, LockHeld
  <2>3. CASE StartTimeout(g)
    BY <2>3 DEF StartTimeout, At, Goto, ProcTypeOK, HolderLabels, ClaimInv, LockHeld
  <2>4. CASE StartOffDone(g)
    BY <2>4 DEF StartOffDone, At, Return, Enter, ProcTypeOK, HolderLabels, ClaimInv, LockHeld
  <2>5. CASE HangUp(g)
    BY <2>5 DEF HangUp, Return, Enter, ProcTypeOK, HolderLabels
  <2>6. CASE StartCut(g)
    BY <2>6 DEF StartCut, At, Goto, ProcTypeOK, HolderLabels, ClaimInv, LockHeld
  <2>7. CASE g = Poller /\ \E s \in Sessions : PollTimeout(s)
    BY <2>7 DEF PollTimeout, Free
  <2>8. CASE g = Poller /\ PollCut
    BY <2>8 DEF PollCut, At, Return, Enter, ProcTypeOK, HolderLabels, ClaimInv, LockHeld
  <2> QED BY <2>1, <2>2, <2>3, <2>4, <2>5, <2>6, <2>7, <2>8
<1>5. LockHeld'
  <2> SUFFICES ASSUME NEW h \in Procs, pc'[h] \in HolderLabels PROVE lock' = h
    BY DEF LockHeld
  <2>1. CASE h = g
    BY <1>4, <2>1
  <2>2. CASE h # g
    <3>1. lock = h
      BY <1>2, <2>2 DEF ClaimInv, LockHeld
    <3> QED BY <1>4, <2>2, <3>1, DomainAssumption
  <2> QED BY <2>1, <2>2
<1>6. pc'[g] = "start_create" => plug'[g] \in Plugs /\ InProgressOn(plug'[g]) = {}
  BY DEF StartCheck, StartConfirmed, StartTimeout, StartCut, StartOffDone, HangUp,
         PollTimeout, PollCut,
         Enter, Goto, Return, ProcTypeOK
<1>7. StillFree'
  <2> SUFFICES ASSUME NEW h \in Procs, pc'[h] = "start_create"
               PROVE  plug'[h] \in Plugs /\ \A s \in ListActive' : rows'[s].plug # plug'[h]
    BY DEF StillFree, At, InProgressOn
  <2>1. plug'[h] \in Plugs /\ \A s \in ListActive : rows[s].plug # plug'[h]
    <3>1. CASE h = g
      BY <1>6, <3>1 DEF InProgressOn
    <3>2. CASE h # g
      BY <1>2, <3>2 DEF ClaimInv, StillFree, At, InProgressOn
    <3> QED BY <3>1, <3>2
  <2> QED BY <1>1, <2>1 DEF NoneBegins, ListActive, Status
<1> QED BY <1>1, <1>3, <1>5, <1>7, RowsKeep DEF ClaimInv

LEMMA CrashKeeps ==
    ASSUME TypeOK, ClaimInv, Crash
    PROVE  NoneBegins /\ ClaimInv'
<1>1. NoneBegins
  BY NoStatement DEF Crash, ClaimInv
<1>2. PlainChecker' /\ LockHeld' /\ StillFree'
  BY WorkersAreProcs DEF Crash, PlainChecker, LockHeld, StillFree, At, HolderLabels
<1> QED BY <1>1, <1>2, RowsKeep DEF ClaimInv

(* The only step that begins a session. *)

LEMMA CreateKeeps ==
    ASSUME TypeOK, ClaimInv, Plain, NEW g \in Procs, StartCreate(g)
    PROVE  /\ ClaimInv'
           /\ \E s \in Sessions :
                 /\ Status(s) = "unborn" /\ InProgressOn(plug[g]) = {} /\ plug[g] \in Plugs
                 /\ rows'[s].status = "pending" /\ rows'[s].plug = plug[g]
                 /\ \A t \in Sessions \ {s} : rows'[t] = rows[t]
<1> USE DEF TypeOK
<1>1. PICK s \in Sessions, v \in Vehicles :
         /\ Status(s) = "unborn"
         /\ Create(s, plug[g], v, FALSE, FALSE)
         /\ Enter(g, "start_wait", s, plug[g])
  BY DEF StartCreate, Unborn, Plain
<1>2. InProgressOn(plug[g]) = {} /\ plug[g] \in Plugs /\ lock = g
  BY DEF StartCreate, At, ClaimInv, StillFree, LockHeld, HolderLabels
<1>3. /\ rows'[s] = [status |-> "pending", plug |-> plug[g], vehicle |-> v,
                     full |-> FALSE, hold |-> FALSE]
      /\ \A t \in Sessions \ {s} : rows'[t] = rows[t]
  BY <1>1 DEF Create, StoreTypeOK
<1>4. PlainRows' /\ OwnPlug'
  BY <1>2, <1>3 DEF ClaimInv, PlainRows, OwnPlug, ListActive, Status
<1>5. \A t \in ListActive' : t # s => t \in ListActive /\ rows'[t].plug # plug[g]
  BY <1>2, <1>3 DEF ListActive, InProgressOn, Status
<1>6. OneSessionPerPlug'
  <2> SUFFICES ASSUME NEW t \in ListActive', NEW u \in ListActive',
                      rows'[t].plug = rows'[u].plug
               PROVE  t = u
    BY DEF OneSessionPerPlug
  <2>1. CASE t = s \/ u = s
    BY <1>3, <1>5, <2>1
  <2>2. CASE t # s /\ u # s
    BY <1>3, <1>5, <2>2 DEF ClaimInv, OneSessionPerPlug, ListActive
  <2> QED BY <2>1, <2>2
<1>7. /\ lock' = lock /\ todo' = todo /\ pc'[g] = "start_wait"
      /\ \A h \in Procs : h # g => pc'[h] = pc[h] /\ plug'[h] = plug[h]
  BY <1>1 DEF StartCreate, KeepRest, Enter, ProcTypeOK
<1>8. PlainChecker'
  BY <1>7, WorkersAreProcs DEF ClaimInv, PlainChecker
<1>9. LockHeld'
  BY <1>2, <1>7 DEF ClaimInv, LockHeld
<1>10. \A h \in Procs : pc'[h] # "start_create"
  BY <1>2, <1>7 DEF ClaimInv, LockHeld, HolderLabels
<1>11. StillFree'
  BY <1>10 DEF StillFree, At
<1> QED BY <1>1, <1>2, <1>3, <1>4, <1>6, <1>8, <1>9, <1>11 DEF ClaimInv

LEMMA ClaimStep ==
    ASSUME TypeOK, ClaimInv, Plain, [Next]_vars
    PROVE  /\ ClaimInv'
           /\ NoneBegins \/ \E g \in Procs : StartCreate(g)
<1>1. CASE Next
  BY <1>1, NextCases, WorkersAreProcs, StartKeeps, CreateKeeps, StopKeeps, PollKeeps,
     ManualKeeps, ClientKeeps,
     CheckerKeeps, InboundKeeps, CrashKeeps, WaitOnKeeps, KeepsInv
<1>2. CASE UNCHANGED vars
  <2>1. UNCHANGED <<rows, lock, todo, pc, plug>>
    BY <1>2 DEF vars, procVars
  <2>2. NoneBegins /\ KeepsControl
    BY <2>1, NoStatement, StayKeeps DEF ClaimInv
  <2> QED BY <2>2, KeepsInv
<1> QED BY <1>1, <1>2

LEMMA ClaimInit == ASSUME Init PROVE ClaimInv
BY DEF Init, StoreInit, NoRow, ClaimInv, PlainRows, PlainChecker, OwnPlug, LockHeld, StillFree,
       OneSessionPerPlug, ListActive, InProgress, Status, At, HolderLabels, Procs

----------------------------------------------------------------------------
(* The theorems. *)

(***************************************************************************)
(* When no session is two-stage and none aims at 100 %: no two sessions in *)
(* progress ever share a plug, and a start that has checked its plug finds *)
(* it free when it inserts its row.                                        *)
(***************************************************************************)
THEOREM ClaimsInvariant == ASSUME Plain PROVE Spec => []ClaimInv
<1>1. Init => ClaimInv
  BY ClaimInit
<1>2. TypeOK /\ ClaimInv /\ [Next]_vars => ClaimInv'
  BY ClaimStep
<1> QED BY <1>1, <1>2, TypeCorrect, PTL DEF Spec

(* The first conjunct a reader asks for. *)
THEOREM PlugsAreExclusive == ASSUME Plain PROVE Spec => []OneSessionPerPlug
<1>1. ClaimInv => OneSessionPerPlug
  BY DEF ClaimInv
<1> QED BY <1>1, ClaimsInvariant, PTL

----------------------------------------------------------------------------
(* The refinement. *)

LEMMA ClaimsInit == ASSUME Init PROVE Claims!ClaimInit
BY DEF Init, StoreInit, NoRow, Status, InProgress, Ended, Claims!ClaimInit

(* The two state functions of the refinement mapping, row by row. *)
claimNow(s) == IF rows[s].status \in InProgress THEN rows[s].plug ELSE NoPlug
claimNext(s) == IF rows'[s].status \in InProgress THEN rows'[s].plug ELSE NoPlug
endedNow == {s \in Sessions : rows[s].status \in Ended \cup {"deleted"}}
endedNext == {s \in Sessions : rows'[s].status \in Ended \cup {"deleted"}}

LEMMA MappedClaim ==
    ASSUME NEW s \in Sessions, NEW p \in Plugs,
           claimNow(s) = NoPlug, s \notin endedNow,
           \A t \in Sessions : claimNow(t) # p,
           \A t \in Sessions : claimNext(t) = IF t = s THEN p ELSE claimNow(t),
           endedNext = endedNow
    PROVE  Claims!Claim(s, p)
<1> DEFINE map == [t \in Sessions |-> claimNow(t)]
<1>1. [t \in Sessions |-> claimNext(t)] = [map EXCEPT ![s] = p]
  OBVIOUS
<1> QED BY <1>1 DEF Claims!Claim, Claims!Claimed, claimNow, claimNext, endedNow, endedNext, Status

LEMMA MappedGiveUp ==
    ASSUME NEW s \in Sessions,
           claimNow(s) # NoPlug,
           \A t \in Sessions : claimNext(t) = IF t = s THEN NoPlug ELSE claimNow(t),
           endedNext = endedNow \cup {s}
    PROVE  Claims!GiveUp(s)
<1> DEFINE map == [t \in Sessions |-> claimNow(t)]
<1>1. [t \in Sessions |-> claimNext(t)] = [map EXCEPT ![s] = NoPlug]
  OBVIOUS
<1> QED BY <1>1 DEF Claims!GiveUp, Claims!Claimed, claimNow, claimNext, endedNow, endedNext, Status

LEMMA MappedStutter ==
    ASSUME \A t \in Sessions : claimNext(t) = claimNow(t), endedNext = endedNow
    PROVE  UNCHANGED Claims!claimVars
<1>1. [t \in Sessions |-> claimNext(t)] = [t \in Sessions |-> claimNow(t)]
  OBVIOUS
<1> QED BY <1>1 DEF Claims!claimVars, claimNow, claimNext, endedNow, endedNext, Status

(* A start's insert is a Claim. *)
LEMMA CreateClaims ==
    ASSUME TypeOK, ClaimInv, Plain, NEW g \in Procs, StartCreate(g)
    PROVE  Claims!ClaimNext
<1>1. PICK s \in Sessions, p \in Plugs :
         /\ Status(s) = "unborn" /\ InProgressOn(p) = {}
         /\ rows'[s].status = "pending" /\ rows'[s].plug = p
         /\ \A t \in Sessions \ {s} : rows'[t] = rows[t]
  BY CreateKeeps
<1>2. claimNow(s) = NoPlug /\ s \notin endedNow
  BY <1>1 DEF claimNow, endedNow, Status, InProgress, Ended
<1>3. \A t \in Sessions : claimNow(t) # p
  BY <1>1, DomainAssumption DEF claimNow, InProgressOn, ListActive, Status
<1>4. \A t \in Sessions : claimNext(t) = IF t = s THEN p ELSE claimNow(t)
  BY <1>1 DEF claimNow, claimNext, InProgress
<1>5. endedNext = endedNow
  BY <1>1 DEF endedNow, endedNext, Status, InProgress, Ended
<1>6. Claims!Claim(s, p)
  BY <1>1, <1>2, <1>3, <1>4, <1>5, MappedClaim
<1> QED BY <1>1, <1>6 DEF Claims!ClaimNext

(* Any other step gives up at most one claim. *)
LEMMA OthersGiveUp ==
    ASSUME TypeOK, TypeOK', ClaimInv, NoneBegins
    PROVE  Claims!ClaimNext \/ UNCHANGED Claims!claimVars
<1>0. \A s \in Sessions : /\ rows[s].status \in Statuses /\ rows'[s].status \in Statuses
                          /\ rows'[s].plug = rows[s].plug
                          /\ rows'[s].status \in InProgress => rows[s].status \in InProgress
                          /\ rows'[s].status = "unborn" <=> rows[s].status = "unborn"
  BY DEF TypeOK, StoreTypeOK, Row, NoneBegins
<1>1. \A s \in Sessions : s \in endedNow <=> rows[s].status \notin InProgress \cup {"unborn"}
  BY <1>0 DEF endedNow, Statuses, InProgress, Ended
<1>2. \A s \in Sessions : s \in endedNext <=> rows'[s].status \notin InProgress \cup {"unborn"}
  BY <1>0 DEF endedNext, Statuses, InProgress, Ended
<1>3. endedNow \subseteq Sessions /\ endedNext \subseteq Sessions
  BY DEF endedNow, endedNext
<1>4. CASE \E s \in Sessions : rows[s].status \in InProgress /\ rows'[s].status \notin InProgress
  <2>1. PICK s \in Sessions : rows[s].status \in InProgress /\ rows'[s].status \notin InProgress
    BY <1>4
  <2>2. \A t \in Sessions \ {s} : rows'[t].status = rows[t].status
    BY <2>1 DEF NoneBegins
  <2>3. claimNow(s) # NoPlug
    BY <2>1, DomainAssumption DEF claimNow, ClaimInv, OwnPlug, ListActive, Status
  <2>4. \A t \in Sessions : claimNext(t) = IF t = s THEN NoPlug ELSE claimNow(t)
    BY <1>0, <2>1, <2>2 DEF claimNow, claimNext
  <2>5. "unborn" \notin InProgress
    BY DEF InProgress
  <2>6. endedNext = endedNow \cup {s}
    BY <1>0, <1>1, <1>2, <1>3, <2>1, <2>2, <2>5
  <2>7. Claims!GiveUp(s)
    BY <2>3, <2>4, <2>6, MappedGiveUp
  <2> QED BY <2>7 DEF Claims!ClaimNext
<1>5. CASE \A s \in Sessions : rows[s].status \in InProgress => rows'[s].status \in InProgress
  <2>1. \A t \in Sessions : claimNext(t) = claimNow(t)
    BY <1>0, <1>5 DEF claimNow, claimNext
  <2>2. endedNext = endedNow
    BY <1>0, <1>1, <1>2, <1>3, <1>5
  <2> QED BY <2>1, <2>2, MappedStutter
<1> QED BY <1>4, <1>5

(***************************************************************************)
(* The services implement PlugClaim: whatever the goroutines, messages,    *)
(* disconnections and crashes, a session claims its plug once, alone, and  *)
(* never again after it ended.                                             *)
(***************************************************************************)
THEOREM ImplementsClaims == ASSUME Plain PROVE Spec => ClaimsRespected
<1>1. Init => Claims!ClaimInit
  BY ClaimsInit
<1>2. TypeOK /\ ClaimInv /\ [Next]_vars => [Claims!ClaimNext]_(Claims!claimVars)
  BY ClaimStep, TypeStep, CreateClaims, OthersGiveUp
<1> QED BY <1>1, <1>2, TypeCorrect, ClaimsInvariant, PTL
        DEF Spec, ClaimsRespected, Claims!ClaimSpec

(***************************************************************************)
(* Under the same condition no step brings an ended session back: what the *)
(* checker can overwrite when a session aims at 100 % it cannot here.      *)
(***************************************************************************)
THEOREM EndedStayEnded == ASSUME Plain PROVE Spec => EndedIsFinal
<1>1. TypeOK /\ ClaimInv /\ [Next]_vars =>
         [\A s \in Sessions :
             Status(s) \in Ended \cup {"deleted"} => Status(s)' \notin InProgress]_vars
  <2> SUFFICES ASSUME TypeOK, ClaimInv, [Next]_vars, NEW s \in Sessions,
                      Status(s) \in Ended \cup {"deleted"}, Status(s)' \in InProgress
               PROVE  FALSE
    OBVIOUS
  <2>1. CASE NoneBegins
    BY <2>1 DEF NoneBegins, Status, Ended, InProgress
  <2>2. ASSUME NEW g \in Procs, StartCreate(g) PROVE FALSE
    BY <2>2, CreateKeeps DEF Status, Ended, InProgress
  <2> QED BY <2>1, <2>2, ClaimStep
<1> QED BY <1>1, TypeCorrect, ClaimsInvariant, PTL DEF Spec, EndedIsFinal

=============================================================================
