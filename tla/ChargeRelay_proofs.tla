-------------------------- MODULE ChargeRelay_proofs --------------------------
(***************************************************************************)
(* Proofs about what a start owes its pending row and its relay: who owns  *)
(* a pending session, and why no relay is left on without a session.       *)
(***************************************************************************)
EXTENDS ChargeClaims_proofs

----------------------------------------------------------------------------
(* Pending rows.  While nobody hangs up and nothing crashes, the goroutine  *)
(* that inserted a pending row still holds the lock and waits for the plug. *)

NoHangUp == HangUps = FALSE
NoCrash == MaxCrashes = 0

PendingInv == LockHeld /\ budget.crashes = 0 /\ PendingIsOwned

(* A step that makes no row pending ... *)
NoneGetsPending ==
    \A s \in Sessions : rows'[s].status = "pending" => rows[s].status = "pending"

(* ... and takes no goroutine away from its wait for the plug. *)
WaitersStay ==
    /\ lock' = lock
    /\ \A g \in Procs : pc[g] = "start_wait" => pc'[g] = "start_wait" /\ sess'[g] = sess[g]

LEMMA PendingKept ==
    ASSUME TypeOK, PendingInv, NoneGetsPending, WaitersStay
    PROVE  PendingIsOwned'
<1>1. lock \in Procs \cup {NoProc}
  BY DEF TypeOK, ProcTypeOK
<1> QED BY <1>1 DEF PendingInv, PendingIsOwned, NoneGetsPending, WaitersStay, Status

LEMMA UnchangedGetsPending ==
    ASSUME \A s \in Sessions : rows'[s].status = rows[s].status
    PROVE  NoneGetsPending
BY DEF NoneGetsPending

LEMMA StatusGetsPending ==
    ASSUME StoreTypeOK, NEW r, NEW st, st # "pending", SetStatus(r, st)
    PROVE  NoneGetsPending
<1>1. \A s \in Sessions : s # r => rows'[s] = rows[s]
  BY DEF SetStatus, StoreTypeOK
<1>2. r \in Sessions => rows'[r].status \in {st, rows[r].status}
  BY DEF SetStatus, StoreTypeOK, Row
<1> QED BY <1>1, <1>2 DEF NoneGetsPending

LEMMA GuardsGetPending ==
    ASSUME StoreTypeOK, NEW r,
           ActivatePending(r) \/ CancelPending(r) \/ ResumeHolding(r)
    PROVE  NoneGetsPending
<1>1. \A s \in Sessions : s # r => rows'[s] = rows[s]
  BY DEF ActivatePending, CancelPending, ResumeHolding, StoreTypeOK
<1>2. r \in Sessions => rows'[r].status \in {"active", "cancelled", rows[r].status}
  BY DEF ActivatePending, CancelPending, ResumeHolding, StoreTypeOK, Row
<1> QED BY <1>1, <1>2 DEF NoneGetsPending

LEMMA GuardsResolve ==
    ASSUME StoreTypeOK, NEW r \in Sessions, ActivatePending(r) \/ CancelPending(r)
    PROVE  rows'[r].status # "pending"
<1>1. CASE rows[r].status = "pending"
  <2>1. rows'[r].status \in {"active", "cancelled"}
    BY <1>1 DEF ActivatePending, CancelPending, StoreTypeOK, Row, Status
  <2> QED BY <2>1
<1>2. CASE rows[r].status # "pending"
  BY <1>2 DEF ActivatePending, CancelPending, Status
<1> QED BY <1>1, <1>2

(* A goroutine that is not in start_wait goes on. *)
LEMMA OthersWait ==
    ASSUME ProcTypeOK, lock' = lock, NEW g \in Procs, pc[g] # "start_wait",
           \E label : Goto(g, label) \/ \E s, p : Enter(g, label, s, p)
    PROVE  WaitersStay
<1>1. \A h \in Procs : h # g => pc'[h] = pc[h] /\ sess'[h] = sess[h]
  BY DEF Goto, Enter, ProcTypeOK
<1> QED BY <1>1 DEF WaitersStay

LEMMA StopPending ==
    ASSUME TypeOK, NEW g \in Procs,
           \/ \E s \in Sessions : StopRead(g, s) \/ PollDisconnected(g, s)
           \/ \E p \in Plugs : ConfirmOffline(g, p)
           \/ StopWrite(g) \/ StopPublish(g) \/ StopDone(g)
           \/ CancelWrite(g) \/ CutPower(g)
    PROVE  NoneGetsPending /\ WaitersStay
<1> USE DEF TypeOK
<1>1. NoneGetsPending
  BY UnchangedGetsPending, StatusGetsPending
  DEF StopRead, PollDisconnected, ConfirmOffline, StopWrite, StopPublish, StopDone,
      CancelWrite, CutPower, UpdateEndWithStats, UpdateCancelData
<1>2. pc[g] # "start_wait" /\ \E label : Goto(g, label) \/ \E s, p : Enter(g, label, s, p)
  BY DEF StopRead, PollDisconnected, ConfirmOffline, StopWrite, StopPublish, StopDone,
      CancelWrite, CutPower, At, Return
<1>3. lock' = lock
  BY DEF StopRead, PollDisconnected, ConfirmOffline, StopWrite, StopPublish, StopDone,
      CancelWrite, CutPower
<1> QED BY <1>1, <1>2, <1>3, OthersWait

LEMMA ManualPending ==
    ASSUME TypeOK, NEW g \in Procs,
           \/ \E p \in Plugs : ManualOff(g, p) \/ ManualOn(g, p)
           \/ ManualResume(g)
    PROVE  NoneGetsPending /\ WaitersStay
<1> USE DEF TypeOK
<1>1. NoneGetsPending
  BY UnchangedGetsPending, GuardsGetPending DEF ManualOff, ManualOn, ManualResume
<1>2. pc[g] # "start_wait" /\ lock' = lock
  BY DEF ManualOff, ManualOn, ManualResume, At
<1>3. \/ UNCHANGED <<pc, sess>>
      \/ \E label : \E s, p : Enter(g, label, s, p)
  BY DEF ManualOff, ManualOn, ManualResume, Return
<1> QED BY <1>1, <1>2, <1>3, OthersWait DEF WaitersStay

LEMMA ClientPending ==
    ASSUME TypeOK, NEW g \in Procs,
           \/ DeleteWrite(g)
           \/ \E s \in Sessions : \/ DeleteRead(g, s)
                                  \/ \E full \in Targets : Retarget(s, full)
    PROVE  NoneGetsPending /\ WaitersStay
<1> USE DEF TypeOK
<1>1. CASE DeleteWrite(g) \/ \E s \in Sessions : DeleteRead(g, s)
  <2>1. NoneGetsPending
    BY <1>1, UnchangedGetsPending, StatusGetsPending DEF DeleteWrite, DeleteRead, Delete
  <2>2. pc[g] # "start_wait" /\ lock' = lock /\ \E label : \E s, p : Enter(g, label, s, p)
    BY <1>1 DEF DeleteWrite, DeleteRead, At, Return
  <2> QED BY <2>1, <2>2, OthersWait
<1>2. ASSUME NEW s \in Sessions, NEW full \in Targets, Retarget(s, full)
      PROVE  NoneGetsPending /\ WaitersStay
  <2>1. \A t \in Sessions : rows'[t].status = rows[t].status
    BY <1>2 DEF Retarget, UpdateTarget, StoreTypeOK, Row
  <2> QED BY <1>2, <2>1, UnchangedGetsPending DEF Retarget, procVars, WaitersStay
<1> QED BY <1>1, <1>2

LEMMA CheckerPending ==
    ASSUME TypeOK,
           \/ \E check \in Checks : CheckerList(check)
           \/ \E t \in todo : \/ CheckerSkip(t) \/ CheckerHold(t) \/ CheckerCondition(t)
                              \/ CheckerStop(t) \/ CheckerResume(t)
           \/ CheckerConfirmed \/ CheckerTimeout \/ CheckerWrite
    PROVE  NoneGetsPending /\ WaitersStay
<1> USE DEF TypeOK
<1>1. NoneGetsPending
  BY UnchangedGetsPending, StatusGetsPending, GuardsGetPending
  DEF CheckerList, CheckerSkip, CheckerHold, CheckerCondition, CheckerStop, CheckerResume,
      CheckerConfirmed, CheckerTimeout, CheckerWrite, UpdateStatus
<1>2. lock' = lock
  BY DEF CheckerList, CheckerSkip, CheckerHold, CheckerCondition, CheckerStop, CheckerResume,
         CheckerConfirmed, CheckerTimeout, CheckerWrite
<1>3. pc[Checker] # "start_wait"
  BY DEF CheckerList, CheckerSkip, CheckerHold, CheckerCondition, CheckerStop, CheckerResume,
         CheckerConfirmed, CheckerTimeout, CheckerWrite, Take, At
<1>4. \/ UNCHANGED <<pc, sess>>
      \/ \E label : Goto(Checker, label) \/ \E s, p : Enter(Checker, label, s, p)
  BY DEF CheckerList, CheckerSkip, CheckerHold, CheckerCondition, CheckerStop, CheckerResume,
         CheckerConfirmed, CheckerTimeout, CheckerWrite, Return
<1> QED BY <1>1, <1>2, <1>3, <1>4, OthersWait, WorkersAreProcs DEF WaitersStay

LEMMA InboundPending ==
    ASSUME TypeOK,
           \/ \E p \in Plugs : \/ ReconcileRead(p) \/ SensorArrives(p) \/ Report(p)
                               \/ Lose(p) \/ ComeBack(p) \/ State(p)
                               \/ Press(p) \/ Drop(p)
           \/ SensorSave \/ Disconnect \/ Connect
           \/ \E g \in Procs : WaitOn(g)
    PROVE  NoneGetsPending /\ WaitersStay
<1> USE DEF TypeOK
<1>1. rows' = rows /\ lock' = lock
  BY DEF ReconcileRead, SensorArrives, Report, Lose, ComeBack, State,
         Press, Drop, Disconnect, Connect, SensorSave,
         WaitOn, procVars
<1>2. \/ UNCHANGED <<pc, sess>>
      \/ /\ pc[Inbound] # "start_wait"
         /\ \E label : \E s, p : Enter(Inbound, label, s, p)
  BY DEF ReconcileRead, SensorArrives, Report, Lose, ComeBack, State,
         Press, Drop, Disconnect, Connect, SensorSave,
         WaitOn, procVars, Return, At
<1>3. WaitersStay
  BY <1>1, <1>2, OthersWait, WorkersAreProcs DEF WaitersStay
<1> QED BY <1>1, <1>3, UnchangedGetsPending

LEMMA PollPending ==
    ASSUME TypeOK, NEW s \in Sessions, PollActivate(s)
    PROVE  NoneGetsPending /\ WaitersStay
BY GuardsGetPending DEF TypeOK, PollActivate, procVars, WaitersStay

(* The steps of a start: when it has the lock there is no pending row but   *)
(* its own, and it leaves the row resolved.  The poller with the lock finds *)
(* no pending row.                                                          *)
LEMMA StartPending ==
    ASSUME TypeOK, PendingInv, NEW g \in Procs,
           \/ \E p \in Plugs : StartCheck(g, p)
           \/ StartConfirmed(g) \/ StartTimeout(g) \/ StartCut(g) \/ StartOffDone(g)
           \/ g = Poller /\ (PollCut \/ \E s \in Sessions : PollTimeout(s))
    PROVE  \A s \in Sessions : rows'[s].status # "pending"
<1> USE DEF TypeOK
<1>1. CASE \E p \in Plugs : StartCheck(g, p)
  BY <1>1 DEF StartCheck, Free, PendingInv, PendingIsOwned, Status
<1>2. CASE StartConfirmed(g) \/ StartTimeout(g)
  <2>1. \A s \in Sessions : rows[s].status = "pending" => s = sess[g]
    BY <1>2 DEF StartConfirmed, StartTimeout, At, PendingInv, LockHeld, PendingIsOwned, Status,
                HolderLabels
  <2>2. ActivatePending(sess[g]) \/ CancelPending(sess[g])
    BY <1>2 DEF StartConfirmed, StartTimeout
  <2>3. NoneGetsPending
    BY <2>2, GuardsGetPending
  <2>4. sess[g] \in Sessions => rows'[sess[g]].status # "pending"
    BY <2>2, GuardsResolve
  <2> QED BY <2>1, <2>3, <2>4 DEF NoneGetsPending
<1>3. CASE StartCut(g) \/ StartOffDone(g) \/ (g = Poller /\ PollCut)
  BY <1>3 DEF StartCut, StartOffDone, PollCut, At, PendingInv, LockHeld, PendingIsOwned, Status,
              HolderLabels
<1>4. ~\E s \in Sessions : PollTimeout(s)
  BY DEF PollTimeout, Free, PendingInv, PendingIsOwned
<1> QED BY <1>1, <1>2, <1>3, <1>4

LEMMA CreatePending ==
    ASSUME TypeOK, PendingInv, NEW g \in Procs, StartCreate(g)
    PROVE  PendingIsOwned'
<1> USE DEF TypeOK
<1>1. PICK s \in Sessions, v \in Vehicles, full \in Targets, hold \in Stages :
         Create(s, plug[g], v, full, hold) /\ Enter(g, "start_wait", s, plug[g])
  BY DEF StartCreate, Unborn
<1>2. lock = g /\ \A t \in Sessions : rows[t].status # "pending"
  BY DEF StartCreate, At, PendingInv, LockHeld, PendingIsOwned, Status, HolderLabels
<1>3. \A t \in Sessions \ {s} : rows'[t] = rows[t]
  BY <1>1 DEF Create, StoreTypeOK
<1>4. lock' = g /\ pc'[g] = "start_wait" /\ sess'[g] = s
  BY <1>1, <1>2 DEF StartCreate, Enter, ProcTypeOK
<1> QED BY <1>2, <1>3, <1>4, DomainAssumption DEF PendingIsOwned, Status

(* Only the environment spends of its bounds. *)
LEMMA BudgetStays ==
    ASSUME [Next]_vars, ~Crash
    PROVE  budget' = budget \/ Disconnect \/ \E p \in Plugs : Press(p) \/ Drop(p)
<1>1. ASSUME NEW g \in Procs, NEW p \in Plugs,
             StartCheck(g, p) \/ ConfirmOffline(g, p) \/ ManualOff(g, p) \/ ManualOn(g, p)
      PROVE  budget' = budget
  BY <1>1 DEF StartCheck, ConfirmOffline, ManualOff, ManualOn, KeepRest
<1>2. ASSUME NEW g \in Procs, NEW s \in Sessions,
             StopRead(g, s) \/ PollDisconnected(g, s) \/ DeleteRead(g, s)
      PROVE  budget' = budget
  BY <1>2 DEF StopRead, PollDisconnected, DeleteRead, KeepRest
<1>3. ASSUME NEW g \in Procs,
             \/ StartCreate(g) \/ StartConfirmed(g) \/ StartTimeout(g) \/ StartCut(g)
             \/ StartOffDone(g) \/ StopWrite(g) \/ StopPublish(g) \/ StopDone(g)
             \/ CancelWrite(g) \/ CutPower(g) \/ ManualResume(g) \/ DeleteWrite(g) \/ HangUp(g) \/ WaitOn(g)
      PROVE  budget' = budget
  BY <1>3 DEF StartCreate, StartConfirmed, StartTimeout, StartCut, StartOffDone, StopWrite,
              StopPublish, StopDone, CancelWrite, CutPower, ManualResume, DeleteWrite, HangUp, WaitOn,
              KeepRest, procVars
<1>4. ASSUME \/ PollCut
             \/ \E s \in Sessions : \/ PollTimeout(s) \/ PollActivate(s)
                                    \/ \E full \in Targets : Retarget(s, full)
      PROVE  budget' = budget
  BY <1>4 DEF PollCut, PollTimeout, PollActivate, Retarget, KeepRest, procVars
<1>5. ASSUME \/ \E check \in Checks : CheckerList(check)
             \/ \E t \in todo : \/ CheckerSkip(t) \/ CheckerHold(t) \/ CheckerCondition(t)
                                \/ CheckerStop(t) \/ CheckerResume(t)
             \/ CheckerConfirmed \/ CheckerTimeout \/ CheckerWrite
      PROVE  budget' = budget
  BY <1>5 DEF CheckerList, CheckerSkip, CheckerHold, CheckerCondition, CheckerStop,
              CheckerResume, CheckerConfirmed, CheckerTimeout, CheckerWrite, KeepRest
<1>6. ASSUME NEW p \in Plugs,
             \/ ReconcileRead(p) \/ SensorArrives(p) \/ Report(p)
             \/ Lose(p) \/ ComeBack(p) \/ State(p)
      PROVE  budget' = budget
  BY <1>6 DEF ReconcileRead, SensorArrives, Report, Lose, ComeBack, State, procVars, KeepRest
<1>7. SensorSave \/ Connect => budget' = budget
  BY DEF SensorSave, Connect, procVars, KeepRest
<1>8. UNCHANGED vars => budget' = budget
  BY DEF vars, procVars
<1>9. CASE Next
  BY <1>1, <1>2, <1>3, <1>4, <1>5, <1>6, <1>7, <1>9, NextCases
<1> QED BY <1>8, <1>9

LEMMA PendingStep ==
    ASSUME NoHangUp, TypeOK, BirthInv, PendingInv, [Next]_vars
    PROVE  PendingInv'
<1>1. LockHeld'
  BY BirthStep DEF BirthInv
<1>2. ~Crash /\ \A g \in Procs : ~HangUp(g)
  BY DEF NoHangUp, HangUp, Crash, Spend, PendingInv
<1>3. budget'.crashes = 0
  <2>1. budget' = budget \/ Disconnect \/ \E p \in Plugs : Press(p) \/ Drop(p)
    BY <1>2, BudgetStays
  <2>2. ASSUME Disconnect \/ \E p \in Plugs : Press(p) \/ Drop(p) PROVE budget'.crashes = 0
    BY <2>2 DEF Disconnect, Press, Drop, Spend, PendingInv, TypeOK, ProcTypeOK
  <2> QED BY <2>1, <2>2 DEF PendingInv
<1>4. PendingIsOwned'
  <2>1. CASE Next
    <3>1. \/ \A s \in Sessions : rows'[s].status # "pending"
          \/ \E g \in Procs : StartCreate(g)
          \/ NoneGetsPending /\ WaitersStay
      BY <1>2, <2>1, NextCases, WorkersAreProcs, StartPending, StopPending, PollPending, ManualPending,
         ClientPending, CheckerPending, InboundPending
    <3> QED BY <3>1, CreatePending, PendingKept DEF PendingIsOwned, Status
  <2>2. CASE UNCHANGED vars
    BY <2>2 DEF vars, procVars, PendingInv, PendingIsOwned, Status
  <2> QED BY <2>1, <2>2
<1> QED BY <1>1, <1>3, <1>4 DEF PendingInv

(***************************************************************************)
(* While no client goes away and the process does not die, a pending row   *)
(* belongs to the start that holds the lock and waits for its plug, in     *)
(* every mode: no poll times it out or activates it behind that start's    *)
(* back, and a start that returns has resolved it.                         *)
(***************************************************************************)
THEOREM PendingRowsAreOwned == ASSUME NoHangUp, NoCrash PROVE Spec => []PendingIsOwned
<1>1. Init => BirthInv /\ PendingInv
  BY DEF Init, BirthInv, StillFree, PendingInv, LockHeld, PendingIsOwned, StoreInit, NoRow,
         Status, NoCrash, At, HolderLabels
<1>2. TypeOK /\ BirthInv /\ PendingInv /\ [Next]_vars => BirthInv' /\ PendingInv'
  BY PendingStep, BirthStep
<1>3. PendingInv => PendingIsOwned
  BY DEF PendingInv
<1> QED BY <1>1, <1>2, <1>3, TypeCorrect, PTL DEF Spec

----------------------------------------------------------------------------
(* The relay.  Without presses and hang-ups a plug heads for "on" -- its    *)
(* last command, or its relay when none is under way -- only while somebody *)
(* sees to it: a session, a goroutine about to cut it, the plug's return or  *)
(* that of the API's own connection.                                        *)

NoPress == MaxPresses = 0

Heading(p) == IF cmds[p] = <<>> THEN relay[p] ELSE cmds[p][Len(cmds[p])]

CutLabels == {"start_cut", "stop_publish", "cut", "poll_cut"}
Cutting(p) == \E g \in Procs : plug[g] = p /\ pc[g] \in CutLabels

SeenTo(p) == ~online[p] \/ ~link \/ p \in hello \/ Cutting(p) \/ InProgressOn(p) # {}
OnIsSeenTo(p) == Heading(p) = "on" => SeenTo(p)

(* What a goroutine is about to write or cut is its own session's.          *)
Owns(g) ==
    /\ pc[g] \in {"start_wait", "stop_write", "cancel_write"} =>
          sess[g] \in Sessions /\ Status(sess[g]) # "unborn" /\ plug[g] = rows[sess[g]].plug
    /\ pc[g] = "delete_write" =>
          sess[g] \in Sessions /\ Status(sess[g]) \notin InProgress \cup {"unborn"}

OwnsInv == (\A g \in Procs : Owns(g)) /\ (\A t \in todo : Status(t.s) # "unborn")

Bounded == \A p \in Plugs : Len(cmds[p]) <= MaxInFlight

RelayInv ==
    /\ \A p \in Plugs : OnIsSeenTo(p)
    /\ OwnsInv /\ Bounded /\ budget.presses = 0

(* Born rows stay born and keep their plugs, and ended ones stay ended. *)
KeepsBorn ==
    \A s \in Sessions : rows[s].status # "unborn" =>
        /\ rows'[s].status # "unborn" /\ rows'[s].plug = rows[s].plug
        /\ rows'[s].status \in InProgress => rows[s].status \in InProgress

LEMMA RowsKeepBorn ==
    ASSUME TypeOK, ClaimInv, Plain, [Next]_vars
    PROVE  KeepsBorn
<1>1. NoneBegins => KeepsBorn
  BY DEF NoneBegins, KeepsBorn
<1>2. ASSUME NEW g \in Procs, StartCreate(g) PROVE KeepsBorn
  <2>1. PICK s \in Sessions : Status(s) = "unborn" /\ \A t \in Sessions \ {s} : rows'[t] = rows[t]
    BY <1>2, CreateKeeps
  <2> QED BY <2>1 DEF KeepsBorn, Status
<1> QED BY <1>1, <1>2, ClaimStep

(* One goroutine moves. *)
LEMMA OneMoves ==
    ASSUME ProcTypeOK, NEW g \in Procs, NEW label,
           Goto(g, label) \/ \E s, p : Enter(g, label, s, p)
    PROVE  /\ pc'[g] = label
           /\ \A h \in Procs \ {g} :
                 pc'[h] = pc[h] /\ sess'[h] = sess[h] /\ plug'[h] = plug[h]
BY DEF Goto, Enter, ProcTypeOK

LEMMA OwnsKept ==
    ASSUME KeepsBorn, NEW h \in Procs, Owns(h),
           pc'[h] = pc[h], sess'[h] = sess[h], plug'[h] = plug[h]
    PROVE  Owns(h)'
BY DEF Owns, KeepsBorn, Status, InProgress

Unowned == {"idle", "start_check", "start_create", "start_cut", "start_off", "stop_publish",
            "stop_wait", "cut", "poll_cut", "manual_resume", "sensor_lock"}

(* It moves to where it owes nothing, or takes a session that was born. *)
LEMMA MoveOwns ==
    ASSUME ProcTypeOK, OwnsInv, KeepsBorn, todo' \subseteq todo, todo \subseteq Snapshot,
           NEW g \in Procs, NEW label \in Unowned,
           Goto(g, label) \/ \E s, p : Enter(g, label, s, p)
    PROVE  OwnsInv'
<1>1. \A h \in Procs \ {g} : Owns(h)'
  BY OneMoves, OwnsKept DEF OwnsInv
<1>2. Owns(g)'
  BY OneMoves DEF Owns, Unowned
<1>3. \A t \in todo' : Status(t.s)' # "unborn"
  BY DEF OwnsInv, KeepsBorn, Status, Snapshot
<1> QED BY <1>1, <1>2, <1>3 DEF OwnsInv

LEMMA TakeOwns ==
    ASSUME ProcTypeOK, OwnsInv, KeepsBorn, todo' \subseteq todo, todo \subseteq Snapshot,
           rows' = rows, NEW g \in Procs, NEW s \in Sessions, Status(s) # "unborn",
           \/ Enter(g, "stop_write", s, rows[s].plug)
           \/ Enter(g, "cancel_write", s, rows[s].plug)
           \/ Enter(g, "delete_write", s, rows[s].plug) /\ Status(s) \notin InProgress
    PROVE  OwnsInv'
<1>1. \A h \in Procs \ {g} : Owns(h)'
  BY OneMoves, OwnsKept DEF OwnsInv
<1>2. /\ sess'[g] = s /\ plug'[g] = rows[s].plug
      /\ \/ pc'[g] \in {"stop_write", "cancel_write"}
         \/ pc'[g] = "delete_write" /\ Status(s) \notin InProgress
  BY DEF Enter, ProcTypeOK
<1>3. Owns(g)'
  BY <1>2 DEF Owns, Status
<1>4. \A t \in todo' : Status(t.s)' # "unborn"
  BY DEF OwnsInv, KeepsBorn, Status, Snapshot
<1> QED BY <1>1, <1>3, <1>4 DEF OwnsInv

LEMMA StayOwns ==
    ASSUME OwnsInv, KeepsBorn, UNCHANGED <<pc, sess, plug>>, todo' \subseteq todo,
           todo \subseteq Snapshot
    PROVE  OwnsInv'
<1>1. \A h \in Procs : Owns(h)'
  BY OwnsKept DEF OwnsInv
<1>2. \A t \in todo' : Status(t.s)' # "unborn"
  BY DEF OwnsInv, KeepsBorn, Status, Snapshot
<1> QED BY <1>1, <1>2 DEF OwnsInv

LEMMA TodoTyped == ASSUME TypeOK PROVE todo \subseteq Snapshot
BY DEF TypeOK, ProcTypeOK

LEMMA OwnsStep ==
    ASSUME NoHangUp, Plain, TypeOK, ClaimInv, OwnsInv, [Next]_vars
    PROVE  OwnsInv'
<1> USE DEF TypeOK
<1>0. KeepsBorn /\ todo \subseteq Snapshot
  BY RowsKeepBorn, TodoTyped
<1>1. ASSUME NEW g \in Procs,
             \/ \E p \in Plugs : StartCheck(g, p)
             \/ StartConfirmed(g) \/ StartTimeout(g) \/ StartCut(g) \/ StartOffDone(g)
             \/ StopPublish(g) \/ StopDone(g) \/ CutPower(g)
             \/ StopWrite(g) \/ CancelWrite(g) \/ ManualResume(g) \/ DeleteWrite(g)
      PROVE  OwnsInv'
  <2>1. \E label \in Unowned : Goto(g, label) \/ \E s, p : Enter(g, label, s, p)
    BY <1>1 DEF StartCheck, StartConfirmed, StartTimeout, StartCut, StartOffDone, StopPublish,
       StopDone, CutPower, StopWrite, CancelWrite, ManualResume, DeleteWrite, Return, Unowned
  <2>2. todo' = todo
    BY <1>1 DEF StartCheck, StartConfirmed, StartTimeout, StartCut, StartOffDone, StopPublish,
       StopDone, CutPower, StopWrite, CancelWrite, ManualResume, DeleteWrite, KeepRest
  <2> QED BY <1>0, <2>1, <2>2, MoveOwns
<1>2. ASSUME NEW g \in Procs, StartCreate(g) PROVE OwnsInv'
  <2>1. PICK s \in Sessions, v \in Vehicles :
           Create(s, plug[g], v, FALSE, FALSE) /\ Enter(g, "start_wait", s, plug[g])
    BY <1>2 DEF StartCreate, Unborn, Plain
  <2>2. rows'[s].status = "pending" /\ rows'[s].plug = plug[g]
    BY <2>1 DEF Create, StoreTypeOK
  <2>3. Owns(g)'
    BY <2>1, <2>2 DEF Enter, ProcTypeOK, Owns, Status
  <2>4. \A h \in Procs \ {g} : Owns(h)'
    BY <1>0, <2>1, OneMoves, OwnsKept DEF OwnsInv
  <2>5. \A t \in todo' : Status(t.s)' # "unborn"
    BY <1>0, <1>2 DEF StartCreate, KeepRest, OwnsInv, KeepsBorn, Status, Snapshot
  <2> QED BY <2>3, <2>4, <2>5 DEF OwnsInv
<1>3. ASSUME NEW g \in Procs, NEW s \in Sessions,
             StopRead(g, s) \/ PollDisconnected(g, s) \/ DeleteRead(g, s)
      PROVE  OwnsInv'
  <2>1. Status(s) # "unborn" /\ rows' = rows /\ todo' = todo
    BY <1>3 DEF StopRead, PollDisconnected, DeleteRead, ListActive, Exists, InProgress, Ended,
                KeepRest
  <2>2. \/ Enter(g, "stop_write", s, rows[s].plug)
        \/ Enter(g, "cancel_write", s, rows[s].plug)
        \/ Enter(g, "delete_write", s, rows[s].plug) /\ Status(s) \notin InProgress
    BY <1>3 DEF StopRead, PollDisconnected, DeleteRead, StopLabel, ClaimInv, PlainRows, InProgress
  <2> QED BY <1>0, <2>1, <2>2, TakeOwns
<1>4. ASSUME NEW g \in Procs, NEW p \in Plugs,
             ConfirmOffline(g, p) \/ ManualOff(g, p) \/ ManualOn(g, p)
      PROVE  OwnsInv'
  <2>1. rows' = rows /\ todo' = todo
    BY <1>4 DEF ConfirmOffline, ManualOff, ManualOn, KeepRest
  <2>2. \/ UNCHANGED <<pc, sess, plug>>
        \/ \E label \in Unowned : \E s, q : Enter(g, label, s, q)
        \/ \E s \in InProgressOn(p) : Enter(g, "stop_write", s, p) \/ Enter(g, "cancel_write", s, p)
    BY <1>4 DEF ConfirmOffline, ManualOff, ManualOn, StopLabel, Unowned
  <2>3. \A s \in InProgressOn(p) : s \in Sessions /\ Status(s) # "unborn" /\ rows[s].plug = p
    BY DEF InProgressOn, ListActive, InProgress
  <2> QED BY <1>0, <2>1, <2>2, <2>3, MoveOwns, TakeOwns, StayOwns
<1>5. ASSUME \/ \E check \in Checks : CheckerList(check)
             \/ \E t \in todo : \/ CheckerSkip(t) \/ CheckerHold(t) \/ CheckerCondition(t)
                                \/ CheckerStop(t) \/ CheckerResume(t)
             \/ CheckerConfirmed \/ CheckerTimeout \/ CheckerWrite
      PROVE  OwnsInv'
  <2>1. CASE \E check \in Checks : CheckerList(check)
    <3>1. rows' = rows /\ UNCHANGED <<pc, sess, plug>> /\ \A t \in todo' : Status(t.s) # "unborn"
      BY <2>1 DEF CheckerList, Picks, Checks
    <3>2. \A h \in Procs : Owns(h)'
      BY <1>0, <3>1, OwnsKept DEF OwnsInv
    <3> QED BY <3>1, <3>2 DEF OwnsInv, Status
  <2>2. ASSUME NEW t \in todo,
               \/ CheckerSkip(t) \/ CheckerHold(t) \/ CheckerCondition(t)
               \/ CheckerStop(t) \/ CheckerResume(t)
        PROVE  OwnsInv'
    <3>1. CheckerSkip(t) \/ CheckerStop(t)
      BY <2>2 DEF CheckerHold, CheckerCondition, CheckerResume, ClaimInv, PlainChecker
    <3>2. /\ rows' = rows /\ todo' \subseteq todo
          /\ UNCHANGED <<pc, sess, plug>> \/ Enter(Checker, "stop_write", t.s, rows[t.s].plug)
      BY <3>1 DEF CheckerSkip, CheckerStop, Take
    <3>3. t.s \in Sessions /\ Status(t.s) # "unborn"
      BY <1>0 DEF Snapshot, OwnsInv
    <3> QED BY <1>0, <3>2, <3>3, StayOwns, TakeOwns, WorkersAreProcs
  <2>3. ~(CheckerConfirmed \/ CheckerTimeout \/ CheckerWrite)
    BY DEF CheckerConfirmed, CheckerTimeout, CheckerWrite, At, ClaimInv, PlainChecker
  <2> QED BY <1>5, <2>1, <2>2, <2>3
<1>6. ASSUME \/ \E p \in Plugs : \/ ReconcileRead(p) \/ SensorArrives(p) \/ Report(p)
                                \/ Lose(p) \/ ComeBack(p) \/ State(p)
                                \/ Press(p) \/ Drop(p)
             \/ SensorSave \/ Disconnect \/ Connect
             \/ \E g \in Procs : WaitOn(g)
             \/ PollCut \/ \E s \in Sessions : PollTimeout(s) \/ PollActivate(s)
             \/ UNCHANGED vars
      PROVE  OwnsInv'
  <2>1. todo' = todo
    BY <1>6 DEF ReconcileRead, SensorArrives, Report, Lose, ComeBack, State,
                Press, Drop, Disconnect, Connect, SensorSave,
       WaitOn, PollCut, PollTimeout, PollActivate, procVars, vars, KeepRest
  <2>2. \/ UNCHANGED <<pc, sess, plug>>
        \/ \E g \in {Inbound, Poller}, label \in Unowned : \E s, q : Enter(g, label, s, q)
    BY <1>6 DEF ReconcileRead, SensorArrives, Report, Lose, ComeBack, State,
                Press, Drop, Disconnect, Connect, SensorSave,
       WaitOn, PollCut, PollTimeout, PollActivate, procVars, vars, Return, Unowned
  <2> QED BY <1>0, <2>1, <2>2, StayOwns, MoveOwns, WorkersAreProcs
<1>7. ASSUME Crash PROVE OwnsInv'
  BY <1>7 DEF Crash, OwnsInv, Owns
<1>8. ASSUME NEW s \in Sessions, NEW full \in Targets PROVE ~Retarget(s, full)
  BY DEF Retarget, Plain, ClaimInv, PlainRows, StoreTypeOK, Row
<1>9. ASSUME NEW g \in Procs PROVE ~HangUp(g)
  BY DEF HangUp, NoHangUp
<1>10. CASE Next
  BY <1>1, <1>2, <1>3, <1>4, <1>5, <1>6, <1>7, <1>8, <1>9, <1>10, NextCases
<1> QED BY <1>6, <1>10

(* The commands. *)

LEMMA SetPowerHeads ==
    ASSUME RelayTypeOK, Bounded, NEW p \in Plugs, NEW x \in Power, SetPower(p, x), link,
           relay' = relay
    PROVE  /\ Heading(p)' = x
           /\ \A q \in Plugs \ {p} : Heading(q)' = Heading(q)
           /\ Bounded'
<1>1. MaxInFlight \in Nat \ {0} /\ cmds[p] \in Seq(Power) /\ Len(cmds[p]) \in Nat
  BY InFlightAssumption, LenProperties DEF RelayTypeOK
<1>2. \A q \in Plugs \ {p} : cmds'[q] = cmds[q]
  BY DEF SetPower, RelayTypeOK
<1>3. CASE Len(cmds[p]) < MaxInFlight
  <2>1. cmds'[p] = Append(cmds[p], x)
    BY <1>3 DEF SetPower, RelayTypeOK
  <2>2. Len(cmds'[p]) = Len(cmds[p]) + 1 /\ cmds'[p][Len(cmds[p]) + 1] = x /\ cmds'[p] # <<>>
    BY <1>1, <2>1, AppendProperties
  <2> QED BY <1>1, <1>2, <1>3, <2>2 DEF Heading, Bounded
<1>4. CASE ~(Len(cmds[p]) < MaxInFlight)
  <2>1. Len(cmds[p]) = MaxInFlight
    BY <1>1, <1>4 DEF Bounded
  <2>2. cmds'[p] = [cmds[p] EXCEPT ![MaxInFlight] = x]
    BY <1>4 DEF SetPower, RelayTypeOK
  <2>3. MaxInFlight \in 1 .. Len(cmds[p])
    BY <1>1, <2>1
  <2>4. cmds'[p] \in Seq(Power) /\ Len(cmds'[p]) = MaxInFlight /\ cmds'[p][MaxInFlight] = x
    BY <1>1, <2>1, <2>2, <2>3, ExceptSeq
  <2>5. cmds'[p] # <<>>
    BY <1>1, <2>4, EmptySeq
  <2> QED BY <1>1, <1>2, <2>4, <2>5 DEF Heading, Bounded
<1> QED BY <1>3, <1>4

LEMMA LastOfTail ==
    ASSUME NEW S, NEW q \in Seq(S), q # <<>>
    PROVE  IF Tail(q) = <<>> THEN Head(q) = q[Len(q)] ELSE Tail(q)[Len(Tail(q))] = q[Len(q)]
<1> DEFINE rest == Tail(q)
           n == Len(q)
           m == Len(rest)
<1>1. /\ n \in Nat \ {0} /\ m = n - 1
      /\ Head(q) = q[1] /\ \A i \in 1 .. m : rest[i] = q[i + 1]
  BY HeadTailProperties, EmptySeq
<1>2. rest # <<>> => m \in Nat \ {0}
  BY HeadTailProperties, EmptySeq
<1>3. rest = <<>> => m = 0
  BY EmptySeq
<1> HIDE DEF rest, n, m
<1>4. IF rest = <<>> THEN Head(q) = q[n] ELSE rest[m] = q[n]
  BY <1>1, <1>2, <1>3
<1> QED BY <1>4 DEF rest, n, m

LEMMA TailHeads ==
    ASSUME RelayTypeOK, Bounded, NEW p \in Plugs, cmds[p] # <<>>,
           cmds' = [cmds EXCEPT ![p] = Tail(@)],
           \A q \in Plugs \ {p} : relay'[q] = relay[q]
    PROVE  /\ \A q \in Plugs \ {p} : Heading(q)' = Heading(q)
           /\ relay'[p] = Head(cmds[p]) => Heading(p)' = Heading(p)
           /\ Bounded'
<1>1. cmds[p] \in Seq(Power) /\ Len(cmds[p]) \in Nat /\ MaxInFlight \in Nat
  BY LenProperties, InFlightAssumption DEF RelayTypeOK
<1>2. cmds'[p] = Tail(cmds[p]) /\ \A q \in Plugs \ {p} : cmds'[q] = cmds[q]
  BY DEF RelayTypeOK
<1>3. /\ Tail(cmds[p]) \in Seq(Power) /\ Len(Tail(cmds[p])) = Len(cmds[p]) - 1
      /\ \A i \in 1 .. Len(Tail(cmds[p])) : Tail(cmds[p])[i] = cmds[p][i + 1]
  BY <1>1, HeadTailProperties
<1>4. relay'[p] = Head(cmds[p]) => Heading(p)' = Heading(p)
  BY <1>1, <1>2, LastOfTail DEF Heading
<1>5. Bounded'
  BY <1>1, <1>2, <1>3 DEF Bounded
<1> QED BY <1>2, <1>4, <1>5 DEF Heading

(* Nothing that sees to plug p goes without leaving something that does.    *)
LEMMA SeenToStays ==
    ASSUME NEW p, OnIsSeenTo(p), Heading(p)' = Heading(p),
           online'[p] => online[p], link' => link,
           p \in hello => p \in hello' \/ ~online'[p] \/ Cutting(p)' \/ InProgressOn(p)' # {},
           \A g \in Procs : plug[g] = p /\ pc[g] \in CutLabels =>
                              plug'[g] = p /\ pc'[g] \in CutLabels,
           \A s \in InProgressOn(p) : s \in InProgressOn(p)' \/ Cutting(p)'
    PROVE  OnIsSeenTo(p)'
<1>1. Cutting(p) => Cutting(p)'
  BY DEF Cutting
<1> QED BY <1>1 DEF OnIsSeenTo, SeenTo

(* The steps that publish nothing and end no session. *)

KeepsProgress ==
    \A s \in Sessions : rows[s].status \in InProgress =>
        rows'[s].status \in InProgress /\ rows'[s].plug = rows[s].plug

CuttersStay ==
    \A g \in Procs : pc[g] \in CutLabels => pc'[g] \in CutLabels /\ plug'[g] = plug[g]

LEMMA QuietSeenTo ==
    ASSUME \A p \in Plugs : OnIsSeenTo(p), UNCHANGED <<relay, online, cmds, hello, link>>,
           KeepsProgress, CuttersStay
    PROVE  \A p \in Plugs : OnIsSeenTo(p)'
<1> TAKE p \in Plugs
<1>1. Heading(p)' = Heading(p)
  BY DEF Heading
<1>2. \A s \in InProgressOn(p) : s \in InProgressOn(p)'
  BY DEF KeepsProgress, InProgressOn, ListActive, Status
<1> QED BY <1>1, <1>2, SeenToStays DEF CuttersStay

LEMMA SameProgress == ASSUME \A s \in Sessions : rows'[s] = rows[s] PROVE KeepsProgress
BY DEF KeepsProgress

LEMMA ActivateProgress ==
    ASSUME StoreTypeOK, PlainRows, NEW r, ActivatePending(r) \/ ResumeHolding(r)
    PROVE  KeepsProgress
<1>1. \A s \in Sessions : s # r => rows'[s] = rows[s]
  BY DEF ActivatePending, ResumeHolding, StoreTypeOK
<1>2. r \in Sessions => rows'[r].status \in {rows[r].status, "active"} /\ rows'[r].plug = rows[r].plug
  BY DEF ActivatePending, ResumeHolding, StoreTypeOK, Row
<1> QED BY <1>1, <1>2 DEF KeepsProgress, InProgress

LEMMA CutterMoves ==
    ASSUME ProcTypeOK, NEW g \in Procs, NEW label, label \in CutLabels \/ pc[g] \notin CutLabels,
           Goto(g, label) \/ (pc[g] \notin CutLabels /\ \E s, p : Enter(g, label, s, p))
    PROVE  CuttersStay
<1>1. Goto(g, label) => plug' = plug
  BY DEF Goto
<1> QED BY <1>1, OneMoves DEF CuttersStay

LEMMA QuietStep ==
    ASSUME Plain, TypeOK, ClaimInv, OwnsInv, \A p \in Plugs : OnIsSeenTo(p),
           \/ \E g \in Procs :
                 \/ \E p \in Plugs : \/ StartCheck(g, p) \/ ConfirmOffline(g, p)
                                    \/ ManualOff(g, p) \/ ManualOn(g, p)
                 \/ \E s \in Sessions : StopRead(g, s) \/ PollDisconnected(g, s) \/ DeleteRead(g, s)
                 \/ StartConfirmed(g) \/ StartOffDone(g) \/ StopDone(g)
                 \/ ManualResume(g) \/ DeleteWrite(g) \/ WaitOn(g)
           \/ \E s \in Sessions : PollActivate(s)
           \/ \E check \in Checks : CheckerList(check)
           \/ \E t \in todo : CheckerSkip(t) \/ CheckerStop(t)
           \/ \E p \in Plugs : SensorArrives(p)
           \/ SensorSave
           \/ UNCHANGED vars
    PROVE  (\A p \in Plugs : OnIsSeenTo(p)') /\ cmds' = cmds
<1> USE DEF TypeOK, ClaimInv
<1>1. UNCHANGED <<relay, online, cmds, hello, link>>
  BY DEF StartCheck, ConfirmOffline, ManualOff, ManualOn, StopRead, PollDisconnected, DeleteRead,
     StartConfirmed, StartOffDone, StopDone, ManualResume, DeleteWrite, WaitOn, Rearm, PollActivate,
     CheckerList, CheckerSkip, CheckerStop, SensorArrives, SensorSave, vars, relayVars, wire,
     NoPowerIO
<1>2. KeepsProgress
  <2>1. ASSUME NEW g \in Procs, StartConfirmed(g) \/ ManualResume(g) PROVE KeepsProgress
    BY <2>1, ActivateProgress DEF StartConfirmed, ManualResume
  <2>2. ASSUME NEW s \in Sessions, PollActivate(s) PROVE KeepsProgress
    BY <2>2, ActivateProgress DEF PollActivate
  <2>3. ASSUME NEW g \in Procs, DeleteWrite(g) PROVE KeepsProgress
    <3>1. Status(sess[g]) \notin InProgress
      BY <2>3 DEF DeleteWrite, At, OwnsInv, Owns
    <3>2. \A s \in Sessions : s # sess[g] => rows'[s] = rows[s]
      BY <2>3 DEF DeleteWrite, Delete, SetStatus, StoreTypeOK
    <3> QED BY <3>1, <3>2 DEF KeepsProgress, Status
  <2>4. ASSUME rows' = rows PROVE KeepsProgress
    BY <2>4, SameProgress
  <2> QED BY <2>1, <2>2, <2>3, <2>4
      DEF StartCheck, ConfirmOffline, ManualOff, ManualOn, StopRead, PollDisconnected, DeleteRead,
          StartOffDone, StopDone, WaitOn, CheckerList, CheckerSkip, CheckerStop, SensorArrives,
          SensorSave, vars
<1>3. CuttersStay
  <2>1. ASSUME NEW g \in Procs, pc[g] \notin CutLabels,
               UNCHANGED <<pc, plug>> \/ \E label : \E s, p : Enter(g, label, s, p)
        PROVE  CuttersStay
    BY <2>1, CutterMoves DEF CuttersStay
  <2>2. ASSUME NEW g \in Procs, NEW p \in Plugs,
               StartCheck(g, p) \/ ConfirmOffline(g, p) \/ ManualOff(g, p) \/ ManualOn(g, p)
        PROVE  CuttersStay
    BY <2>1, <2>2 DEF StartCheck, ConfirmOffline, ManualOff, ManualOn, Return, At, CutLabels
  <2>3. ASSUME NEW g \in Procs,
               \/ \E s \in Sessions : StopRead(g, s) \/ PollDisconnected(g, s) \/ DeleteRead(g, s)
               \/ StartConfirmed(g) \/ StartOffDone(g) \/ StopDone(g)
               \/ ManualResume(g) \/ DeleteWrite(g)
        PROVE  CuttersStay
    BY <2>1, <2>3 DEF StopRead, PollDisconnected, DeleteRead, StartConfirmed, StartOffDone, StopDone,
       ManualResume, DeleteWrite, Return, At, CutLabels
  <2>4. ASSUME UNCHANGED <<pc, plug>> PROVE CuttersStay
    BY <2>4 DEF CuttersStay
  <2>5. ASSUME NEW t \in todo, CheckerStop(t) PROVE CuttersStay
    BY <2>1, <2>5, WorkersAreProcs DEF CheckerStop, Take, At, CutLabels
  <2>6. ASSUME SensorSave \/ \E p \in Plugs : SensorArrives(p) PROVE CuttersStay
    BY <2>1, <2>6, WorkersAreProcs DEF SensorSave, SensorArrives, Return, At, CutLabels
  <2> QED BY <2>2, <2>3, <2>4, <2>5, <2>6
      DEF WaitOn, procVars, PollActivate, CheckerList, CheckerSkip, vars
<1> QED BY <1>1, <1>2, <1>3, QuietSeenTo

(* A session that is ended has its power cut next. *)
LEMMA EndSeenTo ==
    ASSUME TypeOK, \A p \in Plugs : OnIsSeenTo(p), NEW g \in Procs, NEW r,
           UNCHANGED <<relay, online, cmds, hello, link>>,
           \A s \in Sessions : s # r => rows'[s] = rows[s],
           pc'[g] \in CutLabels, r \in Sessions => plug'[g] = rows[r].plug, CuttersStay
    PROVE  \A p \in Plugs : OnIsSeenTo(p)'
<1> TAKE p \in Plugs
<1>1. Heading(p)' = Heading(p)
  BY DEF Heading
<1>2. ASSUME NEW s \in InProgressOn(p) PROVE s \in InProgressOn(p)' \/ Cutting(p)'
  <2>1. CASE s = r
    BY <2>1 DEF InProgressOn, ListActive, Cutting
  <2>2. CASE s # r
    BY <2>2 DEF InProgressOn, ListActive, Status
  <2> QED BY <2>1, <2>2
<1> QED BY <1>1, <1>2, SeenToStays DEF CuttersStay

LEMMA EndStep ==
    ASSUME TypeOK, OwnsInv, \A p \in Plugs : OnIsSeenTo(p), NEW g \in Procs,
           \/ StopWrite(g) \/ CancelWrite(g) \/ StartTimeout(g)
           \/ g = Poller /\ \E s \in Sessions : PollTimeout(s)
    PROVE  (\A p \in Plugs : OnIsSeenTo(p)') /\ cmds' = cmds
<1> USE DEF TypeOK
<1>1. UNCHANGED <<relay, online, cmds, hello, link>>
  BY DEF StopWrite, CancelWrite, StartTimeout, PollTimeout, NoPowerIO, relayVars, wire
<1>2. CASE StopWrite(g) \/ CancelWrite(g) \/ StartTimeout(g)
  <2>1. plug[g] = rows[sess[g]].plug
    BY <1>2 DEF StopWrite, CancelWrite, StartTimeout, At, OwnsInv, Owns
  <2>2. \A s \in Sessions : s # sess[g] => rows'[s] = rows[s]
    BY <1>2 DEF StopWrite, CancelWrite, StartTimeout, UpdateEndWithStats, UpdateCancelData,
                CancelPending, SetStatus, StoreTypeOK
  <2>3. \E label \in CutLabels : Goto(g, label)
    BY <1>2 DEF StopWrite, CancelWrite, StartTimeout, CutLabels
  <2>4. pc'[g] \in CutLabels /\ plug' = plug
    BY <2>3 DEF Goto, ProcTypeOK
  <2>5. CuttersStay
    BY <2>3, CutterMoves
  <2> QED BY <1>1, <2>1, <2>2, <2>4, <2>5, EndSeenTo
<1>3. ASSUME NEW s \in Sessions, PollTimeout(s), g = Poller
      PROVE  \A p \in Plugs : OnIsSeenTo(p)'
  <2>1. \A t \in Sessions : t # s => rows'[t] = rows[t]
    BY <1>3 DEF PollTimeout, CancelPending, StoreTypeOK
  <2>2. pc[g] = "idle" /\ Enter(g, "poll_cut", s, rows[s].plug)
    BY <1>3 DEF PollTimeout, At
  <2>3. pc'[g] \in CutLabels /\ plug'[g] = rows[s].plug
    BY <2>2 DEF Enter, ProcTypeOK, CutLabels
  <2>4. CuttersStay
    BY <2>2, CutterMoves DEF CutLabels
  <2> QED BY <1>1, <2>1, <2>3, <2>4, EndSeenTo
<1> QED BY <1>1, <1>2, <1>3

(* Who publishes "off" to q may let go of q, unless the API is cut off and   *)
(* its return will see to every plug.                                       *)
LEMMA PublishSeenTo ==
    ASSUME TypeOK, Bounded, \A p \in Plugs : OnIsSeenTo(p), NEW q \in Plugs \cup {NoPlug},
           SetPower(q, "off"), UNCHANGED wire, rows' = rows,
           \A g \in Procs : pc[g] \in CutLabels /\ plug[g] # q =>
                              pc'[g] = pc[g] /\ plug'[g] = plug[g]
    PROVE  (\A p \in Plugs : OnIsSeenTo(p)') /\ Bounded'
<1> USE DEF TypeOK
<1>1. CASE ~link
  <2>1. cmds' = cmds
    BY <1>1 DEF SetPower
  <2> QED BY <1>1, <2>1 DEF wire, OnIsSeenTo, SeenTo, Bounded
<1>2. CASE link
  <2>1. /\ \A p \in Plugs \ {q} : Heading(p)' = Heading(p)
        /\ q \in Plugs => Heading(q)' = "off"
        /\ Bounded'
    <3>1. CASE q \in Plugs
      BY <1>2, <3>1, SetPowerHeads DEF wire, Power
    <3>2. CASE q \notin Plugs
      <4>1. cmds' = cmds
        BY <3>2 DEF SetPower, RelayTypeOK
      <4> QED BY <3>2, <4>1 DEF Heading, Bounded, wire
    <3> QED BY <3>1, <3>2
  <2>2. ASSUME NEW p \in Plugs \ {q} PROVE OnIsSeenTo(p)'
    <3>1. \A s \in InProgressOn(p) : s \in InProgressOn(p)'
      BY DEF InProgressOn, ListActive, Status
    <3> QED BY <2>1, <3>1, SeenToStays DEF wire
  <2>3. q \in Plugs => OnIsSeenTo(q)'
    BY <2>1 DEF OnIsSeenTo
  <2> QED BY <2>1, <2>2, <2>3
<1> QED BY <1>1, <1>2

LEMMA PublishStep ==
    ASSUME TypeOK, Bounded, \A p \in Plugs : OnIsSeenTo(p), NEW g \in Procs,
           \/ StartCut(g) \/ StopPublish(g) \/ CutPower(g)
           \/ g = Poller /\ PollCut
    PROVE  (\A p \in Plugs : OnIsSeenTo(p)') /\ Bounded'
<1> USE DEF TypeOK
<1>1. SetPower(plug[g], "off") /\ UNCHANGED wire /\ rows' = rows
  BY DEF StartCut, StopPublish, CutPower, PollCut, SetPowerAndWait
<1>2. \E label : Goto(g, label) \/ \E s, p : Enter(g, label, s, p)
  BY DEF StartCut, StopPublish, CutPower, PollCut, Return
<1>3. ASSUME NEW h \in Procs, plug[h] # plug[g] PROVE pc'[h] = pc[h] /\ plug'[h] = plug[h]
  BY <1>2, <1>3, OneMoves
<1>4. plug[g] \in Plugs \cup {NoPlug}
  BY DEF ProcTypeOK
<1> QED BY <1>1, <1>3, <1>4, PublishSeenTo

LEMMA CreateStep ==
    ASSUME Plain, TypeOK, ClaimInv, Bounded, \A p \in Plugs : OnIsSeenTo(p),
           NEW g \in Procs, StartCreate(g)
    PROVE  (\A p \in Plugs : OnIsSeenTo(p)') /\ Bounded'
<1> USE DEF TypeOK
<1>1. PICK s \in Sessions, q \in Plugs :
         /\ Status(s) = "unborn" /\ plug[g] = q
         /\ rows'[s].status = "pending" /\ rows'[s].plug = q
         /\ \A t \in Sessions \ {s} : rows'[t] = rows[t]
  BY CreateKeeps
<1>2. SetPower(q, "on") /\ UNCHANGED wire /\ pc[g] \notin CutLabels
  BY <1>1 DEF StartCreate, SetPowerAndWait, At, CutLabels
<1>3. Bounded' /\ \A p \in Plugs \ {q} : Heading(p)' = Heading(p)
  <2>1. CASE link
    BY <1>1, <1>2, <2>1, SetPowerHeads DEF wire, Power
  <2>2. CASE ~link
    BY <1>2, <2>2 DEF SetPower, wire, Heading, Bounded
  <2> QED BY <2>1, <2>2
<1>4. CuttersStay
  <2>1. \E t, p : Enter(g, "start_wait", t, p)
    BY DEF StartCreate
  <2> QED BY <1>2, <2>1, CutterMoves
<1>5. ASSUME NEW p \in Plugs \ {q} PROVE OnIsSeenTo(p)'
  <2>1. \A t \in InProgressOn(p) : t \in InProgressOn(p)'
    BY <1>1 DEF InProgressOn, ListActive, Status, InProgress
  <2> QED BY <1>2, <1>3, <1>4, <2>1, SeenToStays DEF wire, CuttersStay
<1>6. OnIsSeenTo(q)'
  <2>1. s \in InProgressOn(q)'
    BY <1>1 DEF InProgressOn, ListActive, Status, InProgress
  <2> QED BY <1>1, <2>1 DEF OnIsSeenTo, SeenTo
<1> QED BY <1>3, <1>5, <1>6

(* The plug's side: reports, losses, connections that go and come, a restart. *)
LEMMA WireStep ==
    ASSUME TypeOK, Bounded, \A p \in Plugs : OnIsSeenTo(p),
           \/ \E p \in Plugs : Report(p) \/ Lose(p) \/ ComeBack(p) \/ State(p) \/ Drop(p)
                               \/ ReconcileRead(p)
           \/ Disconnect \/ Connect \/ Crash
    PROVE  (\A p \in Plugs : OnIsSeenTo(p)') /\ Bounded'
<1> USE DEF TypeOK
<1>1. ASSUME NEW q \in Plugs, Report(q) \/ Lose(q)
      PROVE  (\A p \in Plugs : OnIsSeenTo(p)') /\ Bounded'
  <2>1. /\ cmds[q] # <<>> /\ cmds' = [cmds EXCEPT ![q] = Tail(@)]
        /\ \A p \in Plugs \ {q} : relay'[p] = relay[p]
        /\ UNCHANGED <<online, hello, link, rows, pc, plug>>
    BY <1>1 DEF Report, Lose, ApplyCommand, LoseCommand, procVars, RelayTypeOK
  <2>2. Bounded' /\ \A p \in Plugs \ {q} : Heading(p)' = Heading(p)
    BY <2>1, TailHeads
  <2>3. \A p \in Plugs : \A s \in InProgressOn(p) : s \in InProgressOn(p)'
    BY <2>1 DEF InProgressOn, ListActive, Status
  <2>4. \A p \in Plugs \ {q} : OnIsSeenTo(p)'
    BY <2>1, <2>2, <2>3, SeenToStays
  <2>5. OnIsSeenTo(q)'
    <3>1. CASE Lose(q)
      BY <3>1 DEF Lose, LoseCommand, OnIsSeenTo, SeenTo
    <3>2. CASE Report(q)
      <4>1. relay'[q] = Head(cmds[q])
        BY <3>2 DEF Report, ApplyCommand, RelayTypeOK
      <4>2. Heading(q)' = Heading(q)
        BY <2>1, <4>1, TailHeads
      <4> QED BY <2>1, <2>3, <4>2, SeenToStays
    <3> QED BY <1>1, <3>1, <3>2
  <2> QED BY <2>2, <2>4, <2>5
<1>2. ASSUME NEW q \in Plugs, ComeBack(q) \/ Drop(q)
      PROVE  (\A p \in Plugs : OnIsSeenTo(p)') /\ Bounded'
  <2>1. /\ UNCHANGED <<relay, cmds, link, rows, pc, plug>>
        /\ \A p \in Plugs \ {q} : online'[p] = online[p] /\ (p \in hello => p \in hello')
        /\ q \in hello' \/ ~online'[q]
    BY <1>2 DEF ComeBack, Drop, Reconnect, DropConnection, procVars, RelayTypeOK
  <2>2. \A p \in Plugs : Heading(p)' = Heading(p)
    BY <2>1 DEF Heading
  <2>3. \A p \in Plugs : \A s \in InProgressOn(p) : s \in InProgressOn(p)'
    BY <2>1 DEF InProgressOn, ListActive, Status
  <2>4. \A p \in Plugs \ {q} : OnIsSeenTo(p)'
    BY <2>1, <2>2, <2>3, SeenToStays
  <2>5. OnIsSeenTo(q)'
    BY <2>1 DEF OnIsSeenTo, SeenTo
  <2> QED BY <2>1, <2>4, <2>5 DEF Bounded
<1>3. ASSUME NEW q \in Plugs, ReconcileRead(q)
      PROVE  (\A p \in Plugs : OnIsSeenTo(p)') /\ Bounded'
  <2>1. /\ UNCHANGED <<relay, cmds, online, link, rows>> /\ hello' = hello \ {q}
        /\ pc[Inbound] = "idle"
        /\ \/ Enter(Inbound, "cut", NoSession, q)
           \/ UNCHANGED <<pc, plug>> /\ InProgressOn(q) # {}
    BY <1>3 DEF ReconcileRead, At
  <2>2. CuttersStay
    BY <2>1, CutterMoves, WorkersAreProcs DEF CutLabels, CuttersStay
  <2>3. \A p \in Plugs : \A s \in InProgressOn(p) : s \in InProgressOn(p)'
    BY <2>1 DEF InProgressOn, ListActive, Status
  <2>4. \A p \in Plugs : Heading(p)' = Heading(p)
    BY <2>1 DEF Heading
  <2>5. Cutting(q)' \/ InProgressOn(q)' # {}
    <3>1. CASE Enter(Inbound, "cut", NoSession, q)
      <4>1. pc'[Inbound] = "cut" /\ plug'[Inbound] = q
        BY <3>1, WorkersAreProcs DEF Enter, ProcTypeOK
      <4> QED BY <4>1, WorkersAreProcs DEF Cutting, CutLabels
    <3>2. CASE InProgressOn(q) # {}
      BY <2>3, <3>2
    <3> QED BY <2>1, <3>1, <3>2
  <2>6. \A p \in Plugs : OnIsSeenTo(p)'
    BY <2>1, <2>2, <2>3, <2>4, <2>5, SeenToStays DEF CuttersStay
  <2> QED BY <2>1, <2>6 DEF Bounded
<1>4. Crash => (\A p \in Plugs : OnIsSeenTo(p)') /\ Bounded'
  BY DEF Crash, RestartDispatcher, OnIsSeenTo, SeenTo, Bounded
<1>5. ASSUME NEW q \in Plugs, State(q) PROVE (\A p \in Plugs : OnIsSeenTo(p)') /\ Bounded'
  BY <1>5 DEF State, Telemetry, procVars, OnIsSeenTo, SeenTo, Heading, Cutting, InProgressOn,
              ListActive, Status, Bounded
<1>6. Disconnect \/ Connect => (\A p \in Plugs : OnIsSeenTo(p)') /\ Bounded'
  BY DEF Disconnect, Connect, LoseLink, RegainLink, OnIsSeenTo, SeenTo, Bounded
<1> QED BY <1>1, <1>2, <1>3, <1>4, <1>5, <1>6

LEMMA RelayStep ==
    ASSUME NoHangUp, Plain, TypeOK, ClaimInv, RelayInv, [Next]_vars
    PROVE  RelayInv'
<1>1. ASSUME NEW p \in Plugs PROVE ~Press(p)
  BY DEF Press, Spend, RelayInv
<1>2. budget'.presses = 0
  <2>1. ASSUME NEW p \in Plugs, Drop(p) PROVE budget'.presses = 0
    BY <2>1 DEF Drop, Spend, RelayInv, TypeOK, ProcTypeOK
  <2>3. Disconnect => budget'.presses = 0
    BY DEF Disconnect, Spend, RelayInv, TypeOK, ProcTypeOK
  <2>2. Crash => budget'.presses = 0
    BY DEF Crash, Spend, RelayInv, TypeOK, ProcTypeOK
  <2> QED BY <1>1, <2>1, <2>2, <2>3, BudgetStays DEF RelayInv
<1>3. OwnsInv'
  BY OwnsStep DEF RelayInv
<1>4. (\A p \in Plugs : OnIsSeenTo(p)') /\ Bounded'
  <2>1. cmds' = cmds => Bounded'
    BY DEF Bounded, RelayInv
  <2>2. ASSUME NEW s \in Sessions, NEW full \in Targets PROVE ~Retarget(s, full)
    BY DEF Retarget, Plain, ClaimInv, PlainRows, TypeOK, StoreTypeOK, Row
  <2>3. ASSUME NEW g \in Procs PROVE ~HangUp(g)
    BY DEF HangUp, NoHangUp
  <2>4. ~(CheckerConfirmed \/ CheckerTimeout \/ CheckerWrite)
    BY DEF CheckerConfirmed, CheckerTimeout, CheckerWrite, At, ClaimInv, PlainChecker
  <2>5. ASSUME NEW t \in todo PROVE ~(CheckerHold(t) \/ CheckerCondition(t) \/ CheckerResume(t))
    BY DEF CheckerHold, CheckerCondition, CheckerResume, ClaimInv, PlainChecker
  <2>6. CASE UNCHANGED vars
    BY <2>1, <2>6, QuietStep DEF RelayInv
  <2>7. CASE Next
    BY <1>1, <2>1, <2>2, <2>3, <2>4, <2>5, <2>7, NextCases, WorkersAreProcs, QuietStep, EndStep, PublishStep,
       CreateStep, WireStep DEF RelayInv
  <2> QED BY <2>6, <2>7
<1> QED BY <1>2, <1>3, <1>4 DEF RelayInv

LEMMA RelayInvInit == ASSUME Init, NoPress PROVE RelayInv
<1>1. \A p \in Plugs : OnIsSeenTo(p)
  BY DEF Init, RelayInit, OnIsSeenTo, Heading
<1>2. OwnsInv /\ budget.presses = 0
  BY DEF Init, OwnsInv, Owns, NoPress
<1>3. Bounded
  BY InFlightAssumption, EmptySeq DEF Init, RelayInit, Bounded
<1> QED BY <1>1, <1>2, <1>3 DEF RelayInv

(***************************************************************************)
(* "Energy must never flow untracked": with connections that break, lost   *)
(* commands and a process that dies between any two steps, a plug at rest  *)
(* that is on has a session -- as long as nobody presses its button or     *)
(* hangs up, and no session is two-stage or aims at 100 %.                 *)
(***************************************************************************)
THEOREM RestingRelaysAreTracked ==
    ASSUME NoHangUp, NoPress, Plain PROVE Spec => []RestingRelayIsTracked
<1>1. Init => RelayInv
  BY RelayInvInit
<1>2. TypeOK /\ ClaimInv /\ RelayInv /\ [Next]_vars => RelayInv'
  BY RelayStep
<1>3. TypeOK /\ RelayInv => RestingRelayIsTracked
  BY DEF RelayInv, OnIsSeenTo, SeenTo, Heading, Cutting, RestingRelayIsTracked, AtRest
<1> QED BY <1>1, <1>2, <1>3, TypeCorrect, ClaimsInvariant, PTL DEF Spec

=============================================================================
