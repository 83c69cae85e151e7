-------------------------------- MODULE Ledger --------------------------------
(***************************************************************************)
(* What a session's energy leaves in the tables: the progress of the       *)
(* session, the charge of the vehicle and its lifetime statistics.  They   *)
(* are written by the inbound message loop, the energy poller, the SOC     *)
(* worker (soc_worker.go), the auto-stop checker, the LWT manager and the  *)
(* users' requests, each with a row or a reading it took earlier.  One     *)
(* plug, one vehicle.  Who may claim the plug is the matter of             *)
(* ChargeSession, two-stage sessions included; bills are that of Bill.     *)
(***************************************************************************)
EXTENDS Energy, Sequences, FiniteSets

CONSTANTS
    Sessions,
    Users,      \* goroutines that serve requests of users
    Percents,   \* what users may enter
    QueueSize,  \* socWorkerBufferSize
    Prior,      \* the vehicle before the first session
    MaxMeter, MaxUser, MaxFaults    \* bounds

ASSUME LedgerAssumption ==
    /\ Percents \subseteq 0 .. Capacity
    /\ {QueueSize, MaxUser, MaxFaults} \subseteq Nat /\ MaxMeter \in Nat \ {0}
    /\ Prior \in [current : 0 .. Capacity, target : 0 .. Capacity, sessions : Nat, battery : Nat]
    /\ Users \cap {"inbound", "checker", "lwt"} = {}

VARIABLES
    meter,          \* the plug's total
    cache,          \* Dispatcher.energyCache; NoReading where it is empty
    row,            \* charge_sessions
    power,          \* power of the session's last stored reading
    vehicle,        \* current, target and the lifetime sums
    queue,          \* SOCWorker.ch
    op,             \* what each goroutine is about to do
    users, faults,  \* bounds
    tangled,        \* history: operations on one session's books overlapped
    kept            \* history: whose recorded ends the charge has to be no less than

history == <<tangled, kept>>
vars == <<meter, cache, row, power, vehicle, queue, op, users, faults, tangled, kept>>

Procs == Users \cup {"inbound", "checker", "lwt"}
Idle == [pc |-> "idle"]
NoRow == [st |-> "none", battery |-> None]
Deleted == [st |-> "deleted", battery |-> None]

Live == {"active", "conditioning"}
InProgress == {"pending"} \cup Live
Gone == {"completed", "cancelled"}

Init ==
    /\ meter = 1
    /\ cache = NoReading
    /\ row = [s \in Sessions |-> NoRow]
    /\ power = [s \in Sessions |-> None]
    /\ vehicle = Prior
    /\ queue = <<>>
    /\ op = [p \in Procs |-> Idle]
    /\ users = 0 /\ faults = 0
    /\ tangled = FALSE /\ kept = {}

\* The session lock is held across a start's wait for its confirmation.
LockFree == \A u \in Users : op[u].pc # "confirm"

Does(p, pc) == op[p].pc = pc
Turn(p, o) == op' = [op EXCEPT ![p] = o]

\* Updates of a row that has been deleted meanwhile match nothing.
Exists(s) == row[s] \notin {NoRow, Deleted}
Set(s, r) == row' = IF Exists(s) THEN [row EXCEPT ![s] = r] ELSE row

\* A statement of s's books is written while another goroutine keeps them too.
Entangle(cond) ==
    tangled' = (tangled \/ cond)

BooksOf(p, s) ==
    /\ op[p].pc \in {"write", "off", "count", "decrement", "remove", "cancel", "advance", "set"}
    /\ op[p].s = s
Others(p, s) == \E q \in Procs \ {p} : BooksOf(q, s)

\* The end is recorded, the vehicle's charge is still to follow.
Settling == {p \in Procs : op[p].pc \in {"off", "advance", "set"}}

\* Ends that settle at the same time set the charge in any order: no claim is
\* made of them.
Keep(ended) == kept' = IF Settling = {} THEN ended ELSE {}

----------------------------------------------------------------------------
(* The plug and its reports.                                               *)

Draw ==
    /\ meter < MaxMeter
    /\ meter' = meter + 1
    /\ UNCHANGED <<cache, row, power, vehicle, queue, op, users, faults, history>>

\* Mutant: a session that charges already gets a new baseline, too.
PollActivateAgain(s) ==
    /\ LockFree
    /\ row[s].st \in {"pending", "active"}
    /\ cache # NoReading /\ cache.power > 0
    /\ Set(s, [row[s] EXCEPT !.st = "active", !.base = cache.total])
    /\ UNCHANGED <<meter, cache, power, vehicle, queue, op, users, faults, history>>

\* ActivatePending: a fresh baseline; only a start that was cut short leaves a
\* pending row for it.
PollActivate(s) ==
    /\ LockFree
    /\ row[s].st = "pending"
    /\ cache # NoReading /\ cache.power > 0
    /\ Set(s, [row[s] EXCEPT !.st = "active", !.base = cache.total])
    /\ UNCHANGED <<meter, cache, power, vehicle, queue, op, users, faults, history>>

\* socRequest, with the row as it is now.
Snapshot(s) == [start |-> row[s].start, base |-> row[s].base,
                target |-> row[s].target, blended |-> row[s].blended]

\* SaveEnergyReadings, saveReadingLocked, Send: the reading is stored when it
\* differs; a full queue drops the snapshot.
Save(s, e) ==
    /\ LockFree
    /\ row[s].st \in Live
    /\ power' = [power EXCEPT ![s] = e.power]
    /\ queue' = IF row[s].base # None /\ Len(queue) < QueueSize
                THEN Append(queue, [s |-> s, row |-> Snapshot(s), e |-> e])
                ELSE queue

SaveAny(e) ==
    \/ \E s \in Sessions : Save(s, e)
    \/ /\ LockFree
       /\ \A s \in Sessions : row[s].st \notin Live
       /\ UNCHANGED <<power, queue>>

\* dispatchSENSOR: the cache first, then the handler, which has to wait for a
\* start that holds the lock.  The power is what the vehicle happens to draw.
Sensor ==
    /\ Does("inbound", "idle")
    /\ \E w \in {0, 1} : cache' = [total |-> meter, power |-> w]
    /\ \/ SaveAny(cache') /\ UNCHANGED op
       \/ /\ ~LockFree
          /\ Turn("inbound", [pc |-> "save", e |-> cache'])
          /\ UNCHANGED <<power, queue>>
    /\ UNCHANGED <<meter, row, vehicle, users, faults, history>>

SensorSave ==
    /\ Does("inbound", "save")
    /\ SaveAny(op["inbound"].e)
    /\ Turn("inbound", Idle)
    /\ UNCHANGED <<meter, cache, row, vehicle, users, faults, history>>

\* EnergyPoller.tick: the cached reading of a session in progress.  (That two
\* readings may be stored in the wrong order is the matter of Bill.)
PollSave(s) ==
    /\ cache # NoReading /\ cache.power > 0
    /\ Save(s, cache)
    /\ UNCHANGED <<meter, cache, row, vehicle, op, users, faults, history>>

\* ProcessSOC: from the row as it was when the reading was saved.
ProcessSOC ==
    /\ queue # <<>>
    /\ LET q == Head(queue)
       IN  Set(q.s, [row[q.s] EXCEPT !.blended = CalculateProgress(q.row, q.e).last])
    /\ queue' = Tail(queue)
    /\ UNCHANGED <<meter, cache, power, vehicle, op, users, faults, history>>

----------------------------------------------------------------------------
(* Starts and targets.                                                     *)

User == users < MaxUser /\ users' = users + 1

\* startSession: the percents are the caller's, and the baseline is read before
\* the lock is taken.
StartCapture(u) ==
    /\ User
    /\ Does(u, "idle")
    /\ \E s \in Sessions : row[s] = NoRow
    /\ \E start, target \in Percents \cup {vehicle.current} :
          /\ start < target
          /\ Turn(u, [pc |-> "start", start |-> start, target |-> target, base |-> cache.total])
    /\ UNCHANGED <<meter, cache, row, power, vehicle, queue, faults, history>>

StartCreate(u, s) ==
    /\ Does(u, "start")
    /\ LockFree
    /\ row[s] = NoRow
    /\ IF \E t \in Sessions : row[t].st \in InProgress
       THEN Turn(u, Idle) /\ UNCHANGED row
       ELSE /\ Turn(u, [pc |-> "confirm", s |-> s])
            /\ row' = [row EXCEPT ![s] =
                   [st |-> "pending", start |-> op[u].start, target |-> op[u].target,
                    base |-> op[u].base, blended |-> None, end |-> None, battery |-> None]]
    /\ UNCHANGED <<meter, cache, power, vehicle, queue, users, faults, history>>

\* The start ends: confirmed, a missing baseline is filled in from the cache.
StartEnd(u) ==
    /\ Does(u, "confirm")
    /\ LET s == op[u].s
           r == row[s]
       IN  \E ok \in BOOLEAN :
              Set(s, IF ok THEN [r EXCEPT !.st = "active",
                                     !.base = IF r.base = None THEN cache.total ELSE r.base]
                     ELSE [r EXCEPT !.st = "cancelled"])
    /\ Turn(u, Idle)
    /\ UNCHANGED <<meter, cache, power, vehicle, queue, users, faults, history>>

\* UpdateTarget: above what has been reached.
Retarget(s, target) ==
    /\ User
    /\ row[s].st = "active"
    /\ target > IF Measured(row[s], cache) THEN CalculateProgress(row[s], cache).shown
                ELSE row[s].start
    /\ Set(s, [row[s] EXCEPT !.target = target])
    /\ UNCHANGED <<meter, cache, power, vehicle, queue, op, faults, history>>

\* VehicleService.UpdatePercents, under the lock; the current percent only
\* while no session is in progress.
EditPercents(current, target) ==
    /\ User
    /\ LockFree
    /\ current <= target
    /\ current # vehicle.current => \A s \in Sessions : row[s].st \notin InProgress
    /\ vehicle' = [vehicle EXCEPT !.current = current, !.target = target]
    /\ kept' = {}
    /\ UNCHANGED <<meter, cache, row, power, queue, op, faults, tangled>>

----------------------------------------------------------------------------
(* Ends.  The end data are computed before the lock is taken.              *)

StopOf(s, r, percent) ==
    LET end == EndData(r, cache, percent)
    IN  [pc |-> "write", s |-> s, target |-> r.target, end |-> end,
         battery |-> AtLeast(end - r.start, 0)]

UserStop(u, s) ==
    /\ User
    /\ Does(u, "idle")
    /\ row[s].st \in Live
    /\ Turn(u, StopOf(s, row[s], HandStopPercent(row[s], cache)))
    /\ UNCHANGED <<meter, cache, row, power, vehicle, queue, faults, history>>

\* Stop, of a session that was pending when its row was read.
UserCancel(u, s) ==
    /\ User
    /\ Does(u, "idle")
    /\ row[s].st = "pending"
    /\ Turn(u, [pc |-> "undo", s |-> s])
    /\ UNCHANGED <<meter, cache, row, power, vehicle, queue, faults, history>>

\* cancelPendingSession, once it has the lock: whatever became of the session
\* meanwhile, it is cancelled and has no end.
CancelPending(u) ==
    /\ Does(u, "undo")
    /\ LockFree
    /\ LET s == op[u].s IN Set(s, [row[s] EXCEPT !.st = "cancelled", !.end = None])
    /\ Turn(u, Idle)
    /\ UNCHANGED <<meter, cache, power, vehicle, queue, users, faults, history>>

\* stopWithPercent, the statement under the lock: no condition but the id.
StopWrite(p) ==
    /\ Does(p, "write")
    /\ LockFree
    /\ LET o == op[p]
       IN  /\ Set(o.s, [row[o.s] EXCEPT !.st = "completed", !.end = o.end,
                                        !.battery = o.battery])
           /\ Entangle(row[o.s].st \notin Live \/ Others(p, o.s))
           /\ Turn(p, [o EXCEPT !.pc = "off"])
           /\ Keep({o.s})
    /\ UNCHANGED <<meter, cache, power, vehicle, queue, users, faults>>

\* The wait for the power-off is over, either way.
StopVehicle(p) ==
    /\ Does(p, "off")
    /\ vehicle' = [vehicle EXCEPT !.current = op[p].end, !.target = op[p].target]
    /\ Turn(p, [op[p] EXCEPT !.pc = "count"])
    /\ UNCHANGED <<meter, cache, row, power, queue, users, faults, history>>

\* Mutant: a session that delivered nothing is not counted.
StopCountSome(p) ==
    /\ Does(p, "count")
    /\ vehicle' = [vehicle EXCEPT !.sessions = @ + (IF op[p].battery > 0 THEN 1 ELSE 0),
                                  !.battery = @ + op[p].battery]
    /\ Turn(p, Idle)
    /\ UNCHANGED <<meter, cache, row, power, queue, users, faults, history>>

\* IncrementLifetimeStats.
StopCount(p) ==
    /\ Does(p, "count")
    /\ vehicle' = [vehicle EXCEPT !.sessions = @ + 1, !.battery = @ + op[p].battery]
    /\ Turn(p, Idle)
    /\ UNCHANGED <<meter, cache, row, power, queue, users, faults, history>>

\* CancelActiveSession, for a plug that went away or fell silent.
CancelRead(s) ==
    /\ Does("lwt", "idle")
    /\ row[s].st \in Live
    /\ faults < MaxFaults /\ faults' = faults + 1
    /\ Turn("lwt", [pc |-> "cancel", s |-> s, end |-> CancelPercent(row[s], cache)])
    /\ UNCHANGED <<meter, cache, row, power, vehicle, queue, users, history>>

CancelWrite ==
    /\ Does("lwt", "cancel")
    /\ LockFree
    /\ LET s == op["lwt"].s
       IN  /\ Set(s, [row[s] EXCEPT !.st = "cancelled", !.end = op["lwt"].end])
           /\ Entangle(row[s].st \notin Live \/ Others("lwt", s))
    /\ Turn("lwt", [op["lwt"] EXCEPT !.pc = "advance"])
    /\ Keep(kept \cup {op["lwt"].s})
    /\ UNCHANGED <<meter, cache, power, vehicle, queue, users, faults>>

\* Mutant: the vehicle keeps its charge of before the session.
CancelForgets ==
    /\ Does("lwt", "advance")
    /\ Turn("lwt", Idle)
    /\ UNCHANGED <<meter, cache, row, power, vehicle, queue, users, faults, history>>

\* The vehicle is read, and nothing is to be done unless its charge is less.
CancelCompare ==
    /\ Does("lwt", "advance")
    /\ LET o == op["lwt"]
       IN  Turn("lwt", IF o.end > vehicle.current
                       THEN [pc |-> "set", s |-> o.s, end |-> o.end, target |-> vehicle.target]
                       ELSE Idle)
    /\ UNCHANGED <<meter, cache, row, power, vehicle, queue, users, faults, history>>

\* UpdatePercents, without a condition: the target, too, is the one that was read.
CancelAdvance ==
    /\ Does("lwt", "set")
    /\ vehicle' = [vehicle EXCEPT !.current = op["lwt"].end, !.target = op["lwt"].target]
    /\ Turn("lwt", Idle)
    /\ UNCHANGED <<meter, cache, row, power, queue, users, faults, history>>

\* DeleteSession: three statements, in this order.
DeleteRead(u, s) ==
    /\ User
    /\ Does(u, "idle")
    /\ row[s].st \in Gone
    /\ Turn(u, [pc |-> IF row[s].battery = None THEN "remove" ELSE "decrement",
                s |-> s, battery |-> row[s].battery])
    /\ Entangle(Others(u, s))
    /\ UNCHANGED <<meter, cache, row, power, vehicle, queue, faults, kept>>

\* DecrementLifetimeStats, floored at zero.
DeleteDecrement(u) ==
    /\ Does(u, "decrement")
    /\ vehicle' = [vehicle EXCEPT !.sessions = AtLeast(@ - 1, 0),
                                  !.battery = AtLeast(@ - op[u].battery, 0)]
    /\ Turn(u, [op[u] EXCEPT !.pc = "remove"])
    /\ UNCHANGED <<meter, cache, row, power, queue, users, faults, history>>

DeleteRemove(u) ==
    /\ Does(u, "remove")
    /\ row' = [row EXCEPT ![op[u].s] = Deleted]
    /\ power' = [power EXCEPT ![op[u].s] = None]
    /\ Turn(u, Idle)
    /\ UNCHANGED <<meter, cache, vehicle, queue, users, faults, history>>

----------------------------------------------------------------------------
(* The auto-stop checker.  Its three checks list the rows afresh.          *)

CheckerList(s) ==
    /\ Does("checker", "idle")
    /\ row[s].st \in Live
    /\ Turn("checker", [pc |-> "check", s |-> s, st |-> row[s].st, row |-> Snapshot(s)])
    /\ UNCHANGED <<meter, cache, row, power, vehicle, queue, users, faults, history>>

Checked == op["checker"].row

\* autoStopReachingSession: nothing to go by.
CheckerSkip ==
    /\ Does("checker", "check")
    /\ op["checker"].st = "active"
    /\ cache.total <= 0
    /\ Turn("checker", Idle)
    /\ UNCHANGED <<meter, cache, row, power, vehicle, queue, users, faults, history>>

\* backfillEnergyBaseline.
CheckerBackfill ==
    /\ Does("checker", "check")
    /\ LockFree
    /\ op["checker"].st = "active" /\ Checked.base = None /\ cache.total > 0
    /\ LET s == op["checker"].s IN Set(s, [row[s] EXCEPT !.base = cache.total])
    /\ Turn("checker", Idle)
    /\ UNCHANGED <<meter, cache, power, vehicle, queue, users, faults, history>>

CheckerProgress ==
    /\ Does("checker", "check")
    /\ op["checker"].st = "active" /\ Measured(Checked, cache)
    /\ Turn("checker", [pc |-> "blend", s |-> op["checker"].s, row |-> Checked,
                        progress |-> CalculateProgress(Checked, cache)])
    /\ UNCHANGED <<meter, cache, row, power, vehicle, queue, users, faults, history>>

\* Mutant: a session is stopped one unit beyond its target.
CheckerBlendLate ==
    /\ Does("checker", "blend")
    /\ LockFree
    /\ LET o == op["checker"]
       IN  /\ Set(o.s, [row[o.s] EXCEPT !.blended = o.progress.last])
           /\ Turn("checker", IF o.progress.shown <= o.row.target THEN Idle
                              ELSE StopOf(o.s, o.row, o.progress.shown))
    /\ UNCHANGED <<meter, cache, power, vehicle, queue, users, faults, history>>

\* The progress is stored, then the target decides.
CheckerBlend ==
    /\ Does("checker", "blend")
    /\ LockFree
    /\ LET o == op["checker"]
       IN  /\ Set(o.s, [row[o.s] EXCEPT !.blended = o.progress.last])
           /\ Turn("checker",
                 IF o.progress.shown < o.row.target THEN Idle
                 ELSE IF o.row.target = Capacity THEN [o EXCEPT !.pc = "condition"]
                 ELSE StopOf(o.s, o.row, o.progress.shown))
    /\ UNCHANGED <<meter, cache, power, vehicle, queue, users, faults, history>>

CheckerCondition ==
    /\ Does("checker", "condition")
    /\ LockFree
    /\ LET s == op["checker"].s
       IN  /\ Set(s, [row[s] EXCEPT !.st = "conditioning"])
           /\ Entangle(row[s].st \notin Live)
    /\ Turn("checker", Idle)
    /\ UNCHANGED <<meter, cache, power, vehicle, queue, users, faults, kept>>

\* stopConditioningSession: the current has tapered off, or not yet.
CheckerTaper ==
    /\ Does("checker", "check")
    /\ op["checker"].st = "conditioning"
    /\ Turn("checker", IF cache # NoReading /\ cache.power = 0
                       THEN StopOf(op["checker"].s, Checked, Checked.target) ELSE Idle)
    /\ UNCHANGED <<meter, cache, row, power, vehicle, queue, users, faults, history>>

\* stopIdleSession: the last stored readings show no power.  How long for is
\* left open.
CheckerIdle ==
    /\ Does("checker", "check")
    /\ power[op["checker"].s] = 0
    /\ Turn("checker", StopOf(op["checker"].s, Checked, Capacity))
    /\ UNCHANGED <<meter, cache, row, power, vehicle, queue, users, faults, history>>

\* The process dies; the cache, the queue and every operation are lost.
Restart ==
    /\ faults < MaxFaults /\ faults' = faults + 1
    /\ cache' = NoReading /\ queue' = <<>>
    /\ op' = [p \in Procs |-> Idle]
    /\ Entangle(\E p \in Procs, s \in Sessions : BooksOf(p, s))
    /\ Keep(kept)
    /\ UNCHANGED <<meter, row, power, vehicle, users>>

----------------------------------------------------------------------------
Checker(s) ==
    \/ CheckerList(s) \/ CheckerSkip \/ CheckerBackfill \/ CheckerProgress
    \/ CheckerBlend \/ CheckerCondition \/ CheckerTaper \/ CheckerIdle

Stop(p) == StopWrite(p) \/ StopVehicle(p) \/ StopCount(p)

Next ==
    \/ Draw \/ Sensor \/ SensorSave \/ ProcessSOC \/ Restart
    \/ CancelWrite \/ CancelCompare \/ CancelAdvance
    \/ \E p \in Procs : Stop(p)
    \/ \E s \in Sessions :
        \/ PollActivate(s) \/ PollSave(s) \/ CancelRead(s) \/ Checker(s)
        \/ \E target \in Percents : Retarget(s, target)
        \/ \E u \in Users : StartCreate(u, s) \/ UserStop(u, s) \/ UserCancel(u, s) \/ DeleteRead(u, s)
    \/ \E u \in Users :
        \/ StartCapture(u) \/ StartEnd(u) \/ CancelPending(u)
        \/ DeleteDecrement(u) \/ DeleteRemove(u)
    \/ \E current, target \in Percents : EditPercents(current, target)

Spec == Init /\ [][Next]_vars

\* The tickers keep coming round and the plug keeps reporting.
Fairness ==
    /\ WF_vars(Sensor) /\ WF_vars(SensorSave) /\ WF_vars(CancelWrite)
    /\ \A p \in Procs : WF_vars(Stop(p))
    /\ \A u \in Users : WF_vars(StartEnd(u))
    /\ \A s \in Sessions : WF_vars(Checker(s))

FairSpec == Spec /\ Fairness

----------------------------------------------------------------------------
Energies == None .. Capacity + Efficiency * MaxMeter

\* Every variable holds what the code could store in it.
LedgerTypeOK ==
    /\ cache.total \in None .. MaxMeter
    /\ \A s \in Sessions : Exists(s) =>
        /\ row[s].st \in InProgress \cup Gone
        /\ row[s].base \in None .. MaxMeter
        /\ {row[s].start, row[s].target} \subseteq 0 .. Capacity
        /\ row[s].end \in None .. Capacity /\ row[s].battery \in None .. Capacity
        /\ row[s].blended \in Energies
    /\ vehicle.current \in 0 .. Capacity /\ vehicle.target \in 0 .. Capacity
    /\ vehicle.sessions \in Nat /\ vehicle.battery \in Nat
    /\ Len(queue) <= QueueSize

\* Progress is what the meter gave: the stored energy lies between the start
\* and what the meter has added to it since the baseline, whoever writes it and
\* however late (charge_session_service.go:655, a request queued before a
\* retarget, a stop or another write).
BlendedIsMetered ==
    \A s \in Sessions : Exists(s) /\ row[s].blended # None =>
        /\ row[s].base # None
        /\ row[s].blended \in row[s].start .. row[s].start + Efficiency * (meter - row[s].base)

Quiet == \A p \in Procs, s \in Sessions : ~BooksOf(p, s)
Counted == {s \in Sessions : row[s].battery # None}

\* The units of energy these sessions delivered.
Delivered(S) == {u \in S \X (1 .. Capacity) : u[2] <= row[u[1]].battery}

\* With no end and no deletion under way the lifetime statistics are the sum
\* over the sessions that still have theirs, unless two of those overlapped on
\* one session or the process died in one (vehicle_stats_service.go shows the
\* one for "lifetime" and the other for every shorter range).
LifetimeIsExact ==
    Quiet /\ ~tangled =>
        /\ vehicle.sessions = Prior.sessions + Cardinality(Counted)
        /\ vehicle.battery = Prior.battery + Cardinality(Delivered(Counted))

\* What a session delivered is not lost to the next one: when no end is
\* settling, the vehicle's charge is at least the end of the last session that
\* was stopped and of all that were cancelled since, unless a user has said
\* otherwise or a crash or another end came in between the statements
\* (session_lifecycle_service.go:403, "Energy delivered before cancellation is
\* never lost").  A session cancelled as pending records no end, and no claim
\* is made of it.
ChargeIsKept ==
    Settling = {} =>
        \A s \in kept : row[s].st \in Gone /\ row[s].end # None =>
            vehicle.current >= row[s].end

\* A session does not charge on for ever at its target, its plug reporting: it
\* ends or turns to conditioning, also when it began without a baseline
\* (session_monitoring_service.go:337).
Overdue(s) ==
    LET r == row[s]
    IN  /\ r.st = "active" /\ cache.power > 0 /\ cache.total > 0
        /\ r.base = None \/ Gain(r, cache) >= AtLeast(r.target - r.start, Epsilon + 1)

TargetEndsCharge == \A s \in Sessions : []<>~Overdue(s)

\* The stored progress of a session never falls
\* (session_lifecycle_service.go:442: "blended energy is monotonic").
BlendedNeverFalls ==
    [][\A s \in Sessions :
          Exists(s) /\ row'[s] # Deleted => row'[s].blended >= row[s].blended]_vars
=============================================================================
