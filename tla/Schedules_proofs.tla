--------------------------- MODULE Schedules_proofs ---------------------------
(***************************************************************************)
(* Proofs about the schedule activator and the resumption of holds, for    *)
(* any number of plugs, schedules and forecasts: types, the distance       *)
(* between starts that no deadline forces, and the back-off; and that no   *)
(* deadline, of a schedule or of a hold, passes without an attempt.        *)
(***************************************************************************)
EXTENDS Schedules, FiniteSetTheorems, TLAPS

PlanTypes == [two : BOOLEAN, readyBy : Int, carbon : BOOLEAN, forced : BOOLEAN]

SessionTypes == [st : {"charging", "holding"}, hold : BOOLEAN, readyBy : Int,
                 carbon : BOOLEAN, until : Int]

ActTypes == [pc : {"idle", "tick", "starting"}, due : BOOLEAN, at : Times, last : Times,
             rows : [Plugs -> Rows \cup {NoRow}], todo : SUBSET Plugs,
             plug : Plugs \cup {NoPlug}, plan : PlanTypes, since : Times]

CheckTypes == [due : BOOLEAN, todo : SUBSET Plugs, plug : Plugs \cup {NoPlug}, since : Times]

HistoryTypes == [started : [Plugs -> Times], tried : [Plugs -> Times], changed : [Plugs -> Times]]

Types ==
    /\ now \in 0 .. MaxNow
    /\ rows \in [Plugs -> Rows \cup {NoRow}]
    /\ level \in [Plugs -> {"low", "held", "full"}]
    /\ session \in [Plugs -> {NoSession} \cup SessionTypes]
    /\ lastActivation \in Times
    /\ lastStartFailure \in [Plugs -> Times]
    /\ act \in ActTypes
    /\ chk \in CheckTypes
    /\ history \in HistoryTypes

\* The activator goes by the rows it listed, and a start is under way for a plug.
ActOK ==
    /\ act.pc # "idle" => act.at # Never
    /\ \A p \in act.todo : act.rows[p] # NoRow
    /\ act.pc = "starting" => act.plug \in Plugs

\* Starts of earlier ticks are no later than the activation this tick has read.
Spaced ==
    /\ lastActivation <= now /\ act.at <= now
    /\ \A q \in Plugs : history.started[q] # Never =>
          lastActivation # Never /\ history.started[q] <= lastActivation
    /\ act.pc # "idle" =>
        /\ act.last <= act.at
        /\ \A q \in Plugs : history.started[q] # Never =>
              history.started[q] = act.at \/ (act.last # Never /\ history.started[q] <= act.last)
    /\ act.pc = "starting" /\ ~act.plan.forced => ~Throttled(act.at, act.last)

\* A carbon-aware start that is under way was not backing off.
Paced == act.pc = "starting" /\ act.plan.carbon => ~BackingOff(act.plug, act.at)

SchedInv == Types /\ ActOK /\ Spaced /\ Paced

----------------------------------------------------------------------------
LEMMA Numbers ==
    /\ Day \in Nat \ {0} /\ Minute \in Nat \ {0} /\ Bucket \in Nat \ {0}
    /\ {Stage1, Stage2, MinStage, Throttle, Poll, Wait, Start, MaxNow} \subseteq Nat
    /\ Never \in Int /\ Never \in Times /\ \A t \in 0 .. MaxNow : t \in Times /\ t # Never
    /\ Times \subseteq Int
BY TimesAssumption, SchedulesAssumption DEF Never, Times

LEMMA RowTypes ==
    ASSUME NEW r \in Rows
    PROVE  /\ r.from \in Int /\ r.to \in Int /\ r.two \in BOOLEAN
           /\ r # NoRow
BY SchedulesAssumption, Numbers DEF Rows, NoRow

\* Deadlines and windows are instants, whatever the clock.
LEMMA ClockTypes ==
    ASSUME NEW t \in Int, NEW a \in Int, NEW b \in Int
    PROVE  /\ FormatTime(t) \in Int /\ ResolveDeadline(t, a) \in Int
           /\ ResolveWindow(t, a, b).start \in Int /\ ResolveWindow(t, a, b).end \in Int
<1> USE Numbers
<1>1. t % Day \in Int /\ t % Minute \in Int
  OBVIOUS
<1>2. Midnight(t) \in Int
  BY <1>1 DEF Midnight
<1> QED  BY <1>1, <1>2 DEF FormatTime, ResolveDeadline, ResolveWindow

LEMMA PlansTyped ==
    ASSUME NEW p \in Plugs, NEW r \in Rows, NEW t \in Int
    PROVE  DailyPlan(p, r) \in PlanTypes /\ CarbonPlan(p, r, t) \in PlanTypes
<1> USE Numbers
<1>1. Worthwhile(p) \in BOOLEAN /\ MustStart(p, r, t) \in BOOLEAN
  BY DEF Worthwhile, MustStart
<1>2. FormatTime(ResolveWindow(t, r.from, r.to).end) \in Int
  BY RowTypes, ClockTypes
<1>3. DailyPlan(p, r) \in PlanTypes
  BY <1>1, RowTypes DEF DailyPlan, Plan, PlanTypes
<1>4. CarbonPlan(p, r, t) \in PlanTypes
  BY <1>1, <1>2, RowTypes DEF CarbonPlan, Plan, PlanTypes
<1> QED  BY <1>3, <1>4

LEMMA InitInv == Init => SchedInv
<1> SUFFICES ASSUME Init  PROVE SchedInv
  OBVIOUS
<1> USE Numbers, SchedulesAssumption DEF Init
<1>1. act \in ActTypes /\ act.pc = "idle" /\ act.at = Never /\ act.todo = {}
  <2>1. NoPlan \in PlanTypes
    BY DEF NoPlan, Plan, PlanTypes
  <2> QED  BY <2>1 DEF Idle, ActTypes
<1>2. Types
  BY <1>1 DEF Types, CheckTypes, HistoryTypes
<1>3. ActOK
  BY <1>1 DEF ActOK
<1>4. now \in Nat /\ lastActivation = Never /\ \A q \in Plugs : history.started[q] = Never
  OBVIOUS
<1>5. Spaced
  BY <1>1, <1>4 DEF Spaced, Never
<1>6. Paced
  BY <1>1 DEF Paced
<1> QED  BY <1>2, <1>3, <1>5, <1>6 DEF SchedInv
----------------------------------------------------------------------------
\* The rest of a tick.
LEMMA DoneTypes ==
    ASSUME Types, ActOK, act.pc # "idle", NEW p \in Plugs
    PROVE  /\ Done(p) \in ActTypes
           /\ \/ Done(p).pc = "idle" /\ Done(p).at = Never /\ Done(p).todo = {}
              \/ /\ Done(p).pc = "tick" /\ Done(p).at = act.at /\ Done(p).last = act.last
                 /\ Done(p).todo = act.todo \ {p} /\ Done(p).rows = act.rows
<1> USE Numbers
<1>1. act \in ActTypes
  BY DEF Types
<1>2. NoPlan \in PlanTypes
  BY DEF NoPlan, Plan, PlanTypes
<1>3. CASE act.todo \ {p} = {}
  BY <1>1, <1>2, <1>3 DEF Done, Idle, ActTypes
<1>4. CASE act.todo \ {p} # {}
  BY <1>1, <1>2, <1>4 DEF Done, ActTypes
<1> QED  BY <1>3, <1>4

\* The activator where it was, or done with a plug.
ActKeeps ==
    \/ \E due \in BOOLEAN : act' = [act EXCEPT !.due = due]
    \/ act.pc # "idle" /\ \E p \in Plugs : act' = Done(p)

LEMMA ActKept ==
    ASSUME Types, ActOK, ActKeeps
    PROVE  /\ act' \in ActTypes /\ ActOK'
           /\ act'.at <= now \/ act'.at = Never \/ act'.at = act.at
           /\ act'.pc # "idle" => act.pc # "idle" /\ act'.at = act.at /\ act'.last = act.last
           /\ act'.pc = "starting" =>
                act.pc = "starting" /\ act'.plan = act.plan /\ act'.plug = act.plug
<1>1. CASE \E due \in BOOLEAN : act' = [act EXCEPT !.due = due]
  <2>1. PICK due \in BOOLEAN : act' = [act EXCEPT !.due = due]
    BY <1>1
  <2>2. act \in ActTypes
    BY DEF Types
  <2>3. /\ act' \in ActTypes /\ act'.pc = act.pc /\ act'.at = act.at /\ act'.last = act.last
        /\ act'.plan = act.plan /\ act'.plug = act.plug /\ act'.todo = act.todo
        /\ act'.rows = act.rows
    BY <2>1, <2>2 DEF ActTypes
  <2> QED  BY <2>3 DEF ActOK
<1>2. CASE act.pc # "idle" /\ \E p \in Plugs : act' = Done(p)
  <2>1. PICK p \in Plugs : act' = Done(p) /\ act.pc # "idle"
    BY <1>2
  <2>2. /\ act' \in ActTypes
        /\ \/ act'.pc = "idle" /\ act'.at = Never /\ act'.todo = {}
           \/ /\ act'.pc = "tick" /\ act'.at = act.at /\ act'.last = act.last
              /\ act'.todo = act.todo \ {p} /\ act'.rows = act.rows
    BY <2>1, DoneTypes
  <2> QED  BY <2>1, <2>2 DEF ActOK
<1> QED  BY <1>1, <1>2 DEF ActKeeps

\* Steps that start nothing leave the distances as they are.
LEMMA StillSpaced ==
    ASSUME Types, ActOK, Spaced, Paced, ActKeeps,
           now' \in Int, now <= now', UNCHANGED <<lastActivation, lastStartFailure>>,
           history'.started = history.started
    PROVE  Spaced' /\ Paced'
<1> USE Numbers
<1>1. now \in Int /\ lastActivation \in Int /\ act.at \in Int /\ act'.at \in Int
  BY ActKept DEF Types, ActTypes
<1>2. lastActivation' <= now' /\ act'.at <= now'
  BY <1>1, ActKept DEF Spaced, Types, Never
<1>3. Spaced'
  BY <1>2, ActKept DEF Spaced, Throttled
<1>4. Paced'
  BY ActKept DEF Paced, BackingOff
<1> QED  BY <1>3, <1>4

LEMMA Touched ==
    ASSUME Types, NEW p \in Plugs
    PROVE  /\ Changed(p) \in HistoryTypes /\ Changed(p).started = history.started
           /\ \A t \in Times :
                /\ [history EXCEPT !.tried[p] = t] \in HistoryTypes
                /\ [history EXCEPT !.tried[p] = t].started = history.started
                /\ [Changed(p) EXCEPT !.started[p] = t] \in HistoryTypes
                /\ [Changed(p) EXCEPT !.started[p] = t].started = [history.started EXCEPT ![p] = t]
BY Numbers DEF Types, HistoryTypes, Changed

----------------------------------------------------------------------------
(* The activator.                                                          *)

LEMMA AdvanceStep == ASSUME SchedInv, Advance  PROVE SchedInv'
<1> USE Numbers, SchedulesAssumption DEF SchedInv
<1>1. now' = now + Poll /\ now' <= MaxNow /\ now \in 0 .. MaxNow
  BY DEF Advance, Types
<1>2. act' = [act EXCEPT !.due = TRUE] /\ ActKeeps
  BY DEF Advance, ActKeeps
<1>3. chk' = [chk EXCEPT !.due = TRUE] /\ chk' \in CheckTypes
  BY DEF Advance, Types, CheckTypes
<1>4. UNCHANGED <<rows, level, session, lastActivation, lastStartFailure, users, history>>
  BY DEF Advance
<1>5. Types'
  BY <1>1, <1>2, <1>3, <1>4, ActKept DEF Types
<1>6. Spaced' /\ Paced'
  BY <1>1, <1>2, <1>4, StillSpaced
<1> QED  BY <1>2, <1>5, <1>6, ActKept

LEMMA TickStep == ASSUME SchedInv, ActivatorTick  PROVE SchedInv'
<1> USE Numbers, SchedulesAssumption DEF SchedInv
<1>1. act \in ActTypes /\ now \in 0 .. MaxNow /\ lastActivation \in Times
  BY DEF Types
<1>2. NoPlan \in PlanTypes
  BY DEF NoPlan, Plan, PlanTypes
<1>3. /\ act' \in ActTypes /\ act'.pc = "tick" /\ act'.at = now /\ act'.last = lastActivation
      /\ act'.rows = rows /\ act'.todo = Enabled
  <2>1. Enabled \subseteq Plugs /\ rows \in [Plugs -> Rows \cup {NoRow}]
    BY DEF Enabled, Types
  <2>2. act' = [Idle EXCEPT !.pc = "tick", !.at = now, !.last = lastActivation,
                            !.rows = rows, !.todo = Enabled]
    BY DEF ActivatorTick
  <2> QED  BY <1>1, <1>2, <2>1, <2>2 DEF Idle, ActTypes
<1>4. UNCHANGED <<now, rows, level, session, lastActivation, lastStartFailure, chk, users, history>>
  BY DEF ActivatorTick
<1>5. Types'
  BY <1>3, <1>4 DEF Types
<1>6. ActOK'
  BY <1>1, <1>3, <1>4 DEF ActOK, Enabled
<1>7. Spaced'
  BY <1>1, <1>3, <1>4 DEF Spaced
<1>8. Paced'
  BY <1>3 DEF Paced
<1> QED  BY <1>5, <1>6, <1>7, <1>8

LEMMA ExamineStep == ASSUME SchedInv, NEW p \in Plugs, Examine(p)  PROVE SchedInv'
<1> USE Numbers, SchedulesAssumption DEF SchedInv
<1>1. act \in ActTypes /\ act.pc = "tick" /\ p \in act.todo /\ act.at \in 0 .. MaxNow
  BY DEF Types, Examine, ActOK, ActTypes, Times
<1>2. PICK r : r = act.rows[p]
  OBVIOUS
<1>3. r \in Rows
  BY <1>1, <1>2 DEF ActTypes, ActOK
<1>4. UNCHANGED <<now, rows, level, session, lastActivation, lastStartFailure, chk, users>>
  BY DEF Examine
<1>5. CASE act' = Done(p) /\ UNCHANGED history
  <2>1. ActKeeps
    BY <1>1, <1>5 DEF ActKeeps
  <2>2. Types'
    BY <1>4, <1>5, <2>1, ActKept DEF Types
  <2>3. Spaced' /\ Paced'
    BY <1>4, <1>5, <2>1, StillSpaced DEF Types
  <2> QED  BY <2>1, <2>2, <2>3, ActKept
<1>6. ASSUME NEW plan \in PlanTypes, act' = Starting(p, plan),
             history' = [history EXCEPT !.tried[p] = act.at],
             ~plan.forced => ~Throttled(act.at, act.last),
             plan.carbon => ~BackingOff(p, act.at)
      PROVE  SchedInv'
  <2>1. /\ act' \in ActTypes /\ act'.pc = "starting" /\ act'.plug = p /\ act'.plan = plan
        /\ act'.at = act.at /\ act'.last = act.last /\ act'.rows = act.rows /\ act'.todo = act.todo
    BY <1>1, <1>6 DEF Starting, ActTypes, Types
  <2>2. history' \in HistoryTypes /\ history'.started = history.started
    BY <1>1, <1>6, Touched
  <2>3. Types'
    BY <1>4, <2>1, <2>2 DEF Types
  <2>4. ActOK'
    BY <1>1, <2>1 DEF ActOK
  <2>5. Spaced'
    BY <1>1, <1>4, <1>6, <2>1, <2>2 DEF Spaced, Throttled
  <2>6. Paced'
    BY <1>4, <1>6, <2>1 DEF Paced, BackingOff
  <2> QED  BY <2>3, <2>4, <2>5, <2>6
<1>7. CASE ~(act' = Done(p) /\ UNCHANGED history)
  <2>1. PICK forecast \in Forecasts :
            /\ IF r.type = "daily" THEN DailyDue(p, r, act.at, act.last)
               ELSE CarbonDue(p, r, act.at, act.last, forecast)
            /\ act' = Starting(p, IF r.type = "daily" THEN DailyPlan(p, r)
                                  ELSE CarbonPlan(p, r, act.at))
            /\ history' = [history EXCEPT !.tried[p] = act.at]
    BY <1>2, <1>7 DEF Examine
  <2>2. CASE r.type = "daily"
    <3>1. DailyPlan(p, r) \in PlanTypes /\ ~DailyPlan(p, r).carbon
      BY <1>1, <1>3, PlansTyped DEF DailyPlan, Plan
    <3>2. ~Throttled(act.at, act.last)
      BY <2>1, <2>2 DEF DailyDue
    <3> QED  BY <1>6, <2>1, <2>2, <3>1, <3>2
  <2>3. CASE r.type # "daily"
    <3>1. CarbonPlan(p, r, act.at) \in PlanTypes
      BY <1>1, <1>3, PlansTyped
    <3>2. CarbonPlan(p, r, act.at).forced = MustStart(p, r, act.at)
      BY DEF CarbonPlan, Plan
    <3>3. ~BackingOff(p, act.at) /\ (~MustStart(p, r, act.at) => ~Throttled(act.at, act.last))
      BY <2>1, <2>3 DEF CarbonDue
    <3> QED  BY <1>6, <2>1, <2>3, <3>1, <3>2, <3>3
  <2> QED  BY <2>2, <2>3
<1> QED  BY <1>5, <1>7

\* A start is over, with no session.
LEMMA NotStarted ==
    ASSUME SchedInv, NEW p \in Plugs, StartRefused(p) \/ StartFails(p)
    PROVE  SchedInv'
<1> USE Numbers DEF SchedInv
<1>1. /\ act.pc = "starting" /\ act.plug = p /\ act' = Done(p) /\ ActKeeps
      /\ act.at \in Times /\ act \in ActTypes
  BY DEF StartRefused, StartFails, ActKeeps, Types, ActTypes
<1>2. UNCHANGED <<now, rows, level, session, lastActivation, chk, users, history>>
  BY DEF StartRefused, StartFails
<1>3. lastStartFailure' \in [Plugs -> Times]
  BY <1>1 DEF StartRefused, StartFails, Types
<1>4. Types'
  BY <1>1, <1>2, <1>3, ActKept DEF Types
<1>5. act'.pc # "starting"
  BY <1>1, DoneTypes
<1>6. Paced'
  BY <1>5 DEF Paced
<1>7. Spaced'
  BY <1>1, <1>2, <1>5, ActKept DEF Spaced, Types, Never
<1> QED  BY <1>1, <1>4, <1>6, <1>7, ActKept

LEMMA StartedStep == ASSUME SchedInv, NEW p \in Plugs, StartSucceeds(p)  PROVE SchedInv'
<1> USE Numbers DEF SchedInv
<1>1. /\ act.pc = "starting" /\ act.plug = p /\ act' = Done(p) /\ ActKeeps
      /\ act.at \in 0 .. MaxNow /\ act \in ActTypes
  BY DEF StartSucceeds, ActKeeps, Types, ActTypes, ActOK, Times
<1>2. /\ UNCHANGED <<now, rows, level, chk, users>>
      /\ lastActivation' = act.at
      /\ history' = [Changed(p) EXCEPT !.started[p] = act.at]
  BY DEF StartSucceeds
<1>3. lastStartFailure' \in [Plugs -> Times]
  BY DEF StartSucceeds, Types
<1>4. session' \in [Plugs -> {NoSession} \cup SessionTypes]
  <2>1. Session(act.plan.two, act.plan.readyBy, act.plan.carbon) \in SessionTypes
    BY <1>1 DEF Session, SessionTypes, ActTypes, PlanTypes
  <2> QED  BY <2>1 DEF StartSucceeds, Types
<1>5. history' \in HistoryTypes /\ history'.started = [history.started EXCEPT ![p] = act.at]
  BY <1>1, <1>2, Touched
<1>6. Types'
  BY <1>1, <1>2, <1>3, <1>4, <1>5, ActKept DEF Types
<1>7. act'.pc # "starting"
  BY <1>1, DoneTypes
<1>8. /\ act.at \in Int /\ act.at # Never /\ now \in Int /\ act.last \in Int
      /\ \A q \in Plugs : history.started[q] \in Int
      /\ act.last <= act.at /\ act.at <= now
  BY <1>1 DEF Types, ActTypes, HistoryTypes, Spaced
<1>9. \A q \in Plugs : history'.started[q] # Never => history'.started[q] <= act.at
  <2>1. \A q \in Plugs : history'.started[q] = act.at \/ history'.started[q] = history.started[q]
    BY <1>5 DEF Types, HistoryTypes
  <2>2. \A q \in Plugs : history.started[q] # Never => history.started[q] <= act.at
    BY <1>1, <1>8 DEF Spaced
  <2> QED  BY <1>8, <2>1, <2>2
<1>10. Spaced'
  <2>1. lastActivation' <= now' /\ act'.at <= now'
    BY <1>1, <1>2, <1>8, DoneTypes DEF Never
  <2>2. act'.pc # "idle" => act'.at = act.at /\ act'.last = act.last
    BY <1>1, DoneTypes
  <2>3. act'.pc # "idle" => \A q \in Plugs : history'.started[q] # Never =>
            history'.started[q] = act.at \/ (act.last # Never /\ history'.started[q] <= act.last)
    BY <1>1, <1>5 DEF Spaced, Types, HistoryTypes
  <2> QED  BY <1>2, <1>7, <1>8, <1>9, <2>1, <2>2, <2>3 DEF Spaced
<1>11. Paced'
  BY <1>7 DEF Paced
<1> QED  BY <1>1, <1>6, <1>10, <1>11, ActKept

----------------------------------------------------------------------------
(* The checker, the vehicles and the users.                                *)

LEMMA OtherStep ==
    ASSUME SchedInv,
           \/ CheckerTick
           \/ \E p \in Plugs : \/ ResumeIfDue(p) \/ ResumeReturns(p) \/ Charges(p)
                               \/ Upsert(p) \/ UserStops(p) \/ UserStarts(p) \/ Ride(p)
    PROVE  SchedInv'
<1> USE Numbers DEF SchedInv
<1>1. UNCHANGED <<now, lastActivation, lastStartFailure, act>>
  BY DEF CheckerTick, ResumeIfDue, ResumeReturns, Charges, Upsert, UserStops, UserStarts, Ride
<1>2. ActKeeps
  <2>1. act' = [act EXCEPT !.due = act.due] /\ act.due \in BOOLEAN
    BY <1>1 DEF Types, ActTypes
  <2> QED  BY <2>1 DEF ActKeeps
<1>3. history' \in HistoryTypes /\ history'.started = history.started
  <2>1. \/ UNCHANGED history
        \/ \E p \in Plugs : \/ history' = Changed(p)
                            \/ history' = [history EXCEPT !.tried[p] = now]
    BY DEF CheckerTick, ResumeIfDue, ResumeReturns, Charges, Upsert, UserStops, UserStarts, Ride
  <2>2. history \in HistoryTypes /\ now \in Times
    BY DEF Types
  <2>3. ASSUME NEW p \in Plugs,
               history' = Changed(p) \/ history' = [history EXCEPT !.tried[p] = now]
        PROVE  history' \in HistoryTypes /\ history'.started = history.started
    <3>1. CASE history' = Changed(p)
      BY <3>1, Touched
    <3>2. CASE history' = [history EXCEPT !.tried[p] = now]
      BY <2>2, <3>2 DEF HistoryTypes
    <3> QED  BY <2>3, <3>1, <3>2
  <2>4. CASE UNCHANGED history
    BY <2>2, <2>4
  <2>5. CASE \E p \in Plugs : \/ history' = Changed(p)
                              \/ history' = [history EXCEPT !.tried[p] = now]
    BY <2>3, <2>5
  <2> QED  BY <2>1, <2>4, <2>5
<1>4. rows' \in [Plugs -> Rows \cup {NoRow}]
  <2>1. UNCHANGED rows \/ \E p \in Plugs, r \in Rows : rows' = [rows EXCEPT ![p] = r]
    BY DEF CheckerTick, ResumeIfDue, ResumeReturns, Charges, Upsert, UserStops, UserStarts, Ride,
           Rows
  <2> QED  BY <2>1 DEF Types
<1>5. level' \in [Plugs -> {"low", "held", "full"}]
  <2>1. UNCHANGED level
        \/ \E p \in Plugs, l \in {"low", "held", "full"} : level' = [level EXCEPT ![p] = l]
    BY DEF CheckerTick, ResumeIfDue, ResumeReturns, Charges, Upsert, UserStops, UserStarts, Ride
  <2> QED  BY <2>1 DEF Types
<1>6. session' \in [Plugs -> {NoSession} \cup SessionTypes]
  <2>1. session \in [Plugs -> {NoSession} \cup SessionTypes]
    BY DEF Types
  <2>2. ASSUME NEW p \in Plugs, session[p].st \in {"charging", "holding"}
        PROVE  session[p] \in SessionTypes
    BY <2>1, <2>2 DEF NoSession
  <2>3. ASSUME NEW p \in Plugs, Charges(p)  PROVE session' \in [Plugs -> {NoSession} \cup SessionTypes]
    <3>1. session[p] \in SessionTypes /\ now \in Int
      BY <2>2, <2>3 DEF Charges, Types
    <3>2. ResolveDeadline(now, session[p].readyBy) \in Int
      BY <3>1, ClockTypes DEF SessionTypes
    <3>3. PICK until \in Int : until = ResolveDeadline(now, session[p].readyBy)
      BY <3>2
    <3>4. \/ UNCHANGED session
          \/ session' = [session EXCEPT ![p] = NoSession]
          \/ session' = [session EXCEPT ![p].st = "holding", ![p].until = until]
      BY <2>3, <3>3 DEF Charges
    <3>5. [session[p] EXCEPT !.st = "holding", !.until = until] \in SessionTypes
      BY <3>1, <3>3 DEF SessionTypes
    <3>6. CASE UNCHANGED session \/ session' = [session EXCEPT ![p] = NoSession]
      BY <2>1, <3>6
    <3>7. CASE session' = [session EXCEPT ![p].st = "holding", ![p].until = until]
      <4>1. session' = [session EXCEPT ![p] = [session[p] EXCEPT !.st = "holding", !.until = until]]
        BY <2>1, <3>1, <3>7
      <4> QED  BY <2>1, <3>5, <4>1
    <3> QED  BY <3>4, <3>6, <3>7
  <2>4. ASSUME NEW p \in Plugs, ResumeReturns(p)
        PROVE  session' \in [Plugs -> {NoSession} \cup SessionTypes]
    <3>1. CASE UNCHANGED session
      BY <2>1, <3>1
    <3>2. CASE session[p].st = "holding"
               /\ session' = [session EXCEPT ![p].st = "charging", ![p].hold = FALSE]
      <4>1. session[p] \in SessionTypes
        BY <2>2, <3>2
      <4>2. [session[p] EXCEPT !.st = "charging", !.hold = FALSE] \in SessionTypes
        BY <4>1 DEF SessionTypes
      <4> QED  BY <2>1, <3>2, <4>2
    <3> QED  BY <2>4, <3>1, <3>2 DEF ResumeReturns
  <2>5. Session(FALSE, Never, FALSE) \in SessionTypes
    BY DEF Session, SessionTypes
  <2>6. ASSUME NEW p \in Plugs, UserStops(p) \/ UserStarts(p)
        PROVE  session' \in [Plugs -> {NoSession} \cup SessionTypes]
    BY <2>1, <2>5, <2>6 DEF UserStops, UserStarts
  <2>7. ASSUME NEW p \in Plugs, ResumeIfDue(p) \/ Upsert(p) \/ Ride(p)  PROVE UNCHANGED session
    BY <2>7 DEF ResumeIfDue, Upsert, Ride
  <2>8. CheckerTick => UNCHANGED session
    BY DEF CheckerTick
  <2> QED  BY <2>1, <2>3, <2>4, <2>6, <2>7, <2>8
<1>7. chk' \in CheckTypes
  <2>1. chk \in CheckTypes /\ now \in Times
    BY DEF Types
  <2>2. CASE CheckerTick
    <3>1. Holding \subseteq Plugs
      BY DEF Holding
    <3> QED  BY <2>1, <2>2, <3>1 DEF CheckerTick, CheckTypes
  <2>3. ASSUME NEW p \in Plugs, ResumeIfDue(p) \/ ResumeReturns(p)  PROVE chk' \in CheckTypes
    BY <2>1, <2>3 DEF ResumeIfDue, ResumeReturns, CheckTypes
  <2>4. ASSUME NEW p \in Plugs, Charges(p) \/ Upsert(p) \/ UserStops(p) \/ UserStarts(p) \/ Ride(p)
        PROVE  UNCHANGED chk
    BY <2>4 DEF Charges, Upsert, UserStops, UserStarts, Ride
  <2> QED  BY <2>1, <2>2, <2>3, <2>4
<1>8. Types'
  BY <1>1, <1>2, <1>3, <1>4, <1>5, <1>6, <1>7, ActKept DEF Types
<1>9. Spaced' /\ Paced'
  BY <1>1, <1>2, <1>3, StillSpaced DEF Types
<1> QED  BY <1>2, <1>8, <1>9, ActKept

LEMMA RestartStep == ASSUME SchedInv, Restart  PROVE SchedInv'
<1> USE Numbers DEF SchedInv
<1>1. act' \in ActTypes /\ act'.pc = "idle" /\ act'.at = Never /\ act'.todo = {}
  <2>1. NoPlan \in PlanTypes
    BY DEF NoPlan, Plan, PlanTypes
  <2> QED  BY <2>1 DEF Restart, Idle, ActTypes
<1>2. chk' \in CheckTypes
  BY DEF Restart, CheckTypes
<1>3. history' \in HistoryTypes /\ \A q \in Plugs : history'.started[q] = Never
  BY DEF Restart, Types, HistoryTypes
<1>4. lastActivation' = Never /\ lastStartFailure' \in [Plugs -> Times]
      /\ UNCHANGED <<now, rows, level, session>>
  BY DEF Restart
<1>5. Types'
  BY <1>1, <1>2, <1>3, <1>4 DEF Types
<1>6. ActOK' /\ Paced'
  BY <1>1 DEF ActOK, Paced
<1>7. now \in Nat
  BY DEF Types
<1>8. Spaced'
  BY <1>1, <1>3, <1>4, <1>7 DEF Spaced, Never
<1> QED  BY <1>5, <1>6, <1>8

LEMMA SchedStep == SchedInv /\ [Next]_vars => SchedInv'
<1> SUFFICES ASSUME SchedInv, [Next]_vars  PROVE SchedInv'
  OBVIOUS
<1>1. CASE UNCHANGED vars
  BY <1>1 DEF vars, SchedInv, Types, ActOK, Spaced, Paced, Throttled, BackingOff
<1>2. CASE Next
  BY <1>2, AdvanceStep, TickStep, ExamineStep, NotStarted, StartedStep, OtherStep, RestartStep
  DEF Next
<1> QED  BY <1>1, <1>2

THEOREM SchedulesInvariant == Spec => []SchedInv
BY InitInv, SchedStep, PTL DEF Spec

\* Whatever the users ask for and the forecast answers, each variable holds
\* what the code could store in it.
THEOREM SchedulesTypesHold == Spec => []SchedulesTypeOK
<1>1. SchedInv => SchedulesTypeOK
  <2>1. SchedInv => now \in Times
    BY Numbers DEF SchedInv, Types
  <2>2. SchedInv => \A p \in Plugs : session[p].st \in {"none", "charging", "holding"}
    BY DEF SchedInv, Types, SessionTypes, NoSession
  <2> QED  BY <2>1, <2>2 DEF SchedInv, Types, ActTypes, CheckTypes, SchedulesTypeOK
<1> QED  BY <1>1, SchedulesInvariant, PTL

\* Starts that no deadline forces keep the throttle's distance, over any
\* number of plugs.
THEOREM UnforcedSpacingHolds == Spec => UnforcedStartsAreSpaced
<1> DEFINE Step ==
        \A p, q \in Plugs :
          LET new == history'.started[p]
              old == history.started[q]
          IN  new # history.started[p] /\ ~act.plan.forced /\ Never \notin {new, old}
                      /\ new # old
                  => new - old >= Throttle
<1>1. SchedInv /\ [Next]_vars => [Step]_vars
  <2> SUFFICES ASSUME SchedInv, Next, NEW p \in Plugs, NEW q \in Plugs,
                      history'.started[p] # history.started[p], ~act.plan.forced,
                      history'.started[p] # Never, history.started[q] # Never,
                      history'.started[p] # history.started[q]
               PROVE  history'.started[p] - history.started[q] >= Throttle
    OBVIOUS
  <2> USE Numbers
  <2>1. \/ Restart
        \/ history'.started = history.started
        \/ \E x \in Plugs : StartSucceeds(x)
    <3>1. CASE Advance \/ ActivatorTick \/ CheckerTick
      BY <3>1 DEF Advance, ActivatorTick, CheckerTick
    <3>2. ASSUME NEW x \in Plugs, Examine(x)  PROVE history'.started = history.started
      <4>1. UNCHANGED history \/ history' = [history EXCEPT !.tried[x] = act.at]
        BY <3>2 DEF Examine
      <4> QED  BY <4>1 DEF SchedInv, Types, HistoryTypes
    <3>3. ASSUME NEW x \in Plugs, StartRefused(x) \/ StartFails(x)  PROVE UNCHANGED history
      BY <3>3 DEF StartRefused, StartFails
    <3>4. ASSUME NEW x \in Plugs,
                 \/ ResumeIfDue(x) \/ ResumeReturns(x) \/ Charges(x)
                 \/ Upsert(x) \/ UserStops(x) \/ UserStarts(x) \/ Ride(x)
          PROVE  history'.started = history.started
      <4>1. UNCHANGED history \/ history' = Changed(x) \/ history' = [history EXCEPT !.tried[x] = now]
        BY <3>4 DEF ResumeIfDue, ResumeReturns, Charges, Upsert, UserStops, UserStarts, Ride
      <4> QED  BY <4>1, Touched DEF SchedInv, Types, HistoryTypes
    <3> QED  BY <3>1, <3>2, <3>3, <3>4 DEF Next
  <2>2. ~Restart
    <3>1. history \in HistoryTypes
      BY DEF SchedInv, Types
    <3>2. Restart => history'.started = [r \in Plugs |-> Never]
      BY <3>1 DEF Restart, HistoryTypes
    <3> QED  BY <3>2
  <2>3. PICK x \in Plugs : StartSucceeds(x)
    BY <2>1, <2>2
  <2>4. /\ history'.started = [history.started EXCEPT ![x] = act.at]
        /\ act.pc = "starting" /\ act.at \in Int /\ act.last \in Int
        /\ history.started[q] \in Int
    <3>1. act.at \in Times /\ history' = [Changed(x) EXCEPT !.started[x] = act.at]
          /\ act.pc = "starting"
      BY <2>3 DEF StartSucceeds, SchedInv, Types, ActTypes
    <3> QED  BY <3>1, Touched DEF SchedInv, Types, ActTypes, HistoryTypes
  <2>5. history'.started[p] = act.at
    BY <2>4 DEF SchedInv, Types, HistoryTypes
  <2>6. act.last # Never /\ history.started[q] <= act.last /\ act.at - act.last >= Throttle
    BY <2>4, <2>5 DEF SchedInv, Spaced, Throttled
  <2> QED  BY <2>4, <2>5, <2>6
<1>2. Spec => [][Step]_vars
  BY <1>1, SchedulesInvariant, PTL DEF Spec
<1> QED  BY <1>2 DEF UnforcedStartsAreSpaced

\* Failed starts of one plug are a back-off apart, whatever its deadlines.
THEOREM PacingHolds == Spec => FailuresArePaced
<1> DEFINE Step ==
        \A p \in Plugs :
          LET new == lastStartFailure'[p]
              old == lastStartFailure[p]
          IN  old # new /\ Never \notin {old, new} => new - old >= Throttle
<1>1. SchedInv /\ [Next]_vars => [Step]_vars
  <2> SUFFICES ASSUME SchedInv, Next, NEW p \in Plugs,
                      lastStartFailure[p] # lastStartFailure'[p],
                      lastStartFailure[p] # Never, lastStartFailure'[p] # Never
               PROVE  lastStartFailure'[p] - lastStartFailure[p] >= Throttle
    OBVIOUS
  <2> USE Numbers
  <2>1. PICK x \in Plugs : StartFails(x) /\ act.plan.carbon
    <3>1. ~Restart
      BY DEF Restart
    <3>2. \A x \in Plugs : ~StartSucceeds(x)
      BY DEF StartSucceeds, SchedInv, Types
    <3>3. ~Advance /\ ~ActivatorTick /\ ~CheckerTick
      BY DEF Advance, ActivatorTick, CheckerTick
    <3>4. \A x \in Plugs : ~Examine(x) /\ ~StartRefused(x) /\ ~ResumeIfDue(x) /\ ~ResumeReturns(x)
                           /\ ~Charges(x) /\ ~Upsert(x) /\ ~UserStops(x) /\ ~UserStarts(x) /\ ~Ride(x)
      BY DEF Examine, StartRefused, ResumeIfDue, ResumeReturns, Charges, Upsert, UserStops,
             UserStarts, Ride
    <3> QED  BY <3>1, <3>2, <3>3, <3>4 DEF Next, StartFails
  <2>2. /\ lastStartFailure' = [lastStartFailure EXCEPT ![x] = act.at]
        /\ act.pc = "starting" /\ act.plug = x
    BY <2>1 DEF StartFails
  <2>3. x = p /\ lastStartFailure'[p] = act.at
    BY <2>2 DEF SchedInv, Types
  <2>4. ~BackingOff(p, act.at)
    BY <2>1, <2>2, <2>3 DEF SchedInv, Paced
  <2>5. act.at \in Int /\ lastStartFailure[p] \in Int
    BY DEF SchedInv, Types, ActTypes
  <2> QED  BY <2>3, <2>4, <2>5 DEF BackingOff
<1>2. Spec => [][Step]_vars
  BY <1>1, SchedulesInvariant, PTL DEF Spec
<1> QED  BY <1>2 DEF FailuresArePaced

----------------------------------------------------------------------------
(* The clock: windows and deadlines as times of day.                       *)

LEMMA NextMultiple ==
    ASSUME NEW k \in Int, NEW n \in Int
    PROVE  (k + 1) * n = k * n + n
OBVIOUS

LEMMA ScaledOrder ==
    ASSUME NEW x \in Int, NEW y \in Int, NEW k \in Nat, k > 0
    PROVE  x * k < y * k <=> x < y
OBVIOUS

\* A number is a multiple and its remainder.
LEMMA Quotient ==
    ASSUME NEW z \in Int, NEW n \in Nat \ {0}
    PROVE  \E k, m, r \in Int : m = k * n /\ r = z % n /\ z = m + r /\ 0 <= r /\ r < n
<1> DEFINE k == z \div n
<1>1. k \in Int /\ z = k * n + (z % n) /\ z % n \in 0 .. n - 1
  OBVIOUS
<1> HIDE DEF k
<1>2. PICK m \in Int : m = k * n
  BY <1>1
<1>3. PICK r \in Int : r = z % n
  BY <1>1
<1> QED  BY <1>1, <1>2, <1>3

\* Two multiples less than a day, or any other number, apart are the same.
LEMMA SameMultiple ==
    ASSUME NEW k \in Int, NEW j \in Int, NEW n \in Nat \ {0}, NEW a \in Int, NEW b \in Int,
           a = k * n, b = j * n, a < b + n, b < a + n
    PROVE  a = b
<1>1. (k + 1) * n = a + n /\ (j + 1) * n = b + n
  BY NextMultiple
<1>2. j * n < (k + 1) * n /\ k * n < (j + 1) * n
  BY <1>1
<1>3. j < k + 1 /\ k < j + 1
  <2> DEFINE k1 == k + 1
             j1 == j + 1
  <2>1. k1 \in Int /\ j1 \in Int
    OBVIOUS
  <2> HIDE DEF k1, j1
  <2>2. j * n < k1 * n => j < k1
    BY <2>1, ScaledOrder
  <2>3. k * n < j1 * n => k < j1
    BY <2>1, ScaledOrder
  <2> QED  BY <1>2, <2>2, <2>3 DEF k1, j1
<1> QED  BY <1>3

\* The remainder is the one number that leaves a multiple.
LEMMA Remainder ==
    ASSUME NEW z \in Int, NEW k \in Int, NEW n \in Nat \ {0}, NEW m \in Int, m = k * n,
           m <= z, z < m + n
    PROVE  z % n = z - m
<1>1. PICK j, b, r \in Int : b = j * n /\ r = z % n /\ z = b + r /\ 0 <= r /\ r < n
  BY Quotient
<1>2. m < b + n /\ b < m + n
  BY <1>1
<1>3. m = b
  BY <1>1, <1>2, SameMultiple
<1> QED  BY <1>1, <1>3

LEMMA MidnightOf ==
    ASSUME NEW t \in Int
    PROVE  \E k, m \in Int : /\ m = k * Day /\ Midnight(t) = m
                             /\ m <= t /\ t < m + Day
<1>1. Day \in Nat \ {0}
  BY Numbers
<1>2. PICK k, m, r \in Int : m = k * Day /\ r = t % Day /\ t = m + r /\ 0 <= r /\ r < Day
  BY <1>1, Quotient
<1>3. Midnight(t) = m
  BY <1>2 DEF Midnight
<1>4. m <= t /\ t < m + Day
  BY <1>1, <1>2
<1>5. m = k * Day
  BY <1>2
<1> QED  BY <1>3, <1>4, <1>5

\* The time of day is one of its units.
LEMMA TimeOfDay ==
    ASSUME NEW t \in Int
    PROVE  FormatTime(t) \in 0 .. Day - 1
<1>1. Day \in Nat \ {0} /\ Minute \in Nat \ {0}
  BY Numbers
<1>2. PICK k, m, d \in Int : m = k * Day /\ d = t % Day /\ t = m + d /\ 0 <= d /\ d < Day
  BY <1>1, Quotient
<1>3. PICK i, n, r \in Int : n = i * Minute /\ r = t % Minute /\ t = n + r /\ 0 <= r /\ r < Minute
  BY <1>1, Quotient
<1>4. PICK j, c, z \in Int : c = j * Minute /\ z = Day % Minute /\ Day = c + z
  BY <1>1, Quotient
<1>5. Day = j * Minute
  BY <1>4, TimesAssumption
<1>6. PICK h \in Int : h = k * j
  OBVIOUS
<1>7. m = h * Minute
  BY <1>1, <1>2, <1>5, <1>6
<1>8. r <= d
  <2> SUFFICES ASSUME d < r  PROVE FALSE
    BY <1>2, <1>3
  <2>1. t % Minute = t - m
    BY <1>1, <1>2, <1>3, <1>7, Remainder
  <2> QED  BY <1>2, <1>3, <2>1
<1>9. FormatTime(t) = d - r
  BY <1>2, <1>3 DEF FormatTime
<1> QED  BY <1>1, <1>2, <1>3, <1>8, <1>9

\* A deadline stays the same until it has passed.
LEMMA DeadlineStays ==
    ASSUME NEW b \in 0 .. Day - 1, NEW s \in Int, NEW t \in Int,
           s <= t, t <= ResolveDeadline(s, b)
    PROVE  ResolveDeadline(t, b) = ResolveDeadline(s, b)
<1>1. Day \in Nat \ {0} /\ b \in Int
  BY Numbers
<1>2. PICK k, m \in Int : m = k * Day /\ Midnight(s) = m /\ m <= s /\ s < m + Day
  BY MidnightOf
<1>3. PICK j, n \in Int : n = j * Day /\ Midnight(t) = n /\ n <= t /\ t < n + Day
  BY MidnightOf
<1>4. PICK m1 \in Int : m1 = m + Day /\ m1 = (k + 1) * Day
  BY <1>1, <1>2, NextMultiple
<1>5. t < m + Day + Day
  BY <1>1, <1>2 DEF ResolveDeadline
<1>6. n = m \/ n = m1
  <2>1. CASE t < m + Day
    BY <1>1, <1>2, <1>3, <2>1, SameMultiple
  <2>2. CASE m + Day <= t
    <3>1. k + 1 \in Int /\ m1 < n + Day /\ n < m1 + Day
      BY <1>1, <1>2, <1>3, <1>4, <1>5, <2>2
    <3> QED  BY <1>1, <1>3, <1>4, <3>1, SameMultiple
  <2> QED  BY <1>1, <1>2, <2>1, <2>2
<1> QED  BY <1>1, <1>2, <1>3, <1>4, <1>6 DEF ResolveDeadline

\* The window from a to b that ends at e is the one that an instant in it finds.
LEMMA WindowFound ==
    ASSUME NEW a \in 0 .. Day - 1, NEW b \in 0 .. Day - 1, a # b,
           NEW t \in Int, NEW e \in Int,
           e % Day = b, e - ((b - a) % Day) <= t, t < e
    PROVE  ResolveWindow(t, a, b) = [start |-> e - ((b - a) % Day), end |-> e]
<1>1. Day \in Nat \ {0} /\ a \in Int /\ b \in Int
  BY Numbers
<1>2. PICK k, m \in Int : m = k * Day /\ Midnight(t) = m /\ m <= t /\ t < m + Day
  BY MidnightOf
<1>3. PICK j, n, r \in Int : n = j * Day /\ r = e % Day /\ e = n + r
  BY <1>1, Quotient
<1>4. PICK l \in Int : l = (b - a) % Day /\ l = IF a < b THEN b - a ELSE b - a + Day
  <2>1. CASE a < b
    <3>1. b - a \in Int /\ 0 = 0 * Day /\ 0 <= b - a /\ b - a < 0 + Day
      BY <1>1, <2>1
    <3>2. (b - a) % Day = b - a - 0
      BY <1>1, <3>1, Remainder
    <3> QED  BY <1>1, <2>1, <3>2
  <2>2. CASE b < a
    <3>1. 0 - Day = (0 - 1) * Day /\ 0 - Day <= b - a /\ b - a < (0 - Day) + Day
      BY <1>1, <2>2
    <3>2. b - a \in Int /\ 0 - 1 \in Int /\ 0 - Day \in Int
      BY <1>1
    <3>3. (b - a) % Day = (b - a) - (0 - Day)
      BY <1>1, <3>1, <3>2, Remainder
    <3> QED  BY <1>1, <2>2, <3>3
  <2> QED  BY <1>1, <2>1, <2>2
<1>0. SUFFICES ResolveWindow(t, a, b) = [start |-> e - l, end |-> e]
  BY <1>4
<1>5. PICK i, m1 \in Int : i = k + 1 /\ m1 = m + Day /\ m1 = i * Day
  BY <1>1, <1>2, NextMultiple
<1>6. PICK m0 \in Int : m0 = m - Day /\ m0 = (k - 1) * Day
  <2>1. k - 1 \in Int /\ (k - 1) + 1 = k
    OBVIOUS
  <2>2. ((k - 1) + 1) * Day = (k - 1) * Day + Day
    BY <1>1, <2>1, NextMultiple
  <2>3. PICK c \in Int : c = (k - 1) * Day
    BY <1>1, <2>1
  <2> QED  BY <1>1, <1>2, <2>1, <2>2, <2>3
<1>7. e = n + b /\ n + b - l <= t /\ t < n + b
  BY <1>3, <1>4
<1>8. CASE a < b
  \* The end is today's or tomorrow's, and the start lies behind: today's.
  <2>1. n < m1 /\ m0 < n /\ l = b - a
    BY <1>1, <1>2, <1>4, <1>5, <1>6, <1>7, <1>8
  <2>2. n = m
    BY <1>1, <1>2, <1>3, <1>5, <1>6, <2>1, SameMultiple
  <2>3. e = m + b /\ Midnight(t) = m /\ m + a <= t /\ t < m + b
    BY <1>1, <1>2, <1>4, <1>7, <2>1, <2>2
  <2> QED  BY <1>0, <1>1, <1>2, <1>8, <2>1, <2>3 DEF ResolveWindow
<1>9. CASE b < a
  <2>1. l = b - a + Day
    BY <1>1, <1>4, <1>9
  <2>2. n = m \/ n = m1
    <3>1. n < m1 + Day /\ m0 < n
      BY <1>1, <1>2, <1>4, <1>5, <1>6, <1>7, <1>9, <2>1
    <3>2. CASE n < m1
      BY <1>1, <1>2, <1>3, <1>5, <1>6, <3>1, <3>2, SameMultiple
    <3>3. CASE m1 <= n
      <4>1. m1 < n + Day
        BY <1>1, <3>3
      <4> QED  BY <1>1, <1>3, <1>5, <3>1, <4>1, SameMultiple
    <3> QED  BY <3>2, <3>3
  <2>3. CASE n = m
    <3>1. e = m + b /\ Midnight(t) = m /\ t < m + b
      BY <1>2, <1>7, <2>3
    <3> QED  BY <1>0, <1>1, <1>2, <1>9, <2>1, <3>1 DEF ResolveWindow
  <2>4. CASE n = m1
    <3>1. e = m + Day + b /\ Midnight(t) = m /\ m + a <= t
      BY <1>1, <1>2, <1>5, <1>7, <2>1, <2>4
    <3> QED  BY <1>0, <1>1, <1>2, <1>9, <2>1, <3>1 DEF ResolveWindow
  <2> QED  BY <2>2, <2>3, <2>4
<1> QED  BY <1>1, <1>8, <1>9

\* Every time of day comes within a day.
LEMMA EndIsAhead ==
    ASSUME NEW b \in 0 .. Day - 1, NEW t \in Int
    PROVE  \E e \in t + 1 .. t + Day : e % Day = b
<1>1. Day \in Nat \ {0} /\ b \in Int
  BY Numbers
<1>2. PICK k, m \in Int : m = k * Day /\ m <= t /\ t < m + Day
  BY MidnightOf
<1>3. PICK i, m1 \in Int : i = k + 1 /\ m1 = m + Day /\ m1 = i * Day
  BY <1>1, <1>2, NextMultiple
<1>4. ASSUME NEW j \in Int, NEW n \in Int, n = j * Day  PROVE (n + b) % Day = b
  <2>1. n + b \in Int /\ n <= n + b /\ n + b < n + Day
    BY <1>1
  <2>2. (n + b) % Day = (n + b) - n
    BY <1>1, <1>4, <2>1, Remainder
  <2> QED  BY <1>1, <2>2
<1>5. (m + b) % Day = b /\ (m1 + b) % Day = b
  BY <1>2, <1>3, <1>4
<1>6. m + b \in t + 1 .. t + Day \/ m1 + b \in t + 1 .. t + Day
  BY <1>1, <1>2, <1>3
<1> QED  BY <1>5, <1>6

----------------------------------------------------------------------------
(* The waits for plugs, and what they make of a tick.                      *)

\* A wait for each of a set of plugs; a wait so far.
Delays(S) == WaitPolls * Cardinality(S)
Waited(d) == d \in 0 .. WaitPolls /\ \E k \in Nat : d = k * Poll

\* Nothing on record lies ahead, and a start has failed only if it was tried.
Recorded ==
    \A q \in Plugs :
        /\ history.changed[q] <= now
        /\ lastStartFailure[q] <= history.tried[q] /\ history.tried[q] <= now

\* Up to here a tick has only waited for plugs it is done with.
DoneAt == IF act.pc = "starting" THEN act.since ELSE now

\* A tick takes as long as its waits; a plug not tried in it has none.
TickTime ==
    act.pc # "idle" =>
        /\ act.todo # {}
        /\ act.at <= DoneAt /\ DoneAt <= now
        /\ ~act.due => now = act.at
        /\ \A q \in Plugs : lastStartFailure[q] <= act.at
        /\ DoneAt - act.at <= Delays(Plugs \ act.todo)
        /\ \A q \in Plugs : history.tried[q] < act.at =>
              DoneAt - act.at <= Delays((Plugs \ {q}) \ act.todo)
        /\ act.pc = "starting" =>
              /\ act.plug \in act.todo /\ Waited(now - act.since)
              /\ act.at <= history.tried[act.plug]

Length(p) == (rows[p].to - rows[p].from) % Day

\* A carbon-aware schedule that should be tried at x, in a window that ends at
\* e, and has not been.
WaitingTo(p, x, e) ==
    /\ rows[p] # NoRow /\ rows[p].type = "carbon" /\ rows[p].enabled
    /\ Candidate(p)
    /\ history.changed[p] <= x /\ x <= now /\ history.tried[p] < x
    /\ e % Day = rows[p].to /\ now < e /\ e - Length(p) <= x /\ e - ToTarget(p) <= x

Late == Max({Throttle + Poll, WaitPolls}) + Others

\* Such a schedule is before a tick that comes soon enough, in one that came
\* too early for x or for the back-off, or still ahead in a timely one.
OnTime(p, x) ==
    IF act.pc = "idle"
    THEN now + (IF act.due THEN 0 ELSE Poll) <= x + Late
    ELSE \/ act.at <= x
         \/ BackingOff(p, act.at)
         \/ p \in act.todo /\ act.rows[p] = rows[p] /\ act.at <= x + Late

DeadlineInv == \A p \in Plugs : \A x, e \in Int : WaitingTo(p, x, e) => OnTime(p, x)

LEMMA MaxOfTwo ==
    ASSUME NEW a \in Int, NEW b \in Int
    PROVE  Max({a, b}) \in {a, b} /\ a <= Max({a, b}) /\ b <= Max({a, b})
<1>1. \E x \in {a, b} : \A y \in {a, b} : x >= y
  <2>1. CASE a >= b
    BY <2>1
  <2>2. CASE b >= a
    BY <2>2
  <2> QED  BY <2>1, <2>2
<1> QED  BY <1>1 DEF Max

LEMMA WaitIsPolls ==
    /\ WaitPolls \in Nat /\ Wait <= WaitPolls
    /\ \E m \in Nat : WaitPolls = m * Poll
<1>1. Poll \in Nat /\ Poll > 0 /\ Wait \in Nat
  BY Numbers, SchedulesAssumption
<1>2. PICK z \in Nat : z = Wait + Poll - 1
  BY <1>1
<1>3. PICK m \in Nat : m = z \div Poll
  BY <1>1
<1>4. PICK r \in Int : r = z % Poll /\ r < Poll
  BY <1>1
<1>5. PICK w \in Int : w = m * Poll
  BY <1>1
<1>6. z = m * Poll + r
  BY <1>1, <1>3, <1>4
<1>7. z = w + r
  BY <1>5, <1>6
<1>8. w \in Nat
  BY <1>1, <1>5
<1>9. WaitPolls = w
  BY <1>2, <1>3, <1>5 DEF WaitPolls
<1>10. Wait <= w
  BY <1>1, <1>2, <1>4, <1>7, <1>8
<1> QED  BY <1>5, <1>8, <1>9, <1>10

\* A wait that is not over at a poll is not longer than WaitPolls at the next.
LEMMA WaitGoesOn ==
    /\ Waited(0)
    /\ \A d \in Int : Waited(d) /\ d < Wait => Waited(d + Poll)
<1>1. Poll \in Nat /\ Poll > 0 /\ Wait \in Nat
  BY Numbers, SchedulesAssumption
<1>2. Waited(0)
  <2>1. 0 = 0 * Poll
    BY <1>1
  <2> QED  BY <2>1, WaitIsPolls DEF Waited
<1>3. ASSUME NEW d \in Int, Waited(d), d < Wait
      PROVE  Waited(d + Poll)
  <2>1. PICK k \in Nat : d = k * Poll
    BY <1>3 DEF Waited
  <2>2. PICK m \in Nat : WaitPolls = m * Poll
    BY WaitIsPolls
  <2>3. k * Poll < m * Poll
    BY <1>3, <2>1, <2>2, WaitIsPolls, <1>1
  <2>4. k < m
    BY <1>1, <2>3, ScaledOrder
  <2>5. PICK j \in Nat : j = k + 1
    OBVIOUS
  <2>6. j * Poll = d + Poll
    BY <1>1, <2>1, <2>5, NextMultiple
  <2>7. ~(m * Poll < j * Poll)
    BY <1>1, <2>4, <2>5, ScaledOrder
  <2>8. d + Poll <= WaitPolls
    BY <1>1, <1>3, <2>2, <2>6, <2>7, WaitIsPolls
  <2>9. d + Poll \in 0 .. WaitPolls
    BY <1>1, <1>3, <2>8, WaitIsPolls DEF Waited
  <2> QED  BY <2>5, <2>6, <2>9 DEF Waited
<1> QED  BY <1>2, <1>3

\* Delays add up, plug by plug.
LEMMA DelaysAre ==
    /\ \A S \in SUBSET Plugs : Delays(S) \in Nat
    /\ \A S, T \in SUBSET Plugs : S \subseteq T => Delays(S) <= Delays(T)
    /\ \A S \in SUBSET Plugs, p \in Plugs :
          p \notin S => Delays(S \cup {p}) = Delays(S) + WaitPolls
    /\ \A p \in Plugs : Delays(Plugs \ {p}) = Others
<1>1. WaitPolls \in Nat /\ IsFiniteSet(Plugs)
  BY WaitIsPolls, SchedulesAssumption
<1>2. ASSUME NEW S \in SUBSET Plugs  PROVE IsFiniteSet(S) /\ Cardinality(S) \in Nat
  BY <1>1, FS_Subset, FS_CardinalityType
<1>3. ASSUME NEW x \in Nat, NEW y \in Nat, x <= y
      PROVE  WaitPolls * x \in Nat /\ WaitPolls * x <= WaitPolls * y
  <2>1. PICK w \in Nat : w = WaitPolls
    BY <1>1
  <2>2. w * x \in Nat /\ w * x <= w * y
    BY <1>3
  <2> QED  BY <2>1, <2>2
<1>4. ASSUME NEW S \in SUBSET Plugs  PROVE Delays(S) \in Nat
  BY <1>2, <1>3 DEF Delays
<1>5. ASSUME NEW S \in SUBSET Plugs, NEW T \in SUBSET Plugs, S \subseteq T
      PROVE  Delays(S) <= Delays(T)
  BY <1>2, <1>3, <1>5, FS_Subset DEF Delays
<1>6. ASSUME NEW S \in SUBSET Plugs, NEW p \in Plugs, p \notin S
      PROVE  Delays(S \cup {p}) = Delays(S) + WaitPolls
  <2>1. PICK c \in Nat : c = Cardinality(S)
    BY <1>2
  <2>2. Cardinality(S \cup {p}) = c + 1
    BY <1>2, <1>6, <2>1, FS_AddElement
  <2>3. WaitPolls * (c + 1) = WaitPolls * c + WaitPolls
    BY <1>1
  <2> QED  BY <2>1, <2>2, <2>3 DEF Delays
<1>7. ASSUME NEW p \in Plugs  PROVE Delays(Plugs \ {p}) = Others
  <2>1. Cardinality(Plugs \ {p}) = Cardinality(Plugs) - 1
    BY <1>1, FS_RemoveElement
  <2> QED  BY <2>1 DEF Delays, Others
<1> QED  BY <1>4, <1>5, <1>6, <1>7

\* What the bounds are made of.
LEMMA BoundsAre ==
    ASSUME NEW p \in Plugs
    PROVE  /\ Others \in Nat /\ Late \in Nat /\ Slack = Late + Others
           /\ Throttle + Poll + Others <= Late /\ WaitPolls + Others <= Late
           /\ Gap \in Nat /\ Max({Poll, WaitPolls}) \in Nat
           /\ Gap = Max({Poll, WaitPolls}) + Others + Others
           /\ Poll <= Max({Poll, WaitPolls}) /\ WaitPolls <= Max({Poll, WaitPolls})
           /\ Max({Poll, WaitPolls}) <= Poll + WaitPolls
<1>1. Others \in Nat
  BY DelaysAre
<1>2. WaitPolls \in Nat /\ Poll \in Nat /\ Throttle \in Nat
  BY WaitIsPolls, Numbers
<1>3. PICK l \in Nat : l = Max({Throttle + Poll, WaitPolls}) /\ Throttle + Poll <= l /\ WaitPolls <= l
  BY <1>2, MaxOfTwo
<1>4. PICK g \in Nat : /\ g = Max({Poll, WaitPolls}) /\ Poll <= g /\ WaitPolls <= g
                       /\ g <= Poll + WaitPolls
  BY <1>2, MaxOfTwo
<1>5. Late = l + Others /\ Slack = l + Others + Others /\ Gap = g + Others + Others
  BY <1>1, <1>3, <1>4 DEF Late, Slack, Gap
<1> QED  BY <1>1, <1>2, <1>3, <1>4, <1>5

----------------------------------------------------------------------------
(***************************************************************************)
(* What a step does to one plug.                                           *)
(***************************************************************************)

SamePlug(q) ==
    /\ rows'[q] = rows[q] /\ level'[q] = level[q] /\ session'[q] = session[q]
    /\ history'.changed[q] = history.changed[q]

\* A plug is the same as before or changed now.
LEMMA PlugChanges ==
    ASSUME SchedInv, Next, NEW q \in Plugs
    PROVE  history'.changed[q] = now \/ SamePlug(q)
<1> USE DEF SchedInv
<1>0. /\ rows \in [Plugs -> Rows \cup {NoRow}] /\ level \in [Plugs -> {"low", "held", "full"}]
      /\ session \in [Plugs -> {NoSession} \cup SessionTypes] /\ now \in Times
      /\ history \in HistoryTypes
  BY Numbers DEF Types
<1>1. CASE Advance \/ ActivatorTick \/ CheckerTick
  BY <1>1 DEF Advance, ActivatorTick, CheckerTick, SamePlug
<1>2. CASE Restart
  BY <1>0, <1>2 DEF Restart, HistoryTypes
<1>3. ASSUME NEW p \in Plugs, Examine(p)  PROVE SamePlug(q)
  <2>1. act.at \in Times
    BY DEF Types, ActTypes
  <2>2. history' = history \/ history' = [history EXCEPT !.tried[p] = act.at]
    BY <1>3 DEF Examine
  <2>3. history'.changed = history.changed
    BY <2>1, <2>2 DEF Types, HistoryTypes, Changed
  <2> QED  BY <1>3, <2>3 DEF Examine, SamePlug
<1>4. ASSUME NEW p \in Plugs, StartRefused(p) \/ StartFails(p)  PROVE SamePlug(q)
  BY <1>4 DEF StartRefused, StartFails, SamePlug
<1>5. ASSUME NEW p \in Plugs, StartSucceeds(p)  PROVE history'.changed[q] = now \/ SamePlug(q)
  <2>1. act.at \in Times
    BY DEF Types, ActTypes
  <2>2. history'.changed[q] = IF q = p THEN now ELSE history.changed[q]
    BY <1>5, <2>1 DEF Types, HistoryTypes, Changed, StartSucceeds
  <2>3. q # p => session'[q] = session[q]
    BY <1>0, <1>5 DEF StartSucceeds
  <2> QED  BY <1>5, <2>2, <2>3 DEF StartSucceeds, SamePlug
<1>6. ASSUME NEW p \in Plugs, ResumeIfDue(p)  PROVE SamePlug(q)
  <2>1. history' = history \/ history' = [history EXCEPT !.tried[p] = now]
    BY <1>6 DEF ResumeIfDue
  <2>2. history'.changed = history.changed
    BY <1>0, <2>1 DEF Types, HistoryTypes, Changed
  <2> QED  BY <1>6, <2>2 DEF ResumeIfDue, SamePlug
<1>7. ASSUME NEW p \in Plugs, ResumeReturns(p)  PROVE history'.changed[q] = now \/ SamePlug(q)
  <2>1. CASE UNCHANGED <<session, history>>
    BY <1>7, <2>1 DEF ResumeReturns, SamePlug
  <2>2. CASE /\ session' = [session EXCEPT ![p].st = "charging", ![p].hold = FALSE]
             /\ history' = Changed(p)
    <3>1. history'.changed[q] = IF q = p THEN now ELSE history.changed[q]
      BY <2>2 DEF Types, HistoryTypes, Changed
    <3>2. q # p => session'[q] = session[q]
      BY <1>0, <2>2
    <3> QED  BY <1>7, <3>1, <3>2 DEF ResumeReturns, SamePlug
  <2> QED  BY <1>7, <2>1, <2>2 DEF ResumeReturns
<1>8. ASSUME NEW p \in Plugs, Charges(p) \/ Upsert(p) \/ UserStops(p) \/ UserStarts(p) \/ Ride(p)
      PROVE  history'.changed[q] = now \/ SamePlug(q)
  <2>1. history'.changed[q] = IF q = p THEN now ELSE history.changed[q]
    <3>1. history' = Changed(p)
      BY <1>8 DEF Charges, Upsert, UserStops, UserStarts, Ride
    <3> QED  BY <3>1 DEF Types, HistoryTypes, Changed
  <2>2. CASE Charges(p)
    <3>1. q # p => session'[q] = session[q] /\ level'[q] = level[q]
      BY <1>0, <2>2 DEF Charges
    <3> QED  BY <2>1, <2>2, <3>1 DEF Charges, SamePlug
  <2>3. CASE Upsert(p)
    <3>1. q # p => rows'[q] = rows[q]
      BY <1>0, <2>3 DEF Upsert
    <3> QED  BY <2>1, <2>3, <3>1 DEF Upsert, SamePlug
  <2>4. CASE UserStops(p) \/ UserStarts(p)
    <3>1. q # p => session'[q] = session[q]
      BY <1>0, <2>4 DEF UserStops, UserStarts
    <3> QED  BY <2>1, <2>4, <3>1 DEF UserStops, UserStarts, SamePlug
  <2>5. CASE Ride(p)
    <3>1. q # p => level'[q] = level[q]
      BY <1>0, <2>5 DEF Ride
    <3> QED  BY <2>1, <2>5, <3>1 DEF Ride, SamePlug
  <2> QED  BY <1>8, <2>2, <2>3, <2>4, <2>5
<1> QED  BY <1>1, <1>2, <1>3, <1>4, <1>5, <1>6, <1>7, <1>8 DEF Next

\* It is tried by the checker, now, or by the activator.
LEMMA PlugTried ==
    ASSUME SchedInv, Next, NEW q \in Plugs
    PROVE  \/ history'.tried[q] = history.tried[q]
           \/ history'.tried[q] = now /\ ResumeIfDue(q)
           \/ /\ history'.tried[q] = act.at /\ Examine(q) /\ act'.pc = "starting"
              /\ act'.at = act.at
<1> USE DEF SchedInv
<1>0. now \in Times /\ act.at \in Times /\ act \in ActTypes
  BY Numbers DEF Types, ActTypes
<1>1. CASE Advance \/ ActivatorTick \/ CheckerTick \/ Restart
  <2>1. CASE Restart
    BY <2>1 DEF Restart, Types, HistoryTypes
  <2> QED  BY <1>1, <2>1 DEF Advance, ActivatorTick, CheckerTick
<1>2. ASSUME NEW p \in Plugs, Examine(p)
      PROVE  \/ history'.tried[q] = history.tried[q]
             \/ /\ history'.tried[q] = act.at /\ Examine(q) /\ act'.pc = "starting"
                /\ act'.at = act.at
  <2>1. CASE history' = history
    BY <2>1
  <2>2. CASE history' # history
    <3>1. PICK plan : /\ act' = Starting(p, plan)
                      /\ history' = [history EXCEPT !.tried[p] = act.at]
      BY <1>2, <2>2 DEF Examine
    <3>2. act'.pc = "starting" /\ act'.at = act.at
      BY <1>0, <3>1 DEF Starting, ActTypes
    <3>3. history'.tried[q] = IF q = p THEN act.at ELSE history.tried[q]
      BY <1>0, <3>1 DEF Types, HistoryTypes, Changed
    <3> QED  BY <1>2, <3>2, <3>3
  <2> QED  BY <2>1, <2>2
<1>3. ASSUME NEW p \in Plugs, StartRefused(p) \/ StartFails(p) \/ StartSucceeds(p)
      PROVE  history'.tried[q] = history.tried[q]
  <2>1. history' = history \/ history' = [Changed(p) EXCEPT !.started[p] = act.at]
    BY <1>3 DEF StartRefused, StartFails, StartSucceeds
  <2> QED  BY <1>0, <2>1 DEF Types, HistoryTypes, Changed
<1>4. ASSUME NEW p \in Plugs, ResumeIfDue(p)
      PROVE  \/ history'.tried[q] = history.tried[q]
             \/ history'.tried[q] = now /\ ResumeIfDue(q)
  <2>1. history' = history \/ history' = [history EXCEPT !.tried[p] = now]
    BY <1>4 DEF ResumeIfDue
  <2> QED  BY <1>0, <1>4, <2>1 DEF Types, HistoryTypes, Changed
<1>5. ASSUME NEW p \in Plugs, \/ ResumeReturns(p) \/ Charges(p)
                              \/ Upsert(p) \/ UserStops(p) \/ UserStarts(p) \/ Ride(p)
      PROVE  history'.tried[q] = history.tried[q]
  <2>1. history' = history \/ history' = Changed(p)
    BY <1>5 DEF ResumeReturns, Charges, Upsert, UserStops, UserStarts, Ride
  <2> QED  BY <2>1 DEF Types, HistoryTypes, Changed
<1> QED  BY <1>1, <1>2, <1>3, <1>4, <1>5 DEF Next

\* The steps of the checker, the vehicles and the users leave the activator.
LEMMA OthersKeep ==
    ASSUME \/ CheckerTick
           \/ \E p \in Plugs : \/ ResumeIfDue(p) \/ ResumeReturns(p) \/ Charges(p)
                               \/ Upsert(p) \/ UserStops(p) \/ UserStarts(p) \/ Ride(p)
    PROVE  UNCHANGED <<now, act, lastStartFailure>>
BY DEF CheckerTick, ResumeIfDue, ResumeReturns, Charges, Upsert, UserStops, UserStarts, Ride

\* A step of the activator that is done with a plug.
Finishes(p) ==
    /\ act.pc # "idle" /\ act' = Done(p) /\ now' = now /\ history'.tried = history.tried
    /\ act.pc = "starting" => act.plug = p
    /\ act.pc = "tick" => p \in act.todo /\ UNCHANGED lastStartFailure

LEMMA ActivatorSteps ==
    ASSUME SchedInv, NEW p \in Plugs
    PROVE  /\ StartRefused(p) \/ StartFails(p) \/ StartSucceeds(p) =>
                Finishes(p) /\ act.pc = "starting"
           /\ Examine(p) =>
                /\ UNCHANGED <<now, lastStartFailure>> /\ act.pc = "tick" /\ p \in act.todo
                /\ \/ Finishes(p)
                   \/ /\ act'.pc = "starting" /\ act'.plug = p /\ act'.since = now
                      /\ act'.at = act.at /\ act'.todo = act.todo /\ act'.rows = act.rows
                      /\ act'.due = act.due /\ history'.tried[p] = act.at
<1>0. act \in ActTypes /\ act.at \in Times
  BY DEF SchedInv, Types, ActTypes
<1>1. StartRefused(p) \/ StartFails(p) \/ StartSucceeds(p) => Finishes(p) /\ act.pc = "starting"
  <2>1. StartRefused(p) \/ StartFails(p) => Finishes(p) /\ act.pc = "starting"
    BY DEF StartRefused, StartFails, Finishes
  <2>2. StartSucceeds(p) => history'.tried = history.tried
    BY DEF StartSucceeds, SchedInv, Types, HistoryTypes, Changed
  <2> QED  BY <2>1, <2>2 DEF StartSucceeds, Finishes
<1>2. ASSUME Examine(p)
      PROVE  /\ UNCHANGED <<now, lastStartFailure>> /\ act.pc = "tick" /\ p \in act.todo
             /\ \/ Finishes(p)
                \/ /\ act'.pc = "starting" /\ act'.plug = p /\ act'.since = now
                   /\ act'.at = act.at /\ act'.todo = act.todo /\ act'.rows = act.rows
                   /\ act'.due = act.due /\ history'.tried[p] = act.at
  <2>1. UNCHANGED <<now, lastStartFailure>> /\ act.pc = "tick" /\ p \in act.todo
    BY <1>2 DEF Examine
  <2>2. CASE act' = Done(p) /\ UNCHANGED history
    BY <2>1, <2>2 DEF Finishes
  <2>3. CASE ~(act' = Done(p) /\ UNCHANGED history)
    <3>1. PICK plan : /\ act' = Starting(p, plan)
                      /\ history' = [history EXCEPT !.tried[p] = act.at]
      BY <1>2, <2>3 DEF Examine
    <3>2. history'.tried[p] = act.at
      BY <1>0, <3>1 DEF SchedInv, Types, HistoryTypes, Changed
    <3>3. /\ act'.pc = "starting" /\ act'.plug = p /\ act'.since = now
          /\ act'.at = act.at /\ act'.todo = act.todo /\ act'.rows = act.rows
          /\ act'.due = act.due
      BY <1>0, <3>1 DEF Starting, ActTypes
    <3> QED  BY <2>1, <3>2, <3>3
  <2> QED  BY <2>1, <2>2, <2>3
<1> QED  BY <1>1, <1>2

LEMMA DoneIs ==
    ASSUME SchedInv, NEW p
    PROVE  /\ Done(p).due = act.due
           /\ Done(p).pc = (IF act.todo \ {p} = {} THEN "idle" ELSE "tick")
           /\ Done(p).pc = "tick" => /\ Done(p).at = act.at /\ Done(p).todo = act.todo \ {p}
                                     /\ Done(p).rows = act.rows
<1>1. act \in ActTypes
  BY DEF SchedInv, Types
<1>2. CASE act.todo \ {p} = {}
  BY <1>1, <1>2 DEF Done, Idle, ActTypes
<1>3. CASE act.todo \ {p} # {}
  BY <1>1, <1>3 DEF Done, ActTypes
<1> QED  BY <1>2, <1>3

----------------------------------------------------------------------------
(* How long a tick takes.                                                  *)

LEMMA InstantTypes ==
    ASSUME SchedInv
    PROVE  /\ now \in Nat /\ act.at \in Int /\ act.since \in Int /\ act \in ActTypes
           /\ act.todo \subseteq Plugs /\ act.due \in BOOLEAN
           /\ act.pc \in {"idle", "tick", "starting"}
           /\ \A q \in Plugs : /\ history.tried[q] \in Int /\ history.changed[q] \in Int
                               /\ lastStartFailure[q] \in Int
                               /\ Never <= history.tried[q]
BY Numbers DEF SchedInv, Types, ActTypes, HistoryTypes, Times, Never

LEMMA ClockMoves ==
    ASSUME SchedInv, Next
    PROVE  now' = now \/ (Advance /\ now' = now + Poll)
BY DEF Next, Advance, ActivatorTick, CheckerTick, Restart, Examine, StartRefused, StartFails,
       StartSucceeds, ResumeIfDue, ResumeReturns, Charges, Upsert, UserStops, UserStarts, Ride

\* A failure is forgotten or noted with the time of the tick.
LEMMA FailureNoted ==
    ASSUME SchedInv, Next, NEW q \in Plugs
    PROVE  \/ lastStartFailure'[q] = lastStartFailure[q]
           \/ lastStartFailure'[q] = Never
           \/ /\ lastStartFailure'[q] = act.at /\ act.pc = "starting" /\ act.plug = q
              /\ UNCHANGED history
<1>0. lastStartFailure \in [Plugs -> Times]
  BY DEF SchedInv, Types
<1>1. CASE Advance \/ ActivatorTick \/ CheckerTick \/ Restart
  BY <1>0, <1>1 DEF Advance, ActivatorTick, CheckerTick, Restart
<1>2. ASSUME NEW p \in Plugs, Examine(p) \/ StartRefused(p)  PROVE UNCHANGED lastStartFailure
  BY <1>2 DEF Examine, StartRefused
<1>3. ASSUME NEW p \in Plugs, StartFails(p)
      PROVE  \/ lastStartFailure'[q] = lastStartFailure[q]
             \/ /\ lastStartFailure'[q] = act.at /\ act.pc = "starting" /\ act.plug = q
                /\ UNCHANGED history
  BY <1>0, <1>3 DEF StartFails
<1>4. ASSUME NEW p \in Plugs, StartSucceeds(p)
      PROVE  lastStartFailure'[q] = lastStartFailure[q] \/ lastStartFailure'[q] = Never
  BY <1>0, <1>4 DEF StartSucceeds
<1>5. ASSUME NEW p \in Plugs, \/ ResumeIfDue(p) \/ ResumeReturns(p) \/ Charges(p)
                              \/ Upsert(p) \/ UserStops(p) \/ UserStarts(p) \/ Ride(p)
      PROVE  UNCHANGED lastStartFailure
  BY <1>5, OthersKeep
<1> QED  BY <1>1, <1>2, <1>3, <1>4, <1>5 DEF Next

LEMMA RecordedStep == ASSUME SchedInv, Recorded, TickTime, Next  PROVE Recorded'
<1> SUFFICES ASSUME NEW q \in Plugs
             PROVE  /\ history'.changed[q] <= now'
                    /\ lastStartFailure'[q] <= history'.tried[q] /\ history'.tried[q] <= now'
  BY DEF Recorded
<1>1. /\ now \in Nat /\ act.at \in Int /\ history.tried[q] \in Int /\ history.changed[q] \in Int
      /\ lastStartFailure[q] \in Int /\ Never <= history.tried[q] /\ act.at <= now
  BY InstantTypes DEF SchedInv, Spaced
<1>2. now <= now' /\ now' \in Int
  BY <1>1, ClockMoves, Numbers
<1>3. /\ history.changed[q] <= now /\ history.tried[q] <= now
      /\ lastStartFailure[q] <= history.tried[q]
  BY DEF Recorded
<1>4. history'.changed[q] <= now'
  BY <1>1, <1>2, <1>3, PlugChanges DEF SamePlug
<1>5. ASSUME act.pc # "idle"  PROVE lastStartFailure[q] <= act.at /\ Never <= act.at
  BY <1>5 DEF TickTime, SchedInv, ActOK, Types, ActTypes, Times, Never
<1>6. CASE history'.tried[q] = history.tried[q]
  <2>1. lastStartFailure'[q] <= history'.tried[q]
    <3>1. act.pc = "starting" /\ act.plug = q => act.at <= history.tried[q]
      BY DEF TickTime
    <3> QED  BY <1>1, <1>3, <1>6, <3>1, FailureNoted
  <2> QED  BY <1>1, <1>2, <1>3, <1>4, <1>6, <2>1
<1>7. CASE history'.tried[q] = now /\ ResumeIfDue(q)
  <2>1. UNCHANGED lastStartFailure
    BY <1>7, OthersKeep
  <2> QED  BY <1>1, <1>2, <1>3, <1>4, <1>7, <2>1
<1>8. CASE history'.tried[q] = act.at /\ Examine(q)
  <2>1. UNCHANGED lastStartFailure /\ act.pc = "tick"
    BY <1>8, ActivatorSteps
  <2> QED  BY <1>1, <1>2, <1>4, <1>5, <1>8, <2>1
<1> QED  BY <1>6, <1>7, <1>8, PlugTried

\* A tick that is under way has waited for the plugs it is done with, and for
\* the one it is starting; the plug of a schedule it has not tried is neither.
LEMMA TickTakes ==
    ASSUME SchedInv, TickTime, act.pc # "idle", NEW p \in Plugs
    PROVE  /\ now <= act.at + WaitPolls + Others
           /\ history.tried[p] < act.at => now <= act.at + Others
<1>1. /\ now \in Nat /\ act.at \in Int /\ act.todo \subseteq Plugs /\ act.since \in Int
      /\ history.tried[p] \in Int /\ act.pc \in {"tick", "starting"} /\ DoneAt \in Int
  BY InstantTypes DEF DoneAt
<1>2. WaitPolls \in Nat /\ Others \in Nat
  BY WaitIsPolls, DelaysAre
<1>3. now <= DoneAt + WaitPolls /\ (act.pc = "tick" => now = DoneAt)
  BY <1>1, <1>2 DEF TickTime, DoneAt, Waited
<1>4. PICK r \in act.todo : TRUE
  BY DEF TickTime
<1>5. DoneAt - act.at <= Others
  <2>1. Delays(Plugs \ act.todo) <= Delays(Plugs \ {r})
    BY <1>1, <1>4, DelaysAre
  <2>2. Delays(Plugs \ {r}) = Others /\ Delays(Plugs \ act.todo) \in Nat
    BY <1>1, <1>4, DelaysAre
  <2>3. DoneAt - act.at <= Delays(Plugs \ act.todo)
    BY DEF TickTime
  <2> QED  BY <1>1, <1>2, <2>1, <2>2, <2>3
<1>6. ASSUME history.tried[p] < act.at  PROVE now <= act.at + Others
  <2> DEFINE S == (Plugs \ {p}) \ act.todo
  <2>1. DoneAt - act.at <= Delays(S)
    BY <1>6 DEF TickTime
  <2>2. S \in SUBSET Plugs /\ S \subseteq Plugs \ {p} /\ Delays(Plugs \ {p}) = Others
    BY DelaysAre
  <2> HIDE DEF S
  <2>3. Delays(S) \in Nat /\ Delays(S) <= Others
    BY <2>2, DelaysAre
  <2>4. CASE act.pc = "tick"
    BY <1>1, <1>2, <1>3, <2>1, <2>3, <2>4
  <2>5. CASE act.pc = "starting"
    <3>1. PICK z \in Plugs : z = act.plug
      BY <2>5 DEF SchedInv, ActOK
    <3>2. z \in act.todo /\ act.at <= history.tried[z]
      BY <2>5, <3>1 DEF TickTime
    <3>3. z # p
      BY <1>1, <1>6, <3>2
    <3>4. z \notin S /\ S \cup {z} \in SUBSET Plugs /\ S \cup {z} \subseteq Plugs \ {p}
      BY <2>2, <3>2, <3>3 DEF S
    <3>5. Delays(S \cup {z}) = Delays(S) + WaitPolls
      BY <2>2, <3>4, DelaysAre
    <3>6. Delays(S \cup {z}) <= Others
      BY <2>2, <3>4, DelaysAre
    <3> QED  BY <1>1, <1>2, <1>3, <2>1, <2>3, <3>5, <3>6
  <2> QED  BY <1>1, <2>4, <2>5
<1> QED  BY <1>1, <1>2, <1>3, <1>5, <1>6

LEMMA FinishTime ==
    ASSUME SchedInv, TickTime, NEW p \in Plugs, Finishes(p),
           \A q \in Plugs : lastStartFailure'[q] <= act.at
    PROVE  TickTime'
<1>0. /\ now \in Nat /\ act.at \in Int /\ act.todo \subseteq Plugs /\ act.since \in Int
      /\ act.pc \in {"tick", "starting"} /\ DoneAt \in Int
      /\ \A q \in Plugs : history.tried[q] \in Int
  BY InstantTypes DEF DoneAt, Finishes
<1>1. act' = Done(p) /\ now' = now /\ history'.tried = history.tried
  BY DEF Finishes
<1>2. CASE act.todo \ {p} = {}
  BY <1>1, <1>2, DoneIs DEF TickTime
<1>3. CASE act.todo \ {p} # {}
  <2>1. /\ act'.pc = "tick" /\ act'.at = act.at /\ act'.todo = act.todo \ {p}
        /\ act'.due = act.due /\ DoneAt' = now
    BY <1>1, <1>3, DoneIs DEF DoneAt
  <2>2. p \in act.todo
    BY <1>0 DEF Finishes, TickTime
  <2>3. WaitPolls \in Nat
    BY WaitIsPolls
  <2>4. now <= DoneAt + WaitPolls /\ DoneAt <= now /\ act.at <= DoneAt
        /\ (act.pc = "tick" => now = DoneAt)
    BY <1>0, <2>3 DEF TickTime, DoneAt, Waited
  \* What the wait just over adds to a bound.
  <2>5. ASSUME NEW S \in SUBSET Plugs, p \notin act.todo \ {p}, p \notin S,
               DoneAt - act.at <= Delays(S)
        PROVE  now - act.at <= Delays(S \cup {p})
    <3>1. Delays(S \cup {p}) = Delays(S) + WaitPolls /\ Delays(S) \in Nat
      BY <2>5, DelaysAre
    <3> QED  BY <1>0, <2>3, <2>4, <2>5, <3>1
  <2>6. now - act.at <= Delays(Plugs \ act'.todo)
    <3>1. Plugs \ act'.todo = (Plugs \ act.todo) \cup {p}
      BY <2>1, <2>2
    <3>2. DoneAt - act.at <= Delays(Plugs \ act.todo)
      BY <1>0 DEF TickTime
    <3>3. Plugs \ act.todo \in SUBSET Plugs /\ p \notin Plugs \ act.todo
      BY <2>2
    <3> QED  BY <2>5, <3>1, <3>2, <3>3
  <2>7. ASSUME NEW q \in Plugs, history.tried[q] < act.at
        PROVE  now - act.at <= Delays((Plugs \ {q}) \ act'.todo)
    <3> DEFINE S == (Plugs \ {q}) \ act.todo
    <3>1. DoneAt - act.at <= Delays(S) /\ S \in SUBSET Plugs /\ p \notin S
      BY <1>0, <2>2, <2>7 DEF TickTime
    <3>2. CASE act.pc = "starting"
      <4>1. act.plug = p /\ act.at <= history.tried[p]
        BY <3>2 DEF TickTime, Finishes
      <4>2. q # p
        BY <1>0, <2>7, <4>1
      <4>3. (Plugs \ {q}) \ act'.todo = S \cup {p}
        BY <2>1, <2>2, <4>2
      <4> HIDE DEF S
      <4> QED  BY <2>5, <3>1, <4>3
    <3>3. CASE act.pc = "tick"
      <4>1. /\ S \subseteq (Plugs \ {q}) \ act'.todo
            /\ (Plugs \ {q}) \ act'.todo \in SUBSET Plugs
        BY <2>1
      <4> DEFINE R == (Plugs \ {q}) \ act'.todo
      <4> HIDE DEF S, R
      <4>2. S \subseteq R /\ R \in SUBSET Plugs
        BY <4>1 DEF R
      <4>3. Delays(S) <= Delays(R) /\ Delays(S) \in Nat /\ Delays(R) \in Nat
        BY <3>1, <4>2, DelaysAre
      <4>4. now - act.at <= Delays(R)
        BY <1>0, <2>4, <3>1, <3>3, <4>3
      <4> QED  BY <4>4 DEF R
    <3> QED  BY <1>0, <3>2, <3>3
  <2>8. ~act'.due => now' = act'.at
    BY <1>0, <1>1, <2>1 DEF TickTime
  <2>9. act'.at <= DoneAt' /\ DoneAt' <= now'
    BY <1>0, <1>1, <2>1, <2>4
  <2> QED  BY <1>1, <1>3, <2>1, <2>6, <2>7, <2>8, <2>9 DEF TickTime
<1> QED  BY <1>2, <1>3

LEMMA TickTimeStep == ASSUME SchedInv, Recorded, TickTime, Next  PROVE TickTime'
<1>0. /\ now \in Nat /\ act.at \in Int /\ act.todo \subseteq Plugs /\ act.since \in Int
      /\ act \in ActTypes /\ act.pc \in {"idle", "tick", "starting"}
      /\ act.at <= now /\ \A q \in Plugs : history.tried[q] \in Int
  BY InstantTypes DEF SchedInv, Spaced
<1>1. CASE Advance
  <2>1. /\ act' = [act EXCEPT !.due = TRUE] /\ now' = now + Poll /\ UNCHANGED <<history, lastStartFailure>>
        /\ act.pc = "idle" \/ (act.pc = "starting" /\ now - act.since < Wait)
    BY <1>1 DEF Advance
  <2>2. /\ act'.due = TRUE /\ act'.pc = act.pc /\ act'.at = act.at /\ act'.since = act.since
        /\ act'.todo = act.todo /\ act'.plug = act.plug
    BY <1>0, <2>1 DEF ActTypes
  <2>3. CASE act.pc = "idle"
    BY <2>2, <2>3 DEF TickTime
  <2>4. CASE act.pc = "starting"
    <3>1. DoneAt' = act.since /\ DoneAt = act.since
      BY <2>2, <2>4 DEF DoneAt
    <3>2. Waited(now - act.since) /\ act.since <= now
      BY <2>4, <3>1 DEF TickTime
    <3>3. Waited(now' - act.since) /\ act.since <= now'
      <4>1. PICK d \in Int : d = now - act.since
        BY <1>0
      <4>2. Waited(d) /\ d < Wait
        BY <2>1, <2>4, <3>2, <4>1
      <4>3. Waited(d + Poll)
        BY <4>2, WaitGoesOn
      <4>4. Poll \in Nat
        BY Numbers
      <4>5. d + Poll = now' - act.since /\ act.since <= now'
        BY <1>0, <2>1, <3>2, <4>1, <4>4
      <4> QED  BY <4>3, <4>5
    <3> QED  BY <2>1, <2>2, <2>4, <3>1, <3>3 DEF TickTime
  <2> QED  BY <2>1, <2>3, <2>4
<1>2. CASE ActivatorTick
  <2>1. /\ act'.pc = "tick" /\ act'.at = now /\ act'.todo = Enabled /\ Enabled # {}
        /\ DoneAt' = now' /\ UNCHANGED <<now, history, lastStartFailure>>
    BY <1>2 DEF ActivatorTick, Idle, DoneAt
  <2>2. \A q \in Plugs : lastStartFailure[q] <= now
    BY <1>0, InstantTypes DEF Recorded
  <2>3. \A S \in SUBSET Plugs : now - now <= Delays(S)
    BY <1>0, DelaysAre
  <2>4. Plugs \ Enabled \in SUBSET Plugs /\ \A q \in Plugs : (Plugs \ {q}) \ Enabled \in SUBSET Plugs
    OBVIOUS
  <2> QED  BY <1>0, <2>1, <2>2, <2>3, <2>4 DEF TickTime
<1>3. CASE Restart
  BY <1>3 DEF Restart, Idle, TickTime
<1>4. ASSUME NEW p \in Plugs, Finishes(p), UNCHANGED lastStartFailure \/ act.pc = "starting"
      PROVE  TickTime'
  <2>1. \A q \in Plugs : lastStartFailure'[q] <= act.at
    <3>1. act.pc # "idle"
      BY <1>4 DEF Finishes
    <3>2. \A q \in Plugs : lastStartFailure[q] <= act.at
      BY <3>1 DEF TickTime
    <3>3. Never <= act.at
      BY <1>0, <3>1 DEF SchedInv, ActOK, Types, ActTypes, Times, Never
    <3> QED  BY <1>0, <3>2, <3>3, FailureNoted
  <2> QED  BY <1>4, <2>1, FinishTime
<1>5. ASSUME NEW p \in Plugs, StartRefused(p) \/ StartFails(p) \/ StartSucceeds(p)
      PROVE  TickTime'
  BY <1>4, <1>5, ActivatorSteps
<1>6. ASSUME NEW p \in Plugs, Examine(p)
      PROVE  TickTime'
  <2>1. UNCHANGED <<now, lastStartFailure>> /\ act.pc = "tick" /\ p \in act.todo
    BY <1>6, ActivatorSteps
  <2>2. CASE Finishes(p)
    BY <1>4, <2>1, <2>2
  <2>3. CASE ~Finishes(p)
    <3>1. /\ act'.pc = "starting" /\ act'.plug = p /\ act'.since = now
          /\ act'.at = act.at /\ act'.todo = act.todo
          /\ act'.due = act.due /\ history'.tried[p] = act.at
      BY <1>6, <2>3, ActivatorSteps
    <3>2. \A q \in Plugs : history'.tried[q] < act.at => history.tried[q] < act.at
      BY <1>0, PlugTried
    <3>3. DoneAt' = now /\ DoneAt = now
      BY <2>1, <3>1 DEF DoneAt
    <3>4. Waited(now - now)
      BY <1>0, WaitGoesOn
    <3>5. ~act.due => now = act.at
      BY <2>1 DEF TickTime
    <3> QED  BY <1>0, <2>1, <3>1, <3>2, <3>3, <3>4, <3>5 DEF TickTime
  <2> QED  BY <2>2, <2>3
<1>7. CASE \/ CheckerTick
           \/ \E p \in Plugs : \/ ResumeIfDue(p) \/ ResumeReturns(p) \/ Charges(p)
                               \/ Upsert(p) \/ UserStops(p) \/ UserStarts(p) \/ Ride(p)
  <2>1. UNCHANGED <<now, act, lastStartFailure>> /\ DoneAt' = DoneAt
    BY <1>7, OthersKeep DEF DoneAt
  <2>2. \A q \in Plugs : history'.tried[q] = history.tried[q] \/ history'.tried[q] \in {now, act.at}
    BY PlugTried
  <2>3. \A q \in Plugs : history'.tried[q] < act.at => history.tried[q] < act.at
    BY <1>0, <2>2
  <2>4. act.pc = "starting" => act.at <= history'.tried[act.plug]
    <3> SUFFICES ASSUME act.pc = "starting"  PROVE act.at <= history'.tried[act.plug]
      OBVIOUS
    <3>1. act.plug \in Plugs /\ act.at <= history.tried[act.plug]
      BY DEF SchedInv, ActOK, TickTime
    <3> QED  BY <1>0, <2>2, <3>1
  <2> QED  BY <2>1, <2>3, <2>4 DEF TickTime
<1> QED  BY <1>1, <1>2, <1>3, <1>5, <1>6, <1>7 DEF Next

----------------------------------------------------------------------------
(* Deadlines of carbon-aware schedules.                                    *)

\* A carbon-aware row has the two ends of a window.
LEMMA CarbonRow ==
    ASSUME NEW r \in Rows, r.type = "carbon"
    PROVE  r.from \in 0 .. Day - 1 /\ r.to \in 0 .. Day - 1 /\ r.from # r.to
BY SchedulesAssumption DEF Rows, Valid

LEMMA WaitingTypes ==
    ASSUME SchedInv, NEW p \in Plugs, NEW x \in Int, NEW e \in Int, WaitingTo(p, x, e)
    PROVE  /\ rows[p] \in Rows /\ rows[p].from \in 0 .. Day - 1 /\ rows[p].to \in 0 .. Day - 1
           /\ rows[p].from # rows[p].to
           /\ Length(p) \in Int /\ ToTarget(p) \in Int
<1>1. rows[p] \in Rows /\ rows[p].type = "carbon"
  BY DEF WaitingTo, SchedInv, Types
<1>2. rows[p].from \in 0 .. Day - 1 /\ rows[p].to \in 0 .. Day - 1 /\ rows[p].from # rows[p].to
  BY <1>1, CarbonRow
<1>3. Length(p) \in Int
  BY <1>2, Numbers DEF Length
<1>4. ToTarget(p) \in Int
  BY Numbers DEF ToTarget
<1> QED  BY <1>1, <1>2, <1>3, <1>4

\* Once its latest start has passed, a schedule is due whenever it is looked
\* at before its window ends, unless it is backing off.
LEMMA DueInTime ==
    ASSUME SchedInv, NEW p \in Plugs, NEW x \in Int, NEW e \in Int, WaitingTo(p, x, e),
           NEW t \in Int, x <= t, t <= now, ~BackingOff(p, t), NEW last, NEW forecast
    PROVE  CarbonDue(p, rows[p], t, last, forecast)
<1>1. /\ rows[p] \in Rows /\ rows[p].from \in 0 .. Day - 1 /\ rows[p].to \in 0 .. Day - 1
      /\ rows[p].from # rows[p].to
      /\ Length(p) \in Int /\ ToTarget(p) \in Int /\ now \in Int
  BY WaitingTypes, InstantTypes
<1>2. /\ e % Day = rows[p].to /\ now < e /\ e - Length(p) <= x /\ e - ToTarget(p) <= x
      /\ Candidate(p)
  BY DEF WaitingTo
<1>3. e - Length(p) <= t /\ t < e /\ e - ToTarget(p) <= t
  BY <1>1, <1>2
<1>4. ResolveWindow(t, rows[p].from, rows[p].to) = [start |-> e - Length(p), end |-> e]
  BY <1>1, <1>2, <1>3, WindowFound DEF Length
<1>5. InWindow(rows[p], t)
  BY <1>3, <1>4 DEF InWindow
<1>6. MustStart(p, rows[p], t)
  BY <1>3, <1>4 DEF MustStart, LatestStart
<1> QED  BY <1>2, <1>5, <1>6 DEF CarbonDue

\* A schedule that waits was waiting before, unless the time is only now.
LEMMA WaitedBefore ==
    ASSUME SchedInv, Next, NEW p \in Plugs, NEW x \in Int, NEW e \in Int,
           WaitingTo(p, x, e)', x < now
    PROVE  \/ WaitingTo(p, x, e)
           \/ act'.pc = "starting" /\ act'.at = act.at /\ act.at < x
<1>1. now \in Int /\ now <= now' /\ now' \in Int
  BY InstantTypes, ClockMoves, Numbers
<1>2. SamePlug(p)
  BY <1>1, PlugChanges, InstantTypes DEF WaitingTo
<1>3. history'.tried[p] < x
  BY DEF WaitingTo
<1>4. CASE history'.tried[p] = history.tried[p]
  <2>1. Candidate(p)' = Candidate(p) /\ ToTarget(p)' = ToTarget(p) /\ Length(p)' = Length(p)
    BY <1>2 DEF SamePlug, Candidate, InProgress, ToTarget, Length
  <2> QED  BY <1>1, <1>2, <1>4, <2>1 DEF WaitingTo, SamePlug
<1>5. CASE history'.tried[p] = now
  BY <1>1, <1>3, <1>5
<1>6. CASE history'.tried[p] = act.at /\ act'.pc = "starting" /\ act'.at = act.at
  BY <1>3, <1>6
<1> QED  BY <1>4, <1>5, <1>6, PlugTried

\* What is due only now is on time.
LEMMA FreshOnTime ==
    ASSUME SchedInv, Next, NEW p \in Plugs, NEW x \in Int, now <= x, x <= now'
    PROVE  OnTime(p, x)'
<1>1. /\ now \in Nat /\ act.at \in Int /\ act.at <= now /\ act \in ActTypes
      /\ Poll \in Nat /\ Throttle \in Nat
  BY InstantTypes, Numbers DEF SchedInv, Spaced
<1>2. Others \in Nat /\ Late \in Nat /\ Throttle + Poll + Others <= Late
  BY BoundsAre
<1>3. Poll <= Late
  BY <1>1, <1>2
<1>4. CASE Advance
  <2>1. act' = [act EXCEPT !.due = TRUE] /\ now' = now + Poll
    BY <1>4 DEF Advance
  <2>2. act'.due = TRUE /\ act'.at = act.at
    BY <1>1, <2>1 DEF ActTypes
  <2>3. act'.at <= x /\ now' <= x + Late
    BY <1>1, <1>2, <1>3, <2>1, <2>2
  <2> QED  BY <1>2, <2>2, <2>3, <1>1, <2>1 DEF OnTime
<1>5. CASE now' = now
  <2>1. x = now
    BY <1>1, <1>5
  <2>2. act'.pc # "idle" => act'.at <= now
    BY <1>1, <1>5, SchedStep DEF SchedInv, Spaced
  <2>3. now' + Poll <= x + Late /\ now' + 0 <= x + Late
    BY <1>1, <1>2, <1>3, <1>5, <2>1
  <2> QED  BY <2>1, <2>2, <2>3 DEF OnTime
<1> QED  BY <1>4, <1>5, ClockMoves

\* A tick that is done with a plug leaves the others on time.
LEMMA FinishOnTime ==
    ASSUME SchedInv, Recorded, TickTime, Next, NEW p \in Plugs, NEW x \in Int, NEW e \in Int,
           WaitingTo(p, x, e), OnTime(p, x), rows'[p] = rows[p],
           NEW q \in Plugs, Finishes(q),
           p = q => act.at <= x \/ BackingOff(p, act.at),
           act.at <= x \/ lastStartFailure'[p] = lastStartFailure[p]
    PROVE  OnTime(p, x)'
<1>0. /\ now \in Nat /\ act.at \in Int /\ act \in ActTypes
      /\ Poll \in Nat /\ Throttle \in Nat /\ WaitPolls \in Nat
      /\ history.tried[p] \in Int /\ lastStartFailure[p] \in Int /\ act.due \in BOOLEAN
  BY InstantTypes, Numbers, WaitIsPolls
<1>1. /\ Others \in Nat /\ Late \in Nat
      /\ Throttle + Poll + Others <= Late /\ WaitPolls + Others <= Late
  BY BoundsAre
<1>2. act.pc # "idle" /\ now' = now /\ act' = Done(q)
  BY DEF Finishes
<1>3. \/ act.at <= x
      \/ BackingOff(p, act.at)
      \/ p \in act.todo /\ act.rows[p] = rows[p] /\ act.at <= x + Late
  BY <1>2 DEF OnTime
<1>4. CASE act.todo \ {q} # {}
  <2>1. act'.pc = "tick" /\ act'.at = act.at /\ act'.todo = act.todo \ {q} /\ act'.rows = act.rows
    BY <1>2, <1>4, DoneIs
  <2>2. act.at <= x \/ (BackingOff(p, act.at) => BackingOff(p, act.at)')
    BY <2>1 DEF BackingOff
  <2>3. act.at <= x \/ BackingOff(p, act.at)
        \/ (p \in act'.todo /\ act.rows[p] = rows[p] /\ act.at <= x + Late)
    BY <1>3, <2>1
  <2> QED  BY <2>1, <2>2, <2>3 DEF OnTime, BackingOff
<1>5. CASE act.todo \ {q} = {}
  <2>1. act'.pc = "idle" /\ act'.due = act.due
    BY <1>2, <1>5, DoneIs
  <2>2. act.at <= x \/ BackingOff(p, act.at)
    BY <1>3, <1>5
  <2>3. /\ now <= act.at + WaitPolls + Others
        /\ history.tried[p] < act.at => now <= act.at + Others
        /\ ~act.due => now = act.at
    BY <1>2, TickTakes DEF TickTime
  <2>4. history.tried[p] < x /\ lastStartFailure[p] <= history.tried[p]
    BY DEF WaitingTo, Recorded
  <2>5. CASE act.at <= x
    <3>1. now + (IF act.due THEN 0 ELSE Poll) <= x + Late
      BY <1>0, <1>1, <2>3, <2>5
    <3> QED  BY <1>2, <2>1, <3>1 DEF OnTime
  <2>6. CASE x < act.at /\ BackingOff(p, act.at)
    <3>1. act.at - lastStartFailure[p] < Throttle
      BY <2>6 DEF BackingOff
    <3>2. act.at < x + Throttle /\ now <= act.at + Others
      BY <1>0, <2>3, <2>4, <2>6, <3>1
    <3>3. now + (IF act.due THEN 0 ELSE Poll) <= x + Late
      BY <1>0, <1>1, <2>3, <3>2
    <3> QED  BY <1>2, <2>1, <3>3 DEF OnTime
  <2> QED  BY <1>0, <2>2, <2>5, <2>6
<1> QED  BY <1>4, <1>5

LEMMA DeadlineStep ==
    ASSUME SchedInv, Recorded, TickTime, DeadlineInv, Next
    PROVE  DeadlineInv'
<1> SUFFICES ASSUME NEW p \in Plugs, NEW x \in Int, NEW e \in Int, WaitingTo(p, x, e)'
             PROVE  OnTime(p, x)'
  BY DEF DeadlineInv
<1>0. /\ now \in Nat /\ act.at \in Int /\ act \in ActTypes /\ act.at <= now
      /\ act.pc \in {"idle", "tick", "starting"} /\ Poll \in Nat
      /\ history.tried[p] \in Int /\ act.due \in BOOLEAN
  BY InstantTypes, Numbers DEF SchedInv, Spaced
<1>1. x <= now' /\ now' \in Int
  BY <1>0, ClockMoves DEF WaitingTo
<1>2. CASE now <= x
  BY <1>1, <1>2, FreshOnTime
<1>3. CASE act'.pc = "starting" /\ act'.at = act.at /\ act.at < x
  BY <1>0, <1>3 DEF OnTime
<1>4. CASE x < now /\ WaitingTo(p, x, e)
  <2>1. OnTime(p, x)
    BY <1>4 DEF DeadlineInv
  <2>2. history'.changed[p] <= x
    BY DEF WaitingTo
  <2>3. rows'[p] = rows[p] /\ ~Restart
    <3>1. Restart => history'.changed[p] = now
      BY DEF Restart, SchedInv, Types, HistoryTypes
    <3> QED  BY <1>0, <1>4, <2>2, <3>1, PlugChanges DEF SamePlug
  <2>4. CASE Advance
    <3>1. /\ act' = [act EXCEPT !.due = TRUE] /\ now' = now + Poll /\ UNCHANGED lastStartFailure
          /\ (act.pc = "idle" /\ (act.due => Enabled = {})) \/ act.pc = "starting"
      BY <2>4 DEF Advance
    <3>2. /\ act'.due = TRUE /\ act'.pc = act.pc /\ act'.at = act.at /\ act'.todo = act.todo
          /\ act'.rows = act.rows
      BY <1>0, <3>1 DEF ActTypes
    <3>3. p \in Enabled
      BY <1>4 DEF WaitingTo, Enabled
    <3>4. CASE act.pc = "idle"
      <4>1. ~act.due
        BY <3>1, <3>3, <3>4
      <4>2. now + Poll <= x + Late
        BY <2>1, <3>4, <4>1 DEF OnTime
      <4> QED  BY <1>0, <3>1, <3>2, <3>4, <4>2 DEF OnTime
    <3>5. CASE act.pc = "starting"
      BY <2>1, <2>3, <3>1, <3>2, <3>5 DEF OnTime, BackingOff
    <3> QED  BY <3>1, <3>4, <3>5
  <2>5. CASE ActivatorTick
    <3>1. /\ act.pc = "idle" /\ act.due /\ act'.pc = "tick" /\ act'.at = now /\ act'.todo = Enabled
          /\ act'.rows = rows
      BY <2>5 DEF ActivatorTick, Idle
    <3>2. p \in Enabled
      BY <1>4 DEF WaitingTo, Enabled
    <3>3. now <= x + Late
      <4>1. now + 0 <= x + Late
        BY <2>1, <3>1 DEF OnTime
      <4> QED  BY <1>0, <4>1
    <3> QED  BY <2>3, <3>1, <3>2, <3>3 DEF OnTime
  <2>6. ASSUME NEW q \in Plugs, Examine(q)  PROVE OnTime(p, x)'
    <3>1. UNCHANGED <<now, lastStartFailure>> /\ act.pc = "tick" /\ q \in act.todo
      BY <2>6, ActivatorSteps
    <3>2. CASE Finishes(q)
      <4>1. p = q => act.at <= x \/ BackingOff(p, act.at)
        \* It was due, so the tick has not passed it.
        <5> SUFFICES ASSUME p = q, ~(act.at <= x), ~BackingOff(p, act.at)  PROVE FALSE
          OBVIOUS
        <5>1. act.rows[p] = rows[p]
          BY <2>1, <3>1 DEF OnTime
        <5>2. \A forecast : CarbonDue(p, rows[p], act.at, act.last, forecast)
          BY <1>0, <1>4, DueInTime
        <5>3. rows[p].type # "daily"
          BY <1>4 DEF WaitingTo
        <5>4. PICK plan : act' = Starting(p, plan)
          BY <2>6, <5>1, <5>2, <5>3 DEF Examine
        <5>5. act'.pc = "starting"
          BY <1>0, <5>4 DEF Starting, ActTypes
        <5>6. act'.pc # "starting"
          BY <3>2, DoneIs DEF Finishes
        <5> QED  BY <5>5, <5>6
      <4>2. lastStartFailure'[p] = lastStartFailure[p]
        BY <3>1
      <4> QED  BY <1>4, <2>1, <2>3, <3>2, <4>1, <4>2, FinishOnTime
    <3>3. CASE ~Finishes(q)
      <4>1. /\ act'.pc = "starting" /\ act'.at = act.at /\ act'.todo = act.todo
            /\ act'.rows = act.rows
        BY <2>6, <3>3, ActivatorSteps
      <4> QED  BY <2>1, <2>3, <3>1, <4>1 DEF OnTime, BackingOff
    <3> QED  BY <3>2, <3>3
  <2>7. ASSUME NEW q \in Plugs, StartRefused(q) \/ StartFails(q) \/ StartSucceeds(q)
        PROVE  OnTime(p, x)'
    <3>1. Finishes(q) /\ act.pc = "starting" /\ act.plug = q
      BY <2>7, ActivatorSteps DEF Finishes
    <3>2. p = q => act.at <= x
      BY <1>0, <1>4, <3>1 DEF TickTime, WaitingTo
    <3>3. p # q => lastStartFailure'[p] = lastStartFailure[p]
      BY <2>7 DEF StartRefused, StartFails, StartSucceeds, SchedInv, Types
    <3> QED  BY <1>4, <2>1, <2>3, <3>1, <3>2, <3>3, FinishOnTime
  <2>8. CASE \/ CheckerTick
             \/ \E q \in Plugs : \/ ResumeIfDue(q) \/ ResumeReturns(q) \/ Charges(q)
                                 \/ Upsert(q) \/ UserStops(q) \/ UserStarts(q) \/ Ride(q)
    BY <2>1, <2>3, <2>8, OthersKeep DEF OnTime, BackingOff
  <2> QED  BY <2>3, <2>4, <2>5, <2>6, <2>7, <2>8 DEF Next
<1> QED  BY <1>0, <1>2, <1>3, <1>4, WaitedBefore

DueInv == SchedInv /\ Recorded /\ TickTime /\ DeadlineInv

LEMMA DueStarts == Init => DueInv
<1> SUFFICES ASSUME Init  PROVE DueInv
  OBVIOUS
<1>1. SchedInv
  BY InitInv
<1>2. /\ now \in Nat /\ act.pc = "idle" /\ act.due = FALSE
      /\ \A q \in Plugs : /\ history.changed[q] = now /\ history.tried[q] = Never
                          /\ lastStartFailure[q] = Never
  BY <1>1, InstantTypes DEF Init, Idle
<1>3. Recorded
  BY <1>2 DEF Recorded, Never
<1>4. TickTime
  BY <1>2 DEF TickTime
<1>5. DeadlineInv
  <2> SUFFICES ASSUME NEW p \in Plugs, NEW x \in Int, NEW e \in Int, WaitingTo(p, x, e)
               PROVE  OnTime(p, x)
    BY DEF DeadlineInv
  <2>1. now <= x
    BY <1>2 DEF WaitingTo
  <2>2. Poll \in Nat /\ Throttle \in Nat /\ Others \in Nat /\ Late \in Nat
        /\ Throttle + Poll + Others <= Late
    BY Numbers, BoundsAre
  <2>3. now + Poll <= x + Late
    BY <1>2, <2>1, <2>2
  <2> QED  BY <1>2, <2>3 DEF OnTime
<1> QED  BY <1>1, <1>3, <1>4, <1>5 DEF DueInv

LEMMA DueStep == DueInv /\ [Next]_vars => DueInv'
<1>1. CASE Next
  BY <1>1, SchedStep, RecordedStep, TickTimeStep, DeadlineStep DEF DueInv
<1>2. CASE UNCHANGED vars
  <2> SUFFICES ASSUME DueInv  PROVE DueInv'
    OBVIOUS
  <2>1. SchedInv'
    BY <1>2, SchedStep DEF DueInv
  <2>2. Recorded'
    BY <1>2 DEF vars, DueInv, Recorded
  <2>3. TickTime'
    BY <1>2 DEF vars, DueInv, TickTime, DoneAt
  <2>4. DeadlineInv'
    <3> SUFFICES ASSUME NEW p \in Plugs, NEW x \in Int, NEW e \in Int, WaitingTo(p, x, e)'
                 PROVE  OnTime(p, x)'
      BY DEF DeadlineInv
    <3>1. WaitingTo(p, x, e)
      BY <1>2 DEF vars, WaitingTo, Candidate, InProgress, ToTarget, Length
    <3>2. OnTime(p, x)
      BY <3>1 DEF DueInv, DeadlineInv
    <3> QED  BY <1>2, <3>2 DEF vars, OnTime, BackingOff
  <2> QED  BY <2>1, <2>2, <2>3, <2>4 DEF DueInv
<1> QED  BY <1>1, <1>2

\* A schedule does not wait for longer than Slack.
LEMMA WaitsAreShort ==
    ASSUME DueInv, NEW p \in Plugs, NEW x \in Int, NEW e \in Int, WaitingTo(p, x, e)
    PROVE  now <= x + Slack
<1> USE DEF DueInv
<1>1. /\ now \in Nat /\ act.at \in Int /\ Throttle \in Nat /\ Poll \in Nat /\ WaitPolls \in Nat
      /\ history.tried[p] \in Int /\ lastStartFailure[p] \in Int
  BY InstantTypes, Numbers, WaitIsPolls
<1>2. /\ Others \in Nat /\ Late \in Nat /\ Slack = Late + Others
      /\ Throttle + Poll + Others <= Late /\ WaitPolls + Others <= Late
  BY BoundsAre
<1>3. OnTime(p, x)
  BY DEF DeadlineInv
<1>4. CASE act.pc = "idle"
  <2>1. PICK n \in Nat : n = (IF act.due THEN 0 ELSE Poll)
    BY <1>1
  <2>2. now + n <= x + Late
    BY <1>3, <1>4, <2>1 DEF OnTime
  <2> QED  BY <1>1, <1>2, <2>1, <2>2
<1>5. CASE act.pc # "idle"
  <2>1. /\ now <= act.at + WaitPolls + Others
        /\ history.tried[p] < act.at => now <= act.at + Others
    BY <1>5, TickTakes
  <2>2. history.tried[p] < x /\ lastStartFailure[p] <= history.tried[p]
    BY DEF WaitingTo, Recorded
  <2>3. act.at <= x \/ act.at - lastStartFailure[p] < Throttle \/ act.at <= x + Late
    BY <1>3, <1>5 DEF OnTime, BackingOff
  <2> QED  BY <1>1, <1>2, <2>1, <2>2, <2>3
<1> QED  BY <1>4, <1>5

\* Whatever the other plugs' starts take, however often its own have failed
\* and whatever the forecast says, a carbon-aware schedule that still waits is
\* tried before Slack has passed since its latest start; for any number of
\* plugs, any windows and any waits.
THEOREM DeadlinesAreTried == Spec => []DeadlineIsTried
<1>1. DueInv => DeadlineIsTried
  <2> SUFFICES ASSUME DueInv  PROVE DeadlineIsTried
    OBVIOUS
  <2> DEFINE End(p) == CHOOSE t \in now + 1 .. now + Day : t % Day = rows[p].to
             From(p) == Max({End(p) - Length(p), End(p) - ToTarget(p)})
  <2>1. ASSUME NEW p \in Plugs, rows[p] # NoRow, rows[p].type = "carbon", rows[p].enabled,
               Candidate(p), From(p) + Slack < now, history.changed[p] <= From(p),
               ~(history.tried[p] >= From(p))
        PROVE  FALSE
    <3>1. rows[p] \in Rows /\ SchedInv
      BY <2>1 DEF DueInv, SchedInv, Types
    <3>2. rows[p].from \in 0 .. Day - 1 /\ rows[p].to \in 0 .. Day - 1
      BY <2>1, <3>1, CarbonRow
    <3>3. now \in Nat /\ Day \in Nat \ {0} /\ history.tried[p] \in Int
      BY <3>1, InstantTypes, Numbers
    <3>4. \E t \in now + 1 .. now + Day : t % Day = rows[p].to
      <4>1. PICK b \in 0 .. Day - 1 : b = rows[p].to
        BY <3>2
      <4>2. PICK z \in Int : z = now
        BY <3>3
      <4>3. \E t \in z + 1 .. z + Day : t % Day = b
        BY EndIsAhead
      <4> QED  BY <4>1, <4>2, <4>3
    <3>5. PICK e \in now + 1 .. now + Day : e = End(p) /\ e % Day = rows[p].to
      BY <3>4
    <3>6. PICK l, n \in Int : l = Length(p) /\ n = ToTarget(p)
      BY <3>2, <3>3, Numbers DEF Length, ToTarget
    <3>7. From(p) = Max({e - l, e - n})
      BY <3>5, <3>6
    <3>8. PICK x \in Int : x = From(p) /\ e - l <= x /\ e - n <= x
      <4>1. e - l \in Int /\ e - n \in Int
        BY <3>3, <3>5, <3>6
      <4>2. Max({e - l, e - n}) \in {e - l, e - n} /\ e - l <= Max({e - l, e - n})
            /\ e - n <= Max({e - l, e - n})
        BY <4>1, MaxOfTwo
      <4> HIDE DEF From
      <4> QED  BY <3>7, <4>1, <4>2
    <3> HIDE DEF From, End
    <3>9. Slack \in Nat
      BY BoundsAre
    <3>10. x + Slack < now /\ history.changed[p] <= x /\ history.tried[p] < x /\ x <= now
      BY <2>1, <3>3, <3>8, <3>9
    <3>11. WaitingTo(p, x, e)
      BY <2>1, <3>3, <3>5, <3>6, <3>8, <3>10 DEF WaitingTo
    <3>12. e \in Int
      BY <3>3, <3>5
    <3>13. now <= x + Slack
      BY <3>11, <3>12, WaitsAreShort
    <3> QED  BY <3>3, <3>9, <3>10, <3>13
  <2> QED  BY <2>1 DEF DeadlineIsTried, Length
<1>2. Spec => []DueInv
  BY DueStarts, DueStep, PTL DEF Spec
<1> QED  BY <1>1, <1>2, PTL

----------------------------------------------------------------------------
(* Sessions that hold, and the rounds of the checker.                      *)

CheckTime ==
    chk.plug # NoPlug =>
        /\ chk.plug \notin chk.todo
        /\ chk.since <= now /\ Waited(now - chk.since)
        /\ ~chk.due => now = chk.since

\* What is planned to be held has a time of day to be ready by, and a second
\* stage that is not too short.
Holdable(p, readyBy) == readyBy \in 0 .. Day - 1 /\ (Known(p) => MinStage <= Stage2)

HoldsOK ==
    /\ act.pc = "starting" /\ act.plan.two => Holdable(act.plug, act.plan.readyBy)
    /\ \A p \in Plugs :
        /\ InProgress(p) /\ session[p].hold => Holdable(p, session[p].readyBy)
        /\ session[p].st = "holding" =>
              /\ session[p].hold
              /\ \A t \in Int : history.changed[p] <= t /\ t <= session[p].until =>
                    ResolveDeadline(t, session[p].readyBy) = session[p].until

ResumeFrom(p) == IF Known(p) THEN session[p].until - Stage2 ELSE history.changed[p]

\* A hold that should be looked at from x on, with time enough, and was not.
HeldSince(p, x) ==
    /\ session[p].st = "holding"
    /\ history.changed[p] <= x /\ ResumeFrom(p) <= x /\ x <= now
    /\ x + Gap <= session[p].until
    /\ history.tried[p] < ResumeFrom(p)

\* It is looked at in time even if each plug ahead of it is waited for; if the
\* round has passed it, even if in the next one each other plug is.
HoldAhead(p, x) ==
    IF p \in chk.todo
    THEN (IF chk.plug = NoPlug THEN now ELSE chk.since + WaitPolls) + Delays(chk.todo \ {p})
             <= x + Gap
    ELSE (IF chk.plug = NoPlug THEN now + (IF chk.due THEN 0 ELSE Poll)
          ELSE chk.since + (IF chk.due THEN WaitPolls ELSE Max({Poll, WaitPolls})))
             + Delays(chk.todo) + Others <= x + Gap

HoldInv == \A p \in Plugs : \A x \in Int : HeldSince(p, x) => HoldAhead(p, x)

\* What a step makes of the session on a plug.
LEMMA SessionSteps ==
    ASSUME SchedInv, Next, NEW q \in Plugs
    PROVE  \/ session'[q] = session[q]
           \/ session'[q] = NoSession
           \/ session'[q].st = "charging" /\ session'[q].hold = FALSE
           \/ /\ session'[q] = Session(act.plan.two, act.plan.readyBy, act.plan.carbon)
              /\ act.pc = "starting" /\ act.plug = q
           \/ /\ InProgress(q) /\ session[q].hold /\ history'.changed[q] = now /\ now' = now
              /\ session'[q] = [session[q] EXCEPT !.st = "holding",
                                    !.until = ResolveDeadline(now, session[q].readyBy)]
<1>0. session \in [Plugs -> {NoSession} \cup SessionTypes] /\ act \in ActTypes
  BY DEF SchedInv, Types
<1>1. CASE Advance \/ ActivatorTick \/ CheckerTick \/ Restart
  BY <1>1 DEF Advance, ActivatorTick, CheckerTick, Restart
<1>2. ASSUME NEW p \in Plugs, \/ Examine(p) \/ StartRefused(p) \/ StartFails(p)
                              \/ ResumeIfDue(p) \/ Upsert(p) \/ Ride(p)
      PROVE  UNCHANGED session
  BY <1>2 DEF Examine, StartRefused, StartFails, ResumeIfDue, Upsert, Ride
<1>3. ASSUME NEW p \in Plugs, StartSucceeds(p)
      PROVE  \/ session'[q] = session[q]
             \/ /\ session'[q] = Session(act.plan.two, act.plan.readyBy, act.plan.carbon)
                /\ act.pc = "starting" /\ act.plug = q
  BY <1>0, <1>3 DEF StartSucceeds
<1>4. ASSUME NEW p \in Plugs, ResumeReturns(p)
      PROVE  \/ session'[q] = session[q]
             \/ session'[q].st = "charging" /\ session'[q].hold = FALSE
  <2>1. CASE UNCHANGED session
    BY <2>1
  <2>2. CASE session[p].st = "holding"
             /\ session' = [session EXCEPT ![p].st = "charging", ![p].hold = FALSE]
    <3>1. session[p] \in SessionTypes
      BY <1>0, <2>2 DEF NoSession
    <3>2. session' = [session EXCEPT ![p] = [session[p] EXCEPT !.st = "charging", !.hold = FALSE]]
      BY <1>0, <2>2, <3>1
    <3>3. session'[q] = IF q = p THEN [session[p] EXCEPT !.st = "charging", !.hold = FALSE]
                        ELSE session[q]
      BY <1>0, <3>2
    <3> QED  BY <3>1, <3>3 DEF SessionTypes
  <2> QED  BY <1>4, <2>1, <2>2 DEF ResumeReturns
<1>5. ASSUME NEW p \in Plugs, Charges(p)
      PROVE  \/ session'[q] = session[q]
             \/ session'[q] = NoSession
             \/ /\ InProgress(q) /\ session[q].hold /\ history'.changed[q] = now /\ now' = now
                /\ session'[q] = [session[q] EXCEPT !.st = "holding",
                                      !.until = ResolveDeadline(now, session[q].readyBy)]
  <2>1. PICK u : u = ResolveDeadline(now, session[p].readyBy)
    OBVIOUS
  <2>2. /\ session[p].st = "charging" /\ history' = Changed(p) /\ now' = now
        /\ \/ UNCHANGED session
           \/ session' = [session EXCEPT ![p] = NoSession]
           \/ session[p].hold /\ session' = [session EXCEPT ![p].st = "holding", ![p].until = u]
    BY <1>5, <2>1 DEF Charges
  <2>3. CASE UNCHANGED session \/ session' = [session EXCEPT ![p] = NoSession]
    BY <1>0, <2>3
  <2>4. CASE session[p].hold /\ session' = [session EXCEPT ![p].st = "holding", ![p].until = u]
    <3>1. session[p] \in SessionTypes /\ InProgress(p)
      BY <1>0, <2>2 DEF NoSession, InProgress
    <3>2. session' = [session EXCEPT ![p] = [session[p] EXCEPT !.st = "holding", !.until = u]]
      BY <1>0, <2>4, <3>1
    <3>3. session'[q] = IF q = p THEN [session[p] EXCEPT !.st = "holding", !.until = u]
                        ELSE session[q]
      BY <1>0, <3>2
    <3>4. history'.changed[p] = now
      BY <2>2 DEF SchedInv, Types, HistoryTypes, Changed
    <3> QED  BY <2>1, <2>2, <2>4, <3>1, <3>3, <3>4
  <2> QED  BY <2>2, <2>3, <2>4
<1>6. ASSUME NEW p \in Plugs, UserStops(p) \/ UserStarts(p)
      PROVE  \/ session'[q] = session[q]
             \/ session'[q] = NoSession
             \/ session'[q].st = "charging" /\ session'[q].hold = FALSE
  BY <1>0, <1>6 DEF UserStops, UserStarts, Session
<1> QED  BY <1>1, <1>2, <1>3, <1>4, <1>5, <1>6 DEF Next

\* A planned hold has a time of day to be ready by, and room to resume.
LEMMA PlansHold ==
    ASSUME NEW p \in Plugs, NEW r \in Rows, NEW t \in Int
    PROVE  /\ DailyPlan(p, r).two => Holdable(p, DailyPlan(p, r).readyBy)
           /\ CarbonPlan(p, r, t).two => Holdable(p, CarbonPlan(p, r, t).readyBy)
<1>1. r.to \in {Never} \cup 0 .. Day - 1 /\ r.from \in Int /\ r.to \in Int
  BY SchedulesAssumption, RowTypes DEF Rows
<1>2. Worthwhile(p) => (Known(p) => MinStage <= Stage2)
  BY Numbers DEF Worthwhile
<1>3. DailyPlan(p, r).two => Holdable(p, DailyPlan(p, r).readyBy)
  BY <1>1, <1>2 DEF DailyPlan, Plan, Holdable
<1>4. FormatTime(ResolveWindow(t, r.from, r.to).end) \in 0 .. Day - 1
  BY <1>1, ClockTypes, TimeOfDay
<1>5. CarbonPlan(p, r, t).two => Holdable(p, CarbonPlan(p, r, t).readyBy)
  BY <1>2, <1>4 DEF CarbonPlan, Plan, Holdable
<1> QED  BY <1>3, <1>5

LEMMA HoldsStep == ASSUME SchedInv, Recorded, HoldsOK, Next  PROVE HoldsOK'
<1>0. /\ act \in ActTypes /\ act.at \in Int /\ now \in Nat
      /\ session \in [Plugs -> {NoSession} \cup SessionTypes]
  BY InstantTypes DEF SchedInv, Types
<1>1. ASSUME act'.pc = "starting", act'.plan.two
      PROVE  Holdable(act'.plug, act'.plan.readyBy)
  <2>1. ASSUME act.pc = "starting", act'.plug = act.plug, act'.plan = act.plan
        PROVE  Holdable(act'.plug, act'.plan.readyBy)
    BY <1>1, <2>1 DEF HoldsOK
  <2>2. CASE Advance
    <3>1. act' = [act EXCEPT !.due = TRUE]
      BY <2>2 DEF Advance
    <3>2. act'.pc = act.pc /\ act'.plug = act.plug /\ act'.plan = act.plan
      BY <1>0, <3>1 DEF ActTypes
    <3> QED  BY <1>1, <2>1, <3>2
  <2>3. CASE ActivatorTick \/ Restart
    <3>1. ActivatorTick => act'.pc = "tick"
      BY DEF ActivatorTick, Idle
    <3>2. Restart => act'.pc = "idle"
      BY DEF Restart, Idle
    <3> QED  BY <1>1, <2>3, <3>1, <3>2
  <2>4. ASSUME NEW p \in Plugs, StartRefused(p) \/ StartFails(p) \/ StartSucceeds(p)
        PROVE  FALSE
    <3>1. act'.pc # "starting"
      BY <2>4, ActivatorSteps, DoneIs DEF Finishes
    <3> QED  BY <1>1, <3>1
  <2>5. ASSUME NEW p \in Plugs, Examine(p)
        PROVE  Holdable(act'.plug, act'.plan.readyBy)
    <3>1. act' # Done(p)
      BY <1>1, DoneIs
    <3>2. PICK r : r = act.rows[p]
      OBVIOUS
    <3>3. r \in Rows
      BY <1>0, <2>5, <3>2 DEF Examine, ActTypes, SchedInv, ActOK
    <3>4. \/ act' = Starting(p, DailyPlan(p, r))
          \/ act' = Starting(p, CarbonPlan(p, r, act.at))
      BY <2>5, <3>1, <3>2 DEF Examine
    <3>5. ASSUME NEW plan, act' = Starting(p, plan)
          PROVE  act'.plug = p /\ act'.plan = plan
      BY <1>0, <3>5 DEF Starting, ActTypes
    <3> QED  BY <1>0, <1>1, <3>3, <3>4, <3>5, PlansHold
  <2>6. CASE \/ CheckerTick
             \/ \E p \in Plugs : \/ ResumeIfDue(p) \/ ResumeReturns(p) \/ Charges(p)
                                 \/ Upsert(p) \/ UserStops(p) \/ UserStarts(p) \/ Ride(p)
    BY <1>1, <2>1, <2>6, OthersKeep
  <2> QED  BY <2>2, <2>3, <2>4, <2>5, <2>6 DEF Next
<1>2. ASSUME NEW p \in Plugs
      PROVE  /\ InProgress(p)' /\ session'[p].hold => Holdable(p, session'[p].readyBy)
             /\ session'[p].st = "holding" =>
                   /\ session'[p].hold
                   /\ \A t \in Int : history'.changed[p] <= t /\ t <= session'[p].until =>
                         ResolveDeadline(t, session'[p].readyBy) = session'[p].until
  <2>1. CASE session'[p] = session[p]
    <3>1. history.changed[p] <= history'.changed[p] /\ history.changed[p] \in Int
          /\ history'.changed[p] \in Int
      BY <1>0, PlugChanges, InstantTypes DEF Recorded, SamePlug
    <3>2. \A t \in Int : history'.changed[p] <= t => history.changed[p] <= t
      BY <3>1
    <3> QED  BY <2>1, <3>2 DEF HoldsOK, InProgress
  <2>2. CASE session'[p] = NoSession
    BY <2>2 DEF InProgress, NoSession
  <2>3. CASE session'[p].st = "charging" /\ session'[p].hold = FALSE
    BY <2>3
  <2>4. CASE /\ session'[p] = Session(act.plan.two, act.plan.readyBy, act.plan.carbon)
             /\ act.pc = "starting" /\ act.plug = p
    <3>1. /\ session'[p].st = "charging" /\ session'[p].hold = act.plan.two
          /\ session'[p].readyBy = act.plan.readyBy
      BY <2>4 DEF Session
    <3> QED  BY <2>4, <3>1 DEF HoldsOK
  <2>5. CASE /\ InProgress(p) /\ session[p].hold /\ history'.changed[p] = now
             /\ session'[p] = [session[p] EXCEPT !.st = "holding",
                                   !.until = ResolveDeadline(now, session[p].readyBy)]
    <3>1. session[p] \in SessionTypes
      BY <1>0, <2>5 DEF InProgress
    <3>2. /\ session'[p].hold = session[p].hold /\ session'[p].readyBy = session[p].readyBy
          /\ session'[p].until = ResolveDeadline(now, session[p].readyBy)
      BY <2>5, <3>1 DEF SessionTypes
    <3>3. Holdable(p, session[p].readyBy)
      BY <2>5 DEF HoldsOK
    <3>4. PICK b \in 0 .. Day - 1 : b = session[p].readyBy
      BY <3>3 DEF Holdable
    <3>5. \A t \in Int : now <= t /\ t <= ResolveDeadline(now, b) =>
              ResolveDeadline(t, b) = ResolveDeadline(now, b)
      BY <1>0, DeadlineStays
    <3> QED  BY <2>5, <3>2, <3>3, <3>4, <3>5
  <2> QED  BY <2>1, <2>2, <2>3, <2>4, <2>5, SessionSteps
<1> QED  BY <1>1, <1>2 DEF HoldsOK, InProgress

LEMMA CheckTypesAre ==
    ASSUME SchedInv
    PROVE  /\ now \in Nat /\ chk.since \in Int /\ chk \in CheckTypes /\ chk.todo \subseteq Plugs
           /\ chk.due \in BOOLEAN /\ chk.plug \in Plugs \cup {NoPlug} /\ NoPlug \notin Plugs
BY Numbers, SchedulesAssumption DEF SchedInv, Types, CheckTypes, Times, NoPlug

\* Only time and the checker itself, or a restart, move the checker.
LEMMA CheckerMoves ==
    ASSUME Next
    PROVE  \/ Advance \/ CheckerTick \/ Restart
           \/ \E p \in Plugs : ResumeIfDue(p) \/ ResumeReturns(p)
           \/ UNCHANGED <<now, chk>>
BY DEF Next, ActivatorTick, Examine, StartRefused, StartFails, StartSucceeds, Charges,
       Upsert, UserStops, UserStarts, Ride

\* A look of the checker at p: it goes on to the next, or waits for p.
LEMMA CheckerLooks ==
    ASSUME SchedInv, NEW p \in Plugs, ResumeIfDue(p)
    PROVE  /\ now' = now /\ chk.plug = NoPlug /\ p \in chk.todo
           /\ chk'.todo = chk.todo \ {p} /\ chk'.due = chk.due
           /\ chk'.plug = NoPlug \/ (chk'.plug = p /\ chk'.since = now)
BY CheckTypesAre DEF ResumeIfDue, CheckTypes

LEMMA CheckTimeStep == ASSUME SchedInv, CheckTime, Next  PROVE CheckTime'
<1>0. /\ now \in Nat /\ chk.since \in Int /\ chk \in CheckTypes
  BY CheckTypesAre
<1>1. CASE Advance
  <2>1. /\ chk' = [chk EXCEPT !.due = TRUE] /\ now' = now + Poll
        /\ chk.plug = NoPlug \/ (chk.plug # NoPlug /\ now - chk.since < Wait)
    BY <1>1 DEF Advance
  <2>2. /\ chk'.due = TRUE /\ chk'.plug = chk.plug /\ chk'.since = chk.since
        /\ chk'.todo = chk.todo
    BY <1>0, <2>1 DEF CheckTypes
  <2>3. CASE chk.plug = NoPlug
    BY <2>2, <2>3 DEF CheckTime
  <2>4. CASE chk.plug # NoPlug
    <3>1. PICK d \in Int : d = now - chk.since
      BY <1>0
    <3>2. Waited(d) /\ d < Wait /\ chk.since <= now
      BY <2>1, <2>4, <3>1 DEF CheckTime
    <3>3. Waited(d + Poll) /\ Poll \in Nat
      BY <3>2, WaitGoesOn, Numbers
    <3>4. d + Poll = now' - chk.since /\ chk.since <= now'
      BY <1>0, <2>1, <3>1, <3>2, <3>3
    <3> QED  BY <2>2, <2>4, <3>3, <3>4 DEF CheckTime
  <2> QED  BY <2>3, <2>4
<1>2. CASE CheckerTick
  <2>1. chk'.plug = NoPlug
    BY <1>0, <1>2 DEF CheckerTick, CheckTypes
  <2> QED  BY <2>1 DEF CheckTime
<1>3. CASE Restart
  BY <1>3 DEF Restart, CheckTime
<1>4. ASSUME NEW p \in Plugs, ResumeIfDue(p)  PROVE CheckTime'
  <2>1. /\ now' = now /\ chk'.todo = chk.todo \ {p}
        /\ chk'.plug = NoPlug \/ (chk'.plug = p /\ chk'.since = now)
    BY <1>4, CheckerLooks
  <2>2. now - now = 0 /\ Waited(now - now)
    BY <1>0, WaitGoesOn
  <2> QED  BY <1>0, <2>1, <2>2 DEF CheckTime
<1>5. ASSUME NEW p \in Plugs, ResumeReturns(p)  PROVE CheckTime'
  <2>1. chk'.plug = NoPlug
    BY <1>0, <1>5 DEF ResumeReturns, CheckTypes
  <2> QED  BY <2>1 DEF CheckTime
<1>6. CASE UNCHANGED <<now, chk>>
  BY <1>6 DEF CheckTime
<1> QED  BY <1>1, <1>2, <1>3, <1>4, <1>5, <1>6, CheckerMoves

----------------------------------------------------------------------------
\* A round waits for every plug but the one in question at most.
LEMMA RoundFits ==
    ASSUME NEW S \in SUBSET Plugs, NEW p \in Plugs
    PROVE  /\ Delays(S) \in Nat /\ Delays(S \ {p}) \in Nat
           /\ Delays(S \ {p}) <= Others
           /\ p \notin S => Delays(S) <= Others
           /\ \A z \in Plugs : z \notin S /\ z # p => Delays(S \ {p}) + WaitPolls <= Others
           /\ \A z \in S : Delays(S) = Delays(S \ {z}) + WaitPolls
<1>1. Delays(Plugs \ {p}) = Others
  BY DelaysAre
<1>2. S \ {p} \in SUBSET Plugs /\ S \ {p} \subseteq Plugs \ {p} /\ Plugs \ {p} \in SUBSET Plugs
  OBVIOUS
<1>3. Delays(S) \in Nat /\ Delays(S \ {p}) \in Nat
  BY <1>2, DelaysAre
<1>4. Delays(S \ {p}) <= Others
  BY <1>1, <1>2, DelaysAre
<1>5. p \notin S => Delays(S) <= Others
  <2>1. p \notin S => S = S \ {p}
    OBVIOUS
  <2> QED  BY <1>4, <2>1
<1>6. ASSUME NEW z \in Plugs, z \notin S, z # p
      PROVE  Delays(S \ {p}) + WaitPolls <= Others
  <2> DEFINE R == S \ {p}
  <2>1. R \in SUBSET Plugs /\ z \notin R /\ R \cup {z} \in SUBSET Plugs
        /\ R \cup {z} \subseteq Plugs \ {p}
    BY <1>6
  <2> HIDE DEF R
  <2>2. Delays(R \cup {z}) = Delays(R) + WaitPolls
    BY <1>6, <2>1, DelaysAre
  <2>3. Delays(R \cup {z}) <= Others
    BY <1>1, <1>2, <2>1, DelaysAre
  <2> QED  BY <2>2, <2>3 DEF R
<1>7. ASSUME NEW z \in S  PROVE Delays(S) = Delays(S \ {z}) + WaitPolls
  <2> DEFINE R == S \ {z}
  <2>1. R \in SUBSET Plugs /\ z \notin R /\ z \in Plugs /\ S = R \cup {z}
    OBVIOUS
  <2> HIDE DEF R
  <2>2. Delays(R \cup {z}) = Delays(R) + WaitPolls
    BY <2>1, DelaysAre
  <2> QED  BY <2>1, <2>2 DEF R
<1> QED  BY <1>3, <1>4, <1>5, <1>6, <1>7

LEMMA HeldTypes ==
    ASSUME SchedInv, NEW p \in Plugs, session[p].st = "holding"
    PROVE  /\ session[p] \in SessionTypes /\ session[p].until \in Int
           /\ ResumeFrom(p) \in Int /\ history.tried[p] \in Int /\ history.changed[p] \in Int
<1>1. session[p] \in SessionTypes
  BY DEF SchedInv, Types, NoSession
<1>2. history.tried[p] \in Int /\ history.changed[p] \in Int
  BY InstantTypes
<1> QED  BY <1>1, <1>2, Numbers DEF SessionTypes, ResumeFrom

\* What should be looked at only from now on is looked at in time.
LEMMA FreshHold ==
    ASSUME SchedInv, CheckTime, Next, NEW p \in Plugs, NEW x \in Int, now <= x, x <= now'
    PROVE  HoldAhead(p, x)'
<1>1. PICK n, g, w, o \in Nat : n = now /\ g = Max({Poll, WaitPolls}) /\ w = WaitPolls /\ o = Others
      /\ Gap = g + o + o /\ Poll <= g /\ w <= g /\ Poll \in Nat
  BY CheckTypesAre, BoundsAre, WaitIsPolls, Numbers
<1>2. PICK S \in SUBSET Plugs : S = chk'.todo
  BY SchedStep DEF SchedInv, Types, CheckTypes
<1>3. PICK a, b \in Nat : a = Delays(S) /\ b = Delays(S \ {p}) /\ b <= o /\ (p \notin S => a <= o)
      /\ \A z \in Plugs : z \notin S /\ z # p => b + w <= o
  BY <1>1, RoundFits
<1>4. chk'.since \in Int /\ chk'.plug \in Plugs \cup {NoPlug} /\ NoPlug \notin Plugs
      /\ chk'.due \in BOOLEAN
  BY CheckTypesAre, SchedStep DEF SchedInv, Types, CheckTypes, Times, Never
<1>5. chk'.plug # NoPlug => chk'.plug \notin S /\ chk'.since <= now' /\ chk'.since <= n
  <2>1. chk'.plug # NoPlug => chk'.plug \notin S /\ chk'.since <= now'
    BY <1>2, CheckTimeStep DEF CheckTime
  <2>2. CASE Advance
    <3>1. chk'.since = chk.since /\ chk'.plug = chk.plug
      BY <2>2, CheckTypesAre DEF Advance, CheckTypes
    <3> QED  BY <1>1, <2>1, <3>1 DEF CheckTime
  <2> QED  BY <1>1, <2>1, <2>2, ClockMoves
<1>6. chk'.plug = NoPlug /\ p \in S => now' = n
  <2>1. CASE Advance
    <3>1. chk'.plug = chk.plug /\ chk'.todo = chk.todo
      BY <2>1, CheckTypesAre DEF Advance, CheckTypes
    <3> QED  BY <1>2, <2>1, <3>1 DEF Advance
  <2> QED  BY <1>1, <2>1, ClockMoves
<1>7. now' = n \/ (now' = n + Poll /\ chk'.due)
  <2>1. Advance => chk'.due
    BY CheckTypesAre DEF Advance, CheckTypes
  <2> QED  BY <1>1, <2>1, ClockMoves
<1>8. CASE p \in S /\ chk'.plug = NoPlug
  <2>1. now' + b <= x + Gap
    BY <1>1, <1>3, <1>6, <1>8
  <2> QED  BY <1>2, <1>3, <1>8, <2>1 DEF HoldAhead
<1>9. CASE p \in S /\ chk'.plug # NoPlug
  <2>1. b + w <= o
    BY <1>3, <1>4, <1>5, <1>9
  <2>2. (chk'.since + WaitPolls) + b <= x + Gap
    BY <1>1, <1>3, <1>4, <1>5, <1>9, <2>1
  <2> QED  BY <1>2, <1>3, <1>9, <2>2 DEF HoldAhead
<1>10. CASE p \notin S /\ chk'.plug = NoPlug
  <2>1. (now' + (IF chk'.due THEN 0 ELSE Poll)) + a + Others <= x + Gap
    BY <1>1, <1>3, <1>7, <1>10
  <2> QED  BY <1>2, <1>3, <1>10, <2>1 DEF HoldAhead
<1>11. CASE p \notin S /\ chk'.plug # NoPlug
  <2>1. (chk'.since + (IF chk'.due THEN WaitPolls ELSE Max({Poll, WaitPolls}))) + a + Others
            <= x + Gap
    BY <1>1, <1>3, <1>4, <1>5, <1>11
  <2> QED  BY <1>2, <1>3, <1>11, <2>1 DEF HoldAhead
<1> QED  BY <1>8, <1>9, <1>10, <1>11

\* A hold that is due was due before, unless the time is only now.
LEMMA HeldBefore ==
    ASSUME SchedInv, Next, NEW p \in Plugs, NEW x \in Int, HeldSince(p, x)', x < now
    PROVE  HeldSince(p, x) /\ SamePlug(p) /\ history'.tried[p] # now
<1>0. now \in Int
  BY InstantTypes
<1>1. SamePlug(p)
  BY <1>0, PlugChanges, InstantTypes DEF HeldSince
<1>2. session[p].st = "holding" /\ ResumeFrom(p)' = ResumeFrom(p)
  BY <1>1 DEF HeldSince, SamePlug, ResumeFrom
<1>3. ResumeFrom(p) \in Int
  BY <1>2, HeldTypes
<1>4. /\ history.changed[p] <= x /\ ResumeFrom(p) <= x /\ x + Gap <= session[p].until
      /\ history'.tried[p] < ResumeFrom(p)
  BY <1>1, <1>2 DEF HeldSince, SamePlug
<1>5. history'.tried[p] # now
  BY <1>0, <1>3, <1>4
<1>6. history'.tried[p] = history.tried[p]
  <2>1. ASSUME Examine(p), act'.pc = "starting"
        PROVE  FALSE
    <3>1. act' # Done(p)
      BY <2>1, DoneIs
    <3>2. Candidate(p)
      BY <2>1, <3>1 DEF Examine, DailyDue, CarbonDue
    <3> QED  BY <1>2, <3>2 DEF Candidate, InProgress, NoSession
  <2> QED  BY <1>5, <2>1, PlugTried
<1> QED  BY <1>0, <1>1, <1>2, <1>4, <1>5, <1>6 DEF HeldSince

\* A hold that is due is resumed whenever it is looked at before its deadline.
LEMMA ResumedInTime ==
    ASSUME SchedInv, HoldsOK, NEW p \in Plugs, NEW x \in Int, HeldSince(p, x),
           now <= session[p].until, NEW forecast
    PROVE  ResumeDue(p, forecast)
<1>1. /\ session[p].st = "holding" /\ session[p].until \in Int /\ ResumeFrom(p) \in Int
      /\ now \in Int /\ history.changed[p] \in Int
  BY HeldTypes, InstantTypes DEF HeldSince
<1>2. history.changed[p] <= now /\ ResumeFrom(p) <= now
  BY <1>1 DEF HeldSince
<1>3. ResolveDeadline(now, session[p].readyBy) = session[p].until
  BY <1>1, <1>2 DEF HoldsOK
<1> QED  BY <1>2, <1>3 DEF ResumeDue, ResumeFrom

LEMMA HoldStep ==
    ASSUME SchedInv, CheckTime, HoldsOK, HoldInv, Next
    PROVE  HoldInv'
<1> SUFFICES ASSUME NEW p \in Plugs, NEW x \in Int, HeldSince(p, x)'
             PROVE  HoldAhead(p, x)'
  BY DEF HoldInv
<1>0. /\ now \in Nat /\ chk.since \in Int /\ chk \in CheckTypes /\ chk.todo \in SUBSET Plugs
      /\ chk.due \in BOOLEAN /\ chk.plug \in Plugs \cup {NoPlug} /\ NoPlug \notin Plugs
  BY CheckTypesAre
<1>1. x <= now' /\ now' \in Int
  BY <1>0, ClockMoves, Numbers DEF HeldSince
<1>2. CASE now <= x
  BY <1>1, <1>2, FreshHold
<1>3. CASE x < now
  <2>1. HeldSince(p, x) /\ SamePlug(p) /\ history'.tried[p] # now
    BY <1>3, HeldBefore
  <2>2. HoldAhead(p, x)
    BY <2>1 DEF HoldInv
  <2>3. PICK g, w, o, y \in Nat :
            /\ g = Max({Poll, WaitPolls}) /\ w = WaitPolls /\ o = Others /\ y = Poll
            /\ y <= g /\ w <= g /\ g <= y + w
    BY BoundsAre, WaitIsPolls, Numbers
  <2>4. PICK z \in Int : z = x + Gap
    BY BoundsAre
  <2>5. PICK S \in SUBSET Plugs : S = chk.todo
    BY <1>0
  <2>6. PICK a, b \in Nat : a = Delays(S) /\ b = Delays(S \ {p}) /\ b <= o
    BY <2>3, RoundFits
  <2>7. CASE Advance
    <3>1. /\ now' = now + y /\ chk'.plug = chk.plug /\ chk'.todo = S /\ chk'.due
          /\ chk'.since = chk.since
          /\ \/ S = {} /\ chk.plug = NoPlug /\ (chk.due => Holding = {})
             \/ chk.plug # NoPlug
      BY <1>0, <2>3, <2>5, <2>7 DEF Advance, CheckTypes
    <3>2. CASE chk.plug = NoPlug
      <4>1. p \in Holding
        BY <2>1 DEF HeldSince, Holding
      <4>2. ~chk.due /\ p \notin S
        BY <3>1, <3>2, <4>1
      <4>3. (now + y) + a + o <= z
        BY <2>2, <2>3, <2>4, <2>5, <2>6, <3>2, <4>2 DEF HoldAhead
      <4>4. (now' + 0) + a + o <= z
        BY <1>0, <3>1, <4>3
      <4> QED  BY <2>3, <2>4, <2>6, <3>1, <3>2, <4>2, <4>4 DEF HoldAhead
    <3>3. CASE chk.plug # NoPlug
      <4>1. CASE p \in S
        BY <2>2, <2>5, <3>1, <3>3, <4>1 DEF HoldAhead
      <4>2. CASE p \notin S
        <5>1. (chk.since + (IF chk.due THEN w ELSE g)) + a + o <= z
          BY <2>2, <2>3, <2>4, <2>5, <2>6, <3>3, <4>2 DEF HoldAhead
        <5>2. (chk.since + w) + a + o <= z
          BY <1>0, <2>3, <5>1
        <5> QED  BY <2>3, <2>4, <2>6, <3>1, <3>3, <4>2, <5>2 DEF HoldAhead
      <4> QED  BY <4>1, <4>2
    <3> QED  BY <3>2, <3>3
  <2>8. CASE CheckerTick
    <3>1. /\ chk.due /\ S = {} /\ chk.plug = NoPlug /\ chk'.plug = NoPlug
          /\ chk'.todo = Holding /\ now' = now
      BY <1>0, <2>5, <2>8 DEF CheckerTick, CheckTypes
    <3>2. p \in Holding /\ Holding \in SUBSET Plugs
      BY <2>1 DEF HeldSince, Holding
    <3>3. PICK c \in Nat : c = Delays(Holding \ {p}) /\ c <= o
      BY <2>3, <3>2, RoundFits
    <3>4. (now + 0) + a + o <= z
      BY <2>2, <2>3, <2>4, <2>5, <2>6, <3>1 DEF HoldAhead
    <3>5. now' + c <= z
      BY <1>0, <3>1, <3>3, <3>4
    <3> QED  BY <2>4, <3>1, <3>2, <3>3, <3>5 DEF HoldAhead
  <2>9. CASE Restart
    <3>1. history'.changed[p] = now
      BY <2>9 DEF Restart, SchedInv, Types, HistoryTypes
    <3>2. history'.changed[p] <= x
      BY DEF HeldSince
    <3> QED  BY <1>0, <1>3, <3>1, <3>2
  <2>10. ASSUME NEW q \in Plugs, ResumeIfDue(q)  PROVE HoldAhead(p, x)'
    <3>1. /\ now' = now /\ chk.plug = NoPlug /\ q \in S
          /\ chk'.todo = S \ {q} /\ chk'.due = chk.due
          /\ chk'.plug = NoPlug \/ (chk'.plug = q /\ chk'.since = now)
      BY <2>5, <2>10, CheckerLooks
    <3>2. CASE p \in S
      <4>1. now + b <= z
        BY <2>2, <2>4, <2>5, <2>6, <3>1, <3>2 DEF HoldAhead
      <4>2. p # q
        \* It was due, so the round has not passed it.
        <5> SUFFICES ASSUME p = q  PROVE FALSE
          OBVIOUS
        <5>1. session[p].until \in Int /\ z <= session[p].until /\ session[p].st = "holding"
          BY <2>1, <2>4, HeldTypes DEF HeldSince
        <5>2. now <= session[p].until
          BY <1>0, <2>4, <2>6, <4>1, <5>1
        <5>3. \A forecast : ResumeDue(p, forecast)
          BY <2>1, <5>2, ResumedInTime
        <5>4. history' = [history EXCEPT !.tried[p] = now]
          BY <2>10, <5>1, <5>3 DEF ResumeIfDue
        <5>5. history'.tried[p] = now
          BY <5>4 DEF SchedInv, Types, HistoryTypes
        <5> QED  BY <2>1, <5>5
      <4>3. PICK c \in Nat : c = Delays((S \ {q}) \ {p}) /\ b = c + w
        <5> DEFINE R == S \ {p}
        <5>1. R \in SUBSET Plugs /\ q \in R /\ R \ {q} = (S \ {q}) \ {p} /\ R \ {q} \in SUBSET Plugs
          BY <3>1, <4>2
        <5> HIDE DEF R
        <5>2. Delays(R) = Delays(R \ {q}) + WaitPolls /\ Delays(R \ {q}) \in Nat
          BY <3>1, <5>1, RoundFits
        <5> QED  BY <2>3, <2>6, <5>1, <5>2 DEF R
      <4>4. (now + w) + c <= z /\ now' + c <= z
        BY <1>0, <2>3, <3>1, <4>1, <4>3
      <4>5. p \in chk'.todo
        BY <3>1, <3>2, <4>2
      <4>6. CASE chk'.plug = NoPlug
        BY <2>4, <3>1, <4>3, <4>4, <4>5, <4>6 DEF HoldAhead
      <4>7. CASE chk'.plug # NoPlug
        BY <2>3, <2>4, <3>1, <4>3, <4>4, <4>5, <4>7 DEF HoldAhead
      <4> QED  BY <4>6, <4>7
    <3>3. CASE p \notin S
      <4>1. (now + (IF chk.due THEN 0 ELSE y)) + a + o <= z
        BY <2>2, <2>3, <2>4, <2>5, <2>6, <3>1, <3>3 DEF HoldAhead
      <4>2. PICK c \in Nat : c = Delays(S \ {q}) /\ a = c + w
        <5>1. S \ {q} \in SUBSET Plugs
          OBVIOUS
        <5>2. Delays(S) = Delays(S \ {q}) + WaitPolls /\ Delays(S \ {q}) \in Nat
          BY <3>1, <5>1, RoundFits
        <5> QED  BY <2>3, <2>6, <5>2
      <4>3. p \notin chk'.todo
        BY <3>1, <3>3
      <4>4. CASE chk'.plug = NoPlug
        <5>1. (now' + (IF chk'.due THEN 0 ELSE y)) + c + o <= z
          BY <1>0, <2>3, <3>1, <4>1, <4>2
        <5> QED  BY <2>3, <2>4, <3>1, <4>2, <4>3, <4>4, <5>1 DEF HoldAhead
      <4>5. CASE chk'.plug # NoPlug
        <5>1. (chk'.since + (IF chk'.due THEN w ELSE g)) + c + o <= z
          BY <1>0, <2>3, <3>1, <4>1, <4>2, <4>5
        <5> QED  BY <2>3, <2>4, <3>1, <4>2, <4>3, <4>5, <5>1 DEF HoldAhead
      <4> QED  BY <4>4, <4>5
    <3> QED  BY <3>2, <3>3
  <2>11. ASSUME NEW q \in Plugs, ResumeReturns(q)  PROVE HoldAhead(p, x)'
    <3>1. /\ now' = now /\ chk.plug # NoPlug /\ chk'.plug = NoPlug /\ chk'.todo = S
          /\ chk'.due = chk.due
      BY <1>0, <2>5, <2>11 DEF ResumeReturns, CheckTypes
    <3>2. now <= chk.since + w /\ (~chk.due => now = chk.since)
      BY <1>0, <2>3, <3>1 DEF CheckTime, Waited
    <3>3. CASE p \in S
      <4>1. (chk.since + w) + b <= z
        BY <2>2, <2>3, <2>4, <2>5, <2>6, <3>1, <3>3 DEF HoldAhead
      <4>2. now' + b <= z
        BY <1>0, <3>1, <3>2, <4>1
      <4> QED  BY <2>4, <2>6, <3>1, <3>3, <4>2 DEF HoldAhead
    <3>4. CASE p \notin S
      <4>1. (chk.since + (IF chk.due THEN w ELSE g)) + a + o <= z
        BY <2>2, <2>3, <2>4, <2>5, <2>6, <3>1, <3>4 DEF HoldAhead
      <4>2. (now' + (IF chk'.due THEN 0 ELSE y)) + a + o <= z
        BY <1>0, <2>3, <3>1, <3>2, <4>1
      <4> QED  BY <2>3, <2>4, <2>6, <3>1, <3>4, <4>2 DEF HoldAhead
    <3> QED  BY <3>3, <3>4
  <2>12. CASE UNCHANGED <<now, chk>>
    BY <2>2, <2>12 DEF HoldAhead
  <2> QED  BY <2>7, <2>8, <2>9, <2>10, <2>11, <2>12, CheckerMoves
<1> QED  BY <1>0, <1>2, <1>3

ResumeInv == SchedInv /\ Recorded /\ TickTime /\ CheckTime /\ HoldsOK /\ HoldInv

LEMMA ResumeStarts == Init => ResumeInv
<1> SUFFICES ASSUME Init  PROVE ResumeInv
  OBVIOUS
<1>1. SchedInv /\ Recorded /\ TickTime
  BY DueStarts DEF DueInv
<1>2. CheckTime
  BY DEF Init, CheckTime
<1>3. \A p \in Plugs : ~InProgress(p) /\ session[p].st # "holding"
  BY DEF Init, InProgress, NoSession
<1>4. act.pc # "starting"
  BY DEF Init, Idle
<1> QED  BY <1>1, <1>2, <1>3, <1>4 DEF ResumeInv, HoldsOK, HoldInv, HeldSince

LEMMA ResumeStep == ResumeInv /\ [Next]_vars => ResumeInv'
<1>1. CASE Next
  BY <1>1, SchedStep, RecordedStep, TickTimeStep, CheckTimeStep, HoldsStep, HoldStep DEF ResumeInv
<1>2. CASE UNCHANGED vars
  <2> SUFFICES ASSUME ResumeInv  PROVE ResumeInv'
    OBVIOUS
  <2>1. SchedInv'
    BY <1>2, SchedStep DEF ResumeInv
  <2>2. Recorded' /\ TickTime' /\ CheckTime'
    BY <1>2 DEF vars, ResumeInv, Recorded, TickTime, DoneAt, CheckTime
  <2>3. HoldsOK'
    BY <1>2 DEF vars, ResumeInv, HoldsOK, InProgress
  <2>4. HoldInv'
    <3> SUFFICES ASSUME NEW p \in Plugs, NEW x \in Int, HeldSince(p, x)'
                 PROVE  HoldAhead(p, x)'
      BY DEF HoldInv
    <3>1. HeldSince(p, x)
      BY <1>2 DEF vars, HeldSince, ResumeFrom
    <3>2. HoldAhead(p, x)
      BY <3>1 DEF ResumeInv, HoldInv
    <3> QED  BY <1>2, <3>2 DEF vars, HoldAhead
  <2> QED  BY <2>1, <2>2, <2>3, <2>4 DEF ResumeInv
<1> QED  BY <1>1, <1>2

\* A hold that is due has not waited for longer than Gap.
LEMMA HoldsAreShort ==
    ASSUME ResumeInv, NEW p \in Plugs, NEW x \in Int, HeldSince(p, x)
    PROVE  now <= x + Gap
<1>0. /\ now \in Nat /\ chk.since \in Int /\ chk.todo \in SUBSET Plugs /\ chk.due \in BOOLEAN
  BY CheckTypesAre DEF ResumeInv
<1>1. HoldAhead(p, x)
  BY DEF ResumeInv, HoldInv
<1>2. PICK g, w, o, y \in Nat :
          /\ g = Max({Poll, WaitPolls}) /\ w = WaitPolls /\ o = Others /\ y = Poll /\ w <= g
  BY BoundsAre, WaitIsPolls, Numbers
<1>3. PICK a, b \in Nat : a = Delays(chk.todo) /\ b = Delays(chk.todo \ {p})
  BY <1>0, RoundFits
<1>4. PICK z \in Int : z = x + Gap
  BY BoundsAre
<1>5. chk.plug # NoPlug => now <= chk.since + w
  BY <1>0, <1>2 DEF ResumeInv, CheckTime, Waited
<1>6. CASE p \in chk.todo
  <2>1. (IF chk.plug = NoPlug THEN now ELSE chk.since + w) + b <= z
    BY <1>1, <1>2, <1>3, <1>4, <1>6 DEF HoldAhead
  <2> QED  BY <1>0, <1>2, <1>3, <1>4, <1>5, <2>1
<1>7. CASE p \notin chk.todo
  <2>1. (IF chk.plug = NoPlug THEN now + (IF chk.due THEN 0 ELSE y)
         ELSE chk.since + (IF chk.due THEN w ELSE g)) + a + o <= z
    BY <1>1, <1>2, <1>3, <1>4, <1>7 DEF HoldAhead
  <2> QED  BY <1>0, <1>2, <1>3, <1>4, <1>5, <2>1
<1> QED  BY <1>6, <1>7

\* Where the shortest second stage leaves room for a round of the checker and
\* the next, no deadline of a hold rolls over to the next day before the hold
\* has been tried to resume; for any number of plugs, waits and forecasts.
THEOREM HoldsAreResumed == RoomToResume => (Spec => []HoldIsResumedInTime)
<1> SUFFICES ASSUME RoomToResume  PROVE Spec => []HoldIsResumedInTime
  OBVIOUS
<1>1. ResumeInv => HoldIsResumedInTime
  <2> SUFFICES ASSUME ResumeInv, NEW p \in Plugs, session[p].st = "holding", session[p].until < now,
                      history.changed[p] + Gap <= session[p].until,
                      ~(history.tried[p] >= ResumeFrom(p))
               PROVE  FALSE
    BY DEF HoldIsResumedInTime, ResumeFrom
  <2>1. /\ now \in Nat /\ session[p].until \in Int /\ ResumeFrom(p) \in Int
        /\ history.tried[p] \in Int /\ history.changed[p] \in Int /\ Gap \in Nat
        /\ Stage2 \in Nat /\ MinStage \in Nat
    BY HeldTypes, InstantTypes, BoundsAre, Numbers DEF ResumeInv
  <2>2. ResumeFrom(p) + Gap <= session[p].until
    <3>1. session[p].hold /\ InProgress(p)
      BY DEF ResumeInv, HoldsOK, InProgress, NoSession
    <3>2. Known(p) => MinStage <= Stage2
      BY <3>1 DEF ResumeInv, HoldsOK, Holdable
    <3>3. CASE Known(p)
      BY <2>1, <3>2, <3>3 DEF ResumeFrom, RoomToResume
    <3>4. CASE ~Known(p)
      BY <3>4 DEF ResumeFrom
    <3> QED  BY <3>3, <3>4
  <2>3. PICK x \in Int : /\ x \in {ResumeFrom(p), history.changed[p]}
                         /\ ResumeFrom(p) <= x /\ history.changed[p] <= x
    <3>1. CASE ResumeFrom(p) <= history.changed[p]
      BY <2>1, <3>1
    <3>2. CASE history.changed[p] <= ResumeFrom(p)
      BY <2>1, <3>2
    <3> QED  BY <2>1, <3>1, <3>2
  <2>4. x + Gap <= session[p].until /\ x <= now /\ history.tried[p] < ResumeFrom(p)
    BY <2>1, <2>2, <2>3
  <2>5. HeldSince(p, x)
    BY <2>3, <2>4 DEF HeldSince
  <2>6. now <= x + Gap
    BY <2>5, HoldsAreShort
  <2> QED  BY <2>1, <2>4, <2>6
<1>2. Spec => []ResumeInv
  BY ResumeStarts, ResumeStep, PTL DEF Spec
<1> QED  BY <1>1, <1>2, PTL

=============================================================================
