------------------------------ MODULE Schedules ------------------------------
(***************************************************************************)
(* The schedule activator (schedule_service.go) and the resumption of      *)
(* holding sessions (session_monitoring_service.go), which share the       *)
(* notion of a deadline.  Both are ticker goroutines that take a snapshot, *)
(* walk through their rows and may wait for a plug on the way.  The clock  *)
(* moves in polls; since a ticker starts whenever the server did, polls    *)
(* never fall on a half-hour boundary.  Of a session only what schedules   *)
(* ask about is kept; sessions themselves are the matter of ChargeSession. *)
(***************************************************************************)
EXTENDS ScheduleTimes

CONSTANTS
    Plugs,
    Unspecified,   \* plugs whose vehicle lacks the data for an estimate
    Requests,      \* the schedules a user may ask for
    Forecasts,     \* the answers of the carbon client; the empty one fails
    Stage1, Stage2, \* estimates: below the hold point to it, from it to target
    MinStage,      \* MinTwoStageStageDurationMin
    Throttle,      \* scheduleThrottleDuration
    Poll,          \* PollIntervalSec
    Wait,          \* the longest that one start or resume keeps its tick
    Start, MaxNow, \* bounds: the clock
    MaxUser, UserUntil \* bounds: what users do, and until when

ASSUME SchedulesAssumption ==
    /\ IsFiniteSet(Plugs) /\ "none" \notin Plugs
    /\ Unspecified \subseteq Plugs
    /\ {Stage1, Stage2, MinStage, Throttle, Poll, Wait, Start, MaxNow, MaxUser, UserUntil}
           \subseteq Nat
    /\ Poll > 0 /\ Start <= MaxNow
    /\ Requests \subseteq [type : {"daily", "carbon"}, from : 0 .. Day - 1,
                           to : {Never} \cup 0 .. Day - 1, two : BOOLEAN, enabled : BOOLEAN]
    /\ \A r \in Requests : r.type = "carbon" => r.to # Never

VARIABLES
    now,
    rows,       \* schedules by plug; NoRow where there is none
    level,      \* the charge of the plug's vehicle: "low", "held", "full"
    session,    \* the session in progress on the plug, or NoSession
    lastActivation, lastStartFailure,
    act,        \* the activator: pc, at (its now), last, rows and todo
    chk,        \* the checker: due, todo, and the plug it powers on
    users,      \* actions of users so far
    history     \* for the properties: times of starts, attempts and changes

vars == <<now, rows, level, session, lastActivation, lastStartFailure, act, chk,
          users, history>>

NoRow == [type |-> "none"]
NoSession == [st |-> "none"]
NoPlug == "none"

\* A stored schedule: daily at from, to its readyBy or Never; or the window
\* from..to of a carbon-aware one.
Row(type, from, to, two, enabled) ==
    [type |-> type, from |-> from, to |-> to, two |-> two, enabled |-> enabled]

Session(two, readyBy, carbon) ==
    [st |-> "charging", hold |-> two, readyBy |-> readyBy, carbon |-> carbon, until |-> Never]

\* What Upsert lets through: ErrReadyByEqualsTime, ErrWindowEqual.
Valid(r) == r.from # r.to
Rows == {r \in Requests : Valid(r)}

InProgress(p) == session[p] # NoSession

----------------------------------------------------------------------------
(* The decision of one tick for one schedule.                              *)

Known(p) == p \notin Unspecified
ToTarget(p) == IF level[p] = "low" THEN Stage1 + Stage2 ELSE Stage2

\* worthwhileTwoStage: an estimator error does not veto.
Worthwhile(p) == level[p] = "low" /\ (Known(p) => Stage2 >= MinStage)

\* loadCandidate.
Candidate(p) == ~InProgress(p) /\ level[p] # "full"

Plan(two, readyBy, carbon, forced) ==
    [two |-> two, readyBy |-> readyBy, carbon |-> carbon, forced |-> forced]
NoPlan == Plan(FALSE, Never, FALSE, FALSE)

Throttled(t, last) == last # Never /\ t - last < Throttle
BackingOff(p, t) == lastStartFailure[p] # Never /\ t - lastStartFailure[p] < Throttle

DailyDue(p, r, t, last) ==
    /\ r.from = FormatTime(t)
    /\ ~Throttled(t, last)
    /\ Candidate(p)

DailyPlan(p, r) ==
    LET two == r.to # Never /\ Worthwhile(p)
    IN  Plan(two, IF two THEN r.to ELSE Never, FALSE, FALSE)

InWindow(r, t) ==
    LET w == ResolveWindow(t, r.from, r.to) IN w.start <= t /\ t < w.end

\* The latest start that leaves time for the whole charge.
LatestStart(p, r, t) == ResolveWindow(t, r.from, r.to).end - ToTarget(p)
MustStart(p, r, t) == ~Known(p) \/ t >= LatestStart(p, r, t)

\* With a forecast: no half-hour left to wait for.
SlotIsNow(p, r, t, forecast) ==
    LET end  == ResolveWindow(t, r.from, r.to).end
        f    == SliceBuckets(forecast, t, end)
        best == IF r.two /\ Worthwhile(p)
                THEN FindBalancedStart(f, t, LatestStart(p, r, t), end, Stage1)
                ELSE FindOptimalStart(f, t, LatestStart(p, r, t), ToTarget(p))
    IN  DOMAIN f # {} /\ (best = Never \/ best <= AlignToHalfHour(t))

\* Mutant: a forced start ignores the back-off as it does the throttle.
CarbonDueUnpaced(p, r, t, last, forecast) ==
    /\ InWindow(r, t)
    /\ Candidate(p)
    /\ \/ MustStart(p, r, t)
       \/ ~Throttled(t, last) /\ SlotIsNow(p, r, t, forecast) /\ ~BackingOff(p, t)

CarbonDue(p, r, t, last, forecast) ==
    /\ InWindow(r, t)
    /\ Candidate(p)
    /\ MustStart(p, r, t) \/ (~Throttled(t, last) /\ SlotIsNow(p, r, t, forecast))
    /\ ~BackingOff(p, t)

CarbonPlan(p, r, t) ==
    LET two == r.two /\ Worthwhile(p)
    IN  Plan(two, IF two THEN FormatTime(ResolveWindow(t, r.from, r.to).end) ELSE Never,
             TRUE, MustStart(p, r, t))

----------------------------------------------------------------------------
Idle == [pc |-> "idle", due |-> FALSE, at |-> Never, last |-> Never,
         rows |-> [p \in Plugs |-> NoRow], todo |-> {},
         plug |-> NoPlug, plan |-> NoPlan, since |-> Never]

Init ==
    /\ now = Start
    /\ rows \in [Plugs -> Rows \cup {NoRow}]
    /\ level \in [Plugs -> {"low", "held"}]
    /\ session = [p \in Plugs |-> NoSession]
    /\ lastActivation = Never
    /\ lastStartFailure = [p \in Plugs |-> Never]
    /\ act = Idle
    /\ chk = [due |-> FALSE, todo |-> {}, plug |-> NoPlug, since |-> Never]
    /\ users = 0
    /\ history = [started |-> [p \in Plugs |-> Never],
                  tried   |-> [p \in Plugs |-> Never],
                  changed |-> [p \in Plugs |-> Start]]

Enabled == {p \in Plugs : rows[p] # NoRow /\ rows[p].enabled}
Holding == {p \in Plugs : session[p].st = "holding"}

\* Time passes while both goroutines wait, for their tickers or for a plug: a
\* start first for the session lock, then PowerConfirmationTimeout, and when
\* that fails PowerConfirmationBestEffortTimeout on top.  A tick that would find
\* nothing to do is not waited for.
Advance ==
    /\ now + Poll <= MaxNow
    /\ \/ act.pc = "idle" /\ (act.due => Enabled = {})
       \/ act.pc = "starting" /\ now - act.since < Wait
    /\ \/ chk.todo = {} /\ chk.plug = NoPlug /\ (chk.due => Holding = {})
       \/ chk.plug # NoPlug /\ now - chk.since < Wait
    /\ now' = now + Poll
    /\ act' = [act EXCEPT !.due = TRUE]
    /\ chk' = [chk EXCEPT !.due = TRUE]
    /\ UNCHANGED <<rows, level, session, lastActivation, lastStartFailure, users, history>>

Changed(p) == [history EXCEPT !.changed[p] = now]

\* CheckAndActivateAll: one listing, one look at the clock and at the throttle.
ActivatorTick ==
    /\ act.pc = "idle" /\ act.due /\ Enabled # {}
    /\ act' = [Idle EXCEPT !.pc = "tick", !.at = now, !.last = lastActivation,
                           !.rows = rows, !.todo = Enabled]
    /\ UNCHANGED <<now, rows, level, session, lastActivation, lastStartFailure, chk,
                   users, history>>

\* What is left of the tick once the schedule of p is dealt with.
Done(p) ==
    LET todo == act.todo \ {p}
    IN  IF todo = {} THEN [Idle EXCEPT !.due = act.due]
        ELSE [act EXCEPT !.todo = todo, !.pc = "tick",
                         !.plug = NoPlug, !.plan = NoPlan, !.since = Never]

Starting(p, plan) ==
    [act EXCEPT !.pc = "starting", !.plug = p, !.plan = plan, !.since = now]

\* tryActivateDaily, tryActivateCarbonAware: up to the call of StartSession.
Examine(p) ==
    /\ act.pc = "tick" /\ p \in act.todo
    /\ \E forecast \in Forecasts :
        LET r   == act.rows[p]
            due == IF r.type = "daily" THEN DailyDue(p, r, act.at, act.last)
                   ELSE CarbonDue(p, r, act.at, act.last, forecast)
        IN  IF due
            THEN /\ act' = Starting(p, IF r.type = "daily" THEN DailyPlan(p, r)
                                       ELSE CarbonPlan(p, r, act.at))
                 /\ history' = [history EXCEPT !.tried[p] = act.at]
            ELSE act' = Done(p) /\ UNCHANGED history
    /\ UNCHANGED <<now, rows, level, session, lastActivation, lastStartFailure, chk, users>>

\* StartSession answers that the plug was taken meanwhile: nothing is noted.
StartRefused(p) ==
    /\ act.pc = "starting" /\ act.plug = p
    /\ InProgress(p)
    /\ act' = Done(p)
    /\ UNCHANGED <<now, rows, level, session, lastActivation, lastStartFailure, chk,
                   users, history>>

StartFails(p) ==
    /\ act.pc = "starting" /\ act.plug = p
    /\ ~InProgress(p)
    /\ lastStartFailure' = IF act.plan.carbon THEN [lastStartFailure EXCEPT ![p] = act.at]
                           ELSE lastStartFailure
    /\ act' = Done(p)
    /\ UNCHANGED <<now, rows, level, session, lastActivation, chk, users, history>>

\* Mutant: the activation is not noted for the throttle.
StartSucceedsUnnoted(p) ==
    /\ act.pc = "starting" /\ act.plug = p
    /\ ~InProgress(p)
    /\ session' = [session EXCEPT ![p] =
                      Session(act.plan.two, act.plan.readyBy, act.plan.carbon)]
    /\ lastStartFailure' = IF act.plan.carbon THEN [lastStartFailure EXCEPT ![p] = Never]
                           ELSE lastStartFailure
    /\ history' = [Changed(p) EXCEPT !.started[p] = act.at]
    /\ act' = Done(p)
    /\ UNCHANGED <<now, rows, level, lastActivation, chk, users>>

StartSucceeds(p) ==
    /\ act.pc = "starting" /\ act.plug = p
    /\ ~InProgress(p)
    /\ session' = [session EXCEPT ![p] =
                      Session(act.plan.two, act.plan.readyBy, act.plan.carbon)]
    /\ lastActivation' = act.at
    /\ lastStartFailure' = IF act.plan.carbon THEN [lastStartFailure EXCEPT ![p] = Never]
                           ELSE lastStartFailure
    /\ history' = [Changed(p) EXCEPT !.started[p] = act.at]
    /\ act' = Done(p)
    /\ UNCHANGED <<now, rows, level, chk, users>>

----------------------------------------------------------------------------
(* CheckAndResumeHoldingSession.                                           *)

CheckerTick ==
    /\ chk.due /\ chk.todo = {} /\ chk.plug = NoPlug /\ Holding # {}
    /\ chk' = [chk EXCEPT !.due = FALSE, !.todo = Holding]
    /\ UNCHANGED <<now, rows, level, session, lastActivation, lastStartFailure, act,
                   users, history>>

\* Mutant: waits for the deadline itself.
ResumeAtDeadline(p, forecast) ==
    ~Known(p) \/ now >= ResolveDeadline(now, session[p].readyBy)

ResumeDue(p, forecast) ==
    LET s        == session[p]
        deadline == ResolveDeadline(now, s.readyBy)
        latest   == deadline - Stage2
        f        == SliceBuckets(forecast, now, deadline)
        best     == FindBalancedStart(f, now, latest, deadline, Stage2)
    IN  \/ ~Known(p)
        \/ now >= latest
        \/ /\ s.carbon
           /\ DOMAIN f # {}
           /\ best = Never \/ best <= AlignToHalfHour(now)

ResumeIfDue(p) ==
    /\ p \in chk.todo /\ chk.plug = NoPlug
    /\ \E forecast \in Forecasts :
        IF session[p].st = "holding" /\ ResumeDue(p, forecast)
        THEN /\ chk' = [chk EXCEPT !.todo = @ \ {p}, !.plug = p, !.since = now]
             /\ history' = [history EXCEPT !.tried[p] = now]
        ELSE chk' = [chk EXCEPT !.todo = @ \ {p}] /\ UNCHANGED history
    /\ UNCHANGED <<now, rows, level, session, lastActivation, lastStartFailure, act, users>>

\* resumeHoldingSession: the power-on is confirmed, or not.
ResumeReturns(p) ==
    /\ chk.plug = p
    /\ chk' = [chk EXCEPT !.plug = NoPlug, !.since = Never]
    /\ \/ UNCHANGED <<session, history>>
       \/ /\ session[p].st = "holding"
          /\ session' = [session EXCEPT ![p].st = "charging", ![p].hold = FALSE]
          /\ history' = Changed(p)
    /\ UNCHANGED <<now, rows, level, lastActivation, lastStartFailure, act, users>>

----------------------------------------------------------------------------
(* The vehicle charges; users ride it, store schedules, start and stop.    *)

Charges(p) ==
    /\ session[p].st = "charging"
    /\ \/ /\ level[p] = "low"
          /\ level' = [level EXCEPT ![p] = "held"]
          /\ session' = IF session[p].hold
                        THEN [session EXCEPT ![p].st = "holding",
                                  ![p].until = ResolveDeadline(now, session[p].readyBy)]
                        ELSE session
       \/ /\ level[p] = "held"
          /\ level' = [level EXCEPT ![p] = "full"]
          /\ session' = [session EXCEPT ![p] = NoSession]
    /\ history' = Changed(p)
    /\ UNCHANGED <<now, rows, lastActivation, lastStartFailure, act, chk, users>>

User == users < MaxUser /\ now <= UserUntil /\ users' = users + 1

\* Mutant: the times are stored unchecked.
UpsertUnchecked(p) ==
    /\ User
    /\ \E r \in Requests : rows' = [rows EXCEPT ![p] = r]
    /\ history' = Changed(p)
    /\ UNCHANGED <<now, level, session, lastActivation, lastStartFailure, act, chk>>

\* UpsertByPlugID, UpsertCarbonAware: equal times are turned away.
Upsert(p) ==
    /\ User
    /\ \E r \in Requests : Valid(r) /\ rows' = [rows EXCEPT ![p] = r]
    /\ history' = Changed(p)
    /\ UNCHANGED <<now, level, session, lastActivation, lastStartFailure, act, chk>>

UserStops(p) ==
    /\ User
    /\ InProgress(p)
    /\ session' = [session EXCEPT ![p] = NoSession]
    /\ history' = Changed(p)
    /\ UNCHANGED <<now, rows, level, lastActivation, lastStartFailure, act, chk>>

UserStarts(p) ==
    /\ User
    /\ ~InProgress(p)
    /\ session' = [session EXCEPT ![p] = Session(FALSE, Never, FALSE)]
    /\ history' = Changed(p)
    /\ UNCHANGED <<now, rows, level, lastActivation, lastStartFailure, act, chk>>

Ride(p) ==
    /\ User
    /\ ~InProgress(p) /\ level[p] # "low"
    /\ level' = [level EXCEPT ![p] = "low"]
    /\ history' = Changed(p)
    /\ UNCHANGED <<now, rows, session, lastActivation, lastStartFailure, act, chk>>

\* The process is restarted: only the tables survive.
Restart ==
    /\ User
    /\ lastActivation' = Never
    /\ lastStartFailure' = [p \in Plugs |-> Never]
    /\ act' = Idle
    /\ chk' = [due |-> FALSE, todo |-> {}, plug |-> NoPlug, since |-> Never]
    /\ history' = [history EXCEPT !.started = [p \in Plugs |-> Never],
                                  !.changed = [p \in Plugs |-> now]]
    /\ UNCHANGED <<now, rows, level, session>>

Next ==
    \/ Advance \/ ActivatorTick \/ CheckerTick \/ Restart
    \/ \E p \in Plugs :
        \/ Examine(p) \/ StartRefused(p) \/ StartFails(p) \/ StartSucceeds(p)
        \/ ResumeIfDue(p) \/ ResumeReturns(p)
        \/ Charges(p) \/ Upsert(p) \/ UserStops(p) \/ UserStarts(p) \/ Ride(p)

Spec == Init /\ [][Next]_vars

----------------------------------------------------------------------------
Times == {Never} \cup 0 .. MaxNow

\* Every variable holds what the code could store in it.
SchedulesTypeOK ==
    /\ now \in Times
    /\ rows \in [Plugs -> Rows \cup {NoRow}]
    /\ level \in [Plugs -> {"low", "held", "full"}]
    /\ \A p \in Plugs : session[p].st \in {"none", "charging", "holding"}
    /\ lastActivation \in Times
    /\ lastStartFailure \in [Plugs -> Times]
    /\ act.pc \in {"idle", "tick", "starting"} /\ act.todo \subseteq Plugs
    /\ chk.todo \subseteq Plugs /\ chk.plug \in Plugs \cup {NoPlug}

\* A wait for a plug, in whole polls; a wait for every plug but one.
WaitPolls == ((Wait + Poll - 1) \div Poll) * Poll
Others == WaitPolls * (Cardinality(Plugs) - 1)

\* How late a look at a schedule can come: a back-off and a poll, or a wait for
\* the plug itself; a tick that waits for every other plug; and the next one,
\* which may come to the schedule last.
Slack == Max({Throttle + Poll, WaitPolls}) + 2 * Others

\* How late a look at a hold can come, which knows no back-off.
Gap == Max({Poll, WaitPolls}) + 2 * Others

\* The shortest second stage that a session is given leaves room for that.
RoomToResume == Gap <= MinStage

\* A carbon-aware schedule whose vehicle still waits when its latest start has
\* passed has been tried since (schedule_service.go:479, the deadline guard),
\* on every day of an overnight window, whatever the forecast and the throttle
\* did, unless something about the plug changed only after the latest start.
DeadlineIsTried ==
    \A p \in Plugs :
        rows[p] # NoRow /\ rows[p].type = "carbon" /\ rows[p].enabled =>
            LET length == (rows[p].to - rows[p].from) % Day
                end  == CHOOSE t \in now + 1 .. now + Day : t % Day = rows[p].to
                from == Max({end - length, end - ToTarget(p)})
            IN  Candidate(p) /\ from + Slack < now /\ history.changed[p] <= from
                    => history.tried[p] >= from

\* A session that has been holding for long enough when its ready-by time
\* comes has been tried to resume in the time its second stage needs (at any
\* time, where no estimate tells what it needs), so that the deadline, resolved
\* anew on every poll (schedule_service.go:976), never rolls over to the next
\* day unnoticed.
HoldIsResumedInTime ==
    \A p \in Plugs :
        session[p].st = "holding" /\ session[p].until < now
                /\ history.changed[p] + Gap <= session[p].until
            => history.tried[p] >= IF Known(p) THEN session[p].until - Stage2
                                   ELSE history.changed[p]

\* The throttle works from tick to tick: a start that no deadline forces comes
\* at least scheduleThrottleDuration after every start of an earlier tick, of
\* whichever plug; a session stopped by its user is thus not started again
\* in the same minute (schedule_service.go:278, 487).
UnforcedStartsAreSpaced ==
    [][\A p, q \in Plugs :
          LET new == history'.started[p]
              old == history.started[q]
          IN  new # history.started[p] /\ ~act.plan.forced /\ Never \notin {new, old}
                      /\ new # old
                  => new - old >= Throttle]_vars

\* Starts that keep failing are tried once in a back-off, not once in a poll,
\* forced or not (schedule_service.go:79).
FailuresArePaced ==
    [][\A p \in Plugs :
          LET new == lastStartFailure'[p]
              old == lastStartFailure[p]
          IN  old # new /\ Never \notin {old, new} => new - old >= Throttle]_vars

\* The half-hour under way is cleaner than every later one left to p.
CleanestNow(p, r, t, f) ==
    LET cs == Candidates(f, t, LatestStart(p, r, t), ToTarget(p))
        score(c) == ScoreWindow(f, c, c + ToTarget(p))
    IN  /\ r.type = "carbon" /\ ~r.two /\ Known(p)
        /\ InWindow(r, t) /\ Candidate(p) /\ ~Throttled(t, act.last) /\ ~BackingOff(p, t)
        /\ cs # {}
        /\ \A c \in cs : score(AlignToHalfHour(t)) < score(c)

\* A tick in the cleanest half-hour of a window starts the charge
\* (schedule_service.go:499: "Optimal start is the current bucket - start now").
CleanestSlotIsTaken ==
    [][\A p \in act.todo :
          act.pc = "tick" /\ p \notin act'.todo /\ act'.pc # "starting"
              => \E f \in Forecasts : ~CleanestNow(p, act.rows[p], act.at, f)]_vars
=============================================================================
