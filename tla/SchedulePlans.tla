----------------------------- MODULE SchedulePlans -----------------------------
(***************************************************************************)
(* What the schedule endpoints announce before anything starts             *)
(* (schedule_service.go, attachEstimatedStart in schedule_handler.go) and  *)
(* the resume time shown while a session holds                             *)
(* (session_monitoring_service.go).  All of it is computed on every read,  *)
(* from the clock, one schedule, one vehicle and one forecast; the clock   *)
(* is the only thing that moves.  Announcements are instants here; the     *)
(* response gives FormatTime of them.                                      *)
(***************************************************************************)
EXTENDS ScheduleTimes, ChargeEstimate

CONSTANTS
    Vehicles, Plans, Forecasts, \* the inputs
    MinStage,                   \* MinTwoStageStageDurationMin
    Start, MaxNow               \* bounds: the clock

\* Data sheets of whole minutes; percents from 0 to 100.
Sheets ==
    [current : 0 .. 100, target : 0 .. 100, t0to80 : Nat, t20to80 : Nat,
     t0to100 : Nat, t20to100 : Nat, full : Nat]

ASSUME PlansAssumption ==
    /\ Vehicles \subseteq Sheets
    /\ Plans \subseteq [type : {"daily", "carbon"}, from : 0 .. Day - 1,
                        to : {Never} \cup 0 .. Day - 1, two : BOOLEAN]
    /\ \A r \in Plans : r.type = "carbon" => r.to # Never
    /\ \A f \in Forecasts :
        IsFiniteSet(DOMAIN f) /\ DOMAIN f \subseteq Int /\ \A b \in DOMAIN f : f[b] \in Nat
    /\ {MinStage, Start, MaxNow} \subseteq Nat

VARIABLES now, vehicle, plan, forecast
plansVars == <<now, vehicle, plan, forecast>>

PlansInit ==
    /\ now = Start
    /\ vehicle \in Vehicles
    /\ plan \in Plans
    /\ forecast \in Forecasts   \* the empty one: the service does not answer

PlansTick ==
    /\ now < MaxNow
    /\ now' = now + Minute
    /\ UNCHANGED <<vehicle, plan, forecast>>

PlansSpec == PlansInit /\ [][PlansTick]_plansVars

----------------------------------------------------------------------------
HoldPercent == (4 * vehicle.target) \div 5

\* loadCandidate: a vehicle that is not yet at its target.
Candidate == vehicle.current < vehicle.target
Known == CCKnown(vehicle)

Whole  == EstimateMinutes(vehicle, vehicle.current, vehicle.target) * Minute
Stage1 == EstimateMinutes(vehicle, vehicle.current, HoldPercent) * Minute
Stage2 == EstimateMinutes(vehicle, HoldPercent, vehicle.target) * Minute

WorthwhileTwoStage ==
    /\ HoldPercent > vehicle.current
    /\ Known => Stage2 >= MinStage * Minute

WindowAt(t) == ResolveWindow(t, plan.from, plan.to)
Window == WindowAt(now)
SearchFrom == IF now > Window.start THEN now ELSE Window.start

Carbon == plan.type = "carbon"
TwoStage == IF Carbon THEN plan.two ELSE plan.to # Never

\* EstimateCarbonAwareStart, asked at t.
EstimatedStart(t) ==
    LET w      == WindowAt(t)
        from   == IF t > w.start THEN t ELSE w.start
        latest == w.end - Whole
        f      == SliceBuckets(forecast, from, w.end)
        best   == FindOptimalStart(f, from, latest, Whole)
    IN  CASE ~Candidate \/ ~Known                 -> Never
          [] Candidate /\ Known /\ from >= latest -> latest
          [] OTHER -> IF DOMAIN f = {} THEN Never
                      ELSE IF best = Never THEN latest ELSE best

\* estimateBalancedStageStart.
StageStart(from, latest, d) ==
    LET f    == SliceBuckets(forecast, from, Window.end)
        best == FindBalancedStart(f, from, latest, Window.end, d)
    IN  IF from >= latest THEN latest
        ELSE IF DOMAIN f = {} THEN Never
        ELSE IF best = Never THEN latest ELSE best

NoStages == <<>>

CarbonStagesKnown ==
    /\ Candidate /\ Known
    /\ HoldPercent > vehicle.current
    /\ Stage2 >= MinStage * Minute

\* Starts and ends of both stages, the first one at s1, the second one at s2.
StagesAt(s1, s2) ==
    IF Never \in {s1, s2} THEN NoStages ELSE <<s1, s1 + Stage1, s2, s2 + Stage2>>

Stage1Start == StageStart(SearchFrom, Window.end - Stage1 - Stage2, Stage1)

\* Mutant: the second stage is searched from where the first one was.
CarbonStagesOverlap ==
    IF CarbonStagesKnown
    THEN StagesAt(Stage1Start, StageStart(SearchFrom, Window.end - Stage2, Stage2))
    ELSE NoStages

\* EstimateCarbonAwareTwoStagePlan.
CarbonStages ==
    LET second[from \in Int] == StageStart(from, Window.end - Stage2, Stage2)
        stages[s1 \in Int] ==
            LET e1 == s1 + Stage1
            IN  StagesAt(s1, second[IF e1 < SearchFrom THEN SearchFrom ELSE e1])
    IN  IF CarbonStagesKnown THEN stages[Stage1Start] ELSE NoStages

DailyStart == ResolveDeadline(now, plan.from)
DailyEnd   == ResolveDeadline(DailyStart, plan.to)

\* Mutant: the ready-by time is the next one from now.
DailyStagesFromNow ==
    LET end == ResolveDeadline(now, plan.to)
    IN  IF ~Candidate \/ ~WorthwhileTwoStage \/ ~Known THEN NoStages
        ELSE <<DailyStart, DailyStart + Stage1, end - Stage2, end>>

\* EstimateDailyTwoStagePlan.
DailyStages ==
    IF ~Candidate \/ ~WorthwhileTwoStage \/ ~Known THEN NoStages
    ELSE <<DailyStart, DailyStart + Stage1, DailyEnd - Stage2, DailyEnd>>

\* EstimateTargetReachable; without a deadline or an estimate it is.
TargetReachable ==
    LET available == IF Carbon THEN Window.end - Window.start ELSE DailyEnd - DailyStart
    IN  \/ ~Carbon /\ plan.to = Never
        \/ ~Candidate \/ ~Known
        \/ available >= IF TwoStage /\ WorthwhileTwoStage THEN Stage1 + Stage2 ELSE Whole

\* EstimateResumeTime of a carbon-aware session that is to be ready at readyBy.
ResumeTime(readyBy) ==
    LET deadline == ResolveDeadline(now, readyBy)
        latest   == deadline - Stage2
        f        == SliceBuckets(forecast, now, deadline)
    IN  CASE ~Known -> Never
          [] Known /\ now >= latest -> latest
          [] OTHER -> IF DOMAIN f = {} THEN Never
                      ELSE FindBalancedStart(f, now, latest, deadline, Stage2)

----------------------------------------------------------------------------
\* The stages announced for a carbon-aware schedule follow one another and are
\* over when the window is; they begin inside it unless the handler warns that
\* the target cannot be reached (schedule_service.go:676), and the second one
\* never begins in the past before its latest start.
StagesFitTheWindow ==
    Carbon /\ TwoStage => \A s \in {CarbonStages} \ {NoStages} :
        /\ s[1] <= s[2] /\ s[2] <= s[3] /\ s[3] <= s[4]
        /\ s[4] <= Window.end
        /\ TargetReachable => s[1] >= Window.start
        /\ s[3] >= SearchFrom \/ s[3] = Window.end - Stage2

\* The stages of a daily schedule overlap exactly when the handler warns; both
\* resolve the ready-by time from the start, not from now
\* (schedule_service.go:751).
DailyPlanAgreesWithWarning ==
    ~Carbon /\ TwoStage /\ DailyStages # NoStages =>
        (DailyStages[2] <= DailyStages[3]) = TargetReachable

\* Estimates err on the late side only (chargeestimate.go:2: "deliberately
\* over-stated"): split at the hold point a charge is never estimated shorter
\* than in one go, nor longer by more than the minute that rounding up twice
\* may cost; and where the data sheet is consistent and gives the time of the
\* middle phase, every range it covers is estimated a tenth above it.
EstimateIsConservative ==
    LET v == vehicle
        covers(a, b, t) == 10 * EstimateMinutes(v, a, b) >= 11 * t
    IN  /\ Known /\ v.current < HoldPercent => Stage1 + Stage2 \in Whole .. Whole + Minute
        /\ v.t20to80 > 0 =>
            /\ covers(20, 80, v.t20to80)
            /\ v.t0to80 > v.t20to80 => covers(0, 80, v.t0to80)
            /\ v.t20to100 > v.t20to80 => covers(20, 100, v.t20to100)
            /\ v.t0to100 - v.t20to100 = v.t0to80 - v.t20to80 /\ v.t20to100 > v.t20to80
                   => covers(0, 100, v.t0to100)

\* The percent a shortfall notification announces is the highest the vehicle
\* reaches in the time that is left (schedule_service.go:890), and it is below
\* the target exactly when the notification is sent.
ProjectionIsTheBestReachable ==
    LET left == (Window.end - now) \div Minute
        p    == ProjectPercent(vehicle, vehicle.current, left)
        reachable(q) == EstimateMinutes(vehicle, vehicle.current, q) <= left
    IN  Carbon /\ Known /\ Candidate /\ now >= Window.start =>
            /\ \A q \in vehicle.current .. 100 : reachable(q) = (q <= p)
            /\ (p < vehicle.target) = (left * Minute < Whole)

\* Of the starts tried for a two-stage charge none is as clean and as late as
\* the chosen one and better in one of the two.
BalancedIsPareto ==
    LET end    == Window.end
        latest == end - Stage1 - Stage2
        f      == SliceBuckets(forecast, SearchFrom, end)
        best   == FindBalancedStart(f, SearchFrom, latest, end, Stage1)
        score(c) == ScoreWindow(f, c, c + Stage1)
    IN  Carbon /\ Known /\ Stage1 > 0 /\ best # Never =>
            /\ best \in SearchFrom .. latest
            /\ \A c \in Candidates(f, SearchFrom, latest, Stage1) :
                   ~(c > best /\ score(c) <= score(best))

\* With the forecast as it is, the announced start of a single-stage schedule
\* only ever moves to a later time.
AnnouncedStartNeverComesSooner ==
    [][Carbon /\ Never \notin {EstimatedStart(now), EstimatedStart(now')}
           => EstimatedStart(now) <= EstimatedStart(now')]_plansVars

\* A charge announced for a window is over in time, and so is the second stage
\* of a session that holds: the announced start leaves room for the estimate,
\* and is not in the past unless even starting now is too late.
AnnouncedStartMeetsDeadline ==
    LET fits(t, from, d, end) == t # Never =>
            /\ t + d <= end
            /\ t < from => from + d > end
    IN  Carbon =>
            /\ fits(EstimatedStart(now), SearchFrom, Whole, Window.end)
            /\ TwoStage => fits(ResumeTime(plan.to), now, Stage2, ResolveDeadline(now, plan.to))
=============================================================================
