---------------------------- MODULE ScheduleTimes ----------------------------
(***************************************************************************)
(* The clock arithmetic of schedule_service.go: windows and deadlines      *)
(* given as times of day, the half-hour grid, and the two searches that    *)
(* choose a start on it.  A time is a number of units since some midnight; *)
(* a time of day is a number of units below Day.  Days all have the same   *)
(* length: the code adds 24 hours where a calendar has a change of clocks. *)
(***************************************************************************)
EXTENDS Integers, FiniteSetsExt, Functions

CONSTANTS
    Day,        \* units in a day
    Minute,     \* units in a minute, the grain of HH:MM
    Bucket,     \* forecastBucketSize: units in a half-hour
    ScoreScale  \* the grain of averages; fine enough to tell different ones apart

ASSUME TimesAssumption ==
    /\ {Day, Minute, Bucket, ScoreScale} \subseteq Nat \ {0}
    /\ Day % Minute = 0
    /\ Day % Bucket = 0

Never == -1     \* the zero time.Time

Midnight(t) == t - (t % Day)

\* formatTime: the time of day, to the minute.
FormatTime(t) == (t % Day) - (t % Minute)

AlignToHalfHour(t) == t - (t % Bucket)

\* Mutant: an overnight window still open since yesterday is not seen.
WindowOfToday(now, ws, we) ==
    LET s == Midnight(now) + ws
        e == Midnight(now) + we + (IF we > ws THEN 0 ELSE Day)
        shift == IF now >= e THEN Day ELSE 0
    IN  [start |-> s + shift, end |-> e + shift]

\* The instance of the window from ws to we that now is in, else the next one.
ResolveWindow(now, ws, we) ==
    LET s == Midnight(now) + ws
        e == Midnight(now) + we + (IF we > ws THEN 0 ELSE Day)
        shift == CASE now < s /\ now < e - Day -> -Day
                   [] now >= e -> Day
                   [] OTHER -> 0
    IN  [start |-> s + shift, end |-> e + shift]

\* The next instant, now included, whose time of day is hhmm.
ResolveDeadline(now, hhmm) ==
    LET today == Midnight(now) + hhmm
    IN  IF today < now THEN today + Day ELSE today

----------------------------------------------------------------------------
(* A forecast maps the half-hours it covers, by number, to an intensity.   *)

Overlap(b, s, e) ==
    LET from == IF s > b * Bucket THEN s ELSE b * Bucket
        to   == IF e < (b + 1) * Bucket THEN e ELSE (b + 1) * Bucket
    IN  IF from < to THEN to - from ELSE 0

\* sliceBuckets: the half-hours of f that overlap [from, to).
SliceBuckets(f, from, to) ==
    [b \in {x \in DOMAIN f : Overlap(x, from, to) > 0} |-> f[b]]

TotalWeight(f, s, e) == SumFunction([b \in DOMAIN f |-> Overlap(b, s, e)])

\* The weighted average over the part of the window that f covers, in units
\* of 1 / ScoreScale.  Asked only where that part is not empty.
ScoreWindow(f, s, e) ==
    (ScoreScale * SumFunction([b \in DOMAIN f |-> f[b] * Overlap(b, s, e)]))
        \div TotalWeight(f, s, e)

\* The half-hours from now to latest at which the loops try a start of length
\* d: those before now are skipped, so are those with no forecast at all.
Candidates(f, now, latest, d) ==
    LET first == AlignToHalfHour(now)
        grid  == {first + i * Bucket : i \in 0 .. (latest - first) \div Bucket}
    IN  {c \in grid : c >= now /\ TotalWeight(f, c, c + d) > 0}

\* Tried in increasing order, the candidate of least score, the last one
\* among equals.
LastLeast(score) ==
    MapThenFoldSet(LAMBDA c, best :
                      IF best = Never THEN c
                      ELSE IF score[c] <= score[best] THEN c ELSE best,
                   Never, LAMBDA c : c, Max, DOMAIN score)

\* Mutant: the charge may begin, not end, until the window does.
FindOptimalStartLate(f, now, latest, d) ==
    LastLeast([c \in Candidates(f, now, latest + d, d) |-> ScoreWindow(f, c, c + d)])

\* Mutant: the average is taken from now on.
FindOptimalFromNow(f, now, latest, d) ==
    LastLeast([c \in Candidates(f, now, latest, d) |-> ScoreWindow(f, now, c + d)])

FindOptimalStart(f, now, latest, d) ==
    LastLeast([c \in Candidates(f, now, latest, d) |-> ScoreWindow(f, c, c + d)])

\* Mutant: the more dwell the better.
FindDwellingStart(f, now, latest, deadline, d) ==
    LET cs       == Candidates(f, now, latest, d)
        carbon(c) == ScoreWindow(f, c, c + d)
        carbons  == {carbon(c) : c \in cs}
        span(S)  == IF Max(S) = Min(S) THEN 1 ELSE Max(S) - Min(S)
    IN  LastLeast([c \in cs |-> (carbon(c) - Min(carbons)) * span(cs)
                                    + (c - Min(cs)) * span(carbons)])

\* Cleanness and lateness, each normalised to its range over the candidates
\* (a range of zero drops out), with equal weight.
FindBalancedStart(f, now, latest, deadline, d) ==
    LET cs       == Candidates(f, now, latest, d)
        carbon(c) == ScoreWindow(f, c, c + d)
        dwell(c)  == deadline - (c + d)
        carbons  == {carbon(c) : c \in cs}
        dwells   == {dwell(c) : c \in cs}
        span(S)  == IF Max(S) = Min(S) THEN 1 ELSE Max(S) - Min(S)
    IN  LastLeast([c \in cs |-> (carbon(c) - Min(carbons)) * span(dwells)
                                    + (dwell(c) - Min(dwells)) * span(carbons)])
=============================================================================
