--------------------------------- MODULE Bill ---------------------------------
(***************************************************************************)
(* What a session is billed for when it completes (cost_calculator.go):    *)
(* the energy of its stored readings, split over the tariff's off-peak     *)
(* windows by the time of each reading, while the poller stores only the   *)
(* readings that differ (session_monitoring_service.go), the meter may     *)
(* restart at zero, and the tariff is changed between the two statements   *)
(* that read it.  Pence are these energies times the rates read with them. *)
(***************************************************************************)
EXTENDS Integers, Sequences, FiniteSetsExt, Functions

CONSTANTS
    DayLength,      \* in polls
    Stale,          \* staleReadingThreshold, in polls
    Draws,          \* what a plug can draw between two polls
    WindowLists,    \* the off-peak windows a user has, a sequence
    LastPoll,       \* bound: polls of a session
    MaxResets       \* bound

ASSUME BillAssumption ==
    /\ DayLength \in Nat \ {0} /\ Stale \in Nat \ {0}
    /\ Draws \subseteq Nat /\ Draws # {} /\ IsFiniteSet(Draws)
    /\ WindowLists \subseteq Seq([start : 0 .. DayLength - 1, end : 0 .. DayLength - 1])
    /\ LastPoll \in Nat /\ MaxResets \in Nat

VARIABLES
    poll,           \* since the session began at midnight
    drawn,          \* history: the energy drawn before each poll
    meter,          \* the plug's total
    readings,       \* power_readings of the session
    windows,        \* tariff_off_peak_windows
    bill,           \* off-peak and whole energy; NoBill before the stop
    resets          \* bound
billVars == <<poll, drawn, meter, readings, windows, bill, resets>>

NoBill == [st |-> "none", windows |-> <<>>, offPeak |-> 0, whole |-> 0]
StartTotal == 2     \* charge_sessions.start_total_kwh

BillInit ==
    /\ poll = 0 /\ drawn = <<>> /\ meter = StartTotal
    /\ readings = <<>>
    /\ windows \in WindowLists
    /\ bill = NoBill
    /\ resets = 0

LastReading == readings[Len(readings)]

\* shouldStorePowerReading, after a poll that saw a draw: a reading like the
\* last one is left out until that is stale; whether voltage, current, power
\* or carbon intensity differ is open.
ShouldStore(t, store) ==
    IF readings = <<>> THEN TRUE ELSE store \/ t - LastReading.at >= Stale

PollReading(d, store) ==
    /\ bill.st # "frozen" /\ poll < LastPoll
    /\ poll' = poll + 1
    /\ drawn' = Append(drawn, d)
    /\ meter' = meter + d
    /\ readings' = IF d > 0 /\ ShouldStore(poll', store)
                   THEN Append(readings, [at |-> poll', kwh |-> meter']) ELSE readings
    /\ UNCHANGED <<windows, bill, resets>>

MeterResets ==
    /\ bill.st # "frozen" /\ resets < MaxResets /\ resets' = resets + 1
    /\ meter' = 0
    /\ UNCHANGED <<poll, drawn, readings, windows, bill>>

\* Upsert, in one transaction; an empty list is the default tariff.
UpdateSettings(ws) ==
    /\ ws # windows /\ windows' = ws
    /\ UNCHANGED <<poll, drawn, meter, readings, bill, resets>>

\* Mutant: a window that ends before it starts is compared like any other.
WithinUnwrapped(t, w) == w.start <= t % DayLength /\ t % DayLength < w.end

\* withinWindow: from start to end, past midnight if need be.
Within(t, w) ==
    LET m == t % DayLength
    IN  \/ w.start < w.end /\ w.start <= m /\ m < w.end
        \/ w.end < w.start /\ (w.start <= m \/ m < w.end)

IsOffPeak(t, ws) == \E i \in DOMAIN ws : Within(t, ws[i])

\* The increment of reading i; one that is not positive is skipped, and the
\* next one counts from it all the same.
Delta(i) ==
    LET d == readings[i].kwh - (IF i = 1 THEN StartTotal ELSE readings[i - 1].kwh)
    IN  IF d > 0 THEN d ELSE 0

\* CalculateSessionCost, with the windows ws.
Increments == [i \in DOMAIN readings |-> Delta(i)]
OffPeakOf(ws) ==
    SumFunction(Restrict(Increments, {i \in DOMAIN readings : IsOffPeak(readings[i].at, ws)}))
BilledEnergy == SumFunction(Increments)

\* EffectiveTariffForUser has read the windows; the readings come after.
ReadTariff ==
    /\ bill.st = "none" /\ poll > 0
    /\ bill' = [bill EXCEPT !.st = "priced", !.windows = windows]
    /\ UNCHANGED <<poll, drawn, meter, readings, windows, resets>>

\* GetPowerReadings, and the sums; the poller goes on until the session ends.
CalculateSessionCost ==
    /\ bill.st = "priced"
    /\ bill' = [bill EXCEPT !.st = "frozen", !.whole = BilledEnergy, !.offPeak = OffPeakOf(bill.windows)]
    /\ UNCHANGED <<poll, drawn, meter, readings, windows, resets>>

BillNext ==
    \/ \E d \in Draws, store \in BOOLEAN : PollReading(d, store)
    \/ MeterResets \/ ReadTariff \/ CalculateSessionCost
    \/ \E ws \in WindowLists : UpdateSettings(ws)

BillSpec == BillInit /\ [][BillNext]_billVars

----------------------------------------------------------------------------
MostDrawn(polls) == polls * Max(Draws)

\* The polls of which the tariff's windows speak, counted from their starts.
CheapPolls(ws) ==
    {t \in 1 .. poll : \E i \in DOMAIN ws :
        (t - ws[i].start) % DayLength < (ws[i].end - ws[i].start) % DayLength}

\* How often the rate changes while the session runs.
Edges(cheap) == Cardinality({t \in 1 .. poll - 1 : (t \in cheap) # (t + 1 \in cheap)})

\* The bill is for the energy that was drawn at the rates of its time: never
\* more than was drawn; what it misses was drawn after the last reading, less
\* than a stale interval ago, or in the interval a restart of the meter fell
\* into; and less than a stale interval for each change of the rate is billed
\* at the rate after it instead of the one before (cost_calculator.go:11: "by
\* the timestamp at which each increment was actually drawn").
BillCoversEnergy ==
    LET cheap == CheapPolls(bill.windows)
        whole == SumFunction(drawn)
        off   == SumFunction(Restrict(drawn, cheap))
        lost  == (Stale - 1) + Stale * resets
        slack == (Stale - 1) * Edges(cheap)
    IN  bill.st = "frozen" =>
            /\ bill.whole \in whole - MostDrawn(lost) .. whole
            /\ bill.offPeak \in off - MostDrawn(lost + slack) .. off + MostDrawn(slack)
=============================================================================
