-------------------------------- MODULE Energy --------------------------------
(***************************************************************************)
(* energy_calculator.go and its callers: from the plug's meter to the      *)
(* charge of the battery.  Energy at the battery is counted in units of    *)
(* which a unit at the wall gives Efficiency; a percent stands for the     *)
(* energy it is of the capacity, since each code path converts one to the  *)
(* other by the same factor.                                               *)
(***************************************************************************)
EXTENDS Integers

CONSTANTS
    Efficiency, \* charging efficiency
    Epsilon,    \* epsilonKwh: gains up to this are noise
    Capacity    \* the full battery

ASSUME EnergyAssumption ==
    /\ Efficiency \in Nat \ {0}
    /\ Epsilon \in Nat
    /\ Capacity \in Nat \ {0}

None == -1      \* a NULL column, a nil pointer
NoReading == [total |-> None, power |-> 0]

AtLeast(x, low) == IF x < low THEN low ELSE x
Clamp(x, low, high) == AtLeast(IF x > high THEN high ELSE x, low)

\* What the battery got since the session's baseline, as the meter has it.
Gain(r, e) == (e.total - r.base) * Efficiency

CalcBlendedKwh(r, e) ==
    IF e.power > 0 /\ Gain(r, e) > Epsilon THEN r.start + Gain(r, e) ELSE r.start

\* CalculateProgress: what is shown, and what is stored as last_blended_kwh.
CalculateProgress(r, e) ==
    LET last == AtLeast(CalcBlendedKwh(r, e), IF r.blended = None THEN r.start ELSE r.blended)
    IN  [shown |-> Clamp(last, r.start, r.target), last |-> last]

CurrentPercentFromBlended(r) ==
    IF r.blended = None THEN None ELSE Clamp(r.blended, r.start, r.target)

CalculateEndPercent(r, e) == Clamp(r.start + Gain(r, e), 0, Capacity)

Measured(r, e) == e.total > 0 /\ r.base # None

\* Mutant: more than the battery holds.
EndUnclamped(r, e) ==
    IF Measured(r, e) /\ Gain(r, e) > Epsilon THEN r.start + Gain(r, e) ELSE 0

\* computeEndFromEnergy; 0 when it cannot tell.
EndFromEnergy(r, e) ==
    IF Measured(r, e) /\ Gain(r, e) > Epsilon THEN Clamp(r.start + Gain(r, e), 0, Capacity) ELSE 0

\* calculateEndData: the percent passed by the caller is the fallback.
EndData(r, e, percent) ==
    IF EndFromEnergy(r, e) = 0 THEN percent ELSE EndFromEnergy(r, e)

\* buildSessionView: the live reading, or the last persisted progress.
ShownPercent(r, e) ==
    CASE e.total = None \/ e.power <= 0 -> CurrentPercentFromBlended(r)
      [] e.total # None /\ e.power > 0 /\ r.base = None -> None
      [] OTHER -> CalculateProgress(r, e).shown

\* calculateEndPercent, for a session stopped by hand.
HandStopPercent(r, e) ==
    CASE Measured(r, e) -> CalculateEndPercent(r, e)
      [] ~Measured(r, e) /\ ShownPercent(r, e) # None -> ShownPercent(r, e)
      [] OTHER -> r.target

\* cancelEndPercent: the higher of both sources, if above the start.
CancelPercent(r, e) ==
    LET stored == AtLeast(CurrentPercentFromBlended(r), 0)
        best   == IF Measured(r, e) THEN AtLeast(CalculateProgress(r, e).shown, stored) ELSE stored
    IN  IF best <= r.start THEN None ELSE best
=============================================================================
