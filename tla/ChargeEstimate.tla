---------------------------- MODULE ChargeEstimate ----------------------------
(***************************************************************************)
(* chargeestimate.go: how long a charge takes, over-stated on purpose, and *)
(* how far one gets in the time there is.  Percents are whole numbers, the *)
(* times of a vehicle's data sheet whole minutes, 0 where it gives none.   *)
(* Sums are exact where the code adds floats.                              *)
(***************************************************************************)
EXTENDS Integers

NoEstimate == -1    \* ErrNoEstimate

\* The minutes for the whole battery at rated power, capacity / (output *
\* efficiency), are v.full; 0 when the output or the capacity is not known.
\* Phases are in fifteenths of a minute, which keeps the fallbacks whole.
CCKnown(v) == v.t20to80 > 0 \/ v.full > 0

Difference(long, short) == long > short /\ short > 0

\* deriveCCMinutes: 20 % to 80 %.
CC(v) == IF v.t20to80 > 0 THEN 15 * v.t20to80 ELSE 9 * v.full

\* derivePreCCMinutes: 0 % to 20 %.
PreCC(v) ==
    CASE Difference(v.t0to80, v.t20to80)   -> 15 * (v.t0to80 - v.t20to80)
      [] ~Difference(v.t0to80, v.t20to80) /\ Difference(v.t0to100, v.t20to100)
                                           -> 15 * (v.t0to100 - v.t20to100)
      [] OTHER -> IF v.full > 0 THEN 3 * v.full ELSE CC(v) \div 3

\* deriveCVMinutes: 80 % to 100 %, twice as slow where nothing is known.
CV(v) ==
    CASE Difference(v.t20to100, v.t20to80) -> 15 * (v.t20to100 - v.t20to80)
      [] ~Difference(v.t20to100, v.t20to80) /\ Difference(v.t0to100, v.t0to80)
                                           -> 15 * (v.t0to100 - v.t0to80)
      [] OTHER -> 2 * (CC(v) \div 3)

\* The part of the range a..b that lies in from..to.
Span(a, b, from, to) ==
    LET low  == IF a > from THEN a ELSE from
        high == IF b < to THEN b ELSE to
    IN  IF low < high THEN high - low ELSE 0

CeilDiv(x, y) == (x + y - 1) \div y

\* Mutant: the tenth on top is lost.
EstimateWithoutMargin(v, a, b) ==
    IF a >= b THEN 0
    ELSE IF ~CCKnown(v) THEN NoEstimate
    ELSE CeilDiv(3 * PreCC(v) * Span(a, b, 0, 20) + CC(v) * Span(a, b, 20, 80)
                     + 3 * CV(v) * Span(a, b, 80, 100), 900)

EstimateMinutes(v, a, b) ==
    IF a >= b THEN 0
    ELSE IF ~CCKnown(v) THEN NoEstimate
    ELSE CeilDiv(11 * (3 * PreCC(v) * Span(a, b, 0, 20) + CC(v) * Span(a, b, 20, 80)
                           + 3 * CV(v) * Span(a, b, 80, 100)), 9000)

\* Mutant: a percent reached just in time is taken for unreachable.
ProjectLess(v, a, minutes) ==
    LET search[r \in (0 .. 101) \X (0 .. 101)] ==
            LET mid == (r[1] + r[2]) \div 2
            IN  IF r[2] - r[1] <= 1 THEN r[1]
                ELSE search[IF EstimateMinutes(v, a, mid) < minutes THEN <<mid, r[2]>>
                            ELSE <<r[1], mid>>]
    IN  IF minutes <= 0 \/ ~CCKnown(v) THEN a ELSE search[<<a, 101>>]

\* ProjectPercent: a bisection down to one percent, between one that can be
\* reached in the time and one that cannot; 101 stands for whatever is above
\* the upper end.
ProjectPercent(v, a, minutes) ==
    LET search[r \in (0 .. 101) \X (0 .. 101)] ==
            LET mid == (r[1] + r[2]) \div 2
            IN  IF r[2] - r[1] <= 1 THEN r[1]
                ELSE search[IF EstimateMinutes(v, a, mid) <= minutes THEN <<mid, r[2]>>
                            ELSE <<r[1], mid>>]
    IN  IF minutes <= 0 \/ ~CCKnown(v) THEN a ELSE search[<<a, 101>>]
=============================================================================
