---------------------------- MODULE MCSchedules ----------------------------
(* Instances of Schedules: a day of six minutes and three half-hours. *)
EXTENDS Schedules, TLC

Symmetry == Permutations(Plugs)

HalfHours == 0 .. 8

MCForecasts == {[b \in HalfHours |-> 1 + (b % 2)], [b \in {} |-> 0]}
MCRising == {[b \in HalfHours |-> 1 + b]}

\* An overnight window in two stages (one, once the vehicle is past the hold
\* point), a daily start made ready after midnight, and an empty window.
MCRequests ==
    {Row("carbon", 8, 8, TRUE, TRUE),
     Row("carbon", 16, 12, TRUE, TRUE), Row("daily", 20, 8, FALSE, TRUE)}
MCCarbonRequests == {Row("carbon", 16, 8, FALSE, TRUE)}
=============================================================================
