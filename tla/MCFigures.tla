------------------------------ MODULE MCFigures ------------------------------
(* Inputs of SchedulePlans, for a day of eight half-hours, and of Bill. *)
EXTENDS SchedulePlans

MCVehicle(current, target, t0to80, t20to80, t0to100, t20to100, full) ==
    [current |-> current, target |-> target, t0to80 |-> t0to80, t20to80 |-> t20to80,
     t0to100 |-> t0to100, t20to100 |-> t20to100, full |-> full]

\* A full data sheet; the middle phase only; two sheets with gaps; rated power
\* only; nothing; past the hold point; at the target.
MCVehicles ==
    {MCVehicle(20, 80, 41, 31, 60, 50, 50),
     MCVehicle(5, 100, 0, 47, 0, 0, 0),
     MCVehicle(10, 100, 37, 30, 52, 0, 0),
     MCVehicle(0, 50, 0, 0, 61, 50, 55),
     MCVehicle(15, 100, 0, 0, 0, 0, 95),
     MCVehicle(20, 80, 0, 0, 0, 0, 0),
     MCVehicle(70, 85, 41, 31, 60, 50, 50),
     MCVehicle(80, 80, 41, 31, 60, 50, 50)}

MCPlan(type, from, to, two) == [type |-> type, from |-> from, to |-> to, two |-> two]

MCPlans ==
    {MCPlan("carbon", 200, 95, FALSE), MCPlan("carbon", 200, 95, TRUE),
     MCPlan("carbon", 65, 190, TRUE), MCPlan("carbon", 100, 125, FALSE),
     MCPlan("daily", 210, 20, FALSE), MCPlan("daily", 230, 110, FALSE),
     MCPlan("daily", 10, Never, FALSE)}

HalfHours == 0 .. 24
MCForecasts ==
    {[b \in {} |-> 0], [b \in HalfHours |-> 1 + (b % 3)],
     [b \in 8 .. 19 |-> IF b < 14 THEN 15 - b ELSE b - 11],
     [b \in HalfHours |-> <<9, 4, 6, 3>>[1 + (b % 4)]]}

MCWindow(from, to) == [start |-> from, end |-> to]

\* No tariff; one that wraps past midnight; two windows, one of them up to
\* midnight.
MCWindowLists == {<<>>, <<MCWindow(4, 2)>>, <<MCWindow(1, 3), MCWindow(5, 0)>>}

\* A vehicle at its target: nothing is announced.
NoPlans ==
    /\ now = Start
    /\ vehicle = MCVehicle(80, 80, 0, 0, 0, 0, 0)
    /\ plan = MCPlan("daily", 10, Never, FALSE)
    /\ forecast = [b \in {} |-> 0]
=============================================================================
