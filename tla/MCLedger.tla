------------------------------ MODULE MCLedger ------------------------------
(* Instances of Ledger: an empty battery that one session has charged before. *)
EXTENDS Ledger, TLC

MCPrior == [current |-> 0, target |-> 2, sessions |-> 1, battery |-> 2]
=============================================================================
