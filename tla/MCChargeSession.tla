--------------------------- MODULE MCChargeSession ---------------------------
(* Finite instances of ChargeSession for TLC. *)
EXTENDS ChargeSession, TLC

(* Sessions, and the goroutines of one kind, are interchangeable. *)
Symmetry == Permutations(Sessions) \cup Permutations(Clients) \cup Permutations(Background)

=============================================================================
