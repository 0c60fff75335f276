-------------------------- MODULE MCChargingSession --------------------------
(* TLC instances of ChargingSession. *)
EXTENDS ChargingSession, TLC

Symmetry == Permutations(Msgs) \union Permutations(Connectors)
=============================================================================
