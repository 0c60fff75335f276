--------------------------- MODULE MCCommandRelay ---------------------------
(* TLC instances of CommandRelay. *)
EXTENDS CommandRelay, TLC

Symmetry == Permutations(Requests) \union Permutations(Conns) \union Permutations(Args)
=============================================================================
