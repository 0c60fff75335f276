-------------------------- MODULE MCSiteMembership --------------------------
(* TLC instances of SiteMembership. *)
EXTENDS SiteMembership, TLC

Symmetry == Permutations(Requests) \union Permutations(Users) \union Permutations(Invites)
=============================================================================
