----------------------------- MODULE MCOcppCall -----------------------------
(* TLC instance of OcppCall.  No symmetry: the run checks liveness.            *)
EXTENDS OcppCall
=============================================================================
