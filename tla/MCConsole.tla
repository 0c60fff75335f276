----------------------------- MODULE MCConsole -----------------------------
(* The console with two of everything a mix-up needs.                          *)
EXTENDS Console

=============================================================================
