---------------------------- MODULE MCWebSession ----------------------------
(* TLC instances of WebSession: two requests that overlap are enough for every *)
(* race on one refresh token; a third adds only repetitions.                   *)
EXTENDS WebSession, TLC
=============================================================================
