------------------------------- MODULE WebData -------------------------------
(* External: the two libraries every page keeps its server data with.          *)
(*                                                                             *)
(* A fetcher of React Router carries one submission: it is "submitting" until  *)
(* the action answers, then "loading" while the loaders run again, then idle;  *)
(* what was submitted can be read until then, and a good answer repeats it.    *)
(* A second submission takes the place of the first, whose request goes on     *)
(* while nobody waits for its answer.  An action that throws replaces the page *)
(* by the error boundary.                                                      *)
(*                                                                             *)
(* An SWR entry is a cached answer; mutate() asks the server again, and what a *)
(* request asked before that brings is dropped.                                *)

Idle == [state |-> "idle", form |-> {}]

Fetchers(V) == [state : {"idle", "submitting", "loading"}, form : SUBSET V]

Submit(f, v) == [f EXCEPT !.state = "submitting", !.form = {v}]

Answer(f) == [f EXCEPT !.state = "loading"]

Settled(f) == [f EXCEPT !.state = "idle", !.form = {}]

-----------------------------------------------------------------------------

Cached(d) == [data |-> d, asked |-> FALSE, snap |-> {}]

Entries(D) == [data : D, asked : BOOLEAN, snap : SUBSET D]

mutate(s) == [s EXCEPT !.asked = TRUE, !.snap = {}]

(* The server reads its data, and later the browser has them.                  *)
Reads(s, d) == [s EXCEPT !.asked = FALSE, !.snap = {d}]

Arrives(s) == [s EXCEPT !.data = CHOOSE d \in s.snap : TRUE, !.snap = {}]

Resting(s) == ~s.asked /\ s.snap = {}

=============================================================================
