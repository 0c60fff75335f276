----------------------------- MODULE ChargerNew -----------------------------
(* The wizard that registers a charger (charger-new.tsx): three steps, a timer *)
(* that turns the connection status, and the request of the last step.         *)
EXTENDS Naturals

CONSTANTS Ids, Blank, MaxTimers   \* bound: five-second timers running at once

VARIABLE ui

Steps == <<"identify", "configure", "connect">>

Mounts == {[step |-> 1, id |-> Blank, version |-> "1.6", status |-> "waiting", timers |-> 0,
            creating |-> FALSE, out |-> {}, leaving |-> FALSE, done |-> FALSE]}

TypeOK ==
  /\ ui.step \in DOMAIN Steps /\ ui.id \in Ids \union {Blank} /\ ui.version \in {"1.6", "2.0.1"}
  /\ ui.status \in {"waiting", "connected"} /\ ui.timers \in 0..MaxTimers
  /\ \A f \in {ui.creating, ui.leaving, ui.done} : f \in BOOLEAN
  /\ ui.out \subseteq Ids \union {Blank}

(* The first step: any text; the button waits for one that is not blank.       *)
EnterId(i) == ui.step = 1 /\ ui.id # i /\ ui' = [ui EXCEPT !.id = i]

Configure(v) == ui.step = 2 /\ ui.version # v /\ ui' = [ui EXCEPT !.version = v]

(* Mutant: the first step lets an empty identifier pass.                       *)
goNextUnchecked ==
  /\ ui.step < 3 /\ ui.timers < MaxTimers
  /\ ui' = [ui EXCEPT !.step = @ + 1]

(* goNext: entering the last step starts a timer; nobody cancels it.           *)
goNext ==
  /\ ui.step < 3 /\ (ui.step = 1 => ui.id # Blank)
  /\ IF ui.step = 2
     THEN ui.timers < MaxTimers /\ ui' = [ui EXCEPT !.step = 3, !.status = "waiting", !.timers = @ + 1]
     ELSE ui' = [ui EXCEPT !.step = @ + 1]

(* goBack, and the progress bar, which only leads back.                        *)
goBack == \E s \in 1..(ui.step - 1) : ui' = [ui EXCEPT !.step = s]

(* The status turns whether or not a charge point has connected.               *)
TimerFires ==
  /\ ui.timers > 0
  /\ ui' = [ui EXCEPT !.timers = @ - 1, !.status = "connected"]

(* handleRegister, from Skip or Done.                                          *)
handleRegister ==
  /\ ui.step = 3 /\ ~ui.creating
  /\ ui' = [ui EXCEPT !.creating = TRUE, !.out = @ \union {ui.id}]

(* navigate is not waited for: the wizard stays, and its buttons are enabled   *)
(* again, until the page of the new charger is there.                          *)
Registered(i) ==
  /\ i \in ui.out
  /\ \E ok \in BOOLEAN : ui' = [ui EXCEPT !.out = @ \ {i}, !.creating = FALSE, !.leaving = @ \/ ok]

NavigationEnds == ui.leaving /\ ui' = [ui EXCEPT !.done = TRUE]

Next ==
  /\ ~ui.done
  /\ \/ goNext \/ goBack \/ TimerFires \/ handleRegister \/ NavigationEnds
     \/ \E i \in Ids \union {Blank} : EnterId(i) \/ Registered(i)
     \/ \E v \in {"1.6", "2.0.1"} : Configure(v)

-----------------------------------------------------------------------------
(* Properties.                                                                 *)

(* No charger is registered without an identifier, whichever way the user went *)
(* back and forth, and one request is out at most; a second charger may be     *)
(* registered while the page is being left.                                    *)
RegistersNamed == Blank \notin ui.out /\ \A i, j \in ui.out : i = j

=============================================================================
