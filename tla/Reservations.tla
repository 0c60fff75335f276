---------------------------- MODULE Reservations ----------------------------
(* The reservations of a charger (charger-detail/reservations.tsx): a cached   *)
(* list and the dialog that makes one, with its fetcher.  A call that the      *)
(* fetcher no longer waits for still runs.                                     *)
(*                                                                             *)
(* Of a row only its being there is kept.  Its status is "Reserved" when it is *)
(* stored (reservation.go) and moves when the charge point answers or is used  *)
(* (hub.go, transaction.go), which the page does not hear of; the page offers  *)
(* to cancel what is "Active", a status nothing stores, so its cancel fetcher  *)
(* never has anything to do and is left out.                                   *)
EXTENDS Naturals, FiniteSets, WebData

CONSTANTS
  Ids,      \* reservation ids
  Conns,    \* connectors
  MaxCalls  \* bound: API calls under way at once

VARIABLE ui

Form == [conn : Conns \union {0}, id : Ids \union {0}]
EmptyForm == [conn |-> 0, id |-> 0]

(* The loader's list, or the empty one when it failed; SWR asks again.         *)
Mounts ==
  UNION {{[srv |-> rows, list |-> mutate(Cached(loaded)), open |-> FALSE, form |-> EmptyForm,
           reset |-> FALSE, reserve |-> Idle, calls |-> {},
           lied |-> FALSE, raced |-> FALSE, superseded |-> FALSE, gone |-> FALSE] :
             loaded \in {rows, {}}} : rows \in SUBSET Ids}

TypeOK ==
  /\ ui.srv \subseteq Ids /\ ui.list \in Entries(SUBSET Ids) /\ ui.form \in Form
  /\ ui.reserve \in Fetchers(Form)
  /\ ui.calls \subseteq [arg : Form, live : BOOLEAN] /\ Cardinality(ui.calls) <= MaxCalls

-----------------------------------------------------------------------------
(* NewReservationDialog                                                        *)

Busy(f) == f.state # "idle"

setNewDialogOpen ==
  /\ ~ui.open
  /\ ui' = [ui EXCEPT !.open = TRUE, !.raced = @ \/ Busy(ui.reserve) \/ ui.reset]

(* The fields stay enabled while the request is out.                           *)
EditForm ==
  /\ ui.open
  /\ \/ \E c \in Conns \ {ui.form.conn} : ui' = [ui EXCEPT !.form.conn = c, !.raced = @ \/ Busy(ui.reserve)]
     \/ \E i \in (Ids \union {0}) \ {ui.form.id} : ui' = [ui EXCEPT !.form.id = i, !.raced = @ \/ Busy(ui.reserve)]

(* An id other than 0 stands for texts and an expiry that all pass.            *)
validate(f) == f.conn # 0 /\ f.id # 0

(* The calls when another is submitted: the one a busy fetcher waited for is   *)
(* nobody's any more.                                                          *)
Superseding(f, arg) ==
  {[c EXCEPT !.live = @ /\ ~Busy(f)] : c \in ui.calls} \union {[arg |-> arg, live |-> TRUE]}

Room == Cardinality(ui.calls) < MaxCalls

(* The button is disabled while submitting only: while the loaders run again   *)
(* the form is still there and can be sent once more.                          *)
handleSubmit ==
  /\ ui.open /\ ui.reserve.state # "submitting" /\ validate(ui.form) /\ Room
  /\ ui' = [ui EXCEPT !.reserve = Submit(@, ui.form), !.calls = Superseding(ui.reserve, ui.form),
                      !.superseded = @ \/ Busy(ui.reserve), !.raced = @ \/ Busy(ui.reserve)]

(* Cancel is disabled while submitting; Escape is not.                         *)
handleClose ==
  /\ ui.open
  /\ ui' = [ui EXCEPT !.open = FALSE, !.reset = TRUE, !.raced = @ \/ Busy(ui.reserve)]

reset == ui.reset /\ ui' = [ui EXCEPT !.reset = FALSE, !.form = EmptyForm]

(* Mutant: the dialog is emptied before the toast is written.                  *)
ReservedResetFirst ==
  /\ ui.reserve.state = "loading"
  /\ ui' = [ui EXCEPT !.reserve = Settled(@), !.lied = @ \/ \E f \in ui.reserve.form : f.conn # 0, !.form = EmptyForm,
                      !.open = FALSE, !.reset = TRUE, !.list = mutate(@)]

(* Mutant: the list is not asked again.                                        *)
ReservedQuietly ==
  /\ ui.reserve.state = "loading"
  /\ ui' = [ui EXCEPT !.reserve = Settled(@), !.lied = @ \/ \E f \in ui.reserve.form : f.conn # ui.form.conn,
                      !.open = FALSE, !.reset = TRUE]

(* The fetcher is idle with an answer: the toast speaks of the form as it is,  *)
(* the dialog closes and the list is asked again.  The toast lies if it names  *)
(* another connector than the one that was reserved.                           *)
Reserved ==
  /\ ui.reserve.state = "loading"
  /\ ui' = [ui EXCEPT !.reserve = Settled(@), !.lied = @ \/ \E f \in ui.reserve.form : f.conn # ui.form.conn,
                      !.open = FALSE, !.reset = TRUE, !.list = mutate(@)]

-----------------------------------------------------------------------------
(* The list                                                                    *)

ListRead == ui.list.asked /\ ui' = [ui EXCEPT !.list = Reads(@, ui.srv)]

ListArrives == ui.list.snap # {} /\ ui' = [ui EXCEPT !.list = Arrives(@)]

-----------------------------------------------------------------------------
(* clientAction: the API call and its answer                                   *)

(* The row is stored before the command is published, so that a failing call   *)
(* may have stored it; an answer that is lost is a failure, too.               *)
Stored(c) == ui.srv \union {c.arg.id}

reserveNow(c) ==
  ui' = [ui EXCEPT !.srv = Stored(c), !.calls = @ \ {c}, !.reserve = IF c.live THEN Answer(@) ELSE @]

Refused(c) ==
  \E rows \in {ui.srv, Stored(c)} : ui' = [ui EXCEPT !.srv = rows, !.calls = @ \ {c}, !.gone = c.live]

Next ==
  /\ ~ui.gone
  /\ \/ setNewDialogOpen \/ EditForm \/ handleSubmit \/ handleClose \/ reset \/ Reserved
     \/ ListRead \/ ListArrives
     \/ \E c \in ui.calls : reserveNow(c) \/ Refused(c)

-----------------------------------------------------------------------------
(* Properties.                                                                 *)

(* "Connector #n reserved" is said of a connector that was reserved, unless    *)
(* the form was touched, closed or sent again while its request was out.       *)
ReserveToastTrue == ui.lied => ui.raced

(* When nothing is under way the list has the rows the server has, although    *)
(* the dialog was left and opened again, unless a submission was superseded:   *)
(* then nobody asks after the first one's effect.                              *)
ReservationsSettle ==
  ~ui.superseded /\ ~ui.gone /\ ~Busy(ui.reserve) /\ ui.calls = {} /\ Resting(ui.list)
  => ui.list.data = ui.srv

=============================================================================
