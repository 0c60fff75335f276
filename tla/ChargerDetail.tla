---------------------------- MODULE ChargerDetail ----------------------------
(* The header of a charger's pages (charger-detail.tsx): the cached charger    *)
(* that SWR refreshes, the card of a connector and its two dialogs.  The       *)
(* dialogs stay mounted when they are closed: a request under way finds the    *)
(* same step state again, which a timer resets 200 ms after closing.           *)
EXTENDS Naturals, FiniteSets

CONSTANTS
  Tags,     \* id tags of the local list
  NoTag,
  MaxTx     \* bound: transactions of the connector

VARIABLE ui

Statuses == {"Available", "Charging", "SuspendedEV", "Faulted"}
Connector == [status : Statuses, tx : 0..MaxTx]

Mounts ==
  {[srv |-> c, next |-> c.tx, card |-> c,
    startOpen |-> FALSE, idTag |-> NoTag, step |-> "form", reset |-> FALSE, starts |-> {},
    stopOpen |-> FALSE, stopStep |-> "confirm", stopReset |-> FALSE, stops |-> {},
    told |-> {}, raced |-> FALSE] :
      c \in {[status |-> "Available", tx |-> 0], [status |-> "Charging", tx |-> 1]}}

TypeOK ==
  /\ ui.srv \in Connector /\ ui.card \in Connector /\ ui.next \in 0..MaxTx
  /\ ui.idTag \in Tags \union {NoTag} /\ ui.step \in {"form", "submitting", "success"}
  /\ ui.stopStep \in {"confirm", "stopping", "stopped"}
  /\ \A f \in {ui.startOpen, ui.reset, ui.stopOpen, ui.stopReset, ui.raced} : f \in BOOLEAN
  /\ ui.starts \subseteq Tags /\ ui.stops \subseteq 1..MaxTx
  /\ ui.told \subseteq Tags \union 1..MaxTx

-----------------------------------------------------------------------------
(* The charger and the cache                                                   *)

(* External: what the charge point reports for the connector.                  *)
ChargerReports ==
  \/ /\ ui.srv.status = "Available" /\ ui.next < MaxTx
     /\ ui' = [ui EXCEPT !.srv = [status |-> "Charging", tx |-> ui.next + 1], !.next = @ + 1]
  \/ /\ ui.srv.status \in {"Charging", "SuspendedEV"}
     /\ \/ ui' = [ui EXCEPT !.srv = [status |-> "Available", tx |-> 0]]
        \/ ui' = [ui EXCEPT !.srv.status = IF @ = "Charging" THEN "SuspendedEV" ELSE "Charging"]
  \/ /\ ui' = [ui EXCEPT !.srv = [status |-> IF @.status = "Faulted" THEN "Available" ELSE "Faulted", tx |-> 0]]

(* The 15 s refresh, and onMutate after a command.                             *)
Refresh == ui.card # ui.srv /\ ui' = [ui EXCEPT !.card = ui.srv]

-----------------------------------------------------------------------------
(* ConnectorCard: what the cached status offers                                *)

Closed == ~ui.startOpen /\ ~ui.stopOpen

OpenStart ==
  /\ Closed /\ ui.card.status = "Available"
  /\ ui' = [ui EXCEPT !.startOpen = TRUE, !.raced = @ \/ ui.reset]

OpenStop ==
  /\ Closed /\ ui.card.status = "Charging" /\ ui.card.tx # 0
  /\ ui' = [ui EXCEPT !.stopOpen = TRUE, !.raced = @ \/ ui.stopReset]

-----------------------------------------------------------------------------
(* StartChargingDialog                                                         *)

PickTag(t) ==
  /\ ui.startOpen /\ ui.step = "form" /\ ui.idTag # t
  /\ ui' = [ui EXCEPT !.idTag = t]

SubmitStart ==
  /\ ui.startOpen /\ ui.step = "form" /\ ui.idTag # NoTag
  /\ ui' = [ui EXCEPT !.step = "submitting", !.starts = @ \union {ui.idTag}, !.told = @ \ Tags]

(* Mutant: success before the answer.                                          *)
AnswerAnyway(t) ==
  /\ t \in ui.starts
  /\ ui' = [ui EXCEPT !.starts = @ \ {t}, !.step = "success", !.card = ui.srv]

(* Mutant: a refused start leaves the spinner.                                 *)
AnswerSilently(t) ==
  /\ t \in ui.starts
  /\ \/ ui' = [ui EXCEPT !.starts = @ \ {t}, !.step = "success", !.told = @ \union {t}, !.card = ui.srv]
     \/ ui' = [ui EXCEPT !.starts = @ \ {t}]

StartAnswered(t) ==
  /\ t \in ui.starts
  /\ \/ ui' = [ui EXCEPT !.starts = @ \ {t}, !.step = "success", !.told = @ \union {t}, !.card = ui.srv]
     \/ ui' = [ui EXCEPT !.starts = @ \ {t}, !.step = "form"]

CloseStart ==
  /\ ui.startOpen
  /\ ui' = [ui EXCEPT !.startOpen = FALSE, !.reset = TRUE, !.raced = @ \/ ui.starts # {}]

ResetStart ==
  /\ ui.reset
  /\ ui' = [ui EXCEPT !.reset = FALSE, !.idTag = NoTag, !.step = "form"]

-----------------------------------------------------------------------------
(* StopChargingDialog: the transaction is the one of the cached connector when *)
(* the button is clicked, whatever it was when the dialog opened.              *)

handleStop ==
  /\ ui.stopOpen /\ ui.stopStep = "confirm" /\ ui.card.tx # 0
  /\ ui' = [ui EXCEPT !.stopStep = "stopping", !.stops = @ \union {ui.card.tx}, !.told = @ \intersect Tags]

StopAnswered(tx) ==
  /\ tx \in ui.stops
  /\ \/ ui' = [ui EXCEPT !.stops = @ \ {tx}, !.stopStep = "stopped", !.told = @ \union {tx}, !.card = ui.srv]
     \/ ui' = [ui EXCEPT !.stops = @ \ {tx}, !.stopStep = "confirm"]

CloseStop ==
  /\ ui.stopOpen
  /\ ui' = [ui EXCEPT !.stopOpen = FALSE, !.stopReset = TRUE, !.raced = @ \/ ui.stops # {}]

ResetStop ==
  /\ ui.stopReset
  /\ ui' = [ui EXCEPT !.stopReset = FALSE, !.stopStep = "confirm"]

Next ==
  \/ ChargerReports \/ Refresh \/ OpenStart \/ OpenStop \/ SubmitStart \/ CloseStart \/ ResetStart
  \/ handleStop \/ CloseStop \/ ResetStop
  \/ \E t \in Tags : PickTag(t) \/ StartAnswered(t)
  \/ \E tx \in 1..MaxTx : StopAnswered(tx)

-----------------------------------------------------------------------------
(* Properties.                                                                 *)

(* "Command Sent" with an ID tag means that a remote start with that tag was   *)
(* accepted by the API, and "Charging Stopped" that a stop was, unless a       *)
(* dialog was closed while its request was out, or opened while its reset was  *)
(* pending: the late answer is then shown in the dialog opened next.           *)
DialogsTruthful ==
  ~ui.raced =>
    /\ ui.startOpen /\ ui.step = "success" => ui.idTag \in ui.told
    /\ ui.stopOpen /\ ui.stopStep = "stopped" => ui.told \intersect (1..MaxTx) # {}

(* The spinner of an open dialog waits for a request that is under way.        *)
SpinnerWaits ==
  /\ ui.step = "submitting" => ui.starts # {}
  /\ ui.stopStep = "stopping" => ui.stops # {}

=============================================================================
