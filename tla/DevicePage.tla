----------------------------- MODULE DevicePage -----------------------------
(* The page of a device (device-detail.tsx, meter-card.tsx): what SWR caches,  *)
(* and the dialogs that change it.  They stay mounted while they are closed    *)
(* and share nothing, so a mounted page is one of them: the device's fields,   *)
(* its location, a new meter, the settings of a meter.                         *)
EXTENDS FiniteSets, WebData, LocationForm

CONSTANTS Texts, Blank   \* texts of the fields and serial numbers

VARIABLE ui

Sections == {"edit", "location", "addMeter", "configure"}

Server(sec) ==
  CASE sec = "edit" -> Texts
    [] sec = "configure" -> Texts \union {Blank}
    [] sec = "location" -> Placed
    [] sec = "addMeter" -> SUBSET Texts
Form(sec) == IF sec = "location" THEN Locations ELSE Texts \union {Blank}

(* The location may arrive after the dialog took its first values from it.     *)
FirstForm(sec, d) ==
  CASE sec \in {"edit", "configure"} -> {d}
    [] sec = "location" -> {d, NoLocation}
    [] sec = "addMeter" -> {Blank}

Mounts ==
  UNION {UNION {{[sec |-> s, srv |-> d, list |-> Cached(d), open |-> FALSE, form |-> f,
                  submitting |-> FALSE, out |-> {}, edited |-> FALSE, lost |-> FALSE, gone |-> FALSE] :
                    f \in FirstForm(s, d)} : d \in Server(s)} : s \in Sections}

TypeOK ==
  /\ ui.sec \in Sections /\ ui.srv \in Server(ui.sec) /\ ui.list \in Entries(Server(ui.sec))
  /\ ui.form \in Form(ui.sec) /\ ui.out \subseteq Form(ui.sec)
  /\ \A f \in {ui.open, ui.submitting, ui.edited, ui.lost, ui.gone} : f \in BOOLEAN

-----------------------------------------------------------------------------
(* Opening sets a flag of the page; only the panel of a meter is mounted anew. *)
Open ==
  /\ ~ui.open
  /\ ui' = [ui EXCEPT !.open = TRUE, !.edited = FALSE,
                      !.form = IF ui.sec = "configure" THEN ui.list.data ELSE @]

(* The panel of a meter is unmounted: its request goes on.                     *)
Close ==
  /\ ui.open
  /\ \/ ui' = [ui EXCEPT !.open = FALSE, !.submitting = @ /\ ui.sec # "configure"]
     \/ ui.sec = "addMeter" /\ ui' = [ui EXCEPT !.open = FALSE, !.form = Blank]

EditForm ==
  /\ ui.open
  /\ \E f \in (IF ui.sec = "location" THEN Edits(ui.form) ELSE Form(ui.sec)) \ {ui.form} :
       ui' = [ui EXCEPT !.form = f, !.edited = TRUE]

Ready(f) ==
  CASE ui.sec = "location" -> Complete(f)
    [] ui.sec = "addMeter" -> f # Blank
    [] OTHER -> TRUE

Send(f) == ui' = [ui EXCEPT !.submitting = TRUE, !.out = @ \union {f}]

handleSave == ui.open /\ ~ui.submitting /\ Ready(ui.form) /\ Send(ui.form)

handleRemove ==
  /\ ui.sec = "location" /\ ui.open /\ ~ui.submitting /\ ui.list.data.type # ""
  /\ Send(NoLocation)

(* A blank field of the device is left out of the request and changes nothing; *)
(* the panel of a meter sends it as it is.                                     *)
Stored(f) ==
  CASE ui.sec = "addMeter" -> ui.srv \union {f}
    [] ui.sec = "location" -> [f EXCEPT !.room = IF f.type = "room" THEN @ ELSE NoRoom]
    [] OTHER -> IF ui.sec = "edit" /\ f = Blank THEN ui.srv ELSE f

(* Mutant: the page does not ask again.                                        *)
SavedQuietly(f) ==
  ui' = [ui EXCEPT !.srv = Stored(f), !.out = @ \ {f}, !.submitting = FALSE,
                   !.open = @ /\ ui.sec = "configure"]

Saved(f) ==
  ui' = [ui EXCEPT !.srv = Stored(f), !.list = mutate(@), !.out = @ \ {f}, !.submitting = FALSE,
                   !.open = @ /\ ui.sec = "configure", !.form = IF ui.sec = "addMeter" THEN Blank ELSE @]

(* The location is written statement by statement, without a transaction: what *)
(* there was is taken away before the new place is written.                    *)
Broken(f) == IF ui.sec = "location" THEN {NoLocation, Stored(f)} ELSE {Stored(f)}

(* A request that fails, before or after it has written something, or whose    *)
(* answer is lost: the page does not ask again.                                *)
SaveFailed(f) ==
  \E d \in {ui.srv} \union Broken(f) :
    ui' = [ui EXCEPT !.out = @ \ {f}, !.submitting = FALSE, !.srv = d, !.lost = @ \/ d # ui.srv]

(* A meter is removed after a confirm, with no flag: the list is asked again.  *)
RemoveMeter(m) ==
  /\ ui.sec = "addMeter" /\ m \in ui.list.data
  /\ ui' = [ui EXCEPT !.srv = @ \ {m}, !.list = mutate(@)]

(* handleDeleteDevice: the dialog closes first; the page is left.              *)
handleDeleteDevice == ui.sec = "edit" /\ ui.open /\ ui' = [ui EXCEPT !.open = FALSE, !.gone = TRUE]

ListRead == ui.list.asked /\ ui' = [ui EXCEPT !.list = Reads(@, ui.srv)]

ListArrives == ui.list.snap # {} /\ ui' = [ui EXCEPT !.list = Arrives(@)]

Next ==
  /\ ~ui.gone
  /\ \/ Open \/ Close \/ EditForm \/ handleSave \/ handleRemove \/ handleDeleteDevice
     \/ ListRead \/ ListArrives
     \/ \E f \in ui.out : Saved(f) \/ SaveFailed(f)
     \/ \E m \in Texts : RemoveMeter(m)

-----------------------------------------------------------------------------
(* Properties.                                                                 *)

(* When nothing is under way the page shows what the server holds, in whatever *)
(* order dialogs were closed and answers came, unless a request failed after   *)
(* it had written something.                                                   *)
DeviceSettles == ui.out = {} /\ Resting(ui.list) /\ ~ui.lost => ui.list.data = ui.srv

(* A location that leaves the dialog is whole, and its room is on its level,   *)
(* whatever was picked before.                                                 *)
LocationWhole ==
  ui.sec = "location" => \A f \in ui.out : f # NoLocation => Complete(f) /\ Fits(f)

(* device-detail.tsx:462 "Sync form when device changes or dialog opens": a    *)
(* dialog nobody has typed in shows the device.                                *)
EditFormFresh == ui.sec = "edit" /\ ui.open /\ ~ui.edited => ui.form = ui.list.data

=============================================================================
