----------------------------- MODULE RoomDialogs -----------------------------
(* The dialogs of the rooms page (room-dialogs.tsx, room-card.tsx): rooms are  *)
(* added, edited and deleted, devices are assigned to a room or a floor.  Each *)
(* dialog has one instance, which outlives its closing, and its own flag; they *)
(* share nothing else, so a mounted page is one of them.                       *)
EXTENDS Naturals, FiniteSets, WebData

CONSTANTS
  RoomIds, NoTarget,
  Devices,
  MaxCalls   \* bound: API calls of a dialog under way at once

VARIABLE ui

Sections == {"add", "edit", "delete", "assignRoom", "assignFloor"}
Assigns == {"assignRoom", "assignFloor"}

(* What the dialog changes: the rooms with one of two contents, 0 for a room   *)
(* that is not there, or the devices of the room or floor.                     *)
Server(sec) == IF sec \in Assigns THEN SUBSET Devices ELSE [RoomIds -> 0..2]

Mounts ==
  UNION {{[sec |-> s, srv |-> d, list |-> Cached(d), target |-> NoTarget, draft |-> NoTarget,
           open |-> FALSE, loading |-> FALSE, out |-> {}, lost |-> FALSE] :
            d \in IF s \in Assigns THEN SUBSET Devices ELSE {[r \in RoomIds |-> IF s = "add" THEN 0 ELSE 1]}} : s \in Sections}

Call == [op : {"create", "update", "delete"}, room : RoomIds, of : RoomIds]
          \union [op : {"assign", "unassign"}, device : Devices]

TypeOK ==
  /\ ui.sec \in Sections /\ ui.srv \in Server(ui.sec) /\ ui.list \in Entries(Server(ui.sec))
  /\ ui.target \in RoomIds \union {NoTarget} /\ ui.draft \in RoomIds \union {NoTarget}
  /\ ui.open \in BOOLEAN /\ ui.loading \in BOOLEAN /\ ui.lost \in BOOLEAN /\ ui.out \subseteq Call /\ Cardinality(ui.out) <= MaxCalls

Room == Cardinality(ui.out) < MaxCalls
InRooms == ui.sec \notin Assigns

-----------------------------------------------------------------------------
(* Mutant: the form is only filled the first time.                             *)
OpenOnce(r) ==
  /\ InRooms /\ ui.target = NoTarget /\ (ui.list.data[r] = 0) = (ui.sec = "add")
  /\ ui' = [ui EXCEPT !.target = r, !.draft = IF @ = NoTarget THEN r ELSE @]

(* RoomCard's menu, or the name typed into the dialog that adds a room.  The   *)
(* effect on open and room fills the form.                                     *)
RoomCard(r) ==
  /\ InRooms /\ ui.target = NoTarget /\ (ui.list.data[r] = 0) = (ui.sec = "add")
  /\ ui' = [ui EXCEPT !.target = r, !.draft = r]

(* The buttons are disabled while loading; Escape is not.                      *)
onOpenChange == InRooms /\ ui.target # NoTarget /\ ui' = [ui EXCEPT !.target = NoTarget]

(* Mutant: nothing tells that a room is being deleted.                         *)
handleDeleteAnyway ==
  /\ ui.sec = "delete" /\ ui.target # NoTarget /\ Room
  /\ ui' = [ui EXCEPT !.loading = TRUE,
                      !.out = @ \union {[op |-> "delete", room |-> ui.target, of |-> ui.target]}]

handleDelete ==
  /\ ui.sec = "delete" /\ ui.target # NoTarget /\ ~ui.loading /\ Room
  /\ ui' = [ui EXCEPT !.loading = TRUE,
                      !.out = @ \union {[op |-> "delete", room |-> ui.target, of |-> ui.target]}]

(* handleSubmit of AddRoomDialog and EditRoomDialog, from Enter, which does    *)
(* not wait, or from the button.                                               *)
handleSubmit ==
  /\ ui.sec \in {"add", "edit"} /\ ui.target # NoTarget /\ Room
  /\ ui' = [ui EXCEPT !.loading = TRUE,
                      !.out = @ \union {[op |-> IF ui.sec = "add" THEN "create" ELSE "update", room |-> ui.target, of |-> ui.draft]}]

(* External: what room.go does with a request; a room that is gone is not      *)
(* updated.                                                                    *)
RoomEffect(c) ==
  [ui.srv EXCEPT ![c.room] = CASE c.op = "create" -> 1
                               [] c.op = "update" -> IF @ = 0 THEN 0 ELSE 3 - @
                               [] c.op = "delete" -> 0]

(* onSuccess closes the dialog, of whichever room it is by then.               *)
RoomChanged(c) ==
  /\ InRooms /\ (c.op = "update" => ui.srv[c.room] # 0)
  /\ ui' = [ui EXCEPT !.srv = RoomEffect(c), !.list = mutate(@), !.target = NoTarget, !.loading = FALSE,
                      !.out = @ \ {c}]

-----------------------------------------------------------------------------
(* The dialogs that assign devices: no flag keeps a button from a second click *)
(* and the buttons depend on the cached detail, which is known by its key only *)
(* while the dialog is open.                                                   *)

(* With its key back, SWR asks for the detail, unless it has just done so.     *)
setAssignTarget ==
  /\ ~InRooms /\ ~ui.open
  /\ \E ask \in {ui.list.asked, TRUE} : ui' = [ui EXCEPT !.open = TRUE, !.list.asked = ask]

CloseAssign == ~InRooms /\ ui.open /\ ui' = [ui EXCEPT !.open = FALSE]

handleAssign(d) ==
  /\ ~InRooms /\ ui.open /\ d \notin ui.list.data /\ Room
  /\ ui' = [ui EXCEPT !.out = @ \union {[op |-> "assign", device |-> d]}]

handleUnassign(d) ==
  /\ ~InRooms /\ ui.open /\ d \in ui.list.data /\ Room
  /\ ui' = [ui EXCEPT !.out = @ \union {[op |-> "unassign", device |-> d]}]

AssignEffect(c) == IF c.op = "assign" THEN ui.srv \union {c.device} ELSE ui.srv \ {c.device}

(* Mutant: like the dialog of a room, no dialog asks for the detail again.     *)
AssignedQuietly(c) ==
  /\ ~InRooms
  /\ ui' = [ui EXCEPT !.srv = AssignEffect(c), !.out = @ \ {c}, !.lost = @ \/ ~ui.open]

(* mutateFloor, which does nothing once the dialog is closed; the dialog of a  *)
(* room asks for the lists of the page only.                                   *)
Assigned(c) ==
  /\ ~InRooms
  /\ ui' = [ui EXCEPT !.srv = AssignEffect(c), !.out = @ \ {c}, !.lost = @ \/ ~ui.open,
                      !.list = IF ui.sec = "assignFloor" /\ ui.open THEN mutate(@) ELSE @]

(* A request that fails, or whose answer is lost after it was done.            *)
Failed(c) ==
  \E d \in {ui.srv, IF InRooms THEN RoomEffect(c) ELSE AssignEffect(c)} :
    ui' = [ui EXCEPT !.loading = FALSE, !.out = @ \ {c}, !.srv = d, !.lost = @ \/ d # ui.srv]

ListRead == ui.list.asked /\ ui' = [ui EXCEPT !.list = Reads(@, ui.srv)]

ListArrives == ui.list.snap # {} /\ ui' = [ui EXCEPT !.list = Arrives(@)]

Next ==
  \/ setAssignTarget \/ CloseAssign \/ onOpenChange \/ handleDelete \/ handleSubmit \/ ListRead \/ ListArrives
  \/ \E r \in RoomIds : RoomCard(r)
  \/ \E d \in Devices : handleAssign(d) \/ handleUnassign(d)
  \/ \E c \in ui.out : RoomChanged(c) \/ Assigned(c) \/ Failed(c)

-----------------------------------------------------------------------------
(* Properties.                                                                 *)

(* An update of a room carries what was typed for that room, although the one  *)
(* dialog is closed and opened for another room while requests are out.        *)
EditsOwnRoom == \A c \in ui.out : c.op = "update" => c.of = c.room

(* One room at a time is deleted, and the flag is set exactly while it is,     *)
(* although closing the dialog and opening it for another room is possible.    *)
OneRoomDelete == ui.sec = "delete" => Cardinality(ui.out) <= 1 /\ ui.loading = (ui.out # {})

(* When nothing is under way the rooms, and the devices of a floor, are shown  *)
(* as the server keeps them, unless an answer was lost or came to a dialog of  *)
(* devices that was closed: then the panel of the floor stays as it was.  The  *)
(* dialog of a room has no such property: it goes on offering what was done.   *)
RoomsSettle ==
  ui.sec # "assignRoom" /\ ui.out = {} /\ Resting(ui.list) /\ ~ui.lost => ui.list.data = ui.srv

=============================================================================
