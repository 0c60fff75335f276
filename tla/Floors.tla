------------------------------- MODULE Floors -------------------------------
(* The floors of the rooms page (rooms.tsx, room-dialogs.tsx).  The active     *)
(* level is a parameter of the URL, 0 when it is absent; the header shows the  *)
(* floor of that level or else the first one, while the rooms are always those *)
(* of the URL's level.  To change the parameter is to navigate: the level is   *)
(* another one when the loaders have run, unless a later navigation has taken  *)
(* its place.                                                                  *)
EXTENDS Integers, FiniteSets, WebData

CONSTANTS
  Levels, Nowhere,   \* levels of a building, and no level at all
  MaxCalls           \* bound: names and floors being saved at once

VARIABLE ui

(* A preset with the level typed for a custom one; an emptied field is level 0. *)
Preset(p, l) == [id |-> p, level |-> l]
NextFloor == Preset("next", 0)
Presets == {Preset(p, 0) : p \in {"basement", "ground", "next", "rooftop"}}
             \union {Preset("custom", l) : l \in Levels}

Lowest(S) == CHOOSE l \in S : \A k \in S : l <= k
Highest(S) == CHOOSE l \in S : \A k \in S : k <= l

(* The loader's floors; without a floor in the URL the level is 0.  The effect *)
(* that picks the first floor runs with the first render.                      *)
Lost(fs, level) == fs # {} /\ level = 0 /\ 0 \notin fs

Mounts ==
  {[srv |-> fs, list |-> Cached(fs), level |-> l, nav |-> IF Lost(fs, l) THEN Lowest(fs) ELSE Nowhere,
    editing |-> FALSE, renames |-> {}, addOpen |-> FALSE, preset |-> NextFloor, adds |-> {},
    target |-> Nowhere, del |-> Idle, raced |-> l \notin fs \union {0}, gone |-> FALSE] :
     fs \in SUBSET Levels, l \in Levels}

(* External: the building the server keeps, which only these dialogs change.   *)
TypeOK ==
  /\ ui.srv \subseteq Levels /\ ui.list \in Entries(SUBSET Levels) /\ ui.level \in Levels
  /\ ui.nav \in Levels \union {Nowhere} /\ ui.target \in Levels \union {Nowhere}
  /\ ui.renames \subseteq Levels /\ ui.adds \subseteq Levels
  /\ ui.preset \in Presets /\ ui.del \in Fetchers(Levels)

-----------------------------------------------------------------------------
floors == ui.list.data
activeFloor == IF ui.level \in floors THEN ui.level ELSE Lowest(floors)

(* A navigation to level l.  A level that is gone is not found out, nor that   *)
(* level 0, which the effect was about to leave, does not exist.               *)
Go(new, l) ==
  [new EXCEPT !.nav = l,
              !.raced = @ \/ l \notin new.srv \union {0} \/ (l = 0 /\ Lost(new.list.data, new.level))]

(* The effect runs after a render with another list or level.                  *)
Rendered(new) ==
  IF (new.list.data # ui.list.data \/ new.level # ui.level) /\ Lost(new.list.data, new.level)
  THEN Go(new, Lowest(new.list.data))
  ELSE new

Modal == ui.addOpen \/ ui.target # Nowhere

Room == Cardinality(ui.renames) + Cardinality(ui.adds) < MaxCalls

(* A click on a floor; it first takes the focus from an edit.                  *)
setActiveLevel(l) == ~Modal /\ ~ui.editing /\ l \in floors /\ ui' = Go(ui, l)

(* The back button of the site's header, of the browser, or its forward one:   *)
(* to any level the URL has had, whatever is open on the page.                 *)
Back(l) == ui' = Go(ui, l)

(* The loaders have run (a failing floor.list gives no floors), or the request *)
(* for them fails.                                                             *)
NavEnds ==
  /\ ui.nav # Nowhere
  /\ \/ ui' = Rendered([ui EXCEPT !.level = ui.nav, !.nav = Nowhere])
     \/ ui' = [ui EXCEPT !.gone = TRUE]

-----------------------------------------------------------------------------
(* The name of the floor, edited in its header                                 *)

startEditingFloorName ==
  /\ ~Modal /\ ~ui.editing /\ floors # {}
  /\ ui' = [ui EXCEPT !.editing = TRUE]

(* saveFloorName, from Enter or a lost focus: the name goes to the floor that  *)
(* is active by then, which need not be the one it was typed for.              *)
saveFloorName ==
  /\ ui.editing /\ Room
  /\ ui' = [ui EXCEPT !.editing = FALSE,
                      !.renames = IF floors = {} THEN @ ELSE @ \union {activeFloor}]

(* Escape, and a name that is blank or the same, end the edit.                 *)
EndEdit == ui.editing /\ ui' = [ui EXCEPT !.editing = FALSE]

Renamed(l) ==
  \/ ui' = [ui EXCEPT !.renames = @ \ {l}, !.list = mutate(@)]
  \/ ui' = [ui EXCEPT !.renames = @ \ {l}]

-----------------------------------------------------------------------------
(* AddFloorDialog                                                              *)

getLevel(p) ==
  CASE p.id = "basement" -> -1
    [] p.id = "ground" -> 0
    [] p.id = "next" -> IF floors = {} THEN 1 ELSE Highest(floors) + 1
    [] p.id = "rooftop" -> IF floors = {} THEN 2 ELSE Highest(floors) + 1
    [] p.id = "custom" -> p.level

resolvedLevel == getLevel(ui.preset)
levelConflict == resolvedLevel \in floors

setAddFloorOpen == ~Modal /\ ~ui.editing /\ ui' = [ui EXCEPT !.addOpen = TRUE]

setPreset(p) ==
  /\ ui.addOpen /\ p # ui.preset /\ (p.id # "custom" => getLevel(p) \notin floors)
  /\ ui' = [ui EXCEPT !.preset = p]

(* From Enter in the name, which does not wait for the request before, or from *)
(* the button.  Levels out of range are those the model leaves out.            *)
AddFloor ==
  /\ ui.addOpen /\ ~levelConflict /\ resolvedLevel \in Levels /\ Room
  /\ ui' = [ui EXCEPT !.adds = @ \union {resolvedLevel}]

CloseAdd == [ui EXCEPT !.addOpen = FALSE, !.preset = NextFloor]

CancelAdd == ui.addOpen /\ ui' = CloseAdd

(* A level that exists by now is refused by the server; any request may fail,  *)
(* or its answer be lost once the floor is there.                              *)
FloorAdded(l) ==
  \/ /\ l \notin ui.srv
     /\ \/ ui' = [CloseAdd EXCEPT !.srv = @ \union {l}, !.adds = @ \ {l}, !.list = mutate(@)]
        \/ ui' = [ui EXCEPT !.srv = @ \union {l}, !.adds = @ \ {l}, !.raced = TRUE]
  \/ ui' = [ui EXCEPT !.adds = @ \ {l}]

-----------------------------------------------------------------------------
(* DeleteFloorDialog                                                           *)

setDeleteFloorTarget ==
  /\ ~Modal /\ ~ui.editing /\ floors # {}
  /\ ui' = [ui EXCEPT !.target = activeFloor]

SubmitDelete ==
  /\ ui.target # Nowhere /\ ui.del.state = "idle"
  /\ ui' = [ui EXCEPT !.del = Submit(@, ui.target)]

(* The buttons are disabled while deleting; Escape is not.                     *)
CloseDelete == ui.target # Nowhere /\ ui' = [ui EXCEPT !.target = Nowhere]

(* Mutant: the URL keeps the level of the floor that is gone.                  *)
DeletedStays ==
  /\ ui.del.state = "submitting"
  /\ ui' = [ui EXCEPT !.srv = @ \ ui.del.form, !.del = Answer(@), !.target = Nowhere, !.list = mutate(@)]

(* onSuccess: the list without the dialog's target, which is the stale one,    *)
(* gives the next level; without a floor left the parameter is removed.        *)
FloorDeleted ==
  /\ ui.del.state = "submitting"
  /\ LET remaining == floors \ {ui.target} IN
     ui' = Go([ui EXCEPT !.srv = @ \ ui.del.form, !.del = Answer(@), !.target = Nowhere, !.list = mutate(@)],
              IF remaining = {} THEN 0 ELSE Lowest(remaining))

DeleteRefused == ui.del.state = "submitting" /\ ui' = [ui EXCEPT !.gone = TRUE]

Revalidated == ui.del.state = "loading" /\ ui' = [ui EXCEPT !.del = Settled(@)]

-----------------------------------------------------------------------------

ListRead == ui.list.asked /\ ui' = [ui EXCEPT !.list = Reads(@, ui.srv)]

(* useFloorList: the cached list or the loader's; SWR keeps the old one when   *)
(* the new one is the same.                                                    *)
ListArrives == ui.list.snap # {} /\ ui' = Rendered([ui EXCEPT !.list = Arrives(@)])

Next ==
  /\ ~ui.gone
  /\ \/ NavEnds \/ startEditingFloorName \/ saveFloorName \/ EndEdit \/ setAddFloorOpen \/ AddFloor \/ CancelAdd
     \/ setDeleteFloorTarget \/ SubmitDelete \/ CloseDelete \/ FloorDeleted \/ DeleteRefused
     \/ Revalidated \/ ListRead \/ ListArrives
     \/ \E l \in Levels : setActiveLevel(l) \/ Back(l)
     \/ \E p \in Presets : setPreset(p)
     \/ \E l \in ui.renames : Renamed(l)
     \/ \E l \in ui.adds : FloorAdded(l)

-----------------------------------------------------------------------------
(* Properties.                                                                 *)

(* With the list read and no navigation under way, the header and the rooms    *)
(* below it are of the same floor, however deletions, additions, clicks and    *)
(* Back overtook each other.  The code leaves a level in the URL that is gone  *)
(* when the page was opened with one or navigated to one: by Back, by a click  *)
(* in a list that was stale, by a deletion that works with a stale list or     *)
(* whose dialog was left meanwhile; and when Back, or the deletion of the last *)
(* floor, stops the effect from leaving a level 0 that does not exist.         *)
(* Nothing is said once the answer to an addition was lost.                    *)
HeaderOwnsRooms ==
  ~ui.raced /\ Resting(ui.list) /\ ui.nav = Nowhere /\ floors # {} => activeFloor = ui.level

=============================================================================
