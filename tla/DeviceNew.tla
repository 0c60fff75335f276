------------------------------ MODULE DeviceNew ------------------------------
(* The wizard that creates a device (device-new.tsx): type, details, location, *)
(* then the device and, in a second request whose failure is ignored, where it *)
(* is.  A click works with the values of the render it came from.              *)
EXTENDS FiniteSets, LocationForm

CONSTANTS Texts, Blank

VARIABLE ui

Types == {"meter"}   \* the others are shown and disabled

Mounts == {[step |-> 1, type |-> "none", name |-> Blank, loc |-> NoLocation, creating |-> FALSE,
            out |-> {}, placing |-> {}, leaving |-> FALSE, done |-> FALSE]}

Request == [name : Texts \union {Blank}, type : Types \union {"none"}, loc : Locations]

TypeOK ==
  /\ ui.step \in 1..3 /\ ui.type \in Types \union {"none"} /\ ui.name \in Texts \union {Blank}
  /\ ui.loc \in Locations /\ ui.out \subseteq Request /\ ui.placing \subseteq Locations
  /\ \A f \in {ui.creating, ui.leaving, ui.done} : f \in BOOLEAN

setSelectedType(t) == ui.step = 1 /\ ui' = [ui EXCEPT !.type = t]

setName(n) == ui.step = 2 /\ n # ui.name /\ ui' = [ui EXCEPT !.name = n]

(* Mutant: an empty name passes.                                               *)
canContinueUnnamed == ui.step = 1 => ui.type # "none"

canContinue ==
  CASE ui.step = 1 -> ui.type # "none"
    [] ui.step = 2 -> ui.name # Blank
    [] OTHER -> TRUE

goNext == ui.step < 3 /\ canContinue /\ ui' = [ui EXCEPT !.step = @ + 1]

(* goBack, and the progress bar, which only leads back.                        *)
goBack == \E s \in 1..(ui.step - 1) : ui' = [ui EXCEPT !.step = s]

LocationStep == ui.step = 3 /\ \E f \in Edits(ui.loc) : ui' = [ui EXCEPT !.loc = f]

Create == [name |-> ui.name, type |-> ui.type, loc |-> ui.loc]

handleCreate ==
  /\ ui.step = 3 /\ ~ui.creating
  /\ ui' = [ui EXCEPT !.creating = TRUE, !.out = @ \union {Create}]

(* Skip empties the location and creates, with the location of this render: a  *)
(* location picked before is sent all the same.                                *)
Skip ==
  /\ ui.step = 3 /\ ~ui.creating
  /\ ui' = [ui EXCEPT !.creating = TRUE, !.loc = NoLocation, !.out = @ \union {Create}]

(* navigate is not waited for: the wizard stays, and its buttons are enabled   *)
(* again, until the page of the new device is there.                           *)
Created(c) ==
  \/ /\ c.loc.type # ""
     /\ ui' = [ui EXCEPT !.out = @ \ {c}, !.placing = @ \union {c.loc}]
  \/ c.loc.type = "" /\ ui' = [ui EXCEPT !.out = @ \ {c}, !.creating = FALSE, !.leaving = TRUE]
  \/ ui' = [ui EXCEPT !.out = @ \ {c}, !.creating = FALSE]

(* device.setLocation, good or bad.                                            *)
Located(l) == ui' = [ui EXCEPT !.placing = @ \ {l}, !.creating = FALSE, !.leaving = TRUE]

NavigationEnds == ui.leaving /\ ui' = [ui EXCEPT !.done = TRUE]

Next ==
  /\ ~ui.done
  /\ \/ goNext \/ goBack \/ LocationStep \/ handleCreate \/ Skip \/ NavigationEnds
     \/ \E t \in Types : setSelectedType(t)
     \/ \E n \in Texts \union {Blank} : setName(n)
     \/ \E c \in ui.out : Created(c)
     \/ \E l \in ui.placing : Located(l)

-----------------------------------------------------------------------------
(* Properties.                                                                 *)

(* Whichever way the user went back and forth while a request was out, one     *)
(* request at a time is out, with a type and a name, and a device is placed in *)
(* a room of the level that goes with it.  It is not created only once: the    *)
(* buttons work again while the page is being left.                            *)
CreatesWhole ==
  /\ Cardinality(ui.out \union ui.placing) <= 1
  /\ \A c \in ui.out : c.name # Blank /\ c.type # "none" /\ Fits(c.loc)
  /\ \A l \in ui.placing : Fits(l)

=============================================================================
