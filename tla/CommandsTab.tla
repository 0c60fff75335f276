----------------------------- MODULE CommandsTab -----------------------------
(* The commands of a charger (commands-tab.tsx): eleven small forms that share *)
(* no state, so a mounted tab is one of them.  Every form keeps what the user  *)
(* entered, whether its confirm dialog is open and a loading flag; a request   *)
(* carries the values of the render its click came from, and the form can be   *)
(* edited while the request is out.  The forms of the connectors and of the    *)
(* charging profiles live inside the content of an accordion, which drops them *)
(* when it collapses.                                                          *)
EXTENDS Naturals, Sequences

CONSTANTS
  Values, Blank,   \* texts a user may enter, and the empty one
  MaxGone          \* bound: requests out whose form was dropped

VARIABLE ui

Sections == {"clearCache", "listVersion", "availability", "unlock", "config", "firmware",
             "diagnostics", "localList", "schedule", "setProfile", "clearProfile"}
Selects == {"availability", "schedule"}   \* forms that always hold an option
Collapsible == {"availability", "unlock", "schedule", "setProfile", "clearProfile"}

EmptyList == [type |-> "Full", entries |-> <<Blank>>]
Forms(sec) ==
  IF sec = "localList"
  THEN [type : {"Full", "Differential"},
        entries : UNION {[1..n -> Values \union {Blank}] : n \in 1..2}]
  ELSE IF sec \in Selects THEN Values ELSE Values \union {Blank}

First(sec) == IF sec = "localList" THEN EmptyList
              ELSE IF sec \in Selects THEN CHOOSE v \in Values : TRUE ELSE Blank

Requests(sec) == [form : Forms(sec), confirmed : BOOLEAN]

Mounts == {[sec |-> s, form |-> First(s), confirm |-> FALSE, loading |-> FALSE, out |-> <<>>,
            gone |-> [i \in 1..MaxGone |-> <<>>], toast |-> <<>>, result |-> <<>>] : s \in Sections}

TypeOK ==
  /\ ui.sec \in Sections /\ ui.form \in Forms(ui.sec)
  /\ ui.confirm \in BOOLEAN /\ ui.loading \in BOOLEAN
  /\ ui.out \in Seq(Requests(ui.sec)) /\ ui.gone \in [1..MaxGone -> Seq(Requests(ui.sec))]
  /\ ui.toast \in Seq(Forms(ui.sec)) /\ ui.result \in Seq(Forms(ui.sec))

-----------------------------------------------------------------------------
(* What the handlers share                                                     *)

Filled(form) ==
  IF ui.sec = "localList" THEN \E i \in DOMAIN form.entries : form.entries[i] # Blank
  ELSE form # Blank

(* Mutant: the button stays enabled while the request is out.                  *)
ActionButtonEnabled == ui.confirm = FALSE

ActionButton == ~ui.loading /\ ~ui.confirm

AskFirst == ui' = [ui EXCEPT !.confirm = TRUE]

(* setLoading(true) and the request with the values of this render.            *)
Request(confirmed) ==
  ui' = [ui EXCEPT !.loading = TRUE, !.toast = <<>>,
                   !.out = Append(@, [form |-> ui.form, confirmed |-> confirmed])]

(* A click with an empty field only complains.                                 *)
OnlyFilled(step) == Filled(ui.form) /\ step

-----------------------------------------------------------------------------
(* The sections: what their button does                                        *)

QuickActionsSection ==
  /\ ActionButton
  /\ \/ ui.sec = "clearCache" /\ AskFirst
     \/ ui.sec = "listVersion" /\ Request(FALSE)

ConnectorRow ==
  /\ ActionButton
  /\ \/ ui.sec = "availability" /\ Request(FALSE)
     \/ ui.sec = "unlock" /\ AskFirst

ConfigurationSection == ui.sec = "config" /\ ActionButton /\ OnlyFilled(Request(FALSE))

FirmwareSection == ui.sec = "firmware" /\ ActionButton /\ OnlyFilled(AskFirst)

DiagnosticsSection == ui.sec = "diagnostics" /\ ActionButton /\ OnlyFilled(Request(FALSE))

(* Mutant: only a differential update asks.                                    *)
SubmitUnconfirmed ==
  /\ ui.sec = "localList" /\ ActionButton /\ Filled(ui.form)
  /\ IF ui.form.type = "Full" THEN Request(FALSE) ELSE AskFirst

(* handleSubmit of the local list: a full update asks, a differential one does *)
(* not.                                                                        *)
LocalListSubmit ==
  /\ ui.sec = "localList" /\ ActionButton /\ Filled(ui.form)
  /\ IF ui.form.type = "Full" THEN AskFirst ELSE Request(FALSE)

GetCompositeSchedule ==
  /\ ui.sec = "schedule" /\ ActionButton
  /\ ui' = [ui EXCEPT !.loading = TRUE, !.toast = <<>>, !.result = <<>>,
                      !.out = Append(@, [form |-> ui.form, confirmed |-> FALSE])]

(* An unparsable profile is refused in the browser, like an empty one.         *)
SetChargingProfile == ui.sec = "setProfile" /\ ActionButton /\ OnlyFilled(Request(FALSE))

ClearChargingProfile == ui.sec = "clearProfile" /\ ActionButton /\ AskFirst

-----------------------------------------------------------------------------
(* Editing, the confirm dialog and the answer                                  *)

(* The dialog is modal; the fields stay enabled while a request is out.        *)
EditForm ==
  /\ ~ui.confirm /\ ui.sec # "localList"
  /\ \E f \in Forms(ui.sec) \ {ui.form} : ui' = [ui EXCEPT !.form = f]

(* addEntry, removeEntry (offered when there are two), updateEntry and the     *)
(* type of the update.                                                         *)
EditList ==
  /\ ui.sec = "localList" /\ ~ui.confirm
  /\ LET e == ui.form.entries IN
     \/ Len(e) = 1 /\ ui' = [ui EXCEPT !.form.entries = Append(e, Blank)]
     \/ Len(e) > 1 /\ \E i \in DOMAIN e : ui' = [ui EXCEPT !.form.entries = <<e[3 - i]>>]
     \/ \E i \in DOMAIN e, v \in Values \union {Blank} : ui' = [ui EXCEPT !.form.entries[i] = v]
     \/ \E t \in {"Full", "Differential"} : ui' = [ui EXCEPT !.form.type = t]

(* ConfirmDialog: the confirm button is disabled while loading; Escape and a   *)
(* click beside the dialog close it at any time.                               *)
ConfirmDialog ==
  /\ ui.confirm
  /\ \/ ~ui.loading /\ Request(TRUE)
     \/ ui' = [ui EXCEPT !.confirm = FALSE]

Clears == {"config", "firmware", "setProfile"}

(* Mutant: the toast shows the form as it is now.                              *)
SuccessNamesForm ==
  /\ ui.out # <<>>
  /\ ui' = [ui EXCEPT !.toast = <<ui.form>>, !.out = Tail(@),
                      !.form = IF ui.sec \in Clears THEN Blank ELSE @,
                      !.result = IF ui.sec = "schedule" THEN <<Head(ui.out).form>> ELSE @,
                      !.loading = FALSE, !.confirm = FALSE]

(* The answer is good: the toast speaks of the values of the request, three of *)
(* the forms are emptied, and finally clears the flag and closes the dialog.   *)
Success ==
  /\ ui.out # <<>>
  /\ ui' = [ui EXCEPT !.toast = <<Head(ui.out).form>>, !.out = Tail(@),
                      !.form = IF ui.sec \in Clears THEN Blank ELSE @,
                      !.result = IF ui.sec = "schedule" THEN <<Head(ui.out).form>> ELSE @,
                      !.loading = FALSE, !.confirm = FALSE]

Failure ==
  /\ ui.out # <<>>
  /\ ui' = [ui EXCEPT !.out = Tail(@), !.loading = FALSE, !.confirm = FALSE]

(* A section is collapsed and opened again: its forms start afresh, and what   *)
(* they had sent is out without them.                                          *)
Collapse ==
  /\ ui.sec \in Collapsible /\ ~ui.confirm
  /\ \E i \in 1..MaxGone :
       /\ ui.gone[i] = <<>>
       /\ ui' = [ui EXCEPT !.form = First(ui.sec), !.loading = FALSE, !.result = <<>>,
                           !.out = <<>>, !.gone[i] = ui.out]

(* The answer to a form that is gone still shows its toast.                    *)
LateAnswer ==
  \E i \in 1..MaxGone :
    /\ ui.gone[i] # <<>>
    /\ \E t \in {ui.toast, <<Head(ui.gone[i]).form>>} :
         ui' = [ui EXCEPT !.gone[i] = <<>>, !.toast = t]

Next ==
  \/ QuickActionsSection \/ ConnectorRow \/ ConfigurationSection \/ FirmwareSection
  \/ DiagnosticsSection \/ LocalListSubmit \/ GetCompositeSchedule \/ SetChargingProfile
  \/ ClearChargingProfile \/ EditForm \/ EditList \/ ConfirmDialog \/ Success \/ Failure
  \/ Collapse \/ LateAnswer

-----------------------------------------------------------------------------
(* Properties.                                                                 *)

(* A form has one request out at most, however its dialog is closed and opened *)
(* and the form edited meanwhile, and the flag that disables its buttons is    *)
(* set exactly while it has.  Only the sections that collapse can have others  *)
(* out besides, those of forms they dropped: nothing keeps the command of a    *)
(* new form from following them.                                               *)
OneCommand ==
  /\ Len(ui.out) <= 1 /\ ui.loading = (ui.out # <<>>)
  /\ ui.sec \notin Collapsible => \A i \in 1..MaxGone : ui.gone[i] = <<>>

(* Nothing destructive leaves without a yes to the very values it carries: a   *)
(* cleared cache, an unlocked connector, firmware, a full list, cleared        *)
(* profiles.                                                                   *)
Confirmed(out) ==
  \A i \in DOMAIN out :
    \/ ui.sec \in {"clearCache", "unlock", "firmware", "clearProfile"}
    \/ ui.sec = "localList" /\ out[i].form.type = "Full"
    => out[i].confirmed

ConfirmedCommand == Confirmed(ui.out) /\ \A i \in 1..MaxGone : Confirmed(ui.gone[i])

(* The success toast names what the charger was sent, not what the form holds  *)
(* when the answer comes.                                                      *)
ToastNamesSent ==
  ui'.toast # ui.toast /\ ui'.toast # <<>> =>
    \E out \in {ui.out} \union {ui.gone[i] : i \in 1..MaxGone} :
      \E i \in DOMAIN out : ui'.toast[1] = out[i].form

=============================================================================
