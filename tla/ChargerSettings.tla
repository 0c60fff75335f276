--------------------------- MODULE ChargerSettings ---------------------------
(* The settings of a charger (charger-detail/settings.tsx).  The OCPP          *)
(* configuration is edited in place, one key at a time, with one text field    *)
(* and one flag for all keys; tags and charging profiles go through fetchers;  *)
(* the general, firmware, diagnostics and delete buttons only show a toast.    *)
EXTENDS Naturals, FiniteSets, WebData

CONSTANTS
  Keys, NoKey,   \* writable configuration keys, and none
  Texts,    \* values a user may type
  TagIds, NoTag,
  MaxCalls  \* bound: API calls under way at once

VARIABLE ui

Sections == {"config", "tags", "profiles"}

(* A text with the key it was typed or loaded for.                             *)
Draft == [of : Keys \union {NoKey}, text : Texts]
NoDraft == [of |-> NoKey, text |-> CHOOSE t \in Texts : TRUE]

(* The sections share nothing, so a mounted page is one of them.  tags and     *)
(* profiles are kept by the server in the same way.                            *)
Mounts ==
  {[sec |-> s, srv |-> had, list |-> Cached(had),
    editingKey |-> NoKey, editValue |-> NoDraft, savingKey |-> NoKey, saves |-> {},
    refreshing |-> FALSE, timers |-> 0, config |-> [k \in Keys |-> NoDraft.text],
    seen |-> [k \in Keys |-> NoDraft.text],
    newIdTag |-> NoTag, add |-> Idle, remove |-> Idle, calls |-> {},
    dialog |-> FALSE, superseded |-> FALSE, gone |-> FALSE] :
      s \in Sections, had \in {{}, TagIds}}

TypeOK ==
  /\ ui.sec \in Sections /\ ui.srv \subseteq TagIds /\ ui.list \in Entries(SUBSET TagIds)
  /\ ui.editingKey \in Keys \union {NoKey} /\ ui.savingKey \in Keys \union {NoKey}
  /\ ui.editValue \in Draft /\ ui.saves \subseteq [key : Keys, val : Draft]
  /\ ui.add \in Fetchers(TagIds) /\ ui.remove \in Fetchers(TagIds) /\ ui.timers \in 0..1
  /\ ui.newIdTag \in TagIds \union {NoTag}
  /\ Cardinality(ui.calls) + Cardinality(ui.saves) <= MaxCalls

-----------------------------------------------------------------------------
(* OCPP configuration                                                          *)

InConfig == ui.sec = "config"

(* Mutant: the field keeps the text of the key edited before.                  *)
EditKeepsText(k) ==
  /\ InConfig /\ ui.editingKey # k
  /\ ui' = [ui EXCEPT !.editingKey = k, !.editValue = IF @.of = NoKey THEN [of |-> k, text |-> ui.seen[k]] ELSE @]

handleEditConfig(k) ==
  /\ InConfig /\ ui.editingKey # k
  /\ ui' = [ui EXCEPT !.editingKey = k, !.editValue = [of |-> k, text |-> ui.seen[k]]]

setEditValue(t) ==
  /\ InConfig /\ ui.editingKey # NoKey
  /\ ui' = [ui EXCEPT !.editValue.text = t]

(* The button waits for the save of its own key; Enter does not wait.          *)
handleSaveConfig(k) ==
  /\ InConfig /\ ui.editingKey = k /\ Cardinality(ui.saves) < MaxCalls
  /\ ui' = [ui EXCEPT !.savingKey = k, !.saves = @ \union {[key |-> k, val |-> ui.editValue]}]

(* A good answer ends the edit, of whichever key is edited by then, and the    *)
(* list is looked at again.                                                    *)
SaveAnswered(s) ==
  \/ ui' = [ui EXCEPT !.saves = @ \ {s}, !.config[s.key] = s.val.text, !.editingKey = NoKey,
                      !.savingKey = NoKey, !.seen = [ui.config EXCEPT ![s.key] = s.val.text]]
  \/ ui' = [ui EXCEPT !.saves = @ \ {s}, !.savingKey = NoKey]

handleCancelConfig == InConfig /\ ui.editingKey # NoKey /\ ui' = [ui EXCEPT !.editingKey = NoKey]

(* The request, and two seconds later another look at what was stored.         *)
handleRefreshConfig == InConfig /\ ~ui.refreshing /\ ui' = [ui EXCEPT !.refreshing = TRUE]

RefreshAnswered ==
  /\ ui.refreshing
  /\ \/ ui.timers = 0 /\ ui' = [ui EXCEPT !.refreshing = FALSE, !.timers = @ + 1]
     \/ ui' = [ui EXCEPT !.refreshing = FALSE]

TimerFires == ui.timers > 0 /\ ui' = [ui EXCEPT !.timers = @ - 1, !.seen = ui.config]

-----------------------------------------------------------------------------
(* Authorization tags                                                          *)

InTags == ui.sec = "tags"
Room == Cardinality(ui.calls) < MaxCalls
Busy(f) == f.state # "idle"

Superseding(op, f, arg) ==
  {[c EXCEPT !.live = @ /\ (c.op = op => ~Busy(f))] : c \in ui.calls}
    \union {[op |-> op, arg |-> arg, live |-> TRUE]}

setNewIdTag(t) == InTags /\ ui.newIdTag # t /\ ui' = [ui EXCEPT !.newIdTag = t]

addAuthTag ==
  /\ InTags /\ ui.add.state # "submitting" /\ ui.newIdTag # NoTag /\ Room
  /\ ui' = [ui EXCEPT !.add = Submit(@, ui.newIdTag), !.calls = Superseding("add", ui.add, ui.newIdTag),
                      !.superseded = @ \/ Busy(ui.add)]

(* The field is emptied, whatever was typed in the meantime.                   *)
Added ==
  /\ InTags /\ ui.add.state = "loading"
  /\ ui' = [ui EXCEPT !.add = Settled(@), !.newIdTag = NoTag, !.list = mutate(@)]

(* visibleAuthList and visibleProfiles hide the one that is being removed.     *)
Visible == ui.list.data \ ui.remove.form

removeAuthTag(t) ==
  /\ ui.sec \in {"tags", "profiles"} /\ ~ui.dialog /\ t \in Visible /\ Room
  /\ ui' = [ui EXCEPT !.remove = Submit(@, t), !.calls = Superseding("remove", ui.remove, t),
                      !.superseded = @ \/ Busy(ui.remove)]

(* Mutant: the list is not asked again.                                        *)
RemovedQuietly ==
  /\ ui.remove.state = "loading"
  /\ ui' = [ui EXCEPT !.remove = Settled(@)]

Removed ==
  /\ ui.remove.state = "loading"
  /\ ui' = [ui EXCEPT !.remove = Settled(@), !.list = mutate(@)]

-----------------------------------------------------------------------------
(* CreateChargingProfileDialog: its fetcher is its own, so the page's effect,  *)
(* which would ask for the list again, waits for another one in vain.          *)

setProfileDialogOpen ==
  /\ ui.sec = "profiles"
  /\ ui' = [ui EXCEPT !.dialog = ~@]

setChargingProfile(p) ==
  /\ ui.dialog /\ ui.add.state # "submitting" /\ Room
  /\ ui' = [ui EXCEPT !.add = Submit(@, p), !.calls = Superseding("add", ui.add, p),
                      !.superseded = @ \/ Busy(ui.add)]

ProfileSet ==
  /\ ui.sec = "profiles" /\ ui.add.state = "loading"
  /\ ui' = [ui EXCEPT !.add = Settled(@), !.dialog = FALSE]

-----------------------------------------------------------------------------
(* clientAction and SWR                                                        *)

Accepted(c) ==
  ui' = [ui EXCEPT !.srv = IF c.op = "add" THEN @ \union {c.arg} ELSE @ \ {c.arg},
                   !.add = IF c.op = "add" /\ c.live THEN Answer(@) ELSE @,
                   !.remove = IF c.op = "remove" /\ c.live THEN Answer(@) ELSE @,
                   !.calls = @ \ {c}]

Refused(c) == ui' = [ui EXCEPT !.calls = @ \ {c}, !.gone = c.live]

ListRead == ui.list.asked /\ ui' = [ui EXCEPT !.list = Reads(@, ui.srv)]

ListArrives == ui.list.snap # {} /\ ui' = [ui EXCEPT !.list = Arrives(@)]

Next ==
  /\ ~ui.gone
  /\ \/ handleCancelConfig \/ handleRefreshConfig \/ RefreshAnswered \/ TimerFires
     \/ addAuthTag \/ Added \/ Removed \/ setProfileDialogOpen \/ ProfileSet \/ ListRead \/ ListArrives
     \/ \E k \in Keys : handleEditConfig(k) \/ handleSaveConfig(k)
     \/ \E t \in Texts : setEditValue(t)
     \/ \E s \in ui.saves : SaveAnswered(s)
     \/ \E t \in TagIds \union {NoTag} : setNewIdTag(t)
     \/ \E t \in TagIds : removeAuthTag(t) \/ setChargingProfile(t)
     \/ \E c \in ui.calls : Accepted(c) \/ Refused(c)

-----------------------------------------------------------------------------
(* Properties.                                                                 *)

(* A key is only ever sent a value that was typed or loaded for it, although   *)
(* one field serves all keys and Enter does not wait for the save before it.   *)
SavesOwnKey == \A s \in ui.saves : s.val.of = s.key

(* When nothing is under way the tags shown are the server's, unless a         *)
(* submission was superseded.                                                  *)
TagsSettle ==
  /\ ui.sec = "tags" /\ ~ui.superseded /\ ~Busy(ui.add) /\ ~Busy(ui.remove)
  /\ ui.calls = {} /\ Resting(ui.list)
  => Visible = ui.srv

=============================================================================
