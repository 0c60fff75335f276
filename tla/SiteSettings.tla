---------------------------- MODULE SiteSettings ----------------------------
(* The settings of a site (settings.tsx).  One record of fields serves the     *)
(* general form and the tariffs, and an effect copies the cached site into it  *)
(* whenever the cache changes; members and invitations are lists that every    *)
(* action asks for again; an API key is shown once, when it is made.  The      *)
(* three share nothing, so a mounted page is one of them.                      *)
EXTENDS Naturals, FiniteSets, WebData

CONSTANTS
  Texts,      \* contents of a form
  Blank,      \* the empty content
  People,     \* members of the site besides its owner, and people invited
  MaxCalls,   \* bound: API calls under way at once
  MaxKey      \* bound: API keys made

VARIABLE ui

Sections == {"site", "team", "apiKey"}
Contents(part) == IF part = "general" THEN Texts \union {Blank} ELSE Texts
Site == {d \in [{"general", "tariffs"} -> Texts \union {Blank}] : \A p \in DOMAIN d : d[p] \in Contents(p)}
Roles == {"editor", "viewer"}
Team == [People -> Roles \union {"invited", "none"}]

Key == [{"key"} -> 0..MaxKey]

Page(s, srv) ==
  [sec |-> s, srv |-> srv, list |-> Cached(srv), form |-> srv, editing |-> FALSE, dirty |-> FALSE,
   saving |-> {}, out |-> {}, menu |-> {}, asking |-> {}, key |-> 0, lost |-> FALSE, gone |-> FALSE]

Mounts ==
  {Page("site", d) : d \in Site}
    \union {Page("team", [p \in People |-> "editor"]), Page("team", [p \in People |-> "none"])}
    \union {Page("apiKey", [k \in {"key"} |-> n]) : n \in 0..1}

TypeOK ==
  /\ ui.sec \in Sections /\ ui.saving \subseteq {"general", "tariffs", "key"}
  /\ ui.sec = "site" => /\ ui.srv \in Site /\ ui.form \in Site /\ ui.list \in Entries(Site)
                        /\ ui.out \subseteq [part : {"general", "tariffs"}, text : Texts \union {Blank}]
  /\ ui.sec = "team" => /\ ui.srv \in Team /\ ui.list \in Entries(Team)
                        /\ ui.menu \subseteq People /\ ui.asking \subseteq ui.menu
                        /\ Cardinality(ui.out) <= MaxCalls
  /\ ui.sec = "apiKey" => ui.srv \in Key /\ ui.key \in 0..MaxKey /\ ui.out \subseteq 0..MaxKey

Room == Cardinality(ui.out) < MaxCalls

-----------------------------------------------------------------------------
(* General settings and tariffs                                                *)

InSite == ui.sec = "site"

(* The effect on siteData writes over what is in the form, save that an empty  *)
(* name, address, timezone or currency leaves what is there.                   *)
Copied(had, site) == [site EXCEPT !["general"] = IF @ = Blank THEN had["general"] ELSE @]

SyncSite(new) ==
  IF InSite /\ new.list.data # ui.list.data
  THEN [new EXCEPT !.form = Copied(@, new.list.data), !.dirty = FALSE]
  ELSE new

(* Edit, Done and Cancel: nothing is put back.                                 *)
setEditingGeneral == InSite /\ ui' = [ui EXCEPT !.editing = ~@]

update(part, t) ==
  /\ InSite /\ (part = "general" => ui.editing) /\ ui.form[part] # t
  /\ ui' = [ui EXCEPT !.form[part] = t, !.dirty = TRUE]

(* handleSaveGeneral, offered while editing, and handleSaveTariffs.            *)
handleSave(part) ==
  /\ InSite /\ (part = "general" => ui.editing) /\ part \notin ui.saving
  /\ ui' = [ui EXCEPT !.saving = @ \union {part}, !.out = @ \union {[part |-> part, text |-> ui.form[part]]}]

(* Mutant: the cached site is not asked for again.                             *)
SiteSavedQuietly(c) ==
  /\ ui.sec = "site"
  /\ ui' = [ui EXCEPT !.srv[c.part] = c.text, !.out = @ \ {c}, !.saving = @ \ {c.part}]

SiteSaved(c) ==
  /\ InSite
  /\ ui' = [ui EXCEPT !.srv[c.part] = c.text, !.out = @ \ {c}, !.saving = @ \ {c.part},
                      !.editing = @ /\ c.part # "general", !.list = mutate(@)]

(* The site.update fails, or only its answer is lost: the site is not asked    *)
(* for again.                                                                  *)
SaveFailed(c) ==
  /\ InSite
  /\ \/ ui' = [ui EXCEPT !.out = @ \ {c}, !.saving = @ \ {c.part}]
     \/ ui' = [ui EXCEPT !.out = @ \ {c}, !.saving = @ \ {c.part}, !.srv[c.part] = c.text, !.lost = TRUE]

-----------------------------------------------------------------------------
(* Members and invitations: no request waits for another one                   *)

InTeam == ui.sec = "team"

Ask(op, p) == ui' = [ui EXCEPT !.out = @ \union {[op |-> op, who |-> p]}, !.menu = {}, !.asking = {}]

handleInvite(p) == InTeam /\ Room /\ Ask("invite", p)

handleRevokeInvite(p) == InTeam /\ Room /\ ui.list.data[p] = "invited" /\ Ask("revoke", p)

handleChangeMemberRole(p, r) == InTeam /\ Room /\ ui.list.data[p] \in Roles /\ Ask(r, p)

(* The menu of a member, and its question; a click elsewhere closes the menu   *)
(* and opening it again forgets the question.                                  *)
setMemberMenuOpen(p) ==
  /\ InTeam /\ ui.list.data[p] \in Roles
  /\ ui' = [ui EXCEPT !.menu = {p} \ @, !.asking = {}]

setConfirmRemove(p) ==
  /\ InTeam /\ p \in ui.menu /\ p \notin ui.asking
  /\ ui' = [ui EXCEPT !.asking = {p}]

handleRemoveMember(p) == InTeam /\ Room /\ p \in ui.asking /\ Ask("remove", p)

(* External: what site.go does with each request (SiteMembership).             *)
TeamEffect(c, was) ==
  CASE c.op = "invite" -> IF was = "none" THEN "invited" ELSE was
    [] c.op = "revoke" -> IF was = "invited" THEN "none" ELSE was
    [] c.op = "remove" -> IF was \in Roles THEN "none" ELSE was
    [] c.op \in Roles -> IF was \in Roles THEN c.op ELSE was

(* The request is answered, fails, or has its answer lost.                     *)
TeamChanged(c) ==
  /\ InTeam
  /\ \/ ui' = [ui EXCEPT !.srv[c.who] = TeamEffect(c, @), !.out = @ \ {c}, !.list = mutate(@)]
     \/ ui' = [ui EXCEPT !.out = @ \ {c}]
     \/ ui' = [ui EXCEPT !.srv[c.who] = TeamEffect(c, @), !.out = @ \ {c}, !.lost = TRUE]

-----------------------------------------------------------------------------
(* The API key: a request makes the next key at once; its answer shows it.     *)

(* Mutant: the button stays enabled while a key is made.                       *)
RegenerateAgain ==
  /\ ui.sec = "apiKey" /\ ui.srv["key"] < MaxKey /\ ui.key = 0
  /\ ui' = [ui EXCEPT !.saving = {"key"}, !.srv["key"] = @ + 1, !.out = @ \union {ui.srv["key"] + 1}]

handleRegenerateApiKey ==
  /\ ui.sec = "apiKey" /\ ui.saving = {} /\ ui.srv["key"] < MaxKey /\ ui.key = 0
  /\ ui' = [ui EXCEPT !.saving = {"key"}, !.srv["key"] = @ + 1, !.out = @ \union {ui.srv["key"] + 1}]

KeyAnswered(k) ==
  /\ ui.sec = "apiKey"
  /\ \/ ui' = [ui EXCEPT !.out = @ \ {k}, !.saving = {}, !.key = k, !.list = mutate(@)]
     \/ ui' = [ui EXCEPT !.out = @ \ {k}, !.saving = {}]

-----------------------------------------------------------------------------

(* The owner's delete button: a question, then the site is left.               *)
DeleteSite == InSite /\ ui' = [ui EXCEPT !.gone = TRUE]

ListRead == ui.list.asked /\ ui' = [ui EXCEPT !.list = Reads(@, ui.srv)]

ListArrives == ui.list.snap # {} /\ ui' = SyncSite([ui EXCEPT !.list = Arrives(@)])

Next ==
  /\ ~ui.gone
  /\ \/ setEditingGeneral \/ handleRegenerateApiKey \/ DeleteSite \/ ListRead \/ ListArrives
     \/ \E part \in {"general", "tariffs"} : handleSave(part) \/ \E t \in Contents(part) : update(part, t)
     \/ \E p \in People : \/ handleInvite(p) \/ handleRevokeInvite(p) \/ handleRemoveMember(p)
                          \/ setMemberMenuOpen(p) \/ setConfirmRemove(p)
                          \/ \E r \in Roles : handleChangeMemberRole(p, r)
     \/ \E c \in ui.out : SiteSaved(c) \/ SaveFailed(c) \/ TeamChanged(c) \/ KeyAnswered(c)

-----------------------------------------------------------------------------
(* Properties.                                                                 *)

(* When nothing is under way and no answer was lost, the form nobody typed in  *)
(* since the last copy and the lists show what the server keeps.  A field the  *)
(* server has empty is another matter: the form keeps an older text for it.    *)
SettingsSettle ==
  ui.out = {} /\ Resting(ui.list) /\ ~ui.lost =>
    /\ ui.sec # "apiKey" => ui.list.data = ui.srv
    /\ InSite /\ ~ui.dirty =>
         \A part \in {"general", "tariffs"} : ui.srv[part] # Blank => ui.form[part] = ui.srv[part]

(* The key that is shown, the only time it ever is, is the one the server      *)
(* takes.                                                                      *)
KeyShownIsLive == ui.sec = "apiKey" /\ ui.key # 0 => ui.key = ui.srv["key"]

=============================================================================
