------------------------------ MODULE ApiDocs ------------------------------
(* The viewer of the API documentation (docs/app.js), a page without a         *)
(* framework: what is on screen is written by hand wherever the state it shows *)
(* changes.  The list of endpoints (groups that fold, a search, a filter) and  *)
(* the requests one can try share nothing, so a mounted page is one of them.   *)

CONSTANTS
  Groups,            \* tags; one endpoint stands for the endpoints of a group
  Endpoints,         \* endpoints to try, named after the scheme they require
  Creds, Blank       \* credentials a user may enter, and none

VARIABLE ui

Schemes == {"bearer", "apikey", "basic"}
usedSchemes == Schemes \intersect Endpoints

-----------------------------------------------------------------------------
(* The list: which groups are folded, as the class, the arrow and the ARIA     *)
(* attribute say and as localStorage remembers.                                *)

buildSidebar(saved, u) ==
  [sec |-> "list", saved |-> saved, collapsed |-> saved, chevron |-> saved, aria |-> saved,
   value |-> "", rows |-> Groups, cards |-> Groups, groups |-> Groups, unresolved |-> u]

(* Folding counts what is seen, also while a search holds a group open.        *)
toggleGroup(g) ==
  /\ g \in ui.groups
  /\ LET To(s) == IF g \in ui.collapsed THEN s \ {g} ELSE s \union {g}
     IN ui' = [ui EXCEPT !.collapsed = To(@), !.chevron = To(@), !.aria = To(@), !.saved = To(@)]

(* Mutant: emptying the search folds nothing.                                  *)
SearchForgets(value, match) ==
  ui' = [ui EXCEPT !.value = value, !.rows = match, !.cards = match, !.groups = match,
                   !.collapsed = @ \ match, !.chevron = @ \ match]

(* match: the endpoints that contain the text, all for an empty one.  A search *)
(* opens the groups it finds something in; without one the remembered groups   *)
(* are folded again.                                                           *)
applySearch(value, match) ==
  ui' = IF value # ""
        THEN [ui EXCEPT !.value = value, !.rows = match, !.cards = match, !.groups = match,
                        !.collapsed = @ \ match, !.chevron = @ \ match]
        ELSE [ui EXCEPT !.value = value, !.rows = Groups, !.cards = Groups, !.groups = Groups,
                        !.collapsed = @ \union ui.saved, !.chevron = @ \union ui.saved,
                        !.aria = @ \union ui.saved]

(* Typing, or Escape, which empties the field.                                 *)
SearchInput ==
  \E value \in {"", "text", ":unresolved"} \ {ui.value} :
    \E match \in IF value = "" THEN {Groups} ELSE SUBSET Groups : applySearch(value, match)

(* The filter opens groups too, and leaves their arrows.                       *)
applyUnresolvedFilter ==
  ui' = [ui EXCEPT !.value = ":unresolved", !.rows = ui.unresolved, !.cards = ui.unresolved,
                   !.groups = ui.unresolved, !.collapsed = @ \ ui.unresolved]

(* The footer, shown when something is unresolved: the field tells whether the *)
(* filter is on.                                                               *)
UnresolvedFilter ==
  /\ ui.unresolved # {}
  /\ IF ui.value = ":unresolved" THEN applySearch("", Groups) ELSE applyUnresolvedFilter

(* The documentation changed, or the user reloads.                             *)
Reload == ui' = buildSidebar(ui.saved, ui.unresolved)

-----------------------------------------------------------------------------
(* Trying an endpoint: globalAuth, the fields of the Authorize dialog, what    *)
(* the button and the line of each endpoint say of them, the requests and the  *)
(* answers shown.                                                              *)

NoRequest == [carries |-> FALSE, said |-> "nothing"]

hasAuthFor(auth, s) == s \in usedSchemes /\ auth[s] # Blank
hasAuth(auth) == \E s \in usedSchemes : hasAuthFor(auth, s)

renderTryItAuth(auth, e) ==
  CASE e \notin Schemes -> "not required"
    [] hasAuthFor(auth, e) -> "configured"
    [] ~hasAuthFor(auth, e) /\ hasAuth(auth) -> "another"
    [] ~hasAuth(auth) -> "missing"

NoAuth == [s \in usedSchemes |-> Blank]

buildCards ==
  [sec |-> "try", auth |-> NoAuth, fields |-> NoAuth, modal |-> FALSE, marks |-> {},
   badge |-> FALSE, lines |-> [e \in Endpoints |-> renderTryItAuth(NoAuth, e)],
   out |-> [e \in Endpoints |-> NoRequest], resp |-> [e \in Endpoints |-> "none"]]

Mounts ==
  {buildCards} \union UNION {{buildSidebar(s, u) : u \in SUBSET Groups} : s \in SUBSET Groups}

(* updateAuthUI after globalAuth has become auth.                              *)
Authorized(auth) ==
  [ui EXCEPT !.auth = auth, !.badge = hasAuth(auth),
             !.lines = [e \in Endpoints |-> renderTryItAuth(auth, e)]]

Marked(auth) == {s \in usedSchemes : hasAuthFor(auth, s)}

OpenAuth ==
  /\ ~ui.modal
  /\ ui' = [ui EXCEPT !.modal = TRUE, !.fields = ui.auth, !.marks = Marked(ui.auth)]

EditAuth(s, c) == ui.modal /\ c # ui.fields[s] /\ ui' = [ui EXCEPT !.fields[s] = c]

(* The cross, a click outside, Escape: the fields are filled anew next time.   *)
CloseAuth == ui.modal /\ ui' = [ui EXCEPT !.modal = FALSE, !.fields = ui.auth, !.marks = {}]

SaveAuth ==
  /\ ui.modal
  /\ ui' = [Authorized(ui.fields) EXCEPT !.modal = FALSE, !.marks = {}]

(* Clear stays in the dialog, whose marks it leaves as they are.               *)
ClearAuth == ui.modal /\ ui' = [Authorized(NoAuth) EXCEPT !.fields = NoAuth]

(* Send: the button is disabled until the answer.                              *)
SendRequest(e) ==
  /\ ~ui.modal /\ ui.out[e] = NoRequest
  /\ ui' = [ui EXCEPT !.out[e] = [carries |-> hasAuthFor(ui.auth, e), said |-> ui.lines[e]]]

(* A good answer may hold a token, which a button offers to use.               *)
renderTryItResponse(e) ==
  /\ ui.out[e] # NoRequest
  /\ \E r \in {"plain", "token"} : ui' = [ui EXCEPT !.out[e] = NoRequest, !.resp[e] = r]

(* Mutant: the lines of the endpoints are not written again.                   *)
UseTokenQuietly(e, c) ==
  /\ ~ui.modal /\ ui.resp[e] = "token"
  /\ ui' = [ui EXCEPT !.auth["bearer"] = c, !.fields["bearer"] = c, !.resp[e] = "used"]

UseToken(e, c) ==
  /\ ~ui.modal /\ ui.resp[e] = "token"
  /\ ui' = [Authorized([ui.auth EXCEPT !["bearer"] = c])
            EXCEPT !.fields["bearer"] = c, !.resp[e] = "used"]

Next ==
  \/ ui.sec = "list" /\ (SearchInput \/ UnresolvedFilter \/ Reload \/ \E g \in Groups : toggleGroup(g))
  \/ /\ ui.sec = "try"
     /\ \/ OpenAuth \/ CloseAuth \/ SaveAuth \/ ClearAuth
        \/ \E s \in usedSchemes, c \in Creds \union {Blank} : EditAuth(s, c)
        \/ \E e \in Endpoints : \/ SendRequest(e) \/ renderTryItResponse(e)
                                \/ \E c \in Creds : UseToken(e, c)

-----------------------------------------------------------------------------
(* Properties.                                                                 *)

TypeOK ==
  /\ ui.sec = "list" =>
       /\ ui.saved \subseteq Groups /\ ui.value \in {"", "text", ":unresolved"}
       /\ \A s \in {ui.collapsed, ui.chevron, ui.aria, ui.rows, ui.cards, ui.groups} : s \subseteq Groups
  /\ ui.sec = "try" =>
       /\ ui.auth \in [usedSchemes -> Creds \union {Blank}]
       /\ ui.fields \in [usedSchemes -> Creds \union {Blank}]
       /\ ui.modal \in BOOLEAN /\ ui.badge \in BOOLEAN /\ ui.marks \subseteq usedSchemes
       /\ ui.resp \in [Endpoints -> {"none", "plain", "token", "used"}]

(* Without a search the groups are folded as the reader left them, and class,  *)
(* arrow and attribute agree, whatever was folded while a search or the filter *)
(* held groups open; what is remembered never drops a fold that is seen.       *)
GroupsRestored ==
  ui.sec = "list" =>
    /\ ui.collapsed \subseteq ui.saved
    /\ ui.value = "" => ui.collapsed = ui.saved /\ ui.chevron = ui.saved /\ ui.aria = ui.saved

(* The button and the lines speak of the credentials as they are, however they *)
(* came to be, and a request carried credentials exactly when its line said    *)
(* that they were configured.                                                  *)
AuthShown ==
  ui.sec = "try" =>
    /\ ui.badge = hasAuth(ui.auth)
    /\ \A e \in Endpoints : /\ ui.lines[e] = renderTryItAuth(ui.auth, e)
                            /\ ui.out[e].carries <=> ui.out[e].said = "configured"

=============================================================================
