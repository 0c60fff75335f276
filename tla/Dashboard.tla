----------------------------- MODULE Dashboard -----------------------------
(* What a person sees first (dashboard.tsx): the invitations waiting for her   *)
(* (pending-invites.tsx) and her sites, or, when the list of sites turns out   *)
(* empty, the form that creates one (site-create.tsx).  Accepting is three     *)
(* statements at the server and declining one (api/site/invite.go, module      *)
(* SiteMembership); here they meet the two buttons.  An answer comes only      *)
(* after the server is done with its request.                                  *)
EXTENDS Naturals, FiniteSets, WebData

CONSTANTS
  Invites,        \* invitations, each to a site of its own
  NoInvite,
  Texts, Blank,
  MaxCalls        \* bound: answers to invitations under way at once

VARIABLE ui

Call == [id : Invites, op : {"accept", "decline"}, n : 1..MaxCalls,
         at : {"sent", "join", "mark", "ok", "no"}]

(* The form, which buttons lead to as well.                 *)
SiteCreate == [page |-> "create", name |-> Blank, creating |-> FALSE, leaving |-> FALSE, out |-> {}]

(* The dashboard.  Somebody with a site of her own has her list, which nothing *)
(* here empties; somebody without one still asks for it.                       *)
Mounts ==
  {SiteCreate} \union
  {[page |-> "dashboard", sites |-> l, member |-> {}, status |-> [i \in Invites |-> "pending"],
    invites |-> mutate(Cached({})), loadingId |-> NoInvite, out |-> {}, declined |-> {},
    crossed |-> FALSE, odd |-> {}] : l \in {"asked", "shown"}}

TypeOK ==
  /\ ui.page \in {"dashboard", "create", "left"}
  /\ ui.page = "dashboard" =>
       /\ ui.sites \in {"asked", "none", "some", "shown"} /\ ui.member \subseteq Invites
       /\ ui.status \in [Invites -> {"pending", "accepted", "declined", "revoked"}]
       /\ ui.invites \in Entries(SUBSET Invites) /\ ui.loadingId \in Invites \union {NoInvite}
       /\ ui.out \subseteq Call /\ Cardinality(ui.out) <= MaxCalls
       /\ ui.declined \subseteq Invites /\ ui.crossed \in BOOLEAN /\ ui.odd \subseteq Invites
  /\ ui.page = "create" => /\ ui.name \in Texts \union {Blank} /\ ui.creating \in BOOLEAN
                           /\ ui.leaving \in BOOLEAN /\ ui.out \subseteq Texts \union {Blank}

(* An invitation is odd once two answers to it overlapped, an accept failed    *)
(* after its insert, an error hid a success or somebody else revoked it.       *)
OnDashboard == ui.page = "dashboard"
MyInvites == {i \in Invites : ui.status[i] = "pending"}

-----------------------------------------------------------------------------
(* The lists                                                                   *)

(* site.list finds the sites one is a member of.                               *)
SitesRead ==
  /\ OnDashboard /\ ui.sites = "asked"
  /\ ui' = [ui EXCEPT !.sites = IF ui.member = {} THEN "none" ELSE "some"]

(* Without a site the effect leaves for the form at once, whether or not there *)
(* are invitations; what was asked of the server goes on unheard.              *)
SitesArrive ==
  /\ OnDashboard
  /\ \/ ui.sites = "none" /\ ui' = SiteCreate
     \/ ui.sites = "some" /\ ui' = [ui EXCEPT !.sites = "shown"]

InvitesRead ==
  /\ OnDashboard /\ ui.invites.asked
  /\ ui' = [ui EXCEPT !.invites = Reads(@, MyInvites)]

InvitesArrive ==
  /\ OnDashboard /\ ui.invites.snap # {}
  /\ ui' = [ui EXCEPT !.invites = Arrives(@)]

(* The window is focused: the list is asked for again.                         *)
Focus == OnDashboard /\ ui' = [ui EXCEPT !.invites = mutate(@)]

(* Somebody of the site takes the invitation back.                             *)
RevokeInvite(i) ==
  /\ OnDashboard /\ ui.status[i] = "pending"
  /\ ui' = [ui EXCEPT !.status[i] = "revoked", !.odd = @ \union {i}]

-----------------------------------------------------------------------------
(* Answering an invitation                                                     *)

(* Mutant: a row whose answer is out keeps its buttons.                        *)
NeverBusy(i) == i \in ui.invites.data

(* The row of i is shown and enabled: the flag knows one row only.             *)
Enabled(i) == i \in ui.invites.data /\ ui.loadingId # i

Sent(i, op) ==
  [id |-> i, op |-> op, at |-> "sent", n |-> CHOOSE n \in 1..MaxCalls : \A r \in ui.out : r.n # n]

(* handleAccept and handleDecline                                              *)
handleInvite(i, op) ==
  /\ OnDashboard /\ Enabled(i)
  /\ Cardinality(ui.out) < MaxCalls
  /\ ui' = [ui EXCEPT !.loadingId = i, !.out = @ \union {Sent(i, op)},
                      !.crossed = @ \/ ui.loadingId \notin {NoInvite, i},
                      !.odd = IF \E r \in ui.out : r.id = i THEN @ \union {i} ELSE @]

At(r, pc) == (ui.out \ {r}) \union {[r EXCEPT !.at = pc]}

(* AcceptInvite reads the invitation ...                                       *)
AcceptReads(r) ==
  /\ r.op = "accept" /\ r.at = "sent"
  /\ \/ r.id \in MyInvites /\ ui' = [ui EXCEPT !.out = At(r, "join")]
     \/ ui' = [ui EXCEPT !.out = At(r, "no")]

(* ... inserts the member ...                                                  *)
AcceptJoins(r) ==
  /\ r.at = "join"
  /\ \/ ui' = [ui EXCEPT !.out = At(r, "mark"), !.member = @ \union {r.id}]
     \/ ui' = [ui EXCEPT !.out = At(r, "no")]

(* ... and marks the invitation, whatever it is by then.                       *)
AcceptMarks(r) ==
  /\ r.at = "mark"
  /\ \/ ui' = [ui EXCEPT !.out = At(r, "ok"), !.status[r.id] = "accepted"]
     \/ ui' = [ui EXCEPT !.out = At(r, "no"), !.odd = @ \union {r.id}]

(* DeclineInvite: one update, only of a pending invitation.                    *)
Declines(r) ==
  /\ r.op = "decline" /\ r.at = "sent"
  /\ \/ /\ ui.status[r.id] = "pending"
        /\ ui' = [ui EXCEPT !.out = At(r, "ok"), !.status[r.id] = "declined"]
     \/ ui' = [ui EXCEPT !.out = At(r, "no")]

Told(r) == IF r.op = "decline" THEN ui.declined \union {r.id} ELSE ui.declined

(* Mutant: the list is not asked for again.                                    *)
AnsweredQuietly(r) ==
  /\ r.at \in {"ok", "no"}
  /\ ui' = [ui EXCEPT !.out = @ \ {r}, !.loadingId = NoInvite,
                      !.declined = IF r.at = "ok" THEN Told(r) ELSE @]

(* The answer arrives, a good one or an error, which may also hide a success;  *)
(* the list is asked for again after a good one only.                          *)
Answered(r) ==
  /\ r.at \in {"ok", "no"}
  /\ \/ r.at = "ok" /\ ui' = [ui EXCEPT !.out = @ \ {r}, !.loadingId = NoInvite,
                                        !.declined = Told(r), !.invites = mutate(@)]
     \/ ui' = [ui EXCEPT !.out = @ \ {r}, !.loadingId = NoInvite,
                         !.odd = IF ui.status[r.id] = "pending" THEN @ ELSE @ \union {r.id}]

-----------------------------------------------------------------------------
(* The form of a new site                                                      *)

setName(t) == ui.page = "create" /\ t # ui.name /\ ui' = [ui EXCEPT !.name = t]

(* Mutant: the button only looks at the name.                                  *)
CreateTwice == ui.name # Blank

(* The submit button, by a click or by Enter in the form.                      *)
canCreate == ui.name # Blank /\ ~ui.creating

handleCreate ==
  /\ ui.page = "create" /\ canCreate
  /\ ui' = [ui EXCEPT !.creating = TRUE, !.out = @ \union {ui.name}]

(* A good answer starts the navigation to the new site, which is not waited    *)
(* for: until it ends the form stays as it is, enabled.                        *)
Created(t) ==
  \E ok \in BOOLEAN : ui' = [ui EXCEPT !.creating = FALSE, !.out = @ \ {t}, !.leaving = @ \/ ok]

NavigationEnds == ui.page = "create" /\ ui.leaving /\ ui' = [page |-> "left"]

Next ==
  \/ SitesRead \/ SitesArrive \/ InvitesRead \/ InvitesArrive \/ Focus \/ handleCreate
  \/ NavigationEnds
  \/ \E i \in Invites : RevokeInvite(i) \/ \E op \in {"accept", "decline"} : handleInvite(i, op)
  \/ /\ OnDashboard
     /\ \E r \in ui.out : \/ AcceptReads(r) \/ AcceptJoins(r) \/ AcceptMarks(r)
                          \/ Declines(r) \/ Answered(r)
  \/ \E t \in Texts \union {Blank} : setName(t)
  \/ ui.page = "create" /\ \E t \in ui.out : Created(t)

-----------------------------------------------------------------------------
(* Properties.                                                                 *)

(* Two answers to one invitation are under way at once only after another row  *)
(* was clicked, which takes the flag away; and an invitation the page said was *)
(* declined left no membership behind, but for the odd ones.                   *)
AnswersTruthful ==
  OnDashboard =>
    /\ ~ui.crossed => \A r, s \in ui.out : r.id = s.id => r = s
    /\ \A i \in ui.declined \ ui.odd : i \notin ui.member

(* With nothing under way the rows shown are the pending invitations, but for  *)
(* the odd ones.                                                               *)
InvitesSettle ==
  OnDashboard /\ ui.out = {} /\ Resting(ui.invites) => ui.invites.data \ ui.odd = MyInvites \ ui.odd

(* Whatever is typed while a request is out, one request at a time is out, and *)
(* the site has a name; a second may be made while the page is being left.     *)
CreatesNamed == ui.page = "create" => Cardinality(ui.out) <= 1 /\ Blank \notin ui.out

=============================================================================
