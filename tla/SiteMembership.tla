--------------------------- MODULE SiteMembership ---------------------------
(***************************************************************************)
(* Members and invitations of one site: the endpoints Create and Delete    *)
(* (api/site/site.go), AddMember, UpdateMemberRole and RemoveMember        *)
(* (api/site/member.go), InviteMember, RevokeInvite, AcceptInvite and      *)
(* DeclineInvite (api/site/invite.go), the checks of api/iam, and what     *)
(* signing in does to the members of the demo site (api/auth/auth.go).     *)
(*                                                                         *)
(* A request is one run of an endpoint.  No endpoint of the API runs in a  *)
(* database transaction, so the statements of two requests interleave, and *)
(* each may fail and end its request half way.  A user stands for her      *)
(* e-mail address, which is unique and never changes.                      *)
(*                                                                         *)
(* Not in this module: the other columns of sites, and the starter devices *)
(* Create inserts after the owner.                                         *)
(***************************************************************************)
CONSTANTS
  Requests,  \* runs of endpoints
  Users,
  Invites,   \* ids of invitations
  Demo,      \* whether this is the demo site
  None

VARIABLES
  site,    \* the row in sites: none, live, deleted
  member,  \* site_members.role by user, None without a row
  invite,  \* site_member_invitations by id, None without a row
  req,     \* req[q]: next statement and parameters of request q
  ever,    \* history: users who have ever been members
  via      \* history: via[u], on whose authority u was last admitted, None if on nobody's

vars == <<site, member, invite, req, ever, via>>

-----------------------------------------------------------------------------
Roles == {"*", "editor", "viewer"}

Rows == [email : Users, role : Roles, by : Users,
         status : {"pending", "accepted", "revoked", "declined"}, expired : BOOLEAN]

ASSUME MembershipAssumption ==
  Demo \in BOOLEAN /\ None \notin Users \union Invites \union Roles \union Rows

Pcs == {"idle", "owner", "add", "role", "remove", "delete", "notMember", "notPending",
        "invite", "inSite", "revoke", "join", "accept", "done"}

Init ==
  /\ site = "none"
  /\ member = [u \in Users |-> None]
  /\ invite = [i \in Invites |-> None]
  /\ req = [q \in Requests |-> [pc |-> "idle", by |-> None, user |-> None,
                                role |-> None, invite |-> None]]
  /\ ever = {}
  /\ via = [u \in Users |-> None]

(* iam.InSite and iam.SiteOwner *)
InSite(u) == site = "live" /\ member[u] # None
SiteOwner(u) == site = "live" /\ member[u] = "*"

(* i is a pending invitation that has not expired. *)
Open(i) == invite[i] # None /\ invite[i].status = "pending" /\ ~invite[i].expired

Goto(q, pc) == req' = [req EXCEPT ![q].pc = pc]

(* Request q arrives from user b; pc is its statement after the checks. *)
Begin(q, b, pc, u, r, i) ==
  /\ req[q].pc = "idle"
  /\ req' = [req EXCEPT ![q] = [pc |-> pc, by |-> b, user |-> u, role |-> r, invite |-> i]]
  /\ UNCHANGED <<site, member, invite, ever, via>>

(* insert into site_members ... on conflict do nothing *)
InsertMember(u, r, sponsor) ==
  IF member[u] = None
    THEN /\ member' = [member EXCEPT ![u] = r]
         /\ ever' = ever \union {u}
         /\ via' = [via EXCEPT ![u] = sponsor]
    ELSE UNCHANGED <<member, ever, via>>

-----------------------------------------------------------------------------
(* Create: the site, then its owner. *)
CreateSite(q, b) ==
  /\ req[q].pc = "idle"
  /\ site = "none"
  /\ site' = "live"
  /\ req' = [req EXCEPT ![q].pc = "owner", ![q].by = b]
  /\ UNCHANGED <<member, invite, ever, via>>

CreateOwner(q) ==
  /\ req[q].pc = "owner"
  /\ InsertMember(req[q].by, "*", req[q].by)
  /\ Goto(q, "done")
  /\ UNCHANGED <<site, invite>>

Delete(q, b) == SiteOwner(b) /\ Begin(q, b, "delete", None, None, None)

DeleteUpdate(q) ==
  /\ req[q].pc = "delete"
  /\ site' = "deleted"
  /\ Goto(q, "done")
  /\ UNCHANGED <<member, invite, ever, via>>

-----------------------------------------------------------------------------
AddMember(q, b, u) == InSite(b) /\ Begin(q, b, "add", u, None, None)

(* The role column defaults to viewer. *)
AddInsert(q) ==
  /\ req[q].pc = "add"
  /\ InsertMember(req[q].user, "viewer", req[q].by)
  /\ Goto(q, "done")
  /\ UNCHANGED <<site, invite>>

UpdateMemberRole(q, b, u, r) == InSite(b) /\ Begin(q, b, "role", u, r, None)

RoleUpdate(q) ==
  /\ req[q].pc = "role"
  /\ member' = IF member[req[q].user] = None THEN member
               ELSE [member EXCEPT ![req[q].user] = req[q].role]
  /\ Goto(q, "done")
  /\ UNCHANGED <<site, invite, ever, via>>

RemoveMember(q, b, u) == InSite(b) /\ Begin(q, b, "remove", u, None, None)

RemoveDelete(q) ==
  /\ req[q].pc = "remove"
  /\ member' = [member EXCEPT ![req[q].user] = None]
  /\ Goto(q, "done")
  /\ UNCHANGED <<site, invite, ever, via>>

-----------------------------------------------------------------------------
(* Mutant: anyone may invite. *)
InviteUnchecked(q, b, u, r) == Begin(q, b, "notMember", u, r, None)

InviteMember(q, b, u, r) == InSite(b) /\ Begin(q, b, "notMember", u, r, None)

(* Both existence checks drop the error of their query: when it fails the  *)
(* answer counts as no.                                                    *)
InviteNotMember(q) ==
  /\ req[q].pc = "notMember"
  /\ \/ Goto(q, "notPending")
     \/ member[req[q].user] # None /\ Goto(q, "done")
  /\ UNCHANGED <<site, member, invite, ever, via>>

InviteNotPending(q) ==
  /\ req[q].pc = "notPending"
  /\ \/ Goto(q, "invite")
     \/ /\ \E i \in Invites : Open(i) /\ invite[i].email = req[q].user
        /\ Goto(q, "done")
  /\ UNCHANGED <<site, member, invite, ever, via>>

(* Mutant: Valid does not replace an omitted role by viewer. *)
InviteInsertNoRole(q, i) ==
  /\ req[q].pc = "invite"
  /\ invite[i] = None
  /\ invite' = [invite EXCEPT ![i] = [email |-> req[q].user, role |-> None, by |-> req[q].by,
                                      status |-> "pending", expired |-> FALSE]]
  /\ Goto(q, "done")
  /\ UNCHANGED <<site, member, ever, via>>

InviteInsert(q, i) ==
  /\ req[q].pc = "invite"
  /\ invite[i] = None
  /\ invite' = [invite EXCEPT ![i] = [email |-> req[q].user, role |-> req[q].role,
                                      by |-> req[q].by, status |-> "pending",
                                      expired |-> FALSE]]
  /\ Goto(q, "done")
  /\ UNCHANGED <<site, member, ever, via>>

(* Seven days have passed. *)
Expire(i) ==
  /\ Open(i)
  /\ invite' = [invite EXCEPT ![i].expired = TRUE]
  /\ UNCHANGED <<site, member, req, ever, via>>

(* RevokeInvite reads the invitation, then checks the caller, then writes. *)
RevokeInvite(q, b, i) ==
  /\ invite[i] # None
  /\ invite[i].status = "pending"
  /\ Begin(q, b, "inSite", None, None, i)

RevokeCheck(q) ==
  /\ req[q].pc = "inSite"
  /\ Goto(q, IF InSite(req[q].by) THEN "revoke" ELSE "done")
  /\ UNCHANGED <<site, member, invite, ever, via>>

(* Mutant: the update lacks "and status = 'pending'". *)
RevokeAny(q) ==
  /\ req[q].pc = "revoke"
  /\ invite' = [invite EXCEPT ![req[q].invite].status = "revoked"]
  /\ Goto(q, "done")
  /\ UNCHANGED <<site, member, ever, via>>

RevokeUpdate(q) ==
  /\ req[q].pc = "revoke"
  /\ invite' = [invite EXCEPT ![req[q].invite].status =
                  IF @ = "pending" THEN "revoked" ELSE @]
  /\ Goto(q, "done")
  /\ UNCHANGED <<site, member, ever, via>>

(* DeclineInvite: one guarded update. *)
DeclineInvite(q, b, i) ==
  /\ req[q].pc = "idle"
  /\ invite[i] # None
  /\ invite[i].email = b
  /\ invite[i].status = "pending"
  /\ invite' = [invite EXCEPT ![i].status = "declined"]
  /\ Goto(q, "done")
  /\ UNCHANGED <<site, member, ever, via>>

(* AcceptInvite: the invitation is read and matched with the caller ...    *)
AcceptInvite(q, b, i) ==
  /\ Open(i)
  /\ invite[i].email = b
  /\ Begin(q, b, "join", b, invite[i].role, i)

(* Mutant: the invitation is marked before the member is inserted. *)
JoinLater(q) ==
  /\ req[q].pc = "join"
  /\ invite' = [invite EXCEPT ![req[q].invite].status = "accepted"]
  /\ Goto(q, "add")
  /\ UNCHANGED <<site, member, ever, via>>

(* Mutant: the conflict updates the role. *)
JoinOverwrites(q) ==
  /\ req[q].pc = "join"
  /\ member' = [member EXCEPT ![req[q].user] = req[q].role]
  /\ ever' = ever \union {req[q].user}
  /\ via' = [via EXCEPT ![req[q].user] = invite[req[q].invite].by]
  /\ Goto(q, "accept")
  /\ UNCHANGED <<site, invite>>

(* ... the member inserted ... *)
AcceptInsert(q) ==
  /\ req[q].pc = "join"
  /\ InsertMember(req[q].user, req[q].role, invite[req[q].invite].by)
  /\ Goto(q, "accept")
  /\ UNCHANGED <<site, invite>>

(* ... and the invitation marked, whatever its status is by now. *)
AcceptUpdate(q) ==
  /\ req[q].pc = "accept"
  /\ invite' = [invite EXCEPT ![req[q].invite].status = "accepted"]
  /\ Goto(q, "done")
  /\ UNCHANGED <<site, member, ever, via>>

(* Every sign-in makes its user a viewer of the demo site, deleted or not; *)
(* that the insert failed is only logged.                                  *)
upsertUser(u) ==
  /\ Demo /\ site # "none"
  /\ InsertMember(u, "viewer", None)
  /\ UNCHANGED <<site, invite, req>>

(* A statement fails: the endpoint returns the error. *)
Fail(q) ==
  /\ req[q].pc \notin {"idle", "done"}
  /\ Goto(q, "done")
  /\ UNCHANGED <<site, member, invite, ever, via>>

-----------------------------------------------------------------------------
Endpoint(q) ==
  \E b \in Users :
    \/ CreateSite(q, b)
    \/ Delete(q, b)
    \/ \E u \in Users :
         \/ AddMember(q, b, u)
         \/ RemoveMember(q, b, u)
         \/ \E r \in Roles : UpdateMemberRole(q, b, u, r) \/ InviteMember(q, b, u, r)
    \/ \E i \in Invites :
         \/ RevokeInvite(q, b, i)
         \/ DeclineInvite(q, b, i)
         \/ AcceptInvite(q, b, i)

Statement(q) ==
  \/ CreateOwner(q)
  \/ DeleteUpdate(q)
  \/ AddInsert(q)
  \/ RoleUpdate(q)
  \/ RemoveDelete(q)
  \/ InviteNotMember(q)
  \/ InviteNotPending(q)
  \/ \E i \in Invites : InviteInsert(q, i)
  \/ RevokeCheck(q)
  \/ RevokeUpdate(q)
  \/ AcceptInsert(q)
  \/ AcceptUpdate(q)
  \/ Fail(q)

Next ==
  \/ \E q \in Requests : Endpoint(q) \/ Statement(q)
  \/ \E i \in Invites : Expire(i)
  \/ \E u \in Users : upsertUser(u)

Spec == Init /\ [][Next]_vars

-----------------------------------------------------------------------------
TypeOK ==
  /\ site \in {"none", "live", "deleted"}
  /\ member \in [Users -> Roles \union {None}]
  /\ invite \in [Invites -> Rows \union {None}]
  /\ req \in [Requests -> [pc : Pcs, by : Users \union {None}, user : Users \union {None},
                           role : Roles \union {None}, invite : Invites \union {None}]]
  /\ ever \subseteq Users
  /\ via \in [Users -> Users \union {None}]

(* Every member was let in by someone who was a member at some time (the   *)
(* owner by creating the site), also when the one who let her in has been  *)
(* removed meanwhile; only into the demo site one gets by signing in.      *)
Vouched ==
  \A u \in Users : member[u] # None => via[u] \in ever \/ (Demo /\ via[u] = None)

(* An invitation that reads accepted has made its addressee a member, even *)
(* if AcceptInvite stopped between its two writes.                         *)
AcceptedJoined ==
  \A i \in Invites :
    invite[i] # None /\ invite[i].status = "accepted" => invite[i].email \in ever

(* An accepted invitation stays so: a revocation or a refusal that was     *)
(* under way does not undo it.                                             *)
AcceptedFinal ==
  [][\A i \in Invites : invite[i] # None /\ invite[i].status = "accepted" =>
       invite'[i] # None /\ invite'[i].status = "accepted"]_vars

(* Accepting, being added again or signing in never changes the role of    *)
(* one who is a member: only UpdateMemberRole does.                        *)
RoleKept ==
  [][\A u \in Users : member[u] # None /\ member'[u] \notin {member[u], None} =>
       \E q \in Requests : RoleUpdate(q)]_vars
=============================================================================
