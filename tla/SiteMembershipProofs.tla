------------------------ MODULE SiteMembershipProofs ------------------------
(***************************************************************************)
(* Proofs about SiteMembership: for any number of requests, users and      *)
(* invitations.                                                            *)
(***************************************************************************)
EXTENDS SiteMembership, TLAPS

(* What a request under way knows.  The checks it passed may be stale; what *)
(* survives is that its caller has been a member, that an invitation it    *)
(* read exists for the same address, and that past its insert the          *)
(* addressee has been a member.                                            *)
RequestInv ==
  \A q \in Requests :
    /\ req[q].pc = "owner" => req[q].by \in Users
    /\ req[q].pc \in {"add", "notMember", "notPending", "invite"} =>
         req[q].by \in ever /\ req[q].user \in Users
    /\ req[q].pc \in {"role", "remove"} => req[q].user \in Users
    /\ req[q].pc \in {"role", "notMember", "notPending", "invite", "join"} => req[q].role \in Roles
    /\ req[q].pc = "inSite" => req[q].by \in Users
    /\ req[q].pc \in {"inSite", "revoke", "join", "accept"} =>
         req[q].invite \in Invites /\ invite[req[q].invite] # None
    /\ req[q].pc \in {"join", "accept"} => req[q].user = invite[req[q].invite].email
    /\ req[q].pc = "accept" => req[q].user \in ever

(* Whoever is a member, or invited someone, has been a member. *)
EverInv ==
  /\ \A u \in Users : member[u] # None => u \in ever
  /\ \A i \in Invites : invite[i] # None => invite[i].by \in ever

IInv == TypeOK /\ RequestInv /\ EverInv /\ Vouched /\ AcceptedJoined

(* No site, no member, no request. *)
LEMMA InitIInv == Init => IInv
  BY DEF Init, IInv, TypeOK, RequestInv, EverInv, Vouched, AcceptedJoined, Pcs

(* What on conflict do nothing leaves behind, for a sponsor who has been a *)
(* member or is the new member herself, or for nobody in the demo site.    *)
LEMMA InsertKeeps ==
  ASSUME TypeOK, EverInv, Vouched, NEW u \in Users, NEW r \in Roles, NEW s,
         s \in ever \union {u} \/ (Demo /\ s = None),
         InsertMember(u, r, s)
  PROVE  /\ member' \in [Users -> Roles \union {None}]
         /\ ever' \subseteq Users /\ ever \subseteq ever' /\ u \in ever'
         /\ via' \in [Users -> Users \union {None}]
         /\ \A v \in Users : member'[v] # None => v \in ever'
         /\ Vouched'
         /\ \A v \in Users : member[v] # None => member'[v] = member[v]
  BY MembershipAssumption DEF InsertMember, TypeOK, EverInv, Vouched

(* A request that passes its checks keeps the invariant, provided what the *)
(* invariant asks of its first statement holds.                            *)
LEMMA BeginKeeps ==
  ASSUME IInv, NEW q \in Requests, NEW b \in Users, NEW pc \in Pcs \ {"accept", "owner"},
         NEW u \in Users \union {None}, NEW r \in Roles \union {None},
         NEW i \in Invites \union {None},
         Begin(q, b, pc, u, r, i),
         pc \in {"add", "notMember", "notPending", "invite"} => b \in ever /\ u \in Users,
         pc \in {"role", "remove"} => u \in Users,
         pc \in {"role", "notMember", "notPending", "invite", "join"} => r \in Roles,
         pc \in {"inSite", "revoke", "join"} => i \in Invites /\ invite[i] # None,
         pc = "join" => u = invite[i].email
  PROVE  IInv'
<1>1. TypeOK'
  BY DEF IInv, TypeOK, Begin
<1>2. RequestInv'
  BY DEF IInv, TypeOK, RequestInv, Begin
<1>3. (EverInv /\ Vouched /\ AcceptedJoined)'
  BY DEF IInv, EverInv, Vouched, AcceptedJoined, Begin
<1>4. QED BY <1>1, <1>2, <1>3 DEF IInv

(* Moving a request on, with nothing the invariant speaks of changed. *)
LEMMA GotoKeeps ==
  ASSUME IInv, NEW q \in Requests, NEW pc \in {"done", "notPending", "invite", "revoke"},
         Goto(q, pc),
         pc = "notPending" => req[q].pc = "notMember",
         pc = "invite" => req[q].pc = "notPending",
         pc = "revoke" => req[q].pc = "inSite",
         site' \in {"none", "live", "deleted"},
         UNCHANGED <<member, invite, ever, via>>
  PROVE  IInv'
<1>1. TypeOK'
  BY DEF IInv, TypeOK, Goto, Pcs
<1>2. RequestInv'
  BY DEF IInv, TypeOK, RequestInv, Goto
<1>3. (EverInv /\ Vouched /\ AcceptedJoined)'
  BY DEF IInv, EverInv, Vouched, AcceptedJoined
<1>4. QED BY <1>1, <1>2, <1>3 DEF IInv

(* An invitation that keeps its address and its author may change its      *)
(* status and expiry: accepted only once the addressee has been a member.  *)
LEMMA RowKeeps ==
  ASSUME IInv, NEW i \in Invites, invite[i] # None, NEW row \in Rows,
         row.email = invite[i].email, row.by = invite[i].by,
         row.status = "accepted" => row.email \in ever,
         invite' = [invite EXCEPT ![i] = row],
         req' = req \/ \E q \in Requests : Goto(q, "done"),
         UNCHANGED <<site, member, ever, via>>
  PROVE  IInv'
<1> USE DEF IInv
<1>1. \A p \in Requests : \/ req'[p] = req[p]
                          \/ req'[p].pc = "done"
  BY DEF TypeOK, Goto
<1>2. TypeOK'
  <2>1. req' \in [Requests -> [pc : Pcs, by : Users \union {None}, user : Users \union {None},
                              role : Roles \union {None}, invite : Invites \union {None}]]
    BY DEF TypeOK, Goto, Pcs
  <2>2. QED BY <2>1 DEF TypeOK
<1>3. /\ row # None
      /\ \A j \in Invites : invite'[j] = IF j = i THEN row ELSE invite[j]
  BY MembershipAssumption DEF TypeOK
<1>4. \A j \in Invites : (invite[j] # None) => /\ invite'[j] # None
                                              /\ invite'[j].email = invite[j].email
                                              /\ invite'[j].by = invite[j].by
  BY <1>3
<1>5. RequestInv'
  BY <1>1, <1>4 DEF RequestInv
<1>6. (EverInv /\ Vouched /\ AcceptedJoined)'
  BY <1>3 DEF EverInv, Vouched, AcceptedJoined
<1>7. QED BY <1>2, <1>5, <1>6

(* Every endpoint's checks establish what its first statement relies on. *)
LEMMA EndpointKeeps == ASSUME IInv, NEW q \in Requests, Endpoint(q) PROVE IInv'
<1> USE DEF IInv
<1>1. ASSUME NEW b \in Users, CreateSite(q, b) PROVE IInv'
  <2>1. TypeOK'
    <3>1. [req[q] EXCEPT !.pc = "owner", !.by = b] \in
             [pc : Pcs, by : Users \union {None}, user : Users \union {None},
              role : Roles \union {None}, invite : Invites \union {None}]
      BY DEF TypeOK, Pcs
    <3>2. req' = [req EXCEPT ![q] = [req[q] EXCEPT !.pc = "owner", !.by = b]]
      BY <1>1 DEF CreateSite, TypeOK
    <3>3. QED BY <1>1, <3>1, <3>2 DEF TypeOK, CreateSite
  <2>2. RequestInv'
    BY <1>1 DEF TypeOK, RequestInv, CreateSite
  <2>3. QED BY <1>1, <2>1, <2>2 DEF EverInv, Vouched, AcceptedJoined, CreateSite
<1>2. ASSUME NEW b \in Users, Delete(q, b) PROVE IInv'
  BY <1>2, BeginKeeps DEF Delete, Pcs
<1>3. ASSUME NEW b \in Users, NEW u \in Users, AddMember(q, b, u) PROVE IInv'
  BY <1>3, BeginKeeps DEF AddMember, InSite, EverInv, Pcs
<1>4. ASSUME NEW b \in Users, NEW u \in Users, RemoveMember(q, b, u) PROVE IInv'
  BY <1>4, BeginKeeps DEF RemoveMember, Pcs
<1>5. ASSUME NEW b \in Users, NEW u \in Users, NEW r \in Roles, UpdateMemberRole(q, b, u, r)
      PROVE IInv'
  BY <1>5, BeginKeeps DEF UpdateMemberRole, Pcs
<1>6. ASSUME NEW b \in Users, NEW u \in Users, NEW r \in Roles, InviteMember(q, b, u, r)
      PROVE IInv'
  BY <1>6, BeginKeeps DEF InviteMember, InSite, EverInv, Pcs
<1>7. ASSUME NEW b \in Users, NEW i \in Invites, RevokeInvite(q, b, i) PROVE IInv'
  BY <1>7, BeginKeeps DEF RevokeInvite, Pcs
<1>8. ASSUME NEW b \in Users, NEW i \in Invites, DeclineInvite(q, b, i) PROVE IInv'
  <2>1. invite[i] # None /\ invite[i] \in Rows
    BY <1>8 DEF DeclineInvite, TypeOK
  <2> DEFINE row == [invite[i] EXCEPT !.status = "declined"]
  <2>2. row \in Rows /\ row.email = invite[i].email /\ row.by = invite[i].by /\ row.status = "declined"
    BY <2>1 DEF Rows
  <2>3. invite' = [invite EXCEPT ![i] = row] /\ Goto(q, "done") /\ UNCHANGED <<site, member, ever, via>>
    BY <1>8 DEF DeclineInvite
  <2> HIDE DEF row
  <2>4. QED BY <2>1, <2>2, <2>3, RowKeeps
<1>9. ASSUME NEW b \in Users, NEW i \in Invites, AcceptInvite(q, b, i) PROVE IInv'
  BY <1>9, BeginKeeps DEF AcceptInvite, Open, TypeOK, Rows, Pcs
<1>10. QED BY <1>1, <1>2, <1>3, <1>4, <1>5, <1>6, <1>7, <1>8, <1>9 DEF Endpoint

(* Goto changes the next statement of one request. *)
LEMMA GotoReq ==
  ASSUME TypeOK, NEW q \in Requests, NEW pc \in Pcs, Goto(q, pc)
  PROVE  /\ req' \in [Requests -> [pc : Pcs, by : Users \union {None}, user : Users \union {None},
                                   role : Roles \union {None}, invite : Invites \union {None}]]
         /\ \A p \in Requests \ {q} : req'[p] = req[p]
         /\ req'[q].pc = pc /\ req'[q].user = req[q].user /\ req'[q].invite = req[q].invite
  BY DEF TypeOK, Goto

(* The three statements that insert a member: sponsored by the caller      *)
(* herself, by one who has been a member, or by the author of the          *)
(* invitation.                                                             *)
LEMMA JoinKeeps ==
  ASSUME IInv, NEW q \in Requests, NEW u \in Users, NEW r \in Roles, NEW s \in ever \union {u},
         InsertMember(u, r, s), NEW pc \in {"done", "accept"}, Goto(q, pc),
         pc = "accept" => req[q].pc = "join" /\ req[q].user = u,
         UNCHANGED <<site, invite>>
  PROVE  IInv'
<1> USE DEF IInv
<1>1. /\ member' \in [Users -> Roles \union {None}]
      /\ ever' \subseteq Users /\ ever \subseteq ever' /\ u \in ever'
      /\ via' \in [Users -> Users \union {None}]
      /\ \A v \in Users : member'[v] # None => v \in ever'
      /\ Vouched'
  BY InsertKeeps
<1>2. pc \in Pcs
  BY DEF Pcs
<1>3. TypeOK'
  BY <1>1, <1>2, GotoReq DEF TypeOK
<1>4. RequestInv'
  BY <1>1, <1>2, GotoReq DEF RequestInv
<1>5. EverInv' /\ AcceptedJoined'
  BY <1>1 DEF EverInv, AcceptedJoined
<1>6. QED BY <1>1, <1>3, <1>4, <1>5

(* Every statement of a request keeps the invariant, whatever the other    *)
(* requests did since its checks.                                          *)
LEMMA StatementKeeps == ASSUME IInv, NEW q \in Requests, Statement(q) PROVE IInv'
<1> USE DEF IInv
<1>1. CASE CreateOwner(q)
  BY <1>1, JoinKeeps DEF CreateOwner, RequestInv, Roles
<1>2. CASE DeleteUpdate(q)
  BY <1>2, GotoKeeps DEF DeleteUpdate
<1>3. CASE AddInsert(q)
  BY <1>3, JoinKeeps DEF AddInsert, RequestInv, Roles
<1>4. CASE RoleUpdate(q)
  <2>1. req[q].user \in Users /\ req[q].role \in Roles
    BY <1>4 DEF RoleUpdate, RequestInv
  <2>2. /\ member' \in [Users -> Roles \union {None}]
        /\ \A v \in Users : member'[v] # None => member[v] # None
    BY <1>4, <2>1 DEF RoleUpdate, TypeOK
  <2>3. TypeOK' /\ RequestInv'
    BY <1>4, <2>2, GotoReq DEF RoleUpdate, TypeOK, RequestInv, Pcs
  <2>4. QED BY <1>4, <2>2, <2>3 DEF RoleUpdate, EverInv, Vouched, AcceptedJoined
<1>5. CASE RemoveDelete(q)
  <2>1. /\ member' \in [Users -> Roles \union {None}]
        /\ \A v \in Users : member'[v] # None => member[v] # None
    BY <1>5 DEF RemoveDelete, TypeOK
  <2>2. TypeOK' /\ RequestInv'
    <3>1. "done" \in Pcs /\ Goto(q, "done") /\ ever' = ever
      BY <1>5 DEF RemoveDelete, Pcs
    <3>2. TypeOK'
      BY <1>5, <2>1, <3>1, GotoReq DEF RemoveDelete, TypeOK
    <3>3. RequestInv'
      BY <1>5, <3>1, GotoReq DEF RemoveDelete, RequestInv
    <3>4. QED BY <3>2, <3>3
  <2>3. QED BY <1>5, <2>1, <2>2 DEF RemoveDelete, EverInv, Vouched, AcceptedJoined
<1>6. CASE InviteNotMember(q)
  BY <1>6, GotoKeeps DEF InviteNotMember, TypeOK
<1>7. CASE InviteNotPending(q)
  BY <1>7, GotoKeeps DEF InviteNotPending, TypeOK
<1>8. ASSUME NEW i \in Invites, InviteInsert(q, i) PROVE IInv'
  <2> DEFINE row == [email |-> req[q].user, role |-> req[q].role, by |-> req[q].by,
                     status |-> "pending", expired |-> FALSE]
  <2>1. req[q].by \in ever /\ req[q].user \in Users /\ req[q].role \in Roles
    BY <1>8 DEF InviteInsert, RequestInv
  <2>2. row \in Rows /\ row.by = req[q].by /\ row.status # "accepted"
    BY <2>1 DEF Rows, TypeOK
  <2>3. invite[i] = None /\ invite' = [invite EXCEPT ![i] = row]
    BY <1>8 DEF InviteInsert
  <2> HIDE DEF row
  <2>4. \A j \in Invites : invite'[j] = IF j = i THEN row ELSE invite[j]
    BY <2>3 DEF TypeOK
  <2>5. TypeOK'
    <3>1. "done" \in Pcs /\ Goto(q, "done") /\ UNCHANGED <<site, member, ever, via>>
      BY <1>8 DEF InviteInsert, Pcs
    <3>2. invite' \in [Invites -> Rows \union {None}]
      BY <2>2, <2>3 DEF TypeOK
    <3>3. QED BY <3>1, <3>2, GotoReq DEF TypeOK
  <2>6. \A j \in Invites : (invite[j] # None) => invite'[j] = invite[j]
    BY <2>3, <2>4
  <2>7. RequestInv'
    <3>1. "done" \in Pcs /\ Goto(q, "done") /\ ever' = ever
      BY <1>8 DEF InviteInsert, Pcs
    <3>2. req'[q].pc = "done" /\ \A p \in Requests \ {q} : req'[p] = req[p]
      BY <3>1, GotoReq
    <3>3. QED BY <2>6, <3>1, <3>2 DEF RequestInv
  <2>8. (EverInv /\ Vouched /\ AcceptedJoined)'
    BY <1>8, <2>1, <2>2, <2>4 DEF InviteInsert, EverInv, Vouched, AcceptedJoined
  <2>9. QED BY <2>5, <2>7, <2>8
<1>9. CASE RevokeCheck(q)
  BY <1>9, GotoKeeps DEF RevokeCheck, TypeOK
<1>10. CASE RevokeUpdate(q)
  <2> DEFINE i == req[q].invite
             row == [invite[i] EXCEPT !.status = IF invite[i].status = "pending" THEN "revoked"
                                                 ELSE invite[i].status]
  <2>1. i \in Invites /\ invite[i] # None /\ invite[i] \in Rows
    BY <1>10 DEF RevokeUpdate, RequestInv, TypeOK
  <2>2. row \in Rows /\ row.email = invite[i].email /\ row.by = invite[i].by
    BY <2>1 DEF Rows
  <2>3. row.status = "accepted" => invite[i].status = "accepted"
    BY <2>1 DEF Rows
  <2>4. row.status = "accepted" => row.email \in ever
    BY <2>1, <2>2, <2>3 DEF AcceptedJoined
  <2>5. invite' = [invite EXCEPT ![i] = row] /\ Goto(q, "done") /\ UNCHANGED <<site, member, ever, via>>
    BY <1>10 DEF RevokeUpdate
  <2> HIDE DEF i, row
  <2>6. QED BY <2>1, <2>2, <2>4, <2>5, RowKeeps
<1>11. CASE AcceptInsert(q)
  <2>1. /\ req[q].invite \in Invites /\ invite[req[q].invite] # None
        /\ req[q].user = invite[req[q].invite].email /\ req[q].role \in Roles
    BY <1>11 DEF AcceptInsert, RequestInv
  <2>2. req[q].user \in Users /\ invite[req[q].invite].by \in ever
    BY <2>1 DEF TypeOK, Rows, EverInv
  <2>3. QED BY <1>11, <2>1, <2>2, JoinKeeps DEF AcceptInsert
<1>12. CASE AcceptUpdate(q)
  <2> DEFINE i == req[q].invite
             row == [invite[i] EXCEPT !.status = "accepted"]
  <2>1. i \in Invites /\ invite[i] # None /\ invite[i] \in Rows /\ invite[i].email \in ever
    BY <1>12 DEF AcceptUpdate, RequestInv, TypeOK
  <2>2. row \in Rows /\ row.email = invite[i].email /\ row.by = invite[i].by
    BY <2>1 DEF Rows
  <2>3. invite' = [invite EXCEPT ![i] = row] /\ Goto(q, "done") /\ UNCHANGED <<site, member, ever, via>>
    BY <1>12 DEF AcceptUpdate
  <2> HIDE DEF i, row
  <2>4. QED BY <2>1, <2>2, <2>3, RowKeeps
<1>13. CASE Fail(q)
  BY <1>13, GotoKeeps DEF Fail, TypeOK
<1>14. QED BY <1>1, <1>2, <1>3, <1>4, <1>5, <1>6, <1>7, <1>8, <1>9, <1>10, <1>11, <1>12, <1>13
           DEF Statement

(* An invitation that runs out keeps the invariant. *)
LEMMA ExpireKeeps == ASSUME IInv, NEW i \in Invites, Expire(i) PROVE IInv'
<1> USE DEF IInv
<1> DEFINE row == [invite[i] EXCEPT !.expired = TRUE]
<1>1. invite[i] # None /\ invite[i] \in Rows /\ invite[i].status = "pending"
  BY DEF Expire, Open, TypeOK
<1>2. /\ row \in Rows /\ row.email = invite[i].email /\ row.by = invite[i].by
      /\ row.status = "pending"
  BY <1>1 DEF Rows
<1>3. invite' = [invite EXCEPT ![i] = row] /\ UNCHANGED <<site, member, req, ever, via>>
  BY DEF Expire
<1> HIDE DEF row
<1>4. QED BY <1>1, <1>2, <1>3, RowKeeps

(* Signing in inserts a member of the demo site, on nobody's word. *)
LEMMA SignInKeeps == ASSUME IInv, NEW u \in Users, upsertUser(u) PROVE IInv'
<1> USE DEF IInv
<1>1. Demo /\ InsertMember(u, "viewer", None) /\ UNCHANGED <<site, invite, req>>
  BY DEF upsertUser
<1>2. /\ member' \in [Users -> Roles \union {None}]
      /\ ever' \subseteq Users /\ ever \subseteq ever'
      /\ via' \in [Users -> Users \union {None}]
      /\ \A v \in Users : member'[v] # None => v \in ever'
      /\ Vouched'
  BY <1>1, InsertKeeps DEF Roles
<1>3. TypeOK'
  BY <1>1, <1>2 DEF TypeOK
<1>4. RequestInv'
  BY <1>1, <1>2 DEF RequestInv
<1>5. EverInv' /\ AcceptedJoined'
  BY <1>1, <1>2 DEF EverInv, AcceptedJoined
<1>6. QED BY <1>2, <1>3, <1>4, <1>5

(* The invariant is inductive. *)
LEMMA NextKeeps == IInv /\ [Next]_vars => IInv'
<1>1. ASSUME IInv, UNCHANGED vars PROVE IInv'
  BY <1>1 DEF IInv, TypeOK, RequestInv, EverInv, Vouched, AcceptedJoined, vars
<1>2. QED BY <1>1, EndpointKeeps, StatementKeeps, ExpireKeeps, SignInKeeps DEF Next

(* The inductive invariant holds in every reachable state. *)
THEOREM Inductive == Spec => []IInv
  BY InitIInv, NextKeeps, PTL DEF Spec

(* The rows of one site and the requests keep their types. *)
THEOREM TypeCorrect == Spec => []TypeOK
<1>1. IInv => TypeOK
  BY DEF IInv
<1>2. QED BY <1>1, Inductive, PTL

(* Every member was let in by someone who has been a member, however the   *)
(* endpoints interleave and whoever is removed meanwhile; only into the    *)
(* demo site she may have got by signing in.                               *)
THEOREM MembersVouched == Spec => []Vouched
<1>1. IInv => Vouched
  BY DEF IInv
<1>2. QED BY <1>1, Inductive, PTL

(* No invitation reads accepted before its addressee has been a member.    *)
THEOREM AcceptedHasJoined == Spec => []AcceptedJoined
<1>1. IInv => AcceptedJoined
  BY DEF IInv
<1>2. QED BY <1>1, Inductive, PTL

(* An accepted invitation stays accepted: RevokeInvite and DeclineInvite   *)
(* only write over pending, and no endpoint deletes an invitation.         *)
THEOREM AcceptedStays == Spec => AcceptedFinal
<1> DEFINE Kept == \A i \in Invites : invite[i] # None /\ invite[i].status = "accepted" =>
                     invite'[i] # None /\ invite'[i].status = "accepted"
<1>1. ASSUME IInv, [Next]_vars PROVE Kept
  <2>1. SUFFICES ASSUME NEW i \in Invites, invite[i] # None, invite[i].status = "accepted"
                 PROVE invite'[i] # None /\ invite'[i].status = "accepted"
    OBVIOUS
  <2>2. invite[i] \in Rows /\ invite \in [Invites -> Rows \union {None}]
    BY <1>1, <2>1 DEF IInv, TypeOK
  <2>3. CASE UNCHANGED invite
    BY <2>1, <2>3
  <2>4. ASSUME NEW q \in Requests, NEW j \in Invites, InviteInsert(q, j)
        PROVE invite'[i] # None /\ invite'[i].status = "accepted"
    BY <2>1, <2>2, <2>4 DEF InviteInsert
  <2>5. ASSUME NEW q \in Requests, RevokeUpdate(q)
        PROVE invite'[i] # None /\ invite'[i].status = "accepted"
    <3>1. CASE req[q].invite = i
      <4>1. invite'[i] = [invite[i] EXCEPT !.status = "accepted"]
        BY <2>1, <2>2, <2>5, <3>1 DEF RevokeUpdate
      <4>2. invite'[i] \in Rows /\ invite'[i].status = "accepted"
        BY <2>2, <4>1 DEF Rows
      <4>3. QED BY <4>2, MembershipAssumption
    <3>2. CASE req[q].invite # i
      BY <2>1, <2>2, <2>5, <3>2 DEF RevokeUpdate
    <3>3. QED BY <3>1, <3>2
  <2>6. ASSUME NEW q \in Requests, AcceptUpdate(q)
        PROVE invite'[i] # None /\ invite'[i].status = "accepted"
    <3>1. CASE req[q].invite = i
      <4>1. invite'[i] = [invite[i] EXCEPT !.status = "accepted"]
        BY <2>2, <2>6, <3>1 DEF AcceptUpdate
      <4>2. invite'[i] \in Rows /\ invite'[i].status = "accepted"
        BY <2>2, <4>1 DEF Rows
      <4>3. QED BY <4>2, MembershipAssumption
    <3>2. CASE req[q].invite # i
      BY <2>1, <2>2, <2>6, <3>2 DEF AcceptUpdate
    <3>3. QED BY <3>1, <3>2
  <2>7. ASSUME NEW q \in Requests, NEW b \in Users, NEW j \in Invites, DeclineInvite(q, b, j)
        PROVE invite'[i] # None /\ invite'[i].status = "accepted"
    <3>1. j # i
      BY <2>1, <2>7 DEF DeclineInvite
    <3>2. QED BY <2>1, <2>2, <2>7, <3>1 DEF DeclineInvite
  <2>8. ASSUME NEW j \in Invites, Expire(j)
        PROVE invite'[i] # None /\ invite'[i].status = "accepted"
    <3>1. j # i
      BY <2>1, <2>8 DEF Expire, Open
    <3>2. QED BY <2>1, <2>2, <2>8, <3>1 DEF Expire
  <2>9. ASSUME NEW q \in Requests, Endpoint(q)
        PROVE invite'[i] # None /\ invite'[i].status = "accepted"
    BY <2>3, <2>7, <2>9
       DEF Endpoint, Begin, CreateSite, Delete, AddMember, RemoveMember, UpdateMemberRole,
           InviteMember, RevokeInvite, AcceptInvite
  <2>10. ASSUME NEW q \in Requests, Statement(q)
         PROVE invite'[i] # None /\ invite'[i].status = "accepted"
    BY <2>3, <2>4, <2>5, <2>6, <2>10
       DEF Statement, CreateOwner, DeleteUpdate, AddInsert, RoleUpdate, RemoveDelete,
           InviteNotMember, InviteNotPending, RevokeCheck, AcceptInsert, Fail
  <2>11. ASSUME NEW u \in Users, upsertUser(u)
         PROVE invite'[i] # None /\ invite'[i].status = "accepted"
    BY <2>3, <2>11 DEF upsertUser
  <2>12. QED BY <1>1, <2>3, <2>8, <2>9, <2>10, <2>11 DEF Next, vars
<1>2. IInv /\ [Next]_vars => [Kept]_vars
  BY <1>1
<1>3. QED BY <1>2, Inductive, PTL DEF Spec, AcceptedFinal

(* Only UpdateMemberRole changes the role of a member: the inserts of      *)
(* AddMember, AcceptInvite and Create do nothing on conflict.              *)
THEOREM RolesKept == Spec => RoleKept
<1> DEFINE Kept == \A u \in Users : member[u] # None /\ member'[u] \notin {member[u], None} =>
                     \E q \in Requests : RoleUpdate(q)
<1>1. ASSUME IInv, [Next]_vars PROVE Kept
  <2>1. SUFFICES ASSUME NEW u \in Users, member[u] # None, member'[u] \notin {member[u], None}
                 PROVE \E q \in Requests : RoleUpdate(q)
    OBVIOUS
  <2>2. member \in [Users -> Roles \union {None}] /\ ~UNCHANGED member
    BY <1>1, <2>1 DEF IInv, TypeOK
  <2>3. \A v, r, s : ~InsertMember(v, r, s)
    BY <2>1, <2>2 DEF InsertMember
  <2>4. ASSUME NEW q \in Requests PROVE ~RemoveDelete(q)
    BY <2>1, <2>2 DEF RemoveDelete
  <2>5. ASSUME NEW q \in Requests PROVE ~Endpoint(q)
    BY <2>2 DEF Endpoint, Begin, CreateSite, Delete, AddMember, RemoveMember, UpdateMemberRole,
                InviteMember, RevokeInvite, AcceptInvite, DeclineInvite
  <2>6. ASSUME NEW q \in Requests, Statement(q) PROVE RoleUpdate(q)
    BY <2>2, <2>3, <2>4, <2>6
       DEF Statement, CreateOwner, DeleteUpdate, AddInsert, InviteNotMember, InviteNotPending,
           InviteInsert, RevokeCheck, RevokeUpdate, AcceptInsert, AcceptUpdate, Fail
  <2>7. ASSUME NEW v \in Users PROVE ~upsertUser(v)
    BY <2>3 DEF upsertUser
  <2>8. QED BY <1>1, <2>2, <2>5, <2>6, <2>7 DEF Next, vars, Expire
<1>2. IInv /\ [Next]_vars => [Kept]_vars
  BY <1>1
<1>3. QED BY <1>2, Inductive, PTL DEF Spec, RoleKept
=============================================================================
