-------------------------- MODULE WebSessionProofs --------------------------
(* The token pairs of WebSession for any number of requests and pairs.         *)
EXTENDS WebSession, TLAPS

(* Pairs that are anywhere in use have been issued, so that a new one is held  *)
(* by nobody.                                                                  *)
InUseIssued ==
  /\ cookie # 0 => access[cookie] # "none"
  /\ \A r \in Reqs : req[r].pair # 0 => access[req[r].pair] # "none"
  /\ \A r \in Reqs : req[r].new # 0 => access[req[r].new] # "none"

(* What the state of a request says of its pairs.                              *)
PairsOfState ==
  \A r \in Reqs :
    /\ req[r].pc \in {"validate", "revoke", "issue"} => req[r].pair # 0
    /\ req[r].pc \in {"retry", "rotated"} => req[r].new # 0

NewUnspent == \A r \in Reqs : req[r].new # 0 => refresh[req[r].new] # "revoked"

(* The inductive invariant: PairsNotShared is inductive only with InUseIssued, *)
(* and RotatedUnspent has to hold from the moment the pair is issued.          *)
SessionInv == TypeOK /\ InUseIssued /\ PairsOfState /\ PairsNotShared /\ NewUnspent

-----------------------------------------------------------------------------

(* The browser starts without tokens and without requests.                     *)
LEMMA InitSession == Init => SessionInv
<1>. SUFFICES ASSUME Init PROVE SessionInv
  OBVIOUS
<1>1. TypeOK
  BY SessionAssumption DEF Init, TypeOK, Idle, Kinds, Pairs
<1>2. InUseIssued /\ PairsOfState /\ PairsNotShared /\ NewUnspent
  BY DEF Init, InUseIssued, PairsOfState, PairsNotShared, NewUnspent, Idle
<1>. QED
  BY <1>1, <1>2 DEF SessionInv

(* A step that touches a request only at its place in the code, and neither    *)
(* its pairs nor the cookie nor the tokens.                                    *)
LEMMA StepSession ==
  ASSUME SessionInv, NEW r \in Reqs,
         NEW pc \in {"ok", "failed", "rotated", "refused", "validate", "revoke", "issue"},
         Step(r, pc),
         pc \in {"validate", "revoke", "issue"} => req[r].pair # 0,
         pc = "rotated" => req[r].new # 0,
         UNCHANGED <<cookie, access, refresh, tab>>
  PROVE  SessionInv'
<1>1. TypeOK'
  BY DEF SessionInv, TypeOK, Step
<1>2. \A q \in Reqs : /\ req'[q].pair = req[q].pair /\ req'[q].new = req[q].new
                      /\ q # r => req'[q].pc = req[q].pc
                      /\ req'[r].pc = pc
  BY DEF SessionInv, TypeOK, Step
<1>3. InUseIssued' /\ PairsNotShared' /\ NewUnspent'
  BY <1>2 DEF SessionInv, InUseIssued, PairsNotShared, NewUnspent
<1>4. PairsOfState'
  BY <1>2 DEF SessionInv, PairsOfState
<1>. QED
  BY <1>1, <1>3, <1>4 DEF SessionInv

(* An answer that reaches the browser ends its request, whether it leaves the  *)
(* cookie, empties it or writes the pair it carries.                           *)
LEMMA ReplySession ==
  ASSUME SessionInv, NEW r \in Reqs, Done(r),
         cookie' = cookie \/ cookie' = 0 \/ cookie' = req[r].new,
         tab' = tab \/ tab' \in {"toLogin", "console", "error"},
         UNCHANGED <<access, refresh>>
  PROVE  SessionInv'
<1>1. Idle \in [kind : Kinds, pair : 0..MaxPair, new : 0..MaxPair,
                pc : {"idle", "check", "validate", "revoke", "issue", "retry",
                      "ok", "failed", "rotated", "refused"}]
  BY SessionAssumption DEF Idle, Kinds
<1>2. TypeOK'
  <2>1. cookie' \in 0..MaxPair
    BY SessionAssumption DEF SessionInv, TypeOK
  <2>. QED
    BY <1>1, <2>1 DEF SessionInv, TypeOK, Done
<1>3. /\ \A q \in Reqs \ {r} : req'[q] = req[q]
      /\ req'[r] = Idle
  BY DEF SessionInv, TypeOK, Done
<1>4. Idle.new = 0 /\ Idle.pair = 0 /\ Idle.pc = "idle"
  BY DEF Idle
<1>5. InUseIssued'
  BY <1>3, <1>4 DEF SessionInv, InUseIssued
<1>6. PairsOfState' /\ NewUnspent'
  BY <1>3, <1>4 DEF SessionInv, PairsOfState, NewUnspent
<1>7. PairsNotShared'
  BY <1>3, <1>4 DEF SessionInv, PairsNotShared
<1>. QED
  BY <1>2, <1>5, <1>6, <1>7 DEF SessionInv

(* A request leaves with the pair of the cookie.                               *)
LEMMA SendSession ==
  ASSUME SessionInv, NEW r \in Reqs, NEW kind \in Kinds, NEW pc \in {"check", "ok"},
         Send(r, kind, pc), tab' = tab \/ tab' = "loading",
         UNCHANGED <<cookie, access, refresh>>
  PROVE  SessionInv'
<1>1. TypeOK'
  BY SessionAssumption DEF SessionInv, TypeOK, Send
<1>2. /\ \A q \in Reqs \ {r} : req'[q] = req[q]
      /\ req'[r].pair = cookie /\ req'[r].new = 0 /\ req'[r].pc = pc
  BY DEF SessionInv, TypeOK, Send
<1>3. InUseIssued'
  BY <1>2 DEF SessionInv, InUseIssued
<1>4. PairsOfState' /\ NewUnspent'
  BY <1>2 DEF SessionInv, PairsOfState, NewUnspent
<1>5. PairsNotShared'
  BY <1>2 DEF SessionInv, PairsNotShared
<1>. QED
  BY <1>1, <1>3, <1>4, <1>5 DEF SessionInv

(* Only the tab moves.                                                         *)
LEMMA TabSession ==
  ASSUME SessionInv, tab' \in {"login", "toLogin", "toConsole"},
         UNCHANGED <<cookie, access, refresh, req>>
  PROVE  SessionInv'
BY DEF SessionInv, TypeOK, InUseIssued, PairsOfState, PairsNotShared, NewUnspent

-----------------------------------------------------------------------------
(* The steps that change the tokens                                            *)

(* Expiry makes no token unissued and revokes none.                            *)
LEMMA ExpirySession ==
  ASSUME SessionInv, NEW g \in Pairs, ExpireAccess(g) \/ ExpireRefresh(g)
  PROVE  SessionInv'
<1>1. TypeOK'
  BY DEF SessionInv, TypeOK, ExpireAccess, ExpireRefresh
<1>2. \A h \in Pairs : /\ access[h] # "none" => access'[h] # "none"
                       /\ refresh[h] # "revoked" => refresh'[h] # "revoked"
  BY DEF SessionInv, TypeOK, ExpireAccess, ExpireRefresh
<1>3. UNCHANGED <<cookie, req>>
  BY DEF ExpireAccess, ExpireRefresh
<1>4. cookie \in 0..MaxPair /\ \A r \in Reqs : req[r].pair \in 0..MaxPair /\ req[r].new \in 0..MaxPair
  BY DEF SessionInv, TypeOK
<1>5. \A h \in 0..MaxPair : h # 0 => h \in Pairs
  BY SessionAssumption DEF Pairs
<1>6. InUseIssued' /\ NewUnspent'
  BY <1>2, <1>3, <1>4, <1>5 DEF SessionInv, InUseIssued, NewUnspent
<1>7. PairsOfState' /\ PairsNotShared'
  BY <1>3 DEF SessionInv, PairsOfState, PairsNotShared
<1>. QED
  BY <1>1, <1>6, <1>7 DEF SessionInv

(* Logging in puts a pair into the cookie that no answer carries.              *)
LEMMA LoginSession ==
  ASSUME SessionInv, NEW g \in Pairs, Login(g)
  PROVE  SessionInv'
<1>1. TypeOK'
  BY SessionAssumption DEF SessionInv, TypeOK, Login, Pairs
<1>2. access[g] = "none"
  BY DEF Login, NextPair, Unissued
<1>3. \A r \in Reqs : (req[r].new # 0 => req[r].new # g) /\ (req[r].pair # 0 => req[r].pair # g)
  BY <1>2 DEF SessionInv, InUseIssued
<1>4. /\ \A h \in Pairs : h # g => access'[h] = access[h] /\ refresh'[h] = refresh[h]
      /\ access'[g] = "valid" /\ refresh'[g] = "valid" /\ cookie' = g /\ req' = req
  BY DEF SessionInv, TypeOK, Login
<1>5. \A h \in 0..MaxPair : h # 0 => h \in Pairs
  BY SessionAssumption DEF Pairs
<1>6. \A r \in Reqs : req[r].pair \in 0..MaxPair /\ req[r].new \in 0..MaxPair
  BY DEF SessionInv, TypeOK
<1>7. InUseIssued' /\ NewUnspent'
  BY <1>3, <1>4, <1>5, <1>6 DEF SessionInv, InUseIssued, NewUnspent
<1>8. PairsOfState' /\ PairsNotShared'
  BY <1>3, <1>4 DEF SessionInv, PairsOfState, PairsNotShared
<1>. QED
  BY <1>1, <1>7, <1>8 DEF SessionInv

(* A refresh token is revoked for the pair of a request, which no answer       *)
(* carries as its new one.                                                     *)
LEMMA RevokeSession ==
  ASSUME SessionInv, NEW r \in Reqs, RevokeOld(r)
  PROVE  SessionInv'
<1>1. TypeOK'
  BY DEF SessionInv, TypeOK, RevokeOld, Step
<1>2. \A q \in Reqs : /\ req'[q].pair = req[q].pair /\ req'[q].new = req[q].new
                      /\ q # r => req'[q].pc = req[q].pc
                      /\ req'[r].pc = "issue"
  BY DEF SessionInv, TypeOK, RevokeOld, Step
<1>3. UNCHANGED <<cookie, access, tab>> /\ req[r].pc = "revoke"
  BY DEF RevokeOld
<1>4. InUseIssued' /\ PairsNotShared'
  BY <1>2, <1>3 DEF SessionInv, InUseIssued, PairsNotShared
<1>5. PairsOfState'
  BY <1>2, <1>3 DEF SessionInv, PairsOfState
<1>6. \A h : h # req[r].pair => refresh'[h] = refresh[h]
  BY DEF SessionInv, TypeOK, RevokeOld
<1>7. \A q \in Reqs : req[q].new # 0 => req[q].new # req[r].pair
  BY DEF SessionInv, PairsNotShared
<1>8. NewUnspent'
  BY <1>2, <1>6, <1>7 DEF SessionInv, NewUnspent
<1>. QED
  BY <1>1, <1>4, <1>5, <1>8 DEF SessionInv

(* A pair just issued is in nobody's hands but the request's.                  *)
LEMMA IssueSession ==
  ASSUME SessionInv, NEW r \in Reqs, NEW g \in Pairs, IssuePair(r, g)
  PROVE  SessionInv'
<1>1. g \in 0..MaxPair /\ g # 0 /\ access[g] = "none"
  BY SessionAssumption DEF Pairs, IssuePair, Issue, NextPair, Unissued
<1>2. TypeOK'
  <2>1. access' \in [Pairs -> {"none", "valid", "expired"}] /\ refresh' \in [Pairs -> {"none", "valid", "expired", "revoked"}]
    BY <1>1 DEF SessionInv, TypeOK, IssuePair, Issue
  <2>2. req' \in [Reqs -> [kind : Kinds, pair : 0..MaxPair, new : 0..MaxPair,
                         pc : {"idle", "check", "validate", "revoke", "issue", "retry",
                               "ok", "failed", "rotated", "refused"}]]
    <3> DEFINE row == [req[r] EXCEPT !.pc = "retry", !.new = g]
    <3>1. row \in [kind : Kinds, pair : 0..MaxPair, new : 0..MaxPair,
                  pc : {"idle", "check", "validate", "revoke", "issue", "retry",
                        "ok", "failed", "rotated", "refused"}]
      BY <1>1 DEF SessionInv, TypeOK
    <3>2. req' = [req EXCEPT ![r] = row]
      BY DEF IssuePair, Issue, SessionInv, TypeOK
    <3> HIDE DEF row
    <3>3. QED BY <3>1, <3>2 DEF SessionInv, TypeOK
  <2>3. QED BY <2>1, <2>2 DEF SessionInv, TypeOK, IssuePair, Issue
<1>3. /\ \A h \in Pairs : h # g => access'[h] = access[h] /\ refresh'[h] = refresh[h]
      /\ access'[g] = "valid" /\ refresh'[g] = "valid" /\ cookie' = cookie
  BY DEF SessionInv, TypeOK, IssuePair, Issue
<1>4. /\ \A q \in Reqs \ {r} : req'[q] = req[q]
      /\ req'[r].pair = req[r].pair /\ req'[r].new = g /\ req'[r].pc = "retry"
  BY DEF SessionInv, TypeOK, IssuePair, Issue
<1>5. /\ cookie # g
      /\ \A q \in Reqs : req[q].pair # g /\ req[q].new # g
  BY <1>1 DEF SessionInv, InUseIssued
<1>6. cookie \in 0..MaxPair /\ \A q \in Reqs : req[q].pair \in 0..MaxPair /\ req[q].new \in 0..MaxPair
  BY DEF SessionInv, TypeOK
<1>7. \A h \in 0..MaxPair : h # 0 => h \in Pairs
  BY SessionAssumption DEF Pairs
<1>8. InUseIssued'
  BY <1>3, <1>4, <1>6, <1>7 DEF SessionInv, InUseIssued
<1>9. PairsOfState'
  BY <1>1, <1>4 DEF SessionInv, PairsOfState
<1>10. PairsNotShared'
  BY <1>3, <1>4, <1>5 DEF SessionInv, PairsNotShared
<1>11. NewUnspent'
  BY <1>3, <1>4, <1>6, <1>7 DEF SessionInv, NewUnspent
<1>. QED
  BY <1>2, <1>8, <1>9, <1>10, <1>11 DEF SessionInv

-----------------------------------------------------------------------------

(* Every step keeps the invariant.                                             *)
LEMMA NextSession == SessionInv /\ [Next]_vars => SessionInv'
<1>. SUFFICES ASSUME SessionInv, [Next]_vars PROVE SessionInv'
  OBVIOUS
<1>1. CASE UNCHANGED vars
  BY <1>1 DEF vars, SessionInv, TypeOK, InUseIssued, PairsOfState, PairsNotShared, NewUnspent
<1>2. ASSUME NEW g \in Pairs, ExpireAccess(g) \/ ExpireRefresh(g) \/ Login(g) PROVE SessionInv'
  BY <1>2, ExpirySession, LoginSession
<1>3. CASE AuthLoader \/ Reload
  BY <1>3, TabSession DEF AuthLoader, Reload
<1>4. ASSUME NEW r \in Reqs, ConsoleLoader(r) PROVE SessionInv'
  <2>1. CASE cookie = 0 /\ tab' = "toLogin" /\ UNCHANGED req
    BY <1>4, <2>1, TabSession DEF ConsoleLoader
  <2>2. CASE cookie # 0 /\ tab' = "loading" /\ Send(r, "console", "check")
    BY <1>4, <2>2, SendSession DEF ConsoleLoader, Kinds
  <2>. QED
    BY <1>4, <2>1, <2>2 DEF ConsoleLoader
<1>5. ASSUME NEW r \in Reqs, NEW kind \in Kinds \ {"console"}, Fetch(r, kind) PROVE SessionInv'
  BY <1>5, SendSession DEF Fetch
<1>6. ASSUME NEW r \in Reqs, Abandon(r) PROVE SessionInv'
  BY <1>6, ReplySession DEF Abandon
<1>7. ASSUME NEW r \in Reqs, RefreshFails(r) PROVE SessionInv'
  BY <1>7, StepSession DEF RefreshFails
<1>8. ASSUME NEW r \in Reqs, FetchBackend(r) PROVE SessionInv'
  <2>1. UNCHANGED <<cookie, access, refresh, tab>>
    BY <1>8 DEF FetchBackend
  <2>2. CASE Step(r, "ok") \/ Step(r, "refused") \/ Step(r, "failed")
    BY <2>1, <2>2, StepSession
  <2>3. CASE req[r].pair # 0 /\ Step(r, "validate")
    BY <2>1, <2>3, StepSession
  <2>. QED
    BY <1>8, <2>2, <2>3 DEF FetchBackend
<1>9. ASSUME NEW r \in Reqs, ValidateRefreshToken(r) PROVE SessionInv'
  <2>1. UNCHANGED <<cookie, access, refresh, tab>> /\ req[r].pair # 0
    BY <1>9 DEF ValidateRefreshToken, SessionInv, PairsOfState
  <2>2. Step(r, "revoke") \/ Step(r, "refused")
    BY <1>9 DEF ValidateRefreshToken
  <2>. QED
    BY <2>1, <2>2, StepSession
<1>10. ASSUME NEW r \in Reqs, Retry(r) PROVE SessionInv'
  <2>1. UNCHANGED <<cookie, access, refresh, tab>> /\ req[r].new # 0
    BY <1>10 DEF Retry, SessionInv, PairsOfState
  <2>2. Step(r, "rotated") \/ Step(r, "failed")
    BY <1>10 DEF Retry
  <2>. QED
    BY <2>1, <2>2, StepSession
<1>11. ASSUME NEW r \in Reqs,
              ProxyReply(r) \/ ConsoleReply(r) \/ PageReply(r) \/ ChatReply(r) \/ LogoutReply(r)
       PROVE  SessionInv'
  <2>1. Done(r) /\ UNCHANGED <<access, refresh>>
    BY <1>11 DEF ProxyReply, ConsoleReply, PageReply, ChatReply, LogoutReply
  <2>2. cookie' = cookie \/ cookie' = 0 \/ cookie' = req[r].new
    BY <1>11 DEF ProxyReply, ConsoleReply, PageReply, ChatReply, LogoutReply
  <2>3. tab' = tab \/ tab' \in {"toLogin", "console", "error"}
    BY <1>11 DEF ProxyReply, ConsoleReply, PageReply, ChatReply, LogoutReply, ToLogin
  <2>. QED
    BY <2>1, <2>2, <2>3, ReplySession
<1>. QED
  BY <1>1, <1>2, <1>3, <1>4, <1>5, <1>6, <1>7, <1>8, <1>9, <1>10, <1>11,
     RevokeSession, IssueSession DEF Next, Serve

(* The invariant holds in every state the browser and the backend reach.       *)
LEMMA AlwaysSession == Spec => []SessionInv
BY InitSession, NextSession, PTL DEF Spec

(* Cookie, tokens, requests and tab keep their types (sessions.server.ts,      *)
(* auth.go), whatever requests overlap.                                        *)
THEOREM SessionTyped == Spec => []TypeOK
<1>1. SessionInv => TypeOK
  BY DEF SessionInv
<1>. QED
  BY <1>1, AlwaysSession, PTL

(* No two answers carry the same pair, and none carries the pair of the cookie *)
(* or of a request, for any number of requests that refresh at the same time   *)
(* (api.$.ts, api.server.ts).                                                  *)
THEOREM PairsNeverShared == Spec => []PairsNotShared
<1>1. SessionInv => PairsNotShared
  BY DEF SessionInv
<1>. QED
  BY <1>1, AlwaysSession, PTL

(* The pair an answer is about to write to the cookie has a refresh token      *)
(* nobody has spent (api.$.ts: commitSession after the retry).                 *)
THEOREM RotatedNeverSpent == Spec => []RotatedUnspent
<1>1. SessionInv => RotatedUnspent
  BY DEF SessionInv, NewUnspent, PairsOfState, RotatedUnspent
<1>. QED
  BY <1>1, AlwaysSession, PTL

=============================================================================
