----------------------------- MODULE WebSession -----------------------------
(* The signed-in session of a browser: the token pair in the cookie            *)
(* (sessions.server.ts), the requests that use it (the API proxy api.$.ts, the *)
(* loaders through api(), the chat proxies), the refresh of an expired pair by *)
(* tryRefreshToken and the backend's RefreshToken, and the document loads that *)
(* the layouts redirect between the console and the login page.                *)
(*                                                                             *)
(* A pair is a number: pair g is access token g and refresh token g, always    *)
(* written to the cookie together; 0 is a cookie without tokens.  A request    *)
(* works on the cookie it was sent with; its answer touches the cookie when it *)
(* arrives, in any order with the answers of other requests.                   *)
EXTENDS Naturals, FiniteSets

CONSTANTS
  Reqs,      \* requests that may be under way at the same time
  MaxPair    \* bound: pairs issued in a behaviour

ASSUME SessionAssumption == MaxPair \in Nat \ {0} /\ IsFiniteSet(Reqs)

VARIABLES
  cookie,    \* the pair in the browser's cookie
  access,    \* user_auth_tokens: the state of each access token
  refresh,   \* user_auth_refresh_tokens
  req,       \* the requests
  tab        \* what the tab shows, or where it is being redirected

vars == <<cookie, access, refresh, req, tab>>

Pairs == 1..MaxPair
Kinds == {"proxy", "console", "page", "chat", "logout"}
Idle == [kind |-> "proxy", pc |-> "idle", pair |-> 0, new |-> 0]

Unissued == {g \in Pairs : access[g] = "none"}
NextPair(g) == g \in Unissued /\ \A h \in Unissued : g <= h

TypeOK ==
  /\ cookie \in 0..MaxPair
  /\ access \in [Pairs -> {"none", "valid", "expired"}]
  /\ refresh \in [Pairs -> {"none", "valid", "expired", "revoked"}]
  /\ req \in [Reqs -> [kind : Kinds, pair : 0..MaxPair, new : 0..MaxPair,
                       pc : {"idle", "check", "validate", "revoke", "issue", "retry",
                             "ok", "failed", "rotated", "refused"}]]
  /\ tab \in {"login", "toLogin", "toConsole", "loading", "console", "error"}

Init ==
  /\ cookie = 0
  /\ access = [g \in Pairs |-> "none"] /\ refresh = [g \in Pairs |-> "none"]
  /\ req = [r \in Reqs |-> Idle]
  /\ tab = "login"

Step(r, pc) == req' = [req EXCEPT ![r].pc = pc]
Done(r) == req' = [req EXCEPT ![r] = Idle]
\* A document that is being replaced redirects no more.
ToLogin == tab' = IF tab = "console" THEN "toLogin" ELSE tab

-----------------------------------------------------------------------------
(* The tokens expire with time.                                                *)

ExpireAccess(g) ==
  /\ access[g] = "valid" /\ access' = [access EXCEPT ![g] = "expired"]
  /\ UNCHANGED <<cookie, refresh, req, tab>>

ExpireRefresh(g) ==
  /\ access[g] = "expired" /\ refresh[g] = "valid"
  /\ refresh' = [refresh EXCEPT ![g] = "expired"]
  /\ UNCHANGED <<cookie, access, req, tab>>

(* ProviderCallback issues a pair, the login callback commits it and goes to / *)
Login(g) ==
  /\ tab = "login" /\ NextPair(g)
  /\ access' = [access EXCEPT ![g] = "valid"]
  /\ refresh' = [refresh EXCEPT ![g] = "valid"]
  /\ cookie' = g /\ tab' = "toConsole"
  /\ UNCHANGED req

(* The loader of the login layout: a visitor with tokens belongs in the console *)
AuthLoader ==
  /\ tab = "toLogin"
  /\ tab' = IF cookie # 0 THEN "toConsole" ELSE "login"
  /\ UNCHANGED <<cookie, access, refresh, req>>

-----------------------------------------------------------------------------
(* Requests.                                                                   *)

Send(r, kind, pc) ==
  /\ req[r].pc = "idle"
  /\ req' = [req EXCEPT ![r] = [kind |-> kind, pc |-> pc, pair |-> cookie, new |-> 0]]

(* The loader of the console layout: without a token it redirects at once.     *)
ConsoleLoader(r) ==
  /\ tab = "toConsole"
  /\ \/ cookie = 0 /\ tab' = "toLogin" /\ UNCHANGED req
     \/ cookie # 0 /\ tab' = "loading" /\ Send(r, "console", "check")
  /\ UNCHANGED <<cookie, access, refresh>>

Reload ==
  /\ \/ tab = "login" /\ tab' = "toLogin"
     \/ tab \in {"console", "error"} /\ tab' = "toConsole"
  /\ UNCHANGED <<cookie, access, refresh, req>>

(* fetcher and chatFetcher in the browser, a client navigation whose loader    *)
(* runs on the server, and the log out form.                                   *)
Fetch(r, kind) ==
  /\ tab = "console"
  /\ Send(r, kind, IF kind = "logout" THEN "ok" ELSE "check")
  /\ UNCHANGED <<cookie, access, refresh, tab>>

(* fetchBackend, isAuthError: a good token gives an answer, another one leads  *)
(* to a refresh when the session has a refresh token.  The chat proxy never    *)
(* refreshes a token it has: the refusal of the chat service passes through.   *)
(* Whatever the token, the call itself may fail; the loader or proxy throws.   *)
FetchBackend(r) ==
  /\ req[r].pc = "check"
  /\ LET g == req[r].pair IN
     \/ g # 0 /\ access[g] = "valid" /\ Step(r, "ok")
     \/ g # 0 /\ access[g] # "valid"
        /\ Step(r, IF req[r].kind = "chat" THEN "refused" ELSE "validate")
     \/ g = 0 /\ Step(r, "refused")
     \/ Step(r, "failed")
  /\ UNCHANGED <<cookie, access, refresh, tab>>

(* RefreshToken of the backend: three statements, each of which may fail.      *)
ValidateRefreshToken(r) ==
  /\ req[r].pc = "validate"
  /\ Step(r, IF refresh[req[r].pair] = "valid" THEN "revoke" ELSE "refused")
  /\ UNCHANGED <<cookie, access, refresh, tab>>

(* Mutant: a refresh revokes every token of the user.                          *)
RevokeAll(r) ==
  /\ req[r].pc = "revoke"
  /\ refresh' = [g \in Pairs |-> IF refresh[g] = "valid" THEN "revoked" ELSE refresh[g]]
  /\ Step(r, "issue")
  /\ UNCHANGED <<cookie, access, tab>>

RevokeOld(r) ==
  /\ req[r].pc = "revoke"
  /\ refresh' = [refresh EXCEPT ![req[r].pair] = "revoked"]
  /\ Step(r, "issue")
  /\ UNCHANGED <<cookie, access, tab>>

Issue(r, g, told) ==
  /\ req[r].pc = "issue" /\ NextPair(g)
  /\ access' = [access EXCEPT ![g] = "valid"]
  /\ refresh' = [refresh EXCEPT ![g] = "valid"]
  /\ req' = [req EXCEPT ![r].pc = "retry", ![r].new = told]
  /\ UNCHANGED <<cookie, tab>>

(* Mutants: the answer repeats the old pair, or names a pair never issued.     *)
IssueKeepsOld(r, g) == Issue(r, g, req[r].pair)
IssueOffByOne(r, g) == Issue(r, g, g + 1)

IssuePair(r, g) == Issue(r, g, g)

(* tryRefreshToken answers null for every failure; one is sure to come when    *)
(* the bound on pairs is reached.                                              *)
RefreshFails(r) ==
  /\ req[r].pc \in {"validate", "revoke", "issue"}
  /\ Step(r, "refused")
  /\ UNCHANGED <<cookie, access, refresh, tab>>

(* The second fetchBackend: the proxy commits the new pair whatever the        *)
(* backend says, api() only with a good answer.  Both throw when the call      *)
(* itself fails, and the new pair is lost.                                     *)
Retry(r) ==
  /\ req[r].pc = "retry"
  /\ \/ (access[req[r].new] = "valid" \/ req[r].kind = "proxy") /\ Step(r, "rotated")
     \/ Step(r, "failed")
  /\ UNCHANGED <<cookie, access, refresh, tab>>

-----------------------------------------------------------------------------
(* The answer reaches the browser.                                             *)

(* The proxy: a rotated pair is committed; a refused session is destroyed and  *)
(* the 401 sends the document to /login; a failure leaves the cookie.          *)
ProxyReply(r) ==
  /\ req[r].kind = "proxy"
  /\ \/ req[r].pc \in {"ok", "failed"} /\ UNCHANGED <<cookie, tab>>
     \/ req[r].pc = "rotated" /\ cookie' = req[r].new /\ UNCHANGED tab
     \/ req[r].pc = "refused" /\ cookie' = 0 /\ ToLogin
  /\ Done(r)
  /\ UNCHANGED <<access, refresh>>

(* Mutant: the redirect to /login leaves the cookie.                           *)
ConsoleKeepsCookie(r) ==
  /\ req[r].kind = "console"
  /\ \/ req[r].pc \in {"ok", "rotated"} /\ tab' = "console"
     \/ req[r].pc = "failed" /\ tab' = "error"
     \/ req[r].pc = "refused" /\ tab' = "toLogin"
  /\ Done(r)
  /\ UNCHANGED <<cookie, access, refresh>>

(* The console loader drops the headers of api(), and with them a rotated      *)
(* pair; a refused session is destroyed and redirected.                        *)
ConsoleReply(r) ==
  /\ req[r].kind = "console"
  /\ \/ req[r].pc \in {"ok", "rotated"} /\ tab' = "console" /\ UNCHANGED cookie
     \/ req[r].pc = "failed" /\ tab' = "error" /\ UNCHANGED cookie
     \/ req[r].pc = "refused" /\ cookie' = 0 /\ tab' = "toLogin"
  /\ Done(r)
  /\ UNCHANGED <<access, refresh>>

(* The page loaders drop the headers and catch every error, the redirect of a  *)
(* refused session included; they show the page without data.                  *)
PageReply(r) ==
  /\ req[r].kind = "page" /\ req[r].pc \in {"ok", "rotated", "failed", "refused"}
  /\ Done(r)
  /\ UNCHANGED <<cookie, access, refresh, tab>>

(* The chat proxies leave the session alone: the stream passes the 401 of the  *)
(* chat service on, the other calls fail to parse it and only throw.           *)
ChatReply(r) ==
  /\ req[r].kind = "chat" /\ req[r].pc \in {"ok", "refused", "failed"}
  /\ \/ req[r].pc = "refused" /\ ToLogin
     \/ (req[r].pc # "refused" \/ req[r].pair # 0) /\ UNCHANGED tab
  /\ Done(r)
  /\ UNCHANGED <<cookie, access, refresh>>

LogoutReply(r) ==
  /\ req[r].kind = "logout" /\ req[r].pc = "ok"
  /\ cookie' = 0 /\ ToLogin
  /\ Done(r)
  /\ UNCHANGED <<access, refresh>>

(* A document load abandons the answers the old document waited for; what the  *)
(* server does for them goes on.                                               *)
Abandon(r) ==
  /\ tab \in {"toLogin", "toConsole", "loading"}
  /\ req[r].kind # "console" /\ req[r].pc \in {"ok", "rotated", "refused", "failed"}
  /\ Done(r)
  /\ UNCHANGED <<cookie, access, refresh, tab>>

Serve(r) ==
  \/ FetchBackend(r) \/ ValidateRefreshToken(r) \/ RevokeOld(r) \/ Retry(r)
  \/ \E g \in Pairs : IssuePair(r, g)
  \/ Unissued = {} /\ RefreshFails(r)
  \/ ProxyReply(r) \/ ConsoleReply(r) \/ PageReply(r) \/ ChatReply(r) \/ LogoutReply(r)

Next ==
  \/ \E g \in Pairs : ExpireAccess(g) \/ ExpireRefresh(g) \/ Login(g)
  \/ AuthLoader \/ Reload
  \/ \E r \in Reqs : \/ ConsoleLoader(r) \/ Serve(r) \/ RefreshFails(r) \/ Abandon(r)
                     \/ \E kind \in Kinds \ {"console"} : Fetch(r, kind)

Fairness ==
  /\ WF_vars(AuthLoader)
  /\ WF_vars(\E r \in Reqs : ConsoleLoader(r))
  /\ \A r \in Reqs : WF_vars(Serve(r))

Spec == Init /\ [][Next]_vars /\ Fairness

-----------------------------------------------------------------------------
(* Properties.                                                                 *)

(* An answer under way with a rotated pair, and the cookie it will write, is   *)
(* as good as new: nobody else holds that pair, so no other request can have   *)
(* spent its refresh token meanwhile (api.$.ts: session.set after              *)
(* tryRefreshToken, commitSession after the retry).                            *)
RotatedUnspent ==
  \A r \in Reqs : req[r].pc = "rotated" => refresh[req[r].new] # "revoked"

(* A pair has one way into the browser: no two answers under way carry it, and *)
(* an answer that carries it finds it neither in the cookie nor in a request.  *)
PairsNotShared ==
  \A r \in Reqs : req[r].new # 0 =>
    /\ cookie # req[r].new
    /\ \A q \in Reqs : req[q].pair # req[r].new /\ (q # r => req[q].new # req[r].new)

(* The redirects of the layouts, the proxies and the fetchers come to rest: a  *)
(* tab sent to /login or to / ends on a page, whatever state its tokens are in *)
(* (auth.tsx sends it back while the cookie holds a token, console.tsx and the *)
(* 401 send it away when the backend refuses that token).                      *)
RedirectsSettle == (tab \in {"toLogin", "toConsole", "loading"}) ~> (tab \in {"login", "console", "error"})

(* lib/api.ts: "Proxy returns 401 only when session is fully expired".  Said   *)
(* of the 401 about to be sent: the session has no other pair left that could  *)
(* still be refreshed.                                                         *)
Only401WhenExpired ==
  \A r \in Reqs : req[r].kind = "proxy" /\ req[r].pc = "refused"
                 => \A g \in Pairs \ {req[r].pair} : refresh[g] # "valid"

=============================================================================
