# ANERTiC: a TLA+ verification of the energy platform

ANERTiC is a home and site energy platform: a REST API, an OCPP 1.6 gateway for
EV chargers, an ingester for meter readings, a worker that writes insights, an
assistant, and a web application over them. This directory models the parts in
which goroutines, database statements, messages and, in the browser, requests,
timers and dialogs interleave; it checks them with TLC and proves the central
properties of the backend, of the signed-in session, of the chat and of every page
of the console with TLAPS.

## Inventory

| Part | State | Operations | What is hard |
|---|---|---|---|
| OCPP connection (`ocpp/chargepoint.go`, `ocpp/handler.go`) | `msgID`, `pending`, one channel per call, `mu`, `pendMu` | `Call`, `HandleResponse`, `Reply`, read loop, `handleOCPPMessage` | one goroutine per call and per message; late, duplicate and unknown answers; 30 s timer; disconnect |
| OCPP hub (`ocpp/hub.go`, `pkg/ocpp`) | `connections`, Redis subscriptions | `Register`, `Unregister`, `SubscribeChargePoint`, `HandleResponse`, `SendCommand` | reconnect before the old handler has left; commands overtaking each other; lost PUBLISH |
| Charger commands (`api/charger`) | `ev_chargers.*_status`, `ev_configurations`, `ev_charging_profiles`, `ev_reservations` | 17 command endpoints | reset, store and PUBLISH are separate steps; the answer comes at any time |
| OCPP handlers (`ocpp/v16`) | `ev_charging_sessions`, `ev_connectors`, `ev_chargers.status`, `ev_reservations`, `ev_authorization_tags` | `Start`, `Stop`, `MeterValues`, `StatusNotification`, `Authorize`, boot, heartbeat, firmware, diagnostics | each message in its own goroutine; cancelled contexts between statements; repeated messages |
| Sites, members, invitations (`api/site`) | `sites`, `site_members`, `site_member_invitations`, API keys | invite, accept, decline, revoke, add, change role, remove | checks and writes are separate statements; a member is removed or an invitation revoked in between |
| Authentication (`api/auth`) | `user_auth_tokens`, `user_auth_refresh_tokens`, OAuth state in Redis; the demo site's members | sign in, refresh | two refreshes with one token; three statements that can fail one by one |
| Web session and proxies (`web/app.anertic.com/app`: `lib`, `layouts`, `routes/api.$.ts`, ...) | the cookie of the browser, the pair a request works with, where the tab is | proxy, loaders, chat proxy, login, logout, the redirects | requests with the same expired cookie; a rotated pair that is dropped; redirects that chase one another |
| Web chat (`routes/chat.tsx`, `components/chat`) | messages, conversation id, `isStreaming`, `abortRef`, `isRestoring`, the URL | send, stop, select, new, delete, restore, launcher | an older stream or load ends after a newer one began |
| Assistant (`cmd/agentic`) | conversations, messages, weather cache | chat, tool loop, history | rows of a turn that are missing or interleaved; the cut at 50 messages |
| Web console pages (`routes`, `components`) | forms, dialogs, flags, fetchers, SWR entries, timers | every button that sends a request or starts a timer | answers that come after the dialog was closed, opened again, or opened for something else |
| API documentation viewer (`docs/app.js`) | folded groups, search, credentials, answers shown | fold, search, filter, authorize, try an endpoint | what is on screen is written by hand wherever the state changes |
| Devices, meters, rooms, floors (`api/device`, `api/meter`, `api/room`, `api/floor`) | the rows and their assignments | create, update, delete, assign, unassign | multi-statement updates |
| Ingest (`ingest`, `pkg/ingest`, `pkg/pipeline`) | `meter_readings`, `latest_reading` | `ProcessReading` | readings out of order |
| Insight worker (`pkg/insight`) | `insights` | hourly run per site | duplicate suppression by check-then-insert |
| WebSocket hub (`pkg/wsredis`) | rooms of sockets | join, leave, fan-out | slow reader under the lock |

They interact through the PostgreSQL rows, the Redis channel `ocpp:cp:<id>` on
which the API hands commands to whichever gateway holds the charge point, the
charge point's WebSocket, and, for the browser, the cookie and the HTTP requests
the proxies pass on. A single SQL statement is atomic; a database transaction is
only used where the code says `RunInTx`.

`PROJECT.json` lists the parts with their status, and under `hazards` what a test
would hardly reach, each at its line.

## Modules

### Backend

* **CallSpec**: what `ChargePoint.Call` promises: a call that was opened ends
  answered, by a reply the charge point made to that call, or failed.
* **OcppCall**: one connection. A caller is a goroutine in `Call`, split where the
  code takes or leaves a lock, writes, or waits: `Number`, `RegisterCall`,
  `LockWrite`, `WriteDone`/`WriteFails`, `TakeResponse`/`GiveUp`, `Return` (the
  deferred delete). A frame is a message of the charge point and then the
  goroutine handling it: `ReceiveAnswer`, `ReceiveCall`, `ReceiveMalformed`,
  `Lookup` and `Deliver` (the two halves of `HandleResponse`, which lets go of
  `pendMu` in between), `LockReply`, `ReplyDone`. `ReadFails`, `SubCancel` and
  `CloseNow` are the end of the read loop and its deferred calls.
* **CommandRelay**: the path of a command from an endpoint of `api/charger`
  through Redis, the gateway and the charge point back into the database. A
  request carries the list of steps its endpoint has left (`reset` the status,
  `store` a row, `publish`), so each endpoint is one line that gives their order;
  every step may fail (`Abort`). `Connect` to `CloseNow` are `Handler`; the `On...`
  actions are the cases of `Hub.HandleResponse`. `Call` is used by its promise,
  which `OcppCall` is proved to keep.
* **ChargingSession**: `Start`, `Stop`, `MeterValues`, `StatusNotification` and
  `Authorize` over the rows they share. A message's handler is split at its
  statements; the transaction of `Start` commits (`StartCommit`) or rolls back
  (`StartRollback`), before or after it drew a transaction id.
* **SiteMembership**: the members and invitations of one site. A request is one run
  of an endpoint of `api/site`: its checks (`InviteMember`, `AcceptInvite`, ...,
  with `InSite` and `SiteOwner` of `api/iam`) and then its statements, one action
  each (`InviteNotMember`, `InviteNotPending`, `InviteInsert`; `AcceptInsert`,
  `AcceptUpdate`; ...), any of which may fail (`Fail`). `upsertUser` of `api/auth` is
  the other way in: with `Demo`, when the site is the demo site, whoever signs in
  becomes a viewer.

### Session and chat

* **WebSession**: a browser, its cookie, its tab, the requests under way and the
  token tables of the backend. A token pair is a number. A request works on the
  cookie it was sent with: `FetchBackend`, then for a refused token the three
  statements of `RefreshToken` (`ValidateRefreshToken`, `RevokeOld`, `IssuePair`,
  or `RefreshFails` at any of them), `Retry`, which may fail and then loses the new
  pair, and the answer, which touches the
  cookie and the tab in the way of its route: `ProxyReply`, `ConsoleReply`,
  `PageReply`, `ChatReply`, `LogoutReply`. `ConsoleLoader` and `AuthLoader` are the
  layouts that redirect between `/` and `/login`; tokens expire at any moment.
* **ChatClient**: `useChat`, the chat page and the launcher. A turn is known by the
  conversation it is stored in, so what is on screen is the set of conversations
  it comes from. Streams, conversation loads and a delete are under way together;
  aborting a stream runs its `finally` with the click. A stream that is stopped,
  breaks or ends while a tool runs keeps its message and its running step (`cut`).
* **ChatHistory**: the rows `Chat` of `cmd/agentic` writes for each turn (`Save`, one
  insert each, any of which may be missing; `Cancel`), and the two algorithms that
  read them back, `loadHistory` for the model and `reconstructMessages` for the
  page, each a recursive function of the number of rows read, checked against what
  they promise.

### Console

* **Console**: the routes. One page is open at a time; `Open` mounts its component
  and `Leave` drops its state with whatever it waited for, so all pages live in
  one variable, `ui`, and their behaviours add up rather than multiply. It
  composes the page modules with `INSTANCE`. Its properties are one idea each,
  stated over all the pages that are exposed to it.
* **CommandsTab**, **ChargerDetail**, **ChargerNew**, **Reservations**,
  **ChargerSettings**, **Floors**, **RoomDialogs**, **DevicePage**, **DeviceNew**
  (both over **LocationForm**), **SiteSettings**, **Integrations**, **Dashboard**: one
  page each: `Mounts` (the states its component may start in), one action per
  handler, effect, timer or answer, and what the page guarantees. Forms and dialogs
  of a page that share no state are alternatives of its mount (`ui.sec`).
  Some of the code's habits are actions of their own because properties depend on
  them: a section of the commands tab that collapses drops its forms and leaves
  their requests out (`Collapse`, `LateAnswer`); the level of the rooms page changes
  when a navigation ends, and Back starts one at any moment (`Go`, `Back`, `NavEnds`);
  a page that has created something stays, enabled, until the navigation it started
  ends (`NavigationEnds`); a dialog that assigns devices knows their list only while
  it is open (`CloseAssign`); an effect copies the cached site into the form except
  where the site is empty (`Copied`). Requests fail before or after they had their
  effect, and a location may be left half written (`Broken`). Of a reservation only its
  presence is kept: the page's status never matches the API's, so nothing can be
  cancelled from it.
  `Dashboard` also takes the statements of `AcceptInvite` and `DeclineInvite` at the
  server, where the two buttons of a row can meet.
* **ApiDocs**: the viewer of the API documentation, served apart and composed here as
  one more page: the list of endpoints that folds, searches and filters, and the
  requests one can try with the credentials entered.
* **WebData**: external. What a React Router fetcher (one submission, superseded by
  the next) and an SWR entry (a cached answer, dropped when `mutate` overtakes it) do.

### Proofs and instances

* **OcppCallProofs**, **CommandRelayProofs**, **ChargingSessionProofs**,
  **SiteMembershipProofs**, **WebSessionProofs**, **ChatClientProofs**,
  **ConsoleProofs**: theorems. **ChargerPagesProofs**: the lemmas about the pages of
  one charger, and about cached data and fetchers, that `ConsoleProofs` rests on.
* **MC...**: the TLC instances, with the symmetry sets.

An operator whose comment begins with "Mutant" is a wrong version of the
definition after it; `PROJECT.json` says which property notices it. No
specification uses it. Where one property has a conjunct per page, there is a
mutant for each conjunct.

### Abstractions

* Payloads, ids and texts are model values; a row keeps the columns some property
  tells apart.
* External, modelled from how the code uses them: the charge point answers only
  requests it read from its current socket, with their number, as late and as
  often as it likes; go-redis may or may not end the subscription of a cancelled
  context; PostgreSQL statements are atomic and can fail; React Router and SWR as
  in `WebData`; a request of the browser answers or fails at any time.
* A click works with the values of the render it came from; where a handler awaits,
  what it does afterwards uses those values, and the setters act on whatever
  state the component is in by then.
* History variables, which no action reads to decide what the code does: `clean`
  (CommandRelay: the commands whose requests neither overlapped one another, failed
  nor got lost; the two local-list commands, which write one column, count as one),
  `stale`
  (ChargingSession: a status was written since the charger's was derived), `ever`
  and `via` (SiteMembership: who has ever been a member, and on whose word),
  `raced`, `lied`, `lost` and `odd` in the web modules: an overlap happened, or an
  answer was lost or left unread, after which the code makes no promise.
* Id tags do not change while the messages of a run are handled. A user stands for
  her address. Rooms stand one to a level in `Console`.
* Left out: the message log, logging, wording and layout; the rows inserted into
  `ev_meter_values` and `meter_readings`, which no handler reads back.

## Runs

| Run | Bounds | What it shows |
|---|---|---|
| `call` | 2 calls, 2 frames | `Correlated`, `NoAnswerLost`, `PendingExact` in every interleaving, that `OcppCall` implements `CallSpec`, and under fairness `CallReturns` and `HandlerCompletes`. Two frames are enough for an answer and its duplicate, or an answer and a foreign message. `HandlerCompletes` excepts a frame that shares its call with another: the code does leave that goroutine behind. |
| `relay_commands` | all 17 commands, 2 requests, 1 connection | `SettledStatus`: the status column of a command follows its answers, while requests for two different commands overlap in every way. `UsedNotCancelled`: a reservation and its cancellation racing the driver. |
| `relay_reconnect` | local-list commands, 2 requests, 2 connections, 2 versions | `SettledVersion`, `NoDeadEntry` over a reconnect. |
| `sessions` | 4 messages, 2 connectors, 1 tag, 1 reservation, 3 statuses | `UsedHasSession`, `ScopedTagWins`, `ClosedFinal`: Start, MeterValues, Stop and one more of any kind. `DerivedFresh`: the charger's status after concurrent notifications of two connectors. |
| `membership` | 4 requests, 2 users, 1 invitation, the demo site | `Vouched`, `AcceptedJoined`, `AcceptedFinal`, `RoleKept`: creating the site takes one request and inviting another, which leaves an accept and whatever races it; sign-ins come at any moment. A site that is not the demo site has the behaviours without them. |
| `web_session` | 2 requests at a time, 3 pairs | `PairsNotShared`, `RotatedUnspent`, and under fairness `RedirectsSettle`. Three pairs: a login and the two refreshes that can race on it, each of which can be used again. |
| `chat` | 2 streams, 2 loads, 1 delete, 3 conversations, 1 tool step | `IndicatorsTrue` (the steps of an answer that was cut while its tool ran excepted: the code lets them pulse), `OneConversation`. The third conversation tells an old one from the two that overlap. |
| `console` | two of everything a mix-up needs, `Few` = 2 calls or timers, `Some` = 3 | `NothingTwice`, `ConfirmedCommand`, `ToastNamesSent`, `SaysWhatHappened`, `SpinnersWait`, `OwnTarget`, `PagesSettle`, `SendsWhole` over the pages, `Paired` and `ShownInOrder` of the stored conversation (a window of 5 rows cuts two turns at every place). 4.5 million distinct states. Each conjunct names the cases it leaves out, where the code is stale or goes wrong: they are notes on the hazards. |

Runs that end in a counterexample, each against a line of the repository:

| Run | Line | What happens |
|---|---|---|
| `relay_list_local` | `ocpp/hub.go`: "ListLocal returns all locally connected charge point IDs." | the old handler's `Unregister` deletes the new connection's entry |
| `start_reply` | `ocpp/v16/transaction/transaction.go`: "create charging session, update connector, and reservation atomically" | the error of `RunInTx` is dropped and the charge point is told Accepted with an id no session has |
| `session_expired` | `lib/api.ts`: "Proxy returns 401 only when session is fully expired (refresh failed)" | the token of a request's own cookie was rotated by another request, or by a loader that dropped the new pair: the proxy answers 401 and destroys the cookie while a valid pair exists |
| `edit_form` | `routes/device-detail.tsx`: "Sync form when device changes or dialog opens" | the page opens the dialog through its `open` prop, which does not call the handler that fills the form |

Other states the models reach that a maintainer should know of, and that no line of
the repository denies outright, are kept as notes on the hazards: an UpdateFirmware
answered with a CallError is recorded as ok; a configuration value the charge point
refused stays stored; two overlapping invitations of one address are both inserted;
the page of pending invitations lets an accept and a decline of one invitation
overlap; a repeated StartTransaction opens a second session; a form of the commands
tab that was folded away and is back sends a second command; the name typed for a
floor goes to the floor that is active when it is saved, another one after Back; a
site or a device can be created again before the page is left; no reservation can be
cancelled from its page; the step of a tool goes on pulsing in an answer that was
stopped.

Deadlock checking is off where the model has finitely many requests or messages and
stops when they are done (the OCPP and membership runs); the web models never stop.

### Fairness

`call` and `web_session` need it.

`OcppCall`: weak fairness of each goroutine's next step. The Go scheduler runs what
can run, the 30 s timer fires (`GiveUp`), and a write ends, because the peer drains
the socket or the write fails. The code puts no deadline on a write; against a peer
that neither reads nor goes away `CallReturns` does not hold, and the hazard list
says so. Nothing is assumed of the charge point: it may never answer.

`WebSession`: weak fairness of the loader a redirect leads to and of each step the
servers take for a request (`Serve`). Nothing is assumed of the user, of expiry, or
of a step failing before the bound on pairs is reached.

## Proofs

For every number of calls, frames, messages, tags, connectors, reservations,
requests, users, invitations, token pairs, streams, conversations, floors, rooms,
devices and configuration keys, and for every value of the bounds:

* **OcppCallProofs**. `Correlated` and `NoAnswerLost` are not inductive. The
  invariant `IInv` adds that numbers of calls are distinct and at most `msgID`,
  that `pending` holds exactly the calls in flight under their own numbers
  (`PendingExact`), that an answer is about a request that was written, and that
  a channel holds, and `HandleResponse` targets it with, only answers to its owner.
  The argument for correlation: an answer carries the number of the request it is
  about; that number is in `pending` only under the caller that has it
  (`LookupFinds`). From `IInv`: `TypeCorrect`, `CallsCorrelated`, `AnswersKept`,
  `NoPendingLeak`, and `Implements`, the refinement of `CallSpec` step by step.
  Assumption: `None` is neither a caller nor a frame.
* **CommandRelayProofs**. `IInv` adds to the types what an endpoint can have left
  (`RequestInv`) and that a goroutine runs only for a published request, on a
  registered connection, and remembers an answer to its command (`CallInv`).
  `UsedStaysUsed` goes through the steps that write a reservation. `StatusSettles` and
  `VersionSettles` say that commands do not disturb one another, and need `CleanInv`:
  as long as the requests for a command have neither overlapped one another, failed
  nor got lost, one of them is active at most (`AloneInv`), what the gateway has
  still to write down is the latest answer (`LatestInv`), and a column that is not
  right yet has a request for its command under way (`StatusInv`, `VersionInv`).
  Every step belongs to one request (`StepOf`); what it leaves of the invariant to
  the others is shown once, for a step that makes its command unclean or finds it so
  (`Tainted`) and for one that does not (`StillClean`), so that each action has only
  its own command left to prove. `StatusIsEarned` speaks of overlapping and failing
  requests as well: a status that is ok or error is the outcome of an answer the
  charge point gave to that very command, because a conclusion is never taken back
  (`EarnedKept`). Assumption: `None` is no request, connection, argument or action.
* **ChargingSessionProofs**. `SessionsKept` is the key: sessions are only added
  (a new id is above every id in use) and keep tag and reservation; a closed one
  keeps everything but what a repeated `Stop` rewrites. `ReservationsAccounted`
  follows from it; `ScopedTagDecides` needs `AuthorizedInv`, which also speaks of
  the handlers that have validated a tag and not yet inserted the session;
  `ClosedStaysFinal` is the action property. `DerivedStaysFresh`: unless something is
  `stale`, the charger shows what the CASE of the query gives (`FreshInv`) or a
  notification has still to derive it; and that CASE follows the documented order. Assumptions: power readings are natural numbers,
  `None` is no id and no status.
* **SiteMembershipProofs**. What a check established may be stale when the
  statement runs; `RequestInv` says what survives: the caller has been a member,
  the invitation still exists for the same address, and past its insert the
  addressee has been a member. With `EverInv` (members and authors of invitations
  have been members) it makes `Vouched` and `AcceptedJoined` inductive. The action
  properties `AcceptedFinal` and `RoleKept` follow action by action. `Vouched` lets a
  member without a sponsor be only in the demo site; where `Demo` is false it is the
  unconditional statement. Assumptions:
  `None` is no user, invitation, role or row; `Demo` is a Boolean.
* **WebSessionProofs**. `SessionInv` adds to the types that every pair in the cookie
  or in a request has been issued (`InUseIssued`), so that a new pair is held by
  nobody; what the place of a request says of its pairs (`PairsOfState`); and that
  a new pair is unspent from the moment it is issued (`NewUnspent`), not only once
  its answer is under way. With them `PairsNotShared` is inductive, and since only
  the request that holds a pair revokes it, `RotatedUnspent` follows. Assumption:
  at least one pair, finitely many requests.
* **ChatClientProofs**. `StepsInv` (a stream has one running step while its tool
  runs, or ran when the stream was cut, and none otherwise) and `FlagInv` (a flag that is set has the stream or the load it speaks of)
  give `IndicatorsStayTrue`. `ConversationsStayApart` needs `CalmInv`: as long as nothing
  overlapped there is one stream or load at most, and the stream under way is the
  one the page shows, alone (`ShownInv`); and `AwayInv`, that leaving the page leaves
  nothing of it behind. Assumptions: `None` is no stream or conversation, streams and loads are
  finite sets, the bound on steps is a number.
* **ConsoleProofs**, over **ChargerPagesProofs**. `ConsoleInv` gives the page that is
  open the invariant of its own module, so that each page is proved by itself:
  what its invariant implies (`...Holds`), that every way of mounting it starts
  there (`...Mounts`), that its steps stay there (`...Step`). None of the properties
  is inductive. The recurring strengthenings are: `Fresh` (cached data are those
  of the server, or the answer with them or the question for them is on its way),
  which makes the pages settle; a flag is set exactly while the call it speaks of
  is out, which makes spinners wait and keeps requests one at a time; and a form, while its
  dialog is open, goes with the target that was chosen when it opened, which keeps
  one room's or key's text from another. On the dashboard the invariant is stated
  per invitation (`Straight`), because the answers of different rows interleave
  freely. The history variables of the page modules (`raced`, `odd`, `crossed`,
  `superseded`, ...) appear only as hypotheses: the invariants say nothing of what
  the code itself does not promise. On the rooms page the key is that, when
  nothing raced, the page is at, or on its way to, a level the server keeps or level 0
  (`FloorsLevel`), and that a level 0 without a floor is being left (`FloorsLeaves`).
  `ToastsNameWhatWasSent` is an action property and needs that a form has at most one
  command out (`OneCommand`). `CreationsWhole` says nothing of how often something is
  created: requests are out one at a time, and whole.
  `HistoryPaired` and `HistoryShownInOrder` are about loops. The induction over the
  rows read so far is done with sets (`UpTo`: the numbers up to the end are all in
  the set of those at which the loop's invariant holds, or the least that is not
  gives a contradiction), as no induction theorem can be cited; `LoopRuns` shows that
  the recursive function has a value at all. The invariant of the first loop of
  `loadHistory` (`Collected`) is that what counts as answered has its result among the
  messages and that no result stands before a message with its call; its step
  needs that a call is stored once (`CallsOnce`, inductive with what each turn has still
  to write), and that filtering keeps order (`OnlyPicks`). That of `reconstructMessages`
  is that the messages so far, the open one included, are the texts so far.
  Assumptions
  (`ConsoleAssumption`): there is a text to type, `None` is no key and no level,
  the levels are a finite set of integers with 0, a room stands on each of some
  levels, at least one call may be out.

Only model-checked: the liveness properties (`CallReturns`, `HandlerCompletes`,
`RedirectsSettle`; fairness is out of the prover's reach). Every other
property of a run that passes is the statement of a theorem.

## Not modelled

* Pages that only read: overview, insights, lists, sessions, log and analytics of a
  charger, the sidebar. They draw cached answers or generated sample data.
* Search boxes, panels that keep nothing when folded, notification switches and buttons that only show a
  toast on the modelled pages; the interface components; the marketing site;
  `conversation-sidebar.tsx`, which nothing imports; of the documentation viewer the
  cards, tabs, scrolling and theme.
* The exchange with the sign-in provider in `api/auth`, the LLM and memory clients, and listing or
  aggregating queries: input and output, or no state of their own.
* Still open: see the plan.

## Plan

1. Ingest, device status and the insight worker; the WebSocket hub; the weather cache.
2. OCPP meter values: the mapping of measurands and units; tag edits; boot,
   heartbeat, firmware and diagnostics notifications; charger registry.
3. Devices, meters, rooms and floors of the API: assignment invariants, and the
   pages of the console composed with them as `Dashboard` is with `AcceptInvite`.
