------------------------------ MODULE Console ------------------------------
(* The console of the web application (routes.ts): one page is open at a time; *)
(* opening a page mounts its component with the data its loaders bring, and    *)
(* leaving it drops the component's state and whatever the page still waited   *)
(* for.  The pages are the modules below, each over the same variable; the     *)
(* viewer of the API documentation, served apart, is one more.                 *)
EXTENDS Integers, FiniteSets

CONSTANTS
  Texts, Blank, None,    \* what a user may type, the empty text, nothing chosen
  Tags, Keys, People,    \* id tags, configuration keys, members and invited people
  Levels,                \* levels a floor may have
  Rooms, NoRoom, NoLevel,
  Devices, Providers,
  Few, Some              \* bounds: calls, timers or things made on one visit

ASSUME ConsoleAssumption ==
  /\ Texts # {} /\ None \notin Keys
  /\ Levels \subseteq Int /\ IsFiniteSet(Levels) /\ 0 \in Levels /\ None \notin Levels
  /\ Rooms \subseteq Levels \ {NoLevel} /\ NoRoom \notin Rooms
  /\ Few \in Nat \ {0} /\ Some \in Nat /\ Some > Few

VARIABLES route, ui

vars == <<route, ui>>

(* Rooms stand one to a level here.                                            *)
RoomLevel == [r \in Rooms |-> r]

Commands == INSTANCE CommandsTab WITH Values <- Texts, MaxGone <- Few
Charger == INSTANCE ChargerDetail WITH NoTag <- None, MaxTx <- Few
NewCharger == INSTANCE ChargerNew WITH Ids <- Texts, MaxTimers <- Few
Reserve == INSTANCE Reservations WITH Ids <- 1..Few, Conns <- {1}, MaxCalls <- Few
ChargerConf == INSTANCE ChargerSettings WITH NoKey <- None, TagIds <- Tags, NoTag <- None, MaxCalls <- Few
Building == INSTANCE Floors WITH Nowhere <- None, MaxCalls <- 1
RoomPage == INSTANCE RoomDialogs WITH RoomIds <- Rooms, NoTarget <- None, MaxCalls <- Few
Device == INSTANCE DevicePage
NewDevice == INSTANCE DeviceNew
Site == INSTANCE SiteSettings WITH MaxCalls <- Few, MaxKey <- Some
Conversation == INSTANCE ChatHistory WITH Turns <- 1..Few, Window <- Some + 2
Services == INSTANCE Integrations WITH NoProvider <- None, MaxId <- Some + 1
Docs == INSTANCE ApiDocs WITH Groups <- People, Creds <- {CHOOSE t \in Texts : TRUE},
                              Endpoints <- {"open", "bearer", "basic"}
Arrival == INSTANCE Dashboard WITH Invites <- People, NoInvite <- None, MaxCalls <- Few

Routes == {"commands", "charger", "newCharger", "reservations", "chargerSettings", "floors",
           "rooms", "device", "newDevice", "siteSettings", "integrations", "chat",
           "dashboard", "docs"}

Mounts(r) ==
  CASE r = "commands" -> Commands!Mounts
    [] r = "charger" -> Charger!Mounts
    [] r = "newCharger" -> NewCharger!Mounts
    [] r = "reservations" -> Reserve!Mounts
    [] r = "chargerSettings" -> ChargerConf!Mounts
    [] r = "floors" -> Building!Mounts
    [] r = "rooms" -> RoomPage!Mounts
    [] r = "device" -> Device!Mounts
    [] r = "newDevice" -> NewDevice!Mounts
    [] r = "siteSettings" -> Site!Mounts
    [] r = "integrations" -> Services!Mounts
    [] r = "chat" -> Conversation!Mounts
    [] r = "dashboard" -> Arrival!Mounts
    [] r = "docs" -> Docs!Mounts

NoPage == [page |-> "none"]

(* No page, as before the first and between two of them.                       *)
Init == route = "home" /\ ui = NoPage

Open(r) == route = "home" /\ route' = r /\ ui' \in Mounts(r)

Leave == route # "home" /\ route' = "home" /\ ui' = NoPage

On(r) == route = r /\ UNCHANGED route

Next ==
  \/ \E r \in Routes : Open(r)
  \/ Leave
  \/ On("commands") /\ Commands!Next
  \/ On("charger") /\ Charger!Next
  \/ On("newCharger") /\ NewCharger!Next
  \/ On("reservations") /\ Reserve!Next
  \/ On("chargerSettings") /\ ChargerConf!Next
  \/ On("floors") /\ Building!Next
  \/ On("rooms") /\ RoomPage!Next
  \/ On("device") /\ Device!Next
  \/ On("newDevice") /\ NewDevice!Next
  \/ On("siteSettings") /\ Site!Next
  \/ On("integrations") /\ Services!Next
  \/ On("chat") /\ Conversation!Next
  \/ On("dashboard") /\ Arrival!Next
  \/ On("docs") /\ Docs!Next

Spec == Init /\ [][Next]_vars

-----------------------------------------------------------------------------
(* Properties: what the modules of the pages state, each on its page.          *)

(* The state is that of the page that is open: no handler of one page leaves   *)
(* state another page's component would not start or go on with.               *)
TypeOK ==
  /\ route = "home" <=> ui = NoPage
  /\ route = "commands" => Commands!TypeOK
  /\ route = "charger" => Charger!TypeOK
  /\ route = "newCharger" => NewCharger!TypeOK
  /\ route = "reservations" => Reserve!TypeOK
  /\ route = "chargerSettings" => ChargerConf!TypeOK
  /\ route = "floors" => Building!TypeOK
  /\ route = "rooms" => RoomPage!TypeOK
  /\ route = "device" => Device!TypeOK
  /\ route = "newDevice" => NewDevice!TypeOK
  /\ route = "siteSettings" => Site!TypeOK
  /\ route = "integrations" => Services!TypeOK
  /\ route = "chat" => Conversation!TypeOK
  /\ route = "dashboard" => Arrival!TypeOK
  /\ route = "docs" => Docs!TypeOK

(* A click has its effect once, although dialogs are left, opened again and    *)
(* opened for something else while a request or a timer runs: a form of the    *)
(* commands tab has one command out (commands-tab.tsx; a form that was folded  *)
(* away and is back is another one), one room is being deleted                 *)
(* (room-dialogs.tsx), a provider is connected once (integrations.tsx).        *)
NothingTwice ==
  /\ route = "commands" => Commands!OneCommand
  /\ route = "rooms" => RoomPage!OneRoomDelete
  /\ route = "integrations" => Services!ProvidersUnique

(* A destructive command leaves the tab only after a yes to the very values    *)
(* it carries (commands-tab.tsx).                                              *)
ConfirmedCommand == route = "commands" => Commands!ConfirmedCommand

(* A success toast of the tab names what the charger was sent, not what the    *)
(* form holds when the answer comes (commands-tab.tsx).                        *)
ToastNamesSent == [][On("commands") => Commands!ToastNamesSent]_vars

(* What a page announces is what happened at the server: a transaction started *)
(* or stopped (charger-detail.tsx), a connector reserved (reservations.tsx),   *)
(* an invitation declined (pending-invites.tsx, invite.go), the one showing of *)
(* an API key (settings.tsx), the credentials a request is sent with           *)
(* (docs/app.js); each module names the overlaps after which the code does     *)
(* announce something else.                                                    *)
SaysWhatHappened ==
  /\ route = "charger" => Charger!DialogsTruthful
  /\ route = "reservations" => Reserve!ReserveToastTrue
  /\ route = "dashboard" => Arrival!AnswersTruthful
  /\ route = "siteSettings" => Site!KeyShownIsLive
  /\ route = "docs" => Docs!AuthShown

(* A spinner turns for something that is under way: a start or a stop          *)
(* (charger-detail.tsx), a sync (integrations.tsx).                            *)
SpinnersWait ==
  /\ route = "charger" => Charger!SpinnerWaits
  /\ route = "integrations" => Services!SyncShown

(* What was typed for one thing never goes to another, although one form or    *)
(* field serves them all and outlives its closing: configuration keys          *)
(* (settings.tsx of the charger), rooms (room-dialogs.tsx).  The name of a     *)
(* floor has no such property: it goes to the floor shown when it is saved.    *)
OwnTarget ==
  /\ route = "chargerSettings" => ChargerConf!SavesOwnKey
  /\ route = "rooms" => RoomPage!EditsOwnRoom

(* With nothing under way a page agrees with the server, in whatever order     *)
(* dialogs were closed and answers came: reservations, tags, rooms, a device,  *)
(* the settings of a site, invitations; the header of the rooms page with the  *)
(* rooms below it; the folded groups of the documentation with what is         *)
(* remembered of them.  Each module names the cases the code leaves stale: a   *)
(* lost answer, an emptied field, a dialog that was closed too early.          *)
PagesSettle ==
  /\ route = "reservations" => Reserve!ReservationsSettle
  /\ route = "chargerSettings" => ChargerConf!TagsSettle
  /\ route = "floors" => Building!HeaderOwnsRooms
  /\ route = "rooms" => RoomPage!RoomsSettle
  /\ route = "device" => Device!DeviceSettles
  /\ route = "siteSettings" => Site!SettingsSettle
  /\ route = "dashboard" => Arrival!InvitesSettle
  /\ route = "docs" => Docs!GroupsRestored

(* What is created or placed is whole, by one request at a time, whichever way *)
(* the user went through the steps while a request was out: a charger          *)
(* (charger-new.tsx), a location (device-detail.tsx), a device                 *)
(* (device-new.tsx), a site (site-create.tsx).                                 *)
SendsWhole ==
  /\ route = "newCharger" => NewCharger!RegistersNamed
  /\ route = "device" => Device!LocationWhole
  /\ route = "newDevice" => NewDevice!CreatesWhole
  /\ route = "dashboard" => Arrival!CreatesNamed

(* device-detail.tsx:462 "Sync form when device changes or dialog opens": an   *)
(* edit dialog nobody has typed in shows the device.                           *)
EditFormFresh == route = "device" => Device!EditFormFresh

(* handler.go:347 "Every tool_use must have a tool_result and vice versa":     *)
(* whatever rows of a turn were not written, however two turns interleave      *)
(* and wherever the window cuts, the history handed to the model pairs them.   *)
Paired == route = "chat" => Conversation!Paired

(* Opening a conversation again shows every stored question and answer once,   *)
(* in order (chat.tsx).                                                        *)
ShownInOrder == route = "chat" => Conversation!ShownInOrder

=============================================================================
