---------------------------- MODULE CommandRelay ----------------------------
(***************************************************************************)
(* Commands from the REST API to one charge point and back into the        *)
(* database: the endpoints of api/charger, SendCommand (pkg/ocpp), the     *)
(* connection life cycle of ocpp/handler.go, and Hub (ocpp/hub.go).        *)
(*                                                                         *)
(* A request is a run of one endpoint.  Its statements on the database and *)
(* its PUBLISH are separate steps: other requests and the gateway          *)
(* interleave with them, and any of them may fail.  Redis hands a          *)
(* published command to every subscription there is at that moment, and    *)
(* the gateway runs each in a goroutine of its own, so commands overtake   *)
(* one another.  ChargePoint.Call is used by its promise (CallSpec): it    *)
(* ends with the charge point's answer to it or fails.                     *)
(*                                                                         *)
(* External: the charge point reads its current socket only, carries out   *)
(* or refuses each command, and answers a refusal of the protocol with a   *)
(* CallError.                                                              *)
(***************************************************************************)
EXTENDS Naturals, Sequences

CONSTANTS
  Requests,  \* runs of API endpoints
  Conns,     \* connections the charge point makes over time
  Actions,   \* the commands that are requested
  Args,      \* list versions, configuration values, profile/reservation ids
  None

ASSUME RelayAssumption == None \notin Requests \union Conns \union Args \union Actions

VARIABLES
  req,          \* req[q]: command, argument and the steps the endpoint has left
  status,       \* ev_chargers.<command>_status
  listVersion,  \* ev_chargers.local_list_version, None for 0
  config,       \* ev_configurations.value of one key, None if absent
  profiles,     \* ev_charging_profiles: ids stored
  reservation,  \* ev_reservations.status by reservation_id
  conn,         \* conn[k]: how far Handler has got with connection k
  connections,  \* Hub.connections[chargePointID]
  subs,         \* connections subscribed to the charge point's channel
  call,         \* call[q][k]: the goroutine running request q on k
  wire,         \* <<q, k>>: requests written and not yet read
  current,      \* the socket the charge point uses, or None
  cp,           \* what the charge point itself holds
  last,         \* last[a]: the charge point's latest answer to a command a
  clean         \* commands whose requests neither overlapped, failed nor got lost

db   == <<status, listVersion, config, profiles, reservation>>
hub  == <<conn, connections, subs>>
peer == <<wire, current, cp, last>>
vars == <<req, db, hub, call, peer, clean>>

-----------------------------------------------------------------------------
(* The commands with a status column; the other three have none. *)
Tracked == Actions \ {"GetConfiguration", "ReserveNow", "CancelReservation"}

ApiSteps == {"reset", "store", "publish"}

CallStates == {"none", "queued", "waiting", "replied", "stored", "done"}

ConnStates == {"none", "accepted", "open", "lost", "cancelled", "unregistered", "closed"}

Replies == {"Accepted", "Rejected", "Scheduled", "RebootRequired", "Unlocked", "Data", "CallError"}

(* External: the statuses OCPP 1.6 lets a charge point answer with. *)
RepliesTo(a) ==
  CASE a = "UnlockConnector"     -> {"Unlocked", "Rejected", "CallError"}
    [] a = "ChangeAvailability"  -> {"Accepted", "Scheduled", "Rejected", "CallError"}
    [] a = "ChangeConfiguration" -> {"Accepted", "RebootRequired", "Rejected", "CallError"}
    [] a \in {"UpdateFirmware", "GetDiagnostics", "GetLocalListVersion", "GetConfiguration"}
                                 -> {"Data", "CallError"}
    [] OTHER                     -> {"Accepted", "Rejected", "CallError"}

CarriedOut(r) == r \notin {"Rejected", "CallError"}

(* The commands whose answers write the list version. *)
ListCommands == Actions \intersect {"GetLocalListVersion", "SendLocalList"}

(* The commands that write what a writes; no others concern it. *)
Alike(a) == IF a \in ListCommands THEN ListCommands ELSE {a}

(* Nothing is under way for the commands A: no endpoint, no goroutine, no  *)
(* request in a socket.                                                    *)
Quiet(A) ==
  \A q \in Requests : req[q].action \in A =>
    /\ req[q].left = <<>>
    /\ \A k \in Conns : call[q][k].state \in {"none", "done"} /\ <<q, k>> \notin wire

Init ==
  /\ req = [q \in Requests |-> [action |-> None, arg |-> None, left |-> <<>>]]
  /\ status = [a \in Tracked |-> "pending"]
  /\ listVersion = None
  /\ config = None
  /\ profiles = {}
  /\ reservation = [x \in Args |-> "none"]
  /\ conn = [k \in Conns |-> "none"]
  /\ connections = None
  /\ subs = {}
  /\ call = [q \in Requests |-> [k \in Conns |-> [state |-> "none", status |-> None, data |-> None]]]
  /\ wire = {}
  /\ current = None
  /\ cp = [version |-> None, config |-> None, reserved |-> {}]
  /\ last = [a \in Actions |-> None]
  /\ clean = Actions

-----------------------------------------------------------------------------
(* The endpoints of api/charger.  Each checks the charger row and the      *)
(* caller's membership of its site, then runs its statements in order.     *)
Begin(q, a, x, steps) ==
  /\ a \in Actions
  /\ req[q].action = None
  /\ req' = [req EXCEPT ![q] = [action |-> a, arg |-> x, left |-> steps]]
  /\ clean' = IF Quiet(Alike(a)) THEN clean ELSE clean \ Alike(a)
  /\ UNCHANGED <<db, hub, call, peer>>

GetLocalListVersion(q)     == Begin(q, "GetLocalListVersion", None, <<"reset", "publish">>)
SendLocalList(q, x)        == Begin(q, "SendLocalList", x, <<"reset", "publish">>)
(* Mutant: the endpoint publishes first and resets the status after. *)
UnlockPublishFirst(q)      == Begin(q, "UnlockConnector", None, <<"publish", "reset">>)

UnlockConnector(q)         == Begin(q, "UnlockConnector", None, <<"reset", "publish">>)
ChangeAvailability(q)      == Begin(q, "ChangeAvailability", None, <<"reset", "publish">>)
ClearCache(q)              == Begin(q, "ClearCache", None, <<"reset", "publish">>)
GetConfiguration(q)        == Begin(q, "GetConfiguration", None, <<"publish">>)
ChangeConfiguration(q, x)  == Begin(q, "ChangeConfiguration", x, <<"reset", "store", "publish">>)
UpdateFirmware(q)          == Begin(q, "UpdateFirmware", None, <<"store", "reset", "publish">>)
GetDiagnostics(q)          == Begin(q, "GetDiagnostics", None, <<"store", "reset", "publish">>)
SetChargingProfile(q, x)   == Begin(q, "SetChargingProfile", x, <<"store", "reset", "publish">>)
ClearChargingProfile(q, x) == Begin(q, "ClearChargingProfile", x, <<"store", "reset", "publish">>)
GetCompositeSchedule(q)    == Begin(q, "GetCompositeSchedule", None, <<"reset", "publish">>)
ReserveNow(q, x)           == Begin(q, "ReserveNow", x, <<"store", "publish">>)
CancelReservation(q, x)    == Begin(q, "CancelReservation", x, <<"publish">>)
TriggerMessage(q)          == Begin(q, "TriggerMessage", None, <<"reset", "publish">>)
RemoteStart(q)             == Begin(q, "RemoteStartTransaction", None, <<"publish">>)
RemoteStop(q)              == Begin(q, "RemoteStopTransaction", None, <<"publish">>)

NextStep(q, step) ==
  /\ req[q].left # <<>>
  /\ Head(req[q].left) = step
  /\ req' = [req EXCEPT ![q].left = Tail(@)]

(* update ev_chargers set <command>_status = 0 *)
Reset(q) ==
  /\ NextStep(q, "reset")
  /\ status' = [status EXCEPT ![req[q].action] = "pending"]
  /\ UNCHANGED <<listVersion, config, profiles, reservation, hub, call, peer, clean>>

(* What the endpoint writes before the charge point has seen the command.  *)
(* ClearChargingProfile without an id deletes every profile; the row       *)
(* UpdateFirmware and GetDiagnostics insert into ev_firmware_updates is    *)
(* not looked at again by anything here.                                   *)
Store(q) ==
  LET a == req[q].action
      x == req[q].arg
  IN  /\ NextStep(q, "store")
      /\ config' = IF a = "ChangeConfiguration" THEN x ELSE config
      /\ profiles' = CASE a = "SetChargingProfile" -> profiles \union {x}
                       [] a = "ClearChargingProfile" /\ x # None -> profiles \ {x}
                       [] a = "ClearChargingProfile" /\ x = None -> {}
                       [] OTHER -> profiles
      /\ reservation' = IF a = "ReserveNow"
                          THEN [reservation EXCEPT ![x] = "Reserved"] ELSE reservation
      /\ UNCHANGED <<status, listVersion, hub, call, peer, clean>>

(* PUBLISH reaches whoever is subscribed now; nobody is not an error. *)
SendCommand(q) ==
  /\ NextStep(q, "publish")
  /\ call' = [call EXCEPT ![q] =
                [k \in Conns |-> IF k \in subs THEN [@[k] EXCEPT !.state = "queued"] ELSE @[k]]]
  /\ clean' = IF subs # {} THEN clean ELSE clean \ Alike(req[q].action)
  /\ UNCHANGED <<db, hub, peer>>

(* A statement or the PUBLISH fails: the endpoint returns the error. *)
Abort(q) ==
  /\ req[q].left # <<>>
  /\ req' = [req EXCEPT ![q].left = <<>>]
  /\ clean' = clean \ Alike(req[q].action)
  /\ UNCHANGED <<db, hub, call, peer>>

-----------------------------------------------------------------------------
(* Handler: one connection of the charge point, from Accept to CloseNow. *)

(* The charge point dials; a socket it had before is dead to it, though    *)
(* the gateway may not know yet.                                           *)
Connect(k) ==
  /\ conn[k] = "none"
  /\ conn' = [conn EXCEPT ![k] = "accepted"]
  /\ current' = k
  /\ UNCHANGED <<req, db, connections, subs, call, wire, cp, last, clean>>

Register(k) ==
  /\ conn[k] = "accepted"
  /\ connections' = k
  /\ conn' = [conn EXCEPT ![k] = "open"]
  /\ UNCHANGED <<req, db, subs, call, peer, clean>>

(* SubscribeChargePoint runs in a goroutine started after Register. *)
Subscribe(k) ==
  /\ conn[k] \notin {"none", "accepted"}
  /\ k \notin subs
  /\ subs' = subs \union {k}
  /\ UNCHANGED <<req, db, conn, connections, call, peer, clean>>

(* The subscription of a cancelled connection may end or live on: the      *)
(* Redis client decides.                                                   *)
SubscriptionEnds(k) ==
  /\ conn[k] \in {"cancelled", "unregistered", "closed"}
  /\ k \in subs
  /\ subs' = subs \ {k}
  /\ UNCHANGED <<req, db, conn, connections, call, peer, clean>>

(* conn.Read fails; the deferred subCancel, Unregister and CloseNow follow. *)
Leave(k, from, to) ==
  /\ conn[k] = from
  /\ conn' = [conn EXCEPT ![k] = to]
  /\ UNCHANGED <<req, db, subs, call, wire, cp, last, clean>>

ReadFails(k) ==
  /\ Leave(k, "open", "lost")
  /\ current' = IF current = k THEN None ELSE current
  /\ UNCHANGED connections

SubCancel(k) ==
  /\ Leave(k, "lost", "cancelled")
  /\ UNCHANGED <<connections, current>>

(* Mutant: the handler leaves without its entry being deleted. *)
UnregisterForgotten(k) ==
  /\ Leave(k, "cancelled", "unregistered")
  /\ UNCHANGED <<connections, current>>

(* delete(h.connections, chargePointID): by identity, whoever is there. *)
Unregister(k) ==
  /\ Leave(k, "cancelled", "unregistered")
  /\ connections' = None
  /\ UNCHANGED current

CloseNow(k) ==
  /\ Leave(k, "unregistered", "closed")
  /\ UNCHANGED <<connections, current>>

-----------------------------------------------------------------------------
(* The goroutine SubscribeChargePoint starts for a command. *)
Write(q, k) ==
  /\ call[q][k].state = "queued"
  /\ conn[k] # "closed"
  /\ call' = [call EXCEPT ![q][k].state = "waiting"]
  /\ wire' = wire \union {<<q, k>>}
  /\ UNCHANGED <<req, db, hub, current, cp, last, clean>>

(* Call returns an error, or a statement of HandleResponse fails: logged,  *)
(* nothing is written.                                                     *)
CommandFails(q, k) ==
  /\ call[q][k].state \in {"queued", "waiting", "replied", "stored"}
  /\ call' = [call EXCEPT ![q][k].state = "done"]
  /\ clean' = clean \ Alike(req[q].action)
  /\ UNCHANGED <<req, db, hub, peer>>

(* External: the charge point reads a request from its socket, carries it  *)
(* out or not, and answers.  The Call may have given up already.           *)
Execute(q, k, r) ==
  LET a == req[q].action
      x == req[q].arg
  IN  /\ <<q, k>> \in wire
      /\ current = k
      /\ r \in RepliesTo(a)
      /\ wire' = wire \ {<<q, k>>}
      /\ last' = [last EXCEPT ![a] = r]
      /\ cp' = [cp EXCEPT
           !.version  = IF a = "SendLocalList" /\ CarriedOut(r) THEN x ELSE @,
           !.config   = IF a = "ChangeConfiguration" /\ CarriedOut(r) THEN x ELSE @,
           !.reserved = CASE a = "ReserveNow" /\ CarriedOut(r) -> @ \union {x}
                          [] a = "CancelReservation" /\ CarriedOut(r) -> @ \ {x}
                          [] OTHER -> @]
      /\ call' = IF call[q][k].state # "waiting" THEN call
                 ELSE [call EXCEPT ![q][k] =
                        [state |-> "replied", status |-> r,
                         data |-> CASE a = "GetLocalListVersion" -> cp.version
                                    [] a = "GetConfiguration" -> cp.config
                                    [] OTHER -> None]]
      /\ UNCHANGED <<req, db, hub, current, clean>>

(* External: the driver uses a reservation the charge point holds; its     *)
(* StartTransaction marks the row Used if it is still Reserved.            *)
UseReservation(x) ==
  /\ current # None
  /\ x \in cp.reserved
  /\ cp' = [cp EXCEPT !.reserved = @ \ {x}]
  /\ reservation' = [reservation EXCEPT ![x] = IF @ = "Reserved" THEN "Used" ELSE @]
  /\ UNCHANGED <<req, status, listVersion, config, profiles, hub, call, wire,
                 current, last, clean>>

-----------------------------------------------------------------------------
(* Hub.HandleResponse, one operator per case. *)

(* The Call of q on k returned an answer to a command a. *)
Answered(q, k, a) == req[q].action = a /\ call[q][k].state = "replied"

Parsed(q, k) == call[q][k].status # "CallError"

Done(q, k) ==
  /\ call' = [call EXCEPT ![q][k].state = "done"]
  /\ UNCHANGED <<req, hub, peer, clean>>

(* Mutant: the column takes the status string of the answer itself. *)
OnStatusRaw(q, k, a, good) ==
  /\ Answered(q, k, a)
  /\ status' = IF ~Parsed(q, k) THEN status
               ELSE [status EXCEPT ![a] = call[q][k].status]
  /\ Done(q, k)
  /\ UNCHANGED <<listVersion, config, profiles, reservation>>

(* Cases that only turn the answer into a status; an answer that does not  *)
(* parse, which a CallError never does, leaves the status as it is.        *)
OnStatus(q, k, a, good) ==
  /\ Answered(q, k, a)
  /\ status' = IF ~Parsed(q, k) THEN status
               ELSE [status EXCEPT ![a] = IF call[q][k].status \in good THEN "ok" ELSE "error"]
  /\ Done(q, k)
  /\ UNCHANGED <<listVersion, config, profiles, reservation>>

OnUnlockConnector(q, k)      == OnStatus(q, k, "UnlockConnector", {"Unlocked"})
OnChangeAvailability(q, k)   == OnStatus(q, k, "ChangeAvailability", {"Accepted", "Scheduled"})
OnClearCache(q, k)           == OnStatus(q, k, "ClearCache", {"Accepted"})
OnSetChargingProfile(q, k)   == OnStatus(q, k, "SetChargingProfile", {"Accepted"})
OnClearChargingProfile(q, k) == OnStatus(q, k, "ClearChargingProfile", {"Accepted"})
OnGetCompositeSchedule(q, k) == OnStatus(q, k, "GetCompositeSchedule", {"Accepted"})
OnTriggerMessage(q, k)       == OnStatus(q, k, "TriggerMessage", {"Accepted"})
OnRemoteStart(q, k)          == OnStatus(q, k, "RemoteStartTransaction", {"Accepted"})
OnRemoteStop(q, k)           == OnStatus(q, k, "RemoteStopTransaction", {"Accepted"})

OnGetLocalListVersion(q, k) ==
  /\ Answered(q, k, "GetLocalListVersion")
  /\ IF Parsed(q, k)
       THEN /\ listVersion' = call[q][k].data
            /\ status' = [status EXCEPT !["GetLocalListVersion"] = "ok"]
       ELSE UNCHANGED <<listVersion, status>>
  /\ Done(q, k)
  /\ UNCHANGED <<config, profiles, reservation>>

(* Mutant: the version is written whatever the charge point answered. *)
OnSendLocalListAnyway(q, k) ==
  /\ Answered(q, k, "SendLocalList")
  /\ IF Parsed(q, k)
       THEN /\ listVersion' = req[q].arg
            /\ status' = [status EXCEPT !["SendLocalList"] =
                            IF call[q][k].status = "Accepted" THEN "ok" ELSE "error"]
       ELSE UNCHANGED <<listVersion, status>>
  /\ Done(q, k)
  /\ UNCHANGED <<config, profiles, reservation>>

(* The version written is the requested one, once the charge point took it. *)
OnSendLocalList(q, k) ==
  /\ Answered(q, k, "SendLocalList")
  /\ IF Parsed(q, k)
       THEN /\ listVersion' = IF call[q][k].status = "Accepted" THEN req[q].arg ELSE listVersion
            /\ status' = [status EXCEPT !["SendLocalList"] =
                            IF call[q][k].status = "Accepted" THEN "ok" ELSE "error"]
       ELSE UNCHANGED <<listVersion, status>>
  /\ Done(q, k)
  /\ UNCHANGED <<config, profiles, reservation>>

OnGetConfiguration(q, k) ==
  /\ Answered(q, k, "GetConfiguration")
  /\ config' = IF Parsed(q, k) /\ call[q][k].data # None THEN call[q][k].data ELSE config
  /\ Done(q, k)
  /\ UNCHANGED <<status, listVersion, profiles, reservation>>

(* Two statements: the value when accepted, then the status; the second    *)
(* runs even if the first fails.                                           *)
OnChangeConfigurationValue(q, k) ==
  /\ Answered(q, k, "ChangeConfiguration")
  /\ Parsed(q, k)
  /\ \/ /\ config' = IF call[q][k].status \in {"Accepted", "RebootRequired"}
                       THEN req[q].arg ELSE config
        /\ UNCHANGED clean
     \/ config' = config /\ clean' = clean \ {"ChangeConfiguration"}
  /\ call' = [call EXCEPT ![q][k].state = "stored"]
  /\ UNCHANGED <<req, status, listVersion, profiles, reservation, hub, peer>>

OnChangeConfigurationStatus(q, k) ==
  /\ call[q][k].state = "stored"
  /\ status' = [status EXCEPT !["ChangeConfiguration"] =
                  IF call[q][k].status \in {"Accepted", "RebootRequired"} THEN "ok" ELSE "error"]
  /\ Done(q, k)
  /\ UNCHANGED <<listVersion, config, profiles, reservation>>

OnChangeConfigurationInvalid(q, k) ==
  /\ Answered(q, k, "ChangeConfiguration")
  /\ ~Parsed(q, k)
  /\ Done(q, k)
  /\ UNCHANGED db

(* UpdateFirmware and GetDiagnostics do not look at the answer. *)
OnUpdateFirmware(q, k) ==
  /\ Answered(q, k, "UpdateFirmware")
  /\ status' = [status EXCEPT !["UpdateFirmware"] = "ok"]
  /\ Done(q, k)
  /\ UNCHANGED <<listVersion, config, profiles, reservation>>

OnGetDiagnostics(q, k) ==
  /\ Answered(q, k, "GetDiagnostics")
  /\ status' = [status EXCEPT !["GetDiagnostics"] = "ok"]
  /\ Done(q, k)
  /\ UNCHANGED <<listVersion, config, profiles, reservation>>

(* Mutant: the update lacks "and status = 'Reserved'". *)
CancelAny(x) == reservation' = [reservation EXCEPT ![x] = "Cancelled"]

(* update ev_reservations set status = 'Cancelled' ... and status = 'Reserved' *)
CancelReserved(x) ==
  reservation' = [reservation EXCEPT ![x] = IF @ = "Reserved" THEN "Cancelled" ELSE @]

OnReserveNow(q, k) ==
  /\ Answered(q, k, "ReserveNow")
  /\ IF Parsed(q, k) /\ call[q][k].status # "Accepted"
       THEN CancelReserved(req[q].arg)
       ELSE UNCHANGED reservation
  /\ Done(q, k)
  /\ UNCHANGED <<status, listVersion, config, profiles>>

OnCancelReservation(q, k) ==
  /\ Answered(q, k, "CancelReservation")
  /\ IF Parsed(q, k) /\ call[q][k].status = "Accepted"
       THEN CancelReserved(req[q].arg)
       ELSE UNCHANGED reservation
  /\ Done(q, k)
  /\ UNCHANGED <<status, listVersion, config, profiles>>

-----------------------------------------------------------------------------
Endpoint(q) ==
  \/ GetLocalListVersion(q)
  \/ UnlockConnector(q)
  \/ ChangeAvailability(q)
  \/ ClearCache(q)
  \/ GetConfiguration(q)
  \/ UpdateFirmware(q)
  \/ GetDiagnostics(q)
  \/ GetCompositeSchedule(q)
  \/ TriggerMessage(q)
  \/ RemoteStart(q)
  \/ RemoteStop(q)
  \/ ClearChargingProfile(q, None)
  \/ \E x \in Args :
       \/ SendLocalList(q, x)
       \/ ChangeConfiguration(q, x)
       \/ SetChargingProfile(q, x)
       \/ ClearChargingProfile(q, x)
       \/ ReserveNow(q, x)
       \/ CancelReservation(q, x)

ApiStep(q) == Reset(q) \/ Store(q) \/ SendCommand(q) \/ Abort(q)

HandleResponse(q, k) ==
  \/ OnGetLocalListVersion(q, k)
  \/ OnSendLocalList(q, k)
  \/ OnUnlockConnector(q, k)
  \/ OnChangeAvailability(q, k)
  \/ OnClearCache(q, k)
  \/ OnGetConfiguration(q, k)
  \/ OnChangeConfigurationValue(q, k)
  \/ OnChangeConfigurationStatus(q, k)
  \/ OnChangeConfigurationInvalid(q, k)
  \/ OnUpdateFirmware(q, k)
  \/ OnGetDiagnostics(q, k)
  \/ OnSetChargingProfile(q, k)
  \/ OnClearChargingProfile(q, k)
  \/ OnGetCompositeSchedule(q, k)
  \/ OnReserveNow(q, k)
  \/ OnCancelReservation(q, k)
  \/ OnTriggerMessage(q, k)
  \/ OnRemoteStart(q, k)
  \/ OnRemoteStop(q, k)

ConnStep(k) ==
  \/ Connect(k)
  \/ Register(k)
  \/ Subscribe(k)
  \/ SubscriptionEnds(k)
  \/ ReadFails(k)
  \/ SubCancel(k)
  \/ Unregister(k)
  \/ CloseNow(k)

Next ==
  \/ \E q \in Requests : Endpoint(q) \/ ApiStep(q)
  \/ \E k \in Conns : ConnStep(k)
  \/ \E q \in Requests, k \in Conns :
       \/ Write(q, k)
       \/ CommandFails(q, k)
       \/ \E r \in Replies : Execute(q, k, r)
       \/ HandleResponse(q, k)
  \/ \E x \in Args : UseReservation(x)

Spec == Init /\ [][Next]_vars

-----------------------------------------------------------------------------
TypeOK ==
  /\ req \in [Requests -> [action : Actions \union {None},
                           arg : Args \union {None},
                           left : Seq(ApiSteps)]]
  /\ status \in [Tracked -> {"pending", "ok", "error"}]
  /\ listVersion \in Args \union {None}
  /\ config \in Args \union {None}
  /\ profiles \subseteq Args
  /\ reservation \in [Args -> {"none", "Reserved", "Cancelled", "Used"}]
  /\ conn \in [Conns -> ConnStates]
  /\ connections \in Conns \union {None}
  /\ subs \subseteq Conns
  /\ call \in [Requests -> [Conns -> [state : CallStates,
                                      status : Replies \union {None},
                                      data : Args \union {None}]]]
  /\ wire \subseteq Requests \X Conns
  /\ current \in Conns \union {None}
  /\ cp \in [version : Args \union {None}, config : Args \union {None},
             reserved : SUBSET Args]
  /\ last \in [Actions -> Replies \union {None}]
  /\ clean \subseteq Actions

(* The status columns the code derives from the answer. *)
Read == Tracked \ {"UpdateFirmware", "GetDiagnostics"}

(* When the dust has settled after requests for a command that did not     *)
(* overlap one another and did not fail, its status column says how the    *)
(* charge point answered the last of them, whatever the other commands     *)
(* were doing meanwhile: an endpoint's own reset never wipes out an early  *)
(* answer, and no request writes down the outcome of another command.      *)
SettledStatus ==
  \A a \in Read \intersect clean : Quiet({a}) /\ last[a] \notin {None, "CallError"} =>
    status[a] = (IF CarriedOut(last[a]) THEN "ok" ELSE "error")

(* ... and the stored list version is the charge point's own, if it was    *)
(* ever told one through this gateway.                                     *)
SettledVersion ==
  ListCommands \subseteq clean /\ Quiet(ListCommands) => listVersion = cp.version

(* A reservation a driver has used is never turned into a cancelled one,   *)
(* however late a refusal or a cancellation is handled.                    *)
UsedNotCancelled ==
  [][\A x \in Args : reservation[x] = "Used" => reservation'[x] # "Cancelled"]_vars

(* Hub.connections never names a connection whose handler has left: a      *)
(* stale entry would outlive its socket.                                   *)
NoDeadEntry ==
  connections # None => conn[connections] \in {"open", "lost", "cancelled"}

(* hub.go: "ListLocal returns all locally connected charge point IDs". A   *)
(* connection in its read loop has an entry under its identity.            *)
ListLocalComplete ==
  (\E k \in Conns : conn[k] = "open") => connections # None
=============================================================================
