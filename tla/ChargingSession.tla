--------------------------- MODULE ChargingSession ---------------------------
(***************************************************************************)
(* Charging sessions of one charge point: the OCPP 1.6 handlers            *)
(* StartTransaction, StopTransaction, MeterValues, StatusNotification and  *)
(* Authorize (ocpp/v16) over the rows they share.                          *)
(*                                                                         *)
(* Every message of the charge point is handled in a goroutine of its own  *)
(* (ocpp/handler.go), so the statements of two handlers interleave and     *)
(* handlers may finish in another order than their messages were sent in.  *)
(* A statement is atomic, as is the database transaction of Start.  When   *)
(* the connection goes away the handler's context is cancelled and the     *)
(* next statement fails.  A message the charge point repeats because it    *)
(* saw no reply is one more message here.                                  *)
(*                                                                         *)
(* Not in this module: the rows MeterValues and Stop insert into           *)
(* ev_meter_values and meter_readings, which no handler reads back.        *)
(***************************************************************************)
EXTENDS Naturals, Sequences, FiniteSetsExt

CONSTANTS
  Msgs,          \* messages of the charge point
  Connectors,    \* connector ids, 1 and up
  Tags,          \* id tags
  Reservations,  \* reservation ids
  Statuses,      \* the connector statuses the charge point reports
  Powers,        \* power readings, in kW
  None

(* The statuses the code knows by name; a charge point may report others. *)
NamedStatuses == {"Charging", "Preparing", "SuspendedEV", "SuspendedEVSE", "Finishing",
                  "Faulted", "Reserved", "Available", "Unavailable"}

ASSUME SessionAssumption ==
  /\ Powers \subseteq Nat
  /\ None \notin Connectors \union Tags \union Reservations \union Statuses \union NamedStatuses

VARIABLES
  msg,          \* msg[m]: how far the handler of m has got, and its parameters
  reply,        \* reply[m]: StartTransaction.conf sent for m, or None
  sessions,     \* ev_charging_sessions: transaction_id -> row
  nextTx,       \* last value drawn from ev_transaction_id_seq
  connectors,   \* ev_connectors.status, None while there is no row
  charger,      \* ev_chargers.status
  reservation,  \* ev_reservations.status
  tags,         \* ev_authorization_tags: scoped to the charger, and global
  stale         \* charger was not derived since a connector or it was written

rows == <<sessions, nextTx, connectors, charger, reservation>>
vars == <<msg, reply, rows, tags, stale>>

-----------------------------------------------------------------------------
TagRows == {None} \union [status : {"Accepted", "Blocked"}, expired : BOOLEAN]

IdTagStatuses == {"Accepted", "Blocked", "Expired", "Invalid"}

Idle == [pc |-> "idle", connector |-> None, tag |-> None, reservation |-> None]

MsgStates == {"idle", "starting", "stopping", "deriving", "done"}

Init ==
  /\ msg = [m \in Msgs |-> Idle]
  /\ reply = [m \in Msgs |-> None]
  /\ sessions = << >>
  /\ nextTx = 0
  /\ connectors = [c \in Connectors |-> None]
  /\ charger = "Unavailable"
  /\ reservation \in [Reservations -> {"Reserved", "Cancelled"}]
  /\ tags \in [Tags -> [scoped : TagRows, global : TagRows]]
  /\ stale = FALSE

(* A row under its transaction id. *)
WithSession(t, row) ==
  [u \in DOMAIN sessions \union {t} |-> IF u = t THEN row ELSE sessions[u]]

SetPc(m, pc) == msg' = [msg EXCEPT ![m].pc = pc]

(* update ev_connectors ... where connector_id = c: no row, no effect. *)
SetConnector(c, s) ==
  IF connectors[c] = None THEN connectors ELSE [connectors EXCEPT ![c] = s]

-----------------------------------------------------------------------------
(* Mutant: the global tag is consulted first. *)
IdTagStatusGlobalFirst(t) ==
  LET row == IF tags[t].global # None THEN tags[t].global ELSE tags[t].scoped
  IN  IF row = None THEN "Invalid"
      ELSE IF row.expired THEN "Expired" ELSE row.status

(* validateIdTag: the tag scoped to the charger first, then the global one. *)
IdTagStatus(t) ==
  LET row == IF tags[t].scoped # None THEN tags[t].scoped ELSE tags[t].global
  IN  IF row = None THEN "Invalid"
      ELSE IF row.expired THEN "Expired" ELSE row.status

(* StartTransaction: the id tag is validated before anything is written. *)
StartAuthorize(m, c, t, r) ==
  /\ msg[m].pc = "idle"
  /\ IF IdTagStatus(t) = "Accepted"
       THEN /\ msg' = [msg EXCEPT ![m] = [pc |-> "starting", connector |-> c,
                                          tag |-> t, reservation |-> r]]
            /\ UNCHANGED reply
       ELSE /\ SetPc(m, "done")
            /\ reply' = [reply EXCEPT ![m] = [tx |-> 0, status |-> IdTagStatus(t)]]
  /\ UNCHANGED <<rows, tags, stale>>

(* Mutant: the transaction id is not drawn from the sequence. *)
StartCommitNoSequence(m) ==
  LET c == msg[m].connector
      r == msg[m].reservation
      t == nextTx + 1
  IN  /\ msg[m].pc = "starting"
      /\ sessions' = WithSession(t, [connector |-> c, tag |-> msg[m].tag, reservation |-> r,
                                     open |-> TRUE, maxPower |-> 0])
      /\ connectors' = SetConnector(c, "Charging")
      /\ reservation' = [x \in Reservations |->
                           IF x = r /\ reservation[x] = "Reserved" THEN "Used" ELSE reservation[x]]
      /\ stale' = TRUE
      /\ reply' = [reply EXCEPT ![m] = [tx |-> t, status |-> "Accepted"]]
      /\ SetPc(m, "done")
      /\ UNCHANGED <<nextTx, charger, tags>>

(* RunInTx commits: session, connector and reservation change together. *)
StartCommit(m) ==
  LET c == msg[m].connector
      r == msg[m].reservation
      t == nextTx + 1
  IN  /\ msg[m].pc = "starting"
      /\ nextTx' = t
      /\ sessions' = WithSession(t, [connector |-> c, tag |-> msg[m].tag, reservation |-> r,
                                     open |-> TRUE, maxPower |-> 0])
      /\ connectors' = SetConnector(c, "Charging")
      /\ reservation' = [x \in Reservations |->
                           IF x = r /\ reservation[x] = "Reserved" THEN "Used" ELSE reservation[x]]
      /\ stale' = TRUE
      /\ reply' = [reply EXCEPT ![m] = [tx |-> t, status |-> "Accepted"]]
      /\ SetPc(m, "done")
      /\ UNCHANGED <<charger, tags>>

(* Mutant: the reservation is marked outside the transaction. *)
StartRollbackKeepsUsed(m) ==
  /\ msg[m].pc = "starting"
  /\ reservation' = [x \in Reservations |->
                       IF x = msg[m].reservation THEN "Used" ELSE reservation[x]]
  /\ reply' = [reply EXCEPT ![m] = [tx |-> 0, status |-> "Accepted"]]
  /\ SetPc(m, "done")
  /\ UNCHANGED <<sessions, nextTx, connectors, charger, tags, stale>>

(* RunInTx fails and rolls back, before or after the insert drew a         *)
(* transaction id; Start does not look at the error and replies all the    *)
(* same.                                                                   *)
StartRollback(m) ==
  /\ msg[m].pc = "starting"
  /\ \/ nextTx' = nextTx /\ reply' = [reply EXCEPT ![m] = [tx |-> 0, status |-> "Accepted"]]
     \/ /\ nextTx' = nextTx + 1
        /\ reply' = [reply EXCEPT ![m] = [tx |-> nextTx + 1, status |-> "Accepted"]]
  /\ SetPc(m, "done")
  /\ UNCHANGED <<sessions, connectors, charger, reservation, tags, stale>>

(* The transaction ids the charge point has been told. *)
Told == {reply[m].tx : m \in {n \in Msgs : reply[n] # None}}

(* StopTransaction closes by transaction id, closed already or not.  An    *)
(* unknown id is an error, answered with an empty reply.                   *)
StopClose(m, t) ==
  /\ msg[m].pc = "idle"
  /\ t \in Told
  /\ IF t \in DOMAIN sessions
       THEN /\ sessions' = [sessions EXCEPT ![t].open = FALSE]
            /\ msg' = [msg EXCEPT ![m] = [Idle EXCEPT !.pc = "stopping",
                                                      !.connector = sessions[t].connector]]
       ELSE UNCHANGED sessions /\ SetPc(m, "done")
  /\ UNCHANGED <<reply, nextTx, connectors, charger, reservation, tags, stale>>

(* The second statement of Stop; a failure is logged and goes no further. *)
StopConnector(m) ==
  /\ msg[m].pc = "stopping"
  /\ \/ connectors' = SetConnector(msg[m].connector, "Available") /\ stale' = TRUE
     \/ UNCHANGED <<connectors, stale>>
  /\ SetPc(m, "done")
  /\ UNCHANGED <<reply, sessions, nextTx, charger, reservation, tags>>

(* Mutant: the update lacks "and end_time is null". *)
UpdateAnySessionMaxPower(m, t, w) ==
  /\ msg[m].pc = "idle"
  /\ t \in Told
  /\ sessions' = IF t \in DOMAIN sessions
                   THEN [sessions EXCEPT ![t].maxPower = Max({@, w})] ELSE sessions
  /\ SetPc(m, "done")
  /\ UNCHANGED <<reply, nextTx, connectors, charger, reservation, tags, stale>>

(* MeterValues: greatest(max_power_kw, $1) where end_time is null. *)
UpdateSessionMaxPower(m, t, w) ==
  /\ msg[m].pc = "idle"
  /\ t \in Told
  /\ sessions' = IF t \in DOMAIN sessions /\ sessions[t].open
                   THEN [sessions EXCEPT ![t].maxPower = Max({@, w})] ELSE sessions
  /\ SetPc(m, "done")
  /\ UNCHANGED <<reply, nextTx, connectors, charger, reservation, tags, stale>>

(* StatusNotification for connector 0: the charge point itself. *)
UpdateChargerStatus(m, s) ==
  /\ msg[m].pc = "idle"
  /\ charger' = s
  /\ stale' = TRUE
  /\ SetPc(m, "done")
  /\ UNCHANGED <<reply, sessions, nextTx, connectors, reservation, tags>>

UpsertConnectorStatus(m, c, s) ==
  /\ msg[m].pc = "idle"
  /\ connectors' = [connectors EXCEPT ![c] = s]
  /\ SetPc(m, "deriving")
  /\ UNCHANGED <<reply, sessions, nextTx, charger, reservation, tags, stale>>

(* The arms of the CASE in deriveChargerStatusFromConnectors, in order. *)
Arms == << [of |-> {"Charging"},                     shows |-> "Charging"],
           [of |-> {"Preparing"},                    shows |-> "Preparing"],
           [of |-> {"SuspendedEV", "SuspendedEVSE"}, shows |-> "SuspendedEVSE"],
           [of |-> {"Finishing"},                    shows |-> "Finishing"],
           [of |-> {"Faulted"},                      shows |-> "Faulted"],
           [of |-> {"Reserved"},                     shows |-> "Reserved"],
           [of |-> {"Available"},                    shows |-> "Available"] >>

(* The arms some connector takes. *)
Taken == {i \in DOMAIN Arms : \E c \in Connectors : connectors[c] \in Arms[i].of}

(* Mutant: the last arm that applies wins. *)
DerivedStatusLast == IF Taken = {} THEN "Unavailable" ELSE Arms[Max(Taken)].shows

(* The first arm that applies wins; ELSE 'Unavailable'. *)
DerivedStatus == IF Taken = {} THEN "Unavailable" ELSE Arms[Min(Taken)].shows

DeriveChargerStatus(m) ==
  /\ msg[m].pc = "deriving"
  /\ charger' = DerivedStatus
  /\ stale' = FALSE
  /\ SetPc(m, "done")
  /\ UNCHANGED <<reply, sessions, nextTx, connectors, reservation, tags>>

(* The context is cancelled, or the statement fails, between the two       *)
(* statements of StatusNotification: the error ends the handler.           *)
DeriveFails(m) ==
  /\ msg[m].pc = "deriving"
  /\ stale' = TRUE
  /\ SetPc(m, "done")
  /\ UNCHANGED <<reply, rows, tags>>

(* The first statement of a handler fails (of Authorize inside Start, of   *)
(* Stop, MeterValues or StatusNotification): nothing was written and the   *)
(* error is answered with an empty reply.                                  *)
HandlerFails(m) ==
  /\ msg[m].pc = "idle"
  /\ SetPc(m, "done")
  /\ UNCHANGED <<reply, rows, tags, stale>>

-----------------------------------------------------------------------------
Next ==
  \E m \in Msgs :
    \/ \E c \in Connectors, t \in Tags, r \in Reservations \union {None} :
         StartAuthorize(m, c, t, r)
    \/ StartCommit(m)
    \/ StartRollback(m)
    \/ \E t \in Told : StopClose(m, t)
    \/ StopConnector(m)
    \/ \E t \in Told, w \in Powers : UpdateSessionMaxPower(m, t, w)
    \/ \E s \in Statuses : UpdateChargerStatus(m, s)
    \/ \E c \in Connectors, s \in Statuses : UpsertConnectorStatus(m, c, s)
    \/ DeriveChargerStatus(m)
    \/ DeriveFails(m)
    \/ HandlerFails(m)

Spec == Init /\ [][Next]_vars

-----------------------------------------------------------------------------
SessionRows ==
  [connector : Connectors, tag : Tags, reservation : Reservations \union {None},
   open : BOOLEAN, maxPower : Nat]

TypeOK ==
  /\ msg \in [Msgs -> [pc : MsgStates, connector : Connectors \union {None},
                       tag : Tags \union {None}, reservation : Reservations \union {None}]]
  /\ reply \in [Msgs -> {None} \union [tx : Nat, status : IdTagStatuses]]
  /\ nextTx \in Nat
  /\ DOMAIN sessions \subseteq 1..nextTx
  /\ \A t \in DOMAIN sessions : sessions[t] \in SessionRows
  /\ connectors \in [Connectors -> Statuses \union {"Charging", "Available", None}]
  /\ charger \in Statuses \union {Arms[i].shows : i \in DOMAIN Arms} \union {"Unavailable"}
  /\ reservation \in [Reservations -> {"Reserved", "Cancelled", "Used"}]
  /\ tags \in [Tags -> [scoped : TagRows, global : TagRows]]
  /\ stale \in BOOLEAN

(* A closed session stays closed: no late MeterValues, repeated or         *)
(* reordered message reopens it, removes it or changes the peak power      *)
(* recorded for it.                                                        *)
ClosedFinal ==
  [][\A t \in DOMAIN sessions : ~sessions[t].open =>
       t \in DOMAIN sessions' /\ sessions'[t].open = FALSE
                              /\ sessions'[t].maxPower = sessions[t].maxPower]_vars

(* A reservation is Used only by a session that exists: the transaction of *)
(* Start leaves no reservation consumed without one.                       *)
UsedHasSession ==
  \A r \in Reservations : reservation[r] = "Used" =>
    \E t \in DOMAIN sessions : sessions[t].reservation = r

(* No session is ever recorded for a tag that is blocked or expired for    *)
(* this charger, whatever the global row of the same tag says.  (The tag   *)
(* rows do not change while the messages modelled here are handled.)       *)
ScopedTagWins ==
  \A t \in DOMAIN sessions :
    LET row == tags[sessions[t].tag].scoped
    IN  row = None \/ (row.status = "Accepted" /\ ~row.expired)

(* "Priority: Charging > Preparing > SuspendedEV/SuspendedEVSE > Finishing *)
(* > Faulted > Reserved > Available > Unavailable" (status.go).            *)
Priority == <<"Charging", "Preparing", "SuspendedEVSE", "Finishing", "Faulted",
              "Reserved", "Available", "Unavailable">>

(* The place of a status in that order; none for a status it leaves out. *)
Ranks(s) == {i \in DOMAIN Priority :
               Priority[i] = (IF s = "SuspendedEV" THEN "SuspendedEVSE" ELSE s)}

(* Once every StatusNotification under way has finished, and unless some   *)
(* other statement wrote a status since the last derivation, the charger   *)
(* shows the status of highest priority among its connectors, in whatever  *)
(* order concurrent notifications ran; no connector with a status of the   *)
(* order counts as Unavailable.                                            *)
DerivedFresh ==
  (~stale /\ \A m \in Msgs : msg[m].pc # "deriving") =>
    charger = Priority[Min({8} \union UNION {Ranks(connectors[c]) : c \in Connectors})]

(* transaction.go: "create charging session, update connector, and         *)
(* reservation atomically".  A charge point that was told to go ahead has  *)
(* a session under the id it was told.                                     *)
AcceptedHasSession ==
  \A m \in Msgs : reply[m] # None /\ reply[m].status = "Accepted" =>
    reply[m].tx \in DOMAIN sessions
=============================================================================
