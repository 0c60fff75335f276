----------------------- MODULE ChargingSessionProofs -----------------------
(***************************************************************************)
(* Proofs about ChargingSession: for any number of messages, connectors,   *)
(* tags and reservations, in any order of their handlers' statements.      *)
(***************************************************************************)
EXTENDS ChargingSession, TLAPS

(* Every session was opened for a tag validateIdTag accepted, and a        *)
(* handler past its authorization is about such a tag.  ScopedTagWins      *)
(* alone says nothing of the handlers that are about to insert a row.      *)
AuthorizedInv ==
  /\ \A m \in Msgs : msg[m].pc = "starting" =>
       /\ msg[m].connector \in Connectors
       /\ msg[m].tag \in Tags
       /\ IdTagStatus(msg[m].tag) = "Accepted"
  /\ \A m \in Msgs : msg[m].pc = "stopping" => msg[m].connector \in Connectors
  /\ \A t \in DOMAIN sessions : IdTagStatus(sessions[t].tag) = "Accepted"

IInv == TypeOK /\ UsedHasSession /\ AuthorizedInv

(* Max of two readings is one of them, hence a natural number. *)
LEMMA MaxNat == ASSUME NEW a \in Nat, NEW b \in Nat PROVE Max({a, b}) \in Nat
<1>1. \E x \in {a, b} : \A y \in {a, b} : x >= y
  OBVIOUS
<1>2. QED BY <1>1 DEF Max

(* No session, no handler under way: the rows of a fresh charge point. *)
LEMMA InitIInv == Init => IInv
<1>1. SUFFICES ASSUME Init PROVE IInv
  OBVIOUS
<1>2. DOMAIN sessions = {}
  BY <1>1 DEF Init
<1>3. msg \in [Msgs -> [pc : MsgStates, connector : Connectors \union {None},
                      tag : Tags \union {None}, reservation : Reservations \union {None}]]
  BY <1>1 DEF Init, Idle, MsgStates
<1>4. TypeOK
  BY <1>1, <1>2, <1>3 DEF Init, TypeOK
<1>5. QED BY <1>1, <1>2, <1>4 DEF IInv, Init, UsedHasSession, AuthorizedInv, Idle

(* The status derived from the connectors is one the charger may show. *)
LEMMA DerivedType ==
  DerivedStatus \in {Arms[i].shows : i \in DOMAIN Arms} \union {"Unavailable"}
<1>1. ASSUME Taken # {} PROVE Min(Taken) \in DOMAIN Arms
  <2>1. Taken \subseteq DOMAIN Arms
    BY DEF Taken
  <2>2. DOMAIN Arms = 1..7
    BY DEF Arms
  <2>3. \E i \in Taken : \A j \in Taken : i =< j
    BY <1>1, <2>1, <2>2
  <2>4. QED BY <2>1, <2>3 DEF Min
<1>2. QED BY <1>1 DEF DerivedStatus

(* The status of an id tag is one of the four the reply may carry. *)
LEMMA TagStatusType ==
  ASSUME TypeOK, NEW t \in Tags
  PROVE  IdTagStatus(t) \in IdTagStatuses
  BY DEF TypeOK, TagRows, IdTagStatus, IdTagStatuses

(* A handler that moves on keeps what it knows, and everything else typed. *)
HandlerRows == [pc : MsgStates, connector : Connectors \union {None},
                tag : Tags \union {None}, reservation : Reservations \union {None}]

LEMMA PcTyped ==
  ASSUME TypeOK, NEW m \in Msgs, NEW pc \in MsgStates, msg' = [msg EXCEPT ![m].pc = pc]
  PROVE  msg' \in [Msgs -> HandlerRows]
<1>1. msg \in [Msgs -> HandlerRows] /\ msg[m] \in HandlerRows
  BY DEF TypeOK, HandlerRows
<1> DEFINE row == [msg[m] EXCEPT !.pc = pc]
<1>2. row \in HandlerRows
  BY <1>1 DEF HandlerRows
<1>3. msg' = [msg EXCEPT ![m] = row]
  OBVIOUS
<1> HIDE DEF row
<1>4. QED BY <1>1, <1>2, <1>3

(* Every statement of every handler keeps the rows well typed. *)
LEMMA TypeStep == ASSUME TypeOK, AuthorizedInv, [Next]_vars PROVE TypeOK'
<1> USE SessionAssumption
<1>0. /\ "done" \in MsgStates /\ "deriving" \in MsgStates
      /\ TypeOK' <=>
           /\ msg' \in [Msgs -> HandlerRows]
           /\ reply' \in [Msgs -> {None} \union [tx : Nat, status : IdTagStatuses]]
           /\ nextTx' \in Nat
           /\ DOMAIN sessions' \subseteq 1..nextTx'
           /\ \A t \in DOMAIN sessions' : sessions'[t] \in SessionRows
           /\ connectors' \in [Connectors -> Statuses \union {"Charging", "Available", None}]
           /\ charger' \in Statuses \union {Arms[i].shows : i \in DOMAIN Arms} \union {"Unavailable"}
           /\ reservation' \in [Reservations -> {"Reserved", "Cancelled", "Used"}]
           /\ tags' \in [Tags -> [scoped : TagRows, global : TagRows]]
           /\ stale' \in BOOLEAN
  BY DEF MsgStates, TypeOK, HandlerRows
<1>1. ASSUME NEW m \in Msgs, NEW c \in Connectors, NEW t \in Tags,
             NEW r \in Reservations \union {None}, StartAuthorize(m, c, t, r)
      PROVE  TypeOK'
  <2>1. IdTagStatus(t) \in IdTagStatuses
    BY TagStatusType
  <2>2. CASE IdTagStatus(t) = "Accepted"
    BY <1>1, <2>2 DEF StartAuthorize, TypeOK, MsgStates, rows
  <2>3. CASE IdTagStatus(t) # "Accepted"
    <3>1. reply' = [reply EXCEPT ![m] = [tx |-> 0, status |-> IdTagStatus(t)]]
      BY <1>1, <2>3 DEF StartAuthorize
    <3>2. reply' \in [Msgs -> {None} \union [tx : Nat, status : IdTagStatuses]]
      BY <2>1, <3>1 DEF TypeOK
    <3>3. msg' = [msg EXCEPT ![m].pc = "done"] /\ UNCHANGED <<rows, tags, stale>>
      BY <1>1, <2>3 DEF StartAuthorize, SetPc
    <3>4. msg' \in [Msgs -> HandlerRows]
      BY <1>0, <3>3, PcTyped
    <3>5. QED BY <1>0, <3>2, <3>3, <3>4 DEF TypeOK, rows
  <2>4. QED BY <2>2, <2>3
<1>2. ASSUME NEW m \in Msgs, StartCommit(m) PROVE TypeOK'
  <2>1. /\ msg[m].connector \in Connectors
        /\ msg[m].tag \in Tags
        /\ msg[m].reservation \in Reservations \union {None}
    BY <1>2 DEF StartCommit, TypeOK, AuthorizedInv
  <2>2. nextTx' \in Nat /\ DOMAIN sessions' \subseteq 1..nextTx'
    BY <1>2 DEF StartCommit, TypeOK, WithSession
  <2>3. \A u \in DOMAIN sessions' : sessions'[u] \in SessionRows
    BY <1>2, <2>1 DEF StartCommit, TypeOK, WithSession, SessionRows
  <2>4. connectors' \in [Connectors -> Statuses \union {"Charging", "Available", None}]
    BY <1>2, <2>1 DEF StartCommit, TypeOK, SetConnector
  <2>5. reservation' \in [Reservations -> {"Reserved", "Cancelled", "Used"}]
    BY <1>2 DEF StartCommit, TypeOK
  <2>6. reply' \in [Msgs -> {None} \union [tx : Nat, status : IdTagStatuses]]
    BY <1>2 DEF StartCommit, TypeOK, IdTagStatuses
  <2>7. msg' = [msg EXCEPT ![m].pc = "done"] /\ stale' = TRUE /\ UNCHANGED <<charger, tags>>
    BY <1>2 DEF StartCommit, SetPc
  <2>8. msg' \in [Msgs -> HandlerRows]
    BY <1>0, <2>7, PcTyped
  <2>9. QED BY <1>0, <2>2, <2>3, <2>4, <2>5, <2>6, <2>7, <2>8 DEF TypeOK
<1>3. ASSUME NEW m \in Msgs, StartRollback(m) PROVE TypeOK'
  <2>1. reply' \in [Msgs -> {None} \union [tx : Nat, status : IdTagStatuses]]
    BY <1>3 DEF StartRollback, TypeOK, IdTagStatuses
  <2>2. nextTx' \in Nat /\ DOMAIN sessions \subseteq 1..nextTx'
    BY <1>3 DEF StartRollback, TypeOK
  <2>3. /\ msg' = [msg EXCEPT ![m].pc = "done"]
        /\ UNCHANGED <<sessions, connectors, charger, reservation, tags, stale>>
    BY <1>3 DEF StartRollback, SetPc
  <2>4. msg' \in [Msgs -> HandlerRows]
    BY <1>0, <2>3, PcTyped
  <2>5. QED BY <1>0, <2>1, <2>2, <2>3, <2>4 DEF TypeOK
<1>4. ASSUME NEW m \in Msgs, NEW t \in Told, StopClose(m, t) PROVE TypeOK'
  <2>1. CASE t \in DOMAIN sessions
    <3>1. sessions[t] \in SessionRows
      BY <2>1 DEF TypeOK
    <3>2. sessions' = [sessions EXCEPT ![t].open = FALSE]
      BY <1>4, <2>1 DEF StopClose
    <3>3. DOMAIN sessions' = DOMAIN sessions /\ \A u \in DOMAIN sessions' : sessions'[u] \in SessionRows
      BY <3>1, <3>2 DEF TypeOK, SessionRows
    <3>4. msg' \in [Msgs -> [pc : MsgStates, connector : Connectors \union {None},
                            tag : Tags \union {None}, reservation : Reservations \union {None}]]
      <4>1. sessions[t].connector \in Connectors
        BY <3>1 DEF SessionRows
      <4>2. msg' = [msg EXCEPT ![m] = [pc |-> "stopping", connector |-> sessions[t].connector,
                                       tag |-> None, reservation |-> None]]
        BY <1>4, <2>1 DEF StopClose, Idle
      <4>3. QED BY <4>1, <4>2 DEF TypeOK, MsgStates
    <3>5. QED BY <1>4, <3>3, <3>4 DEF StopClose, TypeOK
  <2>2. CASE t \notin DOMAIN sessions
    <3>1. msg' = [msg EXCEPT ![m].pc = "done"] /\ UNCHANGED <<rows, tags, reply, stale>>
      BY <1>4, <2>2 DEF StopClose, SetPc, rows
    <3>2. msg' \in [Msgs -> HandlerRows]
      BY <1>0, <3>1, PcTyped
    <3>3. QED BY <1>0, <3>1, <3>2 DEF TypeOK, rows
  <2>3. QED BY <2>1, <2>2
<1>5. ASSUME NEW m \in Msgs, StopConnector(m) PROVE TypeOK'
  <2>1. msg[m].connector \in Connectors /\ msg' = [msg EXCEPT ![m].pc = "done"]
    BY <1>5 DEF StopConnector, SetPc, AuthorizedInv
  <2>2. msg' \in [Msgs -> HandlerRows]
    BY <1>0, <2>1, PcTyped
  <2>3. /\ connectors' \in [Connectors -> Statuses \union {"Charging", "Available", None}]
        /\ stale' \in BOOLEAN
    BY <1>5, <2>1 DEF StopConnector, SetConnector, TypeOK
  <2>4. UNCHANGED <<reply, sessions, nextTx, charger, reservation, tags>>
    BY <1>5 DEF StopConnector
  <2>5. QED BY <1>0, <2>2, <2>3, <2>4 DEF TypeOK
<1>6. ASSUME NEW m \in Msgs, NEW t \in Told, NEW w \in Powers, UpdateSessionMaxPower(m, t, w)
      PROVE TypeOK'
  <2>1. CASE t \in DOMAIN sessions /\ sessions[t].open
    <3>1. Max({sessions[t].maxPower, w}) \in Nat
      BY <2>1, MaxNat DEF TypeOK, SessionRows
    <3>2. sessions' = [sessions EXCEPT ![t].maxPower = Max({sessions[t].maxPower, w})]
      BY <1>6, <2>1 DEF UpdateSessionMaxPower
    <3>3. DOMAIN sessions' = DOMAIN sessions /\ \A u \in DOMAIN sessions' : sessions'[u] \in SessionRows
      BY <2>1, <3>1, <3>2 DEF TypeOK, SessionRows
    <3>4. /\ msg' = [msg EXCEPT ![m].pc = "done"]
          /\ UNCHANGED <<reply, nextTx, connectors, charger, reservation, tags, stale>>
      BY <1>6 DEF UpdateSessionMaxPower, SetPc
    <3>5. msg' \in [Msgs -> HandlerRows]
      BY <1>0, <3>4, PcTyped
    <3>6. QED BY <1>0, <3>3, <3>4, <3>5 DEF TypeOK
  <2>2. CASE ~(t \in DOMAIN sessions /\ sessions[t].open)
    <3>1. /\ msg' = [msg EXCEPT ![m].pc = "done"] /\ UNCHANGED sessions
          /\ UNCHANGED <<reply, nextTx, connectors, charger, reservation, tags, stale>>
      BY <1>6, <2>2 DEF UpdateSessionMaxPower, SetPc
    <3>2. msg' \in [Msgs -> HandlerRows]
      BY <1>0, <3>1, PcTyped
    <3>3. QED BY <1>0, <3>1, <3>2 DEF TypeOK
  <2>3. QED BY <2>1, <2>2
<1>7. ASSUME NEW m \in Msgs, NEW s \in Statuses, UpdateChargerStatus(m, s) PROVE TypeOK'
  <2>1. msg' \in [Msgs -> HandlerRows]
    BY <1>0, <1>7, PcTyped DEF UpdateChargerStatus, SetPc
  <2>2. QED BY <1>0, <1>7, <2>1 DEF UpdateChargerStatus, TypeOK
<1>8. ASSUME NEW m \in Msgs, NEW c \in Connectors, NEW s \in Statuses,
             UpsertConnectorStatus(m, c, s)
      PROVE  TypeOK'
  <2>1. msg' \in [Msgs -> HandlerRows]
    BY <1>0, <1>8, PcTyped DEF UpsertConnectorStatus, SetPc
  <2>2. QED BY <1>0, <1>8, <2>1 DEF UpsertConnectorStatus, TypeOK
<1>9. ASSUME NEW m \in Msgs, DeriveChargerStatus(m) PROVE TypeOK'
  <2>1. msg' \in [Msgs -> HandlerRows]
    BY <1>0, <1>9, PcTyped DEF DeriveChargerStatus, SetPc
  <2>2. QED BY <1>0, <1>9, DerivedType, <2>1 DEF DeriveChargerStatus, TypeOK
<1>10. ASSUME NEW m \in Msgs, DeriveFails(m) PROVE TypeOK'
  <2>1. msg' \in [Msgs -> HandlerRows]
    BY <1>0, <1>10, PcTyped DEF DeriveFails, SetPc
  <2>2. QED BY <1>0, <1>10, <2>1 DEF DeriveFails, TypeOK, rows
<1>11. ASSUME NEW m \in Msgs, HandlerFails(m) PROVE TypeOK'
  <2>1. msg' \in [Msgs -> HandlerRows]
    BY <1>0, <1>11, PcTyped DEF HandlerFails, SetPc
  <2>2. QED BY <1>0, <1>11, <2>1 DEF HandlerFails, TypeOK, rows
<1>12. CASE UNCHANGED vars
  BY <1>12 DEF TypeOK, vars, rows
<1>13. QED BY <1>1, <1>2, <1>3, <1>4, <1>5, <1>6, <1>7, <1>8, <1>9, <1>10, <1>11, <1>12 DEF Next

(* Sessions are only added, and keep the fields Start gave them: Stop      *)
(* clears open, MeterValues raises maxPower, nothing else writes the row,  *)
(* because Start draws an id no session has.                               *)
LEMMA SessionsKept ==
  ASSUME TypeOK, [Next]_vars, NEW t \in DOMAIN sessions
  PROVE  /\ t \in DOMAIN sessions'
         /\ sessions'[t].tag = sessions[t].tag
         /\ sessions'[t].reservation = sessions[t].reservation
         /\ ~sessions[t].open => /\ ~sessions'[t].open
                                 /\ sessions'[t].maxPower = sessions[t].maxPower
<1> DEFINE Kept == /\ t \in DOMAIN sessions'
                   /\ sessions'[t].tag = sessions[t].tag
                   /\ sessions'[t].reservation = sessions[t].reservation
                   /\ ~sessions[t].open => /\ ~sessions'[t].open
                                           /\ sessions'[t].maxPower = sessions[t].maxPower
<1>1. sessions[t] \in SessionRows /\ t \in 1..nextTx /\ nextTx \in Nat
  BY DEF TypeOK
<1>2. ASSUME NEW m \in Msgs, StartCommit(m) PROVE Kept
  <2>1. t # nextTx + 1
    BY <1>1
  <2>2. t \in DOMAIN sessions' /\ sessions'[t] = sessions[t]
    BY <1>2, <2>1 DEF StartCommit, WithSession
  <2>3. QED BY <2>2
<1>3. ASSUME NEW m \in Msgs, NEW u \in Told, StopClose(m, u) PROVE Kept
  <2>1. sessions' = sessions \/ sessions' = [sessions EXCEPT ![u].open = FALSE]
    BY <1>3 DEF StopClose
  <2>2. QED BY <1>1, <2>1 DEF SessionRows
<1>4. ASSUME NEW m \in Msgs, NEW u \in Told, NEW w \in Powers, UpdateSessionMaxPower(m, u, w)
      PROVE  Kept
  <2>1. \/ sessions' = sessions
        \/ sessions[u].open /\ sessions' = [sessions EXCEPT ![u].maxPower = Max({sessions[u].maxPower, w})]
    BY <1>4 DEF UpdateSessionMaxPower
  <2>2. QED BY <1>1, <2>1 DEF SessionRows
<1>5. ASSUME UNCHANGED sessions PROVE Kept
  BY <1>5
<1>6. QED BY <1>2, <1>3, <1>4, <1>5
     DEF Next, StartAuthorize, StartRollback, StopConnector, UpdateChargerStatus,
         UpsertConnectorStatus, DeriveChargerStatus, DeriveFails, HandlerFails, vars, rows

(* A reservation turns Used only in StartCommit, which adds the session    *)
(* that names it; sessions are never removed.                              *)
LEMMA UsedStep == ASSUME TypeOK, UsedHasSession, [Next]_vars PROVE UsedHasSession'
<1>1. SUFFICES ASSUME NEW r \in Reservations, reservation'[r] = "Used"
               PROVE  \E t \in DOMAIN sessions' : sessions'[t].reservation = r
  BY DEF UsedHasSession
<1>2. CASE reservation[r] = "Used"
  <2>1. PICK t \in DOMAIN sessions : sessions[t].reservation = r
    BY <1>2 DEF UsedHasSession
  <2>2. QED BY <2>1, SessionsKept
<1>3. CASE reservation[r] # "Used"
  <2>1. PICK m \in Msgs : StartCommit(m)
    BY <1>1, <1>3
    DEF Next, StartAuthorize, StartRollback, StopClose, StopConnector, UpdateSessionMaxPower,
        UpdateChargerStatus, UpsertConnectorStatus, DeriveChargerStatus, DeriveFails,
        HandlerFails, vars, rows
  <2>2. msg[m].reservation = r
    BY <1>1, <1>3, <2>1 DEF StartCommit, TypeOK
  <2>3. nextTx + 1 \in DOMAIN sessions' /\ sessions'[nextTx + 1].reservation = r
    BY <2>1, <2>2 DEF StartCommit, WithSession
  <2>4. QED BY <2>3
<1>4. QED BY <1>2, <1>3

(* A session is inserted only by a handler past validateIdTag. *)
LEMMA AuthorizedStep == ASSUME TypeOK, AuthorizedInv, [Next]_vars PROVE AuthorizedInv'
<1> DEFINE Ready(m) == /\ msg'[m].connector \in Connectors
                       /\ msg'[m].pc = "starting" => /\ msg'[m].tag \in Tags
                                                     /\ IdTagStatus(msg'[m].tag) = "Accepted"
<1>1. tags' = tags /\ \A t : IdTagStatus(t)' = IdTagStatus(t)
  <2>1. tags' = tags
    BY DEF Next, StartAuthorize, StartCommit, StartRollback, StopClose, StopConnector,
           UpdateSessionMaxPower, UpdateChargerStatus, UpsertConnectorStatus,
           DeriveChargerStatus, DeriveFails, HandlerFails, vars
  <2>2. QED BY <2>1 DEF IdTagStatus
<1>2. ASSUME NEW t \in DOMAIN sessions' PROVE IdTagStatus(sessions'[t].tag) = "Accepted"
  <2>1. CASE t \in DOMAIN sessions
    BY <2>1, SessionsKept DEF AuthorizedInv
  <2>2. CASE t \notin DOMAIN sessions
    <3>1. PICK m \in Msgs : StartCommit(m)
      BY <1>2, <2>2
      DEF Next, StartAuthorize, StartRollback, StopClose, StopConnector, UpdateSessionMaxPower,
          UpdateChargerStatus, UpsertConnectorStatus, DeriveChargerStatus, DeriveFails,
          HandlerFails, vars, rows
    <3>2. sessions'[t].tag = msg[m].tag
      BY <1>2, <2>2, <3>1 DEF StartCommit, WithSession
    <3>3. QED BY <3>1, <3>2 DEF StartCommit, AuthorizedInv
  <2>3. QED BY <2>1, <2>2
<1>3. ASSUME NEW m \in Msgs, msg'[m] # msg[m], msg'[m].pc \in {"starting", "stopping"}
      PROVE  Ready(m)
  <2>1. ASSUME NEW n \in Msgs, NEW c \in Connectors, NEW t \in Tags,
               NEW r \in Reservations \union {None}, StartAuthorize(n, c, t, r)
        PROVE  Ready(m)
    BY <1>3, <2>1 DEF StartAuthorize, SetPc, TypeOK
  <2>2. ASSUME NEW n \in Msgs, NEW t \in Told, StopClose(n, t)
        PROVE  Ready(m)
    <3>1. CASE t \in DOMAIN sessions
      <4>1. sessions[t].connector \in Connectors
        BY <3>1 DEF TypeOK, SessionRows
      <4>2. msg' = [msg EXCEPT ![n] = [pc |-> "stopping", connector |-> sessions[t].connector,
                                       tag |-> None, reservation |-> None]]
        BY <2>2, <3>1 DEF StopClose, Idle
      <4>3. QED BY <1>3, <4>1, <4>2 DEF TypeOK
    <3>2. CASE t \notin DOMAIN sessions
      BY <1>3, <2>2, <3>2 DEF StopClose, SetPc, TypeOK
    <3>3. QED BY <3>1, <3>2
  <2>3. ASSUME NEW n \in Msgs, msg' = [msg EXCEPT ![n].pc = "done"] \/ msg' = [msg EXCEPT ![n].pc = "deriving"]
        PROVE  Ready(m)
    BY <1>3, <2>3 DEF TypeOK
  <2> HIDE DEF Ready
  <2>4. QED BY <1>3, <2>1, <2>2, <2>3
       DEF Next, StartCommit, StartRollback, StopConnector, UpdateSessionMaxPower, SetPc,
           UpdateChargerStatus, UpsertConnectorStatus, DeriveChargerStatus, DeriveFails,
           HandlerFails, vars
<1>4. QED BY <1>1, <1>2, <1>3 DEF AuthorizedInv

(* The inductive invariant holds whatever the order of the statements. *)
THEOREM Inductive == Spec => []IInv
<1>1. IInv /\ [Next]_vars => IInv'
  BY TypeStep, UsedStep, AuthorizedStep DEF IInv
<1>2. QED BY InitIInv, <1>1, PTL DEF Spec

(* The rows the OCPP handlers share keep their types; transaction ids stay *)
(* within what the sequence handed out.                                    *)
THEOREM TypeCorrect == Spec => []TypeOK
  BY Inductive, PTL DEF IInv

(* Start consumes no reservation without recording the session for it. *)
THEOREM ReservationsAccounted == Spec => []UsedHasSession
  BY Inductive, PTL DEF IInv

(* Start records no session for a tag refused for this charger. *)
THEOREM ScopedTagDecides == Spec => []ScopedTagWins
<1>1. IInv => ScopedTagWins
  <2>1. SUFFICES ASSUME IInv, NEW t \in DOMAIN sessions, tags[sessions[t].tag].scoped # None
                 PROVE  /\ tags[sessions[t].tag].scoped.status = "Accepted"
                        /\ ~tags[sessions[t].tag].scoped.expired
    BY DEF ScopedTagWins
  <2>2. IdTagStatus(sessions[t].tag) = "Accepted"
    BY <2>1 DEF IInv, AuthorizedInv
  <2>3. QED BY <2>1, <2>2 DEF IdTagStatus
<1>2. QED BY Inductive, <1>1, PTL

(* MeterValues, Stop and Start leave a closed session closed and its peak  *)
(* power as it was.                                                        *)
THEOREM ClosedStaysFinal == Spec => ClosedFinal
<1> DEFINE Final == \A t \in DOMAIN sessions : ~sessions[t].open =>
                      t \in DOMAIN sessions' /\ sessions'[t].open = FALSE
                                             /\ sessions'[t].maxPower = sessions[t].maxPower
<1>1. TypeOK /\ TypeOK' /\ [Next]_vars => [Final]_vars
  <2>1. SUFFICES ASSUME TypeOK, TypeOK', [Next]_vars, NEW t \in DOMAIN sessions, ~sessions[t].open
                 PROVE  t \in DOMAIN sessions' /\ sessions'[t].open = FALSE
                                               /\ sessions'[t].maxPower = sessions[t].maxPower
    OBVIOUS
  <2>2. t \in DOMAIN sessions' /\ ~sessions'[t].open /\ sessions'[t].maxPower = sessions[t].maxPower
    BY <2>1, SessionsKept
  <2>3. sessions'[t] \in SessionRows
    BY <2>1, <2>2 DEF TypeOK
  <2>4. QED BY <2>2, <2>3 DEF SessionRows
<1>2. QED BY <1>1, TypeCorrect, PTL DEF Spec, ClosedFinal
-----------------------------------------------------------------------------
(* The arms of the CASE are the priorities of the comment, in its order. *)
LEMMA ArmsByPriority ==
  /\ DOMAIN Arms = 1..7
  /\ DOMAIN Priority = 1..8
  /\ Priority[8] = "Unavailable"
  /\ \A i \in 1..7 : Arms[i].shows = Priority[i] /\ \A s : s \in Arms[i].of <=> i \in Ranks(s)
<1>1. DOMAIN Arms = 1..7 /\ DOMAIN Priority = 1..8 /\ Priority[8] = "Unavailable"
  BY DEF Arms, Priority
<1>2. ASSUME NEW i \in 1..7, NEW s
      PROVE  Arms[i].shows = Priority[i] /\ (s \in Arms[i].of <=> i \in Ranks(s))
  <2>1. i \in Ranks(s) <=> Priority[i] = IF s = "SuspendedEV" THEN "SuspendedEVSE" ELSE s
    BY <1>1 DEF Ranks
  <2>2. i = 1 \/ i = 2 \/ i = 3 \/ i = 4 \/ i = 5 \/ i = 6 \/ i = 7
    OBVIOUS
  <2>3. QED BY <2>1, <2>2 DEF Arms, Priority
<1>3. QED BY <1>1, <1>2

(* What a smallest element of a set of numbers is. *)
LEMMA MinIs ==
  ASSUME NEW S \in SUBSET (1..8), NEW i \in S, \A j \in S : i =< j
  PROVE  Min(S) = i
<1>1. \E x \in S : \A y \in S : x =< y
  OBVIOUS
<1>2. Min(S) \in S /\ \A y \in S : Min(S) =< y
  BY <1>1 DEF Min
<1>3. Min(S) \in 1..8 /\ i \in 1..8 /\ Min(S) =< i /\ i =< Min(S)
  BY <1>2
<1>4. QED BY <1>3

(* A set of places of the order has a first one. *)
LEMMA FirstExists ==
  ASSUME NEW S \in SUBSET (1..8), S # {}
  PROVE  \E i \in S : \A j \in S : i =< j
<1>1. PICK k \in S : TRUE
  OBVIOUS
<1>2. k \in 1..8
  OBVIOUS
<1>3. CASE 1 \in S
  BY <1>3
<1>4. CASE 1 \notin S /\ 2 \in S
  BY <1>4
<1>5. CASE 1 \notin S /\ 2 \notin S /\ 3 \in S
  BY <1>5
<1>6. CASE 1 \notin S /\ 2 \notin S /\ 3 \notin S /\ 4 \in S
  BY <1>6
<1>7. CASE S \subseteq 5..8
  <2>1. CASE 5 \in S
    BY <1>7, <2>1
  <2>2. CASE 5 \notin S /\ 6 \in S
    BY <1>7, <2>2
  <2>3. CASE 5 \notin S /\ 6 \notin S /\ 7 \in S
    BY <1>7, <2>3
  <2>4. CASE 5 \notin S /\ 6 \notin S /\ 7 \notin S
    BY <1>1, <1>7, <2>4
  <2>5. QED BY <2>1, <2>2, <2>3, <2>4
<1>8. QED BY <1>3, <1>4, <1>5, <1>6, <1>7

(* The CASE derives the status of highest priority among the connectors. *)
LEMMA DerivesHighest ==
  DerivedStatus = Priority[Min({8} \union UNION {Ranks(connectors[c]) : c \in Connectors})]
<1> DEFINE R == {8} \union UNION {Ranks(connectors[c]) : c \in Connectors}
<1>1. R \in SUBSET (1..8) /\ 8 \in R
  BY ArmsByPriority DEF Ranks
<1>2. Taken \in SUBSET (1..7)
  BY ArmsByPriority DEF Taken
<1>3. \A i \in 1..7 : i \in Taken <=> i \in R
  BY ArmsByPriority DEF Taken
<1> HIDE DEF R
<1>4. CASE Taken = {}
  <2>1. R = {8}
    <3>1. \A i \in R : i = 8
      BY <1>1, <1>3, <1>4
    <3>2. QED BY <1>1, <3>1
  <2>2. Min(R) = 8
    BY <1>1, <2>1, MinIs
  <2>3. QED BY <1>4, <2>2, ArmsByPriority DEF DerivedStatus, R
<1>5. CASE Taken # {}
  <2>1. PICK i \in Taken : \A j \in Taken : i =< j
    BY <1>2, <1>5, FirstExists
  <2>2. i \in 1..7 /\ i \in R /\ \A j \in R : i =< j
    BY <1>1, <1>2, <1>3, <2>1
  <2>3. Min(Taken) = i
    BY <1>2, <2>1, MinIs
  <2>4. Min(R) = i
    BY <1>1, <2>2, MinIs
  <2>5. QED BY <1>5, <2>2, <2>3, <2>4, ArmsByPriority DEF DerivedStatus, R
<1>6. QED BY <1>4, <1>5

(* The charger shows the derived status unless a derivation is due. *)
FreshInv == (~stale /\ \A m \in Msgs : msg[m].pc # "deriving") => charger = DerivedStatus

(* Whichever statement comes next, the status is derived or known stale. *)
LEMMA FreshStep == ASSUME TypeOK, FreshInv, [Next]_vars PROVE FreshInv'
<1>0. msg \in [Msgs -> [pc : MsgStates, connector : Connectors \union {None},
                       tag : Tags \union {None}, reservation : Reservations \union {None}]]
  BY DEF TypeOK
<1>1. ASSUME NEW m \in Msgs, msg[m].pc # "deriving", UNCHANGED <<connectors, charger, stale>>,
             \A n \in Msgs \ {m} : msg'[n] = msg[n]
      PROVE  FreshInv'
  BY <1>1 DEF FreshInv, DerivedStatus, Taken
<1>2. ASSUME NEW m \in Msgs, NEW pc, SetPc(m, pc)
      PROVE  msg'[m].pc = pc /\ \A n \in Msgs \ {m} : msg'[n] = msg[n]
  BY <1>0, <1>2 DEF SetPc
<1>3. ASSUME NEW m \in Msgs, NEW c \in Connectors, NEW t \in Tags,
             NEW r \in Reservations \union {None}, StartAuthorize(m, c, t, r)
      PROVE  FreshInv'
  BY <1>0, <1>1, <1>2, <1>3 DEF StartAuthorize, rows
<1>4. ASSUME NEW m \in Msgs, NEW t \in Told, StopClose(m, t) PROVE FreshInv'
  BY <1>0, <1>1, <1>2, <1>4 DEF StopClose
<1>5. ASSUME stale' = TRUE PROVE FreshInv'
  BY <1>5 DEF FreshInv
<1>6. ASSUME NEW m \in Msgs, StopConnector(m) PROVE FreshInv'
  BY <1>1, <1>2, <1>5, <1>6 DEF StopConnector
<1>7. ASSUME NEW m \in Msgs, NEW c \in Connectors, NEW s \in Statuses, UpsertConnectorStatus(m, c, s)
      PROVE  FreshInv'
  BY <1>2, <1>7 DEF UpsertConnectorStatus, FreshInv
<1>8. ASSUME NEW m \in Msgs, DeriveChargerStatus(m) PROVE FreshInv'
  BY <1>8 DEF DeriveChargerStatus, FreshInv, DerivedStatus, Taken
<1>9. ASSUME NEW m \in Msgs, NEW t \in Told, NEW w \in Powers, UpdateSessionMaxPower(m, t, w)
      PROVE  FreshInv'
  BY <1>1, <1>2, <1>9 DEF UpdateSessionMaxPower
<1>10. ASSUME NEW m \in Msgs, StartRollback(m) \/ HandlerFails(m) PROVE FreshInv'
  BY <1>1, <1>2, <1>10 DEF StartRollback, HandlerFails, rows
<1>11. CASE UNCHANGED vars
  BY <1>11 DEF vars, rows, FreshInv, DerivedStatus, Taken
<1>12. QED BY <1>3, <1>4, <1>5, <1>6, <1>7, <1>8, <1>9, <1>10, <1>11
           DEF Next, StartCommit, UpdateChargerStatus, DeriveFails

(* However concurrent notifications interleave, once they have finished    *)
(* the charger shows the status of highest priority of its connectors.     *)
THEOREM DerivedStaysFresh == Spec => []DerivedFresh
<1>1. Init => FreshInv
  BY SessionAssumption DEF Init, FreshInv, DerivedStatus, Taken, Arms, NamedStatuses
<1>2. TypeOK /\ FreshInv /\ [Next]_vars => FreshInv'
  BY FreshStep
<1>3. FreshInv => DerivedFresh
  BY DerivesHighest DEF FreshInv, DerivedFresh
<1>4. QED BY <1>1, <1>2, <1>3, TypeCorrect, PTL DEF Spec
=============================================================================
