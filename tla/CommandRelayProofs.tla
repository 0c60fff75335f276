------------------------- MODULE CommandRelayProofs -------------------------
(***************************************************************************)
(* Proofs about CommandRelay: for any number of requests, connections and  *)
(* arguments, and whichever commands are requested.                        *)
(***************************************************************************)
EXTENDS CommandRelay, TLAPS

(* What an endpoint can have left to do: it always publishes last. *)
WithReset == {<<"reset", "publish">>, <<"reset", "store", "publish">>,
              <<"store", "reset", "publish">>}
Plans == WithReset \union {<<>>, <<"publish">>, <<"store", "publish">>}

(* The commands whose requests always carry an argument. *)
Argued == Actions \intersect {"SendLocalList", "ChangeConfiguration", "SetChargingProfile",
                            "ReserveNow", "CancelReservation"}

(* A request and the step it is at fit together. *)
RequestInv ==
  \A q \in Requests :
    /\ req[q].left \in Plans
    /\ req[q].left # <<>> => req[q].action \in Actions
    /\ req[q].left \in WithReset => req[q].action \in Tracked
    /\ req[q].action \in Argued => req[q].arg \in Args

(* A goroutine runs only for a request that has been published, on a       *)
(* connection that was registered, and remembers an answer to its command. *)
CallInv ==
  /\ \A k \in subs : conn[k] \notin {"none", "accepted"}
  /\ \A q \in Requests, k \in Conns :
       /\ <<q, k>> \in wire => call[q][k].state \notin {"none", "queued"}
       /\ call[q][k].state # "none" =>
            /\ req[q].action \in Actions
            /\ req[q].left = <<>>
            /\ conn[k] \notin {"none", "accepted"}
       /\ call[q][k].state \in {"replied", "stored"} =>
            call[q][k].status \in RepliesTo(req[q].action)
       /\ call[q][k].state = "stored" =>
            req[q].action = "ChangeConfiguration" /\ call[q][k].status # "CallError"

(* The endpoint or one of the goroutines of q is not finished. *)
Active(q) ==
  \/ req[q].left # <<>>
  \/ \E k \in Conns : call[q][k].state \notin {"none", "done"}

(* The requests for the command of q have neither overlapped nor failed. *)
Clean(q) == req[q].action \in clean

(* A request is the only one under way for its command, and the charge     *)
(* point answers it on one connection: one that has been replaced is never *)
(* the current one again.                                                  *)
AloneAt(q) ==
  /\ \A p \in Requests :
       Active(q) /\ Active(p) /\ req[p].action \in Alike(req[q].action) => p = q
  /\ \A k \in Conns : <<q, k>> \in wire => call[q][k].state = "waiting"
  /\ \A k, j \in Conns :
       k # j /\ call[q][k].state \in {"replied", "stored", "done"} =>
         /\ call[q][j].state \in {"none", "queued", "waiting"}
         /\ call[q][j].state # "none" => current # j

AloneInv == \A q \in Requests : Clean(q) => AloneAt(q)

(* What the gateway has still to write down is the latest answer. *)
LatestAt(q) ==
  \A k \in Conns : call[q][k].state \in {"replied", "stored"} =>
    /\ last[req[q].action] = call[q][k].status
    /\ req[q].action = "GetLocalListVersion" => call[q][k].data = cp.version
    /\ req[q].action = "SendLocalList" /\ call[q][k].status = "Accepted" =>
         req[q].arg = cp.version

LatestInv == \A q \in Requests : Clean(q) => LatestAt(q)

Verdict(r) == IF CarriedOut(r) THEN "ok" ELSE "error"

(* A status column is right, or a request for its command is under way. *)
StatusInv ==
  \A a \in Read \intersect clean : last[a] \notin {None, "CallError"} =>
    \/ status[a] = Verdict(last[a])
    \/ \E q \in Requests : req[q].action = a /\ Active(q)

(* The version is right, or the answer that will make it so is at hand. *)
VersionInv ==
  ListCommands \subseteq clean =>
    \/ listVersion = cp.version
    \/ \E q \in Requests, k \in Conns :
         /\ req[q].action = "SendLocalList"
         /\ call[q][k].state = "replied"
         /\ call[q][k].status = "Accepted"

(* Commands that write the same columns are clean together. *)
Together == \A a \in clean : Alike(a) \subseteq clean

CleanInv == Together /\ AloneInv /\ LatestInv /\ StatusInv /\ VersionInv

IInv == TypeOK /\ RequestInv /\ CallInv

-----------------------------------------------------------------------------
(* What Begin is called with. *)
Planned(a, x, s) ==
  /\ a \in Actions
  /\ x \in Args \union {None}
  /\ s \in Plans \ {<<>>}
  /\ s \in WithReset => a \in Tracked
  /\ a \in Argued => x \in Args

(* Every endpoint starts a request that is planned like this. *)
LEMMA EndpointShape ==
  ASSUME NEW q \in Requests, Endpoint(q)
  PROVE  \E a, x, s : Planned(a, x, s) /\ Begin(q, a, x, s)
<1> USE DEF Planned, Begin, Plans, WithReset, Argued, Tracked
<1>1. CASE GetLocalListVersion(q)
  BY <1>1 DEF GetLocalListVersion
<1>2. CASE UnlockConnector(q)
  BY <1>2 DEF UnlockConnector
<1>3. CASE ChangeAvailability(q)
  BY <1>3 DEF ChangeAvailability
<1>4. CASE ClearCache(q)
  BY <1>4 DEF ClearCache
<1>5. CASE GetConfiguration(q)
  BY <1>5 DEF GetConfiguration
<1>6. CASE UpdateFirmware(q)
  BY <1>6 DEF UpdateFirmware
<1>7. CASE GetDiagnostics(q)
  BY <1>7 DEF GetDiagnostics
<1>8. CASE GetCompositeSchedule(q)
  BY <1>8 DEF GetCompositeSchedule
<1>9. CASE TriggerMessage(q)
  BY <1>9 DEF TriggerMessage
<1>10. CASE RemoteStart(q)
  BY <1>10 DEF RemoteStart
<1>11. CASE RemoteStop(q)
  BY <1>11 DEF RemoteStop
<1>12. CASE ClearChargingProfile(q, None)
  BY <1>12 DEF ClearChargingProfile
<1>13. ASSUME NEW x \in Args, SendLocalList(q, x)
       PROVE  \E a, y, s : Planned(a, y, s) /\ Begin(q, a, y, s)
  BY <1>13 DEF SendLocalList
<1>14. ASSUME NEW x \in Args, ChangeConfiguration(q, x)
       PROVE  \E a, y, s : Planned(a, y, s) /\ Begin(q, a, y, s)
  BY <1>14 DEF ChangeConfiguration
<1>15. ASSUME NEW x \in Args, SetChargingProfile(q, x)
       PROVE  \E a, y, s : Planned(a, y, s) /\ Begin(q, a, y, s)
  BY <1>15 DEF SetChargingProfile
<1>16. ASSUME NEW x \in Args, ClearChargingProfile(q, x)
       PROVE  \E a, y, s : Planned(a, y, s) /\ Begin(q, a, y, s)
  BY <1>16 DEF ClearChargingProfile
<1>17. ASSUME NEW x \in Args, ReserveNow(q, x)
       PROVE  \E a, y, s : Planned(a, y, s) /\ Begin(q, a, y, s)
  BY <1>17 DEF ReserveNow
<1>18. ASSUME NEW x \in Args, CancelReservation(q, x)
       PROVE  \E a, y, s : Planned(a, y, s) /\ Begin(q, a, y, s)
  BY <1>18 DEF CancelReservation
<1>19. QED BY <1>1, <1>2, <1>3, <1>4, <1>5, <1>6, <1>7, <1>8, <1>9, <1>10, <1>11,
              <1>12, <1>13, <1>14, <1>15, <1>16, <1>17, <1>18, Zenon DEF Endpoint

(* Types of the records that stand for a goroutine. *)
CallRecords == [state : CallStates, status : Replies \union {None}, data : Args \union {None}]

(* Moving one goroutine on changes nothing else about any of them. *)
LEMMA Moves ==
  ASSUME call \in [Requests -> [Conns -> CallRecords]],
         NEW q \in Requests, NEW k \in Conns, NEW v \in CallStates,
         call' = [call EXCEPT ![q][k].state = v]
  PROVE  /\ call' \in [Requests -> [Conns -> CallRecords]]
         /\ call'[q][k].state = v
         /\ \A p \in Requests, j \in Conns :
              /\ call'[p][j].status = call[p][j].status
              /\ call'[p][j].data = call[p][j].data
              /\ p # q \/ j # k => call'[p][j] = call[p][j]
<1>1. call[q] \in [Conns -> CallRecords] /\ call[q][k] \in CallRecords
  OBVIOUS
<1>2. call'[q] = [call[q] EXCEPT ![k].state = v]
  OBVIOUS
<1>3. call'[q][k] = [call[q][k] EXCEPT !.state = v]
  BY <1>1, <1>2
<1>4. /\ call'[q][k] \in CallRecords
      /\ call'[q][k].state = v
      /\ call'[q][k].status = call[q][k].status
      /\ call'[q][k].data = call[q][k].data
  BY <1>1, <1>3 DEF CallRecords
<1>5. \A j \in Conns \ {k} : call'[q][j] = call[q][j]
  BY <1>1, <1>2
<1>6. call'[q] \in [Conns -> CallRecords]
  BY <1>1, <1>2, <1>4, <1>5
<1>7. \A p \in Requests \ {q} : call'[p] = call[p]
  OBVIOUS
<1>8. call' \in [Requests -> [Conns -> CallRecords]]
  BY <1>6, <1>7
<1>9. QED BY <1>4, <1>5, <1>7, <1>8

(* How a case of HandleResponse leaves the goroutine and the rows. *)
Concludes(q, k) ==
  LET a == req[q].action
      c == call[q][k]
  IN  /\ c.state \in {"replied", "stored"}
      /\ \/ call' = [call EXCEPT ![q][k].state = "done"]
         \/ /\ a = "ChangeConfiguration" /\ c.status # "CallError"
            /\ call' = [call EXCEPT ![q][k].state = "stored"]
      /\ UNCHANGED <<req, hub, peer, profiles>>
      /\ clean' = clean \/ (a = "ChangeConfiguration" /\ clean' = clean \ {a})
      /\ \/ status' = status /\ (a \in Read => c.status = "CallError" \/ call'[q][k].state = "stored")
         \/ /\ a \in Tracked
            /\ \E v \in {"ok", "error"} :
                 /\ status' = [status EXCEPT ![a] = v]
                 /\ a \in Read => c.status # "CallError" /\ v = Verdict(c.status)
      /\ \/ /\ listVersion' = listVersion
            /\ a = "SendLocalList" => c.status # "Accepted"
         \/ a = "GetLocalListVersion" /\ listVersion' = c.data
         \/ a = "SendLocalList" /\ c.status = "Accepted" /\ listVersion' = req[q].arg
      /\ config' \in Args \union {None}
      /\ \/ reservation' = reservation
         \/ a \in Argued /\ CancelReserved(req[q].arg)

(* Any case that only turns the answer into a status concludes. *)
LEMMA StatusConcludes ==
  ASSUME IInv, NEW q \in Requests, NEW k \in Conns, NEW a, NEW good,
         OnStatus(q, k, a, good), a \notin {"SendLocalList", "GetConfiguration", "ReserveNow", "CancelReservation"},
         \A r \in RepliesTo(a) \ {"CallError"} : r \in good <=> CarriedOut(r)
  PROVE  Concludes(q, k)
<1>1. req[q].action = a /\ call[q][k].state = "replied"
  BY DEF OnStatus, Answered
<1>2. a \in Actions /\ call[q][k].status \in RepliesTo(a)
  BY <1>1 DEF IInv, CallInv
<1>3. a \in Tracked
  BY <1>2 DEF Tracked
<1>4. /\ call' = [call EXCEPT ![q][k].state = "done"]
      /\ UNCHANGED <<req, hub, peer, profiles, clean, listVersion, config, reservation>>
  BY DEF OnStatus, Done
<1>5. CASE ~Parsed(q, k)
  BY <1>1, <1>3, <1>4, <1>5 DEF OnStatus, Parsed, Concludes, IInv, TypeOK
<1>6. CASE Parsed(q, k)
  <2>1. status' = [status EXCEPT ![a] = IF call[q][k].status \in good THEN "ok" ELSE "error"]
    BY <1>6 DEF OnStatus
  <2>2. call[q][k].status \in good <=> CarriedOut(call[q][k].status)
    BY <1>2, <1>6 DEF Parsed
  <2>3. call[q][k].status # "CallError"
    BY <1>6 DEF Parsed
  <2>4. QED BY <1>1, <1>3, <1>4, <2>1, <2>2, <2>3 DEF Concludes, IInv, TypeOK, Verdict
<1>7. QED BY <1>5, <1>6

(* Every case of HandleResponse concludes. *)
LEMMA HandleShape ==
  ASSUME IInv, NEW q \in Requests, NEW k \in Conns, HandleResponse(q, k)
  PROVE  Concludes(q, k)
<1> DEFINE a == req[q].action
           c == call[q][k]
<1>1. c.state # "none" => a \in Actions
  BY DEF IInv, CallInv
<1>2. c.state \in {"replied", "stored"} => c.status \in RepliesTo(a)
  BY DEF IInv, CallInv
<1>3. c \in CallRecords
  BY DEF IInv, TypeOK, CallRecords
<1>4. a \in Argued => req[q].arg \in Args
  BY DEF IInv, RequestInv
<1>5. config \in Args \union {None}
  BY DEF IInv, TypeOK
<1> HIDE DEF a, c
<1>10. CASE OnGetLocalListVersion(q, k)
  BY <1>1, <1>2, <1>10, <1>5 DEF OnGetLocalListVersion, Answered, Parsed, Done, Concludes, a, c, Tracked, RepliesTo, Verdict, CarriedOut, Read
<1>11. CASE OnSendLocalList(q, k)
  BY <1>1, <1>2, <1>11, <1>5 DEF OnSendLocalList, Answered, Parsed, Done, Concludes, a, c, Tracked, RepliesTo, Verdict, CarriedOut, Read
<1>12. CASE OnUnlockConnector(q, k)
  BY <1>12, StatusConcludes DEF OnUnlockConnector, RepliesTo, CarriedOut
<1>13. CASE OnChangeAvailability(q, k)
  BY <1>13, StatusConcludes DEF OnChangeAvailability, RepliesTo, CarriedOut
<1>14. CASE OnClearCache(q, k)
  BY <1>14, StatusConcludes DEF OnClearCache, RepliesTo, CarriedOut
<1>15. CASE OnGetConfiguration(q, k)
  BY <1>1, <1>2, <1>3, <1>5, <1>15 DEF OnGetConfiguration, Answered, Parsed, Done, Concludes, a, c, Tracked, Read, CallRecords
<1>16. CASE OnChangeConfigurationValue(q, k)
  <2>1. /\ a = "ChangeConfiguration" /\ c.state = "replied" /\ c.status # "CallError"
        /\ call' = [call EXCEPT ![q][k].state = "stored"]
        /\ UNCHANGED <<req, status, listVersion, profiles, reservation, hub, peer>>
        /\ clean' = clean \/ clean' = clean \ {"ChangeConfiguration"}
    BY <1>16 DEF OnChangeConfigurationValue, Answered, Parsed, a, c
  <2>2. config' \in Args \union {None}
    BY <1>1, <1>4, <1>5, <1>16, <2>1 DEF OnChangeConfigurationValue, Argued, a, c
  <2>3. call'[q][k].state = "stored"
    BY <2>1, Moves DEF IInv, TypeOK, CallRecords, CallStates
  <2>4. QED BY <2>1, <2>2, <2>3 DEF Concludes, a, c
<1>17. CASE OnChangeConfigurationStatus(q, k)
  BY <1>1, <1>2, <1>3, <1>4, <1>5, <1>17 DEF OnChangeConfigurationStatus, Answered, Parsed, Done, Concludes, a, c, Tracked, RepliesTo, Verdict, CarriedOut, Read, IInv, CallInv
<1>18. CASE OnChangeConfigurationInvalid(q, k)
  BY <1>1, <1>2, <1>3, <1>5, <1>18 DEF OnChangeConfigurationInvalid, Answered, Parsed, Done, Concludes, a, c, db
<1>19. CASE OnUpdateFirmware(q, k)
  BY <1>1, <1>2, <1>3, <1>5, <1>19 DEF OnUpdateFirmware, Answered, Done, Concludes, a, c, Tracked, Read
<1>20. CASE OnGetDiagnostics(q, k)
  BY <1>1, <1>2, <1>3, <1>5, <1>20 DEF OnGetDiagnostics, Answered, Done, Concludes, a, c, Tracked, Read
<1>21. CASE OnSetChargingProfile(q, k)
  BY <1>21, StatusConcludes DEF OnSetChargingProfile, RepliesTo, CarriedOut
<1>22. CASE OnClearChargingProfile(q, k)
  BY <1>22, StatusConcludes DEF OnClearChargingProfile, RepliesTo, CarriedOut
<1>23. CASE OnGetCompositeSchedule(q, k)
  BY <1>23, StatusConcludes DEF OnGetCompositeSchedule, RepliesTo, CarriedOut
<1>24. CASE OnReserveNow(q, k)
  BY <1>1, <1>2, <1>3, <1>5, <1>24 DEF OnReserveNow, Answered, Parsed, Done, Concludes, a, c, Tracked, Read, Argued
<1>25. CASE OnCancelReservation(q, k)
  BY <1>1, <1>2, <1>3, <1>5, <1>25 DEF OnCancelReservation, Answered, Parsed, Done, Concludes, a, c, Tracked, Read, Argued
<1>26. CASE OnTriggerMessage(q, k)
  BY <1>26, StatusConcludes DEF OnTriggerMessage, RepliesTo, CarriedOut
<1>27. CASE OnRemoteStart(q, k)
  BY <1>27, StatusConcludes DEF OnRemoteStart, RepliesTo, CarriedOut
<1>28. CASE OnRemoteStop(q, k)
  BY <1>28, StatusConcludes DEF OnRemoteStop, RepliesTo, CarriedOut
<1>29. QED BY <1>10, <1>11, <1>12, <1>13, <1>14, <1>15, <1>16, <1>17, <1>18, <1>19, <1>20,
              <1>21, <1>22, <1>23, <1>24, <1>25, <1>26, <1>27, <1>28 DEF HandleResponse

(* A step of the system, with what the endpoints begin and what the cases  *)
(* of HandleResponse conclude in place of the single operations.           *)
Steps ==
  \/ \E q \in Requests : \/ \E a, x, s : Planned(a, x, s) /\ Begin(q, a, x, s)
                        \/ ApiStep(q)
  \/ \E k \in Conns : ConnStep(k)
  \/ \E q \in Requests, k \in Conns :
       \/ Write(q, k)
       \/ CommandFails(q, k)
       \/ \E r \in Replies : Execute(q, k, r)
       \/ Concludes(q, k)
  \/ \E x \in Args : UseReservation(x)
  \/ UNCHANGED vars

LEMMA NextShape == ASSUME IInv, [Next]_vars PROVE Steps
<1>1. ASSUME NEW q \in Requests, Endpoint(q) PROVE Steps
  BY <1>1, EndpointShape, Zenon DEF Steps
<1>2. ASSUME NEW q \in Requests, NEW k \in Conns, HandleResponse(q, k) PROVE Steps
  BY <1>2, HandleShape, Zenon DEF Steps
<1>3. CASE UNCHANGED vars
  BY <1>3 DEF Steps
<1>4. CASE \/ \E q \in Requests : ApiStep(q)
           \/ \E k \in Conns : ConnStep(k)
           \/ \E x \in Args : UseReservation(x)
  BY <1>4, Zenon DEF Steps
<1>5. CASE \E q \in Requests, k \in Conns :
             Write(q, k) \/ CommandFails(q, k) \/ \E r \in Replies : Execute(q, k, r)
  BY <1>5, Zenon DEF Steps
<1>6. QED BY <1>1, <1>2, <1>3, <1>4, <1>5, Zenon DEF Next

-----------------------------------------------------------------------------
(* Nothing requested, nobody connected. *)
LEMMA InitInv == Init => IInv /\ CleanInv /\ NoDeadEntry
<1> SUFFICES ASSUME Init PROVE IInv /\ CleanInv /\ NoDeadEntry
  OBVIOUS
<1>1. <<>> \in Seq(ApiSteps)
  OBVIOUS
<1>2. call \in [Requests -> [Conns -> CallRecords]]
  BY DEF Init, CallRecords, CallStates
<1>3. TypeOK
  BY <1>1, <1>2 DEF Init, TypeOK, CallRecords, ConnStates
<1>4. RequestInv
  BY RelayAssumption DEF Init, RequestInv, Plans, WithReset, Argued
<1>5. CallInv
  BY DEF Init, CallInv
<1>6. CleanInv
  BY DEF Init, CleanInv, Together, AloneInv, AloneAt, LatestInv, LatestAt, StatusInv, VersionInv,
         Active, Clean, Alike, ListCommands, Read, Tracked
<1>7. QED BY <1>3, <1>4, <1>5, <1>6 DEF IInv, Init, NoDeadEntry

(* The head of a plan is a step of the endpoint, its tail a plan. *)
LEMMA PlanTail ==
  ASSUME NEW s \in Plans, s # <<>>
  PROVE  /\ s \in Seq(ApiSteps) /\ Tail(s) \in Plans /\ Tail(s) \in Seq(ApiSteps)
         /\ Head(s) = "reset" => s \in WithReset
         /\ Tail(s) \in WithReset => s \in WithReset
         /\ Head(s) = "publish" => Tail(s) = <<>>
         /\ Head(s) # "publish" => Tail(s) # <<>>
<1> USE DEF Plans, WithReset, ApiSteps
<1>1. CASE s = <<"publish">>
  BY <1>1
<1>2. CASE s = <<"reset", "publish">>
  BY <1>2
<1>3. CASE s = <<"store", "publish">>
  BY <1>3
<1>4. CASE s = <<"reset", "store", "publish">>
  BY <1>4
<1>5. CASE s = <<"store", "reset", "publish">>
  BY <1>5
<1>6. QED BY <1>1, <1>2, <1>3, <1>4, <1>5

(* What a step of the handler of one connection writes. *)
LEMMA HandlerMoves ==
  ASSUME NEW k \in Conns, ConnStep(k)
  PROVE  /\ conn' = conn \/ \E s \in ConnStates : conn' = [conn EXCEPT ![k] = s]
         /\ subs' \subseteq subs \union {k}
         /\ current' \in {current, k, None} /\ connections' \in {connections, k, None}
         /\ UNCHANGED <<req, db, call, wire, cp, last, clean>>
<1> USE DEF ConnStates, hub, peer
<1>1. CASE Connect(k)
  BY <1>1 DEF Connect
<1>2. CASE Register(k)
  BY <1>2 DEF Register
<1>3. CASE Subscribe(k)
  BY <1>3 DEF Subscribe
<1>4. CASE SubscriptionEnds(k)
  BY <1>4 DEF SubscriptionEnds
<1>5. CASE ReadFails(k)
  BY <1>5 DEF ReadFails, Leave
<1>6. CASE SubCancel(k)
  BY <1>6 DEF SubCancel, Leave
<1>7. CASE Unregister(k)
  BY <1>7 DEF Unregister, Leave
<1>8. CASE CloseNow(k)
  BY <1>8 DEF CloseNow, Leave
<1>9. QED BY <1>1, <1>2, <1>3, <1>4, <1>5, <1>6, <1>7, <1>8 DEF ConnStep

(* Every step of the endpoints, the handlers and the charge point keeps    *)
(* the variables well typed.                                               *)
LEMMA TypeStep == ASSUME IInv, [Next]_vars PROVE TypeOK'
<1> USE RelayAssumption
<1> USE DEF db, hub, peer
<1>1. ASSUME NEW q \in Requests, NEW a, NEW x, NEW s, Planned(a, x, s), Begin(q, a, x, s)
      PROVE  TypeOK'
  <2>1. s \in Seq(ApiSteps)
    BY <1>1, PlanTail DEF Planned
  <2>2. req' \in [Requests -> [action : Actions \union {None}, arg : Args \union {None},
                               left : Seq(ApiSteps)]]
    BY <1>1, <2>1 DEF Begin, Planned, IInv, TypeOK
  <2>3. clean' \subseteq Actions
    BY <1>1 DEF Begin, IInv, TypeOK
  <2>4. QED BY <1>1, <2>2, <2>3 DEF Begin, IInv, TypeOK
<1>2. ASSUME NEW q \in Requests, NEW step, NextStep(q, step)
      PROVE  req' \in [Requests -> [action : Actions \union {None}, arg : Args \union {None},
                                    left : Seq(ApiSteps)]]
  <2>1. Tail(req[q].left) \in Seq(ApiSteps)
    BY <1>2, PlanTail DEF NextStep, IInv, RequestInv
  <2>2. req[q] \in [action : Actions \union {None}, arg : Args \union {None}, left : Seq(ApiSteps)]
    BY DEF IInv, TypeOK
  <2>3. [req[q] EXCEPT !.left = Tail(req[q].left)] \in
          [action : Actions \union {None}, arg : Args \union {None}, left : Seq(ApiSteps)]
    BY <2>1, <2>2
  <2>4. req' = [req EXCEPT ![q] = [req[q] EXCEPT !.left = Tail(req[q].left)]]
    BY <1>2 DEF NextStep, IInv, TypeOK
  <2>5. QED BY <2>3, <2>4 DEF IInv, TypeOK
<1>3. ASSUME NEW q \in Requests, Reset(q) PROVE TypeOK'
  <2>1. req[q].action \in Tracked
    BY <1>3, PlanTail DEF Reset, NextStep, IInv, RequestInv
  <2>2. status' \in [Tracked -> {"pending", "ok", "error"}]
    BY <1>3, <2>1 DEF Reset, IInv, TypeOK
  <2>3. QED BY <1>2, <1>3, <2>2 DEF Reset, IInv, TypeOK
<1>4. ASSUME NEW q \in Requests, Store(q) PROVE TypeOK'
  <2>1. /\ req[q].action \in Actions
        /\ req[q].action \in Argued => req[q].arg \in Args
    BY <1>4 DEF IInv, RequestInv, Store, NextStep
  <2>2. req[q].arg \in Args \union {None} /\ profiles \subseteq Args
    BY DEF IInv, TypeOK
  <2>3. config' \in Args \union {None}
    BY <1>4, <2>2 DEF Store, IInv, TypeOK
  <2>4. profiles' \subseteq Args
    BY <1>4, <2>1, <2>2 DEF Store, Argued
  <2>5. reservation' \in [Args -> {"none", "Reserved", "Cancelled", "Used"}]
    BY <1>4, <2>1 DEF Store, IInv, TypeOK, Argued
  <2>6. QED BY <1>2, <1>4, <2>3, <2>4, <2>5 DEF Store, IInv, TypeOK
<1>5. ASSUME NEW q \in Requests, SendCommand(q) PROVE TypeOK'
  <2>1. call[q] \in [Conns -> CallRecords]
    BY DEF IInv, TypeOK, CallRecords
  <2>2. call' = [call EXCEPT ![q] =
                   [k \in Conns |-> IF k \in subs THEN [call[q][k] EXCEPT !.state = "queued"]
                                                  ELSE call[q][k]]]
    BY <1>5, <2>1 DEF SendCommand
  <2>3. call'[q] \in [Conns -> CallRecords]
    <3>1. \A k \in Conns : [call[q][k] EXCEPT !.state = "queued"] \in CallRecords
      BY <2>1 DEF CallRecords, CallStates
    <3>2. QED BY <2>1, <2>2, <3>1 DEF IInv, TypeOK
  <2>4. call' \in [Requests -> [Conns -> CallRecords]]
    BY <2>2, <2>3 DEF IInv, TypeOK, CallRecords
  <2>5. clean' \subseteq Actions
    BY <1>5 DEF SendCommand, IInv, TypeOK
  <2>6. QED BY <1>2, <1>5, <2>4, <2>5 DEF SendCommand, IInv, TypeOK, CallRecords
<1>6. ASSUME NEW q \in Requests, Abort(q) PROVE TypeOK'
  <2>1. req[q] \in [action : Actions \union {None}, arg : Args \union {None}, left : Seq(ApiSteps)]
    BY DEF IInv, TypeOK
  <2>2. [req[q] EXCEPT !.left = <<>>] \in
          [action : Actions \union {None}, arg : Args \union {None}, left : Seq(ApiSteps)]
    <3>1. <<>> \in Seq(ApiSteps)
      OBVIOUS
    <3>2. QED BY <2>1, <3>1
  <2>3. req' \in [Requests -> [action : Actions \union {None}, arg : Args \union {None},
                               left : Seq(ApiSteps)]]
    BY <1>6, <2>2 DEF Abort, IInv, TypeOK
  <2>4. QED BY <1>6, <2>3 DEF Abort, IInv, TypeOK
<1>7. ASSUME NEW k \in Conns, ConnStep(k) PROVE TypeOK'
  <2>0. /\ conn \in [Conns -> ConnStates] /\ subs \subseteq Conns
        /\ current \in Conns \union {None} /\ connections \in Conns \union {None}
    BY DEF IInv, TypeOK
  <2>1. /\ conn' = conn \/ \E s \in ConnStates : conn' = [conn EXCEPT ![k] = s]
        /\ subs' \subseteq subs \union {k}
        /\ current' \in {current, k, None} /\ connections' \in {connections, k, None}
        /\ UNCHANGED <<req, db, call, wire, cp, last, clean>>
    BY <1>7, HandlerMoves
  <2>2. conn' \in [Conns -> ConnStates]
    BY <2>0, <2>1
  <2>3. /\ subs' \subseteq Conns
        /\ current' \in Conns \union {None} /\ connections' \in Conns \union {None}
    BY <2>0, <2>1
  <2>4. /\ req' = req /\ call' = call /\ wire' = wire /\ cp' = cp /\ last' = last /\ clean' = clean
        /\ status' = status /\ listVersion' = listVersion /\ config' = config
        /\ profiles' = profiles /\ reservation' = reservation
    BY <2>1
  <2>5. QED BY <2>2, <2>3, <2>4 DEF IInv, TypeOK
<1>8. ASSUME NEW q \in Requests, NEW k \in Conns, NEW v \in CallStates,
             call' = [call EXCEPT ![q][k].state = v]
      PROVE  call' \in [Requests -> [Conns -> CallRecords]]
  BY <1>8, Moves DEF IInv, TypeOK, CallRecords
<1>9. ASSUME NEW q \in Requests, NEW k \in Conns, Write(q, k) PROVE TypeOK'
  <2>1. call' \in [Requests -> [Conns -> CallRecords]]
    BY <1>8, <1>9 DEF Write, CallStates
  <2>2. QED BY <1>9, <2>1 DEF Write, IInv, TypeOK, CallRecords
<1>10. ASSUME NEW q \in Requests, NEW k \in Conns, CommandFails(q, k) PROVE TypeOK'
  <2>1. call' \in [Requests -> [Conns -> CallRecords]]
    BY <1>8, <1>10 DEF CommandFails, CallStates
  <2>2. QED BY <1>10, <2>1 DEF CommandFails, IInv, TypeOK, CallRecords
<1>11. ASSUME NEW q \in Requests, NEW k \in Conns, NEW r \in Replies, Execute(q, k, r) PROVE TypeOK'
  <2>1. req[q].action \in Argued => req[q].arg \in Args
    BY DEF IInv, RequestInv
  <2>2. call[q][k].state # "none"
    BY <1>11 DEF Execute, IInv, CallInv
  <2>3. req[q].action \in Actions
    BY <2>2 DEF IInv, CallInv
  <2>4. cp \in [version : Args \union {None}, config : Args \union {None}, reserved : SUBSET Args]
    BY DEF IInv, TypeOK
  <2>5. cp' \in [version : Args \union {None}, config : Args \union {None}, reserved : SUBSET Args]
    BY <1>11, <2>1, <2>3, <2>4 DEF Execute, Argued
  <2>6. last' \in [Actions -> Replies \union {None}]
    BY <1>11, <2>3 DEF Execute, IInv, TypeOK
  <2>7. call' \in [Requests -> [Conns -> CallRecords]]
    BY <1>11, <2>4 DEF Execute, IInv, TypeOK, CallRecords, CallStates
  <2>8. QED BY <1>11, <2>5, <2>6, <2>7 DEF Execute, IInv, TypeOK, CallRecords
<1>12. ASSUME NEW q \in Requests, NEW k \in Conns, Concludes(q, k) PROVE TypeOK'
  <2>1. call' \in [Requests -> [Conns -> CallRecords]]
    BY <1>8, <1>12 DEF Concludes, CallStates
  <2>2. status' \in [Tracked -> {"pending", "ok", "error"}]
    BY <1>12 DEF Concludes, IInv, TypeOK
  <2>3. listVersion' \in Args \union {None}
    BY <1>12 DEF Concludes, IInv, TypeOK, CallRecords
  <2>4. reservation' \in [Args -> {"none", "Reserved", "Cancelled", "Used"}]
    <3>1. CASE req[q].action \in Argued /\ CancelReserved(req[q].arg)
      BY <3>1 DEF CancelReserved, IInv, TypeOK, RequestInv
    <3>2. CASE reservation' = reservation
      BY <3>2 DEF IInv, TypeOK
    <3>3. QED BY <1>12, <3>1, <3>2 DEF Concludes
  <2>5. clean' \subseteq Actions
    BY <1>12 DEF Concludes, IInv, TypeOK
  <2>6. QED BY <1>12, <2>1, <2>2, <2>3, <2>4, <2>5 DEF Concludes, IInv, TypeOK, CallRecords
<1>13. ASSUME NEW x \in Args, UseReservation(x) PROVE TypeOK'
  BY <1>13 DEF UseReservation, IInv, TypeOK
<1>14. CASE UNCHANGED vars
  BY <1>14 DEF vars, IInv, TypeOK
<1>15. ASSUME NEW q \in Requests, ApiStep(q) PROVE TypeOK'
  BY <1>3, <1>4, <1>5, <1>6, <1>15, Zenon DEF ApiStep
<1>16. QED BY <1>1, <1>7, <1>9, <1>10, <1>11, <1>12, <1>13, <1>14, <1>15, NextShape, Zenon
           DEF Steps

(* A step of an endpoint touches its own request only. *)
LEMMA RequestMoves ==
  ASSUME IInv, NEW q \in Requests, NEW step, NextStep(q, step)
  PROVE  /\ req[q].left \in Plans \ {<<>>} /\ Head(req[q].left) = step
         /\ req'[q].action = req[q].action
         /\ req'[q].arg = req[q].arg
         /\ req'[q].left = Tail(req[q].left)
         /\ \A p \in Requests \ {q} : req'[p] = req[p]
<1>1. req[q] \in [action : Actions \union {None}, arg : Args \union {None}, left : Seq(ApiSteps)]
  BY DEF IInv, TypeOK
<1>2. req'[q] = [req[q] EXCEPT !.left = Tail(req[q].left)]
  BY DEF NextStep, IInv, TypeOK
<1>3. /\ req'[q].action = req[q].action
      /\ req'[q].arg = req[q].arg
      /\ req'[q].left = Tail(req[q].left)
  BY <1>1, <1>2
<1>4. QED BY <1>3 DEF NextStep, IInv, TypeOK, RequestInv

(* Redis hands a command to the subscribed connections, and only to them. *)
LEMMA SendMoves ==
  ASSUME IInv, NEW q \in Requests, SendCommand(q)
  PROVE  /\ \A j \in Conns : /\ j \in subs => call'[q][j].state = "queued"
                             /\ j \notin subs => call'[q][j] = call[q][j]
         /\ \A p \in Requests \ {q}, j \in Conns : call'[p][j] = call[p][j]
<1>1. call \in [Requests -> [Conns -> CallRecords]]
  BY DEF IInv, TypeOK, CallRecords
<1>2. call' = [call EXCEPT ![q] =
                 [k \in Conns |-> IF k \in subs THEN [call[q][k] EXCEPT !.state = "queued"]
                                                ELSE call[q][k]]]
  BY <1>1 DEF SendCommand
<1>3. \A j \in Conns : [call[q][j] EXCEPT !.state = "queued"].state = "queued"
  BY <1>1 DEF CallRecords
<1>4. QED BY <1>1, <1>2, <1>3

(* A connection that was registered stays so, only such connections are    *)
(* subscribed, and only a new one becomes the charge point's current one.  *)
LEMMA ConnMoves ==
  ASSUME IInv, NEW k \in Conns, ConnStep(k)
  PROVE  /\ UNCHANGED <<req, db, call, wire, cp, last, clean>>
         /\ \A j \in Conns : conn[j] \notin {"none", "accepted"} => conn'[j] \notin {"none", "accepted"}
         /\ subs' \subseteq subs \union {k}
         /\ k \in subs' => conn'[k] \notin {"none", "accepted"}
         /\ \A j \in Conns : current' = j => current = j \/ conn[j] = "none"
<1> USE RelayAssumption DEF IInv, TypeOK, ConnStates, db, hub, peer
<1>1. CASE Connect(k)
  BY <1>1 DEF Connect, CallInv
<1>2. CASE Register(k)
  BY <1>2 DEF Register, CallInv
<1>3. CASE Subscribe(k) \/ SubscriptionEnds(k)
  BY <1>3 DEF Subscribe, SubscriptionEnds, CallInv
<1>4. CASE ReadFails(k)
  BY <1>4 DEF ReadFails, Leave, CallInv
<1>5. CASE SubCancel(k) \/ Unregister(k) \/ CloseNow(k)
  BY <1>5 DEF SubCancel, Unregister, CloseNow, Leave, CallInv
<1>6. QED BY <1>1, <1>2, <1>3, <1>4, <1>5 DEF ConnStep

(* The answer reaches the goroutine that waits for it and no other. *)
LEMMA ExecuteMoves ==
  ASSUME IInv, NEW q \in Requests, NEW k \in Conns, NEW r \in Replies, Execute(q, k, r)
  PROVE  /\ req[q].action \in Actions /\ r \in RepliesTo(req[q].action)
         /\ \A p \in Requests, j \in Conns : p # q \/ j # k => call'[p][j] = call[p][j]
         /\ call[q][k].state = "waiting" =>
              /\ call'[q][k].state = "replied"
              /\ call'[q][k].status = r
              /\ req[q].action = "GetLocalListVersion" => call'[q][k].data = cp.version
         /\ call[q][k].state # "waiting" => call' = call
<1>1. call[q][k].state # "none"
  BY DEF Execute, IInv, CallInv
<1>2. req[q].action \in Actions /\ r \in RepliesTo(req[q].action)
  BY <1>1 DEF Execute, IInv, CallInv
<1>3. call \in [Requests -> [Conns -> CallRecords]]
  BY DEF IInv, TypeOK, CallRecords
<1>4. CASE call[q][k].state # "waiting"
  BY <1>2, <1>4 DEF Execute
<1>5. CASE call[q][k].state = "waiting"
  <2>1. PICK d : /\ call' = [call EXCEPT ![q][k] = [state |-> "replied", status |-> r, data |-> d]]
                 /\ req[q].action = "GetLocalListVersion" => d = cp.version
    BY <1>5 DEF Execute
  <2>2. QED BY <1>2, <1>3, <1>5, <2>1
<1>6. QED BY <1>4, <1>5

(* A request and the step it is at go on fitting together. *)
LEMMA RequestStep == ASSUME IInv, [Next]_vars PROVE RequestInv'
<1> USE DEF IInv, RequestInv
<1>1. ASSUME NEW q \in Requests, NEW a, NEW x, NEW s, Planned(a, x, s), Begin(q, a, x, s)
      PROVE  RequestInv'
  <2>1. /\ req'[q] = [action |-> a, arg |-> x, left |-> s]
        /\ \A p \in Requests \ {q} : req'[p] = req[p]
    BY <1>1 DEF Begin, TypeOK
  <2>2. QED BY <1>1, <2>1 DEF Planned
<1>2. ASSUME NEW q \in Requests, NEW step, NextStep(q, step) PROVE RequestInv'
  BY <1>2, RequestMoves, PlanTail
<1>3. ASSUME NEW q \in Requests, Abort(q) PROVE RequestInv'
  <2>1. req[q] \in [action : Actions \union {None}, arg : Args \union {None}, left : Seq(ApiSteps)]
    BY DEF TypeOK
  <2>2. req'[q] = [req[q] EXCEPT !.left = <<>>] /\ \A p \in Requests \ {q} : req'[p] = req[p]
    BY <1>3 DEF Abort, TypeOK
  <2>3. req'[q].action = req[q].action /\ req'[q].arg = req[q].arg /\ req'[q].left = <<>>
    BY <2>1, <2>2
  <2>4. <<>> \in Plans /\ <<>> \notin WithReset
    BY DEF Plans, WithReset
  <2>5. QED BY <2>2, <2>3, <2>4
<1>4. CASE UNCHANGED req
  BY <1>4
<1>5. ASSUME NEW q \in Requests, ApiStep(q) PROVE RequestInv'
  BY <1>2, <1>3, <1>5 DEF ApiStep, Reset, Store, SendCommand
<1>6. ASSUME NEW k \in Conns, ConnStep(k) PROVE UNCHANGED req
  BY <1>6, ConnMoves
<1>7. ASSUME NEW q \in Requests, NEW k \in Conns,
             \/ Write(q, k) \/ CommandFails(q, k) \/ Concludes(q, k)
             \/ \E r \in Replies : Execute(q, k, r)
      PROVE  UNCHANGED req
  BY <1>7 DEF Write, CommandFails, Concludes, Execute
<1>8. ASSUME NEW x \in Args, UseReservation(x) PROVE UNCHANGED req
  BY <1>8 DEF UseReservation
<1>9. CASE UNCHANGED vars
  BY <1>4, <1>9 DEF vars
<1>10. QED BY <1>1, <1>4, <1>5, <1>6, <1>7, <1>8, <1>9, NextShape, Zenon DEF Steps

(* The goroutines go on working for published requests on registered       *)
(* connections, with answers to their own commands.                        *)
LEMMA CallStep == ASSUME IInv, [Next]_vars PROVE CallInv'
<1>5. ASSUME NEW k \in Conns, ConnStep(k) PROVE CallInv'
  <2>1. CallInv /\ subs \subseteq Conns
    BY DEF IInv, TypeOK
  <2>2. QED BY <1>5, <2>1, ConnMoves DEF CallInv
<1>0. call \in [Requests -> [Conns -> CallRecords]]
  BY DEF IInv, TypeOK, CallRecords
<1>00. {"waiting", "stored", "done"} \subseteq CallStates
  BY DEF CallStates
<1> USE DEF IInv, CallInv
<1>1. ASSUME NEW q \in Requests, NEW a, NEW x, NEW s, Planned(a, x, s), Begin(q, a, x, s)
      PROVE  CallInv'
  <2>1. UNCHANGED <<hub, call, wire>>
    BY <1>1 DEF Begin, peer
  <2>2. \A p \in Requests \ {q} : req'[p] = req[p]
    BY <1>1 DEF Begin, TypeOK
  <2>3. \A k \in Conns : call[q][k].state = "none"
    BY <1>1, RelayAssumption DEF Begin
  <2>4. QED BY <2>1, <2>2, <2>3 DEF hub
<1>2. ASSUME NEW q \in Requests, NEW step, NextStep(q, step), UNCHANGED <<hub, call, wire>>
      PROVE  CallInv'
  <2>1. \A k \in Conns : call[q][k].state = "none"
    BY <1>2 DEF NextStep
  <2>2. QED BY <1>2, <2>1, RequestMoves DEF hub
<1>3. ASSUME NEW q \in Requests, SendCommand(q) PROVE CallInv'
  <2>1. NextStep(q, "publish") /\ UNCHANGED <<hub, wire>>
    BY <1>3 DEF SendCommand, peer
  <2>2. \A k \in Conns : call[q][k].state = "none"
    BY <2>1 DEF NextStep
  <2>3. req'[q].left = <<>> /\ req'[q].action = req[q].action /\ req[q].action \in Actions
    BY <2>1, RequestMoves, PlanTail DEF RequestInv
  <2>4. \A p \in Requests \ {q} : req'[p] = req[p]
    BY <2>1, RequestMoves
  <2>5. QED BY <1>3, <2>1, <2>2, <2>3, <2>4, SendMoves DEF hub
<1>4. ASSUME NEW q \in Requests, Abort(q) PROVE CallInv'
  <2>1. \A k \in Conns : call[q][k].state = "none"
    BY <1>4 DEF Abort
  <2>2. (\A p \in Requests \ {q} : req'[p] = req[p]) /\ UNCHANGED <<hub, call, wire>>
    BY <1>4 DEF Abort, TypeOK, peer
  <2>3. QED BY <2>1, <2>2 DEF hub
<1>6. ASSUME NEW q \in Requests, NEW k \in Conns, Write(q, k) PROVE CallInv'
  <2>1. call' = [call EXCEPT ![q][k].state = "waiting"] /\ wire' = wire \union {<<q, k>>}
        /\ UNCHANGED <<req, hub>> /\ call[q][k].state = "queued"
    BY <1>6 DEF Write
  <2>2. /\ call'[q][k].state = "waiting"
        /\ \A p \in Requests, j \in Conns : p # q \/ j # k => call'[p][j] = call[p][j]
    BY <1>0, <1>00, <2>1, Moves
  <2>3. QED BY <2>1, <2>2 DEF hub
<1>7. ASSUME NEW q \in Requests, NEW k \in Conns, CommandFails(q, k) PROVE CallInv'
  <2>1. call' = [call EXCEPT ![q][k].state = "done"] /\ UNCHANGED <<req, hub, wire>>
        /\ call[q][k].state # "none"
    BY <1>7 DEF CommandFails, peer
  <2>2. /\ call'[q][k].state = "done"
        /\ \A p \in Requests, j \in Conns : p # q \/ j # k => call'[p][j] = call[p][j]
    BY <1>0, <1>00, <2>1, Moves
  <2>3. QED BY <2>1, <2>2 DEF hub
<1>8. ASSUME NEW q \in Requests, NEW k \in Conns, NEW r \in Replies, Execute(q, k, r) PROVE CallInv'
  <2>1. wire' = wire \ {<<q, k>>} /\ UNCHANGED <<req, hub>>
    BY <1>8 DEF Execute
  <2>2. QED BY <1>8, <2>1, ExecuteMoves DEF hub
<1>9. ASSUME NEW q \in Requests, NEW k \in Conns, Concludes(q, k) PROVE CallInv'
  <2>1. UNCHANGED <<req, hub, wire>> /\ call[q][k].state \in {"replied", "stored"}
    BY <1>9 DEF Concludes, peer
  <2>2. CASE call' = [call EXCEPT ![q][k].state = "done"]
    <3>1. /\ call'[q][k].state = "done"
          /\ \A p \in Requests, j \in Conns : p # q \/ j # k => call'[p][j] = call[p][j]
      BY <1>0, <1>00, <2>2, Moves
    <3>2. QED BY <2>1, <3>1 DEF hub
  <2>3. CASE /\ req[q].action = "ChangeConfiguration" /\ call[q][k].status # "CallError"
             /\ call' = [call EXCEPT ![q][k].state = "stored"]
    <3>1. /\ call'[q][k].state = "stored" /\ call'[q][k].status = call[q][k].status
          /\ \A p \in Requests, j \in Conns : p # q \/ j # k => call'[p][j] = call[p][j]
      BY <1>0, <1>00, <2>3, Moves
    <3>2. QED BY <2>1, <2>3, <3>1 DEF hub
  <2>4. QED BY <1>9, <2>2, <2>3 DEF Concludes
<1>10. CASE UNCHANGED <<req, hub, call, wire>>
  BY <1>10 DEF hub
<1>11. ASSUME NEW q \in Requests, ApiStep(q) PROVE CallInv'
  BY <1>2, <1>3, <1>4, <1>11 DEF ApiStep, Reset, Store, peer
<1>12. CASE \E x \in Args : UseReservation(x)
  BY <1>10, <1>12 DEF UseReservation
<1>13. CASE UNCHANGED vars
  BY <1>10, <1>13 DEF vars, peer
<1>14. QED BY <1>1, <1>5, <1>6, <1>7, <1>8, <1>9, <1>11, <1>12, <1>13, NextShape, Zenon DEF Steps

(* The inductive invariant: Spec implies [](TypeOK /\ RequestInv /\ CallInv). *)
LEMMA Invariance == Spec => []IInv
<1>1. Init => IInv
  BY InitInv
<1>2. IInv /\ [Next]_vars => IInv'
  BY TypeStep, RequestStep, CallStep DEF IInv
<1>3. QED BY <1>1, <1>2, PTL DEF Spec

(* The variables of the relay keep their types. *)
THEOREM TypeCorrect == Spec => []TypeOK
<1>1. IInv => TypeOK
  BY DEF IInv
<1>2. QED BY <1>1, Invariance, PTL

(* The entry of a charge point in Hub.connections is always that of a      *)
(* handler that has not left, however connections overlap.                 *)
THEOREM EntriesAlive == Spec => []NoDeadEntry
<1>1. Init => NoDeadEntry
  BY InitInv
<1>2. ASSUME IInv, NoDeadEntry, [Next]_vars PROVE NoDeadEntry'
  <2>0. conn \in [Conns -> ConnStates] /\ connections \in Conns \union {None}
    BY <1>2 DEF IInv, TypeOK
  <2>1. CASE UNCHANGED <<conn, connections>>
    BY <1>2, <2>1 DEF NoDeadEntry
  <2>2. ASSUME NEW k \in Conns, ConnStep(k) PROVE NoDeadEntry'
    <3> USE RelayAssumption, <1>2, <2>0 DEF NoDeadEntry
    <3>1. CASE Connect(k)
      BY <3>1 DEF Connect
    <3>2. CASE Register(k)
      BY <3>2 DEF Register
    <3>3. CASE Subscribe(k) \/ SubscriptionEnds(k)
      BY <2>1, <3>3 DEF Subscribe, SubscriptionEnds
    <3>4. CASE ReadFails(k)
      BY <3>4 DEF ReadFails, Leave
    <3>5. CASE SubCancel(k)
      BY <3>5 DEF SubCancel, Leave
    <3>6. CASE Unregister(k)
      BY <3>6 DEF Unregister
    <3>7. CASE CloseNow(k)
      BY <3>7 DEF CloseNow, Leave
    <3>8. QED BY <2>2, <3>1, <3>2, <3>3, <3>4, <3>5, <3>6, <3>7 DEF ConnStep
  <2>3. ASSUME NEW q \in Requests, NEW a, NEW x, NEW s, Begin(q, a, x, s)
        PROVE  UNCHANGED <<conn, connections>>
    BY <2>3 DEF Begin, hub
  <2>4. ASSUME NEW q \in Requests, NEW k \in Conns, Concludes(q, k)
        PROVE  UNCHANGED <<conn, connections>>
    BY <2>4 DEF Concludes, hub
  <2>5. ASSUME NEW q \in Requests, ApiStep(q) PROVE UNCHANGED <<conn, connections>>
    BY <2>5 DEF ApiStep, Reset, Store, SendCommand, Abort, hub
  <2>6. ASSUME NEW q \in Requests, NEW k \in Conns,
               Write(q, k) \/ CommandFails(q, k) \/ \E r \in Replies : Execute(q, k, r)
        PROVE  UNCHANGED <<conn, connections>>
    BY <2>6 DEF Write, CommandFails, Execute, hub
  <2>7. ASSUME NEW x \in Args, UseReservation(x) PROVE UNCHANGED <<conn, connections>>
    BY <2>7 DEF UseReservation, hub
  <2>8. CASE UNCHANGED vars
    BY <2>1, <2>8 DEF vars, hub
  <2>9. Steps
    BY <1>2, NextShape
  <2>10. QED BY <2>1, <2>2, <2>3, <2>4, <2>5, <2>6, <2>7, <2>8, <2>9, Zenon DEF Steps
<1>3. QED BY <1>1, <1>2, Invariance, PTL DEF Spec

(* A reservation that has been used is never turned into a cancelled one,  *)
(* by no endpoint and by no case of HandleResponse.                        *)
THEOREM UsedStaysUsed == Spec => UsedNotCancelled
<1>1. ASSUME IInv, [Next]_vars
      PROVE  \A x \in Args : reservation[x] = "Used" => reservation'[x] # "Cancelled"
  <2>0. reservation \in [Args -> {"none", "Reserved", "Cancelled", "Used"}]
    BY <1>1 DEF IInv, TypeOK
  <2>1. CASE UNCHANGED reservation
    BY <2>1
  <2>2. ASSUME NEW q \in Requests, Store(q)
        PROVE  \A x \in Args : reservation[x] = "Used" => reservation'[x] # "Cancelled"
    BY <2>0, <2>2 DEF Store
  <2>3. ASSUME NEW q \in Requests, NEW k \in Conns, Concludes(q, k)
        PROVE  \A x \in Args : reservation[x] = "Used" => reservation'[x] # "Cancelled"
    BY <2>0, <2>3 DEF Concludes, CancelReserved
  <2>4. ASSUME NEW y \in Args, UseReservation(y)
        PROVE  \A x \in Args : reservation[x] = "Used" => reservation'[x] # "Cancelled"
    BY <2>0, <2>4 DEF UseReservation
  <2>5. ASSUME NEW q \in Requests, NEW a, NEW x, NEW s, Begin(q, a, x, s)
        PROVE  UNCHANGED reservation
    BY <2>5 DEF Begin, db
  <2>6. ASSUME NEW k \in Conns, ConnStep(k) PROVE UNCHANGED reservation
    BY <1>1, <2>6, ConnMoves DEF db
  <2>7. ASSUME NEW q \in Requests, ApiStep(q)
        PROVE  \A x \in Args : reservation[x] = "Used" => reservation'[x] # "Cancelled"
    BY <2>1, <2>2, <2>7 DEF ApiStep, Reset, SendCommand, Abort, db
  <2>8. ASSUME NEW q \in Requests, NEW k \in Conns,
               Write(q, k) \/ CommandFails(q, k) \/ \E r \in Replies : Execute(q, k, r)
        PROVE  UNCHANGED reservation
    BY <2>8 DEF Write, CommandFails, Execute, db
  <2>9. CASE UNCHANGED vars
    BY <2>1, <2>9 DEF vars, db
  <2>10. Steps
    BY <1>1, NextShape
  <2>11. QED BY <2>1, <2>3, <2>4, <2>5, <2>6, <2>7, <2>8, <2>9, <2>10, Zenon DEF Steps
<1>2. QED BY <1>1, Invariance, PTL DEF Spec, UsedNotCancelled
-----------------------------------------------------------------------------
(* The goroutine of q on k has written the outcome v of an answer to a. *)
Earned(q, k, a, v) ==
  /\ req[q].action = a
  /\ call[q][k].state \in {"stored", "done"}
  /\ call[q][k].status \in RepliesTo(a)
  /\ a \in Read => call[q][k].status # "CallError" /\ v = Verdict(call[q][k].status)

(* A status column that says ok or error says it of an answer the charge   *)
(* point gave to that very command, however requests overlap, connections  *)
(* replace one another and steps fail: no outcome is written under another *)
(* command, and none without an answer.                                    *)
StatusEarned ==
  \A a \in Tracked : status[a] # "pending" =>
    \E q \in Requests, k \in Conns : Earned(q, k, a, status[a])

(* An answer that has been written down is never taken back. *)
LEMMA EarnedKept ==
  ASSUME IInv, [Next]_vars, NEW q \in Requests, NEW k \in Conns, NEW a \in Tracked, NEW v,
         Earned(q, k, a, v)
  PROVE  Earned(q, k, a, v)'
<1>1. /\ req[q].action = a /\ a \in Actions /\ req[q].action # None /\ req[q].left = <<>>
      /\ call[q][k].state \in {"stored", "done"}
  BY RelayAssumption DEF Earned, Tracked, IInv, CallInv
<1>2. SUFFICES req'[q].action = a /\ call'[q][k].state \in {"stored", "done"}
               /\ call'[q][k].status = call[q][k].status
  BY DEF Earned
<1>3. ASSUME NEW p \in Requests, NEW b, NEW x, NEW s, Planned(b, x, s), Begin(p, b, x, s)
      PROVE  UNCHANGED <<req[q], call>>
  BY <1>1, <1>3 DEF Begin, IInv, TypeOK
<1>4. ASSUME NEW p \in Requests, ApiStep(p) PROVE req'[q] = req[q] /\ call'[q][k] = call[q][k]
  <2>1. p # q
    BY <1>1, <1>4 DEF ApiStep, Reset, Store, SendCommand, Abort, NextStep
  <2>2. CASE Reset(p) \/ Store(p)
    BY <2>1, <2>2, RequestMoves DEF Reset, Store
  <2>3. CASE SendCommand(p)
    BY <2>1, <2>3, RequestMoves, SendMoves DEF SendCommand
  <2>4. CASE Abort(p)
    BY <2>1, <2>4 DEF Abort, IInv, TypeOK
  <2>5. QED BY <1>4, <2>2, <2>3, <2>4 DEF ApiStep
<1>5. ASSUME NEW p \in Requests, NEW j \in Conns,
             \/ Write(p, j) \/ CommandFails(p, j) \/ Concludes(p, j)
             \/ \E r \in Replies : Execute(p, j, r)
      PROVE  /\ req' = req /\ call'[q][k].state \in {"stored", "done"}
             /\ call'[q][k].status = call[q][k].status
  <2>1. req' = req
    BY <1>5 DEF Write, CommandFails, Concludes, Execute
  <2>2. CASE \E r \in Replies : Execute(p, j, r)
    BY <1>1, <2>1, <2>2, ExecuteMoves
  <2>3. CASE Write(p, j)
    <3>1. call' = [call EXCEPT ![p][j].state = "waiting"] /\ (p # q \/ j # k)
      BY <1>1, <2>3 DEF Write
    <3>2. "waiting" \in CallStates /\ call \in [Requests -> [Conns -> CallRecords]]
      BY DEF CallStates, CallRecords, IInv, TypeOK
    <3>3. QED BY <1>1, <2>1, <3>1, <3>2, Moves
  <2>4. CASE CommandFails(p, j) \/ Concludes(p, j)
    <3>1. PICK w \in {"stored", "done"} : call' = [call EXCEPT ![p][j].state = w]
      BY <2>4 DEF CommandFails, Concludes
    <3>2. w \in CallStates /\ call \in [Requests -> [Conns -> CallRecords]]
      BY DEF CallStates, CallRecords, IInv, TypeOK
    <3>3. QED BY <1>1, <2>1, <3>1, <3>2, Moves
  <2>5. QED BY <1>5, <2>2, <2>3, <2>4
<1>6. ASSUME NEW j \in Conns, ConnStep(j) PROVE UNCHANGED <<req, call>>
  BY <1>6, ConnMoves
<1>7. ASSUME NEW x \in Args, UseReservation(x) PROVE UNCHANGED <<req, call>>
  BY <1>7 DEF UseReservation
<1>8. CASE UNCHANGED vars
  BY <1>1, <1>8 DEF vars
<1>9. CASE \E j \in Conns : ConnStep(j)
  BY <1>1, <1>6, <1>9
<1>10. CASE \E x \in Args : UseReservation(x)
  BY <1>1, <1>7, <1>10
<1>11. ASSUME NEW p \in Requests, NEW b, NEW x, NEW s, Planned(b, x, s), Begin(p, b, x, s)
       PROVE  req'[q].action = a /\ call'[q][k].state \in {"stored", "done"}
              /\ call'[q][k].status = call[q][k].status
  BY <1>1, <1>3, <1>11
<1>12. CASE \E p \in Requests : ApiStep(p)
  BY <1>1, <1>4, <1>12
<1>13. CASE \E p \in Requests, j \in Conns :
              \/ Write(p, j) \/ CommandFails(p, j) \/ Concludes(p, j)
              \/ \E r \in Replies : Execute(p, j, r)
  BY <1>1, <1>5, <1>13
<1>14. QED BY <1>8, <1>9, <1>10, <1>11, <1>12, <1>13, NextShape, Zenon DEF Steps

(* Every outcome on record was earned. *)
THEOREM StatusIsEarned == Spec => []StatusEarned
<1>1. Init => StatusEarned
  BY DEF Init, StatusEarned
<1>2. ASSUME IInv, StatusEarned, [Next]_vars PROVE StatusEarned'
  <2>0. status \in [Tracked -> {"pending", "ok", "error"}]
    BY <1>2 DEF IInv, TypeOK
  <2>1. ASSUME NEW a \in Tracked, status'[a] = status[a], status[a] # "pending"
        PROVE  \E q \in Requests, k \in Conns : Earned(q, k, a, status[a])'
    <3>1. PICK q \in Requests, k \in Conns : Earned(q, k, a, status[a])
      BY <1>2, <2>1 DEF StatusEarned
    <3>2. Earned(q, k, a, status[a])'
      <4> DEFINE v == status[a]
      <4>1. Earned(q, k, a, v)
        BY <3>1
      <4> HIDE DEF v
      <4>2. ASSUME NEW w, Earned(q, k, a, w) PROVE Earned(q, k, a, w)'
        BY <1>2, <4>2, EarnedKept
      <4>3. QED BY <4>1, <4>2, <2>1 DEF v, Earned
    <3>3. QED BY <3>2
  <2>2. CASE status' = status
    BY <2>1, <2>2 DEF StatusEarned
  <2>3. ASSUME NEW q \in Requests, Reset(q) PROVE StatusEarned'
    <3>1. status' = [status EXCEPT ![req[q].action] = "pending"]
      BY <2>3 DEF Reset
    <3>2. \A a \in Tracked : status'[a] # "pending" => status'[a] = status[a]
      BY <2>0, <3>1
    <3>3. QED BY <2>1, <3>2 DEF StatusEarned
  <2>4. ASSUME NEW q \in Requests, NEW k \in Conns, Concludes(q, k) PROVE StatusEarned'
    <3> DEFINE b == req[q].action
    <3>1. PICK v \in {"ok", "error"} :
            \/ status' = status
            \/ /\ status' = [status EXCEPT ![b] = v]
               /\ b \in Read => call[q][k].status # "CallError" /\ v = Verdict(call[q][k].status)
      BY <2>4 DEF Concludes
    <3>2. CASE /\ status' = [status EXCEPT ![b] = v]
               /\ b \in Read => call[q][k].status # "CallError" /\ v = Verdict(call[q][k].status)
      <4>1. /\ call[q][k].state \in {"replied", "stored"} /\ req' = req
            /\ call[q][k].status \in RepliesTo(b)
        BY <1>2, <2>4 DEF Concludes, IInv, CallInv
      <4>2. /\ call'[q][k].state \in {"stored", "done"}
            /\ call'[q][k].status = call[q][k].status
        <5>1. PICK w \in {"stored", "done"} : call' = [call EXCEPT ![q][k].state = w]
          BY <2>4 DEF Concludes
        <5>2. w \in CallStates /\ call \in [Requests -> [Conns -> CallRecords]]
          BY <1>2 DEF CallStates, CallRecords, IInv, TypeOK
        <5>3. QED BY <5>1, <5>2, Moves
      <4>3. ASSUME NEW a \in Tracked, status'[a] # "pending"
            PROVE  \E p \in Requests, j \in Conns : Earned(p, j, a, status[a])'
        <5>1. CASE a = b
          <6>1. status'[a] = v
            BY <2>0, <3>2, <5>1
          <6>2. Earned(q, k, a, status[a])'
            BY <3>2, <4>1, <4>2, <5>1, <6>1 DEF Earned
          <6>3. QED BY <6>2
        <5>2. CASE a # b
          <6>1. status'[a] = status[a]
            BY <2>0, <3>2, <5>2
          <6>2. QED BY <2>1, <4>3, <6>1
        <5>3. QED BY <5>1, <5>2
      <4>4. QED BY <4>3 DEF StatusEarned
    <3>3. QED BY <2>2, <3>1, <3>2
  <2>5. ASSUME NEW q \in Requests, NEW a, NEW x, NEW s, Begin(q, a, x, s) PROVE status' = status
    BY <2>5 DEF Begin, db
  <2>6. ASSUME NEW k \in Conns, ConnStep(k) PROVE status' = status
    BY <1>2, <2>6, ConnMoves DEF db
  <2>7. ASSUME NEW q \in Requests, ApiStep(q) PROVE StatusEarned'
    BY <2>2, <2>3, <2>7 DEF ApiStep, Store, SendCommand, Abort, db
  <2>8. ASSUME NEW q \in Requests, NEW k \in Conns,
               Write(q, k) \/ CommandFails(q, k) \/ \E r \in Replies : Execute(q, k, r)
        PROVE  status' = status
    BY <2>8 DEF Write, CommandFails, Execute, db
  <2>9. ASSUME NEW x \in Args, UseReservation(x) PROVE status' = status
    BY <2>9 DEF UseReservation
  <2>10. CASE UNCHANGED vars
    BY <2>2, <2>10 DEF vars, db
  <2>11. Steps
    BY <1>2, NextShape
  <2>12. QED BY <2>2, <2>4, <2>5, <2>6, <2>7, <2>8, <2>9, <2>10, <2>11, Zenon DEF Steps
<1>3. QED BY <1>1, <1>2, Invariance, PTL DEF Spec

-----------------------------------------------------------------------------
(* Writing the same is mutual. *)
LEMMA AlikeMutual ==
  ASSUME NEW a, NEW b
  PROVE  /\ a \in Alike(a)
         /\ b \in Alike(a) => a \in Alike(b)
         /\ b \in Alike(a) /\ a \in ListCommands => b \in ListCommands
BY DEF Alike

(* A request with an answer to write down is under way. *)
LEMMA AnswerActive ==
  ASSUME IInv, NEW q \in Requests, NEW k \in Conns,
         call[q][k].state \in {"queued", "waiting", "replied", "stored"}
  PROVE  Active(q) /\ req[q].action \in Actions /\ req[q].left = <<>>
BY DEF Active, IInv, CallInv

(* A step of q alone: the other requests stay as they are, and of the      *)
(* commands only that of q may be answered or have its columns written.    *)
StepOf(q) ==
  /\ \A p \in Requests \ {q} :
       /\ req'[p] = req[p]
       /\ \A k \in Conns : call'[p][k] = call[p][k] /\ (<<p, k>> \in wire' => <<p, k>> \in wire)
  /\ current' = current
  /\ req'[q].action \in Actions /\ req[q].action \in {None, req'[q].action}
  /\ \A a \in Actions \ {req'[q].action} :
       last'[a] = last[a] /\ (a \in Read => status'[a] = status[a])
  /\ req'[q].action \in ListCommands \/ (listVersion' = listVersion /\ cp'.version = cp.version)

(* What a step of q has to leave of the invariant to another request. *)
LEMMA Untouched ==
  ASSUME NEW q \in Requests, NEW p \in Requests \ {q}, StepOf(q), AloneAt(p), LatestAt(p),
         Active(p) => /\ req[p].action # req'[q].action
                      /\ ~(Active(q)' /\ req'[q].action \in Alike(req[p].action))
                      /\ req[p].action \in Actions
                      /\ req[p].action \notin ListCommands \/ cp'.version = cp.version
  PROVE  AloneAt(p)' /\ LatestAt(p)'
<1>1. /\ \A o \in Requests \ {q} : (Active(o)' <=> Active(o)) /\ req'[o] = req[o]
      /\ \A k \in Conns : call'[p][k] = call[p][k] /\ (<<p, k>> \in wire' => <<p, k>> \in wire)
      /\ current' = current
  BY DEF StepOf, Active
<1>2. AloneAt(p)'
  <2>1. ASSUME NEW o \in Requests, Active(p)', Active(o)', req'[o].action \in Alike(req'[p].action)
        PROVE  o = p
    BY <1>1, <2>1 DEF AloneAt
  <2>2. \A k \in Conns : <<p, k>> \in wire' => call'[p][k].state = "waiting"
    BY <1>1 DEF AloneAt
  <2>3. \A k, j \in Conns :
          k # j /\ call'[p][k].state \in {"replied", "stored", "done"} =>
            /\ call'[p][j].state \in {"none", "queued", "waiting"}
            /\ call'[p][j].state # "none" => current' # j
    BY <1>1 DEF AloneAt
  <2>4. QED BY <2>1, <2>2, <2>3 DEF AloneAt
<1>3. LatestAt(p)'
  <2>1. SUFFICES ASSUME NEW k \in Conns, call[p][k].state \in {"replied", "stored"}
                 PROVE  /\ last'[req[p].action] = call[p][k].status
                        /\ req[p].action = "GetLocalListVersion" => call[p][k].data = cp'.version
                        /\ req[p].action = "SendLocalList" /\ call[p][k].status = "Accepted" =>
                             req[p].arg = cp'.version
    BY <1>1 DEF LatestAt
  <2>2. Active(p)
    BY <2>1 DEF Active
  <2>3. last'[req[p].action] = last[req[p].action]
    BY <2>2 DEF StepOf
  <2>4. req[p].action \in {"GetLocalListVersion", "SendLocalList"} => cp'.version = cp.version
    BY <2>2 DEF ListCommands
  <2>5. QED BY <2>1, <2>3, <2>4 DEF LatestAt
<1>4. QED BY <1>2, <1>3

(* A status column of a command that q is not about stays right. *)
LEMMA OtherStatus ==
  ASSUME IInv, CleanInv, NEW q \in Requests, StepOf(q), NEW a \in Read \intersect clean,
         a # req'[q].action, last'[a] \notin {None, "CallError"}
  PROVE  \/ status'[a] = Verdict(last'[a])
         \/ \E p \in Requests : req'[p].action = a /\ Active(p)'
<1>1. a \in Actions /\ a # None
  BY RelayAssumption DEF Read, Tracked
<1>2. status'[a] = status[a] /\ last'[a] = last[a]
  BY <1>1 DEF StepOf
<1>3. ASSUME NEW p \in Requests, req[p].action = a, Active(p)
      PROVE  req'[p].action = a /\ Active(p)'
  <2>1. p # q
    BY <1>1, <1>3 DEF StepOf
  <2>2. QED BY <1>3, <2>1 DEF StepOf, Active
<1>4. QED BY <1>2, <1>3 DEF CleanInv, StatusInv

(* The list version stays right while q is about something else. *)
LEMMA OtherVersion ==
  ASSUME IInv, CleanInv, NEW q \in Requests, StepOf(q), req'[q].action \notin ListCommands,
         ListCommands \subseteq clean
  PROVE  \/ listVersion' = cp'.version
         \/ \E p \in Requests, k \in Conns :
              /\ req'[p].action = "SendLocalList"
              /\ call'[p][k].state = "replied" /\ call'[p][k].status = "Accepted"
<1>1. listVersion' = listVersion /\ cp'.version = cp.version
  BY DEF StepOf
<1>2. ASSUME NEW p \in Requests, NEW k \in Conns, req[p].action = "SendLocalList",
             call[p][k].state = "replied", call[p][k].status = "Accepted"
      PROVE  /\ req'[p].action = "SendLocalList"
             /\ call'[p][k].state = "replied" /\ call'[p][k].status = "Accepted"
  <2>1. req[p].action \in ListCommands /\ req[p].action # None
    BY <1>2, AnswerActive, RelayAssumption DEF ListCommands
  <2>2. p # q
    BY <2>1 DEF StepOf
  <2>3. QED BY <1>2, <2>2 DEF StepOf
<1>3. QED BY <1>1, <1>2 DEF CleanInv, VersionInv

(* A step that leaves the command of q unclean, or finds it so, disturbs   *)
(* no command that is clean.                                               *)
LEMMA Tainted ==
  ASSUME IInv, CleanInv, NEW q \in Requests, StepOf(q),
         clean' = clean \ Alike(req'[q].action)
  PROVE  CleanInv'
<1>1. Together'
  BY AlikeMutual DEF CleanInv, Together, Alike
<1>2. ASSUME NEW p \in Requests, Clean(p)' PROVE AloneAt(p)' /\ LatestAt(p)'
  <2>1. p # q
    BY <1>2, AlikeMutual DEF Clean
  <2>2. Clean(p) /\ req[p].action \notin Alike(req'[q].action) /\ req'[p] = req[p]
    BY <1>2, <2>1 DEF Clean, StepOf
  <2>3. /\ req[p].action # req'[q].action
        /\ req'[q].action \notin Alike(req[p].action)
        /\ req[p].action \in Actions
    BY <2>2, AlikeMutual DEF Clean, IInv, TypeOK
  <2>4. req[p].action \notin ListCommands \/ cp'.version = cp.version
    BY <2>2 DEF StepOf, Alike
  <2>5. AloneAt(p) /\ LatestAt(p)
    BY <2>2 DEF CleanInv, AloneInv, LatestInv
  <2>6. QED BY <2>1, <2>3, <2>4, <2>5, Untouched
<1>3. StatusInv'
  <2>1. SUFFICES ASSUME NEW a \in Read \intersect clean', last'[a] \notin {None, "CallError"}
                 PROVE  \/ status'[a] = Verdict(last'[a])
                        \/ \E p \in Requests : req'[p].action = a /\ Active(p)'
    BY DEF StatusInv
  <2>2. a \in Read \intersect clean /\ a # req'[q].action
    BY <2>1, AlikeMutual
  <2>3. QED BY <2>1, <2>2, OtherStatus
<1>4. VersionInv'
  <2>1. SUFFICES ASSUME ListCommands \subseteq clean'
                 PROVE  \/ listVersion' = cp'.version
                        \/ \E p \in Requests, k \in Conns :
                             /\ req'[p].action = "SendLocalList"
                             /\ call'[p][k].state = "replied" /\ call'[p][k].status = "Accepted"
    BY DEF VersionInv
  <2>2. ListCommands \subseteq clean /\ req'[q].action \notin ListCommands
    BY <2>1, AlikeMutual
  <2>3. QED BY <2>2, OtherVersion
<1>5. QED BY <1>1, <1>2, <1>3, <1>4 DEF CleanInv, AloneInv, LatestInv

(* A step of a clean request is right if it is so about its own command. *)
LEMMA StillClean ==
  ASSUME IInv, CleanInv, NEW q \in Requests, StepOf(q), clean' = clean,
         req[q].action = req'[q].action, Active(q), AloneAt(q)', LatestAt(q)',
         LET a == req[q].action
         IN  /\ a \in Read /\ last'[a] \notin {None, "CallError"} =>
                  status'[a] = Verdict(last'[a]) \/ Active(q)'
             /\ a \in ListCommands /\ ListCommands \subseteq clean =>
                  \/ listVersion' = cp'.version
                  \/ \E k \in Conns : /\ a = "SendLocalList"
                                      /\ call'[q][k].state = "replied"
                                      /\ call'[q][k].status = "Accepted",
         Clean(q)
  PROVE  CleanInv'
<1> DEFINE a == req[q].action
<1>1. AloneAt(q)
  BY DEF CleanInv, AloneInv
<1>2. ASSUME NEW p \in Requests, Clean(p)' PROVE AloneAt(p)' /\ LatestAt(p)'
  <2>1. CASE p = q
    BY <2>1
  <2>2. CASE p # q
    <3>1. Clean(p) /\ req'[p] = req[p]
      BY <1>2, <2>2 DEF Clean, StepOf
    <3>2. AloneAt(p) /\ LatestAt(p)
      BY <3>1 DEF CleanInv, AloneInv, LatestInv
    <3>3. Active(p) => a \notin Alike(req[p].action) /\ req[p].action \notin Alike(a)
      BY <1>1, <2>2, AlikeMutual DEF AloneAt
    <3>4. Active(p) => req[p].action # a /\ req[p].action \in Actions
      BY <3>1, <3>3, AlikeMutual DEF Clean, IInv, TypeOK
    <3>5. Active(p) => req[p].action \notin ListCommands \/ cp'.version = cp.version
      BY <3>3 DEF StepOf, Alike
    <3>6. QED BY <2>2, <3>2, <3>3, <3>4, <3>5, Untouched
  <2>3. QED BY <2>1, <2>2
<1>3. StatusInv'
  <2>1. SUFFICES ASSUME NEW b \in Read \intersect clean, last'[b] \notin {None, "CallError"}
                 PROVE  \/ status'[b] = Verdict(last'[b])
                        \/ \E p \in Requests : req'[p].action = b /\ Active(p)'
    BY DEF StatusInv
  <2>2. CASE b = a
    BY <2>1, <2>2
  <2>3. CASE b # a
    BY <2>1, <2>3, OtherStatus
  <2>4. QED BY <2>2, <2>3
<1>4. VersionInv'
  <2>1. SUFFICES ASSUME ListCommands \subseteq clean
                 PROVE  \/ listVersion' = cp'.version
                        \/ \E p \in Requests, k \in Conns :
                             /\ req'[p].action = "SendLocalList"
                             /\ call'[p][k].state = "replied" /\ call'[p][k].status = "Accepted"
    BY DEF VersionInv
  <2>2. CASE a \in ListCommands
    BY <2>1, <2>2
  <2>3. CASE a \notin ListCommands
    BY <2>1, <2>3, OtherVersion
  <2>4. QED BY <2>2, <2>3
<1>5. Together'
  BY DEF CleanInv, Together
<1>6. QED BY <1>2, <1>3, <1>4, <1>5 DEF CleanInv, AloneInv, LatestInv

(* An unclean command has no clean one beside it to be taken away. *)
LEMMA Unclean ==
  ASSUME CleanInv, NEW a, a \notin clean
  PROVE  clean = clean \ Alike(a)
BY AlikeMutual DEF CleanInv, Together

(* While a clean request about the list is under way, the version is right *)
(* or the request itself is about to make it so.                           *)
LEMMA VersionAt ==
  ASSUME IInv, CleanInv, NEW q \in Requests, Clean(q), Active(q), req[q].action \in ListCommands
  PROVE  \/ listVersion = cp.version
         \/ \E k \in Conns : /\ req[q].action = "SendLocalList"
                             /\ call[q][k].state = "replied" /\ call[q][k].status = "Accepted"
<1>1. ListCommands \subseteq clean
  BY DEF CleanInv, Together, Clean, Alike
<1>2. ASSUME NEW p \in Requests, NEW k \in Conns, req[p].action = "SendLocalList",
             call[p][k].state = "replied", call[p][k].status = "Accepted"
      PROVE  p = q
  <2>1. Active(p) /\ req[p].action \in ListCommands
    BY <1>2, AnswerActive DEF ListCommands
  <2>2. QED BY <2>1 DEF CleanInv, AloneInv, AloneAt, Alike
<1>3. QED BY <1>1, <1>2 DEF CleanInv, VersionInv

(* A step within an endpoint, before its command is published. *)
LEMMA CleanWithin ==
  ASSUME IInv, CleanInv, NEW q \in Requests, NEW step \in {"reset", "store"}, NextStep(q, step),
         UNCHANGED <<listVersion, call, wire, current, cp, last, clean>>,
         status' = status \/ status' = [status EXCEPT ![req[q].action] = "pending"]
  PROVE  CleanInv'
<1>1. /\ req[q].left # <<>> /\ req'[q].left # <<>>
      /\ req'[q].action = req[q].action /\ req'[q].arg = req[q].arg
      /\ \A p \in Requests \ {q} : req'[p] = req[p]
  BY RequestMoves, PlanTail
<1>2. req[q].action \in Actions /\ \A k \in Conns : call[q][k].state = "none"
  BY <1>1 DEF IInv, RequestInv, CallInv
<1>3. StepOf(q)
  <2>1. \A a \in Read \ {req[q].action} : status'[a] = status[a]
    BY DEF IInv, TypeOK, Read
  <2>2. QED BY <1>1, <1>2, <2>1 DEF StepOf
<1>4. CASE ~Clean(q)
  BY <1>1, <1>3, <1>4, Unclean, Tainted DEF Clean
<1>5. CASE Clean(q)
  <2>1. Active(q) /\ Active(q)'
    BY <1>1 DEF Active
  <2>2. AloneAt(q)'
    <3>1. AloneAt(q)
      BY <1>5 DEF CleanInv, AloneInv
    <3>2. \A p \in Requests : (Active(p)' => Active(p)) /\ req'[p].action = req[p].action
      BY <1>1, <2>1 DEF Active
    <3>3. QED BY <1>2, <2>1, <3>1, <3>2 DEF AloneAt
  <2>3. LatestAt(q)'
    BY <1>2 DEF LatestAt
  <2>4. req[q].action \in ListCommands => listVersion = cp.version
    BY <1>2, <1>5, <2>1, VersionAt
  <2>5. QED BY <1>1, <1>3, <1>5, <2>1, <2>2, <2>3, <2>4, StillClean
<1>6. QED BY <1>4, <1>5

(* An endpoint starts: beside another one for its command, neither is clean. *)
LEMMA CleanBegin ==
  ASSUME IInv, CleanInv, NEW q \in Requests, NEW a, NEW x, NEW s,
         Planned(a, x, s), Begin(q, a, x, s)
  PROVE  CleanInv'
<1>1. /\ a \in Actions /\ req[q].action = None
      /\ req'[q] = [action |-> a, arg |-> x, left |-> s]
      /\ \A p \in Requests \ {q} : req'[p] = req[p]
      /\ UNCHANGED <<status, listVersion, call, wire, current, cp, last>>
  BY DEF Begin, db, peer, IInv, TypeOK
<1>2. \A k \in Conns : call[q][k].state = "none" /\ <<q, k>> \notin wire
  BY <1>1, RelayAssumption DEF IInv, CallInv
<1>3. StepOf(q) /\ req'[q].action = a
  BY <1>1 DEF StepOf
<1>4. CASE ~Quiet(Alike(a))
  BY <1>3, <1>4, Tainted DEF Begin
<1>5. CASE Quiet(Alike(a))
  <2>1. clean' = clean
    BY <1>5 DEF Begin
  <2>2. \A p \in Requests : req[p].action \in Alike(a) => ~Active(p)
    BY <1>5 DEF Quiet, Active
  <2>3. ASSUME NEW p \in Requests, Clean(p)' PROVE AloneAt(p)' /\ LatestAt(p)'
    <3>1. CASE p = q
      <4>1. \A o \in Requests \ {q} : (Active(o)' => Active(o)) /\ req'[o].action = req[o].action
        BY <1>1 DEF Active
      <4>2. \A o \in Requests : Active(o)' /\ req'[o].action \in Alike(a) => o = q
        BY <2>2, <4>1
      <4>3. AloneAt(q)'
        BY <1>1, <1>2, <1>3, <4>2 DEF AloneAt
      <4>4. LatestAt(q)'
        BY <1>1, <1>2 DEF LatestAt
      <4>5. QED BY <3>1, <4>3, <4>4
    <3>2. CASE p # q
      <4>1. Clean(p) /\ req[p].action \in Actions
        BY <1>1, <2>1, <2>3, <3>2 DEF Clean, IInv, TypeOK
      <4>2. AloneAt(p) /\ LatestAt(p)
        BY <4>1 DEF CleanInv, AloneInv, LatestInv
      <4>3. Active(p) => req[p].action # a /\ a \notin Alike(req[p].action)
        BY <2>2, AlikeMutual
      <4>4. QED BY <1>1, <1>3, <3>2, <4>1, <4>2, <4>3, Untouched
    <3>3. QED BY <3>1, <3>2
  <2>4. \A p \in Requests : Active(p) => Active(p)' /\ req'[p] = req[p]
    <3>1. ~Active(q)
      BY <1>1, <1>2, RelayAssumption DEF Active, IInv, RequestInv
    <3>2. QED BY <1>1, <3>1 DEF Active
  <2>5. StatusInv'
    BY <1>1, <2>1, <2>4 DEF CleanInv, StatusInv
  <2>6. VersionInv'
    <3>1. \A p \in Requests, k \in Conns : call[p][k].state = "replied" => req'[p] = req[p]
      BY <2>4 DEF Active
    <3>2. QED BY <1>1, <2>1, <3>1 DEF CleanInv, VersionInv
  <2>7. Together'
    BY <2>1 DEF CleanInv, Together
  <2>8. QED BY <2>3, <2>5, <2>6, <2>7 DEF CleanInv, AloneInv, LatestInv
<1>6. QED BY <1>4, <1>5

(* The command goes out, or is lost for want of a subscriber. *)
LEMMA CleanSend ==
  ASSUME IInv, CleanInv, NEW q \in Requests, SendCommand(q)
  PROVE  CleanInv'
<1>1. /\ NextStep(q, "publish")
      /\ UNCHANGED <<status, listVersion, wire, current, cp, last>>
  BY DEF SendCommand, db, peer
<1>2. /\ req[q].left # <<>> /\ req[q].action \in Actions
      /\ req'[q].action = req[q].action /\ req'[q].arg = req[q].arg
      /\ \A p \in Requests \ {q} : req'[p] = req[p]
  BY <1>1, RequestMoves DEF IInv, RequestInv
<1>3. \A k \in Conns : call[q][k].state = "none" /\ <<q, k>> \notin wire
  BY <1>2 DEF IInv, CallInv
<1>4. /\ \A j \in Conns : /\ j \in subs => call'[q][j].state = "queued"
                          /\ j \notin subs => call'[q][j] = call[q][j]
      /\ \A p \in Requests \ {q}, j \in Conns : call'[p][j] = call[p][j]
  BY SendMoves
<1>5. StepOf(q)
  BY <1>1, <1>2, <1>4 DEF StepOf
<1>6. CASE subs = {}
  BY <1>2, <1>5, <1>6, Tainted DEF SendCommand
<1>7. CASE subs # {} /\ ~Clean(q)
  BY <1>2, <1>5, <1>7, Unclean, Tainted DEF SendCommand, Clean
<1>8. CASE subs # {} /\ Clean(q)
  <2>1. Active(q) /\ clean' = clean
    BY <1>2, <1>8 DEF Active, SendCommand
  <2>2. Active(q)'
    BY <1>4, <1>8 DEF Active, IInv, TypeOK
  <2>3. \A k \in Conns : call'[q][k].state \in {"none", "queued"}
    <3>1. SUFFICES ASSUME NEW k \in Conns PROVE call'[q][k].state \in {"none", "queued"}
      OBVIOUS
    <3>2. CASE k \in subs
      BY <1>4, <3>2
    <3>3. CASE k \notin subs
      BY <1>3, <1>4, <3>3
    <3>4. QED BY <3>2, <3>3
  <2>4. AloneAt(q)'
    <3>1. AloneAt(q)
      BY <1>8 DEF CleanInv, AloneInv
    <3>2. \A p \in Requests : (Active(p)' => Active(p)) /\ req'[p].action = req[p].action
      BY <1>2, <1>4, <2>1 DEF Active
    <3>3. QED BY <1>1, <1>3, <2>1, <2>3, <3>1, <3>2 DEF AloneAt
  <2>5. LatestAt(q)'
    BY <2>3 DEF LatestAt
  <2>6. req[q].action \in ListCommands => listVersion = cp.version
    BY <1>3, <1>8, <2>1, VersionAt
  <2>7. QED BY <1>1, <1>2, <1>5, <1>8, <2>1, <2>2, <2>4, <2>5, <2>6, StillClean
<1>9. QED BY <1>6, <1>7, <1>8

(* The handlers come and go; a connection that is new runs no command. *)
LEMMA CleanConn ==
  ASSUME IInv, CleanInv, NEW k \in Conns, ConnStep(k)
  PROVE  CleanInv'
<1>1. /\ UNCHANGED <<req, status, listVersion, call, wire, cp, last, clean>>
      /\ \A j \in Conns : current' = j => current = j \/ conn[j] = "none"
  BY ConnMoves DEF db
<1>2. \A p \in Requests, j \in Conns : call[p][j].state # "none" => conn[j] # "none"
  BY DEF IInv, CallInv
<1>3. \A p \in Requests : (Active(p)' <=> Active(p)) /\ (Clean(p)' <=> Clean(p))
  BY <1>1 DEF Active, Clean
<1>4. ASSUME NEW p \in Requests, AloneAt(p) PROVE AloneAt(p)'
  <2>1. \A j \in Conns : call[p][j].state # "none" /\ current' = j => current = j
    BY <1>1, <1>2
  <2>2. QED BY <1>1, <1>3, <1>4, <2>1 DEF AloneAt
<1>5. ASSUME NEW p \in Requests, LatestAt(p) PROVE LatestAt(p)'
  BY <1>1, <1>5 DEF LatestAt
<1>6. StatusInv' /\ VersionInv' /\ Together'
  BY <1>1, <1>3 DEF CleanInv, StatusInv, VersionInv, Together
<1>7. QED BY <1>3, <1>4, <1>5, <1>6 DEF CleanInv, AloneInv, LatestInv

(* The goroutine writes its request. *)
LEMMA CleanWrite ==
  ASSUME IInv, CleanInv, NEW q \in Requests, NEW k \in Conns, Write(q, k)
  PROVE  CleanInv'
<1>1. /\ UNCHANGED <<req, status, listVersion, current, cp, last, clean>>
      /\ call[q][k].state = "queued" /\ wire' = wire \union {<<q, k>>}
      /\ call' = [call EXCEPT ![q][k].state = "waiting"]
  BY DEF Write, db
<1>2. /\ call'[q][k].state = "waiting"
      /\ \A p \in Requests, j \in Conns : p # q \/ j # k => call'[p][j] = call[p][j]
  <2>1. "waiting" \in CallStates /\ call \in [Requests -> [Conns -> CallRecords]]
    BY DEF CallStates, CallRecords, IInv, TypeOK
  <2>2. QED BY <1>1, <2>1, Moves
<1>3. Active(q) /\ Active(q)' /\ req[q].action \in Actions
  BY <1>1, <1>2, AnswerActive DEF Active
<1>4. StepOf(q)
  BY <1>1, <1>2, <1>3 DEF StepOf
<1>5. CASE ~Clean(q)
  BY <1>1, <1>4, <1>5, Unclean, Tainted DEF Clean
<1>6. CASE Clean(q)
  <2>1. AloneAt(q) /\ LatestAt(q)
    BY <1>6 DEF CleanInv, AloneInv, LatestInv
  <2>2. \A p \in Requests : Active(p)' => Active(p)
    BY <1>1, <1>2, <1>3 DEF Active
  <2>3. AloneAt(q)'
    <3>1. \A p \in Requests : Active(q)' /\ Active(p)' /\ req'[p].action \in Alike(req'[q].action) => p = q
      BY <1>1, <1>3, <2>1, <2>2 DEF AloneAt
    <3>2. \A j \in Conns : <<q, j>> \in wire' => call'[q][j].state = "waiting"
      BY <1>1, <1>2, <2>1 DEF AloneAt
    <3>3. ASSUME NEW i \in Conns, NEW j \in Conns, i # j,
                 call'[q][i].state \in {"replied", "stored", "done"}
          PROVE  /\ call'[q][j].state \in {"none", "queued", "waiting"}
                 /\ call'[q][j].state # "none" => current' # j
      <4>1. i # k /\ call[q][i].state \in {"replied", "stored", "done"}
        BY <1>2, <3>3
      <4>2. /\ call[q][j].state \in {"none", "queued", "waiting"}
            /\ call[q][j].state # "none" => current # j
        BY <2>1, <3>3, <4>1 DEF AloneAt
      <4>3. CASE j = k
        BY <1>1, <1>2, <4>2, <4>3
      <4>4. CASE j # k
        BY <1>1, <1>2, <4>2, <4>4
      <4>5. QED BY <4>3, <4>4
    <3>4. QED BY <3>1, <3>2, <3>3 DEF AloneAt
  <2>4. LatestAt(q)'
    BY <1>1, <1>2, <2>1 DEF LatestAt
  <2>5. req[q].action \in ListCommands =>
          \/ listVersion = cp.version
          \/ \E j \in Conns : /\ req[q].action = "SendLocalList"
                              /\ call'[q][j].state = "replied" /\ call'[q][j].status = "Accepted"
    <3>1. ASSUME NEW j \in Conns, call[q][j].state = "replied" PROVE call'[q][j] = call[q][j]
      BY <1>1, <1>2, <3>1
    <3>2. QED BY <1>3, <1>6, <3>1, VersionAt
  <2>6. QED BY <1>1, <1>3, <1>4, <1>6, <2>3, <2>4, <2>5, StillClean
<1>7. QED BY <1>5, <1>6

(* The charge point answers: what it says last is what is handed on. *)
LEMMA CleanExecute ==
  ASSUME IInv, CleanInv, NEW q \in Requests, NEW k \in Conns, NEW r \in Replies, Execute(q, k, r)
  PROVE  CleanInv'
<1> DEFINE a == req[q].action
<1>1. /\ UNCHANGED <<req, status, listVersion, current, clean>>
      /\ <<q, k>> \in wire /\ wire' = wire \ {<<q, k>>} /\ current = k
      /\ last' = [last EXCEPT ![a] = r]
  BY DEF Execute, db
<1>2. /\ a \in Actions /\ r \in RepliesTo(a)
      /\ \A p \in Requests, j \in Conns : p # q \/ j # k => call'[p][j] = call[p][j]
      /\ call[q][k].state = "waiting" =>
           /\ call'[q][k].state = "replied" /\ call'[q][k].status = r
           /\ a = "GetLocalListVersion" => call'[q][k].data = cp.version
  BY ExecuteMoves
<1>3. cp'.version = IF a = "SendLocalList" /\ CarriedOut(r) THEN req[q].arg ELSE cp.version
  BY DEF Execute, IInv, TypeOK
<1>4. last'[a] = r /\ \A b \in Actions \ {a} : last'[b] = last[b]
  BY <1>1, <1>2 DEF IInv, TypeOK
<1> HIDE DEF a
<1>5. StepOf(q)
  BY <1>1, <1>2, <1>3, <1>4 DEF StepOf, ListCommands, a
<1>6. CASE ~Clean(q)
  BY <1>1, <1>5, <1>6, Unclean, Tainted DEF Clean
<1>7. CASE Clean(q)
  <2>1. AloneAt(q) /\ call[q][k].state = "waiting"
    BY <1>1, <1>7 DEF CleanInv, AloneInv, AloneAt
  <2>2. /\ call'[q][k].state = "replied" /\ call'[q][k].status = r
        /\ a = "GetLocalListVersion" => call'[q][k].data = cp.version
    BY <1>2, <2>1
  <2>3. Active(q) /\ Active(q)'
    BY <2>1, <2>2 DEF Active
  <2>4. ASSUME NEW j \in Conns \ {k}
        PROVE  /\ call'[q][j] = call[q][j] /\ current # j
               /\ call[q][j].state \in {"none", "queued", "waiting"}
    <3>1. call[q][j].state \notin {"replied", "stored", "done"}
      BY <1>1, <2>1, <2>4 DEF AloneAt
    <3>2. call[q][j].state \in CallStates
      BY <2>4 DEF IInv, TypeOK
    <3>3. call[q][j].state \in {"none", "queued", "waiting"}
      BY <3>1, <3>2 DEF CallStates
    <3>4. QED BY <1>1, <1>2, <2>4, <3>3
  <2>5. AloneAt(q)'
    <3>1. \A p \in Requests : Active(p)' => Active(p)
      BY <1>1, <1>2, <2>3 DEF Active
    <3>2. \A p \in Requests : Active(q)' /\ Active(p)' /\ req'[p].action \in Alike(req'[q].action) => p = q
      BY <1>1, <2>1, <2>3, <3>1 DEF AloneAt
    <3>3. \A j \in Conns : <<q, j>> \in wire' => call'[q][j].state = "waiting"
      BY <1>1, <2>1, <2>4 DEF AloneAt
    <3>4. ASSUME NEW i \in Conns, NEW j \in Conns, i # j,
                 call'[q][i].state \in {"replied", "stored", "done"}
          PROVE  /\ call'[q][j].state \in {"none", "queued", "waiting"}
                 /\ call'[q][j].state # "none" => current' # j
      <4>1. i = k
        BY <2>4, <3>4
      <4>2. QED BY <1>1, <2>4, <3>4, <4>1
    <3>5. QED BY <3>2, <3>3, <3>4 DEF AloneAt
  <2>6. LatestAt(q)'
    <3>1. a = "SendLocalList" /\ r = "Accepted" => req[q].arg = cp'.version
      BY <1>3 DEF CarriedOut
    <3>2. a = "GetLocalListVersion" => cp'.version = cp.version
      BY <1>3
    <3>3. \A j \in Conns : call'[q][j].state \in {"replied", "stored"} => j = k
      BY <2>4
    <3>4. QED BY <1>1, <1>4, <2>2, <3>1, <3>2, <3>3 DEF LatestAt, a
  <2>7. a \in ListCommands => \/ listVersion = cp'.version
                              \/ \E j \in Conns : /\ a = "SendLocalList"
                                                  /\ call'[q][j].state = "replied"
                                                  /\ call'[q][j].status = "Accepted"
    <3>1. a \in ListCommands => listVersion = cp.version
      <4>1. \A j \in Conns : call[q][j].state # "replied"
        BY <2>1, <2>4
      <4>2. QED BY <1>7, <2>3, <4>1, VersionAt DEF a
    <3>2. CASE a = "SendLocalList" /\ CarriedOut(r)
      <4>1. r = "Accepted"
        BY <1>2, <3>2 DEF RepliesTo, CarriedOut
      <4>2. QED BY <2>2, <3>2, <4>1
    <3>3. CASE ~(a = "SendLocalList" /\ CarriedOut(r))
      BY <1>3, <3>1, <3>3
    <3>4. QED BY <3>2, <3>3
  <2>8. QED BY <1>1, <1>5, <1>7, <2>3, <2>5, <2>6, <2>7, StillClean DEF a
<1>8. QED BY <1>6, <1>7

(* The answer is written down. *)
LEMMA CleanConcludes ==
  ASSUME IInv, CleanInv, NEW q \in Requests, NEW k \in Conns, Concludes(q, k)
  PROVE  CleanInv'
<1> DEFINE a == req[q].action
           c == call[q][k]
<1>1. /\ UNCHANGED <<req, wire, current, cp, last>>
      /\ c.state \in {"replied", "stored"}
  BY DEF Concludes, peer
<1>2. Active(q) /\ a \in Actions
  BY <1>1, AnswerActive
<1>3. /\ call'[q][k].state \in {"stored", "done"} /\ call'[q][k].status = c.status
      /\ call'[q][k].data = c.data
      /\ \A p \in Requests, j \in Conns : p # q \/ j # k => call'[p][j] = call[p][j]
  <2>1. PICK v \in {"stored", "done"} : call' = [call EXCEPT ![q][k].state = v]
    BY DEF Concludes
  <2>2. v \in CallStates /\ call \in [Requests -> [Conns -> CallRecords]]
    BY DEF CallStates, CallRecords, IInv, TypeOK
  <2>3. QED BY <2>1, <2>2, Moves
<1>4. \/ status' = status /\ (a \in Read => c.status = "CallError" \/ call'[q][k].state = "stored")
      \/ /\ a \in Tracked
         /\ \E v \in {"ok", "error"} :
              status' = [status EXCEPT ![a] = v] /\ (a \in Read => v = Verdict(c.status))
  BY DEF Concludes
<1>5. \/ /\ listVersion' = listVersion
         /\ a = "SendLocalList" => c.status # "Accepted"
      \/ a = "GetLocalListVersion" /\ listVersion' = c.data
      \/ a = "SendLocalList" /\ c.status = "Accepted" /\ listVersion' = req[q].arg
  BY DEF Concludes
<1>6. \A b \in Read \ {a} : status'[b] = status[b]
  BY <1>4 DEF Read, IInv, TypeOK
<1>7. clean' = clean \/ (a = "ChangeConfiguration" /\ clean' = clean \ {a})
  BY DEF Concludes
<1> HIDE DEF a, c
<1>8. StepOf(q)
  BY <1>1, <1>2, <1>3, <1>5, <1>6 DEF StepOf, ListCommands, a
<1>9. CASE a = "ChangeConfiguration" /\ clean' = clean \ {a}
  <2>1. Alike(a) = {a}
    BY <1>9 DEF Alike, ListCommands
  <2>2. QED BY <1>1, <1>8, <1>9, <2>1, Tainted DEF a
<1>10. CASE clean' = clean /\ ~Clean(q)
  BY <1>1, <1>8, <1>10, Unclean, Tainted DEF Clean
<1>11. CASE clean' = clean /\ Clean(q)
  <2>1. AloneAt(q) /\ LatestAt(q)
    BY <1>11 DEF CleanInv, AloneInv, LatestInv
  <2>2. \A j \in Conns \ {k} : call[q][j].state \in {"none", "queued", "waiting"}
    BY <1>1, <2>1 DEF AloneAt, c
  <2>3. AloneAt(q)'
    <3>1. \A p \in Requests : Active(p)' => Active(p)
      BY <1>1, <1>2, <1>3 DEF Active
    <3>2. \A p \in Requests : Active(q)' /\ Active(p)' /\ req'[p].action \in Alike(req'[q].action) => p = q
      BY <1>1, <1>2, <2>1, <3>1 DEF AloneAt
    <3>3. \A j \in Conns : <<q, j>> \in wire' => call'[q][j].state = "waiting"
      BY <1>1, <1>3, <2>1 DEF AloneAt, c
    <3>4. ASSUME NEW i \in Conns, NEW j \in Conns, i # j,
                 call'[q][i].state \in {"replied", "stored", "done"}
          PROVE  /\ call'[q][j].state \in {"none", "queued", "waiting"}
                 /\ call'[q][j].state # "none" => current' # j
      <4>1. i = k
        BY <1>3, <2>2, <3>4
      <4>2. call'[q][j] = call[q][j]
        BY <1>3, <3>4, <4>1
      <4>3. QED BY <1>1, <2>1, <3>4, <4>1, <4>2 DEF AloneAt, c
    <3>5. QED BY <3>2, <3>3, <3>4 DEF AloneAt
  <2>4. /\ last[a] = c.status
        /\ a = "GetLocalListVersion" => c.data = cp.version
        /\ a = "SendLocalList" /\ c.status = "Accepted" => req[q].arg = cp.version
    BY <1>1, <2>1 DEF LatestAt, a, c
  <2>5. LatestAt(q)'
    <3>1. \A j \in Conns : call'[q][j].state \in {"replied", "stored"} => j = k
      BY <1>3, <2>2
    <3>2. QED BY <1>1, <1>3, <2>4, <3>1 DEF LatestAt, a
  <2>6. a \in Read /\ last'[a] \notin {None, "CallError"} =>
          status'[a] = Verdict(last'[a]) \/ Active(q)'
    <3>1. CASE call'[q][k].state = "stored"
      BY <3>1 DEF Active
    <3>2. CASE c.status = "CallError"
      BY <1>1, <2>4, <3>2
    <3>3. CASE a \in Read /\ \E v \in {"ok", "error"} : status' = [status EXCEPT ![a] = v] /\ v = Verdict(c.status)
      BY <1>1, <2>4, <3>3 DEF Read, IInv, TypeOK
    <3>4. QED BY <1>4, <3>1, <3>2, <3>3
  <2>7. a \in ListCommands => listVersion' = cp'.version
    <3>1. SUFFICES ASSUME a \in ListCommands PROVE listVersion' = cp.version
      BY <1>1
    <3>2. CASE listVersion' = listVersion /\ (a = "SendLocalList" => c.status # "Accepted")
      <4>1. ASSUME NEW j \in Conns, call[q][j].state = "replied" PROVE j = k
        BY <2>2, <4>1
      <4>2. QED BY <1>2, <1>11, <3>1, <3>2, <4>1, VersionAt DEF a, c
    <3>3. CASE a = "GetLocalListVersion" /\ listVersion' = c.data
      BY <2>4, <3>3
    <3>4. CASE a = "SendLocalList" /\ c.status = "Accepted" /\ listVersion' = req[q].arg
      BY <2>4, <3>4
    <3>5. QED BY <1>5, <3>2, <3>3, <3>4
  <2>8. QED BY <1>1, <1>2, <1>8, <1>11, <2>3, <2>5, <2>6, <2>7, StillClean DEF a
<1>12. QED BY <1>7, <1>9, <1>10, <1>11

(* As long as the requests for a command do not overlap and none of them   *)
(* fails, its answers are written down before the next one is sent,        *)
(* whatever the requests for other commands do.                            *)
LEMMA CleanStep == ASSUME IInv, CleanInv, [Next]_vars PROVE CleanInv'
<1>1. ASSUME NEW q \in Requests, NEW a, NEW x, NEW s, Planned(a, x, s), Begin(q, a, x, s)
      PROVE  CleanInv'
  BY <1>1, CleanBegin
<1>2. ASSUME NEW q \in Requests, NEW k \in Conns, CommandFails(q, k) PROVE CleanInv'
  <2>1. /\ UNCHANGED <<req, status, listVersion, wire, current, cp, last>>
        /\ call[q][k].state \in {"queued", "waiting", "replied", "stored"}
        /\ call' = [call EXCEPT ![q][k].state = "done"]
        /\ clean' = clean \ Alike(req[q].action)
    BY <1>2 DEF CommandFails, db, peer
  <2>2. \A p \in Requests \ {q}, j \in Conns : call'[p][j] = call[p][j]
    BY <2>1 DEF IInv, TypeOK
  <2>3. StepOf(q)
    BY <2>1, <2>2, AnswerActive DEF StepOf
  <2>4. QED BY <2>1, <2>3, Tainted
<1>3. ASSUME NEW q \in Requests, Abort(q) PROVE CleanInv'
  <2>1. /\ UNCHANGED <<status, listVersion, call, wire, current, cp, last>>
        /\ req[q].action \in Actions /\ clean' = clean \ Alike(req[q].action)
    BY <1>3 DEF Abort, db, peer, IInv, RequestInv
  <2>2. req'[q].action = req[q].action /\ \A p \in Requests \ {q} : req'[p] = req[p]
    BY <1>3 DEF Abort, IInv, TypeOK
  <2>3. StepOf(q)
    BY <2>1, <2>2 DEF StepOf
  <2>4. QED BY <2>1, <2>2, <2>3, Tainted
<1>4. ASSUME NEW q \in Requests, ApiStep(q) PROVE CleanInv'
  <2>1. CASE Reset(q)
    BY <2>1, CleanWithin DEF Reset, peer
  <2>2. CASE Store(q)
    BY <2>2, CleanWithin DEF Store, peer
  <2>3. CASE SendCommand(q)
    BY <2>3, CleanSend
  <2>4. QED BY <1>3, <1>4, <2>1, <2>2, <2>3 DEF ApiStep
<1>5. ASSUME UNCHANGED <<req, status, listVersion, call, wire, current, last, clean>>,
             cp'.version = cp.version
      PROVE  CleanInv'
  <2>1. \A p \in Requests : /\ Active(p)' <=> Active(p)
                            /\ Clean(p)' <=> Clean(p)
    BY <1>5 DEF Active, Clean
  <2>2. \A p \in Requests : AloneAt(p) => AloneAt(p)'
    BY <1>5, <2>1 DEF AloneAt
  <2>3. \A p \in Requests : LatestAt(p) => LatestAt(p)'
    BY <1>5 DEF LatestAt
  <2>4. StatusInv' /\ VersionInv' /\ Together'
    BY <1>5, <2>1 DEF CleanInv, StatusInv, VersionInv, Together
  <2>5. QED BY <2>1, <2>2, <2>3, <2>4 DEF CleanInv, AloneInv, LatestInv
<1>6. ASSUME NEW x \in Args, UseReservation(x) PROVE CleanInv'
  <2>1. cp'.version = cp.version
    BY <1>6 DEF UseReservation, IInv, TypeOK
  <2>2. QED BY <1>5, <1>6, <2>1 DEF UseReservation
<1>7. CASE UNCHANGED vars
  BY <1>5, <1>7 DEF vars, db, peer
<1>8. ASSUME NEW k \in Conns, ConnStep(k) PROVE CleanInv'
  BY <1>8, CleanConn
<1>9. ASSUME NEW q \in Requests, NEW k \in Conns,
             \/ Write(q, k) \/ Concludes(q, k) \/ \E r \in Replies : Execute(q, k, r)
      PROVE  CleanInv'
  BY <1>9, CleanWrite, CleanConcludes, CleanExecute
<1>10. QED BY <1>1, <1>2, <1>4, <1>6, <1>7, <1>8, <1>9, NextShape, Zenon DEF Steps

(* What the database says of a clean command once it has settled. *)
LEMMA CleanHolds == Spec => []CleanInv
<1>1. Init => CleanInv
  BY InitInv
<1>2. IInv /\ CleanInv /\ [Next]_vars => CleanInv'
  BY CleanStep
<1>3. QED BY <1>1, <1>2, Invariance, PTL DEF Spec

(* Once the requests for a command that did not overlap one another and    *)
(* did not fail have settled, its status column says how the charge point  *)
(* answered the last of them, whatever other commands were under way.      *)
THEOREM StatusSettles == Spec => []SettledStatus
<1>1. CleanInv => SettledStatus
  <2>1. \A a : Quiet({a}) => \A q \in Requests : req[q].action = a => ~Active(q)
    BY DEF Quiet, Active
  <2>2. QED BY <2>1 DEF CleanInv, SettledStatus, StatusInv, Verdict
<1>2. QED BY <1>1, CleanHolds, PTL

(* ... and the list version in the database is the charge point's own. *)
THEOREM VersionSettles == Spec => []SettledVersion
<1>1. IInv /\ CleanInv => SettledVersion
  <2>1. ASSUME IInv, NEW q \in Requests, NEW k \in Conns, req[q].action = "SendLocalList",
               call[q][k].state = "replied"
        PROVE  ~Quiet(ListCommands)
    <3>1. req[q].action \in ListCommands
      BY <2>1, AnswerActive DEF ListCommands
    <3>2. QED BY <2>1, <3>1 DEF Quiet
  <2>2. QED BY <2>1 DEF CleanInv, SettledVersion, VersionInv
<1>2. QED BY <1>1, Invariance, CleanHolds, PTL
=============================================================================
