------------------------------ MODULE OcppCall ------------------------------
(***************************************************************************)
(* One OCPP connection of the gateway: ChargePoint (ocpp/chargepoint.go)   *)
(* and the read loop and dispatch around it (ocpp/handler.go).             *)
(*                                                                         *)
(* Processes.  A caller is the goroutine SubscribeChargePoint starts for   *)
(* one command; it makes one Call.  A frame is a message of the charge     *)
(* point; once read it is a goroutine of its own running                   *)
(* handleOCPPMessage.  The read loop owns the connection.                  *)
(*                                                                         *)
(* The charge point is external.  It answers only requests that reached    *)
(* it, with the number they carried, but as late and as often as it likes; *)
(* it also answers numbers it never saw (about[f] = None), sends requests  *)
(* of its own and messages that do not parse.  logMessage, which only      *)
(* writes an audit row, is left out.                                       *)
(***************************************************************************)
EXTENDS Naturals

CONSTANTS
  Callers,  \* goroutines that make one Call each
  Frames,   \* messages the charge point sends
  None      \* neither a caller nor a frame

ASSUME NoneAssumption == None \notin Callers /\ None \notin Frames

VARIABLES
  conn,     \* the read loop: open, lost, cancelled (subCancel ran), closed
  msgID,    \* ChargePoint.msgID
  mu,       \* holder of ChargePoint.mu: a caller, a frame or None
  pending,  \* ChargePoint.pending: number -> caller that owns the channel
  respCh,   \* respCh[c]: the frame buffered in the channel of c, or None
  call,     \* call[c]: how far Call has got
  number,   \* number[c]: the msgID of the call of c, 0 before it has one
  result,   \* result[c]: the frame Call returns, or None for an error
  sent,     \* the callers whose write has begun
  frame,    \* frame[f]: how far the handling of f has got
  about,    \* about[f]: the caller whose request f answers, or None
  target    \* target[f]: the owner of the channel HandleResponse looked up

callVars  == <<msgID, call, number, result, sent>>
frameVars == <<frame, about, target>>
vars == <<conn, msgID, mu, pending, respCh, call, number, result, sent,
          frame, about, target>>

-----------------------------------------------------------------------------
CallStates == {"idle", "numbered", "registered", "writing", "waiting",
               "returning", "returned"}

FrameStates == {"unsent", "answer", "found", "delivered", "dropped",
                "call", "replying", "replied", "discarded"}

(* Between registering its channel and the deferred delete. *)
InFlight(c) == call[c] \in {"registered", "writing", "waiting", "returning"}

Init ==
  /\ conn = "open"
  /\ msgID = 0
  /\ mu = None
  /\ pending = [i \in {} |-> None]
  /\ respCh = [c \in Callers |-> None]
  /\ call = [c \in Callers |-> "idle"]
  /\ number = [c \in Callers |-> 0]
  /\ result = [c \in Callers |-> None]
  /\ sent = {}
  /\ frame = [f \in Frames |-> "unsent"]
  /\ about = [f \in Frames |-> None]
  /\ target = [f \in Frames |-> None]

-----------------------------------------------------------------------------
(* ChargePoint.Call. *)

(* Mutant: the counter is read but the increment is not stored. *)
NumberNotStored(c) ==
  /\ call[c] = "idle"
  /\ number' = [number EXCEPT ![c] = msgID + 1]
  /\ call' = [call EXCEPT ![c] = "numbered"]
  /\ UNCHANGED <<conn, msgID, mu, pending, respCh, result, sent, frameVars>>

(* msgID.Add(1): the increment and the read are one atomic step. *)
Number(c) ==
  /\ call[c] = "idle"
  /\ msgID' = msgID + 1
  /\ number' = [number EXCEPT ![c] = msgID + 1]
  /\ call' = [call EXCEPT ![c] = "numbered"]
  /\ UNCHANGED <<conn, mu, pending, respCh, result, sent, frameVars>>

(* Mutant: the channel is registered before it is made, as nil. *)
RegisterNil(c) ==
  /\ call[c] = "numbered"
  /\ pending' = [i \in DOMAIN pending \union {number[c]} |->
                   IF i = number[c] THEN None ELSE pending[i]]
  /\ call' = [call EXCEPT ![c] = "registered"]
  /\ UNCHANGED <<conn, msgID, mu, respCh, number, result, sent, frameVars>>

(* pending[msgID] = respCh, under pendMu. *)
RegisterCall(c) ==
  /\ call[c] = "numbered"
  /\ pending' = [i \in DOMAIN pending \union {number[c]} |->
                   IF i = number[c] THEN c ELSE pending[i]]
  /\ call' = [call EXCEPT ![c] = "registered"]
  /\ UNCHANGED <<conn, msgID, mu, respCh, number, result, sent, frameVars>>

(* Mutant: the request is written before its channel is registered. *)
LockWriteEarly(c) ==
  /\ call[c] \in {"numbered", "registered"}
  /\ mu = None
  /\ mu' = c
  /\ sent' = sent \union {c}
  /\ call' = [call EXCEPT ![c] = "writing"]
  /\ UNCHANGED <<conn, msgID, pending, respCh, number, result, frameVars>>

(* mu.Lock() and the write begins: from here on the charge point may have  *)
(* the request, and answer it, before the write returns.                   *)
LockWrite(c) ==
  /\ call[c] = "registered"
  /\ mu = None
  /\ mu' = c
  /\ sent' = sent \union {c}
  /\ call' = [call EXCEPT ![c] = "writing"]
  /\ UNCHANGED <<conn, msgID, pending, respCh, number, result, frameVars>>

(* The write succeeded; Call starts its 30 s timer and waits.  A closed    *)
(* connection takes no more bytes.                                         *)
WriteDone(c) ==
  /\ call[c] = "writing"
  /\ conn # "closed"
  /\ mu' = None
  /\ call' = [call EXCEPT ![c] = "waiting"]
  /\ UNCHANGED <<conn, msgID, pending, respCh, number, result, sent, frameVars>>

(* The write failed, though the request may have arrived: Call returns the *)
(* error, the deferred delete is next.                                     *)
WriteFails(c) ==
  /\ call[c] = "writing"
  /\ mu' = None
  /\ call' = [call EXCEPT ![c] = "returning"]
  /\ UNCHANGED <<conn, msgID, pending, respCh, number, result, sent, frameVars>>

(* case resp := <-respCh *)
TakeResponse(c) ==
  /\ call[c] = "waiting"
  /\ respCh[c] # None
  /\ result' = [result EXCEPT ![c] = respCh[c]]
  /\ respCh' = [respCh EXCEPT ![c] = None]
  /\ call' = [call EXCEPT ![c] = "returning"]
  /\ UNCHANGED <<conn, msgID, mu, pending, number, sent, frameVars>>

(* Mutant: no 30 s timer, only the connection's context. *)
GiveUpUntimed(c) ==
  /\ conn \in {"cancelled", "closed"}
  /\ call[c] = "waiting"
  /\ call' = [call EXCEPT ![c] = "returning"]
  /\ UNCHANGED <<conn, msgID, mu, pending, respCh, number, result, sent, frameVars>>

(* case <-ctx.Done(): the 30 s timer or the cancelled connection context.  *)
(* A response may be in the channel already: select picks either.          *)
GiveUp(c) ==
  /\ call[c] = "waiting"
  /\ call' = [call EXCEPT ![c] = "returning"]
  /\ UNCHANGED <<conn, msgID, mu, pending, respCh, number, result, sent, frameVars>>

(* Mutant: the entry is deleted only when a response was taken. *)
ReturnLeaks(c) ==
  /\ call[c] = "returning"
  /\ pending' = IF result[c] = None THEN pending
                ELSE [i \in DOMAIN pending \ {number[c]} |-> pending[i]]
  /\ call' = [call EXCEPT ![c] = "returned"]
  /\ UNCHANGED <<conn, msgID, mu, respCh, number, result, sent, frameVars>>

(* The deferred delete(pending, msgID), under pendMu. *)
Return(c) ==
  /\ call[c] = "returning"
  /\ pending' = [i \in DOMAIN pending \ {number[c]} |-> pending[i]]
  /\ call' = [call EXCEPT ![c] = "returned"]
  /\ UNCHANGED <<conn, msgID, mu, respCh, number, result, sent, frameVars>>

-----------------------------------------------------------------------------
(* The read loop of Handler and handleOCPPMessage. *)

(* A CallResult or CallError is read: both are routed to HandleResponse. *)
ReceiveAnswer(f) ==
  /\ conn = "open"
  /\ frame[f] = "unsent"
  /\ \E c \in sent \union {None} : about' = [about EXCEPT ![f] = c]
  /\ frame' = [frame EXCEPT ![f] = "answer"]
  /\ UNCHANGED <<conn, mu, pending, respCh, callVars, target>>

(* A Call is read: it goes to the router, which ends in one Reply. *)
ReceiveCall(f) ==
  /\ conn = "open"
  /\ frame[f] = "unsent"
  /\ frame' = [frame EXCEPT ![f] = "call"]
  /\ UNCHANGED <<conn, mu, pending, respCh, callVars, about, target>>

(* Not an array, fewer than 3 elements (4 for a Call), or another type. *)
ReceiveMalformed(f) ==
  /\ conn = "open"
  /\ frame[f] = "unsent"
  /\ frame' = [frame EXCEPT ![f] = "discarded"]
  /\ UNCHANGED <<conn, mu, pending, respCh, callVars, about, target>>

(* The number an answer carries; the charge point copies the request's. *)
FrameNumber(f) == IF about[f] = None THEN 0 ELSE number[about[f]]

(* Mutant: the answer goes to whichever call is pending. *)
LookupAny(f) ==
  /\ frame[f] = "answer"
  /\ \/ \E i \in DOMAIN pending :
          /\ target' = [target EXCEPT ![f] = pending[i]]
          /\ frame' = [frame EXCEPT ![f] = "found"]
     \/ /\ pending = [i \in {} |-> None]
        /\ frame' = [frame EXCEPT ![f] = "dropped"]
        /\ UNCHANGED target
  /\ UNCHANGED <<conn, mu, pending, respCh, callVars, about>>

(* HandleResponse: ch, ok := pending[msgID] under pendMu. *)
Lookup(f) ==
  /\ frame[f] = "answer"
  /\ \/ /\ FrameNumber(f) \in DOMAIN pending
        /\ target' = [target EXCEPT ![f] = pending[FrameNumber(f)]]
        /\ frame' = [frame EXCEPT ![f] = "found"]
     \/ /\ FrameNumber(f) \notin DOMAIN pending
        /\ frame' = [frame EXCEPT ![f] = "dropped"]
        /\ UNCHANGED target
  /\ UNCHANGED <<conn, mu, pending, respCh, callVars, about>>

(* Mutant: the channel has no buffer, so a send needs a caller in select. *)
DeliverUnbuffered(f) ==
  /\ frame[f] = "found"
  /\ call[target[f]] = "waiting"
  /\ respCh[target[f]] = None
  /\ respCh' = [respCh EXCEPT ![target[f]] = f]
  /\ frame' = [frame EXCEPT ![f] = "delivered"]
  /\ UNCHANGED <<conn, mu, pending, callVars, about, target>>

(* ch <- payload: blocks while the one buffer slot is taken. *)
Deliver(f) ==
  /\ frame[f] = "found"
  /\ respCh[target[f]] = None
  /\ respCh' = [respCh EXCEPT ![target[f]] = f]
  /\ frame' = [frame EXCEPT ![f] = "delivered"]
  /\ UNCHANGED <<conn, mu, pending, callVars, about, target>>

(* Reply takes the same lock as Call, writes (or fails to) and lets go. *)
LockReply(f) ==
  /\ frame[f] = "call"
  /\ mu = None
  /\ mu' = f
  /\ frame' = [frame EXCEPT ![f] = "replying"]
  /\ UNCHANGED <<conn, pending, respCh, callVars, about, target>>

ReplyDone(f) ==
  /\ frame[f] = "replying"
  /\ mu' = None
  /\ frame' = [frame EXCEPT ![f] = "replied"]
  /\ UNCHANGED <<conn, pending, respCh, callVars, about, target>>

(* conn.Read fails and the loop returns; then the deferred subCancel and,  *)
(* last, conn.CloseNow.                                                    *)
ReadFails ==
  /\ conn = "open"
  /\ conn' = "lost"
  /\ UNCHANGED <<mu, pending, respCh, callVars, frameVars>>

SubCancel ==
  /\ conn = "lost"
  /\ conn' = "cancelled"
  /\ UNCHANGED <<mu, pending, respCh, callVars, frameVars>>

CloseNow ==
  /\ conn = "cancelled"
  /\ conn' = "closed"
  /\ UNCHANGED <<mu, pending, respCh, callVars, frameVars>>

-----------------------------------------------------------------------------
CallStep(c) ==
  \/ Number(c)
  \/ RegisterCall(c)
  \/ LockWrite(c)
  \/ WriteDone(c)
  \/ WriteFails(c)
  \/ TakeResponse(c)
  \/ GiveUp(c)
  \/ Return(c)

FrameStep(f) ==
  \/ ReceiveAnswer(f)
  \/ ReceiveCall(f)
  \/ ReceiveMalformed(f)
  \/ Lookup(f)
  \/ Deliver(f)
  \/ LockReply(f)
  \/ ReplyDone(f)

ConnStep == ReadFails \/ SubCancel \/ CloseNow

Next ==
  \/ \E c \in Callers : CallStep(c)
  \/ \E f \in Frames : FrameStep(f)
  \/ ConnStep

Spec == Init /\ [][Next]_vars

(* A goroutine that can run does: the Go scheduler is fair, the timer of   *)
(* Call fires, and a write ends (the peer drains the socket or the write   *)
(* fails).  Nothing makes the charge point send, nor a command arrive.     *)
Fairness ==
  /\ \A c \in Callers :
       /\ WF_vars(RegisterCall(c))
       /\ WF_vars(LockWrite(c))
       /\ WF_vars(WriteDone(c) \/ WriteFails(c))
       /\ WF_vars(TakeResponse(c) \/ GiveUp(c))
       /\ WF_vars(Return(c))
  /\ \A f \in Frames :
       /\ WF_vars(Lookup(f))
       /\ WF_vars(Deliver(f))
       /\ WF_vars(LockReply(f))
       /\ WF_vars(ReplyDone(f))

FairSpec == Spec /\ Fairness

-----------------------------------------------------------------------------
TypeOK ==
  /\ conn \in {"open", "lost", "cancelled", "closed"}
  /\ msgID \in Nat
  /\ mu \in Callers \union Frames \union {None}
  /\ DOMAIN pending \subseteq Nat
  /\ pending \in [DOMAIN pending -> Callers]
  /\ respCh \in [Callers -> Frames \union {None}]
  /\ call \in [Callers -> CallStates]
  /\ number \in [Callers -> Nat]
  /\ result \in [Callers -> Frames \union {None}]
  /\ sent \subseteq Callers
  /\ frame \in [Frames -> FrameStates]
  /\ about \in [Frames -> Callers \union {None}]
  /\ target \in [Frames -> Callers \union {None}]

(* A Call returns only a reply the charge point made to that Call, however *)
(* calls, late replies and time-outs interleave.                           *)
Correlated ==
  \A c \in Callers : result[c] # None => about[result[c]] = c

(* HandleResponse finds no channel for an answer only when the Call it     *)
(* answers has already given up: an answer to a Call that is still         *)
(* waiting is never thrown away.                                           *)
NoAnswerLost ==
  \A f \in Frames :
    frame[f] = "dropped" /\ about[f] # None => call[about[f]] = "returned"

(* The pending map holds exactly the calls in flight, each under its own   *)
(* number: a finished Call, failed ones included, leaves nothing behind.   *)
PendingExact ==
  /\ DOMAIN pending = {number[c] : c \in {d \in Callers : InFlight(d)}}
  /\ \A c \in Callers : InFlight(c) => pending[number[c]] = c

(* HandleResponse blocks on a full channel, for ever if its Call is gone,  *)
(* only when the charge point answered the same Call twice.                *)
SecondAnswer(f) ==
  \E g \in Frames \ {f} : about[f] # None /\ about[g] = about[f]

HandlerCompletes ==
  \A f \in Frames : frame[f] = "found" ~> (frame[f] = "delivered" \/ SecondAnswer(f))

(* Every Call that was entered returns. *)
CallReturns ==
  \A c \in Callers : call[c] # "idle" ~> call[c] = "returned"

-----------------------------------------------------------------------------
(* Call implements CallSpec: a call is open from taking its number until   *)
(* it takes a response or fails.                                           *)
AbstractStatus(c) ==
  CASE call[c] = "idle" -> "idle"
    [] call[c] \in {"numbered", "registered", "writing", "waiting"} -> "open"
    [] call[c] \in {"returning", "returned"} ->
         IF result[c] = None THEN "failed" ELSE "answered"

Abstract == INSTANCE CallSpec WITH
  status <- [c \in Callers |-> AbstractStatus(c)],
  answer <- result,
  heard  <- [c \in Callers |-> {f \in Frames : about[f] = c}]

(* The gateway's Call keeps the promise CallSpec states. *)
ImplementsCallSpec == Abstract!Spec
=============================================================================
