--------------------------- MODULE OcppCallProofs ---------------------------
(***************************************************************************)
(* What OcppCall guarantees for any number of callers and frames.          *)
(***************************************************************************)
EXTENDS OcppCall, TLAPS

(* Numbers are issued once each: 0 is the mark of a call without one.      *)
NumbersInv ==
  /\ \A c \in Callers : number[c] <= msgID
  /\ \A c \in Callers : (call[c] = "idle") <=> (number[c] = 0)
  /\ \A c, d \in Callers : number[c] = number[d] /\ number[c] # 0 => c = d

(* The charge point can only know of a request once its write has begun,   *)
(* which is after its channel was registered.                              *)
SentInv ==
  /\ \A c \in sent : call[c] \in {"writing", "waiting", "returning", "returned"}
  /\ \A f \in Frames : about[f] # None => about[f] \in sent
  /\ \A f \in Frames : frame[f] = "unsent" => about[f] = None

(* A frame on its way to a channel, in it or taken from it answers the     *)
(* owner of that channel.                                                  *)
RouteInv ==
  /\ \A f \in Frames : frame[f] = "found" => target[f] # None /\ about[f] = target[f]
  /\ \A c \in Callers : respCh[c] # None => about[respCh[c]] = c
  /\ \A c \in Callers : result[c] # None => call[c] \in {"returning", "returned"}

(* Correlated and NoAnswerLost are not inductive by themselves: both need  *)
(* that numbers are unique and that pending maps each to its own caller.   *)
IInv ==
  /\ TypeOK
  /\ NumbersInv
  /\ PendingExact
  /\ SentInv
  /\ RouteInv
  /\ Correlated
  /\ NoAnswerLost

(* A connection starts with no call, no frame and an empty pending map. *)
LEMMA InitIInv == Init => IInv
  BY NoneAssumption
     DEF Init, IInv, TypeOK, NumbersInv, PendingExact, InFlight, SentInv,
         RouteInv, Correlated, NoAnswerLost, CallStates, FrameStates

(* Type correctness is preserved by every step of every goroutine. *)
LEMMA TypeStep == ASSUME TypeOK, RouteInv, [Next]_vars PROVE TypeOK'
<1> USE NoneAssumption DEF TypeOK, CallStates, FrameStates
<1>1. ASSUME NEW c \in Callers, CallStep(c) PROVE TypeOK'
  <2>1. CASE RegisterCall(c) \/ Return(c)
    BY <2>1 DEF RegisterCall, Return, frameVars
  <2>2. CASE Number(c)
    BY <2>2 DEF Number, frameVars
  <2>3. CASE LockWrite(c) \/ WriteDone(c) \/ WriteFails(c)
    BY <2>3 DEF LockWrite, WriteDone, WriteFails, frameVars
  <2>4. CASE TakeResponse(c) \/ GiveUp(c)
    BY <2>4 DEF TakeResponse, GiveUp, frameVars
  <2>5. QED BY <1>1, <2>1, <2>2, <2>3, <2>4 DEF CallStep
<1>2. ASSUME NEW f \in Frames, FrameStep(f) PROVE TypeOK'
  <2>1. CASE ReceiveAnswer(f)
    BY <2>1 DEF ReceiveAnswer, callVars
  <2>2. CASE ReceiveCall(f) \/ ReceiveMalformed(f)
    BY <2>2 DEF ReceiveCall, ReceiveMalformed, callVars
  <2>3. CASE Lookup(f)
    BY <2>3 DEF Lookup, callVars
  <2>4. CASE Deliver(f)
    BY <2>4 DEF Deliver, callVars, RouteInv
  <2>5. CASE LockReply(f) \/ ReplyDone(f)
    BY <2>5 DEF LockReply, ReplyDone, callVars
  <2>6. QED BY <1>2, <2>1, <2>2, <2>3, <2>4, <2>5 DEF FrameStep
<1>3. CASE ConnStep
  BY <1>3 DEF ConnStep, ReadFails, SubCancel, CloseNow, callVars, frameVars
<1>4. CASE UNCHANGED vars
  BY <1>4 DEF vars
<1>5. QED BY <1>1, <1>2, <1>3, <1>4 DEF Next

(* No two calls ever get the same number. *)
LEMMA NumbersStep == ASSUME TypeOK, NumbersInv, [Next]_vars PROVE NumbersInv'
<1> USE DEF TypeOK, NumbersInv
<1>1. ASSUME NEW c \in Callers, CallStep(c) PROVE NumbersInv'
  <2>1. CASE Number(c)
    BY <2>1 DEF Number
  <2>2. CASE ~Number(c)
    <3>1. /\ UNCHANGED <<msgID, number>>
          /\ call[c] # "idle"
          /\ \E s \in CallStates \ {"idle"} : call' = [call EXCEPT ![c] = s]
      BY <1>1, <2>2 DEF CallStep, RegisterCall, LockWrite, WriteDone, WriteFails,
         TakeResponse, GiveUp, Return, CallStates
    <3>2. QED BY <3>1
  <2>3. QED BY <2>1, <2>2
<1>2. ASSUME UNCHANGED callVars PROVE NumbersInv'
  BY <1>2 DEF callVars
<1>3. QED
  BY <1>1, <1>2 DEF Next, FrameStep, ReceiveAnswer, ReceiveCall, ReceiveMalformed,
     Lookup, Deliver, LockReply, ReplyDone, ConnStep, ReadFails, SubCancel,
     CloseNow, vars, callVars

(* The map and the program counters of the callers move together. *)
LEMMA PendingStep == ASSUME TypeOK, NumbersInv, PendingExact, [Next]_vars
                     PROVE  PendingExact'
<1> USE DEF TypeOK
<1>1. ASSUME UNCHANGED <<pending, number>>,
             \A d \in Callers : InFlight(d)' <=> InFlight(d)
      PROVE  PendingExact'
  <2>1. {d \in Callers : InFlight(d)}' = {d \in Callers : InFlight(d)}
    BY <1>1
  <2>2. QED BY <1>1, <2>1 DEF PendingExact
<1>2. ASSUME NEW c \in Callers, CallStep(c) PROVE PendingExact'
  <2>1. CASE Number(c)
    <3>1. \A d \in Callers : InFlight(d)' <=> InFlight(d)
      BY <2>1 DEF Number, InFlight
    <3>2. {number'[d] : d \in {e \in Callers : InFlight(e)}}
            = {number[d] : d \in {e \in Callers : InFlight(e)}}
      BY <2>1 DEF Number, InFlight
    <3>3. {d \in Callers : InFlight(d)}' = {d \in Callers : InFlight(d)}
      BY <3>1
    <3>4. QED BY <2>1, <3>1, <3>2, <3>3 DEF PendingExact, Number, InFlight
  <2>2. CASE RegisterCall(c)
    <3>1. {d \in Callers : InFlight(d)}' = {d \in Callers : InFlight(d)} \union {c}
      BY <2>2 DEF RegisterCall, InFlight
    <3>2. DOMAIN pending' = DOMAIN pending \union {number[c]}
      BY <2>2 DEF RegisterCall
    <3>3. number' = number
      BY <2>2 DEF RegisterCall
    <3>4. (DOMAIN pending = {number[d] : d \in {e \in Callers : InFlight(e)}})'
      BY <3>1, <3>2, <3>3 DEF PendingExact
    <3>5. ASSUME NEW d \in Callers, InFlight(d)' PROVE pending'[number[d]] = d
      BY <2>2, <3>5 DEF RegisterCall, PendingExact, InFlight, NumbersInv
    <3>6. QED BY <3>3, <3>4, <3>5 DEF PendingExact
  <2>3. CASE LockWrite(c) \/ WriteDone(c) \/ WriteFails(c) \/ TakeResponse(c) \/ GiveUp(c)
    BY <1>1, <2>3 DEF LockWrite, WriteDone, WriteFails, TakeResponse, GiveUp, InFlight
  <2>4. CASE Return(c)
    <3>1. {d \in Callers : InFlight(d)}' = {d \in Callers : InFlight(d)} \ {c}
      BY <2>4 DEF Return, InFlight
    <3>2. DOMAIN pending' = DOMAIN pending \ {number[c]}
      BY <2>4 DEF Return
    <3>3. number' = number
      BY <2>4 DEF Return
    <3>4. \A d \in Callers : InFlight(d) /\ d # c => number[d] # number[c]
      BY <2>4 DEF Return, InFlight, NumbersInv
    <3>5. (DOMAIN pending = {number[d] : d \in {e \in Callers : InFlight(e)}})'
      BY <3>1, <3>2, <3>3, <3>4 DEF PendingExact
    <3>6. ASSUME NEW d \in Callers, InFlight(d)' PROVE pending'[number[d]] = d
      <4>1. InFlight(d) /\ d # c
        BY <2>4, <3>6 DEF Return, InFlight
      <4>2. number[d] \in DOMAIN pending \ {number[c]} /\ pending[number[d]] = d
        BY <4>1, <3>4 DEF PendingExact
      <4>3. QED BY <4>2, <2>4 DEF Return
    <3>7. QED BY <3>3, <3>5, <3>6 DEF PendingExact
  <2>5. QED BY <1>2, <2>1, <2>2, <2>3, <2>4 DEF CallStep
<1>3. CASE UNCHANGED <<pending, number, call>>
  BY <1>1, <1>3 DEF InFlight
<1>4. QED
  BY <1>2, <1>3 DEF Next, FrameStep, ReceiveAnswer, ReceiveCall, ReceiveMalformed,
     Lookup, Deliver, LockReply, ReplyDone, ConnStep, ReadFails, SubCancel,
     CloseNow, vars, callVars

(* A frame answers only requests whose write has begun. *)
LEMMA SentStep == ASSUME TypeOK, SentInv, [Next]_vars PROVE SentInv'
<1> USE NoneAssumption DEF TypeOK, SentInv
<1>1. ASSUME NEW c \in Callers, CallStep(c) PROVE SentInv'
  <2>1. UNCHANGED frameVars
    BY <1>1 DEF CallStep, Number, RegisterCall, LockWrite, WriteDone, WriteFails,
       TakeResponse, GiveUp, Return, frameVars
  <2>2. \/ UNCHANGED sent
        \/ sent' = sent \union {c} /\ call' = [call EXCEPT ![c] = "writing"]
    BY <1>1 DEF CallStep, Number, RegisterCall, LockWrite, WriteDone, WriteFails,
       TakeResponse, GiveUp, Return
  <2>3. \/ call[c] \notin {"writing", "waiting", "returning", "returned"}
        \/ call'[c] \in {"writing", "waiting", "returning", "returned"}
    BY <1>1 DEF CallStep, Number, RegisterCall, LockWrite, WriteDone, WriteFails,
       TakeResponse, GiveUp, Return
  <2>4. \A d \in Callers \ {c} : call'[d] = call[d]
    BY <1>1 DEF CallStep, Number, RegisterCall, LockWrite, WriteDone, WriteFails,
       TakeResponse, GiveUp, Return
  <2>5. QED BY <2>1, <2>2, <2>3, <2>4 DEF frameVars
<1>2. ASSUME NEW f \in Frames, FrameStep(f) PROVE SentInv'
  BY <1>2 DEF FrameStep, ReceiveAnswer, ReceiveCall, ReceiveMalformed, Lookup,
     Deliver, LockReply, ReplyDone, callVars
<1>3. CASE UNCHANGED <<callVars, frameVars>>
  BY <1>3 DEF callVars, frameVars
<1>4. QED
  BY <1>1, <1>2, <1>3 DEF Next, ConnStep, ReadFails, SubCancel, CloseNow, vars,
     callVars, frameVars

(* The channel a lookup returns belongs to the call the answer is about:   *)
(* the answer carries that call's number, the map has one entry per number *)
(* and no other call has it.                                               *)
LEMMA LookupFinds ==
  ASSUME IInv, NEW f \in Frames, frame[f] = "answer",
         FrameNumber(f) \in DOMAIN pending
  PROVE  about[f] = pending[FrameNumber(f)] /\ about[f] # None
<1>1. PICK c \in Callers : InFlight(c) /\ FrameNumber(f) = number[c]
  BY DEF IInv, PendingExact
<1>2. number[c] # 0 /\ pending[number[c]] = c
  BY <1>1 DEF IInv, NumbersInv, PendingExact, InFlight
<1>3. about[f] \in Callers /\ number[about[f]] = number[c]
  BY <1>1, <1>2 DEF FrameNumber, IInv, TypeOK
<1>4. about[f] = c
  BY <1>2, <1>3 DEF IInv, NumbersInv
<1>5. QED BY <1>1, <1>2, <1>4, NoneAssumption

(* A channel only ever holds, and HandleResponse only ever targets it with, *)
(* answers to the call that owns it.                                       *)
LEMMA RouteStep == ASSUME IInv, [Next]_vars PROVE RouteInv'
<1> USE NoneAssumption DEF IInv, TypeOK, RouteInv
<1>1. ASSUME NEW c \in Callers, CallStep(c) PROVE RouteInv'
  <2>1. CASE TakeResponse(c)
    BY <2>1 DEF TakeResponse, frameVars
  <2>2. CASE ~TakeResponse(c)
    <3>1. UNCHANGED <<respCh, result, frameVars>>
      BY <1>1, <2>2 DEF CallStep, Number, RegisterCall, LockWrite, WriteDone,
         WriteFails, GiveUp, Return, frameVars
    <3>2. /\ \A d \in Callers \ {c} : call'[d] = call[d]
          /\ call[c] \in {"returning", "returned"} => call'[c] = "returned"
      BY <1>1, <2>2 DEF CallStep, Number, RegisterCall, LockWrite, WriteDone,
         WriteFails, GiveUp, Return
    <3>3. QED BY <3>1, <3>2 DEF frameVars
  <2>3. QED BY <2>1, <2>2
<1>2. ASSUME NEW f \in Frames, FrameStep(f) PROVE RouteInv'
  <2>1. CASE ReceiveAnswer(f)
    BY <2>1 DEF ReceiveAnswer, callVars, SentInv
  <2>2. CASE ReceiveCall(f) \/ ReceiveMalformed(f) \/ LockReply(f) \/ ReplyDone(f)
    BY <2>2 DEF ReceiveCall, ReceiveMalformed, LockReply, ReplyDone, callVars
  <2>3. CASE Lookup(f)
    BY <2>3, LookupFinds DEF Lookup, callVars
  <2>4. CASE Deliver(f)
    BY <2>4 DEF Deliver, callVars
  <2>5. QED BY <1>2, <2>1, <2>2, <2>3, <2>4 DEF FrameStep
<1>3. CASE UNCHANGED <<respCh, callVars, frameVars>>
  BY <1>3 DEF callVars, frameVars
<1>4. QED
  BY <1>1, <1>2, <1>3 DEF Next, ConnStep, ReadFails, SubCancel, CloseNow, vars,
     callVars, frameVars

(* TakeResponse returns what the channel holds, so Correlated follows from *)
(* the routing.                                                            *)
LEMMA CorrelatedStep == ASSUME IInv, [Next]_vars PROVE Correlated'
<1> USE NoneAssumption DEF IInv, TypeOK, Correlated
<1>1. ASSUME NEW c \in Callers, CallStep(c) PROVE Correlated'
  BY <1>1 DEF CallStep, Number, RegisterCall, LockWrite, WriteDone, WriteFails,
     TakeResponse, GiveUp, Return, frameVars, RouteInv
<1>2. ASSUME NEW f \in Frames, FrameStep(f) PROVE Correlated'
  BY <1>2 DEF FrameStep, ReceiveAnswer, ReceiveCall, ReceiveMalformed, Lookup,
     Deliver, LockReply, ReplyDone, callVars, SentInv
<1>3. CASE UNCHANGED <<result, about>>
  BY <1>3
<1>4. QED
  BY <1>1, <1>2, <1>3 DEF Next, ConnStep, ReadFails, SubCancel, CloseNow, vars,
     callVars, frameVars

(* An answer is dropped by Lookup only, when its call has left the map; a  *)
(* call whose write has begun left it by returning, and stays returned. *)
LEMMA NoAnswerLostStep == ASSUME IInv, [Next]_vars PROVE NoAnswerLost'
<1> USE NoneAssumption DEF IInv, TypeOK, NoAnswerLost
<1>1. ASSUME NEW c \in Callers, CallStep(c) PROVE NoAnswerLost'
  <2>1. UNCHANGED frameVars
    BY <1>1 DEF CallStep, Number, RegisterCall, LockWrite, WriteDone, WriteFails,
       TakeResponse, GiveUp, Return, frameVars
  <2>2. \A d \in Callers : call[d] = "returned" => call'[d] = "returned"
    BY <1>1 DEF CallStep, Number, RegisterCall, LockWrite, WriteDone, WriteFails,
       TakeResponse, GiveUp, Return
  <2>3. QED BY <2>1, <2>2 DEF frameVars
<1>2. ASSUME NEW f \in Frames, FrameStep(f) PROVE NoAnswerLost'
  <2>1. CASE Lookup(f)
    <3>1. ASSUME FrameNumber(f) \notin DOMAIN pending, about[f] # None
          PROVE  call[about[f]] = "returned"
      <4>1. about[f] \in Callers /\ number[about[f]] \notin DOMAIN pending
        BY <3>1 DEF FrameNumber
      <4>2. ~InFlight(about[f])
        BY <4>1 DEF PendingExact
      <4>3. call[about[f]] \in {"writing", "waiting", "returning", "returned"}
        BY <3>1 DEF SentInv
      <4>4. QED BY <4>2, <4>3 DEF InFlight
    <3>2. QED BY <2>1, <3>1 DEF Lookup, callVars
  <2>2. CASE ~Lookup(f)
    BY <1>2, <2>2 DEF FrameStep, ReceiveAnswer, ReceiveCall, ReceiveMalformed,
       Deliver, LockReply, ReplyDone, callVars
  <2>3. QED BY <2>1, <2>2
<1>3. CASE UNCHANGED <<call, frameVars>>
  BY <1>3 DEF frameVars
<1>4. QED
  BY <1>1, <1>2, <1>3 DEF Next, ConnStep, ReadFails, SubCancel, CloseNow, vars,
     callVars, frameVars

(* The inductive step, put together from one lemma per conjunct. *)
LEMMA IInvStep == IInv /\ [Next]_vars => IInv'
<1> SUFFICES ASSUME IInv, [Next]_vars PROVE IInv'
  OBVIOUS
<1>1. TypeOK' /\ NumbersInv'
  BY TypeStep, NumbersStep DEF IInv
<1>2. PendingExact' /\ SentInv'
  BY PendingStep, SentStep DEF IInv
<1>3. QED
  BY <1>1, <1>2, RouteStep, CorrelatedStep, NoAnswerLostStep DEF IInv

(* The inductive invariant holds of every behaviour of a connection. *)
THEOREM Inductive == Spec => []IInv
  BY InitIInv, IInvStep, PTL DEF Spec

(* The variables of a connection keep their types. *)
THEOREM TypeCorrect == Spec => []TypeOK
  BY Inductive, PTL DEF IInv

(* ChargePoint.Call never returns another call's answer. *)
THEOREM CallsCorrelated == Spec => []Correlated
  BY Inductive, PTL DEF IInv

(* ChargePoint.HandleResponse throws away no answer a Call waits for. *)
THEOREM AnswersKept == Spec => []NoAnswerLost
  BY Inductive, PTL DEF IInv

(* ChargePoint.pending is exactly the set of calls in flight. *)
THEOREM NoPendingLeak == Spec => []PendingExact
  BY Inductive, PTL DEF IInv

-----------------------------------------------------------------------------
(* Refinement: numbers, locks, the map and the channels are invisible to   *)
(* the caller.                                                             *)
LEMMA RefineInit == Init => Abstract!Init
  BY NoneAssumption DEF Init, Abstract!Init, AbstractStatus

(* Each step of Call is Open, Answer, Fail or invisible in CallSpec. *)
LEMMA RefineCall ==
  ASSUME IInv, NEW c \in Callers, CallStep(c) PROVE [Abstract!Next]_(Abstract!vars)
<1> USE NoneAssumption DEF IInv, TypeOK
<1>1. UNCHANGED about
  BY DEF CallStep, Number, RegisterCall, LockWrite, WriteDone, WriteFails,
     TakeResponse, GiveUp, Return, frameVars
<1>2. ASSUME NEW s, AbstractStatus(c)' = s,
             \A d \in Callers \ {c} : AbstractStatus(d)' = AbstractStatus(d)
      PROVE  [d \in Callers |-> AbstractStatus(d)]'
               = [[d \in Callers |-> AbstractStatus(d)] EXCEPT ![c] = s]
  BY <1>2
<1>3. ASSUME call' = [call EXCEPT ![c] = call'[c]],
             \A d \in Callers \ {c} : result'[d] = result[d]
      PROVE  \A d \in Callers \ {c} : AbstractStatus(d)' = AbstractStatus(d)
  BY <1>3 DEF AbstractStatus
<1>4. CASE Number(c)
  <2>1. AbstractStatus(c) = "idle" /\ AbstractStatus(c)' = "open"
    BY <1>4 DEF Number, AbstractStatus
  <2>2. Abstract!Open(c)
    BY <1>1, <1>2, <1>3, <1>4, <2>1 DEF Number, Abstract!Open
  <2>3. QED BY <2>2 DEF Abstract!Next
<1>5. CASE TakeResponse(c)
  <2>1. respCh[c] \in Frames /\ about[respCh[c]] = c
    BY <1>5 DEF TakeResponse, RouteInv
  <2>2. AbstractStatus(c) = "open" /\ AbstractStatus(c)' = "answered"
    BY <1>5 DEF TakeResponse, AbstractStatus
  <2>3. respCh[c] \in [d \in Callers |-> {f \in Frames : about[f] = d}][c]
    BY <2>1
  <2>4. result' = [result EXCEPT ![c] = respCh[c]]
    BY <1>5 DEF TakeResponse
  <2>5. [d \in Callers |-> AbstractStatus(d)]'
          = [[d \in Callers |-> AbstractStatus(d)] EXCEPT ![c] = "answered"]
    BY <1>2, <1>3, <1>5, <2>2 DEF TakeResponse
  <2>6. Abstract!Answer(c)
    <3>1. \E f \in [d \in Callers |-> {g \in Frames : about[g] = d}][c] :
            result' = [result EXCEPT ![c] = f]
      BY <2>3, <2>4
    <3>2. [d \in Callers |-> AbstractStatus(d)][c] = "open"
      BY <2>2
    <3>3. [d \in Callers |-> {g \in Frames : about[g] = d}]'
            = [d \in Callers |-> {g \in Frames : about[g] = d}]
      BY <1>1
    <3>4. QED BY <2>5, <3>1, <3>2, <3>3, Zenon DEF Abstract!Answer
  <2>7. QED BY <2>6 DEF Abstract!Next
<1>6. CASE WriteFails(c) \/ GiveUp(c)
  <2>1. AbstractStatus(c) = "open" /\ AbstractStatus(c)' = "failed"
    BY <1>6 DEF WriteFails, GiveUp, AbstractStatus, RouteInv
  <2>2. Abstract!Fail(c)
    BY <1>1, <1>2, <1>3, <1>6, <2>1 DEF WriteFails, GiveUp, Abstract!Fail
  <2>3. QED BY <2>2 DEF Abstract!Next
<1>7. CASE RegisterCall(c) \/ LockWrite(c) \/ WriteDone(c) \/ Return(c)
  <2>1. UNCHANGED result
    BY <1>7 DEF RegisterCall, LockWrite, WriteDone, Return
  <2>2. AbstractStatus(c)' = AbstractStatus(c)
    BY <1>7 DEF RegisterCall, LockWrite, WriteDone, Return, AbstractStatus
  <2>3. \A d \in Callers : AbstractStatus(d)' = AbstractStatus(d)
    BY <1>3, <1>7, <2>1, <2>2 DEF RegisterCall, LockWrite, WriteDone, Return
  <2>4. QED BY <1>1, <2>1, <2>3 DEF Abstract!vars
<1>8. QED BY <1>4, <1>5, <1>6, <1>7 DEF CallStep

(* Reading an answer to a written request is Hear; all else the handlers   *)
(* of frames do is invisible.                                              *)
LEMMA RefineFrame ==
  ASSUME IInv, NEW f \in Frames, FrameStep(f) PROVE [Abstract!Next]_(Abstract!vars)
<1> USE NoneAssumption DEF IInv, TypeOK
<1>1. UNCHANGED <<call, result>>
  BY DEF FrameStep, ReceiveAnswer, ReceiveCall, ReceiveMalformed, Lookup, Deliver,
     LockReply, ReplyDone, callVars
<1>2. CASE ReceiveAnswer(f)
  <2>1. PICK c \in sent \union {None} : about' = [about EXCEPT ![f] = c]
    BY <1>2 DEF ReceiveAnswer
  <2>2. about[f] = None
    BY <1>2 DEF ReceiveAnswer, SentInv
  <2>3. CASE c = None
    BY <1>1, <2>1, <2>2, <2>3 DEF AbstractStatus, Abstract!vars
  <2>4. CASE c \in sent
    <3>1. c \in Callers /\ call[c] # "idle"
      BY <2>4 DEF SentInv
    <3>2. Abstract!Hear(c, f)
      <4>1. AbstractStatus(c) # "idle"
        BY <3>1 DEF AbstractStatus, CallStates
      <4>2. \A d \in Callers : AbstractStatus(d)' = AbstractStatus(d)
        BY <1>1 DEF AbstractStatus
      <4>3. [d \in Callers |-> {g \in Frames : about[g] = d}]'
              = [[d \in Callers |-> {g \in Frames : about[g] = d}]
                   EXCEPT ![c] = @ \union {f}]
        <5>1. \A d \in Callers \ {c} : {g \in Frames : about'[g] = d}
                                        = {g \in Frames : about[g] = d}
          BY <2>1, <2>2
        <5>2. {g \in Frames : about'[g] = c} = {g \in Frames : about[g] = c} \union {f}
          BY <2>1
        <5>3. \A d \in Callers : {g \in Frames : about'[g] = d}
                = IF d = c THEN {g \in Frames : about[g] = c} \union {f} ELSE {g \in Frames : about[g] = d}
          BY <5>1, <5>2
        <5>4. QED BY <3>1, <5>3, Zenon
      <4>4. QED BY <1>1, <2>2, <3>1, <4>1, <4>2, <4>3 DEF Abstract!Hear
    <3>3. QED BY <3>1, <3>2 DEF Abstract!Next
  <2>5. QED BY <2>3, <2>4
<1>3. CASE ~ReceiveAnswer(f)
  <2>1. UNCHANGED about
    BY <1>3 DEF FrameStep, ReceiveCall, ReceiveMalformed, Lookup, Deliver,
       LockReply, ReplyDone
  <2>2. QED BY <1>1, <2>1 DEF AbstractStatus, Abstract!vars
<1>4. QED BY <1>2, <1>3

(* Every step of the connection is a step or a stutter of CallSpec. *)
LEMMA RefineStep == IInv /\ [Next]_vars => [Abstract!Next]_(Abstract!vars)
<1> SUFFICES ASSUME IInv, [Next]_vars PROVE [Abstract!Next]_(Abstract!vars)
  OBVIOUS
<1>1. CASE UNCHANGED <<call, result, about>>
  BY <1>1 DEF AbstractStatus, Abstract!vars
<1>2. QED
  BY <1>1, RefineCall, RefineFrame DEF Next, ConnStep, ReadFails, SubCancel,
     CloseNow, vars, callVars, frameVars

(* ChargePoint.Call implements CallSpec: each call is answered by a reply  *)
(* made to it, or fails.                                                   *)
THEOREM Implements == Spec => ImplementsCallSpec
  BY Inductive, RefineInit, RefineStep, PTL DEF Spec, ImplementsCallSpec, Abstract!Spec
=============================================================================
