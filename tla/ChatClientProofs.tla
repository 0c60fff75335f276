-------------------------- MODULE ChatClientProofs --------------------------
(* Proofs about ChatClient: for any number of streams, conversations, loads    *)
(* and tool calls.                                                             *)
EXTENDS ChatClient, FiniteSetTheorems, TLAPS

StepSeq == Seq({"running", "settled"})
StreamRecords == [pc : {"idle", "sent", "open", "done", "cut"}, to : Convs \union {None},
                  new : BOOLEAN, tool : BOOLEAN, steps : StepSeq]

(* A stream has a running step exactly while its tool runs, and it is the last *)
(* one; a tool runs only in an answer that is open or was cut off.             *)
StepsInv ==
  \A s \in Streams : /\ str[s].tool => Len(str[s].steps) > 0
                     /\ \A i \in DOMAIN str[s].steps :
                          str[s].steps[i] = "running" <=> str[s].tool /\ i = Len(str[s].steps)
                     /\ str[s].tool => str[s].pc \in {"open", "cut"}

(* The flag is set by the newest stream and cleared by whichever ends; a       *)
(* delete under way is about a conversation.                                   *)
FlagInv ==
  /\ isStreaming => abortRef \in Streams /\ str[abortRef].pc \in {"sent", "open"}
  /\ isRestoring => Waiting # {}
  /\ del # NoDelete => del.id \in Convs
  /\ \A s \in Under : str[s].to \in Convs

IInv == TypeOK /\ StepsInv /\ FlagInv

(* Away from the chat page nothing of it is left. *)
AwayInv ==
  page = "other" =>
    /\ conv = None /\ shown = {} /\ ~isStreaming /\ ~isRestoring
    /\ Under = {} /\ Waiting = {} /\ del = NoDelete

(* A stream that is not done is the one the page shows, and nothing else is    *)
(* being loaded; before it has named a new conversation that one is on screen  *)
(* alone and not stored.                                                       *)
ShownInv ==
  \A s \in Streams : str[s].pc \in {"sent", "open"} =>
    /\ isStreaming /\ abortRef = s /\ Waiting = {} /\ shown = {str[s].to}
    /\ IF str[s].pc = "sent" /\ str[s].new
         THEN conv = None /\ db[str[s].to] = "free"
         ELSE conv = str[s].to

(* While nothing has overlapped. *)
CalmInv ==
  ~raced => /\ \A s, t \in Under : s = t
            /\ \A g, h \in Waiting : g = h
            /\ Under # {} => del.id = None
            /\ Waiting # {} => isRestoring
            /\ conv # None => shown = {conv} /\ url = conv
            /\ conv = None /\ (\A s \in Streams : str[s].pc \notin {"sent", "open"}) => shown = {}
            /\ ShownInv
-----------------------------------------------------------------------------
(* How a step changes the streams. *)
StreamStarts(s) ==
  /\ str[s].pc \in {"idle", "cut"}
  /\ \E c \in Convs, b \in BOOLEAN :
       str' = [str EXCEPT ![s] = [pc |-> "sent", to |-> c, new |-> b, tool |-> FALSE, steps |-> <<>>]]
StreamOpens(s) == str[s].pc = "sent" /\ str' = [str EXCEPT ![s].pc = "open"]
StreamDone(s) == str[s].pc = "open" /\ ~str[s].tool /\ str' = [str EXCEPT ![s].pc = "done"]
StreamCloses(s) == str' = [str EXCEPT ![s] = Ended(s)]

(* The conversation a new turn goes to exists or is created for it. *)
LEMMA BeginShape ==
  ASSUME TypeOK, NEW s \in Streams, Begin(s)
  PROVE  /\ str[s].pc \in {"idle", "cut"}
         /\ isStreaming' = TRUE /\ abortRef' = s
         /\ \E c \in Convs : /\ conv = None => c \in Fresh
                             /\ conv # None => c = conv
                             /\ str' = [str EXCEPT ![s] = [pc |-> "sent", to |-> c, new |-> conv = None,
                                                           tool |-> FALSE, steps |-> <<>>]]
                             /\ shown' = shown \union {c}
<1>1. PICK c \in (IF conv = None THEN Fresh ELSE {conv}) :
        /\ str' = [str EXCEPT ![s] = [pc |-> "sent", to |-> c, new |-> conv = None,
                                      tool |-> FALSE, steps |-> <<>>]]
        /\ shown' = shown \union {c}
  BY DEF Begin
<1>2. c \in Convs
  BY DEF Fresh, TypeOK
<1>3. str[s].pc \in {"idle", "cut"}
  BY DEF Begin, Under
<1>4. QED BY <1>1, <1>2, <1>3 DEF Begin

(* Stop aborts one stream or none. *)
LEMMA StopShape ==
  ASSUME TypeOK, NEW b, StopIf(b)
  PROVE  /\ str' = str \/ (abortRef \in Streams /\ StreamCloses(abortRef))
         /\ isStreaming' \in BOOLEAN /\ (isStreaming' => isStreaming /\ str' = str /\ abortRef' = abortRef)
         /\ abortRef' = abortRef \/ abortRef' = None
         /\ db' = db \/ \E c \in Convs \union {None} : db' = Stored(c)
<1>1. CASE ~b
  BY <1>1 DEF StopIf, NoStop, TypeOK
<1>2. CASE b /\ abortRef = None
  BY <1>2 DEF StopIf, StopEffect, TypeOK
<1>3. CASE b /\ abortRef # None
  <2>1. abortRef \in Streams /\ str[abortRef].to \in Convs \union {None}
    BY <1>3 DEF TypeOK
  <2>2. QED BY <1>3, <2>1 DEF StopIf, StopEffect, Finally, StreamCloses
<1>4. QED BY <1>1, <1>2, <1>3

(* Every step changes the streams in one of these ways. *)
LEMMA StreamShape ==
  ASSUME TypeOK, [Next]_vars
  PROVE  \/ str' = str
         \/ str' = [s \in Streams |-> Closed]
         \/ \E s \in Streams : \/ StreamStarts(s) \/ StreamOpens(s) \/ StreamDone(s) \/ StreamCloses(s)
                               \/ ToolStarts(s) \/ ToolSettles(s)
<1>1. ASSUME NEW s \in Streams, Begin(s) PROVE StreamStarts(s)
  <2>1. (conv = None) \in BOOLEAN
    OBVIOUS
  <2>2. QED BY <1>1, <2>1, BeginShape DEF StreamStarts
<1>2. ASSUME NEW s \in Streams, StreamStep(s)
      PROVE  StreamOpens(s) \/ StreamDone(s) \/ StreamCloses(s) \/ ToolStarts(s) \/ ToolSettles(s)
  BY <1>2 DEF StreamStep, ConversationId, DoneEvent, StreamEnd, StreamRefused, Finally,
              StreamOpens, StreamDone, StreamCloses
<1>3. ASSUME NEW b, StopIf(b) PROVE str' = str \/ \E s \in Streams : StreamCloses(s)
  BY <1>3, StopShape
<1>4. CASE stop
  BY <1>3, <1>4 DEF stop, StopIf
<1>5. CASE handleNewConversation
  BY <1>3, <1>5 DEF handleNewConversation, NewEffect
<1>6. ASSUME NEW g \in Gets, NEW c \in Convs, handleSelectConversation(g, c)
      PROVE  str' = str \/ \E s \in Streams : StreamCloses(s)
  BY <1>3, <1>6 DEF handleSelectConversation
<1>7. CASE DeleteAnswered
  BY <1>7 DEF DeleteAnswered, Finally, StreamCloses, TypeOK
<1>8. CASE Leave
  BY <1>8 DEF Leave
<1>9. ASSUME NEW s \in Streams, send(s) \/ goToChat(s) PROVE str' = str \/ StreamStarts(s)
  BY <1>1, <1>9 DEF send, goToChat
<1>10. ASSUME \/ DeleteFails \/ Launcher \/ UNCHANGED vars
              \/ \E c \in Convs : handleDelete(c)
              \/ \E g \in Gets : Selected(g) \/ \E c \in Convs : OpenConversation(g, c)
       PROVE  str' = str
  BY <1>10 DEF DeleteFails, Launcher, vars, handleDelete, Selected, OpenConversation
<1>11. QED BY <1>2, <1>4, <1>5, <1>6, <1>7, <1>8, <1>9, <1>10 DEF Next

(* A closed stream. *)
LEMMA ClosedType == Closed \in StreamRecords /\ Len(Closed.steps) = 0 /\ Closed.pc = "idle"
                    /\ Closed.tool = FALSE /\ DOMAIN Closed.steps = {}
<1>1. <<>> \in StepSeq
  BY DEF StepSeq
<1>2. QED BY <1>1 DEF Closed, StreamRecords

(* What is left of a stream has ended, and answers no conversation. *)
LEMMA EndedPc ==
  ASSUME NEW s \in Streams
  PROVE  /\ Ended(s).pc \in {"idle", "cut"} /\ Ended(s).to = None
         /\ Ended(s) = Closed \/ Running(s) # {}
BY DEF Ended, Closed

(* The streams as TypeOK has them. *)
StreamsTyped == str \in [Streams -> StreamRecords] /\ \A s \in Streams : Len(str[s].steps) <= MaxSteps

(* What StepsInv and the types say of one stream. *)
StreamFine(r) ==
  /\ r \in StreamRecords /\ Len(r.steps) <= MaxSteps
  /\ r.tool => Len(r.steps) > 0
  /\ \A i \in DOMAIN r.steps : r.steps[i] = "running" <=> r.tool /\ i = Len(r.steps)
  /\ r.tool => r.pc \in {"open", "cut"}

LEMMA FineIs ==
  (StreamsTyped /\ StepsInv) <=> (str \in [Streams -> StreamRecords] /\ \A s \in Streams : StreamFine(str[s]))
BY DEF StreamsTyped, StepsInv, StreamFine

(* A tool that starts adds the one running step, a tool that settles takes it. *)
LEMMA ToolsFine ==
  ASSUME NEW r, StreamFine(r)
  PROVE  /\ r.pc = "open" /\ ~r.tool /\ Len(r.steps) < MaxSteps =>
              StreamFine([r EXCEPT !.tool = TRUE, !.steps = Append(r.steps, "running")])
         /\ r.pc = "open" /\ r.tool =>
              StreamFine([r EXCEPT !.tool = FALSE, !.steps = [r.steps EXCEPT ![Len(r.steps)] = "settled"]])
<1>0. r \in StreamRecords /\ r.steps \in StepSeq /\ r.tool \in BOOLEAN
  BY DEF StreamFine, StreamRecords
<1>1. ASSUME r.pc = "open", ~r.tool, Len(r.steps) < MaxSteps
      PROVE  StreamFine([r EXCEPT !.tool = TRUE, !.steps = Append(r.steps, "running")])
  <2> DEFINE n == [r EXCEPT !.tool = TRUE, !.steps = Append(r.steps, "running")]
             a == Append(r.steps, "running")
  <2>1. /\ a \in StepSeq /\ Len(a) = Len(r.steps) + 1 /\ Len(r.steps) \in Nat
        /\ DOMAIN a = 1..(Len(r.steps) + 1) /\ DOMAIN r.steps = 1..Len(r.steps)
        /\ \A i \in 1..Len(r.steps) : a[i] = r.steps[i]
        /\ a[Len(r.steps) + 1] = "running"
    BY <1>0 DEF StepSeq
  <2>2. n \in StreamRecords /\ n.steps = a /\ n.tool = TRUE /\ n.pc = "open"
    BY <1>0, <1>1, <2>1 DEF StreamRecords
  <2>3. \A i \in DOMAIN r.steps : r.steps[i] # "running"
    BY <1>1 DEF StreamFine
  <2> HIDE DEF n, a
  <2>4. StreamFine(n)
    BY <1>1, <2>1, <2>2, <2>3, ChatAssumption DEF StreamFine
  <2>5. QED BY <2>4 DEF n
<1>2. ASSUME r.pc = "open", r.tool
      PROVE  StreamFine([r EXCEPT !.tool = FALSE, !.steps = [r.steps EXCEPT ![Len(r.steps)] = "settled"]])
  <2> DEFINE n == [r EXCEPT !.tool = FALSE, !.steps = [r.steps EXCEPT ![Len(r.steps)] = "settled"]]
             a == [r.steps EXCEPT ![Len(r.steps)] = "settled"]
  <2>1. /\ a \in StepSeq /\ Len(a) = Len(r.steps) /\ DOMAIN a = DOMAIN r.steps
        /\ \A i \in DOMAIN a : a[i] = IF i = Len(r.steps) THEN "settled" ELSE r.steps[i]
    <3>1. Len(r.steps) \in Nat /\ r.steps \in [1..Len(r.steps) -> {"running", "settled"}]
      BY <1>0 DEF StepSeq
    <3>2. a \in [1..Len(r.steps) -> {"running", "settled"}]
      BY <3>1
    <3>3. a \in StepSeq /\ Len(a) = Len(r.steps)
      BY <3>1, <3>2 DEF StepSeq
    <3>4. QED BY <3>1, <3>2, <3>3
  <2>2. n \in StreamRecords /\ n.steps = a /\ n.tool = FALSE /\ n.pc = "open"
    BY <1>0, <1>2, <2>1 DEF StreamRecords
  <2> HIDE DEF n, a
  <2>3. StreamFine(n)
    BY <1>2, <2>1, <2>2 DEF StreamFine
  <2>4. QED BY <2>3 DEF n
<1>3. QED BY <1>1, <1>2

(* What is left of a stream is a fine stream; one that was only sent leaves    *)
(* nothing.                                                                    *)
LEMMA EndedFine ==
  ASSUME NEW s \in Streams, StreamFine(str[s])
  PROVE  /\ StreamFine(Ended(s))
         /\ str[s].pc = "sent" => Ended(s) = Closed
<1>1. CASE Running(s) = {}
  <2>1. StreamFine(Closed)
    BY ClosedType, ChatAssumption DEF StreamFine
  <2>2. QED BY <1>1, <2>1 DEF Ended
<1>2. CASE Running(s) # {}
  <2>1. str[s].tool /\ str[s].pc \in {"open", "cut"}
    BY <1>2 DEF Running, StreamFine
  <2>2. Ended(s) = [pc |-> "cut", to |-> None, new |-> FALSE, tool |-> str[s].tool, steps |-> str[s].steps]
    BY <1>2 DEF Ended, Closed
  <2>3. str[s].steps \in StepSeq /\ str[s].tool \in BOOLEAN
    BY DEF StreamFine, StreamRecords
  <2>4. QED BY <2>1, <2>2, <2>3 DEF StreamFine, StreamRecords
<1>3. QED BY <1>1, <1>2

(* The steps of every answer stay in line with its tool. *)
LEMMA StreamsStep == ASSUME IInv, [Next]_vars PROVE (StreamsTyped /\ StepsInv)'
<1>0. /\ str \in [Streams -> StreamRecords]
      /\ \A s \in Streams : StreamFine(str[s])
  BY FineIs DEF IInv, TypeOK, StreamsTyped, StreamRecords, StepSeq
<1>1. SUFFICES str' \in [Streams -> StreamRecords] /\ \A s \in Streams : StreamFine(str'[s])
  BY DEF StreamsTyped, StepsInv, StreamFine
<1>2. ASSUME NEW s \in Streams, NEW r, StreamFine(r), str' = [str EXCEPT ![s] = r]
      PROVE  str' \in [Streams -> StreamRecords] /\ \A t \in Streams : StreamFine(str'[t])
  BY <1>0, <1>2 DEF StreamFine
<1>3. StreamFine(Closed)
  BY ClosedType, ChatAssumption DEF StreamFine
<1>4. CASE str' = str
  BY <1>0, <1>4
<1>5. CASE str' = [s \in Streams |-> Closed]
  BY <1>3, <1>5, ClosedType
<1>6. ASSUME NEW s \in Streams, StreamStarts(s)
      PROVE  str' \in [Streams -> StreamRecords] /\ \A t \in Streams : StreamFine(str'[t])
  <2>1. PICK c \in Convs, b \in BOOLEAN :
          str' = [str EXCEPT ![s] = [pc |-> "sent", to |-> c, new |-> b, tool |-> FALSE, steps |-> <<>>]]
    BY <1>6 DEF StreamStarts
  <2>2. <<>> \in StepSeq /\ Len(<<>>) = 0 /\ DOMAIN <<>> = {}
    BY DEF StepSeq
  <2>3. StreamFine([pc |-> "sent", to |-> c, new |-> b, tool |-> FALSE, steps |-> <<>>])
    BY <2>2, ChatAssumption DEF StreamFine, StreamRecords
  <2>4. QED BY <1>2, <2>1, <2>3
<1>7. ASSUME NEW s \in Streams, StreamCloses(s)
      PROVE  str' \in [Streams -> StreamRecords] /\ \A t \in Streams : StreamFine(str'[t])
  BY <1>0, <1>2, <1>7, EndedFine DEF StreamCloses
<1>8. ASSUME NEW s \in Streams, StreamOpens(s) \/ StreamDone(s)
      PROVE  str' \in [Streams -> StreamRecords] /\ \A t \in Streams : StreamFine(str'[t])
  <2>1. PICK v \in {"open", "done"} : /\ str' = [str EXCEPT ![s] = [str[s] EXCEPT !.pc = v]]
                                      /\ v = "done" => ~str[s].tool
    BY <1>0, <1>8 DEF StreamOpens, StreamDone
  <2>2. StreamFine([str[s] EXCEPT !.pc = v])
    <3>1. StreamFine(str[s])
      BY <1>0
    <3>2. QED BY <2>1, <3>1 DEF StreamFine, StreamRecords
  <2>3. QED BY <1>2, <2>1, <2>2
<1>9. ASSUME NEW s \in Streams, ToolStarts(s)
      PROVE  str' \in [Streams -> StreamRecords] /\ \A t \in Streams : StreamFine(str'[t])
  <2>1. /\ str[s].pc = "open" /\ ~str[s].tool /\ Len(str[s].steps) < MaxSteps
        /\ str' = [str EXCEPT ![s] = [str[s] EXCEPT !.tool = TRUE, !.steps = Append(str[s].steps, "running")]]
    BY <1>0, <1>9 DEF ToolStarts, StreamRecords
  <2>2. QED BY <1>0, <1>2, <2>1, ToolsFine
<1>10. ASSUME NEW s \in Streams, ToolSettles(s)
      PROVE  str' \in [Streams -> StreamRecords] /\ \A t \in Streams : StreamFine(str'[t])
  <2> DEFINE last == CHOOSE i \in Running(s) : \A j \in Running(s) : j <= i
  <2>1. str[s].pc = "open" /\ str[s].tool /\ StreamFine(str[s])
    BY <1>0, <1>10 DEF ToolSettles
  <2>2. Running(s) = {Len(str[s].steps)} /\ Len(str[s].steps) \in Nat
    <3>1. str[s].steps \in StepSeq
      BY <1>0 DEF StreamRecords
    <3>2. DOMAIN str[s].steps = 1..Len(str[s].steps) /\ Len(str[s].steps) \in Nat
      BY <3>1 DEF StepSeq
    <3>3. QED BY <2>1, <3>2 DEF StreamFine, Running
  <2>3. last = Len(str[s].steps)
    BY <2>2
  <2>4. str' = [str EXCEPT ![s].tool = FALSE, ![s].steps[last] = "settled"]
    BY <1>10 DEF ToolSettles
  <2> HIDE DEF last
  <2>5. str' = [str EXCEPT ![s] = [str[s] EXCEPT !.tool = FALSE,
                              !.steps = [str[s].steps EXCEPT ![Len(str[s].steps)] = "settled"]]]
    BY <1>0, <2>3, <2>4 DEF StreamRecords
  <2>6. QED BY <1>2, <2>1, <2>5, ToolsFine
<1>11. QED BY <1>4, <1>5, <1>6, <1>7, <1>8, <1>9, <1>10, StreamShape DEF IInv
-----------------------------------------------------------------------------
(* The page at rest, before anything is asked. *)
LEMMA InitInv == Init => IInv /\ AwayInv /\ CalmInv
<1> SUFFICES ASSUME Init PROVE IInv /\ AwayInv /\ CalmInv
  OBVIOUS
<1>1. Under = {} /\ Waiting = {}
  BY ClosedType DEF Init, Under, Waiting
<1>2. str \in [Streams -> StreamRecords] /\ \A s \in Streams : str[s] = Closed
  BY ClosedType DEF Init
<1>3. TypeOK
  <2>1. \A s \in Streams : Len(str[s].steps) <= MaxSteps
    BY <1>2, ClosedType, ChatAssumption
  <2>2. del \in [id : Convs \union {None}, conv : Convs \union {None}, streaming : BOOLEAN]
    BY DEF Init, NoDelete
  <2>3. QED BY <1>2, <2>1, <2>2 DEF Init, TypeOK, StreamRecords, StepSeq
<1>4. StepsInv
  BY <1>2, ClosedType DEF StepsInv
<1>5. FlagInv
  BY <1>1 DEF Init, FlagInv
<1>6. AwayInv
  BY <1>1 DEF Init, AwayInv
<1>7. CalmInv
  BY <1>1, <1>2, ClosedType DEF Init, CalmInv, ShownInv, NoDelete
<1>8. QED BY <1>3, <1>4, <1>5, <1>6, <1>7 DEF IInv

(* Storing a conversation leaves every row of a known kind. *)
LEMMA StoredType ==
  ASSUME db \in [Convs -> {"free", "live", "deleted"}], NEW c
  PROVE  Stored(c) \in [Convs -> {"free", "live", "deleted"}]
BY DEF Stored

(* What the page shows and asks for keeps its types. *)
LEMMA TypeStep == ASSUME IInv, [Next]_vars PROVE TypeOK'
<1>0. StreamsTyped'
  BY StreamsStep
<1>1. /\ page \in {"other", "chat"} /\ launcher \in {"closed", "open", "query"}
      /\ conv \in Convs \union {None} /\ url \in Convs \union {None} /\ shown \subseteq Convs
      /\ isStreaming \in BOOLEAN /\ isRestoring \in BOOLEAN /\ raced \in BOOLEAN
      /\ abortRef \in Streams \union {None}
      /\ get \in [Gets -> Convs \union {None}]
      /\ del \in [id : Convs \union {None}, conv : Convs \union {None}, streaming : BOOLEAN]
      /\ db \in [Convs -> {"free", "live", "deleted"}]
      /\ \A s \in Streams : str[s].to \in Convs \union {None}
  BY DEF IInv, TypeOK
<1>2. ASSUME NEW b, StopIf(b)
      PROVE  /\ isStreaming' \in BOOLEAN /\ abortRef' \in Streams \union {None}
             /\ db' \in [Convs -> {"free", "live", "deleted"}]
  <2>1. TypeOK
    BY DEF IInv
  <2>2. QED BY <1>1, <1>2, <2>1, StopShape, StoredType
<1>3. ASSUME NEW s \in Streams, Begin(s)
      PROVE  /\ isStreaming' \in BOOLEAN /\ abortRef' \in Streams \union {None} /\ shown' \subseteq Convs
  <2>1. TypeOK
    BY DEF IInv
  <2>2. QED BY <1>1, <1>3, <2>1, BeginShape
<1>4. ASSUME Ghost PROVE raced' \in BOOLEAN
  BY <1>4 DEF Ghost
<1> DEFINE Rest == /\ page' \in {"other", "chat"} /\ launcher' \in {"closed", "open", "query"}
                   /\ conv' \in Convs \union {None} /\ url' \in Convs \union {None} /\ shown' \subseteq Convs
                   /\ isStreaming' \in BOOLEAN /\ isRestoring' \in BOOLEAN /\ raced' \in BOOLEAN
                   /\ abortRef' \in Streams \union {None}
                   /\ get' \in [Gets -> Convs \union {None}]
                   /\ del' \in [id : Convs \union {None}, conv : Convs \union {None}, streaming : BOOLEAN]
                   /\ db' \in [Convs -> {"free", "live", "deleted"}]
<1>5. SUFFICES Rest
  BY <1>0 DEF TypeOK, StreamsTyped, StreamRecords, StepSeq
<1>6. CASE stop
  BY <1>1, <1>2, <1>4, <1>6 DEF stop, StopIf
<1>7. CASE handleNewConversation
  BY <1>1, <1>2, <1>4, <1>7 DEF handleNewConversation, NewEffect
<1>8. CASE DeleteAnswered
  <2>1. db' \in [Convs -> {"free", "live", "deleted"}]
    BY <1>1, <1>8 DEF DeleteAnswered
  <2>2. isStreaming' \in BOOLEAN /\ abortRef' \in Streams \union {None}
    BY <1>1, <1>8 DEF DeleteAnswered, Finally, view
  <2>3. del' \in [id : Convs \union {None}, conv : Convs \union {None}, streaming : BOOLEAN]
    BY <1>8 DEF DeleteAnswered, NoDelete
  <2>4. QED BY <1>1, <1>4, <1>8, <2>1, <2>2, <2>3 DEF DeleteAnswered, view
<1>9. CASE DeleteFails \/ Launcher
  <2>1. NoDelete \in [id : Convs \union {None}, conv : Convs \union {None}, streaming : BOOLEAN]
    BY DEF NoDelete
  <2>2. launcher' \in {"closed", "open", "query"}
    BY <1>1, <1>9 DEF DeleteFails, Launcher
  <2>3. QED BY <1>1, <1>4, <1>9, <2>1, <2>2 DEF DeleteFails, Launcher, view
<1>10. CASE Leave
  <2>1. \A c \in Convs : Stored(c)[c] \in {"free", "live", "deleted"}
    BY <1>1, StoredType
  <2>2. db' \in [Convs -> {"free", "live", "deleted"}]
    BY <1>1, <1>10, <2>1 DEF Leave
  <2>3. del' \in [id : Convs \union {None}, conv : Convs \union {None}, streaming : BOOLEAN]
    BY <1>10 DEF Leave, NoDelete
  <2>4. QED BY <1>1, <1>4, <1>10, <2>2, <2>3 DEF Leave
<1>11. ASSUME NEW s \in Streams, send(s) \/ goToChat(s) PROVE Rest
  BY <1>1, <1>3, <1>4, <1>11 DEF send, goToChat
<1>12. ASSUME NEW s \in Streams, StreamStep(s) PROVE Rest
  <2>1. CASE ConversationId(s)
    <3>1. Stored(str[s].to) \in [Convs -> {"free", "live", "deleted"}]
      BY <1>1, StoredType
    <3>2. conv' \in Convs \union {None} /\ url' \in Convs \union {None}
      BY <1>1, <2>1 DEF ConversationId
    <3>3. QED BY <1>1, <1>4, <2>1, <3>1, <3>2 DEF ConversationId
  <2>2. CASE ToolStarts(s) \/ ToolSettles(s)
    BY <1>1, <1>4, <2>2 DEF ToolStarts, ToolSettles, view
  <2>3. CASE DoneEvent(s)
    BY <1>1, <1>4, <2>3 DEF DoneEvent
  <2>4. CASE StreamEnd(s)
    BY <1>1, <1>4, <2>4 DEF StreamEnd, Finally
  <2>5. CASE StreamRefused(s)
    <3>1. Stored(str[s].to) \in [Convs -> {"free", "live", "deleted"}]
      BY <1>1, StoredType
    <3>2. shown' \subseteq Convs /\ db' \in [Convs -> {"free", "live", "deleted"}]
      BY <1>1, <2>5, <3>1 DEF StreamRefused
    <3>3. QED BY <1>1, <1>4, <2>5, <3>2 DEF StreamRefused, Finally
  <2>6. QED BY <1>12, <2>1, <2>2, <2>3, <2>4, <2>5 DEF StreamStep
<1>13. ASSUME NEW c \in Convs, handleDelete(c) PROVE Rest
  BY <1>1, <1>4, <1>13 DEF handleDelete, view
<1>14. ASSUME NEW g \in Gets, Selected(g) PROVE Rest
  BY <1>1, <1>4, <1>14 DEF Selected
<1>15. ASSUME NEW g \in Gets, NEW c \in Convs, handleSelectConversation(g, c) PROVE Rest
  BY <1>1, <1>2, <1>4, <1>15 DEF handleSelectConversation
<1>16. ASSUME NEW g \in Gets, NEW c \in Convs, OpenConversation(g, c) PROVE Rest
  BY <1>1, <1>4, <1>16 DEF OpenConversation
<1>17. CASE UNCHANGED vars
  BY <1>1, <1>17 DEF vars, view
<1> HIDE DEF Rest
<1>18. QED BY <1>6, <1>7, <1>8, <1>9, <1>10, <1>11, <1>12, <1>13, <1>14, <1>15, <1>16, <1>17 DEF Next
(* A step closes a stream, starts one, or leaves it where it was stored. *)
LEMMA StreamFields ==
  ASSUME TypeOK, [Next]_vars, NEW t \in Streams
  PROVE  \/ str'[t] = Closed \/ str'[t] = Ended(t)
         \/ str[t].pc \in {"idle", "cut"} /\ str'[t].pc = "sent" /\ str'[t].to \in Convs
         \/ /\ str'[t].to = str[t].to /\ str'[t].new = str[t].new
            /\ \/ str'[t].pc = str[t].pc
               \/ str[t].pc = "sent" /\ str'[t].pc = "open"
               \/ str[t].pc = "open" /\ str'[t].pc = "done"
<1>0. str \in [Streams -> StreamRecords]
  BY DEF TypeOK, StreamRecords, StepSeq
<1> DEFINE Fine == \/ str'[t] = Closed \/ str'[t] = Ended(t)
                   \/ str[t].pc \in {"idle", "cut"} /\ str'[t].pc = "sent" /\ str'[t].to \in Convs
                   \/ /\ str'[t].to = str[t].to /\ str'[t].new = str[t].new
                      /\ \/ str'[t].pc = str[t].pc
                         \/ str[t].pc = "sent" /\ str'[t].pc = "open"
                         \/ str[t].pc = "open" /\ str'[t].pc = "done"
<1>1. ASSUME NEW s \in Streams, ToolStarts(s) \/ ToolSettles(s) PROVE Fine
  BY <1>0, <1>1 DEF ToolStarts, ToolSettles, StreamRecords
<1>2. ASSUME NEW s \in Streams, StreamStarts(s) PROVE Fine
  BY <1>0, <1>2 DEF StreamStarts
<1>3. ASSUME NEW s \in Streams, StreamOpens(s) \/ StreamDone(s) \/ StreamCloses(s) PROVE Fine
  BY <1>0, <1>3 DEF StreamOpens, StreamDone, StreamCloses, StreamRecords
<1>4. CASE str' = str \/ str' = [s \in Streams |-> Closed]
  BY <1>4
<1>5. Fine
  <2>1. CASE str' = str \/ str' = [s \in Streams |-> Closed]
    BY <1>4, <2>1
  <2>2. CASE \E s \in Streams : \/ StreamStarts(s) \/ StreamOpens(s) \/ StreamDone(s) \/ StreamCloses(s)
                               \/ ToolStarts(s) \/ ToolSettles(s)
    <3>1. PICK s \in Streams : \/ StreamStarts(s) \/ StreamOpens(s) \/ StreamDone(s) \/ StreamCloses(s)
                               \/ ToolStarts(s) \/ ToolSettles(s)
      BY <2>2
    <3> HIDE DEF Fine
    <3>2. QED BY <1>1, <1>2, <1>3, <3>1
  <2>3. QED BY <2>1, <2>2, StreamShape
<1>6. QED BY <1>5 DEF Fine

(* The flags go on telling the truth. *)
LEMMA FlagStep == ASSUME IInv, [Next]_vars PROVE FlagInv'
<1>0. /\ TypeOK /\ FlagInv
      /\ str \in [Streams -> StreamRecords] /\ abortRef \in Streams \union {None}
      /\ get \in [Gets -> Convs \union {None}] /\ None \notin Convs \union Streams
      /\ isStreaming \in BOOLEAN /\ isRestoring \in BOOLEAN
  BY ChatAssumption DEF IInv, TypeOK, StreamRecords, StepSeq
<1>1. \A s \in Streams : str'[s].pc \notin {"idle", "cut"} => str'[s].to \in Convs
  <2>1. SUFFICES ASSUME NEW s \in Streams, str'[s].pc \notin {"idle", "cut"} PROVE str'[s].to \in Convs
    OBVIOUS
  <2>2. str[s].pc \notin {"idle", "cut"} => str[s].to \in Convs
    BY <1>0 DEF FlagInv, Under
  <2>3. QED BY <1>0, <2>1, <2>2, StreamFields, ClosedType, EndedPc
<1> DEFINE Streaming == isStreaming => abortRef \in Streams /\ str[abortRef].pc \in {"sent", "open"}
           Restoring == isRestoring => Waiting # {}
           Deleting  == del # NoDelete => del.id \in Convs
<1>2. Streaming /\ Restoring /\ Deleting
  BY <1>0 DEF FlagInv
<1>3. ASSUME isStreaming' = FALSE PROVE Streaming'
  BY <1>3
<1>4. ASSUME UNCHANGED <<isStreaming, abortRef, str>> PROVE Streaming'
  BY <1>2, <1>4
<1>5. ASSUME UNCHANGED <<isRestoring, get>> PROVE Restoring'
  BY <1>2, <1>5 DEF Waiting
<1>6. ASSUME isRestoring' = FALSE PROVE Restoring'
  BY <1>6
<1>7. ASSUME del' = del \/ del' = NoDelete PROVE Deleting'
  BY <1>2, <1>7
<1>8. ASSUME NEW b, StopIf(b) PROVE Streaming'
  BY <1>0, <1>2, <1>8, StopShape
<1>9. ASSUME NEW s \in Streams, Begin(s) PROVE Streaming'
  <2>1. abortRef' = s /\ str'[s].pc = "sent"
    <3>1. PICK c \in Convs : str' = [str EXCEPT ![s] = [pc |-> "sent", to |-> c, new |-> conv = None,
                                                        tool |-> FALSE, steps |-> <<>>]]
      BY <1>0, <1>9, BeginShape
    <3>2. QED BY <1>0, <1>9, <3>1 DEF Begin
  <2>2. QED BY <2>1
<1>10. ASSUME NEW g \in Gets, NEW c \in Convs, get' = [get EXCEPT ![g] = c] PROVE Restoring'
  BY <1>0, <1>10 DEF Waiting
<1>11. ASSUME NEW s \in Streams, UNCHANGED <<isStreaming, abortRef>>,
              \A t \in Streams : str[t].pc \in {"sent", "open"} => str'[t].pc \in {"sent", "open"}
       PROVE  Streaming'
  BY <1>2, <1>11
<1> SUFFICES Streaming' /\ Restoring' /\ Deleting'
  BY <1>1 DEF FlagInv, Under
<1> HIDE DEF Streaming, Restoring, Deleting
<1>12. CASE stop
  BY <1>5, <1>7, <1>8, <1>12 DEF stop, StopIf
<1>13. CASE handleNewConversation
  BY <1>5, <1>7, <1>8, <1>13 DEF handleNewConversation, NewEffect
<1>14. CASE DeleteAnswered
  <2>1. Restoring' /\ Deleting'
    BY <1>5, <1>7, <1>14 DEF DeleteAnswered, view
  <2>2. \/ isStreaming' = FALSE
        \/ UNCHANGED <<isStreaming, abortRef, str>>
    BY <1>0, <1>14 DEF DeleteAnswered, view, Finally
  <2>3. QED BY <1>3, <1>4, <2>1, <2>2
<1>15. CASE DeleteFails \/ Launcher
  BY <1>4, <1>5, <1>7, <1>15 DEF DeleteFails, Launcher, view
<1>16. CASE Leave
  BY <1>3, <1>6, <1>7, <1>16 DEF Leave
<1>17. ASSUME NEW s \in Streams, send(s) \/ goToChat(s) PROVE Streaming' /\ Restoring' /\ Deleting'
  BY <1>4, <1>5, <1>7, <1>9, <1>17 DEF send, goToChat
<1>18. ASSUME NEW s \in Streams, StreamStep(s) PROVE Streaming' /\ Restoring' /\ Deleting'
  <2>1. Restoring' /\ Deleting'
    BY <1>5, <1>7, <1>18
    DEF StreamStep, ConversationId, ToolStarts, DoneEvent, StreamEnd, StreamRefused, ToolSettles, view
  <2>2. CASE ConversationId(s) \/ ToolStarts(s) \/ ToolSettles(s)
    <3>1. \A t \in Streams : str[t].pc \in {"sent", "open"} => str'[t].pc \in {"sent", "open"}
      BY <1>0, <2>2 DEF ConversationId, ToolStarts, ToolSettles, StreamRecords
    <3>2. QED BY <1>11, <2>1, <2>2, <3>1 DEF ConversationId, ToolStarts, ToolSettles, view
  <2>3. CASE DoneEvent(s) \/ StreamEnd(s) \/ StreamRefused(s)
    BY <1>3, <2>1, <2>3 DEF DoneEvent, StreamEnd, StreamRefused, Finally
  <2>4. QED BY <1>18, <2>2, <2>3 DEF StreamStep
<1>19. ASSUME NEW c \in Convs, handleDelete(c) PROVE Streaming' /\ Restoring' /\ Deleting'
  <2>1. del'.id = c
    BY <1>19 DEF handleDelete
  <2>2. QED BY <1>4, <1>5, <1>19, <2>1 DEF handleDelete, view, Deleting
<1>20. ASSUME NEW g \in Gets, Selected(g) PROVE Streaming' /\ Restoring' /\ Deleting'
  BY <1>4, <1>6, <1>7, <1>20 DEF Selected
<1>21. ASSUME NEW g \in Gets, NEW c \in Convs, handleSelectConversation(g, c)
       PROVE  Streaming' /\ Restoring' /\ Deleting'
  BY <1>7, <1>8, <1>10, <1>21 DEF handleSelectConversation
<1>22. ASSUME NEW g \in Gets, NEW c \in Convs, OpenConversation(g, c)
       PROVE  Streaming' /\ Restoring' /\ Deleting'
  BY <1>4, <1>7, <1>10, <1>22 DEF OpenConversation
<1>23. CASE UNCHANGED vars
  BY <1>4, <1>5, <1>7, <1>23 DEF vars, view
<1>24. QED BY <1>12, <1>13, <1>14, <1>15, <1>16, <1>17, <1>18, <1>19, <1>20, <1>21, <1>22, <1>23 DEF Next

(* The inductive invariant of the indicators. *)
LEMMA Invariance == Spec => []IInv
<1>1. Init => IInv
  BY InitInv
<1>2. IInv /\ [Next]_vars => IInv'
  BY TypeStep, StreamsStep, FlagStep DEF IInv
<1>3. QED BY <1>1, <1>2, PTL DEF Spec

(* The state of the chat keeps its types; no answer has more than MaxSteps     *)
(* steps.                                                                      *)
THEOREM TypeCorrect == Spec => []TypeOK
<1>1. IInv => TypeOK
  BY DEF IInv
<1>2. QED BY <1>1, Invariance, PTL

(* A running step is the one a tool works on, and there is one per tool. *)
LEMMA RunningCount ==
  ASSUME IInv, NEW s \in Streams
  PROVE  /\ Cardinality(Running(s)) = IF str[s].tool THEN 1 ELSE 0
         /\ Running(s) # {} => str[s].pc \in {"open", "cut"}
<1>0. str[s] \in StreamRecords
  BY DEF IInv, TypeOK, StreamRecords, StepSeq
<1>1. DOMAIN str[s].steps = 1..Len(str[s].steps) /\ Len(str[s].steps) \in Nat /\ str[s].tool \in BOOLEAN
  BY <1>0 DEF StreamRecords, StepSeq
<1>2. CASE str[s].tool
  <2>1. Running(s) = {Len(str[s].steps)} /\ str[s].pc \in {"open", "cut"}
    BY <1>1, <1>2 DEF Running, IInv, StepsInv
  <2>2. QED BY <1>2, <2>1, FS_Singleton
<1>3. CASE ~str[s].tool
  <2>1. Running(s) = {}
    BY <1>1, <1>3 DEF Running, IInv, StepsInv
  <2>2. QED BY <1>3, <2>1, FS_EmptySet
<1>4. QED BY <1>2, <1>3

(* The Stop button has a stream to stop and the skeleton a load to wait for; a *)
(* step pulses only for a tool that runs, or that ran when its answer was cut  *)
(* off.                                                                        *)
THEOREM IndicatorsStayTrue == Spec => []IndicatorsTrue
<1>1. IInv => IndicatorsTrue
  BY RunningCount DEF IInv, FlagInv, IndicatorsTrue
<1>2. QED BY <1>1, Invariance, PTL
-----------------------------------------------------------------------------
(* A finite set that has not more than one element. *)
LEMMA AtMostOne ==
  ASSUME NEW S, IsFiniteSet(S), ~(Cardinality(S) > 1)
  PROVE  \A x, y \in S : x = y
<1>1. SUFFICES ASSUME NEW x \in S, NEW y \in S, x # y PROVE FALSE
  OBVIOUS
<1>2. IsFiniteSet(S \ {x}) /\ Cardinality(S \ {x}) = Cardinality(S) - 1
  BY FS_RemoveElement
<1>3. Cardinality(S) \in Nat /\ Cardinality(S \ {x}) \in Nat
  BY <1>2, FS_CardinalityType
<1>4. Cardinality(S \ {x}) = 0
  BY <1>2, <1>3
<1>5. S \ {x} = {}
  BY <1>2, <1>4, FS_EmptySet
<1>6. QED BY <1>1, <1>5

(* Every step of the page is recorded in the ghost. *)
LEMMA NextGhost == Next => Ghost
BY DEF Next, stop, handleNewConversation, DeleteAnswered, DeleteFails, Launcher, Leave, send, goToChat,
       StreamStep, ConversationId, ToolStarts, DoneEvent, StreamEnd, StreamRefused, ToolSettles,
       handleDelete, Selected, handleSelectConversation, OpenConversation

(* What it means that a step of the open page has raced with nothing. *)
LEMMA CalmGhost ==
  ASSUME Next, ~raced', page' = "chat"
  PROVE  /\ ~raced
         /\ \A s, t \in Under' : s = t
         /\ \A g, h \in Waiting' : g = h
         /\ Under' # {} => del'.id = None
         /\ \A s \in Streams : str[s].pc = "sent" /\ str[s].new /\ str'[s].pc = "idle" =>
              db'[str[s].to] = "free"
<1>1. Ghost
  BY NextGhost
<1>2. /\ ~raced /\ ~(Cardinality(Under') > 1) /\ ~(Cardinality(Waiting') > 1)
      /\ ~(del'.id # None /\ Under' # {})
      /\ \A s \in Streams : ~(/\ str[s].pc = "sent" /\ str[s].new /\ str'[s].pc = "idle"
                              /\ db'[str[s].to] # "free")
  BY <1>1 DEF Ghost
<1>3. IsFiniteSet(Under') /\ IsFiniteSet(Waiting')
  BY ChatAssumption, FS_Subset DEF Under, Waiting
<1>4. QED BY <1>2, <1>3, AtMostOne

(* Away from the page nothing of it is under way. *)
LEMMA AwayStep == ASSUME IInv, AwayInv, [Next]_vars PROVE AwayInv'
<1>1. SUFFICES ASSUME page' = "other" PROVE AwayInv'
  BY DEF AwayInv
<1>2. CASE Leave
  BY <1>2, ClosedType DEF Leave, AwayInv, Under, Waiting
<1>3. CASE Launcher \/ UNCHANGED vars
  BY <1>3 DEF Launcher, vars, view, AwayInv, Under, Waiting
<1>4. CASE Next /\ ~Leave /\ ~Launcher
  <2>1. page = "other"
    BY <1>1, <1>4
    DEF Next, stop, handleNewConversation, DeleteAnswered, DeleteFails, send, goToChat,
        StreamStep, ConversationId, ToolStarts, DoneEvent, StreamEnd, StreamRefused, ToolSettles,
        handleDelete, Selected, handleSelectConversation, OpenConversation
  <2>2. /\ \A s \in Streams : str[s].pc \in {"idle", "cut"}
        /\ \A g \in Gets : get[g] = None
        /\ del = NoDelete
    BY <2>1 DEF AwayInv, Under, Waiting
  <2>3. ASSUME NEW s \in Streams PROVE ~StreamStep(s)
    BY <2>2 DEF StreamStep, ConversationId, ToolStarts, DoneEvent, StreamEnd, StreamRefused, ToolSettles
  <2>4. QED BY <1>1, <1>4, <2>1, <2>2, <2>3
       DEF Next, stop, handleNewConversation, DeleteAnswered, DeleteFails, send, goToChat, ChatInput,
           Composer, handleDelete, Selected, handleSelectConversation, OpenConversation, Offered
<1>5. QED BY <1>2, <1>3, <1>4

(* A stream that was only sent ends without a step. *)
LEMMA SentEnds == ASSUME IInv, NEW s \in Streams, str[s].pc = "sent" PROVE Ended(s) = Closed
<1>1. StreamFine(str[s])
  BY FineIs DEF IInv, TypeOK, StreamsTyped, StreamRecords, StepSeq
<1>2. QED BY <1>1, EndedFine

(* The part of CalmInv that the ghost does not state. *)
Calm ==
  /\ Waiting # {} => isRestoring
  /\ conv # None => shown = {conv} /\ url = conv
  /\ conv = None /\ (\A s \in Streams : str[s].pc \notin {"sent", "open"}) => shown = {}
  /\ ShownInv

(* The step of the open page that raced with nothing. *)
LEMMA CalmStep ==
  ASSUME IInv, AwayInv, CalmInv, Next, ~raced', page' = "chat"
  PROVE  Calm'
<1>0. /\ TypeOK /\ FlagInv
      /\ str \in [Streams -> StreamRecords] /\ abortRef \in Streams \union {None}
      /\ get \in [Gets -> Convs \union {None}] /\ None \notin Convs \union Streams
      /\ isStreaming \in BOOLEAN /\ isRestoring \in BOOLEAN
      /\ db \in [Convs -> {"free", "live", "deleted"}]
  BY ChatAssumption DEF IInv, TypeOK, StreamRecords, StepSeq
<1>1. /\ ~raced
      /\ \A s, t \in Streams : str'[s].pc \notin {"idle", "cut"} /\ str'[t].pc \notin {"idle", "cut"} => s = t
      /\ \A s \in Streams : str[s].pc = "sent" /\ str[s].new /\ str'[s].pc = "idle" =>
           db'[str[s].to] = "free"
  BY CalmGhost DEF Under
<1>2. /\ \A s, t \in Streams : str[s].pc \notin {"idle", "cut"} /\ str[t].pc \notin {"idle", "cut"} => s = t
      /\ \A g, h \in Gets : get[g] # None /\ get[h] # None => g = h
      /\ \A s \in Streams : str[s].pc \notin {"idle", "cut"} => del.id = None
      /\ Calm
  BY <1>1 DEF CalmInv, Calm, Under, Waiting
<1>3. \A s \in Streams : str[s].pc \notin {"idle", "cut"} => str[s].to \in Convs
  BY <1>0 DEF FlagInv, Under
<1>4. page = "other" => /\ conv = None /\ shown = {} /\ ~isRestoring /\ Waiting = {} /\ del = NoDelete
                        /\ \A s \in Streams : str[s].pc \in {"idle", "cut"}
  BY DEF AwayInv, Under
<1> DEFINE Still == \A s \in Streams : str'[s].pc \notin {"sent", "open"}
<1>5. ASSUME StopIf(isStreaming) PROVE Still /\ (conv = None => shown = {})
  <2>1. CASE ~isStreaming
    <3>1. \A s \in Streams : str[s].pc \notin {"sent", "open"}
      BY <1>2, <2>1 DEF Calm, ShownInv
    <3>2. str' = str
      BY <1>5, <2>1 DEF StopIf, NoStop
    <3>3. QED BY <1>2, <3>1, <3>2 DEF Calm
  <2>2. CASE isStreaming
    <3>1. abortRef \in Streams /\ str[abortRef].pc \in {"sent", "open"}
      BY <1>0, <2>2 DEF FlagInv
    <3>2. str' = [str EXCEPT ![abortRef] = Ended(abortRef)] /\ db' = Stored(str[abortRef].to)
      BY <1>0, <1>5, <2>2, <3>1 DEF StopIf, StopEffect, Finally
    <3>3. /\ str'[abortRef].pc \in {"idle", "cut"}
          /\ str[abortRef].pc = "sent" => str'[abortRef].pc = "idle"
      BY <1>0, <3>1, <3>2, ClosedType, EndedPc, SentEnds
    <3>4. \A s \in Streams \ {abortRef} : str'[s] = str[s] /\ str[s].pc \in {"idle", "cut"}
      BY <1>0, <1>2, <3>1, <3>2
    <3>5. Still
      BY <3>3, <3>4
    <3>6. str[abortRef].to \in Convs
      BY <1>3, <3>1
    <3>7. ~(str[abortRef].pc = "sent" /\ str[abortRef].new)
      <4>1. SUFFICES ASSUME str[abortRef].pc = "sent", str[abortRef].new PROVE FALSE
        OBVIOUS
      <4>2. db'[str[abortRef].to] # "free"
        BY <1>0, <3>2, <3>6 DEF Stored
      <4>3. QED BY <1>1, <3>1, <3>3, <4>1, <4>2
    <3>8. conv # None
      BY <1>0, <1>2, <3>1, <3>6, <3>7 DEF Calm, ShownInv
    <3>9. QED BY <3>5, <3>8
  <2>3. QED BY <1>0, <2>1, <2>2
<1>6. ASSUME NEW s \in Streams, Begin(s), Waiting = {}, UNCHANGED <<conv, url, get, db, isRestoring>>
      PROVE  Calm'
  <2>1. PICK c \in Convs : /\ conv = None => c \in Fresh
                           /\ conv # None => c = conv
                           /\ str' = [str EXCEPT ![s] = [pc |-> "sent", to |-> c, new |-> conv = None,
                                                         tool |-> FALSE, steps |-> <<>>]]
                           /\ shown' = shown \union {c}
    BY <1>0, <1>6, BeginShape
  <2>2. str'[s].pc = "sent" /\ str'[s].to = c /\ (str'[s].new <=> conv = None)
        /\ isStreaming' = TRUE /\ abortRef' = s /\ str[s].pc \in {"idle", "cut"}
    BY <1>0, <1>6, <2>1, BeginShape DEF Begin
  <2>3. \A t \in Streams \ {s} : str'[t] = str[t] /\ str[t].pc \in {"idle", "cut"}
    BY <1>0, <1>1, <2>1, <2>2
  <2>4. conv = None => shown = {}
    BY <1>2, <2>2, <2>3 DEF Calm
  <2>5. shown' = {c} /\ Waiting' = {} /\ (conv = None => db[c] = "free")
    BY <1>2, <1>6, <2>1, <2>4 DEF Calm, Fresh, Waiting
  <2>6. ShownInv'
    BY <1>0, <1>6, <2>1, <2>2, <2>3, <2>5 DEF ShownInv
  <2>7. QED BY <1>2, <1>6, <2>1, <2>2, <2>5, <2>6 DEF Calm
<1>7. ASSUME Still, UNCHANGED <<conv, url, shown, isRestoring, get>>, conv = None => shown = {}
      PROVE  Calm'
  BY <1>2, <1>7 DEF Calm, ShownInv, Waiting
<1>8. ASSUME UNCHANGED <<view, get, db>>,
             \A s \in Streams : str'[s].pc = str[s].pc /\ str'[s].to = str[s].to /\ str'[s].new = str[s].new
      PROVE  Calm'
  BY <1>2, <1>8 DEF Calm, ShownInv, Waiting, view
<1>9. CASE stop
  BY <1>5, <1>7, <1>9 DEF stop, ChatInput, StopIf
<1>10. CASE handleNewConversation
  <2>1. Still /\ conv' = None /\ shown' = {} /\ UNCHANGED <<isRestoring, get>>
    BY <1>5, <1>10 DEF handleNewConversation, NewEffect
  <2>2. QED BY <1>2, <2>1 DEF Calm, ShownInv, Waiting
<1>11. CASE DeleteAnswered
  <2>1. del.id # None
    BY <1>0, <1>11 DEF DeleteAnswered, FlagInv
  <2>2. \A s \in Streams : str[s].pc \in {"idle", "cut"}
    BY <1>2, <2>1
  <2>3. Still
    BY <1>0, <1>11, <2>2, EndedPc DEF DeleteAnswered, Finally
  <2>4. CASE UNCHANGED view
    BY <1>2, <1>7, <1>11, <2>2, <2>3, <2>4 DEF DeleteAnswered, view, Calm
  <2>5. CASE conv' = None /\ shown' = {} /\ UNCHANGED isRestoring
    BY <1>2, <1>11, <2>3, <2>5 DEF DeleteAnswered, Calm, ShownInv, Waiting
  <2>6. QED BY <1>11, <2>4, <2>5 DEF DeleteAnswered
<1>12. CASE DeleteFails \/ Launcher
  BY <1>8, <1>12 DEF DeleteFails, Launcher
<1>13. CASE Leave
  BY <1>13 DEF Leave
<1>14. ASSUME NEW s \in Streams, send(s) PROVE Calm'
  <2>1. Waiting = {}
    BY <1>2, <1>14 DEF send, ChatInput, Composer, Calm
  <2>2. QED BY <1>6, <1>14, <2>1 DEF send
<1>15. ASSUME NEW s \in Streams, goToChat(s) PROVE Calm'
  BY <1>4, <1>6, <1>8, <1>15 DEF goToChat, view
<1>16. ASSUME NEW s \in Streams, StreamStep(s) PROVE Calm'
  <2>1. \A t \in Streams \ {s} : str[t].pc \in {"idle", "cut"}
    BY <1>2, <1>16
    DEF StreamStep, ConversationId, ToolStarts, DoneEvent, StreamEnd, StreamRefused, ToolSettles
  <2>2. CASE ConversationId(s)
    <3>1. /\ str'[s].pc = "open" /\ str'[s].to = str[s].to /\ str[s].pc = "sent"
          /\ \A t \in Streams \ {s} : str'[t] = str[t]
      BY <1>0, <2>2 DEF ConversationId, StreamRecords
    <3>2. str[s].to \in Convs /\ shown = {str[s].to} /\ Waiting = {} /\ isStreaming /\ abortRef = s
      BY <1>2, <1>3, <3>1 DEF Calm, ShownInv
    <3>3. conv' = str[s].to /\ url' = str[s].to /\ UNCHANGED <<shown, isStreaming, abortRef, isRestoring, get>>
      BY <2>2 DEF ConversationId
    <3>4. Waiting' = {}
      BY <3>2, <3>3 DEF Waiting
    <3>5. ShownInv'
      BY <2>1, <3>1, <3>2, <3>3, <3>4 DEF ShownInv
    <3>6. QED BY <1>0, <3>2, <3>3, <3>4, <3>5 DEF Calm
  <2>3. CASE ToolStarts(s) \/ ToolSettles(s)
    <3>1. \A t \in Streams : str'[t].pc = str[t].pc /\ str'[t].to = str[t].to /\ str'[t].new = str[t].new
      BY <1>0, <2>3 DEF ToolStarts, ToolSettles, StreamRecords
    <3>2. QED BY <1>8, <2>3, <3>1 DEF ToolStarts, ToolSettles
  <2>4. CASE DoneEvent(s)
    <3>1. Still
      BY <1>0, <2>1, <2>4 DEF DoneEvent, StreamRecords
    <3>2. conv # None
      BY <1>0, <1>2, <1>3, <2>4 DEF DoneEvent, Calm, ShownInv
    <3>3. QED BY <1>7, <2>4, <3>1, <3>2 DEF DoneEvent
  <2>5. CASE StreamEnd(s)
    <3>1. Still
      BY <1>0, <2>1, <2>5, EndedPc DEF StreamEnd, Finally
    <3>2. str[s].pc = "open" => conv # None
      BY <1>0, <1>2, <1>3 DEF Calm, ShownInv
    <3>3. str[s].pc = "done" /\ conv = None => shown = {}
      BY <1>2, <2>1 DEF Calm
    <3>4. QED BY <1>7, <2>5, <3>1, <3>2, <3>3 DEF StreamEnd
  <2>6. CASE StreamRefused(s)
    <3>1. str[s].pc = "sent" /\ str' = [str EXCEPT ![s] = Closed] /\ str'[s].pc = "idle"
      BY <1>0, <2>6, SentEnds, ClosedType DEF StreamRefused, Finally
    <3>2. Still
      BY <1>0, <2>1, <3>1
    <3>3. str[s].to \in Convs /\ shown = {str[s].to}
      BY <1>2, <1>3, <3>1 DEF Calm, ShownInv
    <3>4. CASE ~str[s].new
      <4>1. conv # None
        BY <1>0, <1>2, <3>1, <3>3, <3>4 DEF Calm, ShownInv
      <4>2. QED BY <1>7, <2>6, <3>2, <3>4, <4>1 DEF StreamRefused
    <3>5. CASE str[s].new
      <4>1. db' # Stored(str[s].to)
        BY <1>0, <1>1, <3>1, <3>3, <3>5 DEF Stored
      <4>2. shown' = {} /\ UNCHANGED <<conv, isRestoring, get>>
        BY <2>6, <3>3, <3>5, <4>1 DEF StreamRefused
      <4>3. conv = None
        BY <1>2, <3>1, <3>5 DEF Calm, ShownInv
      <4>4. QED BY <1>2, <3>2, <4>2, <4>3 DEF Calm, ShownInv, Waiting
    <3>6. QED BY <3>4, <3>5
  <2>7. QED BY <1>16, <2>2, <2>3, <2>4, <2>5, <2>6 DEF StreamStep
<1>17. ASSUME NEW c \in Convs, handleDelete(c) PROVE Calm'
  BY <1>8, <1>17 DEF handleDelete
<1>18. ASSUME NEW g \in Gets, Selected(g) PROVE Calm'
  <2>1. Waiting' = {}
    BY <1>0, <1>2, <1>18 DEF Selected, Waiting
  <2>2. get[g] # None /\ str' = str /\ get[g] \in Convs
    BY <1>0, <1>18 DEF Selected
  <2>3. \A s \in Streams : str[s].pc \notin {"sent", "open"}
    BY <1>2, <2>2 DEF Calm, ShownInv, Waiting
  <2>4. CASE conv' = get[g] /\ url' = get[g] /\ shown' = {get[g]}
    BY <1>0, <2>1, <2>2, <2>3, <2>4 DEF Calm, ShownInv
  <2>5. CASE UNCHANGED <<conv, url, shown>>
    BY <1>2, <2>1, <2>2, <2>3, <2>5 DEF Calm, ShownInv
  <2>6. QED BY <1>18, <2>4, <2>5 DEF Selected
<1>19. ASSUME NEW g \in Gets, NEW c \in Convs, handleSelectConversation(g, c) PROVE Calm'
  <2>1. Still /\ (conv = None => shown = {}) /\ UNCHANGED <<conv, url, shown>> /\ isRestoring' = TRUE
    BY <1>5, <1>19 DEF handleSelectConversation
  <2>2. QED BY <1>2, <2>1 DEF Calm, ShownInv
<1>20. ASSUME NEW g \in Gets, NEW c \in Convs, OpenConversation(g, c) PROVE Calm'
  <2>1. Still /\ conv' = None /\ shown' = {} /\ isRestoring' = TRUE
    BY <1>4, <1>20 DEF OpenConversation
  <2>2. QED BY <2>1 DEF Calm, ShownInv
<1>21. QED BY <1>9, <1>10, <1>11, <1>12, <1>13, <1>14, <1>15, <1>16, <1>17, <1>18, <1>19, <1>20 DEF Next

(* The messages on screen are those of one conversation, the one the next      *)
(* message goes to, as long as nothing on the page has overlapped.             *)
THEOREM ConversationsStayApart == Spec => []OneConversation
<1>1. Init => AwayInv /\ CalmInv
  BY InitInv
<1>2. ASSUME IInv, AwayInv, CalmInv, [Next]_vars PROVE AwayInv' /\ CalmInv'
  <2>1. AwayInv'
    BY <1>2, AwayStep
  <2>2. CASE UNCHANGED vars
    BY <1>2, <2>1, <2>2 DEF CalmInv, ShownInv, vars, view, Under, Waiting
  <2>3. CASE Next
    <3>1. SUFFICES ASSUME ~raced' PROVE CalmInv'
      BY <2>1 DEF CalmInv
    <3>2. CASE page' = "chat"
      BY <1>2, <2>3, <3>1, <3>2, CalmGhost, CalmStep DEF CalmInv, Calm
    <3>3. CASE page' = "other"
      BY <2>1, <3>3 DEF AwayInv, CalmInv, ShownInv, Under, NoDelete
    <3>4. page' \in {"other", "chat"}
      BY <1>2, TypeStep DEF TypeOK
    <3>5. QED BY <3>2, <3>3, <3>4
  <2>4. QED BY <1>2, <2>1, <2>2, <2>3
<1>3. ASSUME IInv, CalmInv PROVE OneConversation
  <2>1. SUFFICES ASSUME ~raced PROVE Cardinality(shown) <= 1 /\ (conv # None => shown = {conv} /\ url = conv)
    BY DEF OneConversation
  <2>2. \E x : shown \subseteq {x}
    BY <1>3, <2>1 DEF CalmInv, ShownInv
  <2>3. Cardinality(shown) <= 1
    BY <2>2, FS_Singleton, FS_EmptySet
  <2>4. QED BY <1>3, <2>1, <2>3 DEF CalmInv
<1>4. QED BY <1>1, <1>2, <1>3, Invariance, PTL DEF Spec
=============================================================================
