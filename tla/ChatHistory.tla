---------------------------- MODULE ChatHistory ----------------------------
(* The stored messages of one conversation: what Chat writes for each turn,    *)
(* what loadHistory hands the model, and what reconstructMessages shows when   *)
(* the conversation is opened again.  Two turns may be saved at the same time: *)
(* the client is free for the next message as soon as done arrives, before the *)
(* rows of the turn are written.                                               *)
EXTENDS Naturals, Sequences, SequencesExt

CONSTANTS
  Turns,    \* turns of the conversation
  Window    \* the limit of loadHistory, 50 in the code

VARIABLE ui   \* the conversation, as the chat page and the agentic service share it

rows == ui.rows   \* conversation_messages in the order of created_at
todo == ui.todo   \* for each turn the rows it has still to write

Row(role, call) == [role |-> role, call |-> call]
Text == Row("assistant", 0)
Call(n) == Row("tool_call", n)
(* Mutant: the role of a result is written the way the model's API calls it.   *)
ResultRenamed(n) == Row("tool", n)
Result(n) == Row("tool_result", n)

(* What a run of the agent leaves to save: an answer; a tool call with or      *)
(* without text before it; two calls in one message; an error of the model     *)
(* after the tools ran.  Call ids are unique in the conversation.              *)
Plans(t) ==
  { <<Text>>, <<Text, Call(2 * t), Result(2 * t), Text>>, <<Call(2 * t), Result(2 * t)>>,
    <<Call(2 * t), Call(2 * t + 1), Result(2 * t), Result(2 * t + 1)>> }

Mounts == {[rows |-> <<>>, todo |-> [t \in Turns |-> <<Row("user", 0)>>]]}

(* One insert of Chat.  The error of any insert after the user's message is    *)
(* logged and the row is missing; without the user's row there is no turn.     *)
Save(t) ==
  /\ todo[t] # <<>>
  /\ \E written \in {Append(rows, Head(todo[t]))}
                      \union (IF Head(todo[t]).role = "user" THEN {} ELSE {rows}) :
     \E left \in IF Head(todo[t]).role = "user" THEN Plans(t) ELSE {Tail(todo[t])} :
       ui' = [ui EXCEPT !.rows = written, !.todo[t] = left]

(* Stop cancels the request's context: nothing more of the turn is written.    *)
Cancel(t) == todo[t] # <<>> /\ ui' = [ui EXCEPT !.todo[t] = <<>>]

Next == \E t \in Turns : Save(t) \/ Cancel(t)

-----------------------------------------------------------------------------
(* The elements of s that are in K, in their order.                            *)
Only(s, K) ==
  LET f[n \in 0..Len(s)] ==
        IF n = 0 THEN <<>> ELSE IF s[n] \in K THEN Append(f[n - 1], s[n]) ELSE f[n - 1]
  IN f[Len(s)]

(* loadHistory                                                                 *)

Latest == SubSeq(rows, IF Len(rows) > Window THEN Len(rows) - Window + 1 ELSE 1, Len(rows))

Message(role, text, calls, result) == [role |-> role, text |-> text, calls |-> calls, result |-> result]

(* The first loop: a call joins the assistant message before it, or a new      *)
(* empty one; a result whose call was not seen is skipped.                     *)
Gather(h, row) ==
  CASE row.role \in {"user", "assistant"} ->
         [h EXCEPT !.msgs = Append(@, Message(row.role, TRUE, {}, 0))]
    [] row.role = "tool_call" ->
         LET msgs == IF h.msgs = <<>> \/ Last(h.msgs).role # "assistant"
                     THEN Append(h.msgs, Message("assistant", FALSE, {}, 0)) ELSE h.msgs
         IN [h EXCEPT !.msgs = [msgs EXCEPT ![Len(msgs)].calls = @ \union {row.call}],
                      !.seen = @ \union {row.call}]
    [] row.role = "tool_result" ->
         IF row.call \notin h.seen THEN h
         ELSE [h EXCEPT !.msgs = Append(@, Message("tool_result", FALSE, {}, row.call)),
                        !.answered = @ \union {row.call}]

(* The loop after n rows.                                                      *)
Gathered[n \in 0..Len(Latest)] ==
  IF n = 0 THEN [msgs |-> <<>>, seen |-> {}, answered |-> {}] ELSE Gather(Gathered[n - 1], Latest[n])

(* Mutant: calls without a result stay.                                        *)
StripNothing(msgs, answered) == msgs

StripOrphans(msgs, answered) ==
  [i \in DOMAIN msgs |-> [msgs[i] EXCEPT !.calls = @ \intersect answered]]

(* What is left of the messages: no empty ones, no results without a call.     *)
Keep(msgs) ==
  {m \in ToSet(msgs) :
     /\ ~(m.role = "assistant" /\ ~m.text /\ m.calls = {})
     /\ m.role = "tool_result" => \E i \in DOMAIN msgs : m.result \in msgs[i].calls}

loadHistory ==
  LET h == Gathered[Len(Latest)]
      msgs == StripOrphans(h.msgs, h.answered)
  IN Only(msgs, Keep(msgs))

-----------------------------------------------------------------------------
(* reconstructMessages                                                         *)

Flush(v) == IF v.current = <<>> THEN v.done ELSE Append(v.done, v.current[1])

LastRunning(steps) ==
  LET R == {i \in DOMAIN steps : steps[i].status = "running"}
  IN IF R = {} THEN 0 ELSE CHOOSE i \in R : \A j \in R : j <= i

(* Mutant: a question drops the answer being put together.                     *)
ShowRowDrops(v, n) ==
  IF rows[n].role = "user"
  THEN [done |-> Append(v.done, [row |-> n, steps |-> <<>>]), current |-> <<>>] ELSE v

(* One round of the loop over the rows; current is the assistant message being *)
(* put together, if there is one.                                              *)
ShowRow(v, n) ==
  LET role == rows[n].role
      steps == IF v.current = <<>> THEN <<>> ELSE v.current[1].steps
      With(s) == [v EXCEPT !.current = <<[v.current[1] EXCEPT !.steps = s]>>]
  IN CASE role = "user" ->
            [done |-> Append(Flush(v), [row |-> n, steps |-> <<>>]), current |-> <<>>]
       [] role = "assistant" ->
            [done |-> Flush(v), current |-> <<[row |-> n, steps |-> <<>>]>>]
       [] role = "tool_call" ->
            IF v.current = <<>> THEN v
            ELSE With(Append(steps, [call |-> rows[n].call, status |-> "running"]))
       [] role = "tool_result" ->
            IF LastRunning(steps) = 0 THEN v
            ELSE With([steps EXCEPT ![LastRunning(steps)].status = "done"])

Shown[n \in 0..Len(rows)] ==
  IF n = 0 THEN [done |-> <<>>, current |-> <<>>] ELSE ShowRow(Shown[n - 1], n)

reconstructMessages == Flush(Shown[Len(rows)])

-----------------------------------------------------------------------------
(* Properties.                                                                 *)

(* Every stored row has a role both readers know.                              *)
TypeOK ==
  /\ rows \in Seq([role : {"user", "assistant", "tool_call", "tool_result"}, call : Nat])
  /\ todo \in [Turns -> Seq([role : {"user", "assistant", "tool_call", "tool_result"}, call : Nat])]

(* handler.go: "Every tool_use must have a tool_result and vice versa", and a  *)
(* result comes after its call, for any rows that failed to be written, any    *)
(* interleaving of two turns and any place the window cuts.                    *)
Paired ==
  LET h == loadHistory IN
  /\ \A i \in DOMAIN h : \A c \in h[i].calls :
       \E j \in DOMAIN h : j > i /\ h[j].role = "tool_result" /\ h[j].result = c
  /\ \A j \in DOMAIN h : h[j].role = "tool_result" =>
       \E i \in DOMAIN h : i < j /\ h[j].result \in h[i].calls

(* Opening a conversation again shows every question and every answer that is  *)
(* stored, once, in the order they were stored.                                *)
ShownInOrder ==
  LET v == reconstructMessages
      texts == Only([n \in DOMAIN rows |-> n], {n \in DOMAIN rows : rows[n].role \in {"user", "assistant"}})
  IN [i \in DOMAIN v |-> v[i].row] = texts

=============================================================================
