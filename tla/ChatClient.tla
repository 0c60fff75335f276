----------------------------- MODULE ChatClient -----------------------------
(* The assistant in the browser: useChat (the stream of an answer, Stop), the  *)
(* chat page (selecting, starting and deleting conversations, the restore from *)
(* the URL) and the launcher that opens the page with a prompt.                *)
(*                                                                             *)
(* A turn is known by the conversation it is stored in, so the messages on     *)
(* screen are the set of conversations they come from; for a turn sent without *)
(* an id that is the conversation the service creates for it.  Aborting a      *)
(* stream rejects its pending read at once, so its finally runs with the click.*)
EXTENDS Naturals, Sequences, FiniteSets

CONSTANTS
  Streams,  \* answers that may be under way
  Gets,     \* conversation.get calls that may be under way
  Convs,    \* bound: the conversations of a behaviour
  MaxSteps  \* bound: tool calls of an answer

None == "none"

ASSUME ChatAssumption ==
  /\ None \notin Streams \union Convs
  /\ IsFiniteSet(Streams) /\ IsFiniteSet(Gets)
  /\ MaxSteps \in Nat

VARIABLES
  page,       \* "other" (with the launcher), or "chat"
  launcher,   \* the launcher: closed, open, or open with a query
  conv,       \* conversationId
  url,        \* the conversation parameter of the address
  shown,      \* the conversations the messages on screen belong to
  isStreaming,
  abortRef,   \* the stream Stop would abort
  str,        \* the streams
  get,        \* the conversation.get calls: the id asked for
  isRestoring,
  del,        \* conversation.delete under way: the id and what its closure saw
  db,         \* the conversations: not yet created, stored, or deleted
  raced       \* ghost: see Ghost

view == <<conv, url, shown, isStreaming, abortRef, isRestoring>>
vars == <<page, launcher, view, str, get, del, db, raced>>

Closed == [pc |-> "idle", to |-> None, new |-> FALSE, tool |-> FALSE, steps |-> <<>>]
NoDelete == [id |-> None, conv |-> None, streaming |-> FALSE]
Under == {s \in Streams : str[s].pc \notin {"idle", "cut"}}
Running(s) == {i \in DOMAIN str[s].steps : str[s].steps[i] = "running"}

(* What is left of the stream s: its answer with the steps it has.  One that   *)
(* runs goes on pulsing; settled ones need not be remembered.                  *)
Ended(s) ==
  IF Running(s) = {} THEN Closed
  ELSE [Closed EXCEPT !.pc = "cut", !.tool = str[s].tool, !.steps = str[s].steps]
Waiting == {g \in Gets : get[g] # None}
Fresh == {c \in Convs : db[c] = "free" /\ \A s \in Under : str[s].to # c}
Stored(c) == [db EXCEPT ![c] = IF @ = "free" THEN "live" ELSE @]

TypeOK ==
  /\ page \in {"other", "chat"} /\ launcher \in {"closed", "open", "query"}
  /\ conv \in Convs \union {None} /\ url \in Convs \union {None} /\ shown \subseteq Convs
  /\ isStreaming \in BOOLEAN /\ isRestoring \in BOOLEAN /\ raced \in BOOLEAN
  /\ abortRef \in Streams \union {None}
  /\ get \in [Gets -> Convs \union {None}]
  /\ del \in [id : Convs \union {None}, conv : Convs \union {None}, streaming : BOOLEAN]
  /\ db \in [Convs -> {"free", "live", "deleted"}]
  /\ str \in [Streams -> [pc : {"idle", "sent", "open", "done", "cut"}, to : Convs \union {None},
                           new : BOOLEAN, tool : BOOLEAN, steps : Seq({"running", "settled"})]]
  /\ \A s \in Streams : Len(str[s].steps) <= MaxSteps

Init ==
  /\ page = "other" /\ launcher = "closed"
  /\ conv = None /\ url = None /\ shown = {}
  /\ isStreaming = FALSE /\ abortRef = None /\ isRestoring = FALSE
  /\ str = [s \in Streams |-> Closed] /\ get = [g \in Gets |-> None] /\ del = NoDelete
  /\ db \in [Convs -> {"free", "live"}] /\ raced = FALSE

(* raced records that, since the page was opened, two streams, two             *)
(* conversation.get calls or a delete and a stream have overlapped, or that a  *)
(* stream which created a conversation has ended before it named it.           *)
Ghost ==
  raced' = /\ page' = "chat"
           /\ \/ raced
              \/ Cardinality(Under') > 1 \/ Cardinality(Waiting') > 1
              \/ del'.id # None /\ Under' # {}
              \/ \E s \in Streams : /\ str[s].pc = "sent" /\ str[s].new /\ str'[s].pc = "idle"
                                    /\ db'[str[s].to] # "free"

-----------------------------------------------------------------------------
(* useChat                                                                     *)

(* The turn is on screen before the request leaves; the service stores it in   *)
(* the current conversation or in a new one.                                   *)
Begin(s) ==
  /\ s \notin Under
  /\ \E c \in IF conv = None THEN Fresh ELSE {conv} :
       /\ str' = [str EXCEPT ![s] = [pc |-> "sent", to |-> c, new |-> conv = None,
                                        tool |-> FALSE, steps |-> <<>>]]
       /\ shown' = shown \union {c}
  /\ isStreaming' = TRUE /\ abortRef' = s

(* The messages and the input; the skeleton hides them while one restores.     *)
Composer == page = "chat" /\ ~isRestoring

(* The input sends, or offers Stop while an answer streams.                    *)
ChatInput(streaming) == Composer /\ isStreaming = streaming

(* send, from the input, a suggestion or a quick reply: inert while an answer  *)
(* streams.                                                                    *)
send(s) ==
  /\ ChatInput(FALSE)
  /\ Begin(s)
  /\ UNCHANGED <<page, launcher, conv, url, isRestoring, get, del, db>> /\ Ghost

(* Mutant: the flag stays set when a stream breaks.                            *)
FinallyKeepsFlag(s) ==
  /\ str' = [str EXCEPT ![s] = Ended(s)]
  /\ abortRef' = None /\ UNCHANGED isStreaming

(* finally: whichever stream ends, the flag and the reference are cleared; the *)
(* steps of its answer stay as they are, a running one included.               *)
Finally(s) ==
  /\ str' = [str EXCEPT ![s] = Ended(s)]
  /\ isStreaming' = FALSE /\ abortRef' = None

(* Mutant: an event without an id is taken for one.                            *)
ConversationIdEmpty(s) ==
  /\ str[s].pc = "sent"
  /\ str' = [str EXCEPT ![s].pc = "open"]
  /\ db' = Stored(str[s].to)
  /\ conv' = "" /\ url' = ""
  /\ UNCHANGED <<page, launcher, shown, isStreaming, abortRef, isRestoring, get, del>> /\ Ghost

(* The conversation_id event comes first; the page copies it to the address.   *)
ConversationId(s) ==
  /\ str[s].pc = "sent"
  /\ str' = [str EXCEPT ![s].pc = "open"]
  /\ db' = Stored(str[s].to)
  /\ conv' = str[s].to /\ url' = str[s].to
  /\ UNCHANGED <<page, launcher, shown, isStreaming, abortRef, isRestoring, get, del>> /\ Ghost

(* tool_use with status running: the service runs one tool at a time.          *)
ToolStarts(s) ==
  /\ str[s].pc = "open" /\ ~str[s].tool /\ Len(str[s].steps) < MaxSteps
  /\ str' = [str EXCEPT ![s].tool = TRUE, ![s].steps = Append(@, "running")]
  /\ UNCHANGED <<page, launcher, view, get, del, db>> /\ Ghost

(* Mutant: the search for the running step stops one short of the first.       *)
ToolSettlesLater(s) ==
  /\ str[s].pc = "open" /\ str[s].tool
  /\ str' = [str EXCEPT ![s].tool = FALSE,
                        ![s].steps = [i \in DOMAIN @ |-> IF i > 1 /\ i = Len(@) THEN "settled" ELSE @[i]]]
  /\ UNCHANGED <<page, launcher, view, get, del, db>> /\ Ghost

(* tool_use with a result, good or bad: it settles the last running step.      *)
ToolSettles(s) ==
  /\ str[s].pc = "open" /\ str[s].tool
  /\ LET last == CHOOSE i \in Running(s) : \A j \in Running(s) : j <= i
     IN str' = [str EXCEPT ![s].tool = FALSE, ![s].steps[last] = "settled"]
  /\ UNCHANGED <<page, launcher, view, get, del, db>> /\ Ghost

(* done: the answer is complete and the input free, but the service is still   *)
(* saving the messages and the stream stays open.                              *)
DoneEvent(s) ==
  /\ str[s].pc = "open" /\ ~str[s].tool
  /\ str' = [str EXCEPT ![s].pc = "done"]
  /\ isStreaming' = FALSE
  /\ UNCHANGED <<page, launcher, conv, url, shown, abortRef, isRestoring, get, del, db>> /\ Ghost

(* The stream closes: after done, after an error event, or broken.             *)
StreamEnd(s) ==
  /\ str[s].pc \in {"open", "done"}
  /\ Finally(s)
  /\ UNCHANGED <<page, launcher, conv, url, shown, isRestoring, get, del, db>> /\ Ghost

(* No stream: the service refused the turn before it stored anything, or after *)
(* it, or the connection was lost.                                             *)
StreamRefused(s) ==
  /\ str[s].pc = "sent"
  /\ \/ shown' = (IF str[s].new THEN shown \ {str[s].to} ELSE shown) /\ UNCHANGED db
     \/ db' = Stored(str[s].to) /\ UNCHANGED shown
  /\ Finally(s)
  /\ UNCHANGED <<page, launcher, conv, url, isRestoring, get, del>> /\ Ghost

(* stop aborts the stream of the reference, wherever the service is with it.   *)
StopEffect ==
  IF abortRef = None THEN isStreaming' = FALSE /\ UNCHANGED <<str, abortRef, db>>
  ELSE Finally(abortRef) /\ db' = Stored(str[abortRef].to)

stop ==
  /\ ChatInput(TRUE)
  /\ StopEffect
  /\ UNCHANGED <<page, launcher, conv, url, shown, isRestoring, get, del>> /\ Ghost

-----------------------------------------------------------------------------
(* The chat page                                                               *)

NoStop == UNCHANGED <<str, isStreaming, abortRef, db>>

(* The history beside the chat and the recent ones list what was stored when   *)
(* they were fetched, a conversation deleted since included.                   *)
Offered(c) == page = "chat" /\ db[c] # "free"

StopIf(streaming) == IF streaming THEN StopEffect ELSE NoStop

(* Select in the history or among the recent chats: conversation.get leaves.   *)
handleSelectConversation(g, c) ==
  /\ Offered(c) /\ get[g] = None
  /\ get' = [get EXCEPT ![g] = c]
  /\ isRestoring' = TRUE
  /\ StopIf(isStreaming)
  /\ UNCHANGED <<page, launcher, conv, url, shown, del>> /\ Ghost

(* Mutant: the skeleton goes only with a good answer.                          *)
SelectedOk(g) ==
  /\ get[g] # None
  /\ \/ /\ db[get[g]] = "live"
        /\ conv' = get[g] /\ url' = get[g] /\ shown' = {get[g]} /\ isRestoring' = FALSE
     \/ UNCHANGED <<conv, url, shown, isRestoring>>
  /\ get' = [get EXCEPT ![g] = None]
  /\ UNCHANGED <<page, launcher, isStreaming, abortRef, str, del, db>> /\ Ghost

(* Its answer: the conversation, or a toast; the skeleton goes either way.     *)
Selected(g) ==
  /\ get[g] # None
  /\ \/ /\ db[get[g]] = "live"
        /\ conv' = get[g] /\ url' = get[g] /\ shown' = {get[g]}
     \/ UNCHANGED <<conv, url, shown>>
  /\ isRestoring' = FALSE
  /\ get' = [get EXCEPT ![g] = None]
  /\ UNCHANGED <<page, launcher, isStreaming, abortRef, str, del, db>> /\ Ghost

(* Mutant: a new conversation leaves the old answer streaming.                 *)
NewEffectRunsOn(streaming) ==
  /\ NoStop
  /\ conv' = None /\ url' = None /\ shown' = {}

NewEffect(streaming) ==
  /\ StopIf(streaming)
  /\ conv' = None /\ url' = None /\ shown' = {}

handleNewConversation ==
  /\ page = "chat"
  /\ NewEffect(isStreaming)
  /\ UNCHANGED <<page, launcher, isRestoring, get, del>> /\ Ghost

(* Delete asks first; what it does with the answer was decided at the click.   *)
handleDelete(c) ==
  /\ Offered(c) /\ del = NoDelete
  /\ del' = [id |-> c, conv |-> conv, streaming |-> isStreaming]
  /\ UNCHANGED <<page, launcher, view, str, get, db>> /\ Ghost

DeleteAnswered ==
  /\ del # NoDelete /\ del' = NoDelete
  /\ IF del.conv # del.id
     THEN db' = [db EXCEPT ![del.id] = "deleted"] /\ UNCHANGED <<view, str>>
     ELSE /\ conv' = None /\ url' = None /\ shown' = {}
          /\ IF del.streaming /\ abortRef # None THEN Finally(abortRef)
             ELSE UNCHANGED <<str, abortRef>> /\ isStreaming' = (isStreaming /\ ~del.streaming)
          /\ db' = [db EXCEPT ![del.id] = "deleted"]
          /\ UNCHANGED isRestoring
  /\ UNCHANGED <<page, launcher, get>> /\ Ghost

DeleteFails ==
  /\ del # NoDelete /\ del' = NoDelete
  /\ UNCHANGED <<page, launcher, view, str, get, db>> /\ Ghost

-----------------------------------------------------------------------------
(* The launcher on the other pages, and the mount of the chat page.            *)

Launcher ==
  /\ page = "other"
  /\ launcher' \in {"closed", "open", "query"} \ {launcher}
  /\ (launcher' = "query" => launcher = "open")
  /\ UNCHANGED <<page, view, str, get, del, db>> /\ Ghost

(* goToChat: a query or a suggestion travels as a parameter that the page      *)
(* takes out of the address and sends once.                                    *)
goToChat(s) ==
  /\ page = "other" /\ launcher # "closed"
  /\ page' = "chat" /\ launcher' = "closed"
  /\ \/ Begin(s)
     \/ launcher = "open" /\ UNCHANGED <<shown, isStreaming, abortRef, str>>
  /\ UNCHANGED <<conv, url, isRestoring, get, del, db>> /\ Ghost

(* A recent chat, or an address with a conversation: restored on mount.        *)
OpenConversation(g, c) ==
  /\ page = "other" /\ get[g] = None /\ db[c] # "free"
  /\ page' = "chat" /\ launcher' = "closed"
  /\ url' = c /\ isRestoring' = TRUE /\ get' = [get EXCEPT ![g] = c]
  /\ UNCHANGED <<conv, shown, isStreaming, abortRef, str, del, db>> /\ Ghost

(* Leaving unmounts the page: what is still under way reaches nobody.          *)
Leave ==
  /\ page = "chat" /\ page' = "other"
  /\ conv' = None /\ url' = None /\ shown' = {}
  /\ isStreaming' = FALSE /\ abortRef' = None /\ isRestoring' = FALSE
  /\ str' = [s \in Streams |-> Closed] /\ get' = [g \in Gets |-> None] /\ del' = NoDelete
  /\ db' = [c \in Convs |-> IF \E s \in Under : str[s].to = c THEN Stored(c)[c] ELSE db[c]]
  /\ UNCHANGED launcher /\ Ghost

StreamStep(s) ==
  \/ ConversationId(s) \/ ToolStarts(s) \/ DoneEvent(s) \/ StreamEnd(s) \/ StreamRefused(s)
  \/ ToolSettles(s)

Next ==
  \/ stop \/ handleNewConversation \/ DeleteAnswered \/ DeleteFails \/ Launcher \/ Leave
  \/ \E s \in Streams : send(s) \/ goToChat(s) \/ StreamStep(s)
  \/ \E c \in Convs : handleDelete(c)
  \/ \E g \in Gets : Selected(g) \/ \E c \in Convs : handleSelectConversation(g, c) \/ OpenConversation(g, c)

Spec == Init /\ [][Next]_vars

-----------------------------------------------------------------------------
(* Properties.                                                                 *)

(* While the page says that it streams, the stream that Stop would abort is    *)
(* under way (use-chat.ts clears flag and reference in the finally of every    *)
(* stream, also of an older one); the skeleton waits for an answer that will   *)
(* come (chat.tsx clears isRestoring in the finally of any select).  One step  *)
(* of an answer pulses exactly while its tool runs, and none once the answer   *)
(* is complete; only an answer cut off while its tool ran (Stop, a stream that *)
(* broke) goes on pulsing, because nothing settles its step.                   *)
IndicatorsTrue ==
  /\ isStreaming => abortRef \in Streams /\ str[abortRef].pc \in {"sent", "open"}
  /\ isRestoring => Waiting # {}
  /\ \A s \in Streams : /\ Cardinality(Running(s)) = IF str[s].tool THEN 1 ELSE 0
                        /\ Running(s) # {} => str[s].pc \in {"open", "cut"}

(* The messages on screen come from one conversation, the one the next message *)
(* goes to and the address names; only overlapping requests of the page, or a  *)
(* stream cut off before it named its conversation, can mix two.               *)
OneConversation ==
  ~raced => /\ Cardinality(shown) <= 1
            /\ conv # None => shown = {conv} /\ url = conv

=============================================================================
