---------------------------- MODULE Integrations ----------------------------
(* The integrations page (integrations.tsx).  It keeps its list in the browser *)
(* and stands in for the requests with timers, which nobody cancels.           *)
EXTENDS Naturals, FiniteSets

CONSTANTS
  Providers, NoProvider,   \* services on offer, and no dialog
  MaxId                    \* bound: integrations made on one visit

VARIABLE ui

Ids == 1..MaxId

(* generateConnectedIntegrations(): one provider is connected from the start.  *)
Mounts ==
  {[connected |-> {[id |-> 1, provider |-> p, status |-> "connected"]}, made |-> 1,
    dialog |-> NoProvider, filled |-> FALSE, connecting |-> FALSE, timers |-> [q \in Providers |-> 0],
    syncs |-> [i \in Ids |-> 0], confirm |-> 0] : p \in Providers}

TypeOK ==
  /\ ui.connected \subseteq [id : Ids, provider : Providers, status : {"connected", "syncing"}]
  /\ ui.dialog \in Providers \union {NoProvider} /\ ui.timers \in [Providers -> Ids \union {0}]
  /\ ui.filled \in BOOLEAN /\ ui.connecting \in BOOLEAN
  /\ ui.made \in Ids /\ ui.confirm \in 0..MaxId /\ ui.syncs \in [Ids -> 0..2]

Modal == ui.dialog # NoProvider \/ ui.confirm # 0

unconnected == Providers \ {c.provider : c \in ui.connected}

-----------------------------------------------------------------------------
(* Connecting                                                                  *)

handleOpenConnect(p) ==
  /\ ~Modal /\ p \in unconnected
  /\ ui' = [ui EXCEPT !.dialog = p, !.filled = FALSE]

(* Mutant: leaving the dialog takes the spinner with it.                       *)
CloseStopsSpinner ==
  /\ ui.dialog # NoProvider
  /\ ui' = [ui EXCEPT !.dialog = NoProvider, !.connecting = FALSE]

(* Cancel, or a click outside: a connection on its way goes on.                *)
CloseConnect == ui.dialog # NoProvider /\ ui' = [ui EXCEPT !.dialog = NoProvider]

(* All the required fields have text, or one has none.                         *)
setFormValues ==
  /\ ui.dialog # NoProvider
  /\ ui' = [ui EXCEPT !.filled = ~@]

(* handleConnect: the button waits for the fields and for the timer.  The      *)
(* timer keeps the provider the dialog was about.                              *)
handleConnect ==
  /\ ui.dialog # NoProvider /\ ui.filled /\ ~ui.connecting /\ ui.made < MaxId
  /\ ui.timers[ui.dialog] < MaxId
  /\ ui' = [ui EXCEPT !.connecting = TRUE, !.timers[ui.dialog] = @ + 1]

(* Its 1.5 s are over: the list grows, and whatever dialog is open closes.     *)
Connected(p) ==
  /\ ui.timers[p] > 0 /\ ui.made < MaxId
  /\ ui' = [ui EXCEPT !.connected = @ \union {[id |-> ui.made + 1, provider |-> p, status |-> "connected"]},
                      !.made = @ + 1, !.timers[p] = @ - 1,
                      !.connecting = FALSE, !.dialog = NoProvider]

-----------------------------------------------------------------------------
(* The integrations of the list                                                *)

SetStatus(cs, i, s) == {IF c.id = i THEN [c EXCEPT !.status = s] ELSE c : c \in cs}

(* Mutant: the button is not disabled while it syncs.                          *)
handleSyncAgain(c) ==
  /\ ~Modal /\ ui.syncs[c.id] < 2
  /\ ui' = [ui EXCEPT !.connected = SetStatus(@, c.id, "syncing"), !.syncs[c.id] = @ + 1]

handleSync(c) ==
  /\ ~Modal /\ c.status # "syncing"
  /\ ui' = [ui EXCEPT !.connected = SetStatus(@, c.id, "syncing"), !.syncs[c.id] = @ + 1]

(* Its 2 s are over; the integration may have gone.                            *)
SyncCompletes(i) ==
  /\ ui.syncs[i] > 0
  /\ ui' = [ui EXCEPT !.connected = SetStatus(@, i, "connected"), !.syncs[i] = @ - 1]

setDeleteConfirm(c) == ~Modal /\ ui' = [ui EXCEPT !.confirm = c.id]

CloseDelete == ui.confirm # 0 /\ ui' = [ui EXCEPT !.confirm = 0]

handleDisconnect ==
  /\ ui.confirm # 0
  /\ ui' = [ui EXCEPT !.connected = {c \in @ : c.id # ui.confirm}, !.confirm = 0]

Next ==
  \/ \E p \in Providers : handleOpenConnect(p) \/ Connected(p)
  \/ CloseConnect \/ setFormValues \/ handleConnect
  \/ \E c \in ui.connected : handleSync(c) \/ setDeleteConfirm(c)
  \/ \E i \in Ids : SyncCompletes(i)
  \/ CloseDelete \/ handleDisconnect

-----------------------------------------------------------------------------
(* Properties.                                                                 *)

(* A provider is connected once: the dialog can be left, opened again or       *)
(* opened for another provider while the first timer runs, and that timer adds *)
(* its integration without looking at the list.                                *)
ProvidersUnique == \A c, d \in ui.connected : c.provider = d.provider => c = d

(* An integration shows that it syncs as long as its sync runs and no longer,  *)
(* through disconnecting and connecting the same provider again.               *)
SyncShown == \A c \in ui.connected : c.status = "syncing" <=> ui.syncs[c.id] > 0

=============================================================================
