------------------------- MODULE ChargerPagesProofs -------------------------
(* Lemmas about the pages of one charger: its commands, registering it, its    *)
(* detail page, its reservations, its settings.  Each page has an inductive    *)
(* invariant, which ConsoleProofs puts together with those of the other pages; *)
(* and the lemmas about cached data and fetchers (WebData) all of them use.    *)
EXTENDS Console, FiniteSetTheorems, SequenceTheorems, TLAPS

-----------------------------------------------------------------------------
(* The commands of a charger                                                   *)

CommandsFields == {"sec", "form", "confirm", "loading", "out", "gone", "toast", "result"}

CommandsInv ==
  /\ DOMAIN ui = CommandsFields
  /\ Commands!TypeOK /\ Commands!OneCommand /\ Commands!ConfirmedCommand

(* A form whose command has to be confirmed.                                   *)
Destructive(sec, form) ==
  \/ sec \in {"clearCache", "unlock", "firmware", "clearProfile"}
  \/ sec = "localList" /\ form.type = "Full"

(* Every step of the tab keeps the requests, sends one that is confirmed where *)
(* it has to be while none is out, takes the answer of the one that is out, or *)
(* drops the form, or takes an answer for one that was dropped.                *)
Keeps ==
  /\ ui'.gone = ui.gone /\ ui'.out = ui.out /\ ui'.loading = ui.loading /\ ui'.toast = ui.toast /\ ui'.result = ui.result
  /\ ui'.form \in Commands!Forms(ui.sec) /\ ui'.confirm \in BOOLEAN

Sends ==
  /\ ui'.gone = ui.gone
  /\ ~ui.loading /\ ui'.loading = TRUE
  /\ ui'.form = ui.form /\ ui'.confirm = ui.confirm /\ ui'.toast = <<>> /\ ui'.result \in {ui.result, <<>>}
  /\ \E c \in BOOLEAN : /\ Destructive(ui.sec, ui.form) => c
                        /\ ui'.out = Append(ui.out, [form |-> ui.form, confirmed |-> c])

Answers ==
  /\ ui'.gone = ui.gone
  /\ ui.out # <<>> /\ ui'.out = Tail(ui.out) /\ ui'.loading = FALSE /\ ui'.confirm = FALSE
  /\ ui'.form \in {ui.form, Blank} /\ (ui'.form # ui.form => ui.sec \in Commands!Clears)
  /\ ui'.toast \in {ui.toast, <<Head(ui.out).form>>}
  /\ ui'.result \in {ui.result, <<Head(ui.out).form>>}

Collapses ==
  /\ ui.sec \in Commands!Collapsible
  /\ ui'.form = Commands!First(ui.sec) /\ ui'.confirm = ui.confirm /\ ui'.loading = FALSE
  /\ ui'.toast = ui.toast /\ ui'.result = <<>> /\ ui'.out = <<>>
  /\ \E i \in 1..Few : ui'.gone = [ui.gone EXCEPT ![i] = ui.out]

Lates ==
  /\ ui'.out = ui.out /\ ui'.loading = ui.loading /\ ui'.confirm = ui.confirm
  /\ ui'.form = ui.form /\ ui'.result = ui.result
  /\ \E i \in 1..Few : /\ ui.gone[i] # <<>> /\ ui'.gone = [ui.gone EXCEPT ![i] = <<>>]
                        /\ ui'.toast \in {ui.toast, <<Head(ui.gone[i]).form>>}

CommandsMove ==
  /\ DOMAIN ui' = CommandsFields /\ ui'.sec = ui.sec
  /\ Keeps \/ Sends \/ Answers \/ Collapses \/ Lates

LEMMA CommandsRequests ==
  ASSUME CommandsInv, NEW c \in BOOLEAN, ~ui.loading,
         Commands!Request(c), Destructive(ui.sec, ui.form) => c
  PROVE  CommandsMove
<1>1. /\ DOMAIN ui' = DOMAIN ui /\ ui'.sec = ui.sec /\ ui'.loading = TRUE
      /\ ui'.form = ui.form /\ ui'.confirm = ui.confirm /\ ui'.toast = <<>> /\ ui'.result = ui.result
      /\ ui'.out = Append(ui.out, [form |-> ui.form, confirmed |-> c]) /\ ui'.gone = ui.gone
  BY DEF CommandsInv, CommandsFields, Commands!Request
<1> QED BY <1>1 DEF CommandsMove, Sends, CommandsInv

LEMMA CommandsAsks ==
  ASSUME CommandsInv, Commands!AskFirst
  PROVE  CommandsMove
<1>1. /\ DOMAIN ui' = DOMAIN ui /\ ui'.sec = ui.sec /\ ui'.loading = ui.loading
      /\ ui'.form = ui.form /\ ui'.confirm = TRUE /\ ui'.toast = ui.toast /\ ui'.result = ui.result
      /\ ui'.out = ui.out /\ ui'.gone = ui.gone
  BY DEF CommandsInv, CommandsFields, Commands!AskFirst
<1> QED BY <1>1 DEF CommandsMove, Keeps, CommandsInv, Commands!TypeOK

LEMMA EditListMoves ==
  ASSUME CommandsInv, Commands!EditList
  PROVE  CommandsMove
<1> DEFINE V == Texts \union {Blank}
           e == ui.form.entries
           f == ui'.form
<1>1. /\ ui.sec = "localList" /\ DOMAIN ui = CommandsFields
      /\ ui.form \in [type : {"Full", "Differential"}, entries : UNION {[1..n -> V] : n \in 1..2}]
      /\ ui.confirm \in BOOLEAN
  BY DEF CommandsInv, Commands!TypeOK, Commands!EditList, Commands!Forms
<1>2. PICK n \in 1..2 : e \in [1..n -> V]
  BY <1>1
<1>3. n \in {1, 2}
  BY <1>2
<1>4. /\ DOMAIN ui' = CommandsFields /\ ui'.sec = ui.sec /\ ui'.loading = ui.loading
      /\ ui'.confirm = ui.confirm /\ ui'.toast = ui.toast /\ ui'.result = ui.result
      /\ ui'.out = ui.out /\ ui'.gone = ui.gone
  BY <1>1 DEF CommandsFields, Commands!EditList
<1>5. \/ f = [ui.form EXCEPT !.entries = Append(e, Blank)] /\ Len(e) = 1
      \/ Len(e) > 1 /\ \E i \in DOMAIN e : f = [ui.form EXCEPT !.entries = <<e[3 - i]>>]
      \/ \E i \in DOMAIN e, v \in V : f = [ui.form EXCEPT !.entries = [e EXCEPT ![i] = v]]
      \/ \E t \in {"Full", "Differential"} : f = [ui.form EXCEPT !.type = t]
  BY <1>1 DEF CommandsFields, Commands!EditList
<1>6. DOMAIN e = 1..n /\ Len(e) = n
  BY <1>2, <1>3
<1>7. f \in [type : {"Full", "Differential"}, entries : UNION {[1..k -> V] : k \in 1..2}]
  <2>1. CASE f = [ui.form EXCEPT !.entries = Append(e, Blank)] /\ Len(e) = 1
    <3>1. Append(e, Blank) \in [1..2 -> V]
      <4>1. n = 1 /\ Blank \in V
        BY <1>6, <2>1
      <4>2. e \in [1..1 -> V] /\ 1 \in Nat
        BY <1>2, <4>1
      <4>3. Blank \in V /\ Len(e) = 1
        BY <2>1, <4>1
      <4> HIDE DEF e, V
      <4>6. e \in Seq(V)
        BY <4>2, SeqDef, Zenon
      <4>4. Append(e, Blank) \in Seq(V) /\ Len(Append(e, Blank)) = Len(e) + 1
        BY <4>3, <4>6, AppendProperties
      <4>5. Len(Append(e, Blank)) = 2
        BY <4>3, <4>4
      <4> QED BY <4>4, <4>5, LenProperties
    <3>2. Append(e, Blank) \in UNION {[1..k -> V] : k \in 1..2}
      BY <3>1
    <3> HIDE DEF V
    <3> QED BY <3>2, <2>1, <1>1
  <2>2. ASSUME Len(e) > 1, NEW i \in DOMAIN e, f = [ui.form EXCEPT !.entries = <<e[3 - i]>>]
        PROVE  f \in [type : {"Full", "Differential"}, entries : UNION {[1..k -> V] : k \in 1..2}]
    <3>1. e[3 - i] \in V
      BY <1>2, <1>3, <1>6, <2>2
    <3>2. <<e[3 - i]>> \in [1..1 -> V]
      BY <3>1
    <3> QED BY <3>2, <2>2, <1>1
  <2>3. ASSUME NEW i \in DOMAIN e, NEW v \in V, f = [ui.form EXCEPT !.entries = [e EXCEPT ![i] = v]]
        PROVE  f \in [type : {"Full", "Differential"}, entries : UNION {[1..k -> V] : k \in 1..2}]
    <3>1. [e EXCEPT ![i] = v] \in [1..n -> V]
      BY <1>2, <1>6, <2>3
    <3> QED BY <3>1, <1>2, <2>3, <1>1
  <2>4. ASSUME NEW t \in {"Full", "Differential"}, f = [ui.form EXCEPT !.type = t]
        PROVE  f \in [type : {"Full", "Differential"}, entries : UNION {[1..k -> V] : k \in 1..2}]
    BY <2>4, <1>1
  <2> QED BY <1>5, <2>1, <2>2, <2>3, <2>4
<1> QED BY <1>1, <1>4, <1>7 DEF CommandsMove, Keeps, Commands!Forms

(* Every step of the tab is one of these moves.                                *)
LEMMA CommandsMoves ==
  ASSUME CommandsInv, Commands!Next
  PROVE  CommandsMove
<1> USE DEF Commands!ActionButton, Commands!OnlyFilled
<1>0. /\ DOMAIN ui = CommandsFields /\ ui.form \in Commands!Forms(ui.sec)
      /\ ui.confirm \in BOOLEAN /\ ui.loading \in BOOLEAN /\ ui.sec \in Commands!Sections
  BY DEF CommandsInv, Commands!TypeOK
<1>1. CASE Commands!QuickActionsSection
  BY <1>1, CommandsAsks, CommandsRequests DEF Commands!QuickActionsSection, Destructive
<1>2. CASE Commands!ConnectorRow
  BY <1>2, CommandsAsks, CommandsRequests DEF Commands!ConnectorRow, Destructive
<1>3. CASE Commands!ConfigurationSection
  BY <1>3, CommandsRequests DEF Commands!ConfigurationSection, Destructive
<1>4. CASE Commands!FirmwareSection
  BY <1>4, CommandsAsks DEF Commands!FirmwareSection
<1>5. CASE Commands!DiagnosticsSection
  BY <1>5, CommandsRequests DEF Commands!DiagnosticsSection, Destructive
<1>6. CASE Commands!LocalListSubmit
  BY <1>6, CommandsAsks, CommandsRequests DEF Commands!LocalListSubmit, Destructive
<1>7. CASE Commands!GetCompositeSchedule
  <2>1. /\ ui.sec = "schedule" /\ ~ui.loading
        /\ DOMAIN ui' = DOMAIN ui /\ ui'.sec = ui.sec /\ ui'.loading = TRUE
        /\ ui'.form = ui.form /\ ui'.confirm = ui.confirm /\ ui'.toast = <<>> /\ ui'.result = <<>>
        /\ ui'.out = Append(ui.out, [form |-> ui.form, confirmed |-> FALSE]) /\ ui'.gone = ui.gone
    BY <1>0, <1>7 DEF CommandsFields, Commands!GetCompositeSchedule
  <2> QED BY <1>0, <2>1 DEF CommandsMove, Sends, Destructive
<1>8. CASE Commands!SetChargingProfile
  BY <1>8, CommandsRequests DEF Commands!SetChargingProfile, Destructive
<1>9. CASE Commands!ClearChargingProfile
  BY <1>9, CommandsAsks DEF Commands!ClearChargingProfile
<1>10. CASE Commands!EditForm
  <2>1. /\ DOMAIN ui' = DOMAIN ui /\ ui'.sec = ui.sec /\ ui'.loading = ui.loading
        /\ ui'.form \in Commands!Forms(ui.sec) /\ ui'.confirm = ui.confirm /\ ui'.toast = ui.toast
        /\ ui'.result = ui.result /\ ui'.out = ui.out /\ ui'.gone = ui.gone
    BY <1>0, <1>10 DEF CommandsFields, Commands!EditForm
  <2> QED BY <1>0, <2>1 DEF CommandsMove, Keeps
<1>11. CASE Commands!EditList
  BY <1>11, EditListMoves
<1>12. CASE Commands!ConfirmDialog
  <2>1. CASE ui' = [ui EXCEPT !.confirm = FALSE]
    <3>1. /\ DOMAIN ui' = DOMAIN ui /\ ui'.sec = ui.sec /\ ui'.loading = ui.loading
          /\ ui'.form = ui.form /\ ui'.confirm = FALSE /\ ui'.toast = ui.toast
          /\ ui'.result = ui.result /\ ui'.out = ui.out /\ ui'.gone = ui.gone
      BY <1>0, <2>1 DEF CommandsFields
    <3> QED BY <1>0, <3>1 DEF CommandsMove, Keeps
  <2> QED BY <1>12, <2>1, CommandsRequests DEF Commands!ConfirmDialog
<1>13. CASE Commands!Success
  <2>1. /\ ui.out # <<>> /\ DOMAIN ui' = DOMAIN ui /\ ui'.sec = ui.sec /\ ui'.loading = FALSE
        /\ ui'.form = IF ui.sec \in Commands!Clears THEN Blank ELSE ui.form
        /\ ui'.confirm = FALSE /\ ui'.toast = <<Head(ui.out).form>>
        /\ ui'.result = IF ui.sec = "schedule" THEN <<Head(ui.out).form>> ELSE ui.result
        /\ ui'.out = Tail(ui.out) /\ ui'.gone = ui.gone
    BY <1>0, <1>13 DEF CommandsFields, Commands!Success
  <2> QED BY <1>0, <2>1 DEF CommandsMove, Answers
<1>14. CASE Commands!Failure
  <2>1. /\ ui.out # <<>> /\ DOMAIN ui' = DOMAIN ui /\ ui'.sec = ui.sec /\ ui'.loading = FALSE
        /\ ui'.form = ui.form /\ ui'.confirm = FALSE /\ ui'.toast = ui.toast
        /\ ui'.result = ui.result /\ ui'.out = Tail(ui.out) /\ ui'.gone = ui.gone
    BY <1>0, <1>14 DEF CommandsFields, Commands!Failure
  <2> QED BY <1>0, <2>1 DEF CommandsMove, Answers
<1>15. CASE Commands!Collapse
  <2>1. PICK i \in 1..Few :
          ui' = [ui EXCEPT !.form = Commands!First(ui.sec), !.loading = FALSE, !.result = <<>>,
                           !.out = <<>>, !.gone[i] = ui.out]
    BY <1>15 DEF Commands!Collapse
  <2>2. /\ DOMAIN ui' = DOMAIN ui /\ ui'.sec = ui.sec /\ ui'.loading = FALSE
        /\ ui'.form = Commands!First(ui.sec) /\ ui'.confirm = ui.confirm /\ ui'.toast = ui.toast
        /\ ui'.result = <<>> /\ ui'.out = <<>> /\ ui'.gone = [ui.gone EXCEPT ![i] = ui.out]
    BY <1>0, <2>1 DEF CommandsFields
  <2> QED BY <1>0, <1>15, <2>2 DEF CommandsMove, Collapses, Commands!Collapse
<1>16. CASE Commands!LateAnswer
  <2>1. PICK i \in 1..Few :
          /\ ui.gone[i] # <<>>
          /\ \E t \in {ui.toast, <<Head(ui.gone[i]).form>>} :
               ui' = [ui EXCEPT !.gone[i] = <<>>, !.toast = t]
    BY <1>16 DEF Commands!LateAnswer
  <2>3. PICK t \in {ui.toast, <<Head(ui.gone[i]).form>>} : ui' = [ui EXCEPT !.gone[i] = <<>>, !.toast = t]
    BY <2>1
  <2>2. /\ DOMAIN ui' = DOMAIN ui /\ ui'.sec = ui.sec /\ ui'.loading = ui.loading
        /\ ui'.form = ui.form /\ ui'.confirm = ui.confirm /\ ui'.toast = t
        /\ ui'.result = ui.result /\ ui'.out = ui.out /\ ui'.gone = [ui.gone EXCEPT ![i] = <<>>]
    BY <1>0, <2>3 DEF CommandsFields
  <2> QED BY <1>0, <2>1, <2>2 DEF CommandsMove, Lates
<1> QED
  BY <1>1, <1>2, <1>3, <1>4, <1>5, <1>6, <1>7, <1>8, <1>9, <1>10, <1>11, <1>12, <1>13, <1>14, <1>15, <1>16
  DEF Commands!Next

LEMMA CommandsStep ==
  ASSUME CommandsInv, Commands!Next
  PROVE  CommandsInv'
<1> DEFINE F == Commands!Forms(ui.sec)
           R == [form : F, confirmed : BOOLEAN]
           Yes(out) == \A i \in DOMAIN out : Destructive(ui.sec, out[i].form) => out[i].confirmed
           Gone(g) == /\ g \in [1..Few -> Seq(R)]
                      /\ \A k \in 1..Few : Yes(g[k])
                      /\ ui.sec \notin Commands!Collapsible => \A k \in 1..Few : g[k] = <<>>
<1>0. /\ DOMAIN ui' = CommandsFields /\ ui'.sec = ui.sec
      /\ Keeps \/ Sends \/ Answers \/ Collapses \/ Lates
  BY CommandsMoves DEF CommandsMove
<1>1. /\ ui.sec \in Commands!Sections /\ ui.form \in F /\ ui.confirm \in BOOLEAN /\ ui.loading \in BOOLEAN
      /\ ui.out \in Seq(R) /\ ui.toast \in Seq(F) /\ ui.result \in Seq(F)
      /\ Len(ui.out) <= 1 /\ ui.loading = (ui.out # <<>>)
      /\ Yes(ui.out) /\ Gone(ui.gone)
  BY DEF CommandsInv, Commands!TypeOK, Commands!OneCommand, Commands!ConfirmedCommand, Commands!Confirmed,
         Commands!Requests, Destructive
<1>11. Yes(<<>>) /\ Len(<<>>) = 0 /\ <<>> \in Seq(R) /\ <<>> \in Seq(F)
  BY EmptySeq
<1> HIDE DEF F, Yes, Gone
<1>2. SUFFICES /\ ui'.form \in F /\ ui'.confirm \in BOOLEAN /\ ui'.loading \in BOOLEAN
               /\ ui'.out \in Seq(R) /\ ui'.toast \in Seq(F) /\ ui'.result \in Seq(F)
               /\ Len(ui'.out) <= 1 /\ ui'.loading = (ui'.out # <<>>)
               /\ Yes(ui'.out) /\ Gone(ui'.gone)
  BY <1>0, <1>1, <1>2
  DEF F, Yes, Gone, CommandsInv, Commands!TypeOK, Commands!OneCommand, Commands!ConfirmedCommand,
      Commands!Confirmed, Commands!Requests, Destructive
<1>3. CASE Keeps
  BY <1>1, <1>3 DEF Keeps, F
<1>4. CASE Sends
  <2>1. PICK c \in BOOLEAN : /\ Destructive(ui.sec, ui.form) => c
                             /\ ui'.out = Append(ui.out, [form |-> ui.form, confirmed |-> c])
    BY <1>4 DEF Sends
  <2> DEFINE r == [form |-> ui.form, confirmed |-> c]
  <2>2. r \in R /\ r.form = ui.form /\ r.confirmed = c
    BY <1>1
  <2>3. ui.out = <<>>
    BY <1>1, <1>4 DEF Sends
  <2> HIDE DEF r
  <2>4. /\ ui'.out \in Seq(R) /\ Len(ui'.out) = 1 /\ ui'.out[1] = r /\ DOMAIN ui'.out = {1} /\ ui'.out # <<>>
    BY <2>1, <2>2, <2>3 DEF r
  <2>5. /\ ui'.form \in F /\ ui'.confirm \in BOOLEAN /\ ui'.loading = TRUE
        /\ ui'.toast \in Seq(F) /\ ui'.result \in Seq(F)
    BY <1>1, <1>4, EmptySeq DEF Sends
  <2>6. ui'.loading = (ui'.out # <<>>)
    BY <2>4, <2>5, Zenon
  <2>7. Yes(ui'.out)
    BY <2>1, <2>2, <2>4 DEF Yes
  <2>8. Gone(ui'.gone)
    BY <1>1, <1>4 DEF Sends
  <2> QED BY <2>4, <2>5, <2>6, <2>7, <2>8
<1>5. CASE Answers
  <2>1. /\ ui'.out \in Seq(R) /\ Len(ui'.out) = 0 /\ ui'.out = <<>> /\ DOMAIN ui'.out = {}
        /\ Head(ui.out).form \in F
    <3> HIDE DEF R
    <3>1. ui.out # <<>> /\ ui'.out = Tail(ui.out)
      BY <1>5 DEF Answers
    <3>2. Head(ui.out) \in R /\ Tail(ui.out) \in Seq(R) /\ Len(Tail(ui.out)) = Len(ui.out) - 1
      BY <1>1, <3>1, HeadTailProperties
    <3>3. Len(ui.out) \in Nat \ {0} /\ Len(Tail(ui.out)) \in Nat
      BY <1>1, <3>1, <3>2, EmptySeq, LenProperties
    <3>4. Len(Tail(ui.out)) = 0
      <4> DEFINE n == Len(ui.out)
                 m == Len(Tail(ui.out))
      <4>1. n <= 1 /\ n \in Nat \ {0} /\ m = n - 1
        BY <1>1, <3>2, <3>3
      <4> HIDE DEF n, m
      <4>2. m = 0
        BY <4>1
      <4> QED BY <4>2 DEF m
    <3>5. Tail(ui.out) = <<>>
      BY <3>2, <3>4, EmptySeq
    <3>6. Head(ui.out).form \in F
      BY <3>2 DEF R
    <3>7. DOMAIN Tail(ui.out) = 1..0
      BY <3>2, <3>4, LenProperties
    <3> QED BY <3>1, <3>2, <3>4, <3>5, <3>6, <3>7
  <2>2. ui'.form \in F
    BY <1>1, <1>5 DEF Answers, F, Commands!Forms, Commands!Clears, Commands!Selects
  <2>3. <<Head(ui.out).form>> \in Seq(F)
    BY <2>1
  <2>4. /\ ui'.loading = FALSE /\ ui'.confirm = FALSE
        /\ ui'.toast \in Seq(F) /\ ui'.result \in Seq(F)
    BY <1>1, <1>5, <2>3 DEF Answers
  <2>5. ui'.loading = (ui'.out # <<>>)
    BY <2>1, <2>4, Zenon
  <2>6. Yes(ui'.out) /\ Gone(ui'.gone)
    BY <1>1, <1>5, <1>11, <2>1 DEF Answers
  <2>7. Len(ui'.out) <= 1
    BY <2>1
  <2>8. ui'.confirm \in BOOLEAN /\ ui'.loading \in BOOLEAN
    BY <2>4
  <2> QED BY <2>1, <2>2, <2>4, <2>5, <2>6, <2>7, <2>8, Zenon
<1>6. CASE Collapses
  <2>1. PICK i \in 1..Few : ui'.gone = [ui.gone EXCEPT ![i] = ui.out]
    BY <1>6 DEF Collapses
  <2>2. ui.sec \in Commands!Collapsible /\ ui'.form = Commands!First(ui.sec) /\ ui'.confirm = ui.confirm
        /\ ui'.toast = ui.toast /\ ui'.result = <<>> /\ ui'.loading = FALSE /\ ui'.out = <<>>
    BY <1>6 DEF Collapses
  <2>3. Gone(ui'.gone)
    BY <1>1, <2>1, <2>2 DEF Gone
  <2>4. ui'.form \in F
    BY <2>2, ConsoleAssumption
    DEF F, Commands!First, Commands!Forms, Commands!Collapsible, Commands!Selects
  <2>5. ui'.loading = (ui'.out # <<>>)
    BY <2>2, Zenon
  <2> QED BY <1>1, <1>11, <2>2, <2>3, <2>4, <2>5
<1>7. CASE Lates
  <2>1. PICK i \in 1..Few : /\ ui.gone[i] # <<>> /\ ui'.gone = [ui.gone EXCEPT ![i] = <<>>]
                            /\ ui'.toast \in {ui.toast, <<Head(ui.gone[i]).form>>}
    BY <1>7 DEF Lates
  <2>2. Head(ui.gone[i]) \in R
    <3>1. ui.gone[i] \in Seq(R)
      BY <1>1 DEF Gone
    <3> HIDE DEF R
    <3> QED BY <2>1, <3>1, HeadTailProperties
  <2>3. <<Head(ui.gone[i]).form>> \in Seq(F)
    BY <2>2
  <2>4. Gone(ui'.gone)
    BY <1>1, <1>11, <2>1 DEF Gone
  <2> QED BY <1>1, <1>7, <2>1, <2>3, <2>4 DEF Lates
<1> QED BY <1>0, <1>3, <1>4, <1>5, <1>6, <1>7

LEMMA CommandsToast ==
  ASSUME CommandsInv, Commands!Next
  PROVE  Commands!ToastNamesSent
<1>0. Keeps \/ Sends \/ Answers \/ Collapses \/ Lates
  BY CommandsMoves DEF CommandsMove
<1>1. CASE Answers
  <2>1. ui.out \in Seq(Commands!Requests(ui.sec)) /\ ui.out # <<>>
    BY <1>1 DEF CommandsInv, Commands!TypeOK, Answers
  <2>2. 1 \in DOMAIN ui.out /\ Head(ui.out) = ui.out[1]
    BY <2>1
  <2> QED BY <1>1, <2>2 DEF Answers, Commands!ToastNamesSent
<1>2. CASE Lates
  <2>1. PICK i \in 1..Few : /\ ui.gone[i] # <<>>
                            /\ ui'.toast \in {ui.toast, <<Head(ui.gone[i]).form>>}
    BY <1>2 DEF Lates
  <2>2. ui.gone[i] \in Seq(Commands!Requests(ui.sec))
    BY DEF CommandsInv, Commands!TypeOK
  <2>3. 1 \in DOMAIN ui.gone[i] /\ Head(ui.gone[i]) = ui.gone[i][1]
    BY <2>1, <2>2
  <2> QED BY <2>1, <2>3 DEF Commands!ToastNamesSent
<1> QED BY <1>0, <1>1, <1>2 DEF Keeps, Sends, Collapses, Commands!ToastNamesSent

LEMMA CommandsMounts ==
  ASSUME ui' \in Commands!Mounts
  PROVE  CommandsInv'
<1>1. PICK s \in Commands!Sections :
        ui' = [sec |-> s, form |-> Commands!First(s), confirm |-> FALSE, loading |-> FALSE,
               out |-> <<>>, gone |-> [i \in 1..Few |-> <<>>], toast |-> <<>>, result |-> <<>>]
  BY DEF Commands!Mounts
<1>2. Commands!First(s) \in Commands!Forms(s)
  <2>1. CASE s = "localList"
    <3>1. <<Blank>> \in [1..1 -> Texts \union {Blank}]
      OBVIOUS
    <3>2. <<Blank>> \in UNION {[1..n -> Texts \union {Blank}] : n \in 1..2}
      BY <3>1
    <3> QED BY <2>1, <3>2 DEF Commands!First, Commands!Forms, Commands!EmptyList
  <2>2. CASE s # "localList"
    BY <2>2, ConsoleAssumption DEF Commands!First, Commands!Forms
  <2> QED BY <2>1, <2>2
<1>3. /\ DOMAIN ui' = CommandsFields /\ ui'.sec = s /\ ui'.form = Commands!First(s)
      /\ ui'.confirm = FALSE /\ ui'.loading = FALSE /\ ui'.out = <<>> /\ ui'.toast = <<>> /\ ui'.result = <<>>
      /\ ui'.gone = [i \in 1..Few |-> <<>>]
  BY <1>1 DEF CommandsFields
<1>4. Commands!TypeOK'
  BY <1>2, <1>3, EmptySeq DEF Commands!TypeOK
<1>5. Commands!OneCommand' /\ Commands!ConfirmedCommand'
  <2>1. Len(<<>>) = 0 /\ DOMAIN <<>> = {}
    BY EmptySeq
  <2>2. ui'.loading = (ui'.out # <<>>)
    BY <1>3, Zenon
  <2> QED BY <1>3, <2>1, <2>2 DEF Commands!OneCommand, Commands!ConfirmedCommand, Commands!Confirmed
<1> QED BY <1>3, <1>4, <1>5 DEF CommandsInv
-----------------------------------------------------------------------------
(* The wizard that registers a charger                                         *)

(* Past its first step the wizard has an identifier, and the flag is set while *)
(* a request is out.                                                           *)
NewChargerInv ==
  /\ DOMAIN ui = {"step", "id", "version", "status", "timers", "creating", "out", "leaving", "done"}
  /\ ui.step \in 1..3 /\ ui.id \in Texts \union {Blank} /\ ui.version \in {"1.6", "2.0.1"}
  /\ ui.status \in {"waiting", "connected"} /\ ui.timers \in 0..Few
  /\ ui.creating \in BOOLEAN /\ ui.leaving \in BOOLEAN /\ ui.done \in BOOLEAN /\ ui.out \subseteq Texts \union {Blank}
  /\ Blank \notin ui.out /\ \A i, j \in ui.out : i = j
  /\ ui.step # 1 => ui.id # Blank
  /\ ~ui.creating => ui.out = {}

LEMMA NewChargerHolds ==
  ASSUME NewChargerInv
  PROVE  NewCharger!TypeOK /\ NewCharger!RegistersNamed
<1>1. DOMAIN NewCharger!Steps = 1..3
  BY DEF NewCharger!Steps
<1> QED BY <1>1 DEF NewChargerInv, NewCharger!TypeOK, NewCharger!RegistersNamed

LEMMA NewChargerMounts ==
  ASSUME ui' \in NewCharger!Mounts
  PROVE  NewChargerInv'
<1>1. ui' = [step |-> 1, id |-> Blank, version |-> "1.6", status |-> "waiting", timers |-> 0,
             creating |-> FALSE, out |-> {}, leaving |-> FALSE, done |-> FALSE]
  BY DEF NewCharger!Mounts
<1> QED BY <1>1, ConsoleAssumption DEF NewChargerInv

LEMMA NewChargerStep ==
  ASSUME NewChargerInv, NewCharger!Next
  PROVE  NewChargerInv'
<1> USE ConsoleAssumption DEF NewChargerInv
<1>1. CASE NewCharger!goNext
  <2>1. CASE ui.step = 1
    BY <1>1, <2>1 DEF NewCharger!goNext
  <2>2. CASE ui.step = 2
    <3>1. /\ ui.timers < Few
          /\ ui' = [ui EXCEPT !.step = 3, !.status = "waiting", !.timers = @ + 1]
      BY <1>1, <2>2 DEF NewCharger!goNext
    <3>2. ui'.timers = ui.timers + 1 /\ ui.timers + 1 \in 0..Few
      BY <3>1
    <3> QED BY <2>2, <3>1, <3>2
  <2> QED BY <1>1, <2>1, <2>2 DEF NewCharger!goNext
<1>2. CASE NewCharger!goBack
  BY <1>2 DEF NewCharger!goBack
<1>3. CASE NewCharger!TimerFires
  BY <1>3 DEF NewCharger!TimerFires
<1>4. CASE NewCharger!handleRegister
  BY <1>4 DEF NewCharger!handleRegister
<1>5. ASSUME NEW i \in Texts \union {Blank}, NewCharger!EnterId(i)
      PROVE  NewChargerInv'
  BY <1>5 DEF NewCharger!EnterId
<1>6. ASSUME NEW i \in Texts \union {Blank}, NewCharger!Registered(i)
      PROVE  NewChargerInv'
  <2>1. i \in ui.out /\ ui.out \ {i} = {}
    BY <1>6 DEF NewCharger!Registered
  <2>2. PICK ok \in BOOLEAN : ui' = [ui EXCEPT !.out = @ \ {i}, !.creating = FALSE, !.leaving = @ \/ ok]
    BY <1>6 DEF NewCharger!Registered
  <2> QED BY <2>1, <2>2
<1>7. ASSUME NEW v \in {"1.6", "2.0.1"}, NewCharger!Configure(v)
      PROVE  NewChargerInv'
  BY <1>7 DEF NewCharger!Configure
<1>8. CASE NewCharger!NavigationEnds
  BY <1>8 DEF NewCharger!NavigationEnds
<1> QED
  BY <1>1, <1>2, <1>3, <1>4, <1>5, <1>6, <1>7, <1>8 DEF NewCharger!Next
-----------------------------------------------------------------------------
(* The header of a charger's pages                                             *)

(* One dialog is open at a time.  As long as nothing overlapped, a request is  *)
(* out only for the open dialog that spins for it, and a dialog that was left  *)
(* in another step than its first has its reset pending.                       *)
ChargerInv ==
  /\ DOMAIN ui = {"srv", "next", "card", "startOpen", "idTag", "step", "reset", "starts", "stopOpen",
                  "stopStep", "stopReset", "stops", "told", "raced"}
  /\ ui.srv \in Charger!Connector /\ ui.card \in Charger!Connector /\ ui.next \in 0..Few
  /\ ui.idTag \in Tags \union {None} /\ ui.step \in {"form", "submitting", "success"}
  /\ ui.stopStep \in {"confirm", "stopping", "stopped"}
  /\ ui.startOpen \in BOOLEAN /\ ui.reset \in BOOLEAN /\ ui.stopOpen \in BOOLEAN
  /\ ui.stopReset \in BOOLEAN /\ ui.raced \in BOOLEAN
  /\ ui.starts \subseteq Tags /\ ui.stops \subseteq 1..Few /\ ui.told \subseteq Tags \union 1..Few
  /\ ui.step = "submitting" => ui.starts # {}
  /\ ui.stopStep = "stopping" => ui.stops # {}
  /\ ~(ui.startOpen /\ ui.stopOpen)
  /\ ~ui.raced =>
       /\ ui.starts # {} => ui.startOpen /\ ui.step = "submitting" /\ ui.starts = {ui.idTag}
       /\ ui.startOpen => ~ui.reset
       /\ ~ui.startOpen /\ ~ui.reset => ui.step = "form"
       /\ ui.startOpen /\ ui.step = "success" => ui.idTag \in ui.told
       /\ ui.stops # {} => ui.stopOpen /\ ui.stopStep = "stopping"
       /\ \A i, j \in ui.stops : i = j
       /\ ui.stopOpen => ~ui.stopReset
       /\ ~ui.stopOpen /\ ~ui.stopReset => ui.stopStep = "confirm"
       /\ ui.stopOpen /\ ui.stopStep = "stopped" => ui.told \intersect (1..Few) # {}

LEMMA ChargerHolds ==
  ASSUME ChargerInv
  PROVE  Charger!TypeOK /\ Charger!DialogsTruthful /\ Charger!SpinnerWaits
BY DEF ChargerInv, Charger!TypeOK, Charger!DialogsTruthful, Charger!SpinnerWaits

LEMMA ChargerMounts ==
  ASSUME ui' \in Charger!Mounts
  PROVE  ChargerInv'
<1>1. PICK c \in {[status |-> "Available", tx |-> 0], [status |-> "Charging", tx |-> 1]} :
        ui' = [srv |-> c, next |-> c.tx, card |-> c,
               startOpen |-> FALSE, idTag |-> None, step |-> "form", reset |-> FALSE, starts |-> {},
               stopOpen |-> FALSE, stopStep |-> "confirm", stopReset |-> FALSE, stops |-> {},
               told |-> {}, raced |-> FALSE]
  BY DEF Charger!Mounts
<1>2. c \in Charger!Connector /\ c.tx \in 0..Few
  BY ConsoleAssumption DEF Charger!Connector, Charger!Statuses
<1> HIDE DEF Charger!Connector
<1> QED BY <1>1, <1>2 DEF ChargerInv

LEMMA ChargerStep ==
  ASSUME ChargerInv, Charger!Next
  PROVE  ChargerInv'
<1> USE DEF ChargerInv
<1>1. CASE Charger!ChargerReports
  <2>1. ui'.srv \in Charger!Connector /\ ui'.next \in 0..Few
    <3> USE ConsoleAssumption DEF Charger!Connector, Charger!Statuses
    <3>1. CASE /\ ui.srv.status = "Available" /\ ui.next < Few
               /\ ui' = [ui EXCEPT !.srv = [status |-> "Charging", tx |-> ui.next + 1], !.next = @ + 1]
      <4>1. /\ ui'.srv = [status |-> "Charging", tx |-> ui.next + 1] /\ ui'.next = ui.next + 1
            /\ ui.next + 1 \in 0..Few
        BY <3>1
      <4> QED BY <4>1
    <3>2. CASE ui' = [ui EXCEPT !.srv = [status |-> "Available", tx |-> 0]]
      BY <3>2
    <3>3. CASE ui' = [ui EXCEPT !.srv.status = IF @ = "Charging" THEN "SuspendedEV" ELSE "Charging"]
      BY <3>3
    <3>4. CASE ui' = [ui EXCEPT !.srv = [status |-> IF @.status = "Faulted" THEN "Available" ELSE "Faulted", tx |-> 0]]
      BY <3>4
    <3> QED BY <1>1, <3>1, <3>2, <3>3, <3>4 DEF Charger!ChargerReports
  <2>2. /\ DOMAIN ui' = DOMAIN ui
        /\ \A x \in DOMAIN ui \ {"srv", "next"} : ui'[x] = ui[x]
    BY <1>1 DEF Charger!ChargerReports
  <2> QED BY <2>1, <2>2
<1>2. CASE Charger!Refresh
  BY <1>2 DEF Charger!Refresh
<1>3. CASE Charger!OpenStart
  BY <1>3 DEF Charger!OpenStart, Charger!Closed
<1>4. CASE Charger!OpenStop
  BY <1>4 DEF Charger!OpenStop, Charger!Closed
<1>5. CASE Charger!SubmitStart
  BY <1>5 DEF Charger!SubmitStart
<1>6. CASE Charger!CloseStart
  BY <1>6 DEF Charger!CloseStart
<1>7. CASE Charger!ResetStart
  BY <1>7 DEF Charger!ResetStart
<1>8. CASE Charger!handleStop
  <2>1. ui.card.tx \in 1..Few
    BY <1>8, ConsoleAssumption DEF Charger!handleStop, Charger!Connector
  <2> QED BY <1>8, <2>1 DEF Charger!handleStop
<1>9. CASE Charger!CloseStop
  BY <1>9 DEF Charger!CloseStop
<1>10. CASE Charger!ResetStop
  BY <1>10 DEF Charger!ResetStop
<1>11. ASSUME NEW t \in Tags, Charger!PickTag(t)
       PROVE  ChargerInv'
  BY <1>11 DEF Charger!PickTag
<1>12. ASSUME NEW t \in Tags, Charger!StartAnswered(t)
       PROVE  ChargerInv'
  <2>1. CASE ui' = [ui EXCEPT !.starts = @ \ {t}, !.step = "success", !.told = @ \union {t}, !.card = ui.srv]
    BY <1>12, <2>1 DEF Charger!StartAnswered
  <2>2. CASE ui' = [ui EXCEPT !.starts = @ \ {t}, !.step = "form"]
    BY <1>12, <2>2 DEF Charger!StartAnswered
  <2> QED BY <1>12, <2>1, <2>2 DEF Charger!StartAnswered
<1>13. ASSUME NEW tx \in 1..Few, Charger!StopAnswered(tx)
       PROVE  ChargerInv'
  <2>1. CASE ui' = [ui EXCEPT !.stops = @ \ {tx}, !.stopStep = "stopped", !.told = @ \union {tx}, !.card = ui.srv]
    <3>1. ui'.told = ui.told \union {tx} /\ ui'.told \intersect (1..Few) # {}
      BY <2>1
    <3> QED BY <1>13, <2>1, <3>1 DEF Charger!StopAnswered
  <2>2. CASE ui' = [ui EXCEPT !.stops = @ \ {tx}, !.stopStep = "confirm"]
    BY <1>13, <2>2 DEF Charger!StopAnswered
  <2> QED BY <1>13, <2>1, <2>2 DEF Charger!StopAnswered
<1> QED
  BY <1>1, <1>2, <1>3, <1>4, <1>5, <1>6, <1>7, <1>8, <1>9, <1>10, <1>11, <1>12, <1>13
  DEF Charger!Next
-----------------------------------------------------------------------------
(* What the pages keep with SWR and with fetchers (WebData)                    *)

Web == INSTANCE WebData

(* The cached data are those of the server, or the answer with them or the     *)
(* question for them is on its way.                                            *)
Fresh(s, d) == s.asked \/ s.snap = {d} \/ (s.snap = {} /\ s.data = d)

LEMMA CachedFresh ==
  ASSUME NEW D, NEW d \in D
  PROVE  Web!Cached(d) \in Web!Entries(D) /\ Fresh(Web!Cached(d), d)
BY DEF Web!Cached, Web!Entries, Fresh

LEMMA MutateFresh ==
  ASSUME NEW D, NEW s \in Web!Entries(D)
  PROVE  Web!mutate(s) \in Web!Entries(D) /\ \A d : Fresh(Web!mutate(s), d)
BY DEF Web!mutate, Web!Entries, Fresh

LEMMA ReadsFresh ==
  ASSUME NEW D, NEW s \in Web!Entries(D), NEW d \in D
  PROVE  Web!Reads(s, d) \in Web!Entries(D) /\ Fresh(Web!Reads(s, d), d)
BY DEF Web!Reads, Web!Entries, Fresh

LEMMA ArrivesFresh ==
  ASSUME NEW D, NEW s \in Web!Entries(D), s.snap # {}
  PROVE  /\ Web!Arrives(s) \in Web!Entries(D) /\ Web!Arrives(s).data \in s.snap
         /\ \A d : Fresh(s, d) => Fresh(Web!Arrives(s), d)
<1>1. PICK e \in s.snap : TRUE
  OBVIOUS
<1> DEFINE c == CHOOSE x \in s.snap : TRUE
<1>2. c \in s.snap
  BY <1>1
<1> HIDE DEF c
<1>3. Web!Arrives(s) = [s EXCEPT !.data = c, !.snap = {}]
  BY DEF Web!Arrives, c
<1>4. /\ Web!Arrives(s) \in Web!Entries(D) /\ Web!Arrives(s).data = c /\ Web!Arrives(s).snap = {}
      /\ Web!Arrives(s).asked = s.asked
  BY <1>2, <1>3 DEF Web!Entries
<1> QED BY <1>2, <1>4 DEF Fresh

LEMMA SubmitMoves ==
  ASSUME NEW V, NEW f \in Web!Fetchers(V), NEW v \in V
  PROVE  /\ Web!Submit(f, v) \in Web!Fetchers(V)
         /\ Web!Submit(f, v).state = "submitting" /\ Web!Submit(f, v).form = {v}
BY DEF Web!Fetchers, Web!Submit

LEMMA AnswerMoves ==
  ASSUME NEW V, NEW f \in Web!Fetchers(V)
  PROVE  /\ Web!Answer(f) \in Web!Fetchers(V)
         /\ Web!Answer(f).state = "loading" /\ Web!Answer(f).form = f.form
BY DEF Web!Fetchers, Web!Answer

LEMMA SettledMoves ==
  ASSUME NEW V, NEW f \in Web!Fetchers(V)
  PROVE  /\ Web!Settled(f) \in Web!Fetchers(V)
         /\ Web!Settled(f).state = "idle" /\ Web!Settled(f).form = {}
BY DEF Web!Fetchers, Web!Settled
(* The image of the calls under way and one more of them: what a submission    *)
(* makes of the calls.                                                         *)
LEMMA OneMore ==
  ASSUME NEW S, IsFiniteSet(S), NEW I, NEW h \in [S -> I], I = {h[c] : c \in S},
         NEW x, NEW n \in Nat, Cardinality(S) < n
  PROVE  IsFiniteSet(I \union {x}) /\ Cardinality(I \union {x}) <= n
<1>1. h \in Surjection(S, I)
  BY DEF Surjection
<1>2. IsFiniteSet(I) /\ Cardinality(I) <= Cardinality(S)
  BY <1>1, FS_Surjection
<1>3. Cardinality(S) \in Nat /\ Cardinality(I) \in Nat
  BY <1>2, FS_CardinalityType
<1>4. /\ IsFiniteSet(I \union {x})
      /\ Cardinality(I \union {x}) = IF x \in I THEN Cardinality(I) ELSE Cardinality(I) + 1
  BY <1>2, FS_AddElement
<1> QED BY <1>2, <1>3, <1>4

LEMMA OneLess ==
  ASSUME NEW S, IsFiniteSet(S), NEW x, NEW n \in Nat, Cardinality(S) <= n
  PROVE  IsFiniteSet(S \ {x}) /\ Cardinality(S \ {x}) <= n
BY FS_RemoveElement, FS_CardinalityType

-----------------------------------------------------------------------------
(* The reservations of a charger                                               *)

ReserveCalls == [arg : Reserve!Form, live : BOOLEAN]

ReserveTypes ==
  /\ DOMAIN ui = {"srv", "list", "open", "form", "reset", "reserve", "calls", "lied", "raced",
                  "superseded", "gone"}
  /\ ui.srv \in SUBSET (1..Few) /\ ui.list \in Web!Entries(SUBSET (1..Few)) /\ ui.form \in Reserve!Form
  /\ ui.reserve \in Web!Fetchers(Reserve!Form)
  /\ ui.open \in BOOLEAN /\ ui.reset \in BOOLEAN /\ ui.lied \in BOOLEAN /\ ui.raced \in BOOLEAN
  /\ ui.superseded \in BOOLEAN /\ ui.gone \in BOOLEAN
  /\ ui.calls \subseteq ReserveCalls /\ IsFiniteSet(ui.calls) /\ Cardinality(ui.calls) <= Few
  /\ \A c \in ui.calls : c.arg.id # 0

(* As long as nothing was touched or sent twice, what was submitted is what    *)
(* the open form holds.                                                        *)
ReserveToast ==
  /\ ui.lied => ui.raced
  /\ ~ui.raced => /\ ui.open => ~ui.reset
                  /\ ui.reserve.state # "idle" => ui.open /\ ui.reserve.form = {ui.form}

(* The fetcher waits for one call at most, and for each as long as no          *)
(* submission was superseded; the list is then fresh unless the fetcher is     *)
(* about to ask for it again or the page was replaced.                         *)
ReserveFresh ==
  /\ \A c \in ui.calls : c.live => ui.reserve.state = "submitting"
  /\ \A c, d \in ui.calls : c.live /\ d.live => c = d
  /\ ~ui.superseded =>
       /\ \A c \in ui.calls : c.live
       /\ ui.gone \/ ui.reserve.state = "loading" \/ Fresh(ui.list, ui.srv)

ReserveInv == ReserveTypes /\ ReserveToast /\ ReserveFresh

LEMMA ReserveHolds ==
  ASSUME ReserveInv
  PROVE  Reserve!TypeOK /\ Reserve!ReserveToastTrue /\ Reserve!ReservationsSettle
<1>1. Reserve!TypeOK
  <2>1. /\ \A D : Reserve!Entries(D) = Web!Entries(D)
        /\ \A V : Reserve!Fetchers(V) = Web!Fetchers(V)
    BY DEF Web!Entries, Web!Fetchers, Reserve!Entries, Reserve!Fetchers
  <2>2. \A S : Reserve!Cardinality(S) = Cardinality(S)
    BY DEF Reserve!Cardinality, Cardinality
  <2> QED BY <2>1, <2>2 DEF ReserveInv, ReserveTypes, ReserveCalls, Reserve!TypeOK
<1>2. Reserve!ReserveToastTrue
  BY DEF ReserveInv, ReserveToast, Reserve!ReserveToastTrue
<1>3. Reserve!ReservationsSettle
  BY DEF ReserveInv, ReserveFresh, Fresh, Reserve!ReservationsSettle, Reserve!Busy, Reserve!Resting
<1> QED BY <1>1, <1>2, <1>3

LEMMA ReserveMounts ==
  ASSUME ui' \in Reserve!Mounts
  PROVE  ReserveInv'
<1>1. PICK rows \in SUBSET (1..Few) : \E loaded \in {rows, {}} :
        ui' = [srv |-> rows, list |-> Reserve!mutate(Reserve!Cached(loaded)), open |-> FALSE, form |-> Reserve!EmptyForm,
               reset |-> FALSE, reserve |-> Reserve!Idle, calls |-> {},
               lied |-> FALSE, raced |-> FALSE, superseded |-> FALSE, gone |-> FALSE]
  BY Zenon DEF Reserve!Mounts
<1>2. PICK loaded \in {rows, {}} :
        ui' = [srv |-> rows, list |-> Reserve!mutate(Reserve!Cached(loaded)), open |-> FALSE, form |-> Reserve!EmptyForm,
               reset |-> FALSE, reserve |-> Reserve!Idle, calls |-> {},
               lied |-> FALSE, raced |-> FALSE, superseded |-> FALSE, gone |-> FALSE]
  BY <1>1, Zenon
<1>3. rows \in SUBSET (1..Few) /\ loaded \in SUBSET (1..Few)
  OBVIOUS
<1>4. ui'.list = Web!mutate(Web!Cached(loaded))
  BY <1>2 DEF Reserve!mutate, Reserve!Cached, Web!mutate, Web!Cached
<1>5. ui'.list \in Web!Entries(SUBSET (1..Few)) /\ Fresh(ui'.list, ui'.srv)
  BY <1>3, <1>4, CachedFresh, MutateFresh
<1>6. Reserve!EmptyForm \in Reserve!Form
  BY ConsoleAssumption DEF Reserve!EmptyForm, Reserve!Form
<1>7. Reserve!Idle \in Web!Fetchers(Reserve!Form) /\ Reserve!Idle.state = "idle" /\ Reserve!Idle.form = {}
  BY DEF Reserve!Idle, Web!Fetchers
<1>8. IsFiniteSet({}) /\ Cardinality({}) = 0
  BY FS_EmptySet
<1>9. ReserveTypes'
  BY <1>2, <1>3, <1>5, <1>6, <1>7, <1>8, ConsoleAssumption DEF ReserveTypes
<1>10. ReserveToast' /\ ReserveFresh'
  BY <1>2, <1>5, <1>7 DEF ReserveToast, ReserveFresh
<1> QED BY <1>9, <1>10 DEF ReserveInv

(* What a submission makes of the calls: the one a busy fetcher waited for is  *)
(* nobody's any more.                                                          *)
LEMMA ReserveSubmits ==
  ASSUME ReserveTypes, Reserve!Room, NEW f, NEW arg \in Reserve!Form, arg.id # 0
  PROVE  LET calls == Reserve!Superseding(f, arg)
             x == [arg |-> arg, live |-> TRUE]
         IN  /\ calls \subseteq ReserveCalls /\ IsFiniteSet(calls) /\ Cardinality(calls) <= Few
             /\ \A c \in calls : c.arg.id # 0
             /\ \A c \in calls : c.live => c = x \/ (c \in ui.calls /\ f.state = "idle")
             /\ f.state = "idle" => \A c \in calls : c \in ui.calls \/ c = x
<1> DEFINE x == [arg |-> arg, live |-> TRUE]
           h(c) == [c EXCEPT !.live = @ /\ ~Reserve!Busy(f)]
           I == {h(c) : c \in ui.calls}
           k == [c \in ui.calls |-> h(c)]
           calls == Reserve!Superseding(f, arg)
<1>1. calls = I \union {x}
  BY DEF Reserve!Superseding
<1>2. IsFiniteSet(ui.calls) /\ Cardinality(ui.calls) < Few /\ ui.calls \subseteq ReserveCalls /\ Few \in Nat
  <2>1. \A S : Reserve!Cardinality(S) = Cardinality(S)
    BY DEF Reserve!Cardinality, Cardinality
  <2> QED BY <2>1, ConsoleAssumption DEF ReserveTypes, Reserve!Room
<1>3. x \in ReserveCalls /\ x.live /\ x.arg.id # 0
  BY DEF ReserveCalls
<1>4. ASSUME NEW c \in ui.calls
      PROVE  /\ h(c) \in ReserveCalls /\ h(c).arg.id # 0
             /\ h(c).live => h(c) = c /\ f.state = "idle"
             /\ f.state = "idle" => h(c) = c
  BY <1>2 DEF ReserveCalls, ReserveTypes, Reserve!Busy
<1>5. IsFiniteSet(I \union {x}) /\ Cardinality(I \union {x}) <= Few
  <2>1. k \in [ui.calls -> I] /\ I = {k[c] : c \in ui.calls}
    OBVIOUS
  <2> HIDE DEF k, I, x
  <2> QED BY <1>2, <2>1, OneMore
<1>6. \A c \in I : \E d \in ui.calls : c = h(d)
  OBVIOUS
<1> HIDE DEF h, I, k, x, calls
<1>7. \A c \in calls : /\ c \in ReserveCalls /\ c.arg.id # 0
                       /\ c.live => c = x \/ (c \in ui.calls /\ f.state = "idle")
                       /\ f.state = "idle" => c \in ui.calls \/ c = x
  <2> SUFFICES ASSUME NEW c \in calls
               PROVE  /\ c \in ReserveCalls /\ c.arg.id # 0
                      /\ c.live => c = x \/ (c \in ui.calls /\ f.state = "idle")
                      /\ f.state = "idle" => c \in ui.calls \/ c = x
    OBVIOUS
  <2>1. CASE c = x
    BY <1>3, <2>1
  <2>2. CASE c \in I
    <3>1. PICK d \in ui.calls : c = h(d)
      BY <1>6, <2>2
    <3> QED BY <1>4, <3>1
  <2> QED BY <1>1, <2>1, <2>2
<1> QED BY <1>1, <1>5, <1>7 DEF calls, x

LEMMA ReserveStep ==
  ASSUME ReserveInv, Reserve!Next
  PROVE  ReserveInv'
<1> USE DEF ReserveInv
<1>0. ReserveTypes /\ ReserveToast /\ ReserveFresh /\ ~ui.gone
  BY DEF Reserve!Next
<1>1. CASE Reserve!setNewDialogOpen
  <2>1. ReserveTypes'
    BY <1>1 DEF ReserveTypes, Reserve!setNewDialogOpen
  <2>2. ReserveToast'
    BY <1>1 DEF ReserveTypes, ReserveToast, Reserve!setNewDialogOpen, Reserve!Busy
  <2>3. ReserveFresh'
    BY <1>1 DEF ReserveTypes, ReserveFresh, Reserve!setNewDialogOpen
  <2> QED BY <2>1, <2>2, <2>3
<1>2. CASE Reserve!EditForm
  <2>1. PICK f \in Reserve!Form : ui' = [ui EXCEPT !.form = f, !.raced = @ \/ Reserve!Busy(ui.reserve)]
    <3>1. ui.form \in Reserve!Form /\ {"form", "raced"} \subseteq DOMAIN ui
      BY DEF ReserveTypes
    <3>2. CASE \E c \in {1} \ {ui.form.conn} : ui' = [ui EXCEPT !.form.conn = c, !.raced = @ \/ Reserve!Busy(ui.reserve)]
      <4>1. PICK c \in {1} : ui' = [ui EXCEPT !.form.conn = c, !.raced = @ \/ Reserve!Busy(ui.reserve)]
        BY <3>2
      <4>2. [ui.form EXCEPT !.conn = c] \in Reserve!Form
        BY <3>1 DEF Reserve!Form
      <4> QED BY <4>1, <4>2
    <3>3. CASE \E i \in (1..Few \union {0}) \ {ui.form.id} : ui' = [ui EXCEPT !.form.id = i, !.raced = @ \/ Reserve!Busy(ui.reserve)]
      <4>1. PICK i \in 1..Few \union {0} : ui' = [ui EXCEPT !.form.id = i, !.raced = @ \/ Reserve!Busy(ui.reserve)]
        BY <3>3
      <4>2. [ui.form EXCEPT !.id = i] \in Reserve!Form
        BY <3>1 DEF Reserve!Form
      <4> QED BY <4>1, <4>2
    <3> QED BY <1>2, <3>2, <3>3 DEF Reserve!EditForm
  <2>2. ReserveTypes'
    BY <2>1 DEF ReserveTypes, Reserve!Busy
  <2>3. ReserveToast'
    BY <2>1 DEF ReserveTypes, ReserveToast, Reserve!Busy
  <2>4. ReserveFresh'
    BY <2>1 DEF ReserveTypes, ReserveFresh
  <2> QED BY <2>2, <2>3, <2>4
<1>3. CASE Reserve!handleSubmit
  <2> DEFINE calls == Reserve!Superseding(ui.reserve, ui.form)
             x == [arg |-> ui.form, live |-> TRUE]
  <2>1. /\ Reserve!Room /\ ui.open /\ ui.form.id # 0
        /\ ui' = [ui EXCEPT !.reserve = Web!Submit(@, ui.form), !.calls = calls,
                            !.superseded = @ \/ Reserve!Busy(ui.reserve), !.raced = @ \/ Reserve!Busy(ui.reserve)]
    BY <1>3 DEF Reserve!handleSubmit, Reserve!validate, Reserve!Submit, Web!Submit
  <2>2. /\ calls \subseteq ReserveCalls /\ IsFiniteSet(calls) /\ Cardinality(calls) <= Few
        /\ \A c \in calls : c.arg.id # 0
        /\ \A c \in calls : c.live => c = x \/ (c \in ui.calls /\ ui.reserve.state = "idle")
        /\ ui.reserve.state = "idle" => \A c \in calls : c \in ui.calls \/ c = x
    BY <2>1, ReserveSubmits DEF ReserveTypes
  <2>3. /\ Web!Submit(ui.reserve, ui.form) \in Web!Fetchers(Reserve!Form)
        /\ Web!Submit(ui.reserve, ui.form).state = "submitting" /\ Web!Submit(ui.reserve, ui.form).form = {ui.form}
    BY SubmitMoves DEF ReserveTypes
  <2>4. x.live
    OBVIOUS
  <2> HIDE DEF calls, x
  <2>5. ReserveTypes'
    BY <2>1, <2>2, <2>3 DEF ReserveTypes, Reserve!Busy
  <2>6. ReserveToast'
    BY <2>1, <2>3 DEF ReserveTypes, ReserveToast, Reserve!Busy
  <2>7. ReserveFresh'
    <3>1. /\ ui'.calls = calls /\ ui'.reserve.state = "submitting" /\ ui'.list = ui.list /\ ui'.srv = ui.srv
          /\ ui'.superseded = (ui.superseded \/ ui.reserve.state # "idle") /\ ui'.gone = ui.gone
      BY <2>1, <2>3 DEF ReserveTypes, Reserve!Busy
    <3>2. \A c \in calls : c.live => c = x
      BY <2>2 DEF ReserveFresh
    <3>3. ~ui'.superseded => \A c \in calls : c.live
      BY <2>2, <2>4, <3>1 DEF ReserveFresh
    <3>4. ~ui'.superseded => Fresh(ui.list, ui.srv)
      BY <1>0, <3>1 DEF ReserveFresh
    <3> QED BY <3>1, <3>2, <3>3, <3>4 DEF ReserveFresh
  <2> QED BY <2>5, <2>6, <2>7
<1>4. CASE Reserve!handleClose
  <2>1. ReserveTypes'
    BY <1>4 DEF ReserveTypes, Reserve!handleClose
  <2>2. ReserveToast'
    BY <1>4 DEF ReserveTypes, ReserveToast, Reserve!handleClose, Reserve!Busy
  <2>3. ReserveFresh'
    BY <1>4 DEF ReserveTypes, ReserveFresh, Reserve!handleClose
  <2> QED BY <2>1, <2>2, <2>3
<1>5. CASE Reserve!reset
  <2>0. Reserve!EmptyForm \in Reserve!Form
    BY DEF Reserve!EmptyForm, Reserve!Form
  <2>1. ReserveTypes'
    BY <1>5, <2>0 DEF ReserveTypes, Reserve!reset
  <2>2. ReserveToast'
    BY <1>5 DEF ReserveTypes, ReserveToast, Reserve!reset
  <2>3. ReserveFresh'
    BY <1>5 DEF ReserveTypes, ReserveFresh, Reserve!reset
  <2> QED BY <2>1, <2>2, <2>3
<1>6. CASE Reserve!Reserved
  <2>1. /\ ui.reserve.state = "loading"
        /\ ui' = [ui EXCEPT !.reserve = Web!Settled(@), !.lied = @ \/ \E f \in ui.reserve.form : f.conn # ui.form.conn,
                            !.open = FALSE, !.reset = TRUE, !.list = Web!mutate(@)]
    BY <1>6 DEF Reserve!Reserved, Reserve!Settled, Reserve!mutate, Web!Settled, Web!mutate
  <2>2. /\ Web!Settled(ui.reserve) \in Web!Fetchers(Reserve!Form) /\ Web!Settled(ui.reserve).state = "idle"
        /\ Web!mutate(ui.list) \in Web!Entries(SUBSET (1..Few)) /\ \A d : Fresh(Web!mutate(ui.list), d)
    BY SettledMoves, MutateFresh DEF ReserveTypes
  <2>3. ReserveTypes'
    BY <2>1, <2>2 DEF ReserveTypes
  <2>4. ReserveToast'
    BY <2>1, <2>2 DEF ReserveTypes, ReserveToast
  <2>5. ReserveFresh'
    BY <2>1, <2>2 DEF ReserveTypes, ReserveFresh
  <2> QED BY <2>3, <2>4, <2>5
<1>7. CASE Reserve!ListRead
  <2>1. ui' = [ui EXCEPT !.list = Web!Reads(@, ui.srv)]
    BY <1>7 DEF Reserve!ListRead, Reserve!Reads, Web!Reads
  <2>2. Web!Reads(ui.list, ui.srv) \in Web!Entries(SUBSET (1..Few)) /\ Fresh(Web!Reads(ui.list, ui.srv), ui.srv)
    BY ReadsFresh DEF ReserveTypes
  <2>3. ReserveTypes'
    BY <2>1, <2>2 DEF ReserveTypes
  <2>4. ReserveToast'
    BY <2>1 DEF ReserveTypes, ReserveToast
  <2>5. ReserveFresh'
    BY <2>1, <2>2 DEF ReserveTypes, ReserveFresh
  <2> QED BY <2>3, <2>4, <2>5
<1>8. CASE Reserve!ListArrives
  <2>1. ui.list.snap # {} /\ ui' = [ui EXCEPT !.list = Web!Arrives(@)]
    BY <1>8 DEF Reserve!ListArrives, Reserve!Arrives, Web!Arrives
  <2>2. /\ Web!Arrives(ui.list) \in Web!Entries(SUBSET (1..Few))
        /\ Fresh(ui.list, ui.srv) => Fresh(Web!Arrives(ui.list), ui.srv)
    BY <2>1, ArrivesFresh DEF ReserveTypes
  <2>3. ReserveTypes'
    BY <2>1, <2>2 DEF ReserveTypes
  <2>4. ReserveToast'
    BY <2>1 DEF ReserveTypes, ReserveToast
  <2>5. ReserveFresh'
    BY <2>1, <2>2 DEF ReserveTypes, ReserveFresh
  <2> QED BY <2>3, <2>4, <2>5
<1>9. ASSUME NEW c \in ui.calls
      PROVE  /\ IsFiniteSet(ui.calls \ {c}) /\ Cardinality(ui.calls \ {c}) <= Few /\ c \in ReserveCalls
             /\ Reserve!Stored(c) \in SUBSET (1..Few)
  <2>1. c \in ReserveCalls /\ c.arg.id \in 1..Few
    BY DEF ReserveTypes, ReserveCalls, Reserve!Form
  <2> QED BY <2>1, OneLess, ConsoleAssumption DEF ReserveTypes, Reserve!Stored
<1>10. ASSUME NEW c \in ui.calls, Reserve!reserveNow(c)
       PROVE  ReserveInv'
  <2>1. ui' = [ui EXCEPT !.srv = Reserve!Stored(c), !.calls = @ \ {c},
                         !.reserve = IF c.live THEN Web!Answer(@) ELSE @]
    BY <1>10 DEF Reserve!reserveNow, Reserve!Answer, Web!Answer
  <2>2. /\ Web!Answer(ui.reserve) \in Web!Fetchers(Reserve!Form) /\ Web!Answer(ui.reserve).state = "loading"
        /\ Web!Answer(ui.reserve).form = ui.reserve.form
    BY AnswerMoves DEF ReserveTypes
  <2>3. c.live => ui.reserve.state = "submitting"
    BY DEF ReserveFresh
  <2>4. ReserveTypes'
    BY <1>9, <2>1, <2>2 DEF ReserveTypes
  <2>5. ReserveToast'
    BY <2>1, <2>2, <2>3 DEF ReserveTypes, ReserveToast
  <2>6. ReserveFresh'
    BY <2>1, <2>2 DEF ReserveTypes, ReserveFresh
  <2> QED BY <2>4, <2>5, <2>6
<1>11. ASSUME NEW c \in ui.calls, Reserve!Refused(c)
       PROVE  ReserveInv'
  <2>1. PICK rows \in {ui.srv, Reserve!Stored(c)} : ui' = [ui EXCEPT !.srv = rows, !.calls = @ \ {c}, !.gone = c.live]
    BY <1>11 DEF Reserve!Refused
  <2>2. c.live \in BOOLEAN /\ rows \in SUBSET (1..Few)
    BY <1>9, <2>1 DEF ReserveCalls, ReserveTypes
  <2>3. ReserveTypes'
    BY <1>9, <2>1, <2>2 DEF ReserveTypes
  <2>4. ReserveToast'
    BY <2>1 DEF ReserveTypes, ReserveToast
  <2>5. ReserveFresh'
    BY <2>1, <2>2 DEF ReserveTypes, ReserveFresh
  <2> QED BY <2>3, <2>4, <2>5
<1> QED
  BY <1>1, <1>2, <1>3, <1>4, <1>5, <1>6, <1>7, <1>8, <1>10, <1>11 DEF Reserve!Next
-----------------------------------------------------------------------------
(* The settings of a charger                                                   *)

TagCalls == [op : {"add", "remove"}, arg : Tags, live : BOOLEAN]

ConfTypes ==
  /\ DOMAIN ui = {"sec", "srv", "list", "editingKey", "editValue", "savingKey", "saves", "refreshing", "timers",
                  "config", "seen", "newIdTag", "add", "remove", "calls", "dialog", "superseded", "gone"}
  /\ ui.sec \in ChargerConf!Sections /\ ui.srv \in SUBSET Tags /\ ui.list \in Web!Entries(SUBSET Tags)
  /\ ui.editingKey \in Keys \union {None} /\ ui.savingKey \in Keys \union {None}
  /\ ui.editValue \in ChargerConf!Draft /\ ui.saves \subseteq [key : Keys, val : ChargerConf!Draft]
  /\ ui.config \in [Keys -> Texts] /\ ui.seen \in [Keys -> Texts]
  /\ ui.refreshing \in BOOLEAN /\ ui.timers \in {0, 1} /\ ui.newIdTag \in Tags \union {None}
  /\ ui.add \in Web!Fetchers(Tags) /\ ui.remove \in Web!Fetchers(Tags)
  /\ ui.dialog \in BOOLEAN /\ ui.superseded \in BOOLEAN /\ ui.gone \in BOOLEAN
  /\ ui.calls \subseteq TagCalls /\ IsFiniteSet(ui.calls) /\ Cardinality(ui.calls) <= Few
  /\ IsFiniteSet(ui.saves) /\ Cardinality(ui.saves) <= Few
  /\ ui.sec = "config" => ui.calls = {}
  /\ ui.sec # "config" => ui.saves = {}
  /\ ui.dialog => ui.sec = "profiles"

(* The field holds a text for the key that is edited, and the tags are fresh   *)
(* unless a fetcher is about to ask for them again.                            *)
ConfOwn ==
  /\ ui.editingKey # None => ui.editValue.of = ui.editingKey
  /\ \A s \in ui.saves : s.val.of = s.key

ConfFresh ==
  /\ ui.remove.state = "idle" => ui.remove.form = {}
  /\ ~ui.superseded => \A c \in ui.calls : c.live
  /\ ui.sec = "tags" /\ ~ui.superseded =>
       ui.add.state = "loading" \/ ui.remove.state = "loading" \/ Fresh(ui.list, ui.srv)

ConfInv == ConfTypes /\ ConfOwn /\ ConfFresh

LEMMA ConfHolds ==
  ASSUME ConfInv
  PROVE  ChargerConf!TypeOK /\ ChargerConf!SavesOwnKey /\ ChargerConf!TagsSettle
<1>1. ChargerConf!TypeOK
  <2>1. /\ \A D : ChargerConf!Entries(D) = Web!Entries(D)
        /\ \A V : ChargerConf!Fetchers(V) = Web!Fetchers(V)
    BY DEF Web!Entries, Web!Fetchers, ChargerConf!Entries, ChargerConf!Fetchers
  <2>2. \A S : ChargerConf!Cardinality(S) = Cardinality(S)
    BY DEF ChargerConf!Cardinality, Cardinality
  <2>3. Cardinality(ui.calls) + Cardinality(ui.saves) <= Few
    <3> DEFINE m == Cardinality(ui.calls)
               n == Cardinality(ui.saves)
    <3>1. m \in Nat /\ n \in Nat /\ m <= Few /\ n <= Few
      BY FS_CardinalityType DEF ConfInv, ConfTypes
    <3>2. m = 0 \/ n = 0
      BY FS_EmptySet DEF ConfInv, ConfTypes
    <3> HIDE DEF m, n
    <3>3. m + n <= Few
      BY <3>1, <3>2
    <3> QED BY <3>3 DEF m, n
  <2>4. ui.timers \in 0..1
    BY DEF ConfInv, ConfTypes
  <2> QED BY <2>1, <2>2, <2>3, <2>4 DEF ConfInv, ConfTypes, ChargerConf!TypeOK
<1>2. ChargerConf!SavesOwnKey
  BY DEF ConfInv, ConfOwn, ChargerConf!SavesOwnKey
<1>3. ChargerConf!TagsSettle
  BY DEF ConfInv, ConfFresh, Fresh, ChargerConf!TagsSettle, ChargerConf!Busy, ChargerConf!Resting, ChargerConf!Visible
<1> QED BY <1>1, <1>2, <1>3

LEMMA ConfMounts ==
  ASSUME ui' \in ChargerConf!Mounts
  PROVE  ConfInv'
<1> DEFINE Page(s, had) ==
      [sec |-> s, srv |-> had, list |-> ChargerConf!Cached(had),
       editingKey |-> None, editValue |-> ChargerConf!NoDraft, savingKey |-> None, saves |-> {},
       refreshing |-> FALSE, timers |-> 0, config |-> [k \in Keys |-> ChargerConf!NoDraft.text],
       seen |-> [k \in Keys |-> ChargerConf!NoDraft.text],
       newIdTag |-> None, add |-> ChargerConf!Idle, remove |-> ChargerConf!Idle, calls |-> {},
       dialog |-> FALSE, superseded |-> FALSE, gone |-> FALSE]
<1>1. PICK s \in ChargerConf!Sections : \E had \in {{}, Tags} : ui' = Page(s, had)
  BY DEF ChargerConf!Mounts
<1>2. PICK had \in {{}, Tags} : ui' = Page(s, had)
  BY <1>1, Zenon
<1>3. ChargerConf!NoDraft \in ChargerConf!Draft /\ ChargerConf!NoDraft.text \in Texts
  BY ConsoleAssumption DEF ChargerConf!NoDraft, ChargerConf!Draft
<1>4. ui'.list = Web!Cached(had) /\ ui'.srv = had /\ had \in SUBSET Tags
  BY <1>2 DEF ChargerConf!Cached, Web!Cached
<1>5. ui'.list \in Web!Entries(SUBSET Tags) /\ Fresh(ui'.list, ui'.srv)
  BY <1>4, CachedFresh
<1>6. /\ ChargerConf!Idle \in Web!Fetchers(Tags) /\ ChargerConf!Idle.state = "idle" /\ ChargerConf!Idle.form = {}
  BY DEF ChargerConf!Idle, Web!Fetchers
<1>7. IsFiniteSet({}) /\ Cardinality({}) = 0
  BY FS_EmptySet
<1>8. ConfTypes'
  BY <1>2, <1>3, <1>4, <1>5, <1>6, <1>7, ConsoleAssumption DEF ConfTypes
<1>9. ConfOwn' /\ ConfFresh'
  BY <1>2, <1>5, <1>6 DEF ConfOwn, ConfFresh
<1> QED BY <1>8, <1>9 DEF ConfInv
LEMMA ConfSubmits ==
  ASSUME ConfTypes, ChargerConf!Room, NEW op \in {"add", "remove"}, NEW f, NEW arg \in Tags
  PROVE  LET calls == ChargerConf!Superseding(op, f, arg)
         IN  /\ calls \subseteq TagCalls /\ IsFiniteSet(calls) /\ Cardinality(calls) <= Few
             /\ f.state = "idle" /\ (\A c \in ui.calls : c.live) => \A c \in calls : c.live
<1> DEFINE x == [op |-> op, arg |-> arg, live |-> TRUE]
           h(c) == [c EXCEPT !.live = c.live /\ (c.op = op => ~ChargerConf!Busy(f))]
           I == {h(c) : c \in ui.calls}
           k == [c \in ui.calls |-> h(c)]
           calls == ChargerConf!Superseding(op, f, arg)
<1>1. calls = I \union {x}
  BY DEF ChargerConf!Superseding
<1>2. IsFiniteSet(ui.calls) /\ Cardinality(ui.calls) < Few /\ ui.calls \subseteq TagCalls /\ Few \in Nat
  <2>1. \A S : ChargerConf!Cardinality(S) = Cardinality(S)
    BY DEF ChargerConf!Cardinality, Cardinality
  <2> QED BY <2>1, ConsoleAssumption DEF ConfTypes, ChargerConf!Room
<1>3. x \in TagCalls /\ x.live
  BY DEF TagCalls
<1>4. ASSUME NEW c \in TagCalls
      PROVE  /\ h(c) \in TagCalls
             /\ f.state = "idle" /\ c.live => h(c).live
  BY DEF TagCalls, ChargerConf!Busy
<1>5. k \in [ui.calls -> I] /\ I = {k[c] : c \in ui.calls}
  OBVIOUS
<1>6. /\ I \subseteq TagCalls
      /\ f.state = "idle" /\ (\A c \in ui.calls : c.live) => \A c \in I : c.live
  BY <1>2, <1>4
<1> HIDE DEF k, I, x, calls
<1>7. IsFiniteSet(I \union {x}) /\ Cardinality(I \union {x}) <= Few
  BY <1>2, <1>5, OneMore
<1>8. /\ calls \subseteq TagCalls /\ IsFiniteSet(calls) /\ Cardinality(calls) <= Few
      /\ f.state = "idle" /\ (\A c \in ui.calls : c.live) => \A c \in calls : c.live
  BY <1>1, <1>3, <1>6, <1>7
<1> QED BY <1>8, Zenon DEF calls

LEMMA ConfStep ==
  ASSUME ConfInv, ChargerConf!Next
  PROVE  ConfInv'
<1>0. ConfTypes /\ ConfOwn /\ ConfFresh
  BY DEF ConfInv
<1> SUFFICES ConfTypes' /\ ConfOwn' /\ ConfFresh'
  BY DEF ConfInv
<1>1. ASSUME NEW k \in Keys, ChargerConf!handleEditConfig(k)
      PROVE  ConfTypes' /\ ConfOwn' /\ ConfFresh'
  <2>1. [of |-> k, text |-> ui.seen[k]] \in ChargerConf!Draft
    BY <1>0 DEF ConfTypes, ChargerConf!Draft
  <2>2. ConfTypes'
    BY <1>0, <1>1, <2>1 DEF ConfTypes, ChargerConf!handleEditConfig
  <2>3. ConfOwn' /\ ConfFresh'
    BY <1>0, <1>1 DEF ConfTypes, ConfOwn, ConfFresh, ChargerConf!handleEditConfig
  <2> QED BY <2>2, <2>3
<1>2. ASSUME NEW t \in Texts, ChargerConf!setEditValue(t)
      PROVE  ConfTypes' /\ ConfOwn' /\ ConfFresh'
  <2>1. /\ [ui.editValue EXCEPT !.text = t] \in ChargerConf!Draft
        /\ [ui.editValue EXCEPT !.text = t].of = ui.editValue.of
    BY <1>0 DEF ConfTypes, ChargerConf!Draft
  <2>2. ui' = [ui EXCEPT !.editValue = [ui.editValue EXCEPT !.text = t]]
    BY <1>2 DEF ChargerConf!setEditValue
  <2>3. ConfTypes'
    BY <1>0, <2>1, <2>2 DEF ConfTypes
  <2>4. ConfOwn' /\ ConfFresh'
    BY <1>0, <2>1, <2>2 DEF ConfTypes, ConfOwn, ConfFresh
  <2> QED BY <2>3, <2>4
<1>3. ASSUME NEW k \in Keys, ChargerConf!handleSaveConfig(k)
      PROVE  ConfTypes' /\ ConfOwn' /\ ConfFresh'
  <2> DEFINE s == [key |-> k, val |-> ui.editValue]
  <2>1. s \in [key : Keys, val : ChargerConf!Draft] /\ s.val.of = s.key
    BY <1>0, <1>3, ConsoleAssumption DEF ConfTypes, ConfOwn, ChargerConf!handleSaveConfig
  <2>2. /\ ui.sec = "config" /\ Cardinality(ui.saves) < Few
        /\ ui' = [ui EXCEPT !.savingKey = k, !.saves = @ \union {s}]
    <3>1. \A S : ChargerConf!Cardinality(S) = Cardinality(S)
      BY DEF ChargerConf!Cardinality, Cardinality
    <3> QED BY <1>3, <3>1 DEF ChargerConf!handleSaveConfig, ChargerConf!InConfig
  <2> HIDE DEF s
  <2>3. IsFiniteSet(ui.saves \union {s}) /\ Cardinality(ui.saves \union {s}) <= Few
    <3>1. /\ IsFiniteSet(ui.saves \union {s})
          /\ Cardinality(ui.saves \union {s}) \in {Cardinality(ui.saves), Cardinality(ui.saves) + 1}
      BY <1>0, FS_AddElement DEF ConfTypes
    <3> QED BY <1>0, <2>2, <3>1, FS_CardinalityType, ConsoleAssumption DEF ConfTypes
  <2>4. ConfTypes'
    BY <1>0, <2>1, <2>2, <2>3 DEF ConfTypes
  <2>5. ConfOwn' /\ ConfFresh'
    BY <1>0, <2>1, <2>2 DEF ConfTypes, ConfOwn, ConfFresh
  <2> QED BY <2>4, <2>5
<1>4. ASSUME NEW s \in ui.saves, ChargerConf!SaveAnswered(s)
      PROVE  ConfTypes' /\ ConfOwn' /\ ConfFresh'
  <2>1. IsFiniteSet(ui.saves \ {s}) /\ Cardinality(ui.saves \ {s}) <= Few
    BY <1>0, OneLess, ConsoleAssumption DEF ConfTypes
  <2>2. s.key \in Keys /\ s.val.text \in Texts
    BY <1>0 DEF ConfTypes, ChargerConf!Draft
  <2>3. [ui.config EXCEPT ![s.key] = s.val.text] \in [Keys -> Texts]
    BY <1>0, <2>2 DEF ConfTypes
  <2>4. CASE ui' = [ui EXCEPT !.saves = @ \ {s}, !.config = [ui.config EXCEPT ![s.key] = s.val.text],
                              !.editingKey = None, !.savingKey = None,
                              !.seen = [ui.config EXCEPT ![s.key] = s.val.text]]
    BY <1>0, <2>1, <2>3, <2>4 DEF ConfTypes, ConfOwn, ConfFresh
  <2>5. CASE ui' = [ui EXCEPT !.saves = @ \ {s}, !.savingKey = None]
    BY <1>0, <2>1, <2>5 DEF ConfTypes, ConfOwn, ConfFresh
  <2> QED BY <1>4, <2>4, <2>5 DEF ChargerConf!SaveAnswered
<1>5. CASE ChargerConf!handleCancelConfig
  BY <1>0, <1>5 DEF ConfTypes, ConfOwn, ConfFresh, ChargerConf!handleCancelConfig
<1>6. CASE ChargerConf!handleRefreshConfig
  BY <1>0, <1>6 DEF ConfTypes, ConfOwn, ConfFresh, ChargerConf!handleRefreshConfig
<1>7. CASE ChargerConf!RefreshAnswered
  <2>1. CASE ui.timers = 0 /\ ui' = [ui EXCEPT !.refreshing = FALSE, !.timers = ui.timers + 1]
    <3>1. ui' = [ui EXCEPT !.refreshing = FALSE, !.timers = 1]
      BY <2>1
    <3> QED BY <1>0, <3>1 DEF ConfTypes, ConfOwn, ConfFresh
  <2>2. CASE ui' = [ui EXCEPT !.refreshing = FALSE]
    BY <1>0, <2>2 DEF ConfTypes, ConfOwn, ConfFresh
  <2> QED BY <1>7, <2>1, <2>2 DEF ChargerConf!RefreshAnswered
<1>8. CASE ChargerConf!TimerFires
  BY <1>0, <1>8 DEF ConfTypes, ConfOwn, ConfFresh, ChargerConf!TimerFires
<1>9. ASSUME NEW t \in Tags \union {None}, ChargerConf!setNewIdTag(t)
      PROVE  ConfTypes' /\ ConfOwn' /\ ConfFresh'
  BY <1>0, <1>9 DEF ConfTypes, ConfOwn, ConfFresh, ChargerConf!setNewIdTag
<1>10. ASSUME NEW t \in Tags, ui.sec # "config", ChargerConf!Room,
              ui' = [ui EXCEPT !.add = Web!Submit(@, t), !.calls = ChargerConf!Superseding("add", ui.add, t),
                               !.superseded = @ \/ ChargerConf!Busy(ui.add)]
       PROVE  ConfTypes' /\ ConfOwn' /\ ConfFresh'
  <2> DEFINE calls == ChargerConf!Superseding("add", ui.add, t)
  <2>1. /\ calls \subseteq TagCalls /\ IsFiniteSet(calls) /\ Cardinality(calls) <= Few
        /\ ui.add.state = "idle" /\ (\A c \in ui.calls : c.live) => \A c \in calls : c.live
    BY <1>0, <1>10, ConfSubmits
  <2>2. Web!Submit(ui.add, t) \in Web!Fetchers(Tags) /\ Web!Submit(ui.add, t).state = "submitting"
    BY <1>0, SubmitMoves DEF ConfTypes
  <2> HIDE DEF calls
  <2>3. ui' = [ui EXCEPT !.add = Web!Submit(@, t), !.calls = calls,
                         !.superseded = @ \/ ui.add.state # "idle"]
    BY <1>10 DEF calls, ChargerConf!Busy
  <2>4. ConfTypes'
    <3>1. /\ DOMAIN ui' = DOMAIN ui /\ ui'.add = Web!Submit(ui.add, t) /\ ui'.calls = calls
          /\ ui'.superseded = (ui.superseded \/ ui.add.state # "idle")
          /\ ui'.sec = ui.sec /\ ui'.srv = ui.srv /\ ui'.list = ui.list
          /\ ui'.editingKey = ui.editingKey /\ ui'.savingKey = ui.savingKey
          /\ ui'.editValue = ui.editValue /\ ui'.saves = ui.saves
          /\ ui'.config = ui.config /\ ui'.seen = ui.seen
          /\ ui'.refreshing = ui.refreshing /\ ui'.timers = ui.timers /\ ui'.newIdTag = ui.newIdTag
          /\ ui'.remove = ui.remove /\ ui'.dialog = ui.dialog /\ ui'.gone = ui.gone
      BY <1>0, <2>3 DEF ConfTypes
    <3>2. ui'.superseded \in BOOLEAN
      BY <3>1
    <3> QED BY <1>0, <1>10, <2>1, <2>2, <3>1, <3>2 DEF ConfTypes
  <2>5. ConfOwn' /\ ConfFresh'
    BY <1>0, <2>1, <2>2, <2>3 DEF ConfTypes, ConfOwn, ConfFresh
  <2> QED BY <2>4, <2>5
<1>11. CASE ChargerConf!addAuthTag
  BY <1>0, <1>10, <1>11
  DEF ConfTypes, ChargerConf!addAuthTag, ChargerConf!InTags, ChargerConf!Submit, Web!Submit
<1>12. ASSUME NEW t \in Tags, ChargerConf!setChargingProfile(t)
       PROVE  ConfTypes' /\ ConfOwn' /\ ConfFresh'
  BY <1>0, <1>10, <1>12 DEF ConfTypes, ChargerConf!setChargingProfile, ChargerConf!Submit, Web!Submit
<1>13. ASSUME NEW t \in Tags, ChargerConf!removeAuthTag(t)
       PROVE  ConfTypes' /\ ConfOwn' /\ ConfFresh'
  <2> DEFINE calls == ChargerConf!Superseding("remove", ui.remove, t)
  <2>1. /\ ui.sec # "config" /\ ChargerConf!Room
        /\ ui' = [ui EXCEPT !.remove = Web!Submit(@, t), !.calls = calls,
                            !.superseded = @ \/ ui.remove.state # "idle"]
    BY <1>13 DEF ChargerConf!removeAuthTag, ChargerConf!Submit, Web!Submit, ChargerConf!Busy
  <2>2. /\ calls \subseteq TagCalls /\ IsFiniteSet(calls) /\ Cardinality(calls) <= Few
        /\ ui.remove.state = "idle" /\ (\A c \in ui.calls : c.live) => \A c \in calls : c.live
    BY <1>0, <2>1, ConfSubmits
  <2>3. Web!Submit(ui.remove, t) \in Web!Fetchers(Tags) /\ Web!Submit(ui.remove, t).state = "submitting"
    BY <1>0, SubmitMoves DEF ConfTypes
  <2> HIDE DEF calls
  <2>4. ConfTypes'
    BY <1>0, <2>1, <2>2, <2>3 DEF ConfTypes
  <2>5. ConfOwn' /\ ConfFresh'
    BY <1>0, <2>1, <2>2, <2>3 DEF ConfTypes, ConfOwn, ConfFresh
  <2> QED BY <2>4, <2>5
<1>14. /\ Web!mutate(ui.list) \in Web!Entries(SUBSET Tags) /\ \A d : Fresh(Web!mutate(ui.list), d)
  BY <1>0, MutateFresh DEF ConfTypes
<1>15. /\ Web!Settled(ui.add) \in Web!Fetchers(Tags) /\ Web!Settled(ui.add).state = "idle"
       /\ Web!Settled(ui.remove) \in Web!Fetchers(Tags)
       /\ Web!Settled(ui.remove).state = "idle" /\ Web!Settled(ui.remove).form = {}
       /\ Web!Answer(ui.add) \in Web!Fetchers(Tags) /\ Web!Answer(ui.add).state = "loading"
       /\ Web!Answer(ui.remove) \in Web!Fetchers(Tags) /\ Web!Answer(ui.remove).state = "loading"
  BY <1>0, SettledMoves, AnswerMoves DEF ConfTypes
<1>16. CASE ChargerConf!Added
  <2>1. ui' = [ui EXCEPT !.add = Web!Settled(@), !.newIdTag = None, !.list = Web!mutate(@)]
    BY <1>16 DEF ChargerConf!Added, ChargerConf!Settled, ChargerConf!mutate, Web!Settled, Web!mutate
  <2> QED BY <1>0, <1>14, <1>15, <2>1 DEF ConfTypes, ConfOwn, ConfFresh
<1>17. CASE ChargerConf!Removed
  <2>1. ui' = [ui EXCEPT !.remove = Web!Settled(@), !.list = Web!mutate(@)]
    BY <1>17 DEF ChargerConf!Removed, ChargerConf!Settled, ChargerConf!mutate, Web!Settled, Web!mutate
  <2> QED BY <1>0, <1>14, <1>15, <2>1 DEF ConfTypes, ConfOwn, ConfFresh
<1>18. CASE ChargerConf!setProfileDialogOpen
  BY <1>0, <1>18 DEF ConfTypes, ConfOwn, ConfFresh, ChargerConf!setProfileDialogOpen
<1>19. CASE ChargerConf!ProfileSet
  <2>1. ui.sec = "profiles" /\ ui' = [ui EXCEPT !.add = Web!Settled(@), !.dialog = FALSE]
    BY <1>19 DEF ChargerConf!ProfileSet, ChargerConf!Settled, Web!Settled
  <2> QED BY <1>0, <1>15, <2>1 DEF ConfTypes, ConfOwn, ConfFresh
<1>20. CASE ChargerConf!ListRead
  <2>1. ui' = [ui EXCEPT !.list = Web!Reads(@, ui.srv)]
    BY <1>20 DEF ChargerConf!ListRead, ChargerConf!Reads, Web!Reads
  <2>2. Web!Reads(ui.list, ui.srv) \in Web!Entries(SUBSET Tags) /\ Fresh(Web!Reads(ui.list, ui.srv), ui.srv)
    BY <1>0, ReadsFresh DEF ConfTypes
  <2> QED BY <1>0, <2>1, <2>2 DEF ConfTypes, ConfOwn, ConfFresh
<1>21. CASE ChargerConf!ListArrives
  <2>1. ui.list.snap # {} /\ ui' = [ui EXCEPT !.list = Web!Arrives(@)]
    BY <1>21 DEF ChargerConf!ListArrives, ChargerConf!Arrives, Web!Arrives
  <2>2. /\ Web!Arrives(ui.list) \in Web!Entries(SUBSET Tags)
        /\ Fresh(ui.list, ui.srv) => Fresh(Web!Arrives(ui.list), ui.srv)
    BY <1>0, <2>1, ArrivesFresh DEF ConfTypes
  <2> QED BY <1>0, <2>1, <2>2 DEF ConfTypes, ConfOwn, ConfFresh
<1>22. ASSUME NEW c \in ui.calls
       PROVE  IsFiniteSet(ui.calls \ {c}) /\ Cardinality(ui.calls \ {c}) <= Few /\ c \in TagCalls
  BY <1>0, OneLess, ConsoleAssumption DEF ConfTypes
<1>23. ASSUME NEW c \in ui.calls, ChargerConf!Accepted(c)
       PROVE  ConfTypes' /\ ConfOwn' /\ ConfFresh'
  <2>1. ui' = [ui EXCEPT !.srv = IF c.op = "add" THEN @ \union {c.arg} ELSE @ \ {c.arg},
                         !.add = IF c.op = "add" /\ c.live THEN Web!Answer(@) ELSE @,
                         !.remove = IF c.op = "remove" /\ c.live THEN Web!Answer(@) ELSE @,
                         !.calls = @ \ {c}]
    BY <1>23 DEF ChargerConf!Accepted, ChargerConf!Answer, Web!Answer
  <2>2. c.op \in {"add", "remove"} /\ c.arg \in Tags
    BY <1>22 DEF TagCalls
  <2>3. ConfTypes'
    BY <1>0, <1>15, <1>22, <2>1, <2>2 DEF ConfTypes
  <2>4. ConfOwn' /\ ConfFresh'
    BY <1>0, <1>15, <2>1, <2>2 DEF ConfTypes, ConfOwn, ConfFresh
  <2> QED BY <2>3, <2>4
<1>24. ASSUME NEW c \in ui.calls, ChargerConf!Refused(c)
       PROVE  ConfTypes' /\ ConfOwn' /\ ConfFresh'
  <2>1. ui' = [ui EXCEPT !.calls = @ \ {c}, !.gone = c.live] /\ c.live \in BOOLEAN
    BY <1>22, <1>24 DEF ChargerConf!Refused, TagCalls
  <2> QED BY <1>0, <1>22, <2>1 DEF ConfTypes, ConfOwn, ConfFresh
<1> QED
  BY <1>1, <1>2, <1>3, <1>4, <1>5, <1>6, <1>7, <1>8, <1>9, <1>11, <1>12, <1>13, <1>16, <1>17, <1>18,
     <1>19, <1>20, <1>21, <1>23, <1>24
  DEF ChargerConf!Next
=============================================================================
