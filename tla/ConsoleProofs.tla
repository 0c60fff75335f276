--------------------------- MODULE ConsoleProofs ---------------------------
(* Proofs about the console.  ConsoleInv says of the page that is open what    *)
(* its own invariant says: each has its types, how its flags, forms and cached *)
(* data go with what is under way, and what follows from that is what Console  *)
(* states.  The pages of one charger are in ChargerPagesProofs, the others     *)
(* here, each with three facts: what its invariant implies (Holds), that every *)
(* way of mounting it starts there (Mounts), and that its steps stay there     *)
(* (Step).                                                                     *)
EXTENDS ChargerPagesProofs, WellFoundedInduction

-----------------------------------------------------------------------------
(* Numbers and sets                                                            *)

LEMMA NatHasLeast ==
  ASSUME NEW N \in SUBSET Nat, N # {}
  PROVE  \E n \in N : \A m \in N : n <= m
<1> DEFINE R == OpToRel(<, Nat)
<1>1. IsWellFoundedOn(R, Nat)
  BY NatLessThanWellFounded
<1> HIDE DEF R
<1>2. PICK n \in N : \A m \in N : <<m, n>> \notin R
  BY <1>1, WFMin
<1>3. ASSUME NEW m \in N
      PROVE  n <= m
  <2>1. m \in Nat /\ n \in Nat /\ <<m, n>> \notin R
    BY <1>2
  <2>2. ~(m < n)
    BY <2>1 DEF R, OpToRel
  <2> QED BY <2>1, <2>2
<1> QED BY <1>3

(* What holds at the start and goes from each number to the next holds up to   *)
(* the end.                                                                    *)
LEMMA UpTo ==
  ASSUME NEW m \in Nat, NEW T, 0 \in T, \A n \in 1..m : n - 1 \in T => n \in T
  PROVE  0..m \subseteq T
<1> DEFINE Bad == (0..m) \ T
<1> SUFFICES ASSUME Bad # {} PROVE FALSE
  OBVIOUS
<1>0. Bad \in SUBSET Nat
  OBVIOUS
<1>1. PICK n \in Bad : \A k \in Bad : n <= k
  <2> HIDE DEF Bad
  <2> QED BY <1>0, NatHasLeast
<1>2. n \in 1..m /\ n - 1 \in 0..m /\ n \notin T /\ n - 1 \notin Bad
  BY <1>1
<1> QED BY <1>2

(* A loop over a sequence has a state after each of its rounds.                *)
Rounds(H, G, b, s) ==
  {f \in [0..Len(s) -> H] : f[0] = b /\ \A n \in 1..Len(s) : f[n] = G[<<f[n - 1], s[n]>>]}

LEMMA LoopRuns ==
  ASSUME NEW H, NEW R, NEW G \in [H \X R -> H], NEW b \in H, NEW s \in Seq(R)
  PROVE  Rounds(H, G, b, s) # {}
<1> DEFINE Runs(m) == \E f \in [0..m -> H] : f[0] = b /\ \A n \in 1..m : f[n] = G[<<f[n - 1], s[n]>>]
           T == {m \in 0..Len(s) : Runs(m)}
<1>1. Len(s) \in Nat
  BY LenProperties
<1>2. 0 \in T
  <2> DEFINE g == [n \in 0..0 |-> b]
  <2>1. g \in [0..0 -> H] /\ g[0] = b /\ 1..0 = {}
    OBVIOUS
  <2> HIDE DEF g
  <2>2. Runs(0)
    BY <2>1
  <2> QED BY <1>1, <2>2
<1>3. ASSUME NEW m \in 1..Len(s), m - 1 \in T PROVE m \in T
  <2>1. PICK f \in [0..(m - 1) -> H] : f[0] = b /\ \A n \in 1..(m - 1) : f[n] = G[<<f[n - 1], s[n]>>]
    BY <1>3
  <2> DEFINE v == G[<<f[m - 1], s[m]>>]
             g == [n \in 0..m |-> IF n = m THEN v ELSE f[n]]
  <2>2. s[m] \in R /\ f[m - 1] \in H
    BY <1>1, ElementOfSeq
  <2>3. v \in H
    BY <2>2
  <2> HIDE DEF v
  <2>4. g \in [0..m -> H] /\ g[0] = b /\ g[m] = v /\ \A n \in 0..(m - 1) : g[n] = f[n]
    BY <1>1, <2>1, <2>3
  <2> HIDE DEF g
  <2>5. ASSUME NEW n \in 1..m PROVE g[n] = G[<<g[n - 1], s[n]>>]
    <3>1. CASE n = m
      <4>1. g[n - 1] = f[m - 1]
        BY <1>1, <2>4, <3>1
      <4> QED BY <2>4, <3>1, <4>1 DEF v
    <3>2. CASE n # m
      <4>1. n \in 1..(m - 1) /\ n \in 0..(m - 1) /\ n - 1 \in 0..(m - 1)
        BY <1>1, <3>2
      <4> QED BY <2>1, <2>4, <4>1
    <3> QED BY <3>1, <3>2
  <2> QED BY <2>4, <2>5
<1>4. 0..Len(s) \subseteq T
  <2> HIDE DEF T
  <2> QED BY <1>1, <1>2, <1>3, UpTo
<1>5. Len(s) \in T
  BY <1>1, <1>4
<1> QED BY <1>5 DEF Rounds

(* A function on 1..n is a sequence of length n.                               *)
LEMMA RunIsSeq ==
  ASSUME NEW S, NEW n \in Nat, NEW s \in [1..n -> S]
  PROVE  s \in Seq(S) /\ Len(s) = n
<1>1. s \in Seq(S)
  BY SeqDef
<1>2. Len(s) \in Nat /\ 1..Len(s) = 1..n
  BY <1>1, LenProperties
<1> QED BY <1>1, <1>2

(* A building with floors has a lowest one.                                    *)
LEMMA HasLowest ==
  ASSUME NEW S \in SUBSET Int, IsFiniteSet(S), S # {}
  PROVE  \E l \in S : \A k \in S : l <= k
<1> DEFINE Least(T) == \E l \in T : \A k \in T : l <= k
           Bad == {T \in SUBSET S : T # {} /\ ~Least(T)}
           N == {Cardinality(T) : T \in Bad}
<1>1. \A T \in SUBSET S : IsFiniteSet(T) /\ Cardinality(T) \in Nat
  BY FS_Subset, FS_CardinalityType
<1>2. SUFFICES ASSUME Bad # {} PROVE FALSE
  OBVIOUS
<1>3. N \in SUBSET Nat /\ N # {}
  BY <1>1, <1>2
<1>4. PICK n \in N : \A m \in N : n <= m
  BY <1>3, NatHasLeast
<1>5. PICK T \in Bad : Cardinality(T) = n
  BY <1>4
<1>6. PICK x \in T : TRUE
  BY <1>5
<1> DEFINE U == T \ {x}
<1>7. U \in SUBSET S /\ Cardinality(U) = n - 1 /\ n \in Nat
  BY <1>1, <1>5, <1>6, FS_RemoveElement
<1>8. U # {}
  BY <1>5, <1>6
<1>9. U \notin Bad
  <2>1. ASSUME U \in Bad PROVE Cardinality(U) \in N
    BY <2>1
  <2>2. U \in Bad => n <= n - 1
    BY <1>4, <1>7, <2>1
  <2> QED BY <1>7, <2>2
<1>10. PICK l \in U : \A k \in U : l <= k
  BY <1>7, <1>8, <1>9
<1>11. Least(T)
  <2>1. CASE x <= l
    BY <1>6, <1>10, <2>1
  <2>2. CASE l <= x
    BY <1>6, <1>10, <2>2
  <2> QED BY <1>6, <1>10, <2>1, <2>2
<1> QED BY <1>5, <1>11
-----------------------------------------------------------------------------
(* The floors of the rooms page                                                *)

FloorsIs(p) ==
  /\ DOMAIN p = {"srv", "list", "level", "nav", "editing", "renames", "addOpen", "preset", "adds",
                 "target", "del", "raced", "gone"}
  /\ p.srv \in SUBSET Levels /\ p.list \in Web!Entries(SUBSET Levels) /\ p.level \in Levels
  /\ p.nav \in Levels \union {None} /\ p.target \in Levels \union {None}
  /\ p.editing \in BOOLEAN /\ p.addOpen \in BOOLEAN /\ p.raced \in BOOLEAN /\ p.gone \in BOOLEAN
  /\ p.renames \subseteq Levels /\ p.adds \subseteq Levels
  /\ p.preset \in Building!Presets /\ p.del \in Web!Fetchers(Levels)
  /\ p.list.asked => p.list.snap = {}

(* As long as nothing raced, the list is fresh and the page is at, or on its   *)
(* way to, a level the server keeps or level 0.                                *)
FloorsFresh(p) == ~p.raced => Fresh(p.list, p.srv)

FloorsLevel(p) ==
  ~p.raced => /\ p.nav # None => p.nav \in p.srv \union {0}
              /\ p.nav = None => p.level \in p.srv \union {0}

(* A level 0 that does not exist is being left.                                *)
FloorsLeaves(p) == ~p.raced /\ p.nav \in {None, 0} => ~Building!Lost(p.list.data, p.level)

FloorsGood(p) == FloorsIs(p) /\ FloorsFresh(p) /\ FloorsLevel(p) /\ FloorsLeaves(p)

FloorsInv == FloorsGood(ui)

LEMMA FloorsHolds ==
  ASSUME FloorsInv
  PROVE  Building!TypeOK /\ Building!HeaderOwnsRooms
<1> USE DEF FloorsInv, FloorsGood
<1>1. Building!TypeOK
  <2>1. /\ \A D : Building!Entries(D) = Web!Entries(D)
        /\ \A V : Building!Fetchers(V) = Web!Fetchers(V)
    BY DEF Web!Entries, Web!Fetchers, Building!Entries, Building!Fetchers
  <2> QED BY <2>1 DEF FloorsIs, Building!TypeOK
<1>2. Building!HeaderOwnsRooms
  <2>1. SUFFICES ASSUME ~ui.raced, ~ui.list.asked, ui.list.snap = {}, ui.nav = None, ui.list.data # {}
                 PROVE  ui.level \in ui.list.data
    BY DEF Building!HeaderOwnsRooms, Building!Resting, Building!floors, Building!activeFloor
  <2>2. ui.list.data = ui.srv
    BY <2>1 DEF FloorsFresh, Fresh
  <2>3. ui.level \in ui.srv \union {0} /\ ~Building!Lost(ui.list.data, ui.level)
    BY <2>1 DEF FloorsLevel, FloorsLeaves
  <2> QED BY <2>1, <2>2, <2>3 DEF Building!Lost
<1> QED BY <1>1, <1>2

LEMMA LowestFloor ==
  ASSUME NEW S \in SUBSET Levels, S # {}
  PROVE  Building!Lowest(S) \in S
<1>1. IsFiniteSet(S) /\ S \in SUBSET Int
  BY FS_Subset, ConsoleAssumption
<1>2. \E l \in S : \A k \in S : l <= k
  BY <1>1, HasLowest
<1> QED BY <1>2 DEF Building!Lowest

(* Whatever level a navigation is started to, the page is as it should be.     *)
LEMMA FloorsGo ==
  ASSUME NEW p, FloorsIs(p), FloorsFresh(p), NEW l \in Levels
  PROVE  FloorsGood(Building!Go(p, l))
<1> DEFINE lost == Building!Lost(p.list.data, p.level)
           raced == p.raced \/ l \notin p.srv \union {0} \/ (l = 0 /\ lost)
           q == Building!Go(p, l)
<1>1. q = [p EXCEPT !.nav = l, !.raced = raced]
  BY DEF Building!Go
<1>2. l # None /\ raced \in BOOLEAN
  BY ConsoleAssumption DEF FloorsIs
<1>3. /\ DOMAIN q = DOMAIN p /\ q.nav = l /\ q.raced = raced /\ q.list = p.list /\ q.srv = p.srv /\ q.level = p.level
      /\ q.target = p.target /\ q.editing = p.editing /\ q.addOpen = p.addOpen /\ q.gone = p.gone
      /\ q.renames = p.renames /\ q.adds = p.adds /\ q.preset = p.preset /\ q.del = p.del
  BY <1>1 DEF FloorsIs
<1> HIDE DEF q
<1>4. FloorsIs(q)
  BY <1>2, <1>3 DEF FloorsIs
<1>5. FloorsFresh(q) /\ FloorsLevel(q) /\ FloorsLeaves(q)
  BY <1>2, <1>3 DEF FloorsFresh, FloorsLevel, FloorsLeaves
<1> QED BY <1>4, <1>5 DEF FloorsGood, q

(* A render: the effect leaves a level 0 that does not exist.                  *)
LEMMA FloorsRendered ==
  ASSUME NEW p, FloorsIs(p), FloorsFresh(p), FloorsLevel(p),
         p.list.data = ui.list.data /\ p.level = ui.level => FloorsLeaves(p)
  PROVE  FloorsGood(Building!Rendered(p))
<1> DEFINE effect == (p.list.data # ui.list.data \/ p.level # ui.level) /\ Building!Lost(p.list.data, p.level)
<1>1. CASE effect
  <2>1. Building!Lowest(p.list.data) \in Levels
    BY <1>1, LowestFloor DEF Building!Lost, FloorsIs, Web!Entries
  <2>2. Building!Rendered(p) = Building!Go(p, Building!Lowest(p.list.data))
    BY <1>1 DEF Building!Rendered
  <2> QED BY <2>1, <2>2, FloorsGo
<1>2. CASE ~effect
  <2>1. Building!Rendered(p) = p
    BY <1>2 DEF Building!Rendered
  <2> QED BY <1>2, <2>1 DEF FloorsGood, FloorsLeaves
<1> QED BY <1>1, <1>2

LEMMA FloorsMounts ==
  ASSUME ui' \in Building!Mounts
  PROVE  FloorsInv'
<1>1. PICK fs \in SUBSET Levels, l \in Levels :
        ui' = [srv |-> fs, list |-> Building!Cached(fs), level |-> l,
               nav |-> IF Building!Lost(fs, l) THEN Building!Lowest(fs) ELSE None,
               editing |-> FALSE, renames |-> {}, addOpen |-> FALSE, preset |-> Building!NextFloor, adds |-> {},
               target |-> None, del |-> Building!Idle, raced |-> l \notin fs \union {0}, gone |-> FALSE]
  BY DEF Building!Mounts
<1> DEFINE nav == IF Building!Lost(fs, l) THEN Building!Lowest(fs) ELSE None
<1>2. /\ nav \in Levels \union {None} /\ None \notin Levels
      /\ Building!Lost(fs, l) => nav \in fs /\ nav # 0
      /\ ~Building!Lost(fs, l) => nav = None
  BY LowestFloor, ConsoleAssumption DEF Building!Lost
<1>3. ui'.list = Web!Cached(fs) /\ ui'.srv = fs
  BY <1>1 DEF Building!Cached, Web!Cached
<1>4. /\ ui'.list \in Web!Entries(SUBSET Levels) /\ Fresh(ui'.list, ui'.srv)
      /\ ui'.list.asked = FALSE /\ ui'.list.data = fs
  BY <1>3, CachedFresh DEF Web!Cached
<1>5. Building!Idle \in Web!Fetchers(Levels) /\ Building!NextFloor \in Building!Presets
  BY DEF Building!Idle, Web!Fetchers, Building!NextFloor, Building!Presets, Building!Preset
<1>6. ui'.nav = nav /\ ui'.level = l /\ ui'.raced = (l \notin fs \union {0})
  BY <1>1
<1> HIDE DEF nav
<1>7. FloorsIs(ui')
  BY <1>1, <1>2, <1>4, <1>5, <1>6 DEF FloorsIs
<1>8. FloorsFresh(ui') /\ FloorsLevel(ui') /\ FloorsLeaves(ui')
  BY <1>2, <1>3, <1>4, <1>6 DEF FloorsFresh, FloorsLevel, FloorsLeaves
<1> QED BY <1>7, <1>8 DEF FloorsInv, FloorsGood

LEMMA FloorsStep ==
  ASSUME FloorsInv, Building!Next
  PROVE  FloorsInv'
<1>0. FloorsIs(ui) /\ FloorsFresh(ui) /\ FloorsLevel(ui) /\ FloorsLeaves(ui)
  BY DEF FloorsInv, FloorsGood
<1> SUFFICES FloorsGood(ui')
  BY DEF FloorsInv
<1> USE DEF FloorsGood
<1>a. /\ ui.list.data \in SUBSET Levels
      /\ ui.list.data # {} => Building!activeFloor \in Levels
  BY <1>0, LowestFloor DEF FloorsIs, Web!Entries, Building!activeFloor, Building!floors
<1>b. /\ Web!mutate(ui.list) \in Web!Entries(SUBSET Levels) /\ \A d : Fresh(Web!mutate(ui.list), d)
      /\ Web!mutate(ui.list).data = ui.list.data /\ Web!mutate(ui.list).snap = {}
  <2>1. Web!mutate(ui.list) \in Web!Entries(SUBSET Levels) /\ \A d : Fresh(Web!mutate(ui.list), d)
    BY <1>0, MutateFresh DEF FloorsIs
  <2>2. Web!mutate(ui.list).data = ui.list.data /\ Web!mutate(ui.list).snap = {}
    BY <1>0 DEF FloorsIs, Web!mutate, Web!Entries
  <2> QED BY <2>1, <2>2
<1>1. CASE Building!startEditingFloorName
  BY <1>0, <1>1 DEF FloorsIs, FloorsFresh, FloorsLevel, FloorsLeaves, Building!startEditingFloorName
<1>2. CASE Building!saveFloorName
  <2>1. CASE ui.list.data = {}
    <3>1. ui' = [ui EXCEPT !.editing = FALSE]
      BY <1>0, <1>2, <2>1 DEF FloorsIs, Building!saveFloorName, Building!floors
    <3> QED BY <1>0, <3>1 DEF FloorsIs, FloorsFresh, FloorsLevel, FloorsLeaves
  <2>2. CASE ui.list.data # {}
    <3>1. ui' = [ui EXCEPT !.editing = FALSE, !.renames = @ \union {Building!activeFloor}]
      BY <1>2, <2>2 DEF Building!saveFloorName, Building!floors
    <3>2. Building!activeFloor \in Levels
      BY <1>a, <2>2
    <3> QED BY <1>0, <3>1, <3>2 DEF FloorsIs, FloorsFresh, FloorsLevel, FloorsLeaves
  <2> QED BY <2>1, <2>2
<1>3. CASE Building!EndEdit
  BY <1>0, <1>3 DEF FloorsIs, FloorsFresh, FloorsLevel, FloorsLeaves, Building!EndEdit
<1>4. CASE Building!setAddFloorOpen
  BY <1>0, <1>4 DEF FloorsIs, FloorsFresh, FloorsLevel, FloorsLeaves, Building!setAddFloorOpen
<1>5. CASE Building!AddFloor
  BY <1>0, <1>5 DEF FloorsIs, FloorsFresh, FloorsLevel, FloorsLeaves, Building!AddFloor
<1>6. Building!NextFloor \in Building!Presets
  BY DEF Building!NextFloor, Building!Presets, Building!Preset
<1>7. CASE Building!CancelAdd
  BY <1>0, <1>6, <1>7
  DEF FloorsIs, FloorsFresh, FloorsLevel, FloorsLeaves, Building!CancelAdd, Building!CloseAdd
<1>8. CASE Building!setDeleteFloorTarget
  <2>1. ui' = [ui EXCEPT !.target = Building!activeFloor] /\ Building!activeFloor \in Levels
    BY <1>8, <1>a DEF Building!setDeleteFloorTarget, Building!floors
  <2> QED BY <1>0, <2>1 DEF FloorsIs, FloorsFresh, FloorsLevel, FloorsLeaves
<1>9. CASE Building!SubmitDelete
  <2>1. ui.target \in Levels /\ ui' = [ui EXCEPT !.del = Web!Submit(@, ui.target)]
    BY <1>0, <1>9 DEF FloorsIs, Building!SubmitDelete, Building!Submit, Web!Submit
  <2>2. Web!Submit(ui.del, ui.target) \in Web!Fetchers(Levels)
    BY <1>0, <2>1, SubmitMoves DEF FloorsIs
  <2> QED BY <1>0, <2>1, <2>2 DEF FloorsIs, FloorsFresh, FloorsLevel, FloorsLeaves
<1>10. CASE Building!CloseDelete
  BY <1>0, <1>10 DEF FloorsIs, FloorsFresh, FloorsLevel, FloorsLeaves, Building!CloseDelete
<1>11. CASE Building!FloorDeleted
  <2> DEFINE remaining == ui.list.data \ {ui.target}
             next == IF remaining = {} THEN 0 ELSE Building!Lowest(remaining)
             p == [ui EXCEPT !.srv = @ \ ui.del.form, !.del = Web!Answer(@), !.target = None, !.list = Web!mutate(@)]
  <2>1. ui' = Building!Go(p, next)
    <3>1. Web!mutate(ui.list) = Building!mutate(ui.list) /\ Web!Answer(ui.del) = Building!Answer(ui.del)
      BY DEF Web!mutate, Building!mutate, Web!Answer, Building!Answer
    <3> QED BY <1>11, <3>1 DEF Building!FloorDeleted, Building!floors
  <2>2. next \in Levels
    BY <1>a, LowestFloor, ConsoleAssumption
  <2>3. Web!Answer(ui.del) \in Web!Fetchers(Levels)
    BY <1>0, AnswerMoves DEF FloorsIs
  <2>4. FloorsIs(p) /\ FloorsFresh(p)
    BY <1>0, <1>b, <2>3 DEF FloorsIs, FloorsFresh
  <2> HIDE DEF p, next
  <2> QED BY <2>1, <2>2, <2>4, FloorsGo
<1>12. CASE Building!DeleteRefused
  BY <1>0, <1>12 DEF FloorsIs, FloorsFresh, FloorsLevel, FloorsLeaves, Building!DeleteRefused
<1>13. CASE Building!Revalidated
  <2>1. ui' = [ui EXCEPT !.del = Web!Settled(@)]
    BY <1>13 DEF Building!Revalidated, Building!Settled, Web!Settled
  <2>2. Web!Settled(ui.del) \in Web!Fetchers(Levels)
    BY <1>0, SettledMoves DEF FloorsIs
  <2> QED BY <1>0, <2>1, <2>2 DEF FloorsIs, FloorsFresh, FloorsLevel, FloorsLeaves
<1>14. CASE Building!ListRead
  <2>1. ui' = [ui EXCEPT !.list = Web!Reads(@, ui.srv)]
    BY <1>14 DEF Building!ListRead, Building!Reads, Web!Reads
  <2>2. /\ Web!Reads(ui.list, ui.srv) \in Web!Entries(SUBSET Levels)
        /\ Fresh(Web!Reads(ui.list, ui.srv), ui.srv)
    BY <1>0, ReadsFresh DEF FloorsIs
  <2>3. Web!Reads(ui.list, ui.srv).asked = FALSE /\ Web!Reads(ui.list, ui.srv).data = ui.list.data
    BY <1>0 DEF FloorsIs, Web!Reads, Web!Entries
  <2> QED BY <1>0, <2>1, <2>2, <2>3 DEF FloorsIs, FloorsFresh, FloorsLevel, FloorsLeaves
<1>15. CASE Building!ListArrives
  <2> DEFINE got == Web!Arrives(ui.list)
             p == [ui EXCEPT !.list = got]
  <2>1. ui.list.snap # {} /\ ui' = Building!Rendered(p)
    BY <1>15 DEF Building!ListArrives, Building!Arrives, Web!Arrives
  <2>2. /\ got \in Web!Entries(SUBSET Levels) /\ (Fresh(ui.list, ui.srv) => Fresh(got, ui.srv))
        /\ got.asked = ui.list.asked
    <3>1. got \in Web!Entries(SUBSET Levels) /\ (Fresh(ui.list, ui.srv) => Fresh(got, ui.srv))
      BY <1>0, <2>1, ArrivesFresh DEF FloorsIs
    <3>2. got.asked = ui.list.asked
      BY <1>0 DEF FloorsIs, Web!Arrives, Web!Entries
    <3> QED BY <3>1, <3>2
  <2>3. got.asked = FALSE
    BY <1>0, <2>1, <2>2 DEF FloorsIs, Web!Entries
  <2> HIDE DEF got
  <2>4. FloorsIs(p) /\ FloorsFresh(p) /\ FloorsLevel(p)
    BY <1>0, <2>2, <2>3 DEF FloorsIs, FloorsFresh, FloorsLevel
  <2>5. p.list.data = ui.list.data /\ p.level = ui.level => FloorsLeaves(p)
    BY <1>0 DEF FloorsIs, FloorsLeaves
  <2> HIDE DEF p
  <2> QED BY <2>1, <2>4, <2>5, FloorsRendered
<1>16. ASSUME NEW l \in Levels, Building!setActiveLevel(l) \/ Building!Back(l)
       PROVE  FloorsGood(ui')
  <2>1. ui' = Building!Go(ui, l)
    BY <1>16 DEF Building!setActiveLevel, Building!Back
  <2> QED BY <1>0, <2>1, FloorsGo
<1>17. ASSUME NEW p \in Building!Presets, Building!setPreset(p)
       PROVE  FloorsGood(ui')
  BY <1>0, <1>17 DEF FloorsIs, FloorsFresh, FloorsLevel, FloorsLeaves, Building!setPreset
<1>18. ASSUME NEW l \in ui.renames, Building!Renamed(l)
       PROVE  FloorsGood(ui')
  <2>1. CASE ui' = [ui EXCEPT !.renames = @ \ {l}, !.list = Web!mutate(@)]
    BY <1>0, <1>b, <2>1 DEF FloorsIs, FloorsFresh, FloorsLevel, FloorsLeaves
  <2>2. CASE ui' = [ui EXCEPT !.renames = @ \ {l}]
    BY <1>0, <2>2 DEF FloorsIs, FloorsFresh, FloorsLevel, FloorsLeaves
  <2> QED BY <1>18, <2>1, <2>2 DEF Building!Renamed, Building!mutate, Web!mutate
<1>19. ASSUME NEW l \in ui.adds, Building!FloorAdded(l)
       PROVE  FloorsGood(ui')
  <2>0. l \in Levels
    BY <1>0 DEF FloorsIs
  <2>1. CASE ui' = [ui EXCEPT !.addOpen = FALSE, !.preset = Building!NextFloor,
                              !.srv = @ \union {l}, !.adds = @ \ {l}, !.list = Web!mutate(@)]
    BY <1>0, <1>6, <1>b, <2>0, <2>1 DEF FloorsIs, FloorsFresh, FloorsLevel, FloorsLeaves
  <2>2. CASE ui' = [ui EXCEPT !.srv = @ \union {l}, !.adds = @ \ {l}, !.raced = TRUE]
    BY <1>0, <2>0, <2>2 DEF FloorsIs, FloorsFresh, FloorsLevel, FloorsLeaves
  <2>3. CASE ui' = [ui EXCEPT !.adds = @ \ {l}]
    BY <1>0, <2>3 DEF FloorsIs, FloorsFresh, FloorsLevel, FloorsLeaves
  <2>4. ASSUME ui' = [Building!CloseAdd EXCEPT !.srv = @ \union {l}, !.adds = @ \ {l}, !.list = Building!mutate(@)]
        PROVE  ui' = [ui EXCEPT !.addOpen = FALSE, !.preset = Building!NextFloor,
                                !.srv = @ \union {l}, !.adds = @ \ {l}, !.list = Web!mutate(@)]
    <3>1. Building!mutate(ui.list) = Web!mutate(ui.list)
      BY DEF Building!mutate, Web!mutate
    <3>2. /\ DOMAIN Building!CloseAdd = DOMAIN ui /\ Building!CloseAdd.srv = ui.srv
          /\ Building!CloseAdd.adds = ui.adds /\ Building!CloseAdd.list = ui.list
      BY <1>0 DEF FloorsIs, Building!CloseAdd
    <3>3. ui' = [Building!CloseAdd EXCEPT !.srv = ui.srv \union {l}, !.adds = ui.adds \ {l}, !.list = Web!mutate(ui.list)]
      BY <2>4, <3>1, <3>2
    <3> QED BY <1>0, <3>3 DEF FloorsIs, Building!CloseAdd
  <2> QED BY <1>19, <2>1, <2>2, <2>3, <2>4 DEF Building!FloorAdded
<1>20. CASE Building!NavEnds
  <2> DEFINE p == [ui EXCEPT !.level = ui.nav, !.nav = None]
  <2>1. ui.nav # None /\ (ui' = Building!Rendered(p) \/ ui' = [ui EXCEPT !.gone = TRUE])
    BY <1>20 DEF Building!NavEnds
  <2>2. CASE ui' = Building!Rendered(p)
    <3>1. FloorsIs(p) /\ FloorsFresh(p) /\ FloorsLevel(p)
      BY <1>0, <2>1 DEF FloorsIs, FloorsFresh, FloorsLevel
    <3>2. p.list.data = ui.list.data /\ p.level = ui.level => FloorsLeaves(p)
      BY <1>0, <2>1 DEF FloorsIs, FloorsLeaves, Building!Lost
    <3> HIDE DEF p
    <3> QED BY <2>2, <3>1, <3>2, FloorsRendered
  <2>3. CASE ui' = [ui EXCEPT !.gone = TRUE]
    BY <1>0, <2>3 DEF FloorsIs, FloorsFresh, FloorsLevel, FloorsLeaves
  <2> QED BY <2>1, <2>2, <2>3
<1> QED
  BY <1>1, <1>2, <1>3, <1>4, <1>5, <1>7, <1>8, <1>9, <1>10, <1>11, <1>12, <1>13, <1>14, <1>15, <1>16,
     <1>17, <1>18, <1>19, <1>20
  DEF Building!Next
-----------------------------------------------------------------------------
(* The dialogs of the rooms page                                               *)

InRooms == ui.sec \in {"add", "edit", "delete"}
RoomCalls == [op : {"create", "update", "delete"}, room : Rooms, of : Rooms]
AssignCalls == [op : {"assign", "unassign"}, device : Devices]

(* What a dialog changes, and the calls it makes.                              *)
RoomServer(s) == IF s \in {"add", "edit", "delete"} THEN [Rooms -> 0..2] ELSE SUBSET Devices
RoomOut(s) == IF s \in {"add", "edit", "delete"} THEN RoomCalls ELSE AssignCalls

RoomTypes ==
  /\ DOMAIN ui = {"sec", "srv", "list", "target", "draft", "open", "loading", "out", "lost"}
  /\ ui.sec \in {"add", "edit", "delete", "assignRoom", "assignFloor"}
  /\ ui.srv \in RoomServer(ui.sec) /\ ui.list \in Web!Entries(RoomServer(ui.sec))
  /\ ui.out \subseteq RoomOut(ui.sec)
  /\ ui.target \in Rooms \union {None} /\ ui.draft \in Rooms \union {None}
  /\ ui.open \in BOOLEAN /\ ui.loading \in BOOLEAN /\ ui.lost \in BOOLEAN
  /\ IsFiniteSet(ui.out) /\ Cardinality(ui.out) <= Few

(* What a dialog that is open holds was typed for the room it shows; a dialog  *)
(* that deletes has one call out while it is loading and none else.            *)
RoomOwn ==
  /\ ui.target # None => ui.draft = ui.target
  /\ \A c \in ui.out : c.op = "update" => c.of = c.room
  /\ ui.sec = "delete" => /\ \A c, d \in ui.out : c = d
                          /\ ~ui.loading => ui.out = {}
                          /\ ui.out = {} => ~ui.loading

RoomFresh == ui.sec # "assignRoom" /\ ~ui.lost => Fresh(ui.list, ui.srv)

RoomInv == RoomTypes /\ RoomOwn /\ RoomFresh

LEMMA RoomHolds ==
  ASSUME RoomInv
  PROVE  RoomPage!TypeOK /\ RoomPage!OneRoomDelete /\ RoomPage!EditsOwnRoom /\ RoomPage!RoomsSettle
<1>0. /\ \A S : RoomPage!Cardinality(S) = Cardinality(S)
      /\ \A D : RoomPage!Entries(D) = Web!Entries(D)
  BY DEF RoomPage!Cardinality, Cardinality, RoomPage!Entries, Web!Entries
<1>1. RoomPage!TypeOK
  <2>1. RoomPage!Server(ui.sec) = RoomServer(ui.sec) /\ ui.sec \in RoomPage!Sections
    BY DEF RoomInv, RoomTypes, RoomServer, RoomPage!Server, RoomPage!Assigns, RoomPage!Sections
  <2>2. ui.out \subseteq RoomPage!Call
    BY DEF RoomInv, RoomTypes, RoomOut, RoomCalls, AssignCalls, RoomPage!Call
  <2>3. /\ ui.srv \in RoomPage!Server(ui.sec) /\ ui.list \in RoomPage!Entries(RoomPage!Server(ui.sec))
        /\ RoomPage!Cardinality(ui.out) <= Few
    BY <1>0, <2>1 DEF RoomInv, RoomTypes
  <2>4. /\ ui.target \in Rooms \union {None} /\ ui.draft \in Rooms \union {None}
        /\ ui.open \in BOOLEAN /\ ui.loading \in BOOLEAN /\ ui.lost \in BOOLEAN
    BY DEF RoomInv, RoomTypes
  <2> QED BY <2>1, <2>2, <2>3, <2>4 DEF RoomPage!TypeOK
<1>2. RoomPage!OneRoomDelete
  <2>1. SUFFICES ASSUME ui.sec = "delete"
                 PROVE  Cardinality(ui.out) <= 1 /\ ui.loading = (ui.out # {})
    BY <1>0 DEF RoomPage!OneRoomDelete
  <2>2. Cardinality(ui.out) <= 1
    <3>1. CASE ui.out = {}
      BY <3>1, FS_EmptySet
    <3>2. ASSUME NEW c \in ui.out PROVE Cardinality(ui.out) <= 1
      <4>1. ui.out = {c}
        BY <2>1, <3>2 DEF RoomInv, RoomOwn
      <4> QED BY <4>1, FS_Singleton
    <3> QED BY <3>1, <3>2
  <2>3. ui.loading = (ui.out # {})
    BY <2>1 DEF RoomInv, RoomOwn, RoomTypes
  <2> QED BY <2>2, <2>3
<1>3. RoomPage!EditsOwnRoom /\ RoomPage!RoomsSettle
  BY DEF RoomInv, RoomOwn, RoomFresh, Fresh, RoomPage!EditsOwnRoom, RoomPage!RoomsSettle, RoomPage!Resting
<1> QED BY <1>1, <1>2, <1>3

LEMMA RoomMounts ==
  ASSUME ui' \in RoomPage!Mounts
  PROVE  RoomInv'
<1> DEFINE At(s) == IF s \in {"assignRoom", "assignFloor"} THEN SUBSET Devices
                    ELSE {[r \in Rooms |-> IF s = "add" THEN 0 ELSE 1]}
<1>1. PICK s \in {"add", "edit", "delete", "assignRoom", "assignFloor"} :
        ui' \in {[sec |-> s, srv |-> d, list |-> Web!Cached(d), target |-> None, draft |-> None,
                  open |-> FALSE, loading |-> FALSE, out |-> {}, lost |-> FALSE] : d \in At(s)}
  BY Zenon DEF RoomPage!Mounts, RoomPage!Sections, RoomPage!Assigns, RoomPage!Cached, Web!Cached
<1>2. PICK d \in At(s) :
        ui' = [sec |-> s, srv |-> d, list |-> Web!Cached(d), target |-> None, draft |-> None,
               open |-> FALSE, loading |-> FALSE, out |-> {}, lost |-> FALSE]
  BY <1>1, Zenon
<1>3. d \in RoomServer(s)
  BY <1>2 DEF RoomServer
<1>4. /\ ui'.sec = s /\ ui'.srv = d /\ ui'.list = Web!Cached(d) /\ ui'.target = None /\ ui'.draft = None
      /\ ui'.open = FALSE /\ ui'.loading = FALSE /\ ui'.out = {} /\ ui'.lost = FALSE
      /\ DOMAIN ui' = {"sec", "srv", "list", "target", "draft", "open", "loading", "out", "lost"}
  BY <1>2
<1>5. ui'.list \in Web!Entries(RoomServer(s))
  BY <1>3, <1>4, CachedFresh
<1>6. Fresh(ui'.list, ui'.srv)
  BY <1>4 DEF Fresh, Web!Cached
<1> HIDE DEF At
<1>7. RoomTypes'
  <2>1. /\ ui'.out \subseteq RoomOut(ui'.sec) /\ IsFiniteSet(ui'.out)
        /\ Cardinality(ui'.out) = 0 /\ 0 <= Few
    BY <1>4, FS_EmptySet, ConsoleAssumption
  <2> QED BY <1>3, <1>4, <1>5, <2>1 DEF RoomTypes
<1>8. RoomOwn' /\ RoomFresh'
  BY <1>4, <1>6 DEF RoomOwn, RoomFresh
<1> QED BY <1>7, <1>8 DEF RoomInv

LEMMA RoomStep ==
  ASSUME RoomInv, RoomPage!Next
  PROVE  RoomInv'
<1>0. RoomTypes /\ RoomOwn /\ RoomFresh
  BY DEF RoomInv
<1> SUFFICES RoomTypes' /\ RoomOwn' /\ RoomFresh'
  BY DEF RoomInv
<1>b. RoomPage!InRooms <=> InRooms
  BY <1>0 DEF RoomTypes, InRooms, RoomPage!InRooms, RoomPage!Assigns
<1>c. /\ Web!mutate(ui.list) \in Web!Entries(RoomServer(ui.sec))
      /\ \A d : Fresh(Web!mutate(ui.list), d)
  BY <1>0, MutateFresh DEF RoomTypes
(* What a call makes of the server's data.                                     *)
<1>r. ASSUME NEW c \in ui.out
      PROVE  /\ InRooms => c \in RoomCalls /\ RoomPage!RoomEffect(c) \in RoomServer(ui.sec)
             /\ ~InRooms => RoomPage!AssignEffect(c) \in RoomServer(ui.sec)
  <2>1. CASE InRooms
    <3>1. ui.srv \in [Rooms -> 0..2] /\ c \in RoomCalls /\ RoomServer(ui.sec) = [Rooms -> 0..2]
      BY <1>0, <2>1 DEF RoomTypes, RoomServer, RoomOut, InRooms
    <3>2. c.room \in Rooms /\ c.op \in {"create", "update", "delete"} /\ ui.srv[c.room] \in 0..2
      BY <3>1 DEF RoomCalls
    <3> DEFINE v == CASE c.op = "create" -> 1
                      [] c.op = "update" -> IF ui.srv[c.room] = 0 THEN 0 ELSE 3 - ui.srv[c.room]
                      [] c.op = "delete" -> 0
    <3>3. v \in 0..2
      BY <3>2
    <3>4. RoomPage!RoomEffect(c) = [ui.srv EXCEPT ![c.room] = v]
      BY DEF RoomPage!RoomEffect
    <3> HIDE DEF v
    <3> QED BY <2>1, <3>1, <3>2, <3>3, <3>4
  <2>2. CASE ~InRooms
    BY <1>0, <2>2 DEF RoomTypes, InRooms, RoomServer, RoomOut, AssignCalls, RoomPage!AssignEffect
  <2> QED BY <2>1, <2>2
(* One call more, and one call less.                                           *)
<1>d. ASSUME NEW x, RoomPage!Room
      PROVE  IsFiniteSet(ui.out \union {x}) /\ Cardinality(ui.out \union {x}) <= Few
  <2>1. Cardinality(ui.out) < Few
    <3>1. RoomPage!Cardinality(ui.out) = Cardinality(ui.out)
      BY DEF RoomPage!Cardinality, Cardinality
    <3> QED BY <1>d, <3>1 DEF RoomPage!Room
  <2>2. /\ IsFiniteSet(ui.out \union {x})
        /\ Cardinality(ui.out \union {x}) \in {Cardinality(ui.out), Cardinality(ui.out) + 1}
    BY <1>0, FS_AddElement DEF RoomTypes
  <2> QED BY <1>0, <2>1, <2>2, FS_CardinalityType, ConsoleAssumption DEF RoomTypes
<1>e. ASSUME NEW x
      PROVE  IsFiniteSet(ui.out \ {x}) /\ Cardinality(ui.out \ {x}) <= Few
  BY <1>0, OneLess, ConsoleAssumption DEF RoomTypes
<1>1. CASE RoomPage!onOpenChange
  BY <1>0, <1>1 DEF RoomTypes, RoomOwn, RoomFresh, RoomPage!onOpenChange
<1>2. CASE RoomPage!handleDelete
  <2> DEFINE x == [op |-> "delete", room |-> ui.target, of |-> ui.target]
  <2>1. /\ ui.sec = "delete" /\ ~ui.loading /\ RoomPage!Room /\ ui.target \in Rooms
        /\ ui' = [ui EXCEPT !.loading = TRUE, !.out = @ \union {x}]
    BY <1>0, <1>2, ConsoleAssumption DEF RoomTypes, RoomPage!handleDelete
  <2>2. x \in RoomOut(ui.sec) /\ x.op = "delete"
    BY <2>1 DEF RoomOut, RoomCalls
  <2> HIDE DEF x
  <2>3. IsFiniteSet(ui.out \union {x}) /\ Cardinality(ui.out \union {x}) <= Few
    BY <1>d, <2>1
  <2>4. RoomTypes'
    BY <1>0, <2>1, <2>2, <2>3 DEF RoomTypes
  <2>5. RoomOwn' /\ RoomFresh'
    BY <1>0, <2>1, <2>2 DEF RoomTypes, RoomOwn, RoomFresh
  <2> QED BY <2>4, <2>5
<1>3. CASE RoomPage!handleSubmit
  <2> DEFINE x == [op |-> IF ui.sec = "add" THEN "create" ELSE "update", room |-> ui.target, of |-> ui.draft]
  <2>1. /\ ui.sec \in {"add", "edit"} /\ RoomPage!Room /\ ui.target \in Rooms /\ ui.draft = ui.target
        /\ ui' = [ui EXCEPT !.loading = TRUE, !.out = @ \union {x}]
    BY <1>0, <1>3 DEF RoomTypes, RoomOwn, RoomPage!handleSubmit
  <2>2. x \in RoomOut(ui.sec) /\ x.of = x.room
    BY <2>1 DEF RoomOut, RoomCalls
  <2> HIDE DEF x
  <2>3. IsFiniteSet(ui.out \union {x}) /\ Cardinality(ui.out \union {x}) <= Few
    BY <1>d, <2>1
  <2>4. RoomTypes'
    BY <1>0, <2>1, <2>2, <2>3 DEF RoomTypes
  <2>5. RoomOwn' /\ RoomFresh'
    BY <1>0, <2>1, <2>2 DEF RoomTypes, RoomOwn, RoomFresh
  <2> QED BY <2>4, <2>5
<1>4. CASE RoomPage!ListRead
  <2>1. ui' = [ui EXCEPT !.list = Web!Reads(@, ui.srv)]
    BY <1>4 DEF RoomPage!ListRead, RoomPage!Reads, Web!Reads
  <2>2. /\ Web!Reads(ui.list, ui.srv) \in Web!Entries(RoomServer(ui.sec))
        /\ Fresh(Web!Reads(ui.list, ui.srv), ui.srv)
    BY <1>0, ReadsFresh DEF RoomTypes
  <2> QED BY <1>0, <2>1, <2>2 DEF RoomTypes, RoomOwn, RoomFresh
<1>5. CASE RoomPage!ListArrives
  <2>1. ui.list.snap # {} /\ ui' = [ui EXCEPT !.list = Web!Arrives(@)]
    BY <1>5 DEF RoomPage!ListArrives, RoomPage!Arrives, Web!Arrives
  <2>2. /\ Web!Arrives(ui.list) \in Web!Entries(RoomServer(ui.sec))
        /\ Fresh(ui.list, ui.srv) => Fresh(Web!Arrives(ui.list), ui.srv)
    BY <1>0, <2>1, ArrivesFresh DEF RoomTypes
  <2> QED BY <1>0, <2>1, <2>2 DEF RoomTypes, RoomOwn, RoomFresh
<1>6. ASSUME NEW r \in Rooms, RoomPage!RoomCard(r)
      PROVE  RoomTypes' /\ RoomOwn' /\ RoomFresh'
  <2>1. ui' = [ui EXCEPT !.target = r, !.draft = r]
    BY <1>6 DEF RoomPage!RoomCard
  <2> QED BY <1>0, <2>1 DEF RoomTypes, RoomOwn, RoomFresh
<1>7. ASSUME NEW d \in Devices, RoomPage!handleAssign(d) \/ RoomPage!handleUnassign(d)
      PROVE  RoomTypes' /\ RoomOwn' /\ RoomFresh'
  <2>1. PICK op \in {"assign", "unassign"} :
          ~InRooms /\ RoomPage!Room /\ ui' = [ui EXCEPT !.out = @ \union {[op |-> op, device |-> d]}]
    BY <1>7, <1>b DEF RoomPage!handleAssign, RoomPage!handleUnassign
  <2> DEFINE x == [op |-> op, device |-> d]
  <2>2. /\ x \in RoomOut(ui.sec) /\ x.op # "update" /\ ui.sec # "delete"
        /\ ui' = [ui EXCEPT !.out = @ \union {x}]
    BY <2>1 DEF InRooms, RoomOut, AssignCalls
  <2> HIDE DEF x
  <2>3. IsFiniteSet(ui.out \union {x}) /\ Cardinality(ui.out \union {x}) <= Few
    BY <1>d, <2>1
  <2>4. RoomTypes'
    BY <1>0, <2>1, <2>2, <2>3 DEF RoomTypes
  <2>5. RoomOwn' /\ RoomFresh'
    BY <1>0, <2>1, <2>2 DEF RoomTypes, RoomOwn, RoomFresh
  <2> QED BY <2>4, <2>5
<1>8. ASSUME NEW c \in ui.out, RoomPage!RoomChanged(c)
      PROVE  RoomTypes' /\ RoomOwn' /\ RoomFresh'
  <2> DEFINE e == RoomPage!RoomEffect(c)
  <2>1. /\ InRooms
        /\ ui' = [ui EXCEPT !.srv = e, !.list = Web!mutate(@), !.target = None, !.loading = FALSE, !.out = @ \ {c}]
    <3>1. RoomPage!mutate(ui.list) = Web!mutate(ui.list)
      BY DEF RoomPage!mutate, Web!mutate
    <3> QED BY <1>8, <1>b, <3>1 DEF RoomPage!RoomChanged
  <2>2. e \in RoomServer(ui.sec)
    BY <1>r, <2>1
  <2> HIDE DEF e
  <2>3. RoomTypes'
    BY <1>0, <1>c, <1>e, <2>1, <2>2 DEF RoomTypes
  <2>4. RoomOwn' /\ RoomFresh'
    BY <1>0, <1>c, <2>1 DEF RoomTypes, RoomOwn, RoomFresh
  <2> QED BY <2>3, <2>4
<1>9. ASSUME NEW c \in ui.out, RoomPage!Assigned(c)
      PROVE  RoomTypes' /\ RoomOwn' /\ RoomFresh'
  <2> DEFINE e == RoomPage!AssignEffect(c)
  <2>1. /\ ~InRooms
        /\ ui' = [ui EXCEPT !.srv = e, !.out = @ \ {c}, !.lost = @ \/ ~ui.open,
                            !.list = IF ui.sec = "assignFloor" /\ ui.open THEN Web!mutate(@) ELSE @]
    BY <1>9, <1>b DEF RoomPage!Assigned, RoomPage!mutate, Web!mutate
  <2>2. e \in RoomServer(ui.sec) /\ ui.sec \in {"assignRoom", "assignFloor"}
    BY <1>0, <1>r, <2>1 DEF RoomTypes, InRooms
  <2> HIDE DEF e
  <2>3. RoomTypes'
    BY <1>0, <1>c, <1>e, <2>1, <2>2 DEF RoomTypes
  <2>4. RoomOwn' /\ RoomFresh'
    BY <1>0, <1>c, <2>1, <2>2 DEF RoomTypes, RoomOwn, RoomFresh
  <2> QED BY <2>3, <2>4
<1>10. ASSUME NEW c \in ui.out, RoomPage!Failed(c)
       PROVE  RoomTypes' /\ RoomOwn' /\ RoomFresh'
  <2>1. PICK d \in RoomServer(ui.sec) :
          ui' = [ui EXCEPT !.loading = FALSE, !.out = @ \ {c}, !.srv = d, !.lost = @ \/ d # ui.srv]
    <3>1. PICK d \in {ui.srv, IF RoomPage!InRooms THEN RoomPage!RoomEffect(c) ELSE RoomPage!AssignEffect(c)} :
            ui' = [ui EXCEPT !.loading = FALSE, !.out = @ \ {c}, !.srv = d, !.lost = @ \/ d # ui.srv]
      BY <1>10 DEF RoomPage!Failed
    <3>2. d \in RoomServer(ui.sec)
      BY <1>0, <1>b, <1>r DEF RoomTypes
    <3> QED BY <3>1, <3>2
  <2>2. RoomTypes'
    BY <1>0, <1>e, <2>1 DEF RoomTypes
  <2>3. RoomOwn' /\ RoomFresh'
    BY <1>0, <2>1 DEF RoomTypes, RoomOwn, RoomFresh
  <2> QED BY <2>2, <2>3
<1>11. CASE RoomPage!setAssignTarget
  <2>1. PICK ask \in {ui.list.asked, TRUE} : ui' = [ui EXCEPT !.open = TRUE, !.list = [@ EXCEPT !.asked = ask]]
    BY <1>11 DEF RoomPage!setAssignTarget
  <2>2. /\ [ui.list EXCEPT !.asked = ask] \in Web!Entries(RoomServer(ui.sec))
        /\ Fresh(ui.list, ui.srv) => Fresh([ui.list EXCEPT !.asked = ask], ui.srv)
    BY <1>0 DEF RoomTypes, Web!Entries, Fresh
  <2> QED BY <1>0, <2>1, <2>2 DEF RoomTypes, RoomOwn, RoomFresh
<1>12. CASE RoomPage!CloseAssign
  BY <1>0, <1>12 DEF RoomTypes, RoomOwn, RoomFresh, RoomPage!CloseAssign
<1> QED
  BY <1>1, <1>2, <1>3, <1>4, <1>5, <1>6, <1>7, <1>8, <1>9, <1>10, <1>11, <1>12 DEF RoomPage!Next
-----------------------------------------------------------------------------
(* The location of a device                                                    *)

Place == INSTANCE LocationForm

(* The form never names a room with the level of another, and keeps neither    *)
(* for the whole site.                                                         *)
Picked == {f \in Place!Locations : Place!Fits(f) /\ (f.type = "site" => f.level = NoLevel)}

LEMMA EditsPicked ==
  ASSUME NEW f \in Picked, NEW g \in Place!Edits(f)
  PROVE  g \in Picked
<1>1. /\ f \in Place!Locations /\ Place!Fits(f) /\ (f.type = "site" => f.level = NoLevel)
  BY DEF Picked
<1>2. ASSUME NEW t \in {"site", "floor", "room"}, g = Place!setLocationType(f, t)
      PROVE  g \in Picked
  <2>1. CASE t = "site"
    <3>1. g = [type |-> "site", level |-> NoLevel, room |-> NoRoom]
      BY <1>2, <2>1 DEF Place!setLocationType, Place!NoLocation
    <3> QED BY <3>1 DEF Picked, Place!Locations, Place!Fits
  <2>2. CASE t # "site"
    <3>1. g = [f EXCEPT !.type = t]
      BY <1>2, <2>2 DEF Place!setLocationType
    <3> QED BY <1>1, <1>2, <2>2, <3>1 DEF Picked, Place!Locations, Place!Fits
  <2> QED BY <2>1, <2>2
<1>3. ASSUME f.type \in {"floor", "room"}, NEW l \in Place!FloorLevels \union {NoLevel},
             g = Place!setSelectedLevel(f, l)
      PROVE  g \in Picked
  <2>1. g = [f EXCEPT !.level = l, !.room = NoRoom]
    BY <1>3 DEF Place!setSelectedLevel
  <2> QED BY <1>1, <1>3, <2>1 DEF Picked, Place!Locations, Place!Fits
<1>4. ASSUME f.type = "room", NEW r \in {q \in Rooms : RoomLevel[q] = f.level} \union {NoRoom},
             g = Place!setSelectedRoomId(f, r)
      PROVE  g \in Picked
  <2>1. g = [f EXCEPT !.room = r]
    BY <1>4 DEF Place!setSelectedRoomId
  <2> QED BY <1>1, <1>4, <2>1 DEF Picked, Place!Locations, Place!Fits
<1> QED BY <1>2, <1>3, <1>4 DEF Place!Edits

LEMMA PlacedPicked == Place!Placed \subseteq Picked /\ Place!NoLocation \in Picked
<1>1. ASSUME NEW r \in Rooms
      PROVE  [type |-> "room", level |-> RoomLevel[r], room |-> r] \in Picked
  BY <1>1 DEF Picked, Place!Locations, Place!FloorLevels, Place!Fits
<1>2. ASSUME NEW l \in Place!FloorLevels
      PROVE  [type |-> "floor", level |-> l, room |-> NoRoom] \in Picked
  BY <1>2 DEF Picked, Place!Locations, Place!Fits
<1>3. Place!NoLocation \in Picked /\ [Place!NoLocation EXCEPT !.type = "site"] \in Picked
  BY DEF Picked, Place!Locations, Place!Fits, Place!NoLocation
<1> QED BY <1>1, <1>2, <1>3 DEF Place!Placed

(* What the server makes of a whole location is one it keeps.                  *)
LEMMA WholePlaced ==
  ASSUME NEW f \in Picked, Place!Complete(f)
  PROVE  [f EXCEPT !.room = IF f.type = "room" THEN @ ELSE NoRoom] \in Place!Placed
<1> SUFFICES ASSUME NEW g, g = [f EXCEPT !.room = IF f.type = "room" THEN f.room ELSE NoRoom]
             PROVE  g \in Place!Placed
  OBVIOUS
<1>1. /\ f \in Place!Locations /\ Place!Fits(f) /\ (f.type = "site" => f.level = NoLevel)
  BY DEF Picked
<1>2. CASE f.type = "site"
  <2>1. SUFFICES ASSUME NEW h, h = [Place!NoLocation EXCEPT !.type = "site"]
                 PROVE  g = h
    BY DEF Place!Placed
  <2>2. g = [type |-> "site", level |-> NoLevel, room |-> NoRoom]
    BY <1>1, <1>2 DEF Place!Locations
  <2>3. h = [type |-> "site", level |-> NoLevel, room |-> NoRoom]
    BY <2>1 DEF Place!NoLocation
  <2> QED BY <2>2, <2>3
<1>3. CASE f.type = "floor"
  <2>1. g = [type |-> "floor", level |-> f.level, room |-> NoRoom]
    BY <1>1, <1>3 DEF Place!Locations
  <2>2. f.level \in Place!FloorLevels
    BY <1>1, <1>3 DEF Place!Locations, Place!Complete
  <2> QED BY <2>1, <2>2 DEF Place!Placed
<1>4. CASE f.type = "room"
  <2>1. f.room \in Rooms /\ f.level = RoomLevel[f.room]
    BY <1>1, <1>4 DEF Place!Locations, Place!Complete, Place!Fits
  <2>2. g = [type |-> "room", level |-> RoomLevel[f.room], room |-> f.room]
    BY <1>1, <1>4, <2>1 DEF Place!Locations
  <2> QED BY <2>1, <2>2 DEF Place!Placed
<1> QED BY <1>1, <1>2, <1>3, <1>4 DEF Place!Locations, Place!Complete

-----------------------------------------------------------------------------
(* The page of a device                                                        *)

DeviceTypes ==
  /\ DOMAIN ui = {"sec", "srv", "list", "open", "form", "submitting", "out", "edited", "lost", "gone"}
  /\ ui.sec \in Device!Sections
  /\ ui.srv \in Device!Server(ui.sec) /\ ui.list \in Web!Entries(Device!Server(ui.sec))
  /\ ui.form \in Device!Form(ui.sec) /\ ui.out \subseteq Device!Form(ui.sec)
  /\ ui.open \in BOOLEAN /\ ui.submitting \in BOOLEAN /\ ui.edited \in BOOLEAN
  /\ ui.lost \in BOOLEAN /\ ui.gone \in BOOLEAN

(* What may be sent: a whole location or none, a meter with a serial number.   *)
Sendable(s, f) ==
  /\ s = "addMeter" => f # Blank
  /\ s = "location" => f \in Picked /\ (f # Place!NoLocation => Place!Complete(f))

DeviceWhole ==
  /\ ui.sec = "location" => ui.form \in Picked
  /\ \A f \in ui.out : Sendable(ui.sec, f)

DeviceFresh == ~ui.lost => Fresh(ui.list, ui.srv)

DeviceInv == DeviceTypes /\ DeviceWhole /\ DeviceFresh

LEMMA DeviceHolds ==
  ASSUME DeviceInv
  PROVE  Device!TypeOK /\ Device!LocationWhole /\ Device!DeviceSettles
<1>1. Device!TypeOK
  <2>1. \A D : Device!Entries(D) = Web!Entries(D)
    BY DEF Web!Entries, Device!Entries
  <2> QED BY <2>1 DEF DeviceInv, DeviceTypes, Device!TypeOK
<1>2. Device!LocationWhole
  <2>1. ASSUME NEW f, Sendable("location", f), f # Device!NoLocation
        PROVE  Device!Complete(f) /\ Device!Fits(f)
    BY <2>1 DEF Sendable, Picked, Place!Fits, Place!Complete, Place!NoLocation, Device!Fits,
                Device!Complete, Device!NoLocation
  <2> QED BY <2>1 DEF DeviceInv, DeviceWhole, Device!LocationWhole
<1>3. Device!DeviceSettles
  BY DEF DeviceInv, DeviceFresh, Fresh, Device!DeviceSettles, Device!Resting
<1> QED BY <1>1, <1>2, <1>3

LEMMA DevicePlaces ==
  /\ Device!Locations = Place!Locations /\ Device!Placed = Place!Placed /\ Device!NoLocation = Place!NoLocation
  /\ \A f : Device!Complete(f) = Place!Complete(f)
  /\ \A f : Device!Edits(f) = Place!Edits(f)
<1>1. Device!NoLocation = Place!NoLocation /\ Device!FloorLevels = Place!FloorLevels
  BY DEF Device!NoLocation, Place!NoLocation, Device!FloorLevels, Place!FloorLevels
<1>2. Device!Locations = Place!Locations /\ Device!Placed = Place!Placed
  BY <1>1, Zenon DEF Device!Locations, Place!Locations, Device!Placed, Place!Placed
<1>3. \A f : Device!Complete(f) = Place!Complete(f)
  BY Zenon DEF Device!Complete, Place!Complete
<1>4. \A f, x : /\ Device!setLocationType(f, x) = Place!setLocationType(f, x)
                /\ Device!setSelectedLevel(f, x) = Place!setSelectedLevel(f, x)
                /\ Device!setSelectedRoomId(f, x) = Place!setSelectedRoomId(f, x)
  BY <1>1, Zenon
  DEF Device!setLocationType, Place!setLocationType, Device!setSelectedLevel, Place!setSelectedLevel,
      Device!setSelectedRoomId, Place!setSelectedRoomId
<1>5. \A f : Device!Edits(f) = Place!Edits(f)
  BY <1>1, <1>4, Zenon DEF Device!Edits, Place!Edits
<1> QED BY <1>1, <1>2, <1>3, <1>5

LEMMA DeviceMounts ==
  ASSUME ui' \in Device!Mounts
  PROVE  DeviceInv'
<1> DEFINE rec(s, d, f) == [sec |-> s, srv |-> d, list |-> Web!Cached(d), open |-> FALSE, form |-> f,
                            submitting |-> FALSE, out |-> {}, edited |-> FALSE, lost |-> FALSE, gone |-> FALSE]
<1>1. PICK s \in Device!Sections :
        ui' \in UNION {{rec(s, d, f) : f \in Device!FirstForm(s, d)} : d \in Device!Server(s)}
  BY Zenon DEF Device!Mounts, Device!Cached, Web!Cached
<1>2. PICK d \in Device!Server(s) : ui' \in {rec(s, d, f) : f \in Device!FirstForm(s, d)}
  BY <1>1, Zenon
<1>3. PICK f \in Device!FirstForm(s, d) : ui' = rec(s, d, f)
  BY <1>2, Zenon
<1>4. /\ DOMAIN ui' = {"sec", "srv", "list", "open", "form", "submitting", "out", "edited", "lost", "gone"}
      /\ ui'.sec = s /\ ui'.srv = d /\ ui'.list = Web!Cached(d) /\ ui'.form = f /\ ui'.out = {}
      /\ ui'.open = FALSE /\ ui'.submitting = FALSE /\ ui'.edited = FALSE
      /\ ui'.lost = FALSE /\ ui'.gone = FALSE
  BY <1>3
<1>5. s = "location" => f \in Picked
  BY <1>2, <1>3, DevicePlaces, PlacedPicked DEF Device!FirstForm, Device!Server, Device!Sections
<1>6. f \in Device!Form(s)
  <2>1. s = "location" => f \in Device!Locations
    BY <1>5, DevicePlaces DEF Picked
  <2>2. s # "location" => f \in Texts \union {Blank}
    BY <1>2, <1>3 DEF Device!FirstForm, Device!Server, Device!Sections
  <2> QED BY <2>1, <2>2 DEF Device!Form
<1>7. Web!Cached(d) \in Web!Entries(Device!Server(s)) /\ Fresh(Web!Cached(d), d)
  BY CachedFresh
<1> QED BY <1>4, <1>5, <1>6, <1>7 DEF DeviceInv, DeviceTypes, DeviceWhole, DeviceFresh

LEMMA DeviceStep ==
  ASSUME DeviceInv, Device!Next
  PROVE  DeviceInv'
<1>0. DeviceTypes /\ DeviceWhole /\ DeviceFresh
  BY DEF DeviceInv
<1> SUFFICES DeviceTypes' /\ DeviceWhole' /\ DeviceFresh'
  BY DEF DeviceInv
<1>a. /\ Web!mutate(ui.list) \in Web!Entries(Device!Server(ui.sec))
      /\ \A d : Fresh(Web!mutate(ui.list), d)
  BY <1>0, MutateFresh DEF DeviceTypes
<1>b. Place!NoLocation \in Device!Form("location") /\ Picked \subseteq Device!Form("location")
  BY PlacedPicked, DevicePlaces DEF Device!Form, Picked
<1>c. ui.sec # "location" => Blank \in Device!Form(ui.sec)
  BY DEF Device!Form
<1>d. ASSUME NEW f \in ui.out
      PROVE  Device!Stored(f) \in Device!Server(ui.sec)
  <2>1. Sendable(ui.sec, f) /\ f \in Device!Form(ui.sec) /\ ui.srv \in Device!Server(ui.sec)
        /\ ui.sec \in {"edit", "location", "addMeter", "configure"}
    BY <1>0 DEF DeviceTypes, DeviceWhole, Device!Sections
  <2>2. CASE ui.sec = "addMeter"
    BY <2>1, <2>2 DEF Sendable, Device!Form, Device!Server, Device!Stored
  <2>3. CASE ui.sec = "location"
    <3> DEFINE g == [f EXCEPT !.room = IF f.type = "room" THEN @ ELSE NoRoom]
    <3>1. Device!Stored(f) = g /\ Device!Server(ui.sec) = Place!Placed
      BY <2>3, DevicePlaces DEF Device!Stored, Device!Server
    <3>2. f # Place!NoLocation => g \in Place!Placed
      BY <2>1, <2>3, WholePlaced DEF Sendable
    <3>3. ASSUME f = Place!NoLocation
          PROVE  g \in Place!Placed
      <4>1. SUFFICES ASSUME NEW h, h = [f EXCEPT !.room = IF f.type = "room" THEN f.room ELSE NoRoom]
                     PROVE  h \in Place!Placed
        OBVIOUS
      <4>2. f = [type |-> "", level |-> NoLevel, room |-> NoRoom]
        BY <3>3 DEF Place!NoLocation
      <4>3. h = [f EXCEPT !.room = NoRoom]
        BY <4>1, <4>2
      <4>4. h = [type |-> "", level |-> NoLevel, room |-> NoRoom]
        BY <4>2, <4>3
      <4> QED BY <3>3, <4>2, <4>4 DEF Place!Placed
    <3> QED BY <3>1, <3>2, <3>3
  <2>4. CASE ui.sec \in {"edit", "configure"}
    BY <2>1, <2>4 DEF Device!Form, Device!Server, Device!Stored
  <2> QED BY <2>1, <2>2, <2>3, <2>4
<1>1. CASE Device!Open
  <2> DEFINE f == IF ui.sec = "configure" THEN ui.list.data ELSE ui.form
  <2>1. ui' = [ui EXCEPT !.open = TRUE, !.edited = FALSE, !.form = f]
    BY <1>0, <1>1 DEF DeviceTypes, Device!Open
  <2>2. f \in Device!Form(ui.sec) /\ (ui.sec = "location" => f = ui.form)
    <3>1. ui.sec = "configure" => f \in Device!Server("configure")
      BY <1>0 DEF DeviceTypes, Web!Entries
    <3>2. Device!Server("configure") = Device!Form("configure")
      BY DEF Device!Server, Device!Form
    <3> QED BY <1>0, <3>1, <3>2 DEF DeviceTypes
  <2> HIDE DEF f
  <2> QED BY <1>0, <2>1, <2>2 DEF DeviceTypes, DeviceWhole, DeviceFresh
<1>2. CASE Device!Close
  <2>1. CASE ui' = [ui EXCEPT !.open = FALSE, !.submitting = @ /\ ui.sec # "configure"]
    BY <1>0, <2>1 DEF DeviceTypes, DeviceWhole, DeviceFresh
  <2>2. CASE ui.sec = "addMeter" /\ ui' = [ui EXCEPT !.open = FALSE, !.form = Blank]
    BY <1>0, <1>c, <2>2 DEF DeviceTypes, DeviceWhole, DeviceFresh
  <2> QED BY <1>2, <2>1, <2>2 DEF Device!Close
<1>3. CASE Device!EditForm
  <2>1. PICK f \in IF ui.sec = "location" THEN Place!Edits(ui.form) ELSE Device!Form(ui.sec) :
          ui' = [ui EXCEPT !.form = f, !.edited = TRUE]
    BY <1>3, DevicePlaces, Zenon DEF Device!EditForm
  <2>2. /\ ui.sec = "location" => f \in Picked
        /\ f \in Device!Form(ui.sec)
    BY <1>0, <1>b, <2>1, EditsPicked DEF DeviceWhole
  <2> QED BY <1>0, <2>1, <2>2 DEF DeviceTypes, DeviceWhole, DeviceFresh
<1>4. ASSUME NEW f \in Device!Form(ui.sec), Sendable(ui.sec, f), Device!Send(f)
      PROVE  DeviceTypes' /\ DeviceWhole' /\ DeviceFresh'
  <2>1. ui' = [ui EXCEPT !.submitting = TRUE, !.out = @ \union {f}]
    BY <1>4 DEF Device!Send
  <2> QED BY <1>0, <1>4, <2>1 DEF DeviceTypes, DeviceWhole, DeviceFresh
<1>5. CASE Device!handleSave
  <2>1. Device!Ready(ui.form) /\ Device!Send(ui.form)
    BY <1>5 DEF Device!handleSave
  <2>2. /\ ui.sec = "location" => Place!Complete(ui.form)
        /\ ui.sec = "addMeter" => ui.form # Blank
    BY <2>1, DevicePlaces DEF Device!Ready
  <2> QED BY <1>0, <1>4, <2>1, <2>2 DEF DeviceTypes, DeviceWhole, Sendable
<1>6. CASE Device!handleRemove
  <2>1. ui.sec = "location" /\ Device!Send(Place!NoLocation)
    BY <1>6, DevicePlaces DEF Device!handleRemove
  <2>2. Sendable(ui.sec, Place!NoLocation)
    BY <2>1, PlacedPicked DEF Sendable
  <2> QED BY <1>b, <1>4, <2>1, <2>2
<1>7. CASE Device!handleDeleteDevice
  <2>1. ui' = [ui EXCEPT !.open = FALSE, !.gone = TRUE]
    BY <1>7 DEF Device!handleDeleteDevice
  <2> QED BY <1>0, <2>1 DEF DeviceTypes, DeviceWhole, DeviceFresh
<1>8. CASE Device!ListRead
  <2>1. ui' = [ui EXCEPT !.list = Web!Reads(@, ui.srv)]
    BY <1>8 DEF Device!ListRead, Device!Reads, Web!Reads
  <2>2. /\ Web!Reads(ui.list, ui.srv) \in Web!Entries(Device!Server(ui.sec))
        /\ Fresh(Web!Reads(ui.list, ui.srv), ui.srv)
    BY <1>0, ReadsFresh DEF DeviceTypes
  <2> QED BY <1>0, <2>1, <2>2 DEF DeviceTypes, DeviceWhole, DeviceFresh
<1>9. CASE Device!ListArrives
  <2>1. ui.list.snap # {} /\ ui' = [ui EXCEPT !.list = Web!Arrives(@)]
    BY <1>9 DEF Device!ListArrives, Device!Arrives, Web!Arrives
  <2>2. /\ Web!Arrives(ui.list) \in Web!Entries(Device!Server(ui.sec))
        /\ Fresh(ui.list, ui.srv) => Fresh(Web!Arrives(ui.list), ui.srv)
    BY <1>0, <2>1, ArrivesFresh DEF DeviceTypes
  <2> QED BY <1>0, <2>1, <2>2 DEF DeviceTypes, DeviceWhole, DeviceFresh
<1>10. ASSUME NEW f \in ui.out, Device!Saved(f)
       PROVE  DeviceTypes' /\ DeviceWhole' /\ DeviceFresh'
  <2> DEFINE stored == Device!Stored(f)
             form == IF ui.sec = "addMeter" THEN Blank ELSE ui.form
  <2>1. ui' = [ui EXCEPT !.srv = stored, !.list = Web!mutate(@), !.out = @ \ {f}, !.submitting = FALSE,
                         !.open = @ /\ ui.sec = "configure", !.form = form]
    <3>1. Device!mutate(ui.list) = Web!mutate(ui.list)
      BY DEF Device!mutate, Web!mutate
    <3> QED BY <1>0, <1>10, <3>1 DEF DeviceTypes, Device!Saved
  <2>2. stored \in Device!Server(ui.sec)
    BY <1>d
  <2>3. form \in Device!Form(ui.sec) /\ (ui.sec = "location" => form = ui.form)
    BY <1>0, <1>c DEF DeviceTypes
  <2> HIDE DEF stored, form
  <2> QED BY <1>0, <1>a, <2>1, <2>2, <2>3 DEF DeviceTypes, DeviceWhole, DeviceFresh
<1>11. ASSUME NEW f \in ui.out, Device!SaveFailed(f)
       PROVE  DeviceTypes' /\ DeviceWhole' /\ DeviceFresh'
  <2>1. PICK d \in Device!Server(ui.sec) :
          ui' = [ui EXCEPT !.out = @ \ {f}, !.submitting = FALSE, !.srv = d, !.lost = @ \/ d # ui.srv]
    <3>1. PICK d \in {ui.srv} \union Device!Broken(f) :
            ui' = [ui EXCEPT !.out = @ \ {f}, !.submitting = FALSE, !.srv = d, !.lost = @ \/ d # ui.srv]
      BY <1>11 DEF Device!SaveFailed
    <3>2. ui.sec = "location" => Device!NoLocation \in Device!Server(ui.sec)
      BY DevicePlaces, PlacedPicked DEF Device!Server, Place!Placed
    <3>3. d \in Device!Server(ui.sec)
      BY <1>0, <1>d, <3>1, <3>2 DEF DeviceTypes, Device!Broken
    <3> QED BY <3>1, <3>3
  <2> QED BY <1>0, <2>1 DEF DeviceTypes, DeviceWhole, DeviceFresh
<1>12. ASSUME NEW m \in Texts, Device!RemoveMeter(m)
       PROVE  DeviceTypes' /\ DeviceWhole' /\ DeviceFresh'
  <2>1. ui.sec = "addMeter" /\ ui' = [ui EXCEPT !.srv = @ \ {m}, !.list = Web!mutate(@)]
    BY <1>12 DEF Device!RemoveMeter, Device!mutate, Web!mutate
  <2>2. ui.srv \ {m} \in Device!Server(ui.sec)
    BY <1>0, <2>1 DEF DeviceTypes, Device!Server
  <2> QED BY <1>0, <1>a, <2>1, <2>2 DEF DeviceTypes, DeviceWhole, DeviceFresh
<1> QED
  BY <1>1, <1>2, <1>3, <1>5, <1>6, <1>7, <1>8, <1>9, <1>10, <1>11, <1>12 DEF Device!Next

-----------------------------------------------------------------------------
(* The wizard that creates a device                                            *)

(* Each step of the wizard has what the steps before it ask for, and while     *)
(* nothing is being created no request is out; a request is either for the     *)
(* device or for where it is.                                                  *)
NewDeviceInv ==
  /\ DOMAIN ui = {"step", "type", "name", "loc", "creating", "out", "placing", "leaving", "done"}
  /\ ui.step \in 1..3 /\ ui.type \in {"meter", "none"} /\ ui.name \in Texts \union {Blank}
  /\ ui.loc \in Picked /\ ui.out \subseteq [name : Texts \union {Blank}, type : {"meter", "none"}, loc : Picked]
  /\ ui.placing \subseteq Picked /\ ui.creating \in BOOLEAN /\ ui.leaving \in BOOLEAN /\ ui.done \in BOOLEAN
  /\ ui.step # 1 => ui.type # "none"
  /\ ui.step = 3 => ui.name # Blank
  /\ \A c \in ui.out : c.name # Blank /\ c.type # "none"
  /\ ~ui.creating => ui.out = {} /\ ui.placing = {}
  /\ ui.out = {} \/ ui.placing = {}
  /\ \A c, d \in ui.out : c = d
  /\ \A l, m \in ui.placing : l = m

LEMMA NewDevicePlaces ==
  /\ NewDevice!Locations = Place!Locations /\ NewDevice!NoLocation = Place!NoLocation
  /\ \A f : NewDevice!Fits(f) = Place!Fits(f)
  /\ \A f : NewDevice!Edits(f) = Place!Edits(f)
<1>1. NewDevice!NoLocation = Place!NoLocation /\ NewDevice!FloorLevels = Place!FloorLevels
  BY DEF NewDevice!NoLocation, Place!NoLocation, NewDevice!FloorLevels, Place!FloorLevels
<1>2. NewDevice!Locations = Place!Locations
  BY <1>1, Zenon DEF NewDevice!Locations, Place!Locations
<1>3. \A f : NewDevice!Fits(f) = Place!Fits(f)
  BY Zenon DEF NewDevice!Fits, Place!Fits
<1>4. \A f, x : /\ NewDevice!setLocationType(f, x) = Place!setLocationType(f, x)
                /\ NewDevice!setSelectedLevel(f, x) = Place!setSelectedLevel(f, x)
                /\ NewDevice!setSelectedRoomId(f, x) = Place!setSelectedRoomId(f, x)
  BY <1>1, Zenon
  DEF NewDevice!setLocationType, Place!setLocationType, NewDevice!setSelectedLevel, Place!setSelectedLevel,
      NewDevice!setSelectedRoomId, Place!setSelectedRoomId
<1>5. \A f : NewDevice!Edits(f) = Place!Edits(f)
  BY <1>1, <1>4, Zenon DEF NewDevice!Edits, Place!Edits
<1> QED BY <1>1, <1>2, <1>3, <1>5

LEMMA NewDeviceHolds ==
  ASSUME NewDeviceInv
  PROVE  NewDevice!TypeOK /\ NewDevice!CreatesWhole
<1>0. Picked \subseteq Place!Locations /\ \A f \in Picked : Place!Fits(f)
  BY DEF Picked
<1>1. NewDevice!TypeOK
  BY <1>0, NewDevicePlaces DEF NewDeviceInv, NewDevice!TypeOK, NewDevice!Types, NewDevice!Request
<1>2. Cardinality(ui.out \union ui.placing) <= 1
  <2>1. ASSUME NEW x \in ui.out \union ui.placing
        PROVE  ui.out \union ui.placing = {x}
    <3>1. CASE ui.placing = {}
      BY <2>1, <3>1 DEF NewDeviceInv
    <3>2. CASE ui.out = {}
      BY <2>1, <3>2 DEF NewDeviceInv
    <3> QED BY <3>1, <3>2 DEF NewDeviceInv
  <2> DEFINE S == ui.out \union ui.placing
  <2>2. CASE S = {}
    BY <2>2, FS_EmptySet
  <2>3. ASSUME NEW x \in S PROVE Cardinality(S) <= 1
    <3>1. S = {x}
      BY <2>1, <2>3
    <3> HIDE DEF S
    <3> QED BY <3>1, FS_Singleton
  <2> QED BY <2>2, <2>3
<1>3. NewDevice!Cardinality(ui.out \union ui.placing) = Cardinality(ui.out \union ui.placing)
  BY DEF NewDevice!Cardinality, Cardinality
<1>4. /\ \A c \in ui.out : c.name # Blank /\ c.type # "none" /\ NewDevice!Fits(c.loc)
      /\ \A l \in ui.placing : NewDevice!Fits(l)
  BY <1>0, NewDevicePlaces DEF NewDeviceInv
<1> QED BY <1>1, <1>2, <1>3, <1>4 DEF NewDevice!CreatesWhole

LEMMA NewDeviceMounts ==
  ASSUME ui' \in NewDevice!Mounts
  PROVE  NewDeviceInv'
<1>1. ui' = [step |-> 1, type |-> "none", name |-> Blank, loc |-> Place!NoLocation, creating |-> FALSE,
             out |-> {}, placing |-> {}, leaving |-> FALSE, done |-> FALSE]
  BY NewDevicePlaces DEF NewDevice!Mounts
<1> QED BY <1>1, PlacedPicked DEF NewDeviceInv

LEMMA NewDeviceStep ==
  ASSUME NewDeviceInv, NewDevice!Next
  PROVE  NewDeviceInv'
<1> USE DEF NewDeviceInv
<1>1. CASE NewDevice!goNext
  <2>1. ui.step \in {1, 2} /\ ui' = [ui EXCEPT !.step = ui.step + 1]
    BY <1>1 DEF NewDevice!goNext
  <2>2. /\ ui.type # "none"
        /\ ui.step = 2 => ui.name # Blank
    BY <1>1, <2>1 DEF NewDevice!goNext, NewDevice!canContinue
  <2>3. CASE ui.step = 1
    <3>1. ui' = [ui EXCEPT !.step = 2]
      BY <2>1, <2>3
    <3> QED BY <2>2, <3>1
  <2>4. CASE ui.step = 2
    <3>1. ui' = [ui EXCEPT !.step = 3]
      BY <2>1, <2>4
    <3> QED BY <2>2, <2>4, <3>1
  <2> QED BY <2>1, <2>3, <2>4
<1>2. CASE NewDevice!goBack
  <2>1. PICK s \in 1..(ui.step - 1) : ui' = [ui EXCEPT !.step = s]
    BY <1>2 DEF NewDevice!goBack
  <2>2. s \in 1..3 /\ ui.step # 1 /\ s # 3
    BY <2>1
  <2> QED BY <2>1, <2>2
<1>3. CASE NewDevice!LocationStep
  <2>1. PICK f \in Place!Edits(ui.loc) : ui' = [ui EXCEPT !.loc = f]
    BY <1>3, NewDevicePlaces DEF NewDevice!LocationStep
  <2>2. f \in Picked
    BY EditsPicked
  <2> QED BY <2>1, <2>2
<1>4. ASSUME NEW l \in Picked, ui.step = 3, ~ui.creating,
             ui' = [ui EXCEPT !.creating = TRUE, !.loc = l, !.out = @ \union {NewDevice!Create}]
      PROVE  NewDeviceInv'
  <2> DEFINE x == NewDevice!Create
  <2>1. /\ x \in [name : Texts \union {Blank}, type : {"meter", "none"}, loc : Picked]
        /\ x.name # Blank /\ x.type # "none"
    BY <1>4 DEF NewDevice!Create
  <2>2. ui'.out = {x}
    BY <1>4
  <2> HIDE DEF x
  <2> QED BY <1>4, <2>1, <2>2
<1>5. CASE NewDevice!handleCreate
  <2>1. ui' = [ui EXCEPT !.creating = TRUE, !.loc = ui.loc, !.out = @ \union {NewDevice!Create}]
    BY <1>5 DEF NewDevice!handleCreate
  <2> QED BY <1>4, <1>5, <2>1 DEF NewDevice!handleCreate
<1>6. CASE NewDevice!Skip
  <2>1. Place!NoLocation \in Picked
    BY PlacedPicked
  <2> QED BY <1>4, <1>6, <2>1, NewDevicePlaces DEF NewDevice!Skip
<1>7. ASSUME NEW t \in NewDevice!Types, NewDevice!setSelectedType(t)
      PROVE  NewDeviceInv'
  BY <1>7 DEF NewDevice!setSelectedType, NewDevice!Types
<1>8. ASSUME NEW n \in Texts \union {Blank}, NewDevice!setName(n)
      PROVE  NewDeviceInv'
  BY <1>8 DEF NewDevice!setName
<1>9. ASSUME NEW c \in ui.out, NewDevice!Created(c)
      PROVE  NewDeviceInv'
  <2>1. ui.out \ {c} = {} /\ ui.placing = {} /\ c.loc \in Picked
    OBVIOUS
  <2>2. CASE ui' = [ui EXCEPT !.out = @ \ {c}, !.placing = @ \union {c.loc}]
    <3>1. ui'.out = {} /\ ui'.placing = {c.loc} /\ ui'.creating = TRUE
      BY <2>1, <2>2
    <3> QED BY <2>1, <2>2, <3>1
  <2>3. CASE ui' = [ui EXCEPT !.out = @ \ {c}, !.creating = FALSE, !.leaving = TRUE]
    BY <2>1, <2>3
  <2>4. CASE ui' = [ui EXCEPT !.out = @ \ {c}, !.creating = FALSE]
    BY <2>1, <2>4
  <2> QED BY <1>9, <2>2, <2>3, <2>4 DEF NewDevice!Created
<1>10. ASSUME NEW l \in ui.placing, NewDevice!Located(l)
       PROVE  NewDeviceInv'
  <2>1. ui.placing \ {l} = {} /\ ui.out = {}
    OBVIOUS
  <2> QED BY <1>10, <2>1 DEF NewDevice!Located
<1>11. CASE NewDevice!NavigationEnds
  BY <1>11 DEF NewDevice!NavigationEnds
<1> QED
  BY <1>1, <1>2, <1>3, <1>5, <1>6, <1>7, <1>8, <1>9, <1>10, <1>11 DEF NewDevice!Next
-----------------------------------------------------------------------------
(* The settings of a site                                                      *)

(* What a section keeps at the server, and the requests it makes.              *)
SiteServer(s) == IF s = "site" THEN Site!Site ELSE IF s = "team" THEN Site!Team ELSE Site!Key
TeamCalls == [op : Site!Roles \union {"invite", "revoke", "remove"}, who : People]
SiteOut(s) ==
  IF s = "site"
  THEN {c \in [part : {"general", "tariffs"}, text : Texts \union {Blank}] : c.text \in Site!Contents(c.part)}
  ELSE IF s = "team" THEN TeamCalls ELSE 0..Some

SiteTypes ==
  /\ DOMAIN ui = {"sec", "srv", "list", "form", "editing", "dirty", "saving", "out", "menu", "asking", "key",
                "lost", "gone"}
  /\ ui.sec \in {"site", "team", "apiKey"} /\ ui.saving \subseteq {"general", "tariffs", "key"}
  /\ ui.srv \in SiteServer(ui.sec) /\ ui.form \in SiteServer(ui.sec)
  /\ ui.list \in Web!Entries(SiteServer(ui.sec))
  /\ ui.out \subseteq SiteOut(ui.sec) /\ IsFiniteSet(ui.out)
  /\ ui.sec = "team" => Cardinality(ui.out) <= Few
  /\ ui.menu \subseteq People /\ ui.asking \subseteq ui.menu
  /\ ui.dirty \in BOOLEAN /\ ui.lost \in BOOLEAN /\ ui.key \in 0..Some

(* The form is the cached site, where that is not empty, until somebody types, *)
(* and a question on its way brings what the server keeps unless an answer was *)
(* lost.                                                                       *)
Copies(form, data) == \A part \in {"general", "tariffs"} : data[part] # Blank => form[part] = data[part]
SiteFresh ==
  /\ ui.sec # "apiKey" /\ ~ui.lost => Fresh(ui.list, ui.srv)
  /\ ui.sec = "site" /\ ~ui.dirty => Copies(ui.form, ui.list.data)

(* One key is made at a time, the request for it knows the newest, and it is   *)
(* the one that is shown.                                                      *)
SiteKey ==
  ui.sec = "apiKey" =>
    /\ ui.saving = {} => ui.out = {}
    /\ ui.out \subseteq {ui.srv["key"]}
    /\ ui.key # 0 => ui.key = ui.srv["key"]

SiteInv == SiteTypes /\ SiteFresh /\ SiteKey

LEMMA SiteHolds ==
  ASSUME SiteInv
  PROVE  Site!TypeOK /\ Site!SettingsSettle /\ Site!KeyShownIsLive
<1>0. /\ \A S : Site!Cardinality(S) = Cardinality(S)
      /\ \A D : Site!Entries(D) = Web!Entries(D)
  BY DEF Site!Cardinality, Cardinality, Site!Entries, Web!Entries
<1>1. Site!TypeOK
  BY <1>0 DEF SiteInv, SiteTypes, SiteServer, SiteOut, Site!TypeOK, Site!Sections
<1>2. Site!SettingsSettle
  <2>1. SUFFICES ASSUME Site!Resting(ui.list), ~ui.lost
                 PROVE  /\ ui.sec # "apiKey" => ui.list.data = ui.srv
                        /\ ui.sec = "site" /\ ~ui.dirty => Copies(ui.form, ui.srv)
    BY DEF Site!SettingsSettle, Site!InSite, Copies
  <2> QED BY <2>1 DEF SiteInv, SiteFresh, Fresh, Site!Resting
<1>3. Site!KeyShownIsLive
  BY DEF SiteInv, SiteKey, Site!KeyShownIsLive
<1> QED BY <1>1, <1>2, <1>3

LEMMA SiteMounts ==
  ASSUME ui' \in Site!Mounts
  PROVE  SiteInv'
<1>0. PICK s \in {"site", "team", "apiKey"} : \E d \in SiteServer(s) : ui' = Site!Page(s, d)
  <2>1. /\ \A d \in Site!Site : d \in SiteServer("site")
        /\ [p \in People |-> "editor"] \in SiteServer("team")
        /\ [p \in People |-> "none"] \in SiteServer("team")
        /\ \A n \in 0..1 : [k \in {"key"} |-> n] \in SiteServer("apiKey")
    BY ConsoleAssumption DEF SiteServer, Site!Team, Site!Key, Site!Roles
  <2> QED BY <2>1, Zenon DEF Site!Mounts
<1>1. PICK d \in SiteServer(s) : ui' = Site!Page(s, d)
  BY <1>0
<1>2. ui' = [sec |-> s, srv |-> d, list |-> Web!Cached(d), form |-> d, editing |-> FALSE, dirty |-> FALSE,
             saving |-> {}, out |-> {}, menu |-> {}, asking |-> {}, key |-> 0, lost |-> FALSE, gone |-> FALSE]
  BY <1>1 DEF Site!Page, Site!Cached, Web!Cached
<1>3. Web!Cached(d) \in Web!Entries(SiteServer(s)) /\ Fresh(Web!Cached(d), d) /\ Web!Cached(d).data = d
  BY CachedFresh DEF Web!Cached
<1>4. IsFiniteSet({}) /\ Cardinality({}) <= Few /\ 0 \in 0..Some
  BY FS_EmptySet, ConsoleAssumption
<1>5. SiteTypes'
  BY <1>2, <1>3, <1>4 DEF SiteTypes
<1>6. SiteFresh' /\ SiteKey'
  BY <1>2, <1>3 DEF SiteFresh, SiteKey, Copies
<1> QED BY <1>5, <1>6 DEF SiteInv

LEMMA SiteStep ==
  ASSUME SiteInv, Site!Next
  PROVE  SiteInv'
<1>0. SiteTypes /\ SiteFresh /\ SiteKey
  BY DEF SiteInv
<1> SUFFICES SiteTypes' /\ SiteFresh' /\ SiteKey'
  BY DEF SiteInv
<1>a. /\ Web!mutate(ui.list) \in Web!Entries(SiteServer(ui.sec)) /\ Web!mutate(ui.list).data = ui.list.data
      /\ \A d : Fresh(Web!mutate(ui.list), d)
  <2>1. Web!mutate(ui.list).data = ui.list.data
    BY <1>0 DEF SiteTypes, Web!mutate, Web!Entries
  <2> QED BY <1>0, <2>1, MutateFresh DEF SiteTypes
<1>b. \A x : Site!mutate(x) = Web!mutate(x)
  BY DEF Site!mutate, Web!mutate
(* One request more, and one less.                                             *)
<1>c. ASSUME NEW x
      PROVE  /\ IsFiniteSet(ui.out \union {x})
             /\ Site!Room => Cardinality(ui.out \union {x}) <= Few
             /\ IsFiniteSet(ui.out \ {x})
             /\ ui.sec = "team" => Cardinality(ui.out \ {x}) <= Few
  <2>1. /\ IsFiniteSet(ui.out \union {x})
        /\ Cardinality(ui.out \union {x}) \in {Cardinality(ui.out), Cardinality(ui.out) + 1}
        /\ IsFiniteSet(ui.out \ {x}) /\ Cardinality(ui.out) \in Nat
    BY <1>0, FS_AddElement, FS_RemoveElement, FS_CardinalityType DEF SiteTypes
  <2>2. Site!Room => Cardinality(ui.out) < Few
    BY DEF Site!Room, Site!Cardinality, Cardinality
  <2>3. Site!Room => Cardinality(ui.out \union {x}) <= Few
    BY <2>1, <2>2, ConsoleAssumption
  <2>4. ui.sec = "team" => Cardinality(ui.out \ {x}) <= Few
    BY <1>0, OneLess, ConsoleAssumption DEF SiteTypes
  <2> QED BY <2>1, <2>3, <2>4
<1>1. CASE Site!setEditingGeneral
  <2>1. PICK b : ui' = [ui EXCEPT !.editing = b]
    BY <1>1 DEF Site!setEditingGeneral
  <2> QED BY <1>0, <2>1 DEF SiteTypes, SiteFresh, SiteKey
<1>2. CASE Site!handleRegenerateApiKey
  <2> DEFINE n == ui.srv["key"] + 1
  <2>1. /\ ui.sec = "apiKey" /\ ui.saving = {} /\ ui.srv["key"] < Some /\ ui.key = 0
        /\ ui.srv \in [{"key"} -> 0..Some]
    BY <1>0, <1>2 DEF SiteTypes, SiteServer, Site!Key, Site!handleRegenerateApiKey
  <2>2. ui.srv["key"] \in 0..Some /\ n \in 0..Some /\ ui.out = {}
    BY <1>0, <2>1, ConsoleAssumption DEF SiteKey
  <2>3. ui' = [ui EXCEPT !.saving = {"key"}, !.srv = [ui.srv EXCEPT !["key"] = n], !.out = {n}]
    BY <1>2, <2>2 DEF Site!handleRegenerateApiKey
  <2> HIDE DEF n
  <2> DEFINE d == [ui.srv EXCEPT !["key"] = n]
  <2>4. d \in SiteServer("apiKey") /\ d["key"] = n
    BY <2>1, <2>2 DEF SiteServer, Site!Key
  <2> HIDE DEF d
  <2>5. {n} \subseteq SiteOut("apiKey") /\ IsFiniteSet({n})
    BY <2>2, FS_Singleton DEF SiteOut
  <2>6. ui' = [ui EXCEPT !.saving = {"key"}, !.srv = d, !.out = {n}]
    BY <2>3 DEF d
  <2>7. SiteTypes'
    BY <1>0, <2>1, <2>4, <2>5, <2>6 DEF SiteTypes
  <2>8. SiteFresh' /\ SiteKey'
    BY <1>0, <2>1, <2>4, <2>6 DEF SiteTypes, SiteFresh, SiteKey
  <2> QED BY <2>7, <2>8
<1>3. CASE Site!DeleteSite
  BY <1>0, <1>3 DEF SiteTypes, SiteFresh, SiteKey, Site!DeleteSite
<1>4. CASE Site!ListRead
  <2>1. ui' = [ui EXCEPT !.list = Web!Reads(@, ui.srv)]
    BY <1>4 DEF Site!ListRead, Site!Reads, Web!Reads
  <2>2. /\ Web!Reads(ui.list, ui.srv) \in Web!Entries(SiteServer(ui.sec))
        /\ Fresh(Web!Reads(ui.list, ui.srv), ui.srv)
    BY <1>0, ReadsFresh DEF SiteTypes
  <2>3. Web!Reads(ui.list, ui.srv).data = ui.list.data
    BY <1>0 DEF SiteTypes, Web!Reads, Web!Entries
  <2> QED BY <1>0, <2>1, <2>2, <2>3 DEF SiteTypes, SiteFresh, SiteKey
<1>5. CASE Site!ListArrives
  <2> DEFINE got == Web!Arrives(ui.list)
             new == [ui EXCEPT !.list = got]
  <2>1. ui.list.snap # {} /\ ui' = Site!SyncSite(new)
    <3>1. Web!Arrives(ui.list) = Site!Arrives(ui.list)
      BY DEF Web!Arrives, Site!Arrives
    <3> QED BY <1>5, <3>1 DEF Site!ListArrives
  <2>2. /\ got \in Web!Entries(SiteServer(ui.sec)) /\ got.data \in SiteServer(ui.sec)
        /\ Fresh(ui.list, ui.srv) => Fresh(got, ui.srv)
    <3>1. /\ got \in Web!Entries(SiteServer(ui.sec))
          /\ Fresh(ui.list, ui.srv) => Fresh(got, ui.srv)
      BY <1>0, <2>1, ArrivesFresh DEF SiteTypes
    <3> QED BY <3>1 DEF Web!Entries
  <2> HIDE DEF got
  <2>3. new.list = got
    BY <1>0 DEF SiteTypes
  <2>4. CASE ui.sec = "site" /\ got.data # ui.list.data
    <3> DEFINE f == Site!Copied(ui.form, got.data)
    <3>1. ui' = [new EXCEPT !.form = f, !.dirty = FALSE]
      BY <1>0, <2>1, <2>3, <2>4 DEF SiteTypes, Site!SyncSite, Site!InSite
    <3>2. f \in SiteServer("site") /\ Copies(f, got.data)
      BY <1>0, <2>2, <2>4 DEF SiteTypes, SiteServer, Site!Site, Site!Contents, Site!Copied, Copies
    <3> HIDE DEF f
    <3> QED BY <1>0, <2>2, <2>4, <3>1, <3>2 DEF SiteTypes, SiteFresh, SiteKey
  <2>5. CASE ui.sec # "site" \/ got.data = ui.list.data
    <3>1. ui' = new
      BY <1>0, <2>1, <2>3, <2>5 DEF SiteTypes, Site!SyncSite, Site!InSite
    <3> QED BY <1>0, <2>2, <2>5, <3>1 DEF SiteTypes, SiteFresh, SiteKey
  <2> QED BY <2>4, <2>5
<1>6. ASSUME NEW part \in {"general", "tariffs"}, Site!handleSave(part)
      PROVE  SiteTypes' /\ SiteFresh' /\ SiteKey'
  <2> DEFINE x == [part |-> part, text |-> ui.form[part]]
  <2>1. ui.sec = "site" /\ ui' = [ui EXCEPT !.saving = @ \union {part}, !.out = @ \union {x}]
    BY <1>6 DEF Site!handleSave, Site!InSite
  <2>2. x \in SiteOut("site")
    BY <1>0, <2>1 DEF SiteTypes, SiteServer, SiteOut, Site!Site, Site!Contents
  <2> HIDE DEF x
  <2>3. IsFiniteSet(ui.out \union {x})
    BY <1>c
  <2> QED BY <1>0, <2>1, <2>2, <2>3 DEF SiteTypes, SiteFresh, SiteKey
<1>7. ASSUME NEW part \in {"general", "tariffs"}, NEW t \in Site!Contents(part), Site!update(part, t)
      PROVE  SiteTypes' /\ SiteFresh' /\ SiteKey'
  <2> DEFINE f == [ui.form EXCEPT ![part] = t]
  <2>1. ui.sec = "site" /\ ui' = [ui EXCEPT !.form = f, !.dirty = TRUE]
    BY <1>7 DEF Site!update, Site!InSite
  <2>2. f \in SiteServer("site")
    BY <1>0, <2>1 DEF SiteTypes, SiteServer, Site!Site, Site!Contents
  <2> HIDE DEF f
  <2> QED BY <1>0, <2>1, <2>2 DEF SiteTypes, SiteFresh, SiteKey
(* A request about the team.                                                   *)
<1>8. ASSUME NEW op \in Site!Roles \union {"invite", "revoke", "remove"}, NEW p \in People,
             ui.sec = "team", Site!Room, Site!Ask(op, p)
      PROVE  SiteTypes' /\ SiteFresh' /\ SiteKey'
  <2> DEFINE x == [op |-> op, who |-> p]
  <2>1. ui' = [ui EXCEPT !.out = @ \union {x}, !.menu = {}, !.asking = {}]
    BY <1>8 DEF Site!Ask
  <2>2. x \in SiteOut("team")
    BY DEF SiteOut, TeamCalls
  <2> HIDE DEF x
  <2>3. IsFiniteSet(ui.out \union {x}) /\ Cardinality(ui.out \union {x}) <= Few
    BY <1>8, <1>c
  <2> QED BY <1>0, <1>8, <2>1, <2>2, <2>3 DEF SiteTypes, SiteFresh, SiteKey
<1>9. ASSUME NEW p \in People,
             \/ Site!handleInvite(p) \/ Site!handleRevokeInvite(p) \/ Site!handleRemoveMember(p)
             \/ \E r \in Site!Roles : Site!handleChangeMemberRole(p, r)
      PROVE  SiteTypes' /\ SiteFresh' /\ SiteKey'
  BY <1>8, <1>9
  DEF Site!handleInvite, Site!handleRevokeInvite, Site!handleRemoveMember, Site!handleChangeMemberRole,
      Site!InTeam
<1>10. ASSUME NEW p \in People, Site!setMemberMenuOpen(p) \/ Site!setConfirmRemove(p)
       PROVE  SiteTypes' /\ SiteFresh' /\ SiteKey'
  <2>1. CASE Site!setMemberMenuOpen(p)
    BY <1>0, <2>1 DEF SiteTypes, SiteFresh, SiteKey, Site!setMemberMenuOpen
  <2>2. CASE Site!setConfirmRemove(p)
    BY <1>0, <2>2 DEF SiteTypes, SiteFresh, SiteKey, Site!setConfirmRemove
  <2> QED BY <1>10, <2>1, <2>2
(* What a site.update makes of the site is one.                                *)
<1>d. ASSUME NEW c \in ui.out, ui.sec = "site"
      PROVE  [ui.srv EXCEPT ![c.part] = c.text] \in SiteServer("site")
  <2>1. /\ ui.srv \in Site!Site
        /\ c \in {x \in [part : {"general", "tariffs"}, text : Texts \union {Blank}] : x.text \in Site!Contents(x.part)}
    BY <1>0, <1>d DEF SiteTypes, SiteServer, SiteOut
  <2> QED BY <2>1 DEF SiteServer, Site!Site, Site!Contents
<1>11. ASSUME NEW c \in ui.out, Site!SiteSaved(c)
       PROVE  SiteTypes' /\ SiteFresh' /\ SiteKey'
  <2> DEFINE d == [ui.srv EXCEPT ![c.part] = c.text]
  <2>1. PICK b : /\ ui.sec = "site"
                 /\ ui' = [ui EXCEPT !.srv = d, !.out = @ \ {c}, !.saving = @ \ {c.part}, !.editing = b,
                                     !.list = Web!mutate(@)]
    BY <1>b, <1>11 DEF Site!SiteSaved, Site!InSite
  <2>2. d \in SiteServer("site")
    BY <1>d, <2>1
  <2> HIDE DEF d
  <2>3. IsFiniteSet(ui.out \ {c})
    BY <1>c
  <2>4. SiteTypes'
    BY <1>0, <1>a, <2>1, <2>2, <2>3 DEF SiteTypes
  <2>5. SiteFresh' /\ SiteKey'
    BY <1>0, <1>a, <2>1 DEF SiteTypes, SiteFresh, SiteKey
  <2> QED BY <2>4, <2>5
<1>12. ASSUME NEW c \in ui.out, Site!SaveFailed(c)
       PROVE  SiteTypes' /\ SiteFresh' /\ SiteKey'
  <2> DEFINE d == [ui.srv EXCEPT ![c.part] = c.text]
  <2>1. /\ ui.sec = "site"
        /\ \/ ui' = [ui EXCEPT !.out = @ \ {c}, !.saving = @ \ {c.part}]
           \/ ui' = [ui EXCEPT !.out = @ \ {c}, !.saving = @ \ {c.part}, !.srv = d, !.lost = TRUE]
    BY <1>12 DEF Site!SaveFailed, Site!InSite
  <2>2. IsFiniteSet(ui.out \ {c}) /\ d \in SiteServer("site")
    BY <1>c, <1>d, <2>1
  <2> HIDE DEF d
  <2>3. CASE ui' = [ui EXCEPT !.out = @ \ {c}, !.saving = @ \ {c.part}]
    BY <1>0, <2>1, <2>2, <2>3 DEF SiteTypes, SiteFresh, SiteKey
  <2>4. CASE ui' = [ui EXCEPT !.out = @ \ {c}, !.saving = @ \ {c.part}, !.srv = d, !.lost = TRUE]
    BY <1>0, <2>1, <2>2, <2>4 DEF SiteTypes, SiteFresh, SiteKey
  <2> QED BY <2>1, <2>3, <2>4
<1>13. ASSUME NEW c \in ui.out, Site!TeamChanged(c)
       PROVE  SiteTypes' /\ SiteFresh' /\ SiteKey'
  <2> DEFINE e == Site!TeamEffect(c, ui.srv[c.who])
             d == [ui.srv EXCEPT ![c.who] = e]
  <2>1. /\ ui.sec = "team" /\ c \in TeamCalls
        /\ ui.srv \in [People -> {"editor", "viewer", "invited", "none"}]
    BY <1>0, <1>13 DEF SiteTypes, SiteServer, SiteOut, Site!Team, Site!Roles, Site!TeamChanged, Site!InTeam
  <2>2. d \in SiteServer("team")
    <3>1. c.who \in People /\ c.op \in {"editor", "viewer", "invite", "revoke", "remove"}
      BY <2>1 DEF TeamCalls, Site!Roles
    <3>2. e \in {"editor", "viewer", "invited", "none"}
      BY <2>1, <3>1 DEF Site!TeamEffect, Site!Roles
    <3> HIDE DEF e
    <3> QED BY <2>1, <3>1, <3>2 DEF SiteServer, Site!Team, Site!Roles
  <2>3. \/ ui' = [ui EXCEPT !.srv = d, !.out = @ \ {c}, !.list = Web!mutate(@)]
        \/ ui' = [ui EXCEPT !.out = @ \ {c}]
        \/ ui' = [ui EXCEPT !.srv = d, !.out = @ \ {c}, !.lost = TRUE]
    BY <1>b, <1>13 DEF Site!TeamChanged
  <2> HIDE DEF d
  <2>4. IsFiniteSet(ui.out \ {c}) /\ Cardinality(ui.out \ {c}) <= Few
    BY <1>c, <2>1
  <2>5. CASE ui' = [ui EXCEPT !.srv = d, !.out = @ \ {c}, !.list = Web!mutate(@)]
    <3>1. SiteTypes'
      BY <1>0, <1>a, <2>1, <2>2, <2>4, <2>5 DEF SiteTypes
    <3>2. SiteFresh' /\ SiteKey'
      BY <1>0, <1>a, <2>1, <2>5 DEF SiteTypes, SiteFresh, SiteKey
    <3> QED BY <3>1, <3>2
  <2>6. CASE ui' = [ui EXCEPT !.out = @ \ {c}]
    BY <1>0, <2>1, <2>4, <2>6 DEF SiteTypes, SiteFresh, SiteKey
  <2>7. CASE ui' = [ui EXCEPT !.srv = d, !.out = @ \ {c}, !.lost = TRUE]
    BY <1>0, <2>1, <2>2, <2>4, <2>7 DEF SiteTypes, SiteFresh, SiteKey
  <2> QED BY <2>3, <2>5, <2>6, <2>7
<1>14. ASSUME NEW k \in ui.out, Site!KeyAnswered(k)
       PROVE  SiteTypes' /\ SiteFresh' /\ SiteKey'
  <2>1. /\ ui.sec = "apiKey" /\ k \in 0..Some /\ k = ui.srv["key"] /\ ui.out \ {k} = {}
    BY <1>0, <1>14 DEF SiteTypes, SiteKey, SiteOut, Site!KeyAnswered
  <2>2. \/ ui' = [ui EXCEPT !.out = @ \ {k}, !.saving = {}, !.key = k, !.list = Web!mutate(@)]
        \/ ui' = [ui EXCEPT !.out = @ \ {k}, !.saving = {}]
    BY <1>b, <1>14 DEF Site!KeyAnswered
  <2>3. IsFiniteSet(ui.out \ {k})
    BY <1>c
  <2>4. CASE ui' = [ui EXCEPT !.out = @ \ {k}, !.saving = {}, !.key = k, !.list = Web!mutate(@)]
    <3>1. SiteTypes'
      BY <1>0, <1>a, <2>1, <2>3, <2>4 DEF SiteTypes
    <3>2. SiteFresh' /\ SiteKey'
      BY <1>0, <1>a, <2>1, <2>4 DEF SiteTypes, SiteFresh, SiteKey
    <3> QED BY <3>1, <3>2
  <2>5. CASE ui' = [ui EXCEPT !.out = @ \ {k}, !.saving = {}]
    BY <1>0, <2>1, <2>3, <2>5 DEF SiteTypes, SiteFresh, SiteKey
  <2> QED BY <2>2, <2>4, <2>5
<1> QED
  BY <1>1, <1>2, <1>3, <1>4, <1>5, <1>6, <1>7, <1>9, <1>10, <1>11, <1>12, <1>13, <1>14 DEF Site!Next
-----------------------------------------------------------------------------
(* The integrations page                                                       *)

Integration == [id : Services!Ids, provider : Providers, status : {"connected", "syncing"}]

ServicesTypes ==
  /\ DOMAIN ui = {"connected", "made", "dialog", "filled", "connecting", "timers", "syncs", "confirm"}
  /\ ui.connected \subseteq Integration
  /\ ui.dialog \in Providers \union {None} /\ ui.filled \in BOOLEAN /\ ui.connecting \in BOOLEAN
  /\ ui.made \in Services!Ids /\ ui.confirm \in {0} \union Services!Ids
  /\ ui.timers \in [Providers -> {0, 1}] /\ ui.syncs \in [Services!Ids -> {0, 1}]

(* The spinner turns for the one timer that runs; it runs for a provider that  *)
(* is not connected, and so is the provider of the dialog.                     *)
ServicesOnce ==
  /\ ~ui.connecting => \A p \in Providers : ui.timers[p] = 0
  /\ \A p, q \in Providers : ui.timers[p] = 1 /\ ui.timers[q] = 1 => p = q
  /\ \A c \in ui.connected : ui.timers[c.provider] = 0 /\ (ui.dialog # None => c.provider # ui.dialog)
  /\ \A c, d \in ui.connected : c.provider = d.provider => c = d

(* Identifiers are given once, and a sync runs for a given one only.           *)
ServicesSync ==
  /\ \A c \in ui.connected : c.id <= ui.made
  /\ \A c, d \in ui.connected : c.id = d.id => c = d
  /\ \A i \in Services!Ids : i > ui.made => ui.syncs[i] = 0
  /\ \A c \in ui.connected : c.status = "syncing" <=> ui.syncs[c.id] = 1

ServicesInv == ServicesTypes /\ ServicesOnce /\ ServicesSync

LEMMA ServicesHolds ==
  ASSUME ServicesInv
  PROVE  Services!TypeOK /\ Services!ProvidersUnique /\ Services!SyncShown
<1>1. Services!TypeOK
  <2>1. /\ {0, 1} \subseteq Services!Ids \union {0} /\ {0, 1} \subseteq 0..2
        /\ {0} \union Services!Ids \subseteq 0..(Some + 1)
    BY ConsoleAssumption DEF Services!Ids
  <2>2. ui.timers \in [Providers -> Services!Ids \union {0}] /\ ui.syncs \in [Services!Ids -> 0..2]
    BY <2>1 DEF ServicesInv, ServicesTypes
  <2> QED BY <2>1, <2>2 DEF ServicesInv, ServicesTypes, Integration, Services!TypeOK
<1>2. Services!ProvidersUnique
  BY DEF ServicesInv, ServicesOnce, Services!ProvidersUnique
<1>3. Services!SyncShown
  <2>1. ASSUME NEW c \in ui.connected
        PROVE  ui.syncs[c.id] = 1 <=> ui.syncs[c.id] > 0
    BY DEF ServicesInv, ServicesTypes, Integration
  <2> QED BY <2>1 DEF ServicesInv, ServicesSync, Services!SyncShown
<1> QED BY <1>1, <1>2, <1>3

LEMMA ServicesMounts ==
  ASSUME ui' \in Services!Mounts
  PROVE  ServicesInv'
<1> DEFINE first(p) == [id |-> 1, provider |-> p, status |-> "connected"]
<1>1. PICK p \in Providers :
        ui' = [connected |-> {first(p)}, made |-> 1,
               dialog |-> None, filled |-> FALSE, connecting |-> FALSE, timers |-> [q \in Providers |-> 0],
               syncs |-> [i \in Services!Ids |-> 0], confirm |-> 0]
  BY DEF Services!Mounts
<1>2. 1 \in Services!Ids
  BY ConsoleAssumption DEF Services!Ids
<1>3. first(p) \in Integration
  BY <1>2 DEF Integration
<1>4. ServicesTypes'
  BY <1>1, <1>2, <1>3 DEF ServicesTypes
<1>5. ServicesOnce'
  BY <1>1 DEF ServicesOnce
<1>6. ServicesSync'
  <2>1. first(p).id = 1 /\ first(p).status = "connected"
    OBVIOUS
  <2> QED BY <1>1, <1>2, <2>1 DEF ServicesSync
<1> QED BY <1>4, <1>5, <1>6 DEF ServicesInv

(* A status is changed in place.                                               *)
LEMMA StatusInPlace ==
  ASSUME NEW C \in SUBSET Integration, NEW i, NEW s \in {"connected", "syncing"},
         NEW d \in Services!SetStatus(C, i, s)
  PROVE  /\ d \in Integration
         /\ \E c \in C : /\ c.id = d.id /\ c.provider = d.provider
                         /\ d = IF c.id = i THEN [c EXCEPT !.status = s] ELSE c
                         /\ d.status = IF c.id = i THEN s ELSE c.status
<1>1. PICK c \in C : d = IF c.id = i THEN [c EXCEPT !.status = s] ELSE c
  BY DEF Services!SetStatus
<1>2. CASE c.id = i
  <2>1. d = [c EXCEPT !.status = s]
    BY <1>1, <1>2
  <2>2. d \in Integration /\ c.id = d.id /\ c.provider = d.provider /\ d.status = s
    BY <2>1 DEF Integration
  <2> QED BY <1>1, <1>2, <2>2
<1>3. CASE c.id # i
  BY <1>1, <1>3
<1> QED BY <1>2, <1>3

LEMMA SyncMoves ==
  ASSUME ServicesInv, NEW i \in Services!Ids, NEW s \in {"connected", "syncing"}, NEW n \in {0, 1},
         s = "syncing" <=> n = 1, i <= ui.made \/ n = 0,
         ui' = [ui EXCEPT !.connected = Services!SetStatus(@, i, s), !.syncs = [ui.syncs EXCEPT ![i] = n]]
  PROVE  ServicesInv'
<1>0. ServicesTypes /\ ServicesOnce /\ ServicesSync
  BY DEF ServicesInv
<1> DEFINE C == Services!SetStatus(ui.connected, i, s)
           S == [ui.syncs EXCEPT ![i] = n]
<1>1. \A d \in C : /\ d \in Integration
                   /\ \E c \in ui.connected : /\ c.id = d.id /\ c.provider = d.provider
                                              /\ d = IF c.id = i THEN [c EXCEPT !.status = s] ELSE c
                                              /\ d.status = IF c.id = i THEN s ELSE c.status
  BY <1>0, StatusInPlace DEF ServicesTypes
<1>2. S \in [Services!Ids -> {0, 1}] /\ S[i] = n /\ \A j \in Services!Ids : j # i => S[j] = ui.syncs[j]
  BY <1>0 DEF ServicesTypes
<1> HIDE DEF C, S
<1>3. ui' = [ui EXCEPT !.connected = C, !.syncs = S]
  BY DEF C, S
<1>4. ServicesTypes'
  BY <1>0, <1>1, <1>2, <1>3 DEF ServicesTypes
<1>5. ServicesOnce'
  <2>1. \A d \in C : ui.timers[d.provider] = 0 /\ (ui.dialog # None => d.provider # ui.dialog)
    BY <1>0, <1>1 DEF ServicesOnce
  <2>2. \A d, e \in C : d.provider = e.provider => d = e
    BY <1>0, <1>1 DEF ServicesOnce
  <2>3. /\ ui'.connected = C /\ ui'.timers = ui.timers /\ ui'.dialog = ui.dialog
        /\ ui'.connecting = ui.connecting
    BY <1>0, <1>3 DEF ServicesTypes
  <2> QED BY <1>0, <2>1, <2>2, <2>3 DEF ServicesOnce
<1>6. ServicesSync'
  <2>1. \A d \in C : d.id <= ui.made
    BY <1>0, <1>1 DEF ServicesSync
  <2>2. \A d, e \in C : d.id = e.id => d = e
    BY <1>0, <1>1 DEF ServicesSync
  <2>3. ASSUME NEW j \in Services!Ids, j > ui.made
        PROVE  S[j] = 0
    BY <1>0, <1>2, <2>3 DEF ServicesTypes, ServicesSync, Services!Ids
  <2>4. ASSUME NEW d \in C
        PROVE  d.status = "syncing" <=> S[d.id] = 1
    <3>1. d.id \in Services!Ids
      BY <1>1, <2>4 DEF Integration
    <3>2. PICK c \in ui.connected : c.id = d.id /\ d.status = IF c.id = i THEN s ELSE c.status
      BY <1>1, <2>4
    <3>3. CASE d.id = i
      BY <1>2, <3>2, <3>3
    <3>4. CASE d.id # i
      BY <1>0, <1>2, <3>1, <3>2, <3>4 DEF ServicesSync
    <3> QED BY <3>3, <3>4
  <2> QED BY <1>0, <1>3, <2>1, <2>2, <2>3, <2>4 DEF ServicesTypes, ServicesSync
<1> QED BY <1>4, <1>5, <1>6 DEF ServicesInv

LEMMA ServicesStep ==
  ASSUME ServicesInv, Services!Next
  PROVE  ServicesInv'
<1>0. ServicesTypes /\ ServicesOnce /\ ServicesSync
  BY DEF ServicesInv
<1>a. Services!Ids = 1..(Some + 1) /\ Some \in Nat
  BY ConsoleAssumption DEF Services!Ids
<1>1. ASSUME NEW p \in Providers, Services!handleOpenConnect(p)
      PROVE  ServicesInv'
  <2>1. p \notin {c.provider : c \in ui.connected} /\ ui' = [ui EXCEPT !.dialog = p, !.filled = FALSE]
    BY <1>1 DEF Services!handleOpenConnect, Services!unconnected
  <2>2. \A c \in ui.connected : c.provider # p
    BY <2>1
  <2>3. ServicesTypes'
    BY <1>0, <2>1 DEF ServicesTypes
  <2>4. ServicesOnce' /\ ServicesSync'
    BY <1>0, <2>1, <2>2 DEF ServicesTypes, ServicesOnce, ServicesSync
  <2> QED BY <2>3, <2>4 DEF ServicesInv
<1>2. CASE Services!CloseConnect
  <2>1. ui' = [ui EXCEPT !.dialog = None]
    BY <1>2 DEF Services!CloseConnect
  <2> QED BY <1>0, <2>1 DEF ServicesInv, ServicesTypes, ServicesOnce, ServicesSync
<1>3. CASE Services!setFormValues
  BY <1>0, <1>3 DEF ServicesInv, ServicesTypes, ServicesOnce, ServicesSync, Services!setFormValues
<1>4. CASE Services!handleConnect
  <2> DEFINE T == [ui.timers EXCEPT ![ui.dialog] = ui.timers[ui.dialog] + 1]
  <2>1. /\ ui.dialog \in Providers /\ ~ui.connecting
        /\ ui' = [ui EXCEPT !.connecting = TRUE, !.timers = T]
    BY <1>0, <1>4 DEF ServicesTypes, Services!handleConnect
  <2>2. \A p \in Providers : T[p] = IF p = ui.dialog THEN 1 ELSE 0
    BY <1>0, <2>1 DEF ServicesTypes, ServicesOnce
  <2>3. T \in [Providers -> {0, 1}]
    BY <1>0, <2>1, <2>2 DEF ServicesTypes
  <2> HIDE DEF T
  <2>4. ServicesTypes' /\ ServicesSync'
    BY <1>0, <2>1, <2>3 DEF ServicesTypes, ServicesSync
  <2>5. ServicesOnce'
    <3>1. \A c \in ui.connected : c.provider \in Providers /\ c.provider # ui.dialog
      BY <1>0, <1>4 DEF ServicesTypes, ServicesOnce, Integration, Services!handleConnect
    <3> QED BY <1>0, <2>1, <2>2, <3>1 DEF ServicesTypes, ServicesOnce
  <2> QED BY <2>4, <2>5 DEF ServicesInv
<1>5. ASSUME NEW p \in Providers, Services!Connected(p)
      PROVE  ServicesInv'
  <2> DEFINE x == [id |-> ui.made + 1, provider |-> p, status |-> "connected"]
             T == [ui.timers EXCEPT ![p] = ui.timers[p] - 1]
             m == ui.made + 1
  <2>1. /\ ui.timers[p] = 1 /\ ui.made < Some + 1
        /\ ui' = [ui EXCEPT !.connected = @ \union {x}, !.made = m, !.timers = T,
                            !.connecting = FALSE, !.dialog = None]
    BY <1>0, <1>5 DEF ServicesTypes, Services!Connected
  <2>2. m \in Services!Ids /\ ui.made \in Int /\ m = ui.made + 1
    BY <1>0, <1>a, <2>1 DEF ServicesTypes
  <2>3. x \in Integration /\ x.id = m /\ x.provider = p /\ x.status = "connected"
    BY <2>2 DEF Integration
  <2>4. T \in [Providers -> {0, 1}] /\ \A q \in Providers : T[q] = 0
    BY <1>0, <2>1 DEF ServicesTypes, ServicesOnce
  <2>5. \A c \in ui.connected : c \in Integration /\ c.provider # p /\ c.id <= ui.made
    BY <1>0, <2>1 DEF ServicesTypes, ServicesOnce, ServicesSync
  <2> HIDE DEF x, T, m
  <2>6. ServicesTypes'
    BY <1>0, <2>1, <2>2, <2>3, <2>4 DEF ServicesTypes
  <2>7. ServicesOnce'
    <3>1. ui'.connected = ui.connected \union {x} /\ ui'.timers = T /\ ui'.dialog = None /\ ui'.connecting = FALSE
      BY <1>0, <2>1 DEF ServicesTypes
    <3>2. \A c \in ui'.connected : c.provider \in Providers
      BY <2>3, <2>5, <3>1 DEF Integration
    <3>3. \A c, d \in ui'.connected : c.provider = d.provider => c = d
      BY <1>0, <2>3, <2>5, <3>1 DEF ServicesOnce
    <3> QED BY <2>4, <3>1, <3>2, <3>3 DEF ServicesOnce
  <2>8. ServicesSync'
    <3>1. ui'.connected = ui.connected \union {x} /\ ui'.made = m /\ ui'.syncs = ui.syncs
      BY <1>0, <2>1 DEF ServicesTypes
    <3>2. \A c \in ui.connected : c.id \in Int /\ c.id # m
      BY <1>a, <2>2, <2>5 DEF Integration
    <3>3. ui.syncs[m] = 0
      BY <1>0, <2>2 DEF ServicesSync
    <3>4. \A c \in ui'.connected : c.id <= m
      BY <2>2, <2>3, <2>5, <3>1, <3>2
    <3>5. \A c, d \in ui'.connected : c.id = d.id => c = d
      BY <1>0, <2>3, <3>1, <3>2 DEF ServicesSync
    <3>6. \A i \in Services!Ids : i > m => ui.syncs[i] = 0
      BY <1>0, <1>a, <2>2 DEF ServicesSync
    <3>7. \A c \in ui'.connected : c.status = "syncing" <=> ui.syncs[c.id] = 1
      BY <1>0, <2>3, <3>1, <3>3 DEF ServicesSync
    <3> QED BY <3>1, <3>4, <3>5, <3>6, <3>7 DEF ServicesSync
  <2> QED BY <2>6, <2>7, <2>8 DEF ServicesInv
<1>6. ASSUME NEW c \in ui.connected, Services!handleSync(c)
      PROVE  ServicesInv'
  <2>1. c.id \in Services!Ids /\ c.id <= ui.made /\ ui.syncs[c.id] = 0
    BY <1>0, <1>6 DEF ServicesTypes, ServicesSync, Integration, Services!handleSync
  <2>2. ui' = [ui EXCEPT !.connected = Services!SetStatus(@, c.id, "syncing"),
                         !.syncs = [ui.syncs EXCEPT ![c.id] = 1]]
    BY <1>6, <2>1 DEF Services!handleSync
  <2> QED BY <2>1, <2>2, SyncMoves
<1>7. ASSUME NEW i \in Services!Ids, Services!SyncCompletes(i)
      PROVE  ServicesInv'
  <2>1. ui.syncs[i] = 1
    BY <1>0, <1>7 DEF ServicesTypes, Services!SyncCompletes
  <2>2. ui' = [ui EXCEPT !.connected = Services!SetStatus(@, i, "connected"),
                         !.syncs = [ui.syncs EXCEPT ![i] = 0]]
    BY <1>7, <2>1 DEF Services!SyncCompletes
  <2>3. "connected" = "syncing" <=> 0 = 1
    OBVIOUS
  <2> QED BY <2>2, <2>3, SyncMoves
<1>8. ASSUME NEW c \in ui.connected, Services!setDeleteConfirm(c)
      PROVE  ServicesInv'
  <2>1. c.id \in Services!Ids /\ ui' = [ui EXCEPT !.confirm = c.id]
    BY <1>0, <1>8 DEF ServicesTypes, Integration, Services!setDeleteConfirm
  <2> QED BY <1>0, <2>1 DEF ServicesInv, ServicesTypes, ServicesOnce, ServicesSync
<1>9. CASE Services!CloseDelete
  BY <1>0, <1>9 DEF ServicesInv, ServicesTypes, ServicesOnce, ServicesSync, Services!CloseDelete
<1>10. CASE Services!handleDisconnect
  <2> DEFINE C == {c \in ui.connected : c.id # ui.confirm}
  <2>1. ui' = [ui EXCEPT !.connected = C, !.confirm = 0]
    BY <1>10 DEF Services!handleDisconnect
  <2>2. C \subseteq ui.connected
    OBVIOUS
  <2> HIDE DEF C
  <2> QED BY <1>0, <2>1, <2>2 DEF ServicesInv, ServicesTypes, ServicesOnce, ServicesSync
<1> QED
  BY <1>1, <1>2, <1>3, <1>4, <1>5, <1>6, <1>7, <1>8, <1>9, <1>10 DEF Services!Next
-----------------------------------------------------------------------------
(* The stored messages of a conversation                                       *)

ChatRow == [role : {"user", "assistant", "tool_call", "tool_result"}, call : Nat]

(* Every call id is stored in one row at most: the turn of a call can be read  *)
(* off its id, and has the call still to write only as long as no row has it.  *)
CallsOnce ==
  \A m, n \in DOMAIN ui.rows :
    ui.rows[m].role = "tool_call" /\ ui.rows[n].role = "tool_call" /\ ui.rows[m].call = ui.rows[n].call => m = n

Stored(c) == \E n \in DOMAIN ui.rows : ui.rows[n].role = "tool_call" /\ ui.rows[n].call = c

(* The turn is still to begin; the rows it left to write.                      *)
Begins(t) == ui.todo[t] = <<Conversation!Row("user", 0)>> /\ ~Stored(2 * t) /\ ~Stored(2 * t + 1)

Leaves(t, q) ==
  /\ \A k \in DOMAIN q : q[k].role # "user" /\ (q[k].role = "tool_call" => q[k].call \in {2 * t, 2 * t + 1})
  /\ \A k, l \in DOMAIN q : q[k].role = "tool_call" /\ q[l].role = "tool_call" /\ q[k].call = q[l].call => k = l

Continues(t) ==
  /\ Leaves(t, ui.todo[t])
  /\ \A k \in DOMAIN ui.todo[t] : ui.todo[t][k].role = "tool_call" => ~Stored(ui.todo[t][k].call)

ChatTypes ==
  /\ DOMAIN ui = {"rows", "todo"}
  /\ ui.rows \in Seq(ChatRow) /\ ui.todo \in [1..Few -> Seq(ChatRow)]

ChatInv == ChatTypes /\ CallsOnce /\ \A t \in 1..Few : Begins(t) \/ Continues(t)

LEMMA ChatMounts ==
  ASSUME ui' \in Conversation!Mounts
  PROVE  ChatInv'
<1> DEFINE asked == <<Conversation!Row("user", 0)>>
<1>1. ui' = [rows |-> <<>>, todo |-> [t \in 1..Few |-> asked]]
  BY DEF Conversation!Mounts
<1>2. asked \in Seq(ChatRow)
  BY DEF Conversation!Row, ChatRow
<1> HIDE DEF asked
<1>3. [t \in 1..Few |-> asked] \in [1..Few -> Seq(ChatRow)]
  BY <1>2
<1>4. <<>> \in Seq(ChatRow) /\ DOMAIN <<>> = {}
  BY EmptySeq
<1> HIDE DEF ChatRow
<1>5. ChatTypes' /\ CallsOnce'
  BY <1>1, <1>3, <1>4 DEF ChatTypes, CallsOnce
<1>6. ASSUME NEW t \in 1..Few PROVE Begins(t)'
  BY <1>1, <1>4 DEF Begins, Stored, asked
<1> QED BY <1>5, <1>6 DEF ChatInv

(* Whatever a turn leaves to save are rows, with each of its calls once.       *)
LEMMA PlansRows ==
  ASSUME NEW t \in 1..Few, NEW q \in Conversation!Plans(t)
  PROVE  q \in Seq(ChatRow) /\ Leaves(t, q)
<1> DEFINE x == Conversation!Text
           c == Conversation!Call(2 * t)
           d == Conversation!Call(2 * t + 1)
           r == Conversation!Result(2 * t)
           s == Conversation!Result(2 * t + 1)
<1>1. t \in Nat /\ 2 * t \in Nat /\ 2 * t + 1 \in Nat /\ 2 * t # 2 * t + 1
  BY ConsoleAssumption
<1>2. /\ x \in ChatRow /\ c \in ChatRow /\ d \in ChatRow /\ r \in ChatRow /\ s \in ChatRow
      /\ x.role = "assistant" /\ r.role = "tool_result" /\ s.role = "tool_result"
      /\ c.role = "tool_call" /\ d.role = "tool_call" /\ c.call = 2 * t /\ d.call = 2 * t + 1
  BY <1>1 DEF ChatRow, Conversation!Text, Conversation!Call, Conversation!Result, Conversation!Row
<1>3. q \in {<<x>>, <<x, c, r, x>>, <<c, r>>, <<c, d, r, s>>}
  BY DEF Conversation!Plans
<1> HIDE DEF x, c, d, r, s, ChatRow
<1>4. CASE q = <<x>>
  BY <1>2, <1>4 DEF Leaves
<1>5. CASE q = <<x, c, r, x>>
  BY <1>2, <1>5 DEF Leaves
<1>6. CASE q = <<c, r>>
  BY <1>2, <1>6 DEF Leaves
<1>7. CASE q = <<c, d, r, s>>
  BY <1>1, <1>2, <1>7 DEF Leaves
<1> QED BY <1>3, <1>4, <1>5, <1>6, <1>7

(* One more row: what is stored then.                                          *)
LEMMA RowStored ==
  ASSUME ChatTypes, NEW row \in ChatRow, ui'.rows = Append(ui.rows, row)
  PROVE  /\ \A c : Stored(c)' => Stored(c) \/ (row.role = "tool_call" /\ row.call = c)
         /\ CallsOnce /\ (row.role = "tool_call" => ~Stored(row.call)) => CallsOnce'
<1> HIDE DEF ChatRow
<1>1. /\ Len(ui.rows) \in Nat /\ DOMAIN ui.rows = 1..Len(ui.rows)
      /\ DOMAIN ui'.rows = 1..(Len(ui.rows) + 1) /\ ui'.rows[Len(ui.rows) + 1] = row
      /\ \A n \in 1..Len(ui.rows) : ui'.rows[n] = ui.rows[n]
  BY AppendProperties, LenProperties DEF ChatTypes
<1>2. \A n \in 1..(Len(ui.rows) + 1) : n \in 1..Len(ui.rows) \/ n = Len(ui.rows) + 1
  BY <1>1
<1> QED BY <1>1, <1>2 DEF Stored, CallsOnce

(* The turn t has q left to write, and perhaps one row more is stored.         *)
LEMMA TurnGoes ==
  ASSUME ChatInv, NEW t \in 1..Few, NEW q \in Seq(ChatRow), Leaves(t, q),
         ui' = [ui EXCEPT !.rows = ui'.rows, !.todo = [ui.todo EXCEPT ![t] = q]],
         \/ ui'.rows = ui.rows
         \/ \E row \in ChatRow :
              /\ ui'.rows = Append(ui.rows, row)
              /\ row.role = "tool_call" => row.call \in {2 * t, 2 * t + 1} /\ ~Stored(row.call)
              /\ \A k \in DOMAIN q : q[k].role = "tool_call" /\ row.role = "tool_call" => q[k].call # row.call,
         \A k \in DOMAIN q : q[k].role = "tool_call" => ~Stored(q[k].call)
  PROVE  ChatInv'
<1> HIDE DEF ChatRow
<1>1. /\ DOMAIN ui' = {"rows", "todo"} /\ ui'.todo \in [1..Few -> Seq(ChatRow)] /\ ui'.todo[t] = q
      /\ \A u \in 1..Few : u # t => ui'.todo[u] = ui.todo[u]
  <2>1. DOMAIN ui = {"rows", "todo"} /\ ui.todo \in [1..Few -> Seq(ChatRow)]
    BY Zenon DEF ChatInv, ChatTypes
  <2> DEFINE Q == Seq(ChatRow)
  <2>2. q \in Q /\ ui.todo \in [1..Few -> Q]
    BY <2>1
  <2> HIDE DEF Q
  <2>3. DOMAIN ui' = {"rows", "todo"} /\ ui'.todo = [ui.todo EXCEPT ![t] = q]
    BY <2>1
  <2>4. ui'.todo \in [1..Few -> Q] /\ ui'.todo[t] = q /\ \A u \in 1..Few : u # t => ui'.todo[u] = ui.todo[u]
    BY <2>2, <2>3
  <2> QED BY <2>3, <2>4 DEF Q
<1>2. /\ ui'.rows \in Seq(ChatRow) /\ CallsOnce'
      /\ \A c : Stored(c)' => Stored(c) \/ (c \in {2 * t, 2 * t + 1} /\ \A k \in DOMAIN q : q[k].role = "tool_call" => q[k].call # c)
  <2>1. CASE ui'.rows = ui.rows
    BY <2>1 DEF ChatInv, ChatTypes, CallsOnce, Stored
  <2>2. ASSUME NEW row \in ChatRow, ui'.rows = Append(ui.rows, row),
               row.role = "tool_call" => row.call \in {2 * t, 2 * t + 1} /\ ~Stored(row.call),
               \A k \in DOMAIN q : q[k].role = "tool_call" /\ row.role = "tool_call" => q[k].call # row.call
        PROVE  /\ ui'.rows \in Seq(ChatRow) /\ CallsOnce'
               /\ \A c : Stored(c)' => Stored(c) \/ (c \in {2 * t, 2 * t + 1} /\ \A k \in DOMAIN q : q[k].role = "tool_call" => q[k].call # c)
    <3>1. ui'.rows \in Seq(ChatRow)
      BY <2>2, AppendProperties DEF ChatInv, ChatTypes
    <3>2. CallsOnce' /\ \A c : Stored(c)' => Stored(c) \/ (row.role = "tool_call" /\ row.call = c)
      BY <2>2, RowStored DEF ChatInv
    <3> QED BY <2>2, <3>1, <3>2
  <2> QED BY <2>1, <2>2
<1>3. Continues(t)'
  BY <1>1, <1>2 DEF Continues
<1>4. ASSUME NEW u \in 1..Few, u # t PROVE Begins(u)' \/ Continues(u)'
  <2>1. u \in Nat /\ t \in Nat /\ 2 * u \notin {2 * t, 2 * t + 1} /\ 2 * u + 1 \notin {2 * t, 2 * t + 1}
    BY <1>4, ConsoleAssumption
  <2>2. CASE Begins(u)
    BY <1>1, <1>2, <1>4, <2>1, <2>2 DEF Begins
  <2>3. CASE Continues(u)
    <3>1. ui'.todo[u] = ui.todo[u] /\ Leaves(u, ui'.todo[u])
      BY <1>1, <1>4, <2>3 DEF Continues
    <3>2. ASSUME NEW k \in DOMAIN ui.todo[u], ui.todo[u][k].role = "tool_call"
          PROVE  ~Stored(ui.todo[u][k].call)'
      <4>1. ui.todo[u][k].call \in {2 * u, 2 * u + 1} /\ ~Stored(ui.todo[u][k].call)
        BY <2>3, <3>2 DEF Continues, Leaves
      <4>2. ui.todo[u][k].call \notin {2 * t, 2 * t + 1}
        BY <2>1, <4>1
      <4>3. ui'.todo[u][k].call = ui.todo[u][k].call
        BY <3>1
      <4> HIDE DEF Stored
      <4> QED BY <1>2, <4>1, <4>2, <4>3
    <3> QED BY <3>1, <3>2 DEF Continues
  <2> QED BY <2>2, <2>3 DEF ChatInv
<1> QED BY <1>1, <1>2, <1>3, <1>4 DEF ChatInv, ChatTypes

LEMMA ChatStep ==
  ASSUME ChatInv, Conversation!Next
  PROVE  ChatInv'
<1>0. PICK t \in 1..Few : Conversation!Save(t) \/ Conversation!Cancel(t)
  BY DEF Conversation!Next
<1> HIDE DEF ChatRow
<1>1. /\ ui.todo[t] \in Seq(ChatRow) /\ <<>> \in Seq(ChatRow) /\ DOMAIN <<>> = {}
      /\ DOMAIN ui = {"rows", "todo"}
  <2>1. DOMAIN <<>> = {}
    OBVIOUS
  <2> QED BY <2>1, EmptySeq DEF ChatInv, ChatTypes
<1> DEFINE q == ui.todo[t]
<1>2. CASE Conversation!Save(t)
  <2>1. q # <<>>
    BY <1>2 DEF Conversation!Save, Conversation!todo
  <2>2. PICK written \in {Append(ui.rows, Head(q))}
                           \union (IF Head(q).role = "user" THEN {} ELSE {ui.rows}) :
        \E left \in IF Head(q).role = "user" THEN Conversation!Plans(t) ELSE {Tail(q)} :
          ui' = [ui EXCEPT !.rows = written, !.todo[t] = left]
    BY <1>2, Zenon DEF Conversation!Save, Conversation!todo, Conversation!rows
  <2>3. PICK left \in IF Head(q).role = "user" THEN Conversation!Plans(t) ELSE {Tail(q)} :
          ui' = [ui EXCEPT !.rows = written, !.todo[t] = left]
    BY <2>2, Zenon
  <2>4. /\ Head(q) \in ChatRow /\ Head(q) = q[1] /\ Tail(q) \in Seq(ChatRow)
        /\ DOMAIN q = 1..Len(q) /\ Len(q) \in Nat \ {0} /\ DOMAIN Tail(q) = 1..(Len(q) - 1)
        /\ \A k \in 1..(Len(q) - 1) : Tail(q)[k] = q[k + 1]
    <3> HIDE DEF ChatRow
    <3> QED BY <1>1, <2>1, HeadTailProperties, LenProperties, EmptySeq
  <2> HIDE DEF ChatRow
  <2>5. ui'.rows = written /\ ui' = [ui EXCEPT !.rows = ui'.rows, !.todo = [ui.todo EXCEPT ![t] = left]]
    BY <1>1, <2>3 DEF ChatInv
  <2>6. CASE Begins(t)
    <3>1. Head(q).role = "user"
      BY <2>6 DEF Begins, Conversation!Row
    <3>2. left \in Seq(ChatRow) /\ Leaves(t, left)
      BY <2>3, <3>1, PlansRows
    <3>3. \A k \in DOMAIN left : left[k].role = "tool_call" => ~Stored(left[k].call)
      BY <2>6, <3>2 DEF Begins, Leaves
    <3> QED BY <2>2, <2>4, <2>5, <3>1, <3>2, <3>3, TurnGoes
  <2>7. CASE Continues(t)
    <3>1. Head(q).role # "user" /\ left = Tail(q)
      BY <2>3, <2>4, <2>7 DEF Continues, Leaves
    <3>2. \A k \in DOMAIN left : k + 1 \in DOMAIN q /\ left[k] = q[k + 1] /\ k + 1 # 1
      BY <2>4, <3>1
    <3>3. /\ \A k \in DOMAIN q : q[k].role # "user" /\ (q[k].role = "tool_call" => q[k].call \in {2 * t, 2 * t + 1})
          /\ \A k, m \in DOMAIN q : q[k].role = "tool_call" /\ q[m].role = "tool_call" /\ q[k].call = q[m].call => k = m
          /\ \A k \in DOMAIN q : q[k].role = "tool_call" => ~Stored(q[k].call)
      BY <2>7, Zenon DEF Continues, Leaves
    <3>4. DOMAIN left \subseteq Nat /\ 1 \in DOMAIN q /\ Head(q) = q[1]
      BY <2>4, <3>1
    <3>5. left \in Seq(ChatRow) /\ Leaves(t, left)
      <4>1. left \in Seq(ChatRow)
        BY <2>4, <3>1
      <4> HIDE DEF q
      <4>2. \A k \in DOMAIN left : left[k].role # "user" /\ (left[k].role = "tool_call" => left[k].call \in {2 * t, 2 * t + 1})
        BY <3>2, <3>3
      <4>3. \A k, m \in DOMAIN left : left[k].role = "tool_call" /\ left[m].role = "tool_call" /\ left[k].call = left[m].call => k = m
        <5> SUFFICES ASSUME NEW k \in DOMAIN left, NEW m \in DOMAIN left, left[k].role = "tool_call",
                            left[m].role = "tool_call", left[k].call = left[m].call
                     PROVE  k = m
          OBVIOUS
        <5>1. k + 1 = m + 1
          BY <3>2, <3>3
        <5> QED BY <3>4, <5>1
      <4> QED BY <4>1, <4>2, <4>3 DEF Leaves
    <3>6. /\ \A k \in DOMAIN left : left[k].role = "tool_call" => ~Stored(left[k].call)
          /\ \A k \in DOMAIN left : left[k].role = "tool_call" /\ Head(q).role = "tool_call" => left[k].call # Head(q).call
          /\ Head(q).role = "tool_call" => Head(q).call \in {2 * t, 2 * t + 1} /\ ~Stored(Head(q).call)
      <4> HIDE DEF q
      <4> QED BY <3>2, <3>3, <3>4
    <3> QED BY <2>2, <2>4, <2>5, <3>5, <3>6, TurnGoes
  <2> QED BY <2>6, <2>7 DEF ChatInv
<1>3. CASE Conversation!Cancel(t)
  <2>1. ui' = [ui EXCEPT !.rows = ui.rows, !.todo = [ui.todo EXCEPT ![t] = <<>>]]
    BY <1>1, <1>3 DEF Conversation!Cancel
  <2>2. ui'.rows = ui.rows /\ Leaves(t, <<>>)
    BY <1>1, <2>1 DEF Leaves
  <2> HIDE DEF ChatRow
  <2> QED BY <1>1, <2>1, <2>2, TurnGoes
<1> QED BY <1>0, <1>2, <1>3
-----------------------------------------------------------------------------
(* What Only picks                                                             *)

(* What Only has picked after each element.                                    *)
OnlyRounds(S, s, K) ==
  {f \in [0..Len(s) -> Seq(S)] :
     /\ Conversation!Only(s, K) = f[Len(s)] /\ f[0] = <<>>
     /\ \A n \in 1..Len(s) : f[n] = IF s[n] \in K THEN Append(f[n - 1], s[n]) ELSE f[n - 1]}

LEMMA OnlyRuns ==
  ASSUME NEW S, NEW s \in Seq(S), NEW K
  PROVE  OnlyRounds(S, s, K) # {}
<1> DEFINE G == [x \in Seq(S) \X S |-> IF x[2] \in K THEN Append(x[1], x[2]) ELSE x[1]]
           F(f) == [n \in 0..Len(s) |-> IF n = 0 THEN <<>>
                                        ELSE IF s[n] \in K THEN Append(f[n - 1], s[n]) ELSE f[n - 1]]
<1>1. G \in [Seq(S) \X S -> Seq(S)]
  BY AppendProperties
<1>2. <<>> \in Seq(S) /\ Len(s) \in Nat
  BY EmptySeq, LenProperties
<1>3. PICK f \in [0..Len(s) -> Seq(S)] : f[0] = <<>> /\ \A n \in 1..Len(s) : f[n] = G[<<f[n - 1], s[n]>>]
  <2> DEFINE H == Seq(S)
             b == <<>>
  <2>1. G \in [H \X S -> H] /\ b \in H /\ s \in Seq(S)
    BY <1>1, <1>2
  <2> HIDE DEF G, H, b
  <2>2. Rounds(H, G, b, s) # {}
    BY <2>1, LoopRuns
  <2> QED BY <2>2 DEF Rounds, H, b
<1>4. ASSUME NEW n \in 1..Len(s)
      PROVE  f[n] = IF s[n] \in K THEN Append(f[n - 1], s[n]) ELSE f[n - 1]
  <2>1. s[n] \in S /\ f[n - 1] \in Seq(S)
    BY <1>2, ElementOfSeq
  <2>2. <<f[n - 1], s[n]>> \in Seq(S) \X S
    BY <2>1
  <2> QED BY <1>3, <2>2
<1>5. f = F(f)
  <2>1. DOMAIN F(f) = 0..Len(s) /\ DOMAIN f = 0..Len(s)
    OBVIOUS
  <2>2. ASSUME NEW n \in 0..Len(s) PROVE f[n] = F(f)[n]
    <3>1. F(f)[n] = IF n = 0 THEN <<>> ELSE IF s[n] \in K THEN Append(f[n - 1], s[n]) ELSE f[n - 1]
      OBVIOUS
    <3>2. n = 0 \/ n \in 1..Len(s)
      BY <1>2
    <3> HIDE DEF F
    <3> QED BY <1>3, <1>4, <3>1, <3>2
  <2>3. f = [n \in 0..Len(s) |-> f[n]] /\ F(f) = [n \in 0..Len(s) |-> F(f)[n]]
    OBVIOUS
  <2> HIDE DEF F
  <2> QED BY <2>1, <2>2, <2>3
<1>6. \A g : g = F(g) => g = f
  <2> SUFFICES ASSUME NEW g, g = F(g) PROVE g = f
    OBVIOUS
  <2> DEFINE T == {n \in 0..Len(s) : g[n] = f[n]}
  <2>0. /\ \A n \in 0..Len(s) : g[n] = F(g)[n]
        /\ \A n \in 0..Len(s) : F(g)[n] = IF n = 0 THEN <<>>
                                      ELSE IF s[n] \in K THEN Append(g[n - 1], s[n]) ELSE g[n - 1]
    OBVIOUS
  <2>2. g = [n \in 0..Len(s) |-> g[n]]
    OBVIOUS
  <2> HIDE DEF F
  <2>1. g[0] = <<>> /\ \A n \in 1..Len(s) : g[n] = IF s[n] \in K THEN Append(g[n - 1], s[n]) ELSE g[n - 1]
    <3>1. 0 \in 0..Len(s) /\ \A n \in 1..Len(s) : n \in 0..Len(s) /\ n # 0
      BY <1>2
    <3> QED BY <2>0, <3>1
  <2>3. 0 \in T
    BY <1>2, <1>3, <2>1
  <2>4. ASSUME NEW n \in 1..Len(s), n - 1 \in T PROVE n \in T
    <3>1. g[n - 1] = f[n - 1] /\ n \in 0..Len(s)
      BY <1>2, <2>4
    <3>2. g[n] = f[n]
      BY <1>4, <2>1, <3>1
    <3> QED BY <3>1, <3>2
  <2>5. 0..Len(s) \subseteq T
    <3> HIDE DEF T
    <3> QED BY <1>2, <2>3, <2>4, UpTo
  <2>6. f = [n \in 0..Len(s) |-> f[n]]
    OBVIOUS
  <2> QED BY <2>2, <2>5, <2>6
<1>7. Conversation!Only(s, K) = (CHOOSE g : g = F(g))[Len(s)]
  BY DEF Conversation!Only
<1> HIDE DEF F
<1>8. (CHOOSE g : g = F(g)) = f
  BY <1>5, <1>6
<1> QED BY <1>3, <1>4, <1>7, <1>8 DEF OnlyRounds

(* The places of s whose elements are picked, in their order.                  *)
Picks(t, s, m, K) ==
  {e \in [1..Len(t) -> 1..m] :
     /\ \A k \in 1..Len(t) : t[k] = s[e[k]] /\ s[e[k]] \in K
     /\ \A j, k \in 1..Len(t) : j < k => e[j] < e[k]
     /\ \A n \in 1..m : s[n] \in K => \E k \in 1..Len(t) : e[k] = n}

LEMMA OnlyPicks ==
  ASSUME NEW S, NEW s \in Seq(S), NEW K
  PROVE  Conversation!Only(s, K) \in Seq(S) /\ Picks(Conversation!Only(s, K), s, Len(s), K) # {}
<1>1. PICK f \in [0..Len(s) -> Seq(S)] :
        /\ Conversation!Only(s, K) = f[Len(s)] /\ f[0] = <<>>
        /\ \A n \in 1..Len(s) : f[n] = IF s[n] \in K THEN Append(f[n - 1], s[n]) ELSE f[n - 1]
  <2>1. OnlyRounds(S, s, K) # {}
    BY OnlyRuns
  <2> QED BY <2>1 DEF OnlyRounds
<1>2. Len(s) \in Nat
  BY LenProperties
<1> DEFINE T == {n \in 0..Len(s) : Picks(f[n], s, n, K) # {}}
<1>3. 0 \in T
  <2> DEFINE e == [k \in 1..0 |-> 0]
  <2>1. Len(f[0]) = 0 /\ 1..0 = {}
    BY <1>1, EmptySeq
  <2>2. e \in [1..0 -> 1..0]
    BY <2>1
  <2>3. e \in Picks(f[0], s, 0, K)
    BY <2>1, <2>2 DEF Picks
  <2> QED BY <1>2, <2>3
<1>4. ASSUME NEW n \in 1..Len(s), n - 1 \in T PROVE n \in T
  <2> DEFINE t == f[n - 1]
             l == Len(t)
  <2>1. n \in 0..Len(s) /\ n - 1 \in 0..Len(s) /\ t \in Seq(S) /\ s[n] \in S /\ l \in Nat
    BY <1>2, LenProperties, ElementOfSeq
  <2>2. PICK e \in Picks(t, s, n - 1, K) : TRUE
    BY <1>4
  <2>3. /\ e \in [1..l -> 1..(n - 1)]
        /\ \A k \in 1..l : t[k] = s[e[k]] /\ s[e[k]] \in K
        /\ \A j, k \in 1..l : j < k => e[j] < e[k]
        /\ \A m \in 1..(n - 1) : s[m] \in K => \E k \in 1..l : e[k] = m
    BY <2>2 DEF Picks
  <2>4. CASE s[n] \notin K
    <3>1. f[n] = t
      BY <1>1, <2>4
    <3>2. e \in [1..l -> 1..n]
      <4>1. 1..(n - 1) \subseteq 1..n
        BY <2>1
      <4> QED BY <2>3, <4>1
    <3>3. \A m \in 1..n : s[m] \in K => m \in 1..(n - 1)
      BY <2>1, <2>4
    <3>4. e \in Picks(t, s, n, K)
      <4> HIDE DEF t
      <4> QED BY <2>3, <3>2, <3>3 DEF Picks
    <3> QED BY <2>1, <3>1, <3>4
  <2>5. CASE s[n] \in K
    <3> DEFINE u == Append(t, s[n])
               d == [k \in 1..(l + 1) |-> IF k = l + 1 THEN n ELSE e[k]]
    <3>1. f[n] = u
      BY <1>1, <2>5
    <3>2. Len(u) = l + 1 /\ u[l + 1] = s[n] /\ \A k \in 1..l : u[k] = t[k]
      BY <2>1, AppendProperties
    <3> HIDE DEF u, t
    <3> HIDE DEF l
    <3>3. \A k \in 1..(l + 1) : k = l + 1 \/ k \in 1..l
      BY <2>1
    <3>4. d \in [1..(l + 1) -> 1..n]
      <4>1. ASSUME NEW k \in 1..(l + 1) PROVE (IF k = l + 1 THEN n ELSE e[k]) \in 1..n
        BY <2>1, <2>3, <3>3
      <4> QED BY <4>1
    <3>5. d[l + 1] = n /\ \A k \in 1..l : d[k] = e[k] /\ k \in 1..(l + 1) /\ e[k] \in 1..(n - 1) /\ k # l + 1
      BY <2>1, <2>3
    <3> HIDE DEF d
    <3>6. \A k \in 1..(l + 1) : u[k] = s[d[k]] /\ s[d[k]] \in K
      BY <2>3, <2>5, <3>2, <3>3, <3>5
    <3>7. \A j, k \in 1..(l + 1) : j < k => d[j] < d[k]
      <4> SUFFICES ASSUME NEW j \in 1..(l + 1), NEW k \in 1..(l + 1), j < k PROVE d[j] < d[k]
        OBVIOUS
      <4>1. j \in 1..l
        BY <2>1, <3>3
      <4>2. CASE k = l + 1
        BY <2>1, <3>5, <4>1, <4>2
      <4>3. CASE k \in 1..l
        BY <2>3, <3>5, <4>1, <4>3
      <4> QED BY <3>3, <4>2, <4>3
    <3>8. ASSUME NEW m \in 1..n, s[m] \in K PROVE \E k \in 1..(l + 1) : d[k] = m
      <4>1. CASE m = n
        <5>1. l + 1 \in 1..(l + 1)
          BY <2>1
        <5> QED BY <3>5, <4>1, <5>1
      <4>2. CASE m # n
        <5>1. m \in 1..(n - 1)
          BY <2>1, <4>2
        <5> QED BY <2>3, <3>5, <3>8, <5>1
      <4> QED BY <4>1, <4>2
    <3>9. d \in Picks(u, s, n, K)
      BY <3>2, <3>4, <3>6, <3>7, <3>8 DEF Picks
    <3> QED BY <2>1, <3>1, <3>9
  <2> QED BY <2>4, <2>5
<1>5. 0..Len(s) \subseteq T
  <2> HIDE DEF T
  <2> QED BY <1>2, <1>3, <1>4, UpTo
<1>6. Len(s) \in T /\ f[Len(s)] \in Seq(S)
  BY <1>2, <1>5
<1> QED BY <1>1, <1>6
-----------------------------------------------------------------------------
(* What loadHistory puts together                                              *)

ChatMessage == [role : {"user", "assistant", "tool_result"}, text : BOOLEAN, calls : SUBSET Nat, result : Nat]
Histories == [msgs : Seq(ChatMessage), seen : SUBSET Nat, answered : SUBSET Nat]

Resolves(m, c) == m.role = "tool_result" /\ m.result = c

(* One row: a message more, or a call more in the last message.                *)
Asks(h, row, g) ==
  /\ g.seen = h.seen \union {row.call} /\ g.answered = h.answered
  /\ Len(g.msgs) \in {Len(h.msgs), Len(h.msgs) + 1} /\ Len(g.msgs) > 0
  /\ LET l == Len(g.msgs) IN
     /\ g.msgs[l].role = "assistant"
     /\ \A c \in g.msgs[l].calls : c = row.call \/ (l = Len(h.msgs) /\ c \in h.msgs[l].calls)
     /\ l = Len(h.msgs) => h.msgs[l].role = "assistant"
     /\ \A i \in 1..(l - 1) : g.msgs[i] = h.msgs[i]

Says(h, row, g) ==
  /\ Len(g.msgs) = Len(h.msgs) + 1 /\ \A i \in 1..Len(h.msgs) : g.msgs[i] = h.msgs[i]
  /\ LET m == g.msgs[Len(g.msgs)] IN
     /\ m.calls = {} /\ g.seen = h.seen
     /\ \/ m.role # "tool_result" /\ g.answered = h.answered
        \/ Resolves(m, row.call) /\ row.call \in h.seen /\ g.answered = h.answered \union {row.call}

LEMMA GatherMoves ==
  ASSUME NEW h \in Histories, NEW row \in ChatRow
  PROVE  LET g == Conversation!Gather(h, row) IN
         /\ g \in Histories
         /\ g = h \/ Says(h, row, g) \/ (row.role = "tool_call" /\ Asks(h, row, g))
<1> DEFINE g == Conversation!Gather(h, row)
           l == Len(h.msgs)
<1> SUFFICES g \in Histories /\ (g = h \/ Says(h, row, g) \/ (row.role = "tool_call" /\ Asks(h, row, g)))
  OBVIOUS
<1>1. /\ h.msgs \in Seq(ChatMessage) /\ h.seen \in SUBSET Nat /\ h.answered \in SUBSET Nat
      /\ row.call \in Nat /\ row.role \in {"user", "assistant", "tool_call", "tool_result"}
      /\ h = [msgs |-> h.msgs, seen |-> h.seen, answered |-> h.answered]
  BY DEF Histories, ChatRow
<1>2. l \in Nat /\ (h.msgs # <<>> => l # 0 /\ l \in 1..l)
  BY <1>1, EmptySeq, LenProperties
<1>3. CASE row.role \in {"user", "assistant", "tool_result"}
  <2>1. CASE row.role = "tool_result" /\ row.call \notin h.seen
    BY <2>1 DEF Conversation!Gather
  <2>2. CASE row.role # "tool_result" \/ row.call \in h.seen
    <3> DEFINE m == IF row.role = "tool_result" THEN Conversation!Message("tool_result", FALSE, {}, row.call)
                    ELSE Conversation!Message(row.role, TRUE, {}, 0)
               answered == IF row.role = "tool_result" THEN h.answered \union {row.call} ELSE h.answered
    <3>1. g = [msgs |-> Append(h.msgs, m), seen |-> h.seen, answered |-> answered]
      <4>1. g = IF row.role = "tool_result"
                THEN [h EXCEPT !.msgs = Append(h.msgs, m), !.answered = h.answered \union {row.call}]
                ELSE [h EXCEPT !.msgs = Append(h.msgs, m)]
        BY <1>3, <2>2 DEF Conversation!Gather
      <4> HIDE DEF g, m
      <4> QED BY <1>1, <4>1
    <3>2. /\ m \in ChatMessage /\ m.calls = {}
          /\ row.role = "tool_result" => Resolves(m, row.call)
          /\ row.role # "tool_result" => m.role # "tool_result"
      BY <1>1, <1>3 DEF ChatMessage, Conversation!Message, Resolves
    <3> HIDE DEF m, g, ChatMessage
    <3>3. /\ Append(h.msgs, m) \in Seq(ChatMessage) /\ Len(Append(h.msgs, m)) = l + 1
          /\ Append(h.msgs, m)[l + 1] = m /\ \A i \in 1..l : Append(h.msgs, m)[i] = h.msgs[i]
      BY <1>1, <3>2, AppendProperties
    <3>4. g \in Histories
      BY <1>1, <3>1, <3>3 DEF Histories
    <3>5. Says(h, row, g)
      BY <2>2, <3>1, <3>2, <3>3 DEF Says
    <3> QED BY <3>4, <3>5
  <2> QED BY <2>1, <2>2
<1>4. CASE row.role = "tool_call"
  <2> DEFINE fresh == h.msgs = <<>> \/ Conversation!Last(h.msgs).role # "assistant"
             e == Conversation!Message("assistant", FALSE, {}, 0)
             msgs == IF fresh THEN Append(h.msgs, e) ELSE h.msgs
             k == Len(msgs)
             calls == msgs[k].calls \union {row.call}
             after == [msgs EXCEPT ![k].calls = calls]
  <2>1. g = [h EXCEPT !.msgs = after, !.seen = @ \union {row.call}]
    BY <1>4 DEF Conversation!Gather
  <2>2. e \in ChatMessage /\ e.role = "assistant" /\ e.calls = {}
    BY DEF ChatMessage, Conversation!Message
  <2> HIDE DEF e
  <2>3. /\ msgs \in Seq(ChatMessage) /\ k \in {l, l + 1} /\ k > 0 /\ msgs[k].role = "assistant"
        /\ \A i \in 1..(k - 1) : msgs[i] = h.msgs[i]
        /\ IF fresh THEN k = l + 1 /\ msgs[k] = e ELSE k = l /\ msgs[k] = h.msgs[l]
    <3> HIDE DEF ChatMessage
    <3>1. CASE fresh
      <4>1. msgs = Append(h.msgs, e)
        BY <3>1
      <4> HIDE DEF msgs, fresh
      <4>2. /\ msgs \in Seq(ChatMessage) /\ k = l + 1 /\ msgs[k] = e
            /\ \A i \in 1..l : msgs[i] = h.msgs[i]
        BY <1>1, <2>2, <4>1, AppendProperties
      <4> QED BY <1>2, <2>2, <3>1, <4>2
    <3>2. CASE ~fresh
      <4>1. msgs = h.msgs /\ h.msgs # <<>> /\ h.msgs[l].role = "assistant"
        BY <3>2 DEF Conversation!Last
      <4> HIDE DEF msgs, fresh
      <4> QED BY <1>1, <1>2, <3>2, <4>1
    <3> QED BY <3>1, <3>2
  <2> HIDE DEF msgs, fresh
  <2>4. k \in 1..k /\ k \in Nat /\ msgs[k] \in ChatMessage /\ DOMAIN msgs = 1..k
    <3> HIDE DEF ChatMessage
    <3>1. k \in Nat /\ k \in 1..k
      BY <1>2, <2>3
    <3> QED BY <2>3, <3>1, LenProperties, ElementOfSeq
  <2> DEFINE last == [msgs[k] EXCEPT !.calls = calls]
  <2>5. last \in ChatMessage /\ last.role = "assistant" /\ last.calls = msgs[k].calls \union {row.call}
    BY <1>1, <2>3, <2>4 DEF ChatMessage
  <2>6. after = [msgs EXCEPT ![k] = last]
    OBVIOUS
  <2> HIDE DEF last, after, ChatMessage
  <2>7. /\ after \in Seq(ChatMessage) /\ Len(after) = k /\ after[k] = last
        /\ \A i \in 1..(k - 1) : after[i] = msgs[i]
    <3>1. msgs \in [1..k -> ChatMessage]
      BY <2>3, LenProperties
    <3> HIDE DEF k
    <3>2. after \in [1..k -> ChatMessage] /\ after[k] = last /\ \A i \in 1..(k - 1) : after[i] = msgs[i]
      BY <2>4, <2>5, <2>6, <3>1
    <3> QED BY <2>4, <3>2, RunIsSeq
  <2> HIDE DEF g, k
  <2>8. g = [msgs |-> after, seen |-> h.seen \union {row.call}, answered |-> h.answered]
    BY <1>1, <2>1
  <2>9. g \in Histories
    BY <1>1, <2>7, <2>8 DEF Histories
  <2>10. Asks(h, row, g)
    <3>1. /\ g.seen = h.seen \union {row.call} /\ g.answered = h.answered /\ g.msgs = after
      BY <2>8
    <3>2. \A c \in last.calls : c = row.call \/ (k = l /\ c \in h.msgs[k].calls)
      BY <2>2, <2>3, <2>5
    <3>3. k = l => h.msgs[k].role = "assistant"
      BY <1>2, <2>3
    <3>4. last.role = "assistant"
      BY <2>5
    <3>5. \A i \in 1..(k - 1) : after[i] = h.msgs[i]
      BY <2>3, <2>7
    <3> QED BY <2>3, <2>7, <3>1, <3>2, <3>3, <3>4, <3>5 DEF Asks
  <2> QED BY <1>4, <2>9, <2>10
<1> QED BY <1>1, <1>3, <1>4

(* After the first n rows of s: calls come from those rows, what is answered   *)
(* has its result, and no result comes before a message with its call.         *)
Collected(h, s, n) ==
  /\ h \in Histories
  /\ \A c \in h.seen : \E m \in 1..n : s[m].role = "tool_call" /\ s[m].call = c
  /\ \A c \in h.answered : \E j \in 1..Len(h.msgs) : Resolves(h.msgs[j], c)
  /\ \A i \in 1..Len(h.msgs) :
       /\ h.msgs[i].calls \subseteq h.seen
       /\ h.msgs[i].role = "tool_result" => h.msgs[i].calls = {} /\ h.msgs[i].result \in h.seen
  /\ \A i, j \in 1..Len(h.msgs) :
       h.msgs[j].role = "tool_result" /\ h.msgs[j].result \in h.msgs[i].calls => i < j

CallsDiffer(s) ==
  \A m, n \in 1..Len(s) :
    s[m].role = "tool_call" /\ s[n].role = "tool_call" /\ s[m].call = s[n].call => m = n

LEMMA GatherKeeps ==
  ASSUME NEW s \in Seq(ChatRow), CallsDiffer(s), NEW n \in 1..Len(s), NEW h, Collected(h, s, n - 1)
  PROVE  Collected(Conversation!Gather(h, s[n]), s, n)
<1> DEFINE g == Conversation!Gather(h, s[n])
           row == s[n]
<1>1. row \in ChatRow /\ n \in Nat /\ n - 1 \in Nat
  BY ElementOfSeq, LenProperties
<1>2. g \in Histories /\ (g = h \/ Says(h, row, g) \/ (row.role = "tool_call" /\ Asks(h, row, g)))
  BY <1>1, GatherMoves DEF Collected
<1> SUFFICES Collected(g, s, n)
  OBVIOUS
<1> HIDE DEF g
<1>3. /\ h.seen \in SUBSET Nat /\ g.seen \in SUBSET Nat
      /\ Len(h.msgs) \in Nat /\ Len(g.msgs) \in Nat
  <2>1. h.msgs \in Seq(ChatMessage) /\ g.msgs \in Seq(ChatMessage) /\ h.seen \in SUBSET Nat /\ g.seen \in SUBSET Nat
    BY <1>2 DEF Collected, Histories
  <2> QED BY <2>1, LenProperties
<1>4. \A c \in h.seen : \E m \in 1..n : s[m].role = "tool_call" /\ s[m].call = c
  <2>1. 1..(n - 1) \subseteq 1..n
    BY <1>1
  <2> QED BY <2>1 DEF Collected
<1>5. CASE g = h
  BY <1>4, <1>5 DEF Collected
<1>6. CASE Says(h, row, g)
  <2> DEFINE l == Len(h.msgs)
             m == g.msgs[l + 1]
  <2>1. /\ Len(g.msgs) = l + 1 /\ g.seen = h.seen /\ m.calls = {}
        /\ \A i \in 1..l : g.msgs[i] = h.msgs[i] /\ i \in 1..(l + 1)
        /\ \A i \in 1..(l + 1) : i \in 1..l \/ i = l + 1
        /\ l + 1 \in 1..(l + 1)
        /\ \/ m.role # "tool_result" /\ g.answered = h.answered
           \/ Resolves(m, row.call) /\ row.call \in h.seen /\ g.answered = h.answered \union {row.call}
    BY <1>3, <1>6 DEF Says
  <2>2. \A c \in g.answered : \E j \in 1..Len(g.msgs) : Resolves(g.msgs[j], c)
    BY <2>1 DEF Collected
  <2>3. \A i \in 1..Len(g.msgs) :
          /\ g.msgs[i].calls \subseteq g.seen
          /\ g.msgs[i].role = "tool_result" => g.msgs[i].calls = {} /\ g.msgs[i].result \in g.seen
    BY <2>1 DEF Collected, Resolves
  <2>4. \A i, j \in 1..Len(g.msgs) :
          g.msgs[j].role = "tool_result" /\ g.msgs[j].result \in g.msgs[i].calls => i < j
    <3> SUFFICES ASSUME NEW i \in 1..(l + 1), NEW j \in 1..(l + 1),
                        g.msgs[j].role = "tool_result", g.msgs[j].result \in g.msgs[i].calls
                 PROVE  i < j
      BY <2>1
    <3>1. i \in 1..l
      BY <2>1
    <3>2. CASE j = l + 1
      BY <1>3, <3>1, <3>2
    <3>3. CASE j \in 1..l
      BY <2>1, <3>1, <3>3 DEF Collected
    <3> QED BY <2>1, <3>2, <3>3
  <2> QED BY <1>2, <1>4, <2>1, <2>2, <2>3, <2>4 DEF Collected
<1>7. CASE row.role = "tool_call" /\ Asks(h, row, g)
  <2> DEFINE c == row.call
             l == Len(g.msgs)
  <2>1. /\ g.seen = h.seen \union {c} /\ g.answered = h.answered
        /\ l \in {Len(h.msgs), Len(h.msgs) + 1} /\ l > 0 /\ l \in 1..l
        /\ g.msgs[l].role = "assistant"
        /\ \A b \in g.msgs[l].calls : b = c \/ (l = Len(h.msgs) /\ b \in h.msgs[l].calls)
        /\ l = Len(h.msgs) => h.msgs[l].role = "assistant"
        /\ \A i \in 1..(l - 1) : g.msgs[i] = h.msgs[i]
    <3>1. /\ g.seen = h.seen \union {c} /\ g.answered = h.answered
          /\ l \in {Len(h.msgs), Len(h.msgs) + 1} /\ l > 0
          /\ g.msgs[l].role = "assistant"
          /\ \A b \in g.msgs[l].calls : b = c \/ (l = Len(h.msgs) /\ b \in h.msgs[l].calls)
          /\ l = Len(h.msgs) => h.msgs[l].role = "assistant"
          /\ \A i \in 1..(l - 1) : g.msgs[i] = h.msgs[i]
      BY <1>7, Zenon DEF Asks
    <3>2. l \in 1..l
      BY <1>3, <3>1
    <3> QED BY <3>1, <3>2
  <2>2. c \notin h.seen
    <3> SUFFICES ASSUME c \in h.seen PROVE FALSE
      OBVIOUS
    <3>1. PICK m \in 1..(n - 1) : s[m].role = "tool_call" /\ s[m].call = c
      BY DEF Collected
    <3>2. m \in 1..Len(s) /\ m # n
      BY <1>1, LenProperties
    <3> QED BY <1>7, <3>1, <3>2 DEF CallsDiffer
  <2>3. \A b \in g.seen : \E m \in 1..n : s[m].role = "tool_call" /\ s[m].call = b
    <3>1. n \in 1..n
      BY <1>1
    <3> QED BY <1>4, <1>7, <2>1, <3>1
  <2>4. /\ \A i \in 1..l : i \in 1..(l - 1) \/ i = l
        /\ \A i \in 1..(l - 1) : i \in 1..Len(h.msgs) /\ i \in 1..l /\ i < l
        /\ \A i \in 1..Len(h.msgs) : i \in 1..(l - 1) \/ (i = l /\ l = Len(h.msgs))
    BY <1>3, <2>1
  <2> HIDE DEF l
  <2>5. \A b \in g.answered : \E j \in 1..l : Resolves(g.msgs[j], b)
    <3> SUFFICES ASSUME NEW b \in g.answered PROVE \E j \in 1..l : Resolves(g.msgs[j], b)
      OBVIOUS
    <3>1. PICK j \in 1..Len(h.msgs) : Resolves(h.msgs[j], b)
      BY <2>1 DEF Collected
    <3>2. j \in 1..(l - 1)
      BY <2>1, <2>4, <3>1 DEF Resolves
    <3> QED BY <2>1, <2>4, <3>1, <3>2
  <2>6. ASSUME NEW i \in 1..l
        PROVE  /\ g.msgs[i].calls \subseteq g.seen
               /\ g.msgs[i].role = "tool_result" => g.msgs[i].calls = {} /\ g.msgs[i].result \in g.seen
    <3>1. CASE i \in 1..(l - 1)
      BY <2>1, <2>4, <3>1 DEF Collected
    <3>2. CASE i = l
      <4>1. l = Len(h.msgs) => h.msgs[l].calls \subseteq h.seen
        BY <2>1, <2>4, <3>2 DEF Collected
      <4> QED BY <2>1, <3>2, <4>1
    <3> QED BY <2>4, <3>1, <3>2
  <2>7. ASSUME NEW i \in 1..l, NEW j \in 1..l,
               g.msgs[j].role = "tool_result", g.msgs[j].result \in g.msgs[i].calls
        PROVE  i < j
    <3>1. j \in 1..(l - 1) /\ j \in 1..Len(h.msgs) /\ g.msgs[j] = h.msgs[j]
      BY <2>1, <2>4, <2>7
    <3>2. CASE i \in 1..(l - 1)
      BY <2>1, <2>4, <2>7, <3>1, <3>2 DEF Collected
    <3>3. CASE i = l
      <4>1. h.msgs[j].result \in h.seen
        BY <2>7, <3>1 DEF Collected
      <4>2. l = Len(h.msgs) /\ h.msgs[j].result \in h.msgs[l].calls
        BY <2>1, <2>2, <2>7, <3>1, <3>3, <4>1
      <4>3. l < j
        BY <2>1, <2>7, <3>1, <4>2 DEF Collected
      <4> QED BY <3>3, <4>3
    <3> QED BY <2>4, <3>2, <3>3
  <2> QED BY <1>2, <2>3, <2>5, <2>6, <2>7 DEF Collected, l
<1> QED BY <1>2, <1>5, <1>6, <1>7

LEMMA LatestRows ==
  ASSUME ChatInv
  PROVE  Conversation!Latest \in Seq(ChatRow) /\ CallsDiffer(Conversation!Latest)
<1> DEFINE l == Len(ui.rows)
           m == IF l > Some + 2 THEN l - (Some + 2) + 1 ELSE 1
           s == SubSeq(ui.rows, m, l)
<1>1. ui.rows \in Seq(ChatRow) /\ l \in Nat /\ DOMAIN ui.rows = 1..l /\ m \in Nat \ {0} /\ m <= l + 1
  BY LenProperties, ConsoleAssumption DEF ChatInv, ChatTypes
<1>2. \A i \in m..l : i \in 1..l /\ ui.rows[i] \in ChatRow
  BY <1>1, ElementOfSeq
<1>3. Conversation!Latest = s
  BY DEF Conversation!Latest, Conversation!rows
<1> HIDE DEF m, l
<1>4. /\ s \in Seq(ChatRow) /\ Len(s) = IF m <= l THEN l - m + 1 ELSE 0
      /\ \A i \in 1..(l - m + 1) : s[i] = ui.rows[m + i - 1]
  <2>1. m \in Int /\ l \in Int
    BY <1>1
  <2> QED BY <1>2, <2>1, SubSeqProperties
<1> HIDE DEF s
<1>5. ASSUME NEW i \in 1..Len(s) PROVE i \in Nat /\ m + i - 1 \in 1..l /\ s[i] = ui.rows[m + i - 1]
  <2>1. i \in 1..(l - m + 1)
    BY <1>1, <1>4
  <2> QED BY <1>1, <1>4, <2>1
<1>6. CallsDiffer(s)
  <2> SUFFICES ASSUME NEW i \in 1..Len(s), NEW j \in 1..Len(s),
                      s[i].role = "tool_call", s[j].role = "tool_call", s[i].call = s[j].call
               PROVE  i = j
    BY DEF CallsDiffer
  <2>1. m + i - 1 = m + j - 1
    BY <1>1, <1>5 DEF ChatInv, CallsOnce
  <2> QED BY <1>1, <1>5, <2>1
<1> QED BY <1>3, <1>4, <1>6

(* The first loop of loadHistory, to its end.                                  *)
LEMMA GatheredAll ==
  ASSUME ChatInv
  PROVE  LET s == Conversation!Latest IN Collected(Conversation!Gathered[Len(s)], s, Len(s))
<1> DEFINE s == Conversation!Latest
           b == [msgs |-> <<>>, seen |-> {}, answered |-> {}]
           G == [x \in Histories \X ChatRow |-> Conversation!Gather(x[1], x[2])]
           F(f) == [n \in 0..Len(s) |-> IF n = 0 THEN b ELSE Conversation!Gather(f[n - 1], s[n])]
           g == Conversation!Gathered
<1>1. s \in Seq(ChatRow) /\ CallsDiffer(s) /\ Len(s) \in Nat
  BY LatestRows, LenProperties
<1>2. g = CHOOSE f : f = F(f)
  BY DEF Conversation!Gathered
<1> HIDE DEF s, g
<1>3. b \in Histories
  BY EmptySeq DEF Histories
<1>4. G \in [Histories \X ChatRow -> Histories]
  BY GatherMoves
<1>5. \E f : f = F(f)
  <2> HIDE DEF b, G, F
  <2>1. Rounds(Histories, G, b, s) # {}
    BY <1>1, <1>3, <1>4, LoopRuns
  <2>2. PICK f \in [0..Len(s) -> Histories] : f[0] = b /\ \A n \in 1..Len(s) : f[n] = G[<<f[n - 1], s[n]>>]
    BY <2>1 DEF Rounds
  <2>3. ASSUME NEW n \in 0..Len(s)
        PROVE  f[n] = IF n = 0 THEN b ELSE Conversation!Gather(f[n - 1], s[n])
    <3>1. CASE n = 0
      BY <2>2, <3>1
    <3>2. CASE n # 0
      <4>1. n \in 1..Len(s) /\ n - 1 \in 0..Len(s)
        BY <1>1, <3>2
      <4>2. f[n - 1] \in Histories /\ s[n] \in ChatRow
        BY <1>1, <2>2, <4>1, ElementOfSeq
      <4>3. G[<<f[n - 1], s[n]>>] = Conversation!Gather(f[n - 1], s[n])
        BY <4>2 DEF G
      <4> QED BY <2>2, <3>2, <4>1, <4>3
    <3> QED BY <3>1, <3>2
  <2>4. f = [n \in 0..Len(s) |-> f[n]]
    BY <2>2
  <2>5. f = F(f)
    BY <2>3, <2>4 DEF F
  <2> QED BY <2>5
<1>6. g = F(g)
  <2> HIDE DEF F
  <2> QED BY <1>2, <1>5
<1>7. g[0] = b /\ \A n \in 1..Len(s) : g[n] = Conversation!Gather(g[n - 1], s[n])
  <2>1. \A n \in 0..Len(s) : F(g)[n] = IF n = 0 THEN b ELSE Conversation!Gather(g[n - 1], s[n])
    OBVIOUS
  <2>2. 0 \in 0..Len(s) /\ \A n \in 1..Len(s) : n \in 0..Len(s) /\ n # 0
    BY <1>1
  <2> HIDE DEF F, b
  <2> QED BY <1>6, <2>1, <2>2
<1> DEFINE T == {n \in 0..Len(s) : Collected(g[n], s, n)}
<1>8. 0 \in T
  <2>1. Collected(b, s, 0)
    <3>1. 1..Len(b.msgs) = {}
      BY EmptySeq
    <3> HIDE DEF b
    <3>2. b.seen = {} /\ b.answered = {}
      BY DEF b
    <3> QED BY <1>3, <3>1, <3>2 DEF Collected
  <2> HIDE DEF b
  <2> QED BY <1>1, <1>7, <2>1
<1>9. ASSUME NEW n \in 1..Len(s), n - 1 \in T PROVE n \in T
  <2>1. Collected(g[n - 1], s, n - 1) /\ n \in 0..Len(s)
    BY <1>1, <1>9
  <2> QED BY <1>1, <1>7, <2>1, GatherKeeps
<1>10. 0..Len(s) \subseteq T
  <2> HIDE DEF T
  <2> QED BY <1>1, <1>8, <1>9, UpTo
<1> QED BY <1>1, <1>10 DEF s, g

LEMMA ChatPaired ==
  ASSUME ChatInv
  PROVE  Conversation!Paired
<1> DEFINE s == Conversation!Latest
           h == Conversation!Gathered[Len(s)]
           all == h.msgs
           msgs == Conversation!StripOrphans(all, h.answered)
           K == Conversation!Keep(msgs)
           kept == Conversation!Only(msgs, K)
<1>1. Collected(h, s, Len(s))
  BY GatheredAll
<1>2. Conversation!loadHistory = kept
  BY DEF Conversation!loadHistory
<1> HIDE DEF h
<1>3. all \in Seq(ChatMessage) /\ Len(all) \in Nat /\ DOMAIN all = 1..Len(all)
  BY <1>1, LenProperties DEF Collected, Histories
<1>4. /\ msgs \in Seq(ChatMessage) /\ Len(msgs) = Len(all) /\ DOMAIN msgs = 1..Len(all)
      /\ \A i \in 1..Len(all) :
           /\ msgs[i].calls = all[i].calls \intersect h.answered
           /\ msgs[i].role = all[i].role /\ msgs[i].result = all[i].result
  <2>1. msgs = [i \in 1..Len(all) |-> [all[i] EXCEPT !.calls = @ \intersect h.answered]]
    BY <1>3 DEF Conversation!StripOrphans
  <2>2. ASSUME NEW i \in 1..Len(all)
        PROVE  LET m == [all[i] EXCEPT !.calls = @ \intersect h.answered] IN
               /\ m \in ChatMessage /\ m.calls = all[i].calls \intersect h.answered
               /\ m.role = all[i].role /\ m.result = all[i].result
    <3>1. all[i] \in ChatMessage
      BY <1>3, ElementOfSeq
    <3> QED BY <3>1 DEF ChatMessage
  <2> HIDE DEF msgs
  <2>3. msgs \in [1..Len(all) -> ChatMessage]
    BY <2>1, <2>2
  <2>4. msgs \in Seq(ChatMessage) /\ Len(msgs) = Len(all)
    BY <1>3, <2>3, RunIsSeq
  <2> QED BY <2>1, <2>2, <2>3, <2>4
<1> HIDE DEF msgs
<1>5. kept \in Seq(ChatMessage) /\ Picks(kept, msgs, Len(all), K) # {}
  <2> HIDE DEF K
  <2> QED BY <1>4, OnlyPicks
<1> HIDE DEF kept
<1>6. Len(kept) \in Nat /\ DOMAIN kept = 1..Len(kept)
  BY <1>5, LenProperties
<1>7. PICK e \in [1..Len(kept) -> 1..Len(all)] :
        /\ \A k \in 1..Len(kept) : kept[k] = msgs[e[k]] /\ msgs[e[k]] \in K
        /\ \A j, k \in 1..Len(kept) : j < k => e[j] < e[k]
        /\ \A n \in 1..Len(all) : msgs[n] \in K => \E k \in 1..Len(kept) : e[k] = n
  <2> HIDE DEF K
  <2> QED BY <1>5 DEF Picks
<1>8. \A j, k \in 1..Len(kept) : e[j] < e[k] => j < k
  <2> SUFFICES ASSUME NEW j \in 1..Len(kept), NEW k \in 1..Len(kept), e[j] < e[k], ~(j < k) PROVE FALSE
    OBVIOUS
  <2>1. e[j] \in Nat /\ e[k] \in Nat /\ (k = j \/ k < j)
    BY <1>3, <1>6, <1>7
  <2> QED BY <1>7, <2>1
<1>9. ASSUME NEW i \in 1..Len(all)
      PROVE  msgs[i] \in K <=>
               /\ ~(msgs[i].role = "assistant" /\ ~msgs[i].text /\ msgs[i].calls = {})
               /\ msgs[i].role = "tool_result" => \E j \in 1..Len(all) : msgs[i].result \in msgs[j].calls
  BY <1>4 DEF Conversation!Keep, Conversation!ToSet
<1> HIDE DEF K, all
<1>10. /\ \A c \in h.answered : \E j \in 1..Len(all) : msgs[j].role = "tool_result" /\ msgs[j].result = c
       /\ \A i \in 1..Len(all) : msgs[i].role = "tool_result" => msgs[i].calls = {}
       /\ \A i, j \in 1..Len(all) :
            msgs[j].role = "tool_result" /\ msgs[j].result \in msgs[i].calls => i < j
  <2>1. /\ \A c \in h.answered : \E j \in 1..Len(all) : Resolves(all[j], c)
        /\ \A i \in 1..Len(all) : all[i].role = "tool_result" => all[i].calls = {}
        /\ \A i, j \in 1..Len(all) :
             all[j].role = "tool_result" /\ all[j].result \in all[i].calls => i < j
    BY <1>1 DEF Collected, all
  <2>2. \A c \in h.answered : \E j \in 1..Len(all) : msgs[j].role = "tool_result" /\ msgs[j].result = c
    BY <1>4, <2>1 DEF Resolves
  <2>3. \A i \in 1..Len(all) : msgs[i].role = "tool_result" => msgs[i].calls = {}
    BY <1>4, <2>1
  <2>4. \A i, j \in 1..Len(all) : msgs[j].role = "tool_result" /\ msgs[j].result \in msgs[i].calls => i < j
    BY <1>4, <2>1
  <2> QED BY <2>2, <2>3, <2>4
<1>11. ASSUME NEW i \in 1..Len(kept), NEW c \in kept[i].calls
       PROVE  \E j \in 1..Len(kept) : j > i /\ kept[j].role = "tool_result" /\ kept[j].result = c
  <2>1. e[i] \in 1..Len(all) /\ c \in msgs[e[i]].calls /\ c \in h.answered
    BY <1>4, <1>7, <1>11
  <2>2. PICK n \in 1..Len(all) : msgs[n].role = "tool_result" /\ msgs[n].result = c
    BY <1>10, <2>1
  <2>3. msgs[n] \in K /\ e[i] < n
    BY <1>9, <1>10, <2>1, <2>2
  <2>4. PICK j \in 1..Len(kept) : e[j] = n
    BY <1>7, <2>3
  <2>5. i < j
    BY <1>8, <2>3, <2>4
  <2> QED BY <1>6, <1>7, <2>2, <2>4, <2>5
<1>12. ASSUME NEW j \in 1..Len(kept), kept[j].role = "tool_result"
       PROVE  \E i \in 1..Len(kept) : i < j /\ kept[j].result \in kept[i].calls
  <2>1. e[j] \in 1..Len(all) /\ kept[j] = msgs[e[j]] /\ msgs[e[j]] \in K
    BY <1>7
  <2>2. PICK n \in 1..Len(all) : msgs[e[j]].result \in msgs[n].calls
    BY <1>9, <1>12, <2>1
  <2>3. msgs[n] \in K /\ n < e[j]
    BY <1>9, <1>10, <1>12, <2>1, <2>2
  <2>4. PICK i \in 1..Len(kept) : e[i] = n
    BY <1>7, <2>3
  <2> QED BY <1>7, <1>8, <2>1, <2>2, <2>3, <2>4
<1> QED BY <1>2, <1>6, <1>11, <1>12 DEF Conversation!Paired
-----------------------------------------------------------------------------
(* What reconstructMessages shows                                              *)

ShownStep == [call : Nat, status : {"running", "done"}]
ShownMessage == [row : Nat, steps : Seq(ShownStep)]
Views == [done : Seq(ShownMessage), current : {<<>>} \union {<<m>> : m \in ShownMessage}]

RowsOf(w) == [i \in DOMAIN w |-> w[i].row]

LEMMA RowsOfAppend ==
  ASSUME NEW w \in Seq(ShownMessage), NEW m \in ShownMessage
  PROVE  /\ RowsOf(w) \in Seq(Nat)
         /\ RowsOf(Append(w, m)) = Append(RowsOf(w), m.row)
<1> DEFINE l == Len(w)
           u == Append(w, m)
<1>1. l \in Nat /\ DOMAIN w = 1..l /\ m.row \in Nat
  BY LenProperties DEF ShownMessage
<1>2. /\ u \in Seq(ShownMessage) /\ Len(u) = l + 1 /\ u[l + 1] = m
      /\ \A i \in 1..l : u[i] = w[i]
  BY AppendProperties
<1>3. DOMAIN u = 1..(l + 1)
  BY <1>2, LenProperties
<1>4. RowsOf(w) \in [1..l -> Nat] /\ \A i \in 1..l : RowsOf(w)[i] = w[i].row
  <2>1. \A i \in 1..l : w[i] \in ShownMessage
    BY ElementOfSeq
  <2> QED BY <1>1, <2>1 DEF RowsOf, ShownMessage
<1>5. RowsOf(w) \in Seq(Nat) /\ Len(RowsOf(w)) = l
  <2> HIDE DEF l
  <2> QED BY <1>1, <1>4, RunIsSeq
<1> HIDE DEF u
<1>6. RowsOf(u) \in [1..(l + 1) -> Nat] /\ \A i \in 1..(l + 1) : RowsOf(u)[i] = u[i].row
  <2>1. \A i \in 1..(l + 1) : u[i] \in ShownMessage
    BY <1>2, ElementOfSeq
  <2> QED BY <1>3, <2>1 DEF RowsOf, ShownMessage
<1>7. RowsOf(u) \in Seq(Nat) /\ Len(RowsOf(u)) = l + 1
  <2>1. l + 1 \in Nat
    BY <1>1
  <2> HIDE DEF l
  <2> QED BY <1>6, <2>1, RunIsSeq
<1> DEFINE t == Append(RowsOf(w), m.row)
<1>8. /\ t \in Seq(Nat) /\ Len(t) = l + 1 /\ t[l + 1] = m.row
      /\ \A i \in 1..l : t[i] = RowsOf(w)[i]
  BY <1>1, <1>5, AppendProperties
<1> HIDE DEF t
<1>9. \A i \in 1..(l + 1) : RowsOf(u)[i] = t[i]
  <2>1. \A i \in 1..(l + 1) : i \in 1..l \/ i = l + 1
    BY <1>1
  <2> QED BY <1>2, <1>4, <1>6, <1>8, <2>1
<1>10. RowsOf(u) = t
  <2> HIDE DEF l
  <2> QED BY <1>7, <1>8, <1>9, SeqEqual
<1> QED BY <1>5, <1>10 DEF u, t

(* The last running step is one of the steps.                                  *)
LEMMA RunningStep ==
  ASSUME NEW s \in Seq(ShownStep), Conversation!LastRunning(s) # 0
  PROVE  Conversation!LastRunning(s) \in 1..Len(s)
<1> DEFINE R == {i \in DOMAIN s : s[i].status = "running"}
           N == {Len(s) - i : i \in R}
<1>1. DOMAIN s = 1..Len(s) /\ Len(s) \in Nat
  BY LenProperties
<1>2. R # {} /\ R \subseteq 1..Len(s)
  BY <1>1 DEF Conversation!LastRunning
<1>3. N \in SUBSET Nat /\ N # {}
  BY <1>1, <1>2
<1>4. PICK n \in N : \A m \in N : n <= m
  <2> HIDE DEF N
  <2> QED BY <1>3, NatHasLeast
<1>5. PICK i \in R : n = Len(s) - i
  BY <1>4
<1>6. \A j \in R : j <= i
  <2> SUFFICES ASSUME NEW j \in R PROVE j <= i
    OBVIOUS
  <2>1. Len(s) - j \in N
    OBVIOUS
  <2>2. n <= Len(s) - j
    BY <1>4, <2>1
  <2> QED BY <1>1, <1>2, <1>5, <2>2
<1>7. Conversation!LastRunning(s) = CHOOSE k \in R : \A j \in R : j <= k
  BY <1>2 DEF Conversation!LastRunning
<1> HIDE DEF R
<1>8. (CHOOSE k \in R : \A j \in R : j <= k) \in R
  BY <1>6
<1> QED BY <1>2, <1>7, <1>8

TextRows == {n \in DOMAIN ui.rows : ui.rows[n].role \in {"user", "assistant"}}

(* One row: a question or an answer is shown after those before it, and a step *)
(* of a tool changes the answer it belongs to.                                 *)
LEMMA ShowRowShows ==
  ASSUME ChatTypes, NEW v \in Views, NEW n \in DOMAIN ui.rows
  PROVE  LET w == Conversation!ShowRow(v, n)
             before == RowsOf(Conversation!Flush(v))
         IN  /\ w \in Views
             /\ RowsOf(Conversation!Flush(w)) = IF n \in TextRows THEN Append(before, n) ELSE before
<1> DEFINE w == Conversation!ShowRow(v, n)
           flushed == Conversation!Flush(v)
           fresh == [row |-> n, steps |-> <<>>]
           role == ui.rows[n].role
           steps == IF v.current = <<>> THEN <<>> ELSE v.current[1].steps
<1> SUFFICES /\ w \in Views
             /\ RowsOf(Conversation!Flush(w)) = IF n \in TextRows THEN Append(RowsOf(flushed), n) ELSE RowsOf(flushed)
  OBVIOUS
<1>1. /\ n \in Nat /\ role \in {"user", "assistant", "tool_call", "tool_result"} /\ ui.rows[n].call \in Nat
      /\ n \in TextRows <=> role \in {"user", "assistant"}
  <2>1. DOMAIN ui.rows = 1..Len(ui.rows) /\ ui.rows[n] \in ChatRow
    BY LenProperties, ElementOfSeq DEF ChatTypes
  <2> QED BY <2>1 DEF ChatRow, TextRows
<1>2. /\ v.done \in Seq(ShownMessage) /\ v = [done |-> v.done, current |-> v.current]
      /\ v.current = <<>> \/ \E a \in ShownMessage : v.current = <<a>>
  BY DEF Views
<1>3. flushed \in Seq(ShownMessage)
  <2>1. CASE v.current = <<>>
    BY <1>2, <2>1 DEF Conversation!Flush
  <2>2. ASSUME NEW a \in ShownMessage, v.current = <<a>> PROVE flushed \in Seq(ShownMessage)
    <3>1. flushed = Append(v.done, a)
      BY <2>2 DEF Conversation!Flush
    <3> QED BY <1>2, <3>1, AppendProperties
  <2> QED BY <1>2, <2>1, <2>2
<1>4. fresh \in ShownMessage /\ fresh.row = n
  BY <1>1, EmptySeq DEF ShownMessage
<1>5. RowsOf(Append(flushed, fresh)) = Append(RowsOf(flushed), n) /\ Append(flushed, fresh) \in Seq(ShownMessage)
  <2> HIDE DEF fresh, flushed
  <2> QED BY <1>3, <1>4, RowsOfAppend, AppendProperties
<1>6. CASE role = "user"
  <2>1. w = [done |-> Append(flushed, fresh), current |-> <<>>]
    BY <1>6 DEF Conversation!ShowRow, Conversation!rows
  <2> HIDE DEF w, fresh, flushed
  <2>2. w \in Views /\ Conversation!Flush(w) = Append(flushed, fresh)
    BY <1>5, <2>1 DEF Views, Conversation!Flush
  <2> QED BY <1>1, <1>5, <1>6, <2>2
<1>7. CASE role = "assistant"
  <2>1. w = [done |-> flushed, current |-> <<fresh>>]
    BY <1>7 DEF Conversation!ShowRow, Conversation!rows
  <2> HIDE DEF w, fresh, flushed
  <2>2. w \in Views /\ Conversation!Flush(w) = Append(flushed, fresh)
    BY <1>3, <1>4, <2>1 DEF Views, Conversation!Flush
  <2> QED BY <1>1, <1>5, <1>7, <2>2
<1>8. CASE role \in {"tool_call", "tool_result"}
  <2>1. CASE w = v
    BY <1>1, <1>8, <2>1
  <2>2. CASE w # v
    <3>1. steps # <<>> \/ v.current # <<>>
      <4>1. v.current = <<>> => Conversation!LastRunning(<<>>) = 0
        BY DEF Conversation!LastRunning
      <4> QED BY <1>8, <2>2, <4>1 DEF Conversation!ShowRow, Conversation!rows
    <3>2. PICK a \in ShownMessage : v.current = <<a>>
      BY <1>2, <3>1
    <3>3. steps = a.steps /\ a.steps \in Seq(ShownStep) /\ a.row \in Nat
      BY <3>2 DEF ShownMessage
    <3>4. PICK q \in Seq(ShownStep) : w = [v EXCEPT !.current = <<[a EXCEPT !.steps = q]>>]
      <4>1. CASE role = "tool_call"
        <5> DEFINE x == [call |-> ui.rows[n].call, status |-> "running"]
        <5>1. w = [v EXCEPT !.current = <<[a EXCEPT !.steps = Append(a.steps, x)]>>]
          BY <3>2, <4>1 DEF Conversation!ShowRow, Conversation!rows
        <5>2. x \in ShownStep
          BY <1>1 DEF ShownStep
        <5> HIDE DEF x, ShownStep
        <5>3. Append(a.steps, x) \in Seq(ShownStep)
          BY <3>3, <5>2, AppendProperties
        <5> QED BY <5>1, <5>3
      <4>2. CASE role = "tool_result"
        <5> DEFINE k == Conversation!LastRunning(a.steps)
                   q == [a.steps EXCEPT ![k].status = "done"]
        <5>1. w = IF k = 0 THEN v ELSE [v EXCEPT !.current = <<[a EXCEPT !.steps = q]>>]
          BY <3>2, <4>2 DEF Conversation!ShowRow, Conversation!rows
        <5>2. k # 0 /\ k \in 1..Len(a.steps) /\ Len(a.steps) \in Nat
          BY <2>2, <3>3, <5>1, RunningStep, LenProperties
        <5>3. a.steps \in [1..Len(a.steps) -> ShownStep]
          BY <3>3, LenProperties
        <5> HIDE DEF k, w
        <5>4. q \in [1..Len(a.steps) -> ShownStep]
          BY <5>2, <5>3 DEF ShownStep
        <5> HIDE DEF q
        <5>5. q \in Seq(ShownStep)
          BY <5>2, <5>4, RunIsSeq
        <5> QED BY <5>1, <5>2, <5>5
      <4> QED BY <1>8, <4>1, <4>2
    <3> DEFINE b == [a EXCEPT !.steps = q]
    <3> HIDE DEF w
    <3>5. b \in ShownMessage /\ b.row = a.row
      BY DEF ShownMessage
    <3>6. w = [done |-> v.done, current |-> <<b>>]
      BY <1>2, <3>4
    <3> HIDE DEF b
    <3>7. w \in Views /\ Conversation!Flush(w) = Append(v.done, b)
      BY <1>2, <3>5, <3>6 DEF Views, Conversation!Flush
    <3>8. flushed = Append(v.done, a)
      BY <3>2 DEF Conversation!Flush
    <3>9. RowsOf(Conversation!Flush(w)) = RowsOf(flushed)
      BY <1>2, <3>5, <3>7, <3>8, RowsOfAppend
    <3> QED BY <1>1, <1>8, <3>7, <3>9
  <2> QED BY <2>1, <2>2
<1> QED BY <1>1, <1>6, <1>7, <1>8

LEMMA ChatShown ==
  ASSUME ChatInv
  PROVE  Conversation!ShownInOrder
<1> DEFINE l == Len(ui.rows)
           s == [n \in DOMAIN ui.rows |-> n]
           b == [done |-> <<>>, current |-> <<>>]
           G == [x \in Views \X (1..l) |-> Conversation!ShowRow(x[1], x[2])]
           F(f) == [n \in 0..l |-> IF n = 0 THEN b ELSE Conversation!ShowRow(f[n - 1], n)]
           g == Conversation!Shown
<1>1. l \in Nat /\ DOMAIN ui.rows = 1..l /\ ChatTypes
  BY LenProperties DEF ChatInv, ChatTypes
<1>2. s \in Seq(1..l) /\ s \in Seq(Nat) /\ Len(s) = l /\ \A n \in 1..l : s[n] = n
  <2>1. s \in [1..l -> 1..l] /\ s \in [1..l -> Nat] /\ \A n \in 1..l : s[n] = n
    BY <1>1
  <2> HIDE DEF s, l
  <2> QED BY <1>1, <2>1, RunIsSeq
<1>3. g = CHOOSE f : f = F(f)
  BY DEF Conversation!Shown, Conversation!rows
<1>4. b \in Views
  BY EmptySeq DEF Views
<1>5. G \in [Views \X (1..l) -> Views]
  BY <1>1, ShowRowShows
<1> HIDE DEF l, s, g
<1>6. \E f : f = F(f)
  <2> HIDE DEF b, G, F
  <2> DEFINE R == 1..l
  <2>1. s \in Seq(R) /\ G \in [Views \X R -> Views]
    BY <1>2, <1>5
  <2>2. Rounds(Views, G, b, s) # {}
    <3> HIDE DEF R
    <3> QED BY <1>4, <2>1, LoopRuns
  <2>3. PICK f \in [0..l -> Views] : f[0] = b /\ \A n \in 1..l : f[n] = G[<<f[n - 1], n>>]
    BY <1>2, <2>2 DEF Rounds
  <2>4. ASSUME NEW n \in 0..l
        PROVE  f[n] = IF n = 0 THEN b ELSE Conversation!ShowRow(f[n - 1], n)
    <3>1. CASE n = 0
      BY <2>3, <3>1
    <3>2. CASE n # 0
      <4>1. n \in 1..l /\ n - 1 \in 0..l /\ f[n - 1] \in Views
        BY <1>1, <2>3, <3>2
      <4>2. G[<<f[n - 1], n>>] = Conversation!ShowRow(f[n - 1], n)
        BY <4>1 DEF G
      <4> QED BY <2>3, <3>2, <4>1, <4>2
    <3> QED BY <3>1, <3>2
  <2>5. f = [n \in 0..l |-> f[n]]
    BY <2>3
  <2>6. f = F(f)
    BY <2>4, <2>5 DEF F
  <2> QED BY <2>6
<1>7. g = F(g)
  <2> HIDE DEF F
  <2> QED BY <1>3, <1>6
<1>8. g[0] = b /\ \A n \in 1..l : g[n] = Conversation!ShowRow(g[n - 1], n)
  <2>1. \A n \in 0..l : F(g)[n] = IF n = 0 THEN b ELSE Conversation!ShowRow(g[n - 1], n)
    OBVIOUS
  <2>2. 0 \in 0..l /\ \A n \in 1..l : n \in 0..l /\ n # 0
    BY <1>1
  <2> HIDE DEF F, b
  <2> QED BY <1>7, <2>1, <2>2
<1>9. PICK f \in [0..l -> Seq(Nat)] :
        /\ Conversation!Only(s, TextRows) = f[l] /\ f[0] = <<>>
        /\ \A n \in 1..l : f[n] = IF n \in TextRows THEN Append(f[n - 1], n) ELSE f[n - 1]
  <2>1. OnlyRounds(Nat, s, TextRows) # {}
    <3> HIDE DEF TextRows
    <3> QED BY <1>2, OnlyRuns
  <2> QED BY <1>2, <2>1 DEF OnlyRounds
<1> DEFINE T == {n \in 0..l : g[n] \in Views /\ RowsOf(Conversation!Flush(g[n])) = f[n]}
<1>10. 0 \in T
  <2>1. Conversation!Flush(b) = <<>> /\ RowsOf(<<>>) = <<>>
    BY DEF Conversation!Flush, RowsOf
  <2> HIDE DEF b
  <2> QED BY <1>1, <1>4, <1>8, <1>9, <2>1
<1>11. ASSUME NEW n \in 1..l, n - 1 \in T PROVE n \in T
  <2>1. /\ g[n - 1] \in Views /\ RowsOf(Conversation!Flush(g[n - 1])) = f[n - 1]
        /\ n \in 0..l /\ n \in DOMAIN ui.rows
    BY <1>1, <1>11
  <2>2. /\ g[n] \in Views
        /\ RowsOf(Conversation!Flush(g[n])) = IF n \in TextRows THEN Append(f[n - 1], n) ELSE f[n - 1]
    BY <1>1, <1>8, <2>1, ShowRowShows
  <2> HIDE DEF TextRows
  <2> QED BY <1>9, <2>1, <2>2
<1>12. 0..l \subseteq T
  <2> HIDE DEF T
  <2> QED BY <1>1, <1>10, <1>11, UpTo
<1>13. RowsOf(Conversation!Flush(g[l])) = Conversation!Only(s, TextRows)
  BY <1>1, <1>9, <1>12
<1> QED BY <1>13 DEF Conversation!ShownInOrder, Conversation!reconstructMessages, Conversation!rows,
                  RowsOf, TextRows, g, l, s

LEMMA ChatHolds ==
  ASSUME ChatInv
  PROVE  Conversation!TypeOK /\ Conversation!Paired /\ Conversation!ShownInOrder
<1>1. Conversation!TypeOK
  BY DEF ChatInv, ChatTypes, ChatRow, Conversation!TypeOK, Conversation!rows, Conversation!todo
<1> QED BY <1>1, ChatPaired, ChatShown

-----------------------------------------------------------------------------
(* The viewer of the API documentation                                         *)

Tokens == {CHOOSE t \in Texts : TRUE}
Auths == [Docs!usedSchemes -> Tokens \union {Blank}]

(* No sign of a group is folded that is not remembered as folded.              *)
DocsList ==
  /\ DOMAIN ui = {"sec", "saved", "collapsed", "chevron", "aria", "value", "rows", "cards", "groups", "unresolved"}
  /\ ui.sec = "list" /\ ui.value \in {"", "text", ":unresolved"}
  /\ ui.saved \subseteq People /\ ui.rows \subseteq People /\ ui.cards \subseteq People
  /\ ui.groups \subseteq People /\ ui.unresolved \subseteq People
  /\ ui.collapsed \subseteq ui.saved /\ ui.chevron \subseteq ui.saved /\ ui.aria \subseteq ui.saved
  /\ ui.value = "" => ui.collapsed = ui.saved /\ ui.chevron = ui.saved /\ ui.aria = ui.saved

Asked == [carries : BOOLEAN, said : {"nothing", "not required", "configured", "another", "missing"}]
Lines(auth) == [e \in {"open", "bearer", "basic"} |-> Docs!renderTryItAuth(auth, e)]

DocsTry ==
  /\ DOMAIN ui = {"sec", "auth", "fields", "modal", "marks", "badge", "lines", "out", "resp"}
  /\ ui.sec = "try" /\ ui.auth \in Auths /\ ui.fields \in Auths
  /\ ui.modal \in BOOLEAN /\ ui.marks \subseteq Docs!usedSchemes
  /\ ui.resp \in [{"open", "bearer", "basic"} -> {"none", "plain", "token", "used"}]
  /\ ui.out \in [{"open", "bearer", "basic"} -> Asked]
  /\ ui.badge = Docs!hasAuth(ui.auth)
  /\ ui.lines = Lines(ui.auth)
  /\ \A e \in {"open", "bearer", "basic"} : ui.out[e].carries <=> ui.out[e].said = "configured"

DocsInv == DocsList \/ DocsTry

LEMMA DocsHolds ==
  ASSUME DocsInv
  PROVE  Docs!TypeOK /\ Docs!GroupsRestored /\ Docs!AuthShown
<1>1. CASE DocsList
  BY <1>1 DEF DocsList, Docs!TypeOK, Docs!GroupsRestored, Docs!AuthShown
<1>2. CASE DocsTry
  <2>1. Docs!GroupsRestored
    BY <1>2 DEF DocsTry, Docs!GroupsRestored
  <2>2. Docs!TypeOK
    <3>1. Docs!hasAuth(ui.auth) \in BOOLEAN
      BY Zenon DEF Docs!hasAuth
    <3> QED BY <1>2, <3>1 DEF DocsTry, Auths, Tokens, Docs!TypeOK
  <2>3. Docs!AuthShown
    <3>1. /\ ui.badge = Docs!hasAuth(ui.auth)
          /\ \A e \in {"open", "bearer", "basic"} :
               /\ ui.lines[e] = Docs!renderTryItAuth(ui.auth, e)
               /\ ui.out[e].carries <=> ui.out[e].said = "configured"
      BY <1>2, Zenon DEF DocsTry, Lines
    <3> QED BY <3>1, Zenon DEF Docs!AuthShown
  <2> QED BY <2>1, <2>2, <2>3
<1> QED BY <1>1, <1>2 DEF DocsInv

(* What the line of an endpoint says of some credentials.                      *)
LEMMA LineSays ==
  ASSUME NEW auth \in Auths, NEW e \in {"open", "bearer", "basic"}
  PROVE  /\ Docs!renderTryItAuth(auth, e) \in {"not required", "configured", "another", "missing"}
         /\ Docs!renderTryItAuth(auth, e) = "configured" <=> Docs!hasAuthFor(auth, e)
<1> DEFINE For == Docs!hasAuthFor(auth, e)
           Any == Docs!hasAuth(auth)
<1>1. For => Any /\ e \in Docs!Schemes
  BY DEF Docs!hasAuth, Docs!hasAuthFor, Docs!usedSchemes
<1> HIDE DEF For, Any
<1>2. Docs!renderTryItAuth(auth, e) =
        CASE e \notin Docs!Schemes -> "not required"
          [] For -> "configured"
          [] ~For /\ Any -> "another"
          [] ~Any -> "missing"
  BY DEF Docs!renderTryItAuth, For, Any
<1>3. CASE e \notin Docs!Schemes
  BY <1>1, <1>2, <1>3 DEF For
<1>4. CASE e \in Docs!Schemes /\ For
  BY <1>1, <1>2, <1>4 DEF For
<1>5. CASE e \in Docs!Schemes /\ ~For /\ Any
  BY <1>1, <1>2, <1>5 DEF For
<1>6. CASE e \in Docs!Schemes /\ ~For /\ ~Any
  BY <1>1, <1>2, <1>6 DEF For
<1> QED BY <1>3, <1>4, <1>5, <1>6

LEMMA DocsMounts ==
  ASSUME ui' \in Docs!Mounts
  PROVE  DocsInv'
<1>1. ASSUME NEW s \in SUBSET People, NEW u \in SUBSET People, ui' = Docs!buildSidebar(s, u)
      PROVE  DocsInv'
  BY <1>1 DEF DocsInv, DocsList, Docs!buildSidebar
<1>2. CASE ui' = Docs!buildCards
  <2> DEFINE none == [e \in {"open", "bearer", "basic"} |-> [carries |-> FALSE, said |-> "nothing"]]
  <2>1. ui' = [sec |-> "try", auth |-> Docs!NoAuth, fields |-> Docs!NoAuth, modal |-> FALSE, marks |-> {},
               badge |-> FALSE, lines |-> Lines(Docs!NoAuth), out |-> none,
               resp |-> [e \in {"open", "bearer", "basic"} |-> "none"]]
    BY <1>2, Zenon DEF Docs!buildCards, Docs!NoRequest, Lines
  <2>2. Docs!NoAuth \in Auths
    BY DEF Docs!NoAuth, Auths
  <2>3. Docs!hasAuth(Docs!NoAuth) = FALSE
    BY DEF Docs!hasAuth, Docs!hasAuthFor, Docs!NoAuth
  <2>4. none \in [{"open", "bearer", "basic"} -> Asked]
    BY DEF Asked
  <2>5. \A e \in {"open", "bearer", "basic"} : none[e].carries <=> none[e].said = "configured"
    OBVIOUS
  <2> HIDE DEF none
  <2>6. /\ ui'.badge = Docs!hasAuth(Docs!NoAuth) /\ ui'.auth = Docs!NoAuth
        /\ ui'.lines = Lines(Docs!NoAuth) /\ ui'.out = none
    BY <2>1, <2>3
  <2> QED BY <2>1, <2>2, <2>4, <2>5, <2>6 DEF DocsInv, DocsTry
<1>3. \/ ui' = Docs!buildCards
      \/ \E s \in SUBSET People : ui' \in {Docs!buildSidebar(s, u) : u \in SUBSET People}
  BY Zenon DEF Docs!Mounts
<1>4. ASSUME NEW s \in SUBSET People, ui' \in {Docs!buildSidebar(s, u) : u \in SUBSET People}
      PROVE  \E u \in SUBSET People : ui' = Docs!buildSidebar(s, u)
  BY <1>4, Zenon
<1> QED BY <1>1, <1>2, <1>3, <1>4

LEMMA DocsSearches ==
  ASSUME DocsList, NEW value \in {"", "text", ":unresolved"}, NEW match \in SUBSET People,
         Docs!applySearch(value, match)
  PROVE  DocsList'
<1>1. CASE value # ""
  <2>1. ui' = [ui EXCEPT !.value = value, !.rows = match, !.cards = match, !.groups = match,
                         !.collapsed = @ \ match, !.chevron = @ \ match]
    BY <1>1 DEF Docs!applySearch
  <2> QED BY <1>1, <2>1 DEF DocsList
<1>2. CASE value = ""
  <2>1. ui' = [ui EXCEPT !.value = value, !.rows = People, !.cards = People, !.groups = People,
                         !.collapsed = @ \union ui.saved, !.chevron = @ \union ui.saved,
                         !.aria = @ \union ui.saved]
    BY <1>2 DEF Docs!applySearch
  <2>2. /\ ui.collapsed \union ui.saved = ui.saved /\ ui.chevron \union ui.saved = ui.saved
        /\ ui.aria \union ui.saved = ui.saved
    BY DEF DocsList
  <2>3. ui' = [ui EXCEPT !.value = value, !.rows = People, !.cards = People, !.groups = People,
                         !.collapsed = ui.saved, !.chevron = ui.saved, !.aria = ui.saved]
    BY <2>1, <2>2 DEF DocsList
  <2> QED BY <2>3 DEF DocsList
<1> QED BY <1>1, <1>2

LEMMA DocsListStep ==
  ASSUME DocsList, Docs!Next
  PROVE  DocsList'
<1>1. CASE Docs!SearchInput
  <2>1. PICK value \in {"", "text", ":unresolved"} :
          \E match \in IF value = "" THEN {People} ELSE SUBSET People : Docs!applySearch(value, match)
    BY <1>1, Zenon DEF Docs!SearchInput
  <2>2. PICK match \in SUBSET People : Docs!applySearch(value, match)
    BY <2>1
  <2> QED BY <2>2, DocsSearches
<1>2. CASE Docs!UnresolvedFilter
  <2>1. CASE ui.value = ":unresolved"
    <3>1. Docs!applySearch("", People)
      BY <1>2, <2>1 DEF Docs!UnresolvedFilter
    <3> QED BY <3>1, DocsSearches
  <2>2. CASE ui.value # ":unresolved"
    <3>1. ui' = [ui EXCEPT !.value = ":unresolved", !.rows = ui.unresolved, !.cards = ui.unresolved,
                           !.groups = ui.unresolved, !.collapsed = @ \ ui.unresolved]
      BY <1>2, <2>2 DEF Docs!UnresolvedFilter, Docs!applyUnresolvedFilter
    <3> QED BY <3>1 DEF DocsList
  <2> QED BY <2>1, <2>2
<1>3. CASE Docs!Reload
  BY <1>3 DEF DocsList, Docs!Reload, Docs!buildSidebar
<1>4. ASSUME NEW g \in People, Docs!toggleGroup(g)
      PROVE  DocsList'
  <2>1. CASE g \in ui.collapsed
    <3>1. ui' = [ui EXCEPT !.collapsed = @ \ {g}, !.chevron = @ \ {g}, !.aria = @ \ {g}, !.saved = @ \ {g}]
      BY <1>4, <2>1 DEF Docs!toggleGroup
    <3> QED BY <3>1 DEF DocsList
  <2>2. CASE g \notin ui.collapsed
    <3>1. ui' = [ui EXCEPT !.collapsed = @ \union {g}, !.chevron = @ \union {g}, !.aria = @ \union {g},
                           !.saved = @ \union {g}]
      BY <1>4, <2>2 DEF Docs!toggleGroup
    <3> QED BY <3>1 DEF DocsList
  <2> QED BY <2>1, <2>2
<1> QED
  <2>1. ui.sec = "list"
    BY DEF DocsList
  <2> QED BY <1>1, <1>2, <1>3, <1>4, <2>1 DEF Docs!Next

LEMMA DocsTryStep ==
  ASSUME DocsTry, Docs!Next
  PROVE  DocsTry'
<1> DEFINE Ends == {"open", "bearer", "basic"}
<1>0. ui.sec = "try"
  BY DEF DocsTry
(* What changes the credentials writes the button and the lines again.         *)
<1>1. ASSUME NEW auth \in Auths, NEW fields \in Auths, NEW modal \in BOOLEAN,
             NEW marks \in SUBSET Docs!usedSchemes,
             NEW resp \in [Ends -> {"none", "plain", "token", "used"}],
             ui' = [ui EXCEPT !.auth = auth, !.badge = Docs!hasAuth(auth), !.lines = Lines(auth),
                              !.fields = fields, !.modal = modal, !.marks = marks, !.resp = resp]
      PROVE  DocsTry'
  BY <1>1 DEF DocsTry
<1>2. ASSUME NEW fields \in Auths, NEW modal \in BOOLEAN, NEW marks \in SUBSET Docs!usedSchemes,
             ui' = [ui EXCEPT !.fields = fields, !.modal = modal, !.marks = marks]
      PROVE  DocsTry'
  BY <1>2 DEF DocsTry
<1>a. \A auth : Docs!Authorized(auth) = [ui EXCEPT !.auth = auth, !.badge = Docs!hasAuth(auth), !.lines = Lines(auth)]
  BY Zenon DEF Docs!Authorized, Lines
<1>b. /\ ui.auth \in Auths /\ ui.fields \in Auths /\ ui.modal \in BOOLEAN /\ ui.marks \in SUBSET Docs!usedSchemes
      /\ ui.resp \in [Ends -> {"none", "plain", "token", "used"}]
      /\ DOMAIN ui = {"sec", "auth", "fields", "modal", "marks", "badge", "lines", "out", "resp"}
  BY DEF DocsTry
<1>c. Docs!NoAuth \in Auths
  BY DEF Docs!NoAuth, Auths
<1> HIDE DEF Ends
<1>3. CASE Docs!OpenAuth
  <2>1. ui' = [ui EXCEPT !.modal = TRUE, !.fields = ui.auth, !.marks = Docs!Marked(ui.auth)]
    BY <1>3 DEF Docs!OpenAuth
  <2>2. Docs!Marked(ui.auth) \in SUBSET Docs!usedSchemes
    BY DEF Docs!Marked
  <2>3. ui' = [ui EXCEPT !.fields = ui.auth, !.modal = TRUE, !.marks = Docs!Marked(ui.auth)]
    BY <1>b, <2>1
  <2> QED BY <1>b, <1>2, <2>2, <2>3
<1>4. CASE Docs!CloseAuth
  <2>1. ui' = [ui EXCEPT !.fields = ui.auth, !.modal = FALSE, !.marks = {}]
    BY <1>b, <1>4 DEF Docs!CloseAuth
  <2>2. {} \in SUBSET Docs!usedSchemes /\ FALSE \in BOOLEAN
    OBVIOUS
  <2> QED BY <1>b, <1>2, <2>1, <2>2
<1>5. CASE Docs!SaveAuth
  <2>1. ui' = [[ui EXCEPT !.auth = ui.fields, !.badge = Docs!hasAuth(ui.fields), !.lines = Lines(ui.fields)]
               EXCEPT !.modal = FALSE, !.marks = {}]
    BY <1>a, <1>5 DEF Docs!SaveAuth
  <2>2. ui' = [ui EXCEPT !.auth = ui.fields, !.badge = Docs!hasAuth(ui.fields), !.lines = Lines(ui.fields),
                         !.fields = ui.fields, !.modal = FALSE, !.marks = {}, !.resp = ui.resp]
    BY <1>b, <2>1
  <2> QED BY <1>b, <1>1, <2>2
<1>6. CASE Docs!ClearAuth
  <2>1. ui' = [[ui EXCEPT !.auth = Docs!NoAuth, !.badge = Docs!hasAuth(Docs!NoAuth), !.lines = Lines(Docs!NoAuth)]
               EXCEPT !.fields = Docs!NoAuth]
    BY <1>a, <1>6 DEF Docs!ClearAuth
  <2>2. ui' = [ui EXCEPT !.auth = Docs!NoAuth, !.badge = Docs!hasAuth(Docs!NoAuth), !.lines = Lines(Docs!NoAuth),
                         !.fields = Docs!NoAuth, !.modal = ui.modal, !.marks = ui.marks, !.resp = ui.resp]
    BY <1>b, <2>1
  <2> QED BY <1>b, <1>c, <1>1, <2>2
<1>7. ASSUME NEW s \in Docs!usedSchemes, NEW c \in Tokens \union {Blank}, Docs!EditAuth(s, c)
      PROVE  DocsTry'
  <2> DEFINE f == [ui.fields EXCEPT ![s] = c]
  <2>1. f \in Auths
    BY <1>b DEF Auths
  <2>2. ui' = [ui EXCEPT !.fields = f]
    BY <1>7 DEF Docs!EditAuth
  <2> HIDE DEF f
  <2>3. ui' = [ui EXCEPT !.fields = f, !.modal = ui.modal, !.marks = ui.marks]
    BY <1>b, <2>2
  <2> QED BY <1>b, <1>2, <2>1, <2>3
<1>8. ASSUME NEW e \in Ends, Docs!SendRequest(e)
      PROVE  DocsTry'
  <2> DEFINE x == [carries |-> Docs!hasAuthFor(ui.auth, e), said |-> ui.lines[e]]
  <2>1. ui.lines[e] = Docs!renderTryItAuth(ui.auth, e)
    BY <1>8 DEF DocsTry, Lines, Ends
  <2>2. x \in Asked /\ (x.carries <=> x.said = "configured")
    <3>1. Docs!hasAuthFor(ui.auth, e) \in BOOLEAN
      BY Zenon DEF Docs!hasAuthFor
    <3>2. /\ ui.lines[e] \in {"not required", "configured", "another", "missing"}
          /\ ui.lines[e] = "configured" <=> Docs!hasAuthFor(ui.auth, e)
      <4>1. e \in {"open", "bearer", "basic"}
        BY DEF Ends
      <4>2. ui.auth \in Auths
        BY <1>b
      <4> QED BY <2>1, <4>1, <4>2, LineSays, Zenon
    <3>3. x.carries = Docs!hasAuthFor(ui.auth, e) /\ x.said = ui.lines[e]
      BY Zenon
    <3>4. x \in Asked
      BY <3>1, <3>2 DEF Asked
    <3> QED BY <3>2, <3>3, <3>4, Zenon
  <2>3. ui' = [ui EXCEPT !.out = [ui.out EXCEPT ![e] = x]]
    BY <1>8 DEF Docs!SendRequest
  <2> HIDE DEF x
  <2> QED BY <1>8, <2>2, <2>3 DEF DocsTry, Ends
<1>9. ASSUME NEW e \in Ends, Docs!renderTryItResponse(e)
      PROVE  DocsTry'
  <2> DEFINE x == [carries |-> FALSE, said |-> "nothing"]
  <2>1. x \in Asked /\ (x.carries <=> x.said = "configured")
    BY DEF Asked
  <2>2. PICK r \in {"plain", "token"} :
          ui' = [ui EXCEPT !.out = [ui.out EXCEPT ![e] = x], !.resp = [ui.resp EXCEPT ![e] = r]]
    BY <1>9 DEF Docs!renderTryItResponse, Docs!NoRequest
  <2> HIDE DEF x
  <2> QED BY <1>9, <2>1, <2>2 DEF DocsTry, Ends
<1>10. ASSUME NEW e \in Ends, NEW c \in Tokens, Docs!UseToken(e, c)
       PROVE  DocsTry'
  <2> DEFINE auth == [ui.auth EXCEPT !["bearer"] = c]
             fields == [ui.fields EXCEPT !["bearer"] = c]
             resp == [ui.resp EXCEPT ![e] = "used"]
  <2>1. auth \in Auths /\ fields \in Auths
    BY <1>b DEF Auths, Docs!usedSchemes
  <2>2. resp \in [Ends -> {"none", "plain", "token", "used"}]
    BY <1>b, <1>10
  <2>3. ui' = [[ui EXCEPT !.auth = auth, !.badge = Docs!hasAuth(auth), !.lines = Lines(auth)]
               EXCEPT !.fields["bearer"] = c, !.resp[e] = "used"]
    BY <1>a, <1>10 DEF Docs!UseToken
  <2> HIDE DEF auth
  <2>4. ui' = [ui EXCEPT !.auth = auth, !.badge = Docs!hasAuth(auth), !.lines = Lines(auth),
                         !.fields = fields, !.modal = ui.modal, !.marks = ui.marks, !.resp = resp]
    BY <1>b, <2>3
  <2> HIDE DEF fields, resp
  <2> QED BY <1>b, <1>1, <2>1, <2>2, <2>4
<1> QED
  BY <1>0, <1>3, <1>4, <1>5, <1>6, <1>7, <1>8, <1>9, <1>10 DEF Docs!Next, Ends, Tokens

LEMMA DocsStep ==
  ASSUME DocsInv, Docs!Next
  PROVE  DocsInv'
BY DocsListStep, DocsTryStep DEF DocsInv
-----------------------------------------------------------------------------
(* The dashboard                                                               *)

DashFields == {"page", "sites", "member", "status", "invites", "loadingId", "out", "declined", "crossed", "odd"}

InviteStatus == {"pending", "accepted", "declined", "revoked"}

Calls(i) == {r \in ui.out : r.id = i}

(* The list agrees with the server about an invitation, or will.               *)
Agrees(i) ==
  \/ ui.invites.asked
  \/ /\ \A d \in ui.invites.snap : i \in d <=> ui.status[i] = "pending"
     /\ ui.invites.snap = {} => (i \in ui.invites.data <=> ui.status[i] = "pending")

(* An invitation that is not odd has one answer under way at most, and its     *)
(* row at the server is where that answer has brought it.                      *)
Straight(i) ==
  /\ \A r, s \in Calls(i) : r = s
  /\ \A r \in Calls(i) :
       /\ r.at \in {"join", "mark"} => ui.status[i] = "pending" /\ r.op = "accept"
       /\ r.at = "ok" => ui.status[i] = IF r.op = "decline" THEN "declined" ELSE "accepted"
  /\ i \in ui.member => ui.status[i] = "accepted" \/ \E r \in Calls(i) : r.at = "mark"
  /\ i \in ui.declined => ui.status[i] = "declined"
  /\ (\A r \in Calls(i) : r.at # "ok") => Agrees(i)

DashTypes ==
  /\ DOMAIN ui = DashFields /\ ui.page = "dashboard"
  /\ ui.sites \in {"asked", "none", "some", "shown"} /\ ui.member \subseteq People
  /\ ui.status \in [People -> InviteStatus]
  /\ ui.invites \in Web!Entries(SUBSET People) /\ ui.loadingId \in People \union {None}
  /\ ui.out \subseteq Arrival!Call /\ IsFiniteSet(ui.out) /\ Cardinality(ui.out) <= Few
  /\ ui.declined \subseteq People /\ ui.crossed \in BOOLEAN /\ ui.odd \subseteq People

(* The flag tells of the one answer under way until another row is clicked.    *)
DashFlag ==
  ~ui.crossed => /\ ui.loadingId = None => ui.out = {}
                 /\ \A r \in ui.out : r.id = ui.loadingId
                 /\ \A r, s \in ui.out : r = s

DashInv == DashTypes /\ DashFlag /\ \A i \in People \ ui.odd : Straight(i)

CreateInv ==
  /\ DOMAIN ui = {"page", "name", "creating", "leaving", "out"} /\ ui.page = "create"
  /\ ui.name \in Texts \union {Blank} /\ ui.creating \in BOOLEAN /\ ui.leaving \in BOOLEAN
  /\ ui.out \subseteq Texts \union {Blank} /\ Blank \notin ui.out
  /\ \A s, t \in ui.out : s = t
  /\ ~ui.creating => ui.out = {}

ArrivalInv == DashInv \/ CreateInv \/ ui = [page |-> "left"]

LEMMA ArrivalHolds ==
  ASSUME ArrivalInv
  PROVE  Arrival!TypeOK /\ Arrival!AnswersTruthful /\ Arrival!InvitesSettle /\ Arrival!CreatesNamed
<1>0. /\ \A S : Arrival!Cardinality(S) = Cardinality(S)
      /\ \A S : Arrival!Entries(S) = Web!Entries(S)
  BY DEF Arrival!Cardinality, Cardinality, Arrival!Entries, Web!Entries
<1>1. CASE DashInv
  <2>0. ui.page = "dashboard"
    BY <1>1 DEF DashInv, DashTypes
  <2>1. Arrival!TypeOK
    BY <1>0, <1>1 DEF DashInv, DashTypes, InviteStatus, Arrival!TypeOK
  <2>2. Arrival!AnswersTruthful
    <3>1. ASSUME NEW i \in ui.declined \ ui.odd PROVE i \notin ui.member
      <4>1. Straight(i)
        BY <1>1 DEF DashInv, DashTypes
      <4> QED BY <4>1 DEF Straight
    <3> QED BY <1>1, <3>1 DEF DashInv, DashFlag, Arrival!AnswersTruthful
  <2>3. Arrival!InvitesSettle
    <3> SUFFICES ASSUME ui.out = {}, Arrival!Resting(ui.invites)
                 PROVE  ui.invites.data \ ui.odd = Arrival!MyInvites \ ui.odd
      BY DEF Arrival!InvitesSettle
    <3>1. ~ui.invites.asked /\ ui.invites.snap = {}
      BY DEF Arrival!Resting
    <3>2. ASSUME NEW i \in People \ ui.odd PROVE i \in ui.invites.data <=> ui.status[i] = "pending"
      BY <1>1, <3>1 DEF DashInv, Straight, Agrees, Calls
    <3>3. ui.invites.data \subseteq People
      BY <1>1 DEF DashInv, DashTypes, Web!Entries
    <3> QED BY <3>2, <3>3 DEF Arrival!MyInvites
  <2> QED BY <2>0, <2>1, <2>2, <2>3 DEF Arrival!CreatesNamed
<1>2. CASE CreateInv
  <2>1. Cardinality(ui.out) <= 1
    <3>1. CASE ui.out = {}
      BY <3>1, FS_EmptySet
    <3>2. CASE ui.out # {}
      <4>1. PICK t \in ui.out : TRUE
        BY <3>2
      <4>2. ui.out = {t}
        BY <1>2, <4>1 DEF CreateInv
      <4>3. IsFiniteSet(ui.out) /\ Cardinality(ui.out) = 1
        BY <4>2, FS_Singleton, Zenon
      <4> QED BY <4>3
    <3> QED BY <3>1, <3>2
  <2> QED BY <1>0, <1>2, <2>1
          DEF CreateInv, Arrival!TypeOK, Arrival!AnswersTruthful, Arrival!InvitesSettle,
              Arrival!CreatesNamed, Arrival!OnDashboard
<1>3. CASE ui = [page |-> "left"]
  BY <1>3 DEF Arrival!TypeOK, Arrival!AnswersTruthful, Arrival!InvitesSettle,
              Arrival!CreatesNamed, Arrival!OnDashboard
<1> QED BY <1>1, <1>2, <1>3 DEF ArrivalInv

LEMMA CreateStarts ==
  ASSUME ui' = Arrival!SiteCreate
  PROVE  ArrivalInv'
BY DEF Arrival!SiteCreate, ArrivalInv, CreateInv

LEMMA ArrivalMounts ==
  ASSUME ui' \in Arrival!Mounts
  PROVE  ArrivalInv'
<1>1. CASE ui' = Arrival!SiteCreate
  BY <1>1, CreateStarts
<1>2. ASSUME NEW l \in {"asked", "shown"}, NEW e, e = Arrival!mutate(Arrival!Cached({})),
             ui' = [page |-> "dashboard", sites |-> l, member |-> {}, status |-> [i \in People |-> "pending"],
                    invites |-> e, loadingId |-> None, out |-> {}, declined |-> {},
                    crossed |-> FALSE, odd |-> {}]
      PROVE  ArrivalInv'
  <2>1. Arrival!Cached({}) = Web!Cached({}) /\ \A s : Arrival!mutate(s) = Web!mutate(s)
    BY DEF Arrival!Cached, Web!Cached, Arrival!mutate, Web!mutate
  <2>2. e \in Web!Entries(SUBSET People)
    <3>1. Web!Cached({}) \in Web!Entries(SUBSET People)
      BY CachedFresh
    <3> QED BY <1>2, <2>1, <3>1, MutateFresh
  <2>3. e.asked = TRUE
    BY <1>2 DEF Arrival!mutate, Arrival!Cached
  <2>4. DashTypes'
    BY <1>2, <2>2, FS_EmptySet, ConsoleAssumption DEF DashTypes, DashFields, InviteStatus
  <2>5. DashFlag' /\ \A i \in People \ ui'.odd : Straight(i)'
    BY <1>2, <2>3 DEF DashFlag, Straight, Agrees, Calls
  <2> QED BY <2>4, <2>5 DEF ArrivalInv, DashInv
<1> QED BY <1>1, <1>2 DEF Arrival!Mounts

(* A step that leaves the answers to an invitation and its row alone, and its  *)
(* list unless it is asked for again, keeps it straight.                       *)
LEMMA Untouched ==
  ASSUME NEW i, Straight(i), Calls(i)' = Calls(i), ui'.status[i] = ui.status[i],
         i \in ui'.member <=> i \in ui.member, i \in ui'.declined <=> i \in ui.declined,
         ui'.invites = ui.invites \/ ui'.invites.asked
  PROVE  Straight(i)'
BY DEF Straight, Agrees

(* The number of an answer that is sent is one no other answer has.            *)
LEMMA SentIsCall ==
  ASSUME DashTypes, NEW i \in People, NEW op \in {"accept", "decline"}, Cardinality(ui.out) < Few
  PROVE  Arrival!Sent(i, op) \in Arrival!Call
<1> DEFINE used == {r.n : r \in ui.out}
           f == [r \in ui.out |-> r.n]
           n == CHOOSE k \in 1..Few : \A r \in ui.out : r.n # k
<1>1. Few \in Nat /\ Cardinality(ui.out) \in Nat
  BY ConsoleAssumption, FS_CardinalityType DEF DashTypes
<1>2. f \in Surjection(ui.out, used)
  BY DEF Surjection
<1>3. IsFiniteSet(used) /\ Cardinality(used) <= Cardinality(ui.out)
  BY <1>2, FS_Surjection DEF DashTypes
<1>4. IsFiniteSet(1..Few) /\ Cardinality(1..Few) = Few
  BY <1>1, FS_Interval
<1>5. \E k \in 1..Few : k \notin used
  <2> SUFFICES ASSUME 1..Few \subseteq used PROVE FALSE
    OBVIOUS
  <2>1. Cardinality(1..Few) <= Cardinality(used)
    BY <1>3, FS_Subset
  <2>2. Cardinality(used) \in Nat
    BY <1>3, FS_CardinalityType
  <2> QED BY <1>1, <1>3, <1>4, <2>1, <2>2
<1>6. n \in 1..Few
  BY <1>5
<1>7. Arrival!Sent(i, op) = [id |-> i, op |-> op, at |-> "sent", n |-> n]
  BY DEF Arrival!Sent
<1> HIDE DEF n
<1> QED BY <1>6, <1>7 DEF Arrival!Call

(* One answer goes a step further.                                             *)
LEMMA AtMoves ==
  ASSUME DashTypes, NEW r \in ui.out, NEW pc \in {"sent", "join", "mark", "ok", "no"}, NEW q,
         q = [r EXCEPT !.at = pc]
  PROVE  /\ q \in Arrival!Call /\ q.id = r.id /\ q.op = r.op /\ q.at = pc
         /\ Arrival!At(r, pc) = (ui.out \ {r}) \union {q}
         /\ Arrival!At(r, pc) \subseteq Arrival!Call
         /\ IsFiniteSet(Arrival!At(r, pc)) /\ Cardinality(Arrival!At(r, pc)) <= Few
<1>1. r \in Arrival!Call
  BY DEF DashTypes
<1>2. q \in Arrival!Call /\ q.id = r.id /\ q.op = r.op /\ q.at = pc
  BY <1>1 DEF Arrival!Call
<1>3. Arrival!At(r, pc) = (ui.out \ {r}) \union {q}
  BY DEF Arrival!At
<1>4. IsFiniteSet(ui.out \ {r}) /\ Cardinality(ui.out \ {r}) = Cardinality(ui.out) - 1
  BY FS_RemoveElement DEF DashTypes
<1>5. /\ IsFiniteSet((ui.out \ {r}) \union {q})
      /\ Cardinality((ui.out \ {r}) \union {q}) \in {Cardinality(ui.out \ {r}), Cardinality(ui.out \ {r}) + 1}
  BY <1>4, FS_AddElement
<1>6. Cardinality(ui.out) \in Nat /\ Few \in Nat
  BY FS_CardinalityType, ConsoleAssumption DEF DashTypes
<1>7. Cardinality((ui.out \ {r}) \union {q}) <= Few
  BY <1>4, <1>5, <1>6 DEF DashTypes
<1> QED BY <1>2, <1>3, <1>5, <1>7 DEF DashTypes

(* Writing one entry of a function keeps its type.                             *)
LEMMA OneEntrySet ==
  ASSUME NEW S, NEW T, NEW f \in [S -> T], NEW x, NEW v \in T
  PROVE  [f EXCEPT ![x] = v] \in [S -> T]
OBVIOUS

(* The server goes on with one answer: what it does to the row of the          *)
(* invitation and to the members has to fit where the answer gets to, unless   *)
(* the invitation becomes odd.                                                 *)
LEMMA CallGoes ==
  ASSUME DashInv, NEW r \in ui.out, NEW pc \in {"sent", "join", "mark", "ok", "no"},
         NEW st \in InviteStatus, NEW M \in SUBSET People, NEW O \in SUBSET People,
         DOMAIN ui' = DashFields, ui'.page = ui.page, ui'.sites = ui.sites, ui'.invites = ui.invites,
         ui'.loadingId = ui.loadingId, ui'.declined = ui.declined, ui'.crossed = ui.crossed,
         ui'.out = Arrival!At(r, pc), ui'.status = [ui.status EXCEPT ![r.id] = st],
         ui'.member = M, ui'.odd = O,
         M \ {r.id} = ui.member \ {r.id}, ui.odd \subseteq O,
         r.id \in O \/ /\ pc \in {"join", "mark"} => st = "pending" /\ r.op = "accept"
                       /\ pc = "ok" => st = IF r.op = "decline" THEN "declined" ELSE "accepted"
                       /\ pc # "ok" => r.at # "ok" /\ st = ui.status[r.id]
                       /\ r.id \in M => st = "accepted" \/ pc = "mark"
                       /\ r.id \in ui.declined => st = "declined"
  PROVE  DashInv'
<1> DEFINE q == [r EXCEPT !.at = pc]
<1>1. /\ q \in Arrival!Call /\ q.id = r.id /\ q.op = r.op /\ q.at = pc
      /\ ui'.out = (ui.out \ {r}) \union {q}
      /\ ui'.out \subseteq Arrival!Call /\ IsFiniteSet(ui'.out) /\ Cardinality(ui'.out) <= Few
  BY AtMoves DEF DashInv
<1> HIDE DEF q
<1>2. r.id \in People
  BY DEF DashInv, DashTypes, Arrival!Call
<1>3. DashTypes'
  <2>1. /\ ui.sites \in {"asked", "none", "some", "shown"}
        /\ ui.invites \in Web!Entries(SUBSET People) /\ ui.loadingId \in People \union {None}
        /\ ui.declined \subseteq People /\ ui.crossed \in BOOLEAN
        /\ ui.page = "dashboard" /\ ui.status \in [People -> InviteStatus]
    BY DEF DashInv, DashTypes
  <2>2. ui'.status \in [People -> InviteStatus]
    <3>1. [ui.status EXCEPT ![r.id] = st] \in [People -> InviteStatus]
      BY <2>1, OneEntrySet
    <3> QED BY <3>1
  <2>3. M \subseteq People /\ O \subseteq People
    OBVIOUS
  <2> QED BY <1>1, <2>1, <2>2, <2>3 DEF DashTypes
<1>4. DashFlag'
  BY <1>1 DEF DashInv, DashFlag
<1>5. /\ ui'.status \in [People -> InviteStatus] /\ ui'.status[r.id] = st
      /\ \A i \in People : i # r.id => ui'.status[i] = ui.status[i]
  BY <1>2 DEF DashInv, DashTypes
<1>6. ASSUME NEW i \in People \ O, i # r.id PROVE Straight(i)'
  <2>1. Calls(i)' = Calls(i)
    BY <1>1, <1>6 DEF Calls
  <2>2. Straight(i)
    BY <1>6 DEF DashInv
  <2> QED BY <1>5, <1>6, <2>1, <2>2, Untouched
<1>7. ASSUME r.id \notin O PROVE Straight(r.id)'
  <2> DEFINE i == r.id
  <2>1. Straight(i)
    BY <1>2, <1>7 DEF DashInv
  <2>2. Calls(i) = {r}
    BY <2>1 DEF Straight, Calls
  <2>3. Calls(i)' = {q}
    BY <1>1, <2>2 DEF Calls
  <2>4. ASSUME pc # "ok" PROVE Agrees(i)'
    <3>1. Agrees(i)
      BY <1>7, <2>1, <2>2, <2>4 DEF Straight
    <3>2. ui'.status[i] = ui.status[i]
      BY <1>5, <1>7, <2>4
    <3> QED BY <3>1, <3>2 DEF Agrees
  <2> QED BY <1>1, <1>5, <1>7, <2>3, <2>4 DEF Straight
<1>8. ASSUME NEW i \in People \ ui'.odd PROVE Straight(i)'
  BY <1>6, <1>7, <1>8
<1> QED BY <1>3, <1>4, <1>8 DEF DashInv

LEMMA AcceptMoves ==
  ASSUME DashInv, NEW r \in ui.out,
         Arrival!AcceptReads(r) \/ Arrival!AcceptJoins(r) \/ Arrival!AcceptMarks(r) \/ Arrival!Declines(r)
  PROVE  DashInv'
<1> DEFINE i == r.id
<1>1. /\ i \in People /\ r.op \in {"accept", "decline"} /\ r.at \in {"sent", "join", "mark", "ok", "no"}
      /\ DOMAIN ui = DashFields /\ ui.status \in [People -> InviteStatus] /\ ui.status[i] \in InviteStatus
      /\ ui.member \subseteq People /\ ui.odd \subseteq People
      /\ i \in ui.odd \/ Straight(i)
  BY DEF DashInv, DashTypes, Arrival!Call
<1>2. ui.status = [ui.status EXCEPT ![i] = ui.status[i]]
  BY <1>1
<1>3. r \in Calls(i)
  BY DEF Calls
<1>4. ASSUME i \notin ui.odd
      PROVE  /\ Calls(i) = {r}
             /\ r.at \in {"join", "mark"} => ui.status[i] = "pending" /\ r.op = "accept"
             /\ r.at # "mark" /\ i \in ui.member => ui.status[i] = "accepted"
             /\ i \in ui.declined => ui.status[i] = "declined"
  BY <1>1, <1>3, <1>4 DEF Straight
(* The request fails or the server refuses.                                    *)
<1>5. ASSUME ui' = [ui EXCEPT !.out = Arrival!At(r, "no")], r.at \in {"sent", "join"} PROVE DashInv'
  <2> DEFINE M == ui.member
             O == ui.odd
  <2>1. /\ DOMAIN ui' = DashFields /\ ui'.page = ui.page /\ ui'.sites = ui.sites /\ ui'.invites = ui.invites
        /\ ui'.loadingId = ui.loadingId /\ ui'.declined = ui.declined /\ ui'.crossed = ui.crossed
        /\ ui'.out = Arrival!At(r, "no") /\ ui'.status = [ui.status EXCEPT ![i] = ui.status[i]]
        /\ ui'.member = M /\ ui'.odd = O
    BY <1>1, <1>2, <1>5 DEF DashFields
  <2> QED BY <1>1, <1>4, <1>5, <2>1, CallGoes
<1>6. ASSUME ui' = [ui EXCEPT !.out = Arrival!At(r, "join")],
             r.op = "accept", r.at = "sent", ui.status[i] = "pending"
      PROVE  DashInv'
  <2>1. /\ DOMAIN ui' = DashFields /\ ui'.page = ui.page /\ ui'.sites = ui.sites /\ ui'.invites = ui.invites
        /\ ui'.loadingId = ui.loadingId /\ ui'.declined = ui.declined /\ ui'.crossed = ui.crossed
        /\ ui'.out = Arrival!At(r, "join") /\ ui'.status = [ui.status EXCEPT ![i] = ui.status[i]]
        /\ ui'.member = ui.member /\ ui'.odd = ui.odd
    BY <1>1, <1>2, <1>6 DEF DashFields
  <2> QED BY <1>1, <1>4, <1>6, <2>1, CallGoes
<1>7. ASSUME ui' = [ui EXCEPT !.out = Arrival!At(r, "mark"), !.member = @ \union {r.id}], r.at = "join"
      PROVE  DashInv'
  <2>1. /\ DOMAIN ui' = DashFields /\ ui'.page = ui.page /\ ui'.sites = ui.sites /\ ui'.invites = ui.invites
        /\ ui'.loadingId = ui.loadingId /\ ui'.declined = ui.declined /\ ui'.crossed = ui.crossed
        /\ ui'.out = Arrival!At(r, "mark") /\ ui'.status = [ui.status EXCEPT ![i] = ui.status[i]]
        /\ ui'.member = ui.member \union {i} /\ ui'.odd = ui.odd
    BY <1>1, <1>2, <1>7 DEF DashFields
  <2>2. /\ ui.member \union {i} \in SUBSET People
        /\ (ui.member \union {i}) \ {i} = ui.member \ {i}
    BY <1>1
  <2>3. i \in ui.odd \/ /\ ui.status[i] = "pending" /\ r.op = "accept"
                        /\ i \in ui.declined => ui.status[i] = "declined"
    BY <1>4, <1>7
  <2> HIDE DEF i
  <2>4. i = r.id /\ "mark" \in {"sent", "join", "mark", "ok", "no"} /\ "mark" # "ok" /\ r.at # "ok"
    BY <1>7 DEF i
  <2> QED BY <1>1, <2>1, <2>2, <2>3, <2>4, CallGoes, SMTT(30)
<1>8. ASSUME ui' = [ui EXCEPT !.out = Arrival!At(r, "ok"), !.status[r.id] = "accepted"], r.at = "mark"
      PROVE  DashInv'
  <2>1. /\ DOMAIN ui' = DashFields /\ ui'.page = ui.page /\ ui'.sites = ui.sites /\ ui'.invites = ui.invites
        /\ ui'.loadingId = ui.loadingId /\ ui'.declined = ui.declined /\ ui'.crossed = ui.crossed
        /\ ui'.out = Arrival!At(r, "ok") /\ ui'.status = [ui.status EXCEPT ![i] = "accepted"]
        /\ ui'.member = ui.member /\ ui'.odd = ui.odd
    BY <1>1, <1>8 DEF DashFields
  <2>2. "accepted" \in InviteStatus
    BY DEF InviteStatus
  <2> QED BY <1>1, <1>4, <1>8, <2>1, <2>2, CallGoes
<1>9. ASSUME ui' = [ui EXCEPT !.out = Arrival!At(r, "no"), !.odd = @ \union {r.id}], r.at = "mark"
      PROVE  DashInv'
  <2>1. /\ DOMAIN ui' = DashFields /\ ui'.page = ui.page /\ ui'.sites = ui.sites /\ ui'.invites = ui.invites
        /\ ui'.loadingId = ui.loadingId /\ ui'.declined = ui.declined /\ ui'.crossed = ui.crossed
        /\ ui'.out = Arrival!At(r, "no") /\ ui'.status = [ui.status EXCEPT ![i] = ui.status[i]]
        /\ ui'.member = ui.member /\ ui'.odd = ui.odd \union {i}
    BY <1>1, <1>2, <1>9 DEF DashFields
  <2>2. ui.odd \union {i} \in SUBSET People
    BY <1>1
  <2> QED BY <1>1, <2>1, <2>2, CallGoes
<1>10. ASSUME ui' = [ui EXCEPT !.out = Arrival!At(r, "ok"), !.status[r.id] = "declined"],
              r.op = "decline", r.at = "sent", ui.status[i] = "pending"
       PROVE  DashInv'
  <2>1. /\ DOMAIN ui' = DashFields /\ ui'.page = ui.page /\ ui'.sites = ui.sites /\ ui'.invites = ui.invites
        /\ ui'.loadingId = ui.loadingId /\ ui'.declined = ui.declined /\ ui'.crossed = ui.crossed
        /\ ui'.out = Arrival!At(r, "ok") /\ ui'.status = [ui.status EXCEPT ![i] = "declined"]
        /\ ui'.member = ui.member /\ ui'.odd = ui.odd
    BY <1>1, <1>10 DEF DashFields
  <2>2. "declined" \in InviteStatus
    BY DEF InviteStatus
  <2> QED BY <1>1, <1>4, <1>10, <2>1, <2>2, CallGoes
<1>11. CASE Arrival!AcceptReads(r)
  BY <1>5, <1>6, <1>11 DEF Arrival!AcceptReads, Arrival!MyInvites
<1>12. CASE Arrival!AcceptJoins(r)
  BY <1>5, <1>7, <1>12 DEF Arrival!AcceptJoins
<1>13. CASE Arrival!AcceptMarks(r)
  BY <1>8, <1>9, <1>13 DEF Arrival!AcceptMarks
<1>14. CASE Arrival!Declines(r)
  BY <1>5, <1>10, <1>14 DEF Arrival!Declines
<1> QED BY <1>11, <1>12, <1>13, <1>14

LEMMA AnsweredMoves ==
  ASSUME DashInv, NEW r \in ui.out, Arrival!Answered(r)
  PROVE  DashInv'
<1>1. /\ r.id \in People /\ ui.out \ {r} \subseteq Arrival!Call
      /\ IsFiniteSet(ui.out \ {r}) /\ Cardinality(ui.out \ {r}) <= Few
      /\ DOMAIN ui = DashFields /\ ui.invites \in Web!Entries(SUBSET People)
      /\ ui.declined \subseteq People /\ ui.odd \subseteq People
  BY OneLess, ConsoleAssumption DEF DashInv, DashTypes, Arrival!Call
<1>2. \A s : Arrival!mutate(s) = Web!mutate(s)
  BY DEF Arrival!mutate, Web!mutate
<1>3. /\ Web!mutate(ui.invites) \in Web!Entries(SUBSET People)
      /\ Web!mutate(ui.invites).asked = TRUE
  BY <1>1, MutateFresh DEF Web!mutate, Web!Entries
<1>4. ASSUME ui'.out = ui.out \ {r}, ui'.loadingId = None, ui'.crossed = ui.crossed PROVE DashFlag'
  BY <1>4 DEF DashInv, DashFlag
<1>5. ASSUME NEW i \in People \ ui.odd, i # r.id, ui'.out = ui.out \ {r} PROVE Calls(i)' = Calls(i)
  BY <1>5 DEF Calls
<1>6. ASSUME r.id \notin ui.odd
      PROVE  Straight(r.id) /\ Calls(r.id) = {r} /\ (ui'.out = ui.out \ {r} => Calls(r.id)' = {})
  BY <1>1, <1>6 DEF DashInv, Straight, Calls
<1>7. CASE r.at = "ok" /\ ui' = [ui EXCEPT !.out = @ \ {r}, !.loadingId = None,
                                           !.declined = Arrival!Told(r), !.invites = Arrival!mutate(@)]
  <2>1. /\ DOMAIN ui' = DashFields /\ ui'.page = ui.page /\ ui'.sites = ui.sites
        /\ ui'.invites = Web!mutate(ui.invites) /\ ui'.loadingId = None /\ ui'.crossed = ui.crossed
        /\ ui'.declined = Arrival!Told(r) /\ ui'.out = ui.out \ {r} /\ ui'.status = ui.status
        /\ ui'.member = ui.member /\ ui'.odd = ui.odd
    BY <1>1, <1>2, <1>7 DEF DashFields
  <2>2. /\ Arrival!Told(r) \subseteq People
        /\ \A i : i \in Arrival!Told(r) <=> i \in ui.declined \/ (i = r.id /\ r.op = "decline")
    BY <1>1 DEF Arrival!Told
  <2>3. DashTypes'
    BY <1>1, <1>3, <2>1, <2>2 DEF DashInv, DashTypes
  <2>4. ASSUME NEW i \in People \ ui.odd PROVE Straight(i)'
    <3>1. CASE i # r.id
      BY <1>3, <1>5, <2>1, <2>2, <3>1, Untouched DEF DashInv
    <3>2. CASE i = r.id
      <4>1. /\ Straight(i) /\ Calls(i) = {r} /\ Calls(i)' = {}
        BY <1>6, <2>1, <2>4, <3>2
      <4> QED BY <1>3, <1>7, <2>1, <2>2, <3>2, <4>1 DEF Straight, Agrees
    <3> QED BY <3>1, <3>2
  <2> QED BY <1>4, <2>1, <2>3, <2>4 DEF DashInv
<1>8. CASE ui' = [ui EXCEPT !.out = @ \ {r}, !.loadingId = None,
                            !.odd = IF ui.status[r.id] = "pending" THEN @ ELSE @ \union {r.id}]
             /\ r.at \in {"ok", "no"}
  <2>1. /\ DOMAIN ui' = DashFields /\ ui'.page = ui.page /\ ui'.sites = ui.sites
        /\ ui'.invites = ui.invites /\ ui'.loadingId = None /\ ui'.crossed = ui.crossed
        /\ ui'.declined = ui.declined /\ ui'.out = ui.out \ {r} /\ ui'.status = ui.status
        /\ ui'.member = ui.member
        /\ ui'.odd = IF ui.status[r.id] = "pending" THEN ui.odd ELSE ui.odd \union {r.id}
    BY <1>1, <1>8 DEF DashFields
  <2>2. ui'.odd \subseteq People /\ ui.odd \subseteq ui'.odd
    BY <1>1, <2>1
  <2>3. DashTypes'
    BY <1>1, <2>1, <2>2 DEF DashInv, DashTypes
  <2>4. ASSUME NEW i \in People \ ui'.odd PROVE Straight(i)'
    <3>1. CASE i # r.id
      BY <1>5, <2>1, <2>2, <2>4, <3>1, Untouched DEF DashInv
    <3>2. CASE i = r.id
      <4>1. ui.status[i] = "pending" /\ i \notin ui.odd
        BY <2>1, <2>4, <3>2
      <4>2. /\ Straight(i) /\ Calls(i) = {r} /\ Calls(i)' = {}
        BY <1>6, <2>1, <3>2, <4>1
      <4>3. r.at = "no"
        BY <1>8, <4>1, <4>2 DEF Straight
      <4>4. Agrees(i)'
        BY <2>1, <4>2, <4>3 DEF Straight, Agrees
      <4> QED BY <2>1, <4>1, <4>2, <4>3, <4>4 DEF Straight
    <3> QED BY <3>1, <3>2
  <2> QED BY <1>4, <2>1, <2>3, <2>4 DEF DashInv
<1> QED BY <1>7, <1>8 DEF Arrival!Answered

LEMMA InviteAnswered ==
  ASSUME DashInv, NEW i \in People, NEW op \in {"accept", "decline"}, Arrival!handleInvite(i, op)
  PROVE  DashInv'
<1> DEFINE q == Arrival!Sent(i, op)
<1>1. /\ DOMAIN ui = DashFields /\ Few \in Nat /\ Cardinality(ui.out) < Few /\ Cardinality(ui.out) \in Nat
      /\ ui.odd \subseteq People
  <2>1. \A S : Arrival!Cardinality(S) = Cardinality(S)
    BY DEF Arrival!Cardinality, Cardinality
  <2> QED BY <2>1, ConsoleAssumption, FS_CardinalityType DEF DashInv, DashTypes, Arrival!handleInvite
<1>2. q \in Arrival!Call
  BY <1>1, SentIsCall DEF DashInv
<1>3. q.id = i /\ q.at = "sent"
  BY DEF Arrival!Sent
<1>4. IsFiniteSet(ui.out \union {q}) /\ Cardinality(ui.out \union {q}) <= Few
  <2>1. Cardinality(ui.out \union {q}) \in {Cardinality(ui.out), Cardinality(ui.out) + 1}
    BY FS_AddElement DEF DashInv, DashTypes
  <2>2. IsFiniteSet(ui.out \union {q})
    BY FS_AddElement DEF DashInv, DashTypes
  <2> QED BY <1>1, <2>1, <2>2
<1>5. /\ DOMAIN ui' = DashFields /\ ui'.page = ui.page /\ ui'.sites = ui.sites
      /\ ui'.invites = ui.invites /\ ui'.loadingId = i /\ ui.loadingId # i
      /\ ui'.crossed = (ui.crossed \/ ui.loadingId \notin {None, i})
      /\ ui'.declined = ui.declined /\ ui'.out = ui.out \union {q} /\ ui'.status = ui.status
      /\ ui'.member = ui.member
      /\ ui'.odd = IF \E r \in ui.out : r.id = i THEN ui.odd \union {i} ELSE ui.odd
  BY <1>1 DEF DashFields, Arrival!handleInvite, Arrival!Enabled
<1> HIDE DEF q
<1>6. ui.odd \subseteq ui'.odd /\ ui'.odd \subseteq People
  BY <1>1, <1>5
<1>7. DashTypes'
  BY <1>1, <1>2, <1>4, <1>5, <1>6 DEF DashInv, DashTypes
<1>8. DashFlag'
  <2>1. CASE ui.crossed \/ ui.loadingId # None
    <3>1. ui'.crossed = TRUE
      BY <1>5, <2>1 DEF DashInv, DashTypes
    <3> QED BY <3>1 DEF DashFlag
  <2>2. CASE ~ui.crossed /\ ui.loadingId = None
    <3>1. ui.out = {} /\ None # i
      BY <1>5, <2>2 DEF DashInv, DashFlag
    <3> QED BY <1>3, <1>5, <3>1 DEF DashFlag
  <2> QED BY <2>1, <2>2
<1>9. ASSUME NEW j \in People \ ui'.odd PROVE Straight(j)'
  <2>1. CASE j # i
    <3>1. Calls(j)' = Calls(j)
      BY <1>3, <1>5, <2>1 DEF Calls
    <3> QED BY <1>5, <1>6, <1>9, <3>1, Untouched DEF DashInv
  <2>2. CASE j = i
    <3>1. Straight(j) /\ Calls(j) = {} /\ Calls(j)' = {q}
      BY <1>3, <1>5, <1>6, <1>9, <2>2 DEF DashInv, Calls
    <3>2. Agrees(j)'
      BY <1>5, <3>1 DEF Straight, Agrees
    <3> QED BY <1>3, <1>5, <3>1, <3>2 DEF Straight
  <2> QED BY <2>1, <2>2
<1> QED BY <1>7, <1>8, <1>9 DEF DashInv

LEMMA ListsMove ==
  ASSUME DashInv,
         \/ Arrival!SitesRead \/ Arrival!SitesArrive \/ Arrival!InvitesRead \/ Arrival!InvitesArrive
         \/ Arrival!Focus \/ \E i \in People : Arrival!RevokeInvite(i)
  PROVE  ArrivalInv'
<1>1. /\ DOMAIN ui = DashFields /\ ui.invites \in Web!Entries(SUBSET People)
      /\ ui.status \in [People -> InviteStatus] /\ ui.odd \subseteq People
  BY DEF DashInv, DashTypes
<1>2. ASSUME NEW l \in {"asked", "none", "some", "shown"}, ui' = [ui EXCEPT !.sites = l] PROVE DashInv'
  <2>1. /\ DOMAIN ui' = DashFields /\ ui'.page = ui.page /\ ui'.sites = l
        /\ ui'.invites = ui.invites /\ ui'.loadingId = ui.loadingId /\ ui'.crossed = ui.crossed
        /\ ui'.declined = ui.declined /\ ui'.out = ui.out /\ ui'.status = ui.status
        /\ ui'.member = ui.member /\ ui'.odd = ui.odd
    BY <1>1, <1>2 DEF DashFields
  <2>2. ASSUME NEW i \in People \ ui'.odd PROVE Straight(i)'
    BY <2>1, <2>2 DEF DashInv, Straight, Agrees, Calls
  <2> QED BY <2>1, <2>2 DEF DashInv, DashTypes, DashFlag
(* The list changes, and agrees about every invitation it agreed about.        *)
<1>3. ASSUME NEW e \in Web!Entries(SUBSET People), ui' = [ui EXCEPT !.invites = e],
             \A i \in People : Agrees(i) => Agrees(i)'
      PROVE  DashInv'
  <2>1. /\ DOMAIN ui' = DashFields /\ ui'.page = ui.page /\ ui'.sites = ui.sites
        /\ ui'.invites = e /\ ui'.loadingId = ui.loadingId /\ ui'.crossed = ui.crossed
        /\ ui'.declined = ui.declined /\ ui'.out = ui.out /\ ui'.status = ui.status
        /\ ui'.member = ui.member /\ ui'.odd = ui.odd
    BY <1>1, <1>3 DEF DashFields
  <2>2. ASSUME NEW i \in People \ ui'.odd PROVE Straight(i)'
    BY <1>3, <2>1, <2>2 DEF DashInv, Straight, Calls
  <2> QED BY <2>1, <2>2 DEF DashInv, DashTypes, DashFlag
<1>4. CASE Arrival!SitesRead
  BY <1>2, <1>4 DEF Arrival!SitesRead, ArrivalInv
<1>5. CASE Arrival!SitesArrive
  BY <1>2, <1>5, CreateStarts DEF Arrival!SitesArrive, ArrivalInv
<1>6. CASE Arrival!InvitesRead
  <2> DEFINE e == Web!Reads(ui.invites, Arrival!MyInvites)
  <2>1. ui' = [ui EXCEPT !.invites = e]
    BY <1>6 DEF Arrival!InvitesRead, Arrival!Reads, Web!Reads
  <2>2. Arrival!MyInvites \in SUBSET People
    BY DEF Arrival!MyInvites
  <2>3. e \in Web!Entries(SUBSET People) /\ e.snap = {Arrival!MyInvites}
    BY <1>1, <2>2, ReadsFresh DEF Web!Reads, Web!Entries
  <2> HIDE DEF e
  <2>4. ui'.invites = e /\ ui'.status = ui.status
    BY <1>1, <2>1 DEF DashFields
  <2>5. \A i \in People : Agrees(i)'
    BY <2>3, <2>4 DEF Agrees, Arrival!MyInvites
  <2> QED BY <1>3, <2>1, <2>3, <2>5 DEF ArrivalInv
<1>7. CASE Arrival!InvitesArrive
  <2> DEFINE e == Web!Arrives(ui.invites)
  <2>1. ui' = [ui EXCEPT !.invites = e] /\ ui.invites.snap # {}
    BY <1>7 DEF Arrival!InvitesArrive, Arrival!Arrives, Web!Arrives
  <2>2. e \in Web!Entries(SUBSET People) /\ e.data \in ui.invites.snap
    BY <1>1, <2>1, ArrivesFresh
  <2>3. e.snap = {} /\ e.asked = ui.invites.asked
    BY <1>1 DEF Web!Arrives, Web!Entries
  <2> HIDE DEF e
  <2>4. ui'.invites = e /\ ui'.status = ui.status
    BY <1>1, <2>1 DEF DashFields
  <2>5. ASSUME NEW i \in People, Agrees(i) PROVE Agrees(i)'
    BY <2>2, <2>3, <2>4, <2>5 DEF Agrees
  <2> QED BY <1>3, <2>1, <2>2, <2>5 DEF ArrivalInv
<1>8. CASE Arrival!Focus
  <2> DEFINE e == Web!mutate(ui.invites)
  <2>1. ui' = [ui EXCEPT !.invites = e]
    BY <1>8 DEF Arrival!Focus, Arrival!mutate, Web!mutate
  <2>2. e \in Web!Entries(SUBSET People) /\ e.asked = TRUE
    BY <1>1, MutateFresh DEF Web!mutate, Web!Entries
  <2> HIDE DEF e
  <2>3. ui'.invites = e
    BY <1>1, <2>1 DEF DashFields
  <2>4. \A i \in People : Agrees(i)'
    BY <2>2, <2>3 DEF Agrees
  <2> QED BY <1>3, <2>1, <2>2, <2>4 DEF ArrivalInv
<1>9. ASSUME NEW i \in People, Arrival!RevokeInvite(i) PROVE DashInv'
  <2>1. /\ DOMAIN ui' = DashFields /\ ui'.page = ui.page /\ ui'.sites = ui.sites
        /\ ui'.invites = ui.invites /\ ui'.loadingId = ui.loadingId /\ ui'.crossed = ui.crossed
        /\ ui'.declined = ui.declined /\ ui'.out = ui.out
        /\ ui'.status = [ui.status EXCEPT ![i] = "revoked"]
        /\ ui'.member = ui.member /\ ui'.odd = ui.odd \union {i}
    BY <1>1, <1>9 DEF DashFields, Arrival!RevokeInvite
  <2>2. /\ ui'.status \in [People -> InviteStatus]
        /\ \A j \in People : j # i => ui'.status[j] = ui.status[j]
    BY <1>1, <2>1 DEF InviteStatus
  <2>3. ASSUME NEW j \in People \ ui'.odd PROVE Straight(j)'
    <3>1. j # i /\ j \notin ui.odd /\ Calls(j)' = Calls(j)
      BY <2>1, <2>3 DEF Calls
    <3> QED BY <2>1, <2>2, <3>1, Untouched DEF DashInv
  <2> QED BY <1>1, <2>1, <2>2, <2>3 DEF DashInv, DashTypes, DashFlag
<1> QED BY <1>4, <1>5, <1>6, <1>7, <1>8, <1>9 DEF ArrivalInv

LEMMA CreateMoves ==
  ASSUME CreateInv,
         \/ Arrival!handleCreate \/ \E t \in Texts \union {Blank} : Arrival!setName(t)
         \/ \E t \in ui.out : Arrival!Created(t)
         \/ Arrival!NavigationEnds
  PROVE  ArrivalInv'
<1>1. CASE Arrival!handleCreate
  BY <1>1 DEF CreateInv, ArrivalInv, Arrival!handleCreate, Arrival!canCreate
<1>2. ASSUME NEW t \in Texts \union {Blank}, Arrival!setName(t) PROVE ArrivalInv'
  BY <1>2 DEF CreateInv, ArrivalInv, Arrival!setName
<1>3. ASSUME NEW t \in ui.out, Arrival!Created(t) PROVE ArrivalInv'
  <2>1. PICK ok \in BOOLEAN : ui' = [ui EXCEPT !.creating = FALSE, !.out = {}, !.leaving = @ \/ ok]
    <3>1. ui.out \ {t} = {}
      BY DEF CreateInv
    <3> QED BY <1>3, <3>1 DEF Arrival!Created
  <2>2. PICK b \in BOOLEAN : ui' = [ui EXCEPT !.creating = FALSE, !.out = {}, !.leaving = b]
    BY <2>1
  <2>3. CreateInv'
    BY <2>2 DEF CreateInv
  <2> QED BY <2>3, Zenon DEF ArrivalInv
<1>4. CASE Arrival!NavigationEnds
  BY <1>4, Zenon DEF ArrivalInv, Arrival!NavigationEnds
<1> QED BY <1>1, <1>2, <1>3, <1>4

LEMMA ArrivalStep ==
  ASSUME ArrivalInv, Arrival!Next
  PROVE  ArrivalInv'
<1>1. CASE DashInv
  <2>1. ui.page = "dashboard"
    BY <1>1 DEF DashInv, DashTypes
  <2>2. ~Arrival!handleCreate /\ ~Arrival!NavigationEnds /\ \A t : ~Arrival!setName(t)
    BY <2>1 DEF Arrival!handleCreate, Arrival!NavigationEnds, Arrival!setName
  <2> QED BY <1>1, <2>1, <2>2, ListsMove, InviteAnswered, AcceptMoves, AnsweredMoves
          DEF Arrival!Next, ArrivalInv
<1>2. CASE ui.page # "dashboard"
  <2>1. /\ ~Arrival!SitesRead /\ ~Arrival!SitesArrive /\ ~Arrival!InvitesRead /\ ~Arrival!InvitesArrive
        /\ ~Arrival!Focus /\ ~Arrival!OnDashboard
        /\ \A i : ~Arrival!RevokeInvite(i) /\ \A op : ~Arrival!handleInvite(i, op)
    BY <1>2 DEF Arrival!SitesRead, Arrival!SitesArrive, Arrival!InvitesRead, Arrival!InvitesArrive,
                Arrival!Focus, Arrival!OnDashboard, Arrival!RevokeInvite, Arrival!handleInvite
  <2>2. CASE CreateInv
    BY <2>1, <2>2, CreateMoves DEF Arrival!Next
  <2>3. CASE ui = [page |-> "left"]
    BY <2>1, <2>3 DEF Arrival!Next, Arrival!handleCreate, Arrival!NavigationEnds, Arrival!setName
  <2> QED BY <1>1, <2>2, <2>3 DEF ArrivalInv
<1> QED BY <1>1, <1>2 DEF ArrivalInv, CreateInv
-----------------------------------------------------------------------------
(* The console                                                                 *)

(* The invariant of the console: that of the page that is open.                *)
ConsoleInv ==
  /\ route \in Routes \union {"home"}
  /\ route = "home" => ui = NoPage
  /\ route = "commands" => CommandsInv
  /\ route = "charger" => ChargerInv
  /\ route = "newCharger" => NewChargerInv
  /\ route = "reservations" => ReserveInv
  /\ route = "chargerSettings" => ConfInv
  /\ route = "floors" => FloorsInv
  /\ route = "rooms" => RoomInv
  /\ route = "device" => DeviceInv
  /\ route = "newDevice" => NewDeviceInv
  /\ route = "siteSettings" => SiteInv
  /\ route = "integrations" => ServicesInv
  /\ route = "chat" => ChatInv
  /\ route = "dashboard" => ArrivalInv
  /\ route = "docs" => DocsInv

(* A page that is open is not the empty one.                                   *)
LEMMA PageIsOpen ==
  ASSUME ConsoleInv
  PROVE  route = "home" <=> ui = NoPage
<1> SUFFICES ASSUME route # "home" PROVE ui # NoPage
  BY DEF ConsoleInv
<1>1. DOMAIN NoPage = {"page"} /\ NoPage.page = "none"
  BY DEF NoPage
<1>2. CASE CommandsInv
  <2>1. "form" \in DOMAIN ui
    BY <1>2 DEF CommandsInv, CommandsFields
  <2> QED BY <1>1, <2>1
<1>3. CASE ChargerInv
  <2>1. "srv" \in DOMAIN ui
    BY <1>3 DEF ChargerInv
  <2> QED BY <1>1, <2>1
<1>4. CASE NewChargerInv
  <2>1. "step" \in DOMAIN ui
    BY <1>4 DEF NewChargerInv
  <2> QED BY <1>1, <2>1
<1>5. CASE ReserveInv
  <2>1. "srv" \in DOMAIN ui
    BY <1>5 DEF ReserveInv, ReserveTypes
  <2> QED BY <1>1, <2>1
<1>6. CASE ConfInv
  <2>1. "sec" \in DOMAIN ui
    BY <1>6 DEF ConfInv, ConfTypes
  <2> QED BY <1>1, <2>1
<1>7. CASE FloorsInv
  <2>1. "srv" \in DOMAIN ui
    BY <1>7 DEF FloorsInv, FloorsGood, FloorsIs
  <2> QED BY <1>1, <2>1
<1>8. CASE RoomInv
  <2>1. "sec" \in DOMAIN ui
    BY <1>8 DEF RoomInv, RoomTypes
  <2> QED BY <1>1, <2>1
<1>9. CASE DeviceInv
  <2>1. "sec" \in DOMAIN ui
    BY <1>9 DEF DeviceInv, DeviceTypes
  <2> QED BY <1>1, <2>1
<1>10. CASE NewDeviceInv
  <2>1. "step" \in DOMAIN ui
    BY <1>10 DEF NewDeviceInv
  <2> QED BY <1>1, <2>1
<1>11. CASE SiteInv
  <2>1. "sec" \in DOMAIN ui
    BY <1>11 DEF SiteInv, SiteTypes
  <2> QED BY <1>1, <2>1
<1>12. CASE ServicesInv
  <2>1. "made" \in DOMAIN ui
    BY <1>12 DEF ServicesInv, ServicesTypes
  <2> QED BY <1>1, <2>1
<1>13. CASE ChatInv
  <2>1. "rows" \in DOMAIN ui
    BY <1>13 DEF ChatInv, ChatTypes
  <2> QED BY <1>1, <2>1
<1>14. CASE ArrivalInv
  BY <1>1, <1>14 DEF ArrivalInv, DashInv, DashTypes, CreateInv
<1>15. CASE DocsInv
  <2>1. "sec" \in DOMAIN ui
    BY <1>15 DEF DocsInv, DocsList, DocsTry
  <2> QED BY <1>1, <2>1
<1> QED BY <1>2, <1>3, <1>4, <1>5, <1>6, <1>7, <1>8, <1>9, <1>10, <1>11, <1>12, <1>13, <1>14, <1>15 DEF ConsoleInv, Routes

LEMMA PageMounts ==
  ASSUME NEW r \in Routes, route' = r, ui' \in Mounts(r)
  PROVE  ConsoleInv'
<1>1. ASSUME r = "commands" PROVE ConsoleInv'
  <2>1. ui' \in Commands!Mounts
    BY <1>1 DEF Mounts
  <2> QED BY <1>1, <2>1, CommandsMounts DEF ConsoleInv, Routes
<1>2. ASSUME r = "charger" PROVE ConsoleInv'
  <2>1. ui' \in Charger!Mounts
    BY <1>2 DEF Mounts
  <2> QED BY <1>2, <2>1, ChargerMounts DEF ConsoleInv, Routes
<1>3. ASSUME r = "newCharger" PROVE ConsoleInv'
  <2>1. ui' \in NewCharger!Mounts
    BY <1>3 DEF Mounts
  <2> QED BY <1>3, <2>1, NewChargerMounts DEF ConsoleInv, Routes
<1>4. ASSUME r = "reservations" PROVE ConsoleInv'
  <2>1. ui' \in Reserve!Mounts
    BY <1>4 DEF Mounts
  <2> QED BY <1>4, <2>1, ReserveMounts DEF ConsoleInv, Routes
<1>5. ASSUME r = "chargerSettings" PROVE ConsoleInv'
  <2>1. ui' \in ChargerConf!Mounts
    BY <1>5 DEF Mounts
  <2> QED BY <1>5, <2>1, ConfMounts DEF ConsoleInv, Routes
<1>6. ASSUME r = "floors" PROVE ConsoleInv'
  <2>1. ui' \in Building!Mounts
    BY <1>6 DEF Mounts
  <2> QED BY <1>6, <2>1, FloorsMounts DEF ConsoleInv, Routes
<1>7. ASSUME r = "rooms" PROVE ConsoleInv'
  <2>1. ui' \in RoomPage!Mounts
    BY <1>7 DEF Mounts
  <2> QED BY <1>7, <2>1, RoomMounts DEF ConsoleInv, Routes
<1>8. ASSUME r = "device" PROVE ConsoleInv'
  <2>1. ui' \in Device!Mounts
    BY <1>8 DEF Mounts
  <2> QED BY <1>8, <2>1, DeviceMounts DEF ConsoleInv, Routes
<1>9. ASSUME r = "newDevice" PROVE ConsoleInv'
  <2>1. ui' \in NewDevice!Mounts
    BY <1>9 DEF Mounts
  <2> QED BY <1>9, <2>1, NewDeviceMounts DEF ConsoleInv, Routes
<1>10. ASSUME r = "siteSettings" PROVE ConsoleInv'
  <2>1. ui' \in Site!Mounts
    BY <1>10 DEF Mounts
  <2> QED BY <1>10, <2>1, SiteMounts DEF ConsoleInv, Routes
<1>11. ASSUME r = "integrations" PROVE ConsoleInv'
  <2>1. ui' \in Services!Mounts
    BY <1>11 DEF Mounts
  <2> QED BY <1>11, <2>1, ServicesMounts DEF ConsoleInv, Routes
<1>12. ASSUME r = "chat" PROVE ConsoleInv'
  <2>1. ui' \in Conversation!Mounts
    BY <1>12 DEF Mounts
  <2> QED BY <1>12, <2>1, ChatMounts DEF ConsoleInv, Routes
<1>13. ASSUME r = "dashboard" PROVE ConsoleInv'
  <2>1. ui' \in Arrival!Mounts
    BY <1>13 DEF Mounts
  <2> QED BY <1>13, <2>1, ArrivalMounts DEF ConsoleInv, Routes
<1>14. ASSUME r = "docs" PROVE ConsoleInv'
  <2>1. ui' \in Docs!Mounts
    BY <1>14 DEF Mounts
  <2> QED BY <1>14, <2>1, DocsMounts DEF ConsoleInv, Routes
<1> QED BY <1>1, <1>2, <1>3, <1>4, <1>5, <1>6, <1>7, <1>8, <1>9, <1>10, <1>11, <1>12, <1>13, <1>14 DEF Routes

LEMMA ConsoleInit == Init => ConsoleInv
BY DEF Init, ConsoleInv, Routes

LEMMA ConsoleStep ==
  ASSUME ConsoleInv, [Next]_vars
  PROVE  ConsoleInv'
<1>1. ASSUME NEW r \in Routes, Open(r) PROVE ConsoleInv'
  BY <1>1, PageMounts DEF Open
<1>2. CASE Leave
  BY <1>2 DEF ConsoleInv, Leave, Routes
<1>3. CASE UNCHANGED vars
  <2>0. ui' = ui /\ route' = route
    BY <1>3 DEF vars
  <2>1. CommandsInv => CommandsInv'
    <3>1. Commands!TypeOK => Commands!TypeOK'
      BY <2>0 DEF Commands!TypeOK
    <3>2. Commands!OneCommand => Commands!OneCommand'
      BY <2>0 DEF Commands!OneCommand
    <3>3. Commands!ConfirmedCommand => Commands!ConfirmedCommand'
      BY <2>0 DEF Commands!ConfirmedCommand, Commands!Confirmed
    <3> QED BY <2>0, <3>1, <3>2, <3>3 DEF CommandsInv
  <2>2. ChargerInv => ChargerInv'
    BY <2>0 DEF ChargerInv
  <2>3. NewChargerInv => NewChargerInv'
    BY <2>0 DEF NewChargerInv
  <2>4. ReserveInv => ReserveInv'
    BY <2>0 DEF ReserveInv, ReserveTypes, ReserveToast, ReserveFresh
  <2>5. ConfInv => ConfInv'
    BY <2>0 DEF ConfInv, ConfTypes, ConfOwn, ConfFresh
  <2>6. FloorsInv => FloorsInv'
    BY <2>0 DEF FloorsInv
  <2>7. RoomInv => RoomInv'
    BY <2>0 DEF RoomInv, RoomTypes, RoomOwn, RoomFresh
  <2>8. DeviceInv => DeviceInv'
    BY <2>0 DEF DeviceInv, DeviceTypes, DeviceWhole, DeviceFresh
  <2>9. NewDeviceInv => NewDeviceInv'
    BY <2>0 DEF NewDeviceInv
  <2>10. SiteInv => SiteInv'
    BY <2>0 DEF SiteInv, SiteTypes, SiteFresh, SiteKey
  <2>11. ServicesInv => ServicesInv'
    BY <2>0 DEF ServicesInv, ServicesTypes, ServicesOnce, ServicesSync
  <2>12. ChatInv => ChatInv'
    BY <2>0 DEF ChatInv, ChatTypes, CallsOnce, Begins, Continues, Leaves, Stored
  <2>13. ArrivalInv => ArrivalInv'
    BY <2>0 DEF ArrivalInv, DashInv, DashTypes, DashFlag, Straight, Calls, Agrees, CreateInv
  <2>14. DocsInv => DocsInv'
    BY <2>0 DEF DocsInv, DocsList, DocsTry
  <2> QED BY <2>0, <2>1, <2>2, <2>3, <2>4, <2>5, <2>6, <2>7, <2>8, <2>9, <2>10, <2>11, <2>12, <2>13, <2>14 DEF ConsoleInv, NoPage
<1>4. ASSUME On("commands"), Commands!Next PROVE ConsoleInv'
  <2>1. CommandsInv'
    BY <1>4, CommandsStep DEF ConsoleInv, On
  <2> QED BY <1>4, <2>1 DEF ConsoleInv, Routes, On
<1>5. ASSUME On("charger"), Charger!Next PROVE ConsoleInv'
  <2>1. ChargerInv'
    BY <1>5, ChargerStep DEF ConsoleInv, On
  <2> QED BY <1>5, <2>1 DEF ConsoleInv, Routes, On
<1>6. ASSUME On("newCharger"), NewCharger!Next PROVE ConsoleInv'
  <2>1. NewChargerInv'
    BY <1>6, NewChargerStep DEF ConsoleInv, On
  <2> QED BY <1>6, <2>1 DEF ConsoleInv, Routes, On
<1>7. ASSUME On("reservations"), Reserve!Next PROVE ConsoleInv'
  <2>1. ReserveInv'
    BY <1>7, ReserveStep DEF ConsoleInv, On
  <2> QED BY <1>7, <2>1 DEF ConsoleInv, Routes, On
<1>8. ASSUME On("chargerSettings"), ChargerConf!Next PROVE ConsoleInv'
  <2>1. ConfInv'
    BY <1>8, ConfStep DEF ConsoleInv, On
  <2> QED BY <1>8, <2>1 DEF ConsoleInv, Routes, On
<1>9. ASSUME On("floors"), Building!Next PROVE ConsoleInv'
  <2>1. FloorsInv'
    BY <1>9, FloorsStep DEF ConsoleInv, On
  <2> QED BY <1>9, <2>1 DEF ConsoleInv, Routes, On
<1>10. ASSUME On("rooms"), RoomPage!Next PROVE ConsoleInv'
  <2>1. RoomInv'
    BY <1>10, RoomStep DEF ConsoleInv, On
  <2> QED BY <1>10, <2>1 DEF ConsoleInv, Routes, On
<1>11. ASSUME On("device"), Device!Next PROVE ConsoleInv'
  <2>1. DeviceInv'
    BY <1>11, DeviceStep DEF ConsoleInv, On
  <2> QED BY <1>11, <2>1 DEF ConsoleInv, Routes, On
<1>12. ASSUME On("newDevice"), NewDevice!Next PROVE ConsoleInv'
  <2>1. NewDeviceInv'
    BY <1>12, NewDeviceStep DEF ConsoleInv, On
  <2> QED BY <1>12, <2>1 DEF ConsoleInv, Routes, On
<1>13. ASSUME On("siteSettings"), Site!Next PROVE ConsoleInv'
  <2>1. SiteInv'
    BY <1>13, SiteStep DEF ConsoleInv, On
  <2> QED BY <1>13, <2>1 DEF ConsoleInv, Routes, On
<1>14. ASSUME On("integrations"), Services!Next PROVE ConsoleInv'
  <2>1. ServicesInv'
    BY <1>14, ServicesStep DEF ConsoleInv, On
  <2> QED BY <1>14, <2>1 DEF ConsoleInv, Routes, On
<1>15. ASSUME On("chat"), Conversation!Next PROVE ConsoleInv'
  <2>1. ChatInv'
    BY <1>15, ChatStep DEF ConsoleInv, On
  <2> QED BY <1>15, <2>1 DEF ConsoleInv, Routes, On
<1>16. ASSUME On("dashboard"), Arrival!Next PROVE ConsoleInv'
  <2>1. ArrivalInv'
    BY <1>16, ArrivalStep DEF ConsoleInv, On
  <2> QED BY <1>16, <2>1 DEF ConsoleInv, Routes, On
<1>17. ASSUME On("docs"), Docs!Next PROVE ConsoleInv'
  <2>1. DocsInv'
    BY <1>17, DocsStep DEF ConsoleInv, On
  <2> QED BY <1>17, <2>1 DEF ConsoleInv, Routes, On
<1> QED BY <1>1, <1>2, <1>3, <1>4, <1>5, <1>6, <1>7, <1>8, <1>9, <1>10, <1>11, <1>12, <1>13, <1>14, <1>15, <1>16, <1>17 DEF Next

(* What the pages keep, keeps what the console states.                         *)
LEMMA ConsoleHolds ==
  ASSUME ConsoleInv
  PROVE  TypeOK /\ NothingTwice /\ ConfirmedCommand /\ SaysWhatHappened /\ SpinnersWait
         /\ OwnTarget /\ PagesSettle /\ SendsWhole /\ Paired /\ ShownInOrder
<1>1. TypeOK
  BY PageIsOpen, NewChargerHolds, ChargerHolds, ReserveHolds, ConfHolds, FloorsHolds, RoomHolds,
     DeviceHolds, NewDeviceHolds, SiteHolds, ServicesHolds, ChatHolds, ArrivalHolds, DocsHolds
  DEF TypeOK, ConsoleInv, CommandsInv
<1>2. NothingTwice
  BY RoomHolds, ServicesHolds DEF NothingTwice, ConsoleInv, CommandsInv
<1>3. ConfirmedCommand
  BY DEF ConfirmedCommand, ConsoleInv, CommandsInv
<1>4. SaysWhatHappened
  BY ChargerHolds, ReserveHolds, ArrivalHolds, SiteHolds, DocsHolds DEF SaysWhatHappened, ConsoleInv
<1>5. SpinnersWait
  BY ChargerHolds, ServicesHolds DEF SpinnersWait, ConsoleInv
<1>6. OwnTarget
  BY ConfHolds, RoomHolds DEF OwnTarget, ConsoleInv
<1>7. PagesSettle
  BY ReserveHolds, ConfHolds, FloorsHolds, RoomHolds, DeviceHolds, SiteHolds, ArrivalHolds, DocsHolds
  DEF PagesSettle, ConsoleInv
<1>8. SendsWhole
  BY NewChargerHolds, DeviceHolds, NewDeviceHolds, ArrivalHolds DEF SendsWhole, ConsoleInv
<1>9. Paired /\ ShownInOrder
  BY ChatHolds DEF Paired, ShownInOrder, ConsoleInv
<1> QED BY <1>1, <1>2, <1>3, <1>4, <1>5, <1>6, <1>7, <1>8, <1>9

LEMMA ConsoleInvariant == Spec => []ConsoleInv
<1>1. Init => ConsoleInv
  BY ConsoleInit
<1>2. ConsoleInv /\ [Next]_vars => ConsoleInv'
  BY ConsoleStep
<1> QED BY <1>1, <1>2, PTL DEF Spec

(* The open page has the state its component starts and goes on with, and no   *)
(* other page's (routes.ts and the page components).                           *)
THEOREM TypeCorrect == Spec => []TypeOK
<1>1. ConsoleInv => TypeOK
  BY ConsoleHolds
<1> QED BY <1>1, ConsoleInvariant, PTL

(* However dialogs are closed, opened again and opened for something else      *)
(* while a request or a timer runs, a form of the commands tab has one command *)
(* out (but for a form that was folded away and is back), one room is being    *)
(* deleted and a provider is connected once (commands-tab.tsx,                 *)
(* room-dialogs.tsx, integrations.tsx).                                        *)
THEOREM NoEffectTwice == Spec => []NothingTwice
<1>1. ConsoleInv => NothingTwice
  BY ConsoleHolds
<1> QED BY <1>1, ConsoleInvariant, PTL

(* A destructive command leaves the tab only after a yes to the values it      *)
(* carries (commands-tab.tsx).                                                 *)
THEOREM CommandsConfirmed == Spec => []ConfirmedCommand
<1>1. ConsoleInv => ConfirmedCommand
  BY ConsoleHolds
<1> QED BY <1>1, ConsoleInvariant, PTL

(* What a page announces is what happened at the server, but for the overlaps  *)
(* its module names (charger-detail.tsx, reservations.tsx,                     *)
(* pending-invites.tsx, settings.tsx, docs/app.js).                            *)
THEOREM PagesTruthful == Spec => []SaysWhatHappened
<1>1. ConsoleInv => SaysWhatHappened
  BY ConsoleHolds
<1> QED BY <1>1, ConsoleInvariant, PTL

(* A spinner turns only for a start, a stop or a sync that is under way        *)
(* (charger-detail.tsx, integrations.tsx).                                     *)
THEOREM SpinnersTurnForSomething == Spec => []SpinnersWait
<1>1. ConsoleInv => SpinnersWait
  BY ConsoleHolds
<1> QED BY <1>1, ConsoleInvariant, PTL

(* What was typed for one key or room never goes to another, although one form *)
(* serves them all and outlives its closing (settings.tsx of the charger,      *)
(* room-dialogs.tsx).                                                          *)
THEOREM TargetsKept == Spec => []OwnTarget
<1>1. ConsoleInv => OwnTarget
  BY ConsoleHolds
<1> QED BY <1>1, ConsoleInvariant, PTL

(* With nothing under way a page agrees with the server, whatever the order    *)
(* of answers, dialogs and navigations, but for the stale cases its module     *)
(* names (reservations.tsx, settings.tsx, rooms.tsx, room-dialogs.tsx,         *)
(* device-detail.tsx, pending-invites.tsx, docs/app.js).                       *)
THEOREM PagesAgree == Spec => []PagesSettle
<1>1. ConsoleInv => PagesSettle
  BY ConsoleHolds
<1> QED BY <1>1, ConsoleInvariant, PTL

(* What is created or placed is whole, by one request at a time, whichever way *)
(* the user went through the steps while a request was out or a navigation was *)
(* under way (charger-new.tsx, device-detail.tsx, device-new.tsx,              *)
(* site-create.tsx).                                                           *)
THEOREM CreationsWhole == Spec => []SendsWhole
<1>1. ConsoleInv => SendsWhole
  BY ConsoleHolds
<1> QED BY <1>1, ConsoleInvariant, PTL

(* Whatever rows were not written, however the turns interleave and wherever   *)
(* the window cuts, every call in the history handed to the model has a result *)
(* after it and every result a call before it (loadHistory, handler.go).       *)
THEOREM HistoryPaired == Spec => []Paired
<1>1. ConsoleInv => Paired
  BY ConsoleHolds
<1> QED BY <1>1, ConsoleInvariant, PTL

(* Opening a conversation again shows every stored question and answer once,   *)
(* in the order they were stored (reconstructMessages, chat.tsx).              *)
THEOREM HistoryShownInOrder == Spec => []ShownInOrder
<1>1. ConsoleInv => ShownInOrder
  BY ConsoleHolds
<1> QED BY <1>1, ConsoleInvariant, PTL

(* A success toast of the commands tab names what the charger was sent, not    *)
(* what the form holds when the answer comes (commands-tab.tsx): no step of    *)
(* any page, in any order of edits, dialogs and answers, breaks it.            *)
THEOREM ToastsNameWhatWasSent == Spec => ToastNamesSent
<1>1. ConsoleInv /\ [Next]_vars => [On("commands") => Commands!ToastNamesSent]_vars
  <2> SUFFICES ASSUME ConsoleInv, Next, On("commands") PROVE Commands!ToastNamesSent
    BY DEF vars
  <2>1. CommandsInv /\ Commands!Next
    BY DEF ConsoleInv, On, Next, Open, Leave, Routes
  <2> QED BY <2>1, CommandsToast
<1> QED BY <1>1, ConsoleInvariant, PTL DEF Spec, ToastNamesSent
=============================================================================
