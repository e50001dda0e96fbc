---------------------------- MODULE TradeMenuProofs ----------------------------
(***************************************************************************)
(* TradeMenu, for any followers, corpses, forms, games and bounds: what    *)
(* poisons, potions and tomes cost and what is laid over what; and, over   *)
(* every entry the engine can hold and every choice it leaves open, what a *)
(* toggle of a row and a transfer put into the hand.                       *)
(***************************************************************************)
EXTENDS TradeMenu, TLAPS, FiniteSetTheorems, WellFoundedInduction

UseTask == [op : {"drink", "coat", "consume", "learn"}, target : Followers, source : Holders,
            form : Forms, hand : Hands, keep : BOOLEAN]
RefreshTask == [op : {"refresh"}, target : Actors \cup {None}]
Stocks == [Holders -> [Forms -> Int]]
Coats == [Followers -> [Hands -> [poison : Forms \cup {None}, n : Int]]]

(* Stock may not be negative, which costs and coats do not depend on.      *)
UseInv ==
    /\ game \in Games /\ menu \in Actors \cup {None} /\ override \in Hands \cup {None}
    /\ override # None => leftover
    /\ tasks \in Seq(UseTask \cup RefreshTask)
    /\ stock \in Stocks /\ due \in Stocks /\ coat \in Coats
    /\ SourcePaysOncePerEffect

----------------------------------------------------------------------------
(* Units.                                                                  *)

LEMMA SpentTypes ==
    ASSUME NEW s \in Stocks, NEW h \in Holders, NEW f \in Forms
    PROVE Spent(s, h, f) \in Stocks
BY DEF Stocks, Spent

LEMMA MovedTypes ==
    ASSUME NEW s \in Stocks, NEW h \in Holders, NEW g \in Holders, NEW f \in Forms
    PROVE MovedUnit(s, f, h, g) \in Stocks
<1>1. \A x \in Stocks : Gained(x, g, f) \in Stocks
  BY DEF Stocks, Gained
<1> QED
  BY <1>1, SpentTypes DEF MovedUnit

(* A unit that went to the target and was used there has cost the source   *)
(* one, and one that came back none.                                       *)
LEMMA StagedCosts ==
    ASSUME NEW s \in Stocks, NEW t \in UseTask
    PROVE Spent(Staged(s, t), t.target, t.form) = Spent(s, t.source, t.form)
          /\ Unstaged(Staged(s, t), t) = s
<1> DEFINE h == t.source
           g == t.target
           f == t.form
<1>1. h \in Holders /\ g \in Holders /\ f \in Forms
  BY DEF UseTask, Holders, Actors
<1>2. Staged(s, t) = IF h # g THEN MovedUnit(s, f, h, g) ELSE s
  BY DEF Staged
<1>3. \A x \in Stocks : Unstaged(x, t) = IF h # g THEN MovedUnit(x, f, g, h) ELSE x
  BY DEF Unstaged
<1> HIDE DEF h, g, f
<1>4. CASE h = g
  BY <1>2, <1>3, <1>4 DEF h, g, f
<1>5. CASE h # g
  <2> DEFINE m == MovedUnit(s, f, h, g)
  <2>1. m \in Stocks
    BY <1>1, MovedTypes
  <2>2. \A x \in Holders, y \in Forms :
          m[x][y] = IF x = h /\ y = f THEN s[x][y] - 1
                    ELSE IF x = g /\ y = f THEN s[x][y] + 1 ELSE s[x][y]
    BY <1>1, <1>5 DEF MovedUnit, Spent, Gained, Stocks
  <2> HIDE DEF m
  <2>3. Spent(m, g, f) \in Stocks /\ Spent(s, h, f) \in Stocks /\ MovedUnit(m, f, g, h) \in Stocks
    BY <1>1, <2>1, SpentTypes, MovedTypes
  <2>4. \A x \in Holders, y \in Forms : Spent(m, g, f)[x][y] = Spent(s, h, f)[x][y]
    BY <1>1, <1>5, <2>1, <2>2 DEF Spent, Stocks
  <2>5. \A x \in Holders, y \in Forms : MovedUnit(m, f, g, h)[x][y] = s[x][y]
    BY <1>1, <1>5, <2>1, <2>2 DEF MovedUnit, Spent, Gained, Stocks
  <2>6. Spent(m, g, f) = Spent(s, h, f)
    BY <2>3, <2>4 DEF Stocks
  <2>7. MovedUnit(m, f, g, h) = s
    BY <2>3, <2>5 DEF Stocks
  <2> QED
    BY <1>2, <1>3, <1>5, <2>1, <2>6, <2>7 DEF m, h, g, f
<1> QED
  BY <1>4, <1>5

----------------------------------------------------------------------------
(* Clicks.                                                                 *)

LEMMA IntentIsHand ==
    ASSUME UseInv, NEW start \in Starts
    PROVE Intent(start) \in Hands
BY DEF UseInv, Starts, Intent, GetHandIntent, Latch, AttemptEquipLatch, HandleInputLatch, Hands

(* A click spends the latch, and with it what was left over, or neither.   *)
LatchIsKept == \/ override' = None
               \/ override' = override /\ (leftover => leftover')

LEMMA SpentIsKept == ASSUME NEW routed \in BOOLEAN, LatchSpent(routed) PROVE LatchIsKept
BY DEF LatchSpent, LatchIsKept

(* What a click on gear may queue.                                         *)
Refreshes == tasks' = tasks \/ \E a \in Actors \cup {None} : tasks' = Append(tasks, Refresh(a))

LEMMA ToggleRefreshes ==
    ASSUME NEW a \in Actors, NEW start, NEW row, ToggleRow(a, start, row)
    PROVE Refreshes
BY DEF ToggleRow, Queue, Refreshes

LEMMA TakeRefreshes ==
    ASSUME NEW start, NEW row, NEW mod, Take(start, row, mod)
    PROVE Refreshes /\ LatchIsKept /\ UNCHANGED <<game, menu, effects>>
<1>1. ASSUME TakeAffected(start, row) PROVE Refreshes
  <2>1. PICK a \in GetAffectedTarget(TRUE) :
          \/ UNCHANGED tasks
          \/ ToggleRow(a, start, row)
    BY <1>1 DEF TakeAffected
  <2>2. a \in Actors
    BY DEF GetAffectedTarget, Actors
  <2> QED
    BY <2>1, <2>2, ToggleRefreshes DEF Refreshes
<1>2. ASSUME NEW t, TakeVanilla(t, row) PROVE Refreshes
  BY <1>2 DEF TakeVanilla, Refreshes
<1>3. ASSUME TakeCorpse(start, row) PROVE Refreshes
  <2>1. PICK a \in GetCorpseEquipTarget(TRUE) :
          \/ ToggleRow(a, start, row)
          \/ \E t \in Toggled(a, row, Intent(start)) : TakeVanilla(t, row)
    BY <1>3 DEF TakeCorpse
  <2>2. a \in Actors
    BY DEF GetCorpseEquipTarget, Actors
  <2> QED
    BY <1>2, <2>1, <2>2, ToggleRefreshes
<1> QED
  BY <1>1, <1>2, <1>3, SpentIsKept DEF Take, Routed

LEMMA GiveRefreshes ==
    ASSUME UseInv, NEW start, NEW l, NEW mod, NEW held, GiveCopy(start, l, mod, held)
    PROVE Refreshes /\ LatchIsKept /\ UNCHANGED <<game, menu, effects>>
<1>1. menu \in Actors
  BY DEF UseInv, GiveCopy
<1>2. Queue(Refresh(IF menu \in Followers THEN menu ELSE None)) => Refreshes
  BY <1>1 DEF Queue, Refreshes
<1>3. Queue(Refresh(IF menu \in Followers THEN menu ELSE None)) \/ UNCHANGED tasks
  BY DEF GiveCopy
<1> QED
  BY <1>2, <1>3, SpentIsKept DEF GiveCopy, Refreshes, Routed

LEMMA GearClickKeeps == UseInv /\ GearClick => UseInv' /\ UNCHANGED <<stock, due, coat>>
<1> SUFFICES ASSUME UseInv, GearClick PROVE UseInv' /\ UNCHANGED <<stock, due, coat>>
  OBVIOUS
<1>1. Refreshes /\ LatchIsKept /\ UNCHANGED <<game, menu, effects>>
  BY TakeRefreshes, GiveRefreshes DEF GearClick
<1>2. tasks' \in Seq(UseTask \cup RefreshTask)
  <2>1. \A a \in Actors \cup {None} : Refresh(a) \in RefreshTask
    BY DEF Refresh, RefreshTask
  <2> QED
    BY <1>1, <2>1 DEF Refreshes, UseInv
<1> QED
  BY <1>1, <1>2 DEF UseInv, effects, LatchIsKept, SourcePaysOncePerEffect

LEMMA UseKeeps ==
    ASSUME UseInv, NEW start \in Starts, NEW f \in Forms, NEW source \in Holders, NEW mod \in BOOLEAN,
           Use(start, f, source, mod)
    PROVE UseInv' /\ coat' = coat
<1>1. menu \in Actors /\ source \in {Player, menu} /\ menu' = menu /\ game' = game
      /\ LatchIsKept
  BY SpentIsKept DEF UseInv, Use
<1>2. tasks' \in Seq(UseTask \cup RefreshTask)
  <2>1. CASE UNCHANGED tasks
    BY <2>1 DEF UseInv
  <2>2. CASE UseAffected(start, f, source)
    <3>1. PICK a \in GetAffectedTarget(TRUE) :
            \/ UNCHANGED tasks
            \/ Queue([op |-> Op(f), target |-> a, source |-> source, form |-> f,
                      hand |-> Intent(start), keep |-> game.keepTomes])
      BY <2>2 DEF UseAffected
    <3> DEFINE t == [op |-> Op(f), target |-> a, source |-> source, form |-> f,
                     hand |-> Intent(start), keep |-> game.keepTomes]
    <3>2. Op(f) \in {"drink", "coat", "consume", "learn"}
      BY DEF Op
    <3>3. a \in Followers /\ game.keepTomes \in BOOLEAN
      BY GamesAssumption DEF GetAffectedTarget, UseInv
    <3>4. t \in UseTask
      BY <3>2, <3>3, IntentIsHand DEF UseTask
    <3>5. tasks' = tasks \/ tasks' = Append(tasks, t)
      BY <3>1 DEF Queue
    <3> HIDE DEF t
    <3> QED
      BY <3>4, <3>5 DEF UseInv
  <2> QED
    BY <2>1, <2>2 DEF Use
<1>3. stock' \in Stocks /\ due' = stock' /\ coat' = coat
  <2>1. CASE UNCHANGED effects
    BY <2>1 DEF effects, UseInv, SourcePaysOncePerEffect
  <2>2. CASE UseVanilla(f, source) /\ UNCHANGED coat
    <3>1. menu \in Holders /\ Player \in Holders /\ stock = due /\ stock \in Stocks
      BY <1>1 DEF Holders, UseInv, SourcePaysOncePerEffect
    <3> QED
      BY <2>2, <3>1, MovedTypes DEF UseVanilla
  <2> QED
    BY <2>1, <2>2 DEF Use
<1> QED
  BY <1>1, <1>2, <1>3 DEF UseInv, LatchIsKept, SourcePaysOncePerEffect

----------------------------------------------------------------------------
(* Tasks.                                                                  *)

LEMMA CapTypes ==
    ASSUME UseInv
    PROVE Cap \in Nat /\ game.doses \in Nat /\ game.stacking \in BOOLEAN
BY GamesAssumption DEF UseInv, Cap

LEMMA ApplyCosts ==
    ASSUME UseInv, NEW t \in UseTask, NEW taken \in BOOLEAN, ApplyPoison(t, taken)
    PROVE stock' \in Stocks /\ stock' = due' /\ coat' \in Coats
<1>1. t.source \in Holders /\ t.form \in Forms /\ t.target \in Followers /\ t.hand \in Hands
  BY DEF UseTask
<1>2. stock \in Stocks /\ due = stock
  BY DEF UseInv, SourcePaysOncePerEffect
<1> DEFINE x == Spent(stock, t.source, t.form)
           counted == IF taken THEN x ELSE stock
<1>3. x \in Stocks /\ x[t.source][t.form] = stock[t.source][t.form] - 1
  BY <1>1, <1>2, SpentTypes DEF Spent, Stocks
<1>4. due' = x /\ stock' = IF counted[t.source][t.form] >= stock[t.source][t.form]
                           THEN Spent(counted, t.source, t.form) ELSE counted
  BY <1>2 DEF ApplyPoison
<1>5. stock[t.source][t.form] \in Int
  BY <1>1, <1>2 DEF Stocks
<1>6. stock' = x
  <2>1. CASE taken
    <3>1. ~(x[t.source][t.form] >= stock[t.source][t.form])
      BY <1>3, <1>5
    <3> QED
      BY <1>4, <2>1, <3>1
  <2>2. CASE ~taken
    <3>1. stock[t.source][t.form] >= stock[t.source][t.form]
      BY <1>5
    <3> QED
      BY <1>4, <2>2, <3>1
  <2> QED
    BY <2>1, <2>2
<1>7. CoatedHand(t) \in Hands
  BY <1>1 DEF CoatedHand, Hands
<1>8. Doses(coat[t.target][CoatedHand(t)]) \in Int
  BY <1>1, <1>7, CapTypes DEF Doses, UseInv, Coats
<1>9. coat' = [coat EXCEPT ![t.target][CoatedHand(t)] =
                 [poison |-> t.form, n |-> Doses(coat[t.target][CoatedHand(t)])]]
  BY DEF ApplyPoison
<1>10. coat' \in Coats
  BY <1>1, <1>7, <1>8, <1>9 DEF UseInv, Coats
<1> QED
  BY <1>3, <1>4, <1>6, <1>10

LEMMA RunUseKeeps == UseInv /\ RunUse => UseInv'
<1> SUFFICES ASSUME UseInv, RunUse PROVE UseInv'
  OBVIOUS
<1> DEFINE t == Head(tasks)
<1>1. tasks # <<>> /\ tasks \in Seq(UseTask \cup RefreshTask)
  BY DEF UseInv, RunUse
<1>2. t \in UseTask
  <2>1. t \in UseTask \cup RefreshTask /\ t.op # "refresh"
    BY <1>1 DEF RunUse
  <2> QED
    BY <2>1 DEF RefreshTask
<1>3. tasks' \in Seq(UseTask \cup RefreshTask)
  <2>1. Refresh(t.target) \in UseTask \cup RefreshTask
    BY <1>2 DEF UseTask, Refresh, RefreshTask, Actors
  <2>2. Tail(tasks) \in Seq(UseTask \cup RefreshTask)
    BY <1>1
  <2>3. tasks' = Tail(tasks) \/ tasks' = Append(Tail(tasks), Refresh(t.target))
    BY DEF RunUse, Refuse
  <2> HIDE DEF t
  <2> QED
    BY <2>1, <2>2, <2>3
<1>4. stock' \in Stocks /\ stock' = due' /\ coat' \in Coats
  <2>1. stock \in Stocks /\ due = stock /\ coat \in Coats
    BY DEF UseInv, SourcePaysOncePerEffect
  <2>2. t.source \in Holders /\ t.form \in Forms
    BY <1>2 DEF UseTask
  <2>3. CASE Consume(t)
    BY <1>2, <2>1, <2>2, <2>3, StagedCosts, SpentTypes DEF Consume
  <2>4. ASSUME NEW taken \in BOOLEAN, ApplyPoison(t, taken)
        PROVE stock' \in Stocks /\ stock' = due' /\ coat' \in Coats
    BY <1>2, <2>4, ApplyCosts
  <2>5. CASE Learn(t)
    BY <2>1, <2>2, <2>5, SpentTypes DEF Learn
  <2>6. CASE Refuse(t)
    BY <1>2, <2>1, <2>6, StagedCosts DEF Refuse
  <2>7. CASE UNCHANGED effects
    BY <2>1, <2>7 DEF effects
  <2> QED
    BY <2>3, <2>4, <2>5, <2>6, <2>7 DEF RunUse, Effect
<1> QED
  BY <1>3, <1>4 DEF RunUse, menuVars, UseInv, SourcePaysOncePerEffect

LEMMA InitUse == Init => UseInv
<1> SUFFICES ASSUME Init PROVE UseInv
  OBVIOUS
<1>1. stock \in Stocks
  BY GamesAssumption DEF Init, Stocks
<1>2. coat \in Coats
  BY DEF Init, NoCoat, Coats
<1>3. tasks \in Seq(UseTask \cup RefreshTask)
  BY DEF Init
<1> QED
  BY <1>1, <1>2, <1>3 DEF Init, UseInv, SourcePaysOncePerEffect

LEMMA StrikeKeeps ==
    ASSUME UseInv, NEW a \in Followers, NEW h \in Hands, Strike(a, h)
    PROVE UseInv'
<1>1. coat' \in Coats
  <2>1. coat[a][h] \in [poison : Forms \cup {None}, n : Int] /\ coat \in Coats
    BY DEF UseInv, Coats
  <2>2. Struck(coat[a][h]) \in [poison : Forms \cup {None}, n : Int]
    BY <2>1 DEF Struck, NoCoat
  <2>3. coat' = [coat EXCEPT ![a][h] = Struck(coat[a][h])]
    BY DEF Strike
  <2> QED
    BY <2>1, <2>2, <2>3 DEF Coats
<1> QED
  BY <1>1 DEF Strike, menuVars, UseInv, SourcePaysOncePerEffect

LEMMA NextUse == UseInv /\ [Next]_vars => UseInv'
<1> SUFFICES ASSUME UseInv, [Next]_vars PROVE UseInv'
  OBVIOUS
<1> USE DEF menuVars, effects
<1>1. CASE UseClick
  BY <1>1, UseKeeps DEF UseClick
<1>2. CASE MenuStep
  <2>1. ASSUME NEW a \in game.actors, OpenMenu(a) PROVE UseInv'
    BY <2>1, GamesAssumption DEF OpenMenu, UseInv, SourcePaysOncePerEffect
  <2>2. CASE CloseMenu
    BY <2>2 DEF CloseMenu, UseInv, SourcePaysOncePerEffect
  <2>3. ASSUME NEW slot \in Hands, AttemptEquip(slot) PROVE UseInv'
    BY <2>3 DEF AttemptEquip, AttemptEquipLatch, UseInv, SourcePaysOncePerEffect
  <2> QED
    BY <1>2, <2>1, <2>2, <2>3 DEF MenuStep
<1>3. CASE RunRefresh
  <2>1. tasks' \in Seq(UseTask \cup RefreshTask)
    BY <1>3 DEF RunRefresh, UseInv
  <2> QED
    BY <1>3, <2>1 DEF RunRefresh, UseInv, SourcePaysOncePerEffect
<1>4. CASE SetPotionsEnabled
  BY <1>4 DEF SetPotionsEnabled, UseInv, SourcePaysOncePerEffect
<1>5. CASE GameStep
  BY <1>3, <1>4, <1>5, RunUseKeeps, StrikeKeeps DEF GameStep
<1>6. CASE UNCHANGED vars
  BY <1>6 DEF vars, UseInv, SourcePaysOncePerEffect
<1> QED
  BY <1>1, <1>2, <1>5, <1>6, GearClickKeeps DEF Next

----------------------------------------------------------------------------
(* Coats.                                                                  *)

Fair(c, d) ==
    d.n > c.n => /\ c.n > 0 => game.stacking /\ d.poison = c.poison
                 /\ game.stacking /\ Cap > 0 => d.n <= Cap

LEMMA ApplyIsFair ==
    ASSUME UseInv, NEW t \in UseTask, NEW taken \in BOOLEAN, ApplyPoison(t, taken),
           NEW a \in Followers, NEW h \in Hands
    PROVE Fair(coat[a][h], coat'[a][h])
<1> DEFINE k == CoatedHand(t)
           c == coat[t.target][k]
           d == [poison |-> t.form, n |-> Doses(c)]
<1>1. t.target \in Followers /\ k \in Hands
  BY DEF UseTask, CoatedHand, Hands
<1>2. coat \in Coats /\ c.n \in Int /\ coat[a][h].n \in Int
  BY <1>1 DEF UseInv, Coats
<1>3. coat' = [coat EXCEPT ![t.target][k] = d] /\ MayCoat(c, t.form)
  BY DEF ApplyPoison
<1>4. coat'[a][h] = IF a = t.target /\ h = k THEN d ELSE coat[a][h]
  BY <1>1, <1>2, <1>3 DEF Coats
<1>5. d.poison = t.form /\ d.n = Doses(c)
  OBVIOUS
<1> HIDE DEF k, d
<1>6. Fair(c, d)
  <2>1. c.n > 0 => game.stacking /\ c.poison = t.form
    BY <1>2, <1>3 DEF MayCoat
  <2>2. game.stacking /\ Cap > 0 => Doses(c) <= Cap
    BY <1>2, CapTypes DEF Doses
  <2> QED
    BY <1>5, <2>1, <2>2 DEF Fair
<1>7. Fair(coat[a][h], coat[a][h])
  BY <1>2 DEF Fair
<1> QED
  BY <1>4, <1>6, <1>7

LEMMA StepIsFair ==
    ASSUME UseInv, [Next]_vars, NEW a \in Followers, NEW h \in Hands
    PROVE Fair(coat[a][h], coat'[a][h])
<1>1. coat[a][h].n \in Int
  BY DEF UseInv, Coats
<1>2. ASSUME coat' = coat PROVE Fair(coat[a][h], coat'[a][h])
  BY <1>1, <1>2 DEF Fair
<1>3. CASE RunUse
  <2>1. Head(tasks) \in UseTask
    <3>1. Head(tasks) \in UseTask \cup RefreshTask /\ Head(tasks).op # "refresh"
      BY <1>3 DEF RunUse, UseInv
    <3> QED
      BY <3>1 DEF RefreshTask
  <2>2. coat' = coat \/ \E taken \in BOOLEAN : ApplyPoison(Head(tasks), taken)
    BY <1>3 DEF RunUse, Effect, Consume, Learn, Refuse, effects
  <2> QED
    BY <1>2, <2>1, <2>2, ApplyIsFair
<1>4. ASSUME NEW b \in Followers, NEW k \in Hands, Strike(b, k)
      PROVE Fair(coat[a][h], coat'[a][h])
  <2>1. coat \in Coats /\ coat[b][k] \in [poison : Forms \cup {None}, n : Int]
    BY DEF UseInv, Coats
  <2>2. ~(Struck(coat[b][k]).n > coat[b][k].n)
    BY <2>1 DEF Struck, NoCoat
  <2>3. coat' = [coat EXCEPT ![b][k] = Struck(coat[b][k])]
    BY <1>4 DEF Strike
  <2>4. coat'[a][h] = IF a = b /\ h = k THEN Struck(coat[b][k]) ELSE coat[a][h]
    BY <2>1, <2>3 DEF Coats
  <2>5. ~(coat[a][h].n > coat[a][h].n)
    BY <1>1
  <2> QED
    BY <2>2, <2>4, <2>5 DEF Fair
<1>5. CASE UseClick
  BY <1>2, <1>5, UseKeeps DEF UseClick
<1>6. CASE MenuStep \/ RunRefresh \/ SetPotionsEnabled \/ UNCHANGED vars
  BY <1>2, <1>6 DEF MenuStep, OpenMenu, CloseMenu, AttemptEquip, RunRefresh, SetPotionsEnabled, effects, vars
<1> QED
  BY <1>2, <1>3, <1>4, <1>5, <1>6, GearClickKeeps DEF Next, GameStep

----------------------------------------------------------------------------
(* Counting the copies of an entry.                                        *)

(* A family of subsets of a finite set has a minimal member.               *)
LEMMA MinimalMember ==
    ASSUME NEW D, IsFiniteSet(D), NEW F, F \subseteq SUBSET D, F # {}
    PROVE \E S \in F : \A T \in F : T \subseteq S => T = S
<1> DEFINE R == StrictSubsetOrdering(D)
<1>1. IsWellFoundedOn(R, SUBSET D)
  <2>1. FiniteSubsetsOf(D) = SUBSET D
    BY FS_FiniteSubsetsOfFinite
  <2> QED
    BY <2>1, FS_StrictSubsetOrderingWellFounded
<1> HIDE DEF R
<1>2. PICK S \in F : \A T \in F : ~(<<T, S>> \in R)
  BY <1>1, WFMin
<1>3. \A T \in F : T \subseteq S => T = S
  BY <1>2 DEF R, StrictSubsetOrdering
<1> QED
  BY <1>3

(* One list of a set, and the copies of the set when f counts those of the *)
(* smaller ones.                                                           *)
One(S) == CHOOSE l \in S : TRUE
Counted(f, e, S) == IF S = {} THEN 0 ELSE e.lists[One(S)].n + f[S \ {One(S)}]

IsCount(f, e, S) == f = [T \in SUBSET S |-> Counted(f, e, T)]

LEMMA CountsAgree ==
    ASSUME NEW e, NEW S, NEW T, IsFiniteSet(S), NEW f, NEW g, IsCount(f, e, S), IsCount(g, e, T),
           T \subseteq S
    PROVE \A U \in SUBSET T : f[U] = g[U]
<1> DEFINE F == {U \in SUBSET T : f[U] # g[U]}
<1> SUFFICES ASSUME F # {} PROVE FALSE
  OBVIOUS
<1>1. IsFiniteSet(T)
  BY FS_Subset
<1>2. F \subseteq SUBSET T
  OBVIOUS
<1> HIDE DEF F
<1>3. PICK U \in F : \A V \in F : V \subseteq U => V = U
  BY <1>1, <1>2, MinimalMember
<1>4. U # {} => f[U \ {One(U)}] = g[U \ {One(U)}]
  <2> SUFFICES ASSUME U # {} PROVE U \ {One(U)} \in SUBSET T /\ U \ {One(U)} \notin F
    BY DEF F
  <2>1. One(U) \in U
    BY DEF One
  <2>2. U \ {One(U)} \in SUBSET T /\ U \ {One(U)} \subseteq U /\ U \ {One(U)} # U
    BY <1>2, <2>1
  <2> QED
    BY <1>3, <2>2
<1>5. Counted(f, e, U) = Counted(g, e, U)
  BY <1>4 DEF Counted
<1>6. f[U] = Counted(f, e, U) /\ g[U] = Counted(g, e, U)
  <2>1. U \in SUBSET T /\ U \in SUBSET S
    BY <1>2
  <2>2. f[U] = [V \in SUBSET S |-> Counted(f, e, V)][U]
    BY DEF IsCount
  <2>3. g[U] = [V \in SUBSET T |-> Counted(g, e, V)][U]
    BY DEF IsCount
  <2> QED
    BY <2>1, <2>2, <2>3
<1> QED
  BY <1>3, <1>5, <1>6 DEF F

(* There is such a function: the sets without one would have a smallest.   *)
LEMMA CountsExist ==
    ASSUME NEW e, NEW D, IsFiniteSet(D)
    PROVE \E f : IsCount(f, e, D)
<1> DEFINE F == {S \in SUBSET D : ~\E f : IsCount(f, e, S)}
<1> SUFFICES ASSUME F # {} PROVE FALSE
  OBVIOUS
<1>1. F \subseteq SUBSET D
  OBVIOUS
<1>2. PICK S \in F : \A T \in F : T \subseteq S => T = S
  <2> HIDE DEF F
  <2> QED
    BY <1>1, MinimalMember
<1>3. S \in SUBSET D /\ ~\E f : IsCount(f, e, S)
  OBVIOUS
<1> DEFINE G(T) == CHOOSE f : IsCount(f, e, T)
<1>4. ASSUME NEW T \in SUBSET S, T # S
      PROVE IsCount(G(T), e, T)
  <2>1. T \in SUBSET D /\ T \notin F
    BY <1>2, <1>3, <1>4
  <2>2. \E f : IsCount(f, e, T)
    BY <2>1
  <2> QED
    BY <2>2
<1> HIDE DEF F, G
<1> DEFINE h == [T \in SUBSET S |-> G(T)[T]]
           f == [T \in SUBSET S |-> Counted(h, e, T)]
<1>5. ASSUME NEW T \in SUBSET S, T # S
      PROVE f[T] = h[T]
  <2> DEFINE g == G(T)
             R == T \ {One(T)}
  <2>1. IsCount(g, e, T)
    BY <1>4, <1>5
  <2>2. R \in SUBSET S /\ R \in SUBSET T
    OBVIOUS
  <2>3. T # {} => h[R] = g[R]
    <3> SUFFICES ASSUME T # {} PROVE h[R] = g[R]
      OBVIOUS
    <3>1. One(T) \in T
      BY DEF One
    <3>2. R # S
      BY <3>1
    <3> HIDE DEF R
    <3>3. IsCount(G(R), e, R) /\ IsFiniteSet(T)
      BY <1>3, <1>4, <2>2, <3>2, FS_Subset
    <3>4. g[R] = G(R)[R]
      <4> HIDE DEF g
      <4> QED
        BY <2>1, <2>2, <3>3, CountsAgree
    <3> QED
      BY <2>2, <3>4
  <2> HIDE DEF h, g
  <2>4. Counted(h, e, T) = Counted(g, e, T)
    BY <2>3 DEF Counted
  <2> HIDE DEF R
  <2>5. g[T] = Counted(g, e, T)
    <3>1. g[T] = [V \in SUBSET T |-> Counted(g, e, V)][T]
      BY <2>1 DEF IsCount
    <3> QED
      BY <3>1
  <2>6. f[T] = Counted(h, e, T)
    OBVIOUS
  <2>7. h[T] = g[T]
    BY DEF h, g
  <2> QED
    BY <2>4, <2>5, <2>6, <2>7
<1> HIDE DEF h
<1>6. ASSUME NEW T \in SUBSET S
      PROVE Counted(h, e, T) = Counted(f, e, T)
  <2>1. T # {} => h[T \ {One(T)}] = f[T \ {One(T)}]
    <3> SUFFICES ASSUME T # {} PROVE h[T \ {One(T)}] = f[T \ {One(T)}]
      OBVIOUS
    <3>1. One(T) \in T
      BY DEF One
    <3>2. T \ {One(T)} \in SUBSET S /\ T \ {One(T)} # S
      BY <3>1
    <3> QED
      BY <1>5, <3>2
  <2> HIDE DEF f
  <2> QED
    BY <2>1 DEF Counted
<1>7. f = [T \in SUBSET S |-> Counted(f, e, T)]
  <2>1. \A T \in SUBSET S : Counted(h, e, T) = Counted(f, e, T)
    BY <1>6
  <2> DEFINE d == [T \in SUBSET S |-> Counted(f, e, T)]
  <2>2. f = d
    BY <2>1
  <2> QED
    BY <2>2
<1>8. IsCount(f, e, S)
  <2> HIDE DEF f
  <2> QED
    BY <1>7 DEF IsCount
<1> QED
  BY <1>3, <1>8

CountOf(e, S) == CHOOSE f : IsCount(f, e, S)

LEMMA CopiesCount ==
    ASSUME NEW e, NEW S
    PROVE Copies(e, S) = CountOf(e, S)[S]
BY DEF Copies, MapThenSumSet, MapThenFoldSet, CountOf, IsCount, Counted, One

(* A set of lists counts a copy for each list, and more unless each list   *)
(* has one copy.                                                           *)
LEMMA CopiesCounted ==
    ASSUME NEW e, NEW S, IsFiniteSet(S), \A l \in S : e.lists[l].n \in Nat \ {0}
    PROVE /\ Copies(e, S) \in Nat /\ Copies(e, S) >= Cardinality(S)
          /\ (\A l \in S : e.lists[l].n = 1) => Copies(e, S) = Cardinality(S)
<1> DEFINE f == CountOf(e, S)
           Right(T) == /\ f[T] \in Nat /\ f[T] >= Cardinality(T)
                       /\ (\A l \in T : e.lists[l].n = 1) => f[T] = Cardinality(T)
           F == {T \in SUBSET S : ~Right(T)}
<1>1. \A T \in SUBSET S : f[T] = Counted(f, e, T)
  <2>1. IsCount(f, e, S)
    BY CountsExist DEF CountOf
  <2> HIDE DEF f
  <2>2. \A T \in SUBSET S : f[T] = [V \in SUBSET S |-> Counted(f, e, V)][T]
    BY <2>1 DEF IsCount
  <2> QED
    BY <2>2
<1> SUFFICES ASSUME F # {} PROVE FALSE
  BY CopiesCount
<1>2. F \subseteq SUBSET S
  OBVIOUS
<1> HIDE DEF f
<1>3. PICK T \in F : \A U \in F : U \subseteq T => U = T
  <2> HIDE DEF F
  <2> QED
    BY <1>2, MinimalMember
<1>4. T \in SUBSET S /\ ~Right(T)
  OBVIOUS
<1>5. CASE T = {}
  <2>1. f[T] = 0
    BY <1>1, <1>5 DEF Counted
  <2> QED
    BY <1>4, <1>5, <2>1, FS_EmptySet
<1>6. CASE T # {}
  <2> DEFINE l == One(T)
             U == T \ {l}
  <2>1. l \in T
    BY <1>6 DEF One
  <2>2. U \in SUBSET S /\ U \subseteq T /\ U # T
    BY <1>4, <2>1
  <2>3. Right(U)
    BY <1>3, <2>2
  <2>4. f[T] = e.lists[l].n + f[U]
    BY <1>1, <1>4, <1>6 DEF Counted
  <2>5. IsFiniteSet(T)
    BY <1>4, FS_Subset
  <2>6. Cardinality(U) = Cardinality(T) - 1 /\ Cardinality(T) \in Nat /\ Cardinality(U) \in Nat
    <3>1. IsFiniteSet(U)
      BY <2>5, FS_Subset
    <3> QED
      BY <2>1, <2>5, <3>1, FS_RemoveElement, FS_CardinalityType
  <2>7. e.lists[l].n \in Nat \ {0} /\ f[U] \in Nat /\ f[U] >= Cardinality(U)
        /\ ((\A m \in U : e.lists[m].n = 1) => f[U] = Cardinality(U))
    BY <1>4, <2>1, <2>3
  <2> DEFINE n == e.lists[l].n
             a == f[T]
             b == f[U]
             c == Cardinality(T)
             d == Cardinality(U)
  <2>8. (\A m \in T : e.lists[m].n = 1) => n = 1 /\ b = d
    BY <2>1, <2>7
  <2>9. a = n + b /\ d = c - 1 /\ c \in Nat /\ n \in Nat /\ n # 0 /\ b \in Nat /\ b >= d
    BY <2>4, <2>6, <2>7
  <2> HIDE DEF n, a, b, c, d
  <2>10. a \in Nat /\ a >= c /\ (n = 1 /\ b = d => a = c)
    BY <2>9
  <2> QED
    BY <1>4, <2>8, <2>10 DEF a, c
<1> QED
  BY <1>5, <1>6

----------------------------------------------------------------------------
(* What the engine does to an entry.                                       *)

(* e with the lists of x the same but for those of A.                      *)
LEMMA EntryFields ==
    ASSUME NEW kind, NEW e, WellFormed(e, kind)
    PROVE /\ e.plain \in Nat /\ Lists(e) \subseteq Addresses
          /\ \A l \in Lists(e) : /\ e.lists[l] \in XList
                                 /\ e.lists[l].own \/ e.lists[l].worn # "no" => e.lists[l].n = 1
BY DEF WellFormed, Lists

(* An entry worn as e is, or nowhere e is not, is well formed if it has the *)
(* fields of one.                                                          *)
LEMMA FormsWell ==
    ASSUME NEW kind, NEW x,
           x \in [plain : Nat, lists : [Lists(x) -> XList]], Lists(x) \subseteq Addresses,
           \A m \in Lists(x) : x.lists[m].own \/ x.lists[m].worn # "no" => x.lists[m].n = 1,
           \A h \in Hands : SlotForObject(kind, h) # h => InHand(x, h) = {},
           \A h \in Hands : \A l, m \in InHand(x, h) : l = m
    PROVE WellFormed(x, kind)
BY DEF WellFormed

LEMMA HandsHold ==
    ASSUME NEW kind, NEW e, WellFormed(e, kind)
    PROVE \A h \in Hands : /\ SlotForObject(kind, h) # h => InHand(e, h) = {}
                           /\ \A l, m \in InHand(e, h) : l = m
BY DEF WellFormed

LEMMA SetWorn ==
    ASSUME NEW kind, NEW e, WellFormed(e, kind), NEW l \in Lists(e), NEW w \in {"no"} \cup Hands,
           NEW x, x = [e EXCEPT !.lists[l].worn = w]
    PROVE /\ x \in [plain : Nat, lists : [Lists(x) -> XList]] /\ Lists(x) = Lists(e)
          /\ x.plain = e.plain
          /\ \A m \in Lists(e) \ {l} : x.lists[m] = e.lists[m]
          /\ x.lists[l] = [n |-> e.lists[l].n, own |-> e.lists[l].own, worn |-> w]
BY DEF WellFormed, Lists, XList

LEMMA Dissolve ==
    ASSUME NEW kind, NEW e, WellFormed(e, kind), NEW l \in Lists(e), NEW p \in Nat,
           NEW x, x = [plain |-> p, lists |-> Without(e, l)]
    PROVE /\ x \in [plain : Nat, lists : [Lists(x) -> XList]] /\ Lists(x) = Lists(e) \ {l}
          /\ \A m \in Lists(x) : x.lists[m] = e.lists[m]
BY DEF WellFormed, Lists, XList, Without

LEMMA Split ==
    ASSUME NEW kind, NEW e, WellFormed(e, kind), NEW l \in Lists(e), e.lists[l].n # 1,
           NEW x, x = OneLess(e, l)
    PROVE /\ WellFormed(x, kind) /\ Lists(x) = Lists(e) /\ x.plain = e.plain
          /\ \A m \in Lists(e) \ {l} : x.lists[m] = e.lists[m]
          /\ x.lists[l] = [n |-> e.lists[l].n - 1, own |-> FALSE, worn |-> "no"]
          /\ \A h \in Hands : InHand(x, h) = InHand(e, h)
<1>1. /\ x \in [plain : Nat, lists : [Lists(x) -> XList]] /\ Lists(x) = Lists(e) /\ x.plain = e.plain
      /\ \A m \in Lists(e) \ {l} : x.lists[m] = e.lists[m]
      /\ x.lists[l] = [n |-> e.lists[l].n - 1, own |-> e.lists[l].own, worn |-> e.lists[l].worn]
  BY DEF WellFormed, Lists, XList, OneLess
<1>2. e.lists[l].own = FALSE /\ e.lists[l].worn = "no"
  BY DEF WellFormed, XList, Lists
<1>3. ASSUME NEW h \in Hands PROVE InHand(x, h) = InHand(e, h)
  <2>1. h # "no"
    BY DEF Hands
  <2> QED
    BY <1>1, <1>2, <2>1 DEF InHand
<1>4. \A m \in Lists(x) : x.lists[m].own \/ x.lists[m].worn # "no" => x.lists[m].n = 1
  <2> TAKE m \in Lists(x)
  <2>1. CASE m = l
    BY <1>1, <1>2, <2>1
  <2>2. CASE m # l
    BY <1>1, <2>2, EntryFields
  <2> QED
    BY <2>1, <2>2
<1>5. /\ x \in [plain : Nat, lists : [Lists(x) -> XList]] /\ Lists(x) \subseteq Addresses
      /\ \A h \in Hands : SlotForObject(kind, h) # h => InHand(x, h) = {}
      /\ \A h \in Hands : \A a, b \in InHand(x, h) : a = b
  BY <1>1, <1>3, EntryFields, HandsHold
<1>6. WellFormed(x, kind)
  BY ONLY <1>4, <1>5, FormsWell
<1> QED
  BY <1>1, <1>2, <1>3, <1>6

LEMMA Extend ==
    ASSUME NEW kind, NEW e, WellFormed(e, kind), NEW f \in Addresses, NEW p \in Nat,
           NEW r \in XList,
           NEW x, x = [plain |-> p, lists |-> With(e, f, r)]
    PROVE /\ x \in [plain : Nat, lists : [Lists(x) -> XList]] /\ Lists(x) = Lists(e) \cup {f}
          /\ x.plain = p /\ x.lists[f] = r /\ \A m \in Lists(e) \ {f} : x.lists[m] = e.lists[m]
BY DEF WellFormed, Lists, XList, With

(* x comes from e: no new lists but those of A, and none with data of its  *)
(* own.                                                                    *)
ComesFrom(e, x, A) ==
    /\ Lists(x) \subseteq Lists(e) \cup A
    /\ \A m \in Lists(x) : x.lists[m].own => m \in Lists(e) /\ e.lists[m].own

LEMMA TakenOffFields ==
    ASSUME NEW kind, NEW e, WellFormed(e, kind), NEW l \in Lists(e), NEW x \in TakenOff(e, l)
    PROVE /\ x \in [plain : Nat, lists : [Lists(x) -> XList]] /\ Lists(x) \subseteq Lists(e)
          /\ x.plain >= e.plain
          /\ \A m \in Lists(e) \ {l} : m \in Lists(x) /\ x.lists[m] = e.lists[m]
          /\ l \in Lists(x) => x.lists[l] = [n |-> e.lists[l].n, own |-> e.lists[l].own, worn |-> "no"]
          /\ l \notin Lists(x) => x.plain > 0
<1>1. CASE x = [e EXCEPT !.lists[l].worn = "no"]
  <2>1. /\ x \in [plain : Nat, lists : [Lists(x) -> XList]] /\ Lists(x) = Lists(e) /\ x.plain = e.plain
        /\ \A m \in Lists(e) \ {l} : x.lists[m] = e.lists[m]
        /\ x.lists[l] = [n |-> e.lists[l].n, own |-> e.lists[l].own, worn |-> "no"]
    BY <1>1, SetWorn
  <2>2. x.plain >= e.plain
    BY <2>1, EntryFields
  <2> QED
    BY <2>1, <2>2
<1>2. CASE x = [plain |-> e.plain + e.lists[l].n, lists |-> Without(e, l)]
  <2>1. e.plain \in Nat /\ e.lists[l] \in XList
    BY EntryFields
  <2> DEFINE p == e.plain + e.lists[l].n
  <2>2. p \in Nat /\ p > 0 /\ p >= e.plain
    BY <2>1 DEF XList
  <2>3. x.plain = p /\ x = [plain |-> p, lists |-> Without(e, l)]
    BY <1>2
  <2> HIDE DEF p
  <2>4. /\ x \in [plain : Nat, lists : [Lists(x) -> XList]] /\ Lists(x) = Lists(e) \ {l}
        /\ \A m \in Lists(x) : x.lists[m] = e.lists[m]
    BY <2>2, <2>3, Dissolve
  <2> QED
    BY <2>2, <2>3, <2>4
<1> QED
  BY <1>1, <1>2 DEF TakenOff

LEMMA TakenOffWell ==
    ASSUME NEW kind, NEW e, WellFormed(e, kind), NEW l \in Lists(e), NEW x \in TakenOff(e, l)
    PROVE /\ WellFormed(x, kind) /\ ComesFrom(e, x, {}) /\ NotWorn(e) \ {l} \subseteq NotWorn(x)
          /\ \A h \in Hands : InHand(x, h) = InHand(e, h) \ {l}
<1>1. /\ x \in [plain : Nat, lists : [Lists(x) -> XList]] /\ Lists(x) \subseteq Lists(e)
      /\ \A m \in Lists(e) \ {l} : m \in Lists(x) /\ x.lists[m] = e.lists[m]
      /\ l \in Lists(x) => x.lists[l] = [n |-> e.lists[l].n, own |-> e.lists[l].own, worn |-> "no"]
  BY TakenOffFields
<1>2. \A m \in Lists(x) : x.lists[m].own = e.lists[m].own /\ x.lists[m].n = e.lists[m].n
                          /\ (x.lists[m].worn # "no" => m # l /\ x.lists[m].worn = e.lists[m].worn)
  BY <1>1
<1>3. ASSUME NEW h \in Hands PROVE InHand(x, h) = InHand(e, h) \ {l}
  <2>1. h # "no"
    BY DEF Hands
  <2> QED
    BY <1>1, <2>1 DEF InHand
<1>4. NotWorn(e) \ {l} \subseteq NotWorn(x)
  BY <1>1 DEF NotWorn
<1>5. ComesFrom(e, x, {})
  BY <1>1, <1>2 DEF ComesFrom
<1>6. \A m \in Lists(x) : x.lists[m].own \/ x.lists[m].worn # "no" => x.lists[m].n = 1
  <2> TAKE m \in Lists(x)
  <2> QED
    BY <1>1, <1>2, EntryFields
<1>7. /\ x \in [plain : Nat, lists : [Lists(x) -> XList]] /\ Lists(x) \subseteq Addresses
      /\ \A h \in Hands : SlotForObject(kind, h) # h => InHand(x, h) = {}
      /\ \A h \in Hands : \A a, b \in InHand(x, h) : a = b
  BY <1>1, <1>3, EntryFields, HandsHold
<1>8. WellFormed(x, kind)
  BY ONLY <1>6, <1>7, FormsWell
<1> QED
  BY <1>3, <1>4, <1>5, <1>8

Bare(h) == [n |-> 1, worn |-> h, own |-> FALSE]

LEMMA PutOnBare ==
    ASSUME NEW kind, NEW e, WellFormed(e, kind), NEW h \in Hands, SlotForObject(kind, h) = h,
           InHand(e, h) = {}, NEW f \in Addresses, f \in Lists(e) => e.lists[f].worn = "no", NEW p \in Nat,
           NEW x, x = [plain |-> p, lists |-> With(e, f, Bare(h))]
    PROVE /\ WellFormed(x, kind) /\ ComesFrom(e, x, {f})
          /\ InHand(x, h) = {f} /\ f \in Lists(x) /\ ~x.lists[f].own
          /\ \A g \in Hands \ {h} : InHand(x, g) = InHand(e, g)
<1>1. Bare(h) \in XList
  BY DEF Bare, XList
<1>2. /\ x \in [plain : Nat, lists : [Lists(x) -> XList]] /\ Lists(x) = Lists(e) \cup {f}
      /\ x.plain = p /\ x.lists[f] = Bare(h) /\ \A m \in Lists(e) \ {f} : x.lists[m] = e.lists[m]
  BY <1>1, Extend
<1>3. InHand(x, h) = {f}
  <2>1. \A m \in Lists(e) \ {f} : x.lists[m].worn # h
    BY <1>2 DEF InHand
  <2>2. x.lists[f].worn = h
    BY <1>2 DEF Bare
  <2> QED
    BY <1>2, <2>1, <2>2 DEF InHand
<1>4. ASSUME NEW g \in Hands \ {h} PROVE InHand(x, g) = InHand(e, g)
  <2>1. x.lists[f].worn # g /\ g # "no"
    BY <1>2 DEF Bare, Hands
  <2> QED
    BY <1>2, <2>1 DEF InHand
<1>5. \A m \in Lists(x) : x.lists[m].own \/ x.lists[m].worn # "no" => x.lists[m].n = 1
  <2> TAKE m \in Lists(x)
  <2>1. CASE m = f
    BY <1>2, <2>1 DEF Bare
  <2>2. CASE m # f
    BY <1>2, <2>2, EntryFields
  <2> QED
    BY <2>1, <2>2
<1>6. /\ x \in [plain : Nat, lists : [Lists(x) -> XList]] /\ Lists(x) \subseteq Addresses
      /\ \A g \in Hands : SlotForObject(kind, g) # g => InHand(x, g) = {}
      /\ \A g \in Hands : \A a, b \in InHand(x, g) : a = b
  BY <1>2, <1>3, <1>4, EntryFields, HandsHold
<1>7. WellFormed(x, kind)
  BY ONLY <1>5, <1>6, FormsWell
<1>8. ~x.lists[f].own
  BY <1>2 DEF Bare
<1>9. ComesFrom(e, x, {f})
  BY <1>2, <1>8 DEF ComesFrom
<1> QED
  BY <1>2, <1>3, <1>4, <1>7, <1>8, <1>9

LEMMA PutOnList ==
    ASSUME NEW kind, NEW e, WellFormed(e, kind), NEW h \in Hands, SlotForObject(kind, h) = h,
           InHand(e, h) = {}, NEW c \in Lists(e), e.lists[c].n = 1,
           NEW x, x = [e EXCEPT !.lists[c].worn = h]
    PROVE /\ WellFormed(x, kind) /\ ComesFrom(e, x, {})
          /\ InHand(x, h) = {c} /\ c \in Lists(x)
          /\ \A g \in Hands \ {h} : InHand(x, g) = InHand(e, g) \ {c}
<1>1. /\ x \in [plain : Nat, lists : [Lists(x) -> XList]] /\ Lists(x) = Lists(e)
      /\ \A m \in Lists(e) \ {c} : x.lists[m] = e.lists[m]
      /\ x.lists[c] = [n |-> e.lists[c].n, own |-> e.lists[c].own, worn |-> h]
  BY SetWorn
<1>2. InHand(x, h) = {c}
  <2>1. \A m \in Lists(e) \ {c} : x.lists[m].worn # h
    BY <1>1 DEF InHand
  <2> QED
    BY <1>1, <2>1 DEF InHand
<1>3. ASSUME NEW g \in Hands \ {h} PROVE InHand(x, g) = InHand(e, g) \ {c}
  BY <1>1 DEF InHand
<1>4. \A m \in Lists(x) : x.lists[m].own \/ x.lists[m].worn # "no" => x.lists[m].n = 1
  <2> TAKE m \in Lists(x)
  <2>1. CASE m = c
    BY <1>1, <2>1
  <2>2. CASE m # c
    BY <1>1, <2>2, EntryFields
  <2> QED
    BY <2>1, <2>2
<1>5. /\ x \in [plain : Nat, lists : [Lists(x) -> XList]] /\ Lists(x) \subseteq Addresses
      /\ \A g \in Hands : SlotForObject(kind, g) # g => InHand(x, g) = {}
      /\ \A g \in Hands : \A a, b \in InHand(x, g) : a = b
  BY <1>1, <1>2, <1>3, EntryFields, HandsHold
<1>6. WellFormed(x, kind)
  BY ONLY <1>4, <1>5, FormsWell
<1>7. ComesFrom(e, x, {})
  BY <1>1 DEF ComesFrom
<1> QED
  BY <1>1, <1>2, <1>3, <1>6, <1>7

LEMMA PutOnSplit ==
    ASSUME NEW kind, NEW e, WellFormed(e, kind), NEW h \in Hands, SlotForObject(kind, h) = h,
           InHand(e, h) = {}, NEW f \in Addresses \ Lists(e), NEW c \in Lists(e), e.lists[c].n # 1,
           NEW x, x = [plain |-> e.plain, lists |-> With(OneLess(e, c), f, Bare(h))]
    PROVE /\ WellFormed(x, kind) /\ ComesFrom(e, x, {f})
          /\ InHand(x, h) = {f} /\ f \in Lists(x) /\ ~x.lists[f].own
          /\ \A g \in Hands \ {h} : InHand(x, g) = InHand(e, g)
<1> DEFINE s == OneLess(e, c)
<1> HIDE DEF s
<1>1. /\ WellFormed(s, kind) /\ Lists(s) = Lists(e) /\ s.plain = e.plain
      /\ \A m \in Lists(e) \ {c} : s.lists[m] = e.lists[m]
      /\ s.lists[c] = [n |-> e.lists[c].n - 1, own |-> FALSE, worn |-> "no"]
      /\ \A g \in Hands : InHand(s, g) = InHand(e, g)
  BY Split DEF s
<1>2. s.plain \in Nat /\ x = [plain |-> s.plain, lists |-> With(s, f, Bare(h))]
  BY <1>1, EntryFields DEF s
<1>3. InHand(s, h) = {} /\ f \in Addresses /\ (f \in Lists(s) => s.lists[f].worn = "no")
  BY <1>1
<1>4. /\ WellFormed(x, kind) /\ ComesFrom(s, x, {f})
      /\ InHand(x, h) = {f} /\ f \in Lists(x) /\ ~x.lists[f].own
      /\ \A g \in Hands \ {h} : InHand(x, g) = InHand(s, g)
  BY ONLY <1>1, <1>2, <1>3, h \in Hands, SlotForObject(kind, h) = h, PutOnBare
<1>5. ComesFrom(e, x, {f})
  <2>1. \A m \in Lists(s) : s.lists[m].own => e.lists[m].own
    BY <1>1
  <2> QED
    BY <1>1, <1>4, <2>1 DEF ComesFrom
<1> QED
  BY <1>1, <1>4, <1>5

(* x is e with the copy c in the hand, by its list when that is of one     *)
(* copy, and the other hand's unless c was its.                            *)
IsPutOn(e, x, h, c) ==
    /\ \E m \in Lists(x) : /\ InHand(x, h) = {m}
                           /\ x.lists[m].own => m = c
                           /\ c # NoList /\ e.lists[c].n = 1 => m = c
    /\ \A g \in Hands \ {h} : InHand(x, g) = InHand(e, g) \ {c}

(* A copy put on an empty hand: it is there, with its list when that is of *)
(* one copy.                                                               *)
LEMMA PutOnWell ==
    ASSUME NEW kind, NEW e, WellFormed(e, kind), NEW h \in Hands, SlotForObject(kind, h) = h,
           InHand(e, h) = {}, NEW f \in Addresses \ Lists(e),
           NEW c \in Lists(e) \cup {NoList}, c = NoList => e.plain > 0,
           NEW x \in PutOn(e, c, h, f)
    PROVE /\ WellFormed(x, kind) /\ ComesFrom(e, x, {f})
          /\ IsPutOn(e, x, h, c)
<1>1. NoList \notin Addresses /\ Lists(e) \subseteq Addresses /\ e.plain \in Nat
  BY AddressAssumption, EntryFields DEF NoList
<1>2. CASE c = NoList
  <2> DEFINE p == e.plain - 1
  <2>1. p \in Nat
    BY <1>1, <1>2
  <2>2. x = [plain |-> p, lists |-> With(e, f, Bare(h))]
    BY <1>2 DEF PutOn, Bare
  <2> HIDE DEF p
  <2>3. /\ WellFormed(x, kind) /\ ComesFrom(e, x, {f})
        /\ InHand(x, h) = {f} /\ f \in Lists(x) /\ ~x.lists[f].own
        /\ \A g \in Hands \ {h} : InHand(x, g) = InHand(e, g)
    BY <2>1, <2>2, PutOnBare
  <2>4. \A g : c \notin InHand(e, g)
    BY <1>1, <1>2 DEF InHand
  <2> QED
    BY <1>2, <2>3, <2>4 DEF IsPutOn
<1>3. CASE c # NoList /\ e.lists[c].n = 1
  <2>1. x = [e EXCEPT !.lists[c].worn = h] /\ c \in Lists(e)
    BY <1>3 DEF PutOn
  <2>2. /\ WellFormed(x, kind) /\ ComesFrom(e, x, {})
        /\ InHand(x, h) = {c} /\ c \in Lists(x)
        /\ \A g \in Hands \ {h} : InHand(x, g) = InHand(e, g) \ {c}
    BY <1>3, <2>1, PutOnList
  <2>3. ComesFrom(e, x, {f})
    BY <2>2 DEF ComesFrom
  <2> QED
    BY <2>2, <2>3 DEF IsPutOn
<1>4. CASE c # NoList /\ e.lists[c].n # 1
  <2>1. c \in Lists(e) /\ e.lists[c] \in XList /\ e.lists[c].worn = "no"
    BY <1>4, EntryFields
  <2>2. \A g \in Hands : c \notin InHand(e, g)
    BY <2>1 DEF InHand, Hands
  <2>3. CASE x = [plain |-> e.plain + e.lists[c].n - 1, lists |-> With(e, c, Bare(h))]
    <3> DEFINE p == e.plain + e.lists[c].n - 1
    <3>1. p \in Nat
      BY <1>1, <2>1 DEF XList
    <3>2. x = [plain |-> p, lists |-> With(e, c, Bare(h))]
      BY <2>3
    <3> HIDE DEF p
    <3>3. /\ WellFormed(x, kind) /\ ComesFrom(e, x, {c})
          /\ InHand(x, h) = {c} /\ c \in Lists(x) /\ ~x.lists[c].own
          /\ \A g \in Hands \ {h} : InHand(x, g) = InHand(e, g)
      BY ONLY <1>1, <2>1, <3>1, <3>2, WellFormed(e, kind), h \in Hands, SlotForObject(kind, h) = h,
              InHand(e, h) = {}, PutOnBare
    <3>4. ComesFrom(e, x, {f})
      BY <2>1, <3>3 DEF ComesFrom
    <3> QED
      BY <2>2, <3>3, <3>4 DEF IsPutOn
  <2>4. CASE x \notin {[plain |-> e.plain + e.lists[c].n - 1, lists |-> With(e, c, Bare(h))]}
    <3>1. x = [plain |-> e.plain, lists |-> With(OneLess(e, c), f, Bare(h))]
      BY <1>4, <2>4 DEF PutOn, Bare
    <3>2. /\ WellFormed(x, kind) /\ ComesFrom(e, x, {f})
          /\ InHand(x, h) = {f} /\ f \in Lists(x) /\ ~x.lists[f].own
          /\ \A g \in Hands \ {h} : InHand(x, g) = InHand(e, g)
      BY <1>4, <2>1, <3>1, PutOnSplit
    <3> QED
      BY <1>4, <2>2, <3>2 DEF IsPutOn
  <2> QED
    BY <2>3, <2>4
<1> QED
  BY <1>2, <1>3, <1>4

(* Every copy of the list of l, or of any list, that is in the hand is     *)
(* taken off.                                                              *)
LEMMA UnequipWell ==
    ASSUME NEW kind, NEW e, WellFormed(e, kind), NEW h \in Hands, NEW l,
           NEW x \in UnequipObject(e, l, h)
    PROVE /\ WellFormed(x, kind) /\ ComesFrom(e, x, {})
          /\ NotWorn(e) \subseteq NotWorn(x) /\ x.plain >= e.plain
          /\ \A g \in Hands \ {h} : InHand(x, g) = InHand(e, g)
          /\ l = NoList \/ l \in InHand(e, h) => InHand(x, h) = {}
          /\ l \in Lists(e) \ Lists(x) => x.plain > 0
<1> DEFINE worn == IF l = NoList THEN InHand(e, h) ELSE InHand(e, h) \cap {l}
<1>1. CASE worn = {}
  <2>1. x = e
    BY <1>1 DEF UnequipObject
  <2>2. ComesFrom(e, x, {})
    BY <2>1 DEF ComesFrom
  <2> QED
    BY <1>1, <2>1, <2>2, EntryFields
<1>2. CASE worn # {}
  <2>1. PICK z \in worn : x \in TakenOff(e, z)
    BY <1>2 DEF UnequipObject
  <2>2. z \in InHand(e, h) /\ (l # NoList => z = l)
    BY <2>1
  <2>3. z \in Lists(e) /\ e.lists[z].worn = h /\ h # "no"
    BY <2>2 DEF InHand, Hands
  <2>4. /\ WellFormed(x, kind) /\ ComesFrom(e, x, {}) /\ NotWorn(e) \ {z} \subseteq NotWorn(x)
        /\ \A g \in Hands : InHand(x, g) = InHand(e, g) \ {z}
    BY <2>1, <2>3, TakenOffWell
  <2>5. /\ Lists(x) \subseteq Lists(e) /\ x.plain >= e.plain
        /\ \A m \in Lists(e) \ {z} : m \in Lists(x)
        /\ z \notin Lists(x) => x.plain > 0
    BY <2>1, <2>3, TakenOffFields
  <2>6. z \notin NotWorn(e) /\ \A g \in Hands \ {h} : z \notin InHand(e, g)
    BY <2>3 DEF NotWorn, InHand
  <2>7. InHand(e, h) = {z}
    BY <2>2, HandsHold
  <2> QED
    BY <2>4, <2>5, <2>6, <2>7
<1> QED
  BY <1>1, <1>2

LEMMA ComesFromOn ==
    ASSUME NEW e, NEW y, NEW x, NEW A, NEW B, B \subseteq A, ComesFrom(e, y, B), ComesFrom(y, x, A)
    PROVE ComesFrom(e, x, A)
BY DEF ComesFrom

(* The entry once the hand is empty for c.                                 *)
Cleared(e, h, c) ==
    IF InHand(e, h) \ {c} = {} THEN {e} ELSE UNION {TakenOff(e, z) : z \in InHand(e, h) \ {c}}

LEMMA ClearedWell ==
    ASSUME NEW kind, NEW e, WellFormed(e, kind), NEW h \in Hands, NEW c, c \notin InHand(e, h),
           NEW y \in Cleared(e, h, c)
    PROVE /\ WellFormed(y, kind) /\ ComesFrom(e, y, {}) /\ InHand(y, h) = {}
          /\ \A g \in Hands \ {h} : InHand(y, g) = InHand(e, g)
          /\ c \in Lists(e) => c \in Lists(y) /\ y.lists[c] = e.lists[c]
          /\ e.plain > 0 => y.plain > 0
<1>1. CASE InHand(e, h) = {}
  <2>1. y = e
    BY <1>1 DEF Cleared
  <2> QED
    BY <1>1, <2>1 DEF ComesFrom
<1>2. CASE InHand(e, h) # {}
  <2>1. PICK z \in InHand(e, h) : y \in TakenOff(e, z)
    BY <1>2 DEF Cleared
  <2>2. z \in Lists(e) /\ z # c /\ e.lists[z].worn = h
    BY <2>1 DEF InHand
  <2>3. /\ WellFormed(y, kind) /\ ComesFrom(e, y, {})
        /\ \A g \in Hands : InHand(y, g) = InHand(e, g) \ {z}
    BY <2>1, <2>2, TakenOffWell
  <2>4. /\ y.plain >= e.plain
        /\ \A m \in Lists(e) \ {z} : m \in Lists(y) /\ y.lists[m] = e.lists[m]
    BY <2>1, <2>2, TakenOffFields
  <2>5. e.plain \in Nat /\ y.plain \in Nat
    BY <2>3, EntryFields
  <2>6. InHand(e, h) = {z} /\ \A g \in Hands \ {h} : z \notin InHand(e, g)
    BY <2>1, <2>2, HandsHold DEF InHand
  <2> QED
    BY <2>2, <2>3, <2>4, <2>5, <2>6
<1> QED
  BY <1>1, <1>2

(* A copy chosen for the hand, that is not there yet.                      *)
LEMMA EquipChosen ==
    ASSUME NEW kind, NEW e, WellFormed(e, kind), NEW h \in Hands, SlotForObject(kind, h) = h,
           NEW f \in Addresses \ Lists(e),
           NEW c \in Lists(e) \cup {NoList}, c = NoList => e.plain > 0, c \notin InHand(e, h),
           NEW y \in Cleared(e, h, c), NEW x \in PutOn(y, c, h, f)
    PROVE /\ WellFormed(x, kind) /\ ComesFrom(e, x, {f})
          /\ IsPutOn(e, x, h, c)
<1>1. /\ WellFormed(y, kind) /\ ComesFrom(e, y, {}) /\ InHand(y, h) = {}
      /\ \A g \in Hands \ {h} : InHand(y, g) = InHand(e, g)
      /\ c \in Lists(e) => c \in Lists(y) /\ y.lists[c] = e.lists[c]
      /\ e.plain > 0 => y.plain > 0
  BY ClearedWell
<1>2. f \in Addresses \ Lists(y)
  BY <1>1 DEF ComesFrom
<1>3. c \in Lists(y) \cup {NoList} /\ (c = NoList => y.plain > 0)
  BY <1>1
<1>4. /\ WellFormed(x, kind) /\ ComesFrom(y, x, {f})
      /\ IsPutOn(y, x, h, c)
  BY ONLY <1>1, <1>2, <1>3, h \in Hands, SlotForObject(kind, h) = h, x \in PutOn(y, c, h, f), PutOnWell
<1>5. ComesFrom(e, x, {f})
  BY <1>1, <1>4, ComesFromOn
<1>6. c # NoList => y.lists[c] = e.lists[c]
  BY <1>1
<1> QED
  BY <1>1, <1>4, <1>5, <1>6 DEF IsPutOn

(* Is there a copy that nobody has to be relieved of?                      *)
Spare(e) == e.plain > 0 \/ NotWorn(e) # {}

(* x is e with a copy put into the hand: that of l, or one the engine       *)
(* chose, and then one that is idle if there is one.                       *)
IsEquipped(e, x, h, l) ==
    /\ l # NoList \/ Spare(e) => InHand(x, h) # {}
    /\ l # NoList /\ e.lists[l].n = 1 => InHand(x, h) = {l}
    /\ \A m \in InHand(x, h) \ InHand(e, h) : x.lists[m].own
          => IF l # NoList THEN m = l ELSE NotWorn(e) # {} \/ e.plain = 0
    /\ l \in NotWorn(e) \/ (l = NoList /\ Spare(e) /\ InHand(e, h) = {})
       => \A g \in Hands \ {h} : InHand(x, g) = InHand(e, g)

LEMMA EquipWell ==
    ASSUME NEW kind, NEW e, WellFormed(e, kind), NEW h \in Hands, SlotForObject(kind, h) = h,
           NEW f \in Addresses \ Lists(e), NEW l \in Lists(e) \cup {NoList},
           NEW x \in EquipObject(e, l, h, f)
    PROVE WellFormed(x, kind) /\ ComesFrom(e, x, {f}) /\ IsEquipped(e, x, h, l)
<1> DEFINE free == NotWorn(e) \cup {y \in {NoList} : e.plain > 0}
           chosen == IF l # NoList THEN {l} ELSE IF free # {} THEN free ELSE InHand(e, Opposite(h))
<1>1. NoList \notin Lists(e) /\ e.plain \in Nat
  BY AddressAssumption, EntryFields DEF NoList
<1>2. \A g \in Hands : \A m \in NotWorn(e) : m \in Lists(e) /\ m \notin InHand(e, g)
  BY DEF NotWorn, InHand, Hands
<1>3. Spare(e) <=> free # {}
  BY DEF Spare
<1>4. CASE chosen = {} \/ l \in InHand(e, h)
  <2>1. x = e
    BY <1>4 DEF EquipObject
  <2>2. ComesFrom(e, x, {f})
    BY <2>1 DEF ComesFrom
  <2>3. l \in InHand(e, h) => InHand(e, h) = {l} /\ l # NoList /\ l \notin NotWorn(e)
    BY <1>1, <1>2, HandsHold DEF InHand
  <2>4. l \notin InHand(e, h) => l = NoList /\ ~Spare(e)
    BY <1>3, <1>4
  <2>5. l \in NotWorn(e) => l # NoList
    BY <1>1, <1>2
  <2> QED
    BY <2>1, <2>2, <2>3, <2>4, <2>5 DEF IsEquipped
<1>5. CASE chosen # {} /\ l \notin InHand(e, h)
  <2>1. PICK c \in chosen : \E y \in Cleared(e, h, c) : x \in PutOn(y, c, h, f)
    BY <1>5 DEF EquipObject, Cleared
  <2>2. Opposite(h) \in Hands \ {h}
    BY DEF Opposite, Hands
  <2>3. c \in Lists(e) \cup {NoList} /\ (c = NoList => e.plain > 0) /\ c \notin InHand(e, h)
    <3>1. CASE l # NoList
      BY <1>5, <2>1, <3>1
    <3>2. CASE l = NoList /\ free # {}
      BY <1>1, <1>2, <2>1, <3>2 DEF InHand
    <3>3. CASE l = NoList /\ free = {}
      BY <1>1, <2>1, <2>2, <3>3 DEF InHand, Hands
    <3> QED
      BY <3>1, <3>2, <3>3
  <2>4. /\ WellFormed(x, kind) /\ ComesFrom(e, x, {f})
        /\ IsPutOn(e, x, h, c)
    <3>1. PICK y \in Cleared(e, h, c) : x \in PutOn(y, c, h, f)
      BY <2>1
    <3>2. c \in Lists(e) \cup {NoList} /\ (c = NoList => e.plain > 0) /\ c \notin InHand(e, h)
      BY <2>3
    <3> HIDE DEF free, chosen
    <3> QED
      BY ONLY <3>1, <3>2, y \in Cleared(e, h, c), WellFormed(e, kind), h \in Hands, SlotForObject(kind, h) = h,
              f \in Addresses \ Lists(e), EquipChosen
  <2>5. l # NoList => c = l
    BY <2>1
  <2>6. l = NoList /\ Spare(e) => c \in free
    BY <1>3, <2>1
  <2>7. l = NoList /\ NotWorn(e) = {} /\ e.plain # 0 => c = NoList
    <3>1. e.plain # 0 => e.plain > 0
      BY <1>1
    <3> QED
      BY <1>3, <2>6, <3>1 DEF Spare
  <2>8. \A m \in Lists(x) : m # NoList
    <3>1. Lists(x) \subseteq Addresses
      BY <2>4, EntryFields
    <3> QED
      BY <3>1, AddressAssumption DEF NoList
  <2>9. \A m \in InHand(x, h) \ InHand(e, h) : x.lists[m].own
           => IF l # NoList THEN m = l ELSE NotWorn(e) # {} \/ e.plain = 0
    <3> SUFFICES ASSUME NEW m \in InHand(x, h) \ InHand(e, h), x.lists[m].own
                 PROVE IF l # NoList THEN m = l ELSE NotWorn(e) # {} \/ e.plain = 0
      OBVIOUS
    <3>1. m \in Lists(x) /\ m = c
      BY <2>4 DEF InHand, IsPutOn
    <3> QED
      BY <2>5, <2>7, <2>8, <3>1
  <2>10. l \in NotWorn(e) \/ (l = NoList /\ Spare(e) /\ InHand(e, h) = {})
         => \A g \in Hands \ {h} : InHand(x, g) = InHand(e, g)
    <3>1. c \in free => \A g \in Hands : c \notin InHand(e, g)
      BY <1>1, <1>2 DEF InHand
    <3>2. l \in NotWorn(e) => c \in free
      BY <1>1, <1>2, <2>5
    <3> QED
      BY <2>4, <2>6, <3>1, <3>2 DEF IsPutOn
  <2> QED
    BY <2>4, <2>5, <2>8, <2>9, <2>10 DEF IsPutOn, IsEquipped
<1> QED
  BY <1>4, <1>5

----------------------------------------------------------------------------
(* The list a base copy is given, and the picks.                           *)

(* x is e, perhaps with the list f for the copies that no list stood for.  *)
Grown(kind, e, x, f) ==
    /\ WellFormed(x, kind) /\ ComesFrom(e, x, {f})
    /\ \A h \in Hands : InHand(x, h) = InHand(e, h)
    /\ Spare(e) => Spare(x)
    /\ f \in Lists(x) => x.plain = 0

LEMMA EnsureWell ==
    ASSUME NEW kind, NEW e, WellFormed(e, kind), NEW S, NEW donor,
           NEW f \in Addresses, f \in Lists(e) => e.plain = 0,
           NEW r \in EnsureXList(e, S, donor, f)
    PROVE /\ Grown(kind, e, r.entry, f)
          /\ r.list \in Lists(r.entry) \cup {NoList}
          /\ r.list = NoList => r.entry = e /\ (e.plain = 0 \/ Lists(e) = {})
          /\ r.list # NoList => (r.list \in Lists(e) \cap S /\ r.entry = e)
                                \/ ~r.entry.lists[r.list].own
<1>1. e.plain \in Nat /\ Lists(e) \subseteq Addresses /\ NoList \notin Addresses
  BY AddressAssumption, EntryFields DEF NoList
<1> DEFINE u == [n |-> e.plain, worn |-> "no", own |-> FALSE]
           made == [plain |-> 0, lists |-> With(e, f, u)]
           known == Lists(e) \cap S
<1>2. CASE known # {}
  <2>1. PICK l \in known : r = [entry |-> e, list |-> l]
    BY <1>2 DEF EnsureXList
  <2>2. r.entry = e /\ r.list \in Lists(e) \cap S /\ r.list # NoList
    BY <1>1, <2>1
  <2> QED
    BY <2>2 DEF ComesFrom, Grown
<1>3. CASE known = {} /\ (e.plain = 0 \/ (~donor /\ Lists(e) = {}))
  <2>1. r = [entry |-> e, list |-> NoList]
    BY <1>3 DEF EnsureXList
  <2>2. r.entry = e /\ r.list = NoList
    BY <2>1
  <2> QED
    BY <1>3, <2>2 DEF ComesFrom, Grown
<1>4. CASE known = {} /\ ~(e.plain = 0 \/ (~donor /\ Lists(e) = {}))
  <2>1. r = [entry |-> made, list |-> f]
    BY <1>4 DEF EnsureXList
  <2>2. u \in XList
    BY <1>1, <1>4 DEF XList
  <2> DEFINE x == r.entry
  <2>3. x = [plain |-> 0, lists |-> With(e, f, u)] /\ r.list = f
    BY <2>1
  <2> HIDE DEF u, x
  <2>4. /\ x \in [plain : Nat, lists : [Lists(x) -> XList]] /\ Lists(x) = Lists(e) \cup {f}
        /\ x.plain = 0 /\ x.lists[f] = u /\ \A m \in Lists(e) \ {f} : x.lists[m] = e.lists[m]
    BY <2>2, <2>3, Extend
  <2>5. u.worn = "no" /\ u.own = FALSE
    BY DEF u
  <2>6. ASSUME NEW h \in Hands PROVE InHand(x, h) = InHand(e, h)
    <3>1. h # "no" /\ f \notin Lists(e)
      BY <1>4 DEF Hands
    <3> QED
      BY <2>4, <2>5, <3>1 DEF InHand
  <2>7. \A m \in Lists(x) : x.lists[m].own \/ x.lists[m].worn # "no" => x.lists[m].n = 1
    <3> TAKE m \in Lists(x)
    <3>1. CASE m = f
      BY <2>4, <2>5, <3>1
    <3>2. CASE m # f
      BY <2>4, <3>2, EntryFields
    <3> QED
      BY <3>1, <3>2
  <2>8. /\ x \in [plain : Nat, lists : [Lists(x) -> XList]] /\ Lists(x) \subseteq Addresses
        /\ \A h \in Hands : SlotForObject(kind, h) # h => InHand(x, h) = {}
        /\ \A h \in Hands : \A a, b \in InHand(x, h) : a = b
    BY <1>1, <2>4, <2>6, HandsHold
  <2>9. WellFormed(x, kind)
    BY ONLY <2>7, <2>8, FormsWell
  <2>10. ComesFrom(e, x, {f}) /\ Spare(x)
    BY <2>4, <2>5 DEF ComesFrom, Spare, NotWorn
  <2>11. r.list # NoList /\ r.list \in Lists(x) /\ ~x.lists[r.list].own
    BY <1>1, <2>3, <2>4, <2>5
  <2> QED
    BY <2>4, <2>6, <2>9, <2>10, <2>11 DEF x, Grown
<1> QED
  BY <1>2, <1>3, <1>4

LEMMA SlotFits ==
    ASSUME NEW kind, NEW hand \in Hands
    PROVE /\ SlotForObject(kind, hand) \in Hands
          /\ SlotForObject(kind, SlotForObject(kind, hand)) = SlotForObject(kind, hand)
BY DEF SlotForObject, Hands

LEMMA OtherHand ==
    ASSUME NEW h \in Hands
    PROVE Opposite(h) \in Hands \ {h} /\ Opposite(Opposite(h)) = h /\ Hands \ {h} = {Opposite(h)}
BY DEF Opposite, Hands

LEMMA AppliedWell ==
    ASSUME NEW kind, NEW e, WellFormed(e, kind), NEW h \in Hands, SlotForObject(kind, h) = h,
           NEW p, p.hand = h, p.list \in Lists(e) \cup {NoList}, NEW f \in Addresses \ Lists(e),
           NEW x \in Applied(e, p, f)
    PROVE WellFormed(x, kind) /\ ComesFrom(e, x, {f})
<1>1. CASE p.do = "unequip"
  <2>1. x \in UnequipObject(e, p.list, h)
    BY <1>1 DEF Applied
  <2>2. WellFormed(x, kind) /\ ComesFrom(e, x, {})
    BY <2>1, UnequipWell
  <2> QED
    BY <2>2 DEF ComesFrom
<1>2. CASE p.do # "unequip" /\ p.do = "equip"
  <2>1. x \in EquipObject(e, p.list, h, f)
    BY <1>2 DEF Applied
  <2> QED
    BY <2>1, EquipWell
<1>3. CASE p.do # "unequip" /\ p.do # "equip"
  <2>1. PICK y \in UnequipObject(e, p.list, Opposite(h)) :
          x \in EquipObject(y, IF p.list \in Lists(y) THEN p.list ELSE NoList, h, f)
    BY <1>3 DEF Applied
  <2>2. WellFormed(y, kind) /\ ComesFrom(e, y, {})
    BY <2>1, OtherHand, UnequipWell
  <2>3. f \in Addresses \ Lists(y)
    BY <2>2 DEF ComesFrom
  <2> DEFINE l == IF p.list \in Lists(y) THEN p.list ELSE NoList
  <2>4. l \in Lists(y) \cup {NoList} /\ x \in EquipObject(y, l, h, f)
    BY <2>1
  <2> HIDE DEF l
  <2>5. WellFormed(x, kind) /\ ComesFrom(y, x, {f})
    BY <2>2, <2>3, <2>4, EquipWell
  <2> QED
    BY <2>2, <2>5, ComesFromOn
<1> QED
  BY <1>1, <1>2, <1>3

(* A mode picks a list of the entry, or leaves the copy to the engine, and *)
(* the hand its kind goes to.                                              *)
IsPick(e, h, p) == p.hand = h /\ p.list \in Lists(e) \cup {NoList}

LEMMA AnyPicks ==
    ASSUME NEW e, NEW h, NEW base, NEW moves, NEW p \in AnyPick(e, h, base, moves)
    PROVE IsPick(e, h, p)
<1>1. InHand(e, h) \subseteq Lists(e) /\ NotWorn(e) \subseteq Lists(e)
      /\ InHand(e, Opposite(h)) \subseteq Lists(e)
  BY DEF InHand, NotWorn
<1>2. \/ \E l \in Lists(e), do \in {"unequip", "equip", "move"} : p = StrictPick(l, do, h)
      \/ p = BaseFallback("equip", h)
  BY <1>1 DEF AnyPick
<1> QED
  <2>1. ASSUME NEW l \in Lists(e), NEW do, p = StrictPick(l, do, h) PROVE IsPick(e, h, p)
    BY <2>1 DEF IsPick, StrictPick
  <2>2. ASSUME p = BaseFallback("equip", h) PROVE IsPick(e, h, p)
    BY <2>2 DEF IsPick, StrictPick, BaseFallback
  <2> QED
    BY <1>2, <2>1, <2>2

LEMMA WeaponPicks ==
    ASSUME NEW e, NEW h, NEW l \in Lists(e) \cup {NoList}, NEW p \in WeaponPick(e, h, l)
    PROVE IsPick(e, h, p)
<1>1. CASE l = NoList
  BY <1>1, AnyPicks DEF WeaponPick
<1>2. CASE l # NoList
  <2>1. \/ \E do \in {"unequip", "equip", "move"} : p = StrictPick(l, do, h)
        \/ p = BaseFallback("equip", h)
    BY <1>2 DEF WeaponPick
  <2> QED
    BY <2>1 DEF IsPick, StrictPick, BaseFallback
<1> QED
  BY <1>1, <1>2

LEMMA ModePicks ==
    ASSUME NEW kind, NEW e, NEW hand \in Hands, NEW l \in Lists(e) \cup {NoList},
           NEW p \in ModePick(e, kind, hand, l)
    PROVE IsPick(e, SlotForObject(kind, hand), p)
<1> DEFINE h == SlotForObject(kind, hand)
<1>1. CASE kind \in {"weapon", "twoHander"}
  BY <1>1, WeaponPicks DEF ModePick
<1>2. CASE kind = "scroll"
  <2>1. p \in ScrollPick(e, h, l)
    BY <1>2 DEF ModePick
  <2>2. p \in WeaponPick(e, h, l) \/ p \in {StrictPick(m, "equip", h) : m \in NotWorn(e)}
    BY <2>1 DEF ScrollPick
  <2>3. p \in {StrictPick(m, "equip", h) : m \in NotWorn(e)} => IsPick(e, h, p)
    BY DEF StrictPick, NotWorn, IsPick
  <2> QED
    BY <2>2, <2>3, WeaponPicks
<1>3. CASE kind = "torch"
  <2>1. h = "left" /\ p \in TorchPick(e, l)
    BY <1>3 DEF ModePick, SlotForObject
  <2>2. l = NoList => IsPick(e, "left", p)
    BY <2>1, AnyPicks DEF TorchPick
  <2>3. l # NoList => IsPick(e, "left", p)
    BY <2>1 DEF TorchPick, StrictPick, IsPick
  <2> QED
    BY <2>1, <2>2, <2>3
<1>4. CASE kind \notin {"weapon", "twoHander", "scroll", "torch"}
  <2>1. h = "right" /\ p \in ArmorPick(e, l)
    BY <1>4 DEF ModePick, SlotForObject, AmmoPick
  <2>2. l = NoList => IsPick(e, "right", p)
    BY <2>1, AnyPicks DEF ArmorPick
  <2>3. l # NoList => IsPick(e, "right", p)
    BY <2>1 DEF ArmorPick, StrictPick, IsPick
  <2> QED
    BY <2>1, <2>2, <2>3
<1> QED
  BY <1>1, <1>2, <1>3, <1>4

LEMMA StrictWell ==
    ASSUME NEW kind, NEW e, WellFormed(e, kind), NEW S, NEW donor, NEW f \in Addresses \ Lists(e),
           NEW s \in StrictEntries(e, S, donor, f)
    PROVE Grown(kind, e, s, f) /\ (Lists(e) # {} => s = e)
<1>1. CASE Lists(e) # {}
  <2>1. s = e
    BY <1>1 DEF StrictEntries
  <2> QED
    BY <2>1 DEF ComesFrom, Grown
<1>2. CASE Lists(e) = {}
  <2>1. PICK r \in EnsureXList(e, S, donor, f) : s = r.entry
    BY <1>2 DEF StrictEntries
  <2> QED
    BY <1>2, <2>1, EnsureWell
<1> QED
  BY <1>1, <1>2

LEMMA PreferredOwned ==
    ASSUME NEW e, NEW row, NEW kind, NEW hand
    PROVE PreferredLists(e, row, kind, hand) \subseteq Lists(e) \cup {NoList}
BY DEF PreferredLists

LEMMA BasePicks ==
    ASSUME NEW e, NEW row, NEW kind, NEW hand
    PROVE IsPick(e, SlotForObject(kind, hand), BaseFallbackPick(e, row, kind, hand))
<1> DEFINE h == SlotForObject(kind, hand)
<1>1. \E do \in {"unequip", "move", "equip"} : BaseFallbackPick(e, row, kind, hand) = BaseFallback(do, h)
  BY DEF BaseFallbackPick
<1> HIDE DEF h
<1>2. ASSUME NEW do, BaseFallbackPick(e, row, kind, hand) = BaseFallback(do, h)
      PROVE IsPick(e, h, BaseFallbackPick(e, row, kind, hand))
  BY <1>2 DEF BaseFallback, StrictPick, IsPick
<1> QED
  BY <1>1, <1>2 DEF h

(* A base copy is given a list, of the entry or new, or none.              *)
LEMMA UpgradedWell ==
    ASSUME NEW kind, NEW e, WellFormed(e, kind), NEW h, NEW p, IsPick(e, h, p), NEW S, NEW donor,
           NEW f \in Addresses, f \in Lists(e) => e.plain = 0,
           NEW u \in Upgraded(e, p, S, donor, f)
    PROVE /\ Grown(kind, e, u.entry, f) /\ IsPick(u.entry, h, u.pick) /\ u.pick.do = p.do
          /\ p.list # NoList => u.entry = e /\ u.pick = p
          /\ p.list = NoList => u.pick.list \in NotWorn(u.entry) \cup {NoList}
<1>1. CASE p.list # NoList
  <2>1. u.entry = e /\ u.pick = p
    BY <1>1 DEF Upgraded
  <2> QED
    BY <1>1, <2>1 DEF ComesFrom, Grown
<1>2. CASE p.list = NoList
  <2>1. PICK r \in EnsureXList(e, S, donor, f) :
          u = [entry |-> r.entry,
               pick |-> IF r.list # NoList /\ r.entry.lists[r.list].worn = "no"
                        THEN [p EXCEPT !.list = r.list] ELSE p]
    BY <1>2 DEF Upgraded
  <2>2. u.entry = r.entry
    BY <2>1
  <2>3. Grown(kind, e, r.entry, f) /\ r.list \in Lists(r.entry) \cup {NoList}
    BY EnsureWell
  <2>4. CASE r.list # NoList /\ r.entry.lists[r.list].worn = "no"
    <3>1. u.pick = [p EXCEPT !.list = r.list]
      BY <2>1, <2>4
    <3>2. r.list \in NotWorn(r.entry)
      BY <2>3, <2>4 DEF NotWorn
    <3>3. u.pick.list \in {r.list, p.list} /\ u.pick.hand = p.hand /\ u.pick.do = p.do
      BY <3>1
    <3> QED
      BY <1>2, <2>2, <2>3, <3>2, <3>3 DEF IsPick
  <2>5. CASE ~(r.list # NoList /\ r.entry.lists[r.list].worn = "no")
    <3>1. u.pick = p
      BY <2>1, <2>5
    <3> QED
      BY <1>2, <2>2, <2>3, <3>1 DEF IsPick
  <2> QED
    BY <2>4, <2>5
<1> QED
  BY <1>1, <1>2

LEMMA SelectionWell ==
    ASSUME NEW kind, NEW e, WellFormed(e, kind), NEW row, NEW hand \in Hands, NEW S, NEW donor,
           NEW f \in Addresses \ Lists(e),
           NEW u \in PicksFromSelection(e, row, kind, hand, S, donor, f)
    PROVE /\ WellFormed(u.entry, kind) /\ ComesFrom(e, u.entry, {f})
          /\ IsPick(u.entry, SlotForObject(kind, hand), u.pick)
<1> DEFINE h == SlotForObject(kind, hand)
<1>1. PICK s \in StrictEntries(e, S, donor, f) :
        \/ u = [entry |-> s, pick |-> BaseFallbackPick(s, row, kind, hand)]
        \/ \E l \in PreferredLists(s, row, kind, hand) : \E p \in ModePick(s, kind, hand, l) :
              u \in Upgraded(s, p, S, donor, f)
  BY DEF PicksFromSelection
<1>2. WellFormed(s, kind) /\ ComesFrom(e, s, {f}) /\ (f \in Lists(s) => s.plain = 0)
  <2>1. Grown(kind, e, s, f)
    BY StrictWell
  <2> QED
    BY <2>1 DEF Grown
<1>3. CASE u = [entry |-> s, pick |-> BaseFallbackPick(s, row, kind, hand)]
  <2>1. u.entry = s /\ u.pick = BaseFallbackPick(s, row, kind, hand)
    BY <1>3
  <2> QED
    BY <1>2, <2>1, BasePicks
<1>4. ASSUME NEW l \in PreferredLists(s, row, kind, hand), NEW p \in ModePick(s, kind, hand, l),
             u \in Upgraded(s, p, S, donor, f)
      PROVE WellFormed(u.entry, kind) /\ ComesFrom(e, u.entry, {f}) /\ IsPick(u.entry, h, u.pick)
  <2>1. IsPick(s, h, p)
    BY <1>4, PreferredOwned, ModePicks
  <2>2. WellFormed(u.entry, kind) /\ ComesFrom(s, u.entry, {f}) /\ IsPick(u.entry, h, u.pick)
    BY <1>2, <1>4, <2>1, UpgradedWell DEF Grown
  <2> QED
    BY <1>2, <2>2, ComesFromOn
<1> QED
  BY <1>1, <1>3, <1>4

----------------------------------------------------------------------------
(* What a toggle of a row comes to.                                        *)

LEMMA ListsFinite ==
    ASSUME NEW kind, NEW e, WellFormed(e, kind)
    PROVE IsFiniteSet(Lists(e)) /\ \A l \in Lists(e) : l # NoList /\ e.lists[l].n \in Nat \ {0}
<1>1. Lists(e) \subseteq Addresses /\ \A l \in Lists(e) : e.lists[l] \in XList
  BY EntryFields
<1> QED
  BY <1>1, AddressAssumption, FS_Subset DEF XList, NoList

LEMMA CountsOf ==
    ASSUME NEW kind, NEW e, WellFormed(e, kind), NEW S \in SUBSET Lists(e)
    PROVE /\ IsFiniteSet(S) /\ Cardinality(S) \in Nat
          /\ Copies(e, S) \in Nat /\ Copies(e, S) >= Cardinality(S)
          /\ (\A l \in S : e.lists[l].n = 1) => Copies(e, S) = Cardinality(S)
<1>1. IsFiniteSet(S)
  BY ListsFinite, FS_Subset
<1>2. \A l \in S : e.lists[l].n \in Nat \ {0}
  BY ListsFinite
<1> QED
  BY <1>1, <1>2, CopiesCounted, FS_CardinalityType

(* A base copy is one nobody has to be relieved of, and without one there  *)
(* are no copies but those of the lists.                                   *)
LEMMA BaseCopyIsSpare ==
    ASSUME NEW kind, NEW e, WellFormed(e, kind)
    PROVE IF HasBaseCopy(e) THEN Spare(e) ELSE e.plain = 0
<1>1. e.plain \in Nat
  BY EntryFields
<1> DEFINE c == Copies(e, Lists(e))
           k == Cardinality(Lists(e))
<1>2. c \in Nat /\ k \in Nat /\ c >= k /\ ((\A l \in Lists(e) : e.lists[l].n = 1) => c = k)
  BY CountsOf
<1>3. HasBaseCopy(e) <=> e.plain + c > k
  BY DEF HasBaseCopy, Total
<1> HIDE DEF c, k
<1>4. CASE HasBaseCopy(e) /\ \A l \in Lists(e) : e.lists[l].n = 1
  BY <1>1, <1>2, <1>3, <1>4 DEF Spare
<1>5. CASE HasBaseCopy(e) /\ \E l \in Lists(e) : e.lists[l].n # 1
  <2>1. \A l \in Lists(e) : e.lists[l].n # 1 => e.lists[l].worn = "no"
    BY EntryFields
  <2> QED
    BY <1>5, <2>1 DEF Spare, NotWorn
<1>6. CASE ~HasBaseCopy(e)
  BY <1>1, <1>2, <1>3, <1>6
<1> QED
  BY <1>4, <1>5, <1>6

(* A row is of one copy with data of its own or of the copies without.     *)
LEMMA RowsAre ==
    ASSUME NEW kind, NEW e, WellFormed(e, kind), NEW row \in Rows(e)
    PROVE /\ row.lists \subseteq Lists(e) /\ row.count \in Nat
          /\ \A l \in row.lists : e.lists[l].own => row.lists = {l} /\ row.count = 1
          /\ row.lists = {} => row.count = e.plain /\ e.plain > 0
          /\ \A l \in row.lists : row.lists = {l} /\ e.lists[l].n = 1 /\ e.plain = 0 => row.count = 1
<1> DEFINE bare == {l \in Lists(e) : ~e.lists[l].own}
           rest == e.plain + Copies(e, bare)
<1>1. e.plain \in Nat
  BY EntryFields
<1>2. Copies(e, bare) \in Nat /\ (bare = {} => Copies(e, bare) = 0)
      /\ \A l : bare = {l} /\ e.lists[l].n = 1 => Copies(e, bare) = 1
  <2>1. bare \in SUBSET Lists(e)
    OBVIOUS
  <2> HIDE DEF bare
  <2>2. /\ Copies(e, bare) \in Nat
        /\ (\A l \in bare : e.lists[l].n = 1) => Copies(e, bare) = Cardinality(bare)
    BY <2>1, CountsOf
  <2> QED
    BY <2>2, FS_EmptySet, FS_Singleton
<1>3. CASE \E l \in Lists(e) \ bare : row = [lists |-> {l}, count |-> 1]
  BY <1>3
<1>4. CASE row = [lists |-> bare, count |-> rest] /\ rest > 0
  <2>1. row.lists = bare /\ row.count = rest
    BY <1>4
  <2> HIDE DEF rest
  <2>2. \A l \in row.lists : ~e.lists[l].own /\ l \in Lists(e)
    BY <2>1
  <2> HIDE DEF bare
  <2> QED
    BY <1>1, <1>2, <1>4, <2>1, <2>2 DEF rest
<1> QED
  BY <1>3, <1>4 DEF Rows

LEMMA SingleIs ==
    ASSUME NEW S, IsFiniteSet(S), NEW l \in S, Cardinality(S) <= 1
    PROVE S = {l} /\ Cardinality(S) = 1
<1>1. Cardinality(S) \in Nat /\ Cardinality(S) # 0
  BY FS_CardinalityType, FS_EmptySet
<1>2. Cardinality(S) = 1
  BY <1>1
<1> QED
  BY <1>2, FS_Singleton

(* The hand asked for is the one the kind goes to, or the row is of one    *)
(* list.                                                                   *)
Definite(row, kind, hand) ==
    SlotForObject(kind, hand) = hand \/ Cardinality(row.lists) <= 1 \/ kind = "armor"

LEMMA PreferredServes ==
    ASSUME NEW kind, NEW e, WellFormed(e, kind), NEW row \in Rows(e), row.lists # {},
           NEW hand \in Hands, Definite(row, kind, hand),
           NEW l \in PreferredLists(e, row, kind, hand), NEW h, h = SlotForObject(kind, hand)
    PROVE /\ l \in row.lists
          /\ row.lists \cap InHand(e, h) # {} => l \in InHand(e, h)
          /\ row.lists \cap InHand(e, h) = {} /\ row.lists \cap NotWorn(e) # {} => l \in NotWorn(e)
<1>1. row.lists \subseteq Lists(e)
  BY RowsAre
<1>2. row.lists \cap Lists(e) = row.lists
  BY <1>1
<1>3. IsFiniteSet(row.lists)
  BY <1>1, ListsFinite, FS_Subset
<1> DEFINE worn == row.lists \cap (IF kind = "armor" THEN Lists(e) \ NotWorn(e) ELSE InHand(e, hand))
           best == CASE worn # {} -> worn
                     [] worn = {} /\ row.lists \cap NotWorn(e) # {} -> row.lists \cap NotWorn(e)
                     [] OTHER -> row.lists
           found == IF Cardinality(row.lists) = 1 THEN row.lists ELSE best
<1>4. l \in found
  BY <1>2 DEF PreferredLists
<1>5. CASE Cardinality(row.lists) <= 1
  <2>1. PICK m \in row.lists : TRUE
    OBVIOUS
  <2>2. row.lists = {m} /\ Cardinality(row.lists) = 1
    BY <1>3, <1>5, SingleIs
  <2> QED
    BY <1>4, <2>2
<1>6. CASE Cardinality(row.lists) # 1 /\ ~(Cardinality(row.lists) <= 1)
  <2>1. l \in best
    BY <1>4, <1>6
  <2>2. worn = row.lists \cap InHand(e, h)
    <3>1. CASE kind = "armor"
      <4>1. h = "right" /\ InHand(e, "left") = {}
        BY <3>1, HandsHold DEF SlotForObject, Hands
      <4>2. \A m \in Lists(e) : e.lists[m].worn \in {"no", "right", "left"}
        BY EntryFields DEF XList, Hands
      <4> QED
        BY <1>1, <3>1, <4>1, <4>2 DEF NotWorn, InHand
    <3>2. CASE kind # "armor" /\ h = hand
      BY <3>2
    <3> QED
      BY <1>6, <3>1, <3>2 DEF Definite
  <2> HIDE DEF worn
  <2> QED
    BY <2>1, <2>2
<1>7. Cardinality(row.lists) <= 1
      \/ (Cardinality(row.lists) # 1 /\ ~(Cardinality(row.lists) <= 1))
  <2>1. Cardinality(row.lists) \in Nat
    BY <1>3, FS_CardinalityType
  <2> QED
    BY <2>1
<1> QED
  BY <1>5, <1>6, <1>7

Serves(kind, e, row, h, x) ==
    LET held == InHand(e, h)
        other == InHand(e, Opposite(h))
        single == \E l \in row.lists \cap NotWorn(e) : e.lists[l].own
    IN  /\ row.lists \cap held # {} => InHand(x, h) = {}
        /\ row.lists \cap held = {} /\ single => InHand(x, h) = row.lists
        /\ row.lists \cap held = {} /\ ~single /\ held = {} => InHand(x, h) # {}
        /\ kind = "weapon" /\ held = {} /\ other # {} /\ row.count > 1
           => InHand(x, Opposite(h)) = other

LEMMA PicksOfHeld ==
    ASSUME NEW kind, NEW e, WellFormed(e, kind), NEW hand \in Hands, NEW l,
           l \in InHand(e, SlotForObject(kind, hand)), NEW p \in ModePick(e, kind, hand, l)
    PROVE p = StrictPick(l, "unequip", SlotForObject(kind, hand))
<1> DEFINE h == SlotForObject(kind, hand)
<1>1. h \in Hands /\ Opposite(h) \in Hands \ {h}
  BY SlotFits, OtherHand
<1>2. l # NoList /\ l \notin NotWorn(e) /\ l \notin InHand(e, Opposite(h))
  BY <1>1, ListsFinite DEF InHand, NotWorn, Hands
<1>3. CASE kind \in {"weapon", "twoHander", "scroll"}
  BY <1>2, <1>3 DEF ModePick, ScrollPick, WeaponPick
<1>4. CASE kind = "torch"
  <2>1. h = "left" /\ p \in TorchPick(e, l) /\ l \in InHand(e, "left")
    BY <1>4 DEF SlotForObject, ModePick
  <2>2. p = StrictPick(l, "unequip", "left")
    <3> DEFINE do == CASE l \in InHand(e, "left") -> "unequip"
                       [] l \in InHand(e, "right") -> "move"
                       [] OTHER -> "equip"
    <3>1. p = StrictPick(l, do, "left")
      BY <1>2, <2>1 DEF TorchPick
    <3>2. l \notin InHand(e, "right")
      BY <2>1 DEF InHand
    <3>3. do = "unequip"
      BY <2>1, <3>2
    <3> QED
      BY <3>1, <3>3
  <2> QED
    BY <2>1, <2>2
<1>5. CASE kind \notin {"weapon", "twoHander", "scroll", "torch"}
  <2>1. h = "right" /\ p \in ArmorPick(e, l)
    BY <1>5 DEF SlotForObject, ModePick, AmmoPick
  <2>2. p = StrictPick(l, "unequip", "right")
    BY <1>2, <2>1 DEF ArmorPick
  <2> QED
    BY <2>1, <2>2
<1> QED
  BY <1>3, <1>4, <1>5

LEMMA PicksOfIdle ==
    ASSUME NEW kind, NEW e, WellFormed(e, kind), NEW hand \in Hands, NEW l, l \in NotWorn(e),
           NEW p \in ModePick(e, kind, hand, l)
    PROVE p = StrictPick(l, "equip", SlotForObject(kind, hand))
<1> DEFINE h == SlotForObject(kind, hand)
<1>1. l # NoList /\ \A g \in Hands : l \notin InHand(e, g)
  BY ListsFinite DEF InHand, NotWorn, Hands
<1>2. h \in Hands /\ Opposite(h) \in Hands /\ "left" \in Hands /\ "right" \in Hands
  BY SlotFits, OtherHand DEF Hands
<1>3. CASE kind \in {"weapon", "twoHander", "scroll"}
  BY <1>1, <1>2, <1>3 DEF ModePick, ScrollPick, WeaponPick
<1>4. CASE kind = "torch"
  <2>1. h = "left"
    BY <1>4 DEF SlotForObject
  <2> QED
    BY <1>1, <1>2, <1>4, <2>1 DEF ModePick, TorchPick
<1>5. CASE kind \notin {"weapon", "twoHander", "scroll", "torch"}
  <2>1. h = "right"
    BY <1>5 DEF SlotForObject
  <2> QED
    BY <1>1, <1>5, <2>1 DEF ModePick, AmmoPick, ArmorPick
<1> QED
  BY <1>3, <1>4, <1>5

(* Only weapons and scrolls can be in the other hand.                      *)
LEMMA PicksOfOther ==
    ASSUME NEW kind, NEW e, WellFormed(e, kind), NEW hand \in Hands, NEW h, h = SlotForObject(kind, hand),
           NEW l, l \in InHand(e, Opposite(h)), NEW p \in ModePick(e, kind, hand, l)
    PROVE \/ kind # "weapon" /\ \E m \in NotWorn(e) : p = StrictPick(m, "equip", h)
          \/ HasBaseCopy(e) /\ p = BaseFallback("equip", h)
          \/ ~HasBaseCopy(e) /\ p = StrictPick(l, "move", h)
<1>1. h \in Hands /\ Opposite(h) \in Hands \ {h} /\ SlotForObject(kind, Opposite(h)) = Opposite(h)
  BY SlotFits, OtherHand, HandsHold
<1>2. l # NoList /\ l \notin NotWorn(e) /\ l \notin InHand(e, h)
  BY <1>1, ListsFinite DEF InHand, NotWorn, Hands
<1>3. kind = "weapon" \/ kind = "scroll"
  BY <1>1 DEF SlotForObject, Opposite, Hands
<1>4. CASE kind = "weapon"
  BY <1>2, <1>4 DEF ModePick, WeaponPick
<1>5. CASE kind = "scroll" /\ NotWorn(e) = {}
  BY <1>2, <1>5 DEF ModePick, ScrollPick, WeaponPick
<1>6. CASE kind = "scroll" /\ NotWorn(e) # {}
  BY <1>2, <1>6 DEF ModePick, ScrollPick
<1> QED
  BY <1>3, <1>4, <1>5, <1>6

LEMMA ServesHeld ==
    ASSUME NEW kind, NEW e, WellFormed(e, kind), NEW row, NEW h \in Hands,
           NEW l, l \in row.lists \cap InHand(e, h), NEW x \in UnequipObject(e, l, h)
    PROVE Serves(kind, e, row, h, x)
<1>1. InHand(x, h) = {}
  BY UnequipWell
<1> QED
  BY <1>1 DEF Serves

LEMMA ServesIdle ==
    ASSUME NEW kind, NEW e, WellFormed(e, kind), NEW row \in Rows(e), NEW h \in Hands,
           SlotForObject(kind, h) = h, NEW l, l \in row.lists \cap NotWorn(e),
           row.lists \cap InHand(e, h) = {}, NEW g \in Addresses \ Lists(e),
           NEW x \in EquipObject(e, l, h, g)
    PROVE Serves(kind, e, row, h, x)
<1>1. l \in Lists(e) /\ l # NoList
  BY ListsFinite DEF NotWorn
<1>2. /\ InHand(x, h) # {}
      /\ e.lists[l].n = 1 => InHand(x, h) = {l}
      /\ \A k \in Hands \ {h} : InHand(x, k) = InHand(e, k)
  <2>1. IsEquipped(e, x, h, l)
    BY <1>1, EquipWell
  <2> QED
    BY <1>1, <2>1 DEF IsEquipped
<1>3. InHand(x, Opposite(h)) = InHand(e, Opposite(h))
  BY <1>2, OtherHand
<1>4. ASSUME NEW m \in row.lists \cap NotWorn(e), e.lists[m].own PROVE InHand(x, h) = row.lists
  <2>1. row.lists = {m} /\ m = l
    BY <1>4, RowsAre
  <2>2. e.lists[l].n = 1
    BY <1>1, <1>4, <2>1, EntryFields
  <2> QED
    BY <1>2, <2>1, <2>2
<1> QED
  BY <1>2, <1>3, <1>4 DEF Serves

(* Any copy serves a row that none is worn of there and none lies idle of, *)
(* but only one that nobody is relieved of when the row has some to spare. *)
LEMMA ServesAny ==
    ASSUME NEW kind, NEW e, NEW row, NEW h \in Hands, row.lists \cap NotWorn(e) = {},
           row.lists \cap InHand(e, h) = {}, NEW x,
           InHand(e, h) = {} => InHand(x, h) # {},
           kind = "weapon" /\ row.count > 1 /\ InHand(e, h) = {}
              => InHand(x, Opposite(h)) = InHand(e, Opposite(h))
    PROVE Serves(kind, e, row, h, x)
BY DEF Serves

(* A move puts a copy on, whether its list outlives being taken off or not.*)
LEMMA MoveServes ==
    ASSUME NEW kind, NEW e, WellFormed(e, kind), NEW h \in Hands, SlotForObject(kind, h) = h,
           NEW l \in Lists(e) \cup {NoList}, l = NoList => Spare(e), NEW g \in Addresses \ Lists(e),
           NEW x \in Applied(e, StrictPick(l, "move", h), g)
    PROVE InHand(x, h) # {}
<1>1. PICK y \in UnequipObject(e, l, Opposite(h)) :
        x \in EquipObject(y, IF l \in Lists(y) THEN l ELSE NoList, h, g)
  BY DEF Applied, StrictPick
<1>2. /\ WellFormed(y, kind) /\ ComesFrom(e, y, {}) /\ NotWorn(e) \subseteq NotWorn(y)
      /\ y.plain >= e.plain /\ (l \in Lists(e) \ Lists(y) => y.plain > 0)
  BY OtherHand, UnequipWell
<1>3. g \in Addresses \ Lists(y) /\ e.plain \in Nat /\ y.plain \in Nat
  BY <1>2, EntryFields DEF ComesFrom
<1>4. l \notin Lists(y) => Spare(y)
  BY <1>2, <1>3 DEF Spare
<1> DEFINE k == IF l \in Lists(y) THEN l ELSE NoList
<1>5. k \in Lists(y) \cup {NoList} /\ x \in EquipObject(y, k, h, g) /\ (k # NoList \/ Spare(y))
  <2>1. \A m \in Lists(y) : m # NoList
    BY <1>2, ListsFinite
  <2> QED
    BY <1>1, <1>4, <2>1
<1> HIDE DEF k
<1> QED
  <2>1. IsEquipped(y, x, h, k)
    BY <1>2, <1>3, <1>5, EquipWell
  <2> QED
    BY <1>5, <2>1 DEF IsEquipped

LEMMA BaseServes ==
    ASSUME NEW kind, NEW e, WellFormed(e, kind), NEW s, NEW f, Grown(kind, e, s, f), NEW row \in Rows(e),
           row.lists = {}, NEW hand \in Hands, NEW h, h = SlotForObject(kind, hand),
           NEW g \in Addresses \ Lists(s), NEW x \in Applied(s, BaseFallbackPick(s, row, kind, hand), g)
    PROVE Serves(kind, e, row, h, x)
<1>1. h \in Hands /\ SlotForObject(kind, h) = h /\ Opposite(h) \in Hands \ {h}
  BY SlotFits, OtherHand
<1>2. row.count \in Nat /\ Spare(e)
  BY RowsAre DEF Spare
<1>3. WellFormed(s, kind) /\ Spare(s) /\ (\A k \in Hands : InHand(s, k) = InHand(e, k))
  BY <1>2 DEF Grown
<1>4. CASE InHand(e, h) # {}
  BY <1>4 DEF Serves
<1>5. CASE InHand(e, h) = {} /\ BaseFallbackPick(s, row, kind, hand) = BaseFallback("equip", h)
  <2>1. x \in EquipObject(s, NoList, h, g)
    BY <1>5 DEF Applied, BaseFallback, StrictPick
  <2>2. IsEquipped(s, x, h, NoList)
    BY <1>1, <1>3, <2>1, EquipWell
  <2>3. InHand(s, h) = {} /\ Opposite(h) \in Hands \ {h} /\ Spare(s)
    BY <1>1, <1>3, <1>5
  <2>4. InHand(x, h) # {} /\ InHand(x, Opposite(h)) = InHand(s, Opposite(h))
    BY ONLY <2>2, <2>3 DEF IsEquipped
  <2>5. InHand(x, h) # {} /\ InHand(x, Opposite(h)) = InHand(e, Opposite(h))
    BY <1>3, <2>3, <2>4
  <2> QED
    BY <1>1, <2>5, ServesAny
<1>6. CASE InHand(e, h) = {} /\ BaseFallbackPick(s, row, kind, hand) # BaseFallback("equip", h)
  <2>1. ~EquippedIn(s, h)
    BY <1>1, <1>3, <1>6 DEF EquippedIn
  <2>2. BaseFallbackPick(s, row, kind, hand) = StrictPick(NoList, "move", h)
        /\ (row.count <= 1 \/ kind = "twoHander")
    BY <1>6, <2>1 DEF BaseFallbackPick, BaseFallback
  <2>3. InHand(x, h) # {}
    BY <1>1, <1>3, <2>2, MoveServes
  <2>4. ~(kind = "weapon" /\ row.count > 1)
    BY <1>2, <2>2
  <2> QED
    BY <1>1, <2>3, <2>4, ServesAny
<1> QED
  BY <1>4, <1>5, <1>6

LEMMA OtherServes ==
    ASSUME NEW kind, NEW e, WellFormed(e, kind), NEW row \in Rows(e), NEW hand \in Hands,
           NEW h, h = SlotForObject(kind, hand), NEW S, NEW donor,
           row.lists \cap InHand(e, h) = {}, row.lists \cap NotWorn(e) = {},
           NEW l \in row.lists, NEW f \in Addresses \ Lists(e), NEW g \in Addresses \ Lists(e), f # g,
           NEW p \in ModePick(e, kind, hand, l), NEW u \in Upgraded(e, p, S, donor, f),
           NEW x \in Applied(u.entry, u.pick, g)
    PROVE Serves(kind, e, row, h, x)
<1>1. h \in Hands /\ SlotForObject(kind, h) = h /\ Opposite(h) \in Hands \ {h}
  BY SlotFits, OtherHand
<1>2. row.lists \subseteq InHand(e, Opposite(h))
  <2>1. \A m \in row.lists : m \in Lists(e) /\ e.lists[m].worn \in {"no"} \cup Hands
    BY RowsAre, EntryFields DEF XList
  <2> QED
    BY <1>1, <2>1, OtherHand DEF InHand, NotWorn
<1>3. l \in InHand(e, Opposite(h)) /\ l \in Lists(e) /\ l # NoList /\ row.lists = {l}
  BY <1>1, <1>2, HandsHold, ListsFinite DEF InHand
<1>4. CASE kind # "weapon" /\ \E m \in NotWorn(e) : p = StrictPick(m, "equip", h)
  <2>1. PICK m \in NotWorn(e) : p = StrictPick(m, "equip", h)
    BY <1>4
  <2>2. m \in Lists(e) /\ m # NoList
    BY ListsFinite DEF NotWorn
  <2>3. p.list = m /\ p.do = "equip" /\ p.hand = h
    BY <2>1 DEF StrictPick
  <2>4. u.entry = e /\ u.pick = p
    BY <2>2, <2>3 DEF Upgraded
  <2>5. x \in EquipObject(e, m, h, g)
    BY <2>3, <2>4 DEF Applied
  <2>6. IsEquipped(e, x, h, m)
    BY <1>1, <2>2, <2>5, EquipWell
  <2>7. InHand(x, h) # {}
    BY <2>2, <2>6 DEF IsEquipped
  <2> QED
    BY <1>1, <1>4, <2>7, ServesAny
<1>5. CASE HasBaseCopy(e) /\ p = BaseFallback("equip", h)
  <2>1. IsPick(e, h, p) /\ p.list = NoList /\ p.do = "equip"
    BY <1>5 DEF BaseFallback, StrictPick, IsPick
  <2>2. f \in Lists(e) => e.plain = 0
    OBVIOUS
  <2>3. /\ Grown(kind, e, u.entry, f) /\ IsPick(u.entry, h, u.pick) /\ u.pick.do = p.do
        /\ u.pick.list \in NotWorn(u.entry) \cup {NoList}
    BY <2>1, <2>2, UpgradedWell
  <2>4. WellFormed(u.entry, kind) /\ Spare(u.entry) /\ g \in Addresses \ Lists(u.entry)
        /\ \A k \in Hands : InHand(u.entry, k) = InHand(e, k)
    BY <1>5, <2>3, BaseCopyIsSpare DEF Grown, ComesFrom
  <2>5. x \in EquipObject(u.entry, u.pick.list, h, g) /\ u.pick.list \in Lists(u.entry) \cup {NoList}
    BY <2>1, <2>3 DEF Applied, IsPick
  <2>6. IsEquipped(u.entry, x, h, u.pick.list)
    BY <1>1, <2>4, <2>5, EquipWell
  <2>7. /\ InHand(x, h) # {}
        /\ InHand(e, h) = {} => InHand(x, Opposite(h)) = InHand(e, Opposite(h))
    BY <1>1, <2>3, <2>4, <2>6 DEF IsEquipped
  <2> QED
    BY <1>1, <2>7, ServesAny
<1>6. CASE ~HasBaseCopy(e) /\ p = StrictPick(l, "move", h)
  <2>1. p.list = l
    BY <1>6 DEF StrictPick
  <2>2. u.entry = e /\ u.pick = p
    BY <1>3, <2>1 DEF Upgraded
  <2>3. InHand(x, h) # {}
    BY <1>1, <1>3, <1>6, <2>2, MoveServes
  <2>4. e.plain = 0 /\ e.lists[l].n = 1
    BY <1>1, <1>3, <1>6, BaseCopyIsSpare, EntryFields DEF InHand, Hands
  <2>5. row.count = 1
    BY <1>3, <2>4, RowsAre
  <2> QED
    BY <1>1, <2>3, <2>5, ServesAny
<1> QED
  BY <1>3, <1>4, <1>5, <1>6, PicksOfOther

(* The row shows the actor as it is, and the hand is definite.             *)
LEMMA ToggledServes ==
    ASSUME NEW kind, NEW e, WellFormed(e, kind), NEW row \in Rows(e), NEW hand \in Hands,
           Definite(row, kind, hand), NEW S, NEW donor,
           NEW f \in Addresses \ Lists(e), NEW g \in Addresses \ Lists(e), f # g,
           NEW u \in PicksFromSelection(e, row, kind, hand, S, donor, f),
           NEW x \in Applied(u.entry, u.pick, g)
    PROVE Serves(kind, e, row, SlotForObject(kind, hand), x)
<1> DEFINE h == SlotForObject(kind, hand)
<1>1. h \in Hands /\ SlotForObject(kind, h) = h
  BY SlotFits
<1>2. PICK s \in StrictEntries(e, S, donor, f) :
        IF Lists(s) = {} \/ row.lists = {}
        THEN u = [entry |-> s, pick |-> BaseFallbackPick(s, row, kind, hand)]
        ELSE \E l \in PreferredLists(s, row, kind, hand) : \E p \in ModePick(s, kind, hand, l) :
                u \in Upgraded(s, p, S, donor, f)
  BY DEF PicksFromSelection
<1> HIDE DEF h
<1>3. Grown(kind, e, s, f) /\ (Lists(e) # {} => s = e)
  BY StrictWell
<1>4. row.lists \subseteq Lists(e)
  BY RowsAre
<1>5. CASE row.lists = {}
  <2>1. u.entry = s /\ u.pick = BaseFallbackPick(s, row, kind, hand)
    BY <1>2, <1>5
  <2>2. g \in Addresses \ Lists(s)
    BY <1>3 DEF Grown, ComesFrom
  <2> QED
    BY <1>3, <1>5, <2>1, <2>2, BaseServes DEF h
<1>6. CASE row.lists # {}
  <2>1. s = e /\ Lists(e) # {}
    BY <1>3, <1>4, <1>6
  <2>2. PICK l \in PreferredLists(e, row, kind, hand) : \E p \in ModePick(e, kind, hand, l) :
          u \in Upgraded(e, p, S, donor, f)
    BY <1>2, <1>6, <2>1
  <2>3. PICK p \in ModePick(e, kind, hand, l) : u \in Upgraded(e, p, S, donor, f)
    BY <2>2
  <2>4. /\ l \in row.lists
        /\ row.lists \cap InHand(e, h) # {} => l \in InHand(e, h)
        /\ row.lists \cap InHand(e, h) = {} /\ row.lists \cap NotWorn(e) # {} => l \in NotWorn(e)
    BY <1>6, PreferredServes DEF h
  <2>5. l \in Lists(e) /\ l # NoList
    BY <1>4, <2>4, ListsFinite
  <2>6. p.list = l => u.entry = e /\ u.pick = p
    BY <2>3, <2>5 DEF Upgraded
  <2>7. CASE row.lists \cap InHand(e, h) # {}
    <3>1. p = StrictPick(l, "unequip", h)
      BY <2>4, <2>7, PicksOfHeld DEF h
    <3>2. x \in UnequipObject(e, l, h)
      <4>1. p.list = l /\ p.do = "unequip" /\ p.hand = h
        BY <3>1 DEF StrictPick
      <4> QED
        BY <2>6, <4>1 DEF Applied
    <3> QED
      BY <1>1, <2>4, <2>7, <3>2, ServesHeld DEF h
  <2>8. CASE row.lists \cap InHand(e, h) = {} /\ row.lists \cap NotWorn(e) # {}
    <3>1. p = StrictPick(l, "equip", h)
      BY <2>4, <2>8, PicksOfIdle DEF h
    <3>2. x \in EquipObject(e, l, h, g)
      <4>1. p.list = l /\ p.do = "equip" /\ p.hand = h
        BY <3>1 DEF StrictPick
      <4> QED
        BY <2>6, <4>1 DEF Applied
    <3> QED
      BY <1>1, <2>4, <2>8, <3>2, ServesIdle DEF h
  <2>9. CASE row.lists \cap InHand(e, h) = {} /\ row.lists \cap NotWorn(e) = {}
    BY <2>3, <2>4, <2>9, OtherServes DEF h
  <2> QED
    BY <2>7, <2>8, <2>9
<1> QED
  BY <1>5, <1>6

----------------------------------------------------------------------------
(* Gear: well formed, no list in two places, and a synthetic list stands    *)
(* for copies without data of their own.                                    *)

AllLists(g) == UNION {Lists(g[h]) : h \in Holders}

Sound(g, S) ==
    /\ g = [h \in Holders |-> g[h]]
    /\ \A h \in Holders : WellFormed(g[h], game.kind)
    /\ \A h \in Holders, i \in Holders : h # i => Lists(g[h]) \cap Lists(g[i]) = {}
    /\ \A h \in Holders : \A l \in Lists(g[h]) \cap S : ~g[h].lists[l].own

LEMMA SwapSound ==
    ASSUME NEW g, NEW S, Sound(g, S), NEW a \in Holders, NEW x, WellFormed(x, game.kind),
           NEW A, A \cap AllLists(g) = {}, ComesFrom(g[a], x, A), NEW M \in SUBSET A,
           NEW y, y = [g EXCEPT ![a] = x]
    PROVE Sound(y, S \cup M) /\ AllLists(y) \subseteq AllLists(g) \cup A
<1>1. y = [h \in Holders |-> y[h]] /\ \A h \in Holders : y[h] = IF h = a THEN x ELSE g[h]
  BY DEF Sound
<1>2. \A h \in Holders : WellFormed(y[h], game.kind)
  BY <1>1 DEF Sound
<1>3. \A h \in Holders : Lists(g[h]) \subseteq AllLists(g)
  BY DEF AllLists
<1>4. ASSUME NEW h \in Holders, NEW i \in Holders, h # i PROVE Lists(y[h]) \cap Lists(y[i]) = {}
  BY <1>1, <1>3, <1>4 DEF Sound, ComesFrom
<1>5. ASSUME NEW h \in Holders, NEW l \in Lists(y[h]) \cap (S \cup M) PROVE ~y[h].lists[l].own
  <2>1. CASE h = a
    BY <1>1, <1>3, <1>5, <2>1 DEF Sound, ComesFrom
  <2>2. CASE h # a
    BY <1>1, <1>3, <1>5, <2>2 DEF Sound
  <2> QED
    BY <2>1, <2>2
<1>6. AllLists(y) \subseteq AllLists(g) \cup A
  <2>1. \A h \in Holders : Lists(y[h]) \subseteq AllLists(g) \cup A
    BY <1>1, <1>3 DEF ComesFrom
  <2> QED
    BY <2>1 DEF AllLists
<1>7. Sound(y, S \cup M)
  BY <1>1, <1>2, <1>4, <1>5 DEF Sound
<1> QED
  BY <1>6, <1>7

(* A copy that is there to be taken.                                        *)
IsCopy(e, l) == l \in Lists(e) \/ (l = NoList /\ e.plain > 0)

LEMMA TakeOutWell ==
    ASSUME NEW kind, NEW e, WellFormed(e, kind), NEW l, IsCopy(e, l), NEW x, x = TakeOut(e, l)
    PROVE /\ WellFormed(x, kind) /\ ComesFrom(e, x, {})
          /\ l # NoList /\ e.lists[l].own => l \notin Lists(x)
<1>1. /\ e.plain \in Nat /\ NoList \notin Lists(e)
      /\ \A m \in Lists(e) : e.lists[m].own \/ e.lists[m].worn # "no" => e.lists[m].n = 1
  BY ListsFinite, EntryFields
<1>2. CASE l = NoList
  <2>1. x \in [plain : Nat, lists : [Lists(x) -> XList]] /\ Lists(x) = Lists(e) /\ x.lists = e.lists
    BY <1>1, <1>2 DEF TakeOut, WellFormed, Lists, IsCopy
  <2>2. \A h \in Hands : InHand(x, h) = InHand(e, h)
    BY <2>1 DEF InHand
  <2>3. WellFormed(x, kind)
    BY <2>1, <2>2, FormsWell DEF WellFormed
  <2> QED
    BY <1>2, <2>1, <2>3 DEF ComesFrom
<1>3. CASE l # NoList /\ e.lists[l].n = 1
  <2>1. l \in Lists(e) /\ x = [plain |-> e.plain, lists |-> Without(e, l)]
    BY <1>1, <1>3 DEF TakeOut, IsCopy, WellFormed
  <2>2. /\ x \in [plain : Nat, lists : [Lists(x) -> XList]] /\ Lists(x) = Lists(e) \ {l}
        /\ \A m \in Lists(x) : x.lists[m] = e.lists[m]
    BY <1>1, <2>1, Dissolve
  <2>3. \A h \in Hands : InHand(x, h) \subseteq InHand(e, h)
    BY <2>2 DEF InHand
  <2>4. WellFormed(x, kind)
    BY <1>1, <2>2, <2>3, FormsWell DEF WellFormed
  <2> QED
    BY <2>2, <2>4 DEF ComesFrom
<1>4. CASE l # NoList /\ e.lists[l].n # 1
  <2>1. l \in Lists(e) /\ x = OneLess(e, l)
    BY <1>4 DEF TakeOut, IsCopy
  <2>2. /\ WellFormed(x, kind) /\ Lists(x) = Lists(e)
        /\ \A m \in Lists(e) \ {l} : x.lists[m] = e.lists[m]
        /\ x.lists[l] = [n |-> e.lists[l].n - 1, own |-> FALSE, worn |-> "no"]
    BY <1>4, <2>1, Split
  <2> QED
    BY <1>1, <1>4, <2>1, <2>2 DEF ComesFrom
<1> QED
  BY <1>2, <1>3, <1>4

(* What the one who gets copy l of d has then.                              *)
Got(kind, e, d, l, x) ==
    /\ WellFormed(x, kind)
    /\ \A h \in Hands : InHand(x, h) = InHand(e, h)
    /\ IF l # NoList /\ d.lists[l].own
       THEN /\ Lists(x) = Lists(e) \cup {l} /\ x.lists[l].own /\ x.lists[l].n = 1
            /\ \A m \in Lists(e) : x.lists[m] = e.lists[m]
       ELSE x.plain > 0 /\ Lists(x) = Lists(e) /\ \A m \in Lists(e) : x.lists[m] = e.lists[m]

LEMMA GiveWell ==
    ASSUME NEW kind, NEW e, WellFormed(e, kind), NEW d, WellFormed(d, kind), NEW l, IsCopy(d, l),
           l \notin Lists(e), NEW x, x = Give(e, d, l)
    PROVE Got(kind, e, d, l, x)
<1>1. e.plain \in Nat /\ \A m \in Lists(e) : e.lists[m].own \/ e.lists[m].worn # "no" => e.lists[m].n = 1
  BY EntryFields
<1>2. CASE l # NoList /\ d.lists[l].own
  <2> DEFINE r == [d.lists[l] EXCEPT !.worn = "no"]
  <2>1. l \in Lists(d) /\ d.lists[l] \in XList /\ d.lists[l].n = 1 /\ l \in Addresses
    BY <1>2, EntryFields DEF IsCopy
  <2>2. r \in XList /\ r.own /\ r.n = 1 /\ r.worn = "no"
    BY <1>2, <2>1 DEF XList
  <2> HIDE DEF r
  <2>3. x = [plain |-> e.plain, lists |-> With(e, l, r)]
    BY <1>2 DEF Give, WellFormed, r
  <2>4. /\ x \in [plain : Nat, lists : [Lists(x) -> XList]] /\ Lists(x) = Lists(e) \cup {l}
        /\ x.lists[l] = r /\ \A m \in Lists(e) \ {l} : x.lists[m] = e.lists[m]
    BY <1>1, <2>1, <2>2, <2>3, Extend
  <2>5. \A h \in Hands : InHand(x, h) = InHand(e, h)
    BY <2>2, <2>4 DEF InHand, Hands
  <2>6. Lists(x) \subseteq Addresses
        /\ \A m \in Lists(x) : x.lists[m].own \/ x.lists[m].worn # "no" => x.lists[m].n = 1
    BY <1>1, <2>1, <2>2, <2>4, EntryFields
  <2>7. WellFormed(x, kind)
    BY <2>4, <2>5, <2>6, FormsWell DEF WellFormed
  <2> QED
    BY <1>2, <2>2, <2>4, <2>5, <2>7 DEF Got
<1>3. CASE ~(l # NoList /\ d.lists[l].own)
  <2>1. /\ x \in [plain : Nat, lists : [Lists(x) -> XList]] /\ Lists(x) = Lists(e) /\ x.lists = e.lists
        /\ x.plain > 0
    BY <1>1, <1>3 DEF Give, WellFormed, Lists
  <2>2. \A h \in Hands : InHand(x, h) = InHand(e, h)
    BY <2>1 DEF InHand
  <2>3. WellFormed(x, kind)
    BY <2>1, <2>2, FormsWell DEF WellFormed
  <2> QED
    BY <1>3, <2>1, <2>2, <2>3 DEF Got
<1> QED
  BY <1>2, <1>3

LEMMA MoveSound ==
    ASSUME NEW g, NEW S, Sound(g, S), NEW from \in Holders, NEW to \in Holders, from # to,
           NEW l, IsCopy(g[from], l), NEW y, y = Moved(g, from, to, l)
    PROVE /\ Sound(y, S) /\ AllLists(y) \subseteq AllLists(g)
          /\ Got(game.kind, g[to], g[from], l, y[to])
<1>1. y = [h \in Holders |-> y[h]]
      /\ y[from] = TakeOut(g[from], l) /\ y[to] = Give(g[to], g[from], l)
      /\ \A h \in Holders \ {from, to} : y[h] = g[h]
  <2>1. g = [h \in Holders |-> g[h]]
    BY DEF Sound
  <2> QED
    BY <2>1 DEF Moved
<1>2. WellFormed(g[from], game.kind) /\ WellFormed(g[to], game.kind) /\ Lists(g[from]) \cap Lists(g[to]) = {}
  BY DEF Sound
<1>3. l \notin Lists(g[to])
  BY <1>2, ListsFinite DEF IsCopy
<1>4. /\ WellFormed(y[from], game.kind) /\ ComesFrom(g[from], y[from], {})
      /\ l # NoList /\ g[from].lists[l].own => l \notin Lists(y[from])
  BY <1>1, <1>2, TakeOutWell
<1>5. Got(game.kind, g[to], g[from], l, y[to])
  BY <1>1, <1>2, <1>3, GiveWell
<1>6. \A h \in Holders : WellFormed(y[h], game.kind)
  BY <1>1, <1>4, <1>5 DEF Sound, Got
<1>7. /\ Lists(y[from]) \subseteq Lists(g[from])
      /\ Lists(y[to]) \subseteq Lists(g[to]) \cup (Lists(g[from]) \ Lists(y[from]))
  BY <1>4, <1>5 DEF Got, ComesFrom, IsCopy
<1>8. ASSUME NEW h \in Holders, NEW i \in Holders, h # i PROVE Lists(y[h]) \cap Lists(y[i]) = {}
  <2>1. Lists(g[from]) \cap Lists(g[to]) = {}
        /\ \A j \in Holders \ {from, to} : Lists(g[j]) \cap (Lists(g[from]) \cup Lists(g[to])) = {}
    BY DEF Sound
  <2>2. \A j \in Holders \ {from, to} : Lists(y[j]) = Lists(g[j])
    BY <1>1
  <2>3. CASE h \notin {from, to} /\ i \notin {from, to}
    BY <1>8, <2>2, <2>3 DEF Sound
  <2> QED
    BY <1>7, <1>8, <2>1, <2>2, <2>3
<1>9. ASSUME NEW h \in Holders, NEW m \in Lists(y[h]) \cap S PROVE ~y[h].lists[m].own
  <2>1. \A j \in Holders : \A k \in Lists(g[j]) \cap S : ~g[j].lists[k].own
    BY DEF Sound
  <2>2. CASE h = from
    BY <1>4, <1>9, <2>1, <2>2 DEF ComesFrom
  <2>3. CASE h = to
    <3>1. l # NoList /\ g[from].lists[l].own => l \in Lists(g[from]) /\ l \notin S
      BY <2>1 DEF IsCopy
    <3>2. m \in Lists(g[to]) /\ y[to].lists[m] = g[to].lists[m]
      BY <1>5, <1>9, <2>3, <3>1 DEF Got
    <3> QED
      BY <1>9, <2>1, <2>3, <3>2
  <2>4. CASE h \notin {from, to}
    BY <1>1, <1>9, <2>1, <2>4
  <2> QED
    BY <2>2, <2>3, <2>4
<1>10. AllLists(y) \subseteq AllLists(g)
  <2>1. \A h \in Holders : Lists(y[h]) \subseteq AllLists(g)
    BY <1>1, <1>7 DEF AllLists
  <2> QED
    BY <2>1 DEF AllLists
<1>11. Sound(y, S)
  BY <1>1, <1>6, <1>8, <1>9 DEF Sound
<1> QED
  BY <1>5, <1>10, <1>11

----------------------------------------------------------------------------
(* Steps.                                                                   *)

GearInv == Sound(gear, synthetics)

LEMMA FreshAre ==
    ASSUME HasFresh
    PROVE Fresh \in Addresses \ AllLists(gear) /\ NextFresh \in Addresses \ AllLists(gear)
          /\ Fresh # NextFresh
<1>1. Used = AllLists(gear)
  BY DEF Used, AllLists
<1>2. PICK y, z \in Addresses \ Used : y # z
  BY DEF HasFresh
<1>3. Fresh \in Addresses \ Used
  BY <1>2 DEF Fresh
<1>4. \E w \in Addresses \ Used : w # Fresh
  BY <1>2
<1>5. NextFresh \in Addresses \ Used /\ NextFresh # Fresh
  BY <1>4 DEF NextFresh
<1> QED
  BY <1>1, <1>3, <1>5

LEMMA BecomesSound ==
    ASSUME NEW g, NEW S, Sound(g, S), GearBecomes(g, S), game' = game
    PROVE GearInv'
<1>1. gear' = g /\ synthetics' \subseteq S
  BY DEF GearBecomes
<1> QED
  BY <1>1 DEF GearInv, Sound

(* The entry after a click on the actor's gear, and the lists it has made.  *)
IsNext(a, g, t) ==
    /\ WellFormed(t.entry, game.kind) /\ ComesFrom(g[a], t.entry, {Fresh, NextFresh})
    /\ t.made \subseteq {Fresh, NextFresh}

LEMMA NextSound ==
    ASSUME NEW g, Sound(g, synthetics), AllLists(g) \subseteq AllLists(gear), HasFresh,
           NEW a \in Holders, NEW t, IsNext(a, g, t), NEW y, y = [g EXCEPT ![a] = t.entry]
    PROVE Sound(y, synthetics \cup t.made)
<1> DEFINE A == {Fresh, NextFresh}
           x == t.entry
           M == t.made
<1>1. A \cap AllLists(g) = {}
  BY FreshAre
<1>2. /\ WellFormed(x, game.kind) /\ ComesFrom(g[a], x, A)
      /\ M \in SUBSET A /\ y = [g EXCEPT ![a] = x]
  BY DEF IsNext
<1> HIDE DEF A, x, M
<1>3. Sound(y, synthetics \cup M)
  BY <1>1, <1>2, SwapSound
<1> QED
  BY <1>3 DEF M

LEMMA OwnedIsNext ==
    ASSUME GearInv, HasFresh, NEW a \in Holders,
           NEW t \in Owned(a, {gear[a]} \cup StrictEntries(gear[a], synthetics, game.donor, Fresh))
    PROVE IsNext(a, gear, t)
<1>1. t.entry \in {gear[a]} \cup StrictEntries(gear[a], synthetics, game.donor, Fresh)
      /\ t.made = Lists(t.entry) \ Lists(gear[a])
  BY DEF Owned
<1>2. WellFormed(gear[a], game.kind)
  BY DEF GearInv, Sound
<1>3. Fresh \in Addresses \ Lists(gear[a])
  BY FreshAre DEF AllLists
<1>4. WellFormed(t.entry, game.kind) /\ ComesFrom(gear[a], t.entry, {Fresh})
  <2>1. CASE t.entry = gear[a]
    BY <1>2, <2>1 DEF ComesFrom
  <2>2. CASE t.entry \in StrictEntries(gear[a], synthetics, game.donor, Fresh)
    BY <1>2, <1>3, <2>2, StrictWell DEF Grown
  <2> QED
    BY <1>1, <2>1, <2>2
<1> QED
  BY <1>1, <1>4 DEF IsNext, ComesFrom

LEMMA ToggledIsNext ==
    ASSUME GearInv, HasFresh, NEW a \in Holders, NEW row, NEW hand \in Hands,
           NEW t \in Toggled(a, row, hand)
    PROVE IsNext(a, gear, t)
<1>1. CASE ~EquipAllowed
  <2>1. t \in Owned(a, {gear[a]} \cup StrictEntries(gear[a], synthetics, game.donor, Fresh))
    BY <1>1 DEF Toggled, Owned
  <2> QED
    BY <2>1, OwnedIsNext
<1>2. CASE EquipAllowed
  <2>1. PICK p \in PicksFromSelection(gear[a], row, game.kind, hand, synthetics, game.donor, Fresh) :
          /\ t.entry \in Applied(p.entry, p.pick, NextFresh)
          /\ t.made = Lists(p.entry) \ Lists(gear[a])
    BY <1>2 DEF Toggled
  <2>2. WellFormed(gear[a], game.kind)
    BY DEF GearInv, Sound
  <2>3. /\ Fresh \in Addresses \ Lists(gear[a]) /\ NextFresh \in Addresses \ Lists(gear[a])
        /\ Fresh # NextFresh
    BY FreshAre DEF AllLists
  <2> DEFINE h == SlotForObject(game.kind, hand)
  <2>4. WellFormed(p.entry, game.kind) /\ ComesFrom(gear[a], p.entry, {Fresh}) /\ IsPick(p.entry, h, p.pick)
    BY <2>2, <2>3, SelectionWell
  <2>5. h \in Hands /\ SlotForObject(game.kind, h) = h
    BY SlotFits
  <2>6. p.pick.hand = h /\ p.pick.list \in Lists(p.entry) \cup {NoList}
        /\ NextFresh \in Addresses \ Lists(p.entry)
    BY <2>3, <2>4 DEF IsPick, ComesFrom
  <2> HIDE DEF h
  <2>7. WellFormed(t.entry, game.kind) /\ ComesFrom(p.entry, t.entry, {NextFresh})
    BY <2>1, <2>4, <2>5, <2>6, AppliedWell
  <2>8. ComesFrom(gear[a], t.entry, {Fresh, NextFresh}) /\ t.made \subseteq {Fresh, NextFresh}
    BY <2>1, <2>4, <2>7 DEF ComesFrom
  <2> QED
    BY <2>7, <2>8 DEF IsNext
<1> QED
  BY <1>1, <1>2

LEMMA ToggleKeepsGear ==
    ASSUME GearInv, HasFresh, UseInv, NEW a \in Holders, NEW start \in Starts, NEW row,
           ToggleRow(a, start, row), game' = game
    PROVE GearInv'
<1>1. PICK t \in Toggled(a, row, Intent(start)) :
        GearBecomes([gear EXCEPT ![a] = t.entry], synthetics \cup t.made)
  BY DEF ToggleRow
<1>2. IsNext(a, gear, t) /\ Sound(gear, synthetics)
  BY IntentIsHand, ToggledIsNext DEF GearInv
<1> QED
  BY <1>1, <1>2, NextSound, BecomesSound

LEMMA VanillaKeepsGear ==
    ASSUME GearInv, HasFresh, menu \in Actors, NEW t, IsNext(menu, gear, t), NEW row,
           TakeVanilla(t, row), game' = game
    PROVE GearInv'
<1> DEFINE before == [gear EXCEPT ![menu] = t.entry]
<1>1. menu \in Holders /\ Player \in Holders /\ menu # Player
  BY NameAssumption DEF Holders
<1>2. PICK l \in CopiesOf(t.entry, row) :
        GearBecomes(Moved(before, menu, Player, l), synthetics \cup t.made)
  BY DEF TakeVanilla
<1>3. Sound(before, synthetics \cup t.made)
  BY <1>1, NextSound DEF GearInv
<1>4. before[menu] = t.entry
  BY <1>1 DEF GearInv, Sound
<1>5. IsCopy(before[menu], l)
  BY <1>4 DEF CopiesOf, IsCopy
<1> HIDE DEF before
<1>6. Sound(Moved(before, menu, Player, l), synthetics \cup t.made)
  BY <1>1, <1>3, <1>5, MoveSound
<1> QED
  BY <1>2, <1>6, BecomesSound

LEMMA TakeKeepsGear ==
    ASSUME GearInv, UseInv, NEW start \in Starts, NEW row, NEW mod, Take(start, row, mod)
    PROVE GearInv'
<1>1. HasFresh /\ game' = game /\ menu \in Actors
  BY DEF Take, UseInv
<1>2. \A a \in Actors : a \in Holders
  BY DEF Holders
<1>3. CASE TakeAffected(start, row)
  <2>1. PICK a \in GetAffectedTarget(TRUE) :
          UNCHANGED items \/ HeadgearPreference(a) \/ ToggleRow(a, start, row)
    BY <1>3 DEF TakeAffected
  <2>2. a \in Holders
    BY <1>2 DEF GetAffectedTarget, Actors
  <2>3. CASE UNCHANGED items
    BY <1>1, <2>3 DEF items, GearInv, Sound
  <2>4. CASE HeadgearPreference(a)
    <3>1. PICK t \in Owned(a, {gear[a]} \cup StrictEntries(gear[a], synthetics, game.donor, Fresh)) :
            GearBecomes([gear EXCEPT ![a] = t.entry], synthetics \cup t.made)
      BY <2>4 DEF HeadgearPreference
    <3> QED
      BY <1>1, <2>2, <3>1, OwnedIsNext, NextSound, BecomesSound DEF GearInv
  <2>5. CASE ToggleRow(a, start, row)
    BY <1>1, <2>2, <2>5, ToggleKeepsGear
  <2> QED
    BY <2>1, <2>3, <2>4, <2>5
<1>4. CASE TakeCorpse(start, row)
  <2>1. PICK a \in GetCorpseEquipTarget(TRUE) :
          \/ ToggleRow(a, start, row)
          \/ \E t \in Toggled(a, row, Intent(start)) : TakeVanilla(t, row)
    BY <1>4 DEF TakeCorpse
  <2>2. a = menu
    BY DEF GetCorpseEquipTarget
  <2>3. ASSUME NEW t \in Toggled(a, row, Intent(start)), TakeVanilla(t, row) PROVE GearInv'
    <3>1. IsNext(menu, gear, t)
      BY <1>1, <1>2, <2>2, <2>3, IntentIsHand, ToggledIsNext
    <3> QED
      BY <1>1, <2>3, <3>1, VanillaKeepsGear
  <2> QED
    BY <1>1, <1>2, <2>1, <2>2, <2>3, ToggleKeepsGear
<1>5. CASE TakeVanilla([entry |-> gear[menu], made |-> {}], row)
  <2>1. IsNext(menu, gear, [entry |-> gear[menu], made |-> {}])
    BY <1>1, <1>2 DEF IsNext, ComesFrom, GearInv, Sound
  <2> QED
    BY <1>1, <1>5, <2>1, VanillaKeepsGear
<1> QED
  BY <1>3, <1>4, <1>5 DEF Take

(* What the copy that came is, and what is put on for it.                   *)
LEMMA CameIsEquipped ==
    ASSUME GearInv, HasFresh, menu \in Actors, NEW l, IsCopy(gear[Player], l),
           NEW g, g = Moved(gear, Player, menu, l), NEW hand \in Hands,
           NEW t \in EquipAfterTransfer(menu, g, Captured(l), hand)
    PROVE /\ Sound(g, synthetics) /\ AllLists(g) \subseteq AllLists(gear) /\ IsNext(menu, g, t)
          /\ \A m \in InHand(t.entry, SlotForObject(game.kind, hand))
                      \ InHand(g[menu], SlotForObject(game.kind, hand)) :
                 IF Captured(l) # NoList THEN m = Captured(l) ELSE ~t.entry.lists[m].own
<1> DEFINE h == SlotForObject(game.kind, hand)
           c == Captured(l)
           e == g[menu]
<1>1. h \in Hands /\ SlotForObject(game.kind, h) = h
  BY SlotFits
<1>2. /\ Sound(g, synthetics) /\ AllLists(g) \subseteq AllLists(gear)
      /\ Got(game.kind, gear[menu], gear[Player], l, e)
  <2>1. menu \in Holders /\ Player \in Holders /\ menu # Player
    BY NameAssumption DEF Holders
  <2>2. Sound(gear, synthetics)
    BY DEF GearInv
  <2> QED
    BY <2>1, <2>2, MoveSound
<1>3. WellFormed(e, game.kind) /\ Lists(e) \subseteq AllLists(gear)
  BY <1>2 DEF Got, AllLists, Holders
<1>4. /\ Fresh \in Addresses \ Lists(e) /\ NextFresh \in Addresses \ Lists(e)
      /\ Fresh # NextFresh
  BY <1>3, FreshAre
<1>5. /\ c # NoList => c = l /\ l \in Lists(e) /\ e.lists[l].n = 1
      /\ c = NoList => e.plain > 0
  BY <1>2 DEF Got, Captured
<1>6. PICK f \in IF c # NoList THEN {[entry |-> e, list |-> c]}
                 ELSE EnsureXList(e, synthetics, game.donor, Fresh) :
        /\ t.made = Lists(f.entry) \ Lists(e)
        /\ t.entry = f.entry \/ t.entry \in EquipObject(f.entry, f.list, h, NextFresh)
  BY DEF EquipAfterTransfer
<1> HIDE DEF h, c, e
<1> DEFINE x == t.entry
<1>7. CASE c # NoList
  <2>1. f.entry = e /\ f.list = c
    BY <1>6, <1>7
  <2>2. x = e \/ x \in EquipObject(e, c, h, NextFresh)
    BY <1>6, <2>1
  <2>3. CASE x \in EquipObject(e, c, h, NextFresh)
    <3>1. WellFormed(x, game.kind) /\ ComesFrom(e, x, {NextFresh}) /\ IsEquipped(e, x, h, c)
      BY <1>1, <1>3, <1>4, <1>5, <1>7, <2>3, EquipWell
    <3>2. InHand(x, h) = {c}
      BY <1>5, <1>7, <3>1 DEF IsEquipped
    <3>3. IsNext(menu, g, t)
      BY <1>6, <2>1, <3>1 DEF IsNext, ComesFrom, e
    <3> QED
      BY <1>2, <1>7, <3>2, <3>3 DEF h, c, e
  <2>4. CASE x = e
    <3>1. IsNext(menu, g, t)
      BY <1>3, <1>6, <2>1, <2>4 DEF IsNext, ComesFrom, e
    <3> QED
      BY <1>2, <2>4, <3>1 DEF h, e
  <2> QED
    BY ONLY <2>2, <2>3, <2>4
<1>8. CASE c = NoList
  <2>1. f \in EnsureXList(e, synthetics, game.donor, Fresh)
    BY <1>6, <1>8
  <2>2. /\ Grown(game.kind, e, f.entry, Fresh)
        /\ f.list \in Lists(f.entry) \cup {NoList}
        /\ f.list = NoList => f.entry = e /\ (e.plain = 0 \/ Lists(e) = {})
        /\ f.list # NoList => (f.list \in Lists(e) \cap synthetics /\ f.entry = e)
                              \/ ~f.entry.lists[f.list].own
    BY <1>3, <1>4, <2>1, EnsureWell
  <2>3. f.list # NoList => ~f.entry.lists[f.list].own
    BY <1>2, <2>2 DEF Sound, Holders, e
  <2>4. f.list = NoList => Lists(f.entry) = {} /\ f.entry.plain > 0
    BY <1>5, <1>8, <2>2
  <2>5. /\ WellFormed(f.entry, game.kind) /\ ComesFrom(e, f.entry, {Fresh})
        /\ InHand(f.entry, h) = InHand(e, h)
    BY <1>1, <2>2 DEF Grown
  <2>6. CASE x = f.entry
    <3>1. IsNext(menu, g, t)
      BY <1>6, <2>5, <2>6 DEF IsNext, ComesFrom, e
    <3> QED
      BY <1>2, <2>5, <2>6, <3>1 DEF h, e
  <2>7. CASE x \in EquipObject(f.entry, f.list, h, NextFresh)
    <3>1. NextFresh \in Addresses \ Lists(f.entry)
      BY <1>4, <2>5 DEF ComesFrom
    <3>2. /\ WellFormed(x, game.kind) /\ ComesFrom(f.entry, x, {NextFresh})
          /\ IsEquipped(f.entry, x, h, f.list)
      BY <1>1, <2>2, <2>5, <2>7, <3>1, EquipWell
    <3>3. IsNext(menu, g, t)
      BY <1>6, <2>5, <3>2 DEF IsNext, ComesFrom, e
    <3>4. ASSUME NEW m \in InHand(x, h) \ InHand(e, h), x.lists[m].own PROVE FALSE
      <4>1. m \in InHand(x, h) \ InHand(f.entry, h) /\ m \in Lists(x)
        BY <2>5, <3>4 DEF InHand
      <4>2. f.entry.lists[m].own
        BY <3>2, <3>4, <4>1 DEF ComesFrom
      <4>3. f.list = NoList /\ (NotWorn(f.entry) # {} \/ f.entry.plain = 0)
        BY <2>3, <3>2, <3>4, <4>1, <4>2 DEF IsEquipped
      <4>4. NotWorn(f.entry) = {} /\ f.entry.plain > 0
        BY <2>4, <4>3 DEF NotWorn
      <4> QED
        BY <4>3, <4>4
    <3> QED
      BY <1>2, <1>8, <3>3, <3>4 DEF h, c, e
  <2> QED
    BY <1>6, <2>6, <2>7
<1> QED
  BY <1>7, <1>8

(* The hand that was asked for is the hand the router makes of the click,   *)
(* unless a latch that was left over misleads it.                           *)
LEMMA AskedIsIntent ==
    ASSUME UseInv, NEW start \in Starts, ~Misled(start)
    PROVE Asked(start) = Intent(start)
<1>1. None \notin Hands
  BY NameAssumption
<1>2. override # None => leftover
  BY DEF UseInv
<1> QED
  BY <1>1, <1>2 DEF Misled, Asked, Intent, GetHandIntent, Latch, AttemptEquipLatch, HandleInputLatch,
                    Starts, Hands

LEMMA GiveKeepsGear ==
    ASSUME GearInv, UseInv, NEW start \in Starts, NEW l, NEW mod, NEW held,
           GiveCopy(start, l, mod, held)
    PROVE GearInv' /\ TransferEquipsWhatCame' /\ ToggleServesHand'
<1> DEFINE g == Moved(gear, Player, menu, l)
           hand == Intent(start)
           h == SlotForObject(game.kind, hand)
           c == Captured(l)
<1>1. HasFresh /\ game' = game /\ menu \in Actors /\ IsCopy(gear[Player], l)
  BY DEF GiveCopy, UseInv, IsCopy
<1>2. menu \in Holders /\ Player \in Holders /\ menu # Player
  BY <1>1, NameAssumption DEF Holders
<1>3. hand \in Hands
  BY IntentIsHand
<1>4. \/ GearBecomes(g, synthetics) /\ last' = NoClick
      \/ \E t \in EquipAfterTransfer(menu, g, c, hand) :
            /\ GearBecomes([g EXCEPT ![menu] = t.entry], synthetics \cup t.made)
            /\ Record("transfer", start, [lists |-> {}, count |-> 1], c, g[menu], t.entry)
  BY DEF GiveCopy
<1>5. Sound(g, synthetics)
  BY <1>1, <1>2, MoveSound DEF GearInv
<1> HIDE DEF g, hand, c
<1>6. CASE GearBecomes(g, synthetics) /\ last' = NoClick
  BY <1>1, <1>5, <1>6, BecomesSound DEF NoClick, TransferEquipsWhatCame, ToggleServesHand
<1>7. ASSUME NEW t \in EquipAfterTransfer(menu, g, c, hand),
             GearBecomes([g EXCEPT ![menu] = t.entry], synthetics \cup t.made),
             Record("transfer", start, [lists |-> {}, count |-> 1], c, g[menu], t.entry)
      PROVE GearInv' /\ TransferEquipsWhatCame' /\ ToggleServesHand'
  <2>1. /\ Sound(g, synthetics) /\ AllLists(g) \subseteq AllLists(gear) /\ IsNext(menu, g, t)
        /\ \A m \in InHand(t.entry, h) \ InHand(g[menu], h) :
               IF c # NoList THEN m = c ELSE ~t.entry.lists[m].own
    BY <1>1, <1>3, <1>7, CameIsEquipped DEF g, c
  <2>2. GearInv'
    BY <1>1, <1>2, <1>7, <2>1, NextSound, BecomesSound
  <2>3. /\ last'.way = "transfer" /\ last'.copy = c /\ last'.used = h
        /\ last'.before = g[menu] /\ last'.after = t.entry
    BY <1>3, <1>7 DEF Record, hand
  <2>4. TransferEquipsWhatCame'
    BY <2>1, <2>3 DEF TransferEquipsWhatCame, InHand, Lists
  <2> QED
    BY <2>2, <2>3, <2>4 DEF ToggleServesHand
<1> QED
  BY <1>4, <1>6, <1>7

(* What a toggle records.                                                   *)
LEMMA ToggleServes ==
    ASSUME GearInv, HasFresh, UseInv, menu \in Actors, NEW start \in Starts, NEW row \in rows,
           ToggleRow(menu, start, row), game' = game
    PROVE ToggleServesHand' /\ TransferEquipsWhatCame'
<1> DEFINE e == gear[menu]
           kind == game.kind
           hand == Intent(start)
           h == SlotForObject(kind, hand)
<1>1. hand \in Hands /\ (~Misled(start) => Asked(start) = hand)
  BY IntentIsHand, AskedIsIntent
<1>2. PICK t \in Toggled(menu, row, hand) :
        \/ last' = NoClick
        \/ EquipAllowed /\ Record("toggle", start, row, NoList, e, t.entry)
  BY DEF ToggleRow
<1>3. CASE last' = NoClick
  BY <1>3 DEF NoClick, ToggleServesHand, TransferEquipsWhatCame
<1>4. CASE EquipAllowed /\ Record("toggle", start, row, NoList, e, t.entry)
  <2>1. PICK p \in PicksFromSelection(e, row, kind, hand, synthetics, game.donor, Fresh) :
          t.entry \in Applied(p.entry, p.pick, NextFresh)
    BY <1>2, <1>4 DEF Toggled
  <2>2. WellFormed(e, kind) /\ Lists(e) \subseteq AllLists(gear)
    BY DEF GearInv, Sound, AllLists, Holders
  <2>3. Fresh \in Addresses \ Lists(e) /\ NextFresh \in Addresses \ Lists(e) /\ Fresh # NextFresh
    BY <2>2, FreshAre
  <2>4. /\ last'.way = "toggle" /\ last'.row = row /\ (last'.fresh => rows = Rows(e))
        /\ last'.before = e /\ last'.after = t.entry /\ last'.used = h
        /\ ~last'.misled => last'.asked = hand /\ last'.hand = h
    BY <1>1, <1>4 DEF Record
  <2> HIDE DEF e, kind, hand
  <2>5. rows = Rows(e) /\ Definite(row, kind, hand) => Serves(kind, e, row, h, t.entry)
    BY <1>1, <2>1, <2>2, <2>3, ToggledServes
  <2>6. ASSUME rows = Rows(e), h = hand \/ Cardinality(row.lists) <= 1 \/ kind = "armor"
        PROVE Serves(kind, e, row, h, t.entry)
    BY <2>5, <2>6 DEF Definite
  <2> HIDE DEF h
  <2>7. game'.kind = kind
    BY DEF kind
  <2>8. ToggleServesHand'
    <3>1. ASSUME last'.fresh, ~last'.misled,
                 last'.asked = last'.hand \/ Cardinality(last'.row.lists) <= 1 \/ game'.kind = "armor"
          PROVE Serves(game'.kind, last'.before, last'.row, last'.hand, last'.after)
      BY <2>4, <2>6, <2>7, <3>1
    <3> QED
      BY <3>1 DEF ToggleServesHand, Serves, InHand, NotWorn, Lists
  <2>9. TransferEquipsWhatCame'
    BY <2>4 DEF TransferEquipsWhatCame
  <2> QED
    BY <2>8, <2>9
<1> QED
  BY <1>2, <1>3, <1>4

LEMMA TakeServes ==
    ASSUME GearInv, UseInv, NEW start \in Starts, NEW row \in rows, NEW mod, Take(start, row, mod)
    PROVE ToggleServesHand' /\ TransferEquipsWhatCame'
<1>1. HasFresh /\ game' = game /\ menu \in Actors
  BY DEF Take, UseInv
<1>2. last' = NoClick \/ ToggleRow(menu, start, row)
  BY DEF Take, TakeAffected, TakeCorpse, TakeVanilla, HeadgearPreference, GetAffectedTarget, GetCorpseEquipTarget
<1>3. CASE last' = NoClick
  BY <1>3 DEF NoClick, ToggleServesHand, TransferEquipsWhatCame
<1> QED
  BY <1>1, <1>2, <1>3, ToggleServes

(* The last click on gear did what it had to, and the gear stays sound.     *)
ClickInv == GearInv /\ ToggleServesHand /\ TransferEquipsWhatCame

LEMMA NoClickKeeps ==
    ASSUME GearInv, UNCHANGED <<game, gear, synthetics>>, last' = NoClick
    PROVE ClickInv'
<1>1. GearInv'
  BY DEF GearInv, Sound
<1> QED
  BY <1>1 DEF ClickInv, NoClick, ToggleServesHand, TransferEquipsWhatCame

LEMMA NextClick == UseInv /\ ClickInv /\ [Next]_vars => ClickInv'
<1> SUFFICES ASSUME UseInv, ClickInv, [Next]_vars PROVE ClickInv'
  OBVIOUS
<1>0. GearInv
  BY DEF ClickInv
<1>1. CASE GearClick
  <2>1. PICK start \in Starts, mod \in BOOLEAN :
          \/ \E row \in rows : Take(start, row, mod)
          \/ \E l \in Addresses \cup {NoList}, held \in BOOLEAN : GiveCopy(start, l, mod, held)
    BY <1>1 DEF GearClick
  <2> QED
    BY <1>0, <2>1, TakeKeepsGear, TakeServes, GiveKeepsGear DEF ClickInv
<1>2. CASE UseClick \/ MenuStep \/ GameStep
  <2>1. UNCHANGED <<game, gear, synthetics>> /\ last' = NoClick
    BY <1>2 DEF UseClick, MenuStep, GameStep, Use, OpenMenu, CloseMenu, AttemptEquip, RunUse, RunRefresh,
                SetPotionsEnabled, Strike, items
  <2> QED
    BY <1>0, <2>1, NoClickKeeps
<1>3. CASE UNCHANGED vars
  <2>1. GearInv'
    BY <1>0, <1>3 DEF vars, items, GearInv, Sound
  <2>2. ToggleServesHand'
    BY <1>3 DEF ClickInv, vars, items, ToggleServesHand, InHand, NotWorn, Lists
  <2>3. TransferEquipsWhatCame'
    BY <1>3 DEF ClickInv, vars, items, TransferEquipsWhatCame, InHand, Lists
  <2> QED
    BY <2>1, <2>2, <2>3 DEF ClickInv
<1> QED
  BY <1>1, <1>2, <1>3 DEF Next

LEMMA InitClick == Init => ClickInv
<1> SUFFICES ASSUME Init PROVE ClickInv
  OBVIOUS
<1>1. gear = [h \in Holders |-> IF h \in DOMAIN game.gear THEN game.gear[h] ELSE NoCopies]
      /\ game \in Games /\ synthetics = {} /\ last = NoClick
  BY DEF Init
<1>2. Lists(NoCopies) = {} /\ WellFormed(NoCopies, game.kind)
  <2>1. Lists(NoCopies) = {} /\ NoCopies \in [plain : Nat, lists : [{} -> XList]]
    BY DEF NoCopies, Lists
  <2>2. \A h \in Hands : InHand(NoCopies, h) = {}
    BY <2>1 DEF InHand
  <2> QED
    BY <2>1, <2>2 DEF WellFormed
<1>3. \A h \in DOMAIN game.gear :
        /\ WellFormed(game.gear[h], game.kind)
        /\ \A i \in DOMAIN game.gear \ {h} : Lists(game.gear[i]) \cap Lists(game.gear[h]) = {}
  BY <1>1, GamesAssumption
<1>4. \A h \in Holders : gear[h] = IF h \in DOMAIN game.gear THEN game.gear[h] ELSE NoCopies
  BY <1>1
<1>5. \A h \in Holders : WellFormed(gear[h], game.kind)
  BY <1>2, <1>3, <1>4
<1>6. ASSUME NEW h \in Holders, NEW i \in Holders, h # i PROVE Lists(gear[h]) \cap Lists(gear[i]) = {}
  BY <1>2, <1>3, <1>4, <1>6
<1>7. gear = [h \in Holders |-> gear[h]]
  BY <1>1
<1>8. GearInv
  BY <1>1, <1>5, <1>6, <1>7 DEF GearInv, Sound
<1> QED
  BY <1>1, <1>8 DEF ClickInv, NoClick, ToggleServesHand, TransferEquipsWhatCame

----------------------------------------------------------------------------
(* Types.                                                                  *)

NatStocks == [Holders -> [Forms -> Nat]]
NatCoats == [Followers -> [Hands -> [poison : Poisons \cup {None}, n : Nat]]]

(* A task coats with a poison, and the bounds hold.                        *)
TasksInv ==
    /\ \A i \in 1..Len(tasks) : tasks[i].op = "coat" => tasks[i].form \in Poisons
    /\ Len(tasks) <= MaxTasks /\ clicks \in 0..MaxClicks

LEMMA SpentNat ==
    ASSUME NEW s \in NatStocks, NEW h \in Holders, NEW f \in Forms, s[h][f] > 0
    PROVE Spent(s, h, f) \in NatStocks
<1>1. s[h][f] - 1 \in Nat
  BY DEF NatStocks
<1> QED
  BY <1>1 DEF NatStocks, Spent

LEMMA MovedNat ==
    ASSUME NEW s \in NatStocks, NEW h \in Holders, NEW g \in Holders, NEW f \in Forms, s[h][f] > 0
    PROVE MovedUnit(s, f, h, g) \in NatStocks
<1>1. \A x \in NatStocks : Gained(x, g, f) \in NatStocks
  BY DEF NatStocks, Gained
<1> QED
  BY <1>1, SpentNat DEF MovedUnit

LEMMA CurrentTask ==
    ASSUME UseInv, TasksInv, RunUse
    PROVE /\ Head(tasks) \in UseTask /\ tasks # <<>>
          /\ Head(tasks).op = "coat" => Head(tasks).form \in Poisons
<1>1. tasks # <<>> /\ tasks \in Seq(UseTask \cup RefreshTask)
  BY DEF UseInv, RunUse
<1>2. Head(tasks) \in UseTask \cup RefreshTask /\ Head(tasks).op # "refresh"
  BY <1>1 DEF RunUse
<1>3. Head(tasks) = tasks[1] /\ 1 \in 1..Len(tasks)
  BY <1>1
<1> QED
  BY <1>1, <1>2, <1>3 DEF RefreshTask, TasksInv

(* A task spends only what is there when it runs.                          *)
LEMMA StockStaysNat ==
    ASSUME UseInv, TasksInv, stock \in NatStocks, [Next]_vars
    PROVE stock' \in NatStocks
<1>1. CASE UNCHANGED stock
  BY <1>1
<1>2. CASE RunUse
  <2> DEFINE t == Head(tasks)
  <2>1. t \in UseTask
    BY <1>2, CurrentTask
  <2>2. t.source \in Holders /\ t.form \in Forms
    BY <2>1 DEF UseTask
  <2>3. stock \in Stocks /\ due = stock
    BY DEF UseInv, SourcePaysOncePerEffect
  <2>4. stock' = stock \/ (Current(t) /\ stock' = Spent(stock, t.source, t.form))
    <3>1. CASE Consume(t)
      BY <2>1, <2>3, <3>1, StagedCosts DEF Consume, Consumes
    <3>2. CASE Refuse(t)
      BY <2>1, <2>3, <3>2, StagedCosts DEF Refuse
    <3>3. ASSUME NEW taken \in BOOLEAN, ApplyPoison(t, taken)
          PROVE Current(t) /\ stock' = Spent(stock, t.source, t.form)
      BY <2>1, <2>3, <3>3, ApplyCosts DEF ApplyPoison
    <3>4. CASE Learn(t)
      BY <3>4 DEF Learn
    <3>5. CASE UNCHANGED effects
      BY <3>5 DEF effects
    <3> QED
      BY <1>2, <3>1, <3>2, <3>3, <3>4, <3>5 DEF RunUse, Effect
  <2> HIDE DEF t
  <2> QED
    BY <2>2, <2>4, SpentNat DEF Current
<1>3. ASSUME NEW start \in Starts, NEW f \in Forms, NEW source \in Holders, NEW mod \in BOOLEAN,
             Use(start, f, source, mod)
      PROVE stock' \in NatStocks
  <2>1. menu \in Holders /\ Player \in Holders /\ stock[source][f] > 0
    BY <1>3 DEF Use, UseInv, Holders
  <2>2. UNCHANGED stock \/ UseVanilla(f, source)
    BY <1>3 DEF Use, effects
  <2> QED
    BY <2>1, <2>2, MovedNat DEF UseVanilla
<1>4. CASE GearClick
  BY <1>1, <1>4, GearClickKeeps
<1>5. CASE MenuStep \/ RunRefresh \/ SetPotionsEnabled \/ UNCHANGED vars
          \/ \E a \in Followers, h \in Hands : Strike(a, h)
  BY <1>1, <1>5 DEF MenuStep, OpenMenu, CloseMenu, AttemptEquip, RunRefresh, SetPotionsEnabled, Strike,
                    effects, vars
<1> QED
  BY <1>2, <1>3, <1>4, <1>5 DEF Next, UseClick, GameStep

LEMMA CoatStaysNat ==
    ASSUME UseInv, TasksInv, coat \in NatCoats, [Next]_vars
    PROVE coat' \in NatCoats
<1>1. CASE UNCHANGED coat
  BY <1>1
<1>2. CASE RunUse
  <2> DEFINE t == Head(tasks)
             k == CoatedHand(t)
             c == coat[t.target][k]
  <2>1. t \in UseTask /\ (t.op = "coat" => t.form \in Poisons)
    BY <1>2, CurrentTask
  <2>2. t.target \in Followers /\ k \in Hands
    BY <2>1 DEF UseTask, CoatedHand, Hands
  <2>3. coat' = coat \/ (t.op = "coat" /\ coat' = [coat EXCEPT ![t.target][k] = [poison |-> t.form, n |-> Doses(c)]])
    <3>1. coat' = coat \/ \E taken \in BOOLEAN : ApplyPoison(t, taken)
      BY <1>2 DEF RunUse, Effect, Consume, Learn, Refuse, effects
    <3> HIDE DEF t
    <3> QED
      BY <3>1 DEF ApplyPoison
  <2>4. Doses(c) \in Nat
    BY <2>2, CapTypes DEF Doses, NatCoats
  <2> DEFINE r == [poison |-> t.form, n |-> Doses(c)]
             a == t.target
  <2>5. t.op = "coat" => r \in [poison : Poisons \cup {None}, n : Nat]
    BY <2>1, <2>4
  <2>6. a \in Followers /\ (coat' = coat \/ (t.op = "coat" /\ coat' = [coat EXCEPT ![a][k] = r]))
    BY <2>2, <2>3
  <2>7. k \in Hands
    BY <2>2
  <2> HIDE DEF t, k, c, r, a
  <2>8. ASSUME NEW q \in [poison : Poisons \cup {None}, n : Nat]
        PROVE [coat EXCEPT ![a][k] = q] \in NatCoats
    BY ONLY coat \in NatCoats, <2>6, <2>7, <2>8 DEF NatCoats
  <2> QED
    BY <2>5, <2>6, <2>8
<1>3. ASSUME NEW a \in Followers, NEW h \in Hands, Strike(a, h) PROVE coat' \in NatCoats
  <2>1. coat[a][h] \in [poison : Poisons \cup {None}, n : Nat] /\ coat[a][h].n > 0
    BY <1>3 DEF NatCoats, Strike
  <2>2. Struck(coat[a][h]) \in [poison : Poisons \cup {None}, n : Nat]
    BY <2>1 DEF Struck, NoCoat
  <2>3. coat' = [coat EXCEPT ![a][h] = Struck(coat[a][h])]
    BY <1>3 DEF Strike
  <2> QED
    BY <2>2, <2>3 DEF NatCoats
<1>4. CASE GearClick \/ UseClick
  BY <1>1, <1>4, GearClickKeeps, UseKeeps DEF UseClick
<1>5. CASE MenuStep \/ RunRefresh \/ SetPotionsEnabled \/ UNCHANGED vars
  BY <1>1, <1>5 DEF MenuStep, OpenMenu, CloseMenu, AttemptEquip, RunRefresh, SetPotionsEnabled, effects, vars
<1> QED
  BY <1>2, <1>3, <1>4, <1>5 DEF Next, GameStep

(* Whatever is queued is queued at the end, and whatever runs is the first. *)
Grows(t) ==
    \/ UNCHANGED tasks
    \/ tasks' = Tail(tasks) /\ tasks # <<>>
    \/ tasks' = Append(Tail(tasks), t) /\ tasks # <<>>
    \/ tasks' = Append(tasks, t) /\ Len(tasks) < MaxTasks

LEMMA QueueGrows ==
    ASSUME UseInv, TasksInv, NEW t, t.op = "coat" => t.form \in Poisons, Grows(t),
           clicks' \in 0..MaxClicks
    PROVE TasksInv'
<1>1. tasks \in Seq(UseTask \cup RefreshTask)
  BY DEF UseInv
<1>2. MaxTasks \in Nat
  BY BoundsAssumption
<1> QED
  BY <1>1, <1>2 DEF Grows, TasksInv

LEMMA TasksStay ==
    ASSUME UseInv, TasksInv, [Next]_vars
    PROVE TasksInv'
<1>1. \A a : Refresh(a).op # "coat"
  BY DEF Refresh
<1>2. \A n \in 0..MaxClicks : n < MaxClicks => n + 1 \in 0..MaxClicks
  BY BoundsAssumption
<1>3. clicks \in 0..MaxClicks
  BY DEF TasksInv
<1>4. CASE GearClick
  <2>1. clicks' \in 0..MaxClicks
    BY <1>2, <1>3, <1>4 DEF GearClick, Take, GiveCopy
  <2>2. \E a : Grows(Refresh(a))
    <3>1. ASSUME NEW a, NEW start, NEW row, ToggleRow(a, start, row) PROVE \E b : Grows(Refresh(b))
      BY <3>1 DEF ToggleRow, Queue, Grows
    <3>2. CASE UNCHANGED tasks
      BY <3>2 DEF Grows
    <3>3. ASSUME NEW start, NEW l, NEW mod, NEW held, GiveCopy(start, l, mod, held)
          PROVE \E b : Grows(Refresh(b))
      <4>1. UNCHANGED tasks \/ Queue(Refresh(IF menu \in Followers THEN menu ELSE None))
        BY <3>3 DEF GiveCopy
      <4> QED
        BY <4>1 DEF Queue, Grows
    <3>4. ASSUME NEW start, NEW row, NEW mod, Take(start, row, mod) PROVE \E b : Grows(Refresh(b))
      <4>1. UNCHANGED tasks \/ \E a : ToggleRow(a, start, row)
        BY <3>4 DEF Take, TakeAffected, TakeCorpse, TakeVanilla
      <4> QED
        BY <3>1, <3>2, <4>1
    <3> QED
      BY <1>4, <3>3, <3>4 DEF GearClick
  <2> QED
    BY <1>1, <2>1, <2>2, QueueGrows
<1>5. ASSUME NEW start \in Starts, NEW f \in Forms, NEW source \in Holders, NEW mod \in BOOLEAN,
             Use(start, f, source, mod)
      PROVE TasksInv'
  <2>1. clicks' \in 0..MaxClicks
    BY <1>2, <1>3, <1>5 DEF Use
  <2>2. \E t : (t.op = "coat" => t.form \in Poisons) /\ Grows(t)
    <3>1. CASE UNCHANGED tasks
      <4>1. Grows(Refresh(None))
        BY <3>1 DEF Grows
      <4> QED
        BY <1>1, <4>1
    <3>2. CASE UseAffected(start, f, source)
      <4>1. PICK a \in GetAffectedTarget(TRUE) :
              \/ UNCHANGED tasks
              \/ Queue([op |-> Op(f), target |-> a, source |-> source, form |-> f,
                        hand |-> Intent(start), keep |-> game.keepTomes])
        BY <3>2 DEF UseAffected
      <4> DEFINE t == [op |-> Op(f), target |-> a, source |-> source, form |-> f,
                       hand |-> Intent(start), keep |-> game.keepTomes]
      <4>2. t.op = "coat" => t.form \in Poisons
        BY DEF Op
      <4> HIDE DEF t
      <4>3. Grows(t)
        BY <4>1 DEF Queue, Grows, t
      <4> QED
        BY <4>2, <4>3
    <3> QED
      BY <1>5, <3>1, <3>2 DEF Use
  <2> QED
    BY <2>1, <2>2, QueueGrows
<1>6. CASE RunUse \/ RunRefresh
  <2>1. \E a : Grows(Refresh(a))
    BY <1>6 DEF RunUse, RunRefresh, Refuse, Grows
  <2>2. clicks' = clicks
    BY <1>6 DEF RunUse, RunRefresh
  <2> QED
    BY <1>1, <1>3, <2>1, <2>2, QueueGrows
<1>7. CASE UNCHANGED <<tasks, clicks>>
  BY <1>7 DEF TasksInv
<1>8. CASE MenuStep \/ SetPotionsEnabled \/ UNCHANGED vars
          \/ \E a \in Followers, h \in Hands : Strike(a, h)
  BY <1>7, <1>8 DEF MenuStep, OpenMenu, CloseMenu, AttemptEquip, SetPotionsEnabled, Strike, vars
<1> QED
  BY <1>4, <1>5, <1>6, <1>8 DEF Next, UseClick, GameStep

LEMMA SyntheticsStay ==
    ASSUME UseInv, ClickInv, synthetics \subseteq Addresses, [Next]_vars
    PROVE synthetics' \subseteq Addresses
<1>1. UNCHANGED synthetics \/ \E g, S : GearBecomes(g, S)
  <2>1. ASSUME NEW a, NEW start, NEW row, ToggleRow(a, start, row) PROVE \E g, S : GearBecomes(g, S)
    BY <2>1 DEF ToggleRow
  <2>2. ASSUME NEW t, NEW row, TakeVanilla(t, row) PROVE \E g, S : GearBecomes(g, S)
    BY <2>2 DEF TakeVanilla
  <2>3. ASSUME NEW start, NEW row, NEW mod, Take(start, row, mod)
        PROVE UNCHANGED synthetics \/ \E g, S : GearBecomes(g, S)
    <3>1. \/ UNCHANGED items
          \/ \E a : ToggleRow(a, start, row) \/ HeadgearPreference(a)
          \/ \E t : TakeVanilla(t, row)
      BY <2>3 DEF Take, TakeAffected, TakeCorpse
    <3>2. ASSUME NEW a, HeadgearPreference(a) PROVE \E g, S : GearBecomes(g, S)
      BY <3>2 DEF HeadgearPreference
    <3> QED
      BY <2>1, <2>2, <3>1, <3>2 DEF items
  <2>4. ASSUME NEW start, NEW l, NEW mod, NEW held, GiveCopy(start, l, mod, held)
        PROVE \E g, S : GearBecomes(g, S)
    BY <2>4 DEF GiveCopy
  <2>5. CASE UseClick \/ MenuStep \/ GameStep \/ UNCHANGED vars
    BY <2>5 DEF UseClick, Use, MenuStep, OpenMenu, CloseMenu, AttemptEquip, GameStep, RunUse, RunRefresh,
                SetPotionsEnabled, Strike, items, vars
  <2> QED
    BY <2>3, <2>4, <2>5 DEF Next, GearClick
<1>2. GearInv'
  BY NextClick DEF ClickInv
<1>3. \A h \in Holders : Lists(gear'[h]) \subseteq Addresses
  BY <1>2 DEF GearInv, Sound, WellFormed, Lists
<1> QED
  BY <1>1, <1>3 DEF GearBecomes

TypeInv ==
    /\ UseInv /\ ClickInv /\ TasksInv
    /\ stock \in NatStocks /\ coat \in NatCoats /\ synthetics \subseteq Addresses

LEMMA InitTypes == Init => TypeInv
<1> SUFFICES ASSUME Init PROVE TypeInv
  OBVIOUS
<1>1. stock \in NatStocks
  BY GamesAssumption DEF Init, NatStocks
<1>2. coat \in NatCoats
  BY DEF Init, NoCoat, NatCoats
<1>3. TasksInv
  BY BoundsAssumption DEF Init, TasksInv
<1> QED
  BY <1>1, <1>2, <1>3, InitUse, InitClick DEF TypeInv, Init

LEMMA TypesAre == TypeInv => TypeOK
<1> SUFFICES ASSUME TypeInv PROVE TypeOK
  OBVIOUS
<1>1. \A h \in Holders : /\ WellFormed(gear[h], game.kind)
                         /\ \A g \in Holders \ {h} : Lists(gear[g]) \cap Lists(gear[h]) = {}
  BY DEF TypeInv, ClickInv, GearInv, Sound
<1> QED
  BY <1>1 DEF TypeInv, UseInv, TasksInv, TypeOK, NatStocks, NatCoats

----------------------------------------------------------------------------
(* Everything a game can reach is well formed: every entry is one that the *)
(* engine can hold (a worn copy has its list to itself, a hand one copy),  *)
(* no list is in two places, and no click or task spends a unit that is    *)
(* not there.                                                              *)
THEOREM TradeTypesHold == Spec => []TypeOK
<1>1. TypeInv /\ [Next]_vars => TypeInv'
  BY NextUse, NextClick, StockStaysNat, CoatStaysNat, TasksStay, SyntheticsStay DEF TypeInv
<1> QED
  BY <1>1, InitTypes, TypesAre, PTL DEF Spec

(* Whatever order clicks, tasks and menus come in, each effect costs the   *)
(* side that was clicked on one unit and nothing else changes hands: a     *)
(* staged unit that the engine refuses comes back, and a dose the engine   *)
(* has counted itself is not counted again.                                *)
THEOREM SourceAlwaysPaysOncePerEffect == Spec => []SourcePaysOncePerEffect
<1>1. UseInv => SourcePaysOncePerEffect
  BY DEF UseInv
<1> QED
  BY <1>1, InitUse, NextUse, PTL DEF Spec

(* A dose is never laid over another poison, nor past the cap, though what *)
(* is on the weapon is read when the task runs and not at the click.       *)
THEOREM CoatsAlwaysFairly == Spec => CoatsFairly
<1>1. UseInv /\ [Next]_vars =>
        [\A a \in Followers, h \in Hands :
             coat'[a][h].n > coat[a][h].n
             => /\ coat[a][h].n > 0 => game.stacking /\ coat'[a][h].poison = coat[a][h].poison
                /\ game.stacking /\ Cap > 0 => coat'[a][h].n <= Cap]_vars
  BY StepIsFair DEF Fair
<1> QED
  BY <1>1, InitUse, NextUse, PTL DEF Spec, CoatsFairly

----------------------------------------------------------------------------
(* A toggle of a row that shows the actor as it is does what was asked of  *)
(* it, whichever copies the engine and the modes choose among: a copy of   *)
(* the row in the hand comes off, else the only copy of a row of one goes  *)
(* there, else a copy does, and a weapon with copies to spare leaves the   *)
(* other hand alone.                                                       *)
THEOREM ToggleAlwaysServesHand == Spec => []ToggleServesHand
<1>1. ClickInv => ToggleServesHand
  BY DEF ClickInv
<1> QED
  BY <1>1, InitUse, NextUse, InitClick, NextClick, PTL DEF Spec

(* What goes on after a transfer is the copy that came, or one without     *)
(* data of its own: never another tempered or named copy the actor had.    *)
THEOREM TransferAlwaysEquipsWhatCame == Spec => []TransferEquipsWhatCame
<1>1. ClickInv => TransferEquipsWhatCame
  BY DEF ClickInv
<1> QED
  BY <1>1, InitUse, NextUse, InitClick, NextClick, PTL DEF Spec
=============================================================================
