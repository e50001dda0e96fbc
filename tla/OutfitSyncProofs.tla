--------------------------- MODULE OutfitSyncProofs ---------------------------
(***************************************************************************)
(* OutfitSync, for any armor, slots, outfits and tries: the headgear of a  *)
(* fight, what a restore leads to, the types, and what keeps a snapshot    *)
(* coherent.                                                               *)
(***************************************************************************)
EXTENDS OutfitSync, FiniteSetTheorems, TLAPS

(* The headgear of a fight.                                                *)

(* The entry is a record; what its fields may be does not matter here.     *)
IsEntry(h) == h = [last |-> h.last, gear |-> h.gear, have |-> h.have,
                   pending |-> h.pending, tries |-> h.tries]

(* Of a fight whose beginning was seen, the list is of what was worn then, *)
(* and the feature knows that it is in it: the next event of the same      *)
(* fight would fill the list again, with what the mod has put on.          *)
Remembers(h, inFight, from) ==
    /\ h.have => h.gear = from
    /\ inFight => h.last

(* A feature that takes the follower for fighting has been told so: of     *)
(* this fight, or of one whose end it missed.                              *)
ToldOfFight == (head.last => heard \/ lost) /\ (heard => fight)

FightInv ==
    /\ IsEntry(head)
    /\ ToldOfFight
    /\ ~unseen => Remembers(head, fight, fightHead)
    /\ disk.have /\ ~disk.unseen => disk.gear = disk.fightHead

LEMMA InitRemembers == Init => FightInv
BY DEF Init, NoHead, NoDisk, FightInv, ToldOfFight, IsEntry, Remembers

(* Steps that leave list, fight, history and save alone.                   *)
LEMMA FightUndisturbed ==
    ASSUME FightInv, UNCHANGED <<head, fight, history, disk>>
    PROVE FightInv'
BY DEF FightInv, ToldOfFight, history

LEMMA CombatKeepsFight ==
    ASSUME FightInv, NEW next \in BOOLEAN, CombatEvent(next)
    PROVE FightInv'
<1> DEFINE seen == installed /\ follows
           entered == seen /\ cfg.headgear /\ ~head.last /\ next
           watched == IF seen THEN [head EXCEPT !.last = next] ELSE head
<1>1. IsEntry(watched) /\ watched.have = head.have /\ watched.gear = head.gear
      /\ watched.last = IF seen THEN next ELSE head.last
  BY DEF FightInv, IsEntry
<1>2. fight' = next /\ (fight \/ next) /\ disk' = disk /\ Hears(seen, next)
  BY DEF CombatEvent
<1>3. entered => head' = [watched EXCEPT !.gear = Headgear(worn), !.have = TRUE]
  BY DEF CombatEvent
<1>4. ~entered => \/ head' = [watched EXCEPT !.pending = TRUE, !.tries = RestoreTries]
                  \/ head' = watched
  BY DEF CombatEvent
<1> HIDE DEF watched
<1>5. entered => /\ IsEntry(head') /\ head'.have /\ head'.gear = Headgear(worn)
                 /\ head'.last = next
  BY <1>1, <1>3 DEF IsEntry
<1>6. ~entered => /\ IsEntry(head')
                  /\ head'.have = head.have /\ head'.gear = head.gear
                  /\ head'.last = IF seen THEN next ELSE head.last
  BY <1>1, <1>4 DEF IsEntry
<1>7. entered => seen /\ cfg.headgear /\ ~head.last /\ next
  OBVIOUS
<1>8. ~fight /\ seen /\ cfg.headgear /\ ~lost => entered
  BY <1>2 DEF FightInv, ToldOfFight
<1>9. head'.last = IF seen THEN next ELSE head.last
  BY <1>5, <1>6, <1>7
<1> HIDE DEF entered, seen
<1>10. ToldOfFight'
  <2>1. heard' = (next /\ (heard \/ seen)) /\ lost' = IF next THEN lost ELSE ~seen /\ (heard \/ lost)
    BY <1>2 DEF Hears
  <2>2. head.last => heard \/ lost
    BY DEF FightInv, ToldOfFight
  <2>3. head'.last => heard' \/ lost'
    <3>1. CASE seen /\ next
      BY <3>1, <2>1
    <3>2. CASE seen /\ ~next
      BY <3>2, <1>9
    <3>3. CASE ~seen /\ next
      BY <3>3, <1>9, <2>1, <2>2
    <3>4. CASE ~seen /\ ~next
      BY <3>4, <1>9, <2>1, <2>2
    <3> QED
      BY <3>1, <3>2, <3>3, <3>4
  <2>4. heard' => fight'
    BY <1>2, <2>1
  <2> QED
    BY <2>3, <2>4 DEF ToldOfFight
<1>11. CASE ~fight
  <2>1. next /\ fightHead' = Headgear(worn) /\ unseen' = ~(seen /\ cfg.headgear /\ ~lost)
    BY <1>2, <1>11 DEF Hears
  <2>2. IsEntry(head')
    BY <1>5, <1>6
  <2>3. ~unseen' => Remembers(head', fight', fightHead')
    BY <2>1, <1>2, <1>5, <1>8, <1>11 DEF Remembers
  <2>4. disk'.have /\ ~disk'.unseen => disk'.gear = disk'.fightHead
    BY <1>2 DEF FightInv
  <2> QED
    BY <2>2, <2>3, <2>4, <1>10 DEF FightInv
<1>12. CASE fight
  <2>1. fightHead' = fightHead /\ unseen' = unseen
    BY <1>2, <1>12 DEF Hears
  <2>2. IsEntry(head')
    BY <1>5, <1>6
  <2>3. ~unseen' => Remembers(head', fight', fightHead')
    <3>1. ~unseen => ~entered
      BY <1>7, <1>12 DEF FightInv, Remembers
    <3> QED
      BY <2>1, <3>1, <1>2, <1>6, <1>9, <1>12 DEF FightInv, Remembers
  <2>4. disk'.have /\ ~disk'.unseen => disk'.gear = disk'.fightHead
    BY <1>2 DEF FightInv
  <2> QED
    BY <2>2, <2>3, <2>4, <1>10 DEF FightInv
<1> QED
  BY <1>11, <1>12

LEMMA TaskKeepsFight ==
    ASSUME FightInv, RunTask
    PROVE FightInv'
<1>1. UNCHANGED <<fight, heard, lost, fightHead, unseen, disk>>
  BY DEF RunTask, history
<1>2. \/ head' = head
      \/ head' = [head EXCEPT !.tries = @ - 1]
      \/ head' = [head EXCEPT !.pending = FALSE, !.tries = 0]
  BY DEF RunTask, RunEquip, RunRestore, RunReconcile, RunBaseline, RunDrain
<1>3. IsEntry(head') /\ head'.have = head.have /\ head'.gear = head.gear /\ head'.last = head.last
  BY <1>2 DEF FightInv, IsEntry
<1> QED
  BY <1>1, <1>3 DEF FightInv, ToldOfFight, Remembers

LEMMA LoadKeepsFight ==
    ASSUME FightInv, LoadGame
    PROVE FightInv'
<1>1. /\ head' = LoadedHead(disk.have, disk.gear, disk.fight) /\ disk' = disk
      /\ fight' = disk.fight /\ fightHead' = disk.fightHead /\ unseen' = (disk.unseen \/ ~disk.have)
  BY DEF LoadGame
<1>2. IsEntry(head')
  BY <1>1 DEF LoadedHead, NoHead, IsEntry
<1>3. disk.have => head'.gear = disk.gear /\ head'.last = disk.fight
  BY <1>1 DEF LoadedHead, NoHead
<1>4. ~disk.have => ~head'.last
  BY <1>1 DEF LoadedHead, NoHead
<1>5. heard' = (disk.have /\ disk.fight)
  BY DEF LoadGame
<1>6. ToldOfFight'
  BY <1>1, <1>3, <1>4, <1>5 DEF ToldOfFight
<1> QED
  BY <1>1, <1>2, <1>3, <1>6 DEF FightInv, Remembers

LEMMA LifecycleKeepsFight ==
    ASSUME FightInv, LifecycleStep
    PROVE FightInv'
<1> USE DEF feature, world, history
<1>1. CASE ToggleFollower \/ Install
  BY <1>1, FightUndisturbed DEF ToggleFollower, Install
<1>2. CASE EraseActor \/ Uninstall
  BY <1>2 DEF EraseActor, Uninstall, NoHead, FightInv, ToldOfFight, IsEntry
<1>3. CASE SaveGame
  <2>1. /\ disk'.have = head.have /\ disk'.unseen = unseen /\ disk'.fightHead = fightHead
        /\ head.have => disk'.gear = head.gear
    BY <1>3 DEF SaveGame
  <2>2. UNCHANGED <<head, fight, heard, lost, heard, lost, fightHead, unseen>>
    BY <1>3 DEF SaveGame
  <2> QED
    BY <2>1, <2>2 DEF FightInv, ToldOfFight, Remembers
<1> QED
  BY <1>1, <1>2, <1>3, LoadKeepsFight DEF LifecycleStep

LEMMA NextKeepsFight == FightInv /\ [Next]_vars => FightInv'
<1> SUFFICES ASSUME FightInv, [Next]_vars PROVE FightInv'
  OBVIOUS
<1> USE DEF feature, world, history
<1>1. CASE MenuStep
  <2>1. UNCHANGED <<head, fight, history, disk>>
    BY <1>1 DEF MenuStep, OpenMenu, CloseMenu, UserEquip, UserUnequip, UserPrefers
  <2> QED
    BY <2>1, FightUndisturbed
<1>2. CASE UpdateNPCOutfit
  BY <1>2, FightUndisturbed DEF UpdateNPCOutfit
<1>3. ASSUME NEW o, SetOutfit(o) PROVE FightInv'
  BY <1>3, FightUndisturbed DEF SetOutfit
<1>4. ASSUME NEW a, ExternalEquip(a) \/ LoseOrGain(a) PROVE FightInv'
  BY <1>4, FightUndisturbed DEF ExternalEquip, LoseOrGain
<1>5. ASSUME NEW gone, TakeOff(gone) PROVE FightInv'
  BY <1>5, FightUndisturbed DEF TakeOff
<1>6. CASE GameStep
  BY <1>2, <1>3, <1>4, <1>5, <1>6, CombatKeepsFight DEF GameStep
<1>7. CASE UNCHANGED vars
  BY <1>7, FightUndisturbed DEF vars
<1> QED
  BY <1>1, <1>6, <1>7, TaskKeepsFight, LifecycleKeepsFight DEF Next

(* The headgear a pending restore will put back is what the follower wore  *)
(* when this fight began, and not what the mod put on for it, through any  *)
(* events, saves, loads, erasures and uninstalls, for any armor.           *)
THEOREM HeadgearAlwaysFromBeforeFight == Spec => []HeadgearIsFromBeforeFight
<1>1. FightInv => HeadgearIsFromBeforeFight
  BY DEF FightInv, Remembers, HeadgearIsFromBeforeFight
<1> QED
  BY <1>1, InitRemembers, NextKeepsFight, PTL DEF Spec

----------------------------------------------------------------------------
(* A family of subsets of a finite set has a minimal member.               *)
LEMMA MinimalMember ==
    ASSUME NEW D, IsFiniteSet(D), NEW F, F \subseteq SUBSET D, F # {}
    PROVE \E S \in F : \A T \in F : T \subseteq S => T = S
<1> DEFINE R == StrictSubsetOrdering(D)
<1>1. IsWellFoundedOn(R, SUBSET D)
  <2>1. FiniteSubsetsOf(D) = SUBSET D
    BY FS_FiniteSubsetsOfFinite
  <2> QED
    BY <2>1, FS_StrictSubsetOrderingWellFounded
<1> HIDE DEF R
<1>2. PICK S \in F : \A T \in F : ~(<<T, S>> \in R)
  BY <1>1, WFMin
<1>3. \A T \in F : T \subseteq S => T = S
  BY <1>2 DEF R, StrictSubsetOrdering
<1> QED
  BY <1>3

----------------------------------------------------------------------------
(* The recursion of a restore.                                             *)

(* What can be worn once the pieces of S have been visited, when f says so *)
(* of the smaller sets.                                                    *)
Stage(f, w, S) ==
    IF S = {} THEN {w} ELSE UNION {{Visit(x, a) : x \in f[S \ {a}]} : a \in S}

(* f says so of every subset of S.                                         *)
IsVisits(f, w, S) == f = [T \in SUBSET S |-> Stage(f, w, T)]

LEMMA StagesAgree ==
    ASSUME NEW f, NEW g, NEW w, NEW S, \A a \in S : f[S \ {a}] = g[S \ {a}]
    PROVE Stage(f, w, S) = Stage(g, w, S)
<1>1. CASE S = {}
  BY <1>1 DEF Stage
<1>2. CASE S # {}
  <2>1. \A y : y \in Stage(f, w, S) <=> y \in Stage(g, w, S)
    <3> TAKE y
    <3>1. y \in Stage(f, w, S) <=> \E a \in S : \E x \in f[S \ {a}] : y = Visit(x, a)
      BY <1>2 DEF Stage
    <3>2. y \in Stage(g, w, S) <=> \E a \in S : \E x \in g[S \ {a}] : y = Visit(x, a)
      BY <1>2 DEF Stage
    <3> QED
      BY <3>1, <3>2
  <2>2. Stage(f, w, S) \subseteq Stage(g, w, S) /\ Stage(g, w, S) \subseteq Stage(f, w, S)
    BY <2>1
  <2> QED
    BY <2>2
<1> QED
  BY <1>1, <1>2

(* Two such functions agree where both are defined.                        *)
LEMMA VisitsAgree ==
    ASSUME NEW w, NEW S, NEW T, IsFiniteSet(S), NEW f, NEW g, IsVisits(f, w, S), IsVisits(g, w, T),
           T \subseteq S
    PROVE \A U \in SUBSET T : f[U] = g[U]
<1> DEFINE F == {U \in SUBSET T : f[U] # g[U]}
<1> SUFFICES ASSUME F # {} PROVE FALSE
  OBVIOUS
<1>1. IsFiniteSet(T)
  BY FS_Subset
<1>2. F \subseteq SUBSET T
  OBVIOUS
<1> HIDE DEF F
<1>3. PICK U \in F : \A V \in F : V \subseteq U => V = U
  BY <1>1, <1>2, MinimalMember
<1>4. \A a \in U : f[U \ {a}] = g[U \ {a}]
  <2> TAKE a \in U
  <2>1. U \ {a} \in SUBSET T /\ U \ {a} \subseteq U /\ U \ {a} # U
    BY <1>2
  <2>2. U \ {a} \notin F
    BY <1>3, <2>1
  <2> QED
    BY <2>1, <2>2 DEF F
<1>5. Stage(f, w, U) = Stage(g, w, U)
  BY <1>4, StagesAgree
<1>6. f[U] = Stage(f, w, U) /\ g[U] = Stage(g, w, U)
  <2>1. U \in SUBSET T /\ U \in SUBSET S
    BY <1>2
  <2>2. f[U] = [V \in SUBSET S |-> Stage(f, w, V)][U]
    BY DEF IsVisits
  <2>3. g[U] = [V \in SUBSET T |-> Stage(g, w, V)][U]
    BY DEF IsVisits
  <2> QED
    BY <2>1, <2>2, <2>3
<1> QED
  BY <1>3, <1>5, <1>6 DEF F

(* There is such a function: the sets without one would have a smallest.   *)
LEMMA VisitsExist ==
    ASSUME NEW w, NEW D, IsFiniteSet(D)
    PROVE \E f : IsVisits(f, w, D)
<1> DEFINE F == {S \in SUBSET D : ~\E f : IsVisits(f, w, S)}
<1> SUFFICES ASSUME F # {} PROVE FALSE
  OBVIOUS
<1>1. F \subseteq SUBSET D
  OBVIOUS
<1>2. PICK S \in F : \A T \in F : T \subseteq S => T = S
  <2> HIDE DEF F
  <2> QED
    BY <1>1, MinimalMember
<1>3. S \in SUBSET D /\ ~\E f : IsVisits(f, w, S)
  OBVIOUS
<1> DEFINE G(T) == CHOOSE f : IsVisits(f, w, T)
<1>4. ASSUME NEW T \in SUBSET S, T # S
      PROVE IsVisits(G(T), w, T)
  <2>1. T \in SUBSET D /\ T \notin F
    BY <1>2, <1>3, <1>4
  <2>2. \E f : IsVisits(f, w, T)
    BY <2>1
  <2> QED
    BY <2>2
<1> HIDE DEF F, G
<1>5. ASSUME NEW T \in SUBSET S, T # S, NEW U \in SUBSET T
      PROVE G(T)[U] = G(U)[U]
  <2>1. U \in SUBSET S /\ U # S
    BY <1>5
  <2>2. IsVisits(G(T), w, T) /\ IsVisits(G(U), w, U)
    BY <1>4, <1>5, <2>1
  <2>3. IsFiniteSet(T)
    BY <1>3, FS_Subset
  <2> QED
    BY <2>2, <2>3, VisitsAgree
<1> DEFINE h == [T \in SUBSET S |-> G(T)[T]]
           f == [T \in SUBSET S |-> Stage(h, w, T)]
<1>6. ASSUME NEW T \in SUBSET S, T # S
      PROVE f[T] = h[T]
  <2>1. \A a \in T : h[T \ {a}] = G(T)[T \ {a}]
    <3> TAKE a \in T
    <3>1. T \ {a} \in SUBSET S /\ T \ {a} \in SUBSET T
      OBVIOUS
    <3>2. h[T \ {a}] = G(T \ {a})[T \ {a}]
      BY <3>1
    <3> QED
      BY <1>5, <1>6, <3>1, <3>2
  <2> DEFINE g == G(T)
  <2> HIDE DEF h
  <2>2. Stage(h, w, T) = Stage(g, w, T)
    BY <2>1, StagesAgree
  <2>3. IsVisits(g, w, T)
    BY <1>4, <1>6
  <2> HIDE DEF g
  <2>4. g[T] = [V \in SUBSET T |-> Stage(g, w, V)][T]
    BY <2>3 DEF IsVisits
  <2>5. g[T] = Stage(g, w, T)
    BY <2>4
  <2>6. f[T] = Stage(h, w, T)
    OBVIOUS
  <2>7. h[T] = G(T)[T]
    BY DEF h
  <2> QED
    BY <2>2, <2>5, <2>6, <2>7 DEF g
<1> HIDE DEF h
<1>7. ASSUME NEW T \in SUBSET S
      PROVE Stage(h, w, T) = Stage(f, w, T)
  <2>1. \A a \in T : h[T \ {a}] = f[T \ {a}]
    <3> TAKE a \in T
    <3>1. T \ {a} \in SUBSET S /\ T \ {a} # S
      OBVIOUS
    <3> QED
      BY <1>6, <3>1
  <2> HIDE DEF f
  <2> QED
    BY <2>1, StagesAgree
<1>8. f = [T \in SUBSET S |-> Stage(f, w, T)]
  <2>1. \A T \in SUBSET S : Stage(h, w, T) = Stage(f, w, T)
    BY <1>7
  <2> DEFINE e == [T \in SUBSET S |-> Stage(f, w, T)]
  <2>2. f = e
    BY <2>1
  <2> QED
    BY <2>2
<1>9. IsVisits(f, w, S)
  <2> HIDE DEF f
  <2> QED
    BY <1>8 DEF IsVisits
<1> QED
  BY <1>3, <1>9

LEMMA VisitsDefined ==
    ASSUME NEW w, NEW D, IsFiniteSet(D)
    PROVE IsVisits(Visits(w, D), w, D)
<1>1. Visits(w, D) = CHOOSE f : IsVisits(f, w, D)
  BY DEF Visits, IsVisits, Stage
<1> QED
  BY <1>1, VisitsExist

LEMMA VisitsStages ==
    ASSUME NEW w, NEW D, IsFiniteSet(D)
    PROVE /\ Visits(w, D)[{}] = {w}
          /\ \A S \in (SUBSET D) \ {{}} : \A y :
                y \in Visits(w, D)[S] <=> \E a \in S : \E x \in Visits(w, D)[S \ {a}] : y = Visit(x, a)
<1> DEFINE V == Visits(w, D)
<1>1. V = [T \in SUBSET D |-> Stage(V, w, T)]
  <2>1. IsVisits(V, w, D)
    BY VisitsDefined
  <2> HIDE DEF V
  <2> QED
    BY <2>1 DEF IsVisits
<1> HIDE DEF V
<1>2. \A S \in SUBSET D : V[S] = Stage(V, w, S)
  <2> TAKE S \in SUBSET D
  <2> DEFINE e == [T \in SUBSET D |-> Stage(V, w, T)]
  <2>1. V[S] = e[S]
    BY <1>1
  <2> QED
    BY <2>1
<1>3. V[{}] = {w}
  BY <1>2 DEF Stage
<1>4. ASSUME NEW S \in (SUBSET D) \ {{}}, NEW y
      PROVE y \in V[S] <=> \E a \in S : \E x \in V[S \ {a}] : y = Visit(x, a)
  <2>1. V[S] = Stage(V, w, S) /\ S # {}
    BY <1>2
  <2>2. V[S] = UNION {{Visit(x, a) : x \in V[S \ {a}]} : a \in S}
    BY <2>1 DEF Stage
  <2> QED
    BY <2>2
<1> QED
  BY <1>3, <1>4 DEF V

(* What no visit undoes holds of everything a restore can make.            *)
LEMMA PutOnWearable ==
    ASSUME NEW w, NEW a, Wearable(w)
    PROVE Wearable(PutOn(w, a))
BY DEF Wearable, PutOn, Overlap

LEMMA VisitWearable ==
    ASSUME NEW w, NEW a, Wearable(w), w \subseteq carried
    PROVE Wearable(Visit(w, a)) /\ Visit(w, a) \subseteq carried
<1>1. CASE Visit(w, a) = w
  BY <1>1
<1>2. CASE Visit(w, a) # w
  <2>1. Visit(w, a) = PutOn(w, a) /\ a \in carried
    BY <1>2 DEF Visit
  <2>2. PutOn(w, a) \subseteq w \cup {a}
    BY DEF PutOn
  <2> QED
    BY <2>1, <2>2, PutOnWearable
<1> QED
  BY <1>1, <1>2

LEMMA VisitsWearable ==
    ASSUME NEW w, NEW D, IsFiniteSet(D), Wearable(w), w \subseteq carried
    PROVE \A S \in SUBSET D : \A x \in Visits(w, D)[S] : Wearable(x) /\ x \subseteq carried
<1> DEFINE V == Visits(w, D)
           F == {S \in SUBSET D : \E x \in V[S] : ~(Wearable(x) /\ x \subseteq carried)}
<1>1. V[{}] = {w}
  BY VisitsStages
<1>2. \A S \in (SUBSET D) \ {{}} : \A y \in V[S] : \E a \in S : \E x \in V[S \ {a}] : y = Visit(x, a)
  BY VisitsStages
<1> HIDE DEF V
<1> SUFFICES ASSUME F # {} PROVE FALSE
  BY DEF V
<1>3. F \subseteq SUBSET D
  OBVIOUS
<1> HIDE DEF F
<1>4. PICK S \in F : \A T \in F : T \subseteq S => T = S
  BY <1>3, MinimalMember
<1>5. S \in SUBSET D /\ \E y \in V[S] : ~(Wearable(y) /\ y \subseteq carried)
  BY DEF F
<1>6. S # {} /\ S \in (SUBSET D) \ {{}}
  BY <1>1, <1>5
<1>7. PICK y \in V[S] : ~(Wearable(y) /\ y \subseteq carried)
  BY <1>5
<1>8. PICK a \in S : \E x \in V[S \ {a}] : y = Visit(x, a)
  BY <1>2, <1>6
<1>9. PICK x \in V[S \ {a}] : y = Visit(x, a)
  BY <1>8
<1>10. S \ {a} \notin F
  BY <1>4
<1>11. Wearable(x) /\ x \subseteq carried
  BY <1>5, <1>10 DEF F
<1> QED
  BY <1>7, <1>9, <1>11, VisitWearable

----------------------------------------------------------------------------
(* What a restore of a coherent snapshot leads to.                         *)

LEMMA DesiredFinite == ASSUME NEW s PROVE IsFiniteSet(Desired(s))
<1> DEFINE f == [t \in Slot |-> s[t]]
           I == {f[t] : t \in Slot}
<1>1. IsFiniteSet(Slot)
  BY OutfitAssumption
<1>2. IsFiniteSet({s[t] : t \in Slot})
  <2>1. f \in Surjection(Slot, I)
    BY DEF Surjection
  <2>2. IsFiniteSet(I)
    BY <1>1, <2>1, FS_Surjection
  <2>3. I = {s[t] : t \in Slot}
    OBVIOUS
  <2> QED
    BY <2>2, <2>3
<1>3. Desired(s) \subseteq {s[t] : t \in Slot}
  BY DEF Desired
<1> QED
  BY <1>2, <1>3, FS_Subset

LEMMA CoherentApart ==
    ASSUME NEW s, Coherent(s), NEW a \in Desired(s), NEW b \in Desired(s), a # b
    PROVE ~Overlap(a, b)
<1> SUFFICES ASSUME NEW u, u \in SlotsOf[a], u \in SlotsOf[b] PROVE FALSE
  BY DEF Overlap
<1>1. PICK t \in Slot : a = s[t] /\ s[t] # None
  BY DEF Desired
<1>2. PICK v \in Slot : b = s[v] /\ s[v] # None
  BY DEF Desired
<1>3. s[u] = a /\ s[u] = b
  BY <1>1, <1>2 DEF Coherent
<1> QED
  BY <1>3

(* Is the piece to be put on?                                              *)
Dressable(a) == a \in Fits /\ a \in carried

(* Pieces that share no slot do not drive each other out, and none of them *)
(* that is worn comes off.                                                 *)
LEMMA VisitsReach ==
    ASSUME NEW w, NEW D, IsFiniteSet(D), \A a, b \in D : a # b => ~Overlap(a, b)
    PROVE \A S \in SUBSET D :
             /\ Visits(w, D)[S] # {}
             /\ \A x \in Visits(w, D)[S] : \A a \in D : a \in x <=> a \in w \/ (a \in S /\ Dressable(a))
<1> DEFINE V == Visits(w, D)
           Ok(S) == /\ V[S] # {}
                    /\ \A x \in V[S] : \A a \in D : a \in x <=> a \in w \/ (a \in S /\ Dressable(a))
           F == {S \in SUBSET D : ~Ok(S)}
<1>1. V[{}] = {w}
  BY VisitsStages
<1>2. \A S \in (SUBSET D) \ {{}} : \A y : y \in V[S] <=> \E a \in S : \E x \in V[S \ {a}] : y = Visit(x, a)
  BY VisitsStages
<1> HIDE DEF V
<1> SUFFICES ASSUME F # {} PROVE FALSE
  BY DEF V
<1>3. F \subseteq SUBSET D
  OBVIOUS
<1> HIDE DEF F
<1>4. PICK S \in F : \A T \in F : T \subseteq S => T = S
  BY <1>3, MinimalMember
<1>5. S \in SUBSET D /\ ~Ok(S)
  BY DEF F
<1>6. S # {} /\ S \in (SUBSET D) \ {{}}
  BY <1>1, <1>5
<1>7. \A a \in S : Ok(S \ {a})
  <2> TAKE a \in S
  <2>1. S \ {a} \notin F
    BY <1>4
  <2> QED
    BY <1>5, <2>1 DEF F
<1>8. V[S] # {}
  <2>1. PICK a \in S : TRUE
    BY <1>6
  <2>2. PICK x \in V[S \ {a}] : TRUE
    BY <1>7
  <2>3. Visit(x, a) \in V[S]
    BY <1>2, <1>6, <2>1, <2>2
  <2> QED
    BY <2>3
<1>9. ASSUME NEW y \in V[S], NEW b \in D
      PROVE b \in y <=> b \in w \/ (b \in S /\ Dressable(b))
  <2>1. PICK a \in S : \E x \in V[S \ {a}] : y = Visit(x, a)
    BY <1>2, <1>6
  <2>2. PICK x \in V[S \ {a}] : y = Visit(x, a)
    BY <2>1
  <2>3. /\ b \in x <=> b \in w \/ (b \in S \ {a} /\ Dressable(b))
        /\ a \in x <=> a \in w
    BY <1>5, <1>7
  <2>4. CASE a \in x \/ ~Dressable(a)
    <3>1. y = x
      BY <2>2, <2>4 DEF Visit, Dressable
    <3> QED
      BY <2>3, <2>4, <3>1
  <2>5. CASE a \notin x /\ Dressable(a)
    <3>1. y = PutOn(x, a)
      BY <2>2, <2>5 DEF Visit, Dressable
    <3>2. b # a => ~Overlap(a, b)
      BY <1>5
    <3>3. b \in y <=> b \in x \/ b = a
      BY <3>1, <3>2 DEF PutOn
    <3> QED
      BY <2>3, <2>5, <3>3
  <2> QED
    BY <2>4, <2>5
<1> QED
  BY <1>5, <1>8, <1>9

LEMMA RestoreOutcome ==
    ASSUME NEW w, NEW s, Coherent(s)
    PROVE RestoreOutcomes(w, s) = {{a \in Desired(s) : a \in carried /\ (a \in Fits \/ a \in w)}}
<1> DEFINE D == Desired(s)
           V == Visits(w, D)
           r == {a \in D : a \in carried /\ (a \in Fits \/ a \in w)}
<1>1. /\ V[D] # {}
      /\ \A x \in V[D] : \A a \in D : a \in x <=> a \in w \/ (a \in D /\ Dressable(a))
  <2>1. IsFiniteSet(D) /\ \A a, b \in D : a # b => ~Overlap(a, b)
    BY DesiredFinite, CoherentApart
  <2> HIDE DEF D
  <2>2. D \in SUBSET D
    OBVIOUS
  <2> QED
    BY <2>1, <2>2, VisitsReach
<1>2. RestoreOutcomes(w, s) = {{a \in x : a \in D /\ a \in carried} : x \in V[D]}
  BY DEF RestoreOutcomes
<1> HIDE DEF D, V
<1>3. ASSUME NEW x \in V[D]
      PROVE {a \in x : a \in D /\ a \in carried} = r
  BY <1>1 DEF Dressable
<1> HIDE DEF r
<1>4. RestoreOutcomes(w, s) = {r}
  <2>1. \A z \in RestoreOutcomes(w, s) : z = r
    BY <1>2, <1>3
  <2>2. r \in RestoreOutcomes(w, s)
    <3>1. PICK x \in V[D] : TRUE
      BY <1>1
    <3> QED
      BY <1>2, <1>3, <3>1
  <2> QED
    BY <2>1, <2>2
<1> QED
  BY <1>4 DEF r, D

(* For any armor, slots and outfits, and in any order of the hash map.     *)
THEOREM RestoreAlwaysReaches == Spec => []RestoreReachesSnapshot
<1>1. RestoreReachesSnapshot
  <2> SUFFICES ASSUME Coherent(snap), NEW w \in RestoreOutcomes(worn, snap)
               PROVE /\ w = {a \in Desired(snap) : a \in carried /\ (a \in Fits \/ a \in worn)}
                     /\ RestoreOutcomes(w, snap) = {w}
    BY DEF RestoreReachesSnapshot
  <2>1. w = {a \in Desired(snap) : a \in carried /\ (a \in Fits \/ a \in worn)}
    BY RestoreOutcome
  <2>2. RestoreOutcomes(w, snap) = {{a \in Desired(snap) : a \in carried /\ (a \in Fits \/ a \in w)}}
    BY RestoreOutcome
  <2>3. {a \in Desired(snap) : a \in carried /\ (a \in Fits \/ a \in w)} = w
    BY <2>1
  <2> QED
    BY <2>1, <2>2, <2>3
<1> QED
  BY <1>1, PTL

----------------------------------------------------------------------------
(* Types, with the armor that can be worn together.                        *)

Snaps == {s \in [Slot -> Armor \cup {None}] : \A t \in Slot : s[t] # None => t \in SlotsOf[s[t]]}
Helmets == {g \in SUBSET Headgear(Armor) : Wearable(g)}
HeadEntries == [last : BOOLEAN, gear : Helmets, have : BOOLEAN, pending : BOOLEAN, tries : 0..RestoreTries]
Prefs == Headgear(Armor) \cup {None}
TaskSet == [kind : {"equip", "restore", "reconcile", "baseline", "drain"}, want : Helmets,
            tries : 0..ReconcileTries]
Disks == [exists : BOOLEAN, snap : Snaps, gear : Helmets, have : BOOLEAN, pref : Prefs, outfit : Outfit,
          fight : BOOLEAN, fightHead : SUBSET Armor, unseen : BOOLEAN]

TypeInv ==
    /\ cfg \in {g.cfg : g \in Games} /\ installed \in BOOLEAN
    /\ snap \in Snaps /\ owed \in BOOLEAN /\ lastSeen \in Outfit \cup {Unseen}
    /\ head \in HeadEntries /\ pref \in Prefs /\ tasks \in Seq(TaskSet)
    /\ outfit \in Outfit
    /\ worn \subseteq carried /\ carried \subseteq Armor /\ Wearable(worn)
    /\ fight \in BOOLEAN /\ menu \in BOOLEAN /\ follows \in BOOLEAN
    /\ disk \in Disks
    /\ fightHead \subseteq Armor /\ heard \in BOOLEAN /\ lost \in BOOLEAN /\ unseen \in BOOLEAN

LEMMA TypeInvTypes == TypeInv => TypeOK
<1> SUFFICES ASSUME TypeInv PROVE TypeOK
  OBVIOUS
<1>1. head.gear \in Helmets /\ head.last \in BOOLEAN /\ head.have \in BOOLEAN /\ head.pending \in BOOLEAN
      /\ head.tries \in 0..RestoreTries
  BY DEF TypeInv, HeadEntries
<1>2. ASSUME NEW k \in DOMAIN tasks
      PROVE tasks[k].want \subseteq Headgear(Armor) /\ tasks[k].tries \in 0..ReconcileTries
  <2>1. tasks[k] \in TaskSet
    BY DEF TypeInv
  <2> QED
    BY <2>1 DEF TaskSet, Helmets
<1> QED
  BY <1>1, <1>2 DEF TypeInv, TypeOK, Snaps, Helmets, Prefs

(* Snapshots.                                                              *)
LEMMA NothingCoherent == NothingSaved \in Snaps /\ Coherent(NothingSaved)
BY DEF NothingSaved, Snaps, Coherent

LEMMA BySlotNames ==
    ASSUME NEW w, NEW t \in Slot, BySlot(w)[t] # None
    PROVE BySlot(w)[t] \in w /\ t \in SlotsOf[BySlot(w)[t]]
<1>1. BySlot(w)[t] = IF \E a \in w : t \in SlotsOf[a] THEN CHOOSE a \in w : t \in SlotsOf[a] ELSE None
  BY DEF BySlot
<1>2. \E a \in w : t \in SlotsOf[a]
  BY <1>1
<1> QED
  BY <1>1, <1>2

LEMMA BySlotSnap ==
    ASSUME NEW w, w \subseteq Armor
    PROVE BySlot(w) \in Snaps
<1>1. ASSUME NEW t \in Slot
      PROVE BySlot(w)[t] # None => BySlot(w)[t] \in w /\ t \in SlotsOf[BySlot(w)[t]]
  BY BySlotNames
<1>2. BySlot(w) = [t \in Slot |-> BySlot(w)[t]]
  BY DEF BySlot
<1>3. \A t \in Slot : BySlot(w)[t] \in Armor \cup {None}
  BY <1>1
<1>4. BySlot(w) \in [Slot -> Armor \cup {None}]
  BY <1>2, <1>3
<1> QED
  BY <1>1, <1>4 DEF Snaps

LEMMA BySlotCoherent ==
    ASSUME NEW w, w \subseteq Armor, Wearable(w)
    PROVE Coherent(BySlot(w))
<1> SUFFICES ASSUME NEW t \in Slot, BySlot(w)[t] # None, NEW u \in SlotsOf[BySlot(w)[t]]
             PROVE BySlot(w)[u] = BySlot(w)[t]
  BY DEF Coherent
<1> DEFINE a == BySlot(w)[t]
<1>1. a \in w /\ u \in SlotsOf[a]
  BY BySlotNames
<1>2. u \in Slot
  BY <1>1, OutfitAssumption
<1>3. BySlot(w)[u] = CHOOSE b \in w : u \in SlotsOf[b]
  BY <1>1, <1>2 DEF BySlot
<1> HIDE DEF a
<1>4. BySlot(w)[u] \in w /\ u \in SlotsOf[BySlot(w)[u]]
  BY <1>1, <1>3
<1> QED
  BY <1>1, <1>4 DEF Wearable, Overlap, a

LEMMA SnapSlots ==
    ASSUME NEW s \in Snaps, NEW t \in Slot, s[t] # None
    PROVE s[t] \in Armor /\ t \in SlotsOf[s[t]] /\ SlotsOf[s[t]] \subseteq Slot
BY OutfitAssumption DEF Snaps

LEMMA CapturedCoheres ==
    ASSUME NEW s \in Snaps, NEW a \in Armor
    PROVE Captured(s, a) \in Snaps /\ (Coherent(s) => Coherent(Captured(s, a)))
<1> DEFINE d == {s[t] : t \in SlotsOf[a]} \ {None, a}
           c == Captured(s, a)
<1>1. c = [t \in Slot |-> IF t \in SlotsOf[a] THEN a ELSE IF s[t] \in d THEN None ELSE s[t]]
  BY DEF Captured
<1>2. SlotsOf[a] \subseteq Slot
  BY OutfitAssumption
<1> HIDE DEF c
<1>3. c \in Snaps
  <2>1. \A t \in Slot : c[t] \in Armor \cup {None} /\ (c[t] # None => t \in SlotsOf[c[t]])
    BY <1>1 DEF Snaps
  <2> QED
    BY <1>1, <2>1 DEF Snaps
<1>4. ASSUME Coherent(s), NEW t \in Slot, c[t] # None, NEW u \in SlotsOf[c[t]]
      PROVE c[u] = c[t]
  <2>1. CASE c[t] = a
    BY <1>1, <1>2, <1>4, <2>1
  <2>2. CASE c[t] # a
    <3>1. t \notin SlotsOf[a] /\ c[t] = s[t] /\ s[t] \notin d /\ s[t] # None
      BY <1>1, <1>4, <2>2
    <3>2. s[u] = s[t] /\ u \in Slot
      BY <1>4, <3>1, SnapSlots DEF Coherent
    <3>3. u \notin SlotsOf[a]
      BY <2>2, <3>1, <3>2
    <3> QED
      BY <1>1, <3>1, <3>2, <3>3
  <2> QED
    BY <2>1, <2>2
<1> QED
  BY <1>3, <1>4 DEF Coherent, c

LEMMA ReleasedCoheres ==
    ASSUME NEW s \in Snaps, NEW a \in Armor
    PROVE Released(s, a) \in Snaps /\ (Coherent(s) /\ a \in Desired(s) => Coherent(Released(s, a)))
<1> DEFINE c == Released(s, a)
<1>1. c = [t \in Slot |-> IF t \in SlotsOf[a] THEN None ELSE s[t]]
  BY DEF Released
<1> HIDE DEF c
<1>2. c \in Snaps
  <2>1. \A t \in Slot : c[t] \in Armor \cup {None} /\ (c[t] # None => t \in SlotsOf[c[t]])
    BY <1>1 DEF Snaps
  <2> QED
    BY <1>1, <2>1 DEF Snaps
<1>3. ASSUME Coherent(s), a \in Desired(s), NEW t \in Slot, c[t] # None, NEW u \in SlotsOf[c[t]]
      PROVE c[u] = c[t]
  <2>1. t \notin SlotsOf[a] /\ c[t] = s[t] /\ s[t] # None
    BY <1>1, <1>3
  <2>2. s[u] = s[t] /\ u \in Slot /\ t \in SlotsOf[s[t]]
    BY <1>3, <2>1, SnapSlots DEF Coherent
  <2>3. PICK v \in Slot : s[v] = a /\ s[v] # None
    BY <1>3 DEF Desired
  <2>4. u \notin SlotsOf[a]
    <3> SUFFICES ASSUME u \in SlotsOf[a] PROVE FALSE
      OBVIOUS
    <3>1. s[u] = a
      BY <1>3, <2>3 DEF Coherent
    <3> QED
      BY <2>1, <2>2, <3>1
  <2> QED
    BY <1>1, <2>1, <2>2, <2>4
<1> QED
  BY <1>2, <1>3 DEF Coherent, c

LEMMA ReseededCoheres ==
    ASSUME NEW s \in Snaps, NEW w, w \subseteq Armor
    PROVE /\ Reseeded(s, w) \in Snaps /\ Baseline(s, w) \in Snaps /\ Rebuilt(w) \in Snaps
          /\ Wearable(w) => /\ Coherent(s) => Coherent(Reseeded(s, w)) /\ Coherent(Baseline(s, w))
                            /\ Coherent(Rebuilt(w))
BY BySlotSnap, BySlotCoherent, NothingCoherent DEF Reseeded, Baseline, Rebuilt

(* What is worn.                                                           *)
LEMMA WearableSubset ==
    ASSUME NEW w, NEW x, Wearable(w), x \subseteq w
    PROVE Wearable(x)
BY DEF Wearable

LEMMA HelmetsOf ==
    ASSUME NEW w, w \subseteq Armor, Wearable(w)
    PROVE Headgear(w) \in Helmets /\ {} \in Helmets
<1>1. Headgear(w) \subseteq w /\ Headgear(w) \subseteq Headgear(Armor)
  BY DEF Headgear
<1>2. Wearable(Headgear(w)) /\ Wearable({})
  BY <1>1, WearableSubset
<1> QED
  BY <1>1, <1>2 DEF Helmets

(* Pieces that go on drive out what they overlap.                          *)
LEMMA LayerWearable ==
    ASSUME NEW w, NEW new, Wearable(w), Wearable(new)
    PROVE Wearable({b \in w : \A a \in new : ~Overlap(a, b)} \cup new)
BY DEF Wearable, Overlap

LEMMA PutBackWearable ==
    ASSUME NEW w, NEW gear, Wearable(w), w \subseteq carried, Wearable(gear)
    PROVE Wearable(PutBack(w, gear)) /\ PutBack(w, gear) \subseteq carried
<1> DEFINE kept == w \ (Headgear(w) \ gear)
           new == {a \in gear \ w : a \in Fits /\ a \in carried}
<1>1. Wearable(kept) /\ Wearable(new)
  <2>1. kept \subseteq w /\ new \subseteq gear
    OBVIOUS
  <2> QED
    BY <2>1, WearableSubset
<1>2. kept \subseteq carried /\ new \subseteq carried
  OBVIOUS
<1>3. PutBack(w, gear) = {b \in kept : \A a \in new : ~Overlap(a, b)} \cup new
  BY DEF PutBack
<1> HIDE DEF kept, new
<1>4. Wearable({b \in kept : \A a \in new : ~Overlap(a, b)} \cup new)
  BY <1>1, LayerWearable
<1> QED
  BY <1>2, <1>3, <1>4

LEMMA RestoreWearable ==
    ASSUME NEW w, NEW s, Wearable(w), w \subseteq carried, NEW x \in RestoreOutcomes(w, s)
    PROVE Wearable(x) /\ x \subseteq carried
<1> DEFINE D == Desired(s)
<1>1. PICK y \in Visits(w, D)[D] : x = {a \in y : a \in D /\ a \in carried}
  BY DEF RestoreOutcomes
<1>2. IsFiniteSet(D)
  BY DesiredFinite
<1> HIDE DEF D
<1>3. D \in SUBSET D
  OBVIOUS
<1>4. Wearable(y)
  BY <1>1, <1>2, <1>3, VisitsWearable
<1> QED
  BY <1>1, <1>4, WearableSubset

LEMMA ReseedAndRestoreKeeps ==
    ASSUME TypeInv, ReseedAndRestore
    PROVE /\ snap' \in Snaps /\ worn' \subseteq carried /\ Wearable(worn')
          /\ Coherent(snap) => Coherent(snap')
<1> DEFINE s == Reseeded(snap, worn)
<1>1. snap \in Snaps /\ worn \subseteq carried /\ carried \subseteq Armor /\ Wearable(worn) /\ worn \subseteq Armor
  BY DEF TypeInv
<1>2. s \in Snaps /\ (Coherent(snap) => Coherent(s))
  BY <1>1, ReseededCoheres
<1>3. \/ snap' = s /\ worn' = worn
      \/ /\ worn' \in RestoreOutcomes(worn, s)
         /\ \/ snap' = s
            \/ \E S \in SUBSET Desired(s) : \E x \in Visits(worn, Desired(s))[S] : snap' = Reseeded(s, x)
  BY DEF ReseedAndRestore
<1> HIDE DEF s
<1>4. ASSUME NEW S \in SUBSET Desired(s), NEW x \in Visits(worn, Desired(s))[S], snap' = Reseeded(s, x)
      PROVE snap' \in Snaps /\ (Coherent(s) => Coherent(snap'))
  <2>1. Wearable(x) /\ x \subseteq carried
    <3> DEFINE D == Desired(s)
    <3>1. IsFiniteSet(D)
      BY DesiredFinite
    <3> HIDE DEF D
    <3>2. \A T \in SUBSET D : \A y \in Visits(worn, D)[T] : Wearable(y) /\ y \subseteq carried
      BY <1>1, <3>1, VisitsWearable
    <3> QED
      BY <3>2 DEF D
  <2>2. x \subseteq Armor
    BY <1>1, <2>1
  <2> QED
    BY <1>2, <1>4, <2>1, <2>2, ReseededCoheres
<1>5. worn' \subseteq carried /\ Wearable(worn')
  BY <1>1, <1>3, RestoreWearable
<1> QED
  BY <1>2, <1>3, <1>4, <1>5

----------------------------------------------------------------------------
(* Every step keeps the types.                                             *)
LEMMA HeadRoom == HeadSlots \subseteq Slot
<1>1. HeadOrder \in Seq(Slot)
  BY OutfitAssumption
<1> QED
  BY <1>1 DEF HeadSlots

LEMMA InitTypes == Init => TypeInv
<1> SUFFICES ASSUME Init PROVE TypeInv
  OBVIOUS
<1>1. PICK g \in Games : cfg = g.cfg /\ carried = g.carried
  BY DEF Init
<1>2. carried \subseteq Armor /\ cfg \in {h.cfg : h \in Games}
  BY <1>1, GamesAssumption
<1>3. {} \in Helmets /\ Wearable({})
  BY DEF Helmets, Wearable
<1>4. NoHead \in HeadEntries
  BY <1>3, OutfitAssumption DEF NoHead, HeadEntries
<1>5. NoDisk \in Disks
  BY <1>3, NothingCoherent, OutfitAssumption DEF NoDisk, Disks, Prefs
<1>6. snap \in Snaps /\ head \in HeadEntries /\ disk \in Disks
  BY <1>4, <1>5, NothingCoherent DEF Init
<1>7. tasks \in Seq(TaskSet) /\ pref \in Prefs
  <2>1. tasks = <<>> /\ pref = None
    BY DEF Init
  <2> QED
    BY <2>1 DEF Prefs
<1>8. worn = {} /\ outfit \in Outfit /\ lastSeen \in Outfit \cup {Unseen} /\ fightHead \subseteq Armor
  BY OutfitAssumption DEF Init
<1>9. /\ installed \in BOOLEAN /\ owed \in BOOLEAN /\ fight \in BOOLEAN /\ menu \in BOOLEAN
      /\ follows \in BOOLEAN /\ heard \in BOOLEAN /\ lost \in BOOLEAN /\ unseen \in BOOLEAN
  BY Zenon DEF Init
<1> QED
  BY <1>2, <1>3, <1>6, <1>7, <1>8, <1>9 DEF TypeInv

(* The queue: its first task comes off, and at most one goes on.           *)
LEMMA TaskTypes ==
    ASSUME TypeInv, tasks # <<>>
    PROVE /\ Head(tasks) \in TaskSet /\ Tail(tasks) \in Seq(TaskSet)
          /\ \A t \in TaskSet : Tail(tasks) \o <<t>> \in Seq(TaskSet)
<1>1. tasks \in Seq(TaskSet)
  BY DEF TypeInv
<1>2. Head(tasks) \in TaskSet /\ Tail(tasks) \in Seq(TaskSet)
  BY <1>1
<1>3. ASSUME NEW t \in TaskSet PROVE Tail(tasks) \o <<t>> \in Seq(TaskSet)
  BY <1>2
<1> QED
  BY <1>2, <1>3

LEMMA SimpleTypes ==
    ASSUME NEW kind \in {"equip", "restore", "baseline", "drain"}
    PROVE Simple(kind) \in TaskSet
<1>1. {} \in Helmets
  BY DEF Helmets, Wearable
<1> QED
  BY <1>1, OutfitAssumption DEF Simple, Task, TaskSet

LEMMA RestoreTypes ==
    ASSUME TypeInv, tasks # <<>>, RunRestore
    PROVE head' \in HeadEntries /\ tasks' \in Seq(TaskSet) /\ worn' \subseteq carried /\ Wearable(worn')
<1> DEFINE live == cfg.headgear /\ follows /\ head.pending /\ head.have
           retry == live /\ (fight \/ menu) /\ head.tries > 0
           restore == live /\ ~retry /\ ~fight
<1>1. head \in HeadEntries /\ head.gear \in Helmets /\ head.tries \in 0..RestoreTries
      /\ worn \subseteq carried /\ Wearable(worn)
  BY DEF TypeInv, HeadEntries
<1>2. head' \in HeadEntries
  <2>1. head' = IF retry THEN [head EXCEPT !.tries = @ - 1]
                ELSE IF live THEN [head EXCEPT !.pending = FALSE, !.tries = 0] ELSE head
    BY DEF RunRestore
  <2>2. retry => head.tries - 1 \in 0..RestoreTries
    BY <1>1, OutfitAssumption
  <2>3. 0 \in 0..RestoreTries
    BY OutfitAssumption
  <2> HIDE DEF retry, live
  <2> QED
    BY <1>1, <2>1, <2>2, <2>3 DEF HeadEntries
<1>3. tasks' \in Seq(TaskSet)
  <2>1. Task("reconcile", head.gear, ReconcileTries) \in TaskSet /\ Simple("restore") \in TaskSet
    BY <1>1, SimpleTypes, OutfitAssumption DEF Task, TaskSet
  <2>2. \/ tasks' = Tail(tasks) \o <<Simple("restore")>>
        \/ tasks' = Tail(tasks) \o <<Task("reconcile", head.gear, ReconcileTries)>>
        \/ tasks' = Tail(tasks) \o <<>>
    BY DEF RunRestore
  <2>3. Tail(tasks) \o <<>> = Tail(tasks)
    BY TaskTypes
  <2> QED
    BY <2>1, <2>2, <2>3, TaskTypes
<1>4. worn' = worn \/ worn' = PutBack(worn, head.gear)
  BY DEF RunRestore
<1> QED
  BY <1>1, <1>2, <1>3, <1>4, PutBackWearable DEF Helmets

LEMMA ReconcileTypes ==
    ASSUME TypeInv, tasks # <<>>, RunReconcile
    PROVE tasks' \in Seq(TaskSet) /\ worn' \subseteq carried /\ Wearable(worn')
<1> DEFINE t == Head(tasks)
           again == cfg.headgear /\ follows /\ t.tries > 0 /\ (fight \/ menu \/ Differs(worn, t.want))
<1>1. t \in TaskSet /\ t.want \in Helmets /\ t.tries \in 0..ReconcileTries
  BY TaskTypes DEF TaskSet
<1>2. tasks' \in Seq(TaskSet)
  <2>1. tasks' = Tail(tasks) \o (IF again THEN <<Task("reconcile", t.want, t.tries - 1)>> ELSE <<>>)
    BY DEF RunReconcile
  <2>2. again => Task("reconcile", t.want, t.tries - 1) \in TaskSet
    BY <1>1, OutfitAssumption DEF Task, TaskSet
  <2> HIDE DEF again, t
  <2>3. Tail(tasks) \o <<>> = Tail(tasks)
    BY TaskTypes
  <2> QED
    BY <2>1, <2>2, <2>3, TaskTypes
<1>3. worn' = worn \/ worn' = PutBack(worn, t.want)
  BY DEF RunReconcile
<1>4. worn \subseteq carried /\ Wearable(worn)
  BY DEF TypeInv
<1> QED
  BY <1>1, <1>2, <1>3, <1>4, PutBackWearable DEF Helmets

LEMMA RunTaskTypes ==
    ASSUME TypeInv, RunTask
    PROVE TypeInv'
<1>1. /\ tasks # <<>>
      /\ UNCHANGED <<cfg, installed, owed, lastSeen, pref, outfit, carried, fight, menu, follows, disk,
                     heard, lost, fightHead, unseen>>
  BY DEF RunTask, history
<1> SUFFICES snap' \in Snaps /\ head' \in HeadEntries /\ tasks' \in Seq(TaskSet)
             /\ worn' \subseteq carried /\ Wearable(worn')
  BY <1>1 DEF TypeInv
<1>2. snap \in Snaps /\ head \in HeadEntries /\ worn \subseteq carried /\ Wearable(worn)
      /\ worn \subseteq Armor
  BY DEF TypeInv
<1>3. CASE RunEquip
  <2>1. PutOn(worn, pref) \subseteq worn \cup {pref} /\ Wearable(PutOn(worn, pref))
    BY <1>2, PutOnWearable DEF PutOn
  <2> QED
    BY <1>1, <1>2, <1>3, <2>1, TaskTypes DEF RunEquip
<1>4. CASE RunRestore
  BY <1>1, <1>2, <1>4, RestoreTypes DEF RunRestore
<1>5. CASE RunReconcile
  BY <1>1, <1>2, <1>5, ReconcileTypes DEF RunReconcile
<1>6. CASE RunBaseline
  <2>1. Baseline(snap, worn) \in Snaps
    BY <1>2, ReseededCoheres
  <2> QED
    BY <1>1, <1>2, <1>6, <2>1, TaskTypes DEF RunBaseline
<1>7. CASE RunDrain
  BY <1>1, <1>2, <1>7, TaskTypes, ReseedAndRestoreKeeps DEF RunDrain
<1> QED
  BY <1>3, <1>4, <1>5, <1>6, <1>7 DEF RunTask

(* A set of numbers up to n has a least one.                              *)
LEMMA LeastNumber ==
    ASSUME NEW n \in Nat, NEW S, S \subseteq 1..n, S # {}
    PROVE \E k \in S : \A j \in S : k <= j
<1> DEFINE F == {1..k : k \in S}
<1>1. IsFiniteSet(1..n)
  BY FS_Interval, 1 \in Int, n \in Int
<1>2. F \subseteq SUBSET (1..n) /\ F # {}
  <2>1. \A k \in S : 1..k \in SUBSET (1..n)
    OBVIOUS
  <2> QED
    BY <2>1
<1>3. \E L \in F : \A M \in F : M \subseteq L => M = L
  <2> HIDE DEF F
  <2> DEFINE D == 1..n
  <2>1. IsFiniteSet(D) /\ F \subseteq SUBSET D /\ F # {}
    BY <1>1, <1>2
  <2> HIDE DEF D
  <2> QED
    BY <2>1, MinimalMember
<1>4. PICK L \in F : \A M \in F : M \subseteq L => M = L
  BY <1>3
<1>5. PICK k \in S : L = 1..k
  OBVIOUS
<1>6. ASSUME NEW j \in S, j < k PROVE FALSE
  <2>1. 1..j \in F /\ 1..j \subseteq 1..k
    BY <1>6
  <2>2. 1..j = 1..k
    BY <1>4, <1>5, <2>1
  <2>3. k \in 1..k
    OBVIOUS
  <2>4. k \notin 1..j
    BY <1>6
  <2> QED
    BY <2>2, <2>3, <2>4
<1>7. \A j \in S : k <= j
  BY <1>6
<1> QED
  BY <1>7

(* The preference that the menu seeds is the first piece of headgear worn. *)
LEMMA SeededTypes ==
    ASSUME TypeInv
    PROVE Seeded(pref, worn) \in Prefs
<1> DEFINE b == BySlot(worn)
           on == {k \in DOMAIN HeadOrder : b[HeadOrder[k]] # None}
           first == CHOOSE k \in on : \A j \in on : k <= j
<1>1. pref \in Prefs /\ worn \subseteq Armor
  BY DEF TypeInv
<1>2. Seeded(pref, worn) = IF pref # None \/ on = {} THEN pref ELSE b[HeadOrder[first]]
  BY DEF Seeded
<1>3. ASSUME on # {} PROVE first \in on
  <2>1. Len(HeadOrder) \in Nat /\ on \subseteq 1..Len(HeadOrder)
    <3>1. HeadOrder \in Seq(Slot)
      BY OutfitAssumption
    <3> QED
      BY <3>1
  <2> HIDE DEF on
  <2>2. \E k \in on : \A j \in on : k <= j
    BY <1>3, <2>1, LeastNumber
  <2> QED
    BY <2>2, Zenon
<1> HIDE DEF first
<1>4. ASSUME NEW k \in on PROVE b[HeadOrder[k]] \in Prefs
  <2>1. HeadOrder[k] \in Slot /\ HeadOrder[k] \in HeadSlots
    <3>1. HeadOrder \in Seq(Slot)
      BY OutfitAssumption
    <3> QED
      BY <3>1 DEF HeadSlots
  <2>2. b[HeadOrder[k]] \in worn /\ HeadOrder[k] \in SlotsOf[b[HeadOrder[k]]]
    BY <2>1, BySlotNames
  <2> QED
    BY <1>1, <2>1, <2>2 DEF Prefs, Headgear
<1> HIDE DEF on, b
<1> QED
  BY <1>1, <1>2, <1>3, <1>4

LEMMA MenuTypes ==
    ASSUME TypeInv, MenuStep
    PROVE TypeInv'
<1>1. /\ snap \in Snaps /\ worn \subseteq carried /\ carried \subseteq Armor /\ Wearable(worn)
      /\ pref \in Prefs /\ tasks \in Seq(TaskSet)
  BY DEF TypeInv
<1>2. CASE OpenMenu
  <2>1. UNCHANGED <<cfg, installed, snap, owed, lastSeen, head, outfit, worn, carried, fight, follows, disk,
                    heard, lost, fightHead, unseen>> /\ menu' = TRUE
    BY <1>2 DEF OpenMenu, history
  <2>2. pref' \in Prefs
    BY <1>1, <1>2, SeededTypes DEF OpenMenu
  <2>3. tasks' \in Seq(TaskSet)
    BY <1>1, <1>2, SimpleTypes DEF OpenMenu
  <2> QED
    BY <2>1, <2>2, <2>3 DEF TypeInv
<1>3. CASE CloseMenu
  <2>1. UNCHANGED <<cfg, installed, snap, lastSeen, head, pref, outfit, worn, carried, fight, follows, disk,
                    heard, lost, fightHead, unseen>> /\ menu' = FALSE
    BY <1>3 DEF CloseMenu, history
  <2>2. owed' \in BOOLEAN
    BY <1>3 DEF CloseMenu, TypeInv
  <2>3. tasks' \in Seq(TaskSet)
    BY <1>1, <1>3, SimpleTypes DEF CloseMenu
  <2> QED
    BY <2>1, <2>2, <2>3 DEF TypeInv
<1>4. ASSUME NEW a \in Armor, UserEquip(a) PROVE TypeInv'
  <2>1. UNCHANGED <<cfg, installed, owed, lastSeen, head, pref, tasks, outfit, carried, fight, menu, follows,
                    disk, heard, lost, fightHead, unseen>>
    BY <1>4 DEF UserEquip, history
  <2>2. snap' \in Snaps
    BY <1>1, <1>4, CapturedCoheres DEF UserEquip
  <2>3. worn' \subseteq carried /\ Wearable(worn')
    <3>1. worn' = PutOn(worn, a) /\ a \in carried
      BY <1>4 DEF UserEquip
    <3>2. PutOn(worn, a) \subseteq worn \cup {a}
      BY DEF PutOn
    <3> QED
      BY <1>1, <3>1, <3>2, PutOnWearable
  <2> QED
    BY <2>1, <2>2, <2>3 DEF TypeInv
<1>5. ASSUME NEW a \in Armor, UserUnequip(a) PROVE TypeInv'
  <2>1. UNCHANGED <<cfg, installed, owed, lastSeen, head, pref, tasks, outfit, carried, fight, menu, follows,
                    disk, heard, lost, fightHead, unseen>>
    BY <1>5 DEF UserUnequip, history
  <2>2. snap' \in Snaps
    BY <1>1, <1>5, ReleasedCoheres DEF UserUnequip
  <2>3. worn' \subseteq carried /\ Wearable(worn')
    <3>1. worn' = worn \ {a}
      BY <1>5 DEF UserUnequip
    <3> QED
      BY <1>1, <3>1, WearableSubset
  <2> QED
    BY <2>1, <2>2, <2>3 DEF TypeInv
<1>6. ASSUME NEW a \in Armor, UserPrefers(a) PROVE TypeInv'
  <2>1. UNCHANGED <<cfg, installed, snap, owed, lastSeen, head, tasks, outfit, worn, carried, fight, menu,
                    follows, disk, heard, lost, fightHead, unseen>>
    BY <1>6 DEF UserPrefers, history, world
  <2>2. pref' \in Prefs
    BY <1>1, <1>6 DEF UserPrefers, Prefs, Headgear
  <2> QED
    BY <2>1, <2>2 DEF TypeInv
<1> QED
  BY <1>2, <1>3, <1>4, <1>5, <1>6 DEF MenuStep

LEMMA UpdateTypes ==
    ASSUME TypeInv, UpdateNPCOutfit
    PROVE TypeInv'
<1>1. UNCHANGED <<cfg, installed, head, pref, tasks, outfit, fight, menu, follows, disk, heard, lost, fightHead, unseen>>
  BY DEF UpdateNPCOutfit, history
<1>2. /\ snap \in Snaps /\ worn \subseteq carried /\ carried \subseteq Armor /\ Wearable(worn)
      /\ outfit \in Outfit /\ owed \in BOOLEAN /\ lastSeen \in Outfit \cup {Unseen}
  BY DEF TypeInv
<1>3. lastSeen' \in Outfit \cup {Unseen}
  BY <1>2 DEF UpdateNPCOutfit
<1>4. ASSUME VanillaUpdate
      PROVE worn' \subseteq carried' /\ carried' \subseteq Armor /\ Wearable(worn')
  <2>1. GearOf[outfit] \subseteq Armor /\ Wearable(GearOf[outfit])
    BY <1>2, OutfitAssumption, WearableAssumption
  <2>2. Wearable({b \in worn : \A a \in GearOf[outfit] : ~Overlap(a, b)} \cup GearOf[outfit])
    BY <1>2, <2>1, LayerWearable
  <2>3. {b \in worn : \A a \in GearOf[outfit] : ~Overlap(a, b)} \cup GearOf[outfit] \subseteq carried \cup GearOf[outfit]
    BY <1>2
  <2> QED
    BY <1>2, <1>4, <2>1, <2>2, <2>3 DEF VanillaUpdate
<1>5. ASSUME Suppressed
      PROVE snap' \in Snaps /\ owed' \in BOOLEAN /\ worn' \subseteq carried /\ Wearable(worn')
  BY <1>2, <1>5, ReseedAndRestoreKeeps DEF Suppressed
<1>6. \/ VanillaUpdate /\ snap' = snap /\ owed' = owed
      \/ VanillaUpdate /\ snap' = Rebuilt(worn') /\ owed' = owed
      \/ Suppressed /\ carried' = carried
  BY DEF UpdateNPCOutfit
<1>7. snap' \in Snaps /\ owed' \in BOOLEAN /\ worn' \subseteq carried' /\ carried' \subseteq Armor /\ Wearable(worn')
  <2>1. CASE VanillaUpdate /\ snap' = snap /\ owed' = owed
    BY <1>2, <1>4, <2>1
  <2>2. CASE VanillaUpdate /\ snap' = Rebuilt(worn') /\ owed' = owed
    BY <1>2, <1>4, <2>2, ReseededCoheres
  <2>3. CASE Suppressed /\ carried' = carried
    BY <1>2, <1>5, <2>3
  <2> QED
    BY <1>6, <2>1, <2>2, <2>3
<1> QED
  BY <1>1, <1>3, <1>7 DEF TypeInv

LEMMA GameTypes ==
    ASSUME TypeInv, GameStep
    PROVE TypeInv'
<1>1. /\ snap \in Snaps /\ worn \subseteq carried /\ carried \subseteq Armor /\ Wearable(worn)
      /\ worn \subseteq Armor /\ head \in HeadEntries /\ tasks \in Seq(TaskSet) /\ fightHead \subseteq Armor
      /\ cfg.outfits \subseteq Outfit /\ cfg.scarce \subseteq Armor
  BY GamesAssumption DEF TypeInv
<1>2. ASSUME NEW next \in BOOLEAN, CombatEvent(next) PROVE TypeInv'
  <2> DEFINE seen == installed /\ follows
             entered == seen /\ cfg.headgear /\ ~head.last /\ next
             watched == IF seen THEN [head EXCEPT !.last = next] ELSE head
  <2>1. UNCHANGED <<cfg, installed, snap, owed, lastSeen, pref, outfit, worn, carried, menu, follows, disk>>
        /\ fight' = next
    BY <1>2 DEF CombatEvent
  <2>2. watched \in HeadEntries
    BY <1>1 DEF HeadEntries
  <2>3. \/ head' = [watched EXCEPT !.gear = Headgear(worn), !.have = TRUE]
        \/ head' = [watched EXCEPT !.pending = TRUE, !.tries = RestoreTries]
        \/ head' = watched
    BY <1>2 DEF CombatEvent
  <2>4. RestoreTries \in 0..RestoreTries /\ Headgear(worn) \in Helmets
    BY <1>1, HelmetsOf, OutfitAssumption
  <2> HIDE DEF watched
  <2>5. head' \in HeadEntries
    BY <2>2, <2>3, <2>4 DEF HeadEntries
  <2>6. tasks' \in Seq(TaskSet)
    <3>1. tasks' = Append(tasks, Simple("equip")) \/ tasks' = Append(tasks, Simple("restore")) \/ tasks' = tasks
      BY <1>2 DEF CombatEvent
    <3> QED
      BY <1>1, <3>1, SimpleTypes
  <2>7. fightHead' \subseteq Armor
    <3>1. fightHead' = Headgear(worn) \/ fightHead' = fightHead
      BY <1>2 DEF CombatEvent, Hears
    <3> QED
      BY <1>1, <3>1 DEF Headgear
  <2>8. heard' \in BOOLEAN /\ lost' \in BOOLEAN /\ unseen' \in BOOLEAN
    <3>1. Hears(seen, next)
      BY <1>2 DEF CombatEvent
    <3>2. lost \in BOOLEAN /\ unseen \in BOOLEAN
      BY DEF TypeInv
    <3>3. lost' \in BOOLEAN
      BY <3>1, <3>2 DEF Hears
    <3> QED
      BY <3>1, <3>2, <3>3 DEF Hears
  <2> HIDE DEF entered
  <2> QED
    BY <2>1, <2>5, <2>6, <2>7, <2>8 DEF TypeInv
<1>3. ASSUME NEW o \in cfg.outfits, SetOutfit(o) PROVE TypeInv'
  BY <1>1, <1>3 DEF SetOutfit, TypeInv, feature, history
<1>4. ASSUME NEW a \in Armor, ExternalEquip(a) PROVE TypeInv'
  <2>1. UNCHANGED <<cfg, installed, owed, lastSeen, head, pref, tasks, outfit, carried, fight, menu, follows,
                    disk, heard, lost, fightHead, unseen>>
    BY <1>4 DEF ExternalEquip, history
  <2>2. worn' \subseteq carried /\ Wearable(worn')
    <3>1. worn' = PutOn(worn, a) /\ a \in carried
      BY <1>4 DEF ExternalEquip
    <3>2. PutOn(worn, a) \subseteq worn \cup {a}
      BY DEF PutOn
    <3> QED
      BY <1>1, <3>1, <3>2, PutOnWearable
  <2>3. snap' \in Snaps
    <3>1. worn' \subseteq Armor
      BY <1>1, <2>2
    <3> QED
      BY <1>1, <1>4, <3>1, ReseededCoheres DEF ExternalEquip
  <2> QED
    BY <2>1, <2>2, <2>3 DEF TypeInv
<1>5. ASSUME NEW gone, TakeOff(gone) PROVE TypeInv'
  <2>1. worn' \subseteq worn
    BY <1>5 DEF TakeOff
  <2>2. worn' \subseteq carried /\ Wearable(worn')
    BY <1>1, <2>1, WearableSubset
  <2> QED
    BY <1>5, <2>2 DEF TakeOff, TypeInv, feature, history
<1>6. ASSUME NEW a \in cfg.scarce, LoseOrGain(a) PROVE TypeInv'
  <2>1. carried' \subseteq Armor /\ worn' \subseteq carried' /\ worn' \subseteq worn
    BY <1>1, <1>6 DEF LoseOrGain
  <2>2. Wearable(worn')
    BY <1>1, <2>1, WearableSubset
  <2> QED
    BY <1>6, <2>1, <2>2 DEF LoseOrGain, TypeInv, feature, history
<1> QED
  BY <1>2, <1>3, <1>4, <1>5, <1>6, UpdateTypes DEF GameStep

LEMMA LifecycleTypes ==
    ASSUME TypeInv, LifecycleStep
    PROVE TypeInv'
<1>1. {} \in Helmets /\ NoHead \in HeadEntries
  <2>1. {} \in Helmets
    BY DEF Helmets, Wearable
  <2> QED
    BY <2>1, OutfitAssumption DEF NoHead, HeadEntries
<1>2. CASE ToggleFollower
  BY <1>2 DEF ToggleFollower, TypeInv, feature, history
<1>3. CASE EraseActor
  BY <1>1, <1>3, NothingCoherent DEF EraseActor, TypeInv, world, Prefs
<1>4. CASE Uninstall
  BY <1>1, <1>4, NothingCoherent DEF Uninstall, TypeInv, world
<1>5. CASE Install
  BY <1>5 DEF Install, TypeInv, feature, world, history
<1>6. CASE SaveGame
  <2>1. UNCHANGED <<cfg, installed, snap, owed, lastSeen, head, pref, tasks, outfit, worn, carried, fight,
                    menu, follows, heard, lost, fightHead, unseen>>
    BY <1>6 DEF SaveGame, feature, world, history
  <2>2. disk' \in Disks
    <3>1. head.gear \in Helmets /\ head.have \in BOOLEAN
      BY DEF TypeInv, HeadEntries
    <3> QED
      BY <1>1, <1>6, <3>1 DEF SaveGame, TypeInv, Disks
  <2> QED
    BY <2>1, <2>2 DEF TypeInv
<1>7. CASE LoadGame
  <2>1. disk.snap \in Snaps /\ disk.gear \in Helmets /\ disk.fight \in BOOLEAN /\ disk.pref \in Prefs
        /\ disk.outfit \in Outfit /\ disk.fightHead \subseteq Armor /\ disk.have \in BOOLEAN
        /\ disk.unseen \in BOOLEAN
    BY DEF TypeInv, Disks
  <2>2. LoadedHead(disk.have, disk.gear, disk.fight) \in HeadEntries
    BY <1>1, <2>1, OutfitAssumption DEF LoadedHead, NoHead, HeadEntries
  <2>3. UNCHANGED <<cfg, installed, owed, lastSeen, tasks, menu, disk, carried>>
        /\ snap' = disk.snap /\ head' = LoadedHead(disk.have, disk.gear, disk.fight) /\ pref' = disk.pref
        /\ outfit' = disk.outfit /\ worn' = {} /\ fight' = disk.fight /\ follows' = TRUE
        /\ fightHead' = disk.fightHead /\ unseen' = (disk.unseen \/ ~disk.have)
        /\ heard' = (disk.have /\ disk.fight) /\ lost' = FALSE
    BY <1>7 DEF LoadGame
  <2>4. Wearable({})
    BY DEF Wearable
  <2> QED
    BY <2>1, <2>2, <2>3, <2>4 DEF TypeInv
<1> QED
  BY <1>2, <1>3, <1>4, <1>5, <1>6, <1>7 DEF LifecycleStep

LEMMA NextTypes == TypeInv /\ [Next]_vars => TypeInv'
<1> SUFFICES ASSUME TypeInv, [Next]_vars PROVE TypeInv'
  OBVIOUS
<1>1. CASE UNCHANGED vars
  BY <1>1 DEF TypeInv, vars, feature, world, history
<1> QED
  BY <1>1, RunTaskTypes, MenuTypes, GameTypes, LifecycleTypes DEF Next

(* Snapshots name pieces in their own slots, no two pieces that are worn,  *)
(* or listed as headgear, share a slot, and what is worn is carried.       *)
THEOREM OutfitTypesHold == Spec => []TypeOK
BY InitTypes, NextTypes, TypeInvTypes, PTL DEF Spec

----------------------------------------------------------------------------
(* What keeps a snapshot coherent.                                         *)
LEMMA NextCoheres ==
    ASSUME TypeInv, TypeInv', Next, Coherent(snap), Coherent(disk.snap)
    PROVE Coherent(snap') \/ \E a \in worn \ Desired(snap) : worn' = worn \ {a}
<1>1. /\ snap \in Snaps /\ worn \subseteq Armor /\ Wearable(worn)
      /\ worn' \subseteq Armor /\ Wearable(worn')
  BY DEF TypeInv
<1>2. CASE RunTask
  <2>1. \/ snap' = snap
        \/ snap' = Baseline(snap, worn)
        \/ ReseedAndRestore
    BY <1>2 DEF RunTask, RunEquip, RunRestore, RunReconcile, RunBaseline, RunDrain
  <2> QED
    BY <1>1, <2>1, ReseededCoheres, ReseedAndRestoreKeeps
<1>3. CASE OpenMenu \/ CloseMenu
  BY <1>3 DEF OpenMenu, CloseMenu
<1>4. ASSUME NEW a \in Armor, UserEquip(a) PROVE Coherent(snap')
  BY <1>1, <1>4, CapturedCoheres DEF UserEquip
<1>5. ASSUME NEW a \in Armor, UserUnequip(a)
      PROVE Coherent(snap') \/ \E b \in worn \ Desired(snap) : worn' = worn \ {b}
  <2>1. CASE a \in Desired(snap)
    BY <1>1, <1>5, <2>1, ReleasedCoheres DEF UserUnequip
  <2>2. CASE a \notin Desired(snap)
    BY <1>5, <2>2 DEF UserUnequip
  <2> QED
    BY <2>1, <2>2
<1>6. ASSUME NEW a \in Armor, UserPrefers(a) PROVE Coherent(snap')
  BY <1>6 DEF UserPrefers
<1>7. CASE UpdateNPCOutfit
  <2>1. snap' = snap \/ snap' = Rebuilt(worn') \/ ReseedAndRestore
    BY <1>7 DEF UpdateNPCOutfit, Suppressed
  <2> QED
    BY <1>1, <2>1, ReseededCoheres, ReseedAndRestoreKeeps
<1>8. ASSUME NEW a \in Armor, ExternalEquip(a) PROVE Coherent(snap')
  <2>1. snap' = snap \/ snap' = Reseeded(snap, worn')
    BY <1>8 DEF ExternalEquip
  <2> QED
    BY <1>1, <2>1, ReseededCoheres
<1>9. ASSUME NEW x, CombatEvent(x) \/ SetOutfit(x) \/ TakeOff(x) \/ LoseOrGain(x) PROVE Coherent(snap')
  BY <1>9 DEF CombatEvent, SetOutfit, TakeOff, LoseOrGain, feature
<1>10. CASE LifecycleStep
  BY <1>10, NothingCoherent
     DEF LifecycleStep, ToggleFollower, EraseActor, Uninstall, Install, SaveGame, LoadGame, feature
<1>11. CASE MenuStep
  BY <1>3, <1>4, <1>5, <1>6, <1>11 DEF MenuStep
<1>12. CASE GameStep
  BY <1>7, <1>8, <1>9, <1>12 DEF GameStep
<1> QED
  BY <1>2, <1>10, <1>11, <1>12 DEF Next

(* Captures, baselines, reseeds in the middle of a restore, erasures and   *)
(* loads keep a coherent snapshot coherent, for any armor and any masks;   *)
(* only the player can split it, by taking off a piece it does not name.   *)
THEOREM OnlyStrayAlwaysSplits == Spec => OnlyStrayUnequipSplits
<1>1. TypeInv /\ TypeInv' /\ [Next]_vars =>
        [Coherent(snap) /\ Coherent(disk.snap) /\ ~Coherent(snap') =>
           \E a \in worn \ Desired(snap) : worn' = worn \ {a}]_<<snap, worn>>
  <2>1. UNCHANGED vars => UNCHANGED <<snap, worn>>
    BY DEF vars, feature, world
  <2> QED
    BY <2>1, NextCoheres
<1> QED
  BY <1>1, InitTypes, NextTypes, PTL DEF Spec, OnlyStrayUnequipSplits

----------------------------------------------------------------------------
(* Queued tasks, up to the frames that drain the queue.  Liveness is       *)
(* TLC's, but all DrainDresses takes besides fairness is proved: a task    *)
(* only moves up, and a drain leaves the follower dressed as recorded.     *)

(* The first task runs, and no step puts a task before another one.        *)
TasksMoveUp ==
    \A k \in DOMAIN tasks :
        IF RunTask THEN k = 1 \/ (k - 1 \in DOMAIN tasks' /\ tasks'[k - 1] = tasks[k])
        ELSE k \in DOMAIN tasks' /\ tasks'[k] = tasks[k]

LEMMA TailMovesUp ==
    ASSUME TypeInv, tasks # <<>>, NEW more \in Seq(TaskSet), tasks' = Tail(tasks) \o more,
           NEW k \in DOMAIN tasks
    PROVE k = 1 \/ (k - 1 \in DOMAIN tasks' /\ tasks'[k - 1] = tasks[k])
<1>1. tasks \in Seq(TaskSet)
  BY DEF TypeInv
<1>2. Tail(tasks) \in Seq(TaskSet) /\ Len(Tail(tasks)) = Len(tasks) - 1
  BY <1>1
<1>3. k \in 1..Len(tasks)
  BY <1>1
<1>4. k # 1 => k - 1 \in 1..Len(Tail(tasks)) /\ Tail(tasks)[k - 1] = tasks[k]
  BY <1>1, <1>2, <1>3
<1>5. \A j \in 1..Len(Tail(tasks)) : j \in DOMAIN tasks' /\ tasks'[j] = Tail(tasks)[j]
  BY <1>2
<1> QED
  BY <1>4, <1>5

LEMMA StepMovesUp ==
    ASSUME TypeInv, [Next]_vars
    PROVE TasksMoveUp
<1> SUFFICES ASSUME NEW k \in DOMAIN tasks
             PROVE IF RunTask THEN k = 1 \/ (k - 1 \in DOMAIN tasks' /\ tasks'[k - 1] = tasks[k])
                   ELSE k \in DOMAIN tasks' /\ tasks'[k] = tasks[k]
  BY DEF TasksMoveUp
<1>1. tasks \in Seq(TaskSet)
  BY DEF TypeInv
<1>2. CASE RunTask
  <2>1. tasks # <<>> /\ \/ tasks' = Tail(tasks)
                        \/ \E t : tasks' = Tail(tasks) \o <<t>>
                        \/ tasks' = Tail(tasks) \o <<>>
    BY <1>2 DEF RunTask, RunEquip, RunRestore, RunReconcile, RunBaseline, RunDrain
  <2>2. Tail(tasks) \in Seq(TaskSet)
    BY <1>1, <2>1
  <2>3. tasks' \in Seq(TaskSet)
    BY <1>2, RunTaskTypes DEF TypeInv
  <2>4. <<>> \in Seq(TaskSet) /\ Tail(tasks) \o <<>> = Tail(tasks)
    BY <2>2
  <2>5. ASSUME NEW t, tasks' = Tail(tasks) \o <<t>> PROVE <<t>> \in Seq(TaskSet)
    <3>1. tasks'[Len(Tail(tasks)) + 1] = t /\ Len(Tail(tasks)) + 1 \in DOMAIN tasks'
      BY <2>2, <2>5
    <3>2. t \in TaskSet
      BY <2>3, <3>1
    <3> QED
      BY <3>2
  <2>6. PICK more \in Seq(TaskSet) : tasks' = Tail(tasks) \o more
    <3>1. CASE tasks' = Tail(tasks) \o <<>> \/ tasks' = Tail(tasks)
      BY <2>4, <3>1
    <3>2. ASSUME NEW t, tasks' = Tail(tasks) \o <<t>>
          PROVE \E more \in Seq(TaskSet) : tasks' = Tail(tasks) \o more
      BY <2>5, <3>2
    <3> QED
      BY <2>1, <3>1, <3>2
  <2> QED
    BY <1>2, <2>1, <2>6, TailMovesUp
<1>3. CASE ~RunTask
  <2>1. UNCHANGED tasks \/ \E kind : tasks' = Append(tasks, Simple(kind))
    <3>1. CASE MenuStep
      BY <3>1 DEF MenuStep, OpenMenu, CloseMenu, UserEquip, UserUnequip, UserPrefers
    <3>2. CASE GameStep
      BY <3>2
      DEF GameStep, UpdateNPCOutfit, CombatEvent, SetOutfit, ExternalEquip, TakeOff, LoseOrGain, feature
    <3>3. CASE LifecycleStep \/ UNCHANGED vars
      BY <3>3
      DEF LifecycleStep, ToggleFollower, EraseActor, Uninstall, Install, SaveGame, LoadGame, feature,
          vars
    <3> QED
      BY <1>3, <3>1, <3>2, <3>3 DEF Next
  <2>2. k \in DOMAIN tasks' /\ tasks'[k] = tasks[k]
    BY <1>1, <2>1
  <2> QED
    BY <1>3, <2>2
<1> QED
  BY <1>2, <1>3

(* Visits put on pieces of their own and, when all are worn, change        *)
(* nothing.                                                                *)
LEMMA VisitsOnly ==
    ASSUME NEW w, NEW D, IsFiniteSet(D)
    PROVE \A S \in SUBSET D : \A x \in Visits(w, D)[S] : x \subseteq w \cup S /\ (D \subseteq w => x = w)
<1> DEFINE V == Visits(w, D)
           Ok(x, S) == x \subseteq w \cup S /\ (D \subseteq w => x = w)
           F == {S \in SUBSET D : \E x \in V[S] : ~Ok(x, S)}
<1>1. V[{}] = {w}
  BY VisitsStages
<1>2. \A S \in (SUBSET D) \ {{}} : \A y \in V[S] : \E a \in S : \E x \in V[S \ {a}] : y = Visit(x, a)
  BY VisitsStages
<1> HIDE DEF V
<1> SUFFICES ASSUME F # {} PROVE FALSE
  BY DEF V
<1>3. F \subseteq SUBSET D
  OBVIOUS
<1> HIDE DEF F
<1>4. PICK S \in F : \A T \in F : T \subseteq S => T = S
  BY <1>3, MinimalMember
<1>5. PICK y \in V[S] : S \in SUBSET D /\ ~Ok(y, S)
  BY DEF F
<1>6. S # {} /\ S \in (SUBSET D) \ {{}}
  BY <1>1, <1>5
<1>7. PICK a \in S : \E x \in V[S \ {a}] : y = Visit(x, a)
  BY <1>2, <1>6
<1>8. PICK x \in V[S \ {a}] : y = Visit(x, a)
  BY <1>7
<1>9. S \ {a} \notin F
  BY <1>4
<1>10. Ok(x, S \ {a})
  BY <1>5, <1>9 DEF F
<1>11. y \subseteq x \cup {a} /\ (a \in x => y = x)
  BY <1>8 DEF Visit, PutOn
<1> QED
  BY <1>5, <1>7, <1>10, <1>11

(* Who wears just what a coherent snapshot asks for has nothing to gain    *)
(* from another restore.                                                   *)
WornAsAsked ==
    Coherent(snap) /\ worn = {a \in Desired(snap) : a \in carried /\ (a \in Fits \/ a \in worn)}

LEMMA AskedIsDressed == WornAsAsked => Dressed
BY RestoreOutcome DEF WornAsAsked, Dressed

(* The reseed that a restore's own equips can cause on the way names only  *)
(* pieces that the restore has put on, so that it asks for nothing new.    *)
LEMMA MidwayReseed ==
    ASSUME TypeInv, cfg.allow, Coherent(snap), NEW s, s = Reseeded(snap, worn), follows,
           NEW S \in SUBSET Desired(s), NEW x \in Visits(worn, Desired(s))[S], x # worn, x # {}
    PROVE x \subseteq {a \in Desired(s) : a \in carried /\ (a \in Fits \/ a \in worn)}
<1> DEFINE D == Desired(s)
<1>1. IsFiniteSet(D)
  BY DesiredFinite
<1>2. worn = {} /\ s = snap
  <2>1. CASE worn # {}
    <3>1. s = BySlot(worn)
      BY <2>1 DEF Reseeded
    <3>2. D \subseteq worn
      BY <3>1, BySlotNames DEF Desired
    <3> HIDE DEF D
    <3>3. \A T \in SUBSET D : \A y \in Visits(worn, D)[T] : D \subseteq worn => y = worn
      BY <1>1, VisitsOnly
    <3> QED
      BY <3>2, <3>3 DEF D
  <2> QED
    BY <2>1 DEF Reseeded
<1>3. \A a, b \in D : a # b => ~Overlap(a, b)
  BY <1>2, CoherentApart
<1> HIDE DEF D
<1>4. \A T \in SUBSET D : \A y \in Visits(worn, D)[T] :
         \A a \in D : a \in y <=> a \in worn \/ (a \in T /\ Dressable(a))
  BY <1>1, <1>3, VisitsReach
<1>5. \A T \in SUBSET D : \A y \in Visits(worn, D)[T] : y \subseteq worn \cup T
  BY <1>1, VisitsOnly
<1>6. x \subseteq D /\ \A a \in x : Dressable(a)
  BY <1>2, <1>4, <1>5 DEF D
<1> QED
  BY <1>6 DEF Dressable, D

(* A drain answers: it dresses the follower as recorded, or as reseeded on *)
(* the way, unless there is nothing to dress for.                          *)
LEMMA DrainAnswers ==
    ASSUME TypeInv, TypeInv', RunTask, Head(tasks).kind = "drain", ~Answered
    PROVE Answered'
<1>0. /\ ~fight /\ ~menu /\ follows /\ Coherent(snap)
      /\ UNCHANGED <<cfg, carried, fight, menu, follows>>
  BY DEF Answered, RunTask
<1>1. ReseedAndRestore
  BY <1>0 DEF RunTask, RunDrain
<1> DEFINE s == Reseeded(snap, worn)
           r == {a \in Desired(s) : a \in carried /\ (a \in Fits \/ a \in worn)}
<1>2. Coherent(s)
  <2>1. snap \in Snaps /\ worn \subseteq Armor /\ Wearable(worn)
    BY DEF TypeInv
  <2> QED
    BY <1>0, <2>1, ReseededCoheres
<1>3. CASE s = NothingSaved
  BY <1>0, <1>1, <1>3 DEF ReseedAndRestore, Answered
<1>4. CASE s # NothingSaved
  <2>1. worn' = r
    BY <1>0, <1>1, <1>2, <1>4, RestoreOutcome DEF ReseedAndRestore
  <2>2. CASE snap' = s
    <3>1. worn' = {a \in Desired(snap') : a \in carried' /\ (a \in Fits \/ a \in worn')}
      BY <1>0, <2>1, <2>2
    <3>2. WornAsAsked'
      BY <1>2, <2>2, <3>1 DEF WornAsAsked, Coherent
    <3>3. Dressed'
      BY <3>2, AskedIsDressed, PTL
    <3> QED
      BY <3>3 DEF Answered
  <2>3. CASE snap' # s
    <3>1. PICK S \in SUBSET Desired(s) : \E x \in Visits(worn, Desired(s))[S] :
                  x # worn /\ snap' = Reseeded(s, x)
      BY <1>0, <1>1, <1>4, <2>3 DEF ReseedAndRestore
    <3>2. PICK x \in Visits(worn, Desired(s))[S] : x # worn /\ snap' = Reseeded(s, x)
      BY <3>1
    <3>3. cfg.allow /\ x # {} /\ snap' = BySlot(x)
      BY <2>3, <3>2 DEF Reseeded
    <3> HIDE DEF s
    <3>4. x \subseteq r
      BY <1>0, <3>2, <3>3, MidwayReseed DEF s
    <3>5. \A a \in Desired(snap') : a \in x
      BY <3>3, BySlotNames DEF Desired
    <3>6. cfg'.allow /\ worn' # {} /\ Desired(snap') \subseteq worn'
      BY <1>0, <2>1, <3>3, <3>4, <3>5
    <3>7. Dressed'
      BY <3>6 DEF Dressed, Desired
    <3> QED
      BY <3>7 DEF Answered
  <2> QED
    BY <2>2, <2>3
<1> QED
  BY <1>3, <1>4

(* A drain that runs finds its restore voided, or leaves it answered.      *)
DrainsEndAnswered == RunTask /\ Head(tasks).kind = "drain" => Answered \/ Answered'

(* Nothing gets ahead of a queued task, and none is lost: what a frame     *)
(* drains is the first one, whatever the game does in between.             *)
THEOREM TasksAlwaysMoveUp == Spec => [][TasksMoveUp]_vars
<1>1. TypeInv /\ [Next]_vars => TasksMoveUp
  BY StepMovesUp
<1> QED
  BY <1>1, InitTypes, NextTypes, PTL DEF Spec

(* The restore that the close of the menu queued ends with the follower    *)
(* dressed as recorded, in any order of the hash map and whatever its own  *)
(* equips reseed on the way, unless something had voided it.               *)
THEOREM DrainsAlwaysAnswered == Spec => [][DrainsEndAnswered]_vars
<1>1. TypeInv /\ TypeInv' /\ [Next]_vars => DrainsEndAnswered
  BY DrainAnswers DEF DrainsEndAnswered
<1> QED
  BY <1>1, InitTypes, NextTypes, PTL DEF Spec
=============================================================================
