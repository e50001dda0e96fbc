-------------------------- MODULE ActorStoresProofs --------------------------
(***************************************************************************)
(* What holds of the actor stores for any actors, spells and bounds: the   *)
(* types, no snapshot without a managed actor, no preference without a     *)
(* trade, no managed actor that is gone without the mod having a reason,   *)
(* and from these that a recycled FormID starts afresh.                    *)
(***************************************************************************)
EXTENDS ActorStores, TLAPS

Life == {"none", "live", "dead", "ash"}
StoreName == {"known", "prefs", "snapshots", "suppressed", "excluded"}

Ghosts == [owed : SUBSET Pair, forfeited : SUBSET Pair, unenrolled : SUBSET Form,
           unseen : SUBSET Form, inherited : SUBSET (StoreName \X Form),
           noted : SUBSET Form, dropped : SUBSET Form, stale : BOOLEAN]

Saves == [known : SUBSET Form, prefs : SUBSET Form, snapshots : SUBSET Form,
          suppressed : SUBSET Pair, excluded : SUBSET Form,
          life : [Form -> Life], teammate : SUBSET Form, has : SUBSET Pair,
          ghosts : Ghosts]

\* The types, with those of the save and of the history.
TypeInv ==
    /\ TypeOK
    /\ ghosts \in Ghosts /\ saved \in Saves
    /\ used \in [spawns : Nat, toggles : Nat, loads : Nat]

-----------------------------------------------------------------------------
(***************************************************************************)
(* The task queue.                                                         *)
(***************************************************************************)

\* Adding a task adds its scan or restore, if it is one, and keeps the others.
LEMMA AppendTask ==
    ASSUME NEW q \in Seq(Task), NEW t \in Task
    PROVE  /\ Append(q, t) \in Seq(Task)
           /\ (\E i \in DOMAIN q : q[i].kind = "scan")
                => \E i \in DOMAIN Append(q, t) : Append(q, t)[i].kind = "scan"
  OBVIOUS

\* Running the first task takes away that one only.
LEMMA TailTask ==
    ASSUME NEW q \in Seq(Task), q # <<>>
    PROVE  /\ Tail(q) \in Seq(Task) /\ Head(q) \in Task
           /\ (\E i \in DOMAIN q : q[i].kind = "scan") /\ Head(q).kind # "scan"
                => \E i \in DOMAIN Tail(q) : Tail(q)[i].kind = "scan"
  <1>1. Tail(q) \in Seq(Task) /\ Head(q) \in Task
    OBVIOUS
  <1>2. ASSUME NEW i \in DOMAIN q, q[i].kind = "scan", Head(q).kind # "scan"
        PROVE  i - 1 \in DOMAIN Tail(q) /\ Tail(q)[i - 1].kind = "scan"
    <2>1. i # 1
      BY <1>2
    <2>2. i \in 2..Len(q)
      BY <1>2, <2>1
    <2> QED
      BY <1>2, <2>2
  <1> QED
    BY <1>1, <1>2

\* A purge adds at most one well-formed task and empties the stores it knows.
LEMMA PurgeTypes ==
    ASSUME TypeInv, NEW F \in SUBSET Form, NEW q \in Seq(Task), PurgeActors(F, q)
    PROVE  /\ {known', prefs', snapshots', excluded'} \subseteq SUBSET Form
           /\ suppressed' \subseteq Pair
           /\ tasks' \in Seq(Task)
           /\ (\E i \in DOMAIN q : q[i].kind = "scan") => ScanQueued'
  <1> DEFINE spells == suppressed \cap PairsOf(F)
             t == [kind |-> "restore", pairs |-> spells]
  <1>1. t \in Task
    BY DEF TypeInv, TypeOK, Task
  <1>2. tasks' = q \/ tasks' = Append(q, t)
    BY DEF PurgeActors, RestoreAndEraseActor
  <1>3. tasks' \in Seq(Task) /\ ((\E i \in DOMAIN q : q[i].kind = "scan") => ScanQueued')
    BY <1>1, <1>2, AppendTask DEF ScanQueued
  <1> QED
    BY <1>3 DEF PurgeActors, RestoreAndEraseActor, TypeInv, TypeOK

\* So does a purge with which nothing else happens.
LEMMA PurgeKeepsTypes ==
    ASSUME TypeInv, NEW F \in SUBSET Form, NEW q \in Seq(Task), PurgeActors(F, q),
           ghosts' \in Ghosts, UNCHANGED <<cache, modOn, saved, menu, actors, used>>
    PROVE  TypeInv'
  <1>1. /\ {known', prefs', snapshots', excluded'} \subseteq SUBSET Form
        /\ suppressed' \subseteq Pair /\ tasks' \in Seq(Task)
    BY PurgeTypes
  <1>2. ghosts'.owed \subseteq Pair
    BY DEF Ghosts
  <1> QED
    BY <1>1, <1>2 DEF TypeInv, TypeOK, actors

\* The history variables keep their types through what events make of them.
LEMMA GhostTypes ==
    ASSUME TypeInv, NEW g \in Ghosts, NEW F \in SUBSET Form, NEW f \in Form
    PROVE  /\ Purged(g, F) \in Ghosts
           /\ Gone(g, f) \in Ghosts
           /\ Missed(g, f) \in Ghosts
  BY DEF Purged, Gone, Missed, Ghosts

\* The three ends of an actor are heard of, or not, and are no trade.
LEMMA EndIsHeard ==
    ASSUME TypeInv, NEW f \in Form, Die(f) \/ TurnToAsh(f) \/ DeleteForm(f)
    PROVE  \E heard \in BOOLEAN, g \in Ghosts :
              /\ Hears(heard, f, g)
              /\ g.unenrolled = ghosts.unenrolled /\ g.inherited = ghosts.inherited
              /\ g.stale = ghosts.stale
  <1> DEFINE Same(g) == /\ g \in Ghosts
                        /\ g.unenrolled = ghosts.unenrolled /\ g.inherited = ghosts.inherited
                        /\ g.stale = ghosts.stale
             m == IF modOn THEN ghosts ELSE Missed(ghosts, f)
  <1>0. ghosts \in Ghosts /\ modOn \in BOOLEAN
    BY DEF TypeInv, TypeOK
  <1>1. Same(Missed(ghosts, f))
    <2>1. Missed(ghosts, f) \in Ghosts
      BY <1>0, GhostTypes
    <2> QED
      BY <1>0, <2>1 DEF Missed, Ghosts
  <1>2. Same(m)
    BY <1>0, <1>1
  <1>3. Same(Gone(m, f))
    <2>1. Gone(m, f) \in Ghosts
      BY <1>2, GhostTypes
    <2>2. m \in Ghosts
      BY <1>2
    <2>3. Gone(m, f).unenrolled = m.unenrolled /\ Gone(m, f).inherited = m.inherited
          /\ Gone(m, f).stale = m.stale
      BY <2>2 DEF Gone, Ghosts
    <2> QED
      BY <1>2, <2>1, <2>3
  <1>4. CASE Die(f)
    <2>1. Hears(HearsDeath(f), f, m)
      BY <1>4 DEF Die
    <2>2. HearsDeath(f) \in BOOLEAN
      BY <1>0 DEF HearsDeath
    <2> QED
      BY <1>2, <2>1, <2>2
  <1>5. CASE TurnToAsh(f)
    <2>1. Hears(modOn, f, m)
      BY <1>5 DEF TurnToAsh
    <2> QED
      BY <1>0, <1>2, <2>1
  <1>6. CASE DeleteForm(f)
    <2>1. Hears(HearsDelete(f), f, Gone(m, f))
      BY <1>6 DEF DeleteForm
    <2>2. HearsDelete(f) \in BOOLEAN
      BY <1>0 DEF HearsDelete
    <2> QED
      BY <1>3, <2>1, <2>2
  <1> QED
    BY <1>4, <1>5, <1>6

-----------------------------------------------------------------------------
(***************************************************************************)
(* Types.                                                                  *)
(***************************************************************************)

\* Every step keeps the types, those of the save and of the history too.
LEMMA TypeStep ==
    ASSUME FormAssumption, TypeInv, [Next]_vars
    PROVE  TypeInv'
  <1> USE FormAssumption
  <1>0. tasks \in Seq(Task) /\ ghosts \in Ghosts /\ saved \in Saves
    BY DEF TypeInv, TypeOK
  <1>1. CASE UNCHANGED vars
    BY <1>1 DEF TypeInv, TypeOK, vars, stores, plugin, actors, Pair, Task, MaybeForm, Ghosts, Saves
  <1>2. ASSUME NEW f \in Form, OpenMenu(f)
        PROVE  TypeInv'
    BY <1>2 DEF OpenMenu, TypeInv, TypeOK, stores, plugin, actors, Ghosts, MaybeForm
  <1>3. ASSUME NEW f \in Form, DisplayAdmitted(f)
        PROVE  TypeInv'
    <2>1. [kind |-> "baseline", form |-> f] \in Task
      BY DEF Task
    <2>2. tasks' \in Seq(Task)
      BY <1>0, <1>3, <2>1, AppendTask DEF DisplayAdmitted
    <2>3. ghosts' \in Ghosts
      BY <1>0, <1>3 DEF DisplayAdmitted, Ghosts
    <2>4. known' \in SUBSET Form /\ prefs' \in SUBSET Form
      BY <1>3 DEF DisplayAdmitted, TypeInv, TypeOK
    <2>5. cache' \in [processed : MaybeForm, admitted : BOOLEAN,
                      enrolled : MaybeForm, seeded : MaybeForm]
      BY <1>3 DEF DisplayAdmitted, MaybeForm
    <2> QED
      BY <1>3, <2>2, <2>3, <2>4, <2>5 DEF DisplayAdmitted, TypeInv, TypeOK, actors
  <1>4. ASSUME NEW f \in Form, DisplayRefused(f)
        PROVE  TypeInv'
    BY <1>4 DEF DisplayRefused, TypeInv, TypeOK, stores, actors, Ghosts, MaybeForm
  <1>5. CASE CloseMenu
    <2>1. ghosts' \in Ghosts
      BY <1>0, <1>5 DEF CloseMenu, TypeInv, TypeOK, Ghosts
    <2> QED
      BY <1>5, <2>1 DEF CloseMenu, NoCache, TypeInv, TypeOK, Ghosts, stores, actors, MaybeForm
  <1>6. ASSUME NEW f \in Form, CaptureEquip(f) \/ SecondaryClickHeadgear(f) \/ CaptureSnapshot(f)
        PROVE  TypeInv'
    <2>1. prefs' \in SUBSET Form /\ snapshots' \in SUBSET Form
      BY <1>6 DEF CaptureEquip, SecondaryClickHeadgear, CaptureSnapshot, TypeInv, TypeOK
    <2>2. UNCHANGED <<known, suppressed, excluded, plugin, saved, menu, actors, used, ghosts>>
      BY <1>6 DEF CaptureEquip, SecondaryClickHeadgear, CaptureSnapshot
    <2> QED
      BY <2>1, <2>2 DEF TypeInv, TypeOK, plugin, actors
  <1>7. ASSUME NEW f \in Form, Exclude(f) \/ Include(f)
        PROVE  TypeInv'
    <2>1. excluded' \in SUBSET Form
      BY <1>7 DEF Exclude, Include, TypeInv, TypeOK
    <2>2. ghosts' \in Ghosts /\ ghosts'.owed \subseteq Pair
      BY <1>7 DEF Exclude, Include, TypeInv, Ghosts
    <2>3. UNCHANGED <<known, prefs, snapshots, suppressed, plugin, saved, menu, actors, used>>
      BY <1>7 DEF Exclude, Include
    <2> QED
      BY <2>1, <2>2, <2>3 DEF TypeInv, TypeOK, plugin, actors
  <1>8. ASSUME NEW f \in Form, RemoveActor(f)
        PROVE  TypeInv'
    <2>1. PurgeActors({f}, tasks)
      BY <1>8 DEF RemoveActor
    <2>2. Purged(ghosts, {f}) \in Ghosts
      BY <1>0, GhostTypes
    <2>3. ghosts' \in Ghosts
      BY <1>8, <2>2 DEF RemoveActor, Ghosts
    <2> QED
      BY <1>0, <1>8, <2>1, <2>3, PurgeKeepsTypes DEF RemoveActor
  <1>9. ASSUME NEW f \in Form, NEW s \in Spell, ToggleSpell(f, s)
        PROVE  TypeInv'
    <2> DEFINE t == [kind |-> IF <<f, s>> \in has THEN "suppress" ELSE "unsuppress",
                     pair |-> <<f, s>>]
    <2>1. t \in Task
      BY DEF Task, Pair
    <2>2. tasks' \in Seq(Task)
      BY <1>0, <1>9, <2>1, AppendTask DEF ToggleSpell
    <2> QED
      BY <1>9, <2>2 DEF ToggleSpell, TypeInv, TypeOK, actors
  <1>10. CASE ToggleMod
    BY <1>10 DEF ToggleMod, TypeInv, TypeOK, actors, MaybeForm
  <1>11. CASE RunTask
    <2>1. tasks # <<>>
      BY <1>11 DEF RunTask, RunBaselineTask, RunSuppressTask, RunUnsuppressTask,
                   RunRestoreTask, RunScanTask, NextTask
    <2>2. Tail(tasks) \in Seq(Task) /\ Head(tasks) \in Task
      BY <1>0, <2>1, TailTask
    <2>3. CASE RunBaselineTask
      BY <2>2, <2>3 DEF RunBaselineTask, NextTask, MayCaptureBaseline, IsAffectedFollower,
           IsKnownFollowerAdmitted, Task, TypeInv, TypeOK, actors
    <2>4. CASE RunSuppressTask
      <3>1. Head(tasks).pair \in Pair
        BY <2>2, <2>4 DEF RunSuppressTask, NextTask, Task
      <3>2. suppressed' \subseteq Pair /\ has' \subseteq Pair
        BY <2>4, <3>1 DEF RunSuppressTask, Suppress, TypeInv, TypeOK
      <3>3. ghosts' \in Ghosts /\ ghosts'.owed \subseteq Pair
        BY <2>4, <3>1 DEF RunSuppressTask, Suppress, TypeInv, Ghosts
      <3> QED
        BY <2>2, <2>4, <3>2, <3>3 DEF RunSuppressTask, TypeInv, TypeOK
    <2>5. CASE RunUnsuppressTask
      <3>1. Head(tasks).pair \in Pair
        BY <2>2, <2>5 DEF RunUnsuppressTask, NextTask, Task
      <3> DEFINE p == Head(tasks).pair
      <3>2. \/ UNCHANGED <<suppressed, has, ghosts>>
            \/ suppressed' = suppressed \ {p} /\ GiveSpells({p})
        BY <2>5 DEF RunUnsuppressTask
      <3>3. suppressed' \subseteq Pair /\ has' \subseteq Pair
        BY <3>1, <3>2 DEF GiveSpells, TypeInv, TypeOK
      <3>4. ghosts' \in Ghosts /\ ghosts'.owed \subseteq Pair
        BY <3>2 DEF GiveSpells, TypeInv, Ghosts
      <3>5. /\ tasks' = Tail(tasks)
            /\ UNCHANGED <<known, prefs, snapshots, excluded, cache, modOn, saved, menu, life,
                           teammate, used>>
        BY <2>5 DEF RunUnsuppressTask
      <3> QED
        BY <2>2, <3>3, <3>4, <3>5 DEF TypeInv, TypeOK
    <2>6. CASE RunRestoreTask
      <3>1. Head(tasks).pairs \in SUBSET Pair
        BY <2>2, <2>6 DEF RunRestoreTask, NextTask, Task
      <3>2. Found(Head(tasks).pairs) \in SUBSET Pair
        BY <3>1 DEF Found
      <3>3. has' \subseteq Pair
        BY <2>6, <3>2 DEF RunRestoreTask, TypeInv, TypeOK
      <3>4. ghosts' \in Ghosts /\ ghosts'.owed \subseteq Pair
        BY <1>0, <2>6, <3>1, <3>2 DEF RunRestoreTask, Ghosts
      <3> QED
        BY <2>2, <2>6, <3>3, <3>4 DEF RunRestoreTask, TypeInv, TypeOK, stores
    <2>7. CASE RunScanTask
      <3>1. StaleForms \in SUBSET Form
        BY DEF StaleForms, TypeInv, TypeOK
      <3>2. PurgeActors(StaleForms, Tail(tasks)) /\ ghosts' = Purged(ghosts, StaleForms)
        BY <2>7 DEF RunScanTask
      <3>3. ghosts' \in Ghosts
        BY <1>0, <3>1, <3>2, GhostTypes DEF Ghosts, Purged
      <3> QED
        BY <2>2, <2>7, <3>1, <3>2, <3>3, PurgeKeepsTypes DEF RunScanTask
    <2> QED
      BY <1>11, <2>3, <2>4, <2>5, <2>6, <2>7 DEF RunTask
  <1>12. ASSUME NEW f \in Form, NEW heard \in BOOLEAN, NEW g \in Ghosts, Hears(heard, f, g),
                life' \in [Form -> Life], teammate' \in SUBSET Form, has' \in SUBSET Pair,
                UNCHANGED <<cache, modOn, saved, menu, used>>
         PROVE  TypeInv'
    <2>1. CASE heard
      <3>1. PurgeActors({f}, tasks) /\ ghosts' = Purged(g, {f})
        BY <1>12, <2>1 DEF Hears
      <3>2. /\ {known', prefs', snapshots', excluded'} \subseteq SUBSET Form
            /\ suppressed' \subseteq Pair /\ tasks' \in Seq(Task)
        BY <1>0, <3>1, PurgeTypes
      <3>3. ghosts' \in Ghosts /\ ghosts'.owed \subseteq Pair
        BY <1>12, <3>1, GhostTypes DEF Ghosts
      <3> QED
        BY <1>12, <3>2, <3>3 DEF TypeInv, TypeOK, Life
    <2>2. CASE ~heard
      <3>1. UNCHANGED <<stores, tasks>> /\ ghosts' \in Ghosts /\ ghosts'.owed \subseteq Pair
        BY <1>12, <2>2 DEF Hears, Ghosts
      <3> QED
        BY <1>12, <3>1 DEF TypeInv, TypeOK, stores, Life
    <2> QED
      BY <1>12, <2>1, <2>2
  <1>13. ASSUME NEW f \in Form, Die(f) \/ TurnToAsh(f) \/ DeleteForm(f)
         PROVE  TypeInv'
    <2>1. life' \in [Form -> Life] /\ teammate' \in SUBSET Form /\ has' \in SUBSET Pair
      BY <1>13 DEF Die, TurnToAsh, DeleteForm, NoActor, TypeInv, TypeOK, Life
    <2>2. PICK heard \in BOOLEAN, g \in Ghosts : Hears(heard, f, g)
      BY <1>13, EndIsHeard
    <2> QED
      BY <1>12, <1>13, <2>1, <2>2 DEF Die, TurnToAsh, DeleteForm
  <1>14. ASSUME NEW f \in Form, FreeForm(f)
         PROVE  TypeInv'
    <2>1. life' \in [Form -> Life] /\ teammate' \in SUBSET Form /\ has' \in SUBSET Pair
      BY <1>14 DEF FreeForm, NoActor, TypeInv, TypeOK, Life
    <2>2. ghosts' \in Ghosts /\ ghosts'.owed \subseteq Pair
      BY <1>0, <1>14, GhostTypes DEF FreeForm, Ghosts
    <2> QED
      BY <1>14, <2>1, <2>2 DEF FreeForm, TypeInv, TypeOK, stores, plugin, Life
  <1>15. ASSUME NEW f \in Form, Spawn(f)
         PROVE  TypeInv'
    <2>1. life' \in [Form -> Life] /\ has' \in SUBSET Pair
      BY <1>15 DEF Spawn, TypeInv, TypeOK, Life, Pair, PairsOf
    <2>2. DOMAIN StoreOf = StoreName
      BY DEF StoreOf, StoreName
    <2>3. ghosts' \in Ghosts /\ ghosts'.owed \subseteq Pair
      BY <1>0, <1>15, <2>2 DEF Spawn, Ghosts
    <2>4. used' \in [spawns : Nat, toggles : Nat, loads : Nat]
      BY <1>15 DEF Spawn, TypeInv
    <2> QED
      BY <1>15, <2>1, <2>3, <2>4 DEF Spawn, TypeInv, TypeOK, stores, plugin, Life
  <1>16. ASSUME NEW f \in Form, Resurrect(f) \/ Recruit(f)
         PROVE  TypeInv'
    BY <1>16 DEF Resurrect, Recruit, TypeInv, TypeOK, stores, plugin, Life
  <1>17. ASSUME NEW f \in Form, NEW s \in Spell, Learn(<<f, s>>)
         PROVE  TypeInv'
    <2>1. has' \in SUBSET Pair
      BY <1>17 DEF Learn, GiveSpells, TypeInv, TypeOK, Pair
    <2>2. ghosts' \in Ghosts /\ ghosts'.owed \subseteq Pair
      BY <1>0, <1>17 DEF Learn, GiveSpells, Ghosts
    <2> QED
      BY <1>17, <2>1, <2>2 DEF Learn, TypeInv, TypeOK, stores, plugin
  <1>18. CASE SaveGame
    <2>1. Kept \in Saves
      BY DEF Kept, Saves, TypeInv, TypeOK, Life
    <2>2. saved' \in Saves
      <3> DEFINE g == [ghosts EXCEPT !.forfeited = @ \cup (ghosts.owed \cap QueuedRestores)]
      <3>1. g \in Ghosts
        BY <1>0 DEF Ghosts
      <3>2. saved' = [Kept EXCEPT !.ghosts = g]
        BY <1>18 DEF SaveGame, Kept
      <3> QED
        BY <2>1, <3>1, <3>2 DEF Saves
    <2> QED
      BY <1>18, <2>2 DEF SaveGame, TypeInv, TypeOK, stores, plugin, actors
  <1>19. ASSUME NEW restart \in BOOLEAN, LoadGame(restart)
         PROVE  TypeInv'
    <2>1. PICK missing \in SUBSET Form :
            LET gone == missing \cap Dynamic
            IN  /\ life' = [f \in Form |-> IF f \in missing THEN "none" ELSE saved.life[f]]
                /\ teammate' = saved.teammate \ gone
                /\ has' = saved.has \ PairsOf(gone)
                /\ ghosts' = [saved.ghosts EXCEPT
                     !.owed = @ \ PairsOf(gone), !.forfeited = @ \ PairsOf(gone),
                     !.stale = ghosts.stale /\ ~restart,
                     !.unenrolled = @ \cup ({cache'.enrolled, cache'.processed} \ (saved.known \cup {NoForm}))]
      BY <1>19 DEF LoadGame
    <2>2. life' \in [Form -> Life] /\ teammate' \in SUBSET Form /\ has' \in SUBSET Pair
      BY <1>0, <2>1 DEF Saves, Life
    <2>3. cache' \in [processed : MaybeForm, admitted : BOOLEAN,
                      enrolled : MaybeForm, seeded : MaybeForm]
      BY <1>19 DEF LoadGame, NoCache, MaybeForm, TypeInv, TypeOK
    <2>4. ghosts' \in Ghosts /\ ghosts'.owed \subseteq Pair
      BY <1>0, <2>1, <2>3 DEF Saves, Ghosts, MaybeForm
    <2>5. tasks' \in Seq(Task)
      <3>1. [kind |-> "scan"] \in Task
        BY DEF Task
      <3>2. <<>> \in Seq(Task)
        OBVIOUS
      <3> QED
        BY <1>0, <1>19, <3>1, <3>2, AppendTask DEF LoadGame
    <2>6. /\ {known', prefs', snapshots', excluded'} \subseteq SUBSET Form
          /\ suppressed' \subseteq Pair
      BY <1>0, <1>19 DEF LoadGame, Saves
    <2>7. used' \in [spawns : Nat, toggles : Nat, loads : Nat]
      BY <1>19 DEF LoadGame, TypeInv
    <2>8. UNCHANGED <<modOn, saved, menu>>
      BY <1>19 DEF LoadGame
    <2> QED
      BY <2>2, <2>3, <2>4, <2>5, <2>6, <2>7, <2>8 DEF TypeInv, TypeOK, Life
  <1> QED
    BY <1>1, <1>2, <1>3, <1>4, <1>5, <1>6, <1>7, <1>8, <1>9, <1>10, <1>11, <1>13, <1>14,
       <1>15, <1>16, <1>17, <1>18, <1>19
    DEF Next, TradeStep, PageStep, EngineStep, LifecycleStep

\* The types hold in a new game.
LEMMA TypeInit == ASSUME FormAssumption PROVE Init => TypeInv
  <1> SUFFICES ASSUME Init PROVE TypeInv
    OBVIOUS
  <1>1. ghosts \in Ghosts
    BY DEF Init, NoGhosts, Ghosts
  <1>2. TypeOK
    BY DEF Init, TypeOK, NoGhosts, NoCache, MaybeForm, Pair
  <1>3. saved \in Saves
    BY <1>1, <1>2 DEF Init, Kept, Saves, Life, TypeOK
  <1>4. used \in [spawns : Nat, toggles : Nat, loads : Nat]
    BY DEF Init
  <1> QED
    BY <1>1, <1>2, <1>3, <1>4 DEF TypeInv

\* The types hold in every state.
LEMMA TypesAlwaysCorrect == Spec => []TypeInv
  <1>1. Init => TypeInv
    BY TypeInit, FormAssumption
  <1>2. TypeInv /\ [Next]_vars => TypeInv'
    BY TypeStep, FormAssumption
  <1> QED
    BY <1>1, <1>2, PTL DEF Spec

\* Every variable has its type, whatever the actors, spells and bounds
\* (ActorStores!TypeOK).
THEOREM StoresTypeCorrect == Spec => []TypeOK
  <1>1. TypeInv => TypeOK
    BY DEF TypeInv
  <1> QED
    BY <1>1, TypesAlwaysCorrect, PTL

-----------------------------------------------------------------------------
(***************************************************************************)
(* Snapshots.  The save has to be in order too, for a load to be.          *)
(***************************************************************************)
SnapshotsInOrder == SnapshotsOnlyOfManaged /\ saved.snapshots \subseteq saved.known

\* No step leaves, or makes, a snapshot of an actor that is not managed.
LEMMA SnapshotsStep ==
    ASSUME TypeInv, SnapshotsInOrder, [Next]_vars
    PROVE  SnapshotsInOrder'
  <1> USE DEF SnapshotsInOrder, SnapshotsOnlyOfManaged
  <1>1. CASE UNCHANGED <<known, snapshots, saved>>
    BY <1>1
  <1>2. ASSUME NEW f \in Form, DisplayAdmitted(f)
        PROVE  SnapshotsInOrder'
    BY <1>2 DEF DisplayAdmitted
  <1>3. ASSUME NEW f \in Form, CaptureEquip(f) \/ CaptureSnapshot(f)
        PROVE  SnapshotsInOrder'
    BY <1>3 DEF CaptureEquip, CaptureSnapshot, IsAffectedFollower, IsKnownFollowerAdmitted
  <1>4. ASSUME NEW F, NEW q, PurgeActors(F, q), UNCHANGED saved
        PROVE  SnapshotsInOrder'
    BY <1>4 DEF PurgeActors
  <1>5. CASE ToggleMod
    BY <1>5 DEF ToggleMod
  <1>6. CASE RunTask
    <2>1. CASE RunBaselineTask
      BY <2>1 DEF RunBaselineTask, MayCaptureBaseline, IsAffectedFollower, IsKnownFollowerAdmitted
    <2>2. CASE RunScanTask
      BY <1>4, <2>2 DEF RunScanTask
    <2>3. CASE RunSuppressTask \/ RunUnsuppressTask \/ RunRestoreTask
      BY <1>1, <2>3 DEF RunSuppressTask, RunUnsuppressTask, RunRestoreTask, stores
    <2> QED
      BY <1>6, <2>1, <2>2, <2>3 DEF RunTask
  <1>7. ASSUME NEW f \in Form, Die(f) \/ TurnToAsh(f) \/ DeleteForm(f)
        PROVE  SnapshotsInOrder'
    BY <1>1, <1>4, <1>7 DEF Die, TurnToAsh, DeleteForm, Hears, stores
  <1>8. CASE SaveGame
    BY <1>8 DEF SaveGame, Kept, stores
  <1>9. ASSUME NEW restart \in BOOLEAN, LoadGame(restart)
        PROVE  SnapshotsInOrder'
    BY <1>9 DEF LoadGame
  <1>10. CASE TradeStep
    BY <1>1, <1>2, <1>3, <1>10
    DEF TradeStep, CloseMenu, OpenMenu, DisplayRefused, SecondaryClickHeadgear, stores
  <1>11. CASE PageStep
    BY <1>1, <1>4, <1>5, <1>11 DEF PageStep, Exclude, Include, RemoveActor, ToggleSpell
  <1>12. CASE EngineStep
    BY <1>1, <1>3, <1>7, <1>12
    DEF EngineStep, FreeForm, Spawn, Resurrect, Recruit, Learn, stores
  <1> QED
    BY <1>1, <1>6, <1>8, <1>9, <1>10, <1>11, <1>12 DEF Next, LifecycleStep, vars, stores

\* A snapshot belongs to an actor that is managed, in every order of clicks,
\* tasks, deaths, saves and loads (ActorStores!SnapshotsOnlyOfManaged).
THEOREM SnapshotsAlwaysOfManaged == Spec => []SnapshotsOnlyOfManaged
  <1>1. Init => TypeInv /\ SnapshotsInOrder
    BY TypeInit, FormAssumption DEF Init, Kept, SnapshotsInOrder, SnapshotsOnlyOfManaged
  <1>2. TypeInv /\ SnapshotsInOrder /\ [Next]_vars => TypeInv' /\ SnapshotsInOrder'
    BY TypeStep, SnapshotsStep, FormAssumption
  <1>3. SnapshotsInOrder => SnapshotsOnlyOfManaged
    BY DEF SnapshotsInOrder
  <1> QED
    BY <1>1, <1>2, <1>3, PTL DEF Spec

-----------------------------------------------------------------------------
(***************************************************************************)
(* Managed actors.  ManagedActorsExist is not inductive: FreeForm takes    *)
(* the form of a dead dynamic actor away with no word to the mod, so such  *)
(* an actor must not be managed any more, unless it died unseen.  What is  *)
(* dead or ash needs no scan to be known for it.                           *)
(***************************************************************************)
Departed(k, l, g) ==
    \A f \in k : /\ l[f] = "ash" => f \in g.unseen
                 /\ l[f] = "dead" /\ f \in Dynamic => f \in g.unseen

ManagedInOrder ==
    /\ ManagedActorsExist
    /\ Departed(known, life, ghosts)
    /\ Departed(saved.known, saved.life, saved.ghosts)

\* A load queues the scan.
LEMMA LoadQueuesScan ==
    ASSUME TypeInv, NEW restart \in BOOLEAN, LoadGame(restart)
    PROVE  ScanQueued'
  <1> DEFINE q == IF restart THEN <<>> ELSE tasks
             t == [kind |-> "scan"]
  <1>1. q \in Seq(Task) /\ t \in Task
    BY DEF TypeInv, TypeOK, Task
  <1>2. Len(q) + 1 \in DOMAIN Append(q, t) /\ Append(q, t)[Len(q) + 1].kind = "scan"
    BY <1>1
  <1>3. tasks' = Append(q, t)
    BY DEF LoadGame
  <1> QED
    BY <1>2, <1>3 DEF ScanQueued

\* A queued scan stays queued until it runs, or is replaced by a later one.
LEMMA ScanStays ==
    ASSUME TypeInv, [Next]_vars, ScanQueued, ~RunScanTask
    PROVE  ScanQueued'
  <1>0. tasks \in Seq(Task)
    BY DEF TypeInv, TypeOK
  <1>1. CASE UNCHANGED tasks
    BY <1>1 DEF ScanQueued
  <1>2. ASSUME NEW t \in Task, tasks' = Append(tasks, t)
        PROVE  ScanQueued'
    BY <1>0, <1>2, AppendTask DEF ScanQueued
  <1>3. ASSUME NEW f \in Form, PurgeActors({f}, tasks)
        PROVE  ScanQueued'
    BY <1>0, <1>3, PurgeTypes DEF ScanQueued
  <1>4. ASSUME NEW f \in Form, DisplayAdmitted(f)
        PROVE  ScanQueued'
    <2>1. [kind |-> "baseline", form |-> f] \in Task
      BY DEF Task
    <2> QED
      BY <1>1, <1>2, <1>4, <2>1 DEF DisplayAdmitted
  <1>5. ASSUME NEW f \in Form, NEW s \in Spell, ToggleSpell(f, s)
        PROVE  ScanQueued'
    <2>1. [kind |-> IF <<f, s>> \in has THEN "suppress" ELSE "unsuppress",
           pair |-> <<f, s>>] \in Task
      BY DEF Task, Pair
    <2> QED
      BY <1>2, <1>5, <2>1 DEF ToggleSpell
  <1>6. CASE RunTask
    <2>1. tasks # <<>> /\ Head(tasks).kind # "scan" /\ tasks' = Tail(tasks)
      BY <1>6 DEF RunTask, RunBaselineTask, RunSuppressTask, RunUnsuppressTask,
                  RunRestoreTask, NextTask
    <2> QED
      BY <1>0, <2>1, TailTask DEF ScanQueued
  <1>7. ASSUME NEW f \in Form, Die(f) \/ TurnToAsh(f) \/ DeleteForm(f)
        PROVE  ScanQueued'
    BY <1>1, <1>3, <1>7 DEF Die, TurnToAsh, DeleteForm, Hears
  <1>8. ASSUME NEW restart \in BOOLEAN, LoadGame(restart)
        PROVE  ScanQueued'
    BY <1>8, LoadQueuesScan
  <1>9. CASE TradeStep
    BY <1>1, <1>4, <1>9 DEF TradeStep, CloseMenu, OpenMenu, DisplayRefused, CaptureEquip,
                            SecondaryClickHeadgear, plugin
  <1>10. CASE PageStep
    BY <1>1, <1>3, <1>5, <1>10 DEF PageStep, ToggleMod, Exclude, Include, RemoveActor, plugin
  <1>11. CASE EngineStep
    BY <1>1, <1>7, <1>11
    DEF EngineStep, CaptureSnapshot, FreeForm, Spawn, Resurrect, Recruit, Learn, plugin
  <1>12. CASE SaveGame
    BY <1>1, <1>12 DEF SaveGame, plugin
  <1> QED
    BY <1>1, <1>6, <1>8, <1>9, <1>10, <1>11, <1>12 DEF Next, LifecycleStep, vars, plugin

\* No step leaves a managed actor behind that is gone, but for the exceptions.
LEMMA ManagedStep ==
    ASSUME FormAssumption, TypeInv, ManagedInOrder, [Next]_vars
    PROVE  ManagedInOrder'
  <1> USE DEF ManagedInOrder, ManagedActorsExist, Departed
  <1>0. known \in SUBSET Form /\ life \in [Form -> Life] /\ ghosts \in Ghosts
    BY DEF TypeInv, TypeOK, Life
  <1>1. ~RunScanTask /\ ScanQueued => ScanQueued'
    BY ScanStays
  <1>2. CASE RunScanTask
    <2>1. /\ PurgeActors(StaleForms, Tail(tasks)) /\ ghosts' = Purged(ghosts, StaleForms)
          /\ UNCHANGED <<saved, life>>
      BY <1>2 DEF RunScanTask, actors
    <2>2. known' = known \ StaleForms
      BY <2>1 DEF PurgeActors
    <2>3. ghosts'.unseen = ghosts.unseen \ StaleForms
      BY <1>0, <2>1 DEF Purged, Ghosts
    <2>4. \A f \in known' : life'[f] = "live" \/ life'[f] = "dead" \/ f \notin Dynamic
      BY <1>0, <2>1, <2>2 DEF StaleForms, Life
    <2> QED
      BY <1>0, <2>1, <2>2, <2>3, <2>4 DEF StaleForms, Life
  <1>3. CASE ~RunScanTask
    <2>1. ScanQueued => ScanQueued'
      BY <1>1, <1>3
    <2>2. ASSUME UNCHANGED <<known, life, saved>>, ghosts'.unseen = ghosts.unseen
          PROVE  ManagedInOrder'
      BY <2>1, <2>2
    <2>3. ASSUME NEW f \in Form, DisplayAdmitted(f)
          PROVE  ManagedInOrder'
      <3>1. /\ known' \in {known, known \cup {f}} /\ life[f] = "live"
            /\ UNCHANGED <<life, saved>> /\ ghosts'.unseen = ghosts.unseen
        BY <1>0, <2>3 DEF DisplayAdmitted, actors, Ghosts
      <3> QED
        BY <1>0, <2>1, <3>1
    <2>4. ASSUME NEW f \in Form, RemoveActor(f)
          PROVE  ManagedInOrder'
      <3>1. /\ known' = known \ {f} /\ ghosts'.unseen = ghosts.unseen \ {f}
            /\ UNCHANGED <<life, saved>>
        BY <1>0, <2>4 DEF RemoveActor, PurgeActors, Purged, Ghosts, actors
      <3> QED
        BY <1>0, <2>1, <3>1
    <2>5. ASSUME NEW f \in Form, Die(f) \/ TurnToAsh(f) \/ DeleteForm(f)
          PROVE  ManagedInOrder'
      <3>1. /\ \A h \in Form \ {f} : life'[h] = life[h]
            /\ life'[f] \in {"dead", "ash", "none"} /\ UNCHANGED saved
            /\ life'[f] = "dead" => Die(f)
            /\ life'[f] = "none" => f \in Dynamic
        BY <1>0, <2>5 DEF Die, TurnToAsh, DeleteForm, NoActor
      <3>2. CASE modOn
        <4>1. PICK heard \in BOOLEAN, g \in Ghosts :
                /\ Hears(heard, f, g) /\ g.unseen = ghosts.unseen
                /\ life'[f] = "dead" => heard = HearsDeath(f)
                /\ life'[f] \in {"ash", "none"} => heard
          <5>1. HearsDeath(f) \in BOOLEAN /\ HearsDelete(f) \in BOOLEAN
            BY DEF HearsDeath, HearsDelete, TypeInv, TypeOK
          <5>2. CASE Die(f)
            <6>1. Hears(HearsDeath(f), f, ghosts) /\ life'[f] = "dead"
              BY <1>0, <3>2, <5>2 DEF Die
            <6> QED
              BY <1>0, <5>1, <6>1
          <5>3. CASE TurnToAsh(f)
            <6>1. Hears(TRUE, f, ghosts) /\ life'[f] = "ash"
              BY <1>0, <3>2, <5>3 DEF TurnToAsh, Hears
            <6> QED
              BY <1>0, <6>1
          <5>4. CASE DeleteForm(f)
            <6>1. Hears(TRUE, f, Gone(ghosts, f)) /\ life'[f] = "none"
              BY <1>0, <3>2, <5>4 DEF DeleteForm, NoActor, HearsDelete, Hears
            <6>2. Gone(ghosts, f) \in Ghosts /\ Gone(ghosts, f).unseen = ghosts.unseen
              BY <1>0, GhostTypes DEF Gone, Ghosts
            <6> QED
              BY <6>1, <6>2
          <5> QED
            BY <2>5, <5>2, <5>3, <5>4
        <4>2. CASE heard
          <5>1. known' = known \ {f} /\ ghosts'.unseen = ghosts.unseen \ {f}
            BY <1>0, <4>1, <4>2 DEF Hears, PurgeActors, Purged, Ghosts
          <5> QED
            BY <1>0, <2>1, <3>1, <5>1
        <4>3. CASE ~heard
          <5>1. known' = known /\ ghosts'.unseen = ghosts.unseen
            BY <4>1, <4>3 DEF Hears, stores
          <5>2. f \notin known \/ f \notin Dynamic
            BY <3>1, <3>2, <4>1, <4>3 DEF HearsDeath
          <5> QED
            BY <1>0, <2>1, <3>1, <4>1, <4>3, <5>1, <5>2
        <4> QED
          BY <4>2, <4>3
      <3>3. CASE ~modOn
        <4>1. known' = known /\ ghosts'.unseen = IF f \in known THEN ghosts.unseen \cup {f} ELSE ghosts.unseen
          BY <1>0, <2>5, <3>3 DEF Die, TurnToAsh, DeleteForm, HearsDeath, HearsDelete, Hears,
                                  Missed, Gone, Ghosts, stores
        <4> QED
          BY <1>0, <2>1, <3>1, <4>1
      <3> QED
        BY <3>2, <3>3
    <2>6. ASSUME NEW f \in Form, FreeForm(f)
          PROVE  ManagedInOrder'
      <3>1. /\ life[f] \in {"dead", "ash"} /\ f \in Dynamic
            /\ \A h \in Form \ {f} : life'[h] = life[h]
            /\ known' = known /\ saved' = saved /\ ghosts'.unseen = ghosts.unseen
            /\ life'[f] = "none"
        BY <1>0, <2>6 DEF FreeForm, NoActor, Gone, Ghosts, stores
      <3> QED
        BY <1>0, <2>1, <3>1
    <2>7. ASSUME NEW f \in Form, Spawn(f) \/ Resurrect(f)
          PROVE  ManagedInOrder'
      <3>1. /\ \A h \in Form \ {f} : life'[h] = life[h]
            /\ known' = known /\ saved' = saved /\ ghosts'.unseen = ghosts.unseen
            /\ life'[f] = "live"
        BY <1>0, <2>7 DEF Spawn, Resurrect, Ghosts, stores
      <3> QED
        BY <1>0, <2>1, <3>1
    <2>8. CASE SaveGame
      <3>1. /\ saved'.known = known /\ saved'.life = life
            /\ saved'.ghosts.unseen = ghosts.unseen
            /\ UNCHANGED <<known, life, ghosts>>
        BY <1>0, <2>8 DEF SaveGame, Kept, Ghosts, stores, actors
      <3> QED
        BY <2>1, <3>1
    <2>9. ASSUME NEW restart \in BOOLEAN, LoadGame(restart)
          PROVE  ManagedInOrder'
      <3>1. saved \in Saves
        BY DEF TypeInv
      <3>2. /\ known' = saved.known /\ saved' = saved /\ ghosts'.unseen = saved.ghosts.unseen
            /\ \A h \in Form : life'[h] \in {"none", saved.life[h]}
        BY <2>9, <3>1 DEF LoadGame, Saves, Ghosts
      <3>3. ScanQueued'
        BY <2>9, LoadQueuesScan
      <3> QED
        BY <1>0, <3>1, <3>2, <3>3 DEF Saves, Life
    <2>10. CASE TradeStep
      <3>1. CASE CloseMenu
        BY <2>2, <3>1 DEF CloseMenu, stores, actors
      <3>2. ASSUME NEW f \in Form, OpenMenu(f) \/ DisplayRefused(f) \/ CaptureEquip(f)
                                     \/ SecondaryClickHeadgear(f)
            PROVE  ManagedInOrder'
        BY <1>0, <2>2, <3>2 DEF OpenMenu, DisplayRefused, CaptureEquip, SecondaryClickHeadgear,
                                Ghosts, stores, actors
      <3> QED
        BY <2>3, <2>10, <3>1, <3>2 DEF TradeStep
    <2>11. CASE PageStep
      <3>1. ASSUME NEW f \in Form, NEW s \in Spell, ToggleSpell(f, s)
            PROVE  ManagedInOrder'
        BY <2>2, <3>1 DEF ToggleSpell, actors
      <3>2. CASE ToggleMod
        BY <2>2, <3>2 DEF ToggleMod, actors
      <3>3. ASSUME NEW f \in Form, Exclude(f) \/ Include(f)
            PROVE  ManagedInOrder'
        BY <1>0, <2>2, <3>3 DEF Exclude, Include, Ghosts, actors
      <3> QED
        BY <2>4, <2>11, <3>1, <3>2, <3>3 DEF PageStep
    <2>12. CASE RunTask
      BY <1>0, <1>3, <2>2, <2>12 DEF RunTask, RunBaselineTask, RunSuppressTask,
         RunUnsuppressTask, RunRestoreTask, GiveSpells, Ghosts, stores, actors
    <2>13. CASE EngineStep
      <3>1. ASSUME NEW f \in Form, CaptureSnapshot(f) \/ Recruit(f)
            PROVE  ManagedInOrder'
        BY <2>2, <3>1 DEF CaptureSnapshot, Recruit, stores, actors
      <3>2. ASSUME NEW p, Learn(p)
            PROVE  ManagedInOrder'
        BY <1>0, <2>2, <3>2 DEF Learn, GiveSpells, Ghosts, stores
      <3> QED
        BY <2>5, <2>6, <2>7, <2>13, <3>1, <3>2 DEF EngineStep
    <2>14. CASE UNCHANGED vars
      BY <2>2, <2>14 DEF vars, stores, actors
    <2> QED
      BY <2>8, <2>9, <2>10, <2>11, <2>12, <2>13, <2>14 DEF Next, LifecycleStep
  <1> QED
    BY <1>2, <1>3

\* A managed dynamic actor exists, and no managed actor is an ash pile, but
\* for the exceptions named there (ActorStores!ManagedActorsExist).
THEOREM ManagedActorsAlwaysExist == Spec => []ManagedActorsExist
  <1>1. Init => TypeInv /\ ManagedInOrder
    BY TypeInit, FormAssumption
    DEF Init, Kept, ManagedInOrder, ManagedActorsExist, Departed
  <1>2. TypeInv /\ ManagedInOrder /\ [Next]_vars => TypeInv' /\ ManagedInOrder'
    BY TypeStep, ManagedStep, FormAssumption
  <1>3. ManagedInOrder => ManagedActorsExist
    BY DEF ManagedInOrder
  <1> QED
    BY <1>1, <1>2, <1>3, PTL DEF Spec

-----------------------------------------------------------------------------
(***************************************************************************)
(* Preferences.  The frames of an open menu enrol the target once, so what *)
(* the session variables name is managed, or marked as not to be enrolled; *)
(* the captures of the session rest on that.                               *)
(***************************************************************************)
Traded(k, g) == k \cup g.unenrolled

PreferencesInOrder ==
    /\ prefs \subseteq Traded(known, ghosts)
    /\ saved.prefs \subseteq Traded(saved.known, saved.ghosts)
    /\ {cache.enrolled, cache.processed} \subseteq Traded(known, ghosts) \cup {NoForm}

\* A purge, whatever it is for, leaves them in order.
LEMMA PurgeKeepsPreferences ==
    ASSUME TypeInv, PreferencesInOrder, NEW F \in SUBSET Form, NEW q, NEW g \in Ghosts,
           PurgeActors(F, q), ghosts'.unenrolled = Purged(g, F).unenrolled,
           g.unenrolled = ghosts.unenrolled, UNCHANGED <<cache, saved>>
    PROVE  PreferencesInOrder'
  <1>1. known' = known \ F /\ prefs' = prefs \ F
    BY DEF PurgeActors
  <1>2. ghosts'.unenrolled = (ghosts.unenrolled \ F) \cup (F \cap {cache.enrolled, cache.processed})
    BY DEF Purged, Ghosts
  <1> QED
    BY <1>1, <1>2 DEF PreferencesInOrder, Traded

\* No step writes a preference for an actor that no session enrolled, or
\* forgets that it was not.
LEMMA PreferencesStep ==
    ASSUME FormAssumption, TypeInv, PreferencesInOrder, [Next]_vars
    PROVE  PreferencesInOrder'
  <1> USE DEF PreferencesInOrder, Traded
  <1>0. /\ ghosts \in Ghosts /\ saved \in Saves
        /\ cache \in [processed : MaybeForm, admitted : BOOLEAN,
                      enrolled : MaybeForm, seeded : MaybeForm]
    BY DEF TypeInv, TypeOK
  <1>1. ASSUME UNCHANGED <<known, prefs, cache, saved>>,
               ghosts'.unenrolled = ghosts.unenrolled
        PROVE  PreferencesInOrder'
    BY <1>1
  <1>2. ASSUME NEW f \in Form, DisplayAdmitted(f)
        PROVE  PreferencesInOrder'
    <2>1. /\ prefs' \in {prefs, prefs \cup {f}} /\ saved' = saved
          /\ cache'.processed = f /\ cache'.enrolled = f
      BY <1>2 DEF DisplayAdmitted
    <2>2. CASE Enrols(f)
      <3>1. known' = known \cup {f} /\ ghosts'.unenrolled = ghosts.unenrolled \ {f}
        BY <1>0, <1>2, <2>2 DEF DisplayAdmitted, Ghosts
      <3> QED
        BY <2>1, <3>1
    <2>3. CASE ~Enrols(f)
      <3>1. known' = known /\ ghosts'.unenrolled = ghosts.unenrolled
        BY <1>0, <1>2, <2>3 DEF DisplayAdmitted, Ghosts
      <3>2. cache.enrolled = f /\ f # NoForm
        BY <2>3 DEF Enrols, FormAssumption
      <3> QED
        BY <2>1, <3>1, <3>2
    <2> QED
      BY <2>2, <2>3
  <1>3. ASSUME NEW f \in Form, DisplayRefused(f)
        PROVE  PreferencesInOrder'
    <2>1. /\ UNCHANGED <<known, prefs, saved>>
          /\ cache'.processed = f /\ cache'.enrolled = cache.enrolled
          /\ ghosts'.unenrolled = ghosts.unenrolled \cup {f}
      BY <1>0, <1>3 DEF DisplayRefused, Ghosts, stores
    <2> QED
      BY <2>1
  <1>4. CASE CloseMenu
    <2>1. /\ UNCHANGED <<known, prefs, saved>>
          /\ ghosts'.unenrolled = ghosts.unenrolled
          /\ cache'.processed \in {NoForm, cache.processed}
          /\ cache'.enrolled \in {NoForm, cache.enrolled}
      BY <1>0, <1>4 DEF CloseMenu, NoCache, Ghosts, stores
    <2> QED
      BY <2>1
  <1>5. ASSUME NEW f \in Form, CaptureEquip(f) \/ SecondaryClickHeadgear(f)
        PROVE  PreferencesInOrder'
    <2>1. /\ prefs' \in {prefs, prefs \cup {f}, prefs \ {f}}
          /\ UNCHANGED <<known, saved, cache, ghosts>>
      BY <1>5 DEF CaptureEquip, SecondaryClickHeadgear, plugin
    <2>2. cache.processed = f /\ f # NoForm
      BY <1>5 DEF CaptureEquip, SecondaryClickHeadgear, FormAssumption
    <2> QED
      BY <2>1, <2>2
  <1>6. ASSUME NEW f \in Form, RemoveActor(f)
        PROVE  PreferencesInOrder'
    <2>1. /\ PurgeActors({f}, tasks) /\ UNCHANGED <<cache, saved>>
          /\ ghosts'.unenrolled = Purged(ghosts, {f}).unenrolled
      BY <1>0, <1>6 DEF RemoveActor, Purged, Ghosts
    <2> QED
      BY <1>0, <2>1, PurgeKeepsPreferences
  <1>7. CASE ToggleMod
    <2>1. /\ UNCHANGED <<known, prefs, saved, ghosts>>
          /\ cache'.processed = cache.processed /\ cache'.enrolled = cache.enrolled
      BY <1>0, <1>7 DEF ToggleMod
    <2> QED
      BY <2>1
  <1>8. CASE RunTask
    <2>1. CASE RunScanTask
      <3>1. StaleForms \in SUBSET Form
        BY DEF StaleForms, TypeInv, TypeOK
      <3> QED
        BY <1>0, <2>1, <3>1, PurgeKeepsPreferences DEF RunScanTask
    <2>2. CASE ~RunScanTask
      BY <1>0, <1>1, <1>8, <2>2 DEF RunTask, RunBaselineTask, RunSuppressTask,
         RunUnsuppressTask, RunRestoreTask, GiveSpells, Ghosts, stores
    <2> QED
      BY <2>1, <2>2
  <1>9. ASSUME NEW f \in Form, Die(f) \/ TurnToAsh(f) \/ DeleteForm(f)
        PROVE  PreferencesInOrder'
    <2>1. PICK heard \in BOOLEAN, g \in Ghosts :
            Hears(heard, f, g) /\ g.unenrolled = ghosts.unenrolled
      BY <1>9, EndIsHeard
    <2>2. UNCHANGED <<cache, saved>>
      BY <1>9 DEF Die, TurnToAsh, DeleteForm
    <2>3. CASE heard
      BY <2>1, <2>2, <2>3, PurgeKeepsPreferences DEF Hears
    <2>4. CASE ~heard
      BY <1>1, <2>1, <2>2, <2>4 DEF Hears, stores
    <2> QED
      BY <2>3, <2>4
  <1>10. ASSUME NEW restart \in BOOLEAN, LoadGame(restart)
         PROVE  PreferencesInOrder'
    <2>1. /\ known' = saved.known /\ prefs' = saved.prefs /\ saved' = saved
          /\ ghosts'.unenrolled = saved.ghosts.unenrolled
               \cup ({cache'.enrolled, cache'.processed} \ (saved.known \cup {NoForm}))
      BY <1>0, <1>10 DEF LoadGame, Saves, Ghosts
    <2> QED
      BY <2>1
  <1>11. CASE SaveGame
    <2>1. /\ saved'.known = known /\ saved'.prefs = prefs
          /\ saved'.ghosts.unenrolled = ghosts.unenrolled
          /\ UNCHANGED <<known, prefs, cache, ghosts>>
      BY <1>0, <1>11 DEF SaveGame, Kept, Ghosts, stores, plugin
    <2> QED
      BY <2>1
  <1>12. CASE TradeStep
    <2>1. ASSUME NEW f \in Form, OpenMenu(f)
          PROVE  PreferencesInOrder'
      BY <1>0, <1>1, <2>1 DEF OpenMenu, Ghosts, stores, plugin
    <2> QED
      BY <1>2, <1>3, <1>4, <1>5, <1>12, <2>1 DEF TradeStep
  <1>13. CASE PageStep
    <2>1. ASSUME NEW f \in Form, NEW s \in Spell, ToggleSpell(f, s)
          PROVE  PreferencesInOrder'
      BY <1>1, <2>1 DEF ToggleSpell
    <2>2. ASSUME NEW f \in Form, Exclude(f) \/ Include(f)
          PROVE  PreferencesInOrder'
      BY <1>0, <1>1, <2>2 DEF Exclude, Include, Ghosts, plugin
    <2> QED
      BY <1>6, <1>7, <1>13, <2>1, <2>2 DEF PageStep
  <1>14. CASE EngineStep
    <2>1. ASSUME NEW f \in Form, CaptureSnapshot(f) \/ Resurrect(f) \/ Recruit(f)
          PROVE  PreferencesInOrder'
      BY <1>1, <2>1 DEF CaptureSnapshot, Resurrect, Recruit, stores, plugin
    <2>3. ASSUME NEW f \in Form, FreeForm(f)
          PROVE  PreferencesInOrder'
      <3>1. ghosts'.unenrolled = ghosts.unenrolled
        BY <1>0, <2>3 DEF FreeForm, Gone, Ghosts
      <3> QED
        BY <1>1, <2>3, <3>1 DEF FreeForm, stores, plugin
    <2>4. ASSUME NEW f \in Form, Spawn(f)
          PROVE  PreferencesInOrder'
      BY <1>0, <1>1, <2>4 DEF Spawn, Ghosts, stores, plugin
    <2>2. ASSUME NEW p, Learn(p)
          PROVE  PreferencesInOrder'
      BY <1>0, <1>1, <2>2 DEF Learn, GiveSpells, Ghosts, stores, plugin
    <2> QED
      BY <1>9, <1>14, <2>1, <2>2, <2>3, <2>4 DEF EngineStep
  <1>15. CASE UNCHANGED vars
    BY <1>1, <1>15 DEF vars, stores, plugin
  <1> QED
    BY <1>8, <1>10, <1>11, <1>12, <1>13, <1>14, <1>15 DEF Next, LifecycleStep

\* A preference of an actor that is not managed comes from a session that did
\* not enrol it (ActorStores!PreferencesOnlyFromTrade).
THEOREM PreferencesAlwaysFromTrade == Spec => []PreferencesOnlyFromTrade
  <1>1. Init => TypeInv /\ PreferencesInOrder
    BY TypeInit, FormAssumption
    DEF Init, Kept, NoCache, NoGhosts, PreferencesInOrder, Traded
  <1>2. TypeInv /\ PreferencesInOrder /\ [Next]_vars => TypeInv' /\ PreferencesInOrder'
    BY TypeStep, PreferencesStep, FormAssumption
  <1>3. PreferencesInOrder => PreferencesOnlyFromTrade
    BY DEF PreferencesInOrder, Traded, PreferencesOnlyFromTrade
  <1> QED
    BY <1>1, <1>2, <1>3, PTL DEF Spec

-----------------------------------------------------------------------------
(***************************************************************************)
(* Recycled FormIDs: Spawn is the one step that records what a new actor   *)
(* inherits, and the three invariants above say that it is excused.        *)
(***************************************************************************)
Inheritance == {"known", "prefs", "snapshots"} \X Form

NothingInherited ==
    /\ Inheritance \cap ghosts.inherited = {}
    /\ Inheritance \cap saved.ghosts.inherited = {}

\* What a new actor inherits is excused, or is none of the three.
LEMMA SpawnInheritsNothing ==
    ASSUME TypeInv, SnapshotsOnlyOfManaged, ManagedActorsExist, PreferencesOnlyFromTrade,
           NothingInherited, NEW f \in Form, Spawn(f)
    PROVE  Inheritance \cap ghosts'.inherited = {}
  <1>0. ghosts \in Ghosts /\ life[f] = "none"
    BY DEF Spawn, TypeInv
  <1>1. CASE f \notin Dynamic
    BY <1>0, <1>1 DEF Spawn, NothingInherited, Ghosts
  <1>2. CASE f \in Dynamic
    <2>1. ghosts'.inherited = ghosts.inherited \cup
             {<<name, f>> : name \in {n \in DOMAIN StoreOf : f \in StoreOf[n] /\ ~Excused(n, f)}}
      BY <1>0, <1>2 DEF Spawn, Ghosts
    <2>2. f \in known => ScanQueued \/ f \in ghosts.unseen
      BY <1>0, <1>2 DEF ManagedActorsExist
    <2>3. ASSUME NEW n \in {"known", "prefs", "snapshots"}, f \in StoreOf[n]
          PROVE  Excused(n, f)
      BY <2>2, <2>3 DEF StoreOf, Excused, SnapshotsOnlyOfManaged, PreferencesOnlyFromTrade
    <2> QED
      BY <2>1, <2>3 DEF Inheritance, NothingInherited
  <1> QED
    BY <1>1, <1>2

\* No other step adds to it.
LEMMA InheritanceStep ==
    ASSUME FormAssumption, TypeInv, SnapshotsOnlyOfManaged, ManagedActorsExist,
           PreferencesOnlyFromTrade, NothingInherited, [Next]_vars
    PROVE  NothingInherited'
  <1> USE DEF NothingInherited
  <1>0. ghosts \in Ghosts /\ saved \in Saves
    BY DEF TypeInv
  <1>1. ASSUME ghosts'.inherited = ghosts.inherited, UNCHANGED saved
        PROVE  NothingInherited'
    BY <1>1
  <1>2. ASSUME NEW F \in SUBSET Form, NEW g \in Ghosts
        PROVE  /\ Purged(g, F).inherited = g.inherited
               /\ \A f \in Form : /\ Gone(g, f).inherited = g.inherited
                                  /\ Missed(g, f).inherited = g.inherited
    BY DEF Purged, Gone, Missed, Ghosts
  <1>3. ASSUME NEW f \in Form, Die(f) \/ TurnToAsh(f) \/ DeleteForm(f)
        PROVE  NothingInherited'
    <2>1. PICK heard \in BOOLEAN, g \in Ghosts :
            Hears(heard, f, g) /\ g.inherited = ghosts.inherited
      BY <1>3, EndIsHeard
    <2>2. ghosts' = Purged(g, {f}) \/ ghosts' = g
      BY <2>1 DEF Hears
    <2> QED
      BY <1>1, <1>2, <1>3, <2>1, <2>2 DEF Die, TurnToAsh, DeleteForm
  <1>4. ASSUME NEW f \in Form, Spawn(f)
        PROVE  NothingInherited'
    BY <1>4, SpawnInheritsNothing DEF Spawn
  <1>5. CASE SaveGame
    <2>1. saved'.ghosts.inherited = ghosts.inherited /\ UNCHANGED ghosts
      BY <1>0, <1>5 DEF SaveGame, Kept, Ghosts
    <2> QED
      BY <2>1
  <1>6. ASSUME NEW restart \in BOOLEAN, LoadGame(restart)
        PROVE  NothingInherited'
    <2>1. ghosts'.inherited = saved.ghosts.inherited /\ UNCHANGED saved
      BY <1>0, <1>6 DEF LoadGame, Saves, Ghosts
    <2> QED
      BY <2>1
  <1>7. CASE TradeStep
    BY <1>0, <1>1, <1>7 DEF TradeStep, CloseMenu, OpenMenu, DisplayAdmitted, DisplayRefused,
                            CaptureEquip, SecondaryClickHeadgear, Ghosts
  <1>8. CASE PageStep
    <2>1. ASSUME NEW f \in Form, RemoveActor(f)
          PROVE  NothingInherited'
      <3>1. ghosts'.inherited = Purged(ghosts, {f}).inherited /\ UNCHANGED saved
        BY <1>0, <2>1, GhostTypes DEF RemoveActor, Ghosts
      <3> QED
        BY <1>0, <1>1, <1>2, <3>1
    <2>2. ASSUME NEW f \in Form, NEW s \in Spell, ToggleSpell(f, s)
          PROVE  NothingInherited'
      BY <1>1, <2>2 DEF ToggleSpell
    <2>3. ASSUME NEW f \in Form, Exclude(f) \/ Include(f)
          PROVE  NothingInherited'
      BY <1>0, <1>1, <2>3 DEF Exclude, Include, Ghosts
    <2>4. CASE ToggleMod
      BY <1>1, <2>4 DEF ToggleMod
    <2> QED
      BY <1>8, <2>1, <2>2, <2>3, <2>4 DEF PageStep
  <1>9. CASE RunTask
    <2>1. CASE RunScanTask
      <3>1. StaleForms \in SUBSET Form
        BY DEF StaleForms, TypeInv, TypeOK
      <3> QED
        BY <1>0, <1>1, <1>2, <2>1, <3>1 DEF RunScanTask
    <2>2. CASE ~RunScanTask
      BY <1>0, <1>1, <1>9, <2>2 DEF RunTask, RunBaselineTask, RunSuppressTask,
         RunUnsuppressTask, RunRestoreTask, GiveSpells, Ghosts
    <2> QED
      BY <2>1, <2>2
  <1>10. CASE EngineStep
    <2>1. ASSUME NEW f \in Form, CaptureSnapshot(f) \/ Resurrect(f) \/ Recruit(f)
          PROVE  NothingInherited'
      BY <1>1, <2>1 DEF CaptureSnapshot, Resurrect, Recruit
    <2>2. ASSUME NEW f \in Form, FreeForm(f)
          PROVE  NothingInherited'
      <3>1. ghosts'.inherited = ghosts.inherited
        BY <1>0, <2>2 DEF FreeForm, Gone, Ghosts
      <3> QED
        BY <1>1, <2>2, <3>1 DEF FreeForm
    <2>3. ASSUME NEW p, Learn(p)
          PROVE  NothingInherited'
      BY <1>0, <1>1, <2>3 DEF Learn, GiveSpells, Ghosts
    <2> QED
      BY <1>3, <1>4, <1>10, <2>1, <2>2, <2>3 DEF EngineStep
  <1>11. CASE UNCHANGED vars
    BY <1>1, <1>11 DEF vars
  <1> QED
    BY <1>5, <1>6, <1>7, <1>8, <1>9, <1>10, <1>11 DEF Next, LifecycleStep

\* A new actor under a recycled FormID is not managed, and has no preferences
\* and no snapshots, on account of the one before it, but for the exceptions
\* of Excused (ActorStores!NextActorIsUnmanaged).
THEOREM NextActorAlwaysUnmanaged == Spec => []NextActorIsUnmanaged
  <1>1. Init => NothingInherited
    BY DEF Init, Kept, NoGhosts, NothingInherited
  <1>2. /\ TypeInv /\ SnapshotsOnlyOfManaged /\ ManagedActorsExist /\ PreferencesOnlyFromTrade
        /\ NothingInherited /\ [Next]_vars
        => NothingInherited'
    BY InheritanceStep, FormAssumption
  <1>3. NothingInherited => NextActorIsUnmanaged
    BY DEF NothingInherited, Inheritance, NextActorIsUnmanaged
  <1> QED
    BY <1>1, <1>2, <1>3, TypesAlwaysCorrect, SnapshotsAlwaysOfManaged, ManagedActorsAlwaysExist,
       PreferencesAlwaysFromTrade, PTL DEF Spec

-----------------------------------------------------------------------------
(***************************************************************************)
(* Suppressed spells.  A record may be dropped as learned again only if    *)
(* the spell is not owed any more, and a dynamic actor that is gone is     *)
(* owed nothing: the next one would be born with it.                       *)
(***************************************************************************)
QueuedIn(q) == UNION {q[i].pairs : i \in {j \in DOMAIN q : q[j].kind = "restore"}}

OwedInOrder(g, l, h) ==
    /\ g.owed \cap h = {}
    /\ \A f \in Dynamic : l[f] = "none" => g.owed \cap PairsOf({f}) = {}

SpellsInOrder ==
    /\ SpellsAreAccountedFor
    /\ OwedInOrder(ghosts, life, has)
    /\ saved.ghosts.owed \subseteq saved.suppressed \cup saved.ghosts.forfeited
    /\ OwedInOrder(saved.ghosts, saved.life, saved.has)

\* A restore in the queue is among what is queued.
LEMMA RestoreIsQueued ==
    ASSUME NEW q, NEW k \in DOMAIN q, q[k].kind = "restore"
    PROVE  q[k].pairs \subseteq QueuedIn(q)
  BY DEF QueuedIn

\* Adding a task adds what it restores to what is queued.
LEMMA AppendRestore ==
    ASSUME NEW q \in Seq(Task), NEW t \in Task
    PROVE  /\ QueuedIn(q) \subseteq QueuedIn(Append(q, t))
           /\ t.kind = "restore" => t.pairs \subseteq QueuedIn(Append(q, t))
  <1> DEFINE r == Append(q, t)
  <1>1. \A i \in DOMAIN q : i \in DOMAIN r /\ r[i] = q[i]
    OBVIOUS
  <1>2. Len(q) + 1 \in DOMAIN r /\ r[Len(q) + 1] = t
    OBVIOUS
  <1> QED
    BY <1>1, <1>2 DEF QueuedIn

\* Running the first task takes away what it restores, and no more.
LEMMA TailRestore ==
    ASSUME NEW q \in Seq(Task), q # <<>>
    PROVE  /\ Head(q).kind = "restore" => QueuedIn(q) \subseteq Head(q).pairs \cup QueuedIn(Tail(q))
           /\ Head(q).kind # "restore" => QueuedIn(q) \subseteq QueuedIn(Tail(q))
  <1>1. ASSUME NEW i \in DOMAIN q, i # 1
        PROVE  i - 1 \in DOMAIN Tail(q) /\ Tail(q)[i - 1] = q[i]
    BY <1>1
  <1>2. q[1] = Head(q)
    OBVIOUS
  <1>3. ASSUME NEW x \in QueuedIn(q)
        PROVE  x \in QueuedIn(Tail(q)) \/ (Head(q).kind = "restore" /\ x \in Head(q).pairs)
    <2>1. PICK i \in DOMAIN q : q[i].kind = "restore" /\ x \in q[i].pairs
      BY <1>3 DEF QueuedIn
    <2>2. CASE i = 1
      BY <1>2, <2>1, <2>2
    <2>3. CASE i # 1
      <3>1. PICK k \in DOMAIN Tail(q) : Tail(q)[k] = q[i]
        BY <1>1, <2>3
      <3>2. Tail(q)[k].kind = "restore" /\ x \in Tail(q)[k].pairs
        BY <2>1, <3>1
      <3> QED
        BY <3>1, <3>2, RestoreIsQueued
    <2> QED
      BY <2>2, <2>3
  <1> QED
    BY <1>3

\* A purge moves the spells from the record to the queue.
LEMMA PurgeQueuesSpells ==
    ASSUME TypeInv, NEW F \in SUBSET Form, NEW q \in Seq(Task), PurgeActors(F, q)
    PROVE  suppressed \cup QueuedIn(q) \subseteq suppressed' \cup QueuedRestores'
  <1> DEFINE spells == suppressed \cap PairsOf(F)
             t == [kind |-> "restore", pairs |-> spells]
  <1>1. suppressed' = suppressed \ spells /\ QueuedRestores' = QueuedIn(tasks')
    BY DEF PurgeActors, RestoreAndEraseActor, QueuedRestores, QueuedIn
  <1>2. CASE spells = {}
    <2>1. tasks' = q
      BY <1>2 DEF PurgeActors, RestoreAndEraseActor
    <2> QED
      BY <1>1, <1>2, <2>1
  <1>3. CASE spells # {}
    <2>1. tasks' = Append(q, t)
      BY <1>3 DEF PurgeActors, RestoreAndEraseActor
    <2>2. t \in Task
      BY DEF TypeInv, TypeOK, Task
    <2>3. QueuedIn(q) \cup spells \subseteq QueuedIn(Append(q, t))
      BY <2>2, AppendRestore
    <2> QED
      BY <1>1, <2>1, <2>3
  <1> QED
    BY <1>2, <1>3

\* No step loses a spell but for the reasons the model names.
LEMMA SpellsStep ==
    ASSUME FormAssumption, TypeInv, SpellsInOrder, [Next]_vars
    PROVE  SpellsInOrder'
  <1> USE DEF SpellsInOrder, SpellsAreAccountedFor, OwedInOrder
  <1>0. /\ ghosts \in Ghosts /\ saved \in Saves /\ tasks \in Seq(Task)
        /\ life \in [Form -> Life]
        /\ QueuedRestores = QueuedIn(tasks) /\ QueuedRestores' = QueuedIn(tasks')
    BY DEF TypeInv, TypeOK, Life, QueuedRestores, QueuedIn
  <1>1. ASSUME UNCHANGED <<life, has, saved>>,
               ghosts'.owed = ghosts.owed, ghosts'.forfeited = ghosts.forfeited,
               suppressed \cup QueuedRestores \subseteq suppressed' \cup QueuedRestores'
        PROVE  SpellsInOrder'
    BY <1>1
  <1>2. ASSUME UNCHANGED <<suppressed, tasks>>
        PROVE  suppressed \cup QueuedRestores \subseteq suppressed' \cup QueuedRestores'
    BY <1>0, <1>2
  <1>3. ASSUME NEW F \in SUBSET Form, NEW g \in Ghosts
        PROVE  Purged(g, F).owed = g.owed /\ Purged(g, F).forfeited = g.forfeited
    BY DEF Purged, Ghosts
  <1>4. ASSUME NEW t \in Task, tasks' = Append(tasks, t)
        PROVE  QueuedRestores \subseteq QueuedRestores'
    BY <1>0, <1>4, AppendRestore
  <1>5. ASSUME NEW f \in Form, DisplayAdmitted(f)
        PROVE  SpellsInOrder'
    <2>1. /\ UNCHANGED <<life, has, saved, suppressed>>
          /\ ghosts'.owed = ghosts.owed /\ ghosts'.forfeited = ghosts.forfeited
      BY <1>0, <1>5 DEF DisplayAdmitted, Ghosts, actors
    <2>2. [kind |-> "baseline", form |-> f] \in Task
      BY DEF Task
    <2>3. QueuedRestores \subseteq QueuedRestores'
      BY <1>0, <1>4, <1>5, <2>2 DEF DisplayAdmitted
    <2> QED
      BY <1>1, <2>1, <2>3
  <1>6. ASSUME NEW f \in Form, RemoveActor(f)
        PROVE  SpellsInOrder'
    <2>1. /\ PurgeActors({f}, tasks) /\ UNCHANGED <<life, has, saved>>
          /\ ghosts'.owed = ghosts.owed /\ ghosts'.forfeited = ghosts.forfeited
      BY <1>0, <1>6 DEF RemoveActor, Purged, Ghosts, actors
    <2> QED
      BY <1>0, <1>1, <2>1, PurgeQueuesSpells
  <1>7. ASSUME NEW f \in Form, NEW s \in Spell, ToggleSpell(f, s)
        PROVE  SpellsInOrder'
    <2> DEFINE t == [kind |-> IF <<f, s>> \in has THEN "suppress" ELSE "unsuppress",
                     pair |-> <<f, s>>]
    <2>1. t \in Task
      BY DEF Task, Pair
    <2>2. /\ suppressed' = suppressed \ (has \cap PairsOf({f}))
          /\ UNCHANGED <<life, has, saved, ghosts>> /\ tasks' = Append(tasks, t)
      BY <1>7 DEF ToggleSpell, actors
    <2>3. QueuedRestores \subseteq QueuedRestores'
      BY <1>4, <2>1, <2>2
    <2> QED
      BY <2>2, <2>3
  <1>8. ASSUME NEW p, GiveSpells({p}), suppressed \subseteq suppressed' \cup {p},
               QueuedRestores \subseteq QueuedRestores', UNCHANGED <<life, saved>>
        PROVE  SpellsInOrder'
    <2>1. /\ has' = has \cup {p} /\ ghosts'.owed = ghosts.owed \ {p}
          /\ ghosts'.forfeited = ghosts.forfeited \ {p}
      BY <1>0, <1>8 DEF GiveSpells, Ghosts
    <2> QED
      BY <1>8, <2>1
  <1>9. CASE RunTask
    <2>1. tasks # <<>>
      BY <1>9 DEF RunTask, RunBaselineTask, RunSuppressTask, RunUnsuppressTask,
                  RunRestoreTask, RunScanTask, NextTask
    <2>2. Head(tasks).kind # "restore" => QueuedRestores \subseteq QueuedIn(Tail(tasks))
      BY <1>0, <2>1, TailRestore
    <2>3. CASE RunBaselineTask
      <3>1. /\ UNCHANGED <<life, has, saved, ghosts, suppressed>>
            /\ tasks' = Tail(tasks) /\ Head(tasks).kind # "restore"
        BY <2>3 DEF RunBaselineTask, NextTask, actors
      <3> QED
        BY <1>0, <1>1, <2>2, <3>1
    <2>4. CASE RunSuppressTask
      <3> DEFINE p == Head(tasks).pair
      <3>1. QueuedRestores \subseteq QueuedRestores' /\ UNCHANGED <<life, saved>>
        BY <1>0, <2>2, <2>4 DEF RunSuppressTask, NextTask
      <3>2. p \in Pair
        BY <1>0, <2>1, <2>4, TailTask DEF RunSuppressTask, NextTask, Task
      <3>3. CASE UNCHANGED <<suppressed, has, ghosts>>
        BY <1>1, <3>1, <3>3
      <3>4. CASE /\ life[p[1]] # "none" /\ suppressed' = suppressed \cup {p} /\ has' = has \ {p}
                 /\ ghosts' = [ghosts EXCEPT !.owed = IF p \in has THEN @ \cup {p} ELSE @]
        <4>1. /\ ghosts'.owed \subseteq ghosts.owed \cup {p} /\ ghosts'.forfeited = ghosts.forfeited
          BY <1>0, <3>4 DEF Ghosts
        <4>2. \A f \in Dynamic : life[f] = "none" => p \notin PairsOf({f})
          BY <3>4 DEF PairsOf
        <4> QED
          BY <3>1, <3>4, <4>1, <4>2
      <3> QED
        BY <2>4, <3>3, <3>4 DEF RunSuppressTask, Suppress
    <2>5. CASE RunUnsuppressTask
      <3> DEFINE p == Head(tasks).pair
      <3>1. QueuedRestores \subseteq QueuedRestores' /\ UNCHANGED <<life, saved>>
        BY <1>0, <2>2, <2>5 DEF RunUnsuppressTask, NextTask
      <3>2. \/ UNCHANGED <<suppressed, has, ghosts>>
            \/ suppressed' = suppressed \ {p} /\ GiveSpells({p})
        BY <2>5 DEF RunUnsuppressTask
      <3> QED
        BY <1>1, <1>8, <3>1, <3>2
    <2>6. CASE RunRestoreTask
      <3> DEFINE spells == Head(tasks).pairs
                 found == Found(spells)
      <3>1. QueuedRestores \subseteq spells \cup QueuedRestores'
        BY <1>0, <2>1, <2>6, TailRestore DEF RunRestoreTask, NextTask
      <3>2. /\ UNCHANGED <<life, saved, suppressed>> /\ has' = has \cup found
            /\ ghosts'.owed = ghosts.owed \ found
            /\ ghosts'.forfeited = (ghosts.forfeited \ found) \cup (ghosts.owed \cap (spells \ found))
        BY <1>0, <2>6 DEF RunRestoreTask, Ghosts, stores
      <3> QED
        BY <3>1, <3>2
    <2>7. CASE RunScanTask
      <3>1. StaleForms \in SUBSET Form
        BY DEF StaleForms, TypeInv, TypeOK
      <3>2. /\ PurgeActors(StaleForms, Tail(tasks)) /\ UNCHANGED <<life, has, saved>>
            /\ ghosts'.owed = ghosts.owed /\ ghosts'.forfeited = ghosts.forfeited
        BY <1>0, <1>3, <2>7, <3>1 DEF RunScanTask, actors
      <3>3. QueuedRestores \subseteq QueuedIn(Tail(tasks)) /\ Tail(tasks) \in Seq(Task)
        BY <1>0, <2>1, <2>2, <2>7, TailTask DEF RunScanTask, NextTask
      <3> QED
        BY <1>1, <3>1, <3>2, <3>3, PurgeQueuesSpells
    <2> QED
      BY <1>9, <2>3, <2>4, <2>5, <2>6, <2>7 DEF RunTask
  <1>10. ASSUME NEW f \in Form, NEW heard \in BOOLEAN, NEW g \in Ghosts, Hears(heard, f, g)
         PROVE  /\ suppressed \cup QueuedRestores \subseteq suppressed' \cup QueuedRestores'
                /\ ghosts'.owed = g.owed /\ ghosts'.forfeited = g.forfeited
    <2>1. CASE heard
      <3>1. PurgeActors({f}, tasks) /\ ghosts' = Purged(g, {f})
        BY <1>10, <2>1 DEF Hears
      <3> QED
        BY <1>0, <1>3, <3>1, PurgeQueuesSpells
    <2>2. CASE ~heard
      <3>1. UNCHANGED <<suppressed, tasks>> /\ ghosts' = g
        BY <1>10, <2>2 DEF Hears, stores
      <3> QED
        BY <1>2, <3>1
    <2> QED
      BY <2>1, <2>2
  <1>11. ASSUME NEW f \in Form
         PROVE  LET m == IF modOn THEN ghosts ELSE Missed(ghosts, f)
                IN  /\ m \in Ghosts /\ Gone(m, f) \in Ghosts
                    /\ m.owed = ghosts.owed /\ m.forfeited = ghosts.forfeited
                    /\ Gone(m, f).owed = ghosts.owed \ PairsOf({f})
                    /\ Gone(m, f).forfeited = ghosts.forfeited \ PairsOf({f})
    <2> DEFINE m == IF modOn THEN ghosts ELSE Missed(ghosts, f)
    <2>1. m \in Ghosts /\ m.owed = ghosts.owed /\ m.forfeited = ghosts.forfeited
      BY <1>0, GhostTypes DEF Missed, Ghosts
    <2>2. /\ Gone(m, f).owed = m.owed \ PairsOf({f})
          /\ Gone(m, f).forfeited = m.forfeited \ PairsOf({f})
      BY <2>1 DEF Gone, Ghosts
    <2>3. Gone(m, f) \in Ghosts
      BY <2>1, GhostTypes
    <2> QED
      BY <2>1, <2>2, <2>3
  <1>12. ASSUME NEW f \in Form, Die(f) \/ TurnToAsh(f)
         PROVE  SpellsInOrder'
    <2> DEFINE m == IF modOn THEN ghosts ELSE Missed(ghosts, f)
    <2>1. PICK heard \in BOOLEAN : Hears(heard, f, m)
      <3>1. HearsDeath(f) \in BOOLEAN /\ modOn \in BOOLEAN
        BY DEF HearsDeath, TypeInv, TypeOK
      <3>2. Hears(HearsDeath(f), f, m) \/ Hears(modOn, f, m)
        BY <1>12 DEF Die, TurnToAsh
      <3> QED
        BY <3>1, <3>2
    <2>2. /\ suppressed \cup QueuedRestores \subseteq suppressed' \cup QueuedRestores'
          /\ ghosts'.owed = ghosts.owed /\ ghosts'.forfeited = ghosts.forfeited
      <3>1. m \in Ghosts /\ m.owed = ghosts.owed /\ m.forfeited = ghosts.forfeited
        BY <1>11
      <3> HIDE DEF m
      <3> QED
        BY <1>10, <2>1, <3>1
    <2>3. \A e \in Form : life'[e] = "none" => life[e] = "none"
      BY <1>0, <1>12 DEF Die, TurnToAsh
    <2>4. UNCHANGED <<has, saved>>
      BY <1>12 DEF Die, TurnToAsh
    <2> QED
      BY <2>2, <2>3, <2>4, FormAssumption
  <1>13. ASSUME NEW f \in Form, NoActor(f), UNCHANGED saved,
                ghosts'.owed = ghosts.owed \ PairsOf({f}),
                ghosts'.forfeited = ghosts.forfeited \ PairsOf({f}),
                suppressed \cup QueuedRestores \subseteq suppressed' \cup QueuedRestores'
         PROVE  SpellsInOrder'
    <2>1. /\ has' = has \ PairsOf({f})
          /\ \A e \in Form : life'[e] = "none" => e = f \/ life[e] = "none"
      BY <1>0, <1>13 DEF NoActor
    <2> QED
      BY <1>13, <2>1, FormAssumption
  <1>14. ASSUME NEW f \in Form, DeleteForm(f)
         PROVE  SpellsInOrder'
    <2> DEFINE m == Gone(IF modOn THEN ghosts ELSE Missed(ghosts, f), f)
    <2>1. HearsDelete(f) \in BOOLEAN /\ Hears(HearsDelete(f), f, m)
      BY <1>14 DEF DeleteForm, HearsDelete, TypeInv, TypeOK
    <2>2. /\ suppressed \cup QueuedRestores \subseteq suppressed' \cup QueuedRestores'
          /\ ghosts'.owed = m.owed /\ ghosts'.forfeited = m.forfeited
      BY <1>10, <1>11, <2>1
    <2> QED
      BY <1>11, <1>13, <1>14, <2>2 DEF DeleteForm
  <1>15. ASSUME NEW f \in Form, FreeForm(f)
         PROVE  SpellsInOrder'
    <2>1. /\ ghosts'.owed = ghosts.owed \ PairsOf({f})
          /\ ghosts'.forfeited = ghosts.forfeited \ PairsOf({f})
      BY <1>0, <1>15 DEF FreeForm, Gone, Ghosts
    <2>2. UNCHANGED <<suppressed, tasks>>
      BY <1>15 DEF FreeForm, stores, plugin
    <2> QED
      BY <1>2, <1>13, <1>15, <2>1, <2>2 DEF FreeForm
  <1>16. ASSUME NEW f \in Form, Spawn(f)
         PROVE  SpellsInOrder'
    <2>1. PICK S \in SUBSET PairsOf({f} \cap Dynamic) : has' = has \cup S
      BY <1>16 DEF Spawn
    <2>2. life[f] = "none" /\ \A e \in Form : life'[e] = "none" => life[e] = "none"
      BY <1>0, <1>16 DEF Spawn
    <2>3. S \cap ghosts.owed = {}
      BY <2>1, <2>2 DEF PairsOf
    <2>4. ghosts'.owed = ghosts.owed /\ ghosts'.forfeited = ghosts.forfeited
      BY <1>0, <1>16 DEF Spawn, Ghosts
    <2>5. UNCHANGED <<suppressed, tasks, saved>>
      BY <1>16 DEF Spawn, stores, plugin
    <2> QED
      BY <1>2, <2>1, <2>2, <2>3, <2>4, <2>5, FormAssumption
  <1>17. ASSUME NEW f \in Form, Resurrect(f) \/ Recruit(f) \/ CaptureSnapshot(f)
         PROVE  SpellsInOrder'
    <2>1. UNCHANGED <<suppressed, tasks, saved, has, ghosts>>
      BY <1>17 DEF Resurrect, Recruit, CaptureSnapshot, stores, plugin, actors
    <2>2. \A e \in Form : life'[e] = "none" => life[e] = "none"
      BY <1>0, <1>17 DEF Resurrect, Recruit, CaptureSnapshot, actors
    <2> QED
      BY <1>2, <2>1, <2>2, FormAssumption
  <1>18. ASSUME NEW p, Learn(p)
         PROVE  SpellsInOrder'
    <2>1. GiveSpells({p}) /\ UNCHANGED <<suppressed, tasks, life, saved>>
      BY <1>18 DEF Learn, stores, plugin
    <2> QED
      BY <1>0, <1>8, <2>1
  <1>19. CASE SaveGame
    <2>1. UNCHANGED <<suppressed, tasks, life, has, ghosts>>
      BY <1>19 DEF SaveGame, stores, plugin, actors
    <2>2. /\ saved'.suppressed = suppressed /\ saved'.life = life /\ saved'.has = has
          /\ saved'.ghosts.owed = ghosts.owed
          /\ saved'.ghosts.forfeited = ghosts.forfeited \cup (ghosts.owed \cap QueuedRestores)
      BY <1>0, <1>19 DEF SaveGame, Kept, Ghosts
    <2> QED
      BY <1>2, <2>1, <2>2
  <1>20. ASSUME NEW restart \in BOOLEAN, LoadGame(restart)
         PROVE  SpellsInOrder'
    <2>1. PICK missing \in SUBSET Form :
            /\ life' = [f \in Form |-> IF f \in missing THEN "none" ELSE saved.life[f]]
            /\ has' = saved.has \ PairsOf(missing \cap Dynamic)
            /\ ghosts'.owed = saved.ghosts.owed \ PairsOf(missing \cap Dynamic)
            /\ ghosts'.forfeited = saved.ghosts.forfeited \ PairsOf(missing \cap Dynamic)
      BY <1>0, <1>20 DEF LoadGame, Saves, Ghosts
    <2>2. suppressed' = saved.suppressed /\ UNCHANGED saved
      BY <1>20 DEF LoadGame
    <2>3. \A f \in Dynamic : life'[f] = "none" => f \in missing \/ saved.life[f] = "none"
      BY <2>1, FormAssumption
    <2>4. \A f \in Dynamic : life'[f] = "none" => ghosts'.owed \cap PairsOf({f}) = {}
      BY <2>1, <2>3 DEF PairsOf
    <2> QED
      BY <2>1, <2>2, <2>4
  <1>21. ASSUME UNCHANGED <<suppressed, tasks, life, has, saved>>,
                ghosts'.owed = ghosts.owed, ghosts'.forfeited = ghosts.forfeited
         PROVE  SpellsInOrder'
    BY <1>1, <1>2, <1>21
  <1>22. CASE TradeStep
    <2>1. ASSUME NEW f \in Form,
                 OpenMenu(f) \/ DisplayRefused(f) \/ CaptureEquip(f) \/ SecondaryClickHeadgear(f)
          PROVE  SpellsInOrder'
      BY <1>0, <1>21, <2>1 DEF OpenMenu, DisplayRefused, CaptureEquip, SecondaryClickHeadgear,
                               Ghosts, stores, plugin, actors
    <2>2. CASE CloseMenu
      BY <1>0, <1>21, <2>2 DEF CloseMenu, Ghosts, stores, actors
    <2> QED
      BY <1>5, <1>22, <2>1, <2>2 DEF TradeStep
  <1>23. CASE PageStep
    <2>1. ASSUME NEW f \in Form, Exclude(f) \/ Include(f)
          PROVE  SpellsInOrder'
      BY <1>0, <1>21, <2>1 DEF Exclude, Include, Ghosts, plugin, actors
    <2>2. CASE ToggleMod
      BY <1>21, <2>2 DEF ToggleMod, actors
    <2> QED
      BY <1>6, <1>7, <1>23, <2>1, <2>2 DEF PageStep
  <1>24. CASE EngineStep
    BY <1>12, <1>14, <1>15, <1>16, <1>17, <1>18, <1>24 DEF EngineStep
  <1>25. CASE UNCHANGED vars
    BY <1>21, <1>25 DEF vars, stores, plugin, actors
  <1> QED
    BY <1>9, <1>19, <1>20, <1>22, <1>23, <1>24, <1>25 DEF Next, LifecycleStep

\* A spell the mod took from an actor that is still there is on record or in
\* a queued restore, but for those lost to a load or to an actor not found
\* (ActorStores!SpellsAreAccountedFor; SpellSuppressionState).
THEOREM SpellsAlwaysAccountedFor == Spec => []SpellsAreAccountedFor
  <1>1. Init => SpellsInOrder
    BY DEF Init, Kept, NoGhosts, SpellsInOrder, SpellsAreAccountedFor, OwedInOrder
  <1>2. TypeInv /\ SpellsInOrder /\ [Next]_vars => SpellsInOrder'
    BY SpellsStep, FormAssumption
  <1>3. SpellsInOrder => SpellsAreAccountedFor
    BY DEF SpellsInOrder
  <1> QED
    BY <1>1, <1>2, <1>3, TypesAlwaysCorrect, PTL DEF Spec

-----------------------------------------------------------------------------
(***************************************************************************)
(* The session of an open menu.  Unless the close of the last menu went    *)
(* unnoticed, the session variables speak of the menu that is open, so an  *)
(* actor they call enrolled was enrolled in it.                            *)
(***************************************************************************)
SessionInOrder ==
    /\ cache.seeded \in {NoForm, cache.enrolled}
    /\ ~ghosts.stale => /\ cache.enrolled \in {NoForm, menu}
                        /\ cache.enrolled \in known \cup ghosts.dropped \cup {NoForm}

\* A purge while a menu is open removes its target since it was opened.
LEMMA PurgeKeepsSession ==
    ASSUME TypeInv, SessionInOrder, NEW F \in SUBSET Form, NEW q, PurgeActors(F, q),
           ghosts'.dropped = Purged(ghosts, F).dropped, ghosts'.stale = Purged(ghosts, F).stale,
           UNCHANGED <<cache, menu>>
    PROVE  SessionInOrder'
  <1>1. ghosts \in Ghosts
    BY DEF TypeInv
  <1>2. known' = known \ F /\ ghosts'.dropped = ghosts.dropped \cup F /\ ghosts'.stale = ghosts.stale
    BY <1>1 DEF PurgeActors, Purged, Ghosts
  <1> QED
    BY <1>2 DEF SessionInOrder

\* No step lets a session take an actor for enrolled that it did not enrol.
LEMMA SessionStep ==
    ASSUME FormAssumption, TypeInv, SessionInOrder, [Next]_vars
    PROVE  SessionInOrder'
  <1> USE DEF SessionInOrder
  <1>0. /\ ghosts \in Ghosts /\ saved \in Saves
        /\ cache \in [processed : MaybeForm, admitted : BOOLEAN,
                      enrolled : MaybeForm, seeded : MaybeForm]
    BY DEF TypeInv, TypeOK
  <1>1. ASSUME UNCHANGED <<known, cache, menu>>,
               ghosts'.dropped = ghosts.dropped, ghosts'.stale = ghosts.stale
        PROVE  SessionInOrder'
    BY <1>1
  \* Outside the menus only the variables of an unnoticed session are set.
  <1>2. ASSUME menu = NoForm, menu' = menu, cache' = cache, ghosts'.stale = ghosts.stale
        PROVE  SessionInOrder'
    BY <1>2
  <1>3. CASE TradeStep
    <2>1. ASSUME NEW f \in Form, OpenMenu(f) PROVE SessionInOrder'
      <3>1. /\ menu = NoForm /\ cache' = cache /\ ghosts'.stale = ghosts.stale
        BY <1>0, <2>1 DEF OpenMenu, Ghosts, plugin
      <3> QED
        BY <3>1
    <2>2. ASSUME NEW f \in Form, DisplayAdmitted(f) PROVE SessionInOrder'
      <3>1. /\ menu = f /\ menu' = f /\ cache'.enrolled = f /\ cache'.seeded = f
            /\ ghosts'.stale = ghosts.stale /\ ghosts'.dropped = ghosts.dropped
            /\ known' = IF Enrols(f) THEN known \cup {f} ELSE known
        BY <1>0, <2>2 DEF DisplayAdmitted, Ghosts
      <3> QED
        BY <3>1, FormAssumption DEF Enrols
    <2>3. ASSUME NEW f \in Form, DisplayRefused(f) PROVE SessionInOrder'
      <3>1. /\ UNCHANGED <<known, menu>> /\ ghosts'.stale = ghosts.stale
            /\ ghosts'.dropped = ghosts.dropped
            /\ cache'.enrolled = cache.enrolled /\ cache'.seeded = cache.seeded
        BY <1>0, <2>3 DEF DisplayRefused, Ghosts, stores
      <3> QED
        BY <3>1
    <2>4. CASE CloseMenu
      <3>1. ghosts'.stale = ~modOn /\ cache' = IF modOn THEN NoCache ELSE cache
        BY <1>0, <2>4 DEF CloseMenu, Ghosts
      <3>2. modOn \in BOOLEAN
        BY DEF TypeInv, TypeOK
      <3> QED
        BY <3>1, <3>2 DEF NoCache
    <2>5. ASSUME NEW f \in Form, CaptureEquip(f) \/ SecondaryClickHeadgear(f)
          PROVE  SessionInOrder'
      BY <1>1, <2>5 DEF CaptureEquip, SecondaryClickHeadgear, plugin
    <2> QED
      BY <1>3, <2>1, <2>2, <2>3, <2>4, <2>5 DEF TradeStep
  <1>4. CASE PageStep
    <2>1. ASSUME NEW f \in Form, Exclude(f) \/ Include(f) PROVE SessionInOrder'
      BY <1>0, <1>1, <2>1 DEF Exclude, Include, Ghosts, plugin
    <2>2. ASSUME NEW f \in Form, RemoveActor(f) PROVE SessionInOrder'
      <3>1. /\ PurgeActors({f}, tasks) /\ UNCHANGED <<cache, menu>>
            /\ ghosts'.dropped = Purged(ghosts, {f}).dropped
            /\ ghosts'.stale = Purged(ghosts, {f}).stale
        BY <1>0, <2>2 DEF RemoveActor, Purged, Ghosts
      <3> QED
        BY <3>1, PurgeKeepsSession
    <2>3. ASSUME NEW f \in Form, NEW s \in Spell, ToggleSpell(f, s) PROVE SessionInOrder'
      BY <1>1, <2>3 DEF ToggleSpell
    <2>4. CASE ToggleMod
      <3>1. /\ UNCHANGED <<known, menu, ghosts>> /\ cache'.enrolled = cache.enrolled
            /\ cache'.seeded \in {NoForm, cache.seeded}
        BY <1>0, <2>4 DEF ToggleMod
      <3> QED
        BY <3>1
    <2> QED
      BY <1>4, <2>1, <2>2, <2>3, <2>4 DEF PageStep
  <1>5. CASE RunTask
    <2>1. CASE RunScanTask
      <3>1. StaleForms \in SUBSET Form
        BY DEF StaleForms, TypeInv, TypeOK
      <3> QED
        BY <2>1, <3>1, PurgeKeepsSession DEF RunScanTask
    <2>2. CASE ~RunScanTask
      BY <1>0, <1>1, <1>5, <2>2 DEF RunTask, RunBaselineTask, RunSuppressTask,
         RunUnsuppressTask, RunRestoreTask, GiveSpells, Ghosts, stores
    <2> QED
      BY <2>1, <2>2
  <1>6. ASSUME NEW f \in Form, Die(f) \/ TurnToAsh(f) \/ DeleteForm(f)
        PROVE  SessionInOrder'
    <2>1. PICK heard \in BOOLEAN, g \in Ghosts : Hears(heard, f, g) /\ g.stale = ghosts.stale
      BY <1>6, EndIsHeard
    <2>2. ghosts'.stale = ghosts.stale
      BY <2>1 DEF Hears, Purged, Ghosts
    <2> QED
      BY <1>2, <1>6, <2>2 DEF Die, TurnToAsh, DeleteForm
  <1>7. CASE EngineStep
    <2>1. ASSUME NEW f \in Form, CaptureSnapshot(f) \/ Resurrect(f) \/ Recruit(f)
          PROVE  SessionInOrder'
      BY <1>2, <2>1 DEF CaptureSnapshot, Resurrect, Recruit, plugin
    <2>2. ASSUME NEW f \in Form, FreeForm(f) \/ Spawn(f)
          PROVE  SessionInOrder'
      <3>1. ghosts'.stale = ghosts.stale
        BY <1>0, <2>2 DEF FreeForm, Spawn, Gone, Ghosts
      <3> QED
        BY <1>2, <2>2, <3>1 DEF FreeForm, Spawn, plugin
    <2>3. ASSUME NEW p, Learn(p)
          PROVE  SessionInOrder'
      <3>1. ghosts'.stale = ghosts.stale
        BY <1>0, <2>3 DEF Learn, GiveSpells, Ghosts
      <3> QED
        BY <1>2, <2>3, <3>1 DEF Learn, plugin
    <2> QED
      BY <1>6, <1>7, <2>1, <2>2, <2>3 DEF EngineStep
  <1>8. CASE SaveGame
    BY <1>1, <1>8 DEF SaveGame, stores, plugin
  <1>9. ASSUME NEW restart \in BOOLEAN, LoadGame(restart)
        PROVE  SessionInOrder'
    <2>1. /\ menu = NoForm /\ menu' = menu
          /\ cache' = IF restart THEN NoCache ELSE cache
          /\ ghosts'.stale = (ghosts.stale /\ ~restart)
      BY <1>0, <1>9 DEF LoadGame, Saves, Ghosts
    <2> QED
      BY <2>1 DEF NoCache
  <1>10. CASE UNCHANGED vars
    BY <1>1, <1>10 DEF vars, stores, plugin
  <1> QED
    BY <1>3, <1>4, <1>5, <1>7, <1>8, <1>9, <1>10 DEF Next, LifecycleStep

\* An admitted target whose menu has been drawn is managed, but for the two
\* exceptions the property names, whatever frames, clicks, tasks, switches and
\* loads come between (ActorStores!SessionEnrolsTarget; ContainerMenuOpenActions).
THEOREM SessionAlwaysEnrolsTarget == Spec => []SessionEnrolsTarget
  <1>1. Init => SessionInOrder
    BY DEF Init, NoCache, NoGhosts, SessionInOrder
  <1>2. TypeInv /\ SessionInOrder /\ [Next]_vars => SessionInOrder'
    BY SessionStep, FormAssumption
  <1>3. SessionInOrder => SessionEnrolsTarget
    BY FormAssumption DEF SessionInOrder, SessionEnrolsTarget
  <1> QED
    BY <1>1, <1>2, <1>3, TypesAlwaysCorrect, PTL DEF Spec

-----------------------------------------------------------------------------
(***************************************************************************)
(* What the tasks come to.  That the game drains its queue is fairness,    *)
(* and stays with TLC; the rest of MissingIsPurged and RestoreIsDelivered  *)
(* is proved here, as properties of the steps.                             *)
(***************************************************************************)

\* The first task runs, and nothing is put before a queued task; only the
\* restart of the game drops the queue.
TasksMoveUp ==
    LoadGame(TRUE) \/ \A k \in DOMAIN tasks :
        IF RunTask THEN k = 1 \/ (k - 1 \in DOMAIN tasks' /\ tasks'[k - 1] = tasks[k])
        ELSE k \in DOMAIN tasks' /\ tasks'[k] = tasks[k]

\* A scan that ends has purged the managed dynamic actors that are gone.
ScansEndPurged ==
    \A f \in Dynamic : f \in known /\ life[f] = "none" /\ ScanQueued
        => ScanQueued' \/ f \notin known' \/ life'[f] # "none"

\* The restore of a spell ends with the spell given back, unless its actor is
\* gone or has learned it, or the game is restarted.
RestoresEndDelivered ==
    \A p \in QueuedRestores :
        \/ p \in QueuedRestores'
        \/ p \in has' \/ life'[p[1]] = "none"
        \/ LoadGame(TRUE)

\* A purge adds one task at most, behind the others.
LEMMA PurgeAppends ==
    ASSUME TypeInv, NEW F \in SUBSET Form, NEW q, PurgeActors(F, q)
    PROVE  tasks' = q \/ \E t \in Task : tasks' = Append(q, t)
  <1> DEFINE spells == suppressed \cap PairsOf(F)
             t == [kind |-> "restore", pairs |-> spells]
  <1>1. t \in Task
    BY DEF TypeInv, TypeOK, Task
  <1>2. tasks' = q \/ tasks' = Append(q, t)
    BY DEF PurgeActors, RestoreAndEraseActor
  <1> QED
    BY <1>1, <1>2

\* A task that runs is the first, and at most one takes its place at the end.
LEMMA RunTakesFirst ==
    ASSUME TypeInv, RunTask
    PROVE  /\ tasks # <<>>
           /\ \/ tasks' = Tail(tasks)
              \/ \E t \in Task : tasks' = Append(Tail(tasks), t)
  <1>1. CASE RunScanTask
    <2>1. StaleForms \in SUBSET Form
      BY DEF StaleForms, TypeInv, TypeOK
    <2> QED
      BY <1>1, <2>1, PurgeAppends DEF RunScanTask, NextTask
  <1>2. CASE ~RunScanTask
    BY <1>2 DEF RunTask, RunBaselineTask, RunSuppressTask, RunUnsuppressTask,
                RunRestoreTask, NextTask
  <1> QED
    BY <1>1, <1>2

\* Every other step adds one task at most, behind the others.
LEMMA OthersAppend ==
    ASSUME TypeInv, [Next]_vars, ~RunTask, ~LoadGame(TRUE)
    PROVE  tasks' = tasks \/ \E t \in Task : tasks' = Append(tasks, t)
  <1>1. ASSUME NEW f \in Form, PurgeActors({f}, tasks)
        PROVE  tasks' = tasks \/ \E t \in Task : tasks' = Append(tasks, t)
    BY <1>1, PurgeAppends
  <1>2. ASSUME NEW f \in Form, DisplayAdmitted(f)
        PROVE  tasks' = tasks \/ \E t \in Task : tasks' = Append(tasks, t)
    <2>1. [kind |-> "baseline", form |-> f] \in Task
      BY DEF Task
    <2> QED
      BY <1>2, <2>1 DEF DisplayAdmitted
  <1>3. ASSUME NEW f \in Form, NEW s \in Spell, ToggleSpell(f, s)
        PROVE  \E t \in Task : tasks' = Append(tasks, t)
    <2>1. [kind |-> IF <<f, s>> \in has THEN "suppress" ELSE "unsuppress",
           pair |-> <<f, s>>] \in Task
      BY DEF Task, Pair
    <2> QED
      BY <1>3, <2>1 DEF ToggleSpell
  <1>4. CASE LoadGame(FALSE)
    <2>1. [kind |-> "scan"] \in Task
      BY DEF Task
    <2> QED
      BY <1>4, <2>1 DEF LoadGame
  <1>5. CASE TradeStep
    BY <1>2, <1>5 DEF TradeStep, CloseMenu, OpenMenu, DisplayRefused, CaptureEquip,
                      SecondaryClickHeadgear, plugin
  <1>6. CASE PageStep
    BY <1>1, <1>3, <1>6 DEF PageStep, ToggleMod, Exclude, Include, RemoveActor, plugin
  <1>7. CASE EngineStep
    BY <1>1, <1>7
    DEF EngineStep, Die, TurnToAsh, DeleteForm, Hears, CaptureSnapshot, FreeForm, Spawn,
        Resurrect, Recruit, Learn, plugin
  <1>8. CASE SaveGame
    BY <1>8 DEF SaveGame, plugin
  <1> QED
    BY <1>4, <1>5, <1>6, <1>7, <1>8 DEF Next, LifecycleStep, vars, plugin

\* What is appended leaves the tasks before it where they are.
LEMMA AppendKeeps ==
    ASSUME NEW q \in Seq(Task), NEW r, r = q \/ \E t \in Task : r = Append(q, t),
           NEW k \in DOMAIN q
    PROVE  k \in DOMAIN r /\ r[k] = q[k]
  <1>1. ASSUME NEW t \in Task
        PROVE  k \in DOMAIN Append(q, t) /\ Append(q, t)[k] = q[k]
    OBVIOUS
  <1> QED
    BY <1>1

LEMMA StepMovesUp ==
    ASSUME TypeInv, [Next]_vars
    PROVE  TasksMoveUp
  <1> SUFFICES ASSUME ~LoadGame(TRUE), NEW k \in DOMAIN tasks
               PROVE  IF RunTask
                      THEN k = 1 \/ (k - 1 \in DOMAIN tasks' /\ tasks'[k - 1] = tasks[k])
                      ELSE k \in DOMAIN tasks' /\ tasks'[k] = tasks[k]
    BY DEF TasksMoveUp
  <1>1. tasks \in Seq(Task)
    BY DEF TypeInv, TypeOK
  <1>2. CASE ~RunTask
    BY <1>1, <1>2, OthersAppend, AppendKeeps
  <1>3. ASSUME RunTask, k # 1
        PROVE  k - 1 \in DOMAIN tasks' /\ tasks'[k - 1] = tasks[k]
    <2>1. tasks # <<>> /\ Tail(tasks) \in Seq(Task)
      BY <1>1, <1>3, RunTakesFirst
    <2>2. k \in 2..Len(tasks)
      BY <1>1, <1>3
    <2>3. k - 1 \in DOMAIN Tail(tasks) /\ Tail(tasks)[k - 1] = tasks[k]
      BY <1>1, <2>1, <2>2
    <2> QED
      BY <1>3, <2>1, <2>3, RunTakesFirst, AppendKeeps
  <1> QED
    BY <1>2, <1>3

\* Every task moves up until it runs, whatever is clicked, dies or is loaded
\* (TasksMoveUp; SKSE's task interface, from which the stores' tasks run).
THEOREM StoreTasksAlwaysMoveUp == Spec => [][TasksMoveUp]_vars
  <1>1. TypeInv /\ [Next]_vars => TasksMoveUp
    BY StepMovesUp
  <1> QED
    BY <1>1, TypesAlwaysCorrect, PTL DEF Spec

\* The scan that a load queues is there until it has purged every managed
\* dynamic actor that the load did not bring back (PostLoadStateScan::Run).
THEOREM ScansAlwaysEndPurged == Spec => [][ScansEndPurged]_vars
  <1>1. ASSUME TypeInv, [Next]_vars
        PROVE  ScansEndPurged
    <2>1. ~RunScanTask /\ ScanQueued => ScanQueued'
      BY <1>1, ScanStays
    <2>2. CASE RunScanTask
      <3>1. known' = known \ StaleForms
        BY <2>2 DEF RunScanTask, PurgeActors
      <3> QED
        BY <3>1 DEF ScansEndPurged, StaleForms
    <2> QED
      BY <2>1, <2>2 DEF ScansEndPurged
  <1> QED
    BY <1>1, TypesAlwaysCorrect, PTL DEF Spec

\* The restore of a spell that is queued when its actor is purged is not lost
\* on the way, whatever is queued with it (SpellSuppressionState).
THEOREM RestoresAlwaysEndDelivered == Spec => [][RestoresEndDelivered]_vars
  <1>1. ASSUME TypeInv, TypeInv', [Next]_vars
        PROVE  RestoresEndDelivered
    <2> SUFFICES ASSUME ~LoadGame(TRUE), NEW p \in QueuedRestores
                 PROVE  p \in QueuedRestores' \/ p \in has' \/ life'[p[1]] = "none"
      BY DEF RestoresEndDelivered
    <2>1. PICK k \in DOMAIN tasks : tasks[k].kind = "restore" /\ p \in tasks[k].pairs
      BY DEF QueuedRestores
    <2>2. TasksMoveUp
      BY <1>1, StepMovesUp
    <2>3. ASSUME NEW j \in DOMAIN tasks', tasks'[j] = tasks[k]
          PROVE  p \in QueuedRestores'
      BY <2>1, <2>3, RestoreIsQueued DEF QueuedRestores, QueuedIn
    <2>4. CASE RunTask /\ k = 1
      <3>1. Head(tasks) = tasks[k] /\ tasks # <<>>
        BY <1>1, <2>1, <2>4 DEF TypeInv, TypeOK
      <3>2. RunRestoreTask
        BY <2>1, <2>4, <3>1 DEF RunTask, RunBaselineTask, RunSuppressTask,
                                RunUnsuppressTask, RunScanTask, NextTask
      <3>3. has' = has \cup Found(tasks[k].pairs) /\ life' = life
        BY <3>1, <3>2 DEF RunRestoreTask
      <3> QED
        BY <2>1, <3>3 DEF Found
    <2> QED
      BY <2>2, <2>3, <2>4 DEF TasksMoveUp
  <1> QED
    BY <1>1, TypesAlwaysCorrect, PTL DEF Spec
=============================================================================
