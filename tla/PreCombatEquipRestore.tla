----------------------- MODULE PreCombatEquipRestore -----------------------
(***************************************************************************)
(* Pre-combat equip restore: the weapons, shield and ammo a follower has   *)
(* when a fight begins are captured, put on again on a later frame when it *)
(* ends, and reconciled on a few frames more.                              *)
(*                                                                         *)
(* Events and tasks are one step each.  The tasks queued so far run        *)
(* together on the next frame, and what they queue runs on the one after;  *)
(* fights, menus and the lifecycle go on between frames.                   *)
(***************************************************************************)
EXTENDS HandItems, Sequences

CONSTANTS
    Actor,          \* actors that can become followers
    MaxTasks,       \* bound: tasks queued when a fight ends
    RestoreTries,   \* restoreTriesRemaining of an exit (5 in the code)
    ReconcileTries  \* a_triesRemaining after a restore (3 in the code)

ASSUME TriesAssumption ==
    RestoreTries \in Nat \ {0} /\ ReconcileTries \in Nat \ {0} /\ MaxTasks \in Nat

VARIABLES
    entry,      \* g_actorSnapshots, with NoEntry for an actor that has none
    tasks,      \* the SKSE task queue, as far as this feature's tasks go
    frame,      \* the number of them that is left to run on this frame
    saved,      \* the records of the co-save, and what it says of the fight
    installed,  \* the combat event sink is registered
    enabled,    \* enableRestorePreCombatOnExit
    menuOpen,   \* IsContainerMenuOpen
    fight,      \* combat state of each actor
    worn,       \* what each actor has in its hands and ammo slot
    inv,        \* copies of each item each actor carries
    follower,   \* actors in scope, IsAffectedFollower
    before,     \* history: what each actor wore when its last fight began
    heard,      \* history: actors in a fight of which the sink was told something
    lost,       \* history: actors of whose fight the sink was told something, but
                \* not its end
    unseen,     \* history: actors whose last fight began with the feature not
                \* there to see it, or with the actor lost
    calm        \* history: the last restore, if it came in its turn (InTurn) and
                \* drove out no weapon it was to spare, while nothing else came after

feature == <<entry, tasks, frame, saved, installed, enabled>>
world == <<menuOpen, fight, worn, inv, follower>>
hearing == <<heard, lost, unseen>>
history == <<before, hearing, calm>>
vars == <<feature, world, history>>

CombatState == {"none", "combat", "searching"}

NoEntry == [lastState |-> "none", snap |-> EmptyHands, have |-> FALSE,
            restorePending |-> FALSE, tries |-> 0]

Entry == [lastState : CombatState, snap : Hands, have : BOOLEAN,
          restorePending : BOOLEAN, tries : 0..RestoreTries]

RestoreTask(a) == [kind |-> "restore", actor |-> a]
ReconcileTask(a, want, n) == [kind |-> "reconcile", actor |-> a, want |-> want, tries |-> n]
Task == [kind : {"restore"}, actor : Actor]
          \cup [kind : {"reconcile"}, actor : Actor, want : Hands, tries : 0..ReconcileTries]

Saved == [have : BOOLEAN, snap : Hands, fight : CombatState, before : Hands, unseen : BOOLEAN]

TypeOK ==
    /\ entry \in [Actor -> Entry]
    /\ \A k \in DOMAIN tasks : tasks[k] \in Task
    /\ frame \in 0..Len(tasks)
    /\ saved \in [Actor -> Saved]
    /\ installed \in BOOLEAN /\ enabled \in BOOLEAN /\ menuOpen \in BOOLEAN
    /\ fight \in [Actor -> CombatState]
    /\ worn \in [Actor -> Hands]
    /\ inv \in [Actor -> [Item -> Nat]]
    /\ {follower, heard, lost, unseen} \subseteq SUBSET Actor
    /\ before \in [Actor -> Hands]
    /\ calm \in [Actor -> SUBSET Hands]
    /\ \A a \in Actor, slot \in {"right", "left"} : ~IsBound(entry[a].snap[slot])

NothingSaved == [have |-> FALSE, snap |-> EmptyHands, fight |-> "none",
                 before |-> EmptyHands, unseen |-> FALSE]

Init ==
    /\ entry = [a \in Actor |-> NoEntry]
    /\ tasks = <<>> /\ frame = 0
    /\ saved = [a \in Actor |-> NothingSaved]
    /\ installed = TRUE /\ enabled = TRUE /\ menuOpen = FALSE
    /\ fight = [a \in Actor |-> "none"]
    /\ worn = [a \in Actor |-> EmptyHands]
    /\ inv = [a \in Actor |-> [i \in Item |-> 1]]
    /\ follower = Actor
    /\ before = [a \in Actor |-> EmptyHands]
    /\ heard = {} /\ lost = {} /\ unseen = {}
    /\ calm = [a \in Actor |-> {}]

----------------------------------------------------------------------------
(* What is captured, and how it is put on again.                           *)

IsSnapshotWeapon(i) == OfKind(i, "oneHand") \/ OfKind(i, "twoHand")
IsWeapon(i) == IsSnapshotWeapon(i) \/ IsBound(i)

(* CaptureSnapshot: bound weapons, torches and the rest count as empty.    *)
Capture(w) ==
    [right |-> IF IsSnapshotWeapon(w.right) THEN w.right ELSE NoItem,
     left |-> IF IsSnapshotWeapon(w.left) \/ IsShield(w.left) THEN w.left ELSE NoItem,
     ammo |-> w.ammo]

(* EquipBestEffort: an item that is gone changes nothing.                  *)
EquipIfCarried(w, want, slot, stock) ==
    IF w[slot] = want \/ stock[want] = 0 THEN w ELSE EngineEquip(w, want, slot, stock[want])

(* An empty hand is emptied of a weapon or shield, not of anything else.   *)
ClearSlot(w, slot) ==
    IF w[slot] # NoItem /\ (IsWeapon(w[slot]) \/ IsShield(w[slot]) \/ slot = "ammo")
    THEN EngineUnequip(w, slot) ELSE w

(* Deviation: an empty hand of the snapshot is left as it is.              *)
RestoreSlotKeeps(w, slot, want, stock) ==
    IF want = NoItem \/ (IsBound(w[slot]) /\ ~IsShield(want)) THEN w
    ELSE EquipIfCarried(w, want, slot, stock)

(* RestoreActorNow.  A bound weapon keeps its hand, except that a shield   *)
(* is put on over it.                                                      *)
RestoreSlot(w, slot, want, stock) ==
    IF IsBound(w[slot]) /\ ~IsShield(want) THEN w
    ELSE IF want = NoItem THEN ClearSlot(w, slot) ELSE EquipIfCarried(w, want, slot, stock)

(* TryReconcilePostRestore: a bound weapon keeps its hand, and in the left *)
(* one a weapon makes room for a shield, or a shield for a weapon, first.  *)
ReconcileSlot(w, slot, want, stock) ==
    IF IsBound(w[slot]) THEN w
    ELSE IF want = NoItem THEN ClearSlot(w, slot)
    ELSE IF slot = "left" /\ (\/ IsWeapon(w.left) /\ IsShield(want)
                              \/ IsShield(w.left) /\ IsWeapon(want))
    THEN EquipIfCarried(ClearSlot(w, slot), want, slot, stock)
    ELSE EquipIfCarried(w, want, slot, stock)

Restored(w, s, stock) ==
    RestoreSlot(RestoreSlot(RestoreSlot(w, "right", s.right, stock), "left", s.left, stock),
                "ammo", s.ammo, stock)

(* A shield put on over a conjured weapon that fills both hands drives it  *)
(* out of the right one too, whose own item was not put on for its sake.   *)
ShieldOverConjured(w, s) == IsShield(s.left) /\ IsBound(w.left) /\ IsTwoHandedItem(w.left)

Reconciled(w, s, stock) ==
    ReconcileSlot(ReconcileSlot(ReconcileSlot(w, "right", s.right, stock), "left", s.left, stock),
                  "ammo", s.ammo, stock)

(* The mismatch flag of a reconcile: a wanted item that is missing counts. *)
SlotDiffers(w, slot, want) ==
    /\ ~IsBound(w[slot])
    /\ IF want = NoItem THEN ClearSlot(w, slot) # w ELSE w[slot] # want

Mismatch(w, s, stock) ==
    LET w1 == ReconcileSlot(w, "right", s.right, stock)
        w2 == ReconcileSlot(w1, "left", s.left, stock)
    IN SlotDiffers(w, "right", s.right) \/ SlotDiffers(w1, "left", s.left)
         \/ SlotDiffers(w2, "ammo", s.ammo)

----------------------------------------------------------------------------
(* History.  What the sink is told of a fight, and what it misses: an end  *)
(* that it is not told of leaves it in a fight that is over.               *)
Hears(a, seen, next) ==
    LET begins == fight[a] = "none"
        ends == next = "none"
    IN /\ heard' = IF ends THEN heard \ {a} ELSE IF seen THEN heard \cup {a} ELSE heard
       /\ lost' = CASE ends /\ seen -> lost \ {a}
                    [] ends /\ ~seen /\ a \in heard -> lost \cup {a}
                    [] OTHER -> lost
       /\ IF begins
          THEN /\ before' = [before EXCEPT ![a] = worn[a]]
               /\ unseen' = IF seen /\ enabled /\ a \notin lost THEN unseen \ {a} ELSE unseen \cup {a}
          ELSE UNCHANGED <<before, unseen>>

(* CombatEventSink.  The snapshot is taken on the first event of a fight   *)
(* that is seen, and the restore scheduled on the last.                    *)
CombatEvent(a, next) ==
    LET prev == entry[a].lastState
        seen == installed /\ a \in follower
        entered == seen /\ enabled /\ prev = "none" /\ next # "none"
        exited == seen /\ enabled /\ prev # "none" /\ next = "none"
        watched == IF seen THEN [entry[a] EXCEPT !.lastState = next] ELSE entry[a]
    IN /\ frame = 0 /\ fight[a] # next
       /\ fight' = [fight EXCEPT ![a] = next]
       /\ exited => Len(tasks) < MaxTasks
       /\ entry' = [entry EXCEPT ![a] =
                      CASE entered -> [watched EXCEPT !.snap = Capture(worn[a]), !.have = TRUE]
                        [] exited -> [watched EXCEPT !.restorePending = TRUE, !.tries = RestoreTries]
                        [] OTHER -> watched]
       /\ tasks' = IF exited THEN Append(tasks, RestoreTask(a)) ELSE tasks
       /\ Hears(a, seen, next)
       /\ UNCHANGED <<frame, saved, installed, enabled, menuOpen, worn, inv, follower, calm>>

----------------------------------------------------------------------------
(* The tasks.                                                              *)

(* ShouldRetryRestore.                                                     *)
Busy(a) == fight[a] # "none" \/ menuOpen

MayRetry(a) == Busy(a) /\ entry[a].tries > 0

(* Deviation: a reconcile that finds something to do keeps its tries.      *)
TriesKept(n) == n

TriesAfter(n) == n - 1

(* Deviation: a restore relies on a reconcile that is queued already.      *)
ReconcileUnlessQueued(a, s) ==
    IF \E k \in DOMAIN tasks : tasks[k].kind = "reconcile" /\ tasks[k].actor = a
    THEN <<>> ELSE <<ReconcileTask(a, s, ReconcileTries)>>

FirstReconcile(a, s) == <<ReconcileTask(a, s, ReconcileTries)>>

(* History: the reconciles of older restores that are queued behind this   *)
(* one.  A restore has its turn when at most one is left, and that one has *)
(* run on this frame already.                                              *)
OlderChains(a) == {k \in 2..Len(tasks) : tasks[k].kind = "reconcile" /\ tasks[k].actor = a}

InTurn(a) == \A j, k \in OlderChains(a) : j = k /\ k > frame

(* RestoreActorNow: put off while the actor is busy and tries are left,    *)
(* dropped in a fight, carried out in a menu when they have run out.       *)
RunRestoreTask(a) ==
    LET e == entry[a]
        live == enabled /\ a \in follower /\ e.restorePending /\ e.have
        retry == live /\ MayRetry(a)
        restore == live /\ ~retry /\ fight[a] = "none"
    IN /\ Head(tasks) = RestoreTask(a)
       /\ entry' = [entry EXCEPT ![a] =
                      IF retry THEN [e EXCEPT !.tries = @ - 1]
                      ELSE IF live THEN [e EXCEPT !.restorePending = FALSE, !.tries = 0]
                      ELSE e]
       /\ tasks' = Tail(tasks) \o
                     (CASE retry -> <<RestoreTask(a)>>
                        [] restore -> FirstReconcile(a, e.snap)
                        [] OTHER -> <<>>)
       /\ IF restore
          THEN /\ worn' = [worn EXCEPT ![a] = Restored(@, e.snap, inv[a])]
               /\ calm' = [calm EXCEPT ![a] =
                             IF InTurn(a) /\ ~ShieldOverConjured(worn[a], e.snap) THEN {e.snap} ELSE {}]
          ELSE UNCHANGED <<worn, calm>>
       /\ UNCHANGED <<saved, installed, enabled, menuOpen, fight, inv, follower, before, hearing>>

(* TryReconcilePostRestore works from its own copy of the snapshot.        *)
RunReconcileTask(a) ==
    LET t == Head(tasks)
        live == enabled /\ a \in follower
        apply == live /\ ~Busy(a)
        again == /\ live /\ t.tries > 0
                 /\ Busy(a) \/ Mismatch(worn[a], t.want, inv[a])
    IN /\ t.kind = "reconcile" /\ t.actor = a
       /\ tasks' = Tail(tasks) \o
                     (IF again THEN <<ReconcileTask(a, t.want, TriesAfter(t.tries))>> ELSE <<>>)
       /\ worn' = IF apply THEN [worn EXCEPT ![a] = Reconciled(@, t.want, inv[a])] ELSE worn
       /\ UNCHANGED <<entry, saved, installed, enabled, menuOpen, fight, inv, follower, history>>

RunTask ==
    /\ frame > 0 /\ frame' = frame - 1
    /\ \E a \in Actor : RunRestoreTask(a) \/ RunReconcileTask(a)

StartFrame ==
    /\ frame = 0 /\ tasks # <<>>
    /\ frame' = Len(tasks)
    /\ UNCHANGED <<entry, tasks, saved, installed, enabled, world, history>>

----------------------------------------------------------------------------
(* The game, as far as it disturbs the feature.                            *)

(* The AI, the player or another feature changes what the actor wears.     *)
ChangeGear(a, w) ==
    /\ worn' = [worn EXCEPT ![a] = w]
    /\ calm' = [calm EXCEPT ![a] = {}]
    /\ UNCHANGED <<feature, menuOpen, fight, inv, follower, before, hearing>>

GainItem(a, i) ==
    /\ inv[a][i] = 0
    /\ inv' = [inv EXCEPT ![a][i] = 1]
    /\ calm' = [calm EXCEPT ![a] = {}]
    /\ UNCHANGED <<feature, menuOpen, fight, worn, follower, before, hearing>>

LoseItem(a, i) ==
    /\ inv[a][i] > 0
    /\ inv' = [inv EXCEPT ![a][i] = @ - 1]
    /\ worn' \in {[worn EXCEPT ![a] = w] : w \in {w \in AiOutcomes(worn[a], inv[a]) :
                                                    WearableWith(w, inv'[a])}}
    /\ calm' = [calm EXCEPT ![a] = {}]
    /\ UNCHANGED <<feature, menuOpen, fight, follower, before, hearing>>

ToggleMenu ==
    /\ frame = 0
    /\ menuOpen' = ~menuOpen
    /\ UNCHANGED <<feature, fight, worn, inv, follower, history>>

(* An actor joins or leaves; what happens meanwhile is not seen.           *)
ToggleFollower(a) ==
    /\ follower' = IF a \in follower THEN follower \ {a} ELSE follower \cup {a}
    /\ calm' = [calm EXCEPT ![a] = {}]
    /\ UNCHANGED <<feature, menuOpen, fight, worn, inv, before, hearing>>

ToggleSetting ==
    /\ enabled' = ~enabled
    /\ calm' = [a \in Actor |-> {}]
    /\ UNCHANGED <<entry, tasks, frame, saved, installed, world, before, hearing>>

----------------------------------------------------------------------------
(* Lifecycle.  Queued tasks stay queued through all of it.                 *)

EraseActor(a) ==
    /\ entry' = [entry EXCEPT ![a] = NoEntry]
    /\ heard' = heard \ {a} /\ lost' = lost \ {a} /\ unseen' = unseen \cup {a}
    /\ UNCHANGED <<tasks, frame, saved, installed, enabled, world, before, calm>>

Uninstall ==
    /\ frame = 0 /\ installed
    /\ installed' = FALSE
    /\ entry' = [a \in Actor |-> NoEntry]
    /\ heard' = {} /\ lost' = {} /\ unseen' = Actor
    /\ UNCHANGED <<tasks, frame, saved, enabled, world, before, calm>>

Install ==
    /\ frame = 0 /\ ~installed
    /\ installed' = TRUE
    /\ UNCHANGED <<entry, tasks, frame, saved, enabled, world, history>>

(* SnapshotEntries: the actors with a snapshot.                            *)
SaveGame ==
    /\ frame = 0
    /\ saved' = [a \in Actor |->
                   [have |-> entry[a].have,
                    snap |-> IF entry[a].have THEN entry[a].snap ELSE EmptyHands,
                    fight |-> fight[a], before |-> before[a], unseen |-> a \in unseen]]
    /\ UNCHANGED <<entry, tasks, frame, installed, enabled, world, history>>

(* Deviation: the fight an actor is loaded into is not seeded.             *)
LoadedEntryUnseeded(have, snap, inFight) ==
    IF ~have THEN NoEntry ELSE [NoEntry EXCEPT !.snap = snap, !.have = TRUE]

(* SetLoadedEntry seeds the last state of an actor loaded into its fight.  *)
LoadedEntry(have, snap, inFight) ==
    IF ~have THEN NoEntry
    ELSE [NoEntry EXCEPT !.snap = snap, !.have = TRUE,
                         !.lastState = IF inFight THEN "combat" ELSE "none"]

(* ClearSnapshots on OnRevert, then the saved entries; the saved fight     *)
(* goes on.                                                                *)
LoadGame(stock) ==
    /\ frame = 0
    /\ entry' = [a \in Actor |-> LoadedEntry(saved[a].have, saved[a].snap, saved[a].fight # "none")]
    /\ fight' = [a \in Actor |-> saved[a].fight]
    /\ before' = [a \in Actor |-> saved[a].before]
    /\ heard' = {a \in Actor : saved[a].have /\ saved[a].fight # "none"} /\ lost' = {}
    /\ unseen' = {a \in Actor : saved[a].unseen \/ ~saved[a].have}
    /\ worn' = [a \in Actor |-> EmptyHands]
    /\ inv' = stock
    /\ calm' = [a \in Actor |-> {}]
    /\ menuOpen' = FALSE /\ follower' = Actor
    /\ UNCHANGED <<tasks, frame, saved, installed, enabled>>

----------------------------------------------------------------------------
CombatStep == \E a \in Actor, next \in CombatState : CombatEvent(a, next)

GearStep ==
    \/ \E a \in Actor : \E w \in AiOutcomes(worn[a], inv[a]) : ChangeGear(a, w)
    \/ \E a \in Actor, i \in Item : GainItem(a, i) \/ LoseItem(a, i)
    \/ ToggleMenu

LifecycleStep ==
    \/ ToggleSetting \/ Uninstall \/ Install \/ SaveGame
    \/ \E a \in Actor : ToggleFollower(a) \/ EraseActor(a)
    \/ \E stock \in [Actor -> [Item -> 0..1]] : LoadGame(stock)

FrameStep == StartFrame \/ RunTask

Next == CombatStep \/ FrameStep \/ GearStep \/ LifecycleStep

Spec == Init /\ [][Next]_vars

(* Frames go on, and SKSE runs the queued tasks on each.                   *)
FairSpec == Spec /\ WF_vars(FrameStep)

----------------------------------------------------------------------------
(* A restore that is going to happen puts on what the follower wore when   *)
(* this fight began, not when an older one or a part of it did, unless     *)
(* that fight is one of two kinds.  The feature was not there to see it    *)
(* begin: setting off, mod off, follower out of scope, entry erased since. *)
(* Or the follower had left the scope in an earlier fight and that one     *)
(* ended out of its hearing: the sink, which still takes the follower for  *)
(* fighting, captures nothing on the first event of the next fight, and    *)
(* what it restores at the end is the older snapshot.  A save in the       *)
(* middle of a fight and a load keep it so (SetLoadedEntry seeds lastState *)
(* for this).                                                              *)
PendingRestoreIsFromThisFight ==
    \A a \in Actor :
        entry[a].restorePending /\ entry[a].have /\ a \notin unseen =>
            entry[a].snap = Capture(before[a])

(* The actor carries every item the snapshot names, as often as it does.   *)
Carried(s, stock) ==
    \A slot \in Slots : s[slot] # NoItem => stock[s[slot]] > 0 /\ stock[s[slot]] >= Copies(s, s[slot])

(* After a restore with everything still carried, the reconcile frames     *)
(* find nothing to do: the two routines agree on what the hands should be, *)
(* so they cannot undo each other's work.  They do not agree on a conjured *)
(* weapon that fills both hands, which only the restore covers with a      *)
(* shield: there the first reconcile puts on the item of the right hand,   *)
(* touches nothing else, and is quiet after that.                          *)
ReconcileIsQuiet ==
    \A a \in Actor :
        LET s == entry[a].snap
            w == Restored(worn[a], s, inv[a])
            x == Reconciled(w, s, inv[a])
        IN Carried(s, inv[a]) =>
              /\ x = IF ShieldOverConjured(worn[a], s) THEN [w EXCEPT !.right = s.right] ELSE w
              /\ Reconciled(x, s, inv[a]) = x /\ ~Mismatch(x, s, inv[a])

(* The chains of two restores can overlap, and each puts on its own copy   *)
(* of the snapshot; the last restore wins all the same, when it came in    *)
(* its turn, put no shield over a conjured weapon that filled both hands,  *)
(* and the actor still carries what it puts on.  Out of turn the older one *)
(* can win: a restore put off in a menu can get ahead of the reconciles of *)
(* an older one, and nothing cancels those.  And the right hand that such  *)
(* a shield empties stays empty when a menu is open on all the reconcile   *)
(* frames.                                                                 *)
LastRestoreWins ==
    \A a \in Actor :
        tasks = <<>> => \A s \in calm[a] :
                            Carried(s, inv[a]) => Reconciled(worn[a], s, inv[a]) = worn[a]

(* Retries end: in a follower at peace, with the menu open or not and the  *)
(* gear disturbed or not, every chain of tasks comes to an end.            *)
ChainsEnd ==
    \A a \in Actor :
        <>[](fight[a] = "none") => []<>(\A k \in DOMAIN tasks : tasks[k].actor # a)
============================================================================
