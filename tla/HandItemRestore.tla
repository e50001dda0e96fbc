-------------------------- MODULE HandItemRestore --------------------------
(***************************************************************************)
(* Hand-item restore: the player's choice of right hand, left hand and     *)
(* ammo is recorded per follower while the trade menu is open, and applied *)
(* again after the game has disturbed the follower's hands.                *)
(*                                                                         *)
(* Every handler is one step here: the module is about what is recorded,   *)
(* what is applied, and that a request is served.  The interleaving of the *)
(* request protocol with other threads is ReconcileQueue's subject.        *)
(***************************************************************************)
EXTENDS HandItems, Sequences, FiniteSets

CONSTANTS
    Actor,      \* actors that can become followers
    NoActor,    \* no trade menu is open
    MaxCopies,  \* bound: copies of each item a follower carries
    MaxTasks    \* bound: SKSE tasks queued at a time

ASSUME NoActorAssumption == NoActor \notin Actor
ASSUME FiniteActors == IsFiniteSet(Actor)
ASSUME BoundAssumption == MaxCopies \in [Item -> Nat \ {0}] /\ MaxTasks \in Nat

VARIABLES
    snap,       \* g_actorSnapshots; EmptyHands when the actor has no entry
    saved,      \* the HIRS record of the co-save
    pending,    \* g_pendingRefresh
    menuClose,  \* g_menuCloseRefresh
    tasks,      \* the SKSE task queue, as far as this feature's tasks go
    installed,  \* g_installed
    enabled,    \* both settings of IsEnabled are on
    menu,       \* the follower whose trade menu is open, or NoActor
    worn,       \* what each actor has in its hands and ammo slot
    inv,        \* copies of each item each actor carries
    combat,     \* actors in combat
    follower    \* living actors in scope, IsEligibleActor

feature == <<snap, saved, pending, menuClose, tasks, installed, enabled>>
world == <<menu, worn, inv, combat, follower>>
vars == <<feature, world>>

Task == [kind : {"restore", "baseline"}, actor : Actor]
RestoreTask(a) == [kind |-> "restore", actor |-> a]
BaselineTask(a) == [kind |-> "baseline", actor |-> a]

Active == installed /\ enabled
MenuOpen == menu # NoActor

TypeOK ==
    /\ snap \in [Actor -> Snapshot]
    /\ saved \in [Actor -> Snapshot]
    /\ pending \subseteq Actor
    /\ menuClose \subseteq Actor
    /\ tasks \in Seq(Task)
    /\ installed \in BOOLEAN
    /\ enabled \in BOOLEAN
    /\ menu \in Actor \cup {NoActor}
    /\ worn \in [Actor -> Hands]
    /\ inv \in [Actor -> [Item -> Nat]] /\ \A a \in Actor, i \in Item : inv[a][i] <= MaxCopies[i]
    /\ combat \subseteq Actor
    /\ follower \subseteq Actor

Init ==
    /\ snap = [a \in Actor |-> EmptyHands]
    /\ saved = [a \in Actor |-> EmptyHands]
    /\ pending = {} /\ menuClose = {} /\ tasks = <<>>
    /\ installed = TRUE /\ enabled = TRUE
    /\ menu = NoActor
    /\ worn = [a \in Actor |-> EmptyHands]
    /\ inv = [a \in Actor |-> [i \in Item |-> 1]]
    /\ combat = {} /\ follower = Actor

----------------------------------------------------------------------------
(* Requests.                                                               *)

HasRoom(n) == Len(tasks) + n <= MaxTasks

(* Deviation: a task that is already queued is taken for this actor's.     *)
QueueOneTask(a) ==
    /\ pending' = pending \cup {a}
    /\ tasks' = IF tasks = <<>> THEN Append(tasks, RestoreTask(a)) ELSE tasks

(* QueuePendingRestore: one task per pending actor, duplicates are merged. *)
QueuePendingRestore(a) ==
    IF a \in pending THEN UNCHANGED <<pending, tasks>>
    ELSE pending' = pending \cup {a} /\ tasks' = Append(tasks, RestoreTask(a))

(* RequestReconcile, which drops the request while the menu is open.       *)
RequestReconcile(a) ==
    IF Active /\ a \in follower /\ ~MenuOpen
    THEN QueuePendingRestore(a)
    ELSE UNCHANGED <<pending, tasks>>

(* RequestReconcileAfterMenuClose, which parks it until the menu closes.   *)
RequestReconcileAfterMenuClose(a) ==
    IF ~Active \/ a \notin follower THEN UNCHANGED <<pending, menuClose, tasks>>
    ELSE IF MenuOpen
    THEN menuClose' = menuClose \cup {a} /\ UNCHANGED <<pending, tasks>>
    ELSE QueuePendingRestore(a) /\ UNCHANGED menuClose

----------------------------------------------------------------------------
(* The trade menu.                                                         *)

(* Showing the menu queues the baseline capture of the follower.           *)
OpenMenu(a) ==
    /\ ~MenuOpen /\ a \in follower /\ HasRoom(1)
    /\ menu' = a
    /\ tasks' = IF installed THEN Append(tasks, BaselineTask(a)) ELSE tasks
    /\ UNCHANGED <<snap, saved, pending, menuClose, installed, enabled,
                   worn, inv, combat, follower>>

(* The close event runs FlushMenuCloseRefreshes: the parked requests are   *)
(* taken in the order of a hash set, so in any order.                      *)
CloseMenu ==
    /\ MenuOpen
    /\ menu' = NoActor
    /\ menuClose' = IF installed THEN {} ELSE menuClose
    /\ LET new == IF Active THEN menuClose \ pending ELSE {}
       IN /\ HasRoom(Cardinality(new))
          /\ pending' = pending \cup new
          /\ \E q \in [1..Cardinality(new) -> new] :
                /\ {q[k] : k \in 1..Cardinality(new)} = new
                /\ tasks' = tasks \o [k \in 1..Cardinality(new) |-> RestoreTask(q[k])]
    /\ UNCHANGED <<snap, saved, installed, enabled, worn, inv, combat, follower>>

(* The player equips an item on the follower.  A single copy in the other  *)
(* hand is taken off first, and both halves of the move are captured.      *)
UserEquip(a, i, hand) ==
    LET moved == hand # "ammo" /\ ~IsTwoHandedItem(i)
                   /\ worn[a][OtherHand(hand)] = i /\ inv[a][i] = 1
        before == IF moved THEN CaptureUnequip(snap[a], i, hand # "left") ELSE snap[a]
    IN /\ installed /\ menu = a /\ a \in follower
       /\ inv[a][i] > 0 /\ FitsSlot(i, hand) /\ ~IsBound(i) /\ worn[a][hand] # i
       /\ snap' = IF Active THEN [snap EXCEPT ![a] = CaptureEquip(before, i, hand = "left")]
                  ELSE snap
       /\ worn' = [worn EXCEPT ![a] = EngineEquip(@, i, hand, inv[a][i])]
       /\ UNCHANGED <<saved, pending, menuClose, tasks, installed, enabled,
                      menu, inv, combat, follower>>

UserUnequip(a, hand) ==
    LET i == worn[a][hand]
    IN /\ installed /\ menu = a /\ a \in follower
       /\ i # NoItem /\ FitsSlot(i, hand)
       /\ snap' = IF Active THEN [snap EXCEPT ![a] = CaptureUnequip(@, i, hand = "left")]
                  ELSE snap
       /\ worn' = [worn EXCEPT ![a] = EngineUnequip(@, hand)]
       /\ UNCHANGED <<saved, pending, menuClose, tasks, installed, enabled,
                      menu, inv, combat, follower>>

----------------------------------------------------------------------------
(* The task queue.                                                         *)

RunRestoreTask(a) ==
    /\ Head(tasks) = RestoreTask(a)
    /\ tasks' = Tail(tasks)
    /\ pending' = pending \ {a}
    /\ menuClose' = IF Active /\ a \in follower /\ MenuOpen
                    THEN menuClose \cup {a} ELSE menuClose
    /\ worn' = IF /\ Active /\ a \in follower /\ ~MenuOpen
                  /\ a \in pending /\ a \notin combat /\ snap[a] # EmptyHands
               THEN [worn EXCEPT ![a] = RestoreSnapshot(@, snap[a], inv[a])]
               ELSE worn
    /\ UNCHANGED <<snap, saved, installed, enabled, menu, inv, combat, follower>>

RunBaselineTask(a) ==
    /\ Head(tasks) = BaselineTask(a)
    /\ tasks' = Tail(tasks)
    /\ snap' = IF Active /\ a \in follower /\ snap[a] = EmptyHands
               THEN [snap EXCEPT ![a] = Baseline(worn[a])] ELSE snap
    /\ UNCHANGED <<saved, pending, menuClose, installed, enabled, world>>

RunTask == tasks # <<>> /\ \E a \in Actor : RunRestoreTask(a) \/ RunBaselineTask(a)

----------------------------------------------------------------------------
(* The game, as far as it disturbs the hands.                              *)

(* An attempt of something other than this mod goes through the gate,      *)
(* which then asks for a reconcile unless the actor fights or has weapons  *)
(* drawn.                                                                  *)
AiHandAttempt(a, w, drawn) ==
    /\ ~MenuOpen /\ HasRoom(1)
    /\ worn' = [worn EXCEPT ![a] = w]
    /\ IF drawn \/ a \in combat THEN UNCHANGED <<pending, tasks>> ELSE RequestReconcile(a)
    /\ UNCHANGED <<snap, saved, menuClose, installed, enabled, menu, inv, combat, follower>>

(* UpdateNPCOutfit strips or changes what the actor wears, in the menu or  *)
(* out of it, and always asks for a reconcile.                             *)
OutfitUpdate(a, w) ==
    /\ HasRoom(1)
    /\ worn' = [worn EXCEPT ![a] = w]
    /\ RequestReconcileAfterMenuClose(a)
    /\ UNCHANGED <<snap, saved, installed, enabled, menu, inv, combat, follower>>

GainItem(a, i) ==
    /\ inv[a][i] < MaxCopies[i]
    /\ inv' = [inv EXCEPT ![a][i] = @ + 1]
    /\ UNCHANGED <<feature, menu, worn, combat, follower>>

(* A copy is given back, dropped or used up; a worn copy leaves the hand.  *)
LoseItem(a, i) ==
    /\ inv[a][i] > 0
    /\ inv' = [inv EXCEPT ![a][i] = @ - 1]
    /\ worn' \in {[worn EXCEPT ![a] = w] :
                   w \in {w \in {worn[a]} \cup {EngineUnequip(worn[a], h) : h \in Slots} :
                            /\ WearableWith(w, inv'[a])
                            /\ w # worn[a] => ~WearableWith(worn[a], inv'[a])}}
    /\ UNCHANGED <<feature, menu, combat, follower>>

ToggleCombat(a) ==
    /\ combat' = IF a \in combat THEN combat \ {a} ELSE combat \cup {a}
    /\ UNCHANGED <<feature, menu, worn, inv, follower>>

(* A follower dies, is dismissed or excluded, or comes back.               *)
ToggleFollower(a) ==
    /\ follower' = IF a \in follower THEN follower \ {a} ELSE follower \cup {a}
    /\ UNCHANGED <<feature, menu, worn, inv, combat>>

----------------------------------------------------------------------------
(* Lifecycle.                                                              *)

(* EraseActor, from a death, a deleted form or an ash pile.                *)
EraseActor(a) ==
    /\ snap' = [snap EXCEPT ![a] = EmptyHands]
    /\ pending' = pending \ {a}
    /\ menuClose' = menuClose \ {a}
    /\ UNCHANGED <<saved, tasks, installed, enabled, world>>

(* The mod is switched off (Uninstall) and on again (Install).             *)
Uninstall ==
    /\ installed
    /\ installed' = FALSE
    /\ pending' = {} /\ menuClose' = {}
    /\ snap' = [a \in Actor |-> EmptyHands]
    /\ UNCHANGED <<saved, tasks, enabled, world>>

Install ==
    /\ ~installed
    /\ installed' = TRUE
    /\ UNCHANGED <<snap, saved, pending, menuClose, tasks, enabled, world>>

ToggleSetting ==
    /\ enabled' = ~enabled
    /\ UNCHANGED <<snap, saved, pending, menuClose, tasks, installed, world>>

(* SnapshotEntries: one record per filled slot.                            *)
SaveGame ==
    /\ saved' = snap
    /\ UNCHANGED <<snap, pending, menuClose, tasks, installed, enabled, world>>

(* OnRevert clears the snapshots and the requests but cannot unqueue a     *)
(* task; OnLoad then sets the saved entries one by one.  The saved world   *)
(* is any world.                                                           *)
LoadedSnapshot(s) ==
    LET Load(t, slot) == IF s[slot] = NoItem THEN t ELSE LoadEntry(t, slot, s[slot])
    IN Load(Load(Load(EmptyHands, "right"), "left"), "ammo")

LoadGame(stock) ==
    /\ pending' = {} /\ menuClose' = {}
    /\ snap' = [a \in Actor |-> LoadedSnapshot(saved[a])]
    /\ menu' = NoActor
    /\ inv' = stock
    /\ worn' = [a \in Actor |-> EmptyHands]
    /\ combat' = {} /\ follower' = Actor
    /\ UNCHANGED <<saved, tasks, installed, enabled>>

----------------------------------------------------------------------------
MenuStep ==
    \/ CloseMenu
    \/ \E a \in Actor : OpenMenu(a)
    \/ \E a \in Actor, i \in Item, hand \in Slots : UserEquip(a, i, hand)
    \/ \E a \in Actor, hand \in Slots : UserUnequip(a, hand)

GameStep ==
    \/ \E a \in Actor, drawn \in BOOLEAN : \E w \in AiOutcomes(worn[a], inv[a]) : AiHandAttempt(a, w, drawn)
    \/ \E a \in Actor : \E w \in {EmptyHands, worn[a]} : OutfitUpdate(a, w)
    \/ \E a \in Actor, i \in Item : GainItem(a, i) \/ LoseItem(a, i)
    \/ \E a \in Actor : ToggleCombat(a) \/ ToggleFollower(a)

LifecycleStep ==
    \/ \E a \in Actor : EraseActor(a)
    \/ Uninstall \/ Install \/ ToggleSetting \/ SaveGame
    \/ \E stock \in [Actor -> [Item -> 0..1]] : LoadGame(stock)

Next == RunTask \/ MenuStep \/ GameStep \/ LifecycleStep

Spec == Init /\ [][Next]_vars

(* SKSE drains its task queue every frame.                                 *)
FairSpec == Spec /\ WF_vars(RunTask)

----------------------------------------------------------------------------
(* No snapshot, recorded, saved or loaded, asks for a two-handed item and  *)
(* something in the left hand: captures, baselines, loads and clears each  *)
(* keep the hands exclusive, in any order.                                 *)
SnapshotsExclusive ==
    \A a \in Actor : HandsExclusive(snap[a]) /\ HandsExclusive(saved[a])

(* The state in which a restore has nothing more to do.                    *)
Settled(a) == RestoreSnapshot(worn[a], snap[a], inv[a]) = worn[a]

(* One restore settles the hands: running it again, as the next reconcile  *)
(* will, changes nothing, whatever is worn, carried and recorded.          *)
RestoreIsIdempotent ==
    \A a \in Actor :
        LET once == RestoreSnapshot(worn[a], snap[a], inv[a])
        IN RestoreSnapshot(once, snap[a], inv[a]) = once

(* A restore leaves hands the engine allows: nothing worn twice from one   *)
(* copy, nothing worn that is not carried.                                 *)
RestoreIsWearable ==
    \A a \in Actor : WearableWith(RestoreSnapshot(worn[a], snap[a], inv[a]), inv[a])

(* With the saved items carried, in enough copies, and no torch or bound   *)
(* weapon in the way, a restore puts on exactly what was saved.            *)
Unobstructed(a) ==
    /\ \A h \in {"right", "left"} : ~IsTorch(worn[a][h]) /\ ~IsBound(worn[a][h])
    /\ \A i \in Item : Copies(snap[a], i) <= inv[a][i]
    /\ snap[a].ammo # NoItem => inv[a][snap[a].ammo] > 0

WornForm(s) == IF IsTwoHandedItem(s.right) THEN [s EXCEPT !.left = s.right] ELSE s

RestoreReachesSnapshot ==
    \A a \in Actor : Unobstructed(a) =>
        RestoreSnapshot(worn[a], snap[a], inv[a]) = WornForm(snap[a])

(* A restore never takes a torch out of a hand: not by equipping over it,  *)
(* and not by a two-handed item for the other hand.  A bound weapon stays  *)
(* too, except that a saved two-handed item still drives it from the left. *)
RestoreSparesTorchAndBound ==
    \A a \in Actor : \A h \in {"right", "left"} :
        \/ IsTorch(worn[a][h])
        \/ IsBound(worn[a][h]) /\ (h = "right" \/ ~IsTwoHandedItem(snap[a].right))
        => RestoreSnapshot(worn[a], snap[a], inv[a])[h] = worn[a][h]

(* What a restore is trusted with, whatever is worn, carried and recorded. *)
RestoreIsSound == RestoreIsIdempotent /\ RestoreIsWearable /\ RestoreSparesTorchAndBound

(* What ends a request: the hands have come to rest, or a fight, a menu, a *)
(* lost follower, a cleared snapshot or a switched-off feature voids it.   *)
Answered(a) ==
    Settled(a) \/ a \in combat \/ MenuOpen \/ ~Active \/ a \notin follower \/ snap[a] = EmptyHands

(* A reconcile accepted while the follower is at peace is carried out: the *)
(* hands come to rest, unless something voids the request first.           *)
RequestsSettle == \A a \in Actor : a \in pending ~> Answered(a)
============================================================================
