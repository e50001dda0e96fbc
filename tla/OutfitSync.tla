----------------------------- MODULE OutfitSync -----------------------------
(***************************************************************************)
(* The armor of one follower: what UpdateNPCOutfit may do to it            *)
(* (NpcOutfitUpdateHook), the snapshot of what the player chose and its    *)
(* restore (OutfitSnapshotRestore), and the headgear that is put on for a  *)
(* fight and taken off after it (HeadgearAutoEquip), which works on the    *)
(* same slots from a list of its own.                                      *)
(*                                                                         *)
(* Armor is the playable armor that is not a shield: the code leaves every *)
(* other piece alone.  Copies of a piece and their signatures are not told *)
(* apart; the code compares pieces by their base here.                     *)
(***************************************************************************)
EXTENDS Sequences, FiniteSets, Integers

CONSTANTS
    Armor,          \* playable armor, without shields
    Slot,           \* biped slots
    HeadOrder,      \* the slots of headgear, in the order the code asks for them
    SlotsOf,        \* the slot mask of each piece
    Fits,           \* ActorScope::ArmorEquipAllowed
    Outfit,         \* default outfits; NoOutfit when the NPC has none
    GearOf,         \* the pieces of each outfit
    NoOutfit, Unseen, None,
    Games,          \* the settings and inventories a behaviour may start with
    RestoreTries,   \* 5 in the code
    ReconcileTries, \* 3 in the code
    MaxTasks        \* bound on the queue

Overlap(a, b) == SlotsOf[a] \cap SlotsOf[b] # {}
Wearable(w) == \A a, b \in w : a # b => ~Overlap(a, b)

HeadSlots == {HeadOrder[k] : k \in DOMAIN HeadOrder}

ASSUME OutfitAssumption ==
    /\ SlotsOf \in [Armor -> SUBSET Slot] /\ HeadOrder \in Seq(Slot)
    /\ IsFiniteSet(Slot)
    /\ Fits \subseteq Armor
    /\ GearOf \in [Outfit -> SUBSET Armor] /\ NoOutfit \in Outfit /\ Unseen \notin Outfit
    /\ None \notin Armor
    /\ RestoreTries \in Nat /\ ReconcileTries \in Nat

(* The pieces of an outfit can be worn together.                           *)
ASSUME WearableAssumption == \A o \in Outfit : Wearable(GearOf[o])

ASSUME GamesAssumption ==
    \A g \in Games : g.carried \subseteq Armor /\ g.cfg.outfits \subseteq Outfit /\ g.cfg.scarce \subseteq Armor

VARIABLES
    cfg,        \* the settings, and what may happen in this behaviour: does it
                \* save, which outfits are set, which pieces come and go; fixed
    installed,  \* is the mod switched on?
    snap,       \* armorBySlot of the follower; all None when there is no entry
    owed,       \* is it in g_pendingRefresh?
    lastSeen,   \* _lastSeenOutfit
    head,       \* the entry of HeadgearAutoEquip
    pref,       \* its headgear preference
    tasks,      \* the SKSE queue
    outfit,     \* defaultOutfit of the NPC
    worn,       \* armor it wears
    carried,    \* armor in its inventory
    fight,      \* is it in combat?
    menu,       \* is the trade menu open on it?
    follows,    \* ActorScope::IsAffectedFollower
    disk,       \* the save, or none
    fightHead,  \* history: the headgear worn when the last fight began
    heard,      \* history: the sink has been told of the fight going on
    lost,       \* history: it was told of an earlier one, but not of its end
    unseen      \* history: the beginning of the last fight was not seen

feature == <<snap, owed, lastSeen, head, pref, tasks>>
world == <<outfit, worn, carried, fight, menu, follows>>
history == <<fightHead, heard, lost, unseen>>
vars == <<cfg, installed, feature, world, disk, history>>

NothingSaved == [s \in Slot |-> None]
NoHead == [last |-> FALSE, gear |-> {}, have |-> FALSE, pending |-> FALSE, tries |-> 0]
NoDisk == [exists |-> FALSE, snap |-> NothingSaved, gear |-> {}, have |-> FALSE, pref |-> None,
           outfit |-> NoOutfit, fight |-> FALSE, fightHead |-> {}, unseen |-> FALSE]

Task(kind, want, tries) == [kind |-> kind, want |-> want, tries |-> tries]
Simple(kind) == Task(kind, {}, 0)

Enabled == cfg.suppress /\ cfg.restore
Live == installed /\ Enabled /\ follows

Headgear(w) == {a \in w : SlotsOf[a] \cap HeadSlots # {}}

TypeOK ==
    /\ cfg \in {g.cfg : g \in Games} /\ installed \in BOOLEAN
    /\ snap \in [Slot -> Armor \cup {None}]
    /\ \A s \in Slot : snap[s] # None => s \in SlotsOf[snap[s]]
    /\ owed \in BOOLEAN /\ lastSeen \in Outfit \cup {Unseen}
    /\ head.gear \subseteq Headgear(Armor) /\ Wearable(head.gear)
    /\ head.last \in BOOLEAN /\ head.have \in BOOLEAN /\ head.pending \in BOOLEAN
    /\ head.tries \in 0..RestoreTries
    /\ pref \in Headgear(Armor) \cup {None}
    /\ \A k \in DOMAIN tasks : tasks[k].want \subseteq Headgear(Armor) /\ tasks[k].tries \in 0..ReconcileTries
    /\ outfit \in Outfit
    /\ worn \subseteq carried /\ carried \subseteq Armor /\ Wearable(worn)
    /\ fight \in BOOLEAN /\ menu \in BOOLEAN /\ follows \in BOOLEAN

Init ==
    /\ \E g \in Games : cfg = g.cfg /\ carried = g.carried
    /\ installed = TRUE
    /\ snap = NothingSaved /\ owed = FALSE /\ lastSeen = Unseen
    /\ head = NoHead /\ pref = None /\ tasks = <<>>
    /\ outfit = NoOutfit /\ worn = {}
    /\ fight = FALSE /\ menu = FALSE /\ follows = TRUE
    /\ disk = NoDisk
    /\ fightHead = {} /\ heard = FALSE /\ lost = FALSE /\ unseen = FALSE

HasRoom(n) == Len(tasks) + n <= MaxTasks

----------------------------------------------------------------------------
(* Putting pieces on and off.                                              *)

(* The engine takes off what shares a slot with a new piece.               *)
PutOn(w, a) == {b \in w : ~Overlap(a, b)} \cup {a}

Desired(s) == {s[t] : t \in Slot} \ {None}

(* EnumerateCurrentWornArmor                                               *)
BySlot(w) ==
    [s \in Slot |-> IF \E a \in w : s \in SlotsOf[a]
                    THEN CHOOSE a \in w : s \in SlotsOf[a] ELSE None]

(* RestoreSnapshot, one piece: worn is left, missing is left out.          *)
Visit(w, a) == IF a \in w \/ a \notin Fits \/ a \notin carried THEN w ELSE PutOn(w, a)

(* What can be worn once each set of desired pieces has been visited; the  *)
(* hash map fixes no order.                                                *)
Visits(w, want) ==
    LET after[S \in SUBSET want] ==
          IF S = {} THEN {w} ELSE UNION {{Visit(x, a) : x \in after[S \ {a}]} : a \in S}
    IN after

(* Deviation: what is not desired stays on.                                *)
RestoreOutcomesOver(w, s) == Visits(w, Desired(s))[Desired(s)]

(* RestoreSnapshot: then what is not desired, or missing, comes off.       *)
RestoreOutcomes(w, s) ==
    {{a \in x : a \in Desired(s) /\ a \in carried} : x \in Visits(w, Desired(s))[Desired(s)]}

(* MaybeReseedArmorFromWorn: an empty body is a hard reset, not a choice.  *)
Reseeded(s, w) == IF cfg.allow /\ follows /\ w # {} THEN BySlot(w) ELSE s

(* A reseed, then a restore from the new snapshot.  The restore's own      *)
(* equips can come back through UpdateNPCOutfit, whose restore is blocked  *)
(* (g_insideRestore) but whose reseed is not.                              *)
ReseedAndRestore ==
    LET s == Reseeded(snap, worn)
    IN IF s = NothingSaved \/ ~follows THEN snap' = s /\ UNCHANGED worn
       ELSE /\ worn' \in RestoreOutcomes(worn, s)
            /\ \/ snap' = s
               \/ \E S \in SUBSET Desired(s) : \E x \in Visits(worn, Desired(s))[S] :
                      x # worn /\ snap' = Reseeded(s, x)

----------------------------------------------------------------------------
(* The trade menu.                                                         *)

(* Deviation: a displaced piece keeps its other slots.                     *)
CapturedOver(s, a) == [t \in Slot |-> IF t \in SlotsOf[a] THEN a ELSE s[t]]

(* CaptureUserEquip: the piece takes its slots, and a piece it displaces   *)
(* loses all of its own.                                                   *)
Captured(s, a) ==
    LET displaced == {s[t] : t \in SlotsOf[a]} \ {None, a}
    IN [t \in Slot |-> IF t \in SlotsOf[a] THEN a
                       ELSE IF s[t] \in displaced THEN None ELSE s[t]]

(* CaptureUserUnequip: the slots are cleared, whatever they name.          *)
Released(s, a) == [t \in Slot |-> IF t \in SlotsOf[a] THEN None ELSE s[t]]

UserEquip(a) ==
    /\ menu /\ a \in carried \ worn /\ a \in Fits
    /\ worn' = PutOn(worn, a)
    /\ snap' = IF Live THEN Captured(snap, a) ELSE snap
    /\ UNCHANGED <<cfg, installed, owed, lastSeen, head, pref, tasks, outfit, carried, fight, menu,
                   follows, disk, history>>

UserUnequip(a) ==
    /\ menu /\ a \in worn
    /\ worn' = worn \ {a}
    /\ snap' = IF Live THEN Released(snap, a) ELSE snap
    /\ UNCHANGED <<cfg, installed, owed, lastSeen, head, pref, tasks, outfit, carried, fight, menu,
                   follows, disk, history>>

(* The secondary key on a piece of headgear saves or clears the preference *)
(* without equipping it (Router).                                          *)
UserPrefers(a) ==
    /\ menu /\ installed /\ cfg.headgear /\ follows
    /\ a \in Headgear(carried) /\ a \in Fits
    /\ pref' = IF pref = a THEN None ELSE a
    /\ UNCHANGED <<cfg, installed, snap, owed, lastSeen, head, tasks, world, disk, history>>

(* SeedFromEquippedIfEmpty, its headgear part.                             *)
Seeded(p, w) ==
    LET on == {k \in DOMAIN HeadOrder : BySlot(w)[HeadOrder[k]] # None}
    IN IF p # None \/ on = {} THEN p
       ELSE BySlot(w)[HeadOrder[CHOOSE k \in on : \A j \in on : k <= j]]

(* The menu opens: the preference is seeded and a baseline task queued.    *)
OpenMenu ==
    /\ ~menu /\ HasRoom(1)
    /\ menu' = TRUE
    /\ IF installed /\ follows
       THEN pref' = Seeded(pref, worn) /\ tasks' = Append(tasks, Simple("baseline"))
       ELSE UNCHANGED <<pref, tasks>>
    /\ UNCHANGED <<cfg, installed, snap, owed, lastSeen, head, outfit, worn, carried, fight, follows,
                   disk, history>>

(* DrainPendingRestores, from the close listener.                          *)
CloseMenu ==
    /\ menu /\ HasRoom(1)
    /\ menu' = FALSE
    /\ IF installed /\ Enabled /\ owed
       THEN owed' = FALSE /\ tasks' = Append(tasks, Simple("drain"))
       ELSE UNCHANGED <<owed, tasks>>
    /\ UNCHANGED <<cfg, installed, snap, lastSeen, head, pref, outfit, worn, carried, fight, follows,
                   disk, history>>

----------------------------------------------------------------------------
(* UpdateNPCOutfit, as the detour lets it through.                         *)

(* What the game itself would do: the outfit's gear, added if need be.     *)
VanillaUpdate ==
    /\ worn' \in {{b \in worn : \A a \in GearOf[outfit] : ~Overlap(a, b)} \cup GearOf[outfit],
                  GearOf[outfit]}
    /\ carried' = carried \cup GearOf[outfit]

(* CaptureBaselineIfEmpty                                                  *)
Baseline(s, w) == IF s = NothingSaved THEN BySlot(w) ELSE s

(* OnOutfitFormChanged                                                     *)
Rebuilt(w) == Baseline(NothingSaved, w)

OutfitChanged == lastSeen \notin {Unseen, outfit}

(* OnUpdateNpcOutfitSuppressed                                             *)
Suppressed ==
    IF ~Live THEN UNCHANGED <<snap, owed, worn>>
    ELSE IF menu THEN owed' = TRUE /\ UNCHANGED <<snap, worn>>
    ELSE IF fight THEN UNCHANGED <<snap, owed, worn>>
    ELSE ReseedAndRestore /\ UNCHANGED owed

LetsThrough == cfg.allow /\ cfg.restore /\ (OutfitChanged \/ outfit = NoOutfit)

UpdateNPCOutfit ==
    /\ IF ~installed \/ ~follows
       THEN VanillaUpdate /\ UNCHANGED <<snap, owed, lastSeen>>
       ELSE /\ lastSeen' = outfit
            /\ IF ~cfg.suppress THEN VanillaUpdate /\ UNCHANGED <<snap, owed>>
               ELSE IF LetsThrough
               THEN VanillaUpdate /\ snap' = Rebuilt(worn') /\ UNCHANGED owed
               ELSE Suppressed /\ UNCHANGED carried
    /\ UNCHANGED <<cfg, installed, head, pref, tasks, outfit, fight, menu, follows, disk, history>>

(* Another mod gives the NPC another default outfit.                       *)
SetOutfit(o) ==
    /\ outfit # o /\ outfit' = o
    /\ UNCHANGED <<cfg, installed, feature, worn, carried, fight, menu, follows, disk, history>>

(* An equip of the AI or of another mod goes through the equip hook, which *)
(* reports it (OnExternalArmorEquip).                                      *)
ExternalEquip(a) ==
    /\ a \in carried \ worn /\ a \in Fits
    /\ worn' = PutOn(worn, a)
    /\ snap' = IF Live THEN Reseeded(snap, worn') ELSE snap
    /\ UNCHANGED <<cfg, installed, owed, lastSeen, head, pref, tasks, outfit, carried, fight, menu,
                   follows, disk, history>>

(* Pieces taken off behind the mod's back, one or all of them; the unequip *)
(* hook reports nothing.                                                   *)
TakeOff(gone) ==
    /\ gone # {} /\ gone \subseteq worn
    /\ worn' = worn \ gone
    /\ UNCHANGED <<cfg, installed, feature, outfit, carried, fight, menu, follows, disk, history>>

LoseOrGain(a) ==
    /\ carried' = IF a \in carried THEN carried \ {a} ELSE carried \cup {a}
    /\ worn' = worn \cap carried'
    /\ UNCHANGED <<cfg, installed, feature, outfit, fight, menu, follows, disk, history>>

----------------------------------------------------------------------------
(* HeadgearAutoEquip.                                                      *)

(* History.  What the sink is told of a fight, and what it misses: an end  *)
(* that it is not told of leaves it in a fight that is over.               *)
Hears(seen, next) ==
    /\ heard' = (next /\ (heard \/ seen))
    /\ lost' = IF next THEN lost ELSE ~seen /\ (heard \/ lost)
    /\ IF ~fight THEN /\ fightHead' = Headgear(worn)
                     /\ unseen' = ~(seen /\ cfg.headgear /\ ~lost)
       ELSE UNCHANGED <<fightHead, unseen>>

(* CombatEventSink.  There are events inside a fight, too (searching).     *)
CombatEvent(next) ==
    LET seen == installed /\ follows
        entered == seen /\ cfg.headgear /\ ~head.last /\ next
        exited == seen /\ cfg.headgear /\ head.last /\ ~next
        watched == IF seen THEN [head EXCEPT !.last = next] ELSE head
    IN /\ HasRoom(1) /\ (fight \/ next)
       /\ fight' = next
       /\ head' = IF entered THEN [watched EXCEPT !.gear = Headgear(worn), !.have = TRUE]
                  ELSE IF exited THEN [watched EXCEPT !.pending = TRUE, !.tries = RestoreTries]
                  ELSE watched
       /\ tasks' = IF entered THEN Append(tasks, Simple("equip"))
                   ELSE IF exited THEN Append(tasks, Simple("restore")) ELSE tasks
       /\ Hears(seen, next)
       /\ UNCHANGED <<cfg, installed, snap, owed, lastSeen, pref, outfit, worn, carried, menu, follows,
                      disk>>

(* What is worn of headgear after the list has been put back: what is not  *)
(* on it comes off, what is on it and was not worn goes on.                *)
PutBack(w, gear) ==
    LET kept == w \ (Headgear(w) \ gear)
        new == {a \in gear \ w : a \in Fits /\ a \in carried}
    IN {b \in kept : \A a \in new : ~Overlap(a, b)} \cup new

Differs(w, gear) == PutBack(w, gear) # w

(* EquipCombatHeadgear: runs a frame later, whether the fight goes on or not *)
RunEquip ==
    /\ worn' = IF /\ cfg.headgear /\ follows /\ pref # None
                  /\ pref \notin worn /\ pref \in carried /\ pref \in Fits
               THEN PutOn(worn, pref) ELSE worn
    /\ tasks' = Tail(tasks)
    /\ UNCHANGED <<snap, head>>

(* RestoreActorNow                                                         *)
RunRestore ==
    LET live == cfg.headgear /\ follows /\ head.pending /\ head.have
        retry == live /\ (fight \/ menu) /\ head.tries > 0
        restore == live /\ ~retry /\ ~fight
    IN /\ head' = IF retry THEN [head EXCEPT !.tries = @ - 1]
                  ELSE IF live THEN [head EXCEPT !.pending = FALSE, !.tries = 0] ELSE head
       /\ tasks' = Tail(tasks) \o
                     (IF retry THEN <<Simple("restore")>>
                      ELSE IF restore THEN <<Task("reconcile", head.gear, ReconcileTries)>> ELSE <<>>)
       /\ worn' = IF restore THEN PutBack(worn, head.gear) ELSE worn
       /\ UNCHANGED snap

(* TryReconcilePostRestore                                                 *)
RunReconcile ==
    LET t == Head(tasks)
        live == cfg.headgear /\ follows
        again == live /\ t.tries > 0 /\ (fight \/ menu \/ Differs(worn, t.want))
    IN /\ tasks' = Tail(tasks) \o
                     (IF again THEN <<Task("reconcile", t.want, t.tries - 1)>> ELSE <<>>)
       /\ worn' = IF live /\ ~fight /\ ~menu THEN PutBack(worn, t.want) ELSE worn
       /\ UNCHANGED <<snap, head>>

RunBaseline ==
    /\ snap' = IF Live THEN Baseline(snap, worn) ELSE snap
    /\ tasks' = Tail(tasks)
    /\ UNCHANGED <<worn, head>>

(* Deviation: the drain leaves its restore to the next update.             *)
RunDrainLazily ==
    /\ UNCHANGED <<snap, worn, head>>
    /\ tasks' = Tail(tasks)

(* The task of DrainPendingRestores: the settings are not asked again.     *)
RunDrain ==
    /\ IF fight \/ menu THEN UNCHANGED <<snap, worn>> ELSE ReseedAndRestore
    /\ tasks' = Tail(tasks)
    /\ UNCHANGED head

RunTask ==
    /\ tasks # <<>>
    /\ \/ Head(tasks).kind = "equip" /\ RunEquip
       \/ Head(tasks).kind = "restore" /\ RunRestore
       \/ Head(tasks).kind = "reconcile" /\ RunReconcile
       \/ Head(tasks).kind = "baseline" /\ RunBaseline
       \/ Head(tasks).kind = "drain" /\ RunDrain
    /\ UNCHANGED <<cfg, installed, owed, lastSeen, pref, outfit, carried, fight, menu, follows, disk,
                   history>>

----------------------------------------------------------------------------
(* Lifecycle.  Queued tasks and the last outfit seen outlive all of it.    *)

ToggleFollower ==
    /\ follows' = ~follows
    /\ UNCHANGED <<cfg, installed, feature, outfit, worn, carried, fight, menu, disk, history>>

(* PurgeActorFromAllStores                                                 *)
EraseActor ==
    /\ snap' = NothingSaved /\ head' = NoHead /\ pref' = None
    /\ heard' = FALSE /\ lost' = FALSE /\ unseen' = TRUE
    /\ UNCHANGED <<cfg, installed, owed, lastSeen, tasks, world, disk, fightHead>>

Uninstall ==
    /\ installed /\ installed' = FALSE
    /\ snap' = NothingSaved /\ owed' = FALSE /\ head' = NoHead
    /\ heard' = FALSE /\ lost' = FALSE /\ unseen' = TRUE
    /\ UNCHANGED <<cfg, lastSeen, pref, tasks, world, disk, fightHead>>

Install ==
    /\ ~installed /\ installed' = TRUE
    /\ UNCHANGED <<cfg, feature, world, disk, history>>

SaveGame ==
    /\ cfg.saves /\ ~disk.exists
    /\ disk' = [exists |-> TRUE, snap |-> snap, gear |-> IF head.have THEN head.gear ELSE {},
                have |-> head.have, pref |-> pref, outfit |-> outfit, fight |-> fight,
                fightHead |-> fightHead, unseen |-> unseen]
    /\ UNCHANGED <<cfg, installed, feature, world, history>>

(* Deviation: the fight the follower is loaded into is not seeded.         *)
LoadedHeadUnseeded(have, gear, inFight) ==
    IF ~have THEN NoHead ELSE [NoHead EXCEPT !.gear = gear, !.have = TRUE]

(* HeadgearAutoEquip::SetLoadedEntry                                       *)
LoadedHead(have, gear, inFight) ==
    IF ~have THEN NoHead ELSE [NoHead EXCEPT !.gear = gear, !.have = TRUE, !.last = inFight]

(* OnRevert, then OnLoad; the follower comes out of the load stripped.     *)
(* The trade menu has been closed, and its listeners called, before.       *)
LoadGame ==
    /\ disk.exists /\ ~menu
    /\ snap' = disk.snap
    /\ head' = LoadedHead(disk.have, disk.gear, disk.fight)
    /\ pref' = disk.pref
    /\ outfit' = disk.outfit /\ worn' = {} /\ UNCHANGED carried
    /\ fight' = disk.fight /\ follows' = TRUE
    /\ fightHead' = disk.fightHead
    /\ heard' = (disk.have /\ disk.fight) /\ lost' = FALSE
    /\ unseen' = (disk.unseen \/ ~disk.have)
    /\ UNCHANGED <<cfg, installed, owed, lastSeen, tasks, menu, disk>>

----------------------------------------------------------------------------
MenuStep ==
    \/ OpenMenu \/ CloseMenu
    \/ \E a \in Armor : UserEquip(a) \/ UserUnequip(a) \/ UserPrefers(a)

GameStep ==
    \/ UpdateNPCOutfit
    \/ \E next \in BOOLEAN : CombatEvent(next)
    \/ \E o \in cfg.outfits : SetOutfit(o)
    \/ \E a \in Armor : ExternalEquip(a)
    \/ \E a \in worn : TakeOff({a})
    \/ TakeOff(worn)
    \/ \E a \in cfg.scarce : LoseOrGain(a)

LifecycleStep ==
    ToggleFollower \/ EraseActor \/ Uninstall \/ Install \/ SaveGame \/ LoadGame

Next == RunTask \/ MenuStep \/ GameStep \/ LifecycleStep

Spec == Init /\ [][Next]_vars

(* SKSE drains its queue every frame.                                      *)
FairSpec == Spec /\ WF_vars(RunTask)

----------------------------------------------------------------------------
(* Every piece of a snapshot is in all of its slots, so that no two pieces *)
(* of it share one.                                                        *)
Coherent(s) == \A t \in Slot : s[t] # None => \A u \in SlotsOf[s[t]] : s[u] = s[t]

(* Whatever order the hash map gives, a restore dresses the follower in    *)
(* exactly the pieces of a coherent snapshot that are carried and fit, and *)
(* those it wears already; a second restore changes nothing.               *)
RestoreReachesSnapshot ==
    Coherent(snap) =>
        \A w \in RestoreOutcomes(worn, snap) :
            /\ w = {a \in Desired(snap) : a \in carried /\ (a \in Fits \/ a \in worn)}
            /\ RestoreOutcomes(w, snap) = {w}

(* Captures, baselines, reseeds, restores, saves and loads keep a coherent *)
(* snapshot coherent, with one exception: the player takes off a piece     *)
(* that is not in the snapshot and shares slots with one that is.          *)
OnlyStrayUnequipSplits ==
    [][Coherent(snap) /\ Coherent(disk.snap) /\ ~Coherent(snap') =>
         \E a \in worn \ Desired(snap) : worn' = worn \ {a}]_<<snap, worn>>

(* The headgear that a pending restore will put back is what the follower  *)
(* wore when this fight began, and not what the mod put on for it, unless  *)
(* the fight is one of two kinds.  The feature was not there to see it     *)
(* begin: setting off, mod off, follower out of scope, entry erased since. *)
(* Or the follower had left the scope in an earlier fight, which ended out *)
(* of its hearing: the sink still takes the follower for fighting, records *)
(* nothing on the first event of the next fight, and restores at its end   *)
(* the headgear of the earlier one.                                        *)
HeadgearIsFromBeforeFight ==
    head.pending /\ head.have /\ ~unseen => head.gear = fightHead

Dressed ==
    \/ RestoreOutcomes(worn, snap) = {worn}
    \/ cfg.allow /\ worn # {} /\ Desired(snap) \subseteq worn

(* What ends a queued restore: the follower is dressed as recorded, or a   *)
(* fight, a new menu, a lost follower or a cleared snapshot voids it, or   *)
(* the snapshot asks for pieces that cannot be worn together.              *)
Answered == Dressed \/ fight \/ menu \/ ~follows \/ snap = NothingSaved \/ ~Coherent(snap)

(* The restore that the close of the menu queues is carried out, unless    *)
(* something voids it first.                                               *)
DrainDresses == (\E k \in DOMAIN tasks : tasks[k].kind = "drain") ~> Answered

============================================================================
