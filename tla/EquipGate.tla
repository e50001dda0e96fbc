----------------------------- MODULE EquipGate -----------------------------
(***************************************************************************)
(* What becomes of an equip or an unequip the game's AI attempts on one    *)
(* follower: the hooks of EquipGateHooks.cpp, the gate (EquipGateCore),    *)
(* the suppressors, and the combat override with its melee and ammo parts, *)
(* together with the trade menu that fills the preferences.                *)
(*                                                                         *)
(* The plugin's own equips pass through the same hooks under a bypass, so  *)
(* they are applied here as the engine applies them.  An AI equip that     *)
(* displaces an item may unequip it through the hook first.                *)
(***************************************************************************)
EXTENDS CombatPreference, Sequences

CONSTANTS
    Settings,   \* the combinations of settings considered
    Loads       \* what the follower may carry at the start

Setting == [melee : BOOLEAN, ammo : BOOLEAN, emptyHand : BOOLEAN, align : BOOLEAN,
            scoring : BOOLEAN, blocker : BOOLEAN, gate : BOOLEAN,
            clearRight : BOOLEAN, clearLeft : BOOLEAN]

ASSUME SettingAssumption == Settings \subseteq Setting /\ Loads \subseteq SUBSET Copy

VARIABLES
    cfg,        \* the settings; fixed
    carried,    \* copies in the follower's inventory
    worn,       \* what is in the hands and in the ammo slot
    prefs,      \* CombatEquipPreference, for this follower
    lastAmmo,   \* g_lastAmmoByActor
    pending,    \* is the follower in g_pendingAmmoReequipActors?
    tasks,      \* deferred ammo re-equips in the SKSE queue
    stance,     \* "idle", or "fighting": weapon drawn or in combat
    follows,    \* ActorScope::IsAffectedFollower
    menu,       \* is the trade menu open on this follower?
    suppressed, \* is it in g_suppressedActors?
    taken,      \* history: was a weapon taken from it in this trade session?
    restore     \* a hand-item reconcile is requested (HandItemRestore::RequestReconcile)

combat == <<lastAmmo, pending, tasks>>
place == <<stance, follows, menu>>
vars == <<cfg, carried, worn, prefs, combat, place, suppressed, taken, restore>>

Hands == [right : Copy \cup {None}, left : Copy \cup {None}, ammo : Copy \cup {None}]
Slots == {"right", "left", "ammo"}

TypeOK ==
    /\ cfg \in Setting /\ carried \subseteq Copy
    /\ worn \in Hands /\ prefs \in [Cats -> Pref \cup {None}]
    /\ lastAmmo \in Base \cup {None} /\ pending \in BOOLEAN /\ tasks \in Nat
    /\ stance \in {"idle", "fighting"} /\ follows \in BOOLEAN /\ menu \in BOOLEAN
    /\ suppressed \in BOOLEAN /\ taken \in BOOLEAN /\ restore \in BOOLEAN

Init ==
    /\ cfg \in Settings /\ carried \in Loads
    /\ worn = [right |-> None, left |-> None, ammo |-> None]
    /\ prefs = NoPrefs /\ lastAmmo = None /\ pending = FALSE /\ tasks = 0
    /\ stance = "idle" /\ follows = TRUE /\ menu = FALSE
    /\ suppressed = FALSE /\ taken = FALSE /\ restore = FALSE

----------------------------------------------------------------------------
(* Items and hands.                                                        *)
Ammo == {"arrow", "bolt"}
BothHands == {"twoHand", "bow", "crossbow"}
Weapons == {"oneHand", "twoHand", "staff", "bow", "crossbow", "bound"}
OneHandMelee == {"oneHand", "bound"}      \* IsOneHandMeleeWeapon
Melee == {"oneHand", "twoHand", "bound", "shield"}   \* ClassifyEquipClass
Is(c, kinds) == IsKind(BaseAt(c), kinds)

(* The engine: an item for both hands fills them, and a copy is in one     *)
(* place.                                                                  *)
Freed(w, slot) ==
    IF Is(w[slot], BothHands) THEN [w EXCEPT !.right = None, !.left = None]
    ELSE [w EXCEPT ![slot] = None]

Put(w, c, slot) ==
    IF Is(c, Ammo) THEN [w EXCEPT !.ammo = c]
    ELSE IF Is(c, BothHands) THEN [w EXCEPT !.right = c, !.left = c]
    ELSE LET free == Freed(w, slot)
         IN [s \in Slots |-> IF s = slot THEN c ELSE IF free[s] = c THEN None ELSE free[s]]

FitsSlot(b, slot) ==
    CASE slot = "ammo" -> IsKind(b, Ammo)
      [] slot = "left" -> ~IsKind(b, Ammo \cup BothHands)
      [] slot = "right" -> ~IsKind(b, Ammo \cup {"shield", "torch"})

(* The unit an equip call gets: the one the list names, or the engine's    *)
(* pick, a plain one if it can.                                            *)
Unit(w, b, list) ==
    IF list # None THEN list
    ELSE LET loose == Units(carried, b) \ Lists(w, carried, b)
         IN IF loose # {} THEN AnyOf(loose) ELSE AnyOf(Units(carried, b))

IsFighting == stance = "fighting"

----------------------------------------------------------------------------
(* Melee enforcement (CombatEquipOverrideMelee.cpp).  A state is what is   *)
(* worn, whether a category has answered, and how often the engine was     *)
(* called.                                                                 *)
Start(w) == [worn |-> w, done |-> FALSE, calls |-> 0]
Ask(st) == [st EXCEPT !.done = FALSE]

SlotOf(cat) == IF cat = "oneHandRight" THEN "right" ELSE IF cat = "twoHand" THEN "none" ELSE "left"

(* TryEquipFromCategory, unless an earlier category has answered: what is  *)
(* in the hand already is left there, and a bound weapon is not forced.    *)
OrTry(st, cat) ==
    LET pref == prefs[cat]
        found == Resolve(st.worn, carried, pref, SlotOf(cat), FALSE)
        hand == IF cat = "twoHand" THEN "right" ELSE SlotOf(cat)
    IN IF st.done \/ pref = None THEN st
       ELSE IF found = NoMatch THEN st
       ELSE IF BaseAt(st.worn[hand]) = pref.base THEN [st EXCEPT !.done = TRUE]
       ELSE IF IsKind(pref.base, {"bound"}) THEN st
       ELSE [worn |-> Put(st.worn, Unit(st.worn, pref.base, found.list), hand),
             done |-> TRUE, calls |-> st.calls + 1]

(* ForceUnequipRight and ForceUnequipLeft, under their setting: weapons    *)
(* and shields only, and never a bound weapon.                             *)
Emptied(st, slot) ==
    IF cfg.emptyHand /\ Is(st.worn[slot], (Weapons \ {"bound"}) \cup (IF slot = "left" THEN {"shield"} ELSE {}))
    THEN [worn |-> Freed(st.worn, slot), done |-> st.done, calls |-> st.calls + 1]
    ELSE st

OrEmpty(st, slot) == IF st.done THEN st ELSE Emptied(st, slot)

IsRightEligible(w) == w.right = None \/ Is(w.right, OneHandMelee)
IsLeftEligible(w) == w.left = None \/ Is(w.left, OneHandMelee \cup {"shield"})

(* Deviation: the two hands are never found to want the same copy.         *)
NeverSameInstance(w) == FALSE

(* OneHandPrefsResolveSameInstance.                                        *)
OneHandPrefsResolveSameInstance(w) ==
    LET r == prefs["oneHandRight"]
        l == prefs["oneHandLeft"]
        resR == Resolve(w, carried, r, "right", FALSE)
        resL == Resolve(w, carried, l, "left", FALSE)
    IN /\ r # None /\ l # None
       /\ r.base = l.base
       /\ resR = resL /\ resR # NoMatch

HandleTwoHand(w) ==
    LET tried == OrTry(OrTry(OrTry(OrTry(Start(w), "twoHand"), "oneHandRight"), "oneHandLeft"), "shieldLeft")
    IN IF tried.done THEN tried ELSE Emptied(Emptied(tried, "right"), "left")

HandleOneHandRight(w) ==
    LET right == OrEmpty(OrTry(OrTry(Start(w), "twoHand"), "oneHandRight"), "right")
        own == IF OneHandPrefsResolveSameInstance(right.worn) THEN Ask(right)
               ELSE OrTry(Ask(right), "oneHandLeft")
    IN IF IsLeftEligible(right.worn) THEN OrEmpty(OrTry(own, "shieldLeft"), "left") ELSE right

(* The left hand first, for a one-handed weapon and for a shield.          *)
LeftHand(w) == OrEmpty(OrTry(OrTry(OrTry(Start(w), "twoHand"), "oneHandLeft"), "shieldLeft"), "left")

HandleOneHandLeft(w) ==
    LET left == LeftHand(w)
        own == IF OneHandPrefsResolveSameInstance(left.worn) THEN Ask(left)
               ELSE OrTry(Ask(left), "oneHandRight")
    IN IF IsRightEligible(left.worn) THEN OrEmpty(own, "right") ELSE left

(* HandleShield does not look for the same instance.                       *)
HandleShield(w) ==
    LET left == LeftHand(w)
    IN IF IsRightEligible(left.worn) THEN OrEmpty(OrTry(Ask(left), "oneHandRight"), "right") ELSE left

(* DecideMeleeEquipOverride: the attempt is blocked, whatever comes of it. *)
Enforced(w, b, slot) ==
    CASE IsKind(b, {"twoHand"}) -> HandleTwoHand(w)
      [] IsKind(b, OneHandMelee) /\ slot = "left" -> HandleOneHandLeft(w)
      [] IsKind(b, OneHandMelee) /\ slot # "left" -> HandleOneHandRight(w)
      [] OTHER -> HandleShield(w)

(* DecideMeleeUnequipOverride: in a fight, what is preferred stays in its  *)
(* hand.                                                                   *)
Names(cat, b) == prefs[cat] # None /\ prefs[cat].base = b

MeleeGuards(w, b, slot) ==
    /\ cfg.melee /\ IsFighting /\ follows /\ ~menu
    /\ ~Is(w.right, {"bow", "crossbow"})
    /\ \/ IsKind(b, {"shield"}) /\ slot = "left" /\ BaseAt(w.left) = b /\ Names("shieldLeft", b)
       \/ IsKind(b, {"oneHand"}) /\ BaseAt(w[slot]) = b
          /\ Names(IF slot = "left" THEN "oneHandLeft" ELSE "oneHandRight", b)

----------------------------------------------------------------------------
(* Ammo (CombatEquipOverrideAmmo.cpp).                                     *)

(* ValidateRangedAmmoContext.                                              *)
IsRanged(w) == IsFighting /\ Is(w.right, {"bow", "crossbow"})

(* DecideAmmoEquipSwap: the preferred ammo of that kind, if there is any.  *)
SwapsAmmo(b) ==
    /\ IsKind(b, Ammo) /\ cfg.ammo /\ ~Is(worn.right, {"bound"})
    /\ prefs[KindOf[b]] # None /\ prefs[KindOf[b]].base # b
    /\ Units(carried, prefs[KindOf[b]].base) # {}

(* OnAmmoUnequip, after an unequip of the AI's that has left w.            *)
QueuesAmmo(w, b) ==
    /\ cfg.ammo /\ follows /\ ~menu
    /\ lastAmmo = b /\ b # None
    /\ IsRanged(w) /\ BaseAt(w.ammo) # b

(* QueueDeferredAmmoReequip.                                               *)
QueueDeferredAmmoReequip ==
    /\ pending' = TRUE
    /\ tasks' = IF pending THEN tasks ELSE tasks + 1
    /\ UNCHANGED lastAmmo

OnUnequipObject(w, b) == IF QueuesAmmo(w, b) THEN QueueDeferredAmmoReequip ELSE UNCHANGED combat

(* RunDeferredAmmoReequip: the last ammo again, or else the most numerous  *)
(* of the other kinds that fit, which is remembered instead.               *)
Fallback(w) ==
    {b \in Base \ {lastAmmo} : IsKind(b, {IF Is(w.right, {"crossbow"}) THEN "bolt" ELSE "arrow"})
                               /\ Units(carried, b) # {}}

RunAmmoTask ==
    /\ tasks > 0 /\ tasks' = tasks - 1 /\ pending' = FALSE
    /\ \E loaded \in BOOLEAN :     \* the actor may be dead, deleted or without its 3D
       IF /\ loaded /\ cfg.ammo /\ follows /\ ~menu
          /\ IsRanged(worn)
          /\ lastAmmo # None /\ BaseAt(worn.ammo) # lastAmmo
       THEN \/ /\ Units(carried, lastAmmo) # {}
               /\ worn' = Put(worn, Unit(worn, lastAmmo, None), "ammo")
               /\ UNCHANGED lastAmmo
            \/ /\ Units(carried, lastAmmo) = {}
               /\ \E b \in Fallback(worn) :
                     lastAmmo' = b /\ worn' = Put(worn, Unit(worn, b, None), "ammo")
            \/ /\ Units(carried, lastAmmo) = {} /\ Fallback(worn) = {}
               /\ UNCHANGED <<worn, lastAmmo>>
       ELSE UNCHANGED <<worn, lastAmmo>>
    /\ UNCHANGED <<cfg, carried, prefs, place, suppressed, taken, restore>>

----------------------------------------------------------------------------
(* The gate and the suppressors.                                           *)

(* RequestHandItemReconcileAfterAttempt.                                   *)
IsTrackable(b) == ~IsKind(b, {"bound", "torch"})

RequestAfterAttempt(bases) ==
    restore' = (restore \/ (~menu /\ follows /\ ~IsFighting /\ \E b \in bases : IsTrackable(b)))

(* Core::ShouldBlock.                                                      *)
ShouldBlock(b) ==
    /\ cfg.gate /\ ~menu /\ follows /\ ~IsFighting
    /\ ~IsKind(b, Ammo \cup {"bound", "torch"})

(* Deviation: ammo is not among what the blocker looks at.                 *)
SuppressesHandsOutOfCombat(b) ==
    /\ cfg.blocker /\ ~menu /\ follows /\ ~IsFighting
    /\ ~IsKind(b, Ammo \cup {"bound", "torch"})
    /\ b \notin {BaseAt(worn.right), BaseAt(worn.left)}

(* NonCombatEquipBlocker::ShouldSuppressEquip.                             *)
SuppressesOutOfCombat(b) ==
    /\ cfg.blocker /\ ~menu /\ follows /\ ~IsFighting
    /\ ~IsKind(b, {"bound", "torch"})
    /\ IF IsKind(b, Ammo) THEN BaseAt(worn.ammo) # b
       ELSE b \notin {BaseAt(worn.right), BaseAt(worn.left)}

(* BestWeaponAutoEquipSuppressor::ShouldSuppressEquip.                     *)
SuppressesBestWeapon(b) == IsKind(b, Weapons \ {"bound"}) /\ menu /\ suppressed

(* Deviation: the suppressor forgets after the first weapon attempted.     *)
DropSuppressionAtOnce(b) == suppressed' = (suppressed /\ ~IsKind(b, Weapons \ {"bound"}))

(* Outside the menu the suppressor forgets, on the first weapon attempted. *)
DropSuppression(b) == suppressed' = (suppressed /\ ~(IsKind(b, Weapons \ {"bound"}) /\ ~menu))

Considers == follows /\ ~menu /\ IsFighting    \* Policy::ShouldConsiderEquip

(* InstanceAlign: the copy the preference names, when the AI picked        *)
(* another of the same base.                                               *)
AttemptCategory(b, slot) ==
    IF slot = "ammo" /\ ~IsKind(b, Ammo) THEN None ELSE CategoryOf(b, slot = "left")

AlignTarget(b, list, slot) ==
    LET cat == AttemptCategory(b, slot)
        hand == IF slot = "ammo" THEN "none" ELSE slot
    IN IF /\ cfg.align /\ ~IsKind(b, {"bound"})
          /\ cat # None /\ prefs[cat] # None
          /\ prefs[cat].base = b /\ prefs[cat].ident # Bare
       THEN LET found == Resolve(worn, carried, prefs[cat], hand, TRUE).list
            IN IF found = list THEN None ELSE found
       ELSE None

(* Deviation: an attempt is overridden only when there is something to put *)
(* into the right hand instead.                                            *)
EnforcesGivenRight(b) == cfg.melee /\ IsKind(b, Melee) /\ prefs["oneHandRight"] # None

Enforces(b) == cfg.melee /\ IsKind(b, Melee)

(* DecideEquipObject, for an item that is neither melee nor ammo: melee    *)
(* weapons leave the hands first, past the guard.                          *)
PreCleared(b) ==
    IF Considers /\ cfg.melee /\ ~IsKind(b, Melee \cup Ammo)
    THEN LET right == IF Is(worn.right, Melee \ {"bound", "shield"}) THEN Freed(worn, "right") ELSE worn
         IN IF Is(right.left, Melee \ {"bound"}) THEN Freed(right, "left") ELSE right
    ELSE worn

(* DecideUnequipObject and the gate, in the unequip hook.                  *)
RefusesUnequip(w, slot) == MeleeGuards(w, BaseAt(w[slot]), slot) \/ ShouldBlock(BaseAt(w[slot]))

(* The vanilla equip.  What it displaces goes through the unequip hook,    *)
(* where the guard and the gate may keep it, and with it the hand; as part *)
(* of a swap (slotToReplace) it passes.                                    *)
Displaced(w, c, slot) ==
    {s \in {"right", "left"} : w[s] # None /\ w[s] # c /\ Put(w, c, slot)[s] # w[s]}

DisplacedBases(w, c, slot) == {BaseAt(w[s]) : s \in Displaced(w, c, slot)}

MayKeep(w, c, slot) ==
    \E s \in Displaced(w, c, slot) : RefusesUnequip(w, s)

Vanilla(w, b, list, slot) ==
    LET c == Unit(w, b, list)
    IN {Put(w, c, slot)} \cup (IF MayKeep(w, c, slot) THEN {w} ELSE {})

(* The ammo the engine takes out of the slot for another passes the hook.  *)
AmmoDisplaced(w, b) ==
    IF IsKind(b, Ammo) /\ w.ammo # None /\ BaseAt(w.ammo) # b THEN BaseAt(w.ammo) ELSE None

----------------------------------------------------------------------------
(* ActorEquipManagerEquipObjectHook::thunk, at bypass depth 0.             *)
Suppressed(b) ==
    /\ SuppressesBestWeapon(b) \/ SuppressesOutOfCombat(b)
    /\ RequestAfterAttempt({b})
    /\ UNCHANGED <<worn, combat>>

Swapped(b, list, slot) ==
    /\ ~SuppressesBestWeapon(b) /\ ~SuppressesOutOfCombat(b) /\ Considers
    /\ LET align == AlignTarget(b, list, slot)
       IN \/ /\ align # None
             /\ worn' = Put(worn, align, slot)
             /\ UNCHANGED combat
          \/ /\ align = None /\ SwapsAmmo(b)
             /\ lastAmmo' = prefs[KindOf[b]].base
             /\ worn' = Put(worn, Unit(worn, lastAmmo', None), "ammo")
             /\ UNCHANGED <<pending, tasks>>
          \/ /\ align = None /\ Enforces(b)
             /\ worn' = Enforced(worn, b, slot).worn
             /\ UNCHANGED combat
    /\ RequestAfterAttempt({b})

IsDecided(b, list, slot) == Considers /\ (AlignTarget(b, list, slot) # None \/ SwapsAmmo(b) \/ Enforces(b))

Gated(b, list, slot) ==
    /\ ~SuppressesBestWeapon(b) /\ ~SuppressesOutOfCombat(b) /\ ~IsDecided(b, list, slot)
    /\ ShouldBlock(b)
    /\ worn' = IF IsKind(b, Weapons) /\ b \in {BaseAt(worn.right), BaseAt(worn.left)}
               THEN Put(worn, Unit(worn, b, list), slot)
               ELSE worn
    /\ RequestAfterAttempt({b})
    /\ UNCHANGED combat

Allowed(b, list, slot) ==
    /\ ~SuppressesBestWeapon(b) /\ ~SuppressesOutOfCombat(b) /\ ~IsDecided(b, list, slot)
    /\ ~ShouldBlock(b)
    /\ worn' \in Vanilla(PreCleared(b), b, list, slot)
    /\ OnUnequipObject([worn EXCEPT !.ammo = None], AmmoDisplaced(worn, b))
    /\ RequestAfterAttempt({b} \cup DisplacedBases(worn, Unit(worn, b, list), slot))

AiEquip(b, list, slot) ==
    /\ Units(carried, b) # {} /\ FitsSlot(b, slot)
    /\ Suppressed(b) \/ Swapped(b, list, slot) \/ Gated(b, list, slot) \/ Allowed(b, list, slot)
    /\ DropSuppression(b)
    /\ UNCHANGED <<cfg, carried, prefs, place, taken>>

(* ActorEquipManagerUnequipObjectHook::thunk, at bypass depth 0; the       *)
(* second half of a swap (slotToReplace) is never refused.                 *)
AiUnequip(slot, swapFinalize) ==
    LET b == BaseAt(worn[slot])
        refused == ~swapFinalize /\ RefusesUnequip(worn, slot)
    IN /\ worn[slot] # None
       /\ worn' = IF refused THEN worn ELSE Freed(worn, slot)
       /\ IF refused THEN UNCHANGED combat ELSE OnUnequipObject(worn', b)
       /\ RequestAfterAttempt({b})
       /\ UNCHANGED <<cfg, carried, prefs, place, suppressed, taken>>

(* ActorEquipManagerEquipSpellHook::thunk: all of it under a bypass.       *)
AiEquipSpell(slot) ==
    /\ slot # "ammo" /\ worn[slot] # None
    /\ worn' = Freed(worn, slot)
    /\ UNCHANGED <<cfg, carried, prefs, combat, place, suppressed, taken, restore>>

----------------------------------------------------------------------------
(* The trade menu.                                                         *)

(* Opening it enrols the follower's hands as preferences where there are   *)
(* none (ContainerMenuOpenActions).                                        *)
OpenMenu ==
    /\ ~menu /\ follows /\ menu' = TRUE
    /\ prefs' = Seeded(prefs, worn.right, worn.left)
    /\ UNCHANGED <<cfg, carried, worn, combat, stance, follows, suppressed, taken, restore>>

CloseMenu ==
    /\ menu /\ menu' = FALSE /\ suppressed' = FALSE /\ taken' = FALSE
    /\ UNCHANGED <<cfg, carried, worn, prefs, combat, stance, follows, restore>>

Captures == cfg.scoring \/ cfg.ammo
RecordChoice(c, left) == prefs' = IF Captures THEN Recorded(prefs, c, left) ELSE prefs
ForgetChoice(b, left) ==
    prefs' = IF Captures THEN Forgotten(prefs, b, left, cfg.clearRight, cfg.clearLeft) ELSE prefs

(* The player equips or unequips through the menu, under a bypass, and the *)
(* choice is recorded.                                                     *)
PlayerEquip(c, slot) ==
    /\ menu /\ c \in carried /\ FitsSlot(BaseOf[c], slot)
    /\ worn' = Put(worn, c, slot)
    /\ RecordChoice(c, slot = "left")
    /\ UNCHANGED <<cfg, carried, combat, place, suppressed, taken, restore>>

PlayerUnequip(slot) ==
    /\ menu /\ worn[slot] # None
    /\ worn' = Freed(worn, slot)
    /\ ForgetChoice(BaseAt(worn[slot]), slot = "left")
    /\ UNCHANGED <<cfg, carried, combat, place, suppressed, taken, restore>>

(* A copy goes to the player; the listener that runs first arms the        *)
(* suppressor when it is a weapon.                                         *)
Take(c) ==
    /\ menu /\ c \in carried
    /\ carried' = carried \ {c}
    /\ worn' = [s \in Slots |-> IF worn[s] = c THEN None ELSE worn[s]]
    /\ suppressed' = (suppressed \/ Is(c, Weapons \ {"bound"}))
    /\ taken' = (taken \/ Is(c, Weapons \ {"bound"}))
    /\ UNCHANGED <<cfg, prefs, combat, place, restore>>

(* The world: ammo is shot, fights begin and end, the follower is let go   *)
(* or hired, HandItemRestore answers a request, a save is loaded.          *)
Shoot ==
    /\ IsFighting /\ worn.ammo # None /\ IsRanged(worn)
    /\ carried' = carried \ {worn.ammo}
    /\ worn' = [worn EXCEPT !.ammo = None]
    /\ UNCHANGED <<cfg, prefs, combat, place, suppressed, taken, restore>>

ChangeStance ==
    /\ stance' = IF IsFighting THEN "idle" ELSE "fighting"
    /\ UNCHANGED <<cfg, carried, worn, prefs, combat, follows, menu, suppressed, taken, restore>>

ChangeFollower ==
    /\ ~menu /\ follows' = ~follows
    /\ UNCHANGED <<cfg, carried, worn, prefs, combat, stance, menu, suppressed, taken, restore>>

RunRestore ==
    /\ restore /\ restore' = FALSE
    /\ UNCHANGED <<cfg, carried, worn, prefs, combat, place, suppressed, taken>>

(* OnRevert clears the preferences and the remembered ammo, not the tasks  *)
(* or their marks; ActorStateCleanup erases the same two for an actor.     *)
Revert ==
    /\ ~menu
    /\ prefs' = NoPrefs /\ lastAmmo' = None
    /\ UNCHANGED <<cfg, carried, worn, pending, tasks, place, suppressed, taken, restore>>

Next ==
    \/ \E b \in Base, slot \in Slots : \E list \in Lists(worn, carried, b) \cup {None} : AiEquip(b, list, slot)
    \/ \E slot \in Slots, swap \in BOOLEAN : AiUnequip(slot, swap)
    \/ \E slot \in Slots : AiEquipSpell(slot) \/ PlayerUnequip(slot)
    \/ \E c \in Copy, slot \in Slots : PlayerEquip(c, slot)
    \/ \E c \in Copy : Take(c)
    \/ RunAmmoTask \/ RunRestore \/ OpenMenu \/ CloseMenu
    \/ Shoot \/ ChangeStance \/ ChangeFollower \/ Revert

Spec == Init /\ [][Next]_vars /\ WF_vars(RunAmmoTask)

----------------------------------------------------------------------------
(* Properties.                                                             *)

(* No trade, seed or load makes the preferences ask for a two-handed       *)
(* weapon beside another melee item, or for a shield and a left weapon.    *)
PrefsExclusive == Exclusive(prefs)

(* A follower marked as pending has its task: the mark never shuts out     *)
(* every later re-equip (MarkPendingAmmoReequip).                          *)
MarkHasTask == /\ pending => tasks = 1
               /\ ~pending => tasks = 0

(* Enforcing the preferences comes to an end: the same attempt of the AI,  *)
(* made a third time, finds nothing left to equip or unequip.  A shield    *)
(* the AI wants while both hands want the same copy is the exception       *)
(* HandleShield makes.                                                     *)
ShieldTugsCopy(b, w) == IsKind(b, {"shield"}) /\ OneHandPrefsResolveSameInstance(w)

EnforcementSettles ==
    cfg.melee /\ Considers =>
        \A b \in Base, slot \in {"right", "left"} :
            Enforces(b) /\ Units(carried, b) # {} /\ FitsSlot(b, slot)
            => \A once \in {Enforced(worn, b, slot).worn} :
               \A twice \in {Enforced(once, b, slot).worn} :
                   ShieldTugsCopy(b, twice) \/ Enforced(twice, b, slot).calls = 0

(* Out of a fight, with gate and blocker on, nobody brings a weapon, a     *)
(* shield or ammo to the hands that is not there already, unless it was    *)
(* conjured: not the AI, not a late ammo task.                             *)
Brought == {worn'[s] : s \in Slots} \ (Worn(worn) \cup {None})
SameBases(S) == {c \in Copy : BaseOf[c] \in {BaseOf[d] : d \in S}}

HandsKeptOutOfCombat ==
    [][cfg.gate /\ cfg.blocker /\ follows /\ ~menu /\ ~IsFighting
       => Brought \subseteq SameBases(Worn(worn)) \cup {c \in Copy : Is(c, {"bound", "torch"})}]_vars

(* In a fight, with enforcement on, no melee weapon and no shield gets     *)
(* into a hand unless the preferences name it.                             *)
FightHandsPreferred ==
    [][cfg.melee /\ Considers
       => \A c \in Brought : Is(c, Melee) => \E cat \in Cats : Names(cat, BaseOf[c])]_vars

(* Once a weapon was taken from the follower, no other weapon gets into    *)
(* its hands before the trade menu closes, but by the player's choice.     *)
TakenWeaponNotReplaced ==
    [][menu /\ taken /\ ~(\E c \in Copy, slot \in Slots : PlayerEquip(c, slot))
       => \A c \in Brought : ~Is(c, Weapons \ {"bound"})]_vars

=============================================================================
