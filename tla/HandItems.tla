----------------------------- MODULE HandItems -----------------------------
(***************************************************************************)
(* The data of the hand-item restore feature: what an item is to it, what  *)
(* a snapshot of a follower's hands holds, and the pure functions on       *)
(* snapshots (features/equip_suppression/equip/HandItemRestore.cpp).       *)
(*                                                                         *)
(* A base object is a member of Item and its form type is KindOf.  The     *)
(* instance signature stored beside a base object is left out: the code    *)
(* compares base objects only, the signature just picks the copy.          *)
(***************************************************************************)
EXTENDS Naturals, FiniteSets

CONSTANTS
    Item,     \* base objects that can be in a hand or in the ammo slot
    KindOf,   \* the form type of each of them
    NoItem    \* an empty hand, an empty optional<Entry>

(* A conjured weapon is one-handed or, like a bound bow or battleaxe, fills *)
(* both hands.                                                             *)
Kinds == {"oneHand", "twoHand", "shield", "torch", "ammo", "boundOneHand", "boundTwoHand"}

ASSUME NoItemAssumption == NoItem \notin Item
ASSUME KindAssumption == KindOf \in [Item -> Kinds]

OfKind(i, k) == i \in Item /\ KindOf[i] = k
IsTorch(i) == OfKind(i, "torch")
IsBound(i) == i \in Item /\ KindOf[i] \in {"boundOneHand", "boundTwoHand"}
IsShield(i) == OfKind(i, "shield")
IsAmmo(i) == OfKind(i, "ammo")
IsTwoHandedItem(i) == i \in Item /\ KindOf[i] \in {"twoHand", "boundTwoHand"}

(* Torches and bound weapons are never recorded or restored.               *)
RestorableItem == {i \in Item : KindOf[i] \in {"oneHand", "twoHand", "shield"}}
AmmoItem == {i \in Item : KindOf[i] = "ammo"}
IsRestorableHandItem(i) == i \in RestorableItem

Snapshot == [right : RestorableItem \cup {NoItem}, left : RestorableItem \cup {NoItem},
             ammo : AmmoItem \cup {NoItem}]

(* What can be worn.                                                       *)
Hands == [right : Item \cup {NoItem}, left : Item \cup {NoItem}, ammo : Item \cup {NoItem}]
EmptyHands == [right |-> NoItem, left |-> NoItem, ammo |-> NoItem]

----------------------------------------------------------------------------
(* Snapshots.  EmptyHands stands for "no entry for this actor": the code   *)
(* erases an entry as soon as its three slots are empty.                   *)

(* Deviation: a two-handed item does not drive out the left hand.          *)
CaptureEquipKeepsLeft(s, i, left) ==
    CASE IsAmmo(i) -> [s EXCEPT !.ammo = i]
      [] ~IsAmmo(i) /\ (left \/ IsShield(i)) -> [s EXCEPT !.left = i]
      [] OTHER -> [s EXCEPT !.right = i]

(* CaptureUserEquip: what the player equips on the follower is recorded,   *)
(* and a two-handed item and the other hand drive each other out.          *)
CaptureEquip(s, i, left) ==
    CASE IsAmmo(i) -> [s EXCEPT !.ammo = i]
      [] IsRestorableHandItem(i) /\ (left \/ IsShield(i)) ->
            [s EXCEPT !.left = i, !.right = IF IsTwoHandedItem(@) THEN NoItem ELSE @]
      [] IsRestorableHandItem(i) /\ ~left /\ ~IsShield(i) ->
            [s EXCEPT !.right = i, !.left = IF IsTwoHandedItem(i) THEN NoItem ELSE @]
      [] OTHER -> s

(* CaptureUserUnequip: the slot is cleared whatever item it names.  A bound *)
(* weapon is a weapon here, a torch is not.                                *)
CaptureUnequip(s, i, left) ==
    CASE IsAmmo(i) -> [s EXCEPT !.ammo = NoItem]
      [] IsShield(i) \/ (left /\ ~IsAmmo(i) /\ ~IsTorch(i)) -> [s EXCEPT !.left = NoItem]
      [] ~left /\ ~IsShield(i) /\ ~IsAmmo(i) /\ ~IsTorch(i) -> [s EXCEPT !.right = NoItem]
      [] OTHER -> s

(* CaptureBaselineIfEmpty: the restorable part of what is worn.            *)
Baseline(w) ==
    LET right == IF IsRestorableHandItem(w.right) THEN w.right ELSE NoItem
    IN [right |-> right,
        left |-> IF IsRestorableHandItem(w.left) /\ ~IsTwoHandedItem(right) THEN w.left ELSE NoItem,
        ammo |-> w.ammo]

(* SetLoadedEntry: one record of the co-save; an entry of the wrong kind   *)
(* clears the slot.                                                        *)
LoadEntry(s, slot, i) ==
    [s EXCEPT ![slot] = IF (IF slot = "ammo" THEN IsAmmo(i) ELSE IsRestorableHandItem(i))
                        THEN i ELSE NoItem]

----------------------------------------------------------------------------
(* The engine's equip and unequip (not in the repository): a two-handed    *)
(* item fills both hands, and a single copy cannot be in both.             *)
FreeHand(w, hand) ==
    IF w[hand] # NoItem /\ IsTwoHandedItem(w[hand])
    THEN [w EXCEPT !.right = NoItem, !.left = NoItem]
    ELSE [w EXCEPT ![hand] = NoItem]

EngineUnequip(w, hand) == IF hand = "ammo" THEN [w EXCEPT !.ammo = NoItem] ELSE FreeHand(w, hand)

OtherHand(hand) == IF hand = "left" THEN "right" ELSE "left"

EngineEquip(w, i, hand, copies) ==
    IF hand = "ammo" THEN [w EXCEPT !.ammo = i]
    ELSE IF IsTwoHandedItem(i) THEN [w EXCEPT !.right = i, !.left = i]
    ELSE LET free == FreeHand(w, hand)
         IN [free EXCEPT ![hand] = i,
                         ![OtherHand(hand)] = IF @ = i /\ copies = 1 THEN NoItem ELSE @]

Slots == {"right", "left", "ammo"}

FitsSlot(i, slot) ==
    CASE slot = "ammo" -> IsAmmo(i)
      [] slot = "left" -> ~IsAmmo(i) /\ ~IsTwoHandedItem(i)
      [] slot = "right" -> ~IsAmmo(i) /\ ~IsShield(i) /\ ~IsTorch(i)

(* What an actor can wear of what it carries.                              *)
Copies(w, i) ==
    IF i = NoItem THEN 0
    ELSE IF IsTwoHandedItem(i) THEN (IF w.right = i THEN 1 ELSE 0)
    ELSE Cardinality({h \in {"right", "left"} : w[h] = i})

WearableWith(w, stock) ==
    /\ \A slot \in Slots : w[slot] # NoItem =>
          \/ FitsSlot(w[slot], slot) /\ stock[w[slot]] > 0
          \/ slot = "left" /\ w.left = w.right /\ IsTwoHandedItem(w.right)
    /\ \A i \in {w.right, w.left} \ {NoItem} :
          /\ IsTwoHandedItem(i) => w.right = i /\ w.left = i
          /\ Copies(w, i) <= stock[i]

(* What one equip or unequip by the AI can make of the hands; a blocked    *)
(* attempt leaves them alone.                                              *)
AiOutcomes(w, stock) ==
    {w} \cup {EngineUnequip(w, hand) : hand \in Slots}
        \cup UNION {{EngineEquip(w, i, hand, stock[i]) : hand \in {h \in Slots : FitsSlot(i, h)}} :
                    i \in {i \in Item : stock[i] > 0}}

----------------------------------------------------------------------------
(* RestoreSnapshot, one slot at a time: right hand, left hand, ammo.       *)

(* A slot that holds the wrong thing is emptied when nothing is wanted in  *)
(* it or the wanted item is gone, and equipped otherwise.                  *)
ApplySlot(w, slot, want, inv) ==
    IF w[slot] = want \/ IsBound(w[slot]) THEN w
    ELSE IF want = NoItem \/ inv[want] = 0
    THEN EngineUnequip(w, slot)
    ELSE EngineEquip(w, want, slot, inv[want])

(* A torch keeps its hand, and keeps a two-handed item out of the other.   *)
TorchBlocksRight(w, want) == IsTorch(w.right) \/ (IsTorch(w.left) /\ IsTwoHandedItem(want))

RestoreRight(w, s, inv) ==
    IF TorchBlocksRight(w, s.right) THEN w ELSE ApplySlot(w, "right", s.right, inv)

(* Deviation: the left hand is restored under a two-handed item.           *)
RestoreLeftAlways(w, s, inv, skip) ==
    IF IsTorch(w.left) THEN w ELSE ApplySlot(w, "left", s.left, inv)

(* The left hand is skipped when the right one is meant to hold a          *)
(* two-handed item, even one that is missing.                              *)
RestoreLeft(w, s, inv, skip) ==
    IF skip \/ IsTorch(w.left) THEN w ELSE ApplySlot(w, "left", s.left, inv)

(* Deviation: the left hand is skipped for the item worn before.           *)
RestoreSnapshotBySkipWorn(w, s, inv) ==
    LET skipLeft == IsTwoHandedItem(w.right)
    IN ApplySlot(RestoreLeft(RestoreRight(w, s, inv), s, inv, skipLeft), "ammo", s.ammo, inv)

RestoreSnapshot(w, s, inv) ==
    LET skipLeft == IsTwoHandedItem(s.right) /\ ~TorchBlocksRight(w, s.right)
    IN ApplySlot(RestoreLeft(RestoreRight(w, s, inv), s, inv, skipLeft), "ammo", s.ammo, inv)

----------------------------------------------------------------------------
(* A snapshot the follower could wear: a two-handed item leaves the other  *)
(* hand empty and is never recorded as the left one, nor a shield as the   *)
(* right one.                                                              *)
HandsExclusive(s) ==
    /\ IsTwoHandedItem(s.right) => s.left = NoItem
    /\ ~IsTwoHandedItem(s.left)
    /\ ~IsShield(s.right)
============================================================================
