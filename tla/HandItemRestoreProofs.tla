------------------------ MODULE HandItemRestoreProofs ------------------------
(***************************************************************************)
(* Proofs about HandItemRestore, for any followers, items and bounds.      *)
(***************************************************************************)
EXTENDS HandItemRestore, FiniteSetTheorems, SequenceTheorems, TLAPS

----------------------------------------------------------------------------
(* The functions on snapshots.                                             *)

Good(s) == s \in Snapshot /\ HandsExclusive(s)

LEMMA EmptyIsGood == Good(EmptyHands)
  BY NoItemAssumption
  DEF Good, Snapshot, EmptyHands, HandsExclusive, IsTwoHandedItem, IsShield, OfKind

(* A capture of what the player equips keeps the snapshot one the follower *)
(* could wear; a two-handed item never comes as a left-hand one.           *)
LEMMA CaptureEquipGood ==
    ASSUME NEW s, Good(s), NEW i \in Item, NEW left \in BOOLEAN,
           left => ~IsTwoHandedItem(i)
    PROVE  Good(CaptureEquip(s, i, left))
  <1> USE NoItemAssumption, KindAssumption
      DEF Good, Snapshot, HandsExclusive, IsTwoHandedItem, IsAmmo, IsShield, OfKind,
          IsRestorableHandItem, RestorableItem, AmmoItem, Kinds
  <1>1. CASE IsAmmo(i)
    BY <1>1 DEF CaptureEquip
  <1>2. CASE IsRestorableHandItem(i) /\ (left \/ IsShield(i)) /\ ~IsTwoHandedItem(i)
    BY <1>2 DEF CaptureEquip
  <1>3. CASE IsRestorableHandItem(i) /\ ~left /\ ~IsShield(i)
    BY <1>3 DEF CaptureEquip
  <1>4. CASE ~IsAmmo(i) /\ ~IsRestorableHandItem(i)
    BY <1>4 DEF CaptureEquip
  <1> QED
    BY <1>1, <1>2, <1>3, <1>4

LEMMA CaptureUnequipGood ==
    ASSUME NEW s, Good(s), NEW i \in Item, NEW left \in BOOLEAN
    PROVE  Good(CaptureUnequip(s, i, left))
  BY NoItemAssumption, KindAssumption
  DEF Good, Snapshot, HandsExclusive, IsTwoHandedItem, IsShield, OfKind, CaptureUnequip

(* Loading a saved snapshot, entry by entry, gives it back.                *)
LEMMA LoadedGood ==
    ASSUME NEW s, Good(s)
    PROVE  LoadedSnapshot(s) = s
  BY NoItemAssumption, KindAssumption
  DEF Good, Snapshot, LoadedSnapshot, LoadEntry, EmptyHands, IsRestorableHandItem, IsAmmo, OfKind,
      RestorableItem, AmmoItem

----------------------------------------------------------------------------
(* The hands.                                                              *)

(* WearableWith, slot by slot: the forms the engine allows, and enough of  *)
(* everything.                                                             *)
EngineForms(w) ==
    /\ w \in Hands
    /\ w.ammo = NoItem \/ IsAmmo(w.ammo)
    /\ ~IsAmmo(w.right) /\ ~IsAmmo(w.left)
    /\ ~IsShield(w.right) /\ ~IsTorch(w.right)
    /\ IsTwoHandedItem(w.right) \/ IsTwoHandedItem(w.left) => w.right = w.left

Stocked(w, stock) ==
    /\ \A slot \in Slots : w[slot] # NoItem => stock[w[slot]] > 0
    /\ w.right = w.left /\ w.right # NoItem /\ ~IsTwoHandedItem(w.right) => stock[w.right] > 1

Fits(w, stock) == EngineForms(w) /\ Stocked(w, stock)

LEMMA CopiesCount ==
    ASSUME NEW w \in Hands, NEW i \in Item
    PROVE  Copies(w, i) = IF IsTwoHandedItem(i) THEN (IF w.right = i THEN 1 ELSE 0)
                          ELSE IF w.right = i /\ w.left = i THEN 2
                          ELSE IF w.right = i \/ w.left = i THEN 1 ELSE 0
  <1> DEFINE S == {h \in {"right", "left"} : w[h] = i}
  <1>1. Copies(w, i) = IF IsTwoHandedItem(i) THEN (IF w.right = i THEN 1 ELSE 0) ELSE Cardinality(S)
    BY NoItemAssumption DEF Copies
  <1>2. CASE w.right = i /\ w.left = i
    <2>1. S = {"right"} \cup {"left"}
      BY <1>2
    <2>2. Cardinality({"right"}) = 1 /\ IsFiniteSet({"right"})
      BY FS_Singleton
    <2>3. Cardinality({"right"} \cup {"left"}) = Cardinality({"right"}) + 1
      BY <2>2, FS_AddElement
    <2>4. Cardinality(S) = 2
      BY <2>1, <2>2, <2>3
    <2> HIDE DEF S
    <2> QED
      BY <1>1, <1>2, <2>4
  <1>3. CASE w.right = i /\ w.left # i
    <2>1. S = {"right"}
      BY <1>3
    <2>2. Cardinality(S) = 1
      BY <2>1, FS_Singleton
    <2> HIDE DEF S
    <2> QED
      BY <1>1, <1>3, <2>2
  <1>4. CASE w.right # i /\ w.left = i
    <2>1. S = {"left"}
      BY <1>4
    <2>2. Cardinality(S) = 1
      BY <2>1, FS_Singleton
    <2> HIDE DEF S
    <2> QED
      BY <1>1, <1>4, <2>2
  <1>5. CASE w.right # i /\ w.left # i
    <2>1. S = {}
      BY <1>5
    <2>2. Cardinality(S) = 0
      BY <2>1, FS_EmptySet
    <2> HIDE DEF S
    <2> QED
      BY <1>1, <1>5, <2>2
  <1> QED
    BY <1>2, <1>3, <1>4, <1>5

LEMMA WearableIsFormsAndStock ==
    ASSUME NEW w \in Hands, NEW stock \in [Item -> Nat]
    PROVE  WearableWith(w, stock) <=> EngineForms(w) /\ Stocked(w, stock)
  <1> USE NoItemAssumption, KindAssumption
  <1>1. w.right \in Item \cup {NoItem} /\ w.left \in Item \cup {NoItem} /\ w.ammo \in Item \cup {NoItem}
    BY DEF Hands
  <1>2. \A i \in Item : stock[i] \in Nat
    OBVIOUS
  <1>3. ASSUME WearableWith(w, stock) PROVE EngineForms(w)
    BY <1>1, <1>3
    DEF WearableWith, EngineForms, Slots, FitsSlot, IsTwoHandedItem, IsAmmo, IsShield, IsTorch, OfKind
  <1>4. ASSUME WearableWith(w, stock) PROVE Stocked(w, stock)
    <2>1. w.right # NoItem => stock[w.right] > 0
      BY <1>1, <1>4 DEF WearableWith, Slots
    <2>2. w.left # NoItem => stock[w.left] > 0
      BY <1>1, <1>4, <2>1 DEF WearableWith, Slots
    <2>3. w.ammo # NoItem => stock[w.ammo] > 0
      BY <1>1, <1>4 DEF WearableWith, Slots
    <2>4. w.right = w.left /\ w.right # NoItem /\ ~IsTwoHandedItem(w.right) => stock[w.right] > 1
      <3>1. SUFFICES ASSUME w.right = w.left, w.right # NoItem, ~IsTwoHandedItem(w.right)
                     PROVE  stock[w.right] > 1
        OBVIOUS
      <3>2. Copies(w, w.right) = 2
        BY <1>1, <3>1, CopiesCount
      <3>3. Copies(w, w.right) <= stock[w.right]
        BY <1>4, <3>1 DEF WearableWith
      <3> QED
        BY <1>1, <1>2, <3>1, <3>2, <3>3
    <2> QED
      BY <2>1, <2>2, <2>3, <2>4 DEF Stocked, Slots
  <1>5. ASSUME EngineForms(w), Stocked(w, stock) PROVE WearableWith(w, stock)
    <2>1. \A slot \in Slots : w[slot] # NoItem =>
             \/ FitsSlot(w[slot], slot) /\ stock[w[slot]] > 0
             \/ slot = "left" /\ w.left = w.right /\ IsTwoHandedItem(w.right)
      BY <1>1, <1>5
      DEF EngineForms, Stocked, Slots, FitsSlot, IsTwoHandedItem, IsAmmo, IsShield, IsTorch, OfKind
    <2>2. ASSUME NEW i \in {w.right, w.left} \ {NoItem}
          PROVE  (IsTwoHandedItem(i) => w.right = i /\ w.left = i) /\ Copies(w, i) <= stock[i]
      <3>1. i \in Item /\ stock[i] \in Nat
        BY <1>1, <1>2
      <3>2. IsTwoHandedItem(i) => w.right = i /\ w.left = i
        BY <1>5 DEF EngineForms
      <3>3. stock[i] > 0
        BY <1>5, <2>2 DEF Stocked, Slots
      <3>4. Copies(w, i) \in {0, 1} \/ (Copies(w, i) = 2 /\ w.right = i /\ w.left = i /\ ~IsTwoHandedItem(i))
        BY <3>1, CopiesCount
      <3>5. w.right = i /\ w.left = i /\ ~IsTwoHandedItem(i) => stock[i] > 1
        BY <1>5, <3>1 DEF Stocked
      <3> QED
        BY <3>1, <3>2, <3>3, <3>4, <3>5
    <2> QED
      BY <2>1, <2>2 DEF WearableWith
  <1> QED
    BY <1>3, <1>4, <1>5

(* The engine's operations and each step of a restore keep both.           *)
LEMMA UnequipFits ==
    ASSUME NEW w, EngineForms(w), NEW stock \in [Item -> Nat], Stocked(w, stock), NEW slot \in Slots
    PROVE  EngineForms(EngineUnequip(w, slot)) /\ Stocked(EngineUnequip(w, slot), stock)
  <1> USE NoItemAssumption, KindAssumption
      DEF EngineForms, Stocked, Hands, Slots, EngineUnequip, FreeHand, IsTwoHandedItem, IsAmmo, IsShield,
          IsTorch, OfKind
  <1>1. CASE slot = "ammo"
    BY <1>1
  <1>2. CASE slot = "right"
    BY <1>2
  <1>3. CASE slot = "left"
    BY <1>3
  <1> QED
    BY <1>1, <1>2, <1>3

LEMMA EquipFits ==
    ASSUME NEW w, EngineForms(w), NEW stock \in [Item -> Nat], Stocked(w, stock), NEW slot \in Slots,
           NEW i \in Item, FitsSlot(i, slot), stock[i] > 0
    PROVE  EngineForms(EngineEquip(w, i, slot, stock[i])) /\ Stocked(EngineEquip(w, i, slot, stock[i]), stock)
  <1> USE NoItemAssumption, KindAssumption
  <1>0. stock[i] \in Nat
    OBVIOUS
  <1>1. CASE slot = "ammo"
    BY <1>1 DEF EngineForms, Stocked, Hands, Slots, EngineEquip, FitsSlot, IsTwoHandedItem, IsAmmo, OfKind
  <1>2. CASE slot # "ammo" /\ IsTwoHandedItem(i)
    BY <1>2
    DEF EngineForms, Stocked, Hands, Slots, EngineEquip, IsTwoHandedItem, IsAmmo, IsShield, IsTorch, OfKind
  <1>3. CASE slot # "ammo" /\ ~IsTwoHandedItem(i)
    <2> DEFINE free == FreeHand(w, slot)
               x == EngineEquip(w, i, slot, stock[i])
    <2>1. EngineForms(free) /\ Stocked(free, stock)
      BY <1>3, UnequipFits DEF EngineUnequip
    <2>2. ~IsTwoHandedItem(free.right) /\ ~IsTwoHandedItem(free.left)
      BY <1>3 DEF EngineForms, Hands, Slots, FreeHand, IsTwoHandedItem, OfKind
    <2>3. x = [free EXCEPT ![slot] = i,
                           ![OtherHand(slot)] = IF @ = i /\ stock[i] = 1 THEN NoItem ELSE @]
      BY <1>3 DEF EngineEquip
    <2> HIDE DEF free
    <2>4. x.ammo = free.ammo /\ x \in Hands
      BY <1>3, <2>1, <2>3 DEF EngineForms, Hands, Slots, OtherHand
    <2>5. CASE slot = "right"
      <3>1. x.right = i /\ x.left = IF free.left = i /\ stock[i] = 1 THEN NoItem ELSE free.left
        BY <2>1, <2>3, <2>5 DEF EngineForms, Hands, OtherHand
      <3>2. EngineForms(x)
        BY <1>3, <2>1, <2>2, <2>4, <2>5, <3>1
        DEF EngineForms, FitsSlot, IsTwoHandedItem, IsAmmo, IsShield, IsTorch, OfKind
      <3> HIDE DEF x
      <3>3. Stocked(x, stock)
        BY <1>0, <1>3, <2>1, <2>4, <3>1 DEF Stocked, Slots
      <3> QED
        BY <3>2, <3>3 DEF x
    <2>6. CASE slot = "left"
      <3>1. x.left = i /\ x.right = IF free.right = i /\ stock[i] = 1 THEN NoItem ELSE free.right
        BY <2>1, <2>3, <2>6 DEF EngineForms, Hands, OtherHand
      <3>2. EngineForms(x)
        BY <1>3, <2>1, <2>2, <2>4, <2>6, <3>1
        DEF EngineForms, FitsSlot, IsTwoHandedItem, IsAmmo, IsShield, IsTorch, OfKind
      <3> HIDE DEF x
      <3>3. Stocked(x, stock)
        BY <1>0, <1>3, <2>1, <2>4, <3>1 DEF Stocked, Slots
      <3> QED
        BY <3>2, <3>3 DEF x
    <2> QED
      BY <1>3, <2>5, <2>6 DEF Slots
  <1> QED
    BY <1>1, <1>2, <1>3

LEMMA ApplySlotFits ==
    ASSUME NEW w, EngineForms(w), NEW stock \in [Item -> Nat], Stocked(w, stock), NEW slot \in Slots,
           NEW want, want # NoItem => want \in Item /\ FitsSlot(want, slot)
    PROVE  EngineForms(ApplySlot(w, slot, want, stock)) /\ Stocked(ApplySlot(w, slot, want, stock), stock)
  <1>1. EngineForms(EngineUnequip(w, slot)) /\ Stocked(EngineUnequip(w, slot), stock)
    BY UnequipFits
  <1>2. ASSUME want # NoItem, stock[want] # 0
        PROVE  /\ EngineForms(EngineEquip(w, want, slot, stock[want]))
               /\ Stocked(EngineEquip(w, want, slot, stock[want]), stock)
    <2>1. stock[want] > 0
      BY <1>2
    <2> QED
      BY <1>2, <2>1, EquipFits
  <1> QED
    BY <1>1, <1>2 DEF ApplySlot

LEMMA GoodWants ==
    ASSUME NEW s, Good(s)
    PROVE  /\ s.right # NoItem => s.right \in Item /\ FitsSlot(s.right, "right")
           /\ s.left # NoItem => s.left \in Item /\ FitsSlot(s.left, "left")
           /\ s.ammo # NoItem => s.ammo \in Item /\ FitsSlot(s.ammo, "ammo")
  BY KindAssumption
  DEF Good, Snapshot, HandsExclusive, FitsSlot, IsTwoHandedItem, IsAmmo, IsShield, IsTorch, OfKind,
      RestorableItem, AmmoItem

(* The state between the steps of a restore, and what comes of it.         *)
LEMMA RestoreFits ==
    ASSUME NEW w, EngineForms(w), NEW s, Good(s), NEW stock \in [Item -> Nat], Stocked(w, stock)
    PROVE  EngineForms(RestoreSnapshot(w, s, stock)) /\ Stocked(RestoreSnapshot(w, s, stock), stock)
  <1> DEFINE skip == IsTwoHandedItem(s.right) /\ ~TorchBlocksRight(w, s.right)
             w1 == RestoreRight(w, s, stock)
             w2 == RestoreLeft(w1, s, stock, skip)
  <1>1. EngineForms(w1) /\ Stocked(w1, stock)
    BY GoodWants, ApplySlotFits DEF RestoreRight, Slots
  <1>2. EngineForms(w2) /\ Stocked(w2, stock)
    BY <1>1, GoodWants, ApplySlotFits DEF RestoreLeft, Slots
  <1>3. EngineForms(ApplySlot(w2, "ammo", s.ammo, stock)) /\ Stocked(ApplySlot(w2, "ammo", s.ammo, stock), stock)
    BY <1>2, GoodWants, ApplySlotFits DEF Slots
  <1> QED
    BY <1>3 DEF RestoreSnapshot

(* What one slot of a restore leaves behind: the bound weapon that was in  *)
(* it, what was wanted, or nothing when that is not to be had.             *)
SlotDone(x, slot, want, stock) ==
    \/ IsBound(x[slot]) \/ x[slot] = want
    \/ x[slot] = NoItem /\ (want = NoItem \/ stock[want] = 0)

(* Restoring the right hand: a bound weapon stays, and only a two-handed   *)
(* item takes a torch or a bound weapon from the left one.                 *)
LEMMA RightEffect ==
    ASSUME NEW w, EngineForms(w), NEW stock \in [Item -> Nat],
           NEW want \in RestorableItem \cup {NoItem}
    PROVE  LET x == ApplySlot(w, "right", want, stock)
           IN /\ x \in Hands /\ x.ammo = w.ammo
              /\ IsBound(w.right) \/ IsBound(x.right) => x = w
              /\ SlotDone(x, "right", want, stock)
              /\ (IsTorch(w.left) \/ IsBound(w.left)) /\ ~IsTwoHandedItem(want) => x.left = w.left
              /\ IF IsTwoHandedItem(want) /\ x.right = want THEN x.left = want
                 ELSE x.left \in {w.left, NoItem}
  <1> USE NoItemAssumption, KindAssumption
      DEF EngineForms, Hands, SlotDone, ApplySlot, EngineUnequip, EngineEquip, FreeHand, OtherHand,
          IsTwoHandedItem, IsBound, IsTorch, OfKind, RestorableItem
  <1>1. CASE w.right = want \/ IsBound(w.right)
    BY <1>1
  <1>2. CASE ~(w.right = want \/ IsBound(w.right)) /\ (want = NoItem \/ stock[want] = 0)
    BY <1>2
  <1>3. CASE ~(w.right = want \/ IsBound(w.right)) /\ ~(want = NoItem \/ stock[want] = 0) /\ IsTwoHandedItem(want)
    BY <1>3
  <1>4. CASE ~(w.right = want \/ IsBound(w.right)) /\ ~(want = NoItem \/ stock[want] = 0) /\ ~IsTwoHandedItem(want)
    BY <1>4
  <1> QED
    BY <1>1, <1>2, <1>3, <1>4

(* Restoring the left hand leaves the right one alone, except that the one *)
(* copy of an item wanted in both moves over.                              *)
LEMMA LeftEffect ==
    ASSUME NEW w, EngineForms(w), NEW stock \in [Item -> Nat],
           NEW want \in RestorableItem \cup {NoItem}, ~IsTwoHandedItem(want), ~IsTwoHandedItem(w.right)
    PROVE  LET x == ApplySlot(w, "left", want, stock)
           IN /\ x \in Hands /\ x.ammo = w.ammo
              /\ IsBound(w.left) \/ IsBound(x.left) => x = w
              /\ SlotDone(x, "left", want, stock)
              /\ \/ x.right = w.right
                 \/ want # NoItem /\ w.right = want /\ x.left = want /\ x.right = NoItem /\ stock[want] = 1
  <1> USE NoItemAssumption, KindAssumption
      DEF EngineForms, Hands, SlotDone, ApplySlot, EngineUnequip, EngineEquip, FreeHand, OtherHand,
          IsTwoHandedItem, IsBound, IsTorch, OfKind, RestorableItem
  <1>1. CASE w.left = want \/ IsBound(w.left)
    BY <1>1
  <1>2. CASE ~(w.left = want \/ IsBound(w.left)) /\ (want = NoItem \/ stock[want] = 0)
    BY <1>2
  <1>3. CASE ~(w.left = want \/ IsBound(w.left)) /\ ~(want = NoItem \/ stock[want] = 0)
    BY <1>3
  <1> QED
    BY <1>1, <1>2, <1>3

LEMMA AmmoEffect ==
    ASSUME NEW w, EngineForms(w), NEW stock \in [Item -> Nat], NEW want \in AmmoItem \cup {NoItem}
    PROVE  LET x == ApplySlot(w, "ammo", want, stock)
           IN /\ x \in Hands /\ x.right = w.right /\ x.left = w.left
              /\ SlotDone(x, "ammo", want, stock)
  BY NoItemAssumption, KindAssumption
  DEF EngineForms, Hands, SlotDone, ApplySlot, EngineUnequip, EngineEquip, IsBound, OfKind, AmmoItem

(* A slot that is done is left alone.                                      *)
LEMMA DoneIsQuiet ==
    ASSUME NEW x \in Hands, NEW slot \in Slots, NEW stock \in [Item -> Nat], NEW want,
           SlotDone(x, slot, want, stock)
    PROVE  ApplySlot(x, slot, want, stock) = x
  BY NoItemAssumption DEF SlotDone, ApplySlot, EngineUnequip, FreeHand, Hands, Slots

(* Both hands hold the one copy of an item in turn: the left one keeps it. *)
OneCopyInLeft(x, s, stock) ==
    /\ s.right # NoItem /\ s.left = s.right /\ stock[s.right] = 1
    /\ x.right = NoItem /\ x.left = s.right

RestoreHands(w, s, stock) ==
    RestoreLeft(RestoreRight(w, s, stock), s, stock, IsTwoHandedItem(s.right) /\ ~TorchBlocksRight(w, s.right))

(* What the two hands of a restore leave behind.                           *)
LEMMA HandsEffect ==
    ASSUME NEW w, EngineForms(w), NEW s, Good(s), NEW stock \in [Item -> Nat], Stocked(w, stock)
    PROVE  LET x == RestoreHands(w, s, stock)
           IN /\ EngineForms(x)
              /\ x.ammo = w.ammo
              /\ \/ OneCopyInLeft(x, s, stock)
                 \/ /\ TorchBlocksRight(x, s.right) \/ SlotDone(x, "right", s.right, stock)
                    /\ \/ IsTwoHandedItem(s.right) /\ ~TorchBlocksRight(x, s.right)
                       \/ IsTorch(x.left) \/ SlotDone(x, "left", s.left, stock)
              /\ IsBound(w.right) => x.right = w.right
              /\ IsTorch(w.left) \/ (IsBound(w.left) /\ ~IsTwoHandedItem(s.right)) => x.left = w.left
  <1> DEFINE skip == IsTwoHandedItem(s.right) /\ ~TorchBlocksRight(w, s.right)
             w1 == RestoreRight(w, s, stock)
             x == RestoreLeft(w1, s, stock, skip)
  <1>1. EngineForms(w1) /\ Stocked(w1, stock)
    BY GoodWants, ApplySlotFits DEF RestoreRight, Slots
  <1>2. EngineForms(x)
    BY <1>1, GoodWants, ApplySlotFits DEF RestoreLeft, Slots
  <1>3. s.right \in RestorableItem \cup {NoItem} /\ s.left \in RestorableItem \cup {NoItem}
          /\ ~IsTwoHandedItem(s.left)
    BY DEF Good, Snapshot, HandsExclusive
  <1>4. ~IsTorch(w.right) /\ ~IsTorch(w1.right) /\ ~IsTorch(x.right)
    BY <1>1, <1>2 DEF EngineForms
  <1>5. CASE TorchBlocksRight(w, s.right)
    <2>1. IsTorch(w.left) /\ IsTwoHandedItem(s.right) /\ w1 = w
      BY <1>4, <1>5 DEF TorchBlocksRight, RestoreRight
    <2>2. x = w
      BY <2>1 DEF RestoreLeft
    <2> HIDE DEF x, w1
    <2>3. RestoreHands(w, s, stock) = x
      BY DEF RestoreHands, x, w1
    <2> QED
      BY <1>2, <1>5, <2>1, <2>2, <2>3
  <1>6. CASE ~TorchBlocksRight(w, s.right) /\ IsTwoHandedItem(s.right)
    <2>1. w1 = ApplySlot(w, "right", s.right, stock) /\ x = w1
      BY <1>6 DEF RestoreRight, RestoreLeft
    <2>2. /\ w1.ammo = w.ammo /\ SlotDone(w1, "right", s.right, stock)
          /\ IsBound(w.right) => w1 = w
      BY <1>3, <2>1, RightEffect
    <2>3. ~IsTorch(w.left)
      BY <1>6 DEF TorchBlocksRight
    <2> HIDE DEF x, w1
    <2>4. RestoreHands(w, s, stock) = x
      BY DEF RestoreHands, x, w1
    <2> QED
      BY <1>2, <1>4, <1>6, <2>1, <2>2, <2>3, <2>4 DEF TorchBlocksRight
  <1>7. CASE ~TorchBlocksRight(w, s.right) /\ ~IsTwoHandedItem(s.right)
    <2>1. w1 = ApplySlot(w, "right", s.right, stock)
      BY <1>7 DEF RestoreRight
    <2>2. /\ w1.ammo = w.ammo /\ SlotDone(w1, "right", s.right, stock)
          /\ IsBound(w.right) \/ IsBound(w1.right) => w1 = w
          /\ IsTorch(w.left) \/ IsBound(w.left) => w1.left = w.left
      BY <1>3, <1>7, <2>1, RightEffect
    <2>3. IsTwoHandedItem(w1.right) => IsBound(w1.right) /\ w1 = w /\ w.left = w.right
      BY <1>7, <2>2, NoItemAssumption DEF SlotDone, IsTwoHandedItem, EngineForms
    <2>4. x = IF IsTorch(w1.left) THEN w1 ELSE ApplySlot(w1, "left", s.left, stock)
      BY <1>7 DEF RestoreLeft
    <2> HIDE DEF x, w1
    <2>5. RestoreHands(w, s, stock) = x
      BY DEF RestoreHands, x, w1
    <2>6. CASE IsTorch(w1.left)
      BY <1>2, <1>7, <2>2, <2>4, <2>5, <2>6 DEF SlotDone
    <2>7. CASE IsTwoHandedItem(w1.right)
      <3>1. x = w1 /\ IsBound(w1.left)
        BY <2>3, <2>4, <2>7 DEF ApplySlot
      <3> QED
        BY <1>2, <1>7, <2>2, <2>3, <2>5, <2>7, <3>1 DEF SlotDone
    <2>8. CASE ~IsTorch(w1.left) /\ ~IsTwoHandedItem(w1.right)
      <3>1. /\ x.ammo = w1.ammo
            /\ IsBound(w1.left) => x = w1
            /\ SlotDone(x, "left", s.left, stock)
            /\ \/ x.right = w1.right
               \/ /\ s.left # NoItem /\ w1.right = s.left /\ x.left = s.left
                  /\ x.right = NoItem /\ stock[s.left] = 1
        BY <1>1, <1>3, <2>4, <2>8, LeftEffect
      <3>2. CASE x.right = w1.right
        BY <1>2, <1>7, <2>2, <2>5, <2>8, <3>1, <3>2 DEF SlotDone
      <3>3. CASE s.left # NoItem /\ w1.right = s.left /\ x.left = s.left /\ x.right = NoItem /\ stock[s.left] = 1
        <4>1. ~IsBound(s.left)
          BY <1>3, NoItemAssumption DEF IsBound, OfKind, RestorableItem
        <4>2. s.right = s.left
          BY <2>2, <3>3, <4>1 DEF SlotDone
        <4>3. ~IsBound(w.right)
          BY <2>2, <3>3, <4>1
        <4> QED
          BY <1>2, <1>7, <2>2, <2>5, <2>8, <3>1, <3>3, <4>2, <4>3 DEF OneCopyInLeft
      <3> QED
        BY <3>1, <3>2, <3>3
    <2> QED
      BY <2>6, <2>7, <2>8
  <1> QED
    BY <1>5, <1>6, <1>7

LEMMA RestoreIsHandsAndAmmo ==
    ASSUME NEW w, NEW s, NEW stock
    PROVE  RestoreSnapshot(w, s, stock) = ApplySlot(RestoreHands(w, s, stock), "ammo", s.ammo, stock)
  BY DEF RestoreSnapshot, RestoreHands

(* With nothing left to do a restore does nothing.                         *)
LEMMA QuietRestore ==
    ASSUME NEW x, EngineForms(x), NEW s, Good(s), NEW stock \in [Item -> Nat],
           SlotDone(x, "ammo", s.ammo, stock),
           \/ OneCopyInLeft(x, s, stock)
           \/ /\ TorchBlocksRight(x, s.right) \/ SlotDone(x, "right", s.right, stock)
              /\ \/ IsTwoHandedItem(s.right) /\ ~TorchBlocksRight(x, s.right)
                 \/ IsTorch(x.left) \/ SlotDone(x, "left", s.left, stock)
    PROVE  RestoreSnapshot(x, s, stock) = x
  <1>0. x \in Hands
    BY DEF EngineForms
  <1>1. RestoreHands(x, s, stock) = x
    <2>1. CASE OneCopyInLeft(x, s, stock)
      <3> USE NoItemAssumption, KindAssumption
      <3>1. s.right \in RestorableItem /\ ~IsTwoHandedItem(s.right) /\ ~IsTorch(s.right)
              /\ ~IsTwoHandedItem(NoItem) /\ ~IsTorch(NoItem) /\ ~IsBound(NoItem) /\ ~IsBound(s.right)
        BY <2>1 DEF OneCopyInLeft, Good, Snapshot, HandsExclusive, IsTwoHandedItem, IsTorch, IsBound, OfKind,
                    RestorableItem
      <3> DEFINE y == [x EXCEPT !.right = s.right, !.left = NoItem]
      <3>2. RestoreRight(x, s, stock) = y
        BY <1>0, <2>1, <3>1
        DEF RestoreRight, TorchBlocksRight, ApplySlot, EngineEquip, FreeHand, OtherHand, OneCopyInLeft, Hands
      <3>3. y \in Hands /\ y.right = s.right /\ y.left = NoItem /\ y.ammo = x.ammo
        BY <1>0, <3>1 DEF Hands, RestorableItem
      <3> HIDE DEF y
      <3>4. RestoreLeft(y, s, stock, FALSE) = x
        <4>1. RestoreLeft(y, s, stock, FALSE) = EngineEquip(y, s.left, "left", 1)
          BY <2>1, <3>1, <3>3 DEF RestoreLeft, ApplySlot, OneCopyInLeft
        <4>2. FreeHand(y, "left") = y
          BY <3>3 DEF FreeHand, Hands
        <4>3. EngineEquip(y, s.left, "left", 1) = [y EXCEPT !.left = s.right, !.right = NoItem]
          BY <2>1, <3>1, <3>3, <4>2 DEF EngineEquip, OtherHand, OneCopyInLeft, Hands
        <4> QED
          BY <1>0, <2>1, <3>3, <4>1, <4>3 DEF OneCopyInLeft, Hands
      <3> QED
        BY <3>1, <3>2, <3>4 DEF RestoreHands
    <2>2. CASE ~OneCopyInLeft(x, s, stock)
      <3>1. RestoreRight(x, s, stock) = x
        BY <1>0, <2>2, DoneIsQuiet DEF RestoreRight, Slots
      <3>2. RestoreLeft(x, s, stock, IsTwoHandedItem(s.right) /\ ~TorchBlocksRight(x, s.right)) = x
        BY <1>0, <2>2, DoneIsQuiet DEF RestoreLeft, Slots
      <3> QED
        BY <3>1, <3>2 DEF RestoreHands
    <2> QED
      BY <2>1, <2>2
  <1>2. ApplySlot(x, "ammo", s.ammo, stock) = x
    BY <1>0, DoneIsQuiet DEF Slots
  <1> QED
    BY <1>1, <1>2, RestoreIsHandsAndAmmo

(* A baseline leaves out torches, bound weapons and the second half of a   *)
(* two-handed item.                                                        *)
LEMMA BaselineGood ==
    ASSUME NEW w, EngineForms(w)
    PROVE  Good(Baseline(w))
  BY NoItemAssumption, KindAssumption
  DEF Good, Hands, Snapshot, HandsExclusive, IsTwoHandedItem, IsShield, IsAmmo, OfKind, Baseline,
      IsRestorableHandItem, RestorableItem, AmmoItem, EngineForms

----------------------------------------------------------------------------
(* What a restore promises, whatever fits the hands and the snapshot.      *)
LEMMA RestoreSettles ==
    ASSUME NEW w, NEW s, Good(s), NEW stock \in [Item -> Nat], Fits(w, stock)
    PROVE  LET once == RestoreSnapshot(w, s, stock) IN RestoreSnapshot(once, s, stock) = once
  <1> DEFINE h == RestoreHands(w, s, stock)
             x == ApplySlot(h, "ammo", s.ammo, stock)
  <1>1. /\ EngineForms(h)
        /\ \/ OneCopyInLeft(h, s, stock)
           \/ /\ TorchBlocksRight(h, s.right) \/ SlotDone(h, "right", s.right, stock)
              /\ \/ IsTwoHandedItem(s.right) /\ ~TorchBlocksRight(h, s.right)
                 \/ IsTorch(h.left) \/ SlotDone(h, "left", s.left, stock)
    BY HandsEffect DEF Fits
  <1>2. s.ammo \in AmmoItem \cup {NoItem}
    BY DEF Good, Snapshot
  <1> HIDE DEF h
  <1>3. x.right = h.right /\ x.left = h.left /\ SlotDone(x, "ammo", s.ammo, stock)
    BY <1>1, <1>2, AmmoEffect
  <1>4. x = RestoreSnapshot(w, s, stock)
    BY RestoreIsHandsAndAmmo DEF h
  <1>5. EngineForms(x)
    BY <1>4, RestoreFits DEF Fits
  <1> HIDE DEF x
  <1>6. \/ OneCopyInLeft(x, s, stock)
        \/ /\ TorchBlocksRight(x, s.right) \/ SlotDone(x, "right", s.right, stock)
           /\ \/ IsTwoHandedItem(s.right) /\ ~TorchBlocksRight(x, s.right)
              \/ IsTorch(x.left) \/ SlotDone(x, "left", s.left, stock)
    BY <1>1, <1>3 DEF OneCopyInLeft, TorchBlocksRight, SlotDone
  <1>7. RestoreSnapshot(x, s, stock) = x
    BY <1>3, <1>5, <1>6, QuietRestore
  <1> QED
    BY <1>4, <1>7

LEMMA RestoreSpares ==
    ASSUME NEW w, NEW s, Good(s), NEW stock \in [Item -> Nat], Fits(w, stock), NEW h \in {"right", "left"},
           \/ IsTorch(w[h])
           \/ IsBound(w[h]) /\ (h = "right" \/ ~IsTwoHandedItem(s.right))
    PROVE  RestoreSnapshot(w, s, stock)[h] = w[h]
  <1> DEFINE x == RestoreHands(w, s, stock)
  <1>1. /\ EngineForms(x)
        /\ IsBound(w.right) => x.right = w.right
        /\ IsTorch(w.left) \/ (IsBound(w.left) /\ ~IsTwoHandedItem(s.right)) => x.left = w.left
    BY HandsEffect DEF Fits
  <1>2. ~IsTorch(w.right)
    BY DEF Fits, EngineForms
  <1>3. s.ammo \in AmmoItem \cup {NoItem}
    BY DEF Good, Snapshot
  <1> HIDE DEF x
  <1>4. /\ ApplySlot(x, "ammo", s.ammo, stock).right = x.right
        /\ ApplySlot(x, "ammo", s.ammo, stock).left = x.left
    BY <1>1, <1>3, AmmoEffect
  <1>5. RestoreSnapshot(w, s, stock) = ApplySlot(x, "ammo", s.ammo, stock)
    BY RestoreIsHandsAndAmmo DEF x
  <1> QED
    BY <1>1, <1>2, <1>4, <1>5

LEMMA RestoreReaches ==
    ASSUME NEW w, NEW s, Good(s), NEW stock \in [Item -> Nat], Fits(w, stock),
           \A h \in {"right", "left"} : ~IsTorch(w[h]) /\ ~IsBound(w[h]),
           \A i \in Item : Copies(s, i) <= stock[i],
           s.ammo # NoItem => stock[s.ammo] > 0
    PROVE  RestoreSnapshot(w, s, stock) = WornForm(s)
  <1> DEFINE skip == IsTwoHandedItem(s.right)
             w1 == RestoreRight(w, s, stock)
             x == RestoreLeft(w1, s, stock, skip)
  <1>0. s \in Hands /\ s.right \in RestorableItem \cup {NoItem} /\ s.left \in RestorableItem \cup {NoItem}
          /\ s.ammo \in AmmoItem \cup {NoItem} /\ ~IsTwoHandedItem(s.left)
          /\ (IsTwoHandedItem(s.right) => s.left = NoItem)
    BY DEF Good, Snapshot, Hands, HandsExclusive, RestorableItem, AmmoItem
  <1>1. /\ s.right # NoItem => stock[s.right] > 0
        /\ s.left # NoItem => stock[s.left] > 0
        /\ s.right = s.left /\ s.right # NoItem => stock[s.right] > 1
    <2>1. ASSUME NEW i \in Item PROVE stock[i] \in Nat /\ Copies(s, i) <= stock[i]
      OBVIOUS
    <2>2. s.right # NoItem => s.right \in Item /\ (IF s.left = s.right THEN stock[s.right] > 1 ELSE stock[s.right] > 0)
      <3>1. SUFFICES ASSUME s.right \in Item
                     PROVE  IF s.left = s.right THEN stock[s.right] > 1 ELSE stock[s.right] > 0
        BY <1>0 DEF RestorableItem
      <3>2. Copies(s, s.right) = IF s.left = s.right THEN 2 ELSE 1
        BY <1>0, <3>1, CopiesCount, NoItemAssumption DEF IsTwoHandedItem, OfKind
      <3> QED
        BY <2>1, <3>1, <3>2
    <2>3. s.left # NoItem => stock[s.left] > 0
      <3>1. SUFFICES ASSUME s.left \in Item PROVE stock[s.left] > 0
        BY <1>0 DEF RestorableItem
      <3>2. Copies(s, s.left) \in {1, 2}
        BY <1>0, <3>1, CopiesCount
      <3> QED
        BY <2>1, <3>1, <3>2
    <2> QED
      BY <2>1, <2>2, <2>3
  <1>2. ~TorchBlocksRight(w, s.right) /\ w1 = ApplySlot(w, "right", s.right, stock)
    BY DEF TorchBlocksRight, RestoreRight
  <1>3. /\ w1 \in Hands
        /\ IsBound(w.right) \/ IsBound(w1.right) => w1 = w
        /\ SlotDone(w1, "right", s.right, stock)
        /\ IF IsTwoHandedItem(s.right) /\ w1.right = s.right THEN w1.left = s.right
           ELSE w1.left \in {w.left, NoItem}
    BY <1>0, <1>2, RightEffect DEF Fits
  <1>4. EngineForms(w1)
    BY <1>2, GoodWants, ApplySlotFits DEF Fits, Slots
  <1>5. w1.right = s.right
    BY <1>1, <1>3 DEF SlotDone
  <1>6. Stocked(w1, stock)
    BY <1>2, GoodWants, ApplySlotFits DEF Fits, Slots
  <1>7. EngineForms(x) /\ x.right = s.right /\ x.left = WornForm(s).left
    <2>1. CASE IsTwoHandedItem(s.right)
      BY <1>0, <1>3, <1>4, <1>5, <2>1 DEF RestoreLeft, WornForm, Hands
    <2>2. CASE ~IsTwoHandedItem(s.right)
      <3>1. ~IsTorch(w1.left) /\ ~IsBound(w1.left)
        BY <1>3, <2>2, NoItemAssumption DEF IsTorch, IsBound, OfKind
      <3>2. x = ApplySlot(w1, "left", s.left, stock)
        BY <2>2, <3>1 DEF RestoreLeft
      <3> HIDE DEF w1, x
      <3>3. EngineForms(x)
        BY <1>4, <1>6, <3>2, GoodWants, ApplySlotFits DEF Slots
      <3>4. /\ x \in Hands
            /\ IsBound(x.left) => x = w1
            /\ SlotDone(x, "left", s.left, stock)
            /\ \/ x.right = w1.right
               \/ s.left # NoItem /\ w1.right = s.left /\ stock[s.left] = 1
        BY <1>0, <1>4, <1>5, <2>2, <3>2, LeftEffect
      <3>5. x.right = s.right
        BY <1>1, <1>5, <3>4
      <3>6. x.left = s.left
        BY <1>1, <3>1, <3>4 DEF SlotDone
      <3> QED
        BY <2>2, <3>3, <3>5, <3>6 DEF WornForm
    <2> QED
      BY <2>1, <2>2
  <1> HIDE DEF w1, x
  <1>8. /\ ApplySlot(x, "ammo", s.ammo, stock) \in Hands
        /\ ApplySlot(x, "ammo", s.ammo, stock).right = s.right
        /\ ApplySlot(x, "ammo", s.ammo, stock).left = WornForm(s).left
        /\ SlotDone(ApplySlot(x, "ammo", s.ammo, stock), "ammo", s.ammo, stock)
    BY <1>0, <1>7, AmmoEffect
  <1>9. RestoreSnapshot(w, s, stock) = ApplySlot(x, "ammo", s.ammo, stock)
    <2>1. RestoreLeft(w1, s, stock, skip /\ ~TorchBlocksRight(w, s.right)) = x
      BY <1>2 DEF RestoreLeft, x
    <2> QED
      BY <2>1 DEF RestoreSnapshot, w1
  <1> DEFINE y == ApplySlot(x, "ammo", s.ammo, stock)
  <1>10. y.ammo = s.ammo
    <2>1. EngineForms(y)
      BY <1>9, RestoreFits DEF Fits
    <2>2. ~IsBound(y.ammo)
      BY <2>1, KindAssumption, NoItemAssumption DEF EngineForms, IsBound, IsAmmo, OfKind
    <2>3. SlotDone(y, "ammo", s.ammo, stock)
      BY <1>8
    <2> HIDE DEF y
    <2> QED
      BY <2>2, <2>3 DEF SlotDone
  <1>11. WornForm(s) \in Hands /\ WornForm(s).right = s.right /\ WornForm(s).ammo = s.ammo
    BY <1>0 DEF WornForm, Hands
  <1>12. y \in Hands /\ y.right = s.right /\ y.left = WornForm(s).left
    BY <1>8
  <1> HIDE DEF y
  <1>13. y = WornForm(s)
    BY <1>10, <1>11, <1>12 DEF Hands
  <1> QED
    BY <1>9, <1>13 DEF y

----------------------------------------------------------------------------
(* The inductive invariant.  That a baseline is a snapshot the follower    *)
(* could wear rests on what the engine lets it wear, and what a restore    *)
(* promises on the worn items being carried, so the worn hands are part of *)
(* it, with the stock.                                                     *)
SnapsGood == \A a \in Actor : Good(snap[a]) /\ Good(saved[a])
WornGood == \A a \in Actor : Fits(worn[a], inv[a])
IInv == TypeOK /\ SnapsGood /\ WornGood

LEMMA EmptyFits ==
    ASSUME NEW stock
    PROVE  Fits(EmptyHands, stock) /\ EmptyHands \in Hands
  BY NoItemAssumption, KindAssumption
  DEF Fits, EngineForms, Stocked, Hands, EmptyHands, Slots, IsTwoHandedItem, IsShield, IsTorch,
      IsAmmo, OfKind

LEMMA InitInv == Init => IInv
  <1> SUFFICES ASSUME Init PROVE IInv
    OBVIOUS
  <1>1. EmptyHands \in Snapshot /\ EmptyHands \in Hands
    BY EmptyIsGood, EmptyFits DEF Good
  <1>2. SnapsGood /\ WornGood
    BY EmptyFits, EmptyIsGood DEF Init, SnapsGood, WornGood
  <1>3. inv \in [Actor -> [Item -> Nat]] /\ \A a \in Actor, i \in Item : inv[a][i] <= MaxCopies[i]
    BY BoundAssumption DEF Init
  <1>4. tasks \in Seq(Task)
    BY DEF Init
  <1> QED
    BY <1>1, <1>2, <1>3, <1>4 DEF Init, IInv, TypeOK

(* A request only touches the sets and the task queue.                     *)
LEMMA QueueType ==
    ASSUME TypeOK, NEW a \in Actor, QueuePendingRestore(a) \/ UNCHANGED <<pending, tasks>>
    PROVE  pending' \subseteq Actor /\ tasks' \in Seq(Task)
  <1>1. RestoreTask(a) \in Task
    BY DEF RestoreTask, Task
  <1>2. CASE a \in pending \/ UNCHANGED <<pending, tasks>>
    BY <1>2 DEF TypeOK, QueuePendingRestore
  <1>3. CASE pending' = pending \cup {a} /\ tasks' = Append(tasks, RestoreTask(a))
    <2>1. Append(tasks, RestoreTask(a)) \in Seq(Task)
      BY <1>1 DEF TypeOK
    <2> QED
      BY <1>3, <2>1 DEF TypeOK
  <1> QED
    BY <1>2, <1>3 DEF QueuePendingRestore

LEMMA CloseMenuType ==
    ASSUME TypeOK, CloseMenu
    PROVE  pending' \subseteq Actor /\ menuClose' \subseteq Actor /\ tasks' \in Seq(Task)
  <1> DEFINE new == IF Active THEN menuClose \ pending ELSE {}
             n == Cardinality(new)
  <1>1. new \subseteq Actor
    BY DEF TypeOK
  <1>2. n \in Nat
    BY <1>1, FiniteActors, FS_Subset, FS_CardinalityType
  <1>3. PICK q \in [1..n -> new] : tasks' = tasks \o [k \in 1..n |-> RestoreTask(q[k])]
    BY DEF CloseMenu
  <1>4. [k \in 1..n |-> RestoreTask(q[k])] \in Seq(Task)
    <2>1. \A k \in 1..n : RestoreTask(q[k]) \in Task
      BY <1>1 DEF RestoreTask, Task
    <2>2. [k \in 1..n |-> RestoreTask(q[k])] \in [1..n -> Task]
      BY <2>1
    <2>3. [1..n -> Task] \subseteq Seq(Task)
      <3> HIDE DEF n
      <3> QED
        BY <1>2, SeqDef
    <2> HIDE DEF n
    <2> QED
      BY <2>2, <2>3
  <1>5. tasks' \in Seq(Task)
    <2> DEFINE more == [k \in 1..n |-> RestoreTask(q[k])]
    <2>1. tasks' = tasks \o more /\ more \in Seq(Task) /\ tasks \in Seq(Task)
      BY <1>3, <1>4 DEF TypeOK
    <2> HIDE DEF more
    <2> QED
      BY <2>1
  <1>6. pending' = pending \cup new /\ menuClose' \in {{}, menuClose}
    BY DEF CloseMenu
  <1> QED
    BY <1>1, <1>5, <1>6 DEF TypeOK

----------------------------------------------------------------------------
(* Every step keeps the invariant.                                         *)
LEMMA StepInv == IInv /\ [Next]_vars => IInv'
  <1> SUFFICES ASSUME IInv, [Next]_vars PROVE IInv'
    OBVIOUS
  <1> USE DEF feature, world
  <1>0. TypeOK /\ SnapsGood /\ WornGood
    BY DEF IInv
  <1>a. \A a \in Actor : Good(snap[a]) /\ Good(saved[a]) /\ Fits(worn[a], inv[a])
                           /\ inv[a] \in [Item -> Nat]
    BY <1>0 DEF SnapsGood, WornGood, TypeOK
  <1>b. ASSUME NEW a \in Actor, NEW w, Fits(w, inv[a]), worn' = [worn EXCEPT ![a] = w], inv' = inv
        PROVE  WornGood' /\ worn' \in [Actor -> Hands]
    <2>1. w \in Hands
      BY <1>b DEF Fits, EngineForms
    <2> QED
      BY <1>0, <1>a, <1>b, <2>1 DEF WornGood, TypeOK
  <1>c. ASSUME NEW a \in Actor, NEW s, Good(s), snap' = [snap EXCEPT ![a] = s], saved' = saved
        PROVE  SnapsGood' /\ snap' \in [Actor -> Snapshot]
    BY <1>0, <1>a, <1>c DEF SnapsGood, Good, TypeOK
  <1>d. UNCHANGED <<snap, saved>> => SnapsGood'
    BY <1>0 DEF SnapsGood
  <1>e. UNCHANGED <<worn, inv>> => WornGood'
    BY <1>0 DEF WornGood
  <1>1. ASSUME NEW a \in Actor, OpenMenu(a) PROVE IInv'
    <2>1. BaselineTask(a) \in Task
      BY DEF BaselineTask, Task
    <2>2. tasks' \in Seq(Task)
      BY <1>0, <1>1, <2>1 DEF OpenMenu, TypeOK
    <2> QED
      BY <1>0, <1>1, <1>d, <1>e, <2>2 DEF OpenMenu, TypeOK, IInv
  <1>2. CASE CloseMenu
    BY <1>0, <1>2, <1>d, <1>e, CloseMenuType DEF CloseMenu, TypeOK, IInv
  <1>3. ASSUME NEW a \in Actor, NEW i \in Item, NEW hand \in Slots, UserEquip(a, i, hand) PROVE IInv'
    <2> DEFINE moved == hand # "ammo" /\ ~IsTwoHandedItem(i)
                          /\ worn[a][OtherHand(hand)] = i /\ inv[a][i] = 1
               before == IF moved THEN CaptureUnequip(snap[a], i, hand # "left") ELSE snap[a]
    <2>1. Good(before)
      BY <1>a, CaptureUnequipGood
    <2>2. hand = "left" => ~IsTwoHandedItem(i)
      BY <1>3 DEF UserEquip, FitsSlot
    <2>3. Good(CaptureEquip(before, i, hand = "left"))
      BY <2>1, <2>2, CaptureEquipGood
    <2>4. inv[a][i] \in Nat
      BY <1>0 DEF TypeOK
    <2>5. Fits(EngineEquip(worn[a], i, hand, inv[a][i]), inv[a])
      BY <1>3, <1>a, <2>4, EquipFits DEF UserEquip, Fits
    <2>6. WornGood' /\ worn' \in [Actor -> Hands]
      BY <1>3, <1>b, <2>5 DEF UserEquip
    <2>7. SnapsGood' /\ snap' \in [Actor -> Snapshot]
      <3>1. CASE Active
        BY <1>3, <1>c, <2>3, <3>1 DEF UserEquip
      <3>2. CASE ~Active
        BY <1>0, <1>3, <1>d, <3>2 DEF UserEquip, TypeOK
      <3> QED
        BY <3>1, <3>2
    <2> QED
      BY <1>0, <1>3, <2>6, <2>7 DEF UserEquip, TypeOK, IInv
  <1>4. ASSUME NEW a \in Actor, NEW hand \in Slots, UserUnequip(a, hand) PROVE IInv'
    <2>1. worn[a][hand] \in Item
      BY <1>0, <1>4 DEF UserUnequip, TypeOK, Hands, Slots
    <2>2. Good(CaptureUnequip(snap[a], worn[a][hand], hand = "left"))
      BY <1>a, <2>1, CaptureUnequipGood
    <2>3. Fits(EngineUnequip(worn[a], hand), inv[a])
      BY <1>a, UnequipFits DEF Fits
    <2>4. WornGood' /\ worn' \in [Actor -> Hands]
      BY <1>0, <1>4, <1>b, <2>3 DEF UserUnequip
    <2>5. SnapsGood' /\ snap' \in [Actor -> Snapshot]
      <3>1. CASE Active
        BY <1>0, <1>4, <1>c, <2>2, <3>1 DEF UserUnequip, TypeOK
      <3>2. CASE ~Active
        BY <1>0, <1>4, <1>d, <3>2 DEF UserUnequip, TypeOK
      <3> QED
        BY <3>1, <3>2
    <2> QED
      BY <1>0, <1>4, <2>4, <2>5 DEF UserUnequip, TypeOK, IInv
  <1>5. ASSUME NEW a \in Actor, tasks # <<>>, RunRestoreTask(a) PROVE IInv'
    <2>1. tasks' \in Seq(Task)
      BY <1>0, <1>5 DEF RunRestoreTask, TypeOK
    <2>2. Fits(RestoreSnapshot(worn[a], snap[a], inv[a]), inv[a])
      BY <1>a, RestoreFits DEF Fits
    <2>3. worn' \in {worn, [worn EXCEPT ![a] = RestoreSnapshot(@, snap[a], inv[a])]}
      BY <1>5 DEF RunRestoreTask
    <2>4. WornGood' /\ worn' \in [Actor -> Hands]
      <3>1. CASE worn' = worn
        BY <1>0, <1>5, <1>e, <3>1 DEF RunRestoreTask, TypeOK
      <3>2. CASE worn' = [worn EXCEPT ![a] = RestoreSnapshot(worn[a], snap[a], inv[a])]
        BY <1>5, <1>b, <2>2, <3>2 DEF RunRestoreTask
      <3> QED
        BY <1>0, <2>3, <3>1, <3>2 DEF TypeOK
    <2> QED
      BY <1>0, <1>5, <1>d, <2>1, <2>4 DEF RunRestoreTask, TypeOK, IInv
  <1>6. ASSUME NEW a \in Actor, tasks # <<>>, RunBaselineTask(a) PROVE IInv'
    <2>1. tasks' \in Seq(Task)
      BY <1>0, <1>6 DEF RunBaselineTask, TypeOK
    <2>2. Good(Baseline(worn[a]))
      BY <1>a, BaselineGood DEF Fits
    <2>3. SnapsGood' /\ snap' \in [Actor -> Snapshot]
      <3>1. CASE snap' = snap
        BY <1>0, <1>6, <1>d, <3>1 DEF RunBaselineTask, TypeOK
      <3>2. CASE snap' = [snap EXCEPT ![a] = Baseline(worn[a])]
        BY <1>6, <1>c, <2>2, <3>2 DEF RunBaselineTask
      <3> QED
        BY <1>6, <3>1, <3>2 DEF RunBaselineTask
    <2> QED
      BY <1>0, <1>6, <1>e, <2>1, <2>3 DEF RunBaselineTask, TypeOK, IInv
  <1>7. ASSUME NEW a \in Actor, NEW drawn \in BOOLEAN, NEW w \in AiOutcomes(worn[a], inv[a]),
               AiHandAttempt(a, w, drawn)
        PROVE  IInv'
    <2>1. Fits(w, inv[a])
      BY <1>a, UnequipFits, EquipFits DEF AiOutcomes, Fits
    <2>2. WornGood' /\ worn' \in [Actor -> Hands]
      BY <1>7, <1>b, <2>1 DEF AiHandAttempt
    <2>3. pending' \subseteq Actor /\ tasks' \in Seq(Task)
      BY <1>0, <1>7, QueueType DEF AiHandAttempt, RequestReconcile
    <2> QED
      BY <1>0, <1>7, <1>d, <2>2, <2>3 DEF AiHandAttempt, TypeOK, IInv
  <1>8. ASSUME NEW a \in Actor, NEW w \in {EmptyHands, worn[a]}, OutfitUpdate(a, w) PROVE IInv'
    <2>1. Fits(w, inv[a])
      BY <1>a, EmptyFits
    <2>2. WornGood' /\ worn' \in [Actor -> Hands]
      BY <1>8, <1>b, <2>1 DEF OutfitUpdate
    <2>3. /\ QueuePendingRestore(a) \/ UNCHANGED <<pending, tasks>>
          /\ menuClose' \in {menuClose, menuClose \cup {a}}
      BY <1>8 DEF OutfitUpdate, RequestReconcileAfterMenuClose
    <2>4. pending' \subseteq Actor /\ tasks' \in Seq(Task) /\ menuClose' \subseteq Actor
      BY <1>0, <2>3, QueueType DEF TypeOK
    <2> QED
      BY <1>0, <1>8, <1>d, <2>2, <2>4 DEF OutfitUpdate, TypeOK, IInv
  <1>9. ASSUME NEW a \in Actor, NEW i \in Item, GainItem(a, i) PROVE IInv'
    <2>1. inv' \in [Actor -> [Item -> Nat]]
      BY <1>0, <1>9 DEF GainItem, TypeOK
    <2>2. \A b \in Actor, j \in Item : inv'[b][j] <= MaxCopies[j]
      BY <1>0, <1>9, BoundAssumption DEF GainItem, TypeOK
    <2>3. ASSUME NEW b \in Actor PROVE Fits(worn[b], inv'[b])
      <3>1. \A j \in Item : inv[b][j] \in Nat /\ inv'[b][j] \in Nat /\ inv'[b][j] >= inv[b][j]
        BY <1>9, <1>a, <2>1 DEF GainItem
      <3>2. \A slot \in Slots : worn[b][slot] # NoItem => worn[b][slot] \in Item
        BY <1>a DEF Fits, EngineForms, Hands, Slots
      <3>3. Stocked(worn[b], inv'[b])
        BY <1>a, <3>1, <3>2 DEF Fits, Stocked, Slots
      <3> QED
        BY <1>a, <3>3 DEF Fits
    <2>4. WornGood'
      BY <1>9, <2>3 DEF GainItem, WornGood
    <2> QED
      BY <1>0, <1>9, <1>d, <2>1, <2>2, <2>4 DEF GainItem, TypeOK, IInv
  <1>10. ASSUME NEW a \in Actor, NEW i \in Item, LoseItem(a, i) PROVE IInv'
    <2>1. inv' \in [Actor -> [Item -> Nat]]
      BY <1>0, <1>10 DEF LoseItem, TypeOK
    <2>2. \A b \in Actor, j \in Item : inv'[b][j] <= MaxCopies[j]
      BY <1>0, <1>10, BoundAssumption DEF LoseItem, TypeOK
    <2>3. PICK w \in {worn[a]} \cup {EngineUnequip(worn[a], h) : h \in Slots} :
             worn' = [worn EXCEPT ![a] = w] /\ WearableWith(w, inv'[a])
      BY <1>10 DEF LoseItem
    <2>4. w \in Hands
      BY <1>a, UnequipFits DEF Fits, EngineForms
    <2>5. Fits(w, inv'[a])
      BY <2>1, <2>3, <2>4, WearableIsFormsAndStock DEF Fits
    <2>6. WornGood' /\ worn' \in [Actor -> Hands]
      BY <1>0, <1>10, <1>a, <2>3, <2>4, <2>5 DEF LoseItem, WornGood, TypeOK
    <2> QED
      BY <1>0, <1>10, <1>d, <2>1, <2>2, <2>6 DEF LoseItem, TypeOK, IInv
  <1>11. ASSUME NEW a \in Actor, ToggleCombat(a) \/ ToggleFollower(a) PROVE IInv'
    BY <1>0, <1>11, <1>d, <1>e DEF ToggleCombat, ToggleFollower, TypeOK, IInv
  <1>12. ASSUME NEW a \in Actor, EraseActor(a) PROVE IInv'
    <2>1. SnapsGood' /\ snap' \in [Actor -> Snapshot]
      BY <1>12, <1>c, EmptyIsGood DEF EraseActor
    <2> QED
      BY <1>0, <1>12, <1>e, <2>1 DEF EraseActor, TypeOK, IInv
  <1>13. CASE Uninstall
    <2>1. SnapsGood' /\ snap' \in [Actor -> Snapshot]
      BY <1>13, <1>a, EmptyIsGood DEF Uninstall, SnapsGood, Good
    <2> QED
      BY <1>0, <1>13, <1>e, <2>1 DEF Uninstall, TypeOK, IInv
  <1>14. CASE Install \/ ToggleSetting
    BY <1>0, <1>14, <1>d, <1>e DEF Install, ToggleSetting, TypeOK, IInv
  <1>15. CASE SaveGame
    <2>1. SnapsGood'
      BY <1>15, <1>a DEF SaveGame, SnapsGood
    <2> QED
      BY <1>0, <1>15, <1>e, <2>1 DEF SaveGame, TypeOK, IInv
  <1>16. ASSUME NEW stock \in [Actor -> [Item -> 0..1]], LoadGame(stock) PROVE IInv'
    <2>1. \A a \in Actor : LoadedSnapshot(saved[a]) = saved[a]
      BY <1>a, LoadedGood
    <2>2. SnapsGood' /\ snap' \in [Actor -> Snapshot]
      BY <1>0, <1>16, <1>a, <2>1 DEF LoadGame, SnapsGood, Good
    <2>3. WornGood' /\ worn' \in [Actor -> Hands]
      BY <1>16, EmptyFits DEF LoadGame, WornGood
    <2>4. inv' \in [Actor -> [Item -> Nat]] /\ \A a \in Actor, i \in Item : inv'[a][i] <= MaxCopies[i]
      BY <1>16, BoundAssumption DEF LoadGame
    <2> QED
      BY <1>0, <1>16, <2>2, <2>3, <2>4 DEF LoadGame, TypeOK, IInv
  <1>17. CASE UNCHANGED vars
    BY <1>0, <1>17, <1>d, <1>e DEF vars, TypeOK, IInv
  <1> QED
    BY <1>1, <1>2, <1>3, <1>4, <1>5, <1>6, <1>7, <1>8, <1>9, <1>10, <1>11, <1>12, <1>13, <1>14,
       <1>15, <1>16, <1>17
    DEF Next, RunTask, MenuStep, GameStep, LifecycleStep

(* Every variable keeps its type; in particular no torch, bound weapon or  *)
(* other kind of item is ever recorded, saved or loaded for a hand.        *)
THEOREM HandsTypeCorrect == Spec => []TypeOK
<1>1. IInv => TypeOK
  BY DEF IInv
<1> QED
  BY <1>1, InitInv, StepInv, PTL DEF Spec

(* No snapshot ever asks for a two-handed item together with the other     *)
(* hand, whatever the order of captures, baselines, saves and loads.       *)
THEOREM SnapshotsAlwaysExclusive == Spec => []SnapshotsExclusive
<1>1. IInv => SnapshotsExclusive
  BY DEF IInv, SnapsGood, Good, SnapshotsExclusive
<1> QED
  BY <1>1, InitInv, StepInv, PTL DEF Spec

(* A restore is sound for any hands, snapshot and inventory a run can come *)
(* to: it settles in one go, wears nothing the engine forbids or the       *)
(* follower does not carry, and takes no torch or bound weapon out of a    *)
(* hand it should leave alone.                                             *)
THEOREM RestoreAlwaysSound == Spec => []RestoreIsSound
<1>1. IInv => RestoreIsSound
  <2> SUFFICES ASSUME IInv PROVE RestoreIsSound
    OBVIOUS
  <2>1. \A a \in Actor : Good(snap[a]) /\ Fits(worn[a], inv[a]) /\ inv[a] \in [Item -> Nat]
    BY DEF IInv, SnapsGood, WornGood, TypeOK
  <2>2. RestoreIsIdempotent
    BY <2>1, RestoreSettles DEF RestoreIsIdempotent
  <2>3. RestoreIsWearable
    <3>1. ASSUME NEW a \in Actor
          PROVE  WearableWith(RestoreSnapshot(worn[a], snap[a], inv[a]), inv[a])
      <4>1. /\ EngineForms(RestoreSnapshot(worn[a], snap[a], inv[a]))
            /\ Stocked(RestoreSnapshot(worn[a], snap[a], inv[a]), inv[a])
        BY <2>1, RestoreFits DEF Fits
      <4>2. RestoreSnapshot(worn[a], snap[a], inv[a]) \in Hands
        BY <4>1 DEF EngineForms
      <4> QED
        BY <2>1, <4>1, <4>2, WearableIsFormsAndStock
    <3> QED
      BY <3>1 DEF RestoreIsWearable
  <2>4. RestoreSparesTorchAndBound
    BY <2>1, RestoreSpares DEF RestoreSparesTorchAndBound
  <2> QED
    BY <2>2, <2>3, <2>4 DEF RestoreIsSound
<1> QED
  BY <1>1, InitInv, StepInv, PTL DEF Spec

(* With enough copies carried and no torch or bound weapon in the way, a   *)
(* restore always puts on exactly what was recorded.                       *)
THEOREM RestoreAlwaysReaches == Spec => []RestoreReachesSnapshot
<1>1. IInv => RestoreReachesSnapshot
  <2> SUFFICES ASSUME IInv, NEW a \in Actor, Unobstructed(a)
               PROVE  RestoreSnapshot(worn[a], snap[a], inv[a]) = WornForm(snap[a])
    BY DEF RestoreReachesSnapshot
  <2>1. Good(snap[a]) /\ Fits(worn[a], inv[a]) /\ inv[a] \in [Item -> Nat]
    BY DEF IInv, SnapsGood, WornGood, TypeOK
  <2> QED
    BY <2>1, RestoreReaches DEF Unobstructed
<1> QED
  BY <1>1, InitInv, StepInv, PTL DEF Spec

----------------------------------------------------------------------------
(* Requests, up to the frames that drain the queue.  Liveness is TLC's,    *)
(* but all it takes besides fairness is proved: a pending follower has a   *)
(* task, the task only moves up, and the request ends answered.            *)

(* QueuePendingRestore queues nothing for a follower that is pending, so   *)
(* one that is pending without a task would never be restored again.       *)
PendingHasTask == \A a \in pending : \E k \in DOMAIN tasks : tasks[k] = RestoreTask(a)

(* A step other than a task leaves the queue as it is or appends to it,    *)
(* and whom it makes pending has a task in what it appends.                *)
Appends(more) ==
    /\ more \in Seq(Task)
    /\ tasks' = tasks \o more
    /\ \A a \in pending' \ pending : \E k \in DOMAIN more : more[k] = RestoreTask(a)

(* A task that runs is the first one, and ends no request but its own.     *)
Drains ==
    /\ tasks # <<>> /\ tasks' = Tail(tasks)
    /\ pending' \subseteq pending
    /\ \A a \in pending' : Head(tasks) # RestoreTask(a)

LEMMA NothingAppended ==
    ASSUME TypeOK, tasks' = tasks, pending' \subseteq pending
    PROVE  Appends(<<>>)
  BY DEF Appends, TypeOK

LEMMA RequestAppends ==
    ASSUME TypeOK, NEW a \in Actor, QueuePendingRestore(a) \/ UNCHANGED <<pending, tasks>>
    PROVE  \E more : Appends(more)
  <1>1. CASE UNCHANGED <<pending, tasks>>
    BY <1>1, NothingAppended
  <1>2. CASE pending' = pending \cup {a} /\ tasks' = Append(tasks, RestoreTask(a))
    <2> DEFINE more == <<RestoreTask(a)>>
    <2>1. RestoreTask(a) \in Task
      BY DEF RestoreTask, Task
    <2>2. more \in Seq(Task) /\ tasks' = tasks \o more
      BY <1>2, <2>1 DEF TypeOK
    <2>3. 1 \in DOMAIN more /\ more[1] = RestoreTask(a)
      OBVIOUS
    <2> HIDE DEF more
    <2> QED
      BY <1>2, <2>2, <2>3 DEF Appends
  <1> QED
    BY <1>1, <1>2 DEF QueuePendingRestore

LEMMA CloseMenuAppends ==
    ASSUME TypeOK, CloseMenu
    PROVE  \E more : Appends(more)
  <1> DEFINE new == IF Active THEN menuClose \ pending ELSE {}
             n == Cardinality(new)
  <1>1. PICK q \in [1..n -> new] :
           /\ {q[k] : k \in 1..n} = new
           /\ tasks' = tasks \o [k \in 1..n |-> RestoreTask(q[k])]
    BY DEF CloseMenu
  <1>2. pending' = pending \cup new /\ new \subseteq Actor
    BY DEF CloseMenu, TypeOK
  <1>3. n \in Nat
    BY <1>2, FiniteActors, FS_Subset, FS_CardinalityType
  <1> DEFINE more == [k \in 1..n |-> RestoreTask(q[k])]
  <1> HIDE DEF n, new
  <1>4. more \in [1..n -> Task]
    BY <1>2 DEF RestoreTask, Task
  <1>5. more \in Seq(Task)
    BY <1>3, <1>4, SeqDef
  <1>6. ASSUME NEW a \in new PROVE \E k \in DOMAIN more : more[k] = RestoreTask(a)
    <2>1. PICK k \in 1..n : q[k] = a
      BY <1>1
    <2> QED
      BY <2>1
  <1>7. tasks' = tasks \o more
    BY <1>1
  <1> HIDE DEF more
  <1> QED
    BY <1>2, <1>5, <1>6, <1>7 DEF Appends

LEMMA TaskDrains ==
    ASSUME RunTask
    PROVE  Drains
  <1>1. ASSUME NEW a \in Actor, tasks # <<>>, RunRestoreTask(a) PROVE Drains
    <2>1. \A b \in pending' : RestoreTask(b) # RestoreTask(a)
      BY <1>1 DEF RunRestoreTask, RestoreTask
    <2> QED
      BY <1>1, <2>1 DEF RunRestoreTask, Drains
  <1>2. ASSUME NEW a \in Actor, tasks # <<>>, RunBaselineTask(a) PROVE Drains
    <2>1. \A b \in pending' : RestoreTask(b) # BaselineTask(a)
      BY DEF RestoreTask, BaselineTask
    <2> QED
      BY <1>2, <2>1 DEF RunBaselineTask, Drains
  <1> QED
    BY <1>1, <1>2 DEF RunTask

(* Every step of the feature and of the game that is not a task.           *)
LEMMA OtherStepAppends ==
    ASSUME TypeOK, [Next]_vars, ~RunTask
    PROVE  \E more : Appends(more)
  <1> USE DEF feature, world
  <1>1. ASSUME NEW a \in Actor, OpenMenu(a) PROVE \E more : Appends(more)
    <2> DEFINE more == IF installed THEN <<BaselineTask(a)>> ELSE <<>>
    <2>1. BaselineTask(a) \in Task
      BY DEF BaselineTask, Task
    <2>2. more \in Seq(Task) /\ tasks' = tasks \o more /\ pending' = pending
      BY <1>1, <2>1 DEF OpenMenu, TypeOK
    <2> HIDE DEF more
    <2> QED
      BY <2>2 DEF Appends
  <1>2. ASSUME NEW a \in Actor, NEW w, NEW drawn, AiHandAttempt(a, w, drawn)
        PROVE  \E more : Appends(more)
    BY <1>2, RequestAppends DEF AiHandAttempt, RequestReconcile
  <1>3. ASSUME NEW a \in Actor, NEW w, OutfitUpdate(a, w) PROVE \E more : Appends(more)
    BY <1>3, RequestAppends DEF OutfitUpdate, RequestReconcileAfterMenuClose
  <1>4. ASSUME NEW a \in Actor, NEW i, NEW hand, UserEquip(a, i, hand) \/ UserUnequip(a, hand)
        PROVE  Appends(<<>>)
    BY <1>4, NothingAppended DEF UserEquip, UserUnequip
  <1>5. ASSUME NEW a \in Actor, NEW i, GainItem(a, i) \/ LoseItem(a, i) PROVE Appends(<<>>)
    BY <1>5, NothingAppended DEF GainItem, LoseItem
  <1>6. ASSUME NEW a \in Actor, ToggleCombat(a) \/ ToggleFollower(a) \/ EraseActor(a)
        PROVE  Appends(<<>>)
    BY <1>6, NothingAppended DEF ToggleCombat, ToggleFollower, EraseActor
  <1>7. CASE Uninstall \/ Install \/ ToggleSetting \/ SaveGame \/ UNCHANGED vars
    <2>1. Appends(<<>>)
      BY <1>7, NothingAppended DEF Uninstall, Install, ToggleSetting, SaveGame, vars
    <2> QED
      BY <2>1
  <1>8. ASSUME NEW stock, LoadGame(stock) PROVE Appends(<<>>)
    BY <1>8, NothingAppended DEF LoadGame
  <1> QED
    BY <1>1, <1>2, <1>3, <1>4, <1>5, <1>6, <1>7, <1>8, CloseMenuAppends
    DEF Next, MenuStep, GameStep, LifecycleStep

(* Where a task is after a step: where it was, or one place further up.    *)
LEMMA AppendsKeep ==
    ASSUME TypeOK, NEW more, Appends(more), NEW k \in DOMAIN tasks
    PROVE  k \in DOMAIN tasks' /\ tasks'[k] = tasks[k]
  <1>1. tasks \in Seq(Task) /\ more \in Seq(Task) /\ tasks' = tasks \o more
    BY DEF TypeOK, Appends
  <1> QED
    BY <1>1

LEMMA DrainsMovesUp ==
    ASSUME TypeOK, Drains, NEW a \in pending', NEW k \in DOMAIN tasks, tasks[k] = RestoreTask(a)
    PROVE  k > 1 /\ k - 1 \in DOMAIN tasks' /\ tasks'[k - 1] = tasks[k]
  <1>1. tasks \in Seq(Task) /\ tasks # <<>> /\ tasks' = Tail(tasks)
    BY DEF TypeOK, Drains
  <1>2. k # 1
    BY <1>1 DEF Drains
  <1> QED
    BY <1>1, <1>2

LEMMA StepHasTask ==
    ASSUME TypeOK, PendingHasTask, [Next]_vars
    PROVE  PendingHasTask'
  <1> SUFFICES ASSUME NEW a \in pending'
               PROVE  \E k \in DOMAIN tasks' : tasks'[k] = RestoreTask(a)
    BY DEF PendingHasTask, RestoreTask
  <1>1. CASE Drains
    <2>1. PICK k \in DOMAIN tasks : tasks[k] = RestoreTask(a)
      BY <1>1 DEF PendingHasTask, Drains
    <2> QED
      BY <1>1, <2>1, DrainsMovesUp
  <1>2. ASSUME NEW more, Appends(more)
        PROVE  \E k \in DOMAIN tasks' : tasks'[k] = RestoreTask(a)
    <2>1. CASE a \in pending
      <3>1. PICK k \in DOMAIN tasks : tasks[k] = RestoreTask(a)
        BY <2>1 DEF PendingHasTask
      <3> QED
        BY <1>2, <3>1, AppendsKeep
    <2>2. CASE a \notin pending
      <3>1. PICK k \in DOMAIN more : more[k] = RestoreTask(a)
        BY <1>2, <2>2 DEF Appends
      <3>2. tasks \in Seq(Task) /\ more \in Seq(Task) /\ tasks' = tasks \o more
        BY <1>2 DEF TypeOK, Appends
      <3>3. Len(tasks) + k \in DOMAIN tasks' /\ tasks'[Len(tasks) + k] = more[k]
        BY <3>1, <3>2
      <3> QED
        BY <3>1, <3>3
    <2> QED
      BY <2>1, <2>2
  <1> QED
    BY <1>1, <1>2, TaskDrains, OtherStepAppends

(* The task of a pending follower moves up with every task that runs, and  *)
(* no step puts another one before it.                                     *)
PendingMovesUp ==
    \A a \in pending \cap pending', k \in DOMAIN tasks :
        tasks[k] = RestoreTask(a) =>
            IF RunTask THEN k > 1 /\ k - 1 \in DOMAIN tasks' /\ tasks'[k - 1] = RestoreTask(a)
            ELSE k \in DOMAIN tasks' /\ tasks'[k] = RestoreTask(a)

(* A step ends a request only with an answer, except that a load forgets   *)
(* the requests of the game it leaves.                                     *)
RequestsEndAnswered ==
    \A a \in pending : a \in pending' \/ Answered(a)' \/ \E stock : LoadGame(stock)

LEMMA StepMovesUp ==
    ASSUME TypeOK, [Next]_vars
    PROVE  PendingMovesUp
  <1> SUFFICES ASSUME NEW a \in pending \cap pending', NEW k \in DOMAIN tasks,
                      tasks[k] = RestoreTask(a)
               PROVE  IF RunTask
                      THEN k > 1 /\ k - 1 \in DOMAIN tasks' /\ tasks'[k - 1] = RestoreTask(a)
                      ELSE k \in DOMAIN tasks' /\ tasks'[k] = RestoreTask(a)
    BY DEF PendingMovesUp
  <1>1. CASE RunTask
    BY <1>1, TaskDrains, DrainsMovesUp
  <1>2. CASE ~RunTask
    <2>1. PICK more : Appends(more)
      BY <1>2, OtherStepAppends
    <2> QED
      BY <1>2, <2>1, AppendsKeep
  <1> QED
    BY <1>1, <1>2

(* A restore task that finds the follower at peace, in scope and with the  *)
(* menu closed settles the hands, since a restore settles in one go.       *)
LEMMA ServedIsAnswered ==
    ASSUME IInv, NEW a \in Actor, a \in pending, RunRestoreTask(a)
    PROVE  Answered(a)'
  <1>1. Good(snap[a]) /\ Fits(worn[a], inv[a]) /\ inv[a] \in [Item -> Nat]
    BY DEF IInv, SnapsGood, WornGood, TypeOK
  <1>2. UNCHANGED <<snap, installed, enabled, menu, inv, combat, follower>>
    BY DEF RunRestoreTask
  <1>3. CASE Active /\ a \in follower /\ ~MenuOpen /\ a \notin combat /\ snap[a] # EmptyHands
    <2>1. worn' = [worn EXCEPT ![a] = RestoreSnapshot(worn[a], snap[a], inv[a])]
      BY <1>3 DEF RunRestoreTask
    <2>2. worn'[a] = RestoreSnapshot(worn[a], snap[a], inv[a])
      BY <2>1 DEF IInv, TypeOK
    <2>3. RestoreSnapshot(worn'[a], snap[a], inv[a]) = worn'[a]
      BY <1>1, <2>2, RestoreSettles
    <2> QED
      BY <1>2, <2>3 DEF Answered, Settled
  <1>4. CASE ~(Active /\ a \in follower /\ ~MenuOpen /\ a \notin combat /\ snap[a] # EmptyHands)
    BY <1>2, <1>4 DEF Answered, Active, MenuOpen
  <1> QED
    BY <1>3, <1>4

LEMMA StepAnswers ==
    ASSUME IInv, [Next]_vars
    PROVE  RequestsEndAnswered
  <1> SUFFICES ASSUME NEW a \in pending, a \notin pending', ~\E stock : LoadGame(stock)
               PROVE  Answered(a)'
    BY DEF RequestsEndAnswered
  <1>0. TypeOK /\ a \in Actor
    BY DEF IInv, TypeOK
  <1>1. CASE RunTask
    <2>1. PICK b \in Actor : RunRestoreTask(b) \/ RunBaselineTask(b)
      BY <1>1 DEF RunTask
    <2>2. RunRestoreTask(b) /\ a = b
      BY <2>1 DEF RunRestoreTask, RunBaselineTask
    <2> QED
      BY <1>0, <2>2, ServedIsAnswered
  <1>2. ASSUME NEW b \in Actor, EraseActor(b) PROVE Answered(a)'
    BY <1>0, <1>2 DEF EraseActor, Answered, TypeOK
  <1>3. CASE Uninstall
    BY <1>3 DEF Uninstall, Answered, Active
  <1>4. CASE MenuStep
    <2>1. pending \subseteq pending'
      BY <1>4 DEF MenuStep, CloseMenu, OpenMenu, UserEquip, UserUnequip
    <2> QED
      BY <2>1
  <1>5. CASE GameStep
    <2>1. pending \subseteq pending'
      BY <1>5
      DEF GameStep, AiHandAttempt, OutfitUpdate, GainItem, LoseItem, ToggleCombat, ToggleFollower,
          RequestReconcile, RequestReconcileAfterMenuClose, QueuePendingRestore, feature
    <2> QED
      BY <2>1
  <1>6. CASE Install \/ ToggleSetting \/ SaveGame \/ UNCHANGED vars
    BY <1>6 DEF Install, ToggleSetting, SaveGame, vars, feature
  <1> QED
    BY <1>1, <1>2, <1>3, <1>4, <1>5, <1>6 DEF Next, LifecycleStep

(* No follower is ever pending without a task of its own in the queue, so  *)
(* a merged duplicate is never a lost request.                             *)
THEOREM PendingAlwaysQueued == Spec => []PendingHasTask
<1>1. Init => PendingHasTask
  BY DEF Init, PendingHasTask
<1>2. IInv /\ PendingHasTask /\ [Next]_vars => PendingHasTask'
  BY StepHasTask DEF IInv
<1> QED
  BY <1>1, <1>2, InitInv, StepInv, PTL DEF Spec

(* Every task that runs brings a pending follower's task one place nearer, *)
(* and nothing the game or the player does puts another one before it.     *)
THEOREM PendingAlwaysMovesUp == Spec => [][PendingMovesUp]_vars
<1>1. IInv /\ [Next]_vars => PendingMovesUp
  BY StepMovesUp DEF IInv
<1> QED
  BY <1>1, InitInv, StepInv, PTL DEF Spec

(* A request never just ends: its hands are settled, or it was voided, or  *)
(* the game it was made in was left for another one.                       *)
THEOREM RequestsAlwaysEndAnswered == Spec => [][RequestsEndAnswered]_vars
<1>1. IInv /\ [Next]_vars => RequestsEndAnswered
  BY StepAnswers
<1> QED
  BY <1>1, InitInv, StepInv, PTL DEF Spec
=============================================================================
