--------------------- MODULE PreCombatEquipRestoreProofs ---------------------
(***************************************************************************)
(* Proofs about PreCombatEquipRestore, for any actors, items and tries.    *)
(***************************************************************************)
EXTENDS PreCombatEquipRestore, FiniteSetTheorems, TLAPS

----------------------------------------------------------------------------
(* What an actor can wear, what a capture of it can hold, what can be      *)
(* wanted in a slot.                                                       *)

FormHands ==
    {w \in Hands :
        /\ w.ammo = NoItem \/ IsAmmo(w.ammo)
        /\ ~IsAmmo(w.right) /\ ~IsAmmo(w.left)
        /\ ~IsShield(w.right) /\ ~IsTorch(w.right)
        /\ IsTwoHandedItem(w.right) \/ IsTwoHandedItem(w.left) => w.right = w.left}

SnapHands ==
    {s \in Hands :
        /\ s.right = NoItem \/ IsSnapshotWeapon(s.right)
        /\ s.left = NoItem \/ IsSnapshotWeapon(s.left) \/ IsShield(s.left)
        /\ s.ammo = NoItem \/ IsAmmo(s.ammo)
        /\ IsTwoHandedItem(s.right) \/ IsTwoHandedItem(s.left) => s.right = s.left}

Wanted(slot, i) ==
    i = NoItem \/ CASE slot = "ammo" -> IsAmmo(i)
                    [] slot = "left" -> IsSnapshotWeapon(i) \/ IsShield(i)
                    [] slot = "right" -> IsSnapshotWeapon(i)

LEMMA EmptyForms == EmptyHands \in FormHands /\ EmptyHands \in SnapHands
BY NoItemAssumption
   DEF EmptyHands, FormHands, SnapHands, Hands, IsTwoHandedItem, IsShield, IsTorch, IsAmmo, OfKind

LEMMA CaptureForms ==
    ASSUME NEW w \in FormHands
    PROVE Capture(w) \in SnapHands
BY NoItemAssumption, KindAssumption
   DEF FormHands, SnapHands, Hands, Capture, IsSnapshotWeapon, IsTwoHandedItem, IsShield, IsTorch, IsAmmo,
       OfKind

LEMMA SnapWanted ==
    ASSUME NEW s \in SnapHands, NEW slot \in Slots
    PROVE Wanted(slot, s[slot]) /\ s[slot] \in Item \cup {NoItem}
BY DEF SnapHands, Hands, Slots, Wanted

LEMMA UnequipForms ==
    ASSUME NEW w \in FormHands, NEW slot \in Slots
    PROVE EngineUnequip(w, slot) \in FormHands
BY NoItemAssumption, KindAssumption
   DEF FormHands, Hands, Slots, EngineUnequip, FreeHand, IsTwoHandedItem, IsShield, IsTorch, IsAmmo, OfKind

LEMMA EquipForms ==
    ASSUME NEW w \in FormHands, NEW slot \in Slots, NEW i \in Item, NEW copies \in Nat,
           slot = "ammo" <=> IsAmmo(i),
           slot = "right" => ~IsShield(i) /\ ~IsTorch(i)
    PROVE EngineEquip(w, i, slot, copies) \in FormHands
<1> DEFINE x == EngineEquip(w, i, slot, copies)
<1> USE NoItemAssumption, KindAssumption
    DEF FormHands, Hands, IsTwoHandedItem, IsShield, IsTorch, IsAmmo, OfKind
<1>1. CASE slot = "ammo"
  BY <1>1 DEF EngineEquip
<1>2. CASE slot # "ammo" /\ IsTwoHandedItem(i)
  BY <1>2 DEF EngineEquip
<1>3. CASE slot = "right" /\ ~IsTwoHandedItem(i)
  <2>1. /\ x \in Hands /\ x.right = i /\ x.ammo = w.ammo
        /\ x.left \in {w.left, NoItem}
        /\ x.left # NoItem => ~IsTwoHandedItem(w.right)
    BY <1>3 DEF EngineEquip, FreeHand, OtherHand
  <2> HIDE DEF x
  <2>2. ~IsTwoHandedItem(x.left)
    BY <2>1
  <2>3. x \in FormHands
    BY <1>3, <2>1, <2>2
  <2> QED
    BY <2>3 DEF x
<1>4. CASE slot = "left" /\ ~IsTwoHandedItem(i)
  <2>1. /\ x \in Hands /\ x.left = i /\ x.ammo = w.ammo
        /\ x.right \in {w.right, NoItem}
        /\ x.right # NoItem => ~IsTwoHandedItem(w.left)
    BY <1>4 DEF EngineEquip, FreeHand, OtherHand
  <2> HIDE DEF x
  <2>2. ~IsTwoHandedItem(x.right)
    BY <2>1
  <2>3. x \in FormHands
    BY <1>4, <2>1, <2>2
  <2> QED
    BY <2>3 DEF x
<1> QED
  BY <1>1, <1>2, <1>3, <1>4 DEF Slots

LEMMA AiForms ==
    ASSUME NEW w \in FormHands, NEW stock \in [Item -> Nat], NEW x \in AiOutcomes(w, stock)
    PROVE x \in FormHands
<1>1. CASE x = w
  BY <1>1
<1>2. CASE \E hand \in Slots : x = EngineUnequip(w, hand)
  BY <1>2, UnequipForms
<1>3. ASSUME NEW i \in Item, NEW hand \in Slots, FitsSlot(i, hand), x = EngineEquip(w, i, hand, stock[i])
      PROVE x \in FormHands
  <2>1. (hand = "ammo" <=> IsAmmo(i)) /\ (hand = "right" => ~IsShield(i) /\ ~IsTorch(i))
    BY <1>3 DEF FitsSlot, Slots
  <2> QED
    BY <1>3, <2>1, EquipForms
<1> QED
  BY <1>1, <1>2, <1>3 DEF AiOutcomes

LEMMA EquipIfCarriedForms ==
    ASSUME NEW w \in FormHands, NEW slot \in Slots, NEW want \in Item, Wanted(slot, want),
           NEW stock \in [Item -> Nat]
    PROVE EquipIfCarried(w, want, slot, stock) \in FormHands
<1>1. (slot = "ammo" <=> IsAmmo(want)) /\ (slot = "right" => ~IsShield(want) /\ ~IsTorch(want))
  BY NoItemAssumption DEF Wanted, Slots, IsSnapshotWeapon, IsAmmo, IsShield, IsTorch, OfKind
<1> QED
  BY <1>1, EquipForms DEF EquipIfCarried

LEMMA ClearSlotForms ==
    ASSUME NEW w \in FormHands, NEW slot \in Slots
    PROVE ClearSlot(w, slot) \in FormHands
BY UnequipForms DEF ClearSlot

LEMMA RestoreSlotForms ==
    ASSUME NEW w \in FormHands, NEW slot \in Slots, NEW want \in Item \cup {NoItem}, Wanted(slot, want),
           NEW stock \in [Item -> Nat]
    PROVE RestoreSlot(w, slot, want, stock) \in FormHands
BY ClearSlotForms, EquipIfCarriedForms DEF RestoreSlot

LEMMA ReconcileSlotForms ==
    ASSUME NEW w \in FormHands, NEW slot \in Slots, NEW want \in Item \cup {NoItem}, Wanted(slot, want),
           NEW stock \in [Item -> Nat]
    PROVE ReconcileSlot(w, slot, want, stock) \in FormHands
<1>1. want = NoItem \/ (want \in Item /\ EquipIfCarried(w, want, slot, stock) \in FormHands)
  BY EquipIfCarriedForms
<1>2. want = NoItem \/ EquipIfCarried(ClearSlot(w, slot), want, slot, stock) \in FormHands
  BY ClearSlotForms, EquipIfCarriedForms
<1>3. ASSUME slot = "left"
      PROVE ClearSlot(w, "left") = ClearSlot(w, slot)
  BY <1>3
<1> QED
  BY <1>1, <1>2, <1>3, ClearSlotForms DEF ReconcileSlot

LEMMA RestoredForms ==
    ASSUME NEW w \in FormHands, NEW s \in SnapHands, NEW stock \in [Item -> Nat]
    PROVE Restored(w, s, stock) \in FormHands /\ Reconciled(w, s, stock) \in FormHands
<1>1. {"right", "left", "ammo"} \subseteq Slots
  BY DEF Slots
<1>2. /\ Wanted("right", s.right) /\ s.right \in Item \cup {NoItem}
      /\ Wanted("left", s.left) /\ s.left \in Item \cup {NoItem}
      /\ Wanted("ammo", s.ammo) /\ s.ammo \in Item \cup {NoItem}
  BY <1>1, SnapWanted
<1>3. Restored(w, s, stock) \in FormHands
  <2> DEFINE w1 == RestoreSlot(w, "right", s.right, stock)
             w2 == RestoreSlot(w1, "left", s.left, stock)
  <2>1. w1 \in FormHands
    BY <1>1, <1>2, RestoreSlotForms
  <2> HIDE DEF w1
  <2>2. w2 \in FormHands
    BY <1>1, <1>2, <2>1, RestoreSlotForms
  <2> HIDE DEF w2
  <2>3. RestoreSlot(w2, "ammo", s.ammo, stock) \in FormHands
    BY <1>1, <1>2, <2>2, RestoreSlotForms
  <2> QED
    BY <2>3 DEF Restored, w2, w1
<1>4. Reconciled(w, s, stock) \in FormHands
  <2> DEFINE w1 == ReconcileSlot(w, "right", s.right, stock)
             w2 == ReconcileSlot(w1, "left", s.left, stock)
  <2>1. w1 \in FormHands
    BY <1>1, <1>2, ReconcileSlotForms
  <2> HIDE DEF w1
  <2>2. w2 \in FormHands
    BY <1>1, <1>2, <2>1, ReconcileSlotForms
  <2> HIDE DEF w2
  <2>3. ReconcileSlot(w2, "ammo", s.ammo, stock) \in FormHands
    BY <1>1, <1>2, <2>2, ReconcileSlotForms
  <2> QED
    BY <2>3 DEF Reconciled, w2, w1
<1> QED
  BY <1>3, <1>4

----------------------------------------------------------------------------
(* The two routines agree.                                                 *)

(* Nothing is to be done about item i in a slot.                           *)
Settled(i, slot, want) ==
    \/ IsBound(i)
    \/ i = want
    \/ want = NoItem /\ slot # "ammo" /\ ~IsWeapon(i) /\ ~IsShield(i)

LEMMA SettledIsQuiet ==
    ASSUME NEW w \in FormHands, NEW slot \in Slots, NEW want \in Item \cup {NoItem}, Wanted(slot, want),
           NEW stock, Settled(w[slot], slot, want)
    PROVE ReconcileSlot(w, slot, want, stock) = w /\ ~SlotDiffers(w, slot, want)
BY NoItemAssumption, KindAssumption
   DEF Settled, ReconcileSlot, SlotDiffers, ClearSlot, EquipIfCarried, IsWeapon, IsSnapshotWeapon, IsShield,
       IsBound, OfKind, FormHands, Hands, Slots

(* What is carried is carried twice when both hands want it.               *)
LEMMA CarriedTwice ==
    ASSUME NEW s \in SnapHands, NEW stock \in [Item -> Nat], Carried(s, stock)
    PROVE /\ \A slot \in Slots : s[slot] # NoItem => stock[s[slot]] > 0
          /\ s.right # NoItem /\ s.right = s.left /\ ~IsTwoHandedItem(s.left) => stock[s.left] # 1
<1>1. \A slot \in Slots : s[slot] # NoItem => stock[s[slot]] > 0
  BY DEF Carried
<1>2. ASSUME s.right # NoItem, s.right = s.left, ~IsTwoHandedItem(s.left)
      PROVE stock[s.left] # 1
  <2>1. {h \in {"right", "left"} : s[h] = s.left} = {"right", "left"}
    BY <1>2
  <2>2. Cardinality({"right", "left"}) = 2
    <3>1. Cardinality({"left"}) = 1 /\ IsFiniteSet({"left"})
      BY FS_Singleton
    <3>2. Cardinality({"left"} \cup {"right"}) = Cardinality({"left"}) + 1
      BY <3>1, FS_AddElement
    <3>3. {"left"} \cup {"right"} = {"right", "left"}
      OBVIOUS
    <3> QED
      BY <3>1, <3>2, <3>3
  <2>3. Copies(s, s.left) = 2
    BY <1>2, <2>1, <2>2 DEF Copies
  <2>4. stock[s.left] >= Copies(s, s.left)
    BY <1>2 DEF Carried, Slots
  <2>5. stock[s.left] \in Nat
    BY <1>2 DEF SnapHands, Hands
  <2> QED
    BY <2>3, <2>4, <2>5
<1> QED
  BY <1>1, <1>2

LEMMA RightSettles ==
    ASSUME NEW w \in FormHands, NEW want \in Item \cup {NoItem}, Wanted("right", want), NEW stock \in [Item -> Nat],
           want # NoItem => stock[want] > 0
    PROVE Settled(RestoreSlot(w, "right", want, stock).right, "right", want)
<1> USE NoItemAssumption, KindAssumption DEF Hands, IsWeapon, IsSnapshotWeapon, IsShield, IsBound,
        IsTwoHandedItem, OfKind
<1>1. CASE want = NoItem
  BY <1>1 DEF RestoreSlot, ClearSlot, EngineUnequip, FreeHand, Settled, FormHands
<1>2. CASE want # NoItem /\ IsBound(w.right)
  BY <1>2 DEF RestoreSlot, Settled, Wanted
<1>3. CASE want # NoItem /\ ~IsBound(w.right)
  <2>1. stock[want] # 0
    BY <1>3
  <2> QED
    BY <1>3, <2>1 DEF RestoreSlot, EquipIfCarried, EngineEquip, FreeHand, OtherHand, Settled, FormHands
<1> QED
  BY <1>1, <1>2, <1>3

(* Nothing conjured comes into the left hand when the right is restored.   *)
LEMMA RightConjuresNothing ==
    ASSUME NEW w \in FormHands, NEW want \in Item \cup {NoItem}, Wanted("right", want), NEW stock,
           IsBound(RestoreSlot(w, "right", want, stock).left)
    PROVE RestoreSlot(w, "right", want, stock).left = w.left
<1> USE NoItemAssumption, KindAssumption DEF IsBound, IsTwoHandedItem, OfKind
<1>1. RestoreSlot(w, "right", want, stock).left \in {w.left, NoItem, want}
  BY DEF RestoreSlot, EquipIfCarried, ClearSlot, EngineEquip, EngineUnequip, FreeHand, OtherHand, FormHands, Hands
<1>2. ~IsBound(want) /\ ~IsBound(NoItem)
  BY DEF Wanted, IsSnapshotWeapon
<1> QED
  BY <1>1, <1>2

(* The left hand is restored without disturbing the right one, unless a    *)
(* shield drives a conjured weapon out of both.                            *)
LEMMA LeftSettles ==
    ASSUME NEW w \in FormHands, NEW s \in SnapHands, NEW stock \in [Item -> Nat],
           ~ShieldOverConjured(w, s),
           Settled(w.right, "right", s.right),
           s.left # NoItem => stock[s.left] > 0,
           s.right # NoItem /\ s.right = s.left /\ ~IsTwoHandedItem(s.left) => stock[s.left] # 1
    PROVE LET x == RestoreSlot(w, "left", s.left, stock)
          IN Settled(x.left, "left", s.left) /\ Settled(x.right, "right", s.right)
<1> USE NoItemAssumption, KindAssumption DEF Hands, IsWeapon, IsSnapshotWeapon, IsShield, IsBound,
        IsTwoHandedItem, OfKind, Settled, FormHands, SnapHands, RestoreSlot, ShieldOverConjured
<1>1. CASE s.left = NoItem
  <2>1. CASE IsBound(w.left)
    BY <1>1, <2>1
  <2>2. CASE ~IsBound(w.left)
    <3>1. ~IsTwoHandedItem(w.left)
      BY <1>1, <2>2
    <3> QED
      BY <1>1, <3>1 DEF ClearSlot, EngineUnequip, FreeHand
  <2> QED
    BY <2>1, <2>2
<1>2. CASE s.left # NoItem /\ IsBound(w.left) /\ ~IsShield(s.left)
  BY <1>2
<1>3. CASE s.left # NoItem /\ ~(IsBound(w.left) /\ ~IsShield(s.left)) /\ w.left = s.left
  BY <1>3 DEF EquipIfCarried
<1>4. CASE s.left # NoItem /\ ~(IsBound(w.left) /\ ~IsShield(s.left)) /\ w.left # s.left
  <2>1. RestoreSlot(w, "left", s.left, stock) = EngineEquip(w, s.left, "left", stock[s.left])
    BY <1>4 DEF EquipIfCarried
  <2>2. CASE IsTwoHandedItem(s.left)
    BY <1>4, <2>1, <2>2 DEF EngineEquip
  <2>3. CASE ~IsTwoHandedItem(s.left)
    <3>1. ~IsTwoHandedItem(w.left)
      BY <1>4, <2>3
    <3>2. w.right = s.left => stock[s.left] # 1
      BY <1>4, <2>3
    <3> DEFINE x == EngineEquip(w, s.left, "left", stock[s.left])
    <3>3. x.left = s.left /\ x.right = w.right
      BY <1>4, <2>3, <3>1, <3>2 DEF EngineEquip, FreeHand, OtherHand
    <3> HIDE DEF x
    <3> QED
      BY <2>1, <3>3 DEF x
  <2> QED
    BY <2>2, <2>3
<1> QED
  BY <1>1, <1>2, <1>3, <1>4

LEMMA AmmoSettles ==
    ASSUME NEW w \in FormHands, NEW want \in Item \cup {NoItem}, Wanted("ammo", want), NEW stock \in [Item -> Nat],
           want # NoItem => stock[want] > 0
    PROVE LET x == RestoreSlot(w, "ammo", want, stock)
          IN Settled(x.ammo, "ammo", want) /\ x.right = w.right /\ x.left = w.left
BY NoItemAssumption, KindAssumption
   DEF FormHands, Hands, Wanted, RestoreSlot, ClearSlot, EngineUnequip, EquipIfCarried, EngineEquip, Settled,
       IsBound, IsShield, IsAmmo, OfKind

LEMMA RestoredSettles ==
    ASSUME NEW w \in FormHands, NEW s \in SnapHands, NEW stock \in [Item -> Nat], Carried(s, stock),
           ~ShieldOverConjured(w, s)
    PROVE \A slot \in Slots : Settled(Restored(w, s, stock)[slot], slot, s[slot])
<1> DEFINE w1 == RestoreSlot(w, "right", s.right, stock)
           w2 == RestoreSlot(w1, "left", s.left, stock)
           w3 == RestoreSlot(w2, "ammo", s.ammo, stock)
<1>1. {"right", "left", "ammo"} \subseteq Slots
  BY DEF Slots
<1>2. /\ Wanted("right", s.right) /\ s.right \in Item \cup {NoItem}
      /\ Wanted("left", s.left) /\ s.left \in Item \cup {NoItem}
      /\ Wanted("ammo", s.ammo) /\ s.ammo \in Item \cup {NoItem}
  BY <1>1, SnapWanted
<1>3. /\ s.right # NoItem => stock[s.right] > 0
      /\ s.left # NoItem => stock[s.left] > 0
      /\ s.ammo # NoItem => stock[s.ammo] > 0
  BY <1>1, CarriedTwice
<1>4. s.right # NoItem /\ s.right = s.left /\ ~IsTwoHandedItem(s.left) => stock[s.left] # 1
  BY CarriedTwice
<1>5. w1 \in FormHands /\ Settled(w1.right, "right", s.right)
  BY <1>1, <1>2, <1>3, RestoreSlotForms, RightSettles
<1>6. ~ShieldOverConjured(w1, s)
  BY <1>2, RightConjuresNothing DEF ShieldOverConjured
<1> HIDE DEF w1
<1>7. w2 \in FormHands /\ Settled(w2.left, "left", s.left) /\ Settled(w2.right, "right", s.right)
  BY <1>1, <1>2, <1>3, <1>4, <1>5, <1>6, RestoreSlotForms, LeftSettles
<1> HIDE DEF w2
<1>8. Settled(w3.ammo, "ammo", s.ammo) /\ w3.right = w2.right /\ w3.left = w2.left
  BY <1>2, <1>3, <1>7, AmmoSettles
<1>9. Restored(w, s, stock) = w3
  BY DEF Restored, w1, w2
<1> HIDE DEF w3
<1> QED
  BY <1>7, <1>8, <1>9 DEF Slots

LEMMA SettledReconciles ==
    ASSUME NEW w \in FormHands, NEW s \in SnapHands, NEW stock,
           \A slot \in Slots : Settled(w[slot], slot, s[slot])
    PROVE Reconciled(w, s, stock) = w /\ ~Mismatch(w, s, stock)
<1>1. ASSUME NEW slot \in Slots
      PROVE ReconcileSlot(w, slot, s[slot], stock) = w /\ ~SlotDiffers(w, slot, s[slot])
  BY SnapWanted, SettledIsQuiet
<1>2. /\ ReconcileSlot(w, "right", s.right, stock) = w /\ ~SlotDiffers(w, "right", s.right)
      /\ ReconcileSlot(w, "left", s.left, stock) = w /\ ~SlotDiffers(w, "left", s.left)
      /\ ReconcileSlot(w, "ammo", s.ammo, stock) = w /\ ~SlotDiffers(w, "ammo", s.ammo)
  BY <1>1 DEF Slots
<1> QED
  BY <1>2 DEF Reconciled, Mismatch

(* With a shield put on over a conjured weapon that fills both hands, the  *)
(* right one is left empty and all else is settled.                        *)
LEMMA ShieldEmptiesRight ==
    ASSUME NEW w \in FormHands, NEW s \in SnapHands, NEW stock \in [Item -> Nat], Carried(s, stock),
           ShieldOverConjured(w, s)
    PROVE LET x == Restored(w, s, stock)
          IN /\ x.right = NoItem /\ x.left = s.left
             /\ Settled(x.ammo, "ammo", s.ammo)
<1> USE NoItemAssumption, KindAssumption DEF IsBound, IsTwoHandedItem, IsShield, OfKind
<1> DEFINE w2 == RestoreSlot(w, "left", s.left, stock)
           w3 == RestoreSlot(w2, "ammo", s.ammo, stock)
<1>1. /\ IsBound(w.right) /\ w.right = w.left /\ ~IsShield(s.right) /\ w.left # s.left
      /\ s.left # NoItem /\ s.right # s.left /\ ~IsTwoHandedItem(s.left) /\ ~IsTwoHandedItem(s.right)
  BY DEF ShieldOverConjured, FormHands, SnapHands, IsSnapshotWeapon
<1>2. {"left", "ammo"} \subseteq Slots
  BY DEF Slots
<1>3. /\ Wanted("left", s.left) /\ s.left \in Item
      /\ Wanted("ammo", s.ammo) /\ s.ammo \in Item \cup {NoItem}
  BY <1>1, <1>2, SnapWanted
<1>4. stock[s.left] > 0 /\ (s.ammo # NoItem => stock[s.ammo] > 0)
  BY <1>1, <1>2, CarriedTwice
<1>5. RestoreSlot(w, "right", s.right, stock) = w
  BY <1>1 DEF RestoreSlot
<1>6. w2 = EngineEquip(w, s.left, "left", stock[s.left])
  BY <1>1, <1>3, <1>4 DEF RestoreSlot, EquipIfCarried, ShieldOverConjured
<1>7. w2.left = s.left /\ w2.right = NoItem /\ w2 \in FormHands
  <2>1. w2.left = s.left /\ w2.right = NoItem
    BY <1>1, <1>6 DEF EngineEquip, FreeHand, OtherHand, ShieldOverConjured, FormHands, Hands
  <2>2. w2 \in FormHands
    BY <1>2, <1>3, RestoreSlotForms
  <2> QED
    BY <2>1, <2>2
<1> HIDE DEF w2
<1>8. Settled(w3.ammo, "ammo", s.ammo) /\ w3.right = w2.right /\ w3.left = w2.left
  BY <1>3, <1>4, <1>7, AmmoSettles
<1>9. Restored(w, s, stock) = w3
  BY <1>5 DEF Restored, w2
<1> HIDE DEF w3
<1> QED
  BY <1>7, <1>8, <1>9

(* There the reconcile puts on the item of the right hand and no more.     *)
LEMMA RightFilled ==
    ASSUME NEW w \in FormHands, NEW s \in SnapHands, NEW stock \in [Item -> Nat], Carried(s, stock),
           IsShield(s.left), w.right = NoItem, w.left = s.left, Settled(w.ammo, "ammo", s.ammo)
    PROVE LET x == Reconciled(w, s, stock)
          IN /\ x = [w EXCEPT !.right = s.right]
             /\ Reconciled(x, s, stock) = x /\ ~Mismatch(x, s, stock)
<1> USE NoItemAssumption, KindAssumption DEF IsBound, IsTwoHandedItem, IsShield, OfKind
<1> DEFINE w1 == ReconcileSlot(w, "right", s.right, stock)
<1>1. {"right", "left", "ammo"} \subseteq Slots
  BY DEF Slots
<1>2. Wanted("right", s.right) /\ s.right \in Item \cup {NoItem}
  BY <1>1, SnapWanted
<1>3. s.right # s.left /\ ~IsTwoHandedItem(s.right) /\ s.left # NoItem
  BY DEF SnapHands, IsSnapshotWeapon
<1>4. w1 = [w EXCEPT !.right = s.right]
  <2>1. CASE s.right = NoItem
    <3>1. w1 = w
      BY <2>1 DEF ReconcileSlot, ClearSlot
    <3> QED
      BY <2>1, <3>1 DEF FormHands, Hands
  <2>2. CASE s.right # NoItem
    <3>1. stock[s.right] # 0
      BY <1>1, <1>2, <2>2, CarriedTwice
    <3>2. w1 = EngineEquip(w, s.right, "right", stock[s.right])
      BY <2>2, <3>1 DEF ReconcileSlot, EquipIfCarried
    <3> QED
      BY <1>3, <2>2, <3>2 DEF EngineEquip, FreeHand, OtherHand, FormHands, Hands
  <2> QED
    BY <2>1, <2>2
<1>5. w1 \in FormHands
  BY <1>1, <1>2, ReconcileSlotForms
<1>6. \A slot \in Slots : Settled(w1[slot], slot, s[slot])
  BY <1>4 DEF Slots, Settled, FormHands, Hands
<1>7. /\ w1.left = w.left /\ w1.ammo = w.ammo
  BY <1>4 DEF FormHands, Hands
<1> HIDE DEF w1
<1>8. /\ ReconcileSlot(w1, "left", s.left, stock) = w1
      /\ ReconcileSlot(w1, "ammo", s.ammo, stock) = w1
  BY <1>1, <1>5, <1>6, SnapWanted, SettledIsQuiet
<1>9. Reconciled(w, s, stock) = w1
  BY <1>8 DEF Reconciled, w1
<1> QED
  BY <1>4, <1>5, <1>6, <1>9, SettledReconciles

----------------------------------------------------------------------------
(* Types, with the hands a snapshot and an actor can have.                 *)

GoodEntry == [lastState : CombatState, snap : SnapHands, have : BOOLEAN,
              restorePending : BOOLEAN, tries : 0..RestoreTries]
GoodTask == [kind : {"restore"}, actor : Actor]
              \cup [kind : {"reconcile"}, actor : Actor, want : SnapHands, tries : 0..ReconcileTries]
GoodSaved == [have : BOOLEAN, snap : SnapHands, fight : CombatState, before : FormHands, unseen : BOOLEAN]

TypeInv ==
    /\ entry \in [Actor -> GoodEntry]
    /\ tasks \in Seq(GoodTask)
    /\ frame \in 0..Len(tasks)
    /\ saved \in [Actor -> GoodSaved]
    /\ installed \in BOOLEAN /\ enabled \in BOOLEAN /\ menuOpen \in BOOLEAN
    /\ fight \in [Actor -> CombatState]
    /\ worn \in [Actor -> FormHands]
    /\ inv \in [Actor -> [Item -> Nat]]
    /\ follower \subseteq Actor /\ heard \subseteq Actor /\ lost \subseteq Actor /\ unseen \subseteq Actor
    /\ before \in [Actor -> FormHands]
    /\ calm \in [Actor -> SUBSET SnapHands]

LEMMA TypeInvTypes == TypeInv => TypeOK
<1> SUFFICES ASSUME TypeInv PROVE TypeOK
  OBVIOUS
<1>1. SnapHands \subseteq Hands /\ FormHands \subseteq Hands
  BY DEF SnapHands, FormHands
<1>2. GoodEntry \subseteq Entry /\ GoodTask \subseteq Task /\ GoodSaved \subseteq Saved
  BY <1>1 DEF GoodEntry, Entry, GoodTask, Task, GoodSaved, Saved
<1>3. \A a \in Actor, slot \in {"right", "left"} : ~IsBound(entry[a].snap[slot])
  <2> TAKE a \in Actor, slot \in {"right", "left"}
  <2>1. entry[a].snap \in SnapHands
    BY DEF TypeInv, GoodEntry
  <2> QED
    BY <2>1, NoItemAssumption DEF SnapHands, IsSnapshotWeapon, IsShield, IsBound, OfKind
<1>4. \A k \in DOMAIN tasks : tasks[k] \in Task
  BY <1>2 DEF TypeInv
<1> QED
  BY <1>1, <1>2, <1>3, <1>4 DEF TypeInv, TypeOK

LEMMA InitTypes == Init => TypeInv
<1> SUFFICES ASSUME Init PROVE TypeInv
  OBVIOUS
<1>1. NoEntry \in GoodEntry /\ NothingSaved \in GoodSaved
  BY EmptyForms, TriesAssumption DEF NoEntry, GoodEntry, NothingSaved, GoodSaved, CombatState
<1>2. tasks \in Seq(GoodTask) /\ frame \in 0..Len(tasks)
  BY DEF Init
<1>3. inv \in [Actor -> [Item -> Nat]] /\ fight \in [Actor -> CombatState]
  BY DEF Init, CombatState
<1>4. entry \in [Actor -> GoodEntry] /\ saved \in [Actor -> GoodSaved]
  BY <1>1 DEF Init
<1>5. worn \in [Actor -> FormHands] /\ before \in [Actor -> FormHands]
  BY EmptyForms DEF Init
<1> QED
  BY <1>2, <1>3, <1>4, <1>5 DEF Init, TypeInv

LEMMA TriesBounds ==
    0 \in 0..RestoreTries /\ RestoreTries \in 0..RestoreTries /\ ReconcileTries \in 0..ReconcileTries
BY TriesAssumption

(* A task that has run is replaced by what it queues.                      *)
LEMMA QueueAdvances ==
    ASSUME NEW q \in Seq(GoodTask), q # <<>>, NEW t \in Seq(GoodTask)
    PROVE Tail(q) \o t \in Seq(GoodTask) /\ Len(Tail(q) \o t) \in Nat /\ Len(Tail(q) \o t) >= Len(q) - 1
          /\ Head(q) \in GoodTask
OBVIOUS

LEMMA QueueGrows ==
    ASSUME NEW q \in Seq(GoodTask), NEW t \in GoodTask
    PROVE Append(q, t) \in Seq(GoodTask) /\ Len(Append(q, t)) = Len(q) + 1
OBVIOUS

LEMMA OneTask ==
    ASSUME NEW t \in GoodTask
    PROVE <<t>> \in Seq(GoodTask) /\ <<>> \in Seq(GoodTask)
OBVIOUS

LEMMA CombatTypes ==
    ASSUME TypeInv, NEW a \in Actor, NEW next \in CombatState, CombatEvent(a, next)
    PROVE TypeInv'
<1> DEFINE seen == installed /\ a \in follower
           watched == IF seen THEN [entry[a] EXCEPT !.lastState = next] ELSE entry[a]
<1>1. entry[a] \in GoodEntry /\ worn[a] \in FormHands
  BY DEF TypeInv
<1>2. watched \in GoodEntry
  BY <1>1 DEF GoodEntry
<1>3. [watched EXCEPT !.snap = Capture(worn[a]), !.have = TRUE] \in GoodEntry
  BY <1>1, <1>2, CaptureForms DEF GoodEntry
<1>4. [watched EXCEPT !.restorePending = TRUE, !.tries = RestoreTries] \in GoodEntry
  BY <1>2, TriesBounds DEF GoodEntry
<1> HIDE DEF watched
<1>5. PICK e \in GoodEntry : entry' = [entry EXCEPT ![a] = e]
  <2>1. entry' \in {[entry EXCEPT ![a] = [watched EXCEPT !.snap = Capture(worn[a]), !.have = TRUE]],
                    [entry EXCEPT ![a] = [watched EXCEPT !.restorePending = TRUE, !.tries = RestoreTries]],
                    [entry EXCEPT ![a] = watched]}
    BY DEF CombatEvent, watched
  <2> QED
    BY <1>2, <1>3, <1>4, <2>1
<1>6. entry' \in [Actor -> GoodEntry]
  BY <1>5 DEF TypeInv
<1>7. RestoreTask(a) \in GoodTask
  BY DEF RestoreTask, GoodTask
<1>8. tasks' \in Seq(GoodTask) /\ frame' \in 0..Len(tasks')
  <2>1. tasks' \in {tasks, Append(tasks, RestoreTask(a))} /\ frame' = frame
    BY DEF CombatEvent
  <2>2. tasks \in Seq(GoodTask) /\ frame \in 0..Len(tasks) /\ Len(tasks) \in Nat
    BY DEF TypeInv
  <2> DEFINE t == RestoreTask(a)
  <2>3. Append(tasks, t) \in Seq(GoodTask) /\ Len(Append(tasks, t)) = Len(tasks) + 1
    BY <1>7, <2>2, QueueGrows
  <2>4. tasks' \in {tasks, Append(tasks, t)}
    BY <2>1
  <2> HIDE DEF t
  <2>5. CASE tasks' = tasks
    BY <2>1, <2>2, <2>5
  <2>6. CASE tasks' = Append(tasks, t)
    <3>1. Len(tasks') = Len(tasks) + 1 /\ tasks' \in Seq(GoodTask)
      BY <2>3, <2>6
    <3>2. frame' \in 0..(Len(tasks) + 1)
      BY <2>1, <2>2
    <3> QED
      BY <3>1, <3>2
  <2> QED
    BY <2>4, <2>5, <2>6
<1>9. fight' \in [Actor -> CombatState]
  BY DEF CombatEvent, TypeInv
<1>10. /\ before' \in [Actor -> FormHands]
       /\ heard' \subseteq Actor /\ lost' \subseteq Actor /\ unseen' \subseteq Actor
  <2>1. /\ before' \in {before, [before EXCEPT ![a] = worn[a]]}
        /\ heard' \in {heard, heard \ {a}, heard \cup {a}}
        /\ lost' \in {lost, lost \ {a}, lost \cup {a}}
        /\ unseen' \in {unseen, unseen \ {a}, unseen \cup {a}}
    BY DEF CombatEvent, Hears
  <2> QED
    BY <1>1, <2>1 DEF TypeInv
<1> QED
  BY <1>6, <1>8, <1>9, <1>10 DEF CombatEvent, TypeInv

LEMMA RestoreTaskTypes ==
    ASSUME TypeInv, NEW a \in Actor, frame > 0, frame' = frame - 1, RunRestoreTask(a)
    PROVE TypeInv'
<1>1. entry[a] \in GoodEntry /\ worn[a] \in FormHands /\ inv[a] \in [Item -> Nat]
      /\ tasks \in Seq(GoodTask) /\ tasks # <<>>
  BY DEF TypeInv
<1>2. entry' \in [Actor -> GoodEntry]
  <2>1. CASE MayRetry(a)
    <3>1. [entry[a] EXCEPT !.tries = @ - 1] \in GoodEntry
      BY <1>1, <2>1, TriesAssumption DEF MayRetry, GoodEntry
    <3>2. entry' \in {[entry EXCEPT ![a] = [entry[a] EXCEPT !.tries = @ - 1]], [entry EXCEPT ![a] = entry[a]]}
      BY <2>1 DEF RunRestoreTask
    <3> QED
      BY <1>1, <3>1, <3>2 DEF TypeInv
  <2>2. CASE ~MayRetry(a)
    <3>1. [entry[a] EXCEPT !.restorePending = FALSE, !.tries = 0] \in GoodEntry
      BY <1>1, TriesBounds DEF GoodEntry
    <3>2. entry' \in {[entry EXCEPT ![a] = [entry[a] EXCEPT !.restorePending = FALSE, !.tries = 0]],
                      [entry EXCEPT ![a] = entry[a]]}
      BY <2>2 DEF RunRestoreTask
    <3> QED
      BY <1>1, <3>1, <3>2 DEF TypeInv
  <2> QED
    BY <2>1, <2>2
<1> DEFINE queued == IF tasks' = Tail(tasks) \o <<RestoreTask(a)>> THEN <<RestoreTask(a)>>
                     ELSE IF tasks' = Tail(tasks) \o FirstReconcile(a, entry[a].snap)
                     THEN FirstReconcile(a, entry[a].snap) ELSE <<>>
<1>3. tasks' = Tail(tasks) \o queued
  BY DEF RunRestoreTask
<1>4. queued \in Seq(GoodTask)
  <2>1. RestoreTask(a) \in GoodTask
    BY DEF RestoreTask, GoodTask
  <2>2. ReconcileTask(a, entry[a].snap, ReconcileTries) \in GoodTask
    BY <1>1, TriesAssumption DEF ReconcileTask, GoodTask, GoodEntry
  <2> QED
    BY <2>1, <2>2, OneTask DEF FirstReconcile
<1> HIDE DEF queued
<1>5. tasks' \in Seq(GoodTask) /\ frame' \in 0..Len(tasks')
  BY <1>1, <1>3, <1>4, QueueAdvances DEF TypeInv
<1>6. worn' \in [Actor -> FormHands] /\ calm' \in [Actor -> SUBSET SnapHands]
  <2>1. entry[a].snap \in SnapHands
    BY <1>1 DEF GoodEntry
  <2>2. Restored(worn[a], entry[a].snap, inv[a]) \in FormHands
    BY <1>1, <2>1, RestoredForms
  <2>3. \/ UNCHANGED <<worn, calm>>
        \/ /\ worn' = [worn EXCEPT ![a] = Restored(worn[a], entry[a].snap, inv[a])]
           /\ calm' \in {[calm EXCEPT ![a] = {entry[a].snap}], [calm EXCEPT ![a] = {}]}
    BY DEF RunRestoreTask
  <2> QED
    BY <2>1, <2>2, <2>3 DEF TypeInv
<1> QED
  BY <1>2, <1>5, <1>6 DEF RunRestoreTask, TypeInv, hearing

LEMMA ReconcileTaskTypes ==
    ASSUME TypeInv, NEW a \in Actor, frame > 0, frame' = frame - 1, RunReconcileTask(a)
    PROVE TypeInv'
<1> DEFINE t == Head(tasks)
<1>1. worn[a] \in FormHands /\ inv[a] \in [Item -> Nat] /\ tasks \in Seq(GoodTask) /\ tasks # <<>>
  BY DEF TypeInv
<1>2. t \in GoodTask /\ t.kind = "reconcile"
  BY <1>1 DEF RunReconcileTask
<1>3. t.want \in SnapHands /\ t.tries \in 0..ReconcileTries
  BY <1>2 DEF GoodTask
<1>4. Reconciled(worn[a], t.want, inv[a]) \in FormHands
  BY <1>1, <1>3, RestoredForms
<1>5. worn' \in [Actor -> FormHands]
  BY <1>4 DEF RunReconcileTask, TypeInv
<1>6. tasks' \in Seq(GoodTask) /\ frame' \in 0..Len(tasks')
  <2>1. CASE tasks' = Tail(tasks) \o <<>>
    BY <1>1, <2>1, QueueAdvances DEF TypeInv
  <2>2. CASE t.tries > 0 /\ tasks' = Tail(tasks) \o <<ReconcileTask(a, t.want, TriesAfter(t.tries))>>
    <3> DEFINE n == ReconcileTask(a, t.want, TriesAfter(t.tries))
    <3>1. TriesAfter(t.tries) \in 0..ReconcileTries
      BY <1>3, <2>2, TriesAssumption DEF TriesAfter
    <3>2. n \in GoodTask
      BY <1>3, <3>1 DEF ReconcileTask, GoodTask
    <3> HIDE DEF n, t
    <3>3. <<n>> \in Seq(GoodTask)
      BY <3>2, OneTask
    <3>4. tasks' = Tail(tasks) \o <<n>>
      BY <2>2 DEF n
    <3> QED
      BY <1>1, <3>3, <3>4, QueueAdvances DEF TypeInv
  <2> QED
    BY <2>1, <2>2 DEF RunReconcileTask
<1> QED
  BY <1>5, <1>6 DEF RunReconcileTask, TypeInv, history, hearing

LEMMA LoadTypes ==
    ASSUME TypeInv, NEW stock \in [Actor -> [Item -> 0..1]], LoadGame(stock)
    PROVE TypeInv'
<1>1. ASSUME NEW a \in Actor
      PROVE LoadedEntry(saved[a].have, saved[a].snap, saved[a].fight # "none") \in GoodEntry
  <2>1. saved[a] \in GoodSaved
    BY DEF TypeInv
  <2>2. NoEntry \in GoodEntry
    BY EmptyForms, TriesAssumption DEF NoEntry, GoodEntry, CombatState
  <2> QED
    BY <2>1, <2>2 DEF LoadedEntry, GoodEntry, GoodSaved, CombatState
<1>2. entry' \in [Actor -> GoodEntry]
  BY <1>1 DEF LoadGame
<1>3. \A a \in Actor : saved[a].fight \in CombatState /\ saved[a].before \in FormHands
  BY DEF TypeInv, GoodSaved
<1>4. inv' \in [Actor -> [Item -> Nat]]
  BY DEF LoadGame
<1> QED
  BY <1>2, <1>3, <1>4, EmptyForms DEF LoadGame, TypeInv

LEMMA NextTypes == TypeInv /\ [Next]_vars => TypeInv'
<1> SUFFICES ASSUME TypeInv, [Next]_vars PROVE TypeInv'
  OBVIOUS
<1> USE DEF feature, world, history, hearing
<1>1. CASE CombatStep
  BY <1>1, CombatTypes DEF CombatStep
<1>2. CASE FrameStep
  <2>1. CASE StartFrame
    BY <2>1 DEF StartFrame, TypeInv
  <2>2. CASE RunTask
    BY <2>2, RestoreTaskTypes, ReconcileTaskTypes DEF RunTask, TypeInv
  <2> QED
    BY <1>2, <2>1, <2>2 DEF FrameStep
<1>3. ASSUME NEW a \in Actor, NEW w \in AiOutcomes(worn[a], inv[a]), ChangeGear(a, w)
      PROVE TypeInv'
  <2>1. w \in FormHands
    BY AiForms DEF TypeInv
  <2> QED
    BY <1>3, <2>1 DEF ChangeGear, TypeInv
<1>4. ASSUME NEW a \in Actor, NEW i \in Item, GainItem(a, i)
      PROVE TypeInv'
  <2>1. inv' \in [Actor -> [Item -> Nat]]
    BY <1>4 DEF GainItem, TypeInv
  <2> QED
    BY <1>4, <2>1 DEF GainItem, TypeInv
<1>5. ASSUME NEW a \in Actor, NEW i \in Item, LoseItem(a, i)
      PROVE TypeInv'
  <2>1. inv' \in [Actor -> [Item -> Nat]]
    BY <1>5 DEF LoseItem, TypeInv
  <2>2. PICK w \in AiOutcomes(worn[a], inv[a]) : worn' = [worn EXCEPT ![a] = w]
    BY <1>5 DEF LoseItem
  <2>3. w \in FormHands
    BY AiForms DEF TypeInv
  <2> QED
    BY <1>5, <2>1, <2>2, <2>3 DEF LoseItem, TypeInv
<1>6. CASE ToggleMenu
  BY <1>6 DEF ToggleMenu, TypeInv
<1>7. CASE GearStep
  BY <1>3, <1>4, <1>5, <1>6, <1>7 DEF GearStep
<1>8. CASE ToggleSetting \/ Install
  BY <1>8 DEF ToggleSetting, Install, TypeInv
<1>9. NoEntry \in GoodEntry
  BY EmptyForms, TriesAssumption DEF NoEntry, GoodEntry, CombatState
<1>10. CASE Uninstall
  BY <1>9, <1>10 DEF Uninstall, TypeInv
<1>11. CASE SaveGame
  <2>1. \A a \in Actor :
          [have |-> entry[a].have,
           snap |-> IF entry[a].have THEN entry[a].snap ELSE EmptyHands,
           fight |-> fight[a], before |-> before[a], unseen |-> a \in unseen] \in GoodSaved
    BY EmptyForms DEF TypeInv, GoodEntry, GoodSaved
  <2> QED
    BY <1>11, <2>1 DEF SaveGame, TypeInv
<1>12. ASSUME NEW a \in Actor, ToggleFollower(a) \/ EraseActor(a)
       PROVE TypeInv'
  BY <1>9, <1>12 DEF ToggleFollower, EraseActor, TypeInv
<1>13. CASE LifecycleStep
  BY <1>8, <1>10, <1>11, <1>12, <1>13, LoadTypes DEF LifecycleStep
<1>14. CASE UNCHANGED vars
  BY <1>14 DEF vars, TypeInv
<1> QED
  BY <1>1, <1>2, <1>7, <1>13, <1>14 DEF Next

(* Types of entries, saves, tasks and hands, for any actors, items and     *)
(* tries; and a snapshot never names a bound weapon.                       *)
THEOREM PreCombatTypeCorrect == Spec => []TypeOK
<1>1. Spec => []TypeInv
  BY InitTypes, NextTypes, PTL DEF Spec
<1> QED
  BY <1>1, TypeInvTypes, PTL

(* For every snapshot and all hands an actor can have in this feature, the *)
(* routine of the reconcile frames has nothing to do after the restore     *)
(* routine, or only fills the right hand that a shield has emptied of a    *)
(* conjured weapon: they never fight over a slot.                          *)
THEOREM ReconcileAlwaysQuiet == Spec => []ReconcileIsQuiet
<1>1. TypeInv => ReconcileIsQuiet
  <2> SUFFICES ASSUME TypeInv, NEW a \in Actor, Carried(entry[a].snap, inv[a])
               PROVE LET s == entry[a].snap
                         w == Restored(worn[a], s, inv[a])
                         x == Reconciled(w, s, inv[a])
                     IN /\ x = IF ShieldOverConjured(worn[a], s) THEN [w EXCEPT !.right = s.right] ELSE w
                        /\ Reconciled(x, s, inv[a]) = x /\ ~Mismatch(x, s, inv[a])
    BY DEF ReconcileIsQuiet
  <2>1. entry[a].snap \in SnapHands /\ worn[a] \in FormHands /\ inv[a] \in [Item -> Nat]
    BY DEF TypeInv, GoodEntry
  <2>2. Restored(worn[a], entry[a].snap, inv[a]) \in FormHands
    BY <2>1, RestoredForms
  <2>3. CASE ~ShieldOverConjured(worn[a], entry[a].snap)
    <3>1. \A slot \in Slots :
             Settled(Restored(worn[a], entry[a].snap, inv[a])[slot], slot, entry[a].snap[slot])
      BY <2>1, <2>3, RestoredSettles
    <3> QED
      BY <2>1, <2>2, <2>3, <3>1, SettledReconciles
  <2>4. CASE ShieldOverConjured(worn[a], entry[a].snap)
    BY <2>1, <2>2, <2>4, ShieldEmptiesRight, RightFilled DEF ShieldOverConjured
  <2> QED
    BY <2>3, <2>4
<1>2. Spec => []TypeInv
  BY InitTypes, NextTypes, PTL DEF Spec
<1> QED
  BY <1>1, <1>2, PTL

----------------------------------------------------------------------------
(* Whose gear a pending restore puts on.                                   *)

(* Of a fight whose beginning was seen, the snapshot is what was worn      *)
(* then, and the feature knows that it is in it.  And it takes an actor    *)
(* for fighting only when it was told of a fight: of this one, or of one   *)
(* whose end it was not told.                                              *)
Remembers(e, state, from) ==
    /\ e.have => e.snap = Capture(from)
    /\ state # "none" => e.lastState # "none"

FightInv ==
    /\ \A a \in Actor \ unseen : Remembers(entry[a], fight[a], before[a])
    /\ \A a \in Actor : entry[a].lastState # "none" => a \in heard \cup lost
    /\ \A a \in heard : fight[a] # "none"
    /\ \A a \in Actor :
          saved[a].have /\ ~saved[a].unseen => saved[a].snap = Capture(saved[a].before)

(* Steps that leave the fight, its history and the snapshots alone.        *)
LEMMA FightUndisturbed ==
    ASSUME FightInv, UNCHANGED <<fight, before, hearing, saved>>,
           \A a \in Actor : /\ entry'[a].have = entry[a].have
                            /\ entry'[a].snap = entry[a].snap
                            /\ entry'[a].lastState = entry[a].lastState
    PROVE FightInv'
BY DEF FightInv, Remembers, hearing

LEMMA CombatKeepsFight ==
    ASSUME TypeInv, FightInv, NEW a \in Actor, NEW next \in CombatState, CombatEvent(a, next)
    PROVE FightInv'
<1> DEFINE prev == entry[a].lastState
           seen == installed /\ a \in follower
           entered == seen /\ enabled /\ prev = "none" /\ next # "none"
           exited == seen /\ enabled /\ prev # "none" /\ next = "none"
           watched == IF seen THEN [entry[a] EXCEPT !.lastState = next] ELSE entry[a]
<1>1. entry \in [Actor -> GoodEntry] /\ entry[a] \in GoodEntry
  BY DEF TypeInv
<1>2. /\ fight' = [fight EXCEPT ![a] = next] /\ fight[a] # next
      /\ entry' = [entry EXCEPT ![a] =
                     CASE entered -> [watched EXCEPT !.snap = Capture(worn[a]), !.have = TRUE]
                       [] exited -> [watched EXCEPT !.restorePending = TRUE, !.tries = RestoreTries]
                       [] OTHER -> watched]
      /\ IF fight[a] = "none"
         THEN /\ before' = [before EXCEPT ![a] = worn[a]]
              /\ unseen' = IF seen /\ enabled /\ a \notin lost THEN unseen \ {a} ELSE unseen \cup {a}
         ELSE UNCHANGED <<before, unseen>>
      /\ heard' = IF next = "none" THEN heard \ {a} ELSE IF seen THEN heard \cup {a} ELSE heard
      /\ lost' = CASE next = "none" /\ seen -> lost \ {a}
                   [] next = "none" /\ ~seen /\ a \in heard -> lost \cup {a}
                   [] OTHER -> lost
      /\ saved' = saved
  BY DEF CombatEvent, Hears
<1>3. entered => entry'[a].snap = Capture(worn[a]) /\ entry'[a].lastState = next
  BY <1>1, <1>2 DEF GoodEntry
<1>4. ~entered => /\ entry'[a].have = entry[a].have /\ entry'[a].snap = entry[a].snap
                  /\ entry'[a].lastState = IF seen THEN next ELSE prev
  BY <1>1, <1>2 DEF GoodEntry
<1>5. entered => next # "none" /\ prev = "none"
  OBVIOUS
<1>6. \A b \in Actor \ {a} :
         /\ entry'[b] = entry[b] /\ fight'[b] = fight[b] /\ before'[b] = before[b]
         /\ b \in unseen' <=> b \in unseen
         /\ b \in heard' <=> b \in heard
         /\ b \in lost' <=> b \in lost
  <2>1. before' \in {before, [before EXCEPT ![a] = worn[a]]}
        /\ unseen' \in {unseen, unseen \ {a}, unseen \cup {a}}
        /\ heard' \in {heard, heard \ {a}, heard \cup {a}}
        /\ lost' \in {lost, lost \ {a}, lost \cup {a}}
    BY <1>2
  <2> QED
    BY <1>1, <1>2, <2>1 DEF TypeInv
<1>7. fight'[a] = next
  BY <1>2 DEF TypeInv
<1> HIDE DEF entered
<1>8. \A b \in Actor \ {a} : b \notin unseen' => Remembers(entry'[b], fight'[b], before'[b])
  BY <1>6 DEF FightInv
<1>9. ASSUME fight[a] = "none", a \notin unseen'
      PROVE Remembers(entry'[a], fight'[a], before'[a])
  <2>1. before'[a] = worn[a]
    BY <1>2, <1>9 DEF TypeInv
  <2>2. seen /\ enabled /\ a \notin lost
    BY <1>2, <1>9
  <2>3. prev = "none"
    BY <1>9, <2>2 DEF FightInv
  <2>4. entered
    BY <1>2, <1>9, <2>2, <2>3 DEF entered
  <2> QED
    BY <1>3, <1>5, <2>1, <2>4 DEF Remembers
<1>10. ASSUME fight[a] # "none", a \notin unseen'
       PROVE Remembers(entry'[a], fight'[a], before'[a])
  <2>1. before' = before /\ unseen' = unseen
    BY <1>2, <1>10
  <2>2. Remembers(entry[a], fight[a], before[a])
    BY <1>10, <2>1 DEF FightInv
  <2>3. ~entered
    BY <1>5, <1>10, <2>2 DEF Remembers
  <2> QED
    BY <1>4, <1>7, <1>10, <2>1, <2>2, <2>3 DEF Remembers
<1>11. \A b \in Actor \ unseen' : Remembers(entry'[b], fight'[b], before'[b])
  BY <1>8, <1>9, <1>10
<1>12. saved' = saved
  BY <1>2
<1>13. entry'[a].lastState = IF seen THEN next ELSE prev
  BY <1>3, <1>4 DEF entered
<1>14. \A b \in Actor : entry'[b].lastState # "none" => b \in heard' \cup lost'
  <2>1. \A b \in Actor \ {a} : entry'[b].lastState # "none" => b \in heard' \cup lost'
    BY <1>6 DEF FightInv
  <2>2. ASSUME entry'[a].lastState # "none"
        PROVE a \in heard' \cup lost'
    <3>1. CASE seen
      BY <1>2, <1>13, <2>2, <3>1
    <3>2. CASE ~seen
      BY <1>2, <1>13, <2>2, <3>2 DEF FightInv
    <3> QED
      BY <3>1, <3>2
  <2> QED
    BY <2>1, <2>2
<1>15. \A b \in heard' : fight'[b] # "none"
  <2>1. a \in heard' => fight'[a] # "none"
    BY <1>2, <1>7 DEF FightInv
  <2>2. heard' \subseteq heard \cup {a}
    BY <1>2
  <2> QED
    BY <1>2, <1>6, <2>1, <2>2 DEF FightInv, TypeInv
<1> QED
  BY <1>11, <1>12, <1>14, <1>15 DEF FightInv

LEMMA RestoreKeepsFight ==
    ASSUME TypeInv, FightInv, NEW a \in Actor, RunRestoreTask(a)
    PROVE FightInv'
<1>1. entry \in [Actor -> GoodEntry] /\ entry[a] \in GoodEntry
  BY DEF TypeInv
<1>2. entry' \in {entry, [entry EXCEPT ![a] = [entry[a] EXCEPT !.tries = @ - 1]],
                  [entry EXCEPT ![a] = [entry[a] EXCEPT !.restorePending = FALSE, !.tries = 0]]}
  BY <1>1 DEF RunRestoreTask
<1>3. \A b \in Actor : /\ entry'[b].have = entry[b].have
                       /\ entry'[b].snap = entry[b].snap
                       /\ entry'[b].lastState = entry[b].lastState
  BY <1>1, <1>2 DEF GoodEntry
<1> QED
  BY <1>3, FightUndisturbed DEF RunRestoreTask

LEMMA SaveKeepsFight ==
    ASSUME TypeInv, FightInv, SaveGame
    PROVE FightInv'
<1>1. ASSUME NEW a \in Actor, saved'[a].have, ~saved'[a].unseen
      PROVE saved'[a].snap = Capture(saved'[a].before)
  BY <1>1 DEF SaveGame, FightInv, Remembers
<1> QED
  BY <1>1 DEF SaveGame, FightInv, world, history, hearing

LEMMA LoadKeepsFight ==
    ASSUME TypeInv, FightInv, NEW stock, LoadGame(stock)
    PROVE FightInv'
<1>1. ASSUME NEW a \in Actor \ unseen'
      PROVE Remembers(entry'[a], fight'[a], before'[a])
  <2>1. saved[a].have /\ ~saved[a].unseen
    BY <1>1 DEF LoadGame
  <2>2. before'[a] = saved[a].before /\ fight'[a] = saved[a].fight
    BY <1>1 DEF LoadGame
  <2>3. entry'[a].snap = saved[a].snap
        /\ entry'[a].lastState = IF saved[a].fight # "none" THEN "combat" ELSE "none"
    BY <1>1, <2>1 DEF LoadGame, LoadedEntry, NoEntry
  <2> QED
    BY <2>1, <2>2, <2>3 DEF FightInv, Remembers
<1> QED
  <2>1. \A a \in Actor : entry'[a].lastState # "none" => a \in heard' /\ fight'[a] # "none"
    BY DEF LoadGame, LoadedEntry, NoEntry
  <2>2. \A a \in heard' : fight'[a] # "none"
    BY DEF LoadGame
  <2> QED
    BY <1>1, <2>1, <2>2 DEF LoadGame, FightInv

LEMMA NextKeepsFight == TypeInv /\ FightInv /\ [Next]_vars => FightInv'
<1> SUFFICES ASSUME TypeInv, FightInv, [Next]_vars PROVE FightInv'
  OBVIOUS
<1> USE DEF feature, world, history, hearing
<1>1. CASE CombatStep
  BY <1>1, CombatKeepsFight DEF CombatStep
<1>2. CASE FrameStep
  <2>1. CASE StartFrame
    BY <2>1, FightUndisturbed DEF StartFrame
  <2>2. ASSUME NEW a \in Actor, RunReconcileTask(a)
        PROVE FightInv'
    BY <2>2, FightUndisturbed DEF RunReconcileTask
  <2> QED
    BY <1>2, <2>1, <2>2, RestoreKeepsFight DEF FrameStep, RunTask
<1>3. CASE GearStep
  <2>1. UNCHANGED <<entry, saved, fight, before, hearing>>
    BY <1>3 DEF GearStep, ChangeGear, GainItem, LoseItem, ToggleMenu
  <2> QED
    BY <2>1, FightUndisturbed
<1>4. CASE ToggleSetting \/ Install \/ \E a \in Actor : ToggleFollower(a)
  BY <1>4, FightUndisturbed DEF ToggleSetting, Install, ToggleFollower
<1>5. CASE Uninstall
  BY <1>5 DEF Uninstall, FightInv, NoEntry
<1>6. ASSUME NEW a \in Actor, EraseActor(a)
      PROVE FightInv'
  <2>1. \A b \in Actor \ unseen' : b \notin unseen /\ entry'[b] = entry[b]
    BY <1>6 DEF EraseActor, TypeInv
  <2>2. /\ entry'[a].lastState = "none"
        /\ \A b \in Actor \ {a} : entry'[b] = entry[b]
    BY <1>6 DEF EraseActor, TypeInv, NoEntry
  <2>3. \A b \in Actor : entry'[b].lastState # "none" => b \in heard' \cup lost'
    BY <1>6, <2>2 DEF EraseActor, FightInv
  <2> QED
    BY <1>6, <2>1, <2>3 DEF EraseActor, FightInv
<1>7. CASE LifecycleStep
  BY <1>4, <1>5, <1>6, <1>7, SaveKeepsFight, LoadKeepsFight DEF LifecycleStep
<1>8. CASE UNCHANGED vars
  BY <1>8, FightUndisturbed DEF vars
<1> QED
  BY <1>1, <1>2, <1>3, <1>7, <1>8 DEF Next

(* A restore that is going to happen puts on what the follower wore when   *)
(* this fight began, through any saves, loads, erasures and uninstalls,    *)
(* unless the feature was not there to see that or had missed the end of   *)
(* an earlier fight it knew of.                                            *)
THEOREM PendingRestoreAlwaysFromThisFight == Spec => []PendingRestoreIsFromThisFight
<1>1. Init => FightInv
  BY DEF Init, NoEntry, NothingSaved, FightInv, Remembers
<1>2. FightInv => PendingRestoreIsFromThisFight
  BY DEF FightInv, Remembers, PendingRestoreIsFromThisFight
<1> QED
  BY <1>1, <1>2, InitTypes, NextTypes, NextKeepsFight, PTL DEF Spec

----------------------------------------------------------------------------
(* A reconcile that ran has nothing more to do.                            *)

(* Nothing is to be done, or it cannot be done: the item is gone.          *)
Still(i, slot, want, stock) ==
    \/ Settled(i, slot, want)
    \/ /\ want # NoItem /\ stock[want] = 0
       /\ slot = "left" => ~(IsWeapon(i) /\ IsShield(want)) /\ ~(IsShield(i) /\ IsWeapon(want))

LEMMA StillIsQuiet ==
    ASSUME NEW w \in FormHands, NEW slot \in Slots, NEW want \in Item \cup {NoItem}, Wanted(slot, want),
           NEW stock, Still(w[slot], slot, want, stock)
    PROVE ReconcileSlot(w, slot, want, stock) = w
<1>1. CASE Settled(w[slot], slot, want)
  BY <1>1, SettledIsQuiet
<1>2. CASE ~Settled(w[slot], slot, want)
  BY <1>2 DEF Still, Settled, ReconcileSlot, EquipIfCarried
<1> QED
  BY <1>1, <1>2

LEMMA RightStills ==
    ASSUME NEW w \in FormHands, NEW want \in Item \cup {NoItem}, Wanted("right", want), NEW stock \in [Item -> Nat]
    PROVE Still(ReconcileSlot(w, "right", want, stock).right, "right", want, stock)
<1> USE NoItemAssumption, KindAssumption DEF Hands, IsWeapon, IsSnapshotWeapon, IsShield, IsBound,
        IsTwoHandedItem, OfKind
<1>1. CASE want = NoItem
  BY <1>1 DEF ReconcileSlot, ClearSlot, EngineUnequip, FreeHand, Still, Settled, FormHands
<1>2. CASE want # NoItem /\ IsBound(w.right)
  BY <1>2 DEF ReconcileSlot, Still, Settled, Wanted
<1>3. CASE want # NoItem /\ ~IsBound(w.right) /\ stock[want] = 0
  BY <1>3 DEF ReconcileSlot, EquipIfCarried, Still
<1>4. CASE want # NoItem /\ ~IsBound(w.right) /\ stock[want] # 0
  BY <1>4 DEF ReconcileSlot, EquipIfCarried, EngineEquip, FreeHand, OtherHand, Still, Settled, FormHands
<1> QED
  BY <1>1, <1>2, <1>3, <1>4

(* A single copy wanted in both hands ends in the left one.                *)
SharedCopy(w, s, stock) ==
    /\ s.left # NoItem /\ s.right = s.left /\ ~IsTwoHandedItem(s.left) /\ stock[s.left] = 1
    /\ w.left = s.left /\ w.right = NoItem

LEMMA LeftStills ==
    ASSUME NEW w \in FormHands, NEW s \in SnapHands, NEW stock \in [Item -> Nat],
           Still(w.right, "right", s.right, stock)
    PROVE LET x == ReconcileSlot(w, "left", s.left, stock)
          IN /\ Still(x.left, "left", s.left, stock)
             /\ Still(x.right, "right", s.right, stock) \/ SharedCopy(x, s, stock)
<1> DEFINE x == ReconcileSlot(w, "left", s.left, stock)
<1> USE NoItemAssumption, KindAssumption DEF Hands, IsWeapon, IsSnapshotWeapon, IsShield, IsBound,
        IsTwoHandedItem, OfKind, Settled, FormHands, SnapHands
<1>1. CASE IsBound(w.left)
  BY <1>1 DEF ReconcileSlot, Still
<1>2. CASE ~IsBound(w.left) /\ s.left = NoItem
  BY <1>2 DEF ReconcileSlot, ClearSlot, EngineUnequip, FreeHand, Still
<1>3. ASSUME ~IsBound(w.left), s.left # NoItem,
             NEW v \in FormHands, v = w \/ (v = FreeHand(w, "left") /\ w.left # s.left),
             ~(IsWeapon(v.left) /\ IsShield(s.left)), ~(IsShield(v.left) /\ IsWeapon(s.left)),
             x = EquipIfCarried(v, s.left, "left", stock)
      PROVE /\ Still(x.left, "left", s.left, stock)
            /\ Still(x.right, "right", s.right, stock) \/ SharedCopy(x, s, stock)
  <2>1. Still(v.right, "right", s.right, stock)
    <3>1. CASE v = w
      BY <3>1
    <3>2. CASE v = FreeHand(w, "left") /\ w.left # s.left /\ ~IsTwoHandedItem(w.left)
      BY <3>2 DEF FreeHand
    <3>3. CASE v = FreeHand(w, "left") /\ w.left # s.left /\ IsTwoHandedItem(w.left)
      <4>1. w.right = w.left /\ v.right = NoItem /\ w.right # s.right /\ ~IsBound(w.right)
        BY <1>3, <3>3 DEF FreeHand
      <4> QED
        BY <3>3, <4>1 DEF Still
    <3> QED
      BY <1>3, <3>1, <3>2, <3>3
  <2>2. CASE v.left = s.left \/ stock[s.left] = 0
    BY <1>3, <2>1, <2>2 DEF EquipIfCarried, Still
  <2>3. CASE v.left # s.left /\ stock[s.left] # 0
    <3>1. x = EngineEquip(v, s.left, "left", stock[s.left])
      BY <1>3, <2>3 DEF EquipIfCarried
    <3>2. CASE IsTwoHandedItem(s.left)
      BY <1>3, <3>1, <3>2 DEF EngineEquip, Still
    <3>3. CASE ~IsTwoHandedItem(s.left)
      <4> DEFINE y == EngineEquip(v, s.left, "left", stock[s.left])
      <4>1. /\ y.left = s.left
            /\ \/ y.right = v.right /\ (v.right # s.left \/ stock[s.left] # 1)
               \/ y.right = NoItem /\ IsTwoHandedItem(v.right)
               \/ y.right = NoItem /\ v.right = s.left /\ stock[s.left] = 1
        BY <1>3, <3>3 DEF EngineEquip, FreeHand, OtherHand
      <4> HIDE DEF y
      <4>2. CASE y.right = v.right
        BY <1>3, <2>1, <3>1, <4>1, <4>2 DEF y, Still
      <4>3. CASE y.right = NoItem /\ IsTwoHandedItem(v.right)
        <5>1. ~IsBound(v.right)
          BY <1>3, <4>3 DEF FreeHand
        <5> QED
          BY <5>1, <1>3, <2>1, <3>1, <3>3, <4>1, <4>3 DEF y, Still
      <4>4. CASE y.right = NoItem /\ v.right = s.left /\ stock[s.left] = 1
        BY <1>3, <2>1, <3>1, <3>3, <4>1, <4>4 DEF y, Still, SharedCopy
      <4> QED
        BY <4>1, <4>2, <4>3, <4>4
    <3> QED
      BY <3>2, <3>3
  <2> QED
    BY <2>2, <2>3
<1>4. CASE ~IsBound(w.left) /\ s.left # NoItem
           /\ ((IsWeapon(w.left) /\ IsShield(s.left)) \/ (IsShield(w.left) /\ IsWeapon(s.left)))
  <2> DEFINE v == FreeHand(w, "left")
  <2>1. v \in FormHands
    <3>1. v = EngineUnequip(w, "left") /\ "left" \in Slots
      BY DEF EngineUnequip, Slots
    <3> QED
      BY <3>1, UnequipForms
  <2>2. v.left = NoItem
    BY DEF FreeHand
  <2>3. w.left # NoItem
    BY <1>4
  <2>4. x = EquipIfCarried(v, s.left, "left", stock)
    BY <1>4, <2>3 DEF ReconcileSlot, ClearSlot, EngineUnequip
  <2> QED
    BY <1>3, <1>4, <2>1, <2>2, <2>4
<1>5. CASE ~IsBound(w.left) /\ s.left # NoItem
           /\ ~(IsWeapon(w.left) /\ IsShield(s.left)) /\ ~(IsShield(w.left) /\ IsWeapon(s.left))
  <2>1. x = EquipIfCarried(w, s.left, "left", stock)
    BY <1>5 DEF ReconcileSlot
  <2> QED
    BY <1>3, <1>5, <2>1
<1> QED
  BY <1>1, <1>2, <1>4, <1>5

LEMMA AmmoStills ==
    ASSUME NEW w \in FormHands, NEW want \in Item \cup {NoItem}, Wanted("ammo", want), NEW stock \in [Item -> Nat]
    PROVE LET x == ReconcileSlot(w, "ammo", want, stock)
          IN Still(x.ammo, "ammo", want, stock) /\ x.right = w.right /\ x.left = w.left
BY NoItemAssumption, KindAssumption
   DEF FormHands, Hands, Wanted, ReconcileSlot, ClearSlot, EngineUnequip, EquipIfCarried, EngineEquip, Still,
       Settled, IsBound, IsShield, IsAmmo, OfKind

(* The reconcile routine has nothing more to do for what it is done with.  *)
Fixed(w, s, stock) == Reconciled(w, s, stock) = w

LEMMA AllStillFixed ==
    ASSUME NEW w \in FormHands, NEW s \in SnapHands, NEW stock,
           \A slot \in Slots : Still(w[slot], slot, s[slot], stock)
    PROVE Fixed(w, s, stock)
<1>1. ASSUME NEW slot \in Slots
      PROVE ReconcileSlot(w, slot, s[slot], stock) = w
  BY SnapWanted, StillIsQuiet
<1>2. /\ ReconcileSlot(w, "right", s.right, stock) = w
      /\ ReconcileSlot(w, "left", s.left, stock) = w
      /\ ReconcileSlot(w, "ammo", s.ammo, stock) = w
  BY <1>1 DEF Slots
<1> QED
  BY <1>2 DEF Reconciled, Fixed

(* It passes the single copy from hand to hand and back again.             *)
LEMMA SharedCopyFixed ==
    ASSUME NEW w \in FormHands, NEW s \in SnapHands, NEW stock \in [Item -> Nat],
           SharedCopy(w, s, stock), Still(w.ammo, "ammo", s.ammo, stock)
    PROVE Fixed(w, s, stock)
<1> DEFINE i == s.left
           w1 == [w EXCEPT !.right = i, !.left = NoItem]
<1>1. /\ i \in Item /\ s.right = i /\ IsSnapshotWeapon(i) /\ ~IsTwoHandedItem(i) /\ stock[i] = 1
      /\ w.left = i /\ w.right = NoItem
  BY DEF SharedCopy, SnapHands, Hands
<1>2. i # NoItem /\ ~IsBound(i) /\ ~IsBound(NoItem) /\ ~IsShield(NoItem) /\ ~IsWeapon(NoItem) /\ ~IsShield(i)
  BY <1>1, NoItemAssumption DEF IsBound, IsShield, IsWeapon, IsSnapshotWeapon, OfKind
<1>3. ReconcileSlot(w, "right", s.right, stock) = w1
  <2>1. ReconcileSlot(w, "right", s.right, stock) = EngineEquip(w, i, "right", 1)
    BY <1>1, <1>2 DEF ReconcileSlot, EquipIfCarried
  <2>2. EngineEquip(w, i, "right", 1) = w1
    BY <1>1, <1>2 DEF EngineEquip, FreeHand, OtherHand, FormHands, Hands
  <2> QED
    BY <2>1, <2>2
<1>4. ReconcileSlot(w1, "left", s.left, stock) = w
  <2>1. w1.left = NoItem /\ w1.right = i /\ w1 \in Hands
    BY <1>1 DEF FormHands, Hands
  <2>2. ReconcileSlot(w1, "left", s.left, stock) = EngineEquip(w1, i, "left", 1)
    BY <1>1, <1>2, <2>1 DEF ReconcileSlot, EquipIfCarried
  <2>3. EngineEquip(w1, i, "left", 1) = w
    BY <1>1, <1>2 DEF EngineEquip, FreeHand, OtherHand, FormHands, Hands
  <2> QED
    BY <2>2, <2>3
<1>5. ReconcileSlot(w, "ammo", s.ammo, stock) = w
  BY StillIsQuiet, SnapWanted DEF Slots
<1> QED
  BY <1>3, <1>4, <1>5 DEF Reconciled, Fixed

(* Reconciling twice is reconciling once, whatever is carried.             *)
LEMMA ReconciledIsFixed ==
    ASSUME NEW w \in FormHands, NEW s \in SnapHands, NEW stock \in [Item -> Nat]
    PROVE Fixed(Reconciled(w, s, stock), s, stock)
<1> DEFINE w1 == ReconcileSlot(w, "right", s.right, stock)
           w2 == ReconcileSlot(w1, "left", s.left, stock)
           w3 == ReconcileSlot(w2, "ammo", s.ammo, stock)
<1>1. {"right", "left", "ammo"} \subseteq Slots
  BY DEF Slots
<1>2. /\ Wanted("right", s.right) /\ s.right \in Item \cup {NoItem}
      /\ Wanted("left", s.left) /\ s.left \in Item \cup {NoItem}
      /\ Wanted("ammo", s.ammo) /\ s.ammo \in Item \cup {NoItem}
  BY <1>1, SnapWanted
<1>3. w1 \in FormHands /\ Still(w1.right, "right", s.right, stock)
  BY <1>1, <1>2, ReconcileSlotForms, RightStills
<1> HIDE DEF w1
<1>4. /\ w2 \in FormHands /\ Still(w2.left, "left", s.left, stock)
      /\ Still(w2.right, "right", s.right, stock) \/ SharedCopy(w2, s, stock)
  BY <1>1, <1>2, <1>3, ReconcileSlotForms, LeftStills
<1> HIDE DEF w2
<1>5. /\ w3 \in FormHands /\ Still(w3.ammo, "ammo", s.ammo, stock)
      /\ w3.right = w2.right /\ w3.left = w2.left
  BY <1>1, <1>2, <1>4, ReconcileSlotForms, AmmoStills
<1>6. Reconciled(w, s, stock) = w3
  BY DEF Reconciled, w1, w2
<1> HIDE DEF w3
<1>7. CASE Still(w3.right, "right", s.right, stock)
  BY <1>4, <1>5, <1>6, <1>7, AllStillFixed DEF Slots
<1>8. CASE SharedCopy(w2, s, stock)
  <2>1. SharedCopy(w3, s, stock)
    BY <1>5, <1>8 DEF SharedCopy
  <2> QED
    BY <1>5, <1>6, <2>1, SharedCopyFixed
<1> QED
  BY <1>4, <1>5, <1>7, <1>8

(* A reconcile that finds no mismatch changes nothing.                     *)
LEMMA NoMismatchFixed ==
    ASSUME NEW w \in FormHands, NEW s \in SnapHands, NEW stock, ~Mismatch(w, s, stock)
    PROVE Fixed(w, s, stock)
<1>1. ASSUME NEW slot \in Slots, ~SlotDiffers(w, slot, s[slot])
      PROVE ReconcileSlot(w, slot, s[slot], stock) = w
  <2>1. CASE IsBound(w[slot])
    BY <2>1 DEF ReconcileSlot
  <2>2. CASE ~IsBound(w[slot]) /\ s[slot] = NoItem
    BY <1>1, <2>2 DEF ReconcileSlot, SlotDiffers
  <2>3. CASE ~IsBound(w[slot]) /\ s[slot] # NoItem
    <3>1. Settled(w[slot], slot, s[slot])
      BY <1>1, <2>3 DEF SlotDiffers, Settled
    <3> QED
      BY <3>1, SnapWanted, SettledIsQuiet
  <2> QED
    BY <2>1, <2>2, <2>3
<1>2. ReconcileSlot(w, "right", s.right, stock) = w
  BY <1>1 DEF Mismatch, Slots
<1>3. ReconcileSlot(w, "left", s.left, stock) = w
  BY <1>1, <1>2 DEF Mismatch, Slots
<1>4. ReconcileSlot(w, "ammo", s.ammo, stock) = w
  BY <1>1, <1>2, <1>3 DEF Mismatch, Slots
<1> QED
  BY <1>2, <1>3, <1>4 DEF Reconciled, Fixed

----------------------------------------------------------------------------
(* The chains of two restores.                                             *)

(* The reconciles of an actor in a queue.                                  *)
IsReconcile(t, a) == t.kind = "reconcile" /\ t.actor = a
Recs(q, a) == {k \in DOMAIN q : IsReconcile(q[k], a)}

(* What is left of the last restore, of snapshot s, and of at most one     *)
(* older one: nothing, its own chain, the older one's chain with nothing   *)
(* to do, or both, with the older one first in every frame and the first   *)
(* to run out of tries.                                                    *)
Chains(q, f, a, s, busy, w, stock) ==
    \/ Recs(q, a) = {} /\ Fixed(w, s, stock)
    \/ \E m \in DOMAIN q : /\ Recs(q, a) = {m} /\ q[m].want = s
                           /\ Fixed(w, s, stock) \/ (~busy /\ m <= f)
    \/ \E o \in DOMAIN q : /\ Recs(q, a) = {o}
                           /\ Fixed(w, s, stock) /\ Fixed(w, q[o].want, stock)
    \/ \E o, m \in DOMAIN q :
          /\ Recs(q, a) = {o, m} /\ q[m].want = s
          /\ \/ o < m /\ (m <= f \/ f < o) /\ q[o].tries <= q[m].tries /\ Fixed(w, s, stock)
             \/ m <= f /\ f < o /\ q[o].tries < q[m].tries
                /\ Fixed(w, IF busy THEN s ELSE q[o].want, stock)

LEMMA QueueSteps ==
    ASSUME NEW q \in Seq(GoodTask), q # <<>>, NEW n \in Seq(GoodTask)
    PROVE /\ Len(q) \in Nat /\ Len(q) >= 1 /\ Len(n) \in Nat /\ DOMAIN q = 1..Len(q)
          /\ DOMAIN (Tail(q) \o n) = 1..(Len(q) - 1 + Len(n))
          /\ \A k \in 1..(Len(q) - 1) : (Tail(q) \o n)[k] = q[k + 1]
          /\ \A k \in 1..Len(n) : (Tail(q) \o n)[Len(q) - 1 + k] = n[k]
OBVIOUS

(* What is queued behind is no reconcile of the actor, ...                 *)
LEMMA RecsShift ==
    ASSUME NEW q \in Seq(GoodTask), q # <<>>, NEW n \in Seq(GoodTask), NEW a,
           \A k \in 1..Len(n) : ~IsReconcile(n[k], a)
    PROVE \A k \in Int : k \in Recs(Tail(q) \o n, a) <=> k >= 1 /\ k + 1 \in Recs(q, a)
<1> DEFINE x == Tail(q) \o n
<1>1. /\ Len(q) \in Nat /\ Len(q) >= 1 /\ Len(n) \in Nat /\ DOMAIN q = 1..Len(q)
      /\ DOMAIN x = 1..(Len(q) - 1 + Len(n))
      /\ \A k \in 1..(Len(q) - 1) : x[k] = q[k + 1]
      /\ \A k \in 1..Len(n) : x[Len(q) - 1 + k] = n[k]
  BY QueueSteps
<1> HIDE DEF x
<1> SUFFICES ASSUME NEW k \in Int
             PROVE k \in Recs(x, a) <=> k >= 1 /\ k + 1 \in Recs(q, a)
  BY DEF x
<1>2. CASE k >= 1 /\ k <= Len(q) - 1
  BY <1>1, <1>2 DEF Recs
<1>3. CASE k > Len(q) - 1
  <2>1. k + 1 \notin DOMAIN q
    BY <1>1, <1>3
  <2>2. ASSUME k \in DOMAIN x
        PROVE ~IsReconcile(x[k], a)
    <3> DEFINE j == k - (Len(q) - 1)
    <3>1. j \in 1..Len(n) /\ Len(q) - 1 + j = k
      BY <1>1, <1>3, <2>2
    <3> HIDE DEF j
    <3>2. x[Len(q) - 1 + j] = n[j]
      BY <1>1, <3>1
    <3> QED
      BY <3>1, <3>2
  <2> QED
    BY <2>1, <2>2 DEF Recs
<1>4. CASE k < 1
  BY <1>1, <1>4 DEF Recs
<1> QED
  BY <1>1, <1>2, <1>3, <1>4

(* ... or one is.                                                          *)
LEMMA RecsRequeue ==
    ASSUME NEW q \in Seq(GoodTask), q # <<>>, NEW t \in GoodTask, NEW a, IsReconcile(t, a)
    PROVE /\ \A k \in Int : k \in Recs(Tail(q) \o <<t>>, a) <=>
                               k = Len(q) \/ (k >= 1 /\ k + 1 \in Recs(q, a))
          /\ (Tail(q) \o <<t>>)[Len(q)] = t
<1> DEFINE n == <<t>>
           x == Tail(q) \o n
<1>1. n \in Seq(GoodTask) /\ Len(n) = 1 /\ n[1] = t
  OBVIOUS
<1> HIDE DEF n
<1>2. /\ Len(q) \in Nat /\ Len(q) >= 1 /\ DOMAIN q = 1..Len(q)
      /\ DOMAIN x = 1..(Len(q) - 1 + Len(n))
      /\ \A k \in 1..(Len(q) - 1) : x[k] = q[k + 1]
      /\ \A k \in 1..Len(n) : x[Len(q) - 1 + k] = n[k]
  BY <1>1, QueueSteps
<1> HIDE DEF x
<1>3. DOMAIN x = 1..Len(q)
  BY <1>1, <1>2
<1>4. x[Len(q)] = t
  <2>1. 1 \in 1..Len(n) /\ Len(q) - 1 + 1 = Len(q)
    BY <1>1, <1>2
  <2>2. x[Len(q) - 1 + 1] = n[1]
    BY <1>2, <2>1
  <2> QED
    BY <1>1, <2>1, <2>2
<1>5. ASSUME NEW k \in Int
      PROVE k \in Recs(x, a) <=> k = Len(q) \/ (k >= 1 /\ k + 1 \in Recs(q, a))
  <2>1. CASE k = Len(q)
    BY <1>2, <1>3, <1>4, <2>1 DEF Recs
  <2>2. CASE k # Len(q)
    BY <1>2, <1>3, <2>2 DEF Recs
  <2> QED
    BY <2>1, <2>2
<1> QED
  BY <1>4, <1>5 DEF n, x

LEMMA RecsTypes ==
    ASSUME NEW q \in Seq(GoodTask), NEW a
    PROVE Recs(q, a) \subseteq DOMAIN q /\ DOMAIN q = 1..Len(q) /\ Len(q) \in Nat
          /\ \A k \in Recs(q, a) : /\ q[k].want \in SnapHands /\ q[k].tries \in 0..ReconcileTries
                                   /\ q[k].tries \in Nat
<1>1. DOMAIN q = 1..Len(q) /\ Len(q) \in Nat
  OBVIOUS
<1>2. ASSUME NEW k \in Recs(q, a)
      PROVE q[k].want \in SnapHands /\ q[k].tries \in 0..ReconcileTries /\ q[k].tries \in Nat
  <2>1. q[k] \in GoodTask /\ q[k].kind = "reconcile"
    BY DEF Recs, IsReconcile
  <2> QED
    BY <2>1, TriesAssumption DEF GoodTask
<1> QED
  BY <1>1, <1>2 DEF Recs

(* A task of another actor, or a restore that is not carried out, runs.    *)
LEMMA ChainsShift ==
    ASSUME NEW q \in Seq(GoodTask), q # <<>>, NEW n \in Seq(GoodTask), NEW a, NEW f \in Nat, f > 0,
           NEW s, NEW busy, NEW w, NEW stock,
           ~IsReconcile(q[1], a), \A k \in 1..Len(n) : ~IsReconcile(n[k], a),
           Chains(q, f, a, s, busy, w, stock)
    PROVE Chains(Tail(q) \o n, f - 1, a, s, busy, w, stock)
<1> DEFINE x == Tail(q) \o n
           R == Recs(q, a)
           Q == Recs(x, a)
<1>1. \A k \in Int : k \in Q <=> k >= 1 /\ k + 1 \in R
  BY RecsShift
<1>2. /\ R \subseteq DOMAIN q /\ Q \subseteq DOMAIN x /\ DOMAIN q = 1..Len(q) /\ Len(q) \in Nat
      /\ DOMAIN x \subseteq Int
      /\ \A k \in 1..(Len(q) - 1) : x[k] = q[k + 1]
  BY QueueSteps DEF Recs
<1>3. 1 \notin R
  BY DEF Recs
<1>4. ASSUME NEW k \in R
      PROVE k - 1 \in Q /\ x[k - 1] = q[k] /\ k - 1 \in DOMAIN x /\ k \in Int
  <2>1. k \in 1..Len(q) /\ k # 1
    BY <1>2, <1>3
  <2>2. k - 1 \in 1..(Len(q) - 1) /\ k - 1 \in Int /\ k - 1 + 1 = k
    BY <1>2, <2>1
  <2> HIDE DEF x, Q, R
  <2>3. k - 1 \in Q
    BY <1>1, <2>2
  <2> QED
    BY <1>2, <2>1, <2>2, <2>3
<1>5. ASSUME NEW k \in Q
      PROVE k \in Int /\ k + 1 \in R
  BY <1>1, <1>2
<1>6. R \subseteq Int
  BY <1>4
<1> HIDE DEF x, Q
<1>7. CASE R = {} /\ Fixed(w, s, stock)
  BY <1>5, <1>7 DEF Chains, x, Q
<1>8. ASSUME NEW m \in DOMAIN q, R = {m}
      PROVE m \in R /\ Q = {m - 1}
  <2>1. m \in R /\ m \in Int
    BY <1>4, <1>8
  <2>2. m - 1 \in Q
    BY <1>4, <2>1
  <2>3. ASSUME NEW k \in Q
        PROVE k = m - 1
    <3>1. k \in Int /\ k + 1 = m
      BY <1>5, <1>8
    <3> QED
      BY <2>1, <3>1
  <2> QED
    BY <2>1, <2>2, <2>3
<1>9. ASSUME NEW o \in DOMAIN q, NEW m \in DOMAIN q, R = {o, m}
      PROVE o \in R /\ m \in R /\ Q = {o - 1, m - 1}
  <2>1. m \in R /\ m \in Int /\ o \in R /\ o \in Int
    BY <1>4, <1>9
  <2>2. m - 1 \in Q /\ o - 1 \in Q
    BY <1>4, <2>1
  <2>3. ASSUME NEW k \in Q
        PROVE k = m - 1 \/ k = o - 1
    <3>1. k \in Int /\ (k + 1 = m \/ k + 1 = o)
      BY <1>5, <1>9
    <3> QED
      BY <2>1, <3>1
  <2> QED
    BY <2>1, <2>2, <2>3
<1> HIDE DEF R
<1>10. ASSUME NEW m \in DOMAIN q, R = {m}, q[m].want = s, Fixed(w, s, stock) \/ (~busy /\ m <= f)
       PROVE Chains(x, f - 1, a, s, busy, w, stock)
  <2>1. /\ Q = {m - 1} /\ x[m - 1] = q[m] /\ m - 1 \in DOMAIN x
        /\ m <= f => m - 1 <= f - 1
    BY <1>4, <1>8, <1>10
  <2> QED
    BY <1>10, <2>1 DEF Chains, Q
<1>11. ASSUME NEW o \in DOMAIN q, R = {o}, Fixed(w, s, stock), Fixed(w, q[o].want, stock)
       PROVE Chains(x, f - 1, a, s, busy, w, stock)
  <2>1. Q = {o - 1} /\ x[o - 1] = q[o] /\ o - 1 \in DOMAIN x
    BY <1>4, <1>8, <1>11
  <2> QED
    BY <1>11, <2>1 DEF Chains, Q
<1>12. ASSUME NEW o \in DOMAIN q, NEW m \in DOMAIN q, R = {o, m}, q[m].want = s,
              \/ o < m /\ (m <= f \/ f < o) /\ q[o].tries <= q[m].tries /\ Fixed(w, s, stock)
              \/ m <= f /\ f < o /\ q[o].tries < q[m].tries
                   /\ Fixed(w, IF busy THEN s ELSE q[o].want, stock)
       PROVE Chains(x, f - 1, a, s, busy, w, stock)
  <2>1. /\ Q = {o - 1, m - 1} /\ x[o - 1] = q[o] /\ x[m - 1] = q[m]
        /\ o - 1 \in DOMAIN x /\ m - 1 \in DOMAIN x /\ o \in Int /\ m \in Int
    BY <1>4, <1>9, <1>12
  <2>2. /\ o < m => o - 1 < m - 1
        /\ m <= f => m - 1 <= f - 1
        /\ f < o => f - 1 < o - 1
    BY <2>1
  <2> QED
    BY <1>12, <2>1, <2>2 DEF Chains, Q
<1> QED
  BY <1>7, <1>10, <1>11, <1>12 DEF Chains, R, x

(* Between frames: the queue grows, a frame starts, the actor becomes busy *)
(* or free.                                                                *)
LEMMA ChainsBetweenFrames ==
    ASSUME NEW q \in Seq(GoodTask), NEW x \in Seq(GoodTask), NEW a, NEW f, NEW s, NEW busy, NEW busy2,
           NEW w, NEW stock, f = 0 \/ f = Len(q),
           \/ x = q
           \/ \E t \in GoodTask : x = Append(q, t) /\ ~IsReconcile(t, a) /\ f = 0,
           Chains(q, 0, a, s, busy, w, stock)
    PROVE Chains(x, f, a, s, busy2, w, stock)
<1> DEFINE R == Recs(q, a)
<1>1. DOMAIN q = 1..Len(q) /\ Len(q) \in Nat /\ R \subseteq DOMAIN q
  BY DEF Recs
<1>2. DOMAIN q \subseteq DOMAIN x /\ \A k \in DOMAIN q : x[k] = q[k]
  OBVIOUS
<1>3. Recs(x, a) = R
  <2>1. CASE x = q
    BY <2>1
  <2>2. ASSUME NEW t \in GoodTask, x = Append(q, t), ~IsReconcile(t, a)
        PROVE Recs(x, a) = R
    <3>1. DOMAIN x = 1..(Len(q) + 1) /\ x[Len(q) + 1] = t
      BY <2>2
    <3>2. ASSUME NEW k \in Recs(x, a)
          PROVE k \in R
      <4>1. k \in 1..(Len(q) + 1) /\ k # Len(q) + 1
        BY <2>2, <3>1 DEF Recs
      <4>2. k \in DOMAIN q
        BY <1>1, <4>1
      <4> QED
        BY <1>2, <4>2 DEF Recs
    <3>3. ASSUME NEW k \in R
          PROVE k \in Recs(x, a)
      BY <1>2 DEF Recs
    <3> QED
      BY <3>2, <3>3
  <2> QED
    BY <2>1, <2>2
<1>4. \A k \in DOMAIN q : k > 0 /\ ~(k <= 0) /\ (f = 0 => f < k) /\ (f = Len(q) => k <= f)
  BY <1>1
<1> HIDE DEF R
<1>5. CASE R = {} /\ Fixed(w, s, stock)
  BY <1>3, <1>5 DEF Chains
<1>6. ASSUME NEW m \in DOMAIN q, R = {m}, q[m].want = s, Fixed(w, s, stock) \/ (~busy /\ m <= 0)
      PROVE Chains(x, f, a, s, busy2, w, stock)
  BY <1>2, <1>3, <1>4, <1>6 DEF Chains
<1>7. ASSUME NEW o \in DOMAIN q, R = {o}, Fixed(w, s, stock), Fixed(w, q[o].want, stock)
      PROVE Chains(x, f, a, s, busy2, w, stock)
  BY <1>2, <1>3, <1>4, <1>7 DEF Chains
<1>8. ASSUME NEW o \in DOMAIN q, NEW m \in DOMAIN q, R = {o, m}, q[m].want = s,
             \/ o < m /\ q[o].tries <= q[m].tries /\ Fixed(w, s, stock)
             \/ m <= 0
      PROVE Chains(x, f, a, s, busy2, w, stock)
  <2>1. o < m /\ q[o].tries <= q[m].tries /\ Fixed(w, s, stock) /\ (m <= f \/ f < o)
    BY <1>4, <1>8
  <2> QED
    BY <1>2, <1>3, <1>8, <2>1 DEF Chains
<1> QED
  BY <1>5, <1>6, <1>7, <1>8 DEF Chains, R

(* A reconcile of the actor's own runs.                                    *)
LEMMA ChainsReconcile ==
    ASSUME NEW q \in Seq(GoodTask), q # <<>>, NEW a \in Actor, NEW f \in 1..Len(q), NEW s \in SnapHands,
           NEW busy \in BOOLEAN, NEW w \in FormHands, NEW stock \in [Item -> Nat], IsReconcile(q[1], a),
           NEW again, again <=> q[1].tries > 0 /\ (busy \/ Mismatch(w, q[1].want, stock)),
           NEW w2, w2 = IF busy THEN w ELSE Reconciled(w, q[1].want, stock),
           NEW x, x = Tail(q) \o (IF again THEN <<ReconcileTask(a, q[1].want, TriesAfter(q[1].tries))>>
                                           ELSE <<>>),
           Chains(q, f, a, s, busy, w, stock)
    PROVE Chains(x, f - 1, a, s, busy, w2, stock)
<1> DEFINE t == q[1]
           next == ReconcileTask(a, t.want, TriesAfter(t.tries))
           R == Recs(q, a)
           Q == Recs(x, a)
           L == Len(q)
<1>1. /\ t \in GoodTask /\ t.want \in SnapHands /\ t.tries \in 0..ReconcileTries /\ t.tries \in Nat
      /\ 1 \in R /\ R \subseteq 1..L /\ L \in Nat /\ DOMAIN q = 1..L
      /\ \A k \in R : q[k].tries \in Nat
  <2>1. 1 \in DOMAIN q /\ t \in GoodTask
    OBVIOUS
  <2> QED
    BY <2>1, RecsTypes DEF Recs
<1>2. ~busy => Fixed(w2, t.want, stock)
  BY <1>1, ReconciledIsFixed
<1>3. busy \/ ~Mismatch(w, t.want, stock) \/ Fixed(w, t.want, stock) => w2 = w
  <2>1. ~Mismatch(w, t.want, stock) => Fixed(w, t.want, stock)
    BY <1>1, NoMismatchFixed
  <2> QED
    BY <2>1 DEF Fixed
(* What the queue is.                                                      *)
<1>4. ASSUME again
      PROVE /\ next \in GoodTask /\ next.want = t.want /\ next.tries = t.tries - 1 /\ IsReconcile(next, a)
            /\ x = Tail(q) \o <<next>>
  <2>1. t.tries > 0
    BY <1>4
  <2>2. t.tries - 1 \in 0..ReconcileTries
    <3> HIDE DEF t
    <3> QED
      BY <1>1, <2>1, TriesAssumption
  <2> QED
    BY <1>1, <1>4, <2>2 DEF ReconcileTask, TriesAfter, GoodTask, IsReconcile
<1> HIDE DEF t, next
<1>5. ASSUME again
      PROVE /\ \A k \in Int : k \in Q <=> k = L \/ (k >= 1 /\ k + 1 \in R)
            /\ x[L] = next /\ L \in DOMAIN x
  <2>1. x[L] = next /\ \A k \in Int : k \in Q <=> k = L \/ (k >= 1 /\ k + 1 \in R)
    BY <1>4, <1>5, RecsRequeue
  <2>2. L \in Q
    <3> HIDE DEF L, Q, R
    <3> QED
      BY <1>1, <2>1
  <2> QED
    BY <2>1, <2>2 DEF Recs
<1>6. ASSUME ~again
      PROVE \A k \in Int : k \in Q <=> k >= 1 /\ k + 1 \in R
  <2> DEFINE n == <<>>
  <2>1. n \in Seq(GoodTask) /\ Len(n) = 0 /\ x = Tail(q) \o n
    BY <1>6
  <2> HIDE DEF n
  <2>2. \A k \in 1..Len(n) : ~IsReconcile(n[k], a)
    BY <2>1
  <2> QED
    BY <2>1, <2>2, RecsShift
<1>7. Q \subseteq DOMAIN x /\ Q \subseteq Int
  <2>1. x \in Seq(GoodTask)
    <3>1. CASE again
      BY <1>4, <3>1
    <3>2. CASE ~again
      BY <3>2
    <3> QED
      BY <3>1, <3>2
  <2> QED
    BY <2>1, RecsTypes DEF Recs
<1>8. \A k \in 1..(L - 1) : x[k] = q[k + 1]
  <2>1. CASE again
    <3>1. <<next>> \in Seq(GoodTask)
      BY <1>4, <2>1
    <3> QED
      BY <1>4, <2>1, <3>1, QueueSteps
  <2>2. CASE ~again
    <3>1. <<>> \in Seq(GoodTask)
      OBVIOUS
    <3> QED
      BY <2>2, <3>1, QueueSteps
  <2> QED
    BY <2>1, <2>2
<1> HIDE DEF R, Q, L
<1>9. ASSUME NEW k \in R, k # 1
      PROVE k - 1 \in Q /\ x[k - 1] = q[k] /\ k - 1 \in DOMAIN x /\ k \in 2..L
  <2>1. k \in 2..L /\ k - 1 \in 1..(L - 1) /\ k - 1 + 1 = k /\ k - 1 \in Int
    BY <1>1, <1>9
  <2>2. k - 1 \in Q
    BY <1>5, <1>6, <1>9, <2>1
  <2> QED
    BY <1>7, <1>8, <2>1, <2>2
<1>10. ASSUME R = {1}
       PROVE Q = IF again THEN {L} ELSE {}
  <2>1. ASSUME NEW k \in Q
        PROVE again /\ k = L
    <3>1. k \in Int /\ ~(k >= 1 /\ k + 1 \in R)
      BY <1>7, <1>10
    <3> QED
      BY <1>5, <1>6, <3>1
  <2>2. again => L \in Q
    BY <1>1, <1>5
  <2> QED
    BY <2>1, <2>2
<1>11. ASSUME NEW k \in R, k # 1, R = {1, k}
       PROVE Q = IF again THEN {k - 1, L} ELSE {k - 1}
  <2>1. ASSUME NEW j \in Q
        PROVE j = k - 1 \/ (again /\ j = L)
    <3>1. j \in Int /\ (j >= 1 /\ j + 1 \in R => j + 1 = k)
      BY <1>7, <1>11
    <3>2. k \in Int
      BY <1>9, <1>11
    <3> QED
      BY <1>5, <1>6, <3>1, <3>2
  <2>2. (again => L \in Q) /\ k - 1 \in Q
    BY <1>1, <1>5, <1>9, <1>11
  <2> QED
    BY <2>1, <2>2
(* Which chain it belongs to.                                              *)
<1>12. ASSUME NEW m \in DOMAIN q, R = {m}, q[m].want = s, Fixed(w, s, stock) \/ ~busy
       PROVE Chains(x, f - 1, a, s, busy, w2, stock)
  <2>1. m = 1 /\ t.want = s
    BY <1>1, <1>12 DEF t
  <2>2. Fixed(w2, s, stock)
    BY <1>2, <1>3, <1>12, <2>1
  <2>3. CASE again
    BY <1>4, <1>5, <1>10, <1>12, <2>1, <2>2, <2>3 DEF Chains, Q
  <2>4. CASE ~again
    BY <1>10, <1>12, <2>1, <2>2, <2>4 DEF Chains, Q
  <2> QED
    BY <2>3, <2>4
<1>13. ASSUME NEW o \in DOMAIN q, R = {o}, Fixed(w, s, stock), Fixed(w, q[o].want, stock)
       PROVE Chains(x, f - 1, a, s, busy, w2, stock)
  <2>1. o = 1
    BY <1>1, <1>13
  <2>2. Fixed(w2, s, stock) /\ Fixed(w2, t.want, stock)
    BY <1>3, <1>13, <2>1 DEF t
  <2>3. CASE again
    BY <1>4, <1>5, <1>10, <1>13, <2>1, <2>2, <2>3 DEF Chains, Q
  <2>4. CASE ~again
    BY <1>10, <1>13, <2>1, <2>2, <2>4 DEF Chains, Q
  <2> QED
    BY <2>3, <2>4
<1>14. ASSUME NEW o \in DOMAIN q, NEW m \in DOMAIN q, R = {o, m}, q[m].want = s,
              o < m, m <= f \/ f < o, q[o].tries <= q[m].tries, Fixed(w, s, stock)
       PROVE Chains(x, f - 1, a, s, busy, w2, stock)
  <2>1. o = 1 /\ m \in R /\ m # 1 /\ m <= f /\ m \in Int /\ R = {1, m}
    BY <1>1, <1>14
  <2>2. /\ m - 1 \in DOMAIN x /\ x[m - 1] = q[m] /\ m - 1 <= f - 1 /\ f - 1 < L
        /\ Q = IF again THEN {m - 1, L} ELSE {m - 1}
    BY <1>1, <1>9, <1>11, <2>1 DEF L
  <2>3. t.tries <= q[m].tries /\ q[m].tries \in Nat
    BY <1>1, <1>14, <2>1 DEF t
  <2>4. Fixed(w2, IF busy THEN s ELSE t.want, stock)
    BY <1>2, <1>3, <1>14
  <2>5. CASE again
    <3>1. x[L].want = t.want /\ x[L].tries < x[m - 1].tries /\ L \in DOMAIN x /\ x[m - 1].want = s
      BY <1>1, <1>4, <1>5, <1>14, <2>2, <2>3, <2>5
    <3> QED
      BY <2>2, <2>4, <2>5, <3>1 DEF Chains, Q
  <2>6. CASE ~again
    <3>1. Fixed(w2, s, stock) \/ ~busy
      BY <2>4
    <3> QED
      BY <1>14, <2>2, <2>6, <3>1 DEF Chains, Q
  <2> QED
    BY <2>5, <2>6
<1>15. ASSUME NEW o \in DOMAIN q, NEW m \in DOMAIN q, R = {o, m}, q[m].want = s,
              m <= f, f < o, q[o].tries < q[m].tries, Fixed(w, IF busy THEN s ELSE q[o].want, stock)
       PROVE Chains(x, f - 1, a, s, busy, w2, stock)
  <2>1. m = 1 /\ o \in R /\ o # 1 /\ R = {1, o} /\ o \in 2..L
    BY <1>1, <1>15
  <2>2. /\ o - 1 \in DOMAIN x /\ x[o - 1] = q[o] /\ f - 1 < o - 1 /\ o - 1 < L
        /\ Q = IF again THEN {o - 1, L} ELSE {o - 1}
    BY <1>1, <1>9, <1>11, <1>15, <2>1
  <2>3. t.want = s /\ q[o].tries < t.tries /\ q[o].tries \in Nat /\ t.tries > 0
    BY <1>1, <1>15, <2>1 DEF t
  <2>4. Fixed(w2, s, stock)
    BY <1>2, <1>3, <1>15, <2>3
  <2>5. CASE again
    <3>1. x[L].want = s /\ x[o - 1].tries <= x[L].tries /\ L \in DOMAIN x
      BY <1>1, <1>4, <1>5, <2>2, <2>3, <2>5
    <3> QED
      BY <2>2, <2>4, <2>5, <3>1 DEF Chains, Q
  <2>6. CASE ~again
    <3>1. ~busy /\ ~Mismatch(w, t.want, stock)
      BY <2>3, <2>6 DEF t
    <3>2. Fixed(w2, x[o - 1].want, stock)
      BY <1>3, <1>15, <2>2, <3>1
    <3> QED
      BY <2>2, <2>4, <2>6, <3>2 DEF Chains, Q
  <2> QED
    BY <2>5, <2>6
<1> QED
  BY <1>12, <1>13, <1>14, <1>15, <1>1 DEF Chains, R

(* A restore is carried out in its turn.                                   *)
LEMMA ChainsRestored ==
    ASSUME NEW q \in Seq(GoodTask), q # <<>>, NEW a \in Actor, NEW f \in 1..Len(q), NEW s \in SnapHands,
           NEW busy, NEW w, NEW stock, ~IsReconcile(q[1], a),
           \A j, k \in {k \in 2..Len(q) : IsReconcile(q[k], a)} : j = k /\ k > f,
           Fixed(w, s, stock)
    PROVE Chains(Tail(q) \o FirstReconcile(a, s), f - 1, a, s, busy, w, stock)
<1> DEFINE t == ReconcileTask(a, s, ReconcileTries)
           x == Tail(q) \o <<t>>
           R == Recs(q, a)
           Q == Recs(x, a)
           L == Len(q)
<1>1. t \in GoodTask /\ IsReconcile(t, a) /\ t.want = s /\ t.tries = ReconcileTries
  BY TriesAssumption DEF ReconcileTask, GoodTask, IsReconcile
<1>2. Tail(q) \o FirstReconcile(a, s) = x
  BY DEF FirstReconcile
<1> HIDE DEF t
<1>3. (\A k \in Int : k \in Q <=> k = L \/ (k >= 1 /\ k + 1 \in R)) /\ x[L] = t
  BY <1>1, RecsRequeue
<1>4. /\ L \in Nat /\ L >= 1 /\ DOMAIN q = 1..L /\ R \subseteq 1..L
      /\ \A k \in R : q[k].tries \in Nat /\ q[k].tries <= ReconcileTries
  BY RecsTypes, TriesAssumption DEF Recs
<1>5. /\ \A k \in 1..(L - 1) : x[k] = q[k + 1]
      /\ DOMAIN x = 1..L
  <2> DEFINE n == <<t>>
  <2>1. n \in Seq(GoodTask) /\ Len(n) = 1
    BY <1>1
  <2> HIDE DEF n
  <2>2. DOMAIN (Tail(q) \o n) = 1..(L - 1 + 1) /\ \A k \in 1..(L - 1) : (Tail(q) \o n)[k] = q[k + 1]
    BY <2>1, QueueSteps
  <2> QED
    BY <1>4, <2>2 DEF n
<1>6. /\ R \subseteq 2..L
      /\ \A j, k \in R : j = k /\ k > f
  <2>1. 1 \notin R
    BY DEF Recs
  <2> QED
    BY <1>4, <2>1 DEF Recs
<1>7. Q \subseteq Int
  BY <1>5 DEF Recs
<1> HIDE DEF x, R, Q, L
<1>8. CASE R = {}
  <2>1. L \in Q /\ L \in DOMAIN x
    BY <1>3, <1>4, <1>5
  <2>2. ASSUME NEW k \in Q
        PROVE k = L
    BY <1>3, <1>7, <1>8
  <2>3. Q = {L}
    BY <2>1, <2>2
  <2> QED
    BY <1>1, <1>2, <1>3, <2>1, <2>3 DEF Chains, Q
<1>9. ASSUME NEW o \in R
      PROVE Chains(x, f - 1, a, s, busy, w, stock)
  <2>1. R = {o} /\ o > f /\ o \in 2..L
    BY <1>6
  <2>2. o - 1 \in 1..(L - 1) /\ o - 1 + 1 = o /\ o - 1 \in Int
    BY <1>4, <2>1
  <2>3. o - 1 \in Q /\ L \in Q
    BY <1>3, <1>4, <2>2
  <2>4. ASSUME NEW k \in Q
        PROVE k = L \/ k = o - 1
    <3>1. k \in Int /\ (k = L \/ k + 1 = o)
      BY <1>3, <1>7, <2>1
    <3> QED
      BY <2>1, <3>1
  <2>5. Q = {o - 1, L}
    BY <2>3, <2>4
  <2>6. /\ o - 1 < L /\ f - 1 < o - 1 /\ o - 1 \in DOMAIN x /\ L \in DOMAIN x
        /\ x[o - 1] = q[o] /\ x[o - 1].tries <= x[L].tries /\ x[L].want = s
    BY <1>1, <1>3, <1>4, <1>5, <2>1, <2>2
  <2> QED
    BY <2>5, <2>6 DEF Chains, Q
<1> QED
  BY <1>2, <1>8, <1>9

----------------------------------------------------------------------------
(* Who wins.                                                               *)

(* The last restore of an actor that has not been disturbed since: the     *)
(* actor is still followed, and the queue holds what Chains says.          *)
LastInv ==
    \A a \in Actor : \A s \in calm[a] :
        /\ enabled /\ a \in follower
        /\ Carried(s, inv[a]) => Chains(tasks, frame, a, s, Busy(a), worn[a], inv[a])

(* Steps that leave the tasks alone, and what is calm calm or not at all.  *)
LEMMA CalmUndisturbed ==
    ASSUME LastInv, UNCHANGED <<tasks, frame>>,
           \A a \in Actor :
              \/ calm'[a] = {}
              \/ /\ calm'[a] = calm[a] /\ enabled' = enabled /\ (a \in follower' <=> a \in follower)
                 /\ inv'[a] = inv[a] /\ worn'[a] = worn[a] /\ fight'[a] = fight[a] /\ menuOpen' = menuOpen
    PROVE LastInv'
<1> SUFFICES ASSUME NEW a \in Actor, NEW s \in calm'[a]
             PROVE /\ enabled' /\ a \in follower'
                   /\ Carried(s, inv'[a]) => Chains(tasks', frame', a, s, Busy(a)', worn'[a], inv'[a])
  BY DEF LastInv
<1>1. /\ calm'[a] = calm[a] /\ enabled' = enabled /\ (a \in follower' <=> a \in follower)
      /\ inv'[a] = inv[a] /\ worn'[a] = worn[a] /\ Busy(a)' = Busy(a)
  BY DEF Busy
<1> QED
  BY <1>1 DEF LastInv

(* Steps between frames that only queue or start tasks or make an actor    *)
(* busy or free.                                                           *)
LEMMA CalmBetweenFrames ==
    ASSUME TypeInv, LastInv, UNCHANGED <<calm, enabled, follower, inv, worn>>,
           frame = 0, frame' = 0 \/ frame' = Len(tasks), tasks' \in Seq(GoodTask),
           \/ tasks' = tasks
           \/ \E a \in Actor : tasks' = Append(tasks, RestoreTask(a)) /\ frame' = 0
    PROVE LastInv'
<1> SUFFICES ASSUME NEW a \in Actor, NEW s \in calm'[a]
             PROVE /\ enabled' /\ a \in follower'
                   /\ Carried(s, inv'[a]) => Chains(tasks', frame', a, s, Busy(a)', worn'[a], inv'[a])
  BY DEF LastInv
<1>1. /\ enabled /\ a \in follower
      /\ Carried(s, inv[a]) => Chains(tasks, 0, a, s, Busy(a), worn[a], inv[a])
  BY DEF LastInv
<1>2. \/ tasks' = tasks
      \/ \E t \in GoodTask : tasks' = Append(tasks, t) /\ ~IsReconcile(t, a) /\ frame' = 0
  <2>1. \A b \in Actor : RestoreTask(b) \in GoodTask /\ ~IsReconcile(RestoreTask(b), a)
    BY DEF RestoreTask, GoodTask, IsReconcile
  <2> QED
    BY <2>1
<1>3. tasks \in Seq(GoodTask)
  BY DEF TypeInv
<1>4. ASSUME Carried(s, inv[a])
      PROVE Chains(tasks', frame', a, s, Busy(a)', worn[a], inv[a])
  BY <1>1, <1>2, <1>3, <1>4, ChainsBetweenFrames
<1> QED
  BY <1>1, <1>4

LEMMA AtMostOneTask ==
    ASSUME NEW t \in GoodTask, NEW n, n = <<t>> \/ n = <<>>
    PROVE n \in Seq(GoodTask) /\ \A k \in 1..Len(n) : n[k] = t
<1>1. CASE n = <<t>>
  <2>1. n \in Seq(GoodTask) /\ Len(n) = 1 /\ n[1] = t
    BY <1>1
  <2> QED
    BY <2>1
<1>2. CASE n = <<>>
  <2>1. n \in Seq(GoodTask) /\ Len(n) = 0
    BY <1>2
  <2> QED
    BY <2>1
<1> QED
  BY <1>1, <1>2

LEMMA RestoreKeepsLast ==
    ASSUME TypeInv, LastInv, NEW b \in Actor, frame > 0, frame' = frame - 1, RunRestoreTask(b)
    PROVE LastInv'
<1> DEFINE n == IF tasks' = Tail(tasks) \o <<RestoreTask(b)>> THEN <<RestoreTask(b)>>
                ELSE IF tasks' = Tail(tasks) \o FirstReconcile(b, entry[b].snap)
                THEN FirstReconcile(b, entry[b].snap) ELSE <<>>
<1>1. /\ tasks \in Seq(GoodTask) /\ tasks # <<>> /\ frame \in Nat /\ frame \in 1..Len(tasks)
      /\ worn[b] \in FormHands /\ inv[b] \in [Item -> Nat] /\ entry[b].snap \in SnapHands
  BY DEF TypeInv, GoodEntry
<1>2. /\ tasks[1] = RestoreTask(b) /\ \A a \in Actor : ~IsReconcile(tasks[1], a)
  BY <1>1 DEF RunRestoreTask, RestoreTask, IsReconcile
<1>3. /\ tasks' = Tail(tasks) \o n /\ n \in Seq(GoodTask)
      /\ \A k \in 1..Len(n) : \A a \in Actor \ {b} : ~IsReconcile(n[k], a)
  <2>1. tasks' = Tail(tasks) \o n
    BY DEF RunRestoreTask
  <2>2. RestoreTask(b) \in GoodTask /\ \A a \in Actor : ~IsReconcile(RestoreTask(b), a)
    BY DEF RestoreTask, GoodTask, IsReconcile
  <2>3. FirstReconcile(b, entry[b].snap) = <<ReconcileTask(b, entry[b].snap, ReconcileTries)>>
        /\ ReconcileTask(b, entry[b].snap, ReconcileTries) \in GoodTask
        /\ \A a \in Actor \ {b} : ~IsReconcile(ReconcileTask(b, entry[b].snap, ReconcileTries), a)
    BY <1>1, TriesAssumption DEF FirstReconcile, ReconcileTask, GoodTask, IsReconcile
  <2>4. n \in {<<RestoreTask(b)>>, <<ReconcileTask(b, entry[b].snap, ReconcileTries)>>, <<>>}
    BY <2>3
  <2>5. PICK t \in GoodTask : /\ n = <<t>> \/ n = <<>>
                             /\ \A a \in Actor \ {b} : ~IsReconcile(t, a)
    BY <2>2, <2>3, <2>4
  <2> HIDE DEF n
  <2>6. n \in Seq(GoodTask) /\ \A k \in 1..Len(n) : n[k] = t
    BY <2>5, AtMostOneTask
  <2> QED
    BY <2>1, <2>5, <2>6
<1>4. /\ UNCHANGED <<enabled, follower, inv, fight, menuOpen>>
      /\ \/ UNCHANGED <<worn, calm>> /\ tasks' \in {Tail(tasks) \o <<RestoreTask(b)>>, Tail(tasks) \o <<>>}
         \/ /\ worn' = [worn EXCEPT ![b] = Restored(worn[b], entry[b].snap, inv[b])]
            /\ calm' = [calm EXCEPT ![b] =
                         IF InTurn(b) /\ ~ShieldOverConjured(worn[b], entry[b].snap) THEN {entry[b].snap} ELSE {}]
            /\ enabled /\ b \in follower
            /\ tasks' = Tail(tasks) \o FirstReconcile(b, entry[b].snap)
  BY DEF RunRestoreTask
<1> HIDE DEF n
<1>5. \A a \in Actor : Busy(a)' = Busy(a)
  BY <1>4 DEF Busy
<1> SUFFICES ASSUME NEW a \in Actor, NEW s \in calm'[a]
             PROVE /\ enabled' /\ a \in follower'
                   /\ Carried(s, inv'[a]) => Chains(tasks', frame', a, s, Busy(a)', worn'[a], inv'[a])
  BY DEF LastInv
(* The task is not one of the actor's chains, and neither is what it queues. *)
<1>6. ASSUME s \in calm[a], worn'[a] = worn[a],
             NEW x \in Seq(GoodTask), tasks' = Tail(tasks) \o x, \A k \in 1..Len(x) : ~IsReconcile(x[k], a)
      PROVE /\ enabled' /\ a \in follower'
            /\ Carried(s, inv'[a]) => Chains(tasks', frame', a, s, Busy(a)', worn'[a], inv'[a])
  <2>1. /\ enabled /\ a \in follower
        /\ Carried(s, inv[a]) => Chains(tasks, frame, a, s, Busy(a), worn[a], inv[a])
    BY <1>6 DEF LastInv
  <2>2. ASSUME Carried(s, inv[a])
        PROVE Chains(Tail(tasks) \o x, frame - 1, a, s, Busy(a), worn[a], inv[a])
    BY <1>1, <1>2, <1>6, <2>1, <2>2, ChainsShift
  <2> QED
    BY <1>4, <1>5, <1>6, <2>1, <2>2
<1>7. CASE a # b
  <2>1. s \in calm[a] /\ worn'[a] = worn[a]
    BY <1>4, <1>7 DEF TypeInv
  <2> QED
    BY <1>3, <1>6, <1>7, <2>1
<1>8. CASE a = b /\ UNCHANGED <<worn, calm>> /\ tasks' \in {Tail(tasks) \o <<RestoreTask(b)>>, Tail(tasks) \o <<>>}
  <2>1. PICK x \in {<<RestoreTask(b)>>, <<>>} : tasks' = Tail(tasks) \o x
    BY <1>8
  <2>2. RestoreTask(b) \in GoodTask /\ ~IsReconcile(RestoreTask(b), a)
    BY DEF RestoreTask, GoodTask, IsReconcile
  <2> DEFINE t == RestoreTask(b)
  <2>3. t \in GoodTask /\ (x = <<t>> \/ x = <<>>) /\ ~IsReconcile(t, a)
    BY <2>1, <2>2
  <2> HIDE DEF t
  <2>4. x \in Seq(GoodTask) /\ \A k \in 1..Len(x) : x[k] = t
    BY <2>3, AtMostOneTask
  <2> QED
    BY <1>6, <1>8, <2>1, <2>3, <2>4
<1>9. CASE a = b /\ worn' = [worn EXCEPT ![b] = Restored(worn[b], entry[b].snap, inv[b])]
           /\ calm' = [calm EXCEPT ![b] =
                         IF InTurn(b) /\ ~ShieldOverConjured(worn[b], entry[b].snap) THEN {entry[b].snap} ELSE {}]
           /\ enabled /\ b \in follower
           /\ tasks' = Tail(tasks) \o FirstReconcile(b, entry[b].snap)
  <2>1. s = entry[b].snap /\ InTurn(b) /\ ~ShieldOverConjured(worn[b], s) /\ worn'[a] = Restored(worn[b], entry[b].snap, inv[b])
    <3>1. calm'[b] =
            IF InTurn(b) /\ ~ShieldOverConjured(worn[b], entry[b].snap) THEN {entry[b].snap} ELSE {}
      BY <1>9 DEF TypeInv
    <3> QED
      BY <1>1, <1>9, <3>1 DEF TypeInv
  <2>2. \A j, k \in {k \in 2..Len(tasks) : IsReconcile(tasks[k], a)} : j = k /\ k > frame
    BY <1>9, <2>1 DEF InTurn, OlderChains, IsReconcile
  <2>3. ASSUME Carried(s, inv[a])
        PROVE Fixed(worn'[a], s, inv[a])
    <3>1. \A slot \in Slots : Settled(Restored(worn[a], s, inv[a])[slot], slot, s[slot])
      BY <1>1, <1>9, <2>1, <2>3, RestoredSettles
    <3>2. Restored(worn[a], s, inv[a]) \in FormHands
      BY <1>1, <1>9, <2>1, RestoredForms
    <3> QED
      BY <1>1, <1>9, <2>1, <3>1, <3>2, SettledReconciles DEF Fixed
  <2>4. ASSUME Carried(s, inv[a])
        PROVE Chains(tasks', frame', a, s, Busy(a)', worn'[a], inv[a])
    BY <1>1, <1>2, <1>9, <2>1, <2>2, <2>3, <2>4, ChainsRestored
  <2> QED
    BY <1>4, <1>9, <2>4
<1> QED
  BY <1>4, <1>7, <1>8, <1>9

LEMMA ReconcileKeepsLast ==
    ASSUME TypeInv, LastInv, NEW b \in Actor, frame > 0, frame' = frame - 1, RunReconcileTask(b)
    PROVE LastInv'
<1> DEFINE t == Head(tasks)
           live == enabled /\ b \in follower
           again == live /\ t.tries > 0 /\ (Busy(b) \/ Mismatch(worn[b], t.want, inv[b]))
           n == IF again THEN <<ReconcileTask(b, t.want, TriesAfter(t.tries))>> ELSE <<>>
<1>1. /\ tasks \in Seq(GoodTask) /\ tasks # <<>> /\ frame \in Nat /\ frame \in 1..Len(tasks)
      /\ worn \in [Actor -> FormHands] /\ inv \in [Actor -> [Item -> Nat]] /\ calm \in [Actor -> SUBSET SnapHands]
  BY DEF TypeInv
<1>2. t = tasks[1] /\ IsReconcile(tasks[1], b) /\ \A a \in Actor \ {b} : ~IsReconcile(tasks[1], a)
  BY <1>1 DEF RunReconcileTask, IsReconcile
<1>3. /\ tasks' = Tail(tasks) \o n
      /\ worn' = IF live /\ ~Busy(b) THEN [worn EXCEPT ![b] = Reconciled(worn[b], t.want, inv[b])] ELSE worn
      /\ UNCHANGED <<enabled, follower, inv, fight, menuOpen, calm>>
  BY DEF RunReconcileTask, history
<1>4. n \in Seq(GoodTask) /\ \A k \in 1..Len(n) : \A a \in Actor \ {b} : ~IsReconcile(n[k], a)
  <2>1. CASE again
    <3>1. t \in GoodTask /\ t.kind = "reconcile" /\ t.tries > 0
      BY <1>1, <1>2, <2>1 DEF IsReconcile
    <3>2. t.want \in SnapHands /\ t.tries - 1 \in 0..ReconcileTries
      <4> HIDE DEF t
      <4> QED
        BY <3>1, TriesAssumption DEF GoodTask
    <3> HIDE DEF t
    <3>3. /\ ReconcileTask(b, t.want, TriesAfter(t.tries)) \in GoodTask
          /\ \A a \in Actor \ {b} : ~IsReconcile(ReconcileTask(b, t.want, TriesAfter(t.tries)), a)
      BY <3>2 DEF ReconcileTask, GoodTask, TriesAfter, IsReconcile
    <3>4. n = <<ReconcileTask(b, t.want, TriesAfter(t.tries))>>
      BY <2>1
    <3> HIDE DEF n
    <3> QED
      BY <3>3, <3>4
  <2>2. CASE ~again
    BY <2>2
  <2> QED
    BY <2>1, <2>2
<1>5. \A a \in Actor : Busy(a)' = Busy(a) /\ Busy(a) \in BOOLEAN
  BY <1>3 DEF Busy, TypeInv
<1> SUFFICES ASSUME NEW a \in Actor, NEW s \in calm'[a]
             PROVE /\ enabled' /\ a \in follower'
                   /\ Carried(s, inv'[a]) => Chains(tasks', frame', a, s, Busy(a)', worn'[a], inv'[a])
  BY DEF LastInv
<1>6. s \in calm[a] /\ s \in SnapHands
  BY <1>1, <1>3
<1>7. /\ enabled /\ a \in follower
      /\ Carried(s, inv[a]) => Chains(tasks, frame, a, s, Busy(a), worn[a], inv[a])
  BY <1>6 DEF LastInv
<1> HIDE DEF t, live, again, n
<1>8. CASE a # b
  <2>1. worn'[a] = worn[a]
    BY <1>1, <1>3, <1>8
  <2>2. ASSUME Carried(s, inv[a])
        PROVE Chains(Tail(tasks) \o n, frame - 1, a, s, Busy(a), worn[a], inv[a])
    BY <1>1, <1>2, <1>4, <1>7, <1>8, <2>2, ChainsShift
  <2> QED
    BY <1>3, <1>5, <1>7, <2>1, <2>2
<1>9. CASE a = b
  <2>1. live
    BY <1>7, <1>9 DEF live
  <2>2. worn'[a] = IF Busy(a) THEN worn[a] ELSE Reconciled(worn[a], tasks[1].want, inv[a])
    BY <1>1, <1>2, <1>3, <1>9, <2>1
  <2>3. again <=> tasks[1].tries > 0 /\ (Busy(a) \/ Mismatch(worn[a], tasks[1].want, inv[a]))
    BY <1>2, <1>9, <2>1 DEF again
  <2>4. tasks' = Tail(tasks) \o (IF again THEN <<ReconcileTask(a, tasks[1].want, TriesAfter(tasks[1].tries))>>
                                 ELSE <<>>)
    BY <1>2, <1>3, <1>9 DEF n
  <2>5. IsReconcile(tasks[1], a) /\ worn[a] \in FormHands /\ inv[a] \in [Item -> Nat] /\ Busy(a) \in BOOLEAN
    BY <1>1, <1>2, <1>5, <1>9
  <2>6. ASSUME Carried(s, inv[a])
        PROVE Chains(tasks', frame - 1, a, s, Busy(a), worn'[a], inv[a])
    BY <1>1, <1>6, <1>7, <2>2, <2>3, <2>4, <2>5, <2>6, ChainsReconcile
  <2> QED
    BY <1>3, <1>5, <1>7, <2>6
<1> QED
  BY <1>8, <1>9

LEMMA NextKeepsLast == TypeInv /\ LastInv /\ [Next]_vars => LastInv'
<1> SUFFICES ASSUME TypeInv, LastInv, [Next]_vars PROVE LastInv'
  OBVIOUS
<1> USE DEF feature, world, history, hearing
<1>1. TypeInv'
  BY NextTypes
<1>2. tasks' \in Seq(GoodTask)
  BY <1>1 DEF TypeInv
<1>3. CASE CombatStep
  <2>1. PICK a \in Actor, next \in CombatState : CombatEvent(a, next)
    BY <1>3 DEF CombatStep
  <2>2. /\ UNCHANGED <<calm, enabled, follower, inv, worn>> /\ frame = 0 /\ frame' = 0
        /\ tasks' = tasks \/ tasks' = Append(tasks, RestoreTask(a))
    BY <2>1 DEF CombatEvent
  <2> QED
    BY <1>2, <2>2, CalmBetweenFrames
<1>4. CASE FrameStep
  <2>1. CASE StartFrame
    BY <1>2, <2>1, CalmBetweenFrames DEF StartFrame
  <2>2. CASE RunTask
    BY <2>2, RestoreKeepsLast, ReconcileKeepsLast DEF RunTask
  <2> QED
    BY <1>4, <2>1, <2>2 DEF FrameStep
<1>5. ASSUME NEW a \in Actor, calm' = [calm EXCEPT ![a] = {}],
             UNCHANGED <<tasks, frame, enabled, fight, menuOpen>>,
             \A b \in Actor \ {a} : /\ inv'[b] = inv[b] /\ worn'[b] = worn[b]
                                    /\ b \in follower' <=> b \in follower
      PROVE LastInv'
  BY <1>5, CalmUndisturbed DEF TypeInv
<1>6. CASE GearStep
  <2>1. ASSUME NEW a \in Actor, NEW w, ChangeGear(a, w)
        PROVE LastInv'
    BY <1>5, <2>1 DEF ChangeGear, TypeInv
  <2>2. ASSUME NEW a \in Actor, NEW i \in Item, GainItem(a, i)
        PROVE LastInv'
    BY <1>5, <2>2 DEF GainItem, TypeInv
  <2>3. ASSUME NEW a \in Actor, NEW i \in Item, LoseItem(a, i)
        PROVE LastInv'
    <3>1. PICK w : worn' = [worn EXCEPT ![a] = w]
      BY <2>3 DEF LoseItem
    <3> QED
      BY <1>5, <2>3, <3>1 DEF LoseItem, TypeInv
  <2>4. CASE ToggleMenu
    BY <1>2, <2>4, CalmBetweenFrames DEF ToggleMenu
  <2> QED
    BY <1>6, <2>1, <2>2, <2>3, <2>4 DEF GearStep
<1>7. CASE LifecycleStep
  <2>1. CASE ToggleSetting
    BY <2>1, CalmUndisturbed DEF ToggleSetting
  <2>2. CASE Uninstall \/ Install \/ SaveGame \/ \E a \in Actor : EraseActor(a)
    BY <2>2, CalmUndisturbed DEF Uninstall, Install, SaveGame, EraseActor
  <2>3. ASSUME NEW a \in Actor, ToggleFollower(a)
        PROVE LastInv'
    BY <1>5, <2>3 DEF ToggleFollower
  <2>4. ASSUME NEW stock, LoadGame(stock)
        PROVE LastInv'
    BY <2>4, CalmUndisturbed DEF LoadGame
  <2> QED
    BY <1>7, <2>1, <2>2, <2>3, <2>4 DEF LifecycleStep
<1>8. CASE UNCHANGED vars
  BY <1>8, CalmUndisturbed DEF vars
<1> QED
  BY <1>3, <1>4, <1>6, <1>7, <1>8 DEF Next

(* For any actors, items, tries and number of tasks: the restore that came *)
(* last in its turn is what the hands keep once all the tasks have ended,  *)
(* whatever the chain of an older snapshot did in between.                 *)
THEOREM LastRestoreAlwaysWins == Spec => []LastRestoreWins
<1>1. Init => LastInv
  BY DEF Init, LastInv
<1>2. TypeInv /\ LastInv => LastRestoreWins
  <2> SUFFICES ASSUME TypeInv, LastInv, NEW a \in Actor, tasks = <<>>, NEW s \in calm[a], Carried(s, inv[a])
               PROVE Reconciled(worn[a], s, inv[a]) = worn[a]
    BY DEF LastRestoreWins
  <2>1. Chains(tasks, frame, a, s, Busy(a), worn[a], inv[a])
    BY DEF LastInv
  <2>2. DOMAIN tasks = {} /\ Recs(tasks, a) = {}
    BY DEF Recs
  <2> QED
    BY <2>1, <2>2 DEF Chains, Fixed
<1> QED
  BY <1>1, <1>2, InitTypes, NextTypes, NextKeepsLast, PTL DEF Spec

----------------------------------------------------------------------------
(* Chains end: liveness is TLC's, and the measure it needs is proved here. *)
(* Work counts what the tasks of an actor can still queue: the tries of    *)
(* its entry, and cells of its queued tasks, one more than the tries of a  *)
(* reconcile and one more than a fresh reconcile for a restore.            *)
Weight(t) == IF t.kind = "restore" THEN ReconcileTries + 1 ELSE t.tries

CellsOf(q, a) ==
    {c \in (DOMAIN q) \X (0..(ReconcileTries + 1)) :
        q[c[1]].actor = a /\ c[2] <= Weight(q[c[1]])}

Work(a) == entry[a].tries + Cardinality(CellsOf(tasks, a))

LEMMA WeightBounds ==
    ASSUME NEW t \in GoodTask
    PROVE Weight(t) \in 0..(ReconcileTries + 1)
BY TriesAssumption DEF Weight, GoodTask

LEMMA CellsFinite ==
    ASSUME NEW q \in Seq(GoodTask), NEW a
    PROVE IsFiniteSet(CellsOf(q, a)) /\ Cardinality(CellsOf(q, a)) \in Nat
<1>1. Len(q) \in Nat /\ DOMAIN q = 1..Len(q)
  OBVIOUS
<1>2. IsFiniteSet(DOMAIN q)
  BY <1>1, FS_Interval
<1>3. IsFiniteSet(0..(ReconcileTries + 1))
  BY TriesAssumption, FS_Interval
<1>4. IsFiniteSet((DOMAIN q) \X (0..(ReconcileTries + 1)))
  BY <1>2, <1>3, FS_Product
<1>5. CellsOf(q, a) \in SUBSET ((DOMAIN q) \X (0..(ReconcileTries + 1)))
  BY DEF CellsOf
<1>6. IsFiniteSet(CellsOf(q, a))
  BY <1>4, <1>5, FS_Subset
<1> QED
  BY <1>6, FS_CardinalityType

(* Where the cells of a queue come from when its first task has run: the   *)
(* others move up, and those of a task that it requeues were its own.      *)
LEMMA CellsAdvance ==
    ASSUME NEW q \in Seq(GoodTask), q # <<>>, NEW more \in Seq(GoodTask), Len(more) \in 0..1,
           more # <<>> => more[1].actor = q[1].actor /\ Weight(more[1]) <= Weight(q[1]),
           NEW a, NEW c \in CellsOf(Tail(q) \o more, a)
    PROVE /\ c = <<c[1], c[2]>> /\ c[1] \in 1..Len(q) /\ c[2] \in 0..(ReconcileTries + 1)
          /\ c[1] < Len(q) => <<c[1] + 1, c[2]>> \in CellsOf(q, a)
          /\ c[1] = Len(q) => <<1, c[2]>> \in CellsOf(q, a) /\ more # <<>> /\ c[2] <= Weight(more[1])
<1> DEFINE r == Tail(q) \o more
<1>1. Len(q) \in Nat \ {0} /\ DOMAIN q = 1..Len(q)
  OBVIOUS
<1>2. /\ DOMAIN r = 1..Len(r) /\ Len(r) = Len(q) - 1 + Len(more)
      /\ \A k \in DOMAIN r : k < Len(q) => r[k] = q[k + 1]
      /\ \A k \in DOMAIN r : k = Len(q) => more # <<>> /\ r[k] = more[1]
  <2>1. Tail(q) \in Seq(GoodTask) /\ Len(Tail(q)) = Len(q) - 1
    OBVIOUS
  <2>2. \A k \in 1..(Len(q) - 1) : Tail(q)[k] = q[k + 1]
    OBVIOUS
  <2>3. DOMAIN r = 1..Len(r) /\ Len(r) = Len(q) - 1 + Len(more)
    BY <2>1
  <2>4. \A k \in 1..Len(r) : r[k] = IF k <= Len(q) - 1 THEN Tail(q)[k] ELSE more[k - (Len(q) - 1)]
    BY <2>1
  <2> HIDE DEF r
  <2>5. ASSUME NEW k \in DOMAIN r, k < Len(q) PROVE r[k] = q[k + 1]
    BY <1>1, <2>2, <2>3, <2>4, <2>5
  <2>6. Len(more) \in 0..1 /\ (more = <<>> => Len(more) = 0)
    OBVIOUS
  <2>7. ASSUME NEW k \in DOMAIN r, k = Len(q) PROVE more # <<>> /\ r[k] = more[1]
    <3>1. Len(more) = 1 /\ k - (Len(q) - 1) = 1
      BY <1>1, <2>3, <2>6, <2>7
    <3>2. r[k] = more[k - (Len(q) - 1)]
      BY <1>1, <2>3, <2>4, <2>7
    <3>3. r[k] = more[1]
      BY <3>1, <3>2
    <3> QED
      BY <2>6, <3>1, <3>3
  <2> QED
    BY <2>3, <2>5, <2>7
<1> HIDE DEF r
<1>3. /\ c \in (DOMAIN r) \X (0..(ReconcileTries + 1))
      /\ r[c[1]].actor = a /\ c[2] <= Weight(r[c[1]])
  BY DEF CellsOf, r
<1>4. c = <<c[1], c[2]>> /\ c[1] \in 1..Len(r) /\ c[2] \in 0..(ReconcileTries + 1)
  BY <1>2, <1>3
<1>5. c[1] \in 1..Len(q)
  <2> DEFINE n == Len(q)
             m == Len(more)
             l == Len(r)
  <2>1. m \in 0..1 /\ n \in Nat \ {0} /\ l = n - 1 + m /\ c[1] \in 1..l
    BY <1>1, <1>2, <1>4
  <2> HIDE DEF n, m, l
  <2>2. c[1] \in 1..n
    BY <2>1
  <2> QED
    BY <2>2 DEF n
<1>6. CASE c[1] < Len(q)
  <2>1. c[1] + 1 \in DOMAIN q
    BY <1>1, <1>5, <1>6
  <2>2. q[c[1] + 1].actor = a /\ c[2] <= Weight(q[c[1] + 1])
    BY <1>2, <1>3, <1>4, <1>6
  <2> QED
    BY <1>4, <1>5, <1>6, <2>1, <2>2 DEF CellsOf
<1>7. CASE c[1] = Len(q)
  <2>1. more # <<>> /\ r[c[1]] = more[1]
    BY <1>2, <1>4, <1>7
  <2>2. q[1].actor = a /\ c[2] <= Weight(more[1]) /\ Weight(more[1]) <= Weight(q[1])
    BY <1>3, <2>1
  <2>3. Weight(more[1]) \in Int /\ Weight(q[1]) \in Int /\ c[2] \in Int
    <3>1. more[1] \in GoodTask /\ q[1] \in GoodTask
      BY <2>1
    <3> QED
      BY <1>4, <3>1, WeightBounds, TriesAssumption
  <2>4. c[2] <= Weight(q[1]) /\ 1 \in DOMAIN q
    BY <1>1, <2>2, <2>3
  <2> QED
    BY <1>1, <1>4, <1>5, <1>7, <2>1, <2>2, <2>4 DEF CellsOf
<1> QED
  BY <1>4, <1>5, <1>6, <1>7, <1>1

(* No actor gets cells from a task that runs, and its own actor loses one  *)
(* unless the task is queued again with the weight it had.                 *)
LEMMA CellsRunDown ==
    ASSUME NEW q \in Seq(GoodTask), q # <<>>, NEW more \in Seq(GoodTask), Len(more) \in 0..1,
           more # <<>> => more[1].actor = q[1].actor /\ Weight(more[1]) <= Weight(q[1]),
           NEW a
    PROVE /\ Cardinality(CellsOf(Tail(q) \o more, a)) <= Cardinality(CellsOf(q, a))
          /\ q[1].actor = a /\ (more # <<>> => Weight(more[1]) < Weight(q[1])) =>
                Cardinality(CellsOf(Tail(q) \o more, a)) < Cardinality(CellsOf(q, a))
<1> DEFINE C == CellsOf(q, a)
           D == CellsOf(Tail(q) \o more, a)
           f == [c \in D |-> <<IF c[1] < Len(q) THEN c[1] + 1 ELSE 1, c[2]>>]
           top == <<1, Weight(q[1])>>
<1>0. Len(q) \in Nat \ {0} /\ q[1] \in GoodTask
  OBVIOUS
<1>1. IsFiniteSet(C) /\ Cardinality(C) \in Nat
  BY CellsFinite
<1>2. \A c \in D : /\ c = <<c[1], c[2]>> /\ c[1] \in 1..Len(q) /\ c[2] \in 0..(ReconcileTries + 1)
                   /\ c[1] < Len(q) => <<c[1] + 1, c[2]>> \in C
                   /\ c[1] = Len(q) => <<1, c[2]>> \in C /\ more # <<>> /\ c[2] <= Weight(more[1])
  BY CellsAdvance
<1> HIDE DEF C, D
<1>3. \A c \in D : f[c] \in C
  <2> SUFFICES ASSUME NEW c \in D PROVE f[c] \in C
    OBVIOUS
  <2>1. CASE c[1] < Len(q)
    <3>1. f[c] = <<c[1] + 1, c[2]>>
      BY <2>1
    <3>2. <<c[1] + 1, c[2]>> \in C
      BY <1>2, <2>1
    <3> HIDE DEF f
    <3> QED
      BY <3>1, <3>2
  <2>2. CASE ~(c[1] < Len(q))
    <3>1. f[c] = <<1, c[2]>>
      BY <2>2
    <3>a. c[1] \in 1..Len(q)
      BY <1>2
    <3>2. c[1] = Len(q)
      BY <1>0, <2>2, <3>a
    <3>3. <<1, c[2]>> \in C
      BY <1>2, <3>2
    <3> HIDE DEF f
    <3> QED
      BY <3>1, <3>3
  <2> QED
    BY <2>1, <2>2
<1>4. \A c, d \in D : f[c] = f[d] => c = d
  <2> SUFFICES ASSUME NEW c \in D, NEW d \in D, f[c] = f[d] PROVE c[1] = d[1] /\ c[2] = d[2]
    BY <1>2
  <2>1. c[2] = d[2] /\ (IF c[1] < Len(q) THEN c[1] + 1 ELSE 1) = (IF d[1] < Len(q) THEN d[1] + 1 ELSE 1)
    OBVIOUS
  <2>2. c[1] \in 1..Len(q) /\ d[1] \in 1..Len(q)
    BY <1>2
  <2> QED
    BY <1>0, <2>1, <2>2
<1>5. f \in Injection(D, C)
  BY <1>3, <1>4 DEF Injection, IsInjective
<1>6. Cardinality(D) <= Cardinality(C)
  BY <1>1, <1>5, FS_Injection
<1>7. ASSUME q[1].actor = a, more # <<>> => Weight(more[1]) < Weight(q[1])
      PROVE Cardinality(D) < Cardinality(C)
  <2>1. Weight(q[1]) \in 0..(ReconcileTries + 1)
    BY <1>0, WeightBounds
  <2>2. top \in C
    BY <1>0, <1>7, <2>1 DEF C, CellsOf
  <2>3. \A c \in D : f[c] # top
    <3> SUFFICES ASSUME NEW c \in D, f[c] = top PROVE FALSE
      OBVIOUS
    <3>0. (IF c[1] < Len(q) THEN c[1] + 1 ELSE 1) = 1 /\ c[2] = Weight(q[1])
      OBVIOUS
    <3>a. c[1] \in 1..Len(q)
      BY <1>2
    <3> HIDE DEF f, top
    <3>1. c[1] = Len(q) /\ c[2] = Weight(q[1])
      BY <1>0, <3>0, <3>a
    <3>2. more # <<>> /\ c[2] <= Weight(more[1]) /\ Weight(more[1]) < Weight(q[1])
      BY <1>2, <1>7, <3>1
    <3>3. Weight(more[1]) \in 0..(ReconcileTries + 1)
      BY <3>2, WeightBounds
    <3> QED
      BY <2>1, <3>1, <3>2, <3>3, TriesAssumption
  <2>4. f \in Injection(D, C \ {top})
    BY <1>3, <1>4, <2>3 DEF Injection, IsInjective
  <2>5. IsFiniteSet(C \ {top}) /\ Cardinality(C \ {top}) = Cardinality(C) - 1
    BY <1>1, <2>2, FS_RemoveElement
  <2> HIDE DEF f, top
  <2>6. Cardinality(D) <= Cardinality(C) - 1 /\ IsFiniteSet(D)
    BY <2>4, <2>5, FS_Injection
  <2> QED
    BY <1>1, <2>6, FS_CardinalityType
<1> QED
  BY <1>6, <1>7 DEF C, D

(* A task of another actor adds no cells.                                  *)
LEMMA CellsOfOthers ==
    ASSUME NEW q \in Seq(GoodTask), NEW t \in GoodTask, NEW a, t.actor # a
    PROVE CellsOf(Append(q, t), a) = CellsOf(q, a)
<1>1. DOMAIN q = 1..Len(q) /\ DOMAIN Append(q, t) = 1..(Len(q) + 1)
  OBVIOUS
<1>2. \A k \in 1..Len(q) : Append(q, t)[k] = q[k]
  OBVIOUS
<1>3. Append(q, t)[Len(q) + 1] = t /\ Len(q) \in Nat
  OBVIOUS
<1>4. ASSUME NEW c \in CellsOf(Append(q, t), a) PROVE c \in CellsOf(q, a)
  <2>1. c[1] # Len(q) + 1
    BY <1>3 DEF CellsOf
  <2> QED
    BY <1>1, <1>2, <1>3, <2>1 DEF CellsOf
<1>5. ASSUME NEW c \in CellsOf(q, a) PROVE c \in CellsOf(Append(q, t), a)
  BY <1>1, <1>2, <1>3 DEF CellsOf
<1> QED
  BY <1>4, <1>5

(* What a task that runs queues again is lighter than it was, unless it is *)
(* a restore put off, which costs the entry a try.                         *)
LEMMA TaskRequeues ==
    ASSUME TypeInv, RunTask
    PROVE \E more \in Seq(GoodTask) :
             /\ tasks' = Tail(tasks) \o more /\ tasks # <<>> /\ Len(more) \in 0..1
             /\ more # <<>> => more[1].actor = tasks[1].actor /\ Weight(more[1]) <= Weight(tasks[1])
             /\ \A a \in Actor : entry'[a].tries <= entry[a].tries
             /\ \/ more # <<>> => Weight(more[1]) < Weight(tasks[1])
                \/ /\ tasks[1].actor \in Actor
                   /\ entry'[tasks[1].actor].tries < entry[tasks[1].actor].tries
<1>1. tasks \in Seq(GoodTask) /\ tasks # <<>> /\ Head(tasks) = tasks[1]
  BY DEF TypeInv, RunTask
<1>2. \A a \in Actor : entry[a] \in GoodEntry /\ entry[a].tries \in 0..RestoreTries
  BY DEF TypeInv, GoodEntry
<1>3. ASSUME NEW more \in {<<>>}
      PROVE more \in Seq(GoodTask) /\ Len(more) \in 0..1 /\ ~(more # <<>>)
  BY <1>3
<1>4. ASSUME NEW t \in GoodTask
      PROVE /\ <<t>> \in Seq(GoodTask) /\ Len(<<t>>) \in 0..1
            /\ <<t>>[1] = t
  OBVIOUS
<1>5. ASSUME NEW a \in Actor, RunRestoreTask(a)
      PROVE \E more \in Seq(GoodTask) :
             /\ tasks' = Tail(tasks) \o more /\ Len(more) \in 0..1
             /\ more # <<>> => more[1].actor = tasks[1].actor /\ Weight(more[1]) <= Weight(tasks[1])
             /\ \A b \in Actor : entry'[b].tries <= entry[b].tries
             /\ \/ more # <<>> => Weight(more[1]) < Weight(tasks[1])
                \/ tasks[1].actor \in Actor /\ entry'[tasks[1].actor].tries < entry[tasks[1].actor].tries
  <2> DEFINE e == entry[a]
             live == enabled /\ a \in follower /\ e.restorePending /\ e.have
             retry == live /\ MayRetry(a)
             restore == live /\ ~retry /\ fight[a] = "none"
             rec == ReconcileTask(a, e.snap, ReconcileTries)
  <2>1. /\ tasks[1] = RestoreTask(a)
        /\ entry' = [entry EXCEPT ![a] = IF retry THEN [e EXCEPT !.tries = @ - 1]
                      ELSE IF live THEN [e EXCEPT !.restorePending = FALSE, !.tries = 0] ELSE e]
        /\ tasks' = Tail(tasks) \o (CASE retry -> <<RestoreTask(a)>>
                        [] restore -> <<rec>> [] OTHER -> <<>>)
    BY <1>1, <1>5 DEF RunRestoreTask, FirstReconcile
  <2>2. tasks[1].actor = a /\ Weight(tasks[1]) = ReconcileTries + 1 /\ tasks[1] \in GoodTask
    BY <1>1, <2>1 DEF RestoreTask, Weight
  <2>3. rec \in GoodTask /\ rec.actor = a /\ Weight(rec) = ReconcileTries
    BY <1>2, TriesAssumption DEF ReconcileTask, GoodTask, GoodEntry, Weight
  <2>4. entry \in [Actor -> GoodEntry] /\ e \in GoodEntry
    BY DEF TypeInv
  <2> HIDE DEF rec
  <2>5. CASE retry
    <3>1. tasks' = Tail(tasks) \o <<tasks[1]>>
      BY <2>1, <2>5
    <3>2. entry'[a].tries = e.tries - 1 /\ \A b \in Actor : b # a => entry'[b] = entry[b]
      BY <2>1, <2>4, <2>5 DEF GoodEntry
    <3>3. \A b \in Actor : entry'[b].tries <= entry[b].tries
      BY <1>2, <3>2, TriesAssumption
    <3>4. entry'[a].tries < entry[a].tries
      BY <1>2, <3>2, TriesAssumption
    <3>5. Weight(tasks[1]) <= Weight(tasks[1])
      BY <2>2, TriesAssumption
    <3> QED
      BY <1>4, <2>2, <3>1, <3>3, <3>4, <3>5
  <2>6. CASE ~retry
    <3>1. entry'[a].tries \in {0, e.tries} /\ \A b \in Actor : b # a => entry'[b] = entry[b]
      BY <2>1, <2>4, <2>6 DEF GoodEntry
    <3>2. \A b \in Actor : entry'[b].tries <= entry[b].tries
      BY <1>2, <3>1, TriesAssumption
    <3>3. CASE restore
      <4>1. tasks' = Tail(tasks) \o <<rec>>
        BY <2>1, <2>6, <3>3
      <4>2. Weight(rec) < Weight(tasks[1]) /\ Weight(rec) <= Weight(tasks[1])
        BY <2>2, <2>3, TriesAssumption
      <4> QED
        BY <1>4, <2>2, <2>3, <3>2, <4>1, <4>2
    <3>4. CASE ~restore
      <4>1. tasks' = Tail(tasks) \o <<>>
        BY <2>1, <2>6, <3>4
      <4> QED
        BY <1>3, <3>2, <4>1
    <3> QED
      BY <3>3, <3>4
  <2> QED
    BY <2>5, <2>6
<1>6. ASSUME NEW a \in Actor, RunReconcileTask(a)
      PROVE \E more \in Seq(GoodTask) :
             /\ tasks' = Tail(tasks) \o more /\ Len(more) \in 0..1
             /\ more # <<>> => more[1].actor = tasks[1].actor /\ Weight(more[1]) <= Weight(tasks[1])
             /\ \A b \in Actor : entry'[b].tries <= entry[b].tries
             /\ more # <<>> => Weight(more[1]) < Weight(tasks[1])
  <2> DEFINE t == tasks[1]
             rec == ReconcileTask(a, t.want, t.tries - 1)
  <2>1. /\ t \in GoodTask /\ t.kind = "reconcile" /\ t.actor = a
        /\ \/ tasks' = Tail(tasks) \o <<>>
           \/ t.tries > 0 /\ tasks' = Tail(tasks) \o <<rec>>
    BY <1>1, <1>6 DEF RunReconcileTask, TriesAfter
  <2>2. t.tries \in 0..ReconcileTries /\ t.want \in SnapHands /\ Weight(t) = t.tries
    BY <2>1 DEF GoodTask, Weight
  <2>3. \A b \in Actor : entry'[b].tries <= entry[b].tries
    <3>1. entry' = entry
      BY <1>6 DEF RunReconcileTask
    <3> QED
      BY <1>2, <3>1, TriesAssumption
  <2>4. CASE t.tries > 0
    <3>1. rec \in GoodTask /\ rec.actor = a /\ Weight(rec) = t.tries - 1
      BY <2>1, <2>2, <2>4, TriesAssumption DEF ReconcileTask, GoodTask, Weight
    <3>2. Weight(rec) < Weight(t) /\ Weight(rec) <= Weight(t)
      BY <2>2, <3>1, TriesAssumption
    <3> HIDE DEF rec
    <3>3. CASE tasks' = Tail(tasks) \o <<rec>>
      BY <1>4, <2>1, <2>3, <3>1, <3>2, <3>3
    <3>4. CASE tasks' = Tail(tasks) \o <<>>
      BY <1>3, <2>3, <3>4
    <3> QED
      BY <2>1, <3>3, <3>4 DEF rec
  <2>5. CASE ~(t.tries > 0)
    <3>1. tasks' = Tail(tasks) \o <<>>
      BY <2>1, <2>5
    <3> QED
      BY <1>3, <2>3, <3>1
  <2> QED
    BY <2>4, <2>5
<1> QED
  BY <1>1, <1>5, <1>6 DEF RunTask

(* While an actor is at peace nothing adds to its work, and each of its    *)
(* tasks that runs takes some away.                                        *)
RetriesRunDown ==
    \A a \in Actor : fight[a] = "none" =>
        /\ Work(a)' <= Work(a)
        /\ (RunTask /\ tasks[1].actor = a) => (Work(a)' < Work(a))

LEMMA TaskRunsDown ==
    ASSUME TypeInv, TypeInv', RunTask, NEW a \in Actor
    PROVE Work(a)' <= Work(a) /\ (tasks[1].actor = a => Work(a)' < Work(a))
<1>1. PICK more \in Seq(GoodTask) :
             /\ tasks' = Tail(tasks) \o more /\ tasks # <<>> /\ Len(more) \in 0..1
             /\ more # <<>> => more[1].actor = tasks[1].actor /\ Weight(more[1]) <= Weight(tasks[1])
             /\ \A b \in Actor : entry'[b].tries <= entry[b].tries
             /\ \/ more # <<>> => Weight(more[1]) < Weight(tasks[1])
                \/ /\ tasks[1].actor \in Actor
                   /\ entry'[tasks[1].actor].tries < entry[tasks[1].actor].tries
  BY TaskRequeues
<1> DEFINE old == Cardinality(CellsOf(tasks, a))
           new == Cardinality(CellsOf(tasks', a))
<1>2. tasks \in Seq(GoodTask) /\ tasks' \in Seq(GoodTask)
  BY DEF TypeInv
<1>3. old \in Nat /\ new \in Nat
  BY <1>2, CellsFinite
<1>4. new <= old
  BY <1>1, <1>2, CellsRunDown
<1>5. tasks[1].actor = a /\ (more # <<>> => Weight(more[1]) < Weight(tasks[1])) => new < old
  BY <1>1, <1>2, CellsRunDown
<1>6. entry[a].tries \in Nat /\ entry'[a].tries \in Nat /\ entry'[a].tries <= entry[a].tries
  BY <1>1, TriesAssumption DEF TypeInv, GoodEntry
<1> HIDE DEF old, new
<1>7. Work(a) = entry[a].tries + old /\ Work(a)' = entry'[a].tries + new
  BY DEF Work, CellsOf, old, new
<1>8. tasks[1].actor = a => new < old \/ entry'[a].tries < entry[a].tries
  BY <1>1, <1>5
<1> QED
  BY <1>3, <1>4, <1>6, <1>7, <1>8

LEMMA OtherStepsAddNone ==
    ASSUME TypeInv, TypeInv', [Next]_vars, ~RunTask, NEW a \in Actor, fight[a] = "none"
    PROVE Work(a)' <= Work(a)
<1> USE DEF feature, world, history, hearing
<1>1. /\ tasks \in Seq(GoodTask) /\ tasks' \in Seq(GoodTask)
      /\ entry[a].tries \in Nat /\ entry'[a].tries \in Nat
      /\ entry \in [Actor -> GoodEntry] /\ entry' \in [Actor -> GoodEntry]
  BY TriesAssumption DEF TypeInv, GoodEntry
<1>2. CellsOf(tasks', a) = CellsOf(tasks, a) /\ entry'[a].tries <= entry[a].tries
  <2>1. ASSUME NEW b \in Actor, NEW next \in CombatState, CombatEvent(b, next)
        PROVE CellsOf(tasks', a) = CellsOf(tasks, a) /\ entry'[a].tries = entry[a].tries
    <3>1. CASE b = a
      <4>1. next # "none" /\ tasks' = tasks
        BY <2>1, <3>1 DEF CombatEvent
      <4> QED
        BY <1>1, <2>1, <3>1, <4>1 DEF CombatEvent, GoodEntry
    <3>2. CASE b # a
      <4>1. entry'[a] = entry[a] /\ tasks' \in {tasks, Append(tasks, RestoreTask(b))}
        BY <1>1, <2>1, <3>2 DEF CombatEvent
      <4>2. RestoreTask(b) \in GoodTask /\ RestoreTask(b).actor # a
        BY <3>2 DEF RestoreTask, GoodTask
      <4> QED
        BY <1>1, <4>1, <4>2, CellsOfOthers
    <3> QED
      BY <3>1, <3>2
  <2>2. CASE StartFrame \/ GearStep \/ ToggleSetting \/ Install \/ SaveGame \/ UNCHANGED vars
    <3>1. UNCHANGED <<entry, tasks>>
      BY <2>2 DEF StartFrame, GearStep, ChangeGear, GainItem, LoseItem, ToggleMenu, ToggleSetting,
                  Install, SaveGame, vars
    <3> QED
      BY <1>1, <3>1
  <2>3. CASE Uninstall
    BY <1>1, <2>3 DEF Uninstall, NoEntry
  <2>4. ASSUME NEW b \in Actor, ToggleFollower(b) \/ EraseActor(b)
        PROVE tasks' = tasks /\ entry'[a] \in {entry[a], NoEntry}
    BY <1>1, <2>4 DEF ToggleFollower, EraseActor
  <2>5. ASSUME NEW stock, LoadGame(stock) PROVE tasks' = tasks /\ entry'[a].tries = 0
    BY <2>5 DEF LoadGame, LoadedEntry, NoEntry
  <2>6. NoEntry.tries = 0
    BY DEF NoEntry
  <2> QED
    BY <1>1, <2>1, <2>2, <2>3, <2>4, <2>5, <2>6
    DEF Next, CombatStep, FrameStep, LifecycleStep
<1>3. Cardinality(CellsOf(tasks, a)) \in Nat
  BY <1>1, CellsFinite
<1>4. Work(a)' = entry'[a].tries + Cardinality(CellsOf(tasks', a))
  BY DEF Work, CellsOf
<1> QED
  BY <1>1, <1>2, <1>3, <1>4 DEF Work

(* Retries of restores and reconciles cannot keep each other going: with   *)
(* no fight to add any, the work of an actor goes down to none in as many  *)
(* runs of its tasks as it has work, whatever is in the way of them.       *)
THEOREM RetriesAlwaysRunDown == Spec => [][RetriesRunDown]_vars
<1>1. TypeInv /\ TypeInv' /\ [Next]_vars => RetriesRunDown
  BY TaskRunsDown, OtherStepsAddNone DEF RetriesRunDown
<1> QED
  BY <1>1, InitTypes, NextTypes, PTL DEF Spec
=============================================================================
