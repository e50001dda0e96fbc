--------------------------- MODULE EquipGateProofs ---------------------------
(***************************************************************************)
(* Proofs about EquipGate, for any copies, bases, identities and settings. *)
(***************************************************************************)
EXTENDS EquipGate, TLAPS

(* What the hands may hold: an item for both of them is in both and any    *)
(* other copy in one, a shield is not in the right one, and ammo has a     *)
(* place of its own.                                                       *)
HandsGood(w) ==
    /\ w \in [Slots -> Copy \cup {None}]
    /\ Is(w.right, BothHands) \/ Is(w.left, BothHands) => w.right = w.left
    /\ w.right = w.left => w.right = None \/ Is(w.right, BothHands)
    /\ ~Is(w.right, {"shield"})
    /\ w.ammo = None \/ Is(w.ammo, Ammo)
    /\ ~Is(w.right, Ammo) /\ ~Is(w.left, Ammo)

(* A preference names a base object of its category.                       *)
KindsOf(cat) ==
    CASE cat \in {"oneHandRight", "oneHandLeft"} -> OneHandMelee
      [] cat \in {"staffRight", "staffLeft"} -> {"staff"}
      [] cat = "shieldLeft" -> {"shield"}
      [] OTHER -> {cat}

PrefsGood(p) ==
    /\ p \in [Cats -> Pref \cup {None}]
    /\ \A cat \in Cats : p[cat] # None => IsKind(p[cat].base, KindsOf(cat))

(* What an equip or unequip takes from w may only make room, or bring in   *)
(* a copy of S.                                                            *)
From(w, v, S) == \A s \in Slots : v[s] \in {w["right"], w["left"], w["ammo"], None} \cup S

----------------------------------------------------------------------------
(* The engine's hands.                                                     *)

LEMMA KindOfCopy == \A c \in Copy : BaseOf[c] \in Base /\ c # None /\ BaseOf[c] # None
BY CopyAssumption

LEMMA FreedGood ==
    ASSUME NEW w, HandsGood(w), NEW slot \in Slots
    PROVE HandsGood(Freed(w, slot)) /\ From(w, Freed(w, slot), {})
<1>1. ~Is(None, BothHands) /\ ~Is(None, {"shield"}) /\ ~Is(None, Ammo)
  BY CopyAssumption DEF Is, BaseAt, IsKind
<1>2. CASE Is(w[slot], BothHands)
  <2>1. Freed(w, slot) = [w EXCEPT !["right"] = None, !["left"] = None]
    BY <1>2 DEF Freed
  <2> QED
    BY <1>1, <2>1 DEF HandsGood, From, Slots
<1>3. CASE ~Is(w[slot], BothHands)
  <2>1. Freed(w, slot) = [w EXCEPT ![slot] = None]
    BY <1>3 DEF Freed
  <2> QED
    BY <1>1, <1>3, <2>1 DEF HandsGood, From, Slots
<1> QED
  BY <1>2, <1>3

LEMMA PutGood ==
    ASSUME NEW w, HandsGood(w), NEW c \in Copy, NEW slot \in Slots,
           slot = "right" => ~Is(c, {"shield"}), slot = "ammo" => Is(c, Ammo)
    PROVE HandsGood(Put(w, c, slot)) /\ From(w, Put(w, c, slot), {c})
<1>1. ~Is(None, BothHands) /\ ~Is(None, {"shield"}) /\ ~Is(None, Ammo)
  BY CopyAssumption DEF Is, BaseAt, IsKind
<1>2. CASE Is(c, Ammo)
  <2>1. Put(w, c, slot) = [w EXCEPT !["ammo"] = c]
    BY <1>2 DEF Put
  <2>2. Put(w, c, slot) \in [Slots -> Copy \cup {None}] /\ From(w, Put(w, c, slot), {c})
    BY <2>1 DEF HandsGood, From, Slots
  <2>3. Put(w, c, slot)["right"] = w["right"] /\ Put(w, c, slot)["left"] = w["left"]
        /\ Put(w, c, slot)["ammo"] = c
    BY <2>1 DEF HandsGood, Slots
  <2> HIDE DEF Put
  <2> QED
    BY <1>2, <2>2, <2>3 DEF HandsGood
<1>3. CASE ~Is(c, Ammo) /\ Is(c, BothHands)
  <2>1. Put(w, c, slot) = [w EXCEPT !["right"] = c, !["left"] = c]
    BY <1>3 DEF Put
  <2>2. ~Is(c, {"shield"})
    BY <1>3 DEF Is, IsKind, BothHands
  <2>3. Put(w, c, slot) \in [Slots -> Copy \cup {None}] /\ From(w, Put(w, c, slot), {c})
    BY <2>1 DEF HandsGood, From, Slots
  <2>4. Put(w, c, slot)["right"] = c /\ Put(w, c, slot)["left"] = c
        /\ Put(w, c, slot)["ammo"] = w["ammo"]
    BY <2>1 DEF HandsGood, Slots
  <2> QED
    BY <1>3, <2>2, <2>3, <2>4 DEF HandsGood
<1>4. CASE ~Is(c, Ammo) /\ ~Is(c, BothHands)
  <2> DEFINE free == Freed(w, slot)
             put == [s \in Slots |-> IF s = slot THEN c ELSE IF free[s] = c THEN None ELSE free[s]]
  <2>1. Put(w, c, slot) = put
    BY <1>4 DEF Put
  <2>2. HandsGood(free) /\ From(w, free, {})
    BY FreedGood
  <2>3. slot \in {"right", "left"} => ~Is(free["right"], BothHands) /\ ~Is(free["left"], BothHands)
    <3>1. CASE Is(w[slot], BothHands)
      BY <1>1, <3>1 DEF Freed, HandsGood, Slots
    <3>2. CASE ~Is(w[slot], BothHands)
      BY <1>1, <3>2 DEF Freed, HandsGood, Slots
    <3> QED
      BY <3>1, <3>2
  <2> HIDE DEF free
  <2>4. put \in [Slots -> Copy \cup {None}]
    BY <2>2 DEF HandsGood
  <2>5. ~Is(put["right"], {"shield"})
    BY <1>1, <2>2 DEF HandsGood, Slots
  <2>6. Is(put["right"], BothHands) \/ Is(put["left"], BothHands) => put["right"] = put["left"]
    BY <1>1, <1>4, <2>2, <2>3 DEF HandsGood, Slots
  <2>7. put["right"] = put["left"] => put["right"] = None \/ Is(put["right"], BothHands)
    BY <1>4, <2>2, <2>3 DEF HandsGood, Slots
  <2>8. put["ammo"] = None \/ Is(put["ammo"], Ammo)
    BY <2>2 DEF HandsGood, Slots
  <2>9. ~Is(put["right"], Ammo) /\ ~Is(put["left"], Ammo)
    BY <1>1, <1>4, <2>2 DEF HandsGood, Slots
  <2>10. From(w, put, {c})
    BY <2>2 DEF From
  <2> QED
    BY <2>1, <2>4, <2>5, <2>6, <2>7, <2>8, <2>9, <2>10 DEF HandsGood
<1> QED
  BY <1>2, <1>3, <1>4

LEMMA FromChains ==
    ASSUME NEW u, NEW v, NEW w, NEW S, From(u, v, S), From(v, w, S)
    PROVE From(u, w, S)
BY DEF From, Slots

LEMMA FromGrows ==
    ASSUME NEW v, NEW w, NEW S, NEW T, From(v, w, S), S \subseteq T
    PROVE From(v, w, T)
BY DEF From

(* A unit of b that an equip call gets.                                    *)
LEMMA UnitOfBase ==
    ASSUME carried \subseteq Copy, NEW w, NEW b \in Base, Units(carried, b) # {},
           NEW list \in Units(carried, b) \cup {None}
    PROVE Unit(w, b, list) \in carried /\ BaseOf[Unit(w, b, list)] = b
BY DEF Unit, Units, Lists, AnyOf

----------------------------------------------------------------------------
(* Enforcing the melee preferences.                                        *)

LEMMA ResolveFinds ==
    ASSUME NEW w, NEW pref, NEW hand, NEW anyBase,
           Resolve(w, carried, pref, hand, anyBase) # NoMatch
    PROVE /\ Units(carried, pref.base) # {}
          /\ Resolve(w, carried, pref, hand, anyBase).list \in Units(carried, pref.base) \cup {None}
<1> DEFINE lists == Lists(w, carried, pref.base)
           same == {c \in lists : IdentOf[c] = pref.ident}
           units == Units(carried, pref.base)
<1>1. same \subseteq lists /\ lists \subseteq units
  BY DEF Lists
<1>2. \A S : S # {} => Preferred(w, S, hand) \in S
  BY DEF Preferred, AnyOf
<1>3. units # {}
  BY <1>1 DEF Resolve
<1>4. Resolve(w, carried, pref, hand, anyBase)
         \in {NoMatch, BaseOnly} \cup {ListMatch(c) : c \in units}
  <2>1. CASE same # {}
    <3>1. Preferred(w, same, hand) \in units
      BY <1>1, <1>2, <2>1
    <3>2. Resolve(w, carried, pref, hand, anyBase) = ListMatch(Preferred(w, same, hand))
      BY <1>3, <2>1 DEF Resolve
    <3> QED
      BY <3>1, <3>2
  <2>2. CASE same = {} /\ lists # {} /\ anyBase
    <3>1. Preferred(w, lists, hand) \in units
      BY <1>1, <1>2, <2>2
    <3>2. Resolve(w, carried, pref, hand, anyBase) = ListMatch(Preferred(w, lists, hand))
      BY <1>3, <2>2 DEF Resolve
    <3> QED
      BY <3>1, <3>2
  <2>3. CASE same = {} /\ ~(lists # {} /\ anyBase)
    BY <1>3, <2>3 DEF Resolve
  <2> QED
    BY <2>1, <2>2, <2>3
<1> QED
  BY <1>3, <1>4 DEF BaseOnly, ListMatch

(* Copies of what the preferences name.                                    *)
Named == {c \in carried : \E cat \in Cats : Names(cat, BaseOf[c])}

(* A state of the enforcement that began with w.                           *)
StateGood(st, w) ==
    /\ st \in [worn : [Slots -> Copy \cup {None}], done : BOOLEAN, calls : Nat]
    /\ HandsGood(st.worn)
    /\ From(w, st.worn, Named)

LEMMA StartGood ==
    ASSUME NEW w, HandsGood(w)
    PROVE StateGood(Start(w), w)
BY DEF StateGood, Start, From, Slots, HandsGood

LEMMA AskGood ==
    ASSUME NEW w, NEW st, StateGood(st, w)
    PROVE StateGood(Ask(st), w)
BY DEF StateGood, Ask

LEMMA OrTryGood ==
    ASSUME carried \subseteq Copy, PrefsGood(prefs), NEW w, NEW st, StateGood(st, w),
           NEW cat \in MeleeCats
    PROVE StateGood(OrTry(st, cat), w)
<1> DEFINE pref == prefs[cat]
           found == Resolve(st.worn, carried, pref, SlotOf(cat), FALSE)
           hand == IF cat = "twoHand" THEN "right" ELSE SlotOf(cat)
           u == Unit(st.worn, pref.base, found.list)
           put == [worn |-> Put(st.worn, u, hand), done |-> TRUE, calls |-> st.calls + 1]
<1>1. StateGood([st EXCEPT !.done = TRUE], w)
  BY DEF StateGood
<1>2. ASSUME pref # None, found # NoMatch
      PROVE StateGood(put, w)
  <2>1. cat \in Cats /\ IsKind(pref.base, KindsOf(cat)) /\ pref.base \in Base
    BY <1>2 DEF PrefsGood, MeleeCats, Cats, IsKind
  <2>2. Units(carried, pref.base) # {} /\ found.list \in Units(carried, pref.base) \cup {None}
    BY <1>2, ResolveFinds
  <2>3. u \in carried /\ u \in Copy /\ BaseOf[u] = pref.base
    BY <2>1, <2>2, UnitOfBase
  <2>4. hand \in Slots /\ hand # "ammo"
    BY DEF MeleeCats, SlotOf, Slots
  <2>5. hand = "right" => ~Is(u, {"shield"})
    BY <2>1, <2>3, CopyAssumption
       DEF Is, IsKind, BaseAt, KindsOf, OneHandMelee, SlotOf, MeleeCats
  <2>6. HandsGood(Put(st.worn, u, hand)) /\ From(st.worn, Put(st.worn, u, hand), {u})
    BY <2>3, <2>4, <2>5, PutGood DEF StateGood
  <2>7. u \in Named
    BY <1>2, <2>1, <2>3 DEF Named, Names
  <2> HIDE DEF pref, found, hand, u
  <2>8. From(st.worn, Put(st.worn, u, hand), Named)
    BY <2>6, <2>7, FromGrows
  <2>9. From(w, Put(st.worn, u, hand), Named)
    BY <2>8, FromChains DEF StateGood
  <2>10. put \in [worn : [Slots -> Copy \cup {None}], done : BOOLEAN, calls : Nat]
    BY <2>6 DEF StateGood, HandsGood
  <2> QED
    BY <2>6, <2>9, <2>10 DEF StateGood
<1>3. CASE st.done \/ pref = None \/ found = NoMatch
  BY <1>3 DEF OrTry
<1>4. CASE ~(st.done \/ pref = None \/ found = NoMatch)
  <2>1. OrTry(st, cat) \in {st, [st EXCEPT !.done = TRUE], put}
    BY <1>4 DEF OrTry
  <2> QED
    BY <1>1, <1>2, <1>4, <2>1
<1> QED
  BY <1>3, <1>4

LEMMA EmptiedGood ==
    ASSUME NEW w, NEW st, StateGood(st, w), NEW slot \in {"right", "left"}
    PROVE StateGood(Emptied(st, slot), w) /\ StateGood(OrEmpty(st, slot), w)
<1>1. HandsGood(Freed(st.worn, slot)) /\ From(st.worn, Freed(st.worn, slot), {})
  BY FreedGood DEF StateGood, Slots
<1>2. From(w, Freed(st.worn, slot), Named)
  <2>1. From(st.worn, Freed(st.worn, slot), Named)
    BY <1>1, FromGrows
  <2> QED
    BY <2>1, FromChains DEF StateGood
<1> DEFINE freed == [worn |-> Freed(st.worn, slot), done |-> st.done, calls |-> st.calls + 1]
<1>3. freed \in [worn : [Slots -> Copy \cup {None}], done : BOOLEAN, calls : Nat]
  BY <1>1 DEF StateGood, HandsGood
<1>4. StateGood(freed, w)
  BY <1>1, <1>2, <1>3 DEF StateGood
<1>5. Emptied(st, slot) \in {st, freed}
  BY DEF Emptied
<1> QED
  BY <1>4, <1>5 DEF OrEmpty

LEMMA HandsEnforced ==
    ASSUME carried \subseteq Copy, PrefsGood(prefs), NEW w, HandsGood(w)
    PROVE /\ StateGood(HandleTwoHand(w), w)
          /\ StateGood(HandleOneHandRight(w), w)
          /\ StateGood(HandleOneHandLeft(w), w)
          /\ StateGood(HandleShield(w), w)
<1>1. {"twoHand", "oneHandRight", "oneHandLeft", "shieldLeft"} \subseteq MeleeCats
  BY DEF MeleeCats
<1> DEFINE two == OrTry(Start(w), "twoHand")
<1>2. StateGood(two, w)
  BY <1>1, StartGood, OrTryGood
<1>3. StateGood(HandleTwoHand(w), w)
  <2> DEFINE right == OrTry(two, "oneHandRight")
             left == OrTry(right, "oneHandLeft")
             tried == OrTry(left, "shieldLeft")
  <2>1. StateGood(right, w)
    BY <1>1, <1>2, OrTryGood
  <2>2. StateGood(left, w)
    BY <1>1, <2>1, OrTryGood
  <2>3. StateGood(tried, w)
    BY <1>1, <2>2, OrTryGood
  <2>4. StateGood(Emptied(Emptied(tried, "right"), "left"), w)
    BY <2>3, EmptiedGood
  <2>5. HandleTwoHand(w) \in {tried, Emptied(Emptied(tried, "right"), "left")}
    BY DEF HandleTwoHand
  <2> QED
    BY <2>3, <2>4, <2>5
<1>4. StateGood(HandleOneHandRight(w), w)
  <2> DEFINE right == OrEmpty(OrTry(two, "oneHandRight"), "right")
             own == IF OneHandPrefsResolveSameInstance(right.worn) THEN Ask(right)
                    ELSE OrTry(Ask(right), "oneHandLeft")
             both == OrEmpty(OrTry(own, "shieldLeft"), "left")
  <2>1. StateGood(right, w)
    BY <1>1, <1>2, OrTryGood, EmptiedGood
  <2>2. StateGood(own, w)
    BY <1>1, <2>1, AskGood, OrTryGood
  <2>3. StateGood(both, w)
    BY <1>1, <2>2, OrTryGood, EmptiedGood
  <2>4. HandleOneHandRight(w) \in {right, both}
    BY DEF HandleOneHandRight
  <2> QED
    BY <2>1, <2>3, <2>4
<1>5. StateGood(LeftHand(w), w)
  <2>1. StateGood(OrTry(two, "oneHandLeft"), w)
    BY <1>1, <1>2, OrTryGood
  <2>2. StateGood(OrTry(OrTry(two, "oneHandLeft"), "shieldLeft"), w)
    BY <1>1, <2>1, OrTryGood
  <2> QED
    BY <2>2, EmptiedGood DEF LeftHand
<1>6. StateGood(HandleOneHandLeft(w), w)
  <2> DEFINE left == LeftHand(w)
             own == IF OneHandPrefsResolveSameInstance(left.worn) THEN Ask(left)
                    ELSE OrTry(Ask(left), "oneHandRight")
  <2>1. StateGood(own, w)
    BY <1>1, <1>5, AskGood, OrTryGood
  <2>2. StateGood(OrEmpty(own, "right"), w)
    BY <2>1, EmptiedGood
  <2>3. HandleOneHandLeft(w) \in {left, OrEmpty(own, "right")}
    BY DEF HandleOneHandLeft
  <2> QED
    BY <1>5, <2>2, <2>3
<1>7. StateGood(HandleShield(w), w)
  <2> DEFINE left == LeftHand(w)
             right == OrTry(Ask(left), "oneHandRight")
  <2>1. StateGood(right, w)
    BY <1>1, <1>5, AskGood, OrTryGood
  <2>2. StateGood(OrEmpty(right, "right"), w)
    BY <2>1, EmptiedGood
  <2>3. HandleShield(w) \in {left, OrEmpty(right, "right")}
    BY DEF HandleShield
  <2> QED
    BY <1>5, <2>2, <2>3
<1> QED
  BY <1>3, <1>4, <1>6, <1>7

LEMMA EnforcedGood ==
    ASSUME carried \subseteq Copy, PrefsGood(prefs), NEW w, HandsGood(w), NEW b, NEW slot
    PROVE HandsGood(Enforced(w, b, slot).worn) /\ From(w, Enforced(w, b, slot).worn, Named)
<1>1. Enforced(w, b, slot) \in
          {HandleTwoHand(w), HandleOneHandRight(w), HandleOneHandLeft(w), HandleShield(w)}
  BY DEF Enforced, IsKind, OneHandMelee
<1> QED
  BY <1>1, HandsEnforced DEF StateGood

----------------------------------------------------------------------------
(* What an attempt of the AI does to the hands.                            *)

(* What holds besides the types: remembered ammo is ammo, and a weapon     *)
(* taken in this session has armed the suppressor.                         *)
IInv ==
    /\ carried \subseteq Copy
    /\ HandsGood(worn)
    /\ PrefsGood(prefs)
    /\ Exclusive(prefs)
    /\ lastAmmo # None => IsKind(lastAmmo, Ammo)
    /\ taken => menu /\ suppressed

OfBase(b) == {c \in carried : BaseOf[c] = b}

LEMMA PreClearedGood ==
    ASSUME HandsGood(worn), NEW b
    PROVE HandsGood(PreCleared(b)) /\ From(worn, PreCleared(b), {})
<1> DEFINE right == IF Is(worn.right, Melee \ {"bound", "shield"}) THEN Freed(worn, "right") ELSE worn
           both == IF Is(right.left, Melee \ {"bound"}) THEN Freed(right, "left") ELSE right
<1>1. From(worn, worn, {}) /\ "right" \in Slots /\ "left" \in Slots
  BY DEF From, Slots
<1>2. HandsGood(right) /\ From(worn, right, {})
  BY <1>1, FreedGood
<1> HIDE DEF right
<1>3. HandsGood(Freed(right, "left")) /\ From(right, Freed(right, "left"), {})
  BY <1>1, <1>2, FreedGood
<1>4. From(worn, Freed(right, "left"), {})
  BY <1>2, <1>3, FromChains
<1>5. HandsGood(both) /\ From(worn, both, {})
  BY <1>2, <1>3, <1>4
<1>6. PreCleared(b) \in {worn, both}
  BY DEF PreCleared, right
<1> QED
  BY <1>1, <1>5, <1>6

(* An equip of a unit of b from hands w.                                   *)
LEMMA EquipGood ==
    ASSUME carried \subseteq Copy, NEW w, HandsGood(w), NEW b \in Base, NEW slot \in Slots,
           FitsSlot(b, slot) \/ (slot = "ammo" /\ IsKind(b, Ammo)), Units(carried, b) # {},
           NEW list \in Units(carried, b) \cup {None}
    PROVE /\ HandsGood(Put(w, Unit(w, b, list), slot))
          /\ From(w, Put(w, Unit(w, b, list), slot), OfBase(b))
<1>1. Unit(w, b, list) \in OfBase(b) /\ Unit(w, b, list) \in Copy
  BY UnitOfBase DEF OfBase
<1>2. slot = "right" => ~Is(Unit(w, b, list), {"shield"})
  BY <1>1, CopyAssumption DEF OfBase, Is, IsKind, BaseAt, FitsSlot, Ammo, BothHands
<1>3. slot = "ammo" => Is(Unit(w, b, list), Ammo)
  BY <1>1, CopyAssumption DEF OfBase, Is, IsKind, BaseAt, FitsSlot
<1> QED
  BY <1>1, <1>2, <1>3, PutGood, FromGrows

LEMMA VanillaGood ==
    ASSUME carried \subseteq Copy, NEW w, HandsGood(w), NEW b \in Base, NEW slot \in Slots,
           FitsSlot(b, slot), Units(carried, b) # {},
           NEW list \in Units(carried, b) \cup {None},
           NEW v \in Vanilla(w, b, list, slot)
    PROVE HandsGood(v) /\ From(w, v, OfBase(b))
<1>1. v \in {w, Put(w, Unit(w, b, list), slot)}
  BY DEF Vanilla
<1>2. From(w, w, OfBase(b))
  BY DEF From, Slots
<1> QED
  BY <1>1, <1>2, EquipGood

(* The copy an attempt is aligned to is one of the base attempted, which   *)
(* the preferences name.                                                   *)
LEMMA AlignTargetNamed ==
    ASSUME carried \subseteq Copy, PrefsGood(prefs), NEW b \in Base, NEW slot \in Slots, NEW list,
           AlignTarget(b, list, slot) # None
    PROVE AlignTarget(b, list, slot) \in OfBase(b) \cap Named
<1> DEFINE cat == AttemptCategory(b, slot)
           hand == IF slot = "ammo" THEN "none" ELSE slot
           found == Resolve(worn, carried, prefs[cat], hand, TRUE)
<1>1. cat \in Cats \cup {None}
  BY DEF AttemptCategory, CategoryOf, Cats, IsKind
<1>2. cat # None /\ prefs[cat] # None /\ prefs[cat].base = b /\ AlignTarget(b, list, slot) = found.list
  BY DEF AlignTarget
<1>3. found # NoMatch
  <2> HIDE DEF found
  <2> QED
    BY <1>2 DEF NoMatch
<1>4. found.list \in Units(carried, prefs[cat].base) \cup {None}
  BY <1>3, ResolveFinds
<1>5. AlignTarget(b, list, slot) \in OfBase(b)
  BY <1>2, <1>4 DEF OfBase, Units
<1> QED
  BY <1>1, <1>2, <1>5 DEF Named, Names, OfBase

LEMMA SwappedGood ==
    ASSUME IInv, NEW b \in Base, NEW slot \in Slots, FitsSlot(b, slot), NEW list,
           Swapped(b, list, slot)
    PROVE /\ HandsGood(worn')
          /\ From(worn, worn', Named)
          /\ lastAmmo' # None => IsKind(lastAmmo', Ammo)
          /\ Considers
<1> DEFINE align == AlignTarget(b, list, slot)
<1>1. CASE align # None /\ worn' = Put(worn, align, slot) /\ UNCHANGED combat
  <2>1. align \in OfBase(b) \cap Named
    BY <1>1, AlignTargetNamed DEF IInv
  <2>2. slot = "right" => ~Is(align, {"shield"})
    BY <2>1, CopyAssumption DEF OfBase, Is, IsKind, BaseAt, FitsSlot
  <2>3. align \in Copy /\ (slot = "ammo" => Is(align, Ammo))
    BY <2>1, CopyAssumption DEF OfBase, IInv, Is, IsKind, BaseAt, FitsSlot
  <2> HIDE DEF align
  <2>4. HandsGood(Put(worn, align, slot)) /\ From(worn, Put(worn, align, slot), {align})
    BY <2>2, <2>3, PutGood DEF IInv
  <2>5. From(worn, Put(worn, align, slot), Named)
    BY <2>1, <2>4, FromGrows
  <2> QED
    BY <1>1, <2>4, <2>5 DEF combat, IInv, Swapped
<1>2. CASE /\ align = None /\ SwapsAmmo(b)
           /\ lastAmmo' = prefs[KindOf[b]].base
           /\ worn' = Put(worn, Unit(worn, lastAmmo', None), "ammo")
  <2> DEFINE cat == KindOf[b]
             p == prefs[cat].base
  <2>1. cat \in {"arrow", "bolt"} /\ cat \in Cats /\ prefs[cat] # None /\ Units(carried, p) # {}
    BY <1>2 DEF SwapsAmmo, IsKind, Ammo, Cats
  <2>2. IsKind(p, Ammo) /\ p \in Base
    BY <2>1 DEF IInv, PrefsGood, KindsOf, IsKind, Ammo
  <2>3. HandsGood(worn') /\ From(worn, worn', OfBase(p))
    BY <1>2, <2>1, <2>2, EquipGood DEF IInv, Slots
  <2>4. OfBase(p) \subseteq Named
    BY <2>1 DEF OfBase, Named, Names
  <2> QED
    BY <1>2, <2>2, <2>3, <2>4, FromGrows DEF Swapped
<1>3. CASE worn' = Enforced(worn, b, slot).worn /\ UNCHANGED combat
  BY <1>3, EnforcedGood DEF combat, IInv, Swapped
<1> QED
  BY <1>1, <1>2, <1>3 DEF Swapped

(* What any attempt of the AI may bring to the hands, and when.            *)
LEMMA AiEquipGood ==
    ASSUME IInv, NEW b \in Base, NEW slot \in Slots, NEW list \in Lists(worn, carried, b) \cup {None},
           AiEquip(b, list, slot)
    PROVE /\ HandsGood(worn')
          /\ lastAmmo' # None => IsKind(lastAmmo', Ammo)
          /\ \/ worn' = worn
             \/ From(worn, worn', Named) /\ Considers
             \/ /\ From(worn, worn', OfBase(b))
                /\ ~SuppressesBestWeapon(b) /\ ~SuppressesOutOfCombat(b)
                /\ ~(Considers /\ Enforces(b))
<1>1. list \in Units(carried, b) \cup {None} /\ Units(carried, b) # {} /\ FitsSlot(b, slot)
  BY DEF AiEquip, Lists
<1>2. CASE Suppressed(b)
  BY <1>2 DEF Suppressed, IInv, combat
<1>3. CASE Swapped(b, list, slot)
  BY <1>1, <1>3, SwappedGood
<1>4. CASE Gated(b, list, slot)
  <2>1. HandsGood(Put(worn, Unit(worn, b, list), slot))
        /\ From(worn, Put(worn, Unit(worn, b, list), slot), OfBase(b))
    BY <1>1, EquipGood DEF IInv
  <2>2. worn' \in {worn, Put(worn, Unit(worn, b, list), slot)}
    BY <1>4 DEF Gated
  <2>3. UNCHANGED combat /\ ~SuppressesBestWeapon(b) /\ ~SuppressesOutOfCombat(b)
        /\ ~(Considers /\ Enforces(b))
    BY <1>4 DEF Gated, IsDecided
  <2> QED
    BY <2>1, <2>2, <2>3 DEF IInv, combat
<1>5. CASE Allowed(b, list, slot)
  <2>1. HandsGood(PreCleared(b)) /\ From(worn, PreCleared(b), {})
    BY PreClearedGood DEF IInv
  <2>2. worn' \in Vanilla(PreCleared(b), b, list, slot)
    BY <1>5 DEF Allowed
  <2>3. HandsGood(worn') /\ From(PreCleared(b), worn', OfBase(b))
    BY <1>1, <2>1, <2>2, VanillaGood DEF IInv
  <2>4. From(worn, worn', OfBase(b))
    BY <2>1, <2>3, FromGrows, FromChains
  <2>5. lastAmmo' = lastAmmo
    BY <1>5 DEF Allowed, OnUnequipObject, QueueDeferredAmmoReequip, combat
  <2>6. ~SuppressesBestWeapon(b) /\ ~SuppressesOutOfCombat(b) /\ ~(Considers /\ Enforces(b))
    BY <1>5 DEF Allowed, IsDecided
  <2> QED
    BY <2>3, <2>4, <2>5, <2>6 DEF IInv
<1> QED
  BY <1>2, <1>3, <1>4, <1>5 DEF AiEquip

LEMMA RunAmmoTaskGood ==
    ASSUME IInv, RunAmmoTask
    PROVE /\ HandsGood(worn')
          /\ lastAmmo' # None => IsKind(lastAmmo', Ammo)
          /\ worn' = worn \/ (~menu /\ IsFighting
                              /\ \E b \in Base : IsKind(b, Ammo) /\ From(worn, worn', OfBase(b)))
<1>1. CASE worn' = worn /\ lastAmmo' = lastAmmo
  BY <1>1 DEF IInv
<1>2. CASE ~(worn' = worn /\ lastAmmo' = lastAmmo)
  <2>1. PICK b \in {lastAmmo} \cup Fallback(worn) :
            /\ IsRanged(worn) /\ ~menu /\ lastAmmo # None /\ Units(carried, b) # {}
            /\ lastAmmo' = b /\ worn' = Put(worn, Unit(worn, b, None), "ammo")
    BY <1>2 DEF RunAmmoTask, Fallback
  <2>2. b \in Base /\ IsKind(b, Ammo)
    BY <2>1 DEF IInv, Fallback, IsKind, Ammo
  <2>3. HandsGood(worn') /\ From(worn, worn', OfBase(b))
    BY <2>1, <2>2, EquipGood DEF IInv, Slots
  <2> QED
    BY <2>1, <2>2, <2>3 DEF IsRanged
<1> QED
  BY <1>1, <1>2

----------------------------------------------------------------------------
(* Preferences.                                                            *)

LEMMA RecordedGood ==
    ASSUME NEW p, PrefsGood(p), Exclusive(p), NEW c \in Copy, NEW left \in BOOLEAN
    PROVE PrefsGood(Recorded(p, c, left)) /\ Exclusive(Recorded(p, c, left))
<1> DEFINE cat == CategoryOf(BaseOf[c], left)
           entry == [base |-> BaseOf[c], ident |-> IdentOf[c]]
           new == [k \in Cats |-> IF k = cat THEN entry ELSE IF k \in CrossClear(cat) THEN None ELSE p[k]]
<1>1. entry \in Pref
  BY CopyAssumption DEF Pref, Ident
<1>2. cat \in Cats => IsKind(entry.base, KindsOf(cat))
  BY CatAssumption DEF CategoryOf, KindsOf, IsKind, Cats, OneHandMelee
<1>3. cat \in Cats \cup {None}
  BY DEF CategoryOf, Cats, IsKind
<1>4. CASE cat = None
  BY <1>4 DEF Recorded
<1>5. CASE cat \in Cats
  <2>1. Recorded(p, c, left) = new
    BY <1>5, CatAssumption DEF Recorded
  <2> HIDE DEF cat, entry
  <2>2. PrefsGood(new)
    BY <1>1, <1>2, <1>5 DEF PrefsGood
  <2>3. Exclusive(new)
    BY <1>5 DEF Exclusive, CrossClear, Cats, MeleeCats
  <2> QED
    BY <2>1, <2>2, <2>3
<1> QED
  BY <1>3, <1>4, <1>5

LEMMA ForgottenGood ==
    ASSUME NEW p, PrefsGood(p), Exclusive(p), NEW b, NEW left, NEW clearRight, NEW clearLeft
    PROVE /\ PrefsGood(Forgotten(p, b, left, clearRight, clearLeft))
          /\ Exclusive(Forgotten(p, b, left, clearRight, clearLeft))
<1>1. PICK cat : Forgotten(p, b, left, clearRight, clearLeft) \in {p, [p EXCEPT ![cat] = None]}
  BY DEF Forgotten
<1>2. PrefsGood([p EXCEPT ![cat] = None]) /\ Exclusive([p EXCEPT ![cat] = None])
  BY DEF PrefsGood, Exclusive, Cats, MeleeCats
<1> QED
  BY <1>1, <1>2

LEMMA SeedHandGood ==
    ASSUME NEW p, PrefsGood(p), NEW c \in Copy \cup {None}, NEW left \in BOOLEAN
    PROVE /\ PrefsGood(SeedHand(p, c, left))
          /\ \A k \in Cats : SeedHand(p, c, left)[k] # p[k] => k = CategoryOf(BaseAt(c), left)
<1> DEFINE cat == CategoryOf(BaseAt(c), left)
           entry == [base |-> BaseAt(c), ident |-> Bare]
<1>1. cat \in Cats => entry \in Pref /\ IsKind(entry.base, KindsOf(cat))
  BY CatAssumption DEF CategoryOf, KindsOf, IsKind, Cats, OneHandMelee, Pref, Ident
<1>2. SeedHand(p, c, left) = IF cat \in Cats THEN [p EXCEPT ![cat] = entry] ELSE p
  BY DEF SeedHand
<1> HIDE DEF cat, entry
<1>3. cat \in Cats => PrefsGood([p EXCEPT ![cat] = entry])
  BY <1>1 DEF PrefsGood
<1>4. \A k \in Cats : SeedHand(p, c, left)[k] # p[k] => k = cat
  BY <1>2 DEF PrefsGood
<1> QED
  BY <1>2, <1>3, <1>4 DEF cat

(* What the hands hold makes exclusive preferences.                        *)
LEMMA SeededGood ==
    ASSUME NEW p, PrefsGood(p), Exclusive(p), HandsGood(worn)
    PROVE PrefsGood(Seeded(p, worn.right, worn.left)) /\ Exclusive(Seeded(p, worn.right, worn.left))
<1>1. CASE \E cat \in MeleeCats : p[cat] # None
  BY <1>1 DEF Seeded
<1>2. CASE ~\E cat \in MeleeCats : p[cat] # None
  <2> DEFINE q == SeedHand(p, worn.right, FALSE)
             s == SeedHand(q, worn.left, TRUE)
             right == CategoryOf(BaseAt(worn.right), FALSE)
             left == CategoryOf(BaseAt(worn.left), TRUE)
  <2>1. worn.right \in Copy \cup {None} /\ worn.left \in Copy \cup {None}
    BY DEF HandsGood, Slots
  <2>2. PrefsGood(q) /\ \A k \in Cats : q[k] # p[k] => k = right
    BY <2>1, SeedHandGood
  <2>3. PrefsGood(s) /\ \A k \in Cats : s[k] # q[k] => k = left
    BY <2>1, <2>2, SeedHandGood
  <2>4. Seeded(p, worn.right, worn.left) = s
    BY <1>2 DEF Seeded
  <2>5. right # "oneHandLeft" /\ right # "shieldLeft" /\ left # "oneHandRight"
    BY CatAssumption DEF CategoryOf, HandsGood, Is, IsKind, Cats
  <2>6. right = "twoHand" \/ left = "twoHand" => right = left
    BY CatAssumption DEF CategoryOf, HandsGood, Is, IsKind, Cats, BothHands
  <2> HIDE DEF q, s, right, left
  <2>7. \A k \in MeleeCats : s[k] # None => k \in {right, left}
    BY <1>2, <2>2, <2>3 DEF MeleeCats, Cats
  <2>8. Exclusive(s)
    BY <2>5, <2>6, <2>7 DEF Exclusive, MeleeCats
  <2> QED
    BY <2>3, <2>4, <2>8
<1> QED
  BY <1>1, <1>2

----------------------------------------------------------------------------
(* The invariant.                                                          *)

LEMMA InitIInv == Init => IInv
<1> SUFFICES ASSUME Init PROVE IInv
  OBVIOUS
<1>1. carried \subseteq Copy
  BY SettingAssumption DEF Init
<1>2. HandsGood(worn)
  BY CopyAssumption DEF Init, HandsGood, Slots, Is, IsKind, BaseAt
<1>3. PrefsGood(prefs) /\ Exclusive(prefs)
  BY DEF Init, NoPrefs, PrefsGood, Exclusive, Cats, MeleeCats
<1> QED
  BY <1>1, <1>2, <1>3 DEF Init, IInv

(* The hands with a copy gone.                                             *)
LEMMA WithoutGood ==
    ASSUME HandsGood(worn), NEW c
    PROVE HandsGood([s \in Slots |-> IF worn[s] = c THEN None ELSE worn[s]])
BY CopyAssumption DEF HandsGood, Slots, Is, IsKind, BaseAt

LEMMA NextIInv == IInv /\ [Next]_vars => IInv'
<1> SUFFICES ASSUME IInv, [Next]_vars PROVE IInv'
  OBVIOUS
<1>1. ASSUME NEW b \in Base, NEW slot \in Slots, NEW list \in Lists(worn, carried, b) \cup {None},
             AiEquip(b, list, slot)
      PROVE IInv'
  <2>1. HandsGood(worn') /\ (lastAmmo' # None => IsKind(lastAmmo', Ammo))
    BY <1>1, AiEquipGood
  <2>2. taken' => menu' /\ suppressed'
    BY <1>1 DEF AiEquip, DropSuppression, place, IInv
  <2> QED
    BY <1>1, <2>1, <2>2 DEF AiEquip, IInv, PrefsGood, Exclusive
<1>2. ASSUME NEW slot \in Slots, NEW swap \in BOOLEAN, AiUnequip(slot, swap)
      PROVE IInv'
  <2>1. HandsGood(worn')
    BY <1>2, FreedGood DEF AiUnequip, IInv
  <2>2. lastAmmo' = lastAmmo
    BY <1>2 DEF AiUnequip, OnUnequipObject, QueueDeferredAmmoReequip, combat
  <2> QED
    BY <1>2, <2>1, <2>2 DEF AiUnequip, IInv, PrefsGood, Exclusive, place
<1>3. ASSUME NEW slot \in Slots, AiEquipSpell(slot)
      PROVE IInv'
  <2>1. HandsGood(worn')
    BY <1>3, FreedGood DEF AiEquipSpell, IInv
  <2> QED
    BY <1>3, <2>1 DEF AiEquipSpell, IInv, PrefsGood, Exclusive, place, combat
<1>4. ASSUME NEW slot \in Slots, PlayerUnequip(slot)
      PROVE IInv'
  <2>1. HandsGood(worn')
    BY <1>4, FreedGood DEF PlayerUnequip, IInv
  <2>2. PrefsGood(prefs') /\ Exclusive(prefs')
    BY <1>4, ForgottenGood DEF PlayerUnequip, ForgetChoice, IInv
  <2> QED
    BY <1>4, <2>1, <2>2 DEF PlayerUnequip, IInv, place, combat
<1>5. ASSUME NEW c \in Copy, NEW slot \in Slots, PlayerEquip(c, slot)
      PROVE IInv'
  <2>1. (slot = "right" => ~Is(c, {"shield"})) /\ (slot = "ammo" => Is(c, Ammo))
    BY <1>5, CopyAssumption DEF PlayerEquip, FitsSlot, Is, IsKind, BaseAt
  <2>2. HandsGood(worn')
    BY <1>5, <2>1, PutGood DEF PlayerEquip, IInv
  <2>3. PrefsGood(prefs') /\ Exclusive(prefs')
    BY <1>5, RecordedGood DEF PlayerEquip, RecordChoice, IInv
  <2> QED
    BY <1>5, <2>2, <2>3 DEF PlayerEquip, IInv, place, combat
<1>6. ASSUME NEW c \in Copy, Take(c)
      PROVE IInv'
  <2>1. HandsGood(worn')
    BY <1>6, WithoutGood DEF Take, IInv
  <2>2. taken' => menu' /\ suppressed'
    BY <1>6 DEF Take, place, IInv
  <2> QED
    BY <1>6, <2>1, <2>2 DEF Take, IInv, PrefsGood, Exclusive, place, combat
<1>7. CASE RunAmmoTask
  BY <1>7, RunAmmoTaskGood DEF RunAmmoTask, IInv, PrefsGood, Exclusive, place
<1>8. CASE OpenMenu
  <2>1. PrefsGood(prefs') /\ Exclusive(prefs')
    BY <1>8, SeededGood DEF OpenMenu, IInv
  <2> QED
    BY <1>8, <2>1 DEF OpenMenu, IInv, HandsGood, combat
<1>9. CASE CloseMenu
  BY <1>9 DEF CloseMenu, IInv, HandsGood, PrefsGood, Exclusive, combat
<1>10. CASE Shoot
  <2>1. HandsGood(worn')
    BY <1>10 DEF Shoot, IInv, HandsGood, Slots
  <2> QED
    BY <1>10, <2>1 DEF Shoot, IInv, PrefsGood, Exclusive, place, combat
<1>11. CASE RunRestore \/ ChangeStance \/ ChangeFollower
  BY <1>11 DEF RunRestore, ChangeStance, ChangeFollower, IInv, HandsGood, PrefsGood, Exclusive, place, combat
<1>12. CASE Revert
  BY <1>12 DEF Revert, NoPrefs, IInv, HandsGood, PrefsGood, Exclusive, Cats, MeleeCats, place
<1>13. CASE UNCHANGED vars
  BY <1>13 DEF vars, place, combat, IInv, HandsGood, PrefsGood, Exclusive
<1> QED
  BY <1>1, <1>2, <1>3, <1>4, <1>5, <1>6, <1>7, <1>8, <1>9, <1>10, <1>11, <1>12, <1>13 DEF Next

LEMMA InvAlways == Spec => []IInv
BY InitIInv, NextIInv, PTL DEF Spec

----------------------------------------------------------------------------
(* What a step may bring to the hands, and who brings it.                  *)
LEMMA StepBrings ==
    ASSUME IInv, [Next]_vars
    PROVE \/ From(worn, worn', {})
          \/ From(worn, worn', Named) /\ Considers
          \/ \E b \in Base :
                /\ From(worn, worn', OfBase(b))
                /\ ~SuppressesBestWeapon(b) /\ ~SuppressesOutOfCombat(b)
                /\ ~(Considers /\ Enforces(b))
          \/ ~menu /\ IsFighting /\ \E b \in Base : IsKind(b, Ammo) /\ From(worn, worn', OfBase(b))
          \/ menu /\ \E c \in Copy, slot \in Slots : PlayerEquip(c, slot)
<1>1. worn' = worn => From(worn, worn', {})
  BY DEF From, Slots
<1>2. ASSUME NEW b \in Base, NEW slot \in Slots, NEW list \in Lists(worn, carried, b) \cup {None},
             AiEquip(b, list, slot)
      PROVE \/ worn' = worn
            \/ From(worn, worn', Named) /\ Considers
            \/ /\ From(worn, worn', OfBase(b))
               /\ ~SuppressesBestWeapon(b) /\ ~SuppressesOutOfCombat(b)
               /\ ~(Considers /\ Enforces(b))
  BY <1>2, AiEquipGood
<1>3. \A slot \in Slots : From(worn, Freed(worn, slot), {})
  BY FreedGood DEF IInv
<1>4. ASSUME NEW slot \in Slots, NEW swap \in BOOLEAN, AiUnequip(slot, swap)
      PROVE From(worn, worn', {})
  BY <1>1, <1>3, <1>4 DEF AiUnequip
<1>5. ASSUME NEW slot \in Slots, AiEquipSpell(slot) \/ PlayerUnequip(slot)
      PROVE From(worn, worn', {})
  BY <1>3, <1>5 DEF AiEquipSpell, PlayerUnequip
<1>6. ASSUME NEW c \in Copy, NEW slot \in Slots, PlayerEquip(c, slot)
      PROVE menu
  BY <1>6 DEF PlayerEquip
<1>7. ASSUME NEW c \in Copy, Take(c)
      PROVE From(worn, worn', {})
  BY <1>7 DEF Take, From, Slots
<1>8. CASE RunAmmoTask
  BY <1>1, <1>8, RunAmmoTaskGood DEF IsKind
<1>9. CASE Shoot
  BY <1>9 DEF Shoot, From, Slots, IInv, HandsGood
<1>10. CASE RunRestore \/ OpenMenu \/ CloseMenu \/ ChangeStance \/ ChangeFollower \/ Revert \/ UNCHANGED vars
  BY <1>1, <1>10 DEF RunRestore, OpenMenu, CloseMenu, ChangeStance, ChangeFollower, Revert, vars
<1> QED
  BY <1>1, <1>2, <1>4, <1>5, <1>6, <1>7, <1>8, <1>9, <1>10 DEF Next

LEMMA BroughtFrom ==
    ASSUME NEW S, From(worn, worn', S)
    PROVE Brought \subseteq S
BY DEF From, Brought, Worn, Slots

(* What is worn is carried: nothing gets to the hands but from the pack,   *)
(* and what is taken away is taken off.                                    *)
LEMMA NextCarries ==
    ASSUME IInv, Worn(worn) \subseteq carried, [Next]_vars
    PROVE Worn(worn') \subseteq carried'
<1>1. ASSUME NEW S, From(worn, worn', S), S \subseteq carried, carried' = carried
      PROVE Worn(worn') \subseteq carried'
  BY <1>1 DEF From, Worn, Slots
<1>2. Named \subseteq carried /\ {} \subseteq carried /\ \A b \in Base : OfBase(b) \subseteq carried
  BY DEF Named, OfBase
<1>3. ASSUME NEW c \in Copy, Take(c)
      PROVE Worn(worn') \subseteq carried'
  BY <1>3 DEF Take, Worn, Slots, IInv, HandsGood
<1>4. CASE Shoot
  <2>1. Is(worn.ammo, Ammo)
    BY <1>4 DEF Shoot, IInv, HandsGood
  <2>2. worn.right # worn.ammo /\ worn.left # worn.ammo
    BY <1>4, <2>1 DEF Shoot, IInv, HandsGood
  <2> QED
    BY <1>4, <2>2 DEF Shoot, Worn, Slots, IInv, HandsGood
<1>5. ASSUME NEW c \in Copy, NEW slot \in Slots, PlayerEquip(c, slot)
      PROVE From(worn, worn', {c}) /\ c \in carried /\ carried' = carried
  <2>1. (slot = "right" => ~Is(c, {"shield"})) /\ (slot = "ammo" => Is(c, Ammo))
    BY <1>5, CopyAssumption DEF PlayerEquip, FitsSlot, Is, IsKind, BaseAt
  <2> QED
    BY <1>5, <2>1, PutGood DEF PlayerEquip, IInv
<1>6. carried' = carried \/ Shoot \/ \E c \in Copy : Take(c)
  BY DEF Next, AiEquip, AiUnequip, AiEquipSpell, PlayerUnequip, PlayerEquip, RunAmmoTask, RunRestore,
         OpenMenu, CloseMenu, ChangeStance, ChangeFollower, Revert, vars
<1>7. CASE carried' = carried
  <2>1. CASE \E c \in Copy, slot \in Slots : PlayerEquip(c, slot)
    BY <1>1, <1>5, <2>1
  <2> QED
    BY <1>1, <1>2, <1>7, <2>1, StepBrings
<1> QED
  BY <1>3, <1>4, <1>6, <1>7

Carries == Worn(worn) \subseteq carried

(* What is worn is carried, always.                                        *)
LEMMA CarriesAlways == Spec => []Carries
<1>1. Init => Carries
  BY DEF Init, Carries, Worn
<1>2. IInv /\ Carries /\ [Next]_vars => Carries'
  BY NextCarries DEF Carries
<1> QED
  BY <1>1, <1>2, InvAlways, PTL DEF Spec

----------------------------------------------------------------------------
(* The copies a preference finds.                                          *)
SameIdent(w, p) == {c \in Lists(w, carried, p.base) : IdentOf[c] = p.ident}

Matches(w, p) ==
    \/ SameIdent(w, p) # {}
    \/ Lists(w, carried, p.base) = {} /\ Units(carried, p.base) # {} /\ p.ident = Bare

(* Preferred picks one of the copies it is given.                          *)
LEMMA PreferredIn ==
    ASSUME NEW w, NEW S, S # {}, NEW hand
    PROVE Preferred(w, S, hand) \in S
BY DEF Preferred, AnyOf

(* What Resolve finds, in terms of the copies worn and carried.            *)
LEMMA ResolveIs ==
    ASSUME NEW w, NEW p, NEW hand
    PROVE /\ SameIdent(w, p) # {} => Resolve(w, carried, p, hand, FALSE) = ListMatch(Preferred(w, SameIdent(w, p), hand))
          /\ SameIdent(w, p) = {} /\ Matches(w, p) => Resolve(w, carried, p, hand, FALSE) = BaseOnly
          /\ ~Matches(w, p) => Resolve(w, carried, p, hand, FALSE) = NoMatch
<1>1. SameIdent(w, p) # {} => Units(carried, p.base) # {}
  BY DEF SameIdent, Lists
<1>2. CASE SameIdent(w, p) # {}
  BY <1>1, <1>2 DEF Resolve, SameIdent, Matches
<1>3. CASE SameIdent(w, p) = {} /\ Matches(w, p)
  BY <1>3 DEF Resolve, SameIdent, Matches
<1>4. CASE ~Matches(w, p)
  BY <1>4 DEF Resolve, SameIdent, Matches
<1> QED
  BY <1>2, <1>3, <1>4

(* The three outcomes of Resolve are told apart.                           *)
LEMMA Kinded == BaseOnly # NoMatch /\ \A c : ListMatch(c) # NoMatch /\ ListMatch(c) # BaseOnly /\ ListMatch(c).list = c
BY DEF BaseOnly, NoMatch, ListMatch

LEMMA FoundIffMatches ==
    ASSUME NEW w, NEW p, NEW hand
    PROVE Resolve(w, carried, p, hand, FALSE) # NoMatch <=> Matches(w, p)
BY ResolveIs, Kinded

(* A copy in the hands with what the preference names makes it match.      *)
LEMMA WornMatches ==
    ASSUME NEW w, NEW p, NEW c \in Worn(w), c \in carried, BaseOf[c] = p.base, IdentOf[c] = p.ident
    PROVE c \in SameIdent(w, p) /\ Matches(w, p)
BY DEF SameIdent, Matches, Lists, Units

(* Taking copies from the hands, or putting into them what another         *)
(* preference found, makes no preference match.                            *)
LEMMA MatchesShrinks ==
    ASSUME NEW w, NEW v, Worn(v) \subseteq Worn(w), NEW p, Matches(v, p)
    PROVE Matches(w, p) /\ SameIdent(v, p) \subseteq SameIdent(w, p)
BY DEF Matches, SameIdent, Lists, Units

(* Putting on a copy a preference found makes no other preference match.   *)
LEMMA MatchesAfterPut ==
    ASSUME NEW w, NEW v, NEW u, Worn(v) \subseteq Worn(w) \cup {u}, u \in Worn(v), u \in carried,
           NEW q, BaseOf[u] = q.base, IdentOf[u] = q.ident, Matches(w, q),
           NEW p, Matches(v, p)
    PROVE Matches(w, p)
<1>1. CASE p.base # q.base
  BY <1>1 DEF Matches, SameIdent, Lists, Units
<1>2. CASE p.base = q.base /\ p.ident = q.ident
  BY <1>2 DEF Matches, SameIdent
<1>3. CASE p.base = q.base /\ p.ident # q.ident
  <2>1. u \in Lists(v, carried, p.base)
    BY <1>3 DEF Lists, Units
  <2>2. PICK c \in SameIdent(v, p) : TRUE
    BY <2>1 DEF Matches
  <2>3. c \in SameIdent(w, p)
    BY <1>3, <2>2 DEF SameIdent, Lists
  <2> QED
    BY <2>3 DEF Matches
<1> QED
  BY <1>1, <1>2, <1>3

----------------------------------------------------------------------------
(* The hands, one at a time.                                               *)
Other(h) == IF h = "right" THEN "left" ELSE "right"
Pair == {"right", "left"}

(* What freeing a hand leaves in the hands.                                *)
LEMMA FreedHand ==
    ASSUME NEW w, HandsGood(w), NEW h \in Pair
    PROVE /\ HandsGood(Freed(w, h)) /\ Worn(Freed(w, h)) \subseteq Worn(w)
          /\ Freed(w, h)[h] = None
          /\ Freed(w, h)[Other(h)] = IF Is(w[h], BothHands) THEN None ELSE w[Other(h)]
          /\ Freed(w, h)["ammo"] = w["ammo"]
<1>1. HandsGood(Freed(w, h))
  BY FreedGood DEF Pair, Slots
<1>2. CASE Is(w[h], BothHands)
  <2>1. Freed(w, h) = [w EXCEPT !["right"] = None, !["left"] = None]
    BY <1>2 DEF Freed
  <2> QED
    BY <1>1, <1>2, <2>1 DEF HandsGood, Worn, Slots, Pair, Other
<1>3. CASE ~Is(w[h], BothHands)
  <2>1. Freed(w, h) = [w EXCEPT ![h] = None]
    BY <1>3 DEF Freed
  <2> QED
    BY <1>1, <1>3, <2>1 DEF HandsGood, Worn, Slots, Pair, Other
<1> QED
  BY <1>2, <1>3

(* What putting a one-handed copy into a hand leaves in the hands.         *)
LEMMA PutHand ==
    ASSUME NEW w, HandsGood(w), NEW h \in Pair, NEW c \in Copy,
           ~Is(c, Ammo), ~Is(c, BothHands), h = "right" => ~Is(c, {"shield"})
    PROVE /\ HandsGood(Put(w, c, h)) /\ Worn(Put(w, c, h)) \subseteq Worn(w) \cup {c} /\ c \in Worn(Put(w, c, h))
          /\ Put(w, c, h)[h] = c
          /\ ~Is(w[h], BothHands)
             => Put(w, c, h)[Other(h)] = IF w[Other(h)] = c THEN None ELSE w[Other(h)]
<1> DEFINE free == Freed(w, h)
           put == [s \in Slots |-> IF s = h THEN c ELSE IF free[s] = c THEN None ELSE free[s]]
<1>1. Put(w, c, h) = put
  BY DEF Put
<1>2. HandsGood(put)
  BY <1>1, PutGood DEF Pair, Slots
<1>3. Worn(free) \subseteq Worn(w) /\ (~Is(w[h], BothHands) => free[Other(h)] = w[Other(h)]) /\ HandsGood(free)
  BY FreedHand
<1> HIDE DEF free
<1>4. put[h] = c /\ put[Other(h)] = IF free[Other(h)] = c THEN None ELSE free[Other(h)]
  BY DEF Pair, Slots, Other
<1>5. Worn(put) \subseteq Worn(w) \cup {c} /\ c \in Worn(put)
  BY <1>3, CopyAssumption DEF Worn, Pair, Slots
<1> QED
  BY <1>1, <1>2, <1>3, <1>4, <1>5

----------------------------------------------------------------------------
(* What one category of the preferences asks of the hands.                 *)
HandOf(cat) == IF cat = "twoHand" THEN "right" ELSE SlotOf(cat)
Answers(w, cat) == prefs[cat] # None /\ Matches(w, prefs[cat])
Holds(w, cat) == BaseAt(w[HandOf(cat)]) = prefs[cat].base
Forced(cat) == ~IsKind(prefs[cat].base, {"bound"})
Pick(w, cat) == Unit(w, prefs[cat].base, Resolve(w, carried, prefs[cat], SlotOf(cat), FALSE).list)

Held(w, cat) == Answers(w, cat) /\ Holds(w, cat)
Wants(w, cat) == Answers(w, cat) /\ ~Holds(w, cat) /\ Forced(cat)
Empties(w, h) ==
    cfg.emptyHand /\ Is(w[h], (Weapons \ {"bound"}) \cup (IF h = "left" THEN {"shield"} ELSE {}))

(* One OrTry: the category is held, is put on, or does not answer.         *)
LEMMA OrTryIs ==
    ASSUME NEW st, ~st.done, NEW cat
    PROVE /\ Held(st.worn, cat) => OrTry(st, cat) = [st EXCEPT !.done = TRUE]
          /\ Wants(st.worn, cat)
             => OrTry(st, cat) = [worn |-> Put(st.worn, Pick(st.worn, cat), HandOf(cat)), done |-> TRUE,
                                  calls |-> st.calls + 1]
          /\ ~Held(st.worn, cat) /\ ~Wants(st.worn, cat) => OrTry(st, cat) = st
<1> DEFINE found == Resolve(st.worn, carried, prefs[cat], SlotOf(cat), FALSE)
<1>1. found # NoMatch <=> Matches(st.worn, prefs[cat])
  BY FoundIffMatches
<1> HIDE DEF found
<1>2. OrTry(st, cat) =
        IF st.done \/ prefs[cat] = None THEN st
        ELSE IF found = NoMatch THEN st
        ELSE IF BaseAt(st.worn[HandOf(cat)]) = prefs[cat].base THEN [st EXCEPT !.done = TRUE]
        ELSE IF IsKind(prefs[cat].base, {"bound"}) THEN st
        ELSE [worn |-> Put(st.worn, Unit(st.worn, prefs[cat].base, found.list), HandOf(cat)),
              done |-> TRUE, calls |-> st.calls + 1]
  BY DEF OrTry, HandOf, found
<1>3. Pick(st.worn, cat) = Unit(st.worn, prefs[cat].base, found.list)
  BY DEF Pick, found
<1> QED
  BY <1>1, <1>2, <1>3 DEF Held, Wants, Answers, Holds, Forced

(* Emptied frees a hand that holds what is unwanted, and no other.         *)
LEMMA EmptiedIs ==
    ASSUME NEW st, NEW h
    PROVE /\ Empties(st.worn, h) => Emptied(st, h) = [worn |-> Freed(st.worn, h), done |-> st.done, calls |-> st.calls + 1]
          /\ ~Empties(st.worn, h) => Emptied(st, h) = st
BY DEF Emptied, Empties

(* The copy a category puts into its hand.                                 *)
LEMMA PickIs ==
    ASSUME carried \subseteq Copy, PrefsGood(prefs), NEW w, NEW cat \in MeleeCats, Answers(w, cat)
    PROVE /\ Pick(w, cat) \in carried
          /\ BaseOf[Pick(w, cat)] = prefs[cat].base /\ IdentOf[Pick(w, cat)] = prefs[cat].ident
          /\ SameIdent(w, prefs[cat]) # {}
             => Pick(w, cat) = Preferred(w, SameIdent(w, prefs[cat]), SlotOf(cat))
<1> DEFINE p == prefs[cat]
           same == SameIdent(w, p)
           found == Resolve(w, carried, p, SlotOf(cat), FALSE)
<1>1. None \notin carried /\ p.base \in Base
  BY CopyAssumption DEF PrefsGood, Answers, MeleeCats, Cats, Pref
<1>2. CASE same # {}
  <2>0. found = ListMatch(Preferred(w, same, SlotOf(cat)))
    BY <1>2, ResolveIs
  <2>1. found.list = Preferred(w, same, SlotOf(cat))
    <3> HIDE DEF found, same
    <3> QED
      BY <2>0, Kinded
  <2>2. Preferred(w, same, SlotOf(cat)) \in same
    BY <1>2, PreferredIn
  <2>3. \A c \in same : c \in carried /\ BaseOf[c] = p.base /\ IdentOf[c] = p.ident
    BY DEF SameIdent, Lists, Units
  <2> HIDE DEF same, found
  <2>4. found.list # None
    BY <1>1, <2>1, <2>2, <2>3
  <2>5. Pick(w, cat) = found.list
    BY <2>4 DEF Pick, Unit, found
  <2> QED
    BY <2>1, <2>2, <2>3, <2>5 DEF same
<1>3. CASE same = {}
  <2>1. found = BaseOnly /\ Lists(w, carried, p.base) = {} /\ Units(carried, p.base) # {} /\ p.ident = Bare
    BY <1>3, ResolveIs DEF Answers, Matches
  <2>2. Pick(w, cat) = AnyOf(Units(carried, p.base) \ Lists(w, carried, p.base))
    <3>1. found.list = None
      <4> HIDE DEF found
      <4> QED
        BY <2>1 DEF BaseOnly
    <3>2. Units(carried, p.base) \ Lists(w, carried, p.base) # {}
      BY <2>1
    <3> HIDE DEF found
    <3>3. Pick(w, cat) = Unit(w, p.base, found.list)
      BY DEF Pick, found
    <3> QED
      BY <3>1, <3>2, <3>3 DEF Unit
  <2>3. Pick(w, cat) \in Units(carried, p.base) \ Lists(w, carried, p.base)
    BY <2>1, <2>2 DEF AnyOf
  <2> QED
    BY <1>3, <2>1, <2>3 DEF Units, Lists
<1> QED
  BY <1>2, <1>3

----------------------------------------------------------------------------
(* What an attempt makes of one hand, and of one hand after the other.     *)
CatAt(h) ==
    IF h = "right" THEN "oneHandRight"
    ELSE IF prefs["oneHandLeft"] # None THEN "oneHandLeft" ELSE "shieldLeft"

Rests(w, h) == Held(w, CatAt(h)) \/ (~Wants(w, CatAt(h)) /\ ~Empties(w, h))

Cleared(w, h) == IF Empties(w, h) THEN Freed(w, h) ELSE w

Serve(w, h) ==
    IF Held(w, CatAt(h)) THEN w
    ELSE IF Wants(w, CatAt(h)) THEN Put(w, Pick(w, CatAt(h)), h)
    ELSE Cleared(w, h)

IsEligible(w, h) == IF h = "right" THEN IsRightEligible(w) ELSE IsLeftEligible(w)
Skips(w, tug) == ~tug /\ OneHandPrefsResolveSameInstance(w)

Turn(w, h, tug) ==
    LET v == Serve(w, h)
        o == Other(h)
    IN IF ~IsEligible(v, o) THEN v ELSE IF Skips(v, tug) THEN Cleared(v, o) ELSE Serve(v, o)

Quiet(w, h, tug) ==
    /\ Rests(w, h)
    /\ IsEligible(w, Other(h)) => IF Skips(w, tug) THEN ~Empties(w, Other(h)) ELSE Rests(w, Other(h))

Ready ==
    /\ carried \subseteq Copy /\ PrefsGood(prefs) /\ Exclusive(prefs)
    /\ prefs["twoHand"] = None

(* A state of the enforcement, before and after a category has answered.   *)
Asked(w, calls) == [worn |-> w, done |-> FALSE, calls |-> calls]
Answered(w, calls) == [worn |-> w, done |-> TRUE, calls |-> calls]

Tried(st, h) == IF h = "right" THEN OrTry(st, "oneHandRight") ELSE OrTry(OrTry(st, "oneHandLeft"), "shieldLeft")

(* The state of a Handle... call, before and after an answer.              *)
LEMMA StateIs ==
    ASSUME NEW w, NEW n
    PROVE /\ Asked(w, n).worn = w /\ ~Asked(w, n).done /\ Asked(w, n).calls = n
          /\ Answered(w, n).worn = w /\ Answered(w, n).done /\ Answered(w, n).calls = n
          /\ [Asked(w, n) EXCEPT !.done = TRUE] = Answered(w, n)
          /\ Ask(Asked(w, n)) = Asked(w, n) /\ Ask(Answered(w, n)) = Asked(w, n)
<1> DEFINE yes == TRUE
           no == FALSE
<1>1. \A d, e : [[worn |-> w, done |-> d, calls |-> n] EXCEPT !.done = e] = [worn |-> w, done |-> e, calls |-> n]
  OBVIOUS
<1> HIDE DEF yes, no
<1>2. [[worn |-> w, done |-> no, calls |-> n] EXCEPT !.done = yes] = [worn |-> w, done |-> yes, calls |-> n]
  BY <1>1
<1>3. [[worn |-> w, done |-> yes, calls |-> n] EXCEPT !.done = no] = [worn |-> w, done |-> no, calls |-> n]
  BY <1>1
<1>4. [[worn |-> w, done |-> no, calls |-> n] EXCEPT !.done = no] = [worn |-> w, done |-> no, calls |-> n]
  BY <1>1
<1>5. /\ Asked(w, n).worn = w /\ ~Asked(w, n).done /\ Asked(w, n).calls = n
      /\ Answered(w, n).worn = w /\ Answered(w, n).done /\ Answered(w, n).calls = n
  BY DEF Asked, Answered
<1>6. /\ [Asked(w, n) EXCEPT !.done = TRUE] = Answered(w, n)
      /\ Ask(Asked(w, n)) = Asked(w, n) /\ Ask(Answered(w, n)) = Asked(w, n)
  BY <1>2, <1>3, <1>4 DEF yes, no, Asked, Answered, Ask
<1> QED
  BY <1>5, <1>6

(* A category without a preference never answers.                          *)
LEMMA OrTryNothing ==
    ASSUME NEW st, NEW cat, prefs[cat] = None
    PROVE OrTry(st, cat) = st
BY DEF OrTry

(* The melee category a hand serves.                                       *)
LEMMA CatAtIs ==
    ASSUME NEW h \in Pair
    PROVE /\ CatAt(h) \in MeleeCats /\ CatAt(h) # "twoHand" /\ CatAt(h) \in Cats
          /\ HandOf(CatAt(h)) = h /\ SlotOf(CatAt(h)) = h
BY DEF CatAt, Pair, HandOf, SlotOf, MeleeCats, Cats

(* The tries at one hand come down to its one category.                    *)
LEMMA TriedIs ==
    ASSUME Ready, NEW w, NEW n, NEW h \in Pair
    PROVE Tried(Asked(w, n), h) =
             IF Held(w, CatAt(h)) THEN Answered(w, n)
             ELSE IF Wants(w, CatAt(h)) THEN Answered(Put(w, Pick(w, CatAt(h)), h), n + 1)
             ELSE Asked(w, n)
<1> DEFINE st == Asked(w, n)
<1>1. ~st.done /\ st.worn = w /\ st.calls = n /\ [st EXCEPT !.done = TRUE] = Answered(w, n)
  BY StateIs
<1>2. Tried(st, h) = OrTry(st, CatAt(h))
  <2>1. CASE h = "right"
    BY <2>1 DEF Tried, CatAt
  <2>2. CASE h = "left" /\ prefs["oneHandLeft"] # None
    <3>1. prefs["shieldLeft"] = None
      BY <2>2 DEF Ready, Exclusive
    <3> QED
      BY <2>2, <3>1, OrTryNothing DEF Tried, CatAt
  <2>3. CASE h = "left" /\ prefs["oneHandLeft"] = None
    <3>1. OrTry(st, "oneHandLeft") = st
      BY <2>3, OrTryNothing
    <3> QED
      BY <2>3, <3>1 DEF Tried, CatAt
  <2> QED
    BY <2>1, <2>2, <2>3 DEF Pair
<1> HIDE DEF st
<1>3. HandOf(CatAt(h)) = h
  BY CatAtIs
<1>4. OrTry(st, CatAt(h)) =
             IF Held(w, CatAt(h)) THEN Answered(w, n)
             ELSE IF Wants(w, CatAt(h)) THEN Answered(Put(w, Pick(w, CatAt(h)), h), n + 1)
             ELSE st
  <2>1. CASE Held(w, CatAt(h))
    BY <1>1, <2>1, OrTryIs
  <2>2. CASE ~Held(w, CatAt(h)) /\ Wants(w, CatAt(h))
    <3>1. OrTry(st, CatAt(h)) = [worn |-> Put(w, Pick(w, CatAt(h)), h), done |-> TRUE, calls |-> n + 1]
      BY <1>1, <1>3, <2>2, OrTryIs
    <3> QED
      BY <2>2, <3>1 DEF Asked, Answered
  <2>3. CASE ~Held(w, CatAt(h)) /\ ~Wants(w, CatAt(h))
    BY <1>1, <2>3, OrTryIs
  <2> QED
    BY <2>1, <2>2, <2>3
<1> QED
  BY <1>2, <1>4 DEF st

(* Emptying a hand when nothing has answered.                              *)
LEMMA EmptiedAsked ==
    ASSUME NEW v, NEW m, NEW h
    PROVE /\ OrEmpty(Asked(v, m), h) = Emptied(Asked(v, m), h)
          /\ \E k : Emptied(Asked(v, m), h) = Asked(Cleared(v, h), k) /\ (~Empties(v, h) => k = m)
<1>1. OrEmpty(Asked(v, m), h) = Emptied(Asked(v, m), h)
  BY StateIs DEF OrEmpty
<1>2. CASE Empties(v, h)
  <2>1. Emptied(Asked(v, m), h) = [worn |-> Freed(v, h), done |-> FALSE, calls |-> m + 1]
    BY <1>2, EmptiedIs, StateIs
  <2>2. Emptied(Asked(v, m), h) = Asked(Freed(v, h), m + 1)
    BY <2>1 DEF Asked
  <2> QED
    BY <1>1, <1>2, <2>2 DEF Cleared
<1>3. CASE ~Empties(v, h)
  <2>1. Emptied(Asked(v, m), h) = Asked(v, m)
    BY <1>3, EmptiedIs, StateIs
  <2> QED
    BY <1>1, <1>3, <2>1 DEF Cleared
<1> QED
  BY <1>2, <1>3

(* The whole attempt at one hand serves it.                                *)
LEMMA ServedIs ==
    ASSUME Ready, NEW w, NEW n, NEW h \in Pair
    PROVE \E m : /\ OrEmpty(Tried(Asked(w, n), h), h) \in {Asked(Serve(w, h), m), Answered(Serve(w, h), m)}
                 /\ Rests(w, h) => m = n
<1>1. CASE Held(w, CatAt(h))
  <2>1. OrEmpty(Tried(Asked(w, n), h), h) = Answered(w, n)
    BY <1>1, TriedIs, StateIs DEF OrEmpty
  <2> QED
    BY <1>1, <2>1 DEF Serve
<1>2. CASE ~Held(w, CatAt(h)) /\ Wants(w, CatAt(h))
  <2>1. OrEmpty(Tried(Asked(w, n), h), h) = Answered(Put(w, Pick(w, CatAt(h)), h), n + 1)
    BY <1>2, TriedIs, StateIs DEF OrEmpty
  <2>2. ~Rests(w, h)
    BY <1>2 DEF Rests
  <2> QED
    BY <1>2, <2>1, <2>2 DEF Serve
<1>3. CASE ~Held(w, CatAt(h)) /\ ~Wants(w, CatAt(h))
  <2>1. Tried(Asked(w, n), h) = Asked(w, n)
    BY <1>3, TriedIs
  <2>2. Serve(w, h) = Cleared(w, h) /\ (Rests(w, h) => ~Empties(w, h))
    BY <1>3 DEF Serve, Rests
  <2> QED
    BY <2>1, <2>2, EmptiedAsked
<1> QED
  BY <1>1, <1>2, <1>3

(* The second hand, after the first has left st.                           *)
Second(st, h, tug) ==
    OrEmpty(IF Skips(st.worn, tug) THEN Ask(st) ELSE Tried(Ask(st), h), h)

Handled(w, h, tug) ==
    LET st == OrEmpty(Tried(Asked(w, 0), h), h)
    IN IF IsEligible(st.worn, Other(h)) THEN Second(st, Other(h), tug) ELSE st

(* A Handle... call serves its own hand and then, if allowed, the other.   *)
LEMMA HandledIs ==
    ASSUME Ready, NEW w, NEW h \in Pair, NEW tug \in BOOLEAN
    PROVE Handled(w, h, tug).worn = Turn(w, h, tug) /\ (Quiet(w, h, tug) => Handled(w, h, tug).calls = 0)
<1> DEFINE v == Serve(w, h)
           o == Other(h)
           st == OrEmpty(Tried(Asked(w, 0), h), h)
<1>1. PICK m : st \in {Asked(v, m), Answered(v, m)} /\ (Rests(w, h) => m = 0)
  BY ServedIs
<1>2. o \in Pair
  BY DEF Pair, Other
<1>3. Handled(w, h, tug) = IF IsEligible(st.worn, o) THEN Second(st, o, tug) ELSE st
  BY DEF Handled
<1>10. Rests(w, h) => v = w
  BY DEF Rests, Serve, Cleared
<1> HIDE DEF v, st, o
<1>4. st.worn = v /\ st.calls = m /\ Ask(st) = Asked(v, m)
  BY <1>1, StateIs
<1>5. CASE ~IsEligible(v, o)
  <2>1. Handled(w, h, tug) = st
    BY <1>3, <1>4, <1>5
  <2>2. Turn(w, h, tug) = v
    BY <1>5 DEF Turn, v, o
  <2> QED
    BY <1>1, <1>4, <2>1, <2>2 DEF Quiet
<1>6. CASE IsEligible(v, o) /\ Skips(v, tug)
  <2>1. Handled(w, h, tug) = OrEmpty(Asked(v, m), o)
    BY <1>3, <1>4, <1>6 DEF Second
  <2>2. PICK k : Handled(w, h, tug) \in {Asked(Cleared(v, o), k), Answered(Cleared(v, o), k)} /\ (~Empties(v, o) => k = m)
    BY <2>1, EmptiedAsked
  <2>3. Handled(w, h, tug).worn = Cleared(v, o) /\ Handled(w, h, tug).calls = k
    BY <2>2, StateIs
  <2>4. Turn(w, h, tug) = Cleared(v, o)
    BY <1>6 DEF Turn, v, o
  <2>5. Quiet(w, h, tug) => ~Empties(v, o) /\ m = 0
    BY <1>1, <1>6, <1>10 DEF Quiet, o
  <2> QED
    BY <2>2, <2>3, <2>4, <2>5
<1>7. CASE IsEligible(v, o) /\ ~Skips(v, tug)
  <2>1. Handled(w, h, tug) = OrEmpty(Tried(Asked(v, m), o), o)
    BY <1>3, <1>4, <1>7 DEF Second
  <2>2. PICK k : Handled(w, h, tug) \in {Asked(Serve(v, o), k), Answered(Serve(v, o), k)} /\ (Rests(v, o) => k = m)
    BY <1>2, <2>1, ServedIs
  <2>3. Handled(w, h, tug).worn = Serve(v, o) /\ Handled(w, h, tug).calls = k
    BY <2>2, StateIs
  <2>4. Turn(w, h, tug) = Serve(v, o)
    BY <1>7 DEF Turn, v, o
  <2>5. Quiet(w, h, tug) => Rests(v, o) /\ m = 0
    BY <1>1, <1>7, <1>10 DEF Quiet, o
  <2> QED
    BY <2>2, <2>3, <2>4, <2>5
<1> QED
  BY <1>5, <1>6, <1>7

(* The three one-handed Handle... calls are turns of one hand.             *)
LEMMA HandlersTurn ==
    ASSUME Ready, NEW w
    PROVE /\ HandleOneHandRight(w).worn = Turn(w, "right", FALSE)
          /\ Quiet(w, "right", FALSE) => HandleOneHandRight(w).calls = 0
          /\ HandleOneHandLeft(w).worn = Turn(w, "left", FALSE)
          /\ Quiet(w, "left", FALSE) => HandleOneHandLeft(w).calls = 0
          /\ HandleShield(w).worn = Turn(w, "left", TRUE)
          /\ Quiet(w, "left", TRUE) => HandleShield(w).calls = 0
<1>1. OrTry(Start(w), "twoHand") = Asked(w, 0)
  BY OrTryNothing DEF Ready, Start, Asked
<1>2. ASSUME NEW st, st = OrEmpty(Tried(Asked(w, 0), "right"), "right")
      PROVE HandleOneHandRight(w) = IF IsEligible(st.worn, "left") THEN Second(st, "left", FALSE) ELSE st
  <2> DEFINE own == IF OneHandPrefsResolveSameInstance(st.worn) THEN Ask(st)
                    ELSE OrTry(Ask(st), "oneHandLeft")
  <2>1. HandleOneHandRight(w) = IF IsLeftEligible(st.worn) THEN OrEmpty(OrTry(own, "shieldLeft"), "left") ELSE st
    BY <1>1, <1>2 DEF HandleOneHandRight, Tried
  <2>2. CASE OneHandPrefsResolveSameInstance(st.worn)
    <3>1. prefs["shieldLeft"] = None
      BY <2>2 DEF OneHandPrefsResolveSameInstance, Ready, Exclusive
    <3>2. OrTry(own, "shieldLeft") = Ask(st)
      BY <2>2, <3>1, OrTryNothing
    <3> QED
      BY <2>1, <2>2, <3>2 DEF IsEligible, Second, Skips
  <2>3. CASE ~OneHandPrefsResolveSameInstance(st.worn)
    BY <2>1, <2>3 DEF IsEligible, Second, Skips, Tried
  <2> QED
    BY <2>2, <2>3
<1>3. ASSUME NEW st, st = OrEmpty(Tried(Asked(w, 0), "left"), "left")
      PROVE /\ HandleOneHandLeft(w) = IF IsEligible(st.worn, "right") THEN Second(st, "right", FALSE) ELSE st
            /\ HandleShield(w) = IF IsEligible(st.worn, "right") THEN Second(st, "right", TRUE) ELSE st
  <2>1. LeftHand(w) = st
    BY <1>1, <1>3 DEF LeftHand, Tried
  <2>2. HandleOneHandLeft(w) = IF IsEligible(st.worn, "right") THEN Second(st, "right", FALSE) ELSE st
    BY <2>1 DEF HandleOneHandLeft, IsEligible, Second, Skips, Tried
  <2>3. HandleShield(w) = IF IsEligible(st.worn, "right") THEN Second(st, "right", TRUE) ELSE st
    BY <2>1 DEF HandleShield, IsEligible, Second, Skips, Tried
  <2> QED
    BY <2>2, <2>3
<1> DEFINE right == OrEmpty(Tried(Asked(w, 0), "right"), "right")
           left == OrEmpty(Tried(Asked(w, 0), "left"), "left")
<1>4. Other("right") = "left" /\ Other("left") = "right" /\ "right" \in Pair /\ "left" \in Pair
  BY DEF Other, Pair
<1>5. HandleOneHandRight(w) = Handled(w, "right", FALSE)
  <2>1. HandleOneHandRight(w) = IF IsEligible(right.worn, "left") THEN Second(right, "left", FALSE) ELSE right
    BY <1>2
  <2> HIDE DEF right
  <2> QED
    BY <1>4, <2>1 DEF Handled, right
<1>6. HandleOneHandLeft(w) = Handled(w, "left", FALSE) /\ HandleShield(w) = Handled(w, "left", TRUE)
  <2>1. /\ HandleOneHandLeft(w) = IF IsEligible(left.worn, "right") THEN Second(left, "right", FALSE) ELSE left
        /\ HandleShield(w) = IF IsEligible(left.worn, "right") THEN Second(left, "right", TRUE) ELSE left
    BY <1>3
  <2> HIDE DEF left
  <2> QED
    BY <1>4, <2>1 DEF Handled, left
<1> QED
  BY <1>4, <1>5, <1>6, HandledIs

Facing(w) == HandsGood(w) /\ Worn(w) \subseteq carried

(* What the category of a hand may name.                                   *)
LEMMA PrefersOne ==
    ASSUME Ready, NEW h \in Pair, prefs[CatAt(h)] # None
    PROVE /\ prefs[CatAt(h)] \in Pref /\ prefs[CatAt(h)].base \in Base /\ prefs[CatAt(h)].base # None
          /\ ~IsKind(prefs[CatAt(h)].base, Ammo) /\ ~IsKind(prefs[CatAt(h)].base, BothHands)
          /\ h = "right" => ~IsKind(prefs[CatAt(h)].base, {"shield"})
          /\ CatAt(h) = "shieldLeft" => IsKind(prefs[CatAt(h)].base, {"shield"})
          /\ h = "right" => IsKind(prefs[CatAt(h)].base, OneHandMelee)
          /\ h = "left" => IsKind(prefs[CatAt(h)].base, OneHandMelee \cup {"shield"})
<1> DEFINE cat == CatAt(h)
<1>1. cat \in {"oneHandRight", "oneHandLeft", "shieldLeft"} /\ cat \in Cats /\ (h = "right" => cat = "oneHandRight")
  BY DEF CatAt, Pair, Cats
<1> HIDE DEF cat
<1>2. prefs[cat] \in Pref /\ IsKind(prefs[cat].base, KindsOf(cat))
  BY <1>1 DEF Ready, PrefsGood, cat
<1>3. KindsOf(cat) = IF cat = "shieldLeft" THEN {"shield"} ELSE OneHandMelee
  BY <1>1 DEF KindsOf
<1>4. prefs[cat].base \in Base /\ prefs[cat].base # None
  BY <1>2, CopyAssumption DEF Pref
<1> QED
  BY <1>1, <1>2, <1>3, <1>4 DEF cat, IsKind, OneHandMelee, Ammo, BothHands, Pair

(* An empty hand is eligible, and needs no emptying.                       *)
LEMMA NoneWorn ==
    ASSUME Ready, NEW w, NEW h \in Pair, w[h] = None
    PROVE ~Empties(w, h) /\ ~Held(w, CatAt(h)) /\ IsEligible(w, h)
<1>1. ~Is(None, Weapons) /\ BaseAt(None) = None /\ \A K : ~Is(None, K)
  BY CopyAssumption DEF Is, BaseAt, IsKind
<1>2. HandOf(CatAt(h)) = h
  BY CatAtIs
<1>3. prefs[CatAt(h)] # None => prefs[CatAt(h)].base # None
  BY PrefersOne
<1> QED
  BY <1>1, <1>2, <1>3 DEF Empties, Held, Answers, Holds, IsEligible, IsRightEligible, IsLeftEligible, Pair

(* Putting on the copy of a category: the hand holds it, and no preference *)
(* matches that did not before.                                            *)
LEMMA PutServes ==
    ASSUME Ready, NEW w, Facing(w), NEW h \in Pair, Answers(w, CatAt(h)),
           NEW u, u = Pick(w, CatAt(h))
    PROVE /\ u \in carried /\ u \in Copy /\ BaseOf[u] = prefs[CatAt(h)].base /\ IdentOf[u] = prefs[CatAt(h)].ident
          /\ u # None /\ ~Is(u, BothHands) /\ ~Is(u, Ammo)
          /\ Facing(Put(w, u, h)) /\ Put(w, u, h)[h] = u /\ Held(Put(w, u, h), CatAt(h))
          /\ Worn(Put(w, u, h)) \subseteq Worn(w) \cup {u} /\ u \in Worn(Put(w, u, h))
          /\ ~Is(w[h], BothHands) => Put(w, u, h)[Other(h)] = IF w[Other(h)] = u THEN None ELSE w[Other(h)]
          /\ \A p : Matches(Put(w, u, h), p) => Matches(w, p)
<1> DEFINE cat == CatAt(h)
           p0 == prefs[cat]
           v == Put(w, u, h)
<1>1. /\ cat \in MeleeCats /\ HandOf(cat) = h
      /\ p0 # None /\ Matches(w, p0)
  BY CatAtIs DEF Answers
<1>2. u \in carried /\ u \in Copy /\ BaseOf[u] = p0.base /\ IdentOf[u] = p0.ident /\ u # None
  BY <1>1, PickIs, CopyAssumption DEF Ready
<1>3. ~Is(u, BothHands) /\ ~Is(u, Ammo) /\ (h = "right" => ~Is(u, {"shield"}))
  BY <1>1, <1>2, PrefersOne DEF Is, BaseAt
<1>4. /\ HandsGood(v) /\ Worn(v) \subseteq Worn(w) \cup {u} /\ u \in Worn(v) /\ v[h] = u
      /\ ~Is(w[h], BothHands) => v[Other(h)] = IF w[Other(h)] = u THEN None ELSE w[Other(h)]
  BY <1>2, <1>3, PutHand DEF Facing
<1> HIDE DEF cat, p0, v
<1>5. Matches(v, p0)
  BY <1>2, <1>4, WornMatches
<1>6. Held(v, cat)
  BY <1>1, <1>2, <1>4, <1>5 DEF Held, Answers, Holds, BaseAt, p0
<1>7. ASSUME NEW p, Matches(v, p) PROVE Matches(w, p)
  BY <1>1, <1>2, <1>4, <1>7, MatchesAfterPut
<1>8. Facing(v)
  BY <1>2, <1>4 DEF Facing
<1> QED
  BY <1>2, <1>3, <1>4, <1>6, <1>7, <1>8 DEF cat, p0, v

(* Freeing a hand: no preference matches that did not before.              *)
LEMMA FreedServes ==
    ASSUME NEW w, Facing(w), NEW h \in Pair
    PROVE /\ Facing(Freed(w, h)) /\ Freed(w, h)[h] = None
          /\ Worn(Freed(w, h)) \subseteq Worn(w)
          /\ Freed(w, h)[Other(h)] = IF Is(w[h], BothHands) THEN None ELSE w[Other(h)]
          /\ \A p : Matches(Freed(w, h), p) => Matches(w, p)
BY FreedHand, MatchesShrinks DEF Facing

(* A hand that was served rests: serving it again does nothing.            *)
LEMMA ServeRests ==
    ASSUME Ready, NEW w, Facing(w), NEW h \in Pair
    PROVE Facing(Serve(w, h)) /\ Rests(Serve(w, h), h)
<1> DEFINE cat == CatAt(h)
<1>1. CASE Held(w, cat)
  BY <1>1 DEF Serve, Rests
<1>2. CASE ~Held(w, cat) /\ Wants(w, cat)
  <2>1. Answers(w, cat) /\ Serve(w, h) = Put(w, Pick(w, cat), h)
    BY <1>2 DEF Wants, Serve
  <2> QED
    BY <2>1, PutServes DEF Rests
<1>3. CASE ~Held(w, cat) /\ ~Wants(w, cat) /\ Empties(w, h)
  <2> DEFINE v == Freed(w, h)
  <2>1. Serve(w, h) = v
    BY <1>3 DEF Serve, Cleared
  <2>2. Facing(v) /\ v[h] = None /\ \A p : Matches(v, p) => Matches(w, p)
    BY FreedServes
  <2> HIDE DEF v, cat
  <2>3. ~Empties(v, h)
    BY <2>2, NoneWorn
  <2>4. ~Wants(v, cat)
    BY <1>3, <2>2 DEF Wants, Held, Answers
  <2> QED
    BY <2>1, <2>2, <2>3, <2>4 DEF Rests, cat
<1>4. CASE ~Held(w, cat) /\ ~Wants(w, cat) /\ ~Empties(w, h)
  BY <1>4 DEF Serve, Rests, Cleared
<1> QED
  BY <1>1, <1>2, <1>3, <1>4

(* What Preferred picks for a hand.                                        *)
LEMMA PreferredHeld ==
    ASSUME NEW w, NEW S, NEW h \in Pair, w[h] \in S
    PROVE Preferred(w, S, h) = w[h]
<1>1. S \cap {w[h]} = {w[h]} /\ h # "none"
  BY DEF Pair
<1> QED
  BY <1>1 DEF Preferred, AnyOf

(* With none of the copies in the hand, a loose one is picked first,       *)
LEMMA PreferredLoose ==
    ASSUME NEW w, NEW S, NEW h \in Pair, w[h] \notin S, S \ Worn(w) # {}
    PROVE Preferred(w, S, h) = AnyOf(S \ Worn(w)) /\ AnyOf(S \ Worn(w)) \notin Worn(w)
<1>1. S \cap {w[h]} = {} /\ h # "none"
  BY DEF Pair
<1> QED
  BY <1>1 DEF Preferred, AnyOf

(* and, when all are worn, any.                                            *)
LEMMA PreferredAny ==
    ASSUME NEW w, NEW S, NEW h \in Pair, w[h] \notin S, S \ Worn(w) = {}
    PROVE Preferred(w, S, h) = AnyOf(S)
<1>1. S \cap {w[h]} = {} /\ h # "none"
  BY DEF Pair
<1> QED
  BY <1>1 DEF Preferred

(* The only copy is picked.                                                *)
LEMMA PreferredSole ==
    ASSUME NEW w, NEW S, NEW u, S = {u}, NEW h
    PROVE Preferred(w, S, h) = u
BY PreferredIn

Lone(w, S) == S \cap {w.right, w.left} = {} \/ \E u : S = {u}

(* Both hands pick the same copy just if there is only one, or neither     *)
(* holds one.                                                              *)
LEMMA SharedPick ==
    ASSUME Ready, NEW w, Facing(w), NEW p \in Pref, ~IsKind(p.base, Ammo), ~IsKind(p.base, BothHands),
           NEW h \in Pair, SameIdent(w, p) # {}
    PROVE /\ Preferred(w, SameIdent(w, p), h) = Preferred(w, SameIdent(w, p), Other(h))
             <=> Lone(w, SameIdent(w, p))
          /\ Preferred(w, SameIdent(w, p), Other(h)) = w[h] => SameIdent(w, p) = {w[h]}
<1> DEFINE S == SameIdent(w, p)
           o == Other(h)
<1>1. S \subseteq Copy /\ None \notin S /\ \A c \in S : BaseOf[c] = p.base
  BY CopyAssumption DEF SameIdent, Lists, Units, Ready
<1>2. \A c \in S : ~Is(c, Ammo) /\ ~Is(c, BothHands)
  BY <1>1 DEF Is, BaseAt
<1>3. w["ammo"] \notin S
  BY <1>1, <1>2 DEF Facing, HandsGood
<1>4. w["right"] \in S => w["left"] # w["right"]
  BY <1>1, <1>2 DEF Facing, HandsGood
<1>5. o \in Pair /\ {w[h], w[o]} = {w["right"], w["left"]} /\ Worn(w) \subseteq {w[h], w[o], w["ammo"]}
  BY DEF Pair, Other, Worn
<1> HIDE DEF S, o
<1>6. w[h] \in S => w[o] # w[h]
  BY <1>4, <1>5
<1>7. ASSUME NEW a \in Pair, NEW b \in Pair, {w[a], w[b]} = {w["right"], w["left"]}, w[a] \in S, w[b] # w[a],
             Preferred(w, S, b) = w[a]
      PROVE S = {w[a]}
  <2>1. w[b] \notin S
    BY <1>7, PreferredHeld
  <2>2. w[a] \in Worn(w)
    BY <1>1, <1>7 DEF Worn, Pair
  <2>3. S \ Worn(w) = {}
    BY <1>7, <2>1, <2>2, PreferredLoose
  <2>4. Worn(w) \subseteq {w[a], w[b], w["ammo"]}
    BY <1>7 DEF Worn
  <2> QED
    BY <1>3, <1>7, <2>1, <2>3, <2>4
<1>8. Preferred(w, S, o) = w[h] => S = {w[h]}
  <2>1. S # {} => Preferred(w, S, o) \in S
    BY PreferredIn
  <2> QED
    BY <1>5, <1>6, <1>7, <2>1 DEF S
<1>9. ASSUME Preferred(w, S, h) = Preferred(w, S, o)
      PROVE S \cap {w["right"], w["left"]} = {} \/ \E u : S = {u}
  <2>1. CASE w[h] \in S
    BY <1>8, <1>9, <2>1, PreferredHeld
  <2>2. CASE w[o] \in S
    <3>1. Preferred(w, S, h) = w[o] /\ w[h] # w[o]
      BY <1>5, <1>6, <1>9, <2>2, PreferredHeld
    <3> QED
      BY <1>5, <1>7, <2>2, <3>1
  <2> QED
    BY <1>5, <2>1, <2>2
<1>10. ASSUME S \cap {w["right"], w["left"]} = {} \/ \E u : S = {u}
       PROVE Preferred(w, S, h) = Preferred(w, S, o)
  <2>1. CASE \E u : S = {u}
    <3>1. PICK u : S = {u}
      BY <2>1
    <3>2. Preferred(w, S, h) = u /\ Preferred(w, S, o) = u
      BY <3>1, PreferredSole
    <3> QED
      BY <3>2
  <2>2. CASE w[h] \notin S /\ w[o] \notin S
    <3>1. CASE S \ Worn(w) = {}
      BY <1>5, <2>2, <3>1, PreferredAny
    <3>2. CASE S \ Worn(w) # {}
      BY <1>5, <2>2, <3>2, PreferredLoose
    <3> QED
      BY <3>1, <3>2
  <2>3. S \cap {w["right"], w["left"]} = {} => w[h] \notin S /\ w[o] \notin S
    <3>1. w[h] \in {w["right"], w["left"]} /\ w[o] \in {w["right"], w["left"]}
      BY <1>5
    <3> QED
      BY <3>1
  <2> QED
    BY <1>10, <2>1, <2>2, <2>3
<1> QED
  BY <1>8, <1>9, <1>10 DEF S, o, Lone

Shared(w, p) == Matches(w, p) /\ Lone(w, SameIdent(w, p))

(* OneHandPrefsResolveSameInstance in terms of the copies found.           *)
LEMMA SameIs ==
    ASSUME Ready, NEW w, Facing(w), NEW h \in Pair
    PROVE OneHandPrefsResolveSameInstance(w)
          <=> /\ prefs[CatAt(h)] # None /\ prefs[CatAt(Other(h))] = prefs[CatAt(h)]
              /\ Shared(w, prefs[CatAt(h)])
<1> DEFINE r == prefs["oneHandRight"]
           l == prefs["oneHandLeft"]
           resR == Resolve(w, carried, r, "right", FALSE)
           resL == Resolve(w, carried, l, "left", FALSE)
<1>1. /\ "right" \in Pair /\ "left" \in Pair /\ Other("right") = "left" /\ CatAt("right") = "oneHandRight"
      /\ l # None => CatAt("left") = "oneHandLeft"
  BY DEF Pair, Other, CatAt
<1>2. OneHandPrefsResolveSameInstance(w) <=> r # None /\ l # None /\ r.base = l.base /\ resR = resL /\ resR # NoMatch
  BY DEF OneHandPrefsResolveSameInstance
<1>3. CASE r # None /\ l = r
  <2>1. r \in Pref /\ ~IsKind(r.base, Ammo) /\ ~IsKind(r.base, BothHands)
    BY <1>1, <1>3, PrefersOne
  <2>2. resR # NoMatch <=> Matches(w, r)
    BY FoundIffMatches
  <2>3. ASSUME SameIdent(w, r) = {}
        PROVE OneHandPrefsResolveSameInstance(w) <=> Shared(w, r)
    <3>1. Matches(w, r) => resR = BaseOnly /\ resL = BaseOnly
      BY <1>3, <2>3, ResolveIs
    <3> HIDE DEF resR, resL
    <3> QED
      BY <1>2, <1>3, <2>2, <2>3, <3>1 DEF Shared, Lone
  <2>4. ASSUME SameIdent(w, r) # {}
        PROVE OneHandPrefsResolveSameInstance(w) <=> Shared(w, r)
    <3>1. resR = ListMatch(Preferred(w, SameIdent(w, r), "right")) /\ resL = ListMatch(Preferred(w, SameIdent(w, r), "left"))
      BY <1>3, <2>4, ResolveIs
    <3>2. resR = resL <=> Preferred(w, SameIdent(w, r), "right") = Preferred(w, SameIdent(w, r), "left")
      <4> HIDE DEF resR, resL
      <4> QED
        BY <3>1, Kinded
    <3>3. Matches(w, r)
      BY <2>4 DEF Matches
    <3> QED
      <4>1. Preferred(w, SameIdent(w, r), "right") = Preferred(w, SameIdent(w, r), "left") <=> Shared(w, r)
        <5>1. Preferred(w, SameIdent(w, r), "right") = Preferred(w, SameIdent(w, r), Other("right"))
              <=> Lone(w, SameIdent(w, r))
          <6> HIDE DEF r
          <6> QED
            BY <1>1, <2>1, <2>4, SharedPick
        <5> QED
          BY <1>1, <3>3, <5>1 DEF Shared
      <4> HIDE DEF resR, resL
      <4> QED
        BY <1>2, <1>3, <2>2, <3>2, <3>3, <4>1
  <2>5. OneHandPrefsResolveSameInstance(w) <=> Shared(w, r)
    BY <2>3, <2>4
  <2>6. CatAt("left") = "oneHandLeft" /\ Other("left") = "right" /\ h \in {"right", "left"}
    BY <1>1, <1>3 DEF Pair, Other
  <2> QED
    BY <1>1, <1>3, <2>5, <2>6
<1>4. CASE r # None /\ l # r
  <2>1. ~OneHandPrefsResolveSameInstance(w)
    <3> SUFFICES ASSUME l # None, r.base = l.base, resR = resL, resR # NoMatch PROVE FALSE
      BY <1>2, <1>4
    <3>1. r \in Pref /\ l \in Pref
      BY <1>1, <1>4, PrefersOne
    <3>2. r.ident # l.ident
      BY <1>4, <3>1 DEF Pref
    <3>3. Matches(w, r) /\ Matches(w, l)
      BY FoundIffMatches
    <3>4. CASE SameIdent(w, r) = {} \/ SameIdent(w, l) = {}
      <4>1. resR = BaseOnly /\ SameIdent(w, r) = {} /\ SameIdent(w, l) = {}
        <5>1. (SameIdent(w, r) = {} => resR = BaseOnly) /\ (SameIdent(w, l) = {} => resL = BaseOnly)
          BY <3>3, ResolveIs
        <5>2. (SameIdent(w, r) # {} => \E c : resR = ListMatch(c)) /\ (SameIdent(w, l) # {} => \E c : resL = ListMatch(c))
          BY ResolveIs
        <5> HIDE DEF resR, resL
        <5> QED
          BY <3>4, <5>1, <5>2, Kinded
      <4> QED
        BY <3>2, <3>3, <4>1 DEF Matches
    <3>5. CASE SameIdent(w, r) # {} /\ SameIdent(w, l) # {}
      <4>1. resR = ListMatch(Preferred(w, SameIdent(w, r), "right")) /\ resL = ListMatch(Preferred(w, SameIdent(w, l), "left"))
        BY <3>5, ResolveIs
      <4>2. Preferred(w, SameIdent(w, r), "right") = Preferred(w, SameIdent(w, l), "left")
        <5> HIDE DEF resR, resL
        <5> QED
          BY <4>1, Kinded
      <4>3. Preferred(w, SameIdent(w, r), "right") \in SameIdent(w, r) /\ Preferred(w, SameIdent(w, l), "left") \in SameIdent(w, l)
        BY <3>5, PreferredIn
      <4> QED
        BY <3>2, <4>2, <4>3 DEF SameIdent
    <3> QED
      BY <3>4, <3>5
  <2>2. prefs[CatAt("left")] # r
    <3>1. CASE l # None
      BY <1>1, <1>4, <3>1
    <3>2. CASE l = None
      <4>1. CatAt("left") = "shieldLeft"
        BY <3>2 DEF CatAt
      <4>2. prefs["shieldLeft"] # None => IsKind(prefs["shieldLeft"].base, {"shield"})
        BY <1>1, <4>1, PrefersOne
      <4>3. IsKind(r.base, OneHandMelee)
        BY <1>1, <1>4, PrefersOne
      <4> QED
        BY <1>4, <4>1, <4>2, <4>3 DEF IsKind, OneHandMelee
    <3> QED
      BY <3>1, <3>2
  <2> QED
    BY <1>1, <2>1, <2>2 DEF Pair, Other
<1>5. CASE r = None
  BY <1>1, <1>2, <1>5 DEF Pair, Other
<1> QED
  BY <1>3, <1>4, <1>5

(* The fewer copies are worn, the fewer are told apart.                    *)
LEMMA SameShrinks ==
    ASSUME NEW w, NEW v, Worn(v) \subseteq Worn(w), NEW p
    PROVE SameIdent(v, p) \subseteq SameIdent(w, p)
BY DEF SameIdent, Lists

(* The other hand.                                                         *)
LEMMA OtherIs ==
    ASSUME NEW h \in Pair
    PROVE Other(h) \in Pair /\ Other(Other(h)) = h /\ Other(h) # h
          /\ \A w : {w[h], w[Other(h)]} = {w["right"], w["left"]}
                    /\ Worn(w) = {w[h], w[Other(h)], w["ammo"]} \ {None}
BY DEF Pair, Other, Worn

(* A hand at rest stays as it is.                                          *)
LEMMA RestsServe ==
    ASSUME NEW w, NEW h, Rests(w, h)
    PROVE Serve(w, h) = w
BY DEF Rests, Serve, Cleared

(* A quiet pair of hands stays as it is.                                   *)
LEMMA QuietStays ==
    ASSUME NEW w, NEW h, NEW tug, Quiet(w, h, tug)
    PROVE Turn(w, h, tug) = w
BY RestsServe DEF Quiet, Turn, Cleared

(* A hand with a copy of what its category names is eligible; one with a   *)
(* two-handed item is not.                                                 *)
LEMMA EligibleOne ==
    ASSUME Ready, NEW w, NEW h \in Pair
    PROVE /\ IsEligible(w, h) => ~Is(w[h], BothHands)
          /\ prefs[CatAt(h)] # None /\ w[h] \in Copy /\ BaseOf[w[h]] = prefs[CatAt(h)].base => IsEligible(w, h)
<1>1. ~Is(None, BothHands)
  BY CopyAssumption DEF Is, BaseAt, IsKind
<1>2. \A c : Is(c, OneHandMelee \cup {"shield"}) => ~Is(c, BothHands)
  BY DEF Is, IsKind, OneHandMelee, BothHands
<1>3. \A c : Is(c, OneHandMelee) => Is(c, OneHandMelee \cup {"shield"})
  BY DEF Is, IsKind
<1>4. IsEligible(w, h) => ~Is(w[h], BothHands)
  BY <1>1, <1>2, <1>3 DEF IsEligible, IsRightEligible, IsLeftEligible, Pair
<1>5. ASSUME prefs[CatAt(h)] # None, w[h] \in Copy, BaseOf[w[h]] = prefs[CatAt(h)].base
      PROVE IsEligible(w, h)
  <2>1. BaseAt(w[h]) = prefs[CatAt(h)].base
    BY <1>5, CopyAssumption DEF BaseAt
  <2>2. CASE h = "right"
    BY <1>5, <2>1, <2>2, PrefersOne DEF IsEligible, IsRightEligible, Is
  <2>3. CASE h = "left"
    BY <1>5, <2>1, <2>3, PrefersOne DEF IsEligible, IsLeftEligible, Is
  <2> QED
    BY <2>2, <2>3 DEF Pair
<1> QED
  BY <1>4, <1>5

(* A hand that rested and rests no longer has lost what it matched.        *)
LEMMA LosesMatch ==
    ASSUME NEW v, NEW x, NEW h \in Pair, x[h] = v[h], Rests(v, h), ~Rests(x, h),
           \A p : Matches(x, p) => Matches(v, p)
    PROVE prefs[CatAt(h)] # None /\ ~Matches(x, prefs[CatAt(h)]) /\ Empties(x, h)
<1>1. HandOf(CatAt(h)) = h
  BY CatAtIs
<1>2. (Empties(x, h) <=> Empties(v, h)) /\ (Holds(x, CatAt(h)) <=> Holds(v, CatAt(h)))
  BY <1>1 DEF Empties, Holds
<1>3. CASE Held(v, CatAt(h))
  BY <1>2, <1>3 DEF Rests, Held, Wants, Answers
<1>4. CASE ~Held(v, CatAt(h)) /\ ~Wants(v, CatAt(h)) /\ ~Empties(v, h)
  BY <1>2, <1>4 DEF Rests, Held, Wants, Answers
<1> QED
  BY <1>3, <1>4 DEF Rests

(* A hand whose preference no longer matches anything is settled by one    *)
(* more turn.                                                              *)
LEMMA LostSettles ==
    ASSUME Ready, NEW x, Facing(x), NEW h \in Pair, NEW tug \in BOOLEAN,
           prefs[CatAt(h)] # None, ~Matches(x, prefs[CatAt(h)]), Empties(x, h),
           Rests(Freed(x, h), Other(h))
    PROVE Quiet(Turn(x, h, tug), h, tug)
<1> DEFINE y == Freed(x, h)
           o == Other(h)
<1>1. Serve(x, h) = y
  BY DEF Serve, Held, Wants, Answers, Cleared
<1>2. Facing(y) /\ \A p : Matches(y, p) => Matches(x, p)
  BY FreedServes
<1>3. Rests(y, h)
  BY <1>1, ServeRests
<1> HIDE DEF y
<1>4. ~OneHandPrefsResolveSameInstance(y)
  BY <1>2, SameIs DEF Shared
<1>5. ~Skips(y, tug)
  BY <1>4 DEF Skips
<1>6. Serve(y, o) = y
  BY RestsServe DEF y
<1>7. Turn(x, h, tug) = y
  BY <1>1, <1>5, <1>6 DEF Turn
<1> QED
  BY <1>3, <1>5, <1>7 DEF Quiet, y

(* The second hand is emptied: the attempt is over, or over the next time. *)
LEMMA FreedSettles ==
    ASSUME Ready, NEW v, Facing(v), NEW h \in Pair, NEW tug \in BOOLEAN, Rests(v, h),
           IsEligible(v, Other(h)),
           Skips(v, tug) \/ (~Held(v, CatAt(Other(h))) /\ ~Wants(v, CatAt(Other(h)))),
           NEW x, x = Freed(v, Other(h))
    PROVE Quiet(x, h, tug) \/ Quiet(Turn(x, h, tug), h, tug)
<1> DEFINE o == Other(h)
           p == prefs[CatAt(h)]
           q == prefs[CatAt(o)]
<1>1. o \in Pair /\ Other(o) = h
  BY OtherIs
<1>2. ~Is(v[o], BothHands)
  BY <1>1, EligibleOne
<1>3. Facing(x) /\ x[o] = None /\ x[h] = v[h] /\ Worn(x) \subseteq Worn(v) /\ \A r : Matches(x, r) => Matches(v, r)
  BY <1>1, <1>2, FreedServes
<1>4. ~Empties(x, o) /\ IsEligible(x, o) /\ ~Held(x, CatAt(o))
  BY <1>1, <1>3, NoneWorn
<1>5. ASSUME ~Held(v, CatAt(o)), ~Wants(v, CatAt(o)), NEW z, Wants(z, CatAt(o)), \A r : Matches(z, r) => Matches(v, r)
      PROVE FALSE
  BY <1>5 DEF Held, Wants, Answers
<1>6. ASSUME Skips(v, tug)
      PROVE p # None /\ q = p /\ ~tug /\ Shared(v, p)
  BY <1>6, SameIs DEF Skips
<1> HIDE DEF o, p, q
<1>7. ASSUME Skips(v, tug), Matches(x, p)
      PROVE Skips(x, tug)
  <2>1. p # None /\ q = p /\ ~tug /\ Lone(v, SameIdent(v, p))
    BY <1>6, <1>7 DEF Shared
  <2>2. SameIdent(x, p) \subseteq SameIdent(v, p)
    BY <1>3, SameShrinks
  <2>3. None \notin SameIdent(x, p)
    BY CopyAssumption DEF SameIdent, Lists, Units, Ready
  <2>4. {x["right"], x["left"]} \subseteq {v["right"], v["left"], None}
    BY <1>1, <1>3, OtherIs DEF o
  <2>5. Lone(x, SameIdent(x, p))
    <3>1. CASE \E u : SameIdent(v, p) = {u}
      BY <2>2, <3>1 DEF Lone
    <3>2. CASE SameIdent(v, p) \cap {v["right"], v["left"]} = {}
      BY <2>2, <2>3, <2>4, <3>2 DEF Lone
    <3> QED
      BY <2>1, <3>1, <3>2 DEF Lone
  <2> QED
    BY <1>3, <1>7, <2>1, <2>5, SameIs DEF Skips, Shared, p, q, o
<1>8. CASE Rests(x, h)
  <2>1. ~Skips(x, tug) => ~Wants(x, CatAt(o))
    BY <1>3, <1>5, <1>6, <1>7 DEF Wants, Answers, p, q, o
  <2>2. Quiet(x, h, tug)
    BY <1>4, <1>8, <2>1 DEF Quiet, Rests, o
  <2> QED
    BY <2>2
<1>9. CASE ~Rests(x, h)
  <2> DEFINE y == Freed(x, h)
  <2>1. p # None /\ ~Matches(x, p) /\ Empties(x, h)
    BY <1>3, <1>9, LosesMatch DEF p
  <2>2. y[o] = None /\ \A r : Matches(y, r) => Matches(x, r)
    BY <1>3, FreedServes DEF o
  <2> HIDE DEF y
  <2>3. ~Wants(y, CatAt(o))
    <3>1. ASSUME Wants(y, CatAt(o)), Skips(v, tug) PROVE FALSE
      BY <1>6, <2>1, <2>2, <3>1 DEF Wants, Answers, q
    <3>2. ASSUME Wants(y, CatAt(o)), ~Skips(v, tug) PROVE FALSE
      BY <1>3, <1>5, <2>2, <3>2 DEF o
    <3> QED
      BY <3>1, <3>2
  <2>4. Rests(y, o)
    BY <1>1, <2>2, <2>3, NoneWorn DEF Rests
  <2> QED
    BY <1>3, <2>1, <2>4, LostSettles DEF p, y, o
<1> QED
  BY <1>8, <1>9

(* The second hand is served, and the copy is not taken from the first.    *)
LEMMA PutSettles ==
    ASSUME Ready, NEW v, Facing(v), NEW h \in Pair, NEW tug \in BOOLEAN, Rests(v, h),
           IsEligible(v, Other(h)), Wants(v, CatAt(Other(h))), ~Skips(v, tug),
           NEW u, u = Pick(v, CatAt(Other(h))), v[h] # u,
           NEW x, x = Put(v, u, Other(h))
    PROVE Quiet(x, h, tug) \/ Quiet(Turn(x, h, tug), h, tug)
<1> DEFINE o == Other(h)
           p == prefs[CatAt(h)]
           q == prefs[CatAt(o)]
<1>1. o \in Pair /\ Other(o) = h /\ HandOf(CatAt(o)) = o
  BY OtherIs, CatAtIs
<1>2. ~Is(v[o], BothHands)
  BY <1>1, EligibleOne
<1>3. /\ u \in carried /\ u \in Copy /\ BaseOf[u] = q.base /\ IdentOf[u] = q.ident /\ u # None
      /\ ~Is(u, BothHands) /\ ~Is(u, Ammo)
      /\ Facing(x) /\ x[o] = u /\ Held(x, CatAt(o)) /\ x[h] = v[h] /\ u \in Worn(x)
      /\ \A r : Matches(x, r) => Matches(v, r)
  BY <1>1, <1>2, PutServes DEF Wants
<1>4. q # None /\ Matches(v, q) /\ BaseAt(v[o]) # q.base
  BY <1>1 DEF Wants, Answers, Holds
<1>5. Rests(x, o)
  BY <1>3 DEF Rests
<1> HIDE DEF o, p, q
<1>6. CASE Rests(x, h)
  <2>1. ASSUME Skips(x, tug) PROVE FALSE
    <3>1. p # None /\ q = p /\ ~tug /\ Matches(x, p) /\ Lone(x, SameIdent(x, p))
      BY <1>3, <2>1, SameIs DEF Skips, Shared, p, q, o
    <3>2. u \in SameIdent(x, p) /\ u \in {x["right"], x["left"]}
      <4>1. x[o] \in {x["right"], x["left"]}
        BY OtherIs DEF o
      <4> QED
        BY <1>3, <3>1, <4>1, WornMatches
    <3>3. SameIdent(x, p) = {u}
      BY <3>1, <3>2 DEF Lone
    <3>4. p \in Pref /\ ~IsKind(p.base, Ammo)
      BY <3>1, PrefersOne DEF p
    <3>5. ASSUME NEW c \in SameIdent(v, p) PROVE c = u
      <4>1. c \in carried /\ BaseOf[c] = p.base /\ IdentOf[c] = p.ident /\ (IdentOf[c] # Bare \/ c \in Worn(v)) /\ c # None
        BY <3>5, CopyAssumption DEF SameIdent, Lists, Units, Ready
      <4>2. c \in Worn(x) \/ IdentOf[c] # Bare => c \in SameIdent(x, p)
        BY <4>1 DEF SameIdent, Lists, Units
      <4>3. c # v[o]
        BY <1>4, <3>1, <4>1 DEF BaseAt
      <4>4. c # v["ammo"]
        BY <3>4, <4>1 DEF Facing, HandsGood, Is, BaseAt
      <4>5. c \in Worn(v) => c = v[h]
        BY <4>3, <4>4, OtherIs DEF o
      <4>6. v[h] = c => c \in Worn(x)
        BY <1>3, <4>1, OtherIs
      <4> QED
        BY <3>3, <4>1, <4>2, <4>5, <4>6
    <3>6. Lone(v, SameIdent(v, p))
      BY <3>5 DEF Lone
    <3>7. OneHandPrefsResolveSameInstance(v)
      BY <1>4, <3>1, <3>6, SameIs DEF Shared, p, q, o
    <3> QED
      BY <3>1, <3>7 DEF Skips
  <2> QED
    BY <1>5, <1>6, <2>1 DEF Quiet, o
<1>7. CASE ~Rests(x, h)
  <2> DEFINE y == Freed(x, h)
  <2>1. p # None /\ ~Matches(x, p) /\ Empties(x, h)
    BY <1>3, <1>7, LosesMatch DEF p
  <2>2. ~Is(x[h], BothHands)
    <3>1. Is(x[h], BothHands) => x["right"] = x["left"]
      BY <1>3 DEF Facing, HandsGood, Pair
    <3>2. x["right"] = x["left"] => x[h] = x[o]
      BY OtherIs DEF o, Pair
    <3> QED
      BY <1>3, <3>1, <3>2
  <2>3. y[o] = u
    BY <1>3, <2>2, FreedServes DEF o
  <2> HIDE DEF y
  <2>4. u \in Worn(y)
    BY <1>1, <1>3, <2>3, OtherIs
  <2>5. Matches(y, q)
    BY <1>3, <2>4, WornMatches
  <2>6. Rests(y, o)
    BY <1>1, <1>3, <1>4, <2>3, <2>5 DEF Rests, Held, Answers, Holds, BaseAt, q
  <2> QED
    BY <1>3, <2>1, <2>6, LostSettles DEF p, y, o
<1> QED
  BY <1>6, <1>7

(* A pick from one copy alone.                                             *)
LEMMA PickSole ==
    ASSUME Ready, NEW w, NEW h \in Pair, Answers(w, CatAt(h)), NEW u, SameIdent(w, prefs[CatAt(h)]) = {u}
    PROVE Pick(w, CatAt(h)) = u
<1>1. CatAt(h) \in MeleeCats
  BY CatAtIs
<1>2. Pick(w, CatAt(h)) = Preferred(w, SameIdent(w, prefs[CatAt(h)]), SlotOf(CatAt(h)))
  BY <1>1, PickIs DEF Ready
<1> QED
  BY <1>2, PreferredSole

(* The second hand takes its copy from the first.                          *)
LEMMA TakeSettles ==
    ASSUME Ready, NEW v, Facing(v), NEW h \in Pair, NEW tug \in BOOLEAN, Rests(v, h),
           IsEligible(v, Other(h)), Wants(v, CatAt(Other(h))), ~Skips(v, tug),
           NEW u, u = Pick(v, CatAt(Other(h))), v[h] = u,
           NEW x, x = Put(v, u, Other(h))
    PROVE \/ Quiet(x, h, tug) \/ Quiet(Turn(x, h, tug), h, tug)
          \/ tug /\ OneHandPrefsResolveSameInstance(Turn(x, h, tug))
<1> DEFINE o == Other(h)
           p == prefs[CatAt(h)]
           q == prefs[CatAt(o)]
<1>1. o \in Pair /\ Other(o) = h /\ HandOf(CatAt(o)) = o /\ HandOf(CatAt(h)) = h
  BY OtherIs, CatAtIs
<1>2. ~Is(v[o], BothHands) /\ ~Is(None, BothHands)
  BY <1>1, EligibleOne, CopyAssumption DEF Is, BaseAt, IsKind
<1>3. /\ u \in carried /\ u \in Copy /\ BaseOf[u] = q.base /\ IdentOf[u] = q.ident /\ u # None
      /\ Facing(x) /\ x[o] = u /\ Held(x, CatAt(o)) /\ x[h] = None /\ u \in Worn(x)
      /\ Worn(x) \subseteq Worn(v) \cup {u}
      /\ \A r : Matches(x, r) => Matches(v, r)
  BY <1>1, <1>2, PutServes DEF Wants
<1>4. q # None /\ Matches(v, q) /\ BaseAt(v[o]) # q.base /\ Forced(CatAt(o))
  BY <1>1 DEF Wants, Answers, Holds
<1>5. Rests(x, o) /\ u \in Worn(v) /\ ~Held(x, CatAt(h)) /\ ~Empties(x, h) /\ IsEligible(x, h)
  <2>1. u \in Worn(v)
    BY <1>3, OtherIs
  <2> QED
    BY <1>3, <2>1, NoneWorn DEF Rests
<1>6. Worn(x) \subseteq Worn(v)
  BY <1>3, <1>5
<1> HIDE DEF o, p, q
<1>7. CASE ~Wants(x, CatAt(h))
  <2>1. Rests(x, h)
    BY <1>5, <1>7 DEF Rests
  <2>2. ASSUME OneHandPrefsResolveSameInstance(x) PROVE FALSE
    <3>1. p # None /\ q = p /\ Matches(x, p)
      BY <1>3, <2>2, SameIs DEF Shared, p, q, o
    <3>2. ~Holds(x, CatAt(h))
      BY <1>1, <1>3, <3>1, PrefersOne DEF Holds, BaseAt, p
    <3>3. Forced(CatAt(h))
      BY <1>4, <3>1 DEF Forced, p, q
    <3> QED
      BY <1>7, <3>1, <3>2, <3>3 DEF Wants, Answers, p
  <2> QED
    BY <1>5, <2>1, <2>2 DEF Quiet, Skips, o
<1>8. CASE Wants(x, CatAt(h))
  <2> DEFINE u2 == Pick(x, CatAt(h))
             y == Put(x, u2, h)
  <2>1. Serve(x, h) = y
    BY <1>5, <1>8 DEF Serve
  <2>2. p # None /\ Matches(x, p) /\ Forced(CatAt(h)) /\ Answers(x, CatAt(h))
    BY <1>8 DEF Wants, Answers, p
  <2>3. /\ u2 \in Copy /\ IdentOf[u2] = p.ident /\ BaseOf[u2] = p.base
        /\ Facing(y) /\ y[h] = u2 /\ Held(y, CatAt(h))
        /\ y[o] = IF u = u2 THEN None ELSE u
        /\ Worn(y) \subseteq Worn(x) \cup {u2} /\ u2 \in Worn(y)
    BY <1>2, <1>3, <2>2, PutServes DEF p, o
  <2> HIDE DEF u2, y
  <2>4. p.base = q.base
    <3>1. Holds(v, CatAt(h))
      BY <1>3, <2>2 DEF Rests, Held, Wants, Answers, p
    <3> QED
      BY <1>1, <1>3, <3>1 DEF Holds, BaseAt, p
  <2>5. CASE p = q
    <3>1. u \in SameIdent(v, p) /\ u \in SameIdent(x, p)
      BY <1>3, <1>5, <2>5, WornMatches
    <3>2. u = Preferred(v, SameIdent(v, p), o)
      BY <1>1, <1>4, <2>5, <3>1, PickIs, CatAtIs DEF Ready, Answers, q, o
    <3>3. SameIdent(v, p) = {u}
      <4>1. p \in Pref /\ ~IsKind(p.base, Ammo) /\ ~IsKind(p.base, BothHands)
        BY <2>2, PrefersOne DEF p
      <4> QED
        BY <3>1, <3>2, <4>1, SharedPick DEF o
    <3>4. tug
      <4>1. Lone(v, SameIdent(v, p))
        BY <3>3 DEF Lone
      <4>2. OneHandPrefsResolveSameInstance(v)
        BY <1>4, <2>2, <2>5, <4>1, SameIs DEF Shared, p, q, o
      <4> QED
        BY <4>2 DEF Skips
    <3>5. SameIdent(x, p) = {u}
      BY <1>6, <3>1, <3>3, SameShrinks
    <3>6. u2 = u
      BY <2>2, <3>5, PickSole DEF u2, p
    <3>7. Worn(y) \subseteq Worn(x) /\ u \in SameIdent(y, p) /\ Matches(y, p)
      BY <1>3, <2>3, <2>5, <3>6, WornMatches
    <3>8. SameIdent(y, p) = {u}
      BY <3>5, <3>7, SameShrinks
    <3> DEFINE z == Put(y, u, o)
    <3>9. y[o] = None /\ IsEligible(y, o) /\ ~Held(y, CatAt(o))
      BY <1>1, <2>3, <3>6, NoneWorn
    <3>10. Wants(y, CatAt(o)) /\ Pick(y, CatAt(o)) = u
      <4>1. Answers(y, CatAt(o))
        BY <1>4, <2>5, <3>7 DEF Answers, q
      <4>2. ~Holds(y, CatAt(o))
        BY <1>1, <1>4, <3>9, PrefersOne DEF Holds, BaseAt, q
      <4> QED
        BY <1>1, <1>4, <2>5, <3>8, <4>1, <4>2, PickSole DEF Wants, q
    <3>11. Turn(x, h, tug) = z
      BY <2>1, <3>4, <3>9, <3>10 DEF Turn, Skips, Serve, o
    <3>12. Facing(z) /\ Worn(z) \subseteq Worn(y) \cup {u} /\ u \in Worn(z)
      BY <1>1, <2>3, <3>10, PutServes DEF Wants
    <3> HIDE DEF z
    <3>13. u \in SameIdent(z, p) /\ Matches(z, p)
      BY <1>3, <2>5, <3>12, WornMatches
    <3>14. SameIdent(z, p) = {u}
      BY <2>3, <3>6, <3>8, <3>12, <3>13, SameShrinks
    <3>15. OneHandPrefsResolveSameInstance(z)
      BY <2>2, <2>5, <3>12, <3>13, <3>14, SameIs DEF Shared, Lone, p, q, o
    <3> QED
      BY <3>4, <3>11, <3>15
  <2>6. CASE p # q
    <3>1. p.ident # q.ident
      <4>1. p \in Pref /\ q \in Pref
        BY <1>1, <1>4, <2>2, PrefersOne DEF p, q
      <4> QED
        BY <2>4, <2>6, <4>1 DEF Pref
    <3>2. u2 # u /\ y[o] = u
      BY <1>3, <2>3, <3>1
    <3>3. u \in Worn(y)
      BY <1>1, <1>3, <3>2, OtherIs
    <3>4. Rests(y, o)
      <4>1. Matches(y, q)
        BY <1>3, <3>3, WornMatches
      <4> QED
        BY <1>1, <1>3, <1>4, <3>2, <4>1 DEF Rests, Held, Answers, Holds, BaseAt, q
    <3>5. ~Skips(y, tug)
      BY <2>3, <2>6, SameIs DEF Skips, p, q, o
    <3>6. Turn(x, h, tug) = y
      BY <2>1, <3>4, <3>5, RestsServe DEF Turn, o
    <3>7. Quiet(y, h, tug)
      BY <2>3, <3>4, <3>5 DEF Quiet, Rests, o
    <3> QED
      BY <3>6, <3>7
  <2> QED
    BY <2>5, <2>6
<1> QED
  BY <1>7, <1>8

(* Both hands are served by turns: twice is enough.                        *)
LEMMA TurnSettles ==
    ASSUME Ready, NEW w, Facing(w), NEW h \in Pair, NEW tug \in BOOLEAN,
           NEW x, x = Turn(w, h, tug), NEW y, y = Turn(x, h, tug)
    PROVE Quiet(y, h, tug) \/ (tug /\ OneHandPrefsResolveSameInstance(y))
<1> DEFINE v == Serve(w, h)
           o == Other(h)
<1>1. Facing(v) /\ Rests(v, h)
  BY ServeRests
<1>2. o \in Pair
  BY OtherIs
<1> HIDE DEF v, o
<1>3. Quiet(x, h, tug) => y = x
  BY QuietStays
<1>4. CASE ~IsEligible(v, o)
  <2>1. x = v
    BY <1>4 DEF Turn, v, o
  <2> QED
    BY <1>1, <1>3, <1>4, <2>1 DEF Quiet, o
<1>5. CASE IsEligible(v, o) /\ Skips(v, tug)
  <2>1. x = Cleared(v, o)
    BY <1>5 DEF Turn, v, o
  <2>2. CASE ~Empties(v, o)
    BY <1>1, <1>3, <1>5, <2>1, <2>2 DEF Quiet, Cleared, o
  <2>3. CASE Empties(v, o)
    <3>1. x = Freed(v, o)
      BY <2>1, <2>3 DEF Cleared
    <3> QED
      BY <1>1, <1>3, <1>5, <3>1, FreedSettles DEF o
  <2> QED
    BY <2>2, <2>3
<1>6. CASE IsEligible(v, o) /\ ~Skips(v, tug)
  <2>1. x = Serve(v, o)
    BY <1>6 DEF Turn, v, o
  <2>2. CASE Rests(v, o)
    BY <1>1, <1>3, <1>6, <2>1, <2>2, RestsServe DEF Quiet, o
  <2>3. CASE ~Held(v, CatAt(o)) /\ Wants(v, CatAt(o))
    <3>1. x = Put(v, Pick(v, CatAt(o)), o)
      BY <2>1, <2>3 DEF Serve
    <3>2. CASE v[h] # Pick(v, CatAt(o))
      BY <1>1, <1>3, <1>6, <2>3, <3>1, <3>2, PutSettles DEF o
    <3>3. CASE v[h] = Pick(v, CatAt(o))
      <4>1. \/ Quiet(x, h, tug) \/ Quiet(y, h, tug)
            \/ tug /\ OneHandPrefsResolveSameInstance(y)
        BY <1>1, <1>6, <2>3, <3>1, <3>3, TakeSettles DEF o
      <4> QED
        BY <1>3, <4>1
    <3> QED
      BY <3>2, <3>3
  <2>4. CASE ~Held(v, CatAt(o)) /\ ~Wants(v, CatAt(o)) /\ Empties(v, o)
    <3>1. x = Freed(v, o)
      BY <2>1, <2>4 DEF Serve, Cleared
    <3> QED
      BY <1>1, <1>3, <1>6, <2>4, <3>1, FreedSettles DEF o
  <2> QED
    BY <2>2, <2>3, <2>4 DEF Rests
<1> QED
  BY <1>4, <1>5, <1>6

(* What clearing a hand of what is unwanted leaves.                        *)
LEMMA ClearedServes ==
    ASSUME NEW w, Facing(w), NEW h \in Pair
    PROVE /\ Facing(Cleared(w, h)) /\ ~Empties(Cleared(w, h), h)
          /\ ~Empties(w, Other(h)) => ~Empties(Cleared(w, h), Other(h))
          /\ \A p : Matches(Cleared(w, h), p) => Matches(w, p)
<1>1. \A v, k : v[k] = None => ~Empties(v, k)
  BY CopyAssumption DEF Empties, Is, BaseAt, IsKind
<1>2. CASE Empties(w, h)
  <2>1. Cleared(w, h) = Freed(w, h)
    BY <1>2 DEF Cleared
  <2>2. Freed(w, h)[Other(h)] = None \/ Freed(w, h)[Other(h)] = w[Other(h)]
    BY FreedServes
  <2>3. ~Empties(w, Other(h)) => ~Empties(Freed(w, h), Other(h))
    BY <1>1, <2>2 DEF Empties
  <2> QED
    BY <1>1, <2>1, <2>3, FreedServes
<1>3. CASE ~Empties(w, h)
  BY <1>3 DEF Cleared
<1> QED
  BY <1>2, <1>3

(* An attempt that finds no preference to serve empties both hands.        *)
BothCleared(w) == Cleared(Cleared(w, "right"), "left")
BothEmptied(st) == Emptied(Emptied(st, "right"), "left")

(* Emptying both hands leaves nothing unwanted in either.                  *)
LEMMA BothEmptiedIs ==
    ASSUME NEW w, Facing(w)
    PROVE /\ BothEmptied(Asked(w, 0)).worn = BothCleared(w)
          /\ ~Empties(w, "right") /\ ~Empties(w, "left")
             => BothEmptied(Asked(w, 0)).calls = 0 /\ BothCleared(w) = w
          /\ Facing(BothCleared(w)) /\ ~Empties(BothCleared(w), "right") /\ ~Empties(BothCleared(w), "left")
          /\ \A p : Matches(BothCleared(w), p) => Matches(w, p)
<1> DEFINE v == Cleared(w, "right")
           x == Cleared(v, "left")
<1>1. "right" \in Pair /\ "left" \in Pair /\ Other("left") = "right"
  BY DEF Pair, Other
<1>2. Facing(v) /\ ~Empties(v, "right") /\ \A p : Matches(v, p) => Matches(w, p)
  BY <1>1, ClearedServes
<1>3. PICK k : Emptied(Asked(w, 0), "right") = Asked(v, k) /\ (~Empties(w, "right") => k = 0)
  BY EmptiedAsked
<1>4. ~Empties(w, "right") => v = w
  BY DEF Cleared
<1> HIDE DEF v
<1>5. Facing(x) /\ ~Empties(x, "left") /\ ~Empties(x, "right") /\ \A p : Matches(x, p) => Matches(v, p)
  BY <1>1, <1>2, ClearedServes
<1>6. PICK n : Emptied(Asked(v, k), "left") = Asked(x, n) /\ (~Empties(v, "left") => n = k)
  BY EmptiedAsked
<1>7. ~Empties(v, "left") => x = v
  BY DEF Cleared
<1> HIDE DEF x
<1>8. BothCleared(w) = x
  BY DEF BothCleared, x, v
<1>9. BothEmptied(Asked(w, 0)) = Asked(x, n)
  BY <1>3, <1>6 DEF BothEmptied
<1>10. BothEmptied(Asked(w, 0)).worn = x /\ BothEmptied(Asked(w, 0)).calls = n
  BY <1>9, StateIs
<1> QED
  BY <1>2, <1>3, <1>4, <1>5, <1>6, <1>7, <1>8, <1>10

----------------------------------------------------------------------------
(* A two-handed weapon attempted.                                          *)
RightCat == CatAt("right")
LeftCat == CatAt("left")

BothQuiet(w) ==
    \/ Held(w, RightCat)
    \/ /\ ~Wants(w, RightCat)
       /\ \/ Held(w, LeftCat)
          \/ ~Wants(w, LeftCat) /\ ~Empties(w, "right") /\ ~Empties(w, "left")

(* HandleTwoHand with one-handed preferences: the right one, else the left *)
(* one, else both hands are emptied.                                       *)
LEMMA TwoHandIs ==
    ASSUME Ready, NEW w
    PROVE HandleTwoHand(w) =
             IF Held(w, RightCat) THEN Answered(w, 0)
             ELSE IF Wants(w, RightCat) THEN Answered(Put(w, Pick(w, RightCat), "right"), 1)
             ELSE IF Held(w, LeftCat) THEN Answered(w, 0)
             ELSE IF Wants(w, LeftCat) THEN Answered(Put(w, Pick(w, LeftCat), "left"), 1)
             ELSE BothEmptied(Asked(w, 0))
<1> DEFINE right == Tried(Asked(w, 0), "right")
           tried == Tried(right, "left")
<1>1. OrTry(Start(w), "twoHand") = Asked(w, 0)
  BY OrTryNothing DEF Ready, Start, Asked
<1>2. HandleTwoHand(w) = IF tried.done THEN tried ELSE BothEmptied(tried)
  BY <1>1 DEF HandleTwoHand, Tried, BothEmptied
<1>3. ASSUME NEW v, NEW n
      PROVE Tried(Answered(v, n), "left") = Answered(v, n)
  <2>1. Answered(v, n).done
    BY StateIs
  <2>2. \A cat : OrTry(Answered(v, n), cat) = Answered(v, n)
    BY <2>1 DEF OrTry
  <2> QED
    BY <2>2 DEF Tried
<1>4. "right" \in Pair /\ "left" \in Pair /\ 0 + 1 = 1
  BY DEF Pair
<1>5. right = IF Held(w, RightCat) THEN Answered(w, 0)
              ELSE IF Wants(w, RightCat) THEN Answered(Put(w, Pick(w, RightCat), "right"), 1)
              ELSE Asked(w, 0)
  BY <1>4, TriedIs DEF RightCat
<1>6. Tried(Asked(w, 0), "left") =
              IF Held(w, LeftCat) THEN Answered(w, 0)
              ELSE IF Wants(w, LeftCat) THEN Answered(Put(w, Pick(w, LeftCat), "left"), 1)
              ELSE Asked(w, 0)
  BY <1>4, TriedIs DEF LeftCat
<1> HIDE DEF right
<1>7. tried = IF Held(w, RightCat) THEN Answered(w, 0)
              ELSE IF Wants(w, RightCat) THEN Answered(Put(w, Pick(w, RightCat), "right"), 1)
              ELSE IF Held(w, LeftCat) THEN Answered(w, 0)
              ELSE IF Wants(w, LeftCat) THEN Answered(Put(w, Pick(w, LeftCat), "left"), 1)
              ELSE Asked(w, 0)
  BY <1>3, <1>5, <1>6
<1> HIDE DEF tried
<1> QED
  BY <1>2, <1>7, StateIs

(* HandleTwoHand does nothing to hands that are quiet for it,              *)
LEMMA TwoHandQuiet ==
    ASSUME Ready, NEW w, Facing(w), BothQuiet(w)
    PROVE HandleTwoHand(w).calls = 0 /\ HandleTwoHand(w).worn = w
<1>1. HandleTwoHand(w) = Answered(w, 0)
         \/ (HandleTwoHand(w) = BothEmptied(Asked(w, 0)) /\ ~Empties(w, "right") /\ ~Empties(w, "left"))
  BY TwoHandIs DEF BothQuiet
<1> QED
  BY <1>1, StateIs, BothEmptiedIs

(* and leaves them quiet.                                                  *)
LEMMA TwoHandSettles ==
    ASSUME Ready, NEW w, Facing(w)
    PROVE Facing(HandleTwoHand(w).worn) /\ BothQuiet(HandleTwoHand(w).worn)
<1>1. "right" \in Pair /\ "left" \in Pair /\ HandOf(LeftCat) = "left" /\ HandOf(RightCat) = "right"
  BY CatAtIs DEF Pair, RightCat, LeftCat
<1>2. CASE Held(w, RightCat)
  BY <1>2, TwoHandIs, StateIs DEF BothQuiet
<1>3. CASE ~Held(w, RightCat) /\ Wants(w, RightCat)
  <2>1. HandleTwoHand(w).worn = Put(w, Pick(w, RightCat), "right")
    BY <1>3, TwoHandIs, StateIs
  <2>2. Facing(Put(w, Pick(w, RightCat), "right")) /\ Held(Put(w, Pick(w, RightCat), "right"), RightCat)
    BY <1>1, <1>3, PutServes DEF Wants, RightCat
  <2> QED
    BY <2>1, <2>2 DEF BothQuiet
<1>4. CASE ~Held(w, RightCat) /\ ~Wants(w, RightCat) /\ Held(w, LeftCat)
  BY <1>4, TwoHandIs, StateIs DEF BothQuiet
<1>5. CASE ~Held(w, RightCat) /\ ~Wants(w, RightCat) /\ ~Held(w, LeftCat) /\ Wants(w, LeftCat)
  <2> DEFINE x == Put(w, Pick(w, LeftCat), "left")
  <2>1. HandleTwoHand(w).worn = x
    BY <1>5, TwoHandIs, StateIs
  <2>2. Facing(x) /\ Held(x, LeftCat) /\ \A p : Matches(x, p) => Matches(w, p)
    BY <1>1, <1>5, PutServes DEF Wants, LeftCat
  <2> HIDE DEF x
  <2>3. ~Wants(x, RightCat)
    BY <1>5, <2>2 DEF Wants, Held, Answers
  <2> QED
    BY <2>1, <2>2, <2>3 DEF BothQuiet
<1>6. CASE ~Held(w, RightCat) /\ ~Wants(w, RightCat) /\ ~Held(w, LeftCat) /\ ~Wants(w, LeftCat)
  <2> DEFINE x == BothCleared(w)
  <2>1. HandleTwoHand(w).worn = x
    BY <1>6, TwoHandIs, BothEmptiedIs
  <2>2. Facing(x) /\ ~Empties(x, "right") /\ ~Empties(x, "left") /\ \A p : Matches(x, p) => Matches(w, p)
    BY BothEmptiedIs
  <2> HIDE DEF x
  <2>3. ~Wants(x, RightCat) /\ ~Wants(x, LeftCat)
    BY <1>6, <2>2 DEF Wants, Held, Answers
  <2> QED
    BY <2>1, <2>2, <2>3 DEF BothQuiet
<1> QED
  BY <1>2, <1>3, <1>4, <1>5, <1>6

(* A two-handed weapon preferred: it is the only preference.               *)
ReadyTwo ==
    /\ carried \subseteq Copy /\ PrefsGood(prefs) /\ Exclusive(prefs)
    /\ prefs["twoHand"] # None

Two == "twoHand"
TwoTried(w) == OrTry(Start(w), "twoHand")

HandledTwo(w, h) ==
    LET st == OrEmpty(TwoTried(w), h)
    IN IF IsEligible(st.worn, Other(h)) THEN OrEmpty(Ask(st), Other(h)) ELSE st

(* The try at a two-handed preference.                                     *)
LEMMA TwoTriedIs ==
    ASSUME ReadyTwo, NEW w
    PROVE /\ Held(w, Two) => TwoTried(w) = Answered(w, 0)
          /\ Wants(w, Two) => TwoTried(w) = Answered(Put(w, Pick(w, Two), "right"), 1)
          /\ ~Held(w, Two) /\ ~Wants(w, Two) => TwoTried(w) = Asked(w, 0)
<1> DEFINE st == Asked(w, 0)
<1>1. Start(w) = st /\ ~st.done /\ st.worn = w /\ st.calls = 0 /\ [st EXCEPT !.done = TRUE] = Answered(w, 0)
  BY StateIs DEF Start, Asked
<1>2. HandOf(Two) = "right" /\ 0 + 1 = 1
  BY DEF HandOf, Two
<1> HIDE DEF st
<1>3. TwoTried(w) = OrTry(st, Two)
  BY <1>1 DEF TwoTried, Two
<1>4. Wants(w, Two) => OrTry(st, Two) = [worn |-> Put(w, Pick(w, Two), "right"), done |-> TRUE, calls |-> 0 + 1]
  BY <1>1, <1>2, OrTryIs
<1>5. Wants(w, Two) => TwoTried(w) = Answered(Put(w, Pick(w, Two), "right"), 1)
  BY <1>2, <1>3, <1>4 DEF Answered
<1>6. (Held(w, Two) => OrTry(st, Two) = Answered(w, 0)) /\ (~Held(w, Two) /\ ~Wants(w, Two) => OrTry(st, Two) = st)
  <2>1. Held(w, Two) => OrTry(st, Two) = [st EXCEPT !.done = TRUE]
    BY <1>1, OrTryIs
  <2>2. ~Held(w, Two) /\ ~Wants(w, Two) => OrTry(st, Two) = st
    BY <1>1, OrTryIs
  <2> QED
    BY <1>1, <2>1, <2>2
<1> QED
  BY <1>3, <1>5, <1>6 DEF st

(* With a two-handed preference, all that the Handle... calls do.          *)
LEMMA TwoHandlers ==
    ASSUME ReadyTwo, NEW w
    PROVE /\ HandleOneHandRight(w) = HandledTwo(w, "right")
          /\ HandleOneHandLeft(w) = HandledTwo(w, "left")
          /\ HandleShield(w) = HandledTwo(w, "left")
          /\ HandleTwoHand(w) = IF TwoTried(w).done THEN TwoTried(w) ELSE BothEmptied(TwoTried(w))
<1>1. \A cat \in {"oneHandRight", "oneHandLeft", "shieldLeft"} : prefs[cat] = None
  BY DEF ReadyTwo, Exclusive, MeleeCats
<1>2. \A st : \A cat \in {"oneHandRight", "oneHandLeft", "shieldLeft"} : OrTry(st, cat) = st
  BY <1>1, OrTryNothing
<1>3. \A v : ~OneHandPrefsResolveSameInstance(v)
  BY <1>1 DEF OneHandPrefsResolveSameInstance
<1>4. HandleTwoHand(w) = IF TwoTried(w).done THEN TwoTried(w) ELSE BothEmptied(TwoTried(w))
  BY <1>2 DEF HandleTwoHand, TwoTried, BothEmptied
<1>5. HandleOneHandRight(w) = HandledTwo(w, "right")
  BY <1>2, <1>3 DEF HandleOneHandRight, TwoTried, HandledTwo, IsEligible, Other
<1>6. HandleOneHandLeft(w) = HandledTwo(w, "left") /\ HandleShield(w) = HandledTwo(w, "left")
  BY <1>2, <1>3 DEF HandleOneHandLeft, HandleShield, LeftHand, TwoTried, HandledTwo, IsEligible, Other
<1> QED
  BY <1>4, <1>5, <1>6

(* The preferred weapon held in both hands, no attempt changes anything.   *)
LEMMA TwoHeld ==
    ASSUME ReadyTwo, NEW w, Facing(w), Held(w, Two), NEW h \in Pair
    PROVE /\ HandledTwo(w, h).calls = 0 /\ HandledTwo(w, h).worn = w
          /\ HandleTwoHand(w).calls = 0 /\ HandleTwoHand(w).worn = w
<1>1. Is(w["right"], BothHands) /\ w["right"] = w["left"]
  <2>1. IsKind(prefs[Two].base, BothHands) /\ prefs[Two].base # None
    BY CopyAssumption DEF ReadyTwo, PrefsGood, Two, Cats, KindsOf, IsKind, BothHands
  <2>2. BaseAt(w["right"]) = prefs[Two].base
    BY DEF Held, Holds, HandOf, Two
  <2> QED
    BY <2>1, <2>2 DEF Is, Facing, HandsGood
<1>2. w[Other(h)] = w["right"]
  BY <1>1 DEF Pair, Other
<1>3. ~IsEligible(w, Other(h))
  <2>1. ~Is(w["right"], OneHandMelee \cup {"shield"}) /\ ~Is(w["right"], OneHandMelee)
    BY <1>1 DEF Is, IsKind, OneHandMelee, BothHands
  <2>2. w["right"] # None
    BY <1>1, CopyAssumption DEF Is, IsKind, BaseAt
  <2> QED
    BY <1>1, <2>1, <2>2 DEF IsEligible, IsRightEligible, IsLeftEligible
<1>4. TwoTried(w) = Answered(w, 0) /\ OrEmpty(Answered(w, 0), h) = Answered(w, 0)
  BY TwoTriedIs, StateIs DEF OrEmpty
<1>5. HandledTwo(w, h) = Answered(w, 0)
  BY <1>3, <1>4, StateIs DEF HandledTwo
<1>6. HandleTwoHand(w) = Answered(w, 0)
  BY <1>4, TwoHandlers, StateIs
<1> QED
  BY <1>5, <1>6, StateIs

(* The two-handed copy, once put on, is held.                              *)
LEMMA TwoPut ==
    ASSUME ReadyTwo, NEW w, Facing(w), Wants(w, Two)
    PROVE Facing(Put(w, Pick(w, Two), "right")) /\ Held(Put(w, Pick(w, Two), "right"), Two)
<1> DEFINE u == Pick(w, Two)
           p == prefs[Two]
           v == Put(w, u, "right")
<1>1. p # None /\ Matches(w, p) /\ Two \in MeleeCats
  BY DEF Wants, Answers, Two, MeleeCats
<1>2. u \in carried /\ u \in Copy /\ BaseOf[u] = p.base /\ IdentOf[u] = p.ident /\ u # None
  BY <1>1, PickIs, CopyAssumption DEF ReadyTwo, Answers
<1>3. IsKind(p.base, {"twoHand"})
  BY <1>1 DEF ReadyTwo, PrefsGood, Two, Cats, KindsOf
<1> HIDE DEF u, p
<1>4. Is(u, BothHands) /\ ~Is(u, Ammo) /\ ~Is(u, {"shield"})
  BY <1>2, <1>3 DEF Is, BaseAt, IsKind, BothHands, Ammo
<1>5. v = [w EXCEPT !["right"] = u, !["left"] = u]
  BY <1>4 DEF Put
<1>6. HandsGood(v)
  BY <1>2, <1>4, PutGood DEF Facing, Slots
<1>7. v["right"] = u /\ v["left"] = u /\ Worn(v) \subseteq Worn(w) \cup {u} /\ u \in Worn(v)
  BY <1>2, <1>5 DEF Facing, HandsGood, Slots, Worn
<1> HIDE DEF v
<1>8. Facing(v)
  BY <1>2, <1>6, <1>7 DEF Facing
<1>9. Matches(v, p)
  BY <1>2, <1>7, WornMatches
<1>10. Held(v, Two)
  BY <1>1, <1>2, <1>7, <1>9 DEF Held, Answers, Holds, HandOf, Two, BaseAt, p
<1> QED
  BY <1>8, <1>10 DEF v, u

(* Nothing to serve, and nothing to empty where the hand is looked at.     *)
LEMMA TwoQuiet ==
    ASSUME ReadyTwo, NEW w, Facing(w), ~Held(w, Two), ~Wants(w, Two)
    PROVE /\ \A h \in Pair : ~Empties(w, h) /\ (IsEligible(w, Other(h)) => ~Empties(w, Other(h)))
                             => HandledTwo(w, h).calls = 0 /\ HandledTwo(w, h).worn = w
          /\ ~Empties(w, "right") /\ ~Empties(w, "left")
             => HandleTwoHand(w).calls = 0 /\ HandleTwoHand(w).worn = w
<1>1. TwoTried(w) = Asked(w, 0)
  BY TwoTriedIs
<1>2. \A h : ~Empties(w, h) => OrEmpty(Asked(w, 0), h) = Asked(w, 0)
  BY EmptiedAsked DEF Cleared
<1>3. ASSUME NEW h \in Pair, ~Empties(w, h), IsEligible(w, Other(h)) => ~Empties(w, Other(h))
      PROVE HandledTwo(w, h).calls = 0 /\ HandledTwo(w, h).worn = w
  <2>1. OrEmpty(TwoTried(w), h) = Asked(w, 0) /\ Ask(Asked(w, 0)) = Asked(w, 0) /\ Asked(w, 0).worn = w
    BY <1>1, <1>2, <1>3, StateIs
  <2>2. HandledTwo(w, h) = Asked(w, 0)
    BY <1>2, <1>3, <2>1 DEF HandledTwo
  <2> QED
    BY <2>2, StateIs
<1>4. ASSUME ~Empties(w, "right"), ~Empties(w, "left")
      PROVE HandleTwoHand(w).calls = 0 /\ HandleTwoHand(w).worn = w
  <2>1. HandleTwoHand(w) = BothEmptied(Asked(w, 0))
    BY <1>1, TwoHandlers, StateIs
  <2> QED
    BY <1>4, <2>1, BothEmptiedIs
<1> QED
  BY <1>3, <1>4

(* With a two-handed preference, one round settles the hands.              *)
LEMMA TwoSettles ==
    ASSUME ReadyTwo, NEW w, Facing(w), NEW h \in Pair
    PROVE /\ HandledTwo(HandledTwo(w, h).worn, h).calls = 0
          /\ HandledTwo(HandledTwo(w, h).worn, h).worn = HandledTwo(w, h).worn
          /\ HandleTwoHand(HandleTwoHand(w).worn).calls = 0
          /\ HandleTwoHand(HandleTwoHand(w).worn).worn = HandleTwoHand(w).worn
<1>1. CASE Held(w, Two)
  BY <1>1, TwoHeld
<1>2. CASE Wants(w, Two)
  <2> DEFINE v == Put(w, Pick(w, Two), "right")
  <2>1. Facing(v) /\ Held(v, Two)
    BY <1>2, TwoPut
  <2>2. TwoTried(w) = Answered(v, 1)
    BY <1>2, TwoTriedIs
  <2> HIDE DEF v
  <2>3. TwoTried(v) = Answered(v, 0)
    BY <2>1, TwoTriedIs
  <2>4. OrEmpty(Answered(v, 1), h) = Answered(v, 1) /\ OrEmpty(Answered(v, 0), h) = Answered(v, 0)
    BY StateIs DEF OrEmpty
  <2>5. HandledTwo(w, h).worn = v
    <3>1. ~IsEligible(v, Other(h))
      <4>1. CASE IsEligible(v, Other(h))
        <5>1. Is(v["right"], BothHands) /\ v["right"] = v["left"]
          <6>1. IsKind(prefs[Two].base, BothHands)
            BY DEF ReadyTwo, PrefsGood, Two, Cats, KindsOf, IsKind, BothHands
          <6>2. BaseAt(v["right"]) = prefs[Two].base
            BY <2>1 DEF Held, Holds, HandOf, Two
          <6> QED
            BY <2>1, <6>1, <6>2 DEF Is, Facing, HandsGood
        <5>2. v[Other(h)] = v["right"]
          BY <5>1 DEF Pair, Other
        <5>3. v["right"] # None /\ ~Is(v["right"], OneHandMelee \cup {"shield"}) /\ ~Is(v["right"], OneHandMelee)
          BY <5>1, CopyAssumption DEF Is, IsKind, OneHandMelee, BothHands, BaseAt
        <5> QED
          BY <4>1, <5>1, <5>2, <5>3 DEF IsEligible, IsRightEligible, IsLeftEligible
      <4> QED
        BY <4>1
    <3> QED
      BY <2>2, <2>4, <3>1, StateIs DEF HandledTwo
  <2>6. HandleTwoHand(w).worn = v
    BY <2>2, TwoHandlers, StateIs
  <2> QED
    BY <2>1, <2>5, <2>6, TwoHeld
<1>3. CASE ~Held(w, Two) /\ ~Wants(w, Two)
  <2>1. TwoTried(w) = Asked(w, 0)
    BY <1>3, TwoTriedIs
  <2>2. ~Matches(w, prefs[Two])
    <3>1. prefs[Two] # None /\ Forced(Two)
      BY DEF ReadyTwo, PrefsGood, Two, Cats, KindsOf, IsKind, Forced
    <3> QED
      BY <1>3, <3>1 DEF Held, Wants, Answers
  <2>3. HandleTwoHand(w) = BothEmptied(Asked(w, 0))
    BY <2>1, TwoHandlers, StateIs
  <2>4. HandleTwoHand(HandleTwoHand(w).worn).calls = 0
        /\ HandleTwoHand(HandleTwoHand(w).worn).worn = HandleTwoHand(w).worn
    <3> DEFINE x == BothCleared(w)
    <3>1. HandleTwoHand(w).worn = x /\ Facing(x) /\ ~Empties(x, "right") /\ ~Empties(x, "left") /\ ~Matches(x, prefs[Two])
      BY <2>2, <2>3, BothEmptiedIs
    <3> HIDE DEF x
    <3>2. ~Held(x, Two) /\ ~Wants(x, Two)
      BY <3>1 DEF Held, Wants, Answers
    <3> QED
      BY <3>1, <3>2, TwoQuiet
  <2> DEFINE v == Cleared(w, h)
             o == Other(h)
             z == Cleared(v, o)
  <2>5. o \in Pair /\ Other(o) = h
    BY OtherIs
  <2>6. Facing(v) /\ ~Empties(v, h) /\ ~Matches(v, prefs[Two])
    BY <2>2, ClearedServes
  <2>7. PICK k : OrEmpty(TwoTried(w), h) = Asked(v, k)
    BY <2>1, EmptiedAsked
  <2> HIDE DEF v, o
  <2>8. Facing(z) /\ ~Empties(z, o) /\ ~Empties(z, h) /\ ~Matches(z, prefs[Two])
    BY <2>5, <2>6, ClearedServes
  <2>9. PICK n : OrEmpty(Asked(v, k), o) = Asked(z, n)
    BY EmptiedAsked
  <2> HIDE DEF z
  <2>10. HandledTwo(w, h).worn = IF IsEligible(v, o) THEN z ELSE v
    <3>1. HandledTwo(w, h) = IF IsEligible(v, o) THEN Asked(z, n) ELSE Asked(v, k)
      BY <2>7, <2>9, StateIs DEF HandledTwo, o
    <3> QED
      BY <3>1, StateIs
  <2>11. ASSUME NEW y, Facing(y), ~Matches(y, prefs[Two]), ~Empties(y, h), IsEligible(y, o) => ~Empties(y, o)
         PROVE HandledTwo(y, h).calls = 0 /\ HandledTwo(y, h).worn = y
    <3>1. ~Held(y, Two) /\ ~Wants(y, Two)
      BY <2>11 DEF Held, Wants, Answers
    <3> QED
      BY <2>11, <3>1, TwoQuiet DEF o
  <2>12. CASE IsEligible(v, o)
    BY <2>8, <2>10, <2>11, <2>12, <2>4
  <2>13. CASE ~IsEligible(v, o)
    BY <2>6, <2>10, <2>11, <2>13, <2>4
  <2> QED
    BY <2>12, <2>13
<1> QED
  BY <1>1, <1>2, <1>3

----------------------------------------------------------------------------
(* The same attempt, made a third time, finds nothing left to do.          *)
LEMMA EnforcedSettles ==
    ASSUME IInv, Carries, NEW b \in Base, NEW slot \in {"right", "left"}, Enforces(b),
           NEW once, once = Enforced(worn, b, slot).worn,
           NEW twice, twice = Enforced(once, b, slot).worn
    PROVE ShieldTugsCopy(b, twice) \/ Enforced(twice, b, slot).calls = 0
<1>1. Facing(worn)
  BY DEF IInv, Carries, Facing
<1>2. "right" \in Pair /\ "left" \in Pair
  BY DEF Pair
<1>3. \/ IsKind(b, {"twoHand"}) /\ \A w : Enforced(w, b, slot) = HandleTwoHand(w)
      \/ \A w : Enforced(w, b, slot) = HandleOneHandLeft(w)
      \/ \A w : Enforced(w, b, slot) = HandleOneHandRight(w)
      \/ IsKind(b, {"shield"}) /\ \A w : Enforced(w, b, slot) = HandleShield(w)
  BY DEF Enforced, Enforces, IsKind, OneHandMelee, Melee
<1>4. CASE prefs["twoHand"] = None
  <2>1. Ready
    BY <1>4 DEF IInv, Ready
  <2>2. CASE \A w : Enforced(w, b, slot) = HandleTwoHand(w)
    <3>1. Facing(once) /\ BothQuiet(once)
      BY <1>1, <2>1, <2>2, TwoHandSettles
    <3>2. twice = once
      BY <2>1, <2>2, <3>1, TwoHandQuiet
    <3> QED
      BY <2>1, <2>2, <3>1, <3>2, TwoHandQuiet
  <2>3. CASE \A w : Enforced(w, b, slot) = HandleOneHandLeft(w)
    <3>1. once = Turn(worn, "left", FALSE) /\ twice = Turn(once, "left", FALSE)
      BY <2>1, <2>3, HandlersTurn
    <3>2. Quiet(twice, "left", FALSE)
      BY <1>1, <1>2, <2>1, <3>1, TurnSettles
    <3> QED
      BY <2>1, <2>3, <3>2, HandlersTurn
  <2>4. CASE \A w : Enforced(w, b, slot) = HandleOneHandRight(w)
    <3>1. once = Turn(worn, "right", FALSE) /\ twice = Turn(once, "right", FALSE)
      BY <2>1, <2>4, HandlersTurn
    <3>2. Quiet(twice, "right", FALSE)
      BY <1>1, <1>2, <2>1, <3>1, TurnSettles
    <3> QED
      BY <2>1, <2>4, <3>2, HandlersTurn
  <2>5. CASE IsKind(b, {"shield"}) /\ \A w : Enforced(w, b, slot) = HandleShield(w)
    <3>1. once = Turn(worn, "left", TRUE) /\ twice = Turn(once, "left", TRUE)
      BY <2>1, <2>5, HandlersTurn
    <3>2. Quiet(twice, "left", TRUE) \/ OneHandPrefsResolveSameInstance(twice)
      BY <1>1, <1>2, <2>1, <3>1, TurnSettles
    <3> QED
      BY <2>1, <2>5, <3>2, HandlersTurn DEF ShieldTugsCopy
  <2> QED
    BY <1>3, <2>2, <2>3, <2>4, <2>5
<1>5. CASE prefs["twoHand"] # None
  <2>1. ReadyTwo
    BY <1>5 DEF IInv, ReadyTwo
  <2>2. CASE \A w : Enforced(w, b, slot) = HandleTwoHand(w)
    BY <1>1, <1>2, <2>1, <2>2, TwoSettles
  <2>3. CASE \E h \in Pair : \A w : Enforced(w, b, slot) = HandledTwo(w, h)
    BY <1>1, <2>1, <2>3, TwoSettles
  <2> QED
    BY <1>2, <1>3, <2>1, <2>2, <2>3, TwoHandlers
<1> QED
  BY <1>4, <1>5

----------------------------------------------------------------------------
(* The flags and counters that no other argument needs.                    *)
FlagsGood ==
    /\ cfg \in Setting /\ pending \in BOOLEAN /\ tasks \in Nat
    /\ stance \in {"idle", "fighting"} /\ follows \in BOOLEAN /\ menu \in BOOLEAN
    /\ suppressed \in BOOLEAN /\ taken \in BOOLEAN /\ restore \in BOOLEAN

LEMMA NextFlags == FlagsGood /\ [Next]_vars => FlagsGood'
<1> SUFFICES ASSUME FlagsGood, [Next]_vars PROVE FlagsGood'
  OBVIOUS
<1> USE DEF FlagsGood
<1>1. UNCHANGED combat \/ QueueDeferredAmmoReequip => pending' \in BOOLEAN /\ tasks' \in Nat
  <2>1. ASSUME UNCHANGED combat PROVE pending' \in BOOLEAN /\ tasks' \in Nat
    BY <2>1 DEF combat
  <2>2. ASSUME QueueDeferredAmmoReequip PROVE pending' \in BOOLEAN
    BY <2>2, Zenon DEF QueueDeferredAmmoReequip
  <2>3. ASSUME QueueDeferredAmmoReequip PROVE tasks' \in Nat
    BY <2>3 DEF QueueDeferredAmmoReequip
  <2> QED
    BY <2>1, <2>2, <2>3
<1>2. \A bases : RequestAfterAttempt(bases) => restore' \in BOOLEAN
  BY DEF RequestAfterAttempt
<1>3. ASSUME NEW b \in Base, NEW slot \in Slots, NEW list \in Lists(worn, carried, b) \cup {None},
             AiEquip(b, list, slot)
      PROVE FlagsGood'
  <2>1. suppressed' \in BOOLEAN
    BY <1>3 DEF AiEquip, DropSuppression
  <2>2. restore' \in BOOLEAN
    BY <1>2, <1>3 DEF AiEquip, Suppressed, Swapped, Gated, Allowed
  <2>3. pending' \in BOOLEAN /\ tasks' \in Nat
    <3>1. CASE Suppressed(b) \/ Swapped(b, list, slot) \/ Gated(b, list, slot)
      BY <3>1 DEF Suppressed, Swapped, Gated, combat
    <3>2. CASE Allowed(b, list, slot)
      BY <1>1, <3>2 DEF Allowed, OnUnequipObject
    <3> QED
      BY <1>3, <3>1, <3>2 DEF AiEquip
  <2> QED
    BY <1>3, <2>1, <2>2, <2>3 DEF AiEquip, place
<1>4. ASSUME NEW slot \in Slots, NEW swap \in BOOLEAN, AiUnequip(slot, swap)
      PROVE FlagsGood'
  <2>1. restore' \in BOOLEAN
    BY <1>2, <1>4 DEF AiUnequip
  <2>2. pending' \in BOOLEAN /\ tasks' \in Nat
    BY <1>1, <1>4 DEF AiUnequip, OnUnequipObject
  <2> QED
    BY <1>4, <2>1, <2>2 DEF AiUnequip, place
<1>5. ASSUME NEW slot \in Slots, AiEquipSpell(slot) \/ PlayerUnequip(slot)
      PROVE FlagsGood'
  BY <1>5 DEF AiEquipSpell, PlayerUnequip, place, combat
<1>6. ASSUME NEW c \in Copy, NEW slot \in Slots, PlayerEquip(c, slot)
      PROVE FlagsGood'
  BY <1>6 DEF PlayerEquip, place, combat
<1>7. ASSUME NEW c \in Copy, Take(c)
      PROVE FlagsGood'
  BY <1>7 DEF Take, place, combat
<1>8. CASE RunAmmoTask
  <2>1. pending' \in BOOLEAN
    BY <1>8, Zenon DEF RunAmmoTask
  <2>2. tasks' \in Nat
    BY <1>8 DEF RunAmmoTask
  <2> QED
    BY <1>8, <2>1, <2>2 DEF RunAmmoTask, place
<1>9. CASE RunRestore \/ OpenMenu \/ CloseMenu \/ ChangeStance \/ ChangeFollower
  BY <1>9 DEF RunRestore, OpenMenu, CloseMenu, ChangeStance, ChangeFollower, place, combat
<1>10. CASE Shoot \/ Revert \/ UNCHANGED vars
  BY <1>10 DEF Shoot, Revert, vars, place, combat
<1> QED
  BY <1>3, <1>4, <1>5, <1>6, <1>7, <1>8, <1>9, <1>10 DEF Next

----------------------------------------------------------------------------
(* The theorems.                                                           *)

(* Types of hands, preferences and marks; what a step leaves in the hands  *)
(* are copies, and the ammo remembered is a base object.                   *)
THEOREM GateTypesHold == Spec => []TypeOK
<1>1. Init => FlagsGood
  <2> SUFFICES ASSUME Init PROVE FlagsGood
    OBVIOUS
  <2>1. /\ pending \in BOOLEAN /\ follows \in BOOLEAN /\ menu \in BOOLEAN
        /\ suppressed \in BOOLEAN /\ taken \in BOOLEAN /\ restore \in BOOLEAN
    BY Zenon DEF Init
  <2>2. cfg \in Setting /\ tasks \in Nat /\ stance \in {"idle", "fighting"}
    BY SettingAssumption DEF Init
  <2> QED
    BY <2>1, <2>2 DEF FlagsGood
<1>2. IInv /\ FlagsGood => TypeOK
  <2> SUFFICES ASSUME IInv, FlagsGood PROVE TypeOK
    OBVIOUS
  <2>1. worn \in Hands
    BY DEF IInv, HandsGood, Slots, Hands
  <2>2. lastAmmo \in Base \cup {None}
    BY DEF IInv, IsKind
  <2> QED
    BY <2>1, <2>2 DEF IInv, PrefsGood, FlagsGood, TypeOK
<1> QED
  BY <1>1, <1>2, NextFlags, InvAlways, PTL DEF Spec

(* The preferences never ask for a two-handed weapon beside another melee  *)
(* item, nor for a shield beside a left weapon: what CrossClear drives out *)
(* is gone, and what a menu seeds comes from hands that cannot hold both.  *)
THEOREM PrefsAlwaysExclusive == Spec => []PrefsExclusive
<1>1. IInv => PrefsExclusive
  BY DEF IInv, PrefsExclusive
<1> QED
  BY <1>1, InvAlways, PTL

(* In a fight, with enforcement on, every melee weapon or shield that gets *)
(* into a hand is one the preferences name.                                *)
THEOREM FightHandsAlwaysPreferred == Spec => FightHandsPreferred
<1>1. ASSUME IInv, [Next]_vars, cfg.melee, Considers, NEW c \in Brought, Is(c, Melee)
      PROVE \E cat \in Cats : Names(cat, BaseOf[c])
  <2>1. CASE From(worn, worn', {})
    BY <1>1, <2>1, BroughtFrom
  <2>2. CASE From(worn, worn', Named)
    BY <1>1, <2>2, BroughtFrom DEF Named
  <2>3. ASSUME NEW b \in Base, From(worn, worn', OfBase(b)), ~Enforces(b) \/ IsKind(b, Ammo)
        PROVE FALSE
    <3>1. c \in OfBase(b)
      BY <1>1, <2>3, BroughtFrom
    <3>2. IsKind(b, Melee)
      BY <1>1, <3>1, CopyAssumption DEF OfBase, Is, BaseAt, IInv
    <3> QED
      BY <1>1, <2>3, <3>2 DEF Enforces, IsKind, Melee, Ammo
  <2> QED
    BY <1>1, <2>1, <2>2, <2>3, StepBrings DEF Considers
<1>2. IInv /\ [Next]_vars
      => (cfg.melee /\ Considers
          => \A c \in Brought : Is(c, Melee) => \E cat \in Cats : Names(cat, BaseOf[c]))
  BY <1>1
<1> QED
  BY <1>2, InvAlways, PTL DEF Spec, FightHandsPreferred

(* Out of a fight, with gate and blocker on, what gets to the hands is of  *)
(* a base they held, or conjured, or a torch.                              *)
THEOREM HandsAlwaysKeptOutOfCombat == Spec => HandsKeptOutOfCombat
<1>1. ASSUME IInv, [Next]_vars, cfg.gate, cfg.blocker, follows, ~menu, ~IsFighting
      PROVE Brought \subseteq SameBases(Worn(worn)) \cup {c \in Copy : Is(c, {"bound", "torch"})}
  <2>1. CASE From(worn, worn', {})
    BY <2>1, BroughtFrom
  <2>2. ASSUME NEW b \in Base, From(worn, worn', OfBase(b)), ~SuppressesOutOfCombat(b)
        PROVE OfBase(b) \subseteq SameBases(Worn(worn)) \cup {c \in Copy : Is(c, {"bound", "torch"})}
    <3>1. CASE IsKind(b, {"bound", "torch"})
      BY <1>1, <3>1, CopyAssumption DEF OfBase, Is, BaseAt, IInv
    <3>2. CASE b \in {BaseAt(worn.right), BaseAt(worn.left), BaseAt(worn.ammo)}
      <4>1. PICK s \in Slots : b = BaseAt(worn[s])
        BY <3>2 DEF Slots
      <4>2. worn[s] \in Copy /\ BaseOf[worn[s]] = b
        BY <1>1, <4>1, CopyAssumption DEF IInv, HandsGood, BaseAt
      <4>3. worn[s] \in Worn(worn)
        BY <4>2, CopyAssumption DEF Worn, Slots
      <4> QED
        BY <1>1, <4>2, <4>3 DEF SameBases, OfBase, IInv
    <3> QED
      BY <1>1, <2>2, <3>1, <3>2 DEF SuppressesOutOfCombat, IsFighting
  <2> QED
    BY <1>1, <2>1, <2>2, StepBrings, BroughtFrom DEF Considers
<1>2. IInv /\ [Next]_vars
      => (cfg.gate /\ cfg.blocker /\ follows /\ ~menu /\ ~IsFighting
          => Brought \subseteq SameBases(Worn(worn)) \cup {c \in Copy : Is(c, {"bound", "torch"})})
  BY <1>1
<1> QED
  BY <1>2, InvAlways, PTL DEF Spec, HandsKeptOutOfCombat

(* While a trade menu is open from which a weapon was taken, only the      *)
(* player puts a weapon into the follower's hands.                         *)
THEOREM TakenWeaponNeverReplaced == Spec => TakenWeaponNotReplaced
<1>1. ASSUME IInv, [Next]_vars, menu, taken, NEW c \in Brought, Is(c, Weapons \ {"bound"}),
             ~\E d \in Copy, slot \in Slots : PlayerEquip(d, slot)
      PROVE FALSE
  <2>1. CASE From(worn, worn', {})
    BY <1>1, <2>1, BroughtFrom
  <2>2. ASSUME NEW b \in Base, From(worn, worn', OfBase(b)), ~SuppressesBestWeapon(b)
        PROVE FALSE
    <3>1. c \in OfBase(b)
      BY <1>1, <2>2, BroughtFrom
    <3>2. IsKind(b, Weapons \ {"bound"})
      BY <1>1, <3>1, CopyAssumption DEF OfBase, Is, BaseAt, IInv
    <3> QED
      BY <1>1, <2>2, <3>2 DEF SuppressesBestWeapon, IInv
  <2> QED
    BY <1>1, <2>1, <2>2, StepBrings DEF Considers
<1>2. IInv /\ [Next]_vars
      => (menu /\ taken /\ ~(\E c \in Copy, slot \in Slots : PlayerEquip(c, slot))
          => \A c \in Brought : ~Is(c, Weapons \ {"bound"}))
  BY <1>1
<1> QED
  BY <1>2, InvAlways, PTL DEF Spec, TakenWeaponNotReplaced

(* The mark that keeps a second ammo task from being queued is set exactly *)
(* while one task is in the queue, so it never shuts out the next one.     *)
THEOREM MarkAlwaysHasTask == Spec => []MarkHasTask
<1>1. Init => MarkHasTask
  BY DEF Init, MarkHasTask
<1>2. ASSUME MarkHasTask, [Next]_vars
      PROVE MarkHasTask'
  <2>1. CASE UNCHANGED combat
    BY <1>2, <2>1 DEF MarkHasTask, combat
  <2>2. CASE QueueDeferredAmmoReequip
    BY <1>2, <2>2 DEF MarkHasTask, QueueDeferredAmmoReequip
  <2>3. CASE RunAmmoTask
    BY <1>2, <2>3 DEF MarkHasTask, RunAmmoTask
  <2>4. CASE UNCHANGED <<pending, tasks>>
    BY <1>2, <2>4 DEF MarkHasTask
  <2>5. ASSUME NEW b \in Base, NEW slot \in Slots, NEW list \in Lists(worn, carried, b) \cup {None},
               AiEquip(b, list, slot)
        PROVE UNCHANGED <<pending, tasks>> \/ QueueDeferredAmmoReequip
    <3>1. CASE Allowed(b, list, slot)
      BY <3>1 DEF Allowed, OnUnequipObject, combat
    <3> QED
      BY <2>5, <3>1 DEF AiEquip, Suppressed, Swapped, Gated, combat
  <2>6. ASSUME NEW slot \in Slots, NEW swap \in BOOLEAN, AiUnequip(slot, swap)
        PROVE UNCHANGED combat \/ QueueDeferredAmmoReequip
    BY <2>6 DEF AiUnequip, OnUnequipObject
  <2>7. ASSUME NEW slot \in Slots, AiEquipSpell(slot) \/ PlayerUnequip(slot)
        PROVE UNCHANGED combat
    BY <2>7 DEF AiEquipSpell, PlayerUnequip
  <2>8. ASSUME NEW c \in Copy, NEW slot \in Slots, PlayerEquip(c, slot) \/ Take(c)
        PROVE UNCHANGED combat
    BY <2>8 DEF PlayerEquip, Take
  <2>9. CASE RunRestore \/ OpenMenu \/ CloseMenu \/ Shoot \/ ChangeStance \/ ChangeFollower \/ Revert
             \/ UNCHANGED vars
    BY <2>4, <2>9 DEF RunRestore, OpenMenu, CloseMenu, Shoot, ChangeStance, ChangeFollower, Revert,
                      vars, combat, MarkHasTask
  <2> QED
    BY <1>2, <2>1, <2>2, <2>3, <2>4, <2>5, <2>6, <2>7, <2>8, <2>9 DEF Next, Slots
<1> QED
  BY <1>1, <1>2, PTL DEF Spec

(* In a fight, the same attempt of the AI made a third time finds nothing *)
(* left to do, whatever the follower carries, holds and prefers: at most   *)
(* two rounds of Handle... settle the hands.  The one exception is the     *)
(* shield wanted while both hands want the only copy there is.             *)
THEOREM EnforcementAlwaysSettles == Spec => []EnforcementSettles
<1>1. IInv /\ Carries => EnforcementSettles
  BY EnforcedSettles DEF EnforcementSettles
<1> QED
  BY <1>1, InvAlways, CarriesAlways, PTL

=============================================================================
