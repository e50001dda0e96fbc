-------------------------- MODULE CombatPreference --------------------------
(***************************************************************************)
(* What the player wants a follower to fight with: the preference table    *)
(* of one follower (CombatEquipPreference.cpp and its policy), and the     *)
(* search for the copy a preference names (SignatureResolve.cpp).          *)
(*                                                                         *)
(* A copy is one unit of a base object; its identity is what is left of    *)
(* an instance signature after NormalizeStableIdentity.  Poison, which     *)
(* only breaks ties, is left out, and so is headgear, which has keys of    *)
(* its own in the trade menu.                                              *)
(***************************************************************************)
EXTENDS Naturals, FiniteSets

CONSTANTS
    Copy,     \* units of base objects
    Base,     \* base objects
    BaseOf,   \* the base object of each copy
    KindOf,   \* the form and weapon type of each base object
    IdentOf,  \* the stable identity of each copy
    Bare,     \* the identity of a plain copy: none
    None      \* an empty hand, no preference, no extra list

Kinds == {"oneHand", "twoHand", "shield", "staff", "bow", "crossbow", "torch", "bound", "arrow", "bolt"}

ASSUME CopyAssumption == None \notin Copy \cup Base /\ BaseOf \in [Copy -> Base]
ASSUME BaseAssumption == KindOf \in [Base -> Kinds]

Ident == {IdentOf[c] : c \in Copy} \cup {Bare}
Cats == {"oneHandRight", "oneHandLeft", "shieldLeft", "twoHand", "bow", "crossbow", "arrow", "bolt",
         "staffRight", "staffLeft"}
MeleeCats == {"oneHandRight", "oneHandLeft", "shieldLeft", "twoHand"}
Pref == [base : Base, ident : Ident]
ASSUME CatAssumption == None \notin Cats

NoPrefs == [cat \in Cats |-> None]

IsKind(b, kinds) == b \in Base /\ KindOf[b] \in kinds
BaseAt(c) == IF c = None THEN None ELSE BaseOf[c]

(* TryClassifyCEPCategory.  A bound weapon is a one-handed weapon here.    *)
CategoryOf(b, left) ==
    CASE IsKind(b, {"oneHand", "bound"}) -> IF left THEN "oneHandLeft" ELSE "oneHandRight"
      [] IsKind(b, {"staff"}) -> IF left THEN "staffLeft" ELSE "staffRight"
      [] IsKind(b, {"shield"}) -> "shieldLeft"
      [] IsKind(b, {"twoHand", "bow", "crossbow", "arrow", "bolt"}) -> KindOf[b]
      [] OTHER -> None

(* Deviation: a two-handed preference drives out one-handed weapons alone. *)
CrossClearNotShield(cat) ==
    CASE cat \in {"oneHandRight", "oneHandLeft", "shieldLeft"} -> {"twoHand"}
      [] cat = "twoHand" -> {"oneHandRight", "oneHandLeft"}
      [] OTHER -> {}

(* kCrossClearOnSet: what a newly recorded preference drives out.          *)
CrossClear(cat) ==
    CASE cat = "oneHandRight" -> {"twoHand"}
      [] cat = "oneHandLeft" -> {"shieldLeft", "twoHand"}
      [] cat = "shieldLeft" -> {"oneHandLeft", "twoHand"}
      [] cat = "twoHand" -> {"oneHandRight", "oneHandLeft", "shieldLeft"}
      [] cat = "bow" -> {"crossbow"}
      [] cat = "crossbow" -> {"bow"}
      [] OTHER -> {}

(* CaptureUserEquip, once the settings and the actor are in order.         *)
Recorded(prefs, c, left) ==
    LET cat == CategoryOf(BaseOf[c], left)
        entry == [base |-> BaseOf[c], ident |-> IdentOf[c]]
    IN IF cat = None THEN prefs
       ELSE [k \in Cats |-> IF k = cat THEN entry
                            ELSE IF k \in CrossClear(cat) THEN None ELSE prefs[k]]

(* CaptureUserUnequip with ShouldClearOnCaptureUnequip: one setting for    *)
(* the right hand and everything that is not held in the left, one for     *)
(* what is.                                                                *)
Forgotten(prefs, b, left, clearRight, clearLeft) ==
    LET cat == CategoryOf(b, left)
        clears == IF left THEN clearLeft /\ cat \in {"oneHandLeft", "shieldLeft", "staffLeft"} ELSE clearRight
    IN IF cat # None /\ clears THEN [prefs EXCEPT ![cat] = None] ELSE prefs

(* SeedFromEquippedIfEmpty: with no melee preference at all, what the      *)
(* hands hold becomes the preference, whatever its category.               *)
SeedHand(prefs, c, left) ==
    LET cat == CategoryOf(BaseAt(c), left)
    IN IF cat \in Cats THEN [prefs EXCEPT ![cat] = [base |-> BaseAt(c), ident |-> Bare]] ELSE prefs

Seeded(prefs, right, left) ==
    IF \E cat \in MeleeCats : prefs[cat] # None THEN prefs
    ELSE SeedHand(SeedHand(prefs, right, FALSE), left, TRUE)

(* What the melee preferences may not ask for at once.                     *)
Exclusive(prefs) ==
    /\ prefs["twoHand"] # None => \A cat \in MeleeCats \ {"twoHand"} : prefs[cat] = None
    /\ prefs["shieldLeft"] = None \/ prefs["oneHandLeft"] = None

----------------------------------------------------------------------------
(* The copies the follower carries, and which of them have an extra list:  *)
(* those with an identity and those that are worn.                         *)
Worn(w) == {w.right, w.left, w.ammo} \ {None}
Units(carried, b) == {c \in carried : BaseOf[c] = b}
Lists(w, carried, b) == {c \in Units(carried, b) : IdentOf[c] # Bare \/ c \in Worn(w)}

AnyOf(S) == CHOOSE c \in S : TRUE

(* ResolveIdentity and ResolveAnyInstancePreferState: among the candidates *)
(* the copy in the hand asked for, then one that is not worn, so as not to *)
(* take it out of the other hand; with no hand asked for a worn one first. *)
Preferred(w, S, hand) ==
    LET there == IF hand = "none" THEN S \cap Worn(w) ELSE S \cap {w[hand]}
        loose == S \ Worn(w)
    IN IF there # {} THEN AnyOf(there) ELSE IF loose # {} THEN AnyOf(loose) ELSE AnyOf(S)

NoMatch == [kind |-> "noMatch", list |-> None]
BaseOnly == [kind |-> "baseOnly", list |-> None]
ListMatch(c) == [kind |-> "list", list |-> c]

(* SignatureResolve::Resolve.                                              *)
Resolve(w, carried, pref, hand, anyBase) ==
    LET lists == Lists(w, carried, pref.base)
        same == {c \in lists : IdentOf[c] = pref.ident}
    IN CASE Units(carried, pref.base) = {} -> NoMatch
         [] same # {} -> ListMatch(Preferred(w, same, hand))
         [] same = {} /\ lists = {} /\ Units(carried, pref.base) # {} /\ (anyBase \/ pref.ident = Bare) -> BaseOnly
         [] same = {} /\ lists # {} /\ anyBase -> ListMatch(Preferred(w, lists, hand))
         [] OTHER -> NoMatch
=============================================================================
