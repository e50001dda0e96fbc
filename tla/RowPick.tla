------------------------------ MODULE RowPick ------------------------------
(* How a click on a row of the trade menu becomes one copy of one item, and *)
(* what is then put on or taken off: EquipModeAction.cpp, the modes it asks, *)
(* StrictPickUtil.cpp and SyntheticXList.cpp. An actor's inventory entry of  *)
(* the item is [plain, lists]: the copies no extra list stands for, and the  *)
(* extra lists by address, each with the copies it counts, where it is worn  *)
(* and whether it has data of its own (a temper, an enchantment, a name).    *)
(* A row of the menu is a clone of part of it: the addresses it was built    *)
(* from, which may be dead by now, and its count. Armour and ammunition have *)
(* one place, which "right" stands for. a_equipOnly is false at every call.  *)
EXTENDS Integers, FiniteSets, FiniteSetsExt, TLC

CONSTANT Addresses   \* of extra lists; a bound. Dead ones are not used again.

ASSUME AddressAssumption == Addresses \subseteq Nat \ {0} /\ IsFiniteSet(Addresses)

NoList == 0
Hands == {"right", "left"}
Opposite(h) == IF h = "right" THEN "left" ELSE "right"
Gear == {"weapon", "twoHander", "scroll", "torch", "armor", "ammo"}

Lists(e) == DOMAIN e.lists
Copies(e, S) == MapThenSumSet(LAMBDA l : e.lists[l].n, S)
Total(e) == e.plain + Copies(e, Lists(e))
InHand(e, h) == {l \in Lists(e) : e.lists[l].worn = h}
NotWorn(e) == {l \in Lists(e) : e.lists[l].worn = "no"}
EquippedIn(e, h) == InHand(e, h) # {}
Without(e, l) == [x \in Lists(e) \ {l} |-> e.lists[x]]
OneLess(e, l) == [e EXCEPT !.lists[l].n = @ - 1]
With(e, l, xList) == [x \in Lists(e) \cup {l} |-> IF x = l THEN xList ELSE e.lists[x]]

SlotForObject(kind, hand) ==
    CASE kind = "torch" -> "left"
      [] kind \in {"weapon", "scroll"} -> hand
      [] OTHER -> "right"

(* An entry the engine can hold: a copy that is worn or has data of its own  *)
(* has its list to itself, a hand holds one copy, and only a hand that its   *)
(* kind can be put into.                                                     *)
XList == [n : Nat \ {0}, worn : {"no"} \cup Hands, own : BOOLEAN]

WellFormed(e, kind) ==
    /\ e \in [plain : Nat, lists : [Lists(e) -> XList]] /\ Lists(e) \subseteq Addresses
    /\ \A l \in Lists(e) : e.lists[l].own \/ e.lists[l].worn # "no" => e.lists[l].n = 1
    /\ \A h \in Hands : /\ SlotForObject(kind, h) # h => InHand(e, h) = {}
                        /\ \A l, m \in InHand(e, h) : l = m

(* The rows the menu builds: one for each copy with data of its own, and one *)
(* for the rest.                                                             *)
Rows(e) ==
    LET bare == {l \in Lists(e) : ~e.lists[l].own}
        rest == e.plain + Copies(e, bare)
    IN  {[lists |-> {l}, count |-> 1] : l \in Lists(e) \ bare}
        \cup {r \in {[lists |-> bare, count |-> rest]} : rest > 0}

----------------------------------------------------------------------------
(* The engine. Taking off a copy whose list held only the worn flag may free *)
(* the list. Without a list it chooses a free copy itself, and moves the one *)
(* in the other hand when there is none. fresh is an unused address.         *)

TakenOff(e, l) ==
    {[e EXCEPT !.lists[l].worn = "no"]}
    \cup {x \in {[plain |-> e.plain + e.lists[l].n, lists |-> Without(e, l)]} : ~e.lists[l].own}

UnequipObject(e, l, h) ==
    LET worn == IF l = NoList THEN InHand(e, h) ELSE InHand(e, h) \cap {l}
    IN  IF worn = {} THEN {e} ELSE UNION {TakenOff(e, x) : x \in worn}

PutOn(e, l, h, fresh) ==
    LET bare == [n |-> 1, worn |-> h, own |-> FALSE]
    IN  CASE l = NoList -> {[plain |-> e.plain - 1, lists |-> With(e, fresh, bare)]}
          [] l # NoList /\ e.lists[l].n = 1 -> {[e EXCEPT !.lists[l].worn = h]}
          [] OTHER ->
               {[plain |-> e.plain + e.lists[l].n - 1, lists |-> With(e, l, bare)],
                [plain |-> e.plain, lists |-> With(OneLess(e, l), fresh, bare)]}

EquipObject(e, l, h, fresh) ==
    LET free == NotWorn(e) \cup {x \in {NoList} : e.plain > 0}
        chosen == IF l # NoList THEN {l} ELSE IF free # {} THEN free ELSE InHand(e, Opposite(h))
        cleared(c) == IF InHand(e, h) \ {c} = {} THEN {e}
                      ELSE UNION {TakenOff(e, x) : x \in InHand(e, h) \ {c}}
    IN  IF chosen = {} \/ l \in InHand(e, h) THEN {e}
        ELSE UNION {UNION {PutOn(x, c, h, fresh) : x \in cleared(c)} : c \in chosen}

----------------------------------------------------------------------------
(* SyntheticXList::EnsureXList: a synthetic list of the entry, or a new one  *)
(* for the copies no list stands for. Newer runtimes copy a field of another *)
(* list the actor carries; without a donor there is none.                    *)
EnsureXList(e, synthetics, donor, fresh) ==
    LET made == [plain |-> 0,
                 lists |-> With(e, fresh, [n |-> e.plain, worn |-> "no", own |-> FALSE])]
        known == Lists(e) \cap synthetics
    IN  CASE known # {} -> {[entry |-> e, list |-> l] : l \in known}
          [] known = {} /\ (e.plain = 0 \/ (~donor /\ Lists(e) = {})) -> {[entry |-> e, list |-> NoList]}
          [] OTHER -> {[entry |-> made, list |-> fresh]}

(* A pick: the copy (by its list, or left to the engine when base), what to  *)
(* do with it and the hand.                                                  *)
StrictPick(l, do, h) == [list |-> l, do |-> do, hand |-> h]
BaseFallback(do, h) == StrictPick(NoList, do, h)

(* rowIsWorn of TryBuildStrictPickFromSelection: is a copy of the item worn, *)
(* by the form.                                                              *)
RowIsWorn(e) == \E h \in Hands : EquippedIn(e, h)

(* TryBuildBaseFallbackPick.                                                 *)
BaseFallbackPick(e, row, kind, hand) ==
    LET h == SlotForObject(kind, hand)
        inOther == kind \notin {"armor", "ammo"} /\ EquippedIn(e, Opposite(h))
    IN  CASE EquippedIn(e, h) /\ RowIsWorn(e) -> BaseFallback("unequip", h)
          [] ~EquippedIn(e, h) /\ inOther /\ (row.count <= 1 \/ kind = "twoHander") ->
               BaseFallback("move", h)
          [] OTHER -> BaseFallback("equip", h)

(* Copies beyond the extra lists, as the weapon and scroll modes count them. *)
HasBaseCopy(e) == Total(e) > Cardinality(Lists(e))

(* No list is preferred: a worn one in the hand comes off, else one that is  *)
(* not worn goes on, else a base copy, else the one in the other hand moves. *)
AnyPick(e, h, base, moves) ==
    CASE EquippedIn(e, h) -> {StrictPick(l, "unequip", h) : l \in InHand(e, h)}
      [] ~EquippedIn(e, h) /\ NotWorn(e) # {} -> {StrictPick(l, "equip", h) : l \in NotWorn(e)}
      [] ~EquippedIn(e, h) /\ NotWorn(e) = {} /\ base -> {BaseFallback("equip", h)}
      [] OTHER -> {StrictPick(l, "move", h) : l \in {x \in InHand(e, Opposite(h)) : moves}}

(* WeaponMode::TryBuildStrictPick.                                           *)
WeaponPick(e, hand, preferred) ==
    IF preferred = NoList THEN AnyPick(e, hand, HasBaseCopy(e), TRUE)
    ELSE {CASE preferred \in InHand(e, hand) -> StrictPick(preferred, "unequip", hand)
            [] preferred \in NotWorn(e) -> StrictPick(preferred, "equip", hand)
            [] OTHER -> IF HasBaseCopy(e) THEN BaseFallback("equip", hand)
                        ELSE StrictPick(preferred, "move", hand)}

(* ScrollMode: as a weapon, but a scroll that is not worn spares the one in  *)
(* the other hand first.                                                     *)
ScrollPick(e, hand, preferred) ==
    IF preferred # NoList /\ preferred \in InHand(e, Opposite(hand)) /\ NotWorn(e) # {}
    THEN {StrictPick(l, "equip", hand) : l \in NotWorn(e)}
    ELSE WeaponPick(e, hand, preferred)

(* TorchMode: the left hand, and no base copy.                               *)
TorchPick(e, preferred) ==
    IF preferred = NoList THEN AnyPick(e, "left", FALSE, TRUE)
    ELSE {StrictPick(preferred, CASE preferred \in InHand(e, "left") -> "unequip"
                                  [] preferred \in InHand(e, "right") -> "move"
                                  [] OTHER -> "equip", "left")}

(* ArmorMode and AmmoMode.                                                   *)
ArmorPick(e, preferred) ==
    IF preferred = NoList THEN AnyPick(e, "right", FALSE, FALSE)
    ELSE {StrictPick(preferred, IF preferred \in NotWorn(e) THEN "equip" ELSE "unequip", "right")}

AmmoPick(e, preferred) == ArmorPick(e, preferred)

ModePick(e, kind, hand, preferred) ==
    LET h == SlotForObject(kind, hand)
    IN  CASE kind \in {"weapon", "twoHander"} -> WeaponPick(e, h, preferred)
          [] kind = "scroll" -> ScrollPick(e, h, preferred)
          [] kind = "torch" -> TorchPick(e, preferred)
          [] kind = "armor" -> ArmorPick(e, preferred)
          [] OTHER -> AmmoPick(e, preferred)

(* The list the selected row stands for: the row's only address, or of many  *)
(* one worn in the hand asked for, else one not worn, else any; only         *)
(* addresses that the actor still owns.                                      *)
PreferredLists(e, row, kind, hand) ==
    LET owned == row.lists \cap Lists(e)
        worn == owned \cap (IF kind = "armor" THEN Lists(e) \ NotWorn(e) ELSE InHand(e, hand))
        best == CASE worn # {} -> worn
                  [] worn = {} /\ owned \cap NotWorn(e) # {} -> owned \cap NotWorn(e)
                  [] OTHER -> owned
        found == IF Cardinality(row.lists) = 1 THEN owned ELSE best
    IN  IF found = {} THEN {NoList} ELSE found

(* A base copy gets a synthetic list to be equipped by, unless that list is  *)
(* the worn copy's.                                                          *)
Upgraded(e, pick, synthetics, donor, fresh) ==
    IF pick.list # NoList THEN {[entry |-> e, pick |-> pick]}
    ELSE {[entry |-> x.entry,
           pick |-> IF x.list # NoList /\ x.entry.lists[x.list].worn = "no"
                    THEN [pick EXCEPT !.list = x.list] ELSE pick] :
          x \in EnsureXList(e, synthetics, donor, fresh)}

(* GetStrictEntryForSelection: the actor's own entry; a plain stack gets a   *)
(* synthetic list.                                                           *)
StrictEntries(e, synthetics, donor, fresh) ==
    IF Lists(e) # {} THEN {e} ELSE {x.entry : x \in EnsureXList(e, synthetics, donor, fresh)}

(* TryBuildStrictPickFromSelection: the pick, and the entry with the list    *)
(* that may have been added for it.                                          *)
PicksFromSelection(e, row, kind, hand, synthetics, donor, fresh) ==
    LET picks(s) == IF Lists(s) = {} \/ row.lists = {}
                    THEN {[entry |-> s, pick |-> BaseFallbackPick(s, row, kind, hand)]}
                    ELSE UNION {Upgraded(s, p, synthetics, donor, fresh) :
                                p \in UNION {ModePick(s, kind, hand, l) :
                                             l \in PreferredLists(s, row, kind, hand)}}
    IN  UNION {picks(s) : s \in StrictEntries(e, synthetics, donor, fresh)}

(* ApplyPickAction: a move takes the copy off first, and goes on with        *)
(* whatever copy the engine chooses when that freed its list.                *)
Applied(e, pick, fresh) ==
    CASE pick.do = "unequip" -> UnequipObject(e, pick.list, pick.hand)
      [] pick.do = "equip" -> EquipObject(e, pick.list, pick.hand, fresh)
      [] OTHER -> UNION {EquipObject(x, IF pick.list \in Lists(x) THEN pick.list ELSE NoList,
                                     pick.hand, fresh) :
                         x \in UnequipObject(e, pick.list, Opposite(pick.hand))}
=============================================================================
