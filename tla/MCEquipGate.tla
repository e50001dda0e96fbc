---------------------------- MODULE MCEquipGate ----------------------------
(* Bounds of the runs: a plain sword and an enchanted one of the same base, *)
(* a shield, a greatsword, a bow and an enchanted one, a torch, a bound     *)
(* sword and two kinds of arrow.                                            *)
EXTENDS EquipGate, TLC

CONSTANTS sword, sword2, enchanted, shield, great, bow, bow2, torch, conjured, iron, steel,
          Sword, Shield, Great, Bow, Torch, Conjured, Iron, Steel, plain, fire

MCCopy == {sword, sword2, enchanted, shield, great, bow, bow2, torch, conjured, iron, steel}
MCBase == {Sword, Shield, Great, Bow, Torch, Conjured, Iron, Steel}
MCBaseOf == (sword :> Sword) @@ (sword2 :> Sword) @@ (enchanted :> Sword) @@ (shield :> Shield)
            @@ (great :> Great) @@ (bow :> Bow) @@ (bow2 :> Bow) @@ (torch :> Torch) @@ (conjured :> Conjured)
            @@ (iron :> Iron) @@ (steel :> Steel)
MCKindOf == (Sword :> "oneHand") @@ (Shield :> "shield") @@ (Great :> "twoHand") @@ (Bow :> "bow")
            @@ (Torch :> "torch") @@ (Conjured :> "bound") @@ (Iron :> "arrow") @@ (Steel :> "arrow")
MCIdentOf == [c \in MCCopy |-> IF c \in {enchanted, bow2} THEN fire ELSE plain]

On == [melee |-> TRUE, ammo |-> TRUE, emptyHand |-> TRUE, align |-> TRUE, scoring |-> TRUE,
       blocker |-> TRUE, gate |-> TRUE, clearRight |-> TRUE, clearLeft |-> TRUE]
MCSettings == {On, [On EXCEPT !.blocker = FALSE, !.emptyHand = FALSE, !.clearRight = FALSE]}
MCLoads == {{sword, enchanted, shield}, {sword, sword2, torch}, {sword, great, conjured},
            {bow, bow2, iron, steel}}
=============================================================================
