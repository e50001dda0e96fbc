---------------------------- MODULE MCOutfitSync ----------------------------
(* A robe over body and feet, boots, and a hood and a helmet for the head. *)
EXTENDS OutfitSync, TLC

CONSTANTS robe, boots, hood, helmet, Smith

MCArmor == {robe, boots, hood, helmet}
MCSlot == {"hair", "circlet", "body", "feet"}
MCHeadOrder == <<"hair", "circlet">>
MCSlotsOf == robe :> {"body", "feet"} @@ boots :> {"feet"} @@ hood :> {"hair"}
             @@ helmet :> {"hair", "circlet"}
MCOutfit == {Smith, NoOutfit}
MCGearOf == Smith :> {hood} @@ NoOutfit :> {}

Game(suppress, allow, headgear, saves, outfits, scarce, stock) ==
    [cfg |-> [suppress |-> suppress, restore |-> TRUE, allow |-> allow, headgear |-> headgear,
              saves |-> saves, outfits |-> outfits, scarce |-> scarce],
     carried |-> stock]

(* The body with and without outfit changes allowed, the head with outfit  *)
(* and headgear features both at work, and the head with saves.            *)
MCBody(allow) == Game(TRUE, allow, FALSE, FALSE, MCOutfit, {boots}, {robe, boots})
MCHead(allow) == Game(TRUE, allow, TRUE, FALSE, MCOutfit, {}, {hood, helmet})
MCHeadSaved == Game(FALSE, FALSE, TRUE, TRUE, {}, {}, {helmet})
MCGames == {MCBody(TRUE), MCBody(FALSE), MCHead(TRUE), MCHead(FALSE), MCHeadSaved}
=============================================================================
