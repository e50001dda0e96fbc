---------------------------- MODULE MCTradeMenu ----------------------------
(* Bounds of the run: two followers and a corpse. Some games have one item   *)
(* that can be equipped, of which actor and player hold up to three copies;  *)
(* the others have poisons, a potion and a tome, a unit or two of each.      *)
EXTENDS TradeMenu

CONSTANTS Ann, Ben, Cor, venom, toxin, draught, book

Own(n) == [plain |-> n, lists |-> (1 :> [n |-> 1, worn |-> "no", own |-> TRUE])]
Plain(n) == [plain |-> n, lists |-> <<>>]

Basic == [kind |-> "weapon", supported |-> TRUE, headgear |-> FALSE, corpse |-> TRUE,
          allowed |-> TRUE, donor |-> TRUE, poison |-> "off", tomes |-> FALSE, keepTomes |-> FALSE,
          stacking |-> FALSE, maxCharges |-> 2, doses |-> 1,
          hands |-> [right |-> "weapon", left |-> "weapon"],
          actors |-> {Ann}, gear |-> <<>>, stock |-> <<>>]

GearGames ==
    {[Basic EXCEPT !.kind = k, !.gear = (Ann :> Plain(2)) @@ (Player :> Own(1))] : k \in Gear}
    \cup {[Basic EXCEPT !.kind = k, !.gear = (Ann :> Own(1)) @@ (Player :> Plain(1))] : k \in Gear}
    \cup {[Basic EXCEPT !.gear = (Ann :> Plain(2)), !.donor = FALSE],
          [Basic EXCEPT !.gear = (Ann :> Plain(2)), !.allowed = FALSE],
          [Basic EXCEPT !.gear = (Ann :> Plain(1)) @@ (Player :> Own(1)), !.supported = FALSE],
          [Basic EXCEPT !.kind = "armor", !.gear = (Ann :> Own(1)) @@ (Player :> Plain(1)), !.headgear = TRUE],
          [Basic EXCEPT !.gear = (Cor :> Own(1)) @@ (Player :> Plain(1)), !.actors = {Cor}],
          [Basic EXCEPT !.gear = (Cor :> Plain(1)) @@ (Player :> Own(0)), !.actors = {Cor}, !.allowed = FALSE]}

Using == [Basic EXCEPT !.kind = "none", !.tomes = TRUE, !.actors = {Ann, Ben}]
Coating == [Using EXCEPT !.poison = "coat", !.actors = {Ann},
                         !.stock = (Player :> ((venom :> 2) @@ (toxin :> 1))) @@ (Ann :> (venom :> 1))]

UseGames ==
    {[Using EXCEPT !.stock = (Player :> ((draught :> 1) @@ (book :> 2))) @@ (Ann :> (draught :> 1))],
     [Using EXCEPT !.poison = "drink", !.keepTomes = TRUE,
                   !.stock = (Player :> ((venom :> 1) @@ (book :> 1))) @@ (Ann :> (venom :> 1))],
     Coating, [Coating EXCEPT !.stacking = TRUE],
     [Coating EXCEPT !.stacking = TRUE, !.maxCharges = 3, !.doses = 2,
                     !.hands = [right |-> "twoHander", left |-> "none"]]}

MCGames == GearGames \cup UseGames
=============================================================================
