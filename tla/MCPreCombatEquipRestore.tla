---------------------- MODULE MCPreCombatEquipRestore ----------------------
(* PreCombatEquipRestore on one follower and a handful of items.           *)
EXTENDS PreCombatEquipRestore, TLC

CONSTANTS sword, dagger, great, shield, torch, bound, bow, arrow, f1

MCKinds ==
    sword :> "oneHand" @@ dagger :> "oneHand" @@ great :> "twoHand" @@ shield :> "shield"
        @@ torch :> "torch" @@ bound :> "boundOneHand" @@ bow :> "boundTwoHand" @@ arrow :> "ammo"

MCKindOf == [i \in Item |-> MCKinds[i]]

(* A follower's life with one weapon, which stays out of the left hand.     *)
LifeSpec == Init /\ [][Next /\ \A a \in Actor : worn'[a].left = NoItem]_vars

(* One game, with its fights.                                              *)
GameSpec == Init /\ [][CombatStep \/ FrameStep \/ GearStep]_vars
FairGameSpec == GameSpec /\ WF_vars(FrameStep)
============================================================================
