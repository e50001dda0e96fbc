------------------------- MODULE MCHandItemRestore -------------------------
(* HandItemRestore on one follower and a handful of items.                 *)
EXTENDS HandItemRestore, TLC

CONSTANTS sword, great, shield, torch, bound, bow, arrow, f1

MCKinds ==
    sword :> "oneHand" @@ great :> "twoHand" @@ shield :> "shield"
        @@ torch :> "torch" @@ bound :> "boundOneHand" @@ bow :> "boundTwoHand" @@ arrow :> "ammo"

MCKindOf == [i \in Item |-> MCKinds[i]]

TwoSwords == [i \in Item |-> IF i = sword THEN 2 ELSE 1]

(* Three scenes: what the hands go through in one game; the same with the  *)
(* bow conjured into both in place of some, and with arrows; and the       *)
(* lifecycle, in which swords, torch and conjured weapons stay in the bag. *)
VARIABLE scene

Bagged ==
    Item \cap CASE scene = "hands" -> {bow, arrow}
                 [] scene = "bow" -> {shield, torch, bound}
                 [] scene = "lifecycle" -> {sword, torch, bound, bow}

StaysBagged ==
    \A a \in Actor, i \in Bagged :
        inv'[a][i] = 1 /\ \A h \in DOMAIN worn'[a] : worn'[a][h] # i

MCInit == Init /\ scene \in {"hands", "bow", "lifecycle"}

InScene ==
    /\ UNCHANGED scene
    /\ \/ RunTask \/ MenuStep \/ GameStep
       \/ scene = "lifecycle" /\ LifecycleStep
    /\ StaysBagged

MCSpec == MCInit /\ [][InScene]_<<vars, scene>> /\ WF_vars(RunTask)

(* Requests settle in the scenes without loads, which clear the requests.   *)
RequestsSettleInGame == (scene # "lifecycle") => RequestsSettle
============================================================================
