-------------------------- MODULE MCOutfitSanitizer --------------------------
(* Instances of OutfitSanitizer for TLC.                                   *)
EXTENDS OutfitSanitizer

CONSTANTS f1, c1, c2, c3, bare, named, w1

(* Three scenes: one in which another thread adds copies too, all without  *)
(* an identity; one in which copies have different identities; and one in  *)
(* which the settings and the default outfit change, and with them what a  *)
(* pass strips. In the first two a pass strips all it finds.               *)
VARIABLE scene

AllRevealed == reveal = Reveals /\ inOutfit = {} /\ \A a \in Actor : scope[a] # "summon"

MCInit == Init /\ scene \in {"threads", "identities", "settings"} /\ (scene # "settings" => AllRevealed)

InScene ==
    /\ Next /\ UNCHANGED scene
    /\ scene # "settings" => AllRevealed'
    /\ scene # "identities" => \A a \in Actor : \A c \in Here(a)' : copies'[a][c].sig = Bare
    /\ scene # "threads" => \A t \in Worker : op'[t] = "idle"
    /\ scene = "settings" => \A a \in Actor : Cardinality(Here(a)') < 2

MCSpec == MCInit /\ [][InScene]_<<vars, scene>> /\ Fairness
=============================================================================
