---------------------------- MODULE MCActorStores ----------------------------
(* Instances of ActorStores for TLC. *)
EXTENDS ActorStores

CONSTANTS summon, follower, oakflesh

MCSummons == {summon}
MCNobody == {}
MCSpells == {oakflesh}

(* Four scenes: one session, in which FormIDs are recycled, the mod is      *)
(* switched off and on and two tasks may be queued; one in which it is      *)
(* switched off and on between two trades with the same actor; saves and    *)
(* loads, of all stores but the spells; and saves and loads with spells,    *)
(* where nobody is excluded and no preference recorded.                     *)
VARIABLE scene

MCInit == Init /\ scene \in {"session", "switches", "loads", "spells"}

InScene ==
    /\ UNCHANGED scene
    /\ \/ TradeStep \/ PageStep \/ RunTask \/ EngineStep
       \/ scene \in {"loads", "spells"} /\ LifecycleStep
    /\ scene = "session" => used'.toggles <= 1
    /\ scene # "session" => Len(tasks') <= 1 /\ used'.spawns = 0
    /\ scene \in {"loads", "spells"} => used'.toggles = 0
    /\ scene \in {"switches", "loads"} => suppressed' = {}
    /\ scene = "spells" => excluded' = {} /\ prefs' = {}

MCSpec == MCInit /\ [][InScene]_<<vars, scene>> /\ WF_vars(RunTask)

(* A load drops the queue, and what is queued in it.                        *)
RestoreIsDeliveredInSession == (scene \in {"session", "switches"}) => RestoreIsDelivered
==============================================================================
