------------------------- MODULE ReconcileRequests -------------------------
(***************************************************************************)
(* What the reconcile requests of the hand-item restore promise, whatever  *)
(* the queues behind them: an accepted request stays owed until a restore  *)
(* serves it, until it is dropped for an actor that is no longer admitted, *)
(* or until the lifecycle cancels it.  A request made while the drop of an *)
(* older one is under way is merged into it and shares its fate.           *)
(***************************************************************************)
CONSTANT Actor

VARIABLES
    admitted,  \* actors whose requests are accepted: eligible, feature on
    owed,      \* actors with an accepted request that was not yet served
    doomed,    \* actors whose request is about to be dropped
    serving,   \* actors a restore is about to run for
    cancels    \* flips with every cancellation by the lifecycle

vars == <<admitted, owed, doomed, serving, cancels>>

TypeOK ==
    /\ admitted \subseteq Actor
    /\ owed \subseteq Actor
    /\ doomed \subseteq Actor
    /\ serving \subseteq Actor
    /\ cancels \in BOOLEAN

Init ==
    /\ admitted \subseteq Actor
    /\ owed = {} /\ doomed = {} /\ serving = {} /\ cancels = FALSE

Accept(a) ==
    /\ a \in admitted
    /\ owed' = owed \cup {a}
    /\ UNCHANGED <<admitted, doomed, serving, cancels>>

(* A request that came in meanwhile, or is parked, stays owed.             *)
Serve(a) ==
    /\ a \in owed
    /\ owed' \in {owed, owed \ {a}}
    /\ serving' = serving \cup {a}
    /\ UNCHANGED <<admitted, doomed, cancels>>

Finish(a) ==
    /\ a \in serving
    /\ serving' = serving \ {a}
    /\ UNCHANGED <<admitted, owed, doomed, cancels>>

Doom(a) ==
    /\ a \notin admitted
    /\ doomed' = doomed \cup {a}
    /\ UNCHANGED <<admitted, owed, serving, cancels>>

(* The drop takes a pending request; one that is parked for the menu at    *)
(* the same time stays owed.                                               *)
Drop(a) ==
    /\ a \in doomed
    /\ doomed' = doomed \ {a}
    /\ owed' \in {owed, owed \ {a}}
    /\ UNCHANGED <<admitted, serving, cancels>>

(* The menu-close requests of actors that are not admitted go at once.     *)
DropParked(S) ==
    /\ S \cap admitted = {}
    /\ owed' = owed \ S
    /\ UNCHANGED <<admitted, doomed, serving, cancels>>

Cancel(S) ==
    /\ owed' = owed \ S
    /\ admitted' \in {admitted, {}}
    /\ cancels' = ~cancels
    /\ UNCHANGED <<doomed, serving>>

Admit(S) ==
    /\ admitted' = S
    /\ UNCHANGED <<owed, doomed, serving, cancels>>

Next ==
    \/ \E a \in Actor : Accept(a) \/ Serve(a) \/ Finish(a) \/ Doom(a) \/ Drop(a)
    \/ \E S \in SUBSET Actor : DropParked(S) \/ Cancel(S) \/ Admit(S)

Spec == Init /\ [][Next]_vars
============================================================================
