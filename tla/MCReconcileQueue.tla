-------------------------- MODULE MCReconcileQueue --------------------------
(* ReconcileQueue with the main thread and up to two others.               *)
EXTENDS ReconcileQueue, TLC

CONSTANTS f1, f2, w1, w2

Followers == Permutations(Actor)
=============================================================================
