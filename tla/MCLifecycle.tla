----------------------------- MODULE MCLifecycle -----------------------------
(***************************************************************************)
(* Instances of JobLifecycle.                                              *)
(***************************************************************************)
EXTENDS JobLifecycle, TLC

CONSTANTS j1, j2, s1

WorkerSymmetry == Permutations(Workers)

OneSession == [j \in Jobs |-> s1]
=============================================================================
