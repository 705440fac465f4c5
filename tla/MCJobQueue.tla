------------------------------ MODULE MCJobQueue ------------------------------
(***************************************************************************)
(* Two jobs of one session and one of another, one of them short-lived.    *)
(***************************************************************************)
EXTENDS JobQueue, TLC

CONSTANTS j1, j2, j3, s1, s2

MCSessionOf == (j1 :> s1) @@ (j2 :> s1) @@ (j3 :> s2)
=============================================================================
