------------------------------ MODULE MCDecision ------------------------------
(* A question in one channel and incidents in others. *)
EXTENDS Decision
=============================================================================
