----------------------------- MODULE MCAdmission -----------------------------
(* Two callers of one channel and two reservations. *)
EXTENDS Admission
=============================================================================
