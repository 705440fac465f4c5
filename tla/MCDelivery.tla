------------------------------ MODULE MCDelivery ------------------------------
(* An answer of one file and two parts, and the rewriting of another message. *)
EXTENDS Delivery

CONSTANTS d1, d2

NoRewrites == [d \in Deliveries |-> None]
CardRewrite == [d \in Deliveries |-> IF d = d2 THEN d1 ELSE None]
=============================================================================
