----------------------------- MODULE MCDelivery -----------------------------
(* Two events: one alone, two in one digest, one late for the other's flush. *)
EXTENDS Delivery

CONSTANTS e1, e2

MCEvents == {e1, e2}
=============================================================================
