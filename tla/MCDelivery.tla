----------------------------- MODULE MCDelivery -----------------------------
(* Delivery for TLC. *)
EXTENDS Delivery

CONSTANTS p1, p2

OneProc == {p1}
TwoProcs == {p1, p2}
=============================================================================
