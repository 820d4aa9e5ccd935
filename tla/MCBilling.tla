----------------------------- MODULE MCBilling ------------------------------
(* Instances of Billing for TLC. *)
EXTENDS Billing, TLC

CONSTANTS o1, o2, p1, p2, x1, c1

TwoOrders == {o1, o2}
TwoPays == {p1, p2}
OneCancel == {x1}
NoCancel == {}
OneContract == {c1}
=============================================================================
