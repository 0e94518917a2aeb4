------------------------------- MODULE MCPayments -------------------------------
(* Small instances of Payments for TLC. *)
EXTENDS Payments, TLC

CONSTANTS g1, g2, r1, r2

Symmetric == Permutations(GatewayOrders) \cup Permutations(Requests)
===============================================================================
