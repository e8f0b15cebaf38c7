----------------------------- MODULE MCPayments -----------------------------
(* Instances of Payments for TLC. *)
EXTENDS Payments, TLC

CONSTANTS o1, o2, k1, p1, p2, c1, c2

\* o1 is paid through both providers, o2 through Payme; the product of o2 lists
\* nothing to grant.
MCOrders    == {o1, o2}
MCClick     == {k1}
MCPayme     == {p1, p2}
MCOrderOf   == (k1 :> o1 @@ p1 :> o1 @@ p2 :> o2)
MCGranting  == {o1}
MCCalls     == {c1, c2}
=============================================================================
