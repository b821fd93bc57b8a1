------------------------------ MODULE MCOrders -------------------------------
(* Small instances of Orders: a pair of orders that compete for the last   *)
(* unit of an item and the last use of a coupon, and a single order of two *)
(* items, one of which may lapse before the other.                         *)
EXTENDS Orders, TLC

CONSTANTS o1, o2, case, strap, save10

PairNeed == (o1 :> (case :> 1)) @@ (o2 :> (case :> 1))
PairOnHand == case :> 1

SingleNeed == o1 :> (case :> 2 @@ strap :> 1)
SingleOnHand == case :> 2 @@ strap :> 1

OneUse == [c \in Coupon |-> 1]
TotalOfTwo == [o \in Order |-> 2]
NoCorrections == {}
NoRefunds == {}
NoCoupons == {}
Corrections == {-1, 1}

=============================================================================
