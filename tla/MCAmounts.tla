------------------------------ MODULE MCAmounts ------------------------------
(* A cart is priced, or refunds and returns of an order are recorded:      *)
(* neither reads what the other keeps.                                     *)
EXTENDS MCRefunds, MCPricing

VARIABLE what

AnyInput == CHOOSE input \in Carts \X Offers \X Coupons : TRUE

AmountsInit ==
  /\ what \in {"price", "refund"}
  /\ Init /\ PricingInit
  /\ what = "refund" => <<cart, offers, coupon>> = AnyInput
  /\ what = "price" => \A o \in Order : payment[o] = "PAID"

AmountsNext ==
  /\ UNCHANGED what
  /\ \/ what = "price" /\ PricingNext /\ UNCHANGED vars
     \/ what = "refund" /\ Next /\ UNCHANGED pricingVars

AmountsSpec == AmountsInit /\ [][AmountsNext]_<<what, vars, pricingVars>>

=============================================================================
