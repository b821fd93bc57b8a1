------------------------------ MODULE MCCheckout -----------------------------
(* A request, its retry, another request for the same cart, and a request  *)
(* of another cart that happens to carry the key of the first; one unit of *)
(* the item both carts hold.                                               *)
EXTENDS Checkout, TLC

CONSTANTS first, retry, other, stranger, case

MCNeed == [r \in Order |-> (case :> 1)]
MCOnHand == case :> 1

MCCartOf == [r \in Order |-> IF r = stranger THEN "cartB" ELSE "cartA"]
MCKeyOf == [r \in Order |-> IF r = other THEN "key2" ELSE "key1"]
MCBodyOf == [r \in Order |-> IF r \in {first, retry} THEN "transfer" ELSE "cash"]
MCReceiptOf == [r \in Order |-> IF r \in {first, retry} THEN "screenshot" ELSE NoReceipt]

NoCorrections == {}

=============================================================================
