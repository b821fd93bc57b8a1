----------------------------- MODULE MCInventory -----------------------------
(* Two orders competing for one stock item, one of them needing a second   *)
(* item as well, swept by the scheduler and by a manual trigger.           *)
EXTENDS Inventory, TLC

CONSTANTS o1, o2, case, strap

MCNeed == (o1 :> (case :> 2 @@ strap :> 1))
       @@ (o2 :> (case :> 1 @@ strap :> 0))

MCInitialOnHand == case :> 2 @@ strap :> 1

MCDeltas == {-1, 1}

=============================================================================
