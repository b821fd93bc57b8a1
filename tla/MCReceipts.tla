----------------------------- MODULE MCReceipts -----------------------------
(* Uploads of one cart, which may all run at the same time, before and     *)
(* after its checkout.                                                     *)
EXTENDS Receipts

MCCartOf == [u \in Upload |-> "cart"]

=============================================================================
