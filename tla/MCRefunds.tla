------------------------------ MODULE MCRefunds ------------------------------
(* A refund of the whole order and its retry, a partial refund of the same *)
(* order, and a refund of another order under the key of the first.  Three *)
(* returns of a line of two, one of them of both units.                    *)
EXTENDS Refunds, TLC

MCOrderOf == "first" :> "o1" @@ "retry" :> "o1" @@ "partial" :> "o1" @@ "other" :> "o2"
MCKeyOf == "first" :> "k1" @@ "retry" :> "k1" @@ "partial" :> "k2" @@ "other" :> "k1"
MCAmountOf == "first" :> 2 @@ "retry" :> 2 @@ "partial" :> 1 @@ "other" :> 1
MCQuantityOf == "one" :> 1 @@ "two" :> 2 @@ "more" :> 1
MCTotal == [o \in Order |-> 2]

=============================================================================
