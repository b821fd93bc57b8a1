------------------------------- MODULE Refunds -------------------------------
(***************************************************************************)
(* RefundsService: staff record money that was sent back and goods that    *)
(* came back, statement by statement.  A refund carries an idempotency     *)
(* key, and the client that saw no answer asks again with the same key,    *)
(* perhaps while its first request still runs; a return carries none.      *)
(*                                                                         *)
(* Rows are locked as PostgreSQL does: FOR UPDATE on the order or the line,*)
(* and the entry of an uncommitted row in the unique index on keys.        *)
(***************************************************************************)
EXTENDS Integers, FiniteSets

CONSTANTS
  Order, Key,
  Attempt,   \* requests that record a refund
  Return,    \* requests that record a return
  OrderOf, KeyOf, AmountOf,  \* what each attempt asks for
  QuantityOf,                \* what each return brings back, all of one line
  Total,     \* Total[o]: orders.total
  Purchased, \* order_items.quantity of the line
  NoRefund, Nobody

ASSUME RefundsAssumption ==
  /\ IsFiniteSet(Key)
  /\ OrderOf \in [Attempt -> Order]
  /\ KeyOf \in [Attempt -> Key]
  /\ AmountOf \in [Attempt -> Nat \ {0}]
  /\ QuantityOf \in [Return -> Nat \ {0}]
  /\ Total \in [Order -> Nat]
  /\ Purchased \in Nat \ {0}
  /\ Attempt \cap Return = {}
  /\ Nobody \notin Attempt \cup Return
  /\ "committed" \notin Return
  /\ NoRefund \notin [order : Order, amount : Nat \ {0}]

VARIABLES
  payment,   \* payment[o]: orders."paymentStatus"
  refund,    \* refund[k]: the committed row with key k, or NoRefund
  inserted,  \* inserted[k]: the attempt whose uncommitted row has key k
  locked,    \* locked[o]: the attempt that holds the row of o
  pc,        \* pc[a]: the next statement of an attempt or a return
  answer,    \* answer[a]: what an attempt was answered, or "none"
  lineLock,  \* the return that holds the row of the line
  returned   \* sums of order_item_returns.quantity: committed, and read

refundVars == <<payment, refund, inserted, locked, answer>>
returnVars == <<lineLock, returned>>
vars == <<refundVars, returnVars, pc>>

Goto(a, step) == pc' = [pc EXCEPT ![a] = step]

RefundsOf(o) == {k \in Key : refund[k] # NoRefund /\ refund[k].order = o}
Refunded(o) ==  \* order_refunds.amount added up: one pair for each unit of money
  Cardinality(UNION {{k} \X (1 .. refund[k].amount) : k \in RefundsOf(o)})

RefundsTypeOK ==
  /\ payment \in [Order -> {"UNPAID", "PAID", "PARTIALLY_REFUNDED", "REFUNDED"}]
  /\ refund \in [Key -> {NoRefund} \cup [order : Order, amount : Nat \ {0}]]
  /\ inserted \in [Key -> Attempt \cup {Nobody}]
  /\ locked \in [Order -> Attempt \cup {Nobody}]
  /\ pc \in [Attempt \cup Return ->
              {"start", "look", "insert", "commit", "record", "done"}]
  /\ answer \in [Attempt -> {"none", "refund", "refused", "conflict", "error"}]
  /\ lineLock \in Return \cup {Nobody}
  /\ returned \in [Return \cup {"committed"} -> Nat]

-----------------------------------------------------------------------------
(* recordRefund.                                                           *)

(* Mistaken variant: the row is read and not locked.                       *)
LockFreely(a) ==
  /\ pc[a] = "start"
  /\ Goto(a, "look")
  /\ UNCHANGED <<refundVars, returnVars>>

Lock(a) ==
  /\ pc[a] = "start"
  /\ locked[OrderOf[a]] = Nobody
  /\ locked' = [locked EXCEPT ![OrderOf[a]] = a]
  /\ Goto(a, "look")
  /\ UNCHANGED <<payment, refund, inserted, answer, returnVars>>

(* The transaction ends: its locks and its entry in the index go with it.  *)
End(a, result) ==
  /\ locked' = [o \in Order |-> IF locked[o] = a THEN Nobody ELSE locked[o]]
  /\ inserted' = [k \in Key |-> IF inserted[k] = a THEN Nobody ELSE inserted[k]]
  /\ answer' = [answer EXCEPT ![a] = result]
  /\ Goto(a, "done")
  /\ UNCHANGED returnVars

Refundable(a) ==
  /\ payment[OrderOf[a]] \in {"PAID", "PARTIALLY_REFUNDED"}
  /\ Refunded(OrderOf[a]) + AmountOf[a] <= Total[OrderOf[a]]

(* Mistaken variant: the order is looked at before the key.                *)
ReplayIfRefundable(a) ==
  LET existing == refund[KeyOf[a]] IN
  /\ pc[a] = "look"
  /\ existing # NoRefund
  /\ End(a, IF existing.order = OrderOf[a] /\ Refundable(a) THEN "refund" ELSE "refused")
  /\ UNCHANGED <<payment, refund>>

(* The key comes first: a refund that is recorded is answered again        *)
(* whatever became of the order, unless it is one of another order.        *)
Replay(a) ==
  LET existing == refund[KeyOf[a]] IN
  /\ pc[a] = "look"
  /\ existing # NoRefund
  /\ End(a, IF existing.order = OrderOf[a] THEN "refund" ELSE "refused")
  /\ UNCHANGED <<payment, refund>>

Refuse(a) ==
  /\ pc[a] = "look"
  /\ refund[KeyOf[a]] = NoRefund
  /\ ~Refundable(a)
  /\ End(a, "refused")
  /\ UNCHANGED <<payment, refund>>

Accept(a) ==
  /\ pc[a] = "look"
  /\ refund[KeyOf[a]] = NoRefund
  /\ Refundable(a)
  /\ Goto(a, "insert")
  /\ UNCHANGED <<refundVars, returnVars>>

(* Another order is locked by another row: only the index on keys orders   *)
(* two attempts with one key.  An uncommitted entry makes the second wait. *)
Insert(a) ==
  /\ pc[a] = "insert"
  /\ inserted[KeyOf[a]] = Nobody
  /\ refund[KeyOf[a]] = NoRefund
  /\ inserted' = [inserted EXCEPT ![KeyOf[a]] = a]
  /\ Goto(a, "commit")
  /\ UNCHANGED <<payment, refund, locked, answer, returnVars>>

InsertConflicts(a) ==
  /\ pc[a] = "insert"
  /\ refund[KeyOf[a]] # NoRefund
  /\ End(a, "conflict")
  /\ UNCHANGED <<payment, refund>>

(* The status of the order and the commit.                                 *)
Commit(a) ==
  LET o == OrderOf[a] IN
  /\ pc[a] = "commit"
  /\ refund' = [refund EXCEPT ![KeyOf[a]] = [order |-> o, amount |-> AmountOf[a]]]
  /\ payment' = [payment EXCEPT ![o] =
       IF Refunded(o) + AmountOf[a] >= Total[o] THEN "REFUNDED"
                                                ELSE "PARTIALLY_REFUNDED"]
  /\ End(a, "refund")

(* A crash or a timeout of the transaction: nothing of the refund stays,   *)
(* except the audit entry, which another connection wrote.                 *)
Fail(a) ==
  /\ pc[a] \in {"look", "insert", "commit"}
  /\ End(a, "error")
  /\ UNCHANGED <<payment, refund>>

(* updatePaymentStatus, as far as refunds see it.                          *)
MarkPaid(o) ==
  /\ locked[o] = Nobody
  /\ payment[o] = "UNPAID"
  /\ payment' = [payment EXCEPT ![o] = "PAID"]
  /\ UNCHANGED <<refund, inserted, locked, answer, pc, returnVars>>

-----------------------------------------------------------------------------
(* recordItemReturn, under the lock of the line; stock is not touched.     *)

(* Mistaken variant: the line is read and not locked.                      *)
ReadLineFreely(r) ==
  /\ pc[r] = "start"
  /\ returned' = [returned EXCEPT ![r] = returned["committed"]]
  /\ Goto(r, "record")
  /\ UNCHANGED <<refundVars, lineLock>>

ReadLine(r) ==
  /\ pc[r] = "start"
  /\ lineLock = Nobody
  /\ lineLock' = r
  /\ returned' = [returned EXCEPT ![r] = returned["committed"]]
  /\ Goto(r, "record")
  /\ UNCHANGED refundVars

RecordReturn(r) ==
  /\ pc[r] = "record"
  /\ returned' = [returned EXCEPT !["committed"] =
       IF returned[r] + QuantityOf[r] > Purchased THEN @ ELSE @ + QuantityOf[r]]
  /\ lineLock' = Nobody
  /\ Goto(r, "done")
  /\ UNCHANGED refundVars

FailReturn(r) ==
  /\ pc[r] = "record"
  /\ lineLock' = Nobody
  /\ Goto(r, "done")
  /\ UNCHANGED <<refundVars, returned>>

-----------------------------------------------------------------------------
Init ==
  /\ payment \in [Order -> {"UNPAID", "PAID"}]
  /\ refund = [k \in Key |-> NoRefund]
  /\ inserted = [k \in Key |-> Nobody]
  /\ locked = [o \in Order |-> Nobody]
  /\ pc = [a \in Attempt \cup Return |-> "start"]
  /\ answer = [a \in Attempt |-> "none"]
  /\ lineLock = Nobody
  /\ returned = [r \in Return \cup {"committed"} |-> 0]

RefundStep(a) ==
  \/ Lock(a)
  \/ Replay(a)
  \/ Refuse(a)
  \/ Accept(a)
  \/ Insert(a)
  \/ InsertConflicts(a)
  \/ Commit(a)

ReturnStep(r) == ReadLine(r) \/ RecordReturn(r)

Next ==
  \/ \E a \in Attempt : RefundStep(a) \/ Fail(a)
  \/ \E r \in Return : ReturnStep(r) \/ FailReturn(r)
  \/ \E o \in Order : MarkPaid(o)

Spec == Init /\ [][Next]_vars

-----------------------------------------------------------------------------
(* The recorded refunds of an order are never more than was paid, and the  *)
(* status of the order says how far they go: simultaneous refunds are not  *)
(* lost from the sum that recordRefund derives the status from.            *)
RefundsAddUp ==
  \A o \in Order :
    /\ Refunded(o) <= Total[o]
    /\ payment[o] = "REFUNDED" <=> Refunded(o) = Total[o] /\ RefundsOf(o) # {}
    /\ payment[o] = "PARTIALLY_REFUNDED" <=> Refunded(o) \in 1 .. Total[o] - 1

(* A retry is answered with the refund its key has recorded, also after    *)
(* that refund moved the order to REFUNDED; nobody is told of a refund     *)
(* that is not recorded or is one of another order.                        *)
RetryGetsTheRefund ==
  [][\A a \in Attempt : answer[a] = "none" =>
       LET own == refund'[KeyOf[a]] # NoRefund /\ refund'[KeyOf[a]].order = OrderOf[a]
       IN  /\ answer'[a] = "refund" => own
           /\ answer'[a] \in {"refused", "conflict"} => ~own]_vars

(* No more units of a line come back than were bought, however the returns *)
(* run into each other.                                                    *)
ReturnsWithinPurchase == returned["committed"] <= Purchased

=============================================================================
