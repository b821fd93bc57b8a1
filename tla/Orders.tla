------------------------------- MODULE Orders --------------------------------
(***************************************************************************)
(* The life of an order after checkout: its fulfillment and payment status *)
(* (OrdersService), the stock it holds (Inventory), the coupon use it took,*)
(* its InstaPay receipts (ReceiptsService) and refunds (RefundsService),   *)
(* and the sweep that cancels overdue orders (OrderExpiryService).         *)
(*                                                                         *)
(* Every handler that changes an order's status first locks the order row  *)
(* and reads everything again under the lock, and the rows it shares with  *)
(* handlers of other orders are changed by conditional UPDATEs, so such a  *)
(* transaction is one step.  Two things in this component are not one      *)
(* step: the sweep, which selects rows and handles each later, and the     *)
(* upload of a replacement receipt, whose transaction reads the order and  *)
(* its latest receipt without a lock before it inserts.                    *)
(*                                                                         *)
(* A cart becomes at most one order (the module Checkout is about that), so*)
(* an order is named before it exists: fulfillment "NONE" is a cart not    *)
(* yet checked out.                                                        *)
(***************************************************************************)
EXTENDS Inventory, Sequences

CONSTANTS
  Coupon,         \* rows of coupons
  UsageLimit,     \* UsageLimit[c]: coupons."usageLimit"
  NoCoupon,       \* orders."couponId" is null
  Total,          \* Total[o]: orders.total, what is paid for o
  RefundAmounts,  \* amounts staff may enter for one refund
  Scheduler,      \* the sweeper that runs on a timer
  CodExpires,     \* whether COD_EXPIRY_MINUTES is configured
  MaxReceipts,    \* bound: receipts of one order, those being uploaded included
  MaxFailures     \* bound: sweeps that crash and cancellations that throw

ASSUME OrdersAssumption ==
  /\ IsFiniteSet(Coupon)
  /\ NoCoupon \notin Coupon
  /\ UsageLimit \in [Coupon -> Nat]
  /\ Total \in [Order -> Nat]
  /\ RefundAmounts \subseteq Nat \ {0}
  /\ Scheduler \in Sweeper
  /\ CodExpires \in BOOLEAN
  /\ MaxReceipts \in Nat \ {0}
  /\ MaxFailures \in Nat

VARIABLES
  fulfillment,    \* orders."fulfillmentStatus"
  payment,        \* orders."paymentStatus"
  method,         \* orders."paymentMethod"
  deadline,       \* orders."reservationDeadline" against the clock
  coupon,         \* orders."couponId"
  couponReleased, \* orders."couponUsageReleased"
  usageCount,     \* coupons."usageCount"
  receipts,       \* statuses of the receipts attached to o, oldest first
  replacing,      \* replacing[o]: replacements past their re-check, not inserted
  refunded,       \* refunded[o]: sum of the refunds recorded for o
  overdue,        \* overdue[w]: orders sweep w selected and has not tried yet
  sweepPc,        \* where sweep w is
  failures        \* failures met so far

couponVars == <<coupon, couponReleased, usageCount>>
proofVars == <<receipts, replacing>>
sweepVars == <<overdue, sweepPc, failures>>
orderVars == <<fulfillment, payment, method, deadline, couponVars, proofVars,
               refunded, sweepVars>>
vars == <<inventoryVars, orderVars>>

FulfillmentStatus ==
  {"PENDING", "CONFIRMED", "PREPARING", "SHIPPED", "DELIVERED", "CANCELLED"}
PaymentStatus ==
  {"UNPAID", "PENDING", "PAID", "FAILED", "PARTIALLY_REFUNDED", "REFUNDED"}
PaymentMethod == {"CASH_ON_DELIVERY", "INSTAPAY_MANUAL"}
ReceiptStatus == {"PENDING_REVIEW", "ACCEPTED", "REJECTED"}

FULFILLMENT_TRANSITIONS ==
  [PENDING   |-> {"CONFIRMED", "CANCELLED"},
   CONFIRMED |-> {"PREPARING", "CANCELLED"},
   PREPARING |-> {"SHIPPED", "CANCELLED"},
   SHIPPED   |-> {"DELIVERED"},
   DELIVERED |-> {},
   CANCELLED |-> {}]

PAYMENT_TRANSITIONS ==
  [UNPAID             |-> {"PENDING", "PAID", "FAILED"},
   PENDING            |-> {"PAID", "FAILED"},
   FAILED             |-> {"PENDING", "PAID"},
   PAID               |-> {"PARTIALLY_REFUNDED", "REFUNDED"},
   PARTIALLY_REFUNDED |-> {"REFUNDED"},
   REFUNDED           |-> {}]

-----------------------------------------------------------------------------

Placed(o) == fulfillment[o] # "NONE"

NeverPaid(o) == payment[o] \in {"UNPAID", "PENDING", "FAILED"}

(* Every reservation the order ever had is still held or was consumed; an  *)
(* order of unlimited stock only has none.                                 *)
FullyCovered(o) == \A s \in StockItem : reservation[o][s] \in {"NONE", "ACTIVE", "CONSUMED"}

HasPending(o) == \E i \in DOMAIN receipts[o] : receipts[o][i] = "PENDING_REVIEW"

AcceptPending(rs) ==
  [i \in DOMAIN rs |-> IF rs[i] = "PENDING_REVIEW" THEN "ACCEPTED" ELSE rs[i]]

UsesOf(c) == {o \in Order : coupon[o] = c /\ ~couponReleased[o]}

(* "usageCount" = GREATEST("usageCount" - 1, 0), where a use is released.  *)
ReleaseUse(o) ==
  usageCount' = [c \in Coupon |->
    IF c = coupon[o] /\ usageCount[c] > 0 THEN usageCount[c] - 1 ELSE usageCount[c]]

-----------------------------------------------------------------------------
(* Checkout, as the single transaction that creates the order.             *)

CreateOrder(o, m, c) ==
  LET ttl == IF m = "INSTAPAY_MANUAL" \/ CodExpires THEN "FUTURE" ELSE "NULL" IN
  /\ ~Placed(o)
  /\ c \in Coupon => usageCount[c] < UsageLimit[c]
  /\ usageCount' = [d \in Coupon |-> IF d = c THEN usageCount[d] + 1 ELSE usageCount[d]]
  /\ ReserveItems(o, ItemsOf(o), ttl)
  /\ fulfillment' = [fulfillment EXCEPT ![o] = "PENDING"]
  /\ method' = [method EXCEPT ![o] = m]
  /\ deadline' = [deadline EXCEPT ![o] = ttl]
  /\ coupon' = [coupon EXCEPT ![o] = c]
  /\ receipts' = [receipts EXCEPT ![o] =
       IF m = "INSTAPAY_MANUAL" THEN <<"PENDING_REVIEW">> ELSE <<>>]
  /\ UNCHANGED <<payment, couponReleased, replacing, refunded, sweepVars>>

-----------------------------------------------------------------------------
(* updateFulfillmentStatus, by target.                                     *)

(* Mutant: the hold keeps its expiry.                                      *)
ConfirmWithoutPin(o) ==
  /\ fulfillment[o] = "PENDING"
  /\ FullyCovered(o)
  /\ fulfillment' = [fulfillment EXCEPT ![o] = "CONFIRMED"]
  /\ UNCHANGED <<inventoryVars, payment, method, deadline, couponVars, proofVars,
                 refunded, sweepVars>>

Confirm(o) ==
  /\ fulfillment[o] = "PENDING"
  /\ FullyCovered(o)
  /\ PinActiveForOrder(o)
  /\ fulfillment' = [fulfillment EXCEPT ![o] = "CONFIRMED"]
  /\ UNCHANGED <<payment, method, deadline, couponVars, proofVars, refunded, sweepVars>>

Advance(o, target) ==
  /\ Placed(o)
  /\ target \in FULFILLMENT_TRANSITIONS[fulfillment[o]] \ {"CONFIRMED", "CANCELLED"}
  /\ target = "PREPARING" /\ method[o] = "INSTAPAY_MANUAL" => payment[o] = "PAID"
  /\ fulfillment' = [fulfillment EXCEPT ![o] = target]
  /\ UNCHANGED <<inventoryVars, payment, method, deadline, couponVars, proofVars,
                 refunded, sweepVars>>

(* Mutant: the use of the coupon comes back whatever was paid.             *)
CancelReleasingPaidUse(o) ==
  LET release == coupon[o] \in Coupon /\ ~couponReleased[o] IN
  /\ Placed(o)
  /\ "CANCELLED" \in FULFILLMENT_TRANSITIONS[fulfillment[o]]
  /\ ReleaseItems(o, ActiveItems(o), "RELEASED")
  /\ fulfillment' = [fulfillment EXCEPT ![o] = "CANCELLED"]
  /\ couponReleased' = [couponReleased EXCEPT ![o] = @ \/ release]
  /\ IF release THEN ReleaseUse(o) ELSE UNCHANGED usageCount
  /\ UNCHANGED <<candidates, payment, method, deadline, coupon, proofVars, refunded,
                 sweepVars>>

(* Mutant: what a paid order consumed goes back on the shelf.              *)
CancelRestocking(o) ==
  /\ Placed(o)
  /\ "CANCELLED" \in FULFILLMENT_TRANSITIONS[fulfillment[o]]
  /\ onHand' = [s \in StockItem |->
       IF reservation[o][s] = "CONSUMED" THEN onHand[s] + Need[o][s] ELSE onHand[s]]
  /\ fulfillment' = [fulfillment EXCEPT ![o] = "CANCELLED"]
  /\ UNCHANGED <<reserved, reservation, expiry, adjusted, shipped, candidates,
                 payment, method, deadline, couponVars, proofVars, refunded, sweepVars>>

(* The use of the coupon comes back only if the order was never paid.      *)
Cancel(o) ==
  LET release == coupon[o] \in Coupon /\ ~couponReleased[o] /\ NeverPaid(o) IN
  /\ Placed(o)
  /\ "CANCELLED" \in FULFILLMENT_TRANSITIONS[fulfillment[o]]
  /\ ReleaseItems(o, ActiveItems(o), "RELEASED")
  /\ fulfillment' = [fulfillment EXCEPT ![o] = "CANCELLED"]
  /\ couponReleased' = [couponReleased EXCEPT ![o] = @ \/ release]
  /\ IF release THEN ReleaseUse(o) ELSE UNCHANGED usageCount
  /\ UNCHANGED <<candidates, payment, method, deadline, coupon, proofVars, refunded, sweepVars>>

-----------------------------------------------------------------------------
(* updatePaymentStatus, by target, and recordRefund.                       *)

(* Mutant: a cancelled order is not refused.                               *)
SetPaymentOfCancelled(o, target) ==
  /\ Placed(o)
  /\ target \in PAYMENT_TRANSITIONS[payment[o]] \cap {"PENDING", "FAILED"}
  /\ payment' = [payment EXCEPT ![o] = target]
  /\ UNCHANGED <<inventoryVars, fulfillment, method, deadline, couponVars, proofVars,
                 refunded, sweepVars>>

SetPayment(o, target) ==
  /\ Placed(o) /\ fulfillment[o] # "CANCELLED"
  /\ target \in PAYMENT_TRANSITIONS[payment[o]] \cap {"PENDING", "FAILED"}
  /\ payment' = [payment EXCEPT ![o] = target]
  /\ UNCHANGED <<inventoryVars, fulfillment, method, deadline, couponVars, proofVars,
                 refunded, sweepVars>>

(* Mutant: whatever is still held is consumed, covered or not.             *)
MarkPaidUncovered(o) ==
  /\ Placed(o) /\ fulfillment[o] # "CANCELLED"
  /\ "PAID" \in PAYMENT_TRANSITIONS[payment[o]]
  /\ ConsumeItems(o, ActiveItems(o))
  /\ method[o] = "INSTAPAY_MANUAL" => HasPending(o)
  /\ receipts' = [receipts EXCEPT ![o] = AcceptPending(@)]
  /\ payment' = [payment EXCEPT ![o] = "PAID"]
  /\ UNCHANGED <<fulfillment, method, deadline, couponVars, replacing, refunded,
                 sweepVars>>

(* Mutant: a receipt is accepted if there is one to accept.                *)
MarkPaidWithoutProof(o) ==
  /\ Placed(o) /\ fulfillment[o] # "CANCELLED"
  /\ "PAID" \in PAYMENT_TRANSITIONS[payment[o]]
  /\ FullyCovered(o)
  /\ ConsumeItems(o, ActiveItems(o))
  /\ receipts' = [receipts EXCEPT ![o] = AcceptPending(@)]
  /\ payment' = [payment EXCEPT ![o] = "PAID"]
  /\ UNCHANGED <<fulfillment, method, deadline, couponVars, replacing, refunded,
                 sweepVars>>

MarkPaid(o) ==
  /\ Placed(o) /\ fulfillment[o] # "CANCELLED"
  /\ "PAID" \in PAYMENT_TRANSITIONS[payment[o]]
  /\ FullyCovered(o)
  /\ ConsumeItems(o, ActiveItems(o))
  /\ \/ /\ method[o] = "INSTAPAY_MANUAL"
        /\ HasPending(o)
        /\ receipts' = [receipts EXCEPT ![o] = AcceptPending(@)]
     \/ /\ method[o] # "INSTAPAY_MANUAL"
        /\ UNCHANGED receipts
  /\ payment' = [payment EXCEPT ![o] = "PAID"]
  /\ UNCHANGED <<fulfillment, method, deadline, couponVars, replacing, refunded, sweepVars>>

(* The fulfillment status is not looked at: a paid order that was          *)
(* cancelled is refunded like any other.                                   *)
RecordRefund(o, amount) ==
  LET newTotal == refunded[o] + amount IN
  /\ payment[o] \in {"PAID", "PARTIALLY_REFUNDED"}
  /\ newTotal <= Total[o]
  /\ refunded' = [refunded EXCEPT ![o] = newTotal]
  /\ payment' = [payment EXCEPT ![o] =
       IF newTotal >= Total[o] THEN "REFUNDED" ELSE "PARTIALLY_REFUNDED"]
  /\ UNCHANGED <<inventoryVars, fulfillment, method, deadline, couponVars, proofVars,
                 sweepVars>>

-----------------------------------------------------------------------------
(* Receipts of a placed order.                                             *)

RejectReceipt(o, i) ==
  /\ receipts[o][i] = "PENDING_REVIEW"
  /\ receipts' = [receipts EXCEPT ![o][i] = "REJECTED"]
  /\ UNCHANGED <<inventoryVars, fulfillment, payment, method, deadline, couponVars,
                 replacing, refunded, sweepVars>>

(* The reads of the transaction of uploadReplacementForCart; no row is     *)
(* locked.  The checks before the transaction are the same and earlier.    *)
RecheckReplacement(o) ==
  /\ Placed(o) /\ method[o] = "INSTAPAY_MANUAL"
  /\ fulfillment[o] # "CANCELLED"
  /\ payment[o] # "PAID"
  /\ receipts[o][Len(receipts[o])] = "REJECTED"
  /\ Len(receipts[o]) + replacing[o] < MaxReceipts
  /\ replacing' = [replacing EXCEPT ![o] = @ + 1]
  /\ UNCHANGED <<inventoryVars, fulfillment, payment, method, deadline, couponVars,
                 receipts, refunded, sweepVars>>

InsertReplacement(o) ==
  /\ replacing[o] > 0
  /\ replacing' = [replacing EXCEPT ![o] = @ - 1]
  /\ receipts' = [receipts EXCEPT ![o] = Append(@, "PENDING_REVIEW")]
  /\ UNCHANGED <<inventoryVars, fulfillment, payment, method, deadline, couponVars,
                 refunded, sweepVars>>

(* The transaction times out, or the process dies, between the two.        *)
AbortReplacement(o) ==
  /\ replacing[o] > 0
  /\ replacing' = [replacing EXCEPT ![o] = @ - 1]
  /\ UNCHANGED <<inventoryVars, fulfillment, payment, method, deadline, couponVars,
                 receipts, refunded, sweepVars>>

-----------------------------------------------------------------------------
(* The sweep: releaseAllExpired, then cancelExpiredOrders.                 *)

(* Mutant: only holds of orders the second half will cancel are looked for.*)
StartSweepOfUnpaid(w) ==
  /\ sweepPc[w] = "idle"
  /\ \E batch \in SUBSET {r \in Expired : payment[r[1]] = "UNPAID"} :
       /\ Cardinality(batch) <= SweepLimit
       /\ candidates' = [candidates EXCEPT ![w] = batch]
  /\ sweepPc' = [sweepPc EXCEPT ![w] = "holds"]
  /\ UNCHANGED <<onHand, reserved, reservation, expiry, adjusted, shipped>>
  /\ UNCHANGED <<fulfillment, payment, method, deadline, couponVars, proofVars,
                 refunded, overdue, failures>>

StartSweep(w) ==
  /\ sweepPc[w] = "idle"
  /\ SelectExpired(w)
  /\ sweepPc' = [sweepPc EXCEPT ![w] = "holds"]
  /\ UNCHANGED <<fulfillment, payment, method, deadline, couponVars, proofVars,
                 refunded, overdue, failures>>

SweepHold(w, r) ==
  /\ sweepPc[w] = "holds"
  /\ ReleaseIfStillExpired(w, r)
  /\ UNCHANGED orderVars

Overdue == {o \in Order : /\ fulfillment[o] = "PENDING"
                          /\ payment[o] = "UNPAID"
                          /\ deadline[o] = "PAST"}

SelectOverdue(w) ==
  /\ sweepPc[w] = "holds" /\ candidates[w] = {}
  /\ \E batch \in SUBSET Overdue :
       /\ \/ Cardinality(batch) = SweepLimit
          \/ batch = Overdue /\ Cardinality(batch) < SweepLimit
       /\ overdue' = [overdue EXCEPT ![w] = batch]
  /\ sweepPc' = [sweepPc EXCEPT ![w] = "orders"]
  /\ UNCHANGED <<inventoryVars, fulfillment, payment, method, deadline, couponVars,
                 proofVars, refunded, failures>>

(* Mutant: what the selection saw is believed.                             *)
CancelAsSelected(w, o) ==
  /\ sweepPc[w] = "orders"
  /\ o \in overdue[w]
  /\ overdue' = [overdue EXCEPT ![w] = @ \ {o}]
  /\ ReleaseItems(o, ActiveItems(o), "EXPIRED")
  /\ fulfillment' = [fulfillment EXCEPT ![o] = "CANCELLED"]
  /\ UNCHANGED <<candidates, payment, method, deadline, couponVars, proofVars, refunded,
                 sweepPc, failures>>

(* Mutant: the holds of the order are left to the other sweep.             *)
CancelKeepingHolds(w, o) ==
  /\ sweepPc[w] = "orders"
  /\ o \in overdue[w]
  /\ overdue' = [overdue EXCEPT ![w] = @ \ {o}]
  /\ IF fulfillment[o] = "PENDING" /\ payment[o] = "UNPAID"
       THEN fulfillment' = [fulfillment EXCEPT ![o] = "CANCELLED"]
       ELSE UNCHANGED fulfillment
  /\ UNCHANGED <<inventoryVars, payment, method, deadline, couponVars, proofVars,
                 refunded, sweepPc, failures>>

(* Status and payment are read again under the lock; the deadline is not.  *)
CancelDueToExpiry(w, o) ==
  /\ sweepPc[w] = "orders"
  /\ o \in overdue[w]
  /\ overdue' = [overdue EXCEPT ![w] = @ \ {o}]
  /\ IF fulfillment[o] = "PENDING" /\ payment[o] = "UNPAID"
       THEN /\ ReleaseItems(o, ActiveItems(o), "EXPIRED")
            /\ fulfillment' = [fulfillment EXCEPT ![o] = "CANCELLED"]
            /\ couponReleased' = [couponReleased EXCEPT ![o] = @ \/ coupon[o] \in Coupon]
            /\ IF coupon[o] \in Coupon /\ ~couponReleased[o]
                 THEN ReleaseUse(o)
                 ELSE UNCHANGED usageCount
            /\ UNCHANGED candidates
       ELSE UNCHANGED <<inventoryVars, fulfillment, couponReleased, usageCount>>
  /\ UNCHANGED <<payment, method, deadline, coupon, proofVars, refunded,
                 sweepPc, failures>>

(* One cancellation that throws is logged and does not stop the others.    *)
CancellationThrows(w, o) ==
  /\ sweepPc[w] = "orders" /\ o \in overdue[w]
  /\ failures < MaxFailures
  /\ failures' = failures + 1
  /\ overdue' = [overdue EXCEPT ![w] = @ \ {o}]
  /\ UNCHANGED <<inventoryVars, fulfillment, payment, method, deadline, couponVars,
                 proofVars, refunded, sweepPc>>

EndSweep(w) ==
  /\ sweepPc[w] = "orders" /\ overdue[w] = {}
  /\ sweepPc' = [sweepPc EXCEPT ![w] = "idle"]
  /\ UNCHANGED <<inventoryVars, fulfillment, payment, method, deadline, couponVars,
                 proofVars, refunded, overdue, failures>>

(* Mutant: isRunning is not reset by a failure.                            *)
SweepCrashesForGood(w) ==
  /\ sweepPc[w] # "idle"
  /\ failures < MaxFailures
  /\ failures' = failures + 1
  /\ sweepPc' = [sweepPc EXCEPT ![w] = "running"]
  /\ overdue' = [overdue EXCEPT ![w] = {}]
  /\ candidates' = [candidates EXCEPT ![w] = {}]
  /\ UNCHANGED <<onHand, reserved, reservation, expiry, adjusted, shipped>>
  /\ UNCHANGED <<fulfillment, payment, method, deadline, couponVars, proofVars,
                 refunded>>

(* The process dies, or a statement of the first half throws: the sweep is *)
(* over, and the next one starts from what the database says.              *)
SweepCrashes(w) ==
  /\ sweepPc[w] # "idle"
  /\ failures < MaxFailures
  /\ failures' = failures + 1
  /\ sweepPc' = [sweepPc EXCEPT ![w] = "idle"]
  /\ overdue' = [overdue EXCEPT ![w] = {}]
  /\ candidates' = [candidates EXCEPT ![w] = {}]
  /\ UNCHANGED <<onHand, reserved, reservation, expiry, adjusted, shipped>>
  /\ UNCHANGED <<fulfillment, payment, method, deadline, couponVars, proofVars,
                 refunded>>

(* The deadline is read only of a PENDING and UNPAID order.                *)
DeadlinePasses(o) ==
  /\ fulfillment[o] = "PENDING" /\ payment[o] = "UNPAID"
  /\ deadline[o] = "FUTURE"
  /\ deadline' = [deadline EXCEPT ![o] = "PAST"]
  /\ UNCHANGED <<inventoryVars, fulfillment, payment, method, couponVars, proofVars,
                 refunded, sweepVars>>

-----------------------------------------------------------------------------

Init ==
  /\ InventoryInit
  /\ fulfillment = [o \in Order |-> "NONE"]
  /\ payment = [o \in Order |-> "UNPAID"]
  /\ method = [o \in Order |-> "CASH_ON_DELIVERY"]
  /\ deadline = [o \in Order |-> "NULL"]
  /\ coupon = [o \in Order |-> NoCoupon]
  /\ couponReleased = [o \in Order |-> FALSE]
  /\ usageCount = [c \in Coupon |-> 0]
  /\ receipts = [o \in Order |-> <<>>]
  /\ replacing = [o \in Order |-> 0]
  /\ refunded = [o \in Order |-> 0]
  /\ overdue = [w \in Sweeper |-> {}]
  /\ sweepPc = [w \in Sweeper |-> "idle"]
  /\ failures = 0

Staff(o) ==
  \/ Confirm(o)
  \/ \E target \in FulfillmentStatus : Advance(o, target)
  \/ Cancel(o)
  \/ \E target \in PaymentStatus : SetPayment(o, target)
  \/ MarkPaid(o)
  \/ \E amount \in RefundAmounts : RecordRefund(o, amount)
  \/ \E i \in DOMAIN receipts[o] : RejectReceipt(o, i)

Guest(o) ==
  \/ \E m \in PaymentMethod, c \in Coupon \cup {NoCoupon} : CreateOrder(o, m, c)
  \/ RecheckReplacement(o)
  \/ InsertReplacement(o)
  \/ AbortReplacement(o)

SweepStep(w) ==
  \/ StartSweep(w)
  \/ \E r \in candidates[w] : SweepHold(w, r)
  \/ SelectOverdue(w)
  \/ \E o \in overdue[w] : CancelDueToExpiry(w, o)
  \/ EndSweep(w)

SweepFails(w) ==
  \/ SweepCrashes(w)
  \/ \E o \in overdue[w] : CancellationThrows(w, o)

(* The deadline of the order and the expiry of its rows are so many minutes*)
(* from now, and the deadline is computed first.                           *)
HoldsLapseAfterDeadline(o) ==
  /\ fulfillment[o] = "PENDING" /\ payment[o] = "UNPAID" => deadline[o] = "PAST"
  /\ HoldsLapse(o)
  /\ UNCHANGED orderVars

Clock(o) == DeadlinePasses(o) \/ HoldsLapseAfterDeadline(o)

Next ==
  \/ \E o \in Order : Staff(o) \/ Guest(o) \/ Clock(o)
  \/ \E s \in StockItem, delta \in AdjustDeltas :
       Adjust(s, delta) /\ UNCHANGED orderVars
  \/ \E w \in Sweeper : SweepStep(w) \/ SweepFails(w)

Spec == Init /\ [][Next]_vars

(* The scheduler ticks every minute while the process is up, and finishes  *)
(* what it started unless that fails; nobody else has to act.              *)
FairSpec == Spec /\ WF_vars(SweepStep(Scheduler))

-----------------------------------------------------------------------------
(* Properties.                                                             *)

OrdersTypeOK ==
  /\ InventoryTypeOK
  /\ fulfillment \in [Order -> FulfillmentStatus \cup {"NONE"}]
  /\ payment \in [Order -> PaymentStatus]
  /\ method \in [Order -> PaymentMethod]
  /\ deadline \in [Order -> Expiry]
  /\ coupon \in [Order -> Coupon \cup {NoCoupon}]
  /\ couponReleased \in [Order -> BOOLEAN]
  /\ usageCount \in [Coupon -> Nat]
  /\ receipts \in [Order -> Seq(ReceiptStatus)]
  /\ replacing \in [Order -> Nat]
  /\ refunded \in [Order -> Nat]
  /\ overdue \in [Sweeper -> SUBSET Order]
  /\ sweepPc \in [Sweeper -> {"idle", "holds", "orders"}]
  /\ failures \in Nat

(* Money and stock agree: the reservations of an order are consumed exactly*)
(* when it was paid, all of them, whatever became of it afterwards         *)
(* (refunds, cancellation).  Payment never "succeeds" over stock that a    *)
(* timeout or a cancellation took back.                                    *)
PaidExactlyWhenConsumed ==
  \A o \in Order : \A s \in ItemsOf(o) :
    Placed(o) => (~NeverPaid(o) <=> reservation[o][s] = "CONSUMED")

(* What staff confirmed survives every timeout: an order that is CONFIRMED *)
(* or further has each item consumed, or held by a hold without expiry.    *)
ConfirmedOrdersKeepTheirStock ==
  \A o \in Order : \A s \in ItemsOf(o) :
    fulfillment[o] \in {"CONFIRMED", "PREPARING", "SHIPPED", "DELIVERED"}
      => \/ reservation[o][s] = "CONSUMED"
         \/ reservation[o][s] = "ACTIVE" /\ expiry[o][s] = "NULL"

(* A cancelled order, and a cart that never became one, holds no stock.    *)
NoHoldWithoutAnOpenOrder ==
  \A o \in Order : fulfillment[o] \in {"NONE", "CANCELLED"} => ActiveItems(o) = {}

(* A coupon is counted once for each order that used it and did not give   *)
(* the use back, stays within its limit, and is given back only by orders  *)
(* that were cancelled and never paid.                                     *)
CouponUsesAddUp ==
  /\ \A c \in Coupon :
       /\ usageCount[c] = Cardinality(UsesOf(c))
       /\ usageCount[c] <= UsageLimit[c]
  /\ \A o \in Order : couponReleased[o] => fulfillment[o] = "CANCELLED" /\ NeverPaid(o)

(* An InstaPay order is paid exactly when staff accepted a receipt of it:  *)
(* no payment without proof, no accepted proof without payment.            *)
PaidExactlyWithAcceptedReceipt ==
  \A o \in Order :
    method[o] = "INSTAPAY_MANUAL" =>
      (~NeverPaid(o) <=> \E i \in DOMAIN receipts[o] : receipts[o][i] = "ACCEPTED")

(* The payment status is derived from the refunds: never more than was     *)
(* paid, and PAID, PARTIALLY_REFUNDED and REFUNDED say how much came back. *)
RefundsMatchStatus ==
  \A o \in Order :
    /\ refunded[o] <= Total[o]
    /\ refunded[o] > 0 <=> payment[o] \in {"PARTIALLY_REFUNDED", "REFUNDED"}
    /\ payment[o] = "REFUNDED" <=> refunded[o] > 0 /\ refunded[o] = Total[o]

(* A cancelled order never becomes paid, and no order leaves CANCELLED or  *)
(* DELIVERED: a payment and a cancellation that race never both win.       *)
NoPaymentAfterCancellation ==
  [][\A o \in Order :
       /\ fulfillment[o] = "CANCELLED" /\ NeverPaid(o) => payment'[o] = payment[o]
       /\ fulfillment[o] \in {"CANCELLED", "DELIVERED"} => fulfillment'[o] = fulfillment[o]
    ]_vars

(* The sweep works from a selection that grows stale, yet it never cancels *)
(* an order that was confirmed, or on which payment was reported, since.   *)
SweepSparesSettledOrders ==
  [][\A o \in Order :
       overdue' # overdue /\ fulfillment'[o] # fulfillment[o]
         => fulfillment[o] = "PENDING" /\ payment[o] = "UNPAID"]_vars

(* The verdict on a receipt is final, and receipts are never dropped.      *)
VerdictsAreFinal ==
  [][\A o \in Order : \A i \in DOMAIN receipts[o] :
       /\ i \in DOMAIN receipts'[o]
       /\ receipts[o][i] # "PENDING_REVIEW" => receipts'[o][i] = receipts[o][i]]_vars

(* The order workflow uses the stock service as its interface allows.      *)
ImplementsInventory == InventorySpec

(* An order whose deadline passed does not stay PENDING and UNPAID: some   *)
(* sweep cancels it, however many crash or throw before.                   *)
OverdueOrdersAreSettled == \A o \in Order : o \in Overdue ~> o \notin Overdue

(* An expired hold is freed, whatever the status of its order.             *)
ExpiredHoldsAreFreed ==
  \A o \in Order, s \in StockItem : <<o, s>> \in Expired ~> <<o, s>> \notin Expired

(* "Two concurrent replacement uploads can't both succeed": an order has   *)
(* one receipt pending review at most.                                     *)
OnePendingReceipt ==
  \A o \in Order :
    Cardinality({i \in DOMAIN receipts[o] : receipts[o][i] = "PENDING_REVIEW"}) <= 1

=============================================================================
