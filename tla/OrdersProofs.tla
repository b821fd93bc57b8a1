----------------------------- MODULE OrdersProofs ----------------------------
(***************************************************************************)
(* What OrdersService keeps, for any number of orders, items, coupons and  *)
(* sweeps: every step is a step of the stock service or leaves it alone,   *)
(* stock and money agree, and what staff confirmed keeps its stock.        *)
(*                                                                         *)
(* None of this is inductive by itself.  Each needs to know which rows an  *)
(* order has (RowsMatchOrder): all of its items once it is placed, none    *)
(* before, so that a covered order that was never paid has all of them     *)
(* ACTIVE.                                                                 *)
(***************************************************************************)
EXTENDS Orders, InventoryProofs, SequenceTheorems

USE InventoryAssumption, OrdersAssumption DEF InventoryAssumption, OrdersAssumption

(* A placed order has one row for each item it needs and no other; a cart  *)
(* that was not checked out has none and was never paid.                   *)
RowsMatchOrder ==
  \A o \in Order :
    /\ \A s \in StockItem :
         reservation[o][s] = "NONE" <=> ~Placed(o) \/ s \notin ItemsOf(o)
    /\ ~Placed(o) => payment[o] = "UNPAID"

-----------------------------------------------------------------------------
(* The stock service is used as its interface allows                       *)

LEMMA StepIsInventoryStep ==
  ASSUME OrdersTypeOK, RowsMatchOrder, [Next]_vars
  PROVE  [InventoryNext]_inventoryVars
<1> USE DEF inventoryVars
<1>1. ASSUME NEW o \in Order
      PROVE  ActiveItems(o) \in SUBSET ItemsOf(o)
  BY DEF RowsMatchOrder, ActiveItems, OrdersTypeOK, InventoryTypeOK
<1>2. ASSUME NEW o \in Order, NEW status \in {"RELEASED", "EXPIRED"},
             ReleaseItems(o, ActiveItems(o), status), UNCHANGED candidates
      PROVE  InventoryNext
  BY <1>1, <1>2 DEF Release, InventoryNext
<1>3. ASSUME NEW o \in Order, Staff(o)
      PROVE  [InventoryNext]_inventoryVars
  <2>1. CASE Confirm(o)
    BY <2>1 DEF Confirm, InventoryNext
  <2>2. CASE Cancel(o)
    BY <1>2, <2>2 DEF Cancel
  <2>3. CASE MarkPaid(o)
    BY <1>1, <2>3 DEF MarkPaid, InventoryNext
  <2> QED
    BY <1>3, <2>1, <2>2, <2>3
       DEF Staff, Advance, SetPayment, RecordRefund, RejectReceipt
<1>4. ASSUME NEW o \in Order, Guest(o)
      PROVE  [InventoryNext]_inventoryVars
  <2>1. ASSUME NEW m \in PaymentMethod, NEW c \in Coupon \cup {NoCoupon},
               CreateOrder(o, m, c)
        PROVE  InventoryNext
    <3>1. PICK ttl \in {"NULL", "FUTURE"} : ReserveItems(o, ItemsOf(o), ttl)
      BY <2>1 DEF CreateOrder
    <3>2. \A s \in ItemsOf(o) : reservation[o][s] = "NONE"
      BY <2>1 DEF CreateOrder, RowsMatchOrder, ItemsOf
    <3>3. Reserve(o, ItemsOf(o))
      BY <3>1, <3>2 DEF Reserve
    <3> QED
      BY <3>3 DEF InventoryNext
  <2> QED
    BY <1>4, <2>1 DEF Guest, RecheckReplacement, InsertReplacement, AbortReplacement
<1>5. ASSUME NEW o \in Order, Clock(o)
      PROVE  [InventoryNext]_inventoryVars
  BY <1>5 DEF Clock, DeadlinePasses, HoldsLapseAfterDeadline, InventoryNext
<1>6. ASSUME NEW w \in Sweeper, SweepStep(w)
      PROVE  [InventoryNext]_inventoryVars
  <2>1. CASE StartSweep(w)
    BY <2>1 DEF StartSweep, InventoryNext, Sweep
  <2>2. ASSUME NEW r \in candidates[w], SweepHold(w, r)
        PROVE  InventoryNext
    BY <2>2 DEF SweepHold, InventoryNext, Sweep
  <2>3. ASSUME NEW o \in overdue[w], CancelDueToExpiry(w, o)
        PROVE  [InventoryNext]_inventoryVars
    <3>1. o \in Order
      BY DEF OrdersTypeOK
    <3> QED
      BY <1>2, <2>3, <3>1 DEF CancelDueToExpiry
  <2> QED
    BY <1>6, <2>1, <2>2, <2>3 DEF SweepStep, SelectOverdue, EndSweep
<1>7. ASSUME NEW w \in Sweeper, SweepFails(w)
      PROVE  [InventoryNext]_inventoryVars
  <2>1. CASE SweepCrashes(w)
    <3>1. CASE candidates[w] = {}
      BY <2>1, <3>1 DEF SweepCrashes, OrdersTypeOK, InventoryTypeOK
    <3>2. CASE candidates[w] # {}
      BY <2>1, <3>2 DEF SweepCrashes, AbandonSweep, InventoryNext
    <3> QED
      BY <3>1, <3>2
  <2> QED
    BY <1>7, <2>1 DEF SweepFails, CancellationThrows
<1>8. ASSUME NEW s \in StockItem, NEW delta \in AdjustDeltas, Adjust(s, delta)
      PROVE  InventoryNext
  BY <1>8 DEF InventoryNext
<1>9. CASE UNCHANGED vars
  BY <1>9 DEF vars
<1> QED
  BY <1>3, <1>4, <1>5, <1>6, <1>7, <1>8, <1>9 DEF Next

-----------------------------------------------------------------------------
(* Types                                                                   *)

(* A sequence whose elements are replaced one for one is a sequence.       *)
LEMMA Relabelled ==
  ASSUME NEW S, NEW T, NEW q \in Seq(S), NEW f, f \in [DOMAIN q -> T]
  PROVE  f \in Seq(T)
<1>1. DOMAIN q = 1 .. Len(q) /\ Len(q) \in Nat
  BY LenProperties
<1>2. f \in UNION {[1 .. n -> T] : n \in Nat}
  BY <1>1
<1> QED
  BY <1>2, SeqDef, Zenon

LEMMA OrdersInitType == Init => OrdersTypeOK
<1> SUFFICES ASSUME Init PROVE OrdersTypeOK
  OBVIOUS
<1>1. InventoryTypeOK
  BY InventoryInitType DEF Init
<1>2. \A o \in Order : receipts[o] \in Seq(ReceiptStatus)
  BY DEF Init
<1> QED
  BY <1>1, <1>2
     DEF Init, OrdersTypeOK, PaymentStatus, PaymentMethod, Expiry

LEMMA OrdersStepType ==
  ASSUME OrdersTypeOK, RowsMatchOrder, [Next]_vars
  PROVE  OrdersTypeOK'
<1>1. InventoryTypeOK'
  BY StepIsInventoryStep, InventoryStepType DEF OrdersTypeOK
<1> HIDE DEF InventoryTypeOK
<1> USE <1>1 DEF OrdersTypeOK, FulfillmentStatus, PaymentStatus, PaymentMethod, couponVars,
                 proofVars, sweepVars
<1>2. ASSUME NEW o \in Order, Confirm(o) PROVE OrdersTypeOK'
  BY <1>2 DEF Confirm
<1>3. ASSUME NEW o \in Order, NEW target \in FulfillmentStatus, Advance(o, target)
      PROVE  OrdersTypeOK'
  BY <1>3 DEF Advance
<1>4. ASSUME NEW o \in Order, ReleaseUse(o) \/ UNCHANGED usageCount
      PROVE  usageCount' \in [Coupon -> Nat]
  <2>1. CASE ReleaseUse(o)
    <3> DEFINE next(c) == IF c = coupon[o] /\ usageCount[c] > 0
                            THEN usageCount[c] - 1 ELSE usageCount[c]
    <3>1. ASSUME NEW c \in Coupon
          PROVE  next(c) \in Nat
      <4>1. usageCount[c] \in Nat
        OBVIOUS
      <4> QED
        BY <4>1
    <3>2. usageCount' = [c \in Coupon |-> next(c)]
      BY <2>1 DEF ReleaseUse
    <3> HIDE DEF next
    <3> QED
      BY <3>1, <3>2
  <2> QED
    BY <1>4, <2>1
<1>5. ASSUME NEW o \in Order, Cancel(o) PROVE OrdersTypeOK'
  <2>1. usageCount' \in [Coupon -> Nat]
    BY <1>4, <1>5 DEF Cancel
  <2> QED
    BY <1>5, <2>1 DEF Cancel
<1>6. ASSUME NEW o \in Order, NEW target \in PaymentStatus, SetPayment(o, target)
      PROVE  OrdersTypeOK'
  BY <1>6 DEF SetPayment
<1>7. ASSUME NEW o \in Order, MarkPaid(o) PROVE OrdersTypeOK'
  <2>1. AcceptPending(receipts[o]) \in Seq(ReceiptStatus)
    <3>1. AcceptPending(receipts[o]) \in [DOMAIN receipts[o] -> ReceiptStatus]
      BY DEF AcceptPending, ReceiptStatus
    <3> QED
      BY <3>1, Relabelled
  <2>2. receipts' \in [Order -> Seq(ReceiptStatus)]
    BY <1>7, <2>1 DEF MarkPaid
  <2> QED
    BY <1>7, <2>2 DEF MarkPaid
<1>8. ASSUME NEW o \in Order, NEW amount \in RefundAmounts, RecordRefund(o, amount)
      PROVE  OrdersTypeOK'
  <2>1. refunded[o] + amount \in Nat
    OBVIOUS
  <2> QED
    BY <1>8, <2>1 DEF RecordRefund
<1>9. ASSUME NEW o \in Order, NEW i \in DOMAIN receipts[o], RejectReceipt(o, i)
      PROVE  OrdersTypeOK'
  <2>1. [receipts[o] EXCEPT ![i] = "REJECTED"] \in Seq(ReceiptStatus)
    <3>1. [receipts[o] EXCEPT ![i] = "REJECTED"] \in [DOMAIN receipts[o] -> ReceiptStatus]
      BY DEF ReceiptStatus
    <3> QED
      BY <3>1, Relabelled
  <2>2. receipts' \in [Order -> Seq(ReceiptStatus)]
    BY <1>9, <2>1 DEF RejectReceipt
  <2> QED
    BY <1>9, <2>2 DEF RejectReceipt
<1>10. ASSUME NEW o \in Order, NEW m \in PaymentMethod, NEW c \in Coupon \cup {NoCoupon},
              CreateOrder(o, m, c)
       PROVE  OrdersTypeOK'
  <2>1. <<"PENDING_REVIEW">> \in Seq(ReceiptStatus) /\ <<>> \in Seq(ReceiptStatus)
    BY DEF ReceiptStatus
  <2>2. receipts' \in [Order -> Seq(ReceiptStatus)]
    BY <1>10, <2>1 DEF CreateOrder
  <2>3. usageCount' \in [Coupon -> Nat]
    BY <1>10 DEF CreateOrder
  <2> QED
    BY <1>10, <2>2, <2>3 DEF CreateOrder, Expiry
<1>11. ASSUME NEW o \in Order, RecheckReplacement(o) PROVE OrdersTypeOK'
  BY <1>11 DEF RecheckReplacement
<1>12. ASSUME NEW o \in Order, InsertReplacement(o) PROVE OrdersTypeOK'
  <2>1. Append(receipts[o], "PENDING_REVIEW") \in Seq(ReceiptStatus)
    BY DEF ReceiptStatus
  <2>2. receipts' \in [Order -> Seq(ReceiptStatus)]
    BY <1>12, <2>1 DEF InsertReplacement
  <2> QED
    BY <1>12, <2>2 DEF InsertReplacement
<1>13. ASSUME NEW o \in Order, AbortReplacement(o) PROVE OrdersTypeOK'
  BY <1>13 DEF AbortReplacement
<1>14. ASSUME NEW w \in Sweeper, SweepStep(w) PROVE OrdersTypeOK'
  <2>1. CASE StartSweep(w)
    BY <2>1 DEF StartSweep
  <2>2. ASSUME NEW r \in candidates[w], SweepHold(w, r) PROVE OrdersTypeOK'
    BY <2>2 DEF SweepHold, orderVars
  <2>3. CASE SelectOverdue(w)
    BY <2>3 DEF SelectOverdue, Overdue
  <2>4. ASSUME NEW o \in overdue[w], CancelDueToExpiry(w, o) PROVE OrdersTypeOK'
    <3>1. o \in Order
      OBVIOUS
    <3>2. usageCount' \in [Coupon -> Nat]
      BY <1>4, <2>4, <3>1 DEF CancelDueToExpiry
    <3> QED
      BY <2>4, <3>1, <3>2 DEF CancelDueToExpiry
  <2>5. CASE EndSweep(w)
    BY <2>5 DEF EndSweep
  <2> QED
    BY <1>14, <2>1, <2>2, <2>3, <2>4, <2>5 DEF SweepStep
<1>15. ASSUME NEW w \in Sweeper, SweepFails(w) PROVE OrdersTypeOK'
  <2>1. CASE SweepCrashes(w)
    BY <2>1 DEF SweepCrashes
  <2>2. ASSUME NEW o \in overdue[w], CancellationThrows(w, o) PROVE OrdersTypeOK'
    BY <2>2 DEF CancellationThrows
  <2> QED
    BY <1>15, <2>1, <2>2 DEF SweepFails
<1>16. ASSUME NEW o \in Order, Clock(o) PROVE OrdersTypeOK'
  BY <1>16 DEF Clock, DeadlinePasses, HoldsLapseAfterDeadline, orderVars, Expiry
<1>17. CASE UNCHANGED orderVars
  BY <1>17 DEF orderVars
<1>18. ASSUME NEW o \in Order, Staff(o) PROVE OrdersTypeOK'
  BY <1>2, <1>3, <1>5, <1>6, <1>7, <1>8, <1>9, <1>18, Zenon DEF Staff
<1>19. ASSUME NEW o \in Order, Guest(o) PROVE OrdersTypeOK'
  BY <1>10, <1>11, <1>12, <1>13, <1>19, Zenon DEF Guest
<1>20. UNCHANGED vars => UNCHANGED orderVars
  BY DEF vars
<1> QED
  BY <1>14, <1>15, <1>16, <1>17, <1>18, <1>19, <1>20, Zenon DEF Next

-----------------------------------------------------------------------------
(* Stock and status, order by order                                        *)

StockOfOrder(o) ==
  /\ \A s \in StockItem :
       reservation[o][s] = "NONE" <=> ~Placed(o) \/ s \notin ItemsOf(o)
  /\ ~Placed(o) => payment[o] = "UNPAID"
  /\ \A s \in ItemsOf(o) :
       Placed(o) => (~NeverPaid(o) <=> reservation[o][s] = "CONSUMED")
  /\ \A s \in ItemsOf(o) :
       fulfillment[o] \in {"CONFIRMED", "PREPARING", "SHIPPED", "DELIVERED"}
         => \/ reservation[o][s] = "CONSUMED"
            \/ reservation[o][s] = "ACTIVE" /\ expiry[o][s] = "NULL"
  /\ fulfillment[o] \in {"NONE", "CANCELLED"} => ActiveItems(o) = {}

StockInv == OrdersTypeOK /\ \A o \in Order : StockOfOrder(o)

LEMMA StockInvMeans ==
  StockInv => /\ RowsMatchOrder
              /\ PaidExactlyWhenConsumed
              /\ ConfirmedOrdersKeepTheirStock
              /\ NoHoldWithoutAnOpenOrder
BY DEF StockInv, StockOfOrder, RowsMatchOrder, PaidExactlyWhenConsumed,
       ConfirmedOrdersKeepTheirStock, NoHoldWithoutAnOpenOrder

LEMMA StockInvInit == Init => StockInv
<1> SUFFICES ASSUME Init, NEW o \in Order PROVE StockOfOrder(o)
  BY OrdersInitType DEF StockInv
<1> QED
  BY DEF Init, InventoryInit, StockOfOrder, Placed, NeverPaid, ActiveItems, ItemsOf

(* A step that leaves the statuses of an order and its rows alone.         *)
LEMMA OrderUntouched ==
  ASSUME NEW o \in Order, StockOfOrder(o),
         fulfillment'[o] = fulfillment[o], payment'[o] = payment[o],
         reservation'[o] = reservation[o], expiry'[o] = expiry[o]
  PROVE  StockOfOrder(o)'
BY DEF StockOfOrder, Placed, NeverPaid, ActiveItems, ItemsOf

(* A release of every row that is still held, as the order is cancelled.   *)
LEMMA ReleaseOnCancel ==
  ASSUME StockInv, NEW o \in Order, NEW status \in {"RELEASED", "EXPIRED"},
         Placed(o), ReleaseItems(o, ActiveItems(o), status),
         fulfillment' = [fulfillment EXCEPT ![o] = "CANCELLED"], UNCHANGED payment
  PROVE  \A p \in Order : StockOfOrder(p)'
<1> USE DEF StockInv, OrdersTypeOK, InventoryTypeOK
<1>1. ASSUME NEW s \in StockItem
      PROVE  reservation'[o][s] = IF reservation[o][s] = "ACTIVE" THEN status
                                  ELSE reservation[o][s]
  BY DEF ReleaseItems, ActiveItems
<1>2. fulfillment'[o] = "CANCELLED" /\ payment'[o] = payment[o]
  OBVIOUS
<1>3. ASSUME NEW s \in StockItem
      PROVE  /\ reservation'[o][s] = "NONE" <=> reservation[o][s] = "NONE"
             /\ reservation'[o][s] = "CONSUMED" <=> reservation[o][s] = "CONSUMED"
             /\ reservation'[o][s] # "ACTIVE"
  BY <1>1
<1>4. StockOfOrder(o)
  OBVIOUS
<1> HIDE DEF StockInv, OrdersTypeOK, InventoryTypeOK
<1>5. StockOfOrder(o)'
  BY <1>2, <1>3, <1>4 DEF StockOfOrder, Placed, NeverPaid, ActiveItems, ItemsOf
<1>6. ASSUME NEW p \in Order, p # o
      PROVE  StockOfOrder(p)'
  BY <1>6, OrderUntouched DEF ReleaseItems, StockInv, OrdersTypeOK, InventoryTypeOK
<1> QED
  BY <1>5, <1>6

LEMMA CreateOrderKeepsStock ==
  ASSUME StockInv, NEW o \in Order, NEW m, NEW c, CreateOrder(o, m, c)
  PROVE  \A p \in Order : StockOfOrder(p)'
<1> USE DEF StockInv, OrdersTypeOK, InventoryTypeOK, CreateOrder
<1>1. PICK ttl : ReserveItems(o, ItemsOf(o), ttl)
  OBVIOUS
<1>2. ASSUME NEW s \in StockItem
      PROVE  reservation'[o][s] = IF s \in ItemsOf(o) THEN "ACTIVE" ELSE "NONE"
  BY <1>1 DEF ReserveItems, StockOfOrder, Placed
<1>3. fulfillment'[o] = "PENDING" /\ payment'[o] = "UNPAID"
  BY DEF StockOfOrder
<1>4. StockOfOrder(o)'
  BY <1>2, <1>3 DEF StockOfOrder, Placed, NeverPaid, ItemsOf
<1>5. ASSUME NEW p \in Order, p # o
      PROVE  StockOfOrder(p)'
  BY <1>1, <1>5, OrderUntouched DEF ReserveItems
<1> QED
  BY <1>4, <1>5

(* Covered and not consumed is still held, so confirming pins every row.   *)
LEMMA ConfirmKeepsStock ==
  ASSUME StockInv, NEW o \in Order, Confirm(o)
  PROVE  \A p \in Order : StockOfOrder(p)'
<1> USE DEF StockInv, OrdersTypeOK, InventoryTypeOK, Confirm, PinActiveForOrder
<1>1. ASSUME NEW s \in ItemsOf(o)
      PROVE  \/ reservation[o][s] = "CONSUMED"
             \/ reservation[o][s] = "ACTIVE" /\ expiry'[o][s] = "NULL"
  BY DEF FullyCovered, StockOfOrder, Placed, ActiveItems, ItemsOf
<1>2. /\ fulfillment'[o] = "CONFIRMED" /\ payment'[o] = payment[o]
      /\ reservation'[o] = reservation[o]
  OBVIOUS
<1>3. StockOfOrder(o)'
  BY <1>1, <1>2 DEF StockOfOrder, Placed, NeverPaid, ItemsOf
<1>4. ASSUME NEW p \in Order, p # o
      PROVE  StockOfOrder(p)'
  BY <1>4, OrderUntouched
<1> QED
  BY <1>3, <1>4

(* ... and marking it paid consumes every row.                             *)
LEMMA MarkPaidKeepsStock ==
  ASSUME StockInv, NEW o \in Order, MarkPaid(o)
  PROVE  \A p \in Order : StockOfOrder(p)'
<1> USE DEF StockInv, OrdersTypeOK, InventoryTypeOK, MarkPaid
<1>1. NeverPaid(o)
  BY DEF PAYMENT_TRANSITIONS, PaymentStatus, NeverPaid
<1>2. ASSUME NEW s \in StockItem
      PROVE  reservation'[o][s] = IF s \in ItemsOf(o) THEN "CONSUMED" ELSE "NONE"
  BY <1>1 DEF ConsumeItems, FullyCovered, StockOfOrder, ActiveItems, ItemsOf
<1>3. fulfillment'[o] = fulfillment[o] /\ payment'[o] = "PAID"
  OBVIOUS
<1>4. StockOfOrder(o)'
  BY <1>2, <1>3 DEF StockOfOrder, Placed, NeverPaid, ActiveItems, ItemsOf
<1>5. ASSUME NEW p \in Order, p # o
      PROVE  StockOfOrder(p)'
  BY <1>5, OrderUntouched DEF ConsumeItems
<1> QED
  BY <1>4, <1>5

(* A hold that expires is not one of an order that was paid or confirmed.  *)
LEMMA SweepHoldKeepsStock ==
  ASSUME StockInv, NEW w \in Sweeper, NEW r \in candidates[w], SweepHold(w, r)
  PROVE  \A p \in Order : StockOfOrder(p)'
<1> USE DEF StockInv, OrdersTypeOK, InventoryTypeOK
<1>1. r \in Order \X StockItem /\ UNCHANGED <<fulfillment, payment, expiry>>
  BY DEF SweepHold, ReleaseIfStillExpired, ReleaseItems, orderVars
<1>2. CASE r \notin Expired
  <2>1. ReleaseItems(r[1], {}, "EXPIRED")
    BY <1>2 DEF SweepHold, ReleaseIfStillExpired
  <2>2. \A p \in Order : reservation'[p] = reservation[p]
    BY <1>1, <2>1 DEF ReleaseItems
  <2> QED
    BY <1>1, <2>2, OrderUntouched
<1>3. CASE r \in Expired
  <2>1. ReleaseItems(r[1], {r[2]}, "EXPIRED")
    BY <1>3 DEF SweepHold, ReleaseIfStillExpired
  <2>2. /\ reservation[r[1]][r[2]] = "ACTIVE" /\ expiry[r[1]][r[2]] = "PAST"
        /\ r[1] \in Order /\ r[2] \in StockItem
    BY <1>1, <1>3 DEF Expired
  <2>3. ASSUME NEW s \in StockItem
        PROVE  reservation'[r[1]][s] = IF s = r[2] THEN "EXPIRED" ELSE reservation[r[1]][s]
    BY <2>1, <2>2 DEF ReleaseItems, ActiveItems
  <2> DEFINE o == r[1]
  <2>4. /\ \A s \in StockItem :
             reservation'[o][s] = "NONE" <=> reservation[o][s] = "NONE"
        /\ \A s \in StockItem :
             reservation'[o][s] = "CONSUMED" <=> reservation[o][s] = "CONSUMED"
        /\ \A s \in StockItem :
             reservation'[o][s] = "ACTIVE" => reservation[o][s] = "ACTIVE"
    BY <2>2, <2>3
  <2>5. /\ StockOfOrder(o)
        /\ r[2] \in ItemsOf(o)
        /\ fulfillment[o] \notin {"CONFIRMED", "PREPARING", "SHIPPED", "DELIVERED"}
    <3>1. StockOfOrder(o)
      BY <2>2
    <3> HIDE DEF StockInv, OrdersTypeOK, InventoryTypeOK
    <3>2. r[2] \in ItemsOf(o)
      BY <2>2, <3>1 DEF StockOfOrder
    <3>3. ~(reservation[o][r[2]] = "CONSUMED") /\ ~(expiry[o][r[2]] = "NULL")
      BY <2>2
    <3> HIDE DEF o
    <3> QED
      BY <3>1, <3>2, <3>3 DEF StockOfOrder
  <2>6. /\ fulfillment'[o] = fulfillment[o]
        /\ payment'[o] = payment[o]
    BY <1>1
  <2>7. StockOfOrder(o)'
    <3> HIDE DEF o, StockInv, OrdersTypeOK, InventoryTypeOK
    <3> QED
      BY <2>4, <2>5, <2>6 DEF StockOfOrder, Placed, NeverPaid, ActiveItems, ItemsOf
  <2>8. ASSUME NEW p \in Order, p # o
        PROVE  StockOfOrder(p)'
    BY <1>1, <2>1, <2>8, OrderUntouched DEF ReleaseItems
  <2> QED
    BY <2>7, <2>8
<1> QED
  BY <1>2, <1>3

(* A row that has an expiry belongs to an order nobody confirmed.          *)
LEMMA HoldsLapseKeepsStock ==
  ASSUME StockInv, NEW o \in Order, HoldsLapse(o), UNCHANGED <<fulfillment, payment>>
  PROVE  \A p \in Order : StockOfOrder(p)'
<1> USE DEF StockInv, OrdersTypeOK, InventoryTypeOK, HoldsLapse
<1>1. ASSUME NEW s \in StockItem, expiry[o][s] = "NULL"
      PROVE  expiry'[o][s] = "NULL"
  BY <1>1
<1>2. StockOfOrder(o)'
  BY <1>1 DEF StockOfOrder, Placed, NeverPaid, ActiveItems, ItemsOf
<1>3. ASSUME NEW p \in Order, p # o
      PROVE  StockOfOrder(p)'
  BY <1>3, OrderUntouched
<1> QED
  BY <1>2, <1>3

(* What the transition tables allow, apart from the targets that have a    *)
(* handler of their own.                                                   *)
LEMMA AdvanceMoves ==
  ASSUME NEW f \in FulfillmentStatus,
         NEW t \in FULFILLMENT_TRANSITIONS[f] \ {"CONFIRMED", "CANCELLED"}
  PROVE  /\ f \in {"CONFIRMED", "PREPARING", "SHIPPED"}
         /\ t \in {"PREPARING", "SHIPPED", "DELIVERED"}
BY DEF FULFILLMENT_TRANSITIONS, FulfillmentStatus

LEMMA SetPaymentMoves ==
  ASSUME NEW p \in PaymentStatus,
         NEW t \in PAYMENT_TRANSITIONS[p] \cap {"PENDING", "FAILED"}
  PROVE  p \in {"UNPAID", "PENDING", "FAILED"}
BY DEF PAYMENT_TRANSITIONS, PaymentStatus

LEMMA StaffKeepsStock ==
  ASSUME StockInv, NEW o \in Order, Staff(o)
  PROVE  \A p \in Order : StockOfOrder(p)'
<1> USE DEF StockInv, OrdersTypeOK, InventoryTypeOK, inventoryVars
<1>1. CASE Confirm(o)
  BY <1>1, ConfirmKeepsStock
<1>2. ASSUME NEW target \in FulfillmentStatus, Advance(o, target)
      PROVE  \A p \in Order : StockOfOrder(p)'
  <2>1. /\ fulfillment[o] \in {"CONFIRMED", "PREPARING", "SHIPPED"}
        /\ fulfillment'[o] \in {"PREPARING", "SHIPPED", "DELIVERED"}
    BY <1>2, AdvanceMoves DEF Advance, Placed
  <2>2. StockOfOrder(o)'
    <3>1. /\ StockOfOrder(o)
          /\ payment'[o] = payment[o]
          /\ reservation'[o] = reservation[o] /\ expiry'[o] = expiry[o]
      BY <1>2 DEF Advance
    <3> HIDE DEF StockInv, OrdersTypeOK, InventoryTypeOK
    <3> QED
      BY <2>1, <3>1 DEF StockOfOrder, Placed, NeverPaid, ActiveItems, ItemsOf
  <2>3. ASSUME NEW p \in Order, p # o
        PROVE  StockOfOrder(p)'
    BY <1>2, <2>3, OrderUntouched DEF Advance
  <2> QED
    BY <2>2, <2>3
<1>3. CASE Cancel(o)
  BY <1>3, ReleaseOnCancel DEF Cancel
<1>4. ASSUME NEW target \in PaymentStatus, SetPayment(o, target)
      PROVE  \A p \in Order : StockOfOrder(p)'
  <2>1. NeverPaid(o) /\ NeverPaid(o)'
    BY <1>4, SetPaymentMoves DEF SetPayment, NeverPaid
  <2>2. Placed(o) /\ UNCHANGED <<fulfillment, reservation, expiry>>
    BY <1>4 DEF SetPayment
  <2>3. StockOfOrder(o)'
    <3>1. StockOfOrder(o)
      OBVIOUS
    <3> HIDE DEF StockInv, OrdersTypeOK, InventoryTypeOK
    <3> QED
      BY <2>1, <2>2, <3>1 DEF StockOfOrder, Placed, ActiveItems, ItemsOf
  <2>4. ASSUME NEW p \in Order, p # o
        PROVE  StockOfOrder(p)'
    BY <1>4, <2>2, <2>4, OrderUntouched DEF SetPayment
  <2> QED
    BY <2>3, <2>4
<1>5. CASE MarkPaid(o)
  BY <1>5, MarkPaidKeepsStock
<1>6. ASSUME NEW amount \in RefundAmounts, RecordRefund(o, amount)
      PROVE  \A p \in Order : StockOfOrder(p)'
  <2>1. ~NeverPaid(o) /\ ~NeverPaid(o)'
    BY <1>6 DEF RecordRefund, NeverPaid
  <2>2. UNCHANGED <<fulfillment, reservation, expiry>>
    BY <1>6 DEF RecordRefund
  <2>3. StockOfOrder(o)'
    <3>1. StockOfOrder(o)
      OBVIOUS
    <3>2. Placed(o)
      BY <2>1, <3>1 DEF StockOfOrder, NeverPaid
    <3> HIDE DEF StockInv, OrdersTypeOK, InventoryTypeOK
    <3> QED
      BY <2>1, <2>2, <3>1, <3>2 DEF StockOfOrder, Placed, ActiveItems, ItemsOf
  <2>4. ASSUME NEW p \in Order, p # o
        PROVE  StockOfOrder(p)'
    BY <1>6, <2>2, <2>4, OrderUntouched DEF RecordRefund
  <2> QED
    BY <2>3, <2>4
<1>7. ASSUME NEW i \in DOMAIN receipts[o], RejectReceipt(o, i)
      PROVE  \A p \in Order : StockOfOrder(p)'
  BY <1>7, OrderUntouched DEF RejectReceipt
<1> QED
  BY <1>1, <1>2, <1>3, <1>4, <1>5, <1>6, <1>7, Zenon DEF Staff

LEMMA StockStep == StockInv /\ [Next]_vars => StockInv'
<1> SUFFICES ASSUME StockInv, [Next]_vars PROVE StockInv'
  OBVIOUS
<1>1. OrdersTypeOK'
  BY StockInvMeans, OrdersStepType DEF StockInv
<1> DEFINE Kept == \A p \in Order : StockOfOrder(p)'
<1>2. ASSUME UNCHANGED <<reservation, expiry, fulfillment, payment>>
      PROVE  Kept
  BY <1>2, OrderUntouched DEF StockInv
<1>3. ASSUME NEW o \in Order, Staff(o) PROVE Kept
  BY <1>3, StaffKeepsStock
<1>4. ASSUME NEW o \in Order, Guest(o) PROVE Kept
  <2>1. ASSUME NEW m, NEW c, CreateOrder(o, m, c) PROVE Kept
    BY <2>1, CreateOrderKeepsStock
  <2>2. ASSUME RecheckReplacement(o) \/ InsertReplacement(o) \/ AbortReplacement(o)
        PROVE  Kept
    BY <1>2, <2>2
       DEF RecheckReplacement, InsertReplacement, AbortReplacement, inventoryVars
  <2> HIDE DEF Kept
  <2> QED
    BY <1>4, <2>1, <2>2, Zenon DEF Guest
<1>5. ASSUME NEW o \in Order, Clock(o) PROVE Kept
  <2>1. CASE DeadlinePasses(o)
    BY <1>2, <2>1 DEF DeadlinePasses, inventoryVars
  <2>2. CASE HoldsLapseAfterDeadline(o)
    BY <2>2, HoldsLapseKeepsStock DEF HoldsLapseAfterDeadline, orderVars
  <2> QED
    BY <1>5, <2>1, <2>2 DEF Clock
<1>6. ASSUME NEW s \in StockItem, NEW delta \in AdjustDeltas,
             Adjust(s, delta), UNCHANGED orderVars
      PROVE  Kept
  BY <1>2, <1>6 DEF Adjust, orderVars
<1>7. ASSUME NEW w \in Sweeper, SweepStep(w) PROVE Kept
  <2>1. CASE StartSweep(w)
    BY <1>2, <2>1 DEF StartSweep, SelectExpired
  <2>2. ASSUME NEW r \in candidates[w], SweepHold(w, r) PROVE Kept
    BY <2>2, SweepHoldKeepsStock
  <2>3. CASE SelectOverdue(w) \/ EndSweep(w)
    BY <1>2, <2>3 DEF SelectOverdue, EndSweep, inventoryVars
  <2>4. ASSUME NEW o \in overdue[w], CancelDueToExpiry(w, o) PROVE Kept
    <3>1. o \in Order
      BY DEF StockInv, OrdersTypeOK
    <3>2. CASE fulfillment[o] = "PENDING" /\ payment[o] = "UNPAID"
      BY <2>4, <3>1, <3>2, ReleaseOnCancel DEF CancelDueToExpiry, Placed
    <3>3. CASE ~(fulfillment[o] = "PENDING" /\ payment[o] = "UNPAID")
      BY <1>2, <2>4, <3>3 DEF CancelDueToExpiry, inventoryVars
    <3> QED
      BY <3>2, <3>3
  <2> HIDE DEF Kept
  <2> QED
    BY <1>7, <2>1, <2>2, <2>3, <2>4, Zenon DEF SweepStep
<1>8. ASSUME NEW w \in Sweeper, SweepFails(w) PROVE Kept
  BY <1>2, <1>8 DEF SweepFails, SweepCrashes, CancellationThrows, inventoryVars
<1>9. ASSUME UNCHANGED vars PROVE Kept
  BY <1>2, <1>9 DEF vars, inventoryVars, orderVars
<1>10. ASSUME Next PROVE Kept
  <2> HIDE DEF Kept
  <2> QED
    BY <1>3, <1>4, <1>5, <1>6, <1>7, <1>8, <1>10, Zenon DEF Next
<1>11. Kept
  BY <1>9, <1>10
<1> QED
  BY <1>1, <1>11 DEF StockInv

-----------------------------------------------------------------------------
(* Theorems                                                                *)

LEMMA StockInvariant == Spec => []StockInv
BY StockInvInit, StockStep, PTL DEF Spec

(* Every variable always has its type; the counters of a stock item are    *)
(* never negative, whatever orders do to them.                             *)
THEOREM OrdersTypeCorrect == Spec => []OrdersTypeOK
<1>1. StockInv => OrdersTypeOK
  BY DEF StockInv
<1> QED
  BY <1>1, StockInvariant, PTL

(* Payment never succeeds over stock that a timeout or a cancellation took *)
(* back, and what was paid stays consumed.                                 *)
THEOREM PaymentAlwaysMatchesStock == Spec => []PaidExactlyWhenConsumed
BY StockInvariant, StockInvMeans, PTL

(* No timeout takes back what staff confirmed.                             *)
THEOREM ConfirmedOrdersAlwaysKeepTheirStock == Spec => []ConfirmedOrdersKeepTheirStock
BY StockInvariant, StockInvMeans, PTL

(* Cancelling, by staff or by the sweep, leaves nothing held.              *)
THEOREM NeverAHoldWithoutAnOpenOrder == Spec => []NoHoldWithoutAnOpenOrder
BY StockInvariant, StockInvMeans, PTL

(* Every step of the order workflow is a step the stock service offers, or *)
(* leaves the stock alone: Orders refines Inventory.                       *)
THEOREM OrdersRefineInventory == Spec => ImplementsInventory
<1>1. Init => InventoryInit
  BY DEF Init
<1>2. StockInv /\ [Next]_vars => [InventoryNext]_inventoryVars
  BY StockInvMeans, StepIsInventoryStep DEF StockInv
<1> QED
  BY <1>1, <1>2, StockInvariant, PTL DEF Spec, ImplementsInventory, InventorySpec

(* So the counters add up under the order workflow too.                    *)
THEOREM OrdersKeepReservedMatchingHolds == Spec => []ReservedMatchesHolds
BY OrdersRefineInventory, ReservedAlwaysMatchesHolds, PTL DEF ImplementsInventory

-----------------------------------------------------------------------------
(***************************************************************************)
(* What an order's money and proof of payment keep: refunds and status,    *)
(* receipts and payment, the use of its coupon, and what no step may ever  *)
(* undo.  All of it rests on the types, and on an order that was not yet   *)
(* placed having never been paid (RowsMatchOrder).                         *)
(***************************************************************************)

(* The part of StockInv that is needed here.                               *)
Typed ==
  /\ OrdersTypeOK
  /\ \A o \in Order : ~Placed(o) => payment[o] = "UNPAID"

LEMMA TypedInvariant == Spec => []Typed
<1>1. StockInv => Typed
  BY DEF StockInv, StockOfOrder, Typed
<1> QED
  BY <1>1, StockInvariant, PTL

-----------------------------------------------------------------------------
(* Refunds                                                                 *)

RefundOf(o) ==
  /\ refunded[o] <= Total[o]
  /\ refunded[o] > 0 <=> payment[o] \in {"PARTIALLY_REFUNDED", "REFUNDED"}
  /\ payment[o] = "REFUNDED" <=> refunded[o] > 0 /\ refunded[o] = Total[o]

LEMMA MarkPaidMoves ==
  ASSUME NEW p \in PaymentStatus, "PAID" \in PAYMENT_TRANSITIONS[p]
  PROVE  p \in {"UNPAID", "PENDING", "FAILED"}
BY DEF PAYMENT_TRANSITIONS, PaymentStatus

(* Staff change the payment of one order at a time, in these three ways.   *)
LEMMA PaymentSteps ==
  ASSUME Typed, [Next]_vars
  PROVE  \/ UNCHANGED <<payment, refunded>>
         \/ \E o \in Order :
              /\ NeverPaid(o) /\ Placed(o) /\ fulfillment[o] # "CANCELLED"
              /\ \E t \in {"PENDING", "FAILED", "PAID"} :
                   payment' = [payment EXCEPT ![o] = t]
              /\ UNCHANGED refunded
         \/ \E o \in Order, amount \in RefundAmounts : RecordRefund(o, amount)
<1> USE DEF Typed
<1>1. ASSUME NEW o \in Order, Staff(o)
      PROVE  \/ UNCHANGED <<payment, refunded>>
             \/ /\ NeverPaid(o) /\ Placed(o) /\ fulfillment[o] # "CANCELLED"
                /\ \E t \in {"PENDING", "FAILED", "PAID"} :
                     payment' = [payment EXCEPT ![o] = t]
                /\ UNCHANGED refunded
             \/ \E amount \in RefundAmounts : RecordRefund(o, amount)
  <2>1. payment[o] \in PaymentStatus
    BY DEF OrdersTypeOK
  <2>2. ASSUME NEW target \in PaymentStatus, SetPayment(o, target)
        PROVE  /\ NeverPaid(o) /\ Placed(o) /\ fulfillment[o] # "CANCELLED"
               /\ \E t \in {"PENDING", "FAILED", "PAID"} :
                    payment' = [payment EXCEPT ![o] = t]
               /\ UNCHANGED refunded
    BY <2>1, <2>2, SetPaymentMoves DEF SetPayment, NeverPaid
  <2>3. CASE MarkPaid(o)
    BY <2>1, <2>3, MarkPaidMoves DEF MarkPaid, NeverPaid
  <2> QED
    BY <1>1, <2>2, <2>3 DEF Staff, Confirm, Advance, Cancel, RejectReceipt
<1>2. ASSUME NEW o \in Order, Guest(o) \/ Clock(o)
      PROVE  UNCHANGED <<payment, refunded>>
  BY <1>2
     DEF Guest, Clock, CreateOrder, RecheckReplacement, InsertReplacement,
         AbortReplacement, DeadlinePasses, HoldsLapseAfterDeadline, orderVars
<1>3. ASSUME NEW w \in Sweeper, SweepStep(w) \/ SweepFails(w)
      PROVE  UNCHANGED <<payment, refunded>>
  BY <1>3
     DEF SweepStep, SweepFails, StartSweep, SweepHold, SelectOverdue, CancelDueToExpiry,
         EndSweep, SweepCrashes, CancellationThrows, orderVars
<1>4. UNCHANGED orderVars \/ UNCHANGED vars => UNCHANGED <<payment, refunded>>
  BY DEF orderVars, vars
<1> HIDE DEF Typed
<1> QED
  BY <1>1, <1>2, <1>3, <1>4 DEF Next

LEMMA AtMost ==
  ASSUME NEW a \in Nat, NEW b \in Nat, a <= b
  PROVE  a = b \/ a < b
OBVIOUS

LEMMA RefundStep ==
  ASSUME Typed, [Next]_vars, NEW p \in Order, RefundOf(p)
  PROVE  RefundOf(p)'
<1>1. /\ payment \in [Order -> PaymentStatus]
      /\ refunded \in [Order -> Nat]
      /\ Total[p] \in Nat
  BY DEF Typed, OrdersTypeOK
<1>2. CASE UNCHANGED <<payment, refunded>>
  BY <1>2 DEF RefundOf
<1>3. ASSUME NEW o \in Order, NeverPaid(o), UNCHANGED refunded,
             NEW t \in {"PENDING", "FAILED", "PAID"},
             payment' = [payment EXCEPT ![o] = t]
      PROVE  RefundOf(p)'
  BY <1>1, <1>3 DEF RefundOf, NeverPaid
<1>4. ASSUME NEW o \in Order, NEW amount \in RefundAmounts, RecordRefund(o, amount)
      PROVE  RefundOf(p)'
  <2>1. CASE o # p
    BY <1>1, <1>4, <2>1 DEF RecordRefund, RefundOf
  <2>2. CASE o = p
    <3> DEFINE newTotal == refunded[p] + amount
    <3>1. /\ refunded'[p] = newTotal
          /\ newTotal <= Total[p]
          /\ payment'[p] = IF newTotal >= Total[p] THEN "REFUNDED" ELSE "PARTIALLY_REFUNDED"
      BY <1>1, <1>4, <2>2 DEF RecordRefund
    <3>2. newTotal \in Nat /\ newTotal > 0
      BY <1>1
    <3> HIDE DEF newTotal
    <3>3. CASE newTotal = Total[p]
      <4>1. payment'[p] = "REFUNDED"
        BY <1>1, <3>1, <3>2, <3>3
      <4> QED
        BY <3>1, <3>2, <3>3, <4>1 DEF RefundOf
    <3>4. CASE newTotal < Total[p]
      <4>1. payment'[p] = "PARTIALLY_REFUNDED"
        BY <1>1, <3>1, <3>2, <3>4
      <4> QED
        BY <1>1, <3>1, <3>2, <3>4, <4>1 DEF RefundOf
    <3>5. newTotal <= Total[p] /\ newTotal \in Nat /\ Total[p] \in Nat
      BY <1>1, <3>1, <3>2
    <3>6. newTotal = Total[p] \/ newTotal < Total[p]
      BY <3>5, AtMost, Zenon
    <3> QED
      BY <3>3, <3>4, <3>6
  <2> QED
    BY <2>1, <2>2
<1> QED
  BY <1>2, <1>3, <1>4, PaymentSteps

(* Refunds never exceed what was paid, and the payment status always says  *)
(* how much of it came back.                                               *)
THEOREM RefundsAlwaysMatchStatus == Spec => []RefundsMatchStatus
<1>1. Init => RefundsMatchStatus
  BY DEF Init, RefundsMatchStatus
<1>2. Typed /\ RefundsMatchStatus /\ [Next]_vars => RefundsMatchStatus'
  BY RefundStep DEF RefundsMatchStatus, RefundOf
<1> QED
  BY <1>1, <1>2, TypedInvariant, PTL DEF Spec

-----------------------------------------------------------------------------
(* Placement and cancellation                                              *)

(* The steps that change the fulfillment status of an order.               *)
LEMMA FulfillmentSteps ==
  ASSUME [Next]_vars
  PROVE  \/ UNCHANGED fulfillment
         \/ \E o \in Order :
              \/ \E m \in PaymentMethod, c \in Coupon \cup {NoCoupon} : CreateOrder(o, m, c)
              \/ Confirm(o)
              \/ \E target \in FulfillmentStatus : Advance(o, target)
              \/ Cancel(o)
         \/ \E w \in Sweeper : \E o \in overdue[w] : CancelDueToExpiry(w, o)
<1>1. ASSUME NEW o \in Order,
             \/ \E target \in PaymentStatus : SetPayment(o, target)
             \/ MarkPaid(o)
             \/ \E amount \in RefundAmounts : RecordRefund(o, amount)
             \/ \E i \in DOMAIN receipts[o] : RejectReceipt(o, i)
      PROVE  UNCHANGED fulfillment
  BY <1>1 DEF SetPayment, MarkPaid, RecordRefund, RejectReceipt
<1>2. ASSUME NEW o \in Order,
             RecheckReplacement(o) \/ InsertReplacement(o) \/ AbortReplacement(o) \/ Clock(o)
      PROVE  UNCHANGED fulfillment
  BY <1>2
     DEF RecheckReplacement, InsertReplacement, AbortReplacement,
         Clock, DeadlinePasses, HoldsLapseAfterDeadline, orderVars
<1>3. ASSUME NEW w \in Sweeper,
             \/ StartSweep(w) \/ SelectOverdue(w) \/ EndSweep(w) \/ SweepFails(w)
             \/ \E r \in candidates[w] : SweepHold(w, r)
      PROVE  UNCHANGED fulfillment
  BY <1>3
     DEF StartSweep, SelectOverdue, EndSweep, SweepFails, SweepCrashes,
         CancellationThrows, SweepHold, orderVars
<1>4. UNCHANGED orderVars \/ UNCHANGED vars => UNCHANGED fulfillment
  BY DEF orderVars, vars
<1>5. ASSUME NEW o \in Order, Staff(o)
      PROVE  \/ UNCHANGED fulfillment
             \/ Confirm(o)
             \/ \E target \in FulfillmentStatus : Advance(o, target)
             \/ Cancel(o)
  BY <1>1, <1>5, Zenon DEF Staff
<1>6. ASSUME NEW o \in Order, Guest(o)
      PROVE  \/ UNCHANGED fulfillment
             \/ \E m \in PaymentMethod, c \in Coupon \cup {NoCoupon} : CreateOrder(o, m, c)
  BY <1>2, <1>6, Zenon DEF Guest
<1>7. ASSUME NEW w \in Sweeper, SweepStep(w)
      PROVE  \/ UNCHANGED fulfillment
             \/ \E o \in overdue[w] : CancelDueToExpiry(w, o)
  BY <1>3, <1>7, Zenon DEF SweepStep
<1>8. CASE UNCHANGED vars
  BY <1>4, <1>8
<1>9. CASE Next
  BY <1>2, <1>3, <1>4, <1>5, <1>6, <1>7, <1>9, Zenon DEF Next
<1> QED
  BY <1>8, <1>9

(* No order leaves CANCELLED or DELIVERED.                                 *)
LEMMA EndsAreFinal ==
  ASSUME OrdersTypeOK, [Next]_vars, NEW p \in Order,
         fulfillment[p] \in {"CANCELLED", "DELIVERED"}
  PROVE  fulfillment'[p] = fulfillment[p]
<1> USE DEF OrdersTypeOK, Placed
<1>1. ASSUME NEW o \in Order, NEW m, NEW c, CreateOrder(o, m, c)
      PROVE  fulfillment'[p] = fulfillment[p]
  BY <1>1 DEF CreateOrder
<1>2. ASSUME NEW o \in Order, Confirm(o)
      PROVE  fulfillment'[p] = fulfillment[p]
  BY <1>2 DEF Confirm
<1>3. ASSUME NEW o \in Order, NEW target \in FulfillmentStatus, Advance(o, target)
      PROVE  fulfillment'[p] = fulfillment[p]
  <2>1. fulfillment[o] \in {"CONFIRMED", "PREPARING", "SHIPPED"}
    BY <1>3, AdvanceMoves DEF Advance
  <2> QED
    BY <1>3, <2>1 DEF Advance
<1>4. ASSUME NEW o \in Order, Cancel(o)
      PROVE  fulfillment'[p] = fulfillment[p]
  <2>1. fulfillment[o] # "DELIVERED"
    BY <1>4 DEF Cancel, FULFILLMENT_TRANSITIONS
  <2> QED
    BY <1>4, <2>1 DEF Cancel
<1>5. ASSUME NEW w \in Sweeper, NEW o \in overdue[w], CancelDueToExpiry(w, o)
      PROVE  fulfillment'[p] = fulfillment[p]
  BY <1>5 DEF CancelDueToExpiry
<1> HIDE DEF OrdersTypeOK, Placed
<1> QED
  BY <1>1, <1>2, <1>3, <1>4, <1>5, FulfillmentSteps

(* Payment and cancellation never both win: what was cancelled unpaid stays*)
(* unpaid, and no order leaves CANCELLED or DELIVERED.                     *)
THEOREM PaymentNeverFollowsCancellation == Spec => NoPaymentAfterCancellation
<1> DEFINE Step == \A o \in Order :
       /\ fulfillment[o] = "CANCELLED" /\ NeverPaid(o) => payment'[o] = payment[o]
       /\ fulfillment[o] \in {"CANCELLED", "DELIVERED"} => fulfillment'[o] = fulfillment[o]
<1>1. ASSUME Typed, [Next]_vars, NEW p \in Order,
             fulfillment[p] = "CANCELLED", NeverPaid(p)
      PROVE  payment'[p] = payment[p]
  BY <1>1, PaymentSteps DEF Typed, OrdersTypeOK, NeverPaid, RecordRefund
<1>2. Typed /\ [Next]_vars => [Step]_vars
  BY <1>1, EndsAreFinal DEF Typed
<1> QED
  BY <1>2, TypedInvariant, PTL DEF Spec, NoPaymentAfterCancellation

-----------------------------------------------------------------------------
(* The sweep                                                               *)

(* Only the sweep touches what it selected.                                *)
LEMMA OverdueSteps ==
  ASSUME NEW o \in Order, Staff(o) \/ Guest(o) \/ Clock(o)
  PROVE  UNCHANGED overdue
BY DEF Staff, Guest, Clock, Confirm, Advance, Cancel, SetPayment, MarkPaid, RecordRefund,
       RejectReceipt, CreateOrder, RecheckReplacement, InsertReplacement, AbortReplacement,
       DeadlinePasses, HoldsLapseAfterDeadline, orderVars, sweepVars

(* However old its selection, the sweep cancels nothing that was confirmed *)
(* or on which payment was reported in the meantime.                       *)
THEOREM SweepAlwaysSparesSettledOrders == Spec => SweepSparesSettledOrders
<1> DEFINE Step == \A o \in Order :
       overdue' # overdue /\ fulfillment'[o] # fulfillment[o]
         => fulfillment[o] = "PENDING" /\ payment[o] = "UNPAID"
<1>1. ASSUME OrdersTypeOK, [Next]_vars, NEW p \in Order,
             overdue' # overdue, fulfillment'[p] # fulfillment[p]
      PROVE  fulfillment[p] = "PENDING" /\ payment[p] = "UNPAID"
  <2>1. ASSUME NEW o \in Order,
               \/ \E m \in PaymentMethod, c \in Coupon \cup {NoCoupon} : CreateOrder(o, m, c)
               \/ Confirm(o)
               \/ \E target \in FulfillmentStatus : Advance(o, target)
               \/ Cancel(o)
        PROVE  FALSE
    BY <1>1, <2>1, OverdueSteps DEF Staff, Guest
  <2>2. PICK w \in Sweeper : \E o \in overdue[w] : CancelDueToExpiry(w, o)
    BY <1>1, <2>1, FulfillmentSteps, Zenon
  <2>3. PICK o \in overdue[w] : CancelDueToExpiry(w, o)
    BY <2>2
  <2> QED
    BY <1>1, <2>3 DEF CancelDueToExpiry, OrdersTypeOK
<1>2. Typed /\ [Next]_vars => [Step]_vars
  BY <1>1 DEF Typed
<1> QED
  BY <1>2, TypedInvariant, PTL DEF Spec, SweepSparesSettledOrders

-----------------------------------------------------------------------------
(* Receipts                                                                *)

Accepted(o) == \E i \in DOMAIN receipts[o] : receipts[o][i] = "ACCEPTED"

(* An order of InstaPay is paid exactly when a receipt of it was accepted; *)
(* before it is placed nothing is attached and nothing under way.          *)
ProofOf(o) ==
  /\ method[o] = "INSTAPAY_MANUAL" => (~NeverPaid(o) <=> Accepted(o))
  /\ ~Placed(o) => receipts[o] = <<>> /\ replacing[o] = 0

ProofInv == Typed /\ \A o \in Order : ProofOf(o)

(* The steps that change the receipts of an order.                         *)
LEMMA ReceiptSteps ==
  ASSUME [Next]_vars
  PROVE  \/ UNCHANGED <<receipts, method>>
         \/ \E o \in Order :
              \/ \E m \in PaymentMethod, c \in Coupon \cup {NoCoupon} : CreateOrder(o, m, c)
              \/ MarkPaid(o)
              \/ \E i \in DOMAIN receipts[o] : RejectReceipt(o, i)
              \/ InsertReplacement(o)
<1> DEFINE Same == UNCHANGED <<receipts, method>>
<1>1. ASSUME NEW o \in Order,
             \/ Confirm(o)
             \/ \E target \in FulfillmentStatus : Advance(o, target)
             \/ Cancel(o)
             \/ \E target \in PaymentStatus : SetPayment(o, target)
             \/ \E amount \in RefundAmounts : RecordRefund(o, amount)
             \/ RecheckReplacement(o) \/ AbortReplacement(o) \/ Clock(o)
      PROVE  Same
  BY <1>1
     DEF Confirm, Advance, Cancel, SetPayment, RecordRefund, RecheckReplacement,
         AbortReplacement, Clock, DeadlinePasses, HoldsLapseAfterDeadline,
         proofVars, orderVars
<1>2. ASSUME NEW w \in Sweeper, SweepStep(w) \/ SweepFails(w)
      PROVE  Same
  BY <1>2
     DEF SweepStep, SweepFails, StartSweep, SweepHold, SelectOverdue, CancelDueToExpiry,
         EndSweep, SweepCrashes, CancellationThrows, proofVars, orderVars
<1>3. UNCHANGED orderVars \/ UNCHANGED vars => Same
  BY DEF orderVars, vars, proofVars
<1> HIDE DEF Same
<1>4. ASSUME NEW o \in Order, Staff(o)
      PROVE  \/ Same
             \/ MarkPaid(o)
             \/ \E i \in DOMAIN receipts[o] : RejectReceipt(o, i)
  BY <1>1, <1>4, Zenon DEF Staff
<1>5. ASSUME NEW o \in Order, Guest(o)
      PROVE  \/ Same
             \/ \E m \in PaymentMethod, c \in Coupon \cup {NoCoupon} : CreateOrder(o, m, c)
             \/ InsertReplacement(o)
  BY <1>1, <1>5, Zenon DEF Guest
<1>6. CASE UNCHANGED vars
  BY <1>3, <1>6 DEF Same
<1>7. ASSUME Next
      PROVE  \/ Same
             \/ \E o \in Order :
                  \/ \E m \in PaymentMethod, c \in Coupon \cup {NoCoupon} : CreateOrder(o, m, c)
                  \/ MarkPaid(o)
                  \/ \E i \in DOMAIN receipts[o] : RejectReceipt(o, i)
                  \/ InsertReplacement(o)
  BY <1>1, <1>2, <1>3, <1>4, <1>5, <1>7, Zenon DEF Next
<1> QED
  BY <1>6, <1>7 DEF Same

(* A receipt that has its verdict keeps it, whichever of these happens.    *)
LEMMA VerdictStep ==
  ASSUME ProofInv, [Next]_vars, NEW p \in Order, NEW i \in DOMAIN receipts[p]
  PROVE  /\ i \in DOMAIN receipts'[p]
         /\ receipts[p][i] # "PENDING_REVIEW" => receipts'[p][i] = receipts[p][i]
<1> USE DEF ProofInv, Typed
<1>1. receipts \in [Order -> Seq(ReceiptStatus)]
  BY DEF OrdersTypeOK
<1>2. CASE UNCHANGED <<receipts, method>>
  BY <1>2
<1>3. ASSUME NEW o \in Order, NEW m, NEW c, CreateOrder(o, m, c)
      PROVE  receipts'[p] = receipts[p]
  <2>1. receipts[o] = <<>>
    BY <1>3 DEF CreateOrder, ProofOf
  <2>2. o # p
    BY <2>1
  <2> QED
    BY <1>1, <1>3, <2>2 DEF CreateOrder
<1>4. ASSUME NEW o \in Order, MarkPaid(o)
      PROVE  /\ DOMAIN receipts'[p] = DOMAIN receipts[p]
             /\ receipts[p][i] # "PENDING_REVIEW" => receipts'[p][i] = receipts[p][i]
  <2>1. \/ receipts' = [receipts EXCEPT ![o] = AcceptPending(@)]
        \/ UNCHANGED receipts
    BY <1>4 DEF MarkPaid
  <2>2. receipts'[p] = receipts[p] \/ receipts'[p] = AcceptPending(receipts[p])
    BY <1>1, <2>1
  <2> QED
    BY <2>2 DEF AcceptPending
<1>5. ASSUME NEW o \in Order, NEW j \in DOMAIN receipts[o], RejectReceipt(o, j)
      PROVE  /\ DOMAIN receipts'[p] = DOMAIN receipts[p]
             /\ receipts[p][i] # "PENDING_REVIEW" => receipts'[p][i] = receipts[p][i]
  BY <1>1, <1>5 DEF RejectReceipt
<1>6. ASSUME NEW o \in Order, InsertReplacement(o)
      PROVE  i \in DOMAIN receipts'[p] /\ receipts'[p][i] = receipts[p][i]
  <2>1. CASE o = p
    <3>1. receipts'[p] = Append(receipts[p], "PENDING_REVIEW")
      BY <1>1, <1>6, <2>1 DEF InsertReplacement
    <3>2. receipts[p] \in Seq(ReceiptStatus) /\ "PENDING_REVIEW" \in ReceiptStatus
      BY <1>1 DEF ReceiptStatus
    <3> QED
      BY <3>1, <3>2
  <2>2. CASE o # p
    BY <1>1, <1>6, <2>2 DEF InsertReplacement
  <2> QED
    BY <2>1, <2>2
<1> HIDE DEF ProofInv, Typed
<1> QED
  BY <1>2, <1>3, <1>4, <1>5, <1>6, ReceiptSteps

LEMMA ProofInit == Init => ProofInv
<1>1. Init => OrdersTypeOK
  BY OrdersInitType
<1> QED
  BY <1>1 DEF Init, ProofInv, Typed, ProofOf, Accepted, NeverPaid

(* Being paid starts with MarkPaid and never ends.                         *)
LEMMA PaidFromMarkPaid ==
  ASSUME Typed, [Next]_vars, NEW p \in Order, ~MarkPaid(p)
  PROVE  NeverPaid(p)' <=> NeverPaid(p)
<1>1. payment \in [Order -> PaymentStatus]
  BY DEF Typed, OrdersTypeOK
<1>2. ASSUME NEW o \in Order, NEW target \in PaymentStatus, SetPayment(o, target)
      PROVE  NeverPaid(p)' <=> NeverPaid(p)
  <2>1. NeverPaid(o)
    BY <1>1, <1>2, SetPaymentMoves DEF SetPayment, NeverPaid
  <2> QED
    BY <1>1, <1>2, <2>1 DEF SetPayment, NeverPaid
<1>3. ASSUME NEW o \in Order, NEW amount \in RefundAmounts, RecordRefund(o, amount)
      PROVE  NeverPaid(p)' <=> NeverPaid(p)
  BY <1>1, <1>3 DEF RecordRefund, NeverPaid
<1>4. ASSUME NEW o \in Order, MarkPaid(o)
      PROVE  NeverPaid(p)' <=> NeverPaid(p)
  <2>1. o # p
    BY <1>4
  <2> QED
    BY <1>1, <1>4, <2>1 DEF MarkPaid, NeverPaid
<1>5. ASSUME UNCHANGED payment
      PROVE  NeverPaid(p)' <=> NeverPaid(p)
  BY <1>5 DEF NeverPaid
<1>6. ASSUME NEW o \in Order,
             \/ Confirm(o)
             \/ \E target \in FulfillmentStatus : Advance(o, target)
             \/ Cancel(o)
             \/ \E i \in DOMAIN receipts[o] : RejectReceipt(o, i)
             \/ Guest(o) \/ Clock(o)
      PROVE  UNCHANGED payment
  BY <1>6
     DEF Confirm, Advance, Cancel, RejectReceipt, Guest, CreateOrder, RecheckReplacement,
         InsertReplacement, AbortReplacement, Clock, DeadlinePasses,
         HoldsLapseAfterDeadline, orderVars
<1>7. ASSUME NEW w \in Sweeper, SweepStep(w) \/ SweepFails(w)
      PROVE  UNCHANGED payment
  BY <1>7
     DEF SweepStep, SweepFails, StartSweep, SweepHold, SelectOverdue, CancelDueToExpiry,
         EndSweep, SweepCrashes, CancellationThrows, orderVars
<1>8. UNCHANGED orderVars \/ UNCHANGED vars => UNCHANGED payment
  BY DEF orderVars, vars
<1>9. ASSUME NEW o \in Order, Staff(o)
      PROVE  NeverPaid(p)' <=> NeverPaid(p)
  BY <1>2, <1>3, <1>4, <1>5, <1>6, <1>9, Zenon DEF Staff
<1>10. CASE Next
  BY <1>5, <1>6, <1>7, <1>8, <1>9, <1>10, Zenon DEF Next
<1> QED
  BY <1>5, <1>8, <1>10

(* An order stays placed, and only a placed order has an upload under way. *)
LEMMA UnplacedStep ==
  ASSUME ProofInv, [Next]_vars, NEW p \in Order, ~Placed(p)'
  PROVE  ~Placed(p) /\ receipts'[p] = <<>> /\ replacing'[p] = 0
<1> USE DEF ProofInv, Typed, OrdersTypeOK, Placed
<1>1. ~Placed(p)
  <2>1. ASSUME NEW o \in Order, NEW m, NEW c, CreateOrder(o, m, c)
        PROVE  ~Placed(p)
    BY <2>1 DEF CreateOrder
  <2>2. ASSUME NEW o \in Order,
               \/ Confirm(o)
               \/ \E target \in FulfillmentStatus : Advance(o, target)
               \/ Cancel(o)
        PROVE  ~Placed(p)
    BY <2>2 DEF Confirm, Advance, Cancel, FulfillmentStatus
  <2>3. ASSUME NEW w \in Sweeper, NEW o \in overdue[w], CancelDueToExpiry(w, o)
        PROVE  ~Placed(p)
    BY <2>3 DEF CancelDueToExpiry
  <2>4. UNCHANGED fulfillment => ~Placed(p)
    OBVIOUS
  <2> HIDE DEF ProofInv, Typed, OrdersTypeOK, Placed
  <2> QED
    BY <2>1, <2>2, <2>3, <2>4, FulfillmentSteps, Zenon
<1>2. receipts[p] = <<>> /\ replacing[p] = 0 /\ payment[p] = "UNPAID"
  BY <1>1 DEF ProofOf
<1>3. ASSUME NEW o \in Order, Staff(o)
      PROVE  receipts'[p] = <<>> /\ replacing'[p] = 0
  <2>1. ASSUME NEW i \in DOMAIN receipts[o], RejectReceipt(o, i)
        PROVE  receipts'[p] = <<>> /\ replacing'[p] = 0
    <3>1. o # p
      BY <1>2
    <3> QED
      BY <1>2, <2>1, <3>1 DEF RejectReceipt
  <2>2. CASE MarkPaid(o)
    <3>1. o # p
      BY <1>1, <2>2 DEF MarkPaid
    <3> QED
      BY <1>2, <2>2, <3>1 DEF MarkPaid
  <2>3. ASSUME \/ Confirm(o)
               \/ \E target \in FulfillmentStatus : Advance(o, target)
               \/ Cancel(o)
               \/ \E target \in PaymentStatus : SetPayment(o, target)
               \/ \E amount \in RefundAmounts : RecordRefund(o, amount)
        PROVE  receipts'[p] = <<>> /\ replacing'[p] = 0
    BY <1>2, <2>3 DEF Confirm, Advance, Cancel, SetPayment, RecordRefund, proofVars
  <2> QED
    BY <1>3, <2>1, <2>2, <2>3, Zenon DEF Staff
<1>4. ASSUME NEW o \in Order, Guest(o)
      PROVE  receipts'[p] = <<>> /\ replacing'[p] = 0
  <2>1. ASSUME NEW m, NEW c, CreateOrder(o, m, c)
        PROVE  receipts'[p] = <<>> /\ replacing'[p] = 0
    <3>1. o # p
      BY <2>1 DEF CreateOrder
    <3> QED
      BY <1>2, <2>1, <3>1 DEF CreateOrder
  <2>2. ASSUME RecheckReplacement(o) \/ InsertReplacement(o) \/ AbortReplacement(o)
        PROVE  receipts'[p] = <<>> /\ replacing'[p] = 0
    <3>1. o # p
      BY <1>1, <1>2, <2>2 DEF RecheckReplacement, InsertReplacement, AbortReplacement
    <3> QED
      BY <1>2, <2>2, <3>1 DEF RecheckReplacement, InsertReplacement, AbortReplacement
  <2> QED
    BY <1>4, <2>1, <2>2, Zenon DEF Guest
<1>5. ASSUME NEW o \in Order, Clock(o)
      PROVE  receipts'[p] = <<>> /\ replacing'[p] = 0
  BY <1>2, <1>5
     DEF Clock, DeadlinePasses, HoldsLapseAfterDeadline, orderVars, proofVars
<1>6. ASSUME NEW w \in Sweeper, SweepStep(w) \/ SweepFails(w)
      PROVE  receipts'[p] = <<>> /\ replacing'[p] = 0
  BY <1>2, <1>6
     DEF SweepStep, SweepFails, StartSweep, SweepHold, SelectOverdue, CancelDueToExpiry,
         EndSweep, SweepCrashes, CancellationThrows, proofVars, orderVars
<1>7. UNCHANGED orderVars \/ UNCHANGED vars => receipts'[p] = <<>> /\ replacing'[p] = 0
  BY <1>2 DEF orderVars, vars, proofVars
<1> HIDE DEF ProofInv, Typed, OrdersTypeOK, Placed
<1>8. CASE Next
  BY <1>1, <1>3, <1>4, <1>5, <1>6, <1>7, <1>8, Zenon DEF Next
<1> QED
  BY <1>1, <1>7, <1>8

(* A receipt that arrives is not yet accepted.                             *)
LEMMA AppendAcceptsNothing ==
  ASSUME NEW rs \in Seq(ReceiptStatus), NEW more, more = Append(rs, "PENDING_REVIEW")
  PROVE  (\E i \in DOMAIN more : more[i] = "ACCEPTED")
           <=> (\E i \in DOMAIN rs : rs[i] = "ACCEPTED")
<1>1. "PENDING_REVIEW" \in ReceiptStatus
  BY DEF ReceiptStatus
<1>2. /\ DOMAIN rs = 1..Len(rs)
      /\ DOMAIN more = 1..(Len(rs) + 1)
      /\ Len(rs) \in Nat
  BY <1>1
<1>3. /\ more[Len(rs) + 1] = "PENDING_REVIEW"
      /\ \A i \in 1..Len(rs) : more[i] = rs[i]
  BY <1>1
<1>4. \A i \in 1..(Len(rs) + 1) : i \in 1..Len(rs) \/ i = Len(rs) + 1
  BY <1>2
<1>5. \A i \in 1..Len(rs) : i \in 1..(Len(rs) + 1)
  BY <1>2
<1> QED
  BY <1>2, <1>3, <1>4, <1>5

(* What leaves the payment of p alone leaves its accepted receipts alone.  *)
LEMMA AcceptedFromMarkPaid ==
  ASSUME ProofInv, [Next]_vars, NEW p \in Order, ~MarkPaid(p),
         method'[p] = "INSTAPAY_MANUAL"
  PROVE  \/ method[p] = "INSTAPAY_MANUAL" /\ (Accepted(p)' <=> Accepted(p))
         \/ NeverPaid(p) /\ ~Accepted(p)'
<1> USE DEF ProofInv, Typed
<1>1. /\ receipts \in [Order -> Seq(ReceiptStatus)]
      /\ method \in [Order -> PaymentMethod]
  BY DEF OrdersTypeOK
<1> DEFINE Kept == method[p] = "INSTAPAY_MANUAL" /\ (Accepted(p)' <=> Accepted(p))
<1>2. CASE UNCHANGED <<receipts, method>>
  BY <1>2 DEF Accepted
<1>3. ASSUME NEW o \in Order, NEW m, NEW c, CreateOrder(o, m, c)
      PROVE  Kept \/ (NeverPaid(p) /\ ~Accepted(p)')
  <2>1. CASE o = p
    <3>1. NeverPaid(p)
      BY <1>3, <2>1 DEF CreateOrder, NeverPaid
    <3>2. receipts'[p] \in {<<"PENDING_REVIEW">>, <<>>}
      BY <1>1, <1>3, <2>1 DEF CreateOrder
    <3> QED
      BY <3>1, <3>2 DEF Accepted
  <2>2. CASE o # p
    BY <1>1, <1>3, <2>2 DEF CreateOrder, Accepted
  <2> QED
    BY <2>1, <2>2
<1>4. ASSUME NEW o \in Order, MarkPaid(o)
      PROVE  Kept
  <2>1. o # p
    BY <1>4
  <2> QED
    BY <1>1, <1>4, <2>1 DEF MarkPaid, Accepted
<1>5. ASSUME NEW o \in Order, NEW j \in DOMAIN receipts[o], RejectReceipt(o, j)
      PROVE  Kept
  BY <1>1, <1>5 DEF RejectReceipt, Accepted
<1>6. ASSUME NEW o \in Order, InsertReplacement(o)
      PROVE  Kept
  <2>1. CASE o = p
    <3>1. receipts'[p] = Append(receipts[p], "PENDING_REVIEW")
      BY <1>1, <1>6, <2>1 DEF InsertReplacement
    <3>2. receipts[p] \in Seq(ReceiptStatus)
      BY <1>1
    <3>3. Accepted(p)' <=> Accepted(p)
      BY <3>1, <3>2, AppendAcceptsNothing, Zenon DEF Accepted
    <3> QED
      BY <1>6, <3>3 DEF InsertReplacement
  <2>2. CASE o # p
    BY <1>1, <1>6, <2>2 DEF InsertReplacement, Accepted
  <2> QED
    BY <2>1, <2>2
<1> HIDE DEF ProofInv, Typed
<1> QED
  BY <1>2, <1>3, <1>4, <1>5, <1>6, ReceiptSteps

(* An order is marked paid together with the receipt that proves it.       *)
LEMMA MarkPaidAccepts ==
  ASSUME Typed, NEW p \in Order, MarkPaid(p), method'[p] = "INSTAPAY_MANUAL"
  PROVE  ~NeverPaid(p)' /\ Accepted(p)'
<1>1. /\ receipts \in [Order -> Seq(ReceiptStatus)]
      /\ payment \in [Order -> PaymentStatus]
  BY DEF Typed, OrdersTypeOK
<1>2. HasPending(p) /\ receipts'[p] = AcceptPending(receipts[p])
  BY <1>1 DEF MarkPaid
<1>3. Accepted(p)'
  BY <1>2 DEF HasPending, AcceptPending, Accepted
<1> QED
  BY <1>1, <1>3 DEF MarkPaid, NeverPaid

LEMMA ProofStep == ASSUME ProofInv, Typed', [Next]_vars PROVE ProofInv'
<1>1. ASSUME NEW p \in Order, method'[p] = "INSTAPAY_MANUAL"
      PROVE  ~NeverPaid(p)' <=> Accepted(p)'
  <2>1. CASE MarkPaid(p)
    BY <1>1, <2>1, MarkPaidAccepts DEF ProofInv
  <2>2. CASE ~MarkPaid(p)
    <3>1. NeverPaid(p)' <=> NeverPaid(p)
      BY <2>2, PaidFromMarkPaid DEF ProofInv
    <3>2. method[p] = "INSTAPAY_MANUAL" => (~NeverPaid(p) <=> Accepted(p))
      BY DEF ProofInv, ProofOf
    <3>3. \/ method[p] = "INSTAPAY_MANUAL" /\ (Accepted(p)' <=> Accepted(p))
          \/ NeverPaid(p) /\ ~Accepted(p)'
      BY <1>1, <2>2, AcceptedFromMarkPaid
    <3> QED
      BY <3>1, <3>2, <3>3, Zenon
  <2> QED
    BY <2>1, <2>2
<1>2. ASSUME NEW p \in Order, ~Placed(p)'
      PROVE  receipts'[p] = <<>> /\ replacing'[p] = 0
  BY <1>2, UnplacedStep
<1> QED
  BY <1>1, <1>2 DEF ProofInv, ProofOf

LEMMA ProofInvariant == Spec => []ProofInv
BY ProofInit, ProofStep, TypedInvariant, PTL DEF Spec

(* No payment without an accepted receipt, no accepted receipt without the *)
(* payment, whatever was uploaded, rejected or aborted around it.          *)
THEOREM PaymentAlwaysMatchesReceipt == Spec => []PaidExactlyWithAcceptedReceipt
<1>1. ProofInv => PaidExactlyWithAcceptedReceipt
  BY DEF ProofInv, ProofOf, Accepted, PaidExactlyWithAcceptedReceipt
<1> QED
  BY <1>1, ProofInvariant, PTL

(* No upload, payment or second review changes the verdict on a receipt.   *)
THEOREM VerdictsAreAlwaysFinal == Spec => VerdictsAreFinal
<1> DEFINE Step == \A o \in Order : \A i \in DOMAIN receipts[o] :
       /\ i \in DOMAIN receipts'[o]
       /\ receipts[o][i] # "PENDING_REVIEW" => receipts'[o][i] = receipts[o][i]
<1>1. ProofInv /\ [Next]_vars => [Step]_vars
  BY VerdictStep
<1> QED
  BY <1>1, ProofInvariant, PTL DEF Spec, VerdictsAreFinal

-----------------------------------------------------------------------------
(* Coupons                                                                 *)

(* A use is given back only by an order that was cancelled and never paid, *)
(* and a cart has none yet.                                                *)
UseOf(o) ==
  /\ couponReleased[o] => fulfillment[o] = "CANCELLED" /\ NeverPaid(o)
  /\ ~Placed(o) => coupon[o] = NoCoupon

Counted(c) ==
  /\ usageCount[c] = Cardinality(UsesOf(c))
  /\ usageCount[c] <= UsageLimit[c]

CouponInv ==
  /\ ProofInv
  /\ \A o \in Order : UseOf(o)
  /\ \A c \in Coupon : Counted(c)

(* The steps that take a use or give one back.                             *)
LEMMA CouponSteps ==
  ASSUME [Next]_vars
  PROVE  \/ UNCHANGED couponVars
         \/ \E o \in Order :
              \/ \E m \in PaymentMethod, c \in Coupon \cup {NoCoupon} : CreateOrder(o, m, c)
              \/ Cancel(o)
         \/ \E w \in Sweeper : \E o \in overdue[w] : CancelDueToExpiry(w, o)
<1>1. ASSUME NEW o \in Order,
             \/ Confirm(o)
             \/ \E target \in FulfillmentStatus : Advance(o, target)
             \/ \E target \in PaymentStatus : SetPayment(o, target)
             \/ MarkPaid(o)
             \/ \E amount \in RefundAmounts : RecordRefund(o, amount)
             \/ \E i \in DOMAIN receipts[o] : RejectReceipt(o, i)
             \/ RecheckReplacement(o) \/ InsertReplacement(o) \/ AbortReplacement(o)
             \/ Clock(o)
      PROVE  UNCHANGED couponVars
  BY <1>1
     DEF Confirm, Advance, SetPayment, MarkPaid, RecordRefund, RejectReceipt,
         RecheckReplacement, InsertReplacement, AbortReplacement, Clock, DeadlinePasses,
         HoldsLapseAfterDeadline, orderVars
<1>2. ASSUME NEW w \in Sweeper,
             \/ StartSweep(w) \/ SelectOverdue(w) \/ EndSweep(w) \/ SweepFails(w)
             \/ \E r \in candidates[w] : SweepHold(w, r)
      PROVE  UNCHANGED couponVars
  BY <1>2
     DEF StartSweep, SelectOverdue, EndSweep, SweepFails, SweepCrashes,
         CancellationThrows, SweepHold, orderVars
<1>3. UNCHANGED orderVars \/ UNCHANGED vars => UNCHANGED couponVars
  BY DEF orderVars, vars
<1>4. ASSUME NEW o \in Order, Staff(o)
      PROVE  UNCHANGED couponVars \/ Cancel(o)
  BY <1>1, <1>4, Zenon DEF Staff
<1>5. ASSUME NEW o \in Order, Guest(o)
      PROVE  \/ UNCHANGED couponVars
             \/ \E m \in PaymentMethod, c \in Coupon \cup {NoCoupon} : CreateOrder(o, m, c)
  BY <1>1, <1>5, Zenon DEF Guest
<1>6. ASSUME NEW w \in Sweeper, SweepStep(w)
      PROVE  \/ UNCHANGED couponVars
             \/ \E o \in overdue[w] : CancelDueToExpiry(w, o)
  BY <1>2, <1>6, Zenon DEF SweepStep
<1>7. CASE UNCHANGED vars
  BY <1>3, <1>7
<1>8. CASE Next
  BY <1>1, <1>2, <1>3, <1>4, <1>5, <1>6, <1>8, Zenon DEF Next
<1> QED
  BY <1>7, <1>8

LEMMA UsesFinite ==
  ASSUME NEW c
  PROVE  IsFiniteSet(UsesOf(c)) /\ Cardinality(UsesOf(c)) \in Nat
<1>1. UsesOf(c) \subseteq Order
  BY DEF UsesOf
<1> QED
  BY <1>1, FS_Subset, FS_CardinalityType

(* An order counts on the coupon it was given, and there was room for it.  *)
LEMMA CreateOrderCounts ==
  ASSUME CouponInv, NEW o \in Order, NEW m \in PaymentMethod,
         NEW c \in Coupon \cup {NoCoupon}, CreateOrder(o, m, c), NEW d \in Coupon
  PROVE  Counted(d)'
<1> USE DEF CouponInv, ProofInv, Typed, OrdersTypeOK
<1>1. coupon[o] = NoCoupon /\ ~couponReleased[o]
  BY DEF CreateOrder, UseOf, Placed
<1>2. /\ usageCount[d] = Cardinality(UsesOf(d)) /\ usageCount[d] \in Nat
      /\ usageCount[d] <= UsageLimit[d] /\ UsageLimit[d] \in Nat
  BY DEF Counted
<1>3. coupon' = [coupon EXCEPT ![o] = c] /\ UNCHANGED couponReleased
  BY DEF CreateOrder
<1>4. CASE d = c
  <2>1. UsesOf(d)' = UsesOf(d) \cup {o} /\ o \notin UsesOf(d)
    BY <1>1, <1>3, <1>4 DEF UsesOf
  <2>2. Cardinality(UsesOf(d)') = Cardinality(UsesOf(d)) + 1
    <3> DEFINE U == UsesOf(d)
    <3>1. IsFiniteSet(U) /\ o \notin U /\ UsesOf(d)' = U \cup {o}
      BY <2>1, UsesFinite
    <3> HIDE DEF U
    <3>2. Cardinality(U \cup {o}) = Cardinality(U) + 1
      BY <3>1, FS_AddElement
    <3> QED
      BY <3>1, <3>2 DEF U
  <2>3. usageCount[d] < UsageLimit[d] /\ usageCount'[d] = usageCount[d] + 1
    BY <1>4 DEF CreateOrder
  <2> QED
    BY <1>2, <2>2, <2>3 DEF Counted
<1>5. CASE d # c
  <2>1. UsesOf(d)' = UsesOf(d)
    BY <1>1, <1>3, <1>5 DEF UsesOf
  <2>2. usageCount'[d] = usageCount[d]
    BY <1>5 DEF CreateOrder
  <2> QED
    BY <1>2, <2>1, <2>2 DEF Counted
<1> QED
  BY <1>4, <1>5

(* A use that comes back is taken off the count it was added to, which is  *)
(* therefore not 0: GREATEST never has to step in.                         *)
LEMMA ReleaseCounts ==
  ASSUME CouponInv, NEW o \in Order, NEW release \in BOOLEAN,
         release => coupon[o] \in Coupon /\ ~couponReleased[o],
         UNCHANGED coupon,
         couponReleased' = [couponReleased EXCEPT ![o] = @ \/ release],
         IF release THEN ReleaseUse(o) ELSE UNCHANGED usageCount,
         NEW d \in Coupon
  PROVE  Counted(d)'
<1> USE DEF CouponInv, ProofInv, Typed, OrdersTypeOK
<1>1. /\ usageCount[d] = Cardinality(UsesOf(d)) /\ usageCount[d] \in Nat
      /\ usageCount[d] <= UsageLimit[d] /\ UsageLimit[d] \in Nat
  BY DEF Counted
<1>2. CASE release /\ coupon[o] = d
  <2>1. UsesOf(d)' = UsesOf(d) \ {o} /\ o \in UsesOf(d)
    BY <1>2 DEF UsesOf
  <2>2. /\ Cardinality(UsesOf(d)') = Cardinality(UsesOf(d)) - 1
        /\ Cardinality(UsesOf(d)) # 0
    <3> DEFINE U == UsesOf(d)
    <3>1. IsFiniteSet(U) /\ o \in U /\ UsesOf(d)' = U \ {o}
      BY <2>1, UsesFinite
    <3> HIDE DEF U
    <3>2. Cardinality(U \ {o}) = Cardinality(U) - 1 /\ Cardinality(U) # 0
      BY <3>1, FS_RemoveElement, FS_EmptySet
    <3> QED
      BY <3>1, <3>2 DEF U
  <2>3. usageCount'[d] = usageCount[d] - 1
    BY <1>1, <1>2, <2>2 DEF ReleaseUse
  <2> QED
    BY <1>1, <2>2, <2>3 DEF Counted
<1>3. CASE ~(release /\ coupon[o] = d)
  <2>1. UsesOf(d)' = UsesOf(d)
    BY <1>3 DEF UsesOf
  <2>2. usageCount'[d] = usageCount[d]
    BY <1>3 DEF ReleaseUse
  <2> QED
    BY <1>1, <2>1, <2>2 DEF Counted
<1> QED
  BY <1>2, <1>3

LEMMA CountedStep ==
  ASSUME CouponInv, [Next]_vars, NEW d \in Coupon
  PROVE  Counted(d)'
<1>1. ASSUME NEW o \in Order, Cancel(o)
      PROVE  Counted(d)'
  <2> DEFINE release == coupon[o] \in Coupon /\ ~couponReleased[o] /\ NeverPaid(o)
  <2>1. release \in BOOLEAN
    OBVIOUS
  <2> QED
    BY <1>1, <2>1, ReleaseCounts DEF Cancel
<1>2. ASSUME NEW w \in Sweeper, NEW o \in overdue[w], CancelDueToExpiry(w, o)
      PROVE  Counted(d)'
  <2> DEFINE release == coupon[o] \in Coupon /\ ~couponReleased[o]
  <2>1. o \in Order /\ UNCHANGED coupon
    BY <1>2 DEF CancelDueToExpiry, CouponInv, ProofInv, Typed, OrdersTypeOK
  <2>2. CASE fulfillment[o] = "PENDING" /\ payment[o] = "UNPAID"
    <3>1. /\ couponReleased' = [couponReleased EXCEPT ![o] = @ \/ release]
          /\ IF release THEN ReleaseUse(o) ELSE UNCHANGED usageCount
      BY <1>2, <2>1, <2>2 DEF CancelDueToExpiry, CouponInv, ProofInv, Typed, OrdersTypeOK
    <3> QED
      BY <2>1, <3>1, ReleaseCounts
  <2>3. CASE ~(fulfillment[o] = "PENDING" /\ payment[o] = "UNPAID")
    <3>1. UNCHANGED couponVars
      BY <1>2, <2>1, <2>3 DEF CancelDueToExpiry, couponVars
    <3> QED
      BY <3>1 DEF couponVars, CouponInv, Counted, UsesOf
  <2> QED
    BY <2>2, <2>3
<1>3. CASE UNCHANGED couponVars
  BY <1>3 DEF couponVars, CouponInv, Counted, UsesOf
<1> QED
  BY <1>1, <1>2, <1>3, CouponSteps, CreateOrderCounts

(* The coupon of an order is that of its checkout, and what is given back  *)
(* stays so: neither payment nor another status can follow.                *)
LEMMA UseStep ==
  ASSUME CouponInv, [Next]_vars, NEW p \in Order
  PROVE  UseOf(p)'
<1>1. /\ ProofInv /\ Typed /\ UseOf(p)
      /\ coupon \in [Order -> Coupon \cup {NoCoupon}]
      /\ couponReleased \in [Order -> BOOLEAN]
      /\ fulfillment \in [Order -> FulfillmentStatus \cup {"NONE"}]
  BY DEF CouponInv, ProofInv, Typed, OrdersTypeOK
<1>2. ASSUME couponReleased[p]
      PROVE  fulfillment'[p] = "CANCELLED" /\ NeverPaid(p)'
  <2>1. fulfillment[p] = "CANCELLED" /\ NeverPaid(p)
    BY <1>1, <1>2 DEF UseOf
  <2>2. ~MarkPaid(p)
    BY <2>1 DEF MarkPaid
  <2>3. NeverPaid(p)'
    BY <1>1, <2>1, <2>2, PaidFromMarkPaid
  <2>4. fulfillment'[p] = "CANCELLED"
    BY <1>1, <2>1, EndsAreFinal DEF Typed
  <2> QED
    BY <2>3, <2>4
<1> DEFINE Kept == couponReleased'[p] = couponReleased[p]
           Given == fulfillment'[p] = "CANCELLED" /\ NeverPaid(p)'
<1>3. ASSUME NEW o \in Order, Cancel(o)
      PROVE  coupon' = coupon /\ (Kept \/ Given)
  BY <1>1, <1>3 DEF Cancel, NeverPaid
<1>4. ASSUME NEW w \in Sweeper, NEW o \in overdue[w], CancelDueToExpiry(w, o)
      PROVE  coupon' = coupon /\ (Kept \/ Given)
  <2>1. o \in Order
    BY <1>1 DEF Typed, OrdersTypeOK
  <2> QED
    BY <1>1, <1>4, <2>1 DEF CancelDueToExpiry, NeverPaid
<1>5. ASSUME NEW o \in Order, NEW m, NEW c, CreateOrder(o, m, c)
      PROVE  Kept /\ (~Placed(p)' => coupon'[p] = coupon[p])
  BY <1>1, <1>5 DEF CreateOrder, Placed
<1>6. UNCHANGED couponVars => coupon' = coupon /\ Kept
  BY DEF couponVars
<1>7. ~Placed(p)' => ~Placed(p)
  BY <1>1, UnplacedStep
<1>8. ~Placed(p) => coupon[p] = NoCoupon
  BY <1>1 DEF UseOf
<1> HIDE DEF Kept, Given
<1>9. (Kept \/ Given) /\ (~Placed(p)' => coupon'[p] = coupon[p])
  BY <1>3, <1>4, <1>5, <1>6, CouponSteps
<1>10. couponReleased'[p] => Given
  BY <1>2, <1>9 DEF Kept, Given
<1> QED
  BY <1>7, <1>8, <1>9, <1>10 DEF UseOf, Given

LEMMA CouponInvariant == Spec => []CouponInv
<1>1. Init /\ ProofInv => CouponInv
  <2> SUFFICES ASSUME Init, ProofInv
               PROVE  CouponInv
    OBVIOUS
  <2>1. ASSUME NEW c \in Coupon
        PROVE  Counted(c)
    <3>1. UsesOf(c) = {}
      BY DEF Init, UsesOf
    <3>2. Cardinality(UsesOf(c)) = 0
      BY <3>1, FS_EmptySet
    <3> QED
      BY <3>2 DEF Init, Counted
  <2> QED
    BY <2>1 DEF Init, CouponInv, UseOf
<1>2. CouponInv /\ ProofInv' /\ [Next]_vars => CouponInv'
  <2> SUFFICES ASSUME CouponInv, ProofInv', [Next]_vars
               PROVE  CouponInv'
    OBVIOUS
  <2>1. \A o \in Order : UseOf(o)'
    BY UseStep
  <2>2. \A c \in Coupon : Counted(c)'
    BY CountedStep
  <2> QED
    BY <2>1, <2>2 DEF CouponInv
<1> QED
  BY <1>1, <1>2, ProofInvariant, PTL DEF Spec

(* The count of a coupon is the number of orders that used it and did not  *)
(* give the use back, never above its limit, whatever is cancelled, swept  *)
(* or paid in the meantime.                                                *)
THEOREM CouponUsesAlwaysAddUp == Spec => []CouponUsesAddUp
<1>1. CouponInv => CouponUsesAddUp
  BY DEF CouponInv, Counted, UseOf, CouponUsesAddUp
<1> QED
  BY <1>1, CouponInvariant, PTL

=============================================================================
