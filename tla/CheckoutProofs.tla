---------------------------- MODULE CheckoutProofs ---------------------------
(***************************************************************************)
(* createOrder keeps its promise, for any number of requests, carts, keys, *)
(* receipts and stock items: every statement of Checkout is a step of      *)
(* IdempotentCheckout or changes nothing a guest can see.                  *)
(*                                                                         *)
(* That rests on what each request knows at the statement it has reached   *)
(* (AtItsStatement), which rests on the row lock of the cart and the index *)
(* entry of the key (Alone).                                               *)
(***************************************************************************)
EXTENDS Checkout, InventoryProofs

USE CheckoutAssumption DEF CheckoutAssumption, Request

Step == {"lookup", "precheck", "fallback", "claim", "claimed", "inserted",
         "conflict", "placed", "done"}

(* Between the claim of the cart and the end of the transaction.           *)
Transaction == {"claimed", "inserted"}

(* What r may rely on at the statement t, whatever others did since its    *)
(* last one: nobody else has its cart or its key, ...                      *)
Alone(r, t) ==
  \A q \in Request \ {r} :
    /\ t \in Transaction /\ pc[q] \in Transaction => CartOf[q] # CartOf[r]
    /\ t = "inserted" /\ pc[q] = "inserted" => KeyOf[q] # KeyOf[r]

(* ... and what it has read still holds.                                   *)
Knows(r, t) ==
  /\ t \in {"precheck", "fallback"} => Paid(r)
  /\ t = "fallback" => attachedTo[ReceiptOf[r]] # NoOrder
  /\ t \in Transaction => \A q \in orders : CartOf[q] # CartOf[r]
  /\ t = "inserted" => \A q \in orders : KeyOf[q] # KeyOf[r]
  /\ t = "conflict" => \E q \in orders : KeyOf[q] = KeyOf[r]
  /\ t = "placed" => r \in orders
  /\ r \in orders => t \in {"placed", "done"}

AtItsStatement(r) ==
  /\ Alone(r, pc[r])
  /\ Knows(r, pc[r])
  /\ pc[r] # "done" => answer[r] = NoAnswer

(* A receipt is attached to an order that names it.                        *)
AttachedByName ==
  \A x \in Receipt : attachedTo[x] # NoOrder =>
    attachedTo[x] \in orders /\ ReceiptOf[attachedTo[x]] = x

CheckoutInv ==
  /\ CheckoutTypeOK
  /\ \A r \in Request : AtItsStatement(r)
  /\ AttachedByName
  /\ OneOrderPerCart
  /\ NothingHalfDone
  /\ LapsedProofIsNotUsed

-----------------------------------------------------------------------------
(* What an order already excludes                                          *)

(* An order with the cart or the key of r is the only one that could be    *)
(* the same as r.                                                          *)
LEMMA OnlyOneCandidate ==
  ASSUME OneOrderPerCart, NEW r \in Request, orders \subseteq Request,
         NEW q \in orders, CartOf[q] = CartOf[r] \/ KeyOf[q] = KeyOf[r],
         NEW p \in orders, Same(p, r)
  PROVE  p = q
BY DEF OneOrderPerCart, Promise!OneOrderPerCart, Promise!Excludes, Same, Promise!Same

(* A receipt that is free belongs to no order, so no order is the same as  *)
(* a request that brings it.                                               *)
LEMMA FreeReceiptIsNew ==
  ASSUME CheckoutInv, NEW r \in Request, Paid(r),
         attachedTo[ReceiptOf[r]] = NoOrder, NEW q \in orders
  PROVE  ~Same(q, r)
<1>1. q \in Request
  BY DEF CheckoutInv, CheckoutTypeOK
<1>2. Same(q, r) => ReceiptOf[q] = ReceiptOf[r]
  BY <1>1 DEF Same, Promise!Same
<1>3. Same(q, r) => attachedTo[ReceiptOf[r]] = q
  BY <1>1, <1>2 DEF CheckoutInv, NothingHalfDone, Paid
<1> QED
  BY <1>1, <1>3

-----------------------------------------------------------------------------
(* The steps                                                               *)

Answers == {NoAnswer, Conflict, Refused} \cup {OrderOf(q) : q \in Request}

LEMMA InvInit == Init => CheckoutInv
<1> SUFFICES ASSUME Init PROVE CheckoutInv
  OBVIOUS
<1>1. InventoryTypeOK
  BY InventoryInitType DEF Init
<1>2. CheckoutTypeOK
  BY <1>1 DEF Init, CheckoutTypeOK
<1>3. \A r \in Request : AtItsStatement(r)
  BY DEF Init, AtItsStatement, Alone, Knows, Transaction
<1>4. AttachedByName /\ OneOrderPerCart /\ LapsedProofIsNotUsed
  BY DEF Init, AttachedByName, OneOrderPerCart, Promise!OneOrderPerCart, LapsedProofIsNotUsed
<1>5. NothingHalfDone
  BY DEF Init, InventoryInit, NothingHalfDone, ItemsOf
<1> QED
  BY <1>2, <1>3, <1>4, <1>5 DEF CheckoutInv

(* A request goes on to a statement whose knowledge it has; what is        *)
(* committed stays as it is.                                               *)
LEMMA MoveKeepsInv ==
  ASSUME CheckoutInv, NEW r \in Request, NEW t \in Step, Alone(r, t), Knows(r, t),
         pc' = [pc EXCEPT ![r] = t],
         UNCHANGED <<inventoryVars, orders, cartStatus, attachedTo, lapsed>>,
         \/ answer' = answer
         \/ t = "done" /\ \E what \in Answers : answer' = [answer EXCEPT ![r] = what],
         t # "done" => answer'[r] = NoAnswer
  PROVE  CheckoutInv'
<1>1. CheckoutTypeOK'
  <2>1. InventoryTypeOK'
    BY DEF CheckoutInv, CheckoutTypeOK, InventoryTypeOK, inventoryVars
  <2>2. pc' \in [Request -> Step]
    BY DEF CheckoutInv, CheckoutTypeOK, Step
  <2>3. answer' \in [Request -> Answers]
    BY DEF CheckoutInv, CheckoutTypeOK, Answers
  <2> QED
    BY <2>1, <2>2, <2>3 DEF CheckoutInv, CheckoutTypeOK, Step, Answers
<1>2. ASSUME NEW q \in Request
      PROVE  AtItsStatement(q)'
  <2>1. pc'[q] = IF q = r THEN t ELSE pc[q]
    BY DEF CheckoutInv, CheckoutTypeOK
  <2>2. q # r => answer'[q] = answer[q]
    BY DEF CheckoutInv, CheckoutTypeOK
  <2>3. AtItsStatement(q)
    BY DEF CheckoutInv
  <2>4. Knows(q, pc[q])'
    BY <2>1, <2>3 DEF AtItsStatement, Knows, Paid
  <2>5. ASSUME NEW p \in Request \ {q}
        PROVE  /\ pc'[q] \in Transaction /\ pc'[p] \in Transaction => CartOf[p] # CartOf[q]
               /\ pc'[q] = "inserted" /\ pc'[p] = "inserted" => KeyOf[p] # KeyOf[q]
    <3>1. pc'[p] = IF p = r THEN t ELSE pc[p]
      BY DEF CheckoutInv, CheckoutTypeOK
    <3> QED
      BY <2>1, <2>3, <3>1 DEF AtItsStatement, Alone
  <2>6. Alone(q, pc[q])'
    BY <2>5 DEF Alone
  <2> QED
    BY <2>1, <2>2, <2>3, <2>4, <2>6 DEF AtItsStatement
<1>3. AttachedByName' /\ OneOrderPerCart' /\ NothingHalfDone' /\ LapsedProofIsNotUsed'
  BY DEF CheckoutInv, AttachedByName, OneOrderPerCart, Promise!OneOrderPerCart,
         Promise!Excludes, NothingHalfDone, LapsedProofIsNotUsed, inventoryVars, ItemsOf, Paid
<1> QED
  BY <1>1, <1>2, <1>3 DEF CheckoutInv

LEMMA GotoKeepsInv ==
  ASSUME CheckoutInv, NEW r \in Request, NEW t \in Step, Alone(r, t), Knows(r, t),
         Goto(r, t), pc[r] # "done"
  PROVE  CheckoutInv'
<1>1. answer'[r] = NoAnswer
  BY DEF Goto, CheckoutInv, AtItsStatement
<1>2. /\ pc' = [pc EXCEPT ![r] = t]
      /\ UNCHANGED <<inventoryVars, orders, cartStatus, attachedTo, lapsed>>
      /\ answer' = answer
  BY DEF Goto
<1> QED
  BY <1>1, <1>2, MoveKeepsInv

LEMMA ReplyKeepsInv ==
  ASSUME CheckoutInv, NEW r \in Request, NEW what \in Answers, Reply(r, what)
  PROVE  CheckoutInv'
<1>1. Alone(r, "done") /\ Knows(r, "done")
  BY DEF Alone, Knows, Transaction
<1> QED
  BY <1>1, MoveKeepsInv DEF Reply, Step

LEMMA ReplyWithKeepsInv ==
  ASSUME CheckoutInv, NEW r \in Request, NEW q \in Request, ReplyWith(r, q)
  PROVE  CheckoutInv'
BY ReplyKeepsInv DEF ReplyWith, Answers

(* Before the transaction.                                                 *)
LEMMA LookUpKeepsInv ==
  ASSUME CheckoutInv, NEW r \in Request, LookUp(r)
  PROVE  CheckoutInv'
<1>1. orders \subseteq Request
  BY DEF CheckoutInv, CheckoutTypeOK
<1>2. ASSUME NEW q \in orders, ReplyWith(r, q)
      PROVE  CheckoutInv'
  BY <1>1, <1>2, ReplyWithKeepsInv
<1>3. ASSUME Goto(r, IF Paid(r) THEN "precheck" ELSE "claim")
      PROVE  CheckoutInv'
  <2> DEFINE t == IF Paid(r) THEN "precheck" ELSE "claim"
  <2>1. t \in Step /\ Alone(r, t) /\ Knows(r, t) /\ pc[r] # "done"
    BY DEF LookUp, Step, Alone, Knows, Transaction, CheckoutInv, AtItsStatement
  <2> HIDE DEF t
  <2> QED
    BY <1>3, <2>1, GotoKeepsInv DEF t
<1> QED
  BY <1>2, <1>3 DEF LookUp

LEMMA PrecheckKeepsInv ==
  ASSUME CheckoutInv, NEW r \in Request, Precheck(r)
  PROVE  CheckoutInv'
<1>1. AtItsStatement(r) /\ pc[r] = "precheck" /\ pc[r] # "done"
  BY DEF CheckoutInv, Precheck
<1>2. CASE Goto(r, "claim")
  <2>1. "claim" \in Step /\ Alone(r, "claim") /\ Knows(r, "claim")
    BY <1>1 DEF Step, Alone, Knows, Transaction, AtItsStatement
  <2> QED
    BY <1>1, <1>2, <2>1, GotoKeepsInv
<1>3. CASE attachedTo[ReceiptOf[r]] # NoOrder /\ Goto(r, "fallback")
  <2>1. "fallback" \in Step /\ Alone(r, "fallback") /\ Knows(r, "fallback")
    BY <1>1, <1>3 DEF Step, Alone, Knows, Transaction, AtItsStatement
  <2> QED
    BY <1>1, <1>3, <2>1, GotoKeepsInv
<1>4. CASE Reply(r, Refused)
  BY <1>4, ReplyKeepsInv DEF Answers
<1> QED
  BY <1>2, <1>3, <1>4 DEF Precheck

LEMMA FallbackKeepsInv ==
  ASSUME CheckoutInv, NEW r \in Request, Fallback(r)
  PROVE  CheckoutInv'
<1>1. orders \subseteq Request
  BY DEF CheckoutInv, CheckoutTypeOK
<1>2. ASSUME NEW q \in orders, Reply(r, OrderOf(q))
      PROVE  CheckoutInv'
  BY <1>1, <1>2, ReplyKeepsInv DEF Answers
<1>3. CASE Reply(r, Conflict)
  BY <1>3, ReplyKeepsInv DEF Answers
<1> QED
  BY <1>2, <1>3 DEF Fallback

(* The lock of the cart lets one request through, and the status that no   *)
(* order has the cart.                                                     *)
LEMMA ClaimKeepsInv ==
  ASSUME CheckoutInv, NEW r \in Request, Claim(r)
  PROVE  CheckoutInv'
<1>1. orders \subseteq Request
  BY DEF CheckoutInv, CheckoutTypeOK
<1>2. CASE cartStatus[CartOf[r]] = "ACTIVE" /\ Goto(r, "claimed")
  <2>1. Alone(r, "claimed")
    BY DEF Claim, CartLocked, Alone, Transaction
  <2>2. \A q \in orders : CartOf[q] # CartOf[r]
    BY <1>2 DEF CheckoutInv, NothingHalfDone
  <2>3. r \notin orders /\ pc[r] # "done"
    BY DEF Claim, CheckoutInv, AtItsStatement, Knows
  <2>4. "claimed" \in Step /\ Knows(r, "claimed")
    BY <2>2, <2>3 DEF Step, Knows, Transaction
  <2> QED
    BY <1>2, <2>1, <2>3, <2>4, GotoKeepsInv
<1>3. ASSUME NEW q \in orders, ReplyWith(r, q)
      PROVE  CheckoutInv'
  BY <1>1, <1>3, ReplyWithKeepsInv
<1> QED
  BY <1>2, <1>3 DEF Claim

(* The index lets one uncommitted entry of a key in, and none beside a     *)
(* committed one.                                                          *)
LEMMA InsertOrderKeepsInv ==
  ASSUME CheckoutInv, NEW r \in Request, InsertOrder(r)
  PROVE  CheckoutInv'
<1> DEFINE t == IF \E q \in orders : KeyOf[q] = KeyOf[r] THEN "conflict" ELSE "inserted"
<1>1. AtItsStatement(r) /\ pc[r] = "claimed" /\ pc[r] # "done"
  BY DEF CheckoutInv, InsertOrder
<1>2. Alone(r, t)
  BY <1>1 DEF InsertOrder, KeyLocked, Alone, AtItsStatement, Transaction
<1>3. t \in Step /\ Knows(r, t)
  BY <1>1 DEF Step, Knows, AtItsStatement, Transaction
<1>4. Goto(r, t)
  BY DEF InsertOrder
<1> HIDE DEF t
<1> QED
  BY <1>1, <1>2, <1>3, <1>4, GotoKeepsInv

(* What the transaction of r finds when it commits: its cart, its key and  *)
(* its receipt are nobody's, and it holds no stock.                        *)
LEMMA NothingYet ==
  ASSUME CheckoutInv, NEW r \in Request, pc[r] = "inserted"
  PROVE  /\ r \notin orders
         /\ \A q \in orders : CartOf[q] # CartOf[r] /\ KeyOf[q] # KeyOf[r]
         /\ \A s \in ItemsOf(r) : reservation[r][s] = "NONE"
         /\ answer[r] = NoAnswer
BY DEF CheckoutInv, AtItsStatement, Knows, Transaction, NothingHalfDone

LEMMA CommitReserves ==
  ASSUME CheckoutInv, NEW r \in Request, Commit(r)
  PROVE  Reserve(r, ItemsOf(r)) /\ InventoryNext
<1>1. \A s \in ItemsOf(r) : reservation[r][s] = "NONE"
  BY NothingYet DEF Commit
<1>2. Reserve(r, ItemsOf(r))
  BY <1>1 DEF Commit, Reserve
<1> QED
  BY <1>2 DEF InventoryNext

LEMMA CommitKeepsInv ==
  ASSUME CheckoutInv, NEW r \in Request, Commit(r)
  PROVE  CheckoutInv'
<1> USE DEF CheckoutInv
<1>1. pc[r] = "inserted"
  BY DEF Commit
<1>2. /\ r \notin orders
      /\ \A q \in orders : CartOf[q] # CartOf[r] /\ KeyOf[q] # KeyOf[r]
  BY <1>1, NothingYet
<1>3. InventoryTypeOK'
  BY CommitReserves, InventoryStepType DEF CheckoutTypeOK
<1>4. CheckoutTypeOK'
  BY <1>3 DEF Commit, CheckoutTypeOK
<1>5. orders' = orders \cup {r} /\ orders \subseteq Request
  BY DEF Commit, CheckoutTypeOK
<1>6. \A x \in Receipt : attachedTo'[x] = IF x = ReceiptOf[r] THEN r ELSE attachedTo[x]
  BY DEF Commit
<1>7. ASSUME NEW q \in Request
      PROVE  AtItsStatement(q)'
  <2>1. AtItsStatement(q) /\ AtItsStatement(r)
    OBVIOUS
  <2>2. \A p \in Request : pc'[p] = IF p = r THEN "placed" ELSE pc[p]
    BY DEF Commit, CheckoutTypeOK
  <2>3. Alone(q, pc[q])'
    BY <2>1, <2>2 DEF AtItsStatement, Alone, Transaction
  <2>4. Knows(q, pc[q])'
    <3>1. CASE q = r
      BY <1>5, <2>2, <3>1 DEF Knows, Transaction
    <3>2. CASE q # r
      <4>1. pc'[q] = pc[q]
        BY <2>2, <3>2
      <4>2. pc[q] \in Transaction => CartOf[r] # CartOf[q]
        BY <1>1, <2>1, <3>2 DEF AtItsStatement, Alone, Transaction
      <4>3. pc[q] = "inserted" => KeyOf[r] # KeyOf[q]
        BY <1>1, <2>1, <3>2 DEF AtItsStatement, Alone
      <4>4. pc[q] = "fallback" => attachedTo'[ReceiptOf[q]] # NoOrder
        BY <1>6, <2>1 DEF AtItsStatement, Knows, Paid
      <4> QED
        BY <1>5, <2>1, <3>2, <4>1, <4>2, <4>3, <4>4 DEF AtItsStatement, Knows, Paid
    <3> QED
      BY <3>1, <3>2
  <2>5. pc'[q] # "done" => answer'[q] = NoAnswer
    BY <1>1, <2>1, <2>2 DEF AtItsStatement, Commit
  <2> QED
    BY <2>3, <2>4, <2>5 DEF AtItsStatement
<1>8. AttachedByName'
  BY <1>5, <1>6 DEF AttachedByName
<1>9. OneOrderPerCart'
  BY <1>2, <1>5 DEF OneOrderPerCart, Promise!OneOrderPerCart, Promise!Excludes
<1>10. NothingHalfDone'
  <2>1. ASSUME NEW c \in Cart
        PROVE  cartStatus'[c] = "ORDERED" <=> \E q \in orders' : CartOf[q] = c
    BY <1>5 DEF Commit, CheckoutTypeOK, NothingHalfDone
  <2>2. ASSUME NEW q \in Request, NEW s \in ItemsOf(q)
        PROVE  reservation'[q][s] # "NONE" <=> q \in orders'
    BY <1>5 DEF Commit, ReserveItems, CheckoutTypeOK, InventoryTypeOK, NothingHalfDone, ItemsOf
  <2>3. \A x \in Receipt : attachedTo'[x] # NoOrder => attachedTo'[x] \in orders'
    BY <1>5, <1>6 DEF NothingHalfDone
  <2>4. ASSUME NEW q \in orders', Paid(q)
        PROVE  attachedTo'[ReceiptOf[q]] = q
    <3>1. CASE q = r
      BY <1>6, <2>4, <3>1 DEF Paid
    <3>2. CASE q # r
      <4>1. q \in orders /\ attachedTo[ReceiptOf[q]] = q
        BY <1>5, <2>4, <3>2 DEF NothingHalfDone
      <4>2. CartOf[q] # CartOf[r]
        BY <1>2, <4>1
      <4>3. ReceiptOf[q] # ReceiptOf[r]
        BY <1>5, <2>4, <4>1, <4>2 DEF Paid
      <4> QED
        BY <1>6, <2>4, <4>1, <4>3 DEF Paid
    <3> QED
      BY <3>1, <3>2
  <2> QED
    BY <2>1, <2>2, <2>3, <2>4 DEF NothingHalfDone, Paid, ItemsOf
<1>11. LapsedProofIsNotUsed'
  <2>1. lapsed' = lapsed /\ lapsed \subseteq Receipt
    BY DEF Commit, CheckoutTypeOK
  <2>2. ReceiptOf[r] \notin lapsed
    BY <2>1 DEF Commit, Attachable, Paid
  <2> QED
    BY <1>6, <2>1, <2>2 DEF LapsedProofIsNotUsed
<1> QED
  BY <1>4, <1>7, <1>8, <1>9, <1>10, <1>11

(* After the transaction, and what happens to a request and around it.     *)
LEMMA AnswerKeepsInv ==
  ASSUME CheckoutInv, NEW r \in Request,
         Reject(r) \/ RollBack(r) \/ AnswerPlaced(r) \/ AnswerConflicted(r) \/ GetsLost(r)
  PROVE  CheckoutInv'
<1>1. orders \subseteq Request
  BY DEF CheckoutInv, CheckoutTypeOK
<1>2. CASE Reject(r) \/ RollBack(r) \/ AnswerPlaced(r)
  BY <1>2, ReplyKeepsInv DEF Reject, RollBack, AnswerPlaced, Answers
<1>3. CASE AnswerConflicted(r)
  BY <1>1, <1>3, ReplyWithKeepsInv DEF AnswerConflicted
<1>4. CASE GetsLost(r)
  <2>1. Alone(r, "done") /\ Knows(r, "done")
    BY DEF Alone, Knows, Transaction
  <2> QED
    BY <1>4, <2>1, GotoKeepsInv DEF GetsLost, Step
<1> QED
  BY <1>2, <1>3, <1>4

LEMMA LapseKeepsInv ==
  ASSUME CheckoutInv, NEW x \in Receipt, ReceiptLapses(x)
  PROVE  CheckoutInv'
<1> USE DEF CheckoutInv, ReceiptLapses
<1>1. CheckoutTypeOK'
  BY DEF CheckoutTypeOK, InventoryTypeOK, inventoryVars
<1>2. \A q \in Request : AtItsStatement(q)'
  BY DEF AtItsStatement, Alone, Knows, Paid
<1>3. AttachedByName' /\ OneOrderPerCart' /\ NothingHalfDone'
  BY DEF AttachedByName, OneOrderPerCart, Promise!OneOrderPerCart, Promise!Excludes,
         NothingHalfDone, inventoryVars, ItemsOf, Paid
<1>4. LapsedProofIsNotUsed'
  BY DEF LapsedProofIsNotUsed
<1> QED
  BY <1>1, <1>2, <1>3, <1>4

(* Sweeping ends holds and never removes their rows.                       *)
LEMMA StockMovesKeepInv ==
  ASSUME CheckoutInv, StockMoves
  PROVE  CheckoutInv' /\ InventoryNext
<1> USE DEF CheckoutInv
<1>1. orders \subseteq Order
  BY DEF CheckoutTypeOK
<1>2. InventoryNext
  BY <1>1 DEF StockMoves, InventoryNext, Sweep
<1>3. CheckoutTypeOK'
  BY <1>2, InventoryStepType DEF StockMoves, CheckoutTypeOK, requestVars
<1>4. \A q \in Request : AtItsStatement(q)'
  BY DEF StockMoves, requestVars, AtItsStatement, Alone, Knows, Paid
<1>5. ASSUME NEW q \in Request, NEW s \in StockItem
      PROVE  reservation'[q][s] # "NONE" <=> reservation[q][s] # "NONE"
  <2>1. CASE reservation' = reservation
    BY <2>1
  <2>2. ASSUME NEW w \in Sweeper, NEW h \in candidates[w], ReleaseIfStillExpired(w, h)
        PROVE  reservation'[q][s] # "NONE" <=> reservation[q][s] # "NONE"
    <3>1. h[1] \in Order
      BY DEF CheckoutTypeOK, InventoryTypeOK
    <3>2. ReleaseItems(h[1], IF h \in Expired THEN {h[2]} ELSE {}, "EXPIRED")
      BY <2>2 DEF ReleaseIfStillExpired
    <3> QED
      BY <3>1, <3>2 DEF ReleaseItems, ActiveItems, CheckoutTypeOK, InventoryTypeOK
  <2> QED
    BY <2>1, <2>2 DEF StockMoves, HoldsLapse, SelectExpired
<1>6. AttachedByName' /\ OneOrderPerCart' /\ LapsedProofIsNotUsed'
  BY DEF StockMoves, requestVars, AttachedByName, OneOrderPerCart,
         Promise!OneOrderPerCart, Promise!Excludes, LapsedProofIsNotUsed
<1>7. NothingHalfDone'
  BY <1>5 DEF StockMoves, requestVars, NothingHalfDone, ItemsOf, Paid
<1> QED
  BY <1>2, <1>3, <1>4, <1>6, <1>7

LEMMA CheckoutStep == CheckoutInv /\ [Next]_vars => CheckoutInv'
<1> SUFFICES ASSUME CheckoutInv, [Next]_vars
             PROVE  CheckoutInv'
  OBVIOUS
<1>1. ASSUME NEW r \in Request, Serve(r) \/ Reject(r) \/ GetsLost(r)
      PROVE  CheckoutInv'
  BY <1>1, LookUpKeepsInv, PrecheckKeepsInv, FallbackKeepsInv, ClaimKeepsInv,
     InsertOrderKeepsInv, CommitKeepsInv, AnswerKeepsInv DEF Serve
<1>2. CASE UNCHANGED vars
  BY <1>2 DEF vars, requestVars, inventoryVars, CheckoutInv, CheckoutTypeOK, InventoryTypeOK,
     AtItsStatement, Alone, Knows, Paid, AttachedByName, OneOrderPerCart,
     Promise!OneOrderPerCart, Promise!Excludes, NothingHalfDone, ItemsOf, LapsedProofIsNotUsed
<1> QED
  BY <1>1, <1>2, LapseKeepsInv, StockMovesKeepInv DEF Next

LEMMA CheckoutInvariant == Spec => []CheckoutInv
BY InvInit, CheckoutStep, PTL DEF Spec

(* createOrder places at most one order for a cart and one for a key, by   *)
(* the lock of the cart's row and the two unique indexes.                  *)
THEOREM OrdersAlwaysOnePerCart == Spec => []OneOrderPerCart
BY CheckoutInvariant, PTL DEF CheckoutInv

(* The transaction of createOrder is all or nothing: cart, stock rows and  *)
(* receipt change exactly for an order that exists.                        *)
THEOREM NothingEverHalfDone == Spec => []NothingHalfDone
BY CheckoutInvariant, PTL DEF CheckoutInv

(* attachToOrder looks at the receipt's expiry again, inside the           *)
(* transaction: no order is placed on a receipt that lapsed.               *)
THEOREM LapsedProofIsNeverUsed == Spec => []LapsedProofIsNotUsed
BY CheckoutInvariant, PTL DEF CheckoutInv

-----------------------------------------------------------------------------
(* The promise                                                             *)

(* What a request is told about an order that was found by its cart or its *)
(* key.                                                                    *)
LEMMA ReplyWithAnswers ==
  ASSUME CheckoutInv, NEW r \in Request, answer[r] = NoAnswer, NEW q \in orders,
         CartOf[q] = CartOf[r] \/ KeyOf[q] = KeyOf[r], ReplyWith(r, q)
  PROVE  Promise!CheckoutNext
<1>1. q \in Request /\ orders \subseteq Request
  BY DEF CheckoutInv, CheckoutTypeOK
<1>2. CASE Same(q, r)
  BY <1>1, <1>2 DEF ReplyWith, Reply, Same, OrderOf, NoAnswer,
     Promise!CheckoutNext, Promise!AnswerWithOrder
<1>3. CASE ~Same(q, r)
  <2>1. ~\E p \in orders : Same(p, r)
    BY <1>1, <1>3, OnlyOneCandidate DEF CheckoutInv
  <2> QED
    BY <1>1, <1>3, <2>1 DEF ReplyWith, Reply, Same, Conflict, NoAnswer,
       Promise!CheckoutNext, Promise!AnswerConflict, Promise!Excludes
<1> QED
  BY <1>2, <1>3

(* A request may be refused as long as no order is the same.               *)
LEMMA RefusalAnswers ==
  ASSUME CheckoutInv, NEW r \in Request, answer[r] = NoAnswer,
         \A q \in orders : ~Same(q, r), Reply(r, Refused)
  PROVE  Promise!CheckoutNext
BY DEF Reply, Same, Refused, NoAnswer, Promise!CheckoutNext, Promise!AnswerRefused

LEMMA ServeKeepsPromise ==
  ASSUME CheckoutInv, NEW r \in Request, Serve(r)
  PROVE  [Promise!CheckoutNext]_<<orders, answer>>
<1>1. AtItsStatement(r) /\ orders \subseteq Request
  BY DEF CheckoutInv, CheckoutTypeOK
<1>2. pc[r] # "done" => answer[r] = NoAnswer
  BY <1>1 DEF AtItsStatement
<1>3. CASE LookUp(r)
  BY <1>2, <1>3, ReplyWithAnswers DEF LookUp, Goto
<1>4. CASE Precheck(r)
  <2>1. CASE Goto(r, "claim") \/ Goto(r, "fallback")
    BY <2>1 DEF Goto
  <2>2. CASE ReceiptOf[r] \in lapsed /\ Reply(r, Refused)
    <3>1. Paid(r) /\ attachedTo[ReceiptOf[r]] = NoOrder
      BY <1>1, <1>4, <2>2 DEF Precheck, AtItsStatement, Knows, CheckoutInv, LapsedProofIsNotUsed
    <3>2. \A q \in orders : ~Same(q, r)
      BY <3>1, FreeReceiptIsNew
    <3> QED
      BY <1>2, <1>4, <2>2, <3>2, RefusalAnswers DEF Precheck
  <2> QED
    BY <1>4, <2>1, <2>2 DEF Precheck
<1>5. CASE Fallback(r)
  <2>1. ASSUME NEW q \in orders, Same(q, r), Reply(r, OrderOf(q))
        PROVE  Promise!CheckoutNext
    BY <1>1, <1>2, <1>5, <2>1 DEF Fallback, Reply, Same, OrderOf, NoAnswer,
       Promise!CheckoutNext, Promise!AnswerWithOrder
  <2>2. CASE (\A q \in orders : ~Same(q, r)) /\ Reply(r, Conflict)
    <3> DEFINE q == attachedTo[ReceiptOf[r]]
    <3>1. Paid(r) /\ q # NoOrder
      BY <1>1, <1>5 DEF Fallback, AtItsStatement, Knows
    <3>2. q \in orders /\ ReceiptOf[q] = ReceiptOf[r]
      BY <3>1 DEF CheckoutInv, AttachedByName, Paid
    <3>3. CartOf[q] = CartOf[r]
      BY <1>1, <3>1, <3>2 DEF Paid
    <3> HIDE DEF q
    <3> QED
      BY <1>2, <1>5, <2>2, <3>2, <3>3 DEF Fallback, Reply, Same, Conflict, NoAnswer,
         Promise!CheckoutNext, Promise!AnswerConflict, Promise!Excludes
  <2> QED
    BY <1>5, <2>1, <2>2 DEF Fallback
<1>6. CASE Claim(r)
  BY <1>2, <1>6, ReplyWithAnswers DEF Claim, Goto
<1>7. CASE InsertOrder(r)
  BY <1>7 DEF InsertOrder, Goto
<1>8. CASE Commit(r)
  <2>1. /\ \A q \in orders : CartOf[q] # CartOf[r] /\ KeyOf[q] # KeyOf[r]
        /\ answer[r] = NoAnswer
    BY <1>8, NothingYet DEF Commit
  <2> QED
    BY <1>8, <2>1 DEF Commit, NoAnswer, Promise!CheckoutNext, Promise!Place, Promise!Excludes
<1>9. CASE RollBack(r)
  <2>1. \A q \in orders : ~Same(q, r)
    BY <1>9, NothingYet DEF RollBack, Same, Promise!Same
  <2> QED
    BY <1>2, <1>9, <2>1, RefusalAnswers DEF RollBack
<1>10. CASE AnswerPlaced(r)
  <2>1. r \in orders
    BY <1>1, <1>10 DEF AnswerPlaced, AtItsStatement, Knows
  <2> QED
    BY <1>2, <1>10, <2>1 DEF AnswerPlaced, Reply, OrderOf, NoAnswer,
       Promise!CheckoutNext, Promise!AnswerWithOrder, Promise!Same
<1>11. CASE AnswerConflicted(r)
  BY <1>2, <1>11, ReplyWithAnswers DEF AnswerConflicted
<1> QED
  BY <1>3, <1>4, <1>5, <1>6, <1>7, <1>8, <1>9, <1>10, <1>11 DEF Serve

LEMMA StepKeepsPromise ==
  ASSUME CheckoutInv, [Next]_vars
  PROVE  [Promise!CheckoutNext]_<<orders, answer>>
<1>1. ASSUME NEW r \in Request, Reject(r)
      PROVE  Promise!CheckoutNext
  <2>1. AtItsStatement(r) /\ pc[r] = "claimed"
    BY <1>1 DEF Reject, CheckoutInv
  <2>2. answer[r] = NoAnswer /\ \A q \in orders : ~Same(q, r)
    BY <2>1 DEF AtItsStatement, Knows, Transaction, Same, Promise!Same
  <2> QED
    BY <1>1, <2>2, RefusalAnswers DEF Reject
<1>2. ASSUME NEW r \in Request, GetsLost(r)
      PROVE  UNCHANGED <<orders, answer>>
  BY <1>2 DEF GetsLost, Goto
<1>3. ASSUME NEW x \in Receipt, ReceiptLapses(x)
      PROVE  UNCHANGED <<orders, answer>>
  BY <1>3 DEF ReceiptLapses
<1>4. StockMoves \/ UNCHANGED vars => UNCHANGED <<orders, answer>>
  BY DEF StockMoves, vars, requestVars
<1> QED
  BY <1>1, <1>2, <1>3, <1>4, ServeKeepsPromise DEF Next

(* createOrder implements IdempotentCheckout: whatever the statements of   *)
(* simultaneous requests, retries and crashes interleave to, orders appear *)
(* and requests are answered as if one looked at all orders at once.       *)
THEOREM CheckoutKeepsThePromise == Spec => KeepsThePromise
<1>1. Init => Promise!CheckoutInit
  BY DEF Init, NoAnswer, Promise!CheckoutInit
<1>2. CheckoutInv /\ [Next]_vars => [Promise!CheckoutNext]_<<orders, answer>>
  BY StepKeepsPromise
<1> QED
  BY <1>1, <1>2, CheckoutInvariant, PTL
     DEF Spec, KeepsThePromise, Promise!CheckoutSpec, Promise!checkoutVars

(* Whoever is answered with an order asked for exactly that order: no     *)
(* guest is shown the order of another, whatever keys they share.          *)
THEOREM EveryoneIsAnsweredWithTheirOwnOrder == Spec => []Promise!AnsweredWithOwnOrder
<1> DEFINE Own == Promise!AnsweredWithOwnOrder
<1>1. Init => Own
  BY DEF Init, NoAnswer, Promise!NoAnswer, Promise!AnsweredWithOwnOrder
<1>2. ASSUME CheckoutInv, Own, [Promise!CheckoutNext]_<<orders, answer>>
      PROVE  Own'
  <2>1. answer \in [Request -> Answers]
    BY <1>2 DEF CheckoutInv, CheckoutTypeOK, Answers
  <2>2. ASSUME NEW r \in Request, Promise!Place(r)
        PROVE  Own'
    BY <1>2, <2>2 DEF Promise!Place, Promise!AnsweredWithOwnOrder
  <2>3. ASSUME NEW r \in Request, NEW q \in Request, Promise!AnswerWithOrder(r, q)
        PROVE  Own'
    BY <1>2, <2>1, <2>3 DEF Promise!AnswerWithOrder, Promise!AnsweredWithOwnOrder, Promise!OrderOf
  <2>4. ASSUME NEW r \in Request, Promise!AnswerConflict(r) \/ Promise!AnswerRefused(r)
        PROVE  Own'
    BY <1>2, <2>1, <2>4 DEF Promise!AnswerConflict, Promise!AnswerRefused, Promise!Conflict,
       Promise!Refused, Promise!AnsweredWithOwnOrder
  <2>5. CASE UNCHANGED <<orders, answer>>
    BY <1>2, <2>5 DEF Promise!AnsweredWithOwnOrder
  <2> QED
    BY <1>2, <2>2, <2>3, <2>4, <2>5 DEF Promise!CheckoutNext
<1>3. CheckoutInv /\ Own /\ [Next]_vars => Own'
  BY <1>2, StepKeepsPromise
<1> HIDE DEF Own
<1>4. Spec => []Own
  BY <1>1, <1>3, CheckoutInvariant, PTL DEF Spec
<1> QED
  BY <1>4 DEF Own

(* A checkout, a lapse and a sweep are each what the stock service offers, *)
(* so its invariants hold of checkouts too.                                *)
THEOREM CheckoutRefinesInventory == Spec => InventorySpec
<1>1. Init => InventoryInit
  BY DEF Init
<1>2. ASSUME CheckoutInv, [Next]_vars
      PROVE  [InventoryNext]_inventoryVars
  <2>1. ASSUME NEW r \in Request, Serve(r) \/ Reject(r) \/ GetsLost(r)
        PROVE  [InventoryNext]_inventoryVars
    <3>1. CASE Commit(r)
      BY <1>2, <3>1, CommitReserves
    <3>2. CASE LookUp(r) \/ Precheck(r) \/ Fallback(r) \/ Claim(r) \/ InsertOrder(r)
      BY <3>2 DEF LookUp, Precheck, Fallback, Claim, InsertOrder, ReplyWith, Reply, Goto
    <3>3. CASE RollBack(r) \/ AnswerPlaced(r) \/ AnswerConflicted(r) \/ Reject(r) \/ GetsLost(r)
      BY <3>3 DEF RollBack, AnswerPlaced, AnswerConflicted, Reject, GetsLost, ReplyWith, Reply, Goto
    <3> QED
      BY <2>1, <3>1, <3>2, <3>3 DEF Serve
  <2>2. ASSUME NEW x \in Receipt, ReceiptLapses(x)
        PROVE  UNCHANGED inventoryVars
    BY <2>2 DEF ReceiptLapses
  <2>3. UNCHANGED vars => UNCHANGED inventoryVars
    BY DEF vars
  <2> QED
    BY <1>2, <2>1, <2>2, <2>3, StockMovesKeepInv DEF Next
<1> QED
  BY <1>1, <1>2, CheckoutInvariant, PTL DEF Spec, InventorySpec

(* reserved is the sum of what placed orders hold, whichever checkouts     *)
(* compete, roll back or die.                                              *)
THEOREM CheckoutsKeepReservedMatchingHolds == Spec => []ReservedMatchesHolds
BY CheckoutRefinesInventory, ReservedAlwaysMatchesHolds, PTL

=============================================================================
