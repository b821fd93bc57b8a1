------------------------------- MODULE Checkout ------------------------------
(***************************************************************************)
(* OrdersService.createOrder, statement by statement where other requests  *)
(* can come in between: the lookup of the idempotency key, the pre-check of*)
(* the receipt, the transaction that claims the cart, inserts the order,   *)
(* attaches the receipt and reserves the stock, and the second lookups that*)
(* turn a lost race with one's own retry into the answer of the winner.    *)
(*                                                                         *)
(* An order is named by the request that creates it, so the stock it holds *)
(* is reservation[r] of Inventory.  Row locks are what pc says: a request  *)
(* that claimed its cart holds the row until its transaction ends, and one *)
(* that inserted its order holds the index entry of its key.               *)
(***************************************************************************)
EXTENDS Inventory

CONSTANTS
  Cart,       \* rows of carts
  CartOf,     \* CartOf[r]: the cart request r checks out
  KeyOf,      \* KeyOf[r]: the idempotency key it carries
  BodyOf,     \* BodyOf[r]: the hash of the rest of its body
  Receipt,    \* receipts uploaded for the carts beforehand
  ReceiptOf,  \* ReceiptOf[r]: the receipt it names, if paid by InstaPay
  NoReceipt,  \* cash on delivery
  NoOrder     \* payment_receipts."orderId" is null

Request == Order

(* The receipt is part of the body; one of another cart is refused before  *)
(* anything else happens.                                                  *)
ASSUME CheckoutAssumption ==
  /\ CartOf \in [Request -> Cart]
  /\ ReceiptOf \in [Request -> Receipt \cup {NoReceipt}]
  /\ NoReceipt \notin Receipt
  /\ NoOrder \notin Request
  /\ \A q, r \in Request :
       /\ BodyOf[q] = BodyOf[r] => ReceiptOf[q] = ReceiptOf[r]
       /\ ReceiptOf[q] = ReceiptOf[r] /\ ReceiptOf[r] \in Receipt => CartOf[q] = CartOf[r]

VARIABLES
  pc,          \* pc[r]: the next step of r
  answer,      \* answer[r]: what the guest who sent r was told
  orders,      \* requests whose order is committed
  cartStatus,  \* carts.status, as committed
  attachedTo,  \* payment_receipts."orderId", as committed
  lapsed       \* unattached receipts past their "expiresAt"

requestVars == <<pc, answer, orders, cartStatus, attachedTo, lapsed>>
vars == <<inventoryVars, requestVars>>

Promise == INSTANCE IdempotentCheckout
  WITH Request <- Request, CartOf <- CartOf, KeyOf <- KeyOf, BodyOf <- BodyOf,
       orders <- orders, answer <- answer

Same(q, r) == Promise!Same(q, r)
OrderOf(q) == Promise!OrderOf(q)
Conflict == Promise!Conflict
Refused == Promise!Refused
NoAnswer == Promise!NoAnswer

Paid(r) == ReceiptOf[r] \in Receipt

CartLocked(c) == \E q \in Request : CartOf[q] = c /\ pc[q] \in {"claimed", "inserted"}

KeyLocked(k) == \E q \in Request : KeyOf[q] = k /\ pc[q] = "inserted"

Attachable(r) ==
  Paid(r) => attachedTo[ReceiptOf[r]] = NoOrder /\ ReceiptOf[r] \notin lapsed

InStock(r) == \A s \in ItemsOf(r) : onHand[s] - reserved[s] >= Need[r][s]

-----------------------------------------------------------------------------

Goto(r, step) ==
  /\ pc' = [pc EXCEPT ![r] = step]
  /\ UNCHANGED <<inventoryVars, answer, orders, cartStatus, attachedTo, lapsed>>

Reply(r, what) ==
  /\ pc' = [pc EXCEPT ![r] = "done"]
  /\ answer' = [answer EXCEPT ![r] = what]
  /\ UNCHANGED <<inventoryVars, orders, cartStatus, attachedTo, lapsed>>

(* The order found is returned to whoever sent the same request.           *)
ReplyWith(r, q) == Reply(r, IF Same(q, r) THEN OrderOf(q) ELSE Conflict)

-----------------------------------------------------------------------------
(* Before the transaction.                                                 *)

LookUp(r) ==
  /\ pc[r] = "lookup"
  /\ \/ \E q \in orders : KeyOf[q] = KeyOf[r] /\ ReplyWith(r, q)
     \/ /\ \A q \in orders : KeyOf[q] # KeyOf[r]
        /\ Goto(r, IF Paid(r) THEN "precheck" ELSE "claim")

Precheck(r) ==
  /\ pc[r] = "precheck"
  /\ \/ Attachable(r) /\ Goto(r, "claim")
     \/ attachedTo[ReceiptOf[r]] # NoOrder /\ Goto(r, "fallback")
     \/ ReceiptOf[r] \in lapsed /\ Reply(r, Refused)

(* Mutant: a receipt that is attached is always somebody else's doing.     *)
FallbackNever(r) == pc[r] = "fallback" /\ Reply(r, Conflict)

(* RECEIPT_ALREADY_ATTACHED, unless by a request that is the same.         *)
Fallback(r) ==
  /\ pc[r] = "fallback"
  /\ \/ \E q \in orders : Same(q, r) /\ Reply(r, OrderOf(q))
     \/ (\A q \in orders : ~Same(q, r)) /\ Reply(r, Conflict)

-----------------------------------------------------------------------------
(* The transaction.                                                        *)

(* Mutant: the status is read, not claimed by a conditional UPDATE.        *)
ClaimWithoutLock(r) ==
  /\ pc[r] = "claim"
  /\ \/ cartStatus[CartOf[r]] = "ACTIVE" /\ Goto(r, "claimed")
     \/ /\ cartStatus[CartOf[r]] = "ORDERED"
        /\ \E q \in orders : CartOf[q] = CartOf[r] /\ ReplyWith(r, q)

Claim(r) ==
  /\ pc[r] = "claim" /\ ~CartLocked(CartOf[r])
  /\ \/ cartStatus[CartOf[r]] = "ACTIVE" /\ Goto(r, "claimed")
     \/ /\ cartStatus[CartOf[r]] = "ORDERED"
        /\ \E q \in orders : CartOf[q] = CartOf[r] /\ ReplyWith(r, q)

(* Empty cart, unavailable item, price, shipping rate or coupon: the claim *)
(* is rolled back.                                                         *)
Reject(r) == pc[r] = "claimed" /\ Reply(r, Refused)

(* Mutant: nobody is told that the key is taken.                           *)
InsertWhenKeyIsFree(r) ==
  /\ pc[r] = "claimed" /\ ~KeyLocked(KeyOf[r])
  /\ \A q \in orders : KeyOf[q] # KeyOf[r]
  /\ Goto(r, "inserted")

(* The unique index makes an insertion of the same key wait, and fail with *)
(* P2002 once the first is committed.                                      *)
InsertOrder(r) ==
  /\ pc[r] = "claimed" /\ ~KeyLocked(KeyOf[r])
  /\ Goto(r, IF \E q \in orders : KeyOf[q] = KeyOf[r] THEN "conflict" ELSE "inserted")

(* Mutant: the receipt is attached whatever became of it since.            *)
CommitBlindly(r) ==
  /\ pc[r] = "inserted"
  /\ ReserveItems(r, ItemsOf(r), "FUTURE")
  /\ orders' = orders \cup {r}
  /\ cartStatus' = [cartStatus EXCEPT ![CartOf[r]] = "ORDERED"]
  /\ attachedTo' = [x \in Receipt |-> IF x = ReceiptOf[r] THEN r ELSE attachedTo[x]]
  /\ pc' = [pc EXCEPT ![r] = "placed"]
  /\ UNCHANGED <<answer, lapsed>>

(* Attaches the receipt, reserves the stock and commits.                   *)
Commit(r) ==
  /\ pc[r] = "inserted"
  /\ Attachable(r)
  /\ ReserveItems(r, ItemsOf(r), "FUTURE")
  /\ orders' = orders \cup {r}
  /\ cartStatus' = [cartStatus EXCEPT ![CartOf[r]] = "ORDERED"]
  /\ attachedTo' = [x \in Receipt |-> IF x = ReceiptOf[r] THEN r ELSE attachedTo[x]]
  /\ pc' = [pc EXCEPT ![r] = "placed"]
  /\ UNCHANGED <<answer, lapsed>>

(* Mutant: the claim of the cart outlives the transaction.                 *)
RollBackKeepingClaim(r) ==
  /\ pc[r] = "inserted"
  /\ ~Attachable(r) \/ ~InStock(r)
  /\ pc' = [pc EXCEPT ![r] = "done"]
  /\ answer' = [answer EXCEPT ![r] = Refused]
  /\ cartStatus' = [cartStatus EXCEPT ![CartOf[r]] = "ORDERED"]
  /\ UNCHANGED <<inventoryVars, orders, attachedTo, lapsed>>

(* RECEIPT_ALREADY_ATTACHED or INSUFFICIENT_STOCK: nothing is left behind. *)
RollBack(r) ==
  /\ pc[r] = "inserted"
  /\ ~Attachable(r) \/ ~InStock(r)
  /\ Reply(r, Refused)

-----------------------------------------------------------------------------
(* After the transaction.                                                  *)

AnswerPlaced(r) == pc[r] = "placed" /\ Reply(r, OrderOf(r))

AnswerConflicted(r) ==
  /\ pc[r] = "conflict"
  /\ \E q \in orders : KeyOf[q] = KeyOf[r] /\ ReplyWith(r, q)

(* The process dies, the transaction times out, or the answer is lost:     *)
(* what is committed stays, the rest is rolled back, the guest may retry.  *)
GetsLost(r) == pc[r] # "done" /\ Goto(r, "done")

ReceiptLapses(x) ==
  /\ attachedTo[x] = NoOrder /\ x \notin lapsed
  /\ lapsed' = lapsed \cup {x}
  /\ UNCHANGED <<inventoryVars, pc, answer, orders, cartStatus, attachedTo>>

-----------------------------------------------------------------------------

Init ==
  /\ InventoryInit
  /\ pc = [r \in Request |-> "lookup"]
  /\ answer = [r \in Request |-> NoAnswer]
  /\ orders = {}
  /\ cartStatus = [c \in Cart |-> "ACTIVE"]
  /\ attachedTo = [x \in Receipt |-> NoOrder]
  /\ lapsed = {}

Serve(r) ==
  \/ LookUp(r) \/ Precheck(r) \/ Fallback(r)
  \/ Claim(r) \/ InsertOrder(r) \/ Commit(r) \/ RollBack(r)
  \/ AnswerPlaced(r) \/ AnswerConflicted(r)

(* What else happens to the stock meanwhile: holds lapse and are swept.    *)
StockMoves ==
  /\ \/ \E o \in orders : HoldsLapse(o)
     \/ \E w \in Sweeper : SelectExpired(w)
     \/ \E w \in Sweeper : \E h \in candidates[w] : ReleaseIfStillExpired(w, h)
  /\ UNCHANGED requestVars

Next ==
  \/ \E r \in Request : Serve(r) \/ Reject(r) \/ GetsLost(r)
  \/ \E x \in Receipt : ReceiptLapses(x)
  \/ StockMoves

Spec == Init /\ [][Next]_vars

(* The server goes on with every request it received; it need not find     *)
(* anything wrong with it.                                                 *)
FairSpec == Spec /\ \A r \in Request : WF_vars(Serve(r))

-----------------------------------------------------------------------------
(* Properties.                                                             *)

CheckoutTypeOK ==
  /\ InventoryTypeOK
  /\ pc \in [Request -> {"lookup", "precheck", "fallback", "claim", "claimed", "inserted",
                         "conflict", "placed", "done"}]
  /\ answer \in [Request -> {NoAnswer, Conflict, Refused} \cup {OrderOf(q) : q \in Request}]
  /\ orders \subseteq Request
  /\ cartStatus \in [Cart -> {"ACTIVE", "ORDERED"}]
  /\ attachedTo \in [Receipt -> Request \cup {NoOrder}]
  /\ lapsed \subseteq Receipt

(* Lookups, conditional UPDATEs and unique indexes together keep the       *)
(* promise: one order per cart and per key, requests that are the same get *)
(* the same order however they interleave, and only they.                  *)
KeepsThePromise == Promise!CheckoutSpec

OneOrderPerCart == Promise!OneOrderPerCart

(* A transaction that fails leaves nothing behind and one that commits     *)
(* nothing out: a cart is ORDERED, rows hold stock, and a receipt is       *)
(* attached, exactly for an order that exists.                             *)
NothingHalfDone ==
  /\ \A c \in Cart : cartStatus[c] = "ORDERED" <=> \E r \in orders : CartOf[r] = c
  /\ \A r \in Request : \A s \in ItemsOf(r) : reservation[r][s] # "NONE" <=> r \in orders
  /\ \A x \in Receipt : attachedTo[x] # NoOrder => attachedTo[x] \in orders
  /\ \A r \in orders : Paid(r) => attachedTo[ReceiptOf[r]] = r

(* A receipt that lapsed before it was used is proof of nothing.           *)
LapsedProofIsNotUsed == \A x \in lapsed : attachedTo[x] = NoOrder

(* Requests that wait for each other's cart or key do get an answer.       *)
EveryRequestEnds == \A r \in Request : <>(pc[r] = "done")

=============================================================================
