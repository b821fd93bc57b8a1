------------------------- MODULE IdempotentCheckout --------------------------
(***************************************************************************)
(* What checkout promises a guest whose requests may be sent twice, at the *)
(* same time, or again after an answer was lost: a cart becomes at most one*)
(* order, requests that are the same are answered with the same order, and *)
(* nobody is handed an order another request made.                         *)
(*                                                                         *)
(* The promise is stated by steps that look at all orders at once; Checkout*)
(* keeps it by lookups, a conditional UPDATE of the cart and two unique    *)
(* indexes.                                                                *)
(***************************************************************************)
CONSTANTS
  Request,  \* calls of createOrder
  CartOf,   \* CartOf[r]: the cart the call checks out
  KeyOf,    \* KeyOf[r]: its idempotency key
  BodyOf    \* BodyOf[r]: the rest of its body, by hash

VARIABLES
  orders,   \* the requests whose order exists
  answer    \* answer[r]: what r was told

checkoutVars == <<orders, answer>>

Same(q, r) == CartOf[q] = CartOf[r] /\ KeyOf[q] = KeyOf[r] /\ BodyOf[q] = BodyOf[r]

(* The order of q and one for r cannot both exist.                         *)
Excludes(q, r) == CartOf[q] = CartOf[r] \/ KeyOf[q] = KeyOf[r]

NoAnswer == [kind |-> "none"]
OrderOf(q) == [kind |-> "order", of |-> q]
Conflict == [kind |-> "conflict"]
Refused == [kind |-> "refused"]

CheckoutInit ==
  /\ orders = {}
  /\ answer = [r \in Request |-> NoAnswer]

Place(r) ==
  /\ answer[r] = NoAnswer
  /\ \A q \in orders : ~Excludes(q, r)
  /\ orders' = orders \cup {r}
  /\ UNCHANGED answer

AnswerWithOrder(r, q) ==
  /\ answer[r] = NoAnswer
  /\ q \in orders /\ Same(q, r)
  /\ answer' = [answer EXCEPT ![r] = OrderOf(q)]
  /\ UNCHANGED orders

(* 409: the cart or the key is taken by a request that is not the same.    *)
AnswerConflict(r) ==
  /\ answer[r] = NoAnswer
  /\ \E q \in orders : Excludes(q, r)
  /\ ~\E q \in orders : Same(q, r)
  /\ answer' = [answer EXCEPT ![r] = Conflict]
  /\ UNCHANGED orders

(* Stock, price, coupon or proof of payment: nothing was ordered.          *)
AnswerRefused(r) ==
  /\ answer[r] = NoAnswer
  /\ ~\E q \in orders : Same(q, r)
  /\ answer' = [answer EXCEPT ![r] = Refused]
  /\ UNCHANGED orders

CheckoutNext ==
  \E r \in Request :
    \/ Place(r) \/ AnswerConflict(r) \/ AnswerRefused(r)
    \/ \E q \in Request : AnswerWithOrder(r, q)

CheckoutSpec == CheckoutInit /\ [][CheckoutNext]_checkoutVars

-----------------------------------------------------------------------------

(* A cart becomes at most one order, and a key names at most one.          *)
OneOrderPerCart ==
  \A q, r \in orders : Excludes(q, r) => q = r

(* Whoever is answered with an order asked for exactly that order.         *)
AnsweredWithOwnOrder ==
  \A r \in Request : answer[r].kind = "order" =>
    answer[r].of \in orders /\ Same(answer[r].of, r)

=============================================================================
