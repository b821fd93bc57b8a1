-------------------------------- MODULE Cart ---------------------------------
(***************************************************************************)
(* CartService on the lines of one cart.  Every request checks, reads and  *)
(* then writes in statements of its own, without a lock: several requests  *)
(* of one guest (a double click, two tabs) and the checkout of the cart    *)
(* interleave.  What holds the lines together are the unique indexes and   *)
(* that a row must still be there to be updated or deleted.                *)
(*                                                                         *)
(* A line is named by the request that creates it.  Prices, notes, coupons *)
(* and the products behind the variants are not looked at; the availability*)
(* check is informative only and appears as a reason to refuse.            *)
(***************************************************************************)
EXTENDS Naturals, FiniteSets

CONSTANTS
  Request,         \* requests to the cart
  Variant,         \* variants a guest may ask for
  Personalizable,  \* those with product_variants."isPersonalizable"
  Design,          \* designs uploaded for this cart
  VariantOf,       \* VariantOf[d]: the variant d was rendered for
  NoDesign,        \* cart_items."customDesignId" is null
  MaxQuantity,     \* MAX_CART_ITEM_QUANTITY
  Amounts,         \* quantities a request may carry
  Operations       \* bound: what requests may ask for

ASSUME CartAssumption ==
  /\ IsFiniteSet(Request)
  /\ Personalizable \subseteq Variant
  /\ VariantOf \in [Design -> Personalizable]
  /\ NoDesign \notin Design
  /\ MaxQuantity \in Nat \ {0}
  /\ Amounts \subseteq 1..MaxQuantity
  /\ Operations \subseteq {"add", "update", "replace", "attach", "detach"}

VARIABLES
  lines,    \* cart_items: a function on the lines there are
  cart,     \* carts.status: "ACTIVE", claimed by an open transaction, "ORDERED"
  ordered,  \* the lines the checkout found
  step,     \* step[r]: the next step of r
  job       \* job[r]: what r is about to write, from what it read

cartVars == <<lines, cart, ordered, step, job>>

LineRecord == [variant : Variant, quantity : 1..MaxQuantity,
               personalized : BOOLEAN, design : Design \cup {NoDesign}]

(* What a handler is about to write, and how many units its request brings.*)
Creations == [op : {"create"}, variant : Variant, quantity : Amounts,
              design : Design \cup {NoDesign}, asked : Amounts]
Resizings == [op : {"quantity"}, line : Request, quantity : 1..MaxQuantity, asked : Amounts]
Deletions == [op : {"delete"}, line : Request, asked : {0}]
Switches == [op : {"switch"}, line : Request, variant : Variant, asked : {0}]
Moves == [op : {"move"}, line : Request, variant : Variant, quantity : 1..MaxQuantity, asked : {0}]
Mergers == [op : {"merge"}, line : Request, into : Request, quantity : 1..MaxQuantity, asked : {0}]
Attachments == [op : {"attach"}, line : Request, design : Design \cup {NoDesign}, asked : {0}]

NoJob == [op |-> "none", asked |-> 0]

Job == Creations \cup Resizings \cup Deletions \cup Switches \cup Moves \cup Mergers
       \cup Attachments \cup {NoJob}

(* The line an addition of v is merged into, if there is one.              *)
PlainLines(v) == {i \in DOMAIN lines : lines[i].variant = v /\ ~lines[i].personalized}

Capped(n) == IF n < MaxQuantity THEN n ELSE MaxQuantity

(* UNIQUE (cartId, variantId) WHERE NOT "isPersonalized" and UNIQUE        *)
(* (customDesignId).                                                       *)
UniqueIndexes(ls) ==
  \A i, j \in DOMAIN ls :
    i # j => /\ ls[i].variant = ls[j].variant => ls[i].personalized \/ ls[j].personalized
             /\ ls[i].design = ls[j].design => ls[i].design = NoDesign

Without(i) == [j \in DOMAIN lines \ {i} |-> lines[j]]

-----------------------------------------------------------------------------
(* Checks and reads.                                                       *)

(* assertCartIsActive reads what is committed.                             *)
Admit(r) ==
  /\ step[r] = "new"
  /\ step' = [step EXCEPT ![r] = IF cart = "ORDERED" THEN "done" ELSE "admitted"]
  /\ UNCHANGED <<lines, cart, ordered, job>>

Plan(r, what) ==
  /\ step[r] = "admitted"
  /\ step' = [step EXCEPT ![r] = "write"]
  /\ job' = [job EXCEPT ![r] = what]
  /\ UNCHANGED <<lines, cart, ordered>>

(* Not found, not purchasable, too many, or not available just now.        *)
Refuse(r) ==
  /\ step[r] = "admitted"
  /\ step' = [step EXCEPT ![r] = "done"]
  /\ UNCHANGED <<lines, cart, ordered, job>>

AddPlain(r, v, n) ==
  /\ v \in Variant \ Personalizable
  /\ \/ /\ PlainLines(v) = {}
        /\ Plan(r, [op |-> "create", variant |-> v, quantity |-> n, design |-> NoDesign,
                    asked |-> n])
     \/ \E i \in PlainLines(v) :
          /\ lines[i].quantity + n <= MaxQuantity
          /\ Plan(r, [op |-> "quantity", line |-> i, quantity |-> lines[i].quantity + n,
                      asked |-> n])

Attachable(d, v, i) ==
  VariantOf[d] = v /\ \A j \in DOMAIN lines : lines[j].design = d => j = i

AddPersonalized(r, v, n, d) ==
  /\ v \in Personalizable
  /\ d # NoDesign => Attachable(d, v, r)
  /\ Plan(r, [op |-> "create", variant |-> v, quantity |-> n, design |-> d, asked |-> n])

(* updateItem and removeItem.                                              *)
Update(r, i, n) ==
  IF n = 0
    THEN Plan(r, [op |-> "delete", line |-> i, asked |-> 0])
    ELSE Plan(r, [op |-> "quantity", line |-> i, quantity |-> n, asked |-> n])

Replace(r, i, v) ==
  /\ v # lines[i].variant
  /\ IF lines[i].personalized \/ v \in Personalizable
       THEN Plan(r, [op |-> "switch", line |-> i, variant |-> v, asked |-> 0])
       ELSE \/ /\ PlainLines(v) = {}
               /\ Plan(r, [op |-> "move", line |-> i, variant |-> v,
                           quantity |-> Capped(lines[i].quantity), asked |-> 0])
            \/ \E j \in PlainLines(v) :
                 Plan(r, [op |-> "merge", line |-> i, into |-> j, asked |-> 0,
                          quantity |-> Capped(lines[j].quantity + lines[i].quantity)])

AttachDesign(r, i, d) ==
  /\ lines[i].variant \in Personalizable
  /\ Attachable(d, lines[i].variant, i)
  /\ Plan(r, [op |-> "attach", line |-> i, design |-> d, asked |-> 0])

Detach(r, i) == Plan(r, [op |-> "attach", line |-> i, design |-> NoDesign, asked |-> 0])

Read(r) ==
  \/ /\ "add" \in Operations
     /\ \E v \in Variant, n \in Amounts :
          AddPlain(r, v, n) \/ \E d \in Design \cup {NoDesign} : AddPersonalized(r, v, n, d)
  \/ \E i \in DOMAIN lines :
       \/ "update" \in Operations /\ \E n \in Amounts \cup {0} : Update(r, i, n)
       \/ "replace" \in Operations /\ \E v \in Variant : Replace(r, i, v)
       \/ "attach" \in Operations /\ \E d \in Design : AttachDesign(r, i, d)
       \/ "detach" \in Operations /\ Detach(r, i)

-----------------------------------------------------------------------------
(* Writes.  Each is one statement, or one transaction of two.              *)

(* The rows the write is about are still there.                            *)
RowsExist(r) ==
  LET j == job[r] IN
  /\ j.op # "create" => j.line \in DOMAIN lines
  /\ j.op = "merge" => j.into \in DOMAIN lines

(* Mutant: the line merged away stays.                                     *)
MergedKeepingBoth(i, j, n) == [lines EXCEPT ![j].quantity = n]

(* Line i is deleted and its quantity goes to line j.                      *)
Merged(i, j, n) ==
  [k \in DOMAIN lines \ {i} |->
     IF k = j THEN [lines[k] EXCEPT !.quantity = n] ELSE lines[k]]

(* The lines once r has written.                                           *)
Written(r) ==
  LET j == job[r] IN
  CASE j.op = "create" ->
         [i \in DOMAIN lines \cup {r} |->
            IF i = r THEN [variant |-> j.variant, quantity |-> j.quantity, design |-> j.design,
                           personalized |-> j.variant \in Personalizable]
                     ELSE lines[i]]
    [] j.op = "quantity" -> [lines EXCEPT ![j.line].quantity = j.quantity]
    [] j.op = "delete" -> Without(j.line)
    [] j.op = "switch" ->
         [lines EXCEPT ![j.line] = [@ EXCEPT !.variant = j.variant, !.design = NoDesign,
                                             !.personalized = j.variant \in Personalizable]]
    [] j.op = "move" ->
         [lines EXCEPT ![j.line] = [@ EXCEPT !.variant = j.variant, !.quantity = j.quantity]]
    [] j.op = "merge" -> Merged(j.line, j.into, j.quantity)
    [] j.op = "attach" -> [lines EXCEPT ![j.line].design = j.design]

Write(r) ==
  /\ step[r] = "write"
  /\ RowsExist(r) /\ UniqueIndexes(Written(r))
  /\ lines' = Written(r)
  /\ step' = [step EXCEPT ![r] = "done"]
  /\ UNCHANGED <<cart, ordered, job>>

(* P2025 or P2002: nothing is written.  Only the creation of a plain line  *)
(* goes on, to fold its quantity into the line that won.                   *)
WriteFails(r) ==
  /\ step[r] = "write"
  /\ ~(RowsExist(r) /\ UniqueIndexes(Written(r)))
  /\ step' = [step EXCEPT ![r] =
       IF job[r].op = "create" /\ job[r].variant \notin Personalizable THEN "winner" ELSE "done"]
  /\ UNCHANGED <<lines, cart, ordered, job>>

(* The winner is read, and may be gone by now, and is then written.        *)
FindWinner(r) ==
  /\ step[r] = "winner"
  /\ \/ /\ PlainLines(job[r].variant) = {}
        /\ step' = [step EXCEPT ![r] = "done"]
        /\ UNCHANGED job
     \/ \E i \in PlainLines(job[r].variant) :
          /\ step' = [step EXCEPT ![r] = "write"]
          /\ job' = [job EXCEPT ![r] =
               [op |-> "quantity", line |-> i, asked |-> @.asked,
                quantity |-> Capped(lines[i].quantity + @.quantity)]]
  /\ UNCHANGED <<lines, cart, ordered>>

-----------------------------------------------------------------------------
(* The checkout of the cart.  Until it commits, others see it ACTIVE.      *)

Claim ==
  /\ cart = "ACTIVE" /\ DOMAIN lines # {}
  /\ \A i \in DOMAIN lines :
       lines[i].variant \in Personalizable => lines[i].design # NoDesign
  /\ cart' = "CLAIMED"
  /\ ordered' = lines
  /\ UNCHANGED <<lines, step, job>>

Commit ==
  /\ cart = "CLAIMED"
  /\ cart' = "ORDERED"
  /\ UNCHANGED <<lines, ordered, step, job>>

RollBack ==
  /\ cart = "CLAIMED"
  /\ cart' = "ACTIVE"
  /\ ordered' = <<>>
  /\ UNCHANGED <<lines, step, job>>

-----------------------------------------------------------------------------

CartInit ==
  /\ lines = <<>>
  /\ cart = "ACTIVE"
  /\ ordered = <<>>
  /\ step = [r \in Request |-> "new"]
  /\ job = [r \in Request |-> NoJob]

CartNext ==
  \/ \E r \in Request :
       Admit(r) \/ Read(r) \/ Refuse(r) \/ Write(r) \/ WriteFails(r) \/ FindWinner(r)
  \/ Claim \/ Commit \/ RollBack

CartSpec == CartInit /\ [][CartNext]_cartVars

-----------------------------------------------------------------------------
(* Properties.                                                             *)

CartTypeOK ==
  /\ DOMAIN lines \subseteq Request
  /\ \A i \in DOMAIN lines : lines[i] \in LineRecord
  /\ cart \in {"ACTIVE", "CLAIMED", "ORDERED"}
  /\ step \in [Request -> {"new", "admitted", "write", "winner", "done"}]
  /\ job \in [Request -> Job]

(* Whatever is added twice, merged from a stale reading or replaced while  *)
(* it is being removed: no unit gets into the cart, or into the order made *)
(* of it, that no request asked for.                                       *)
NeverMoreThanAsked ==
  \A found \in {lines, ordered} :
    Cardinality(UNION {{i} \X (1..found[i].quantity) : i \in DOMAIN found})
      <= Cardinality(UNION {{r} \X (1..job[r].asked) : r \in Request})

=============================================================================
