------------------------------ MODULE MCPricing ------------------------------
(* A small shop: two cases for different models, a dear one and a cheap one*)
(* for the first of them, and an accessory for no model that can be        *)
(* personalized.  Of as many lines as there may be, only the first has two *)
(* units.                                                                  *)
EXTENDS Pricing

CONSTANTS MaxLines, MaxUnits

Ids(product, collections, type, brand, model) ==
  [PRODUCTS |-> {product}, COLLECTIONS |-> collections, CASE_TYPES |-> type,
   PHONE_BRANDS |-> brand, PHONE_MODELS |-> model]

Plain(price, model, ids) ==
  [price |-> price, personalizable |-> FALSE, fee |-> 0, model |-> model, ids |-> ids]

MCCatalog ==
  [clear1 |-> Plain(5, 1, Ids("clear", {"summer"}, {"soft"}, {"north"}, {1})),
   clear2 |-> Plain(5, 2, Ids("clear", {"summer"}, {"soft"}, {"south"}, {2})),
   armour1 |-> Plain(9, 1, Ids("armour", {}, {"hard"}, {"north"}, {1})),
   strap |-> [Plain(3, 0, Ids("strap", {"summer"}, {}, {}, {})) EXCEPT
                !.personalizable = TRUE, !.fee = 1]]

MCCarts ==
  {c \in UNION {[1..n -> [variant : DOMAIN MCCatalog, quantity : 1..2]] : n \in 1..MaxLines} :
     /\ \A i, j \in DOMAIN c : c[i].variant = c[j].variant => i = j
     /\ Sum([i \in DOMAIN c |-> c[i].quantity]) <= MaxUnits
     /\ \A i \in DOMAIN c : Len(c) = MaxLines /\ i > 1 => c[i].quantity = 1}

Terms(size, fixedTotal, different, repeatable, stacking) ==
  [size |-> size, fixedTotal |-> fixedTotal, differentModels |-> different,
   repeatable |-> repeatable, stacking |-> stacking, scope |-> "ALL_PRODUCTS",
   targets |-> {}, surcharges |-> [v \in {} |-> 0]]

AnyTerms ==
  {Terms(group[1], group[2], different, repeatable, TRUE) :
     group \in {<<2, 4>>, <<2, 9>>, <<3, 9>>}, different \in BOOLEAN, repeatable \in BOOLEAN}

(* One offer of any terms, one with surcharges, one not to be combined with*)
(* a coupon, and two for the same units, of which the first is narrower.   *)
MCOffers ==
  {<<b>> : b \in AnyTerms}
  \cup {<<[b EXCEPT !.scope = "SPECIFIC_VARIANTS",
                    !.surcharges = [v \in {"clear1", "armour1", "clear2"} |->
                                      IF v = "armour1" THEN 2 ELSE 0]]>> :
           b \in {c \in AnyTerms : c.size = 2 /\ c.fixedTotal = 9}}
  \cup {<<[b EXCEPT !.scope = "COLLECTIONS", !.targets = {"summer"}],
          Terms(2, 4, FALSE, TRUE, FALSE)>> :
           b \in {c \in AnyTerms : c.size = 2 /\ c.fixedTotal = 9}}

MCCoupons ==
  {NoCoupon, [type |-> "FIXED", value |-> 7, minSpend |-> 10, usable |-> TRUE],
   [type |-> "PERCENT", value |-> 30, minSpend |-> 0, usable |-> TRUE]}

(* Four cases for different models, two of them dear, at five for a pair: a*)
(* cart of both dear ones and a cheap one between them.                    *)
MixedCatalog ==
  [v \in {"first", "second", "third", "fourth"} |->
     CASE v = "first" -> Plain(1, 1, Ids(v, {}, {}, {}, {1}))
       [] v = "second" -> Plain(1, 2, Ids(v, {}, {}, {}, {2}))
       [] v = "third" -> Plain(9, 3, Ids(v, {}, {}, {}, {3}))
       [] OTHER -> Plain(9, 4, Ids(v, {}, {}, {}, {4}))]

MixedCarts ==
  {[i \in 1 .. 3 |-> [variant |-> c[i], quantity |-> 1]] :
     c \in {d \in [1 .. 3 -> DOMAIN MixedCatalog] : \A i, j \in 1 .. 3 : d[i] = d[j] => i = j}}

MixedOffers == {<<Terms(2, 5, TRUE, TRUE, TRUE)>>}

=============================================================================
