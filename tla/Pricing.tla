------------------------------- MODULE Pricing -------------------------------
(***************************************************************************)
(* What a cart costs: bundle offers are worked off one after the other, a  *)
(* group of units at a time (computeBundleInstances), then the coupon takes*)
(* its part of what is left, then all discounts are split over the lines of*)
(* an order.  A guest who is shown what one more group would save may add  *)
(* the units it needs, and the cart is priced again.                       *)
(*                                                                         *)
(* Amounts are minor units.  All lines are available and in one currency,  *)
(* as createOrder requires before it charges anything; a group has at least*)
(* two units.                                                              *)
(***************************************************************************)
EXTENDS Integers, Sequences, FiniteSets, FiniteSetsExt, Functions, Sorting

CONSTANTS
  Catalog,  \* Catalog[v]: price, personalizable and the fee for it, model and,
            \* by scope, the ids of its product, collections, brand and so on
  Carts,    \* carts to price: sequences of [variant, quantity]
  Offers,   \* offers to price them with: sequences of active bundles
  Coupons   \* coupons on the cart, NoCoupon among them

NoCoupon == [type |-> "NONE", value |-> 0, minSpend |-> 0, usable |-> FALSE]

ASSUME PricingAssumption ==
  /\ \A v \in DOMAIN Catalog :
       /\ Catalog[v].price \in Nat /\ Catalog[v].fee \in Nat
       /\ Catalog[v].personalizable \in BOOLEAN /\ Catalog[v].model \in Nat
  /\ Carts \subseteq Seq([variant : DOMAIN Catalog, quantity : Nat \ {0}]) \ {<<>>}
  /\ \A bundles \in Offers :
       /\ bundles \in Seq({bundles[n] : n \in DOMAIN bundles})
       /\ \A n \in DOMAIN bundles :
            LET b == bundles[n] IN
            /\ b.size \in Nat \ {0, 1} /\ b.fixedTotal \in Nat
            /\ {b.differentModels, b.repeatable, b.stacking} \subseteq BOOLEAN
            /\ \A v \in DOMAIN b.surcharges : b.surcharges[v] \in Nat
            /\ IsFiniteSet(DOMAIN b.surcharges)
  /\ \A c \in Coupons : {c.value, c.minSpend} \subseteq Nat /\ c.usable \in BOOLEAN

VARIABLES
  cart,       \* lines of the cart
  offers,     \* bundles, in the order they may claim units
  coupon,     \* coupon of the cart
  remaining,  \* remaining[l]: units of line l no group has claimed
  buckets,    \* units for the offer at work: sequences of <<line, number>>, by key
  groups,     \* bundle instances formed so far
  turn,       \* the offer at work; beyond the last one all is priced
  shown,      \* progress the guest was shown, and what was added since
  drafts,     \* lines of the order made so far
  at          \* the line of the cart and the group that are drafted next

inputVars == <<cart, offers, coupon>>
orderVars == <<drafts, at>>
pricingVars == <<inputVars, remaining, buckets, groups, turn, shown, orderVars>>

NotBuilt == <<>>

Nothing == [offer |-> 0, needed |-> 0, savings |-> 0, discount |-> 0, models |-> {}]

Start == [line |-> 1, group |-> 1]

(* The sum of the first n amounts of a sequence, and of all.               *)
SumTo(s, n) ==
  LET upTo[i \in Nat] == IF i = 0 THEN 0 ELSE upTo[i - 1] + s[i] IN upTo[n]

Sum(s) == SumTo(s, Len(s))

-----------------------------------------------------------------------------
(* Amounts.                                                                *)

(* Proportional and rounded down; what is left over fills the lines from   *)
(* the first on, each up to its subtotal.                                  *)
AllocateDiscount(subtotals, discount) ==
  LET subtotal == Sum(subtotals)
      capped == Min({discount, subtotal})
      floored == [i \in DOMAIN subtotals |->
                    Min({subtotals[i], (subtotals[i] * capped) \div subtotal})]
      room == [i \in DOMAIN subtotals |-> subtotals[i] - floored[i]]
      over(i) == capped - Sum(floored) - SumTo(room, i - 1)
  IN IF capped <= 0
       THEN [i \in DOMAIN subtotals |-> 0]
       ELSE [i \in DOMAIN subtotals |-> floored[i] + Min({room[i], Max({0, over(i)})})]

EffectiveUnitPrice(v) ==
  Catalog[v].price + (IF Catalog[v].personalizable THEN Catalog[v].fee ELSE 0)

ComputeDiscount(c, subtotal) ==
  IF subtotal <= 0 THEN 0
  ELSE Min({subtotal, IF c.type = "FIXED" THEN c.value ELSE (subtotal * c.value) \div 100})

Price(l) == EffectiveUnitPrice(cart[l].variant)
Model(l) == Catalog[cart[l].variant].model

Subtotal == Sum([l \in DOMAIN cart |-> Price(l) * cart[l].quantity])

(* findCouponValidityError, by the full subtotal.                          *)
CouponIsApplied == coupon.usable /\ Subtotal >= coupon.minSpend

-----------------------------------------------------------------------------
(* Groups.                                                                 *)

IsEligible(v, b) ==
  CASE b.scope = "ALL_PRODUCTS" -> TRUE
    [] b.scope = "SPECIFIC_VARIANTS" -> v \in DOMAIN b.surcharges
    [] OTHER -> Catalog[v].ids[b.scope] \cap b.targets # {}

Surcharge(v, b) == IF b.scope = "SPECIFIC_VARIANTS" THEN b.surcharges[v] ELSE 0

EligibleLines(b) == {l \in DOMAIN cart : IsEligible(cart[l].variant, b)}

(* Units of eligible lines: each line has so many, numbered.               *)
UnitsOfLines(b, quantity) == UNION {{l} \X (1 .. quantity[l]) : l \in EligibleLines(b)}

BucketKey(l, b) == IF b.differentModels THEN Model(l) ELSE 0

Keys(b) == {0} \cup {BucketKey(l, b) : l \in EligibleLines(b)}

OfKey(k, units, b) == {x \in units : BucketKey(x[1], b) = k}

(* A bucket for each model, or one for all: in it the dearest units first, *)
(* equals as in the cart.                                                  *)
DearerFirst(x, y) ==
  \/ Price(x[1]) > Price(y[1])
  \/ Price(x[1]) = Price(y[1]) /\ (x[1] < y[1] \/ (x[1] = y[1] /\ x[2] < y[2]))

Bucket(k, units, b) == InOrder(OfKey(k, units, b), DearerFirst)

NonEmpty == {k \in DOMAIN buckets : buckets[k] # <<>>}

(* Mutant: buckets are taken as their keys come.                           *)
RankedByKey == Ascending(NonEmpty)

(* The largest bucket first, then by key.                                  *)
LargerFirst(j, k) ==
  \/ Len(buckets[j]) > Len(buckets[k])
  \/ Len(buckets[j]) = Len(buckets[k]) /\ j < k

Ranked == InOrder(NonEmpty, LargerFirst)

Fillable(b) ==
  IF b.differentModels
    THEN Cardinality(NonEmpty) >= b.size
    ELSE Len(buckets[0]) >= b.size

(* The units of the next group, and the buckets without them.              *)
Chosen(b) ==
  IF b.differentModels
    THEN LET keys == Ranked IN [i \in 1 .. b.size |-> Head(buckets[keys[i]])]
    ELSE SubSeq(buckets[0], 1, b.size)

Taken(b) ==
  IF b.differentModels
    THEN LET keys == Ranked
         IN [k \in DOMAIN buckets |->
               IF \E i \in 1 .. b.size : keys[i] = k THEN Tail(buckets[k]) ELSE buckets[k]]
    ELSE [buckets EXCEPT ![0] = SubSeq(@, b.size + 1, Len(@))]

LinesOf(chosen) == [i \in DOMAIN chosen |-> chosen[i][1]]

PricesOf(units) == [i \in DOMAIN units |-> Price(units[i])]

GroupTotal(units, b) ==
  b.fixedTotal + Sum([i \in DOMAIN units |-> Surcharge(cart[units[i]].variant, b)])

Saving(units, b) == Sum(PricesOf(units)) - GroupTotal(units, b)

UnitsOf(l, units) == Sum([i \in DOMAIN units |-> IF units[i] = l THEN 1 ELSE 0])

Consumed(l) == Sum([i \in DOMAIN groups |-> UnitsOf(l, groups[i].units)])

(* Units of a line in no group.                                            *)
Left(l) == cart[l].quantity - Consumed(l)

Formed(n) == {i \in DOMAIN groups : groups[i].offer = n}

Blocked(b) == CouponIsApplied /\ ~b.stacking

Priced == turn > Len(offers)

BundleDiscountTotal == Sum([i \in DOMAIN groups |-> groups[i].discount])

DiscountTotal ==
  IF CouponIsApplied THEN ComputeDiscount(coupon, Subtotal - BundleDiscountTotal) ELSE 0

-----------------------------------------------------------------------------
(* The lines of the order: for each line of the cart one for each group it *)
(* has units in, and one for the rest.                                     *)

DiscountIn(l, g) ==
  Sum([u \in DOMAIN g.units |-> IF g.units[u] = l THEN g.shares[u] ELSE 0])

Ordered == Priced /\ at.line > Len(cart)

Full(draft) == Price(draft.line) * draft.quantity

Charged(items, shares) ==
  [i \in DOMAIN items |->
     [total |-> Full(items[i]) - items[i].bundleDiscount - shares[i], discount |-> shares[i]]]

(* Mutant: the coupon is split by full prices.                             *)
OrderLinesByFullPrice ==
  Charged(drafts, AllocateDiscount([i \in DOMAIN drafts |-> Full(drafts[i])], DiscountTotal))

(* The coupon is split by what the bundles have left of each line.         *)
OrderLines ==
  LET eligible == [i \in DOMAIN drafts |-> Full(drafts[i]) - drafts[i].bundleDiscount]
  IN Charged(drafts, AllocateDiscount(eligible, DiscountTotal))

-----------------------------------------------------------------------------
(* What the guest is shown: where the cart stands with the offer it is     *)
(* closest to.                                                             *)

Free(b) == {l \in EligibleLines(b) : Left(l) > 0}

FreeModels(b) == {Model(l) : l \in Free(b)}

FreeUnits(b) == Sum([l \in DOMAIN cart |-> IF l \in Free(b) THEN Left(l) ELSE 0])

(* 0 stands for null: no further group, or one the rules declined.         *)
UnitsNeeded(n) ==
  LET b == offers[n] IN
  IF ~b.repeatable /\ Formed(n) # {} THEN 0
  ELSE Max({0, b.size - IF b.differentModels THEN Cardinality(FreeModels(b)) ELSE FreeUnits(b)})

(* The first of the cheapest free lines of each model.                     *)
Cheapest(b) ==
  {l \in Free(b) : \A m \in Free(b) :
     Model(m) = Model(l) => Price(l) < Price(m) \/ (Price(l) = Price(m) /\ l <= m)}

(* What the free units come to: all, or the cheapest one of each model.    *)
LeftoverPrice(b) ==
  Sum([l \in DOMAIN cart |->
         IF b.differentModels THEN IF l \in Cheapest(b) THEN Price(l) ELSE 0
         ELSE IF l \in Free(b) THEN Left(l) * Price(l) ELSE 0])

MinUnitPrice(b) == Min({Catalog[v].price : v \in {w \in DOMAIN Catalog : IsEligible(w, b)}})

(* Mutant: surcharges are forgotten.                                       *)
NoSurcharge(b) == 0

MaxSurcharge(b) ==
  IF b.scope = "SPECIFIC_VARIANTS" THEN Max({b.surcharges[v] : v \in DOMAIN b.surcharges}) ELSE 0

(* Counted on: the free units at their price, the missing ones at the      *)
(* lowest and the surcharges at the highest there is.                      *)
SavingsIfCompleted(n) ==
  LET b == offers[n]
      needed == UnitsNeeded(n)
  IN IF needed = 0 \/ Blocked(b) THEN 0
     ELSE Max({0, LeftoverPrice(b) + needed * MinUnitPrice(b)
                    - (b.fixedTotal + b.size * MaxSurcharge(b))})

(* Most groups, then fewest units needed, then the lowest price of a unit. *)
Closer(m, n) ==
  LET groupsOf(k) == Cardinality(Formed(k))
      units(k) == IF UnitsNeeded(k) = 0 THEN 1000 ELSE UnitsNeeded(k)
      cost(k) == offers[k].fixedTotal * offers[m + n - k].size
  IN \/ groupsOf(m) > groupsOf(n)
     \/ groupsOf(m) = groupsOf(n) /\ units(m) < units(n)
     \/ groupsOf(m) = groupsOf(n) /\ units(m) = units(n) /\ cost(m) < cost(n)
     \/ groupsOf(m) = groupsOf(n) /\ units(m) = units(n) /\ cost(m) = cost(n) /\ m <= n

IsBundleProgress(n) ==
  LET candidates == {k \in DOMAIN offers : EligibleLines(offers[k]) # {}}
  IN n \in candidates /\ \A m \in candidates : Closer(n, m)

-----------------------------------------------------------------------------
(* Steps.                                                                  *)

Quantities(c) == [l \in DOMAIN c |-> c[l].quantity]

(* Not to be combined with the coupon.                                     *)
SkipOffer ==
  /\ ~Priced /\ Blocked(offers[turn])
  /\ turn' = turn + 1
  /\ UNCHANGED <<inputVars, remaining, buckets, groups, shown, orderVars>>

BuildBuckets ==
  /\ ~Priced /\ buckets = NotBuilt /\ ~Blocked(offers[turn])
  /\ LET b == offers[turn]
     IN buckets' = [k \in Keys(b) |-> Bucket(k, UnitsOfLines(b, remaining), b)]
  /\ UNCHANGED <<inputVars, remaining, groups, turn, shown, orderVars>>

Building == buckets # NotBuilt

(* Mutant: a group is formed though it costs more than its units.          *)
AnotherFitsAtAnyPrice(b) ==
  (b.repeatable \/ Formed(turn) = {}) /\ Fillable(b)

AnotherFits(b) ==
  /\ b.repeatable \/ Formed(turn) = {}
  /\ Fillable(b)
  /\ Saving(LinesOf(Chosen(b)), b) >= 0

FormGroup ==
  /\ Building /\ AnotherFits(offers[turn])
  /\ LET b == offers[turn]
         units == LinesOf(Chosen(b))
         saving == Saving(units, b)
     IN /\ buckets' = Taken(b)
        /\ remaining' = [l \in DOMAIN remaining |-> remaining[l] - UnitsOf(l, units)]
        /\ groups' = Append(groups, [offer |-> turn, units |-> units, discount |-> saving,
                                     shares |-> AllocateDiscount(PricesOf(units), saving)])
  /\ UNCHANGED <<inputVars, turn, shown, orderVars>>

(* Mutant: every offer starts with all units.                              *)
EndOfferRefilling ==
  /\ Building /\ ~AnotherFits(offers[turn])
  /\ turn' = turn + 1 /\ buckets' = NotBuilt
  /\ remaining' = Quantities(cart)
  /\ UNCHANGED <<inputVars, groups, shown, orderVars>>

(* Used up, too few units, or a group that would cost more than its units. *)
EndOffer ==
  /\ Building /\ ~AnotherFits(offers[turn])
  /\ turn' = turn + 1 /\ buckets' = NotBuilt
  /\ UNCHANGED <<inputVars, remaining, groups, shown, orderVars>>

(* The view of the cart, where it promises something.                      *)
Show ==
  /\ Priced /\ at = Start /\ shown = Nothing
  /\ \E n \in DOMAIN offers :
       /\ IsBundleProgress(n) /\ SavingsIfCompleted(n) > 0
       /\ shown' = [offer |-> n, needed |-> UnitsNeeded(n), savings |-> SavingsIfCompleted(n),
                    discount |-> BundleDiscountTotal, models |-> FreeModels(offers[n])]
  /\ UNCHANGED <<inputVars, remaining, buckets, groups, turn, orderVars>>

(* One unit more, on a line of the variant if it has one.                  *)
With(c, v) ==
  LET lines == {l \in DOMAIN c : c[l].variant = v /\ ~Catalog[v].personalizable} IN
  IF lines = {}
    THEN Append(c, [variant |-> v, quantity |-> 1])
    ELSE LET line == CHOOSE l \in lines : TRUE IN [c EXCEPT ![line].quantity = @ + 1]

(* The guest adds a unit of those that the offer still needed when it was  *)
(* shown; all is priced anew.                                              *)
AddUnit(v) ==
  LET b == offers[shown.offer] IN
  /\ Priced /\ at = Start /\ shown.needed > 0
  /\ IsEligible(v, b)
  /\ b.differentModels => Catalog[v].model \notin shown.models
  /\ cart' = With(cart, v)
  /\ shown' = [shown EXCEPT !.needed = @ - 1, !.models = @ \cup {Catalog[v].model}]
  /\ remaining' = Quantities(cart') /\ groups' = <<>> /\ turn' = 1
  /\ UNCHANGED <<offers, coupon, buckets, orderVars>>

(* createOrder makes a line for what a group has of a line of the cart.    *)
DraftGroup ==
  LET g == groups[at.group]
      quantity == UnitsOf(at.line, g.units)
  IN
  /\ Priced /\ ~Ordered /\ at.group <= Len(groups)
  /\ drafts' = IF quantity = 0 THEN drafts
               ELSE Append(drafts, [line |-> at.line, quantity |-> quantity,
                                    bundleDiscount |-> DiscountIn(at.line, g)])
  /\ at' = [at EXCEPT !.group = @ + 1]
  /\ UNCHANGED <<inputVars, remaining, buckets, groups, turn, shown>>

(* And one for what no group has of it.                                    *)
DraftRest ==
  /\ Priced /\ ~Ordered /\ at.group > Len(groups)
  /\ drafts' = IF Left(at.line) <= 0 THEN drafts
               ELSE Append(drafts, [line |-> at.line, quantity |-> Left(at.line),
                                    bundleDiscount |-> 0])
  /\ at' = [line |-> at.line + 1, group |-> 1]
  /\ UNCHANGED <<inputVars, remaining, buckets, groups, turn, shown>>

PricingInit ==
  /\ cart \in Carts /\ offers \in Offers /\ coupon \in Coupons
  /\ remaining = Quantities(cart) /\ buckets = NotBuilt
  /\ groups = <<>> /\ turn = 1 /\ shown = Nothing
  /\ drafts = <<>> /\ at = Start

PricingNext ==
  \/ SkipOffer \/ BuildBuckets \/ FormGroup \/ EndOffer
  \/ Show \/ (\E v \in DOMAIN Catalog : AddUnit(v))
  \/ DraftGroup \/ DraftRest

PricingSpec == PricingInit /\ [][PricingNext]_pricingVars

-----------------------------------------------------------------------------
(* Properties.                                                             *)

(* The cart stays one that can be priced; groups are of offers worked off  *)
(* so far and of its lines, and so are the buckets and the order's lines.  *)
PricingTypeOK ==
  /\ cart \in Seq([variant : DOMAIN Catalog, quantity : Nat \ {0}]) \ {<<>>}
  /\ offers \in Offers /\ coupon \in Coupons
  /\ remaining \in [DOMAIN cart -> Int]
  /\ turn \in 1 .. Len(offers) + 1
  /\ Building => /\ turn <= Len(offers)
                 /\ buckets \in [Keys(offers[turn]) -> Seq((DOMAIN cart) \X (Nat \ {0}))]
  /\ groups \in Seq([offer : 1 .. turn, units : Seq(DOMAIN cart),
                      discount : Int, shares : Seq(Int)])
  /\ drafts \in Seq([line : DOMAIN cart, quantity : Nat \ {0}, bundleDiscount : Int])
  /\ at \in [line : 1 .. Len(cart) + 1, group : 1 .. Len(groups) + 1]

(* A physical unit belongs to at most one group across all offers: what the*)
(* groups took from a line and what computeBundleInstances keeps as        *)
(* remaining, never less than nothing, are together what the guest put     *)
(* there.                                                                  *)
UnitsGroupedOnce ==
  \A l \in DOMAIN cart :
    remaining[l] >= 0 /\ Consumed(l) + remaining[l] = cart[l].quantity

(* A bundle instance is what its offer promises: so many eligible units, of*)
(* different models if it says so, once unless it may be repeated, never   *)
(* dearer than its units, not beside a coupon it excludes; and             *)
(* allocateDiscount splits its discount over the units to the last minor   *)
(* unit, none of them below zero.                                          *)
GroupsKeepTheirTerms ==
  \A i \in DOMAIN groups :
    LET g == groups[i]
        b == offers[g.offer]
    IN /\ Len(g.units) = b.size
       /\ \A u \in DOMAIN g.units : /\ IsEligible(cart[g.units[u]].variant, b)
                                    /\ 0 <= g.shares[u] /\ g.shares[u] <= Price(g.units[u])
       /\ b.differentModels => IsInjective([u \in DOMAIN g.units |-> Model(g.units[u])])
       /\ ~b.repeatable => Formed(g.offer) = {i}
       /\ g.discount >= 0 /\ Sum(g.shares) = g.discount
       /\ ~Blocked(b)

(* What createOrder charges adds up: no line of the order is below zero,   *)
(* and the lines and the coupon's shares of them sum to the totals that    *)
(* buildView computed for the cart, line by line differently.              *)
OrderAddsUp ==
  Ordered =>
    LET lines == OrderLines IN
    /\ \A i \in DOMAIN lines : lines[i].total >= 0 /\ lines[i].discount >= 0
    /\ Sum([i \in DOMAIN lines |-> lines[i].discount]) = DiscountTotal
    /\ Sum([i \in DOMAIN lines |-> lines[i].total])
         = Subtotal - BundleDiscountTotal - DiscountTotal

(* The units that n groups can use: of each bucket what there is of it, but*)
(* one for each group if the models have to differ.                        *)
Places(n, b, count) ==
  LET usable(k) == IF b.differentModels /\ n < count[k] THEN n ELSE count[k]
  IN UNION {{k} \X (1 .. usable(k)) : k \in Keys(b)}

UnitCounts(b) ==
  [k \in Keys(b) |-> Cardinality(OfKey(k, UnitsOfLines(b, Quantities(cart)), b))]

Possible(n, b) == b.size * n <= Cardinality(Places(n, b, UnitCounts(b)))

(* Any units of the offer are worth a group.                               *)
Pays(b) ==
  \A l \in EligibleLines(b) :
    b.size * (Price(l) - Surcharge(cart[l].variant, b)) >= b.fixedTotal

(* "Maximizing the number of pairs formed", as computeBundleInstances says *)
(* of its greedy choice: a repeatable offer that pays for any of the units *)
(* forms as many groups as can be formed at all.                           *)
MostGroups ==
  Priced /\ offers # <<>> /\ offers[1].repeatable /\ Pays(offers[1]) /\ ~Blocked(offers[1]) =>
    LET formed == Cardinality(Formed(1)) IN
    /\ Possible(formed, offers[1])
    /\ \A n \in formed + 1 .. Sum(Quantities(cart)) : ~Possible(n, offers[1])

(* The offer that was shown is complete, and the only one: with several,   *)
(* another may claim the units first.                                      *)
Completed ==
  Priced /\ shown # Nothing /\ shown.needed = 0 /\ Len(offers) = 1 /\ ~Blocked(offers[1])

(* The cart saves what was shown on top of what it saved before.           *)
SavesAsShown == BundleDiscountTotal >= shown.discount + shown.savings

(* The "guaranteed minimum saving" of computeBundleProgress: whichever     *)
(* units complete the group.                                               *)
SavingsAreGuaranteed == Completed => SavesAsShown

(* It is one for an offer of any models, and for one of different models   *)
(* that pays for any of the units: no group costs more than its units then,*)
(* which would end the offer before the group shown is reached.            *)
SavingsAsShown ==
  Completed /\ (offers[1].differentModels => Pays(offers[1])) => SavesAsShown

=============================================================================
