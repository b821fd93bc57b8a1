-------------------------------- MODULE Edits --------------------------------
(***************************************************************************)
(* The PATCH handlers behind the admin pages.  Each reads a row, checks the*)
(* row it would leave (what the request brings over what was read), and    *)
(* writes the fields of the request only: no lock and no version ties the  *)
(* write to the read.  A row of each kind is kept as the two fields that   *)
(* its check relates.  Handlers of different kinds share nothing, so one   *)
(* row, whose kind is chosen at the start, stands for all.                 *)
(*                                                                         *)
(* A bundle has more fields than two, so it comes in four kinds: its total *)
(* and switch ("bundle"), the schedule ("schedule") or the lists ("offer") *)
(* of one that is enabled, and the lists of one that is not ("scope").     *)
(* For bundles there is also a clock, and the cache of public offers, which*)
(* edits empty and which requests of the storefront fill.                  *)
(***************************************************************************)
EXTENDS Naturals, FiniteSets

CONSTANTS
  Request,  \* requests of staff
  Shopper,  \* requests for the public offers
  LastTick, \* the clock stops here
  Null, Absent, NoRow

VARIABLES
  kind,     \* which row this is
  row,      \* its committed state, or NoRow
  pc,       \* pc[r]: the next step of the handler of request r
  saw,      \* saw[r]: the row as r has read it
  body,     \* body[r]: what r asks for
  now,      \* the time
  cache,    \* publicOffersCache: a reading, or Null
  filling   \* filling[l]: the reading that request l has yet to store, or Null

requestVars == <<pc, saw, body>>
cacheVars == <<cache, filling>>
editVars == <<kind, row, now, requestVars, cacheVars>>

Lifecycles == {"product", "page"}
Scopes == {"scope", "offer"}
Bundles == {"bundle", "schedule"} \cup Scopes

(* Who a bundle is for is kept in one of two lists, or in none.  Lengths   *)
(* beyond what an offer must have at least are not told apart.             *)
Lists == {"variants", "targets"}
Floor == [l \in Lists |-> IF l = "variants" THEN 2 ELSE 1]

ListsOf(scope) ==
  CASE scope = "SPECIFIC_VARIANTS" -> {"variants"}
    [] scope = "PRODUCTS"          -> {"targets"}
    [] scope = "ALL_PRODUCTS"      -> {}

Lengths(lists) == {f \in [lists -> 0 .. 2] : \A l \in lists : f[l] <= Floor[l]}

(* The values of the two fields of a row.                                  *)
First(k) ==
  CASE k = "coupon"  -> {"PERCENTAGE", "FIXED"}               \* type
    [] k \in {"window", "schedule"} -> {Null, 1, 2}           \* startsAt
    [] k = "rate"    -> {Null, 2, 5}                          \* estimatedDaysMin
    [] k = "price"   -> {1, 3}                                \* price
    [] k = "stock"   -> {Null, "item"}                        \* stockItemId
    [] k = "print"   -> BOOLEAN                               \* isPersonalizable
    [] k = "bundle"  -> {Null, 100, 200}                      \* fixedTotal
    [] k \in Scopes  -> {"SPECIFIC_VARIANTS", "PRODUCTS", "ALL_PRODUCTS"}
    [] k = "product" -> {"DRAFT", "PUBLISHED", "ARCHIVED"}    \* status
    [] k = "page"    -> {"DRAFT", "PUBLISHED"}                \* status

Second(k) ==
  CASE k = "coupon" -> {10, 500}                              \* value
    [] k \in {"window", "schedule"} -> {Null, 1, 2}           \* expiresAt
    [] k = "rate"   -> {Null, 2, 5}                           \* estimatedDaysMax
    [] k = "price"  -> {Null, 2, 4}                           \* compareAtPrice
    [] k = "stock"  -> BOOLEAN                                \* isUnlimitedStock
    [] k = "print"  -> {0, 1}                                 \* customizationPrice
    [] k = "bundle" -> BOOLEAN                                \* isEnabled
    [] k \in Scopes -> Lengths(Lists)                         \* of its lists
    [] OTHER        -> {0}                                    \* publishedAt

RowsOf(k) == [first : First(k), second : Second(k)]

(* A request leaves a field out, or brings a value for it; of the lists of *)
(* a bundle it brings some, which may be empty.                            *)
Bodies(k) ==
  [first : First(k) \cup {Absent},
   second : CASE k \in Scopes -> UNION {Lengths(lists) : lists \in SUBSET Lists}
              [] k \in Lifecycles -> {Absent}
              [] OTHER -> Second(k) \cup {Absent}]

Merged(old, dto) ==
  [f \in {"first", "second"} |-> IF dto[f] = Absent THEN old[f] ELSE dto[f]]

-----------------------------------------------------------------------------
(* What the handlers check.                                                *)

CouponValueIsValid(c) == c.first = "PERCENTAGE" => c.second \in 1 .. 100

ScheduleWindowIsValid(w) ==
  w.first # Null /\ w.second # Null => w.first < w.second

DeliveryRangeIsValid(d) ==
  d.first # Null /\ d.second # Null => d.first <= d.second

CompareAtPriceIsValid(v) == v.second # Null => v.second > v.first
StockConfigurationIsValid(v) == ~(v.first # Null /\ v.second)
CustomizationPriceIsValid(v) == ~v.first => v.second = 0

(* assertReadyToEnable: an enabled bundle has its total (and currency), and*)
(* enough in the list of its scope.  The phone models that it must span are*)
(* left out.                                                               *)
ReadyToEnable(b) == b.second => b.first # Null
Complete(b) == \A l \in ListsOf(b.first) : b.second[l] >= Floor[l]

ScopeInputsAreValid(b) == \A l \in Lists \ ListsOf(b.first) : b.second[l] = 0

ALLOWED_TRANSITIONS ==
  [DRAFT |-> {"PUBLISHED", "ARCHIVED"}, PUBLISHED |-> {"ARCHIVED"}, ARCHIVED |-> {"DRAFT"}]

Agrees(k, r) ==
  CASE k = "coupon" -> CouponValueIsValid(r)
    [] k \in {"window", "schedule"} -> ScheduleWindowIsValid(r)
    [] k = "rate"   -> DeliveryRangeIsValid(r)
    [] k = "price"  -> CompareAtPriceIsValid(r)
    [] k = "stock"  -> StockConfigurationIsValid(r)
    [] k = "print"  -> CustomizationPriceIsValid(r)
    [] k = "bundle" -> ReadyToEnable(r)
    [] k = "scope"  -> ScopeInputsAreValid(r)
    [] k = "offer"  -> ScopeInputsAreValid(r) /\ Complete(r)
    [] OTHER        -> TRUE

-----------------------------------------------------------------------------
(* The first part of each handler: the row is read and the request checked *)
(* against it.  One that is refused changes nothing.                       *)

Accept(r, dto) ==
  /\ saw' = [saw EXCEPT ![r] = row]
  /\ body' = [body EXCEPT ![r] = dto]
  /\ pc' = [pc EXCEPT ![r] = "write"]
  /\ UNCHANGED <<kind, row, now, cacheVars>>

UpdateCoupon(r, dto) ==
  /\ kind = "coupon"
  /\ CouponValueIsValid(Merged(row, dto))
  /\ Accept(r, dto)

(* resolveScheduleWindow, for a coupon and for a bundle: an edit that      *)
(* touches neither end is not checked.                                     *)
UpdateWindow(r, dto) ==
  /\ kind \in {"window", "schedule"}
  /\ \/ dto.first = Absent /\ dto.second = Absent
     \/ ScheduleWindowIsValid(Merged(row, dto))
  /\ Accept(r, dto)

(* Mistaken variant: only the ends that the request brings are compared.   *)
UpdateRateByItself(r, dto) ==
  /\ kind = "rate"
  /\ dto.first # Absent /\ dto.second # Absent => DeliveryRangeIsValid(dto)
  /\ Accept(r, dto)

UpdateRate(r, dto) ==
  /\ kind = "rate"
  /\ \/ dto.first = Absent /\ dto.second = Absent
     \/ DeliveryRangeIsValid(Merged(row, dto))
  /\ Accept(r, dto)

UpdateVariant(r, dto) ==
  /\ kind \in {"price", "stock", "print"}
  /\ Agrees(kind, Merged(row, dto))
  /\ Accept(r, dto)

(* A total that is null counts as one that is left out (??).               *)
UpdateBundle(r, dto) ==
  LET state == [Merged(row, dto) EXCEPT !.first =
                  IF dto.first \in {Absent, Null} THEN row.first ELSE dto.first]
  IN
  /\ kind = "bundle"
  /\ ReadyToEnable(state)
  /\ Accept(r, dto)

(* The scope and the lists that an edit would leave: what the request      *)
(* brings, and stored lists only if the scope stays.                       *)
Effective(old, dto) ==
  LET scope == IF dto.first = Absent THEN old.first ELSE dto.first IN
  [first |-> scope,
   second |-> [l \in Lists |->
                 IF l \in DOMAIN dto.second THEN dto.second[l]
                 ELSE IF scope = old.first /\ l \in ListsOf(scope) THEN old.second[l]
                 ELSE 0]]

UpdateScope(r, dto) ==
  /\ kind \in Scopes
  /\ Agrees(kind, Effective(row, dto))
  /\ Accept(r, dto)

(* A target that is the status already is answered at once.                *)
TransitionStatus(r, dto) ==
  /\ kind = "product"
  /\ dto.first \in ALLOWED_TRANSITIONS[row.first]
  /\ Accept(r, dto)

UpdatePageStatus(r, dto) ==
  /\ kind = "page"
  /\ dto.first \notin {Absent, row.first}
  /\ Accept(r, dto)

Check(r) ==
  /\ pc[r] = "start"
  /\ row # NoRow
  /\ \E dto \in Bodies(kind) :
       \/ UpdateCoupon(r, dto) \/ UpdateWindow(r, dto)
       \/ UpdateRate(r, dto) \/ UpdateVariant(r, dto)
       \/ UpdateBundle(r, dto) \/ UpdateScope(r, dto)
       \/ TransitionStatus(r, dto) \/ UpdatePageStatus(r, dto)

-----------------------------------------------------------------------------
(* The second part: the write.                                             *)

(* A handler that is done forgets what it read and was asked.              *)
Return(r) ==
  /\ saw' = [saw EXCEPT ![r] = NoRow]
  /\ body' = [body EXCEPT ![r] = Absent]

EndWrite(r) ==
  /\ pc' = [pc EXCEPT ![r] = IF kind \in Bundles THEN "invalidate" ELSE "done"]
  /\ Return(r)
  /\ UNCHANGED <<kind, now, cacheVars>>

(* publishedAt is now, or what was read.                                   *)
WriteStatus(r) ==
  /\ kind \in Lifecycles
  /\ row' = [first |-> body[r].first,
             second |-> IF body[r].first = "PUBLISHED" THEN row.second + 1
                                                       ELSE saw[r].second]
  /\ EndWrite(r)

(* The transaction of BundlesService.update: a list is replaced when the   *)
(* request brings it or the scope is not the one that was read.            *)
WriteScope(r) ==
  LET dto == body[r]
      moved == dto.first \notin {Absent, saw[r].first}
      replaced == IF moved THEN Lists ELSE DOMAIN dto.second
  IN
  /\ kind \in Scopes
  /\ row' = [first |-> IF dto.first = Absent THEN row.first ELSE dto.first,
             second |-> [l \in Lists |-> IF l \in replaced THEN Effective(saw[r], dto).second[l]
                                                           ELSE row.second[l]]]
  /\ EndWrite(r)

WriteFields(r) ==
  /\ kind \notin Lifecycles \cup Scopes
  /\ row' = Merged(row, body[r])
  /\ EndWrite(r)

WriteEdit(r) ==
  /\ pc[r] = "write"
  /\ row # NoRow
  /\ WriteStatus(r) \/ WriteScope(r) \/ WriteFields(r)

(* A row that was deleted meanwhile: the update finds none and throws.     *)
WriteFails(r) ==
  /\ pc[r] = "write"
  /\ row = NoRow
  /\ pc' = [pc EXCEPT ![r] = "done"]
  /\ Return(r)
  /\ UNCHANGED <<kind, row, now, cacheVars>>

-----------------------------------------------------------------------------
(* Creation checks the request by itself; codes and slugs are unique.      *)

Insert(r, new) ==
  /\ row' = new
  /\ EndWrite(r)

CreateCoupon(r, new) ==
  /\ kind \in {"coupon", "window"}
  /\ Agrees(kind, new)
  /\ Insert(r, new)

CreateRate(r, new) ==
  /\ kind = "rate"
  /\ DeliveryRangeIsValid(new)
  /\ Insert(r, new)

CreateVariant(r, new) ==
  /\ kind \in {"price", "stock", "print"}
  /\ Agrees(kind, new)
  /\ Insert(r, new)

CreateBundle(r, new) ==
  /\ kind \in Bundles
  /\ Agrees(kind, new)
  /\ Insert(r, new)

CreateDraft(r, new) ==
  /\ kind \in Lifecycles
  /\ new.first = "DRAFT"
  /\ Insert(r, new)

Create(r) ==
  /\ pc[r] = "start"
  /\ row = NoRow
  /\ \E new \in RowsOf(kind) :
       \/ CreateCoupon(r, new) \/ CreateRate(r, new) \/ CreateVariant(r, new)
       \/ CreateBundle(r, new) \/ CreateDraft(r, new)

(* A bundle that an order was given is kept; of the others none is deleted.*)
DeleteBundle(r) ==
  /\ pc[r] = "start"
  /\ kind \in Bundles
  /\ row # NoRow
  /\ row' = NoRow
  /\ EndWrite(r)

-----------------------------------------------------------------------------
(* The public offers.                                                      *)

(* Does the bundle apply at time t?  The filter of loadActiveForPricing:   *)
(* switched on with a total, inside its window, and complete.              *)
AppliesAt(b, t) ==
  CASE kind = "bundle"   -> b.second /\ b.first # Null
    [] kind = "schedule" -> /\ b.first # Null => b.first <= t
                            /\ b.second # Null => t <= b.second
    [] kind = "offer"    -> Complete(b)
    [] OTHER             -> FALSE

(* An offer shows the terms of its bundle, not its window.                 *)
Terms(b) == IF kind = "schedule" THEN [first |-> Null, second |-> Null] ELSE b

OffersAt(t) == IF row # NoRow /\ AppliesAt(row, t) THEN {Terms(row)} ELSE {}

(* The clock; only a window is compared with it.                           *)
Tick ==
  /\ kind = "schedule"
  /\ now < LastTick
  /\ now' = now + 1
  /\ UNCHANGED <<kind, row, requestVars, cacheVars>>

(* What was read so far is late from now on.                               *)
Overtaken(fill) == [l \in Shopper |->
  IF fill[l] = Null THEN Null ELSE [fill[l] EXCEPT !.late = TRUE]]

(* Mistaken variant: only the prices behind the offers are forgotten.      *)
InvalidatePrices(r) ==
  /\ pc[r] = "invalidate"
  /\ filling' = Overtaken(filling)
  /\ pc' = [pc EXCEPT ![r] = "done"]
  /\ UNCHANGED <<kind, row, now, saw, body, cache>>

(* invalidateDisplayCache, once the edit is committed.                     *)
Invalidate(r) ==
  /\ pc[r] = "invalidate"
  /\ cache' = Null
  /\ filling' = Overtaken(filling)
  /\ pc' = [pc EXCEPT ![r] = "done"]
  /\ UNCHANGED <<kind, row, now, saw, body>>

(* listPublicOffers on an empty or outdated cache: it reads what applies at*)
(* this time, and stores what it has read when it is done.                 *)
ReadOffers(l) ==
  /\ kind \in Bundles
  /\ cache = Null
  /\ filling[l] = Null
  /\ filling' = [filling EXCEPT ![l] =
                   [offers |-> OffersAt(now), read |-> now, late |-> FALSE]]
  /\ UNCHANGED <<kind, row, now, requestVars, cache>>

StoreOffers(l) ==
  /\ filling[l] # Null
  /\ cache' = filling[l]
  /\ filling' = [filling EXCEPT ![l] = Null]
  /\ UNCHANGED <<kind, row, now, requestVars>>

(* DISPLAY_CACHE_TTL_MS may pass at any time.                              *)
OffersExpire ==
  /\ cache # Null
  /\ cache' = Null
  /\ UNCHANGED <<kind, row, now, requestVars, filling>>

-----------------------------------------------------------------------------
EditsIdle ==
  /\ pc = [r \in Request |-> "start"]
  /\ saw = [r \in Request |-> NoRow]
  /\ body = [r \in Request |-> Absent]
  /\ now = 0
  /\ cache = Null
  /\ filling = [l \in Shopper |-> Null]

EditsInit(kinds) ==
  /\ kind \in kinds
  /\ row \in {NoRow} \cup {x \in RowsOf(kind) : Agrees(kind, x)}
  /\ EditsIdle

EditsNext ==
  \/ \E r \in Request :
       \/ Check(r) \/ WriteEdit(r) \/ WriteFails(r)
       \/ Create(r) \/ DeleteBundle(r) \/ Invalidate(r)
  \/ \E l \in Shopper : ReadOffers(l) \/ StoreOffers(l)
  \/ OffersExpire \/ Tick

-----------------------------------------------------------------------------
(* The fields that a check relates go on agreeing, a product moves only    *)
(* along its transitions and its date of publication never goes back,      *)
(* except by a write that relies on something changed since it was read:   *)
(* two edits, each right by itself, that cross.  A bundle is left out: it  *)
(* can lose its total to a single request.                                 *)
Lawful(k, old, new) ==
  IF k \in Lifecycles
    THEN /\ old.first # new.first /\ k = "product" =>
              new.first \in ALLOWED_TRANSITIONS[old.first]
         /\ new.second >= old.second
    ELSE Agrees(k, old) => Agrees(k, new)

UnlawfulOnlyByCrossedEdits ==
  [][\A r \in Request :
       /\ pc[r] = "write" /\ pc'[r] # "write"
       /\ row # NoRow /\ kind # "bundle"
       /\ ~Lawful(kind, row, row')
       => \E f \in {"first", "second"} :
            /\ row[f] # saw[r][f]
            /\ body[r][f] = Absent \/ kind \in Lifecycles \cup Scopes]_editVars

(* A row that was published counts its publications in its second field.   *)
EditedRows ==
  [first : First(kind), second : IF kind \in Lifecycles THEN Nat ELSE Second(kind)]

Readings == [offers : SUBSET EditedRows, read : Nat, late : BOOLEAN]

EditsTypeOK ==
  /\ row \in {NoRow} \cup EditedRows
  /\ pc \in [Request -> {"start", "write", "invalidate", "done"}]
  /\ saw \in [Request -> {NoRow} \cup EditedRows]
  /\ body \in [Request -> {Absent} \cup Bodies(kind)]
  /\ now \in Nat
  /\ filling \in [Shopper -> {Null} \cup Readings]
  /\ cache \in {Null} \cup Readings

(* What the storefront shows of the bundles is what checkout applied at the*)
(* time it was read, on the bundles as they are now: an edit shows at once.*)
(* Two things excuse an offer that checkout does not apply until the cache *)
(* expires: a reading from before an edit emptied the cache, stored after, *)
(* and a window that opened or closed since the reading.                   *)
OffersFollowEdits ==
  cache # Null /\ cache.offers # OffersAt(cache.read) =>
    cache.late \/ \E r \in Request : pc[r] = "invalidate"

=============================================================================
