# Verification of the phone-case shop backend

TLA+ modules, TLC configurations and TLAPS proofs for the parts of the backend
whose mistakes cost money or stock: reservations, the order workflow, checkout,
receipts, refunds and the sweeps that run beside them; and for the parts behind
the shop window, where edits, uploads, sessions and imports run into each other.

The backend is one NestJS process over PostgreSQL (through Prisma). There is no
queue and no lock of its own: everything that must not go wrong concurrently
rests on conditional `UPDATE`s, `SELECT … FOR UPDATE` on the order row, unique
indexes, and timers that sweep what expired. Isolation is READ COMMITTED, so a
read without a lock is stale as soon as it is made.

## 1. The system

| Component | State | Operations | Works with |
|---|---|---|---|
| Inventory (`inventory/`) | `stock_items` (onHand, reserved), `stock_reservations`, `stock_movements` | reserve, release, consume, pin, sweep expired, adjust | composed into transactions of orders; swept by the timer |
| Order workflow (`orders/orders.service.ts`) | `orders` (fulfillment and payment status, deadline, coupon) | confirm, advance, cancel, set payment, flag late payment | inventory, receipts, coupons, audit log |
| Order expiry (`orders/order-expiry.*`) | `isRunning` in memory | sweep: release expired holds, cancel overdue orders | timer every minute, two manual endpoints |
| Checkout (`createOrder`) | `carts.status`, `orders.idempotencyKey` and `cartId` (unique) | place an order, answer a retry | cart, pricing, coupons, bundles, receipts, inventory |
| Receipts (`payments/receipts/`) | `payment_receipts`, private files | upload, replace, attach, reject, accept, clean up | checkout, payment, timer |
| Refunds and returns (`orders/refunds/`) | `refunds` (unique key), `order_item_returns` | record a refund, record a return | order payment status |
| Coupons (`promotions/coupons/`) | `coupons.usageCount`, validity | create, change; counted by orders | checkout, cancellation |
| Cart (`cart/`) | `carts`, `cart_items` | add, change, remove, coupon, designs | pricing, custom designs, inventory (soft check) |
| Pricing (`cart-pricing`, `order-pricing.util`, `bundle-pricing.util`) | none | prices, discounts, bundle instances, allocation over lines | cart, checkout |
| Bundles (`promotions/bundles/`) | promotions, scopes | create, change, list offers | pricing |
| Auth (`auth/`, guards) | `refresh_tokens`, signed access tokens | login, refresh (rotation), logout, guards | every admin endpoint |
| Staff (`staff/`) | `staff_users` (role, active) | create, change | auth |
| Custom designs (`custom-designs/`) | `custom_designs`, private files, a mockup frame kept in memory | upload, attach, render | cart, order lines |
| Media (`catalog/media/`) | `media_assets`, `product_media`, public files | upload, delete, attach, detach, change, reorder | products, import |
| Catalog (`catalog/`) | products, variants; brands, models, collections, listings | create, change, publish, archive | storefront, pricing |
| Shipping, content, homepage | rates, zones; pages, sections | create, change, publish | storefront, checkout |
| Import scripts (`scripts/`, `prisma/seed.ts`) | files, products, variants, a report | scan and dedupe a folder, preflight, import or reconcile, seed | catalog, media |
| Audit log | append-only rows | record (never throws) | all |

### What is hard here

- **Two writers of one order.** Payment and cancellation guard different columns;
  only the row lock keeps both from winning. *Correct:* a cancelled order is
  never paid, and an order was paid exactly when its stock was consumed.
- **Sweeps.** They select in one statement and act on each row later; between the
  two the row may be confirmed, paid, or swept by the other sweeper. They crash,
  one of their steps throws, they are limited to a batch without an order.
  *Correct:* nobody acts on what was selected without looking again; nothing that
  is due is left for ever.
- **Counters beside rows.** `reserved`, `onHand` and `usageCount` are redundant
  with rows. *Correct:* they always agree, however operations interleave.
- **Retries.** A guest's request is repeated while the first one runs, or after
  its answer was lost. *Correct:* one order per cart, the same answer to the
  same request, no one else's order to anybody.
- **Reads without a lock.** Replacement of a receipt, cart changes, upload caps.
  And every PATCH of the admin pages: it reads a row, checks the row it would
  leave, and writes only the fields of the request. *Correct:* each edit by itself
  keeps the rule; only two that cross can break it.
- **Rows and files.** A file is written before its row and unlinked after it, a
  compensation may itself fail, the process may die between the two. *Correct:* no
  row without its files, no file without a row but for a failure that explains it.
- **Sessions.** A refresh token is redeemed twice at once, or redeemed and logged
  out. *Correct:* one usable token per login.
- **What is kept in memory.** The cache of public offers, the mockup frame: filled
  by a request that read before an edit emptied them. *Correct:* an edit shows at
  once, but for such a request. By the clock the offers do go stale: a window that
  opens or closes empties no cache, and shows when the cache expires (60 s).
- **Galleries.** "One primary image" is an UPDATE of many rows, then one of a
  single row, under READ COMMITTED.
- **Scripts beside the shop.** An import is run again, twice at a time, dies
  anywhere, is not told that its transaction was committed. *Correct:* another run
  completes what the first left out, and every file is accounted for.
- **Half-done work.** A transaction fails at any statement; the process dies
  between a row and its file.

Every hazard is listed, at its line and with the properties that watch it, in
`PROJECT.json`.

## 2. Modules

```
Inventory ──extends── Orders              IdempotentCheckout (promise)
    │                   │                        ▲ implements
    ├── MCInventory     ├── MCOrders         Checkout ──extends── Inventory
    └── InventoryProofs └── OrdersProofs        ├── MCCheckout
                                                └── CheckoutProofs
Receipts, Cart ── MCReceipts, MCCart, GuestProofs
Refunds ── MCRefunds ┐
Pricing ── MCPricing ┴─ MCAmounts, AmountsProofs ──extended by── SavingsProofs
Sessions ── MCSessions ┐
Uploads ── MCUploads   ┴─ SessionsUploadsProofs
Edits, Gallery, Import ──extended by── Catalog ── MCCatalog, CatalogProofs
```

An `MC` module gives the constants of its module values for TLC; a `Proofs` module
holds the theorems about it (section 4). `MCAmounts` checks pricing and refunds in
one run; they share no variable, and a behaviour is about one of them. `Sorting` says
once what a sorted list is, for `Pricing` and `Import`. `OrdersProofs` and `CheckoutProofs` rest on
`InventoryProofs`.

### Inventory

A reservation is named by its order and its item: `aggregateLines` adds up the
lines that share an item, so there is at most one. `Need[o][s]` is that sum.
Time is what the code compares: an `expiresAt` is `NULL`, in the `FUTURE` or
`PAST`. A transaction of the service is one step, because each of its statements
is a conditional UPDATE of rows it then keeps locked; only the sweep is split
into the selection (`SelectExpired`, `SelectExpiredFor`) and one transaction per
row (`ReleaseIfStillExpired`). `Decrement` keeps the code's oddity: the counter
goes down only where it covers the hold, and nobody looks whether it did.

`HeldUnits(s)` is the set of single units the ACTIVE rows of `s` ask for, so that
"the sum of the quantities" is a cardinality that TLC can count and TLAPS reason
about. `adjusted` and `shipped` add up the `stock_movements`.

`InventorySpec` is also the **abstract specification** of the service: its
operations on any rows in any order. `Orders` is shown to use nothing else.

### Orders

One action per handler and target status, each the whole transaction under the
order's row lock: `CreateOrder`, `Confirm` (with the pin), `Advance`, `Cancel`
(release and coupon), `SetPayment`, `MarkPaid` (consumption and receipt),
`RecordRefund`, `RejectReceipt`. The two things that are not one step are split:
a replacement upload (`RecheckReplacement`, then `InsertReplacement` or
`AbortReplacement`; the transaction takes no lock) and the sweep (`StartSweep`,
`SweepHold`, `SelectOverdue`, `CancelDueToExpiry`, `EndSweep`, with
`SweepCrashes` and `CancellationThrows`). A request for the status the order
already has does nothing and is a stutter. The clock moves by `DeadlinePasses`
and `HoldsLapseAfterDeadline`; both times are so many minutes from now and the
deadline is computed first, so it passes first.

Left out: `flagLatePayment` (a note nothing reads), the audit log, prices and the
snapshots of lines, currency (a constant of the shop).

### IdempotentCheckout and Checkout

`IdempotentCheckout` states what a guest is promised, in steps that look at all
orders at once: `Place`, `AnswerWithOrder`, `AnswerConflict`, `AnswerRefused`.
`Checkout` is `createOrder` statement by statement where others can come in
between: `LookUp`, `Precheck`, `Fallback`, then the transaction `Claim`,
`InsertOrder`, `Commit` or `RollBack`, then the answer. Row locks are what `pc`
says: who has claimed holds the cart's row, who has inserted holds the index
entry of the key, until the transaction ends; a crash (`GetsLost`) frees both.
What the transaction wrote becomes visible at `Commit`. The refinement mapping is
the identity on `orders` (the committed ones) and `answer`.

Cart contents, prices, coupon and bundles appear only as `Reject`: the
transaction may refuse for such a reason.

### Receipts

Where `Orders` knows a receipt only by the verdict on it, `Receipts` has the
service itself: a row of `payment_receipts` and its file, which are two things.
An upload is a row of steps (`pc`): two reads (`CheckCart`, `CountPending`), the
file (`Save`), the row (`InsertRow`); a replacement has its unlocked re-check in
between (`Recheck`). An insertion may be refused (`InsertFails`) or committed and
not acknowledged (`InsertUnacknowledged`); both end in `Undo`, which removes the
file. The timer's cleanup is `StartCleanup` (the selection), `DeleteRow` (looks
again), `Unlink` (the file), `EndCleanup`. `failures` counts what no code can make
good: a crash, a lost acknowledgement, a disk that refuses. Of the order of a cart
only "open", "paid" and "cancelled" remain.

### Cart

The lines of one cart, a function from the request that created a line to its
row. A request is three steps, counted by `step`: `Admit` (is the cart ACTIVE), `Read`
(what the handler looks at, and what it decides to write, kept in `job`), then `Write`
or `WriteFails`. The specification is `CartSpec`, as `GuestProofs` extends `Receipts`
too. The write is one statement or one transaction: it succeeds if the
rows it names still exist and the unique indexes hold (`UniqueIndexes`), else it
fails as a whole; only the insertion of a plain line goes on from there
(`FindWinner`). The reads of one request are one step, although some are two
statements: the longer window is the one before the write, and that is kept.
`asked` remembers what each request brought in. The checkout claims, sees the
lines, and commits or rolls back; until it commits others read ACTIVE.

Left out: notes and the coupon of the cart (single writes of a column no other
change reads), prices, whether a variant is still purchasable (a reason to
`Refuse`). Whether a variant is personalizable does not change.

### Pricing

What a cart costs, with the variables of `computeBundleInstances`: `remaining`
(what no group has claimed, across offers), `buckets` (units of the offer at
work, dearest first, a unit being a line and a number), `groups` (the instances
formed). One step is one turn of a loop of the code: `SkipOffer`, `BuildBuckets`,
`FormGroup`, `EndOffer`. The code sorts; `InOrder` (module `Sorting`) says what a sorted list is, each
element having those before it to its left, and so names the same sequence without
an algorithm. `createOrder` then drafts the lines of the order, `DraftGroup` for
what a group has of a line and `DraftRest` for what none has. Coupon
(`DiscountTotal`), order lines (`OrderLines`) and `AllocateDiscount` are operators on
the result; the loop that hands out what rounding leaves over, a minor unit at a
time, is written as what it computes. `Show` is the progress that the view of a cart
carries, where it promises a saving; `AddUnit` is a guest who adds one of the units
said to be missing, in any choice of variants and in any order, after which all is
priced anew.

Left out: lines that are not available and mixed currencies (checkout refuses
both; the view filters them), groups of less than two units (skipped), offers
without a variant to buy, the cache of displayed prices (see `Edits`). Models are
numbers with 0 for none, so that the order of their ids is some order.

### Refunds

`Orders` has refunds as single steps, against the life of an order; `Refunds` has
them statement by statement. A refund locks the order's row (`Lock`), looks for its
key (`Replay`), checks the status and what is left (`Refuse`, `Accept`), inserts
(`Insert`, or `InsertConflicts` when the unique index holds the key already) and
commits with the new status. `inserted` is the index entry of an uncommitted row:
another insertion of that key waits for it. `Fail` is an error or a dead process
before the commit, or an answer lost after it. A return locks its line, reads what
came back before, and inserts or refuses. `MarkPaid` is the order getting paid
meanwhile. A retry is the same key again, at any time, also for another order.

### Sessions

A token is named by the request that issued it; its access token has the same
name. Each handler is a read and a write with others in between: `CheckLogin` and
`Login`, `CheckRefresh` and `Redeem` (the conditional UPDATE found the token still
live) or `RedeemRefused`, `Guard` and what it lets in: `CreateStaff`, `CheckUpdate`
(the checks of `StaffService.update`) and `WriteUpdate`. `Logout` is one statement.
Both kinds of tokens expire at any time. Passwords and signatures are right or
wrong; a wrong one changes nothing.

`login` and `loggedOut` are history: which login a token descends from, and
whether one of its tokens was revoked by a logout.

### Uploads

Three kinds of images: an asset stored as it is, one stored with a derivative, and
a custom design with its three files. An upload is `Begin` (the cap on designs is
counted here, before the slow work), `LoadFrame` and `UseFrame` for a design (the
promise of the mockup frame is shared by simultaneous requests), one `SaveFile`
per file, `Insert`, or the compensation file by file. A deletion is `FindAsset`,
`DeleteRow` (refused for an asset that is shown), then the files. `Fault` is a
refused write, insertion or removal; `Crash` ends every request and forgets the
frame. An asset that cannot be decoded rejects a promise nobody awaits
(`FrameRejected`). The history variable `excused` has the uploads whose files a
failure explains, `peak` how many designs were on their way at once.

### Edits, Gallery, Import: the Catalog

`Edits` has the PATCH handlers of twelve kinds of rows, each reduced to the two
fields that its rule relates: a coupon's type and value, its window, a delivery
range, price and compare-at price, stock item and unlimited stock, personalizable
and its surcharge, the status and date of publication of products and pages, and
four cuts through a bundle: total and switch; the schedule of an enabled one; scope
and lists of an enabled one (which must be complete: two variants or one target) and
of a disabled one. An edit is a read with its check, then a write of the fields the
request brought; creation checks the request alone.

Beside the bundles there is the cache of public offers (`ReadOffers`, `StoreOffers`,
`Invalidate`, `OffersExpire`) and a clock, `now`, that `Tick` moves. `AppliesAt` is
the filter of `loadActiveForPricing`: switched on with a total, `startsAt <= now <=
expiresAt`, complete. A reading keeps the time it was made at, as the handler
samples `now` once. `OffersFollowEdits` says of a cached reading that it is what
applied *at that time* on the bundles *as they are now*, unless it was overtaken by
an edit or an edit is about to empty the cache. What the clock does afterwards is
not an error of the cache: that is what its TTL bounds. Nothing in `src/` deletes a
product, collection or variant, so a list shrinks by edits of its bundle only; it
can be emptied under an enabled bundle by two that cross, which `AppliesAt` then
leaves out as the code does.

`Gallery` has the images of a product row by row, because an UPDATE of many rows is
not one step: it visits the rows that were there when it began (`StartDemoting`),
waits for those another transaction has written (`DemoteRow`), and never sees one
inserted meanwhile. Then the row itself (`WriteRow`, `DetachRow`, `ReorderRow`),
`CommitEdit` or `AbortEdit`. `raced` remembers that an attachment overlapped a
change of the primary image.

`Import` has runs of the script: `Scan` (photos of a folder, grouped by union of
what is alike, the best of each group kept), `Preflight` (the plan against the
database), and per design `FindProduct`, `CountExisting`, `SavePhoto`, then the
transaction, committed, failed, or committed without an answer
(`CommitUnanswered`), then the removal of a file that is not used (`Discard`).
`RunDies` anywhere. Meanwhile staff take over a product, detach a photo or add a
variant, also under a SKU that the script would build. `Seed` creates what the
import needs.

`Catalog` puts them side by side. They share no row, so which one a behaviour is
about is chosen at its start, by `kind`.

## 3. Runs

| Run | Instance | What it shows |
|---|---|---|
| `inventory` | 2 orders (2+1 and 1+0 units), 2 items with 2 and 1 on hand, 2 sweepers, corrections ±1 | counters agree with rows; only a correction oversells |
| `orders_pair` | 2 orders, 1 unit, 1 use of a coupon, the scheduler with a batch of 1, 1 failure, fairness | coupon uses add up; cancelled orders hold nothing; refinement of `Inventory`; overdue orders are settled and expired holds freed |
| `orders_single` | 1 order of 2 items (one of 2 units), 2 sweepers with a batch of 1, 3 receipts, refunds of 1 or 2 out of 2, corrections ±1 | stock, payment and receipts agree; races with the sweep |
| `checkout` | request, its retry, a third for the same cart, a stranger with the same key; 1 unit; 1 receipt that may lapse; fairness of the server | `Checkout` implements `IdempotentCheckout`; nothing half done; every request ends |
| `receipts` | 3 uploads of one cart, cap 2, batch 1, 2 failures; fairness of the timer | files match rows; lapsed uploads are removed |
| `cart` | 4 requests of any kind, 2 plain variants and one personalizable, 1 design, at most 3 of a kind | no unit nobody asked for, in the cart or the order |
| `amounts` | carts of up to 3 lines and 4 units over 4 variants of 3 models; offers of 2 or 3 units, of any terms, with surcharges, and two offers for the same units; 2 coupons. Or: 2 orders of total 2; a full refund, its retry, a partial one, one for the other order under the first key; returns of 1, 2 and 1 units of a line of 2 | units and amounts add up; as many groups as possible; the saving shown is kept where groups always pay. Refunds never exceed what was paid and match the status; a retry gets its refund; no more comes back than was bought |
| `sessions` | 2 owners and an account that may be created, 4 interchangeable requests of any kind | one live token per login; an owner is left, but for owners who act at once |
| `uploads` | 2 designs of a cart capped at 1, one asset stored as it is, one with a derivative; a frame that cannot be read or not be decoded; 2 failures | rows have their files, files their rows; the cap is passed by no more than what overlaps |
| `catalog` | 2 edits and 2 shoppers per kind of row, times 0 to 3; 3 editors of 2 images; 2 import runs of 2 designs and 2 combos with 1 edit and 1 failure; all scans of 4 photos with up to 3 contents and 3 sources | rules are broken only by crossed edits; shown offers lag behind an edit only by a late read, and behind the clock; one primary image; files, rows and reports of imports agree; photos are grouped by chains |
| `two_replacements` | one order | a disagreement of code and comment, section 6 |
| `mixed_prices` | carts of 3 out of 4 cases for different models, two at 1 and two at 9; pairs of different models at 5 | a disagreement of code and documentation, section 6: the saving shown is not guaranteed |

**Bounds.** Two orders suffice for anything that happens *between* orders: they
meet only in the counters of an item or a coupon, and each conflict is a pair.
What happens *within* an order needs two items (one lost, the other not), two
sweepers (each with a stale selection) and a batch smaller than what is due;
hence the split of the order runs into a pair with one item and a single order
with two. `MaxReceipts = 3` allows a rejection and two replacements;
`MaxAdjusted = 1` lets a correction take `onHand` below `reserved` and above
demand. `MaxFailures` bounds crashes: in `orders_pair` one is enough to show
that what a failed sweep selected is found again. Cancellations that fail again and
again, and with them fill the batch, are beyond that bound. `CHECK_DEADLOCK FALSE` stands
where the system really may stop: everything delivered or cancelled, or every
request answered.

For `Receipts`, carts meet nowhere, so one is enough; three uploads are two that
meet at the cap and one for after the checkout; a failure may hit an upload and
the cleanup of what it left. For `Cart`, four requests
are two lines and two requests that race over them; three of a kind at most lets
two additions of two reach the cap.

For `Pricing`, three buckets of which one holds two units are the smallest cart in
which a wrong choice of buckets loses a group; the two group prices lie below every
pair and above the cheapest one, so groups that would raise the total occur; 30
percent of odd amounts leave something over when split. Of carts with all three lines
only the first has two units; the other places for the second unit differ in the
order of the lines alone, which shorter carts vary.

For `Refunds`, the amounts are chosen so that each pair of requests conflicts: full
and partial refund exceed the total together, retry and first share a key, a third
request has the key but not the order; the three returns fit in no two ways. For
`Sessions`, four requests are a login, two redemptions of its token and a logout,
or the logins of two owners and what they do to each other; the second way in which
`Overtaken` lets the last owner go takes six requests (section 6), which the proof
covers and this run does not reach. For `Edits`, ends of windows at 1 and 2 and a
clock from 0 to `LastTick = 3` have times before, at, between and after both; the
clock moves only where a window is looked at. Lists are told apart up to the length
an offer must have. For `Uploads`, a
failure and a second one in the compensation of the first; four requests are one
pair per place where requests meet (cap, frame). For `Gallery`, a second
primary image takes two images and a request that demotes one while another is
attached; the third editor gives the first two something to demote. For `Import`,
two runs are a first one and what follows or overlaps it; folders hold a duplicate
of a design and two photos that the manifest gives one slug. `MaxEdits = 2` was
run once as well (2.5 million states, no error). Four photos are two pairs that a
fifth comparison joins, the first case in which the order of comparisons could
matter.

**Fairness.** `FairSpec` of `Orders` assumes weak fairness of one sweeper, the
scheduler: `@Interval` ticks every minute while the process is up, and a sweep
goes on to its end unless it fails. Staff, guests, the manual trigger and the
clock need not act. `FairSpec` of `Checkout` assumes that the server goes on with
a request it received (weak fairness per request); it may still be lost. `FairSpec` of `Receipts` assumes
the five-minute timer (weak fairness of `Cleanup`), not that uploads proceed. The
other modules state safety only: their requests are answered or lost, and nothing
in the code retries them.

**Mutants.** Beside most actions stands a mutated copy (its comment starts with
"Mutant:" or "Mistaken variant"), what a plausible bug would make of it. It is part of no
specification; put in the place of the original it breaks the property that
`PROJECT.json` names, which shows that the property depends on the code.

## 4. Proofs

Eight modules hold theorems: `InventoryProofs`, `OrdersProofs`, `CheckoutProofs`,
`GuestProofs` (receipts and the cart), `AmountsProofs` (pricing and refunds),
`SavingsProofs` (what pricing shows), `SessionsUploadsProofs` and `CatalogProofs`. They hold for any number of
orders, items, sweeps, coupons, carts, offers, requests, keys, accounts, uploads,
images, designs, photos and runs and for any quantities and prices, from the assumptions on the constants (finite sets; natural
quantities and limits). The strengthened invariants are small: what a handler may
rely on at the step it has reached, and the lock, index or conditional UPDATE that
makes it so.

- *Counters.* `InventoryInv` (types, `ReservedMatchesHolds`, `LedgerMatchesStock`)
  is inductive as it stands. The step is arithmetic on cardinalities: an order
  joins or leaves the set of holders of an item and takes its units along
  (`UnitsAdd`, `UnitsRemove`). `HoldIsReserved` shows that a hold is never larger
  than the counter, so `Decrement` never skips.
- *Stock and status.* `PaidExactlyWhenConsumed` and
  `ConfirmedOrdersKeepTheirStock` are not inductive alone: that an order is
  covered says nothing about rows that do not exist. `StockInv` adds
  `RowsMatchOrder`: a placed order has exactly one row for each item it needs and
  a cart none. Then "covered and not paid" means "all ACTIVE", so confirming pins
  all rows and paying consumes all. One lemma per action that touches stock;
  `OrderUntouched` serves the others and all other orders.
- *Refinement.* `OrdersRefineInventory`: with `RowsMatchOrder`, each step of
  `Orders` is one of `InventoryNext` or leaves the stock alone (in particular a
  checkout never revives a row). The counter invariant then holds in `Orders` for
  free (`OrdersKeepReservedMatchingHolds`).
- *Money and proof.* Refunds: `RefundsMatchStatus` is inductive over the types.
  Receipts: `ProofInv` adds that a cart has no receipts yet, so a checkout overwrites
  no verdict; then being paid starts only with `MarkPaid` (`PaidFromMarkPaid`), which
  accepts a receipt in the same step (`MarkPaidAccepts`), and nothing else accepts one
  (`AcceptedFromMarkPaid`). `NoPaymentAfterCancellation`, `SweepSparesSettledOrders`
  and `VerdictsAreFinal` are action properties from the same invariants;
  `PaymentSteps`, `FulfillmentSteps` and `ReceiptSteps` say once which actions touch
  what.
- *Coupons.* `CouponUsesAddUp` compares a counter with the orders that hold a use.
  `CouponInv` adds `UseOf`: a use is given back only by an order that was cancelled
  and never paid, and a cart has none yet. So no order takes or returns one twice, and
  each step moves the counter and the set of uses by the same one.
- *Checkout.* `CheckoutInv` says of each request what it may rely on at its statement:
  nobody else is in a transaction on its cart or past the insertion with its key
  (`Alone`, from the row lock and the index entry), and what it read still holds
  (`Knows`). `AttachedByName` says that a receipt is attached to an order that names
  it. Then each statement is a step of `IdempotentCheckout` or changes nothing that a
  guest can see (`CheckoutKeepsThePromise`), and each is also a step of the inventory
  (`CheckoutRefinesInventory`). From the two refinements follow
  `EveryoneIsAnsweredWithTheirOwnOrder` and `CheckoutsKeepReservedMatchingHolds`.
- *Files of receipts.* `FilesMatchRows` speaks of handlers that are done; `FileInv`
  says for every step of a handler whether its file is there and what its row can be,
  that the cleanup deletes a row before it unlinks, and that it unlinks only files
  whose row is gone, all as long as `failures = 0`.
- *Cart.* `NeverMoreThanAsked` compares two sums over lines and requests that have no
  names in common any more, since handlers merge lines and overwrite quantities that
  others have changed. `CartInv` says there is a way to divide the requests among the
  lines (`Traced`): each line owes its units to requests of its own (`OwedTo`), and
  what a handler is about to write is covered by what the lines it read still owe
  (`CoveredBy`). The code does not keep this division; the invariant only says that
  one exists, and each action shows how it changes: a creation adds a share, a merge
  unites two, a deletion drops one. Units are counted as sets, so adding shares up
  takes no induction (`LinesAreCovered`).
- *Sessions.* The live token of a login is the last of its chain; redeeming it makes
  it the last but one. `SessionsInv` adds that a token is issued once, by a request
  that ends with it (`TokensAreIssuedOnce`). For owners, `OwnAccountStaysActive`: a
  request about to write never deactivates the account that asks. An earlier form of
  `OwnerRemains` (only a request whose account has since lost its role removes the
  last owner) held on the instance and turned out false when it was to be proved; the
  second case of `Overtaken` is what the failed step showed (section 6).
- *Refunds and returns.* What an attempt read holds until it commits, because it holds
  the order's row from its first read (`HoldsOrder`); two orders never share a key
  because of the index entry (`HoldsKey`); a return holds its line (`HoldsLine`). The
  amounts of an order's refunds are the cardinality of their units, so one refund more
  is one disjoint set more.
- *Sums and counts.* Pricing is sums over sequences, and what a sum computes for every
  sequence takes induction. The induction rule of the library has an operator as its
  parameter; here the set of the numbers that have a property stands for the property,
  and `Induction` follows from `Least`, that a set of natural numbers has a least one.
  From it come what `SumTo` computes (`SumToStep`), that sums add, compare and swap
  (`SumsExchange`, for sums over groups of sums over lines), and that a set is put in order
  by `InOrder` (`Ranks`: the ranks of its elements are the numbers up to its
  size).
- *Allocation.* `AllocationAddsUp`: the shares are natural, none above its amount, and
  their sum is the discount capped by the sum of the amounts. What rounding leaves over
  fits in the room below the amounts, and filling from the first on is a difference of
  partial sums.
- *Groups.* `PricingInv` has the buckets in step with `remaining` (`BucketsKept`: a
  unit waits in one place of one bucket, that of its key, and no more units of a line
  wait than `remaining` has left of it) and the terms of each group (`KeepsTerms`).
  `Chosen` then has distinct units, of distinct models where the offer says so, and
  takes as many off the buckets as off `remaining`. Hence `UnitsGroupedOnce` and
  `GroupsKeepTheirTerms`.
- *The order's lines.* `DraftsKept`: the drafts so far sum to the lines of the cart that
  are done, and of the line at work to what the groups so far have of it. At the end
  sums over drafts are sums over lines (`SumsExchange` turns what each line has of the
  groups into what each group gives), so `OrderAddsUp` follows from `AllocationAddsUp`
  twice.
- *Most groups.* A group can be formed while there are `size` keys that are not used up;
  the theorem is that taking from the largest buckets never wastes one. `MostKept`
  says in each turn: if `g` more groups than there are were possible in the cart at
  all, then `g` more are possible with what waits (`EnoughLeft`). The step
  (`EnoughOfDifferentModels`) is a count of places: a bucket that is passed over is not larger than
  `size` others that are taken from. At the end no further group fits, so none was
  possible.
- *Savings shown.* `SavingsAsShown` compares two pricings: of the cart whose view shows
  the saving, and of that cart with the missing units. What they have in common is
  said of a `Shelf`: of each line how many units the offer may use, their bucket, price
  and worth. What is shown is a `Promise`: with so many units to come, some choice of
  units makes one more group than were formed and is worth what was shown. It is one
  when it is shown (`ShownHolds`; here the cheapest price and the highest surcharge
  bound what any unit brings), and every unit that the offer waits for leaves it one
  (`PromiseWithUnit`). While the new cart is priced, `Stands` says how far the offer is:
  the units taken are the first of their buckets, and for different models the buckets
  are balanced. A promise with nothing to come is reached before the offer ends
  (`PromiseReached`, where `Pays` is used: no group is passed over as too dear), and
  then kept (`PromiseKept`: no choice of as many units is worth more than the first of
  each bucket). `SavedKept` joins them to the invariant of each step.
- *Uploads.* Uploads share the disk and no file, so the invariant is one of a single
  upload (`Kept`: what is on the disk at each step, what is still to be removed) and
  steps of others leave it alone. The cap is about all designs: `Overlap` counts
  stored and in-flight ones together against cap and peak, which is why the overrun
  is never more than what overlapped.
- *Catalog.* A behaviour is about edits, images or imports, and each has its own
  invariant. `EditsInv`: a pending write passed its check on a row that was once there
  (`CheckedBeforeWrite`), so an unlawful row means that another edit came in between;
  a reading of the offers, stored or still on its way, is what applies at its time, or
  an edit is about to empty the cache, or did so since (`ReadingsFollowEdits`). The
  clock drops out of the argument because a reading is compared at its own time
  (`AllOffers`, what applies at every time, changes only by edits). `ImportInv`: a run has one turn per
  design (the preflight refuses a repeated slug), no file or row for those to come
  (`NotYetImported`), and a known file in each step of its turn (`FileOfTurn`).
  `GalleryInv`: a transaction writes only rows it holds (`HoldsRows`), and one that
  promotes an image has, unless an attachment raced with it, visited every other image
  or has it still to do (`Sees`); hence `OnePrimary`.
- *Groups of photos.* The code links photos pair by pair; `PhotosGroupedByChains` says
  what has to come out: a group is what chains of photos of the same bytes or the same
  source join. A chain is stated without recursion: `j` is in every set that holds `i`
  and that no likeness leads out of (`Joined`). The invariant over the comparisons
  (`Grouped`, by `Induction`) has a depth and a root for each photo that make the links
  a forest (`Forest`; `FindRoot`: `Find` returns that root), no tree reaching out of
  such a set, and what was found alike in one tree. `Union` adds one tree to another
  (`UnionForest`), where it matters that the root is linked and not the photo. After all
  pairs (`PairsLists`) the trees are the groups (`FindGroups`), and of each the best is
  taken once (`SurvivorsAreBest`).

Some of these have no run: `InventoryTypeOK`, `EndedHoldsStayEnded`,
`OrdersTypeOK`, `RefundsMatchStatus`, `VerdictsAreFinal` and `ReceiptsTypeOK`, and of
`Checkout` the answers with one's own order, the refinement of the inventory and its
counters. They are proved, and a run would only repeat on a small instance what holds
for all.

Only model-checked:

- liveness, since TLAPS does not do fairness: `OverdueOrdersAreSettled`,
  `ExpiredHoldsAreFreed`, `EveryRequestEnds`, `LapsedUploadsAreRemoved`.

## 5. Not modelled

- **Database deadlocks and the connection pool.** Transactions that are one step
  here lock several rows one after the other, and `createOrder` asks for a second
  connection while it holds one. Both are listed as hazards.
- **Audit log.** Append-only rows that no other code reads; a failure is swallowed.
- **Plain records.** Brands, device models, case types, collections, shipping zones,
  listings and searches, content of pages and homepage sections: single-row writes
  and queries without a rule that relates fields (those that have one are in
  `Edits`). `flagLatePayment`, cart notes and the coupon of a cart likewise.
- **Computation on pixels.** Decoding, resizing, rendering of mockups: an image
  either can be decoded or not.
- **What an offer derives from the catalog.** Its minimum saving, the slugs it
  applies to and its banner are computed from other rows, whose edits empty no
  cache: they follow within the TTL. `Terms` leaves them out, and the check that an
  enabled bundle spans enough phone models.
- **Photos attached twice.** Two imports that overlap may each find a product without
  a photo and attach one; the properties ask what is missing, not what is double.
- **HTTP plumbing.** Framework wiring, validation of bodies, logging, rate limits,
  mapping of responses, health checks, environment variables.
- **Parts of the scripts.** The dry run of the import (the same reads, no writes),
  taxonomy and collections it upserts, the data of the manifest, and the two
  scripts for custom cases and their pricing.

## 6. Where code and documentation disagree

With a run:

- *Two replacements* (`two_replacements`). Two replacement receipts can both succeed;
  the re-check that the comment relies on takes no lock.
- *The guaranteed saving* (`mixed_prices`). The view of a cart shows what completing
  the next group saves at least, "only when provably > 0"; BUSINESS_RULES (lines
  690-699) calls it a proof. The bound counts the units left over and the cheapest
  ones that may be added. It forgets that groups of different models are picked by
  the size of their buckets and then by the ids of the models, and that
  `computeBundleInstances` stops at the first group that would cost more than its
  units. So the added unit can make a cheap group come first, and the cart loses the
  groups it had: with pairs at 5, one case at 1 and two at 9 save 5 and are shown 5
  more for another case; a second case at 1 makes `{1, 1}` the first pair, and nothing
  is saved. The failed proof of the bound showed it; the run is the counterexample.
  `SavingsAsShown` says where the bound holds, for offers of any models and for those
  of different models at prices that pay for any group, and is proved (`SavedAsShown`).

Met while modelling, in the models, without a run of their own:

- *Checkout and stale holds.* Checkout does not sweep expired holds first, so one
  that outlived its TTL blocks a new reservation until the next tick, contrary to
  BUSINESS_RULES (lines 152-154) and to what the comment of
  `reserveManyInTransaction` asks of its caller.
- *The ordered cart.* A request admitted before the checkout commits still changes
  the lines of the ordered cart (BUSINESS_RULES, lines 221-225). The order keeps its
  own copy, so only what the guest sees of the old cart is affected.
- *Designs.* A design checked against the old variant of a line can be attached
  after the line was switched, and be ordered for a variant it was not rendered
  for, which `cart-pricing.service.ts` (lines 299-301) takes to be impossible.
- *Caps.* Simultaneous uploads exceed the caps on receipts and on designs, which
  are counted before the file is written and the row inserted.
- *Lost addition.* Of two simultaneous additions to a line one is lost, though both
  are answered with success.
- *Receipt left pending.* A replacement whose re-check ran before its order was
  marked PAID leaves a pending receipt behind.
- *Several offers.* The saving shown for one offer may go to another that claims the
  units first.
- *Offers shown.* "An admin edit must show up in storefront messaging immediately,
  not after the TTL" (`bundles.service.ts`, line 120): a request that read before the
  edit and stores after it shows the old offers for the TTL. A window that opens or
  closes shows after the TTL too, which "Display data may be this stale" allows.
- *Enabled bundles without a total.* An update that clears `fixedTotal` of an
  enabled bundle passes its check, because `??` puts the old total in place of the
  `null` that is then written. Hence the exception in `UnlawfulOnlyByCrossedEdits`.
- *The last owner.* Two owners who demote each other at once leave none;
  BUSINESS_RULES (lines 126-130) admits it. There is a second way, which came up when
  the first was to be proved the only one: a request for the own account may keep the
  role that the handler reads. An owner passes the guard and is demoted to MANAGER by
  another owner; the handler, asked to set MANAGER, finds no change of role and lets
  it through (`staff.service.ts`, line 80); the account is made an owner again and
  the others go; then the write demotes the last one. `OwnerRemains` names both: the
  last owner goes only by an update that something overtook (`Overtaken`).
- *Mockup frame.* An asset that cannot be decoded makes every upload of a design
  fail, although the comment promises a fallback: the conversion is not awaited
  where its failure is caught.
- *Import reports.* A combo whose SKU another variant carries is passed over, and
  the report still says it was created; a variant whose SKU staff renamed is
  counted as missing by every later run.

## 7. Plan

Done: all modules of section 2, the runs of section 3, the proofs of section 4. Every
safety property that a passing run checks is proved.

Next: `RowLocks` and `ConnectionPool`: who waits for whom, statement by statement, for the
two hazards of deadlock that no property covers yet.
