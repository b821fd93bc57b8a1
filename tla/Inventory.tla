------------------------------ MODULE Inventory ------------------------------
(***************************************************************************)
(* Physical stock counters and the holds orders place on them: the tables  *)
(* stock_items, stock_reservations and stock_movements, written only by    *)
(* ReservationsService and StockItemsService.                              *)
(*                                                                         *)
(* Every statement of those services is a conditional UPDATE inside one    *)
(* database transaction, so a transaction is one step here.  What is not   *)
(* one step is the expiry sweep: it selects its candidates in one          *)
(* statement and releases each of them later, in a transaction of its own, *)
(* and anything may happen in between.                                     *)
(*                                                                         *)
(* An order holds at most one reservation per stock item (the quantities   *)
(* of the lines sharing an item are added up first), so a reservation is   *)
(* named by the order and the item.  Time is abstracted to what the code   *)
(* compares: an expiresAt is NULL, still in the FUTURE, or in the PAST.    *)
(***************************************************************************)
EXTENDS Integers, FiniteSets

CONSTANTS
  Order,          \* orders that may hold stock
  StockItem,      \* rows of stock_items
  Need,           \* Need[o][s]: units of s that the lines of o add up to
  InitialOnHand,  \* InitialOnHand[s]: units of s counted before any movement
  Sweeper,        \* concurrent callers of the expiry sweep
  SweepLimit,     \* rows one sweep selects at most
  AdjustDeltas,   \* manual corrections staff may enter
  MaxAdjusted     \* bound: the corrections of an item stay within +-MaxAdjusted

ASSUME InventoryAssumption ==
  /\ IsFiniteSet(Order)
  /\ IsFiniteSet(StockItem)
  /\ Need \in [Order -> [StockItem -> Nat]]
  /\ InitialOnHand \in [StockItem -> Nat]
  /\ SweepLimit \in Nat \ {0}
  /\ AdjustDeltas \subseteq Int
  /\ MaxAdjusted \in Nat

VARIABLES
  onHand,       \* onHand[s]: stock_items."onHand"
  reserved,     \* reserved[s]: stock_items.reserved
  reservation,  \* reservation[o][s]: status of the row, "NONE" without a row
  expiry,       \* expiry[o][s]: its expiresAt against the clock
  adjusted,     \* adjusted[s]: sum of the stock_movements staff entered
  shipped,      \* shipped[s]: minus the sum of the reservation_consumed ones
  candidates    \* candidates[w]: reservations sweep w selected, not yet tried

inventoryVars ==
  <<onHand, reserved, reservation, expiry, adjusted, shipped, candidates>>

ReservationStatus == {"ACTIVE", "CONSUMED", "RELEASED", "EXPIRED"}
Expiry == {"NULL", "FUTURE", "PAST"}

-----------------------------------------------------------------------------
(* What the counters count.                                                *)

ItemsOf(o) == {s \in StockItem : Need[o][s] > 0}

ActiveItems(o) == {s \in StockItem : reservation[o][s] = "ACTIVE"}

OrdersWith(status, s) == {o \in Order : reservation[o][s] = status}

(* The individual units of s that the orders of S ask for, so that a sum   *)
(* of quantities is the number of elements of a set.                       *)
Units(S, s) == UNION {{o} \X (1 .. Need[o][s]) : o \in S}

HeldUnits(s) == Units(OrdersWith("ACTIVE", s), s)

ConsumedUnits(s) == Units(OrdersWith("CONSUMED", s), s)

-----------------------------------------------------------------------------
(* Operations the order workflow composes into its own transactions.       *)

(* Mutant: what others hold is not subtracted.                             *)
ReserveItemsOnShelf(o, S, ttl) ==
  /\ \A s \in S : onHand[s] >= Need[o][s]
  /\ reserved' = [s \in StockItem |->
       IF s \in S THEN reserved[s] + Need[o][s] ELSE reserved[s]]
  /\ reservation' = [reservation EXCEPT ![o] =
       [s \in StockItem |-> IF s \in S THEN "ACTIVE" ELSE reservation[o][s]]]
  /\ expiry' = [expiry EXCEPT ![o] =
       [s \in StockItem |-> IF s \in S THEN ttl ELSE expiry[o][s]]]
  /\ UNCHANGED <<onHand, adjusted, shipped, candidates>>

(* One conditional UPDATE and one new row per item; the first item that is *)
(* short throws and rolls every other one back.                            *)
ReserveItems(o, S, ttl) ==
  /\ \A s \in S : onHand[s] - reserved[s] >= Need[o][s]
  /\ reserved' = [s \in StockItem |->
       IF s \in S THEN reserved[s] + Need[o][s] ELSE reserved[s]]
  /\ reservation' = [reservation EXCEPT ![o] =
       [s \in StockItem |-> IF s \in S THEN "ACTIVE" ELSE reservation[o][s]]]
  /\ expiry' = [expiry EXCEPT ![o] =
       [s \in StockItem |-> IF s \in S THEN ttl ELSE expiry[o][s]]]
  /\ UNCHANGED <<onHand, adjusted, shipped, candidates>>

(* The counter is decremented only where it covers the quantity, and the   *)
(* row count of that UPDATE is ignored.                                    *)
Decrement(n, q) == IF n >= q THEN n - q ELSE n

(* Mutant: the counter goes down even where the row was not ACTIVE.        *)
ReleaseItemsAndCount(o, S, status) ==
  /\ reservation' = [reservation EXCEPT ![o] =
       [s \in StockItem |->
         IF s \in S \cap ActiveItems(o) THEN status ELSE reservation[o][s]]]
  /\ reserved' = [s \in StockItem |->
       IF s \in S THEN Decrement(reserved[s], Need[o][s]) ELSE reserved[s]]
  /\ UNCHANGED <<onHand, expiry, adjusted, shipped>>

(* Rows that are no longer ACTIVE are left alone.                          *)
ReleaseItems(o, S, status) ==
  LET freed == S \cap ActiveItems(o) IN
  /\ reservation' = [reservation EXCEPT ![o] =
       [s \in StockItem |-> IF s \in freed THEN status ELSE reservation[o][s]]]
  /\ reserved' = [s \in StockItem |->
       IF s \in freed THEN Decrement(reserved[s], Need[o][s]) ELSE reserved[s]]
  /\ UNCHANGED <<onHand, expiry, adjusted, shipped>>

(* Mutant: rows that are no longer ACTIVE are consumed too.                *)
ConsumeItemsAgain(o, S) ==
  /\ \A s \in S : onHand[s] >= Need[o][s] /\ reserved[s] >= Need[o][s]
  /\ reservation' = [reservation EXCEPT ![o] =
       [s \in StockItem |-> IF s \in S THEN "CONSUMED" ELSE reservation[o][s]]]
  /\ onHand' = [s \in StockItem |->
       IF s \in S THEN onHand[s] - Need[o][s] ELSE onHand[s]]
  /\ reserved' = [s \in StockItem |->
       IF s \in S THEN reserved[s] - Need[o][s] ELSE reserved[s]]
  /\ shipped' = [s \in StockItem |->
       IF s \in S THEN shipped[s] + Need[o][s] ELSE shipped[s]]
  /\ UNCHANGED <<expiry, adjusted, candidates>>

(* Refused as a whole unless every row is still ACTIVE and both counters   *)
(* of its item cover it.                                                   *)
ConsumeItems(o, S) ==
  /\ S \subseteq ActiveItems(o)
  /\ \A s \in S : onHand[s] >= Need[o][s] /\ reserved[s] >= Need[o][s]
  /\ reservation' = [reservation EXCEPT ![o] =
       [s \in StockItem |-> IF s \in S THEN "CONSUMED" ELSE reservation[o][s]]]
  /\ onHand' = [s \in StockItem |->
       IF s \in S THEN onHand[s] - Need[o][s] ELSE onHand[s]]
  /\ reserved' = [s \in StockItem |->
       IF s \in S THEN reserved[s] - Need[o][s] ELSE reserved[s]]
  /\ shipped' = [s \in StockItem |->
       IF s \in S THEN shipped[s] + Need[o][s] ELSE shipped[s]]
  /\ UNCHANGED <<expiry, adjusted, candidates>>

PinActiveForOrder(o) ==
  /\ expiry' = [expiry EXCEPT ![o] =
       [s \in StockItem |-> IF s \in ActiveItems(o) THEN "NULL" ELSE expiry[o][s]]]
  /\ UNCHANGED <<onHand, reserved, reservation, adjusted, shipped, candidates>>

-----------------------------------------------------------------------------
(* The expiry sweep, manual corrections, and the clock.                    *)

Expired == {r \in Order \X StockItem :
              /\ reservation[r[1]][r[2]] = "ACTIVE"
              /\ expiry[r[1]][r[2]] = "PAST"}

(* LIMIT without ORDER BY: any rows that match, as many as the limit lets. *)
SelectExpired(w) ==
  /\ candidates[w] = {}
  /\ \E batch \in SUBSET Expired :
       /\ \/ Cardinality(batch) = SweepLimit
          \/ batch = Expired /\ Cardinality(batch) < SweepLimit
       /\ candidates' = [candidates EXCEPT ![w] = batch]
  /\ UNCHANGED <<onHand, reserved, reservation, expiry, adjusted, shipped>>

(* The lazy sweep a standalone reserve runs first: one item, no limit.     *)
SelectExpiredFor(w, s) ==
  /\ candidates[w] = {}
  /\ candidates' = [candidates EXCEPT ![w] = Expired \cap (Order \X {s})]
  /\ UNCHANGED <<onHand, reserved, reservation, expiry, adjusted, shipped>>

(* The conditions of the selection are evaluated again by the UPDATE.      *)
ReleaseIfStillExpired(w, r) ==
  /\ r \in candidates[w]
  /\ candidates' = [candidates EXCEPT ![w] = @ \ {r}]
  /\ ReleaseItems(r[1], IF r \in Expired THEN {r[2]} ELSE {}, "EXPIRED")

(* An error or a crash ends the sweep; nothing remembers the selection.    *)
AbandonSweep(w) ==
  /\ candidates[w] # {}
  /\ candidates' = [candidates EXCEPT ![w] = {}]
  /\ UNCHANGED <<onHand, reserved, reservation, expiry, adjusted, shipped>>

(* Only the onHand counter is guarded: the correction does not look at     *)
(* what is reserved.                                                       *)
Adjust(s, delta) ==
  /\ onHand[s] + delta >= 0
  /\ adjusted[s] + delta \in -MaxAdjusted .. MaxAdjusted
  /\ onHand' = [onHand EXCEPT ![s] = @ + delta]
  /\ adjusted' = [adjusted EXCEPT ![s] = @ + delta]
  /\ UNCHANGED <<reserved, reservation, expiry, shipped, candidates>>

(* The rows of one checkout share their expiresAt.  It is read only while  *)
(* a row is ACTIVE.                                                        *)
HoldsLapse(o) ==
  /\ \E s \in ActiveItems(o) : expiry[o][s] = "FUTURE"
  /\ expiry' = [expiry EXCEPT ![o] =
       [s \in StockItem |-> IF expiry[o][s] = "FUTURE" THEN "PAST" ELSE expiry[o][s]]]
  /\ UNCHANGED <<onHand, reserved, reservation, adjusted, shipped, candidates>>

-----------------------------------------------------------------------------
(* The service on its own: callers use its operations in any order, on one *)
(* reservation (reserve, release, consume) or on several at once.          *)

InventoryInit ==
  /\ onHand = InitialOnHand
  /\ reserved = [s \in StockItem |-> 0]
  /\ reservation = [o \in Order |-> [s \in StockItem |-> "NONE"]]
  /\ expiry = [o \in Order |-> [s \in StockItem |-> "NULL"]]
  /\ adjusted = [s \in StockItem |-> 0]
  /\ shipped = [s \in StockItem |-> 0]
  /\ candidates = [w \in Sweeper |-> {}]

(* A reservation row is created once: an ended one is never revived.       *)
Reserve(o, S) ==
  /\ \A s \in S : reservation[o][s] = "NONE"
  /\ \E ttl \in {"NULL", "FUTURE"} : ReserveItems(o, S, ttl)

Release(o, S) ==
  /\ \E status \in {"RELEASED", "EXPIRED"} : ReleaseItems(o, S, status)
  /\ UNCHANGED candidates

Sweep(w) ==
  \/ SelectExpired(w)
  \/ \E s \in StockItem : SelectExpiredFor(w, s)
  \/ \E r \in candidates[w] : ReleaseIfStillExpired(w, r)

InventoryNext ==
  \/ \E o \in Order : \E S \in SUBSET ItemsOf(o) :
       Reserve(o, S) \/ Release(o, S) \/ ConsumeItems(o, S)
  \/ \E o \in Order : PinActiveForOrder(o) \/ HoldsLapse(o)
  \/ \E s \in StockItem, delta \in AdjustDeltas : Adjust(s, delta)
  \/ \E w \in Sweeper : Sweep(w) \/ AbandonSweep(w)

InventorySpec == InventoryInit /\ [][InventoryNext]_inventoryVars

-----------------------------------------------------------------------------
(* Properties.                                                             *)

(* The counters are never negative, and a row has one of its statuses.     *)
InventoryTypeOK ==
  /\ onHand \in [StockItem -> Nat]
  /\ reserved \in [StockItem -> Nat]
  /\ reservation \in [Order -> [StockItem -> ReservationStatus \cup {"NONE"}]]
  /\ expiry \in [Order -> [StockItem -> Expiry]]
  /\ adjusted \in [StockItem -> Int]
  /\ shipped \in [StockItem -> Nat]
  /\ candidates \in [Sweeper -> SUBSET (Order \X StockItem)]

(* The schema comment on StockItem: reserved always equals the sum of the  *)
(* quantities of the item's ACTIVE reservations, whichever of reserve,     *)
(* release, consume, the sweep and a manual correction interleave.         *)
ReservedMatchesHolds ==
  \A s \in StockItem : reserved[s] = Cardinality(HeldUnits(s))

(* Every change of onHand left exactly one movement behind: the count is   *)
(* the initial one plus the corrections minus the units of the consumed    *)
(* reservations, each consumed once.                                       *)
LedgerMatchesStock ==
  \A s \in StockItem :
    /\ shipped[s] = Cardinality(ConsumedUnits(s))
    /\ onHand[s] = InitialOnHand[s] + adjusted[s] - shipped[s]

(* A hold that ended never holds or takes stock again: the statuses other  *)
(* than ACTIVE are final, so no unit is released or consumed twice.        *)
EndedHoldsStayEnded ==
  [][\A o \in Order, s \in StockItem :
       reservation[o][s] \in ReservationStatus \ {"ACTIVE"}
         => reservation'[o][s] = reservation[o][s]]_inventoryVars

(* Promised units never outgrow the shelf except by a correction of staff: *)
(* no other step makes an item oversold, or more oversold.                 *)
OversoldOnlyByCorrection ==
  [][\A s \in StockItem :
       reserved'[s] > onHand'[s]
         => \/ onHand'[s] - reserved'[s] >= onHand[s] - reserved[s]
            \/ adjusted'[s] < adjusted[s]]_inventoryVars

=============================================================================
