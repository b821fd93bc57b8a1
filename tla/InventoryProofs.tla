--------------------------- MODULE InventoryProofs ---------------------------
(***************************************************************************)
(* What ReservationsService and StockItemsService keep, for any number of  *)
(* orders, stock items and sweeps and for any quantities.                  *)
(*                                                                         *)
(* The counters are compared with sets of units, so the arithmetic of the  *)
(* proof is about one order joining or leaving the set of orders that hold *)
(* an item (lemmas UnitsFinite, UnitsAdd, UnitsRemove).                    *)
(***************************************************************************)
EXTENDS Inventory, FiniteSetTheorems, TLAPS

USE InventoryAssumption DEF InventoryAssumption

-----------------------------------------------------------------------------
(* Units                                                                   *)

(* The units a set of orders asks for can be counted.                      *)
LEMMA UnitsFinite ==
  ASSUME NEW S \in SUBSET Order, NEW s \in StockItem
  PROVE  /\ IsFiniteSet(Units(S, s))
         /\ Cardinality(Units(S, s)) \in Nat
<1> DEFINE unitsOf == [o \in S |-> {o} \X (1 .. Need[o][s])]
           T == {unitsOf[o] : o \in S}
<1>1. IsFiniteSet(S)
  BY FS_Subset
<1>2. IsFiniteSet(T)
  <2>1. unitsOf \in Surjection(S, T)
    BY DEF Surjection
  <2> QED
    BY <1>1, <2>1, FS_Surjection
<1>3. ASSUME NEW o \in S
      PROVE  IsFiniteSet(unitsOf[o])
  <2>1. IsFiniteSet({o})
    BY FS_Singleton
  <2>2. Need[o][s] \in Nat
    OBVIOUS
  <2>3. IsFiniteSet(1 .. Need[o][s])
    BY <2>2, FS_Interval
  <2> QED
    BY <2>1, <2>3, FS_Product
<1>4. Units(S, s) = UNION T
  BY DEF Units
<1>5. IsFiniteSet(UNION T)
  BY <1>2, <1>3, FS_UNION
<1> QED
  BY <1>4, <1>5, FS_CardinalityType

(* There are n numbers from 1 to n.                                        *)
LEMMA IntervalCardinality ==
  ASSUME NEW n \in Nat
  PROVE  IsFiniteSet(1 .. n) /\ Cardinality(1 .. n) = n
<1>1. CASE n = 0
  <2>1. 1 .. n = {}
    BY <1>1
  <2> QED
    BY <1>1, <2>1, FS_EmptySet
<1>2. CASE n > 0
  BY <1>2, FS_Interval
<1> QED
  BY <1>1, <1>2

(* An order that joins the set adds the units it needs ...                 *)
LEMMA UnitsAdd ==
  ASSUME NEW S \in SUBSET Order, NEW s \in StockItem, NEW o \in Order \ S
  PROVE  Cardinality(Units(S \cup {o}, s)) = Cardinality(Units(S, s)) + Need[o][s]
<1> DEFINE own == {o} \X (1 .. Need[o][s])
<1>1. Need[o][s] \in Nat
  OBVIOUS
<1>2. IsFiniteSet(own) /\ Cardinality(own) = Need[o][s]
  <2>1. IsFiniteSet({o}) /\ Cardinality({o}) = 1
    BY FS_Singleton
  <2>2. IsFiniteSet(1 .. Need[o][s]) /\ Cardinality(1 .. Need[o][s]) = Need[o][s]
    BY <1>1, IntervalCardinality
  <2>3. /\ IsFiniteSet(own)
        /\ Cardinality(own) = Cardinality({o}) * Cardinality(1 .. Need[o][s])
    BY <2>1, <2>2, FS_Product
  <2>4. Cardinality(own) = Need[o][s]
    <3> HIDE DEF own
    <3> DEFINE q == Need[o][s]
    <3>1. q \in Nat /\ 1 * q = q
      BY <1>1
    <3>2. Cardinality(own) = 1 * q
      BY <2>1, <2>2, <2>3, Zenon
    <3> QED
      BY <3>1, <3>2, Zenon
  <2> QED
    BY <2>3, <2>4
<1>3. Units(S \cup {o}, s) = Units(S, s) \cup own
  BY DEF Units
<1>4. Units(S, s) \cap own = {}
  BY DEF Units
<1>5. IsFiniteSet(Units(S, s)) /\ Cardinality(Units(S, s)) \in Nat
  BY UnitsFinite
<1>6. Cardinality(Units(S, s) \cap own) = 0
  BY <1>4, FS_EmptySet
<1> HIDE DEF own
<1>7. Cardinality(Units(S, s) \cup own)
        = Cardinality(Units(S, s)) + Cardinality(own) - Cardinality(Units(S, s) \cap own)
  BY <1>2, <1>5, FS_Union
<1> DEFINE n == Cardinality(Units(S, s))
           q == Need[o][s]
<1>8. n \in Nat /\ q \in Nat
  BY <1>1, <1>5
<1>9. Cardinality(Units(S, s) \cup own) = n + q - 0
  BY <1>2, <1>6, <1>7, Zenon
<1>10. n + q - 0 = n + q
  BY <1>8
<1> QED
  BY <1>3, <1>9, <1>10, Zenon

(* ... and one that leaves it takes them away, so the set had them.        *)
LEMMA UnitsRemove ==
  ASSUME NEW S \in SUBSET Order, NEW s \in StockItem, NEW o \in S
  PROVE  /\ Cardinality(Units(S \ {o}, s)) = Cardinality(Units(S, s)) - Need[o][s]
         /\ Need[o][s] <= Cardinality(Units(S, s))
<1>1. Need[o][s] \in Nat
  OBVIOUS
<1>2. (S \ {o}) \cup {o} = S
  OBVIOUS
<1>3. Cardinality(Units(S \ {o}, s)) \in Nat /\ Cardinality(Units(S, s)) \in Nat
  BY UnitsFinite
<1>4. Cardinality(Units(S, s)) = Cardinality(Units(S \ {o}, s)) + Need[o][s]
  BY <1>2, UnitsAdd
<1> QED
  BY <1>1, <1>3, <1>4

-----------------------------------------------------------------------------
(* Types                                                                   *)

LEMMA InventoryInitType == InventoryInit => InventoryTypeOK
BY DEF InventoryInit, InventoryTypeOK, Expiry

LEMMA InventoryStepType ==
  ASSUME InventoryTypeOK, [InventoryNext]_inventoryVars
  PROVE  InventoryTypeOK'
<1> USE DEF InventoryTypeOK, ReservationStatus, Expiry
<1>1. ASSUME NEW o \in Order, NEW S \in SUBSET ItemsOf(o), Reserve(o, S)
      PROVE  InventoryTypeOK'
  <2>1. PICK ttl \in {"NULL", "FUTURE"} : ReserveItems(o, S, ttl)
    BY <1>1 DEF Reserve
  <2> QED
    BY <2>1 DEF ReserveItems
<1>2. ASSUME NEW o \in Order, NEW S \in SUBSET ItemsOf(o), Release(o, S)
      PROVE  InventoryTypeOK'
  <2>1. PICK status \in {"RELEASED", "EXPIRED"} : ReleaseItems(o, S, status)
    BY <1>2 DEF Release
  <2> QED
    BY <1>2, <2>1 DEF Release, ReleaseItems, Decrement
<1>3. ASSUME NEW o \in Order, NEW S \in SUBSET ItemsOf(o), ConsumeItems(o, S)
      PROVE  InventoryTypeOK'
  BY <1>3 DEF ConsumeItems
<1>4. ASSUME NEW o \in Order, PinActiveForOrder(o)
      PROVE  InventoryTypeOK'
  BY <1>4 DEF PinActiveForOrder
<1>5. ASSUME NEW o \in Order, HoldsLapse(o)
      PROVE  InventoryTypeOK'
  BY <1>5 DEF HoldsLapse
<1>6. ASSUME NEW s \in StockItem, NEW delta \in AdjustDeltas, Adjust(s, delta)
      PROVE  InventoryTypeOK'
  <2>1. delta \in Int
    OBVIOUS
  <2> QED
    BY <1>6, <2>1 DEF Adjust
<1>7. ASSUME NEW w \in Sweeper, SelectExpired(w)
      PROVE  InventoryTypeOK'
  BY <1>7 DEF SelectExpired, Expired
<1>8. ASSUME NEW w \in Sweeper, NEW s \in StockItem, SelectExpiredFor(w, s)
      PROVE  InventoryTypeOK'
  BY <1>8 DEF SelectExpiredFor, Expired
<1>9. ASSUME NEW w \in Sweeper, NEW r \in candidates[w], ReleaseIfStillExpired(w, r)
      PROVE  InventoryTypeOK'
  <2>1. r[1] \in Order
    OBVIOUS
  <2> QED
    BY <1>9, <2>1 DEF ReleaseIfStillExpired, ReleaseItems, Decrement
<1>10. ASSUME NEW w \in Sweeper, AbandonSweep(w)
       PROVE  InventoryTypeOK'
  BY <1>10 DEF AbandonSweep
<1>11. CASE UNCHANGED inventoryVars
  BY <1>11 DEF inventoryVars
<1> QED
  BY <1>1, <1>2, <1>3, <1>4, <1>5, <1>6, <1>7, <1>8, <1>9, <1>10, <1>11
     DEF InventoryNext, Sweep

(* The counters, rows and sweeps always have their types; in particular    *)
(* neither counter of an item is ever negative.                            *)
THEOREM InventoryTypeCorrect == InventorySpec => []InventoryTypeOK
<1>1. InventoryInit => InventoryTypeOK
  BY InventoryInitType
<1>2. InventoryTypeOK /\ [InventoryNext]_inventoryVars => InventoryTypeOK'
  BY InventoryStepType
<1> QED
  BY <1>1, <1>2, PTL DEF InventorySpec

-----------------------------------------------------------------------------
(* The counters                                                            *)

InventoryInv == InventoryTypeOK /\ ReservedMatchesHolds /\ LedgerMatchesStock

(* A step that leaves the statuses of an item alone leaves its units alone.*)
LEMMA SameStatusSameUnits ==
  ASSUME NEW s \in StockItem,
         \A o \in Order : reservation'[o][s] = reservation[o][s]
  PROVE  HeldUnits(s)' = HeldUnits(s) /\ ConsumedUnits(s)' = ConsumedUnits(s)
BY DEF HeldUnits, ConsumedUnits, OrdersWith

(* The counters as numbers, for the arithmetic below.                      *)
LEMMA HeldUnitsCount ==
  ASSUME NEW s \in StockItem
  PROVE  Cardinality(HeldUnits(s)) \in Nat /\ Cardinality(ConsumedUnits(s)) \in Nat
BY UnitsFinite DEF HeldUnits, ConsumedUnits, OrdersWith

(* A hold is at most what is reserved: Decrement never skips, and a        *)
(* release gives back exactly what the hold took.                          *)
LEMMA HoldIsReserved ==
  ASSUME InventoryInv, NEW o \in Order, NEW s \in ActiveItems(o)
  PROVE  Need[o][s] <= reserved[s]
<1>1. o \in OrdersWith("ACTIVE", s) /\ s \in StockItem
  BY DEF ActiveItems, OrdersWith
<1>2. Need[o][s] <= Cardinality(Units(OrdersWith("ACTIVE", s), s))
  BY <1>1, UnitsRemove DEF OrdersWith
<1> QED
  BY <1>1, <1>2 DEF InventoryInv, ReservedMatchesHolds, HeldUnits

(* The status of one reservation (o, s) moves from a to b and no other     *)
(* reservation of s moves.                                                 *)
Moves(o, s, a, b) ==
  /\ reservation[o][s] = a
  /\ reservation'[o][s] = b
  /\ \A p \in Order \ {o} : reservation'[p][s] = reservation[p][s]

(* A new hold adds its units to the held ones.                             *)
LEMMA HoldAdded ==
  ASSUME NEW o \in Order, NEW s \in StockItem, Moves(o, s, "NONE", "ACTIVE")
  PROVE  /\ Cardinality(HeldUnits(s)') = Cardinality(HeldUnits(s)) + Need[o][s]
         /\ ConsumedUnits(s)' = ConsumedUnits(s)
<1>1. OrdersWith("ACTIVE", s)' = OrdersWith("ACTIVE", s) \cup {o}
  BY DEF Moves, OrdersWith
<1>2. OrdersWith("CONSUMED", s)' = OrdersWith("CONSUMED", s)
  BY DEF Moves, OrdersWith
<1>3. o \in Order \ OrdersWith("ACTIVE", s)
  BY DEF Moves, OrdersWith
<1>4. OrdersWith("ACTIVE", s) \in SUBSET Order
  BY DEF OrdersWith
<1> QED
  BY <1>1, <1>2, <1>3, <1>4, UnitsAdd DEF HeldUnits, ConsumedUnits

(* A hold that ends takes its units away, and they become consumed ones    *)
(* exactly when it ends by consumption.                                    *)
LEMMA HoldEnded ==
  ASSUME NEW o \in Order, NEW s \in StockItem,
         NEW status \in {"CONSUMED", "RELEASED", "EXPIRED"},
         Moves(o, s, "ACTIVE", status)
  PROVE  /\ Cardinality(HeldUnits(s)') = Cardinality(HeldUnits(s)) - Need[o][s]
         /\ status = "CONSUMED" =>
              Cardinality(ConsumedUnits(s)') = Cardinality(ConsumedUnits(s)) + Need[o][s]
         /\ status # "CONSUMED" => ConsumedUnits(s)' = ConsumedUnits(s)
<1>1. OrdersWith("ACTIVE", s)' = OrdersWith("ACTIVE", s) \ {o}
  BY DEF Moves, OrdersWith
<1>2. o \in OrdersWith("ACTIVE", s) /\ OrdersWith("ACTIVE", s) \in SUBSET Order
  BY DEF Moves, OrdersWith
<1>3. Cardinality(HeldUnits(s)') = Cardinality(HeldUnits(s)) - Need[o][s]
  BY <1>1, <1>2, UnitsRemove DEF HeldUnits
<1>4. CASE status = "CONSUMED"
  <2>1. OrdersWith("CONSUMED", s)' = OrdersWith("CONSUMED", s) \cup {o}
    BY <1>4 DEF Moves, OrdersWith
  <2>2. /\ o \in Order \ OrdersWith("CONSUMED", s)
        /\ OrdersWith("CONSUMED", s) \in SUBSET Order
    BY DEF Moves, OrdersWith
  <2> QED
    BY <1>3, <1>4, <2>1, <2>2, UnitsAdd DEF ConsumedUnits
<1>5. CASE status # "CONSUMED"
  <2>1. OrdersWith("CONSUMED", s)' = OrdersWith("CONSUMED", s)
    BY <1>5 DEF Moves, OrdersWith
  <2> QED
    BY <1>3, <1>5, <2>1 DEF ConsumedUnits
<1> QED
  BY <1>4, <1>5

(* What has to be shown of each item.                                      *)
Balanced(s) ==
  /\ reserved[s] = Cardinality(HeldUnits(s))
  /\ shipped[s] = Cardinality(ConsumedUnits(s))
  /\ onHand[s] = InitialOnHand[s] + adjusted[s] - shipped[s]

LEMMA InventoryInitInv == InventoryInit => InventoryInv
<1> SUFFICES ASSUME InventoryInit PROVE InventoryInv
  OBVIOUS
<1>1. InventoryTypeOK
  BY InventoryInitType
<1>2. ASSUME NEW s \in StockItem
      PROVE  Balanced(s)
  <2>1. HeldUnits(s) = {} /\ ConsumedUnits(s) = {}
    BY DEF InventoryInit, HeldUnits, ConsumedUnits, OrdersWith, Units
  <2>2. Cardinality(HeldUnits(s)) = 0 /\ Cardinality(ConsumedUnits(s)) = 0
    BY <2>1, FS_EmptySet
  <2> QED
    BY <2>2 DEF InventoryInit, Balanced
<1> QED
  BY <1>1, <1>2 DEF InventoryInv, ReservedMatchesHolds, LedgerMatchesStock, Balanced

LEMMA BalancedMeans ==
  /\ InventoryInv => \A s \in StockItem : Balanced(s)
  /\ InventoryTypeOK' /\ (\A s \in StockItem : Balanced(s)') => InventoryInv'
BY DEF InventoryInv, ReservedMatchesHolds, LedgerMatchesStock, Balanced

LEMMA ReserveKeepsBalance ==
  ASSUME InventoryInv, NEW o \in Order, NEW S \in SUBSET ItemsOf(o),
         Reserve(o, S), NEW s \in StockItem
  PROVE  Balanced(s)'
<1>1. PICK ttl \in {"NULL", "FUTURE"} : ReserveItems(o, S, ttl)
  BY DEF Reserve
<1>2. Need[o][s] \in Nat /\ Balanced(s)
  BY BalancedMeans
<1>3. CASE s \in S
  <2>1. Moves(o, s, "NONE", "ACTIVE")
    BY <1>1, <1>3 DEF Reserve, ReserveItems, Moves, InventoryInv, InventoryTypeOK
  <2>2. /\ Cardinality(HeldUnits(s)') = Cardinality(HeldUnits(s)) + Need[o][s]
        /\ ConsumedUnits(s)' = ConsumedUnits(s)
    BY <2>1, HoldAdded
  <2> QED
    BY <1>1, <1>2, <1>3, <2>2 DEF ReserveItems, Balanced, InventoryInv, InventoryTypeOK
<1>4. CASE s \notin S
  <2>1. \A p \in Order : reservation'[p][s] = reservation[p][s]
    BY <1>1, <1>4 DEF ReserveItems, InventoryInv, InventoryTypeOK
  <2> QED
    BY <1>1, <1>2, <1>4, <2>1, SameStatusSameUnits DEF ReserveItems, Balanced
<1> QED
  BY <1>3, <1>4

(* Shared by a release on demand and by the expiry sweep.                  *)
LEMMA ReleaseKeepsBalance ==
  ASSUME InventoryInv, NEW o \in Order, NEW S \in SUBSET StockItem,
         NEW status \in {"RELEASED", "EXPIRED"},
         ReleaseItems(o, S, status), NEW s \in StockItem
  PROVE  Balanced(s)'
<1>1. Need[o][s] \in Nat /\ Balanced(s) /\ reserved[s] \in Int
  BY BalancedMeans DEF InventoryInv, InventoryTypeOK
<1>2. CASE s \in S \cap ActiveItems(o)
  <2>1. Moves(o, s, "ACTIVE", status)
    BY <1>2 DEF ReleaseItems, ActiveItems, Moves, InventoryInv, InventoryTypeOK
  <2>2. /\ Cardinality(HeldUnits(s)') = Cardinality(HeldUnits(s)) - Need[o][s]
        /\ ConsumedUnits(s)' = ConsumedUnits(s)
    BY <2>1, HoldEnded
  <2>3. reserved'[s] = reserved[s] - Need[o][s]
    BY <1>1, <1>2, HoldIsReserved DEF ReleaseItems, Decrement
  <2> QED
    BY <1>1, <2>2, <2>3 DEF ReleaseItems, Balanced
<1>3. CASE s \notin S \cap ActiveItems(o)
  <2>1. \A p \in Order : reservation'[p][s] = reservation[p][s]
    BY <1>3 DEF ReleaseItems, InventoryInv, InventoryTypeOK
  <2> QED
    BY <1>1, <1>3, <2>1, SameStatusSameUnits DEF ReleaseItems, Balanced
<1> QED
  BY <1>2, <1>3

LEMMA ConsumeKeepsBalance ==
  ASSUME InventoryInv, NEW o \in Order, NEW S \in SUBSET ItemsOf(o),
         ConsumeItems(o, S), NEW s \in StockItem
  PROVE  Balanced(s)'
<1>1. /\ Need[o][s] \in Nat /\ InitialOnHand[s] \in Nat
      /\ Balanced(s)
      /\ reserved[s] \in Int /\ onHand[s] \in Int /\ shipped[s] \in Int /\ adjusted[s] \in Int
  BY BalancedMeans DEF InventoryInv, InventoryTypeOK
<1>2. CASE s \in S
  <2>1. Moves(o, s, "ACTIVE", "CONSUMED")
    BY <1>2 DEF ConsumeItems, ActiveItems, Moves, InventoryInv, InventoryTypeOK
  <2>2. /\ Cardinality(HeldUnits(s)') = Cardinality(HeldUnits(s)) - Need[o][s]
        /\ Cardinality(ConsumedUnits(s)') = Cardinality(ConsumedUnits(s)) + Need[o][s]
    BY <2>1, HoldEnded
  <2>3. /\ onHand[s] >= Need[o][s]
        /\ onHand'[s] = onHand[s] - Need[o][s]
        /\ reserved'[s] = reserved[s] - Need[o][s]
        /\ shipped'[s] = shipped[s] + Need[o][s]
        /\ adjusted'[s] = adjusted[s]
    BY <1>2 DEF ConsumeItems
  <2> QED
    BY <1>1, <2>2, <2>3 DEF Balanced
<1>3. CASE s \notin S
  <2>1. \A p \in Order : reservation'[p][s] = reservation[p][s]
    BY <1>3 DEF ConsumeItems, InventoryInv, InventoryTypeOK
  <2> QED
    BY <1>1, <1>3, <2>1, SameStatusSameUnits DEF ConsumeItems, Balanced
<1> QED
  BY <1>2, <1>3

LEMMA AdjustKeepsBalance ==
  ASSUME InventoryInv, NEW t \in StockItem, NEW delta \in AdjustDeltas,
         Adjust(t, delta), NEW s \in StockItem
  PROVE  Balanced(s)'
<1>1. /\ delta \in Int /\ InitialOnHand[s] \in Nat
      /\ Balanced(s)
      /\ onHand \in [StockItem -> Int] /\ adjusted \in [StockItem -> Int]
      /\ shipped[s] \in Int
  BY BalancedMeans DEF InventoryInv, InventoryTypeOK
<1>2. HeldUnits(s)' = HeldUnits(s) /\ ConsumedUnits(s)' = ConsumedUnits(s)
  BY SameStatusSameUnits DEF Adjust
<1> QED
  BY <1>1, <1>2 DEF Adjust, Balanced

(* The steps that move neither a counter nor a status.                     *)
LEMMA QuietStepKeepsBalance ==
  ASSUME InventoryInv, UNCHANGED <<onHand, reserved, reservation, adjusted, shipped>>,
         NEW s \in StockItem
  PROVE  Balanced(s)'
<1>1. HeldUnits(s)' = HeldUnits(s) /\ ConsumedUnits(s)' = ConsumedUnits(s)
  BY SameStatusSameUnits
<1> QED
  BY <1>1, BalancedMeans DEF Balanced

LEMMA InventoryStepInv ==
  ASSUME InventoryInv, [InventoryNext]_inventoryVars
  PROVE  InventoryInv'
<1>1. InventoryTypeOK'
  BY InventoryStepType DEF InventoryInv
<1> SUFFICES ASSUME NEW s \in StockItem
             PROVE  Balanced(s)'
  BY <1>1, BalancedMeans
<1>2. ASSUME NEW o \in Order, NEW S \in SUBSET ItemsOf(o),
             Reserve(o, S) \/ Release(o, S) \/ ConsumeItems(o, S)
      PROVE  Balanced(s)'
  <2>1. CASE Release(o, S)
    <3>1. S \in SUBSET StockItem
      BY DEF ItemsOf
    <3>2. PICK status \in {"RELEASED", "EXPIRED"} : ReleaseItems(o, S, status)
      BY <2>1 DEF Release
    <3> QED
      BY <3>1, <3>2, ReleaseKeepsBalance
  <2> QED
    BY <1>2, <2>1, ReserveKeepsBalance, ConsumeKeepsBalance
<1>3. ASSUME NEW o \in Order, PinActiveForOrder(o) \/ HoldsLapse(o)
      PROVE  Balanced(s)'
  BY <1>3, QuietStepKeepsBalance DEF PinActiveForOrder, HoldsLapse
<1>4. ASSUME NEW t \in StockItem, NEW delta \in AdjustDeltas, Adjust(t, delta)
      PROVE  Balanced(s)'
  BY <1>4, AdjustKeepsBalance
<1>5. ASSUME NEW w \in Sweeper, Sweep(w) \/ AbandonSweep(w)
      PROVE  Balanced(s)'
  <2>1. ASSUME NEW r \in candidates[w], ReleaseIfStillExpired(w, r)
        PROVE  Balanced(s)'
    <3> DEFINE S == IF r \in Expired THEN {r[2]} ELSE {}
    <3>1. r[1] \in Order /\ S \in SUBSET StockItem
      BY DEF InventoryInv, InventoryTypeOK
    <3>2. ReleaseItems(r[1], S, "EXPIRED")
      BY <2>1 DEF ReleaseIfStillExpired
    <3> HIDE DEF S
    <3> QED
      BY <3>1, <3>2, ReleaseKeepsBalance
  <2> QED
    BY <1>5, <2>1, QuietStepKeepsBalance
       DEF Sweep, SelectExpired, SelectExpiredFor, AbandonSweep
<1>6. CASE UNCHANGED inventoryVars
  BY <1>6, QuietStepKeepsBalance DEF inventoryVars
<1> QED
  BY <1>2, <1>3, <1>4, <1>5, <1>6 DEF InventoryNext

(* stock_items.reserved is the sum of the item's ACTIVE reservations, for  *)
(* every interleaving of reserve, release, consume, pin, sweep and adjust. *)
THEOREM ReservedAlwaysMatchesHolds == InventorySpec => []ReservedMatchesHolds
<1>1. InventoryInit => InventoryInv
  BY InventoryInitInv
<1>2. InventoryInv /\ [InventoryNext]_inventoryVars => InventoryInv'
  BY InventoryStepInv
<1>3. InventoryInv => ReservedMatchesHolds
  BY DEF InventoryInv
<1> QED
  BY <1>1, <1>2, <1>3, PTL DEF InventorySpec

(* onHand is the initial count plus the corrections minus the consumed     *)
(* units, each counted once.                                               *)
THEOREM LedgerAlwaysMatchesStock == InventorySpec => []LedgerMatchesStock
<1>1. InventoryInit => InventoryInv
  BY InventoryInitInv
<1>2. InventoryInv /\ [InventoryNext]_inventoryVars => InventoryInv'
  BY InventoryStepInv
<1>3. InventoryInv => LedgerMatchesStock
  BY DEF InventoryInv
<1> QED
  BY <1>1, <1>2, <1>3, PTL DEF InventorySpec

-----------------------------------------------------------------------------
(* What a step may never do                                                *)

(* No reservation that was released, expired or consumed is ever given     *)
(* another status: nothing is given back, or taken, a second time.         *)
THEOREM EndedHoldsAlwaysStayEnded == InventorySpec => EndedHoldsStayEnded
<1> DEFINE Step == \A o \in Order, s \in StockItem :
                     reservation[o][s] \in ReservationStatus \ {"ACTIVE"}
                       => reservation'[o][s] = reservation[o][s]
<1>1. ASSUME InventoryTypeOK, [InventoryNext]_inventoryVars
      PROVE  Step
  <2> SUFFICES ASSUME NEW o \in Order, NEW s \in StockItem,
                      reservation[o][s] \in ReservationStatus \ {"ACTIVE"}
               PROVE  reservation'[o][s] = reservation[o][s]
    OBVIOUS
  <2> USE <1>1 DEF InventoryTypeOK
  <2>1. reservation[o][s] # "NONE" /\ s \notin ActiveItems(o)
    BY DEF ReservationStatus, ActiveItems
  <2>2. ASSUME NEW p \in Order, NEW S \in SUBSET StockItem,
               NEW status \in ReservationStatus, ReleaseItems(p, S, status)
        PROVE  reservation'[o][s] = reservation[o][s]
    BY <2>1, <2>2 DEF ReleaseItems
  <2>3. ASSUME NEW p \in Order, NEW S \in SUBSET ItemsOf(p),
               Reserve(p, S) \/ Release(p, S) \/ ConsumeItems(p, S)
        PROVE  reservation'[o][s] = reservation[o][s]
    <3>1. S \in SUBSET StockItem
      BY DEF ItemsOf
    <3>2. CASE Reserve(p, S)
      BY <2>1, <3>2 DEF Reserve, ReserveItems
    <3>3. CASE Release(p, S)
      BY <2>2, <3>1, <3>3 DEF Release, ReservationStatus
    <3>4. CASE ConsumeItems(p, S)
      BY <2>1, <3>4 DEF ConsumeItems
    <3> QED
      BY <2>3, <3>2, <3>3, <3>4
  <2>4. ASSUME NEW w \in Sweeper, NEW r \in candidates[w], ReleaseIfStillExpired(w, r)
        PROVE  reservation'[o][s] = reservation[o][s]
    <3> DEFINE S == IF r \in Expired THEN {r[2]} ELSE {}
    <3>1. r[1] \in Order /\ S \in SUBSET StockItem
      OBVIOUS
    <3>2. ReleaseItems(r[1], S, "EXPIRED")
      BY <2>4 DEF ReleaseIfStillExpired
    <3> HIDE DEF S
    <3> QED
      BY <2>2, <3>1, <3>2 DEF ReservationStatus
  <2> QED
    BY <2>3, <2>4
       DEF InventoryNext, Sweep, PinActiveForOrder, HoldsLapse, Adjust, SelectExpired,
           SelectExpiredFor, AbandonSweep, inventoryVars
<1>2. InventoryTypeOK /\ [InventoryNext]_inventoryVars => [Step]_inventoryVars
  BY <1>1
<1> QED
  BY <1>2, InventoryTypeCorrect, PTL DEF InventorySpec, EndedHoldsStayEnded

(* Only a manual correction makes an item promise more than is on hand, or *)
(* promise even more of what is missing.                                   *)
THEOREM OversoldAlwaysByCorrection == InventorySpec => OversoldOnlyByCorrection
<1> DEFINE Step == \A s \in StockItem :
                     reserved'[s] > onHand'[s]
                       => \/ onHand'[s] - reserved'[s] >= onHand[s] - reserved[s]
                          \/ adjusted'[s] < adjusted[s]
<1>1. ASSUME InventoryTypeOK, [InventoryNext]_inventoryVars
      PROVE  Step
  <2> SUFFICES ASSUME NEW s \in StockItem, reserved'[s] > onHand'[s]
               PROVE  \/ onHand'[s] - reserved'[s] >= onHand[s] - reserved[s]
                      \/ adjusted'[s] < adjusted[s]
    OBVIOUS
  <2> USE <1>1 DEF InventoryTypeOK
  <2>1. ASSUME NEW p \in Order, NEW S \in SUBSET StockItem,
               NEW status \in ReservationStatus, ReleaseItems(p, S, status)
        PROVE  onHand'[s] - reserved'[s] >= onHand[s] - reserved[s]
    BY <2>1 DEF ReleaseItems, Decrement
  <2>2. ASSUME NEW p \in Order, NEW S \in SUBSET ItemsOf(p),
               Reserve(p, S) \/ Release(p, S) \/ ConsumeItems(p, S)
        PROVE  onHand'[s] - reserved'[s] >= onHand[s] - reserved[s]
    <3>1. S \in SUBSET StockItem
      BY DEF ItemsOf
    <3>2. CASE Reserve(p, S)
      BY <3>1, <3>2 DEF Reserve, ReserveItems
    <3>3. CASE Release(p, S)
      BY <2>1, <3>1, <3>3 DEF Release, ReservationStatus
    <3>4. CASE ConsumeItems(p, S)
      BY <3>1, <3>4 DEF ConsumeItems
    <3> QED
      BY <2>2, <3>2, <3>3, <3>4
  <2>3. ASSUME NEW t \in StockItem, NEW delta \in AdjustDeltas, Adjust(t, delta)
        PROVE  \/ onHand'[s] - reserved'[s] >= onHand[s] - reserved[s]
               \/ adjusted'[s] < adjusted[s]
    <3>1. delta \in Int
      OBVIOUS
    <3> QED
      BY <2>3, <3>1 DEF Adjust
  <2>4. ASSUME NEW w \in Sweeper, NEW r \in candidates[w], ReleaseIfStillExpired(w, r)
        PROVE  onHand'[s] - reserved'[s] >= onHand[s] - reserved[s]
    <3> DEFINE S == IF r \in Expired THEN {r[2]} ELSE {}
    <3>1. r[1] \in Order /\ S \in SUBSET StockItem
      OBVIOUS
    <3>2. ReleaseItems(r[1], S, "EXPIRED")
      BY <2>4 DEF ReleaseIfStillExpired
    <3> HIDE DEF S
    <3> QED
      BY <2>1, <3>1, <3>2 DEF ReservationStatus
  <2>5. ASSUME UNCHANGED <<onHand, reserved>>
        PROVE  onHand'[s] - reserved'[s] >= onHand[s] - reserved[s]
    BY <2>5
  <2> QED
    BY <2>2, <2>3, <2>4, <2>5
       DEF InventoryNext, Sweep, PinActiveForOrder, HoldsLapse, SelectExpired,
           SelectExpiredFor, AbandonSweep, inventoryVars
<1>2. InventoryTypeOK /\ [InventoryNext]_inventoryVars => [Step]_inventoryVars
  BY <1>1
<1> QED
  BY <1>2, InventoryTypeCorrect, PTL DEF InventorySpec, OversoldOnlyByCorrection

=============================================================================
