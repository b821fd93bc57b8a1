CONSTANTS
  o1 = o1
  o2 = o2
  case = case
  strap = strap
  save10 = save10
  Order = {o1, o2}
  StockItem = {case}
  Coupon = {save10}
  NoCoupon = NoCoupon
  Sweeper = {"scheduler"}
  Scheduler = "scheduler"
  Need <- PairNeed
  InitialOnHand <- PairOnHand
  UsageLimit <- OneUse
  Total <- TotalOfTwo
  RefundAmounts <- NoRefunds
  CodExpires = FALSE
  AdjustDeltas <- NoCorrections
  MaxAdjusted = 0
  SweepLimit = 1
  MaxReceipts = 1
  MaxFailures = 1
SPECIFICATION FairSpec
INVARIANTS
  CouponUsesAddUp
  NoHoldWithoutAnOpenOrder
PROPERTIES
  ImplementsInventory
  OverdueOrdersAreSettled
  ExpiredHoldsAreFreed
\* An order that is delivered or cancelled may be the last thing that happens.
CHECK_DEADLOCK FALSE
