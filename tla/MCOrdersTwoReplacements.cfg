CONSTANTS
  o1 = o1
  o2 = o2
  case = case
  strap = strap
  save10 = save10
  Order = {o1}
  StockItem = {case, strap}
  Coupon = {save10}
  NoCoupon = NoCoupon
  Sweeper = {"scheduler"}
  Scheduler = "scheduler"
  Need <- SingleNeed
  InitialOnHand <- SingleOnHand
  UsageLimit <- OneUse
  Total <- TotalOfTwo
  RefundAmounts = {1, 2}
  CodExpires = TRUE
  AdjustDeltas <- NoCorrections
  MaxAdjusted = 0
  SweepLimit = 1
  MaxReceipts = 3
  MaxFailures = 0
SPECIFICATION Spec
INVARIANT OnePendingReceipt
\* An order that is delivered or cancelled may be the last thing that happens.
CHECK_DEADLOCK FALSE
