CONSTANTS
  o1 = o1
  o2 = o2
  case = case
  strap = strap
  save10 = save10
  Order = {o1}
  StockItem = {case, strap}
  Coupon <- NoCoupons
  NoCoupon = NoCoupon
  Sweeper = {"scheduler", "manual"}
  Scheduler = "scheduler"
  Need <- SingleNeed
  InitialOnHand <- SingleOnHand
  UsageLimit <- OneUse
  Total <- TotalOfTwo
  RefundAmounts = {1, 2}
  CodExpires = TRUE
  AdjustDeltas <- Corrections
  MaxAdjusted = 1
  SweepLimit = 1
  MaxReceipts = 3
  MaxFailures = 0
SPECIFICATION Spec
INVARIANTS
  PaidExactlyWhenConsumed
  ConfirmedOrdersKeepTheirStock
  PaidExactlyWithAcceptedReceipt
PROPERTIES
  NoPaymentAfterCancellation
  SweepSparesSettledOrders
\* An order that is delivered or cancelled may be the last thing that happens.
CHECK_DEADLOCK FALSE
