CONSTANTS
  o1 = o1
  o2 = o2
  case = case
  strap = strap
  Order = {o1, o2}
  StockItem = {case, strap}
  Sweeper = {"scheduler", "manual"}
  Need <- MCNeed
  InitialOnHand <- MCInitialOnHand
  AdjustDeltas <- MCDeltas
  SweepLimit = 2
  MaxAdjusted = 1
SPECIFICATION InventorySpec
INVARIANTS
  ReservedMatchesHolds
  LedgerMatchesStock
PROPERTIES
  OversoldOnlyByCorrection
