CONSTANTS
  first = first
  retry = retry
  other = other
  stranger = stranger
  case = case
  Order = {first, retry, other, stranger}
  StockItem = {case}
  Cart = {"cartA", "cartB"}
  Receipt = {"screenshot"}
  NoReceipt = NoReceipt
  NoOrder = NoOrder
  CartOf <- MCCartOf
  KeyOf <- MCKeyOf
  BodyOf <- MCBodyOf
  ReceiptOf <- MCReceiptOf
  Need <- MCNeed
  InitialOnHand <- MCOnHand
  Sweeper = {"scheduler"}
  SweepLimit = 2
  AdjustDeltas <- NoCorrections
  MaxAdjusted = 0
SPECIFICATION FairSpec
INVARIANTS
  OneOrderPerCart
  NothingHalfDone
  LapsedProofIsNotUsed
PROPERTIES
  EveryRequestEnds
  KeepsThePromise
\* Once every request is answered nothing need happen any more.
CHECK_DEADLOCK FALSE
