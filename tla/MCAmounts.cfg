CONSTANTS
  Order = {"o1", "o2"}
  Key = {"k1", "k2"}
  Attempt = {"first", "retry", "partial", "other"}
  Return = {"one", "two", "more"}
  OrderOf <- MCOrderOf
  KeyOf <- MCKeyOf
  AmountOf <- MCAmountOf
  QuantityOf <- MCQuantityOf
  Total <- MCTotal
  Purchased = 2
  NoRefund = NoRefund
  Nobody = Nobody
  MaxLines = 3
  MaxUnits = 4
  Catalog <- MCCatalog
  Carts <- MCCarts
  Offers <- MCOffers
  Coupons <- MCCoupons
SPECIFICATION AmountsSpec
INVARIANTS
  RefundsAddUp
  ReturnsWithinPurchase
  UnitsGroupedOnce
  GroupsKeepTheirTerms
  OrderAddsUp
  MostGroups
  SavingsAsShown
PROPERTIES
  RetryGetsTheRefund
\* Every request answered, the cart priced: nothing need happen any more.
CHECK_DEADLOCK FALSE
