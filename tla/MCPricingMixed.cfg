CONSTANTS
  MaxLines = 3
  MaxUnits = 4
  Catalog <- MixedCatalog
  Carts <- MixedCarts
  Offers <- MixedOffers
  Coupons <- MCCoupons
SPECIFICATION PricingSpec
INVARIANTS
  SavingsAreGuaranteed
\* Once the cart is priced nothing need happen any more.
CHECK_DEADLOCK FALSE
