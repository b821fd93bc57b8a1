CONSTANTS
  black = black
  clear = clear
  photo = photo
  slim = slim
  picture = picture
  Request = {r1, r2, r3, r4}
  Variant = {black, clear, photo}
  Personalizable = {photo}
  Design = {picture}
  VariantOf <- MCVariantOf
  NoDesign = NoDesign
  MaxQuantity = 3
  Amounts = {1, 2}
  Operations = {"add", "update", "replace", "attach", "detach"}
SYMMETRY Interchangeable
SPECIFICATION CartSpec
INVARIANTS
  NeverMoreThanAsked
\* Every request answered and the cart ordered: nothing need happen.
CHECK_DEADLOCK FALSE
