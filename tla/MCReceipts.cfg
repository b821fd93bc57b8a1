CONSTANTS
  Upload = {u1, u2, u3}
  Cart = {"cart"}
  CartOf <- MCCartOf
  MaxPending = 2
  SweepLimit = 1
  MaxFailures = 2
SPECIFICATION FairSpec
INVARIANTS
  FilesMatchRows
PROPERTIES
  LapsedUploadsAreRemoved
\* Every upload answered and every order closed: nothing need happen.
CHECK_DEADLOCK FALSE
