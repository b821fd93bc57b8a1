CONSTANTS
  ann = ann
  bob = bob
  eve = eve
  Staff = {ann, bob, eve}
  Request = {r1, r2, r3, r4}
  InitialRole <- MCInitialRole
  NoAccount = NoAccount
  Nobody = Nobody
SYMMETRY Interchangeable
SPECIFICATION SessionsSpec
INVARIANTS
  OneLiveTokenPerLogin
PROPERTIES
  OwnerRemains
\* Every request answered and every token expired: nothing need happen.
CHECK_DEADLOCK FALSE
