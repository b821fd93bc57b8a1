CONSTANTS
  Upload = {"d1", "d2", "gif", "photo"}
  KindOf <- MCKindOf
  MaxPerCart = 1
  FrameAssets = {"unreadable", "undecodable"}
  MaxFailures = 2
SPECIFICATION Spec
INVARIANTS
  RowsHaveTheirFiles
  NoStrayFiles
  CapHoldsUpToOverlap
\* Every request answered: nothing need happen.
CHECK_DEADLOCK FALSE
