CONSTANTS
  Request = {r1, r2}
  Shopper = {s1, s2}
  LastTick = 3
  Editor = {e1, e2, e3}
  Media = {"front", "back"}
  Order <- MCOrder
  Kinds = {"coupon", "window", "rate", "price", "stock", "print", "bundle", "schedule", "scope", "offer", "product", "page", "gallery", "import", "scan"}
  Run = {"i1", "i2"}
  Earlier = "i0"
  Folders <- MCFolders
  Scans <- MCScans
  Manifest <- MCManifest
  Slug = {"lion", "wave"}
  Other = "other"
  Combo = {"c1", "c2"}
  OwnSku <- MCOwnSku
  MaxEdits = 1
  MaxTrouble = 1
  Null = Null
  Absent = Absent
  NoRow = NoRow
  NoTask = NoTask
  Nobody = Nobody
SYMMETRY Interchangeable
SPECIFICATION Spec
INVARIANTS
  OffersFollowEdits
  OnePrimaryUnlessAttachRaced
  ImportedFilesMatchAssets
PROPERTIES
  ReportedProductsAreComplete
  PhotosGroupedByChains
  UnlawfulOnlyByCrossedEdits
\* Every request answered: nothing need happen.
CHECK_DEADLOCK FALSE
