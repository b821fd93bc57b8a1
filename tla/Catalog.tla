------------------------------- MODULE Catalog -------------------------------
(***************************************************************************)
(* What stands behind the storefront and who changes it: rows that staff   *)
(* edit (Edits), the images of a product (Gallery), and the designs that a *)
(* script imports (Import), which begins with the photos it scans.  They   *)
(* share no row, so which of them a behaviour is about is chosen at its    *)
(* start.                                                                  *)
(***************************************************************************)
EXTENDS Edits, Gallery, Import

CONSTANTS
  Kinds,  \* kinds of rows to edit, and "gallery", "import", "scan"
  Scans   \* photos of which only the grouping is of interest

ASSUME CatalogAssumption == \A folder \in Scans : IsScan(folder)

Others == {"gallery", "import", "scan"}

vars == <<editVars, galleryVars, importVars>>

NoEdits == kind \in Others /\ row = NoRow /\ EditsIdle
NoGallery == GalleryInit /\ shown = [m \in Media |-> "NONE"]
NoImport ==
  /\ photos = <<>>
  /\ seeded = TRUE
  /\ EarlierImport({}, {})
  /\ RunsIdle

ScanInit ==
  /\ photos \in Scans
  /\ seeded = TRUE
  /\ EarlierImport({}, {})
  /\ RunsIdle

Init ==
  \/ EditsInit(Kinds \ Others) /\ NoGallery /\ NoImport
  \/ /\ NoEdits /\ kind \in Kinds
     /\ \/ kind = "gallery" /\ GalleryInit /\ NoImport
        \/ kind = "import" /\ NoGallery /\ ImportInit
        \/ kind = "scan" /\ NoGallery /\ ScanInit

Next ==
  \/ kind \notin Others /\ EditsNext /\ UNCHANGED <<galleryVars, importVars>>
  \/ kind = "gallery" /\ GalleryNext /\ UNCHANGED <<editVars, importVars>>
  \/ kind = "import" /\ ImportNext /\ UNCHANGED <<editVars, galleryVars>>
  \/ /\ kind = "scan"
     /\ \E r \in Run : Scan(r)
     /\ UNCHANGED <<editVars, galleryVars>>

Spec == Init /\ [][Next]_vars

=============================================================================
