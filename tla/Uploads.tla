------------------------------- MODULE Uploads -------------------------------
(***************************************************************************)
(* Images that come with files: MediaService.upload and delete over        *)
(* LocalMediaStorageService, and CustomDesignsService.uploadForCart with   *)
(* its cap per cart and the mockup frame that MockupService keeps.  Files  *)
(* are written one after the other before the row that names them, and     *)
(* removed by compensation: a write may be refused half way, the insertion *)
(* may fail or not be acknowledged, a removal may be refused (and is then  *)
(* only logged), and the process may die.                                  *)
(*                                                                         *)
(* A row and its files are named by the upload that brings them.  The      *)
(* pixels are left out: an image that cannot be decoded writes nothing.    *)
(***************************************************************************)
EXTENDS Naturals, Sequences, FiniteSets

CONSTANTS
  Upload,      \* requests that carry an image
  KindOf,      \* KindOf[u]: what becomes of the image of u
  MaxPerCart,  \* CUSTOM_DESIGN_MAX_PER_CART; all designs are of one cart
  FrameAssets, \* what CUSTOM_DESIGN_MOCKUP_IMAGE_PATH may name
  MaxFailures  \* bound: failures of the disk, the database, the process

Kind == {"passthrough", "derived", "design"}

ASSUME UploadsAssumption ==
  /\ IsFiniteSet(Upload)
  /\ KindOf \in [Upload -> Kind]
  /\ MaxPerCart \in Nat \ {0}
  /\ FrameAssets \subseteq {"good", "unreadable", "undecodable"}
  /\ MaxFailures \in Nat

VARIABLES
  row,       \* row[u]: "NONE", "STORED" or "DELETED"
  attached,  \* assets that a product or a variant shows
  disk,      \* files on the disk, as <<upload, file>>
  partial,   \* those of them whose writing was refused half way
  pc,        \* pc[u]: the next step of the handler of u
  written,   \* written[u]: how many files of u were saved
  toRemove,  \* toRemove[u]: files a compensation or a deletion removes
  removal,   \* removal[u]: the next step of the deletion of asset u
  frame,     \* cachedFrame: "null", "loading" or "ready"
  frameAsset, \* the image configured, which is not replaced
  failures,  \* failures met so far
  excused,   \* history: uploads with a failure nothing makes up for
  peak       \* history: most designs ever in flight at the same time

rowVars == <<row, attached>>
diskVars == <<disk, partial>>
vars == <<rowVars, diskVars, pc, written, toRemove, removal, frame, frameAsset,
          failures, excused, peak>>

Designs == {u \in Upload : KindOf[u] = "design"}

(* What is saved, in its order.  "main" is what the row of an asset names. *)
Files(u) == CASE KindOf[u] = "passthrough" -> <<"main">>
              [] KindOf[u] = "derived"     -> <<"original", "main">>
              [] KindOf[u] = "design"      -> <<"original", "print", "preview">>

FilesOf(u) == {<<u, Files(u)[i]>> : i \in DOMAIN Files(u)}
Saved(u) == {<<u, Files(u)[i]>> : i \in 1 .. written[u]}

Goto(u, step) == pc' = [pc EXCEPT ![u] = step]
Running(u) == pc[u] \notin {"start", "done"}
InFlight == {u \in Designs : Running(u)}

CountFailure == failures < MaxFailures /\ failures' = failures + 1
Excuse(u) == excused' = excused \cup {u}

-----------------------------------------------------------------------------
(* Mistaken variant: one design too many is let in.                        *)
BelowCapOrAt == Cardinality({u \in Designs : row[u] = "STORED"}) <= MaxPerCart

BelowCap == Cardinality({u \in Designs : row[u] = "STORED"}) < MaxPerCart

(* The image is decoded, or the rows of the cart are counted.              *)
Begin(u) ==
  /\ pc[u] = "start"
  /\ u \in Designs => BelowCap
  /\ Goto(u, IF u \in Designs THEN "frame" ELSE "save")
  /\ peak' = IF u \in Designs /\ peak <= Cardinality(InFlight) THEN peak + 1 ELSE peak
  /\ UNCHANGED <<rowVars, diskVars, written, toRemove, removal, frame, failures,
                 excused>>

Refuse(u) ==
  /\ pc[u] = "start"
  /\ Goto(u, "done")
  /\ UNCHANGED <<rowVars, diskVars, written, toRemove, removal, frame, failures,
                 excused, peak>>

-----------------------------------------------------------------------------
(* getFrame: every design that comes while the frame is loaded waits for   *)
(* that one promise.                                                       *)

LoadFrame(u) ==
  /\ pc[u] = "frame"
  /\ frame = "null"
  /\ frame' = "loading"
  /\ UNCHANGED <<rowVars, diskVars, pc, written, toRemove, removal, failures,
                 excused, peak>>

UseFrame(u) ==
  /\ pc[u] = "frame"
  /\ frame = "ready"
  /\ Goto(u, "save")
  /\ UNCHANGED <<rowVars, diskVars, written, toRemove, removal, frame, failures,
                 excused, peak>>

(* A file that cannot be read is replaced by the built-in frame.           *)
FrameLoaded ==
  /\ frame = "loading"
  /\ frameAsset # "undecodable"
  /\ frame' = "ready"
  /\ UNCHANGED <<rowVars, diskVars, pc, written, toRemove, removal, failures,
                 excused, peak>>

(* One that cannot be decoded rejects the promise after the try block was  *)
(* left: the cache is emptied, and all who wait fail.                      *)
FrameRejected ==
  /\ frame = "loading"
  /\ frameAsset = "undecodable"
  /\ frame' = "null"
  /\ pc' = [u \in Upload |-> IF pc[u] = "frame" THEN "done" ELSE pc[u]]
  /\ UNCHANGED <<rowVars, diskVars, written, toRemove, removal, failures, excused,
                 peak>>

-----------------------------------------------------------------------------
(* Files, then the row.                                                    *)

SaveFile(u) ==
  /\ pc[u] = "save"
  /\ written' = [written EXCEPT ![u] = @ + 1]
  /\ disk' = disk \cup {<<u, Files(u)[written[u] + 1]>>}
  /\ Goto(u, IF written[u] + 1 = Len(Files(u)) THEN "insert" ELSE "save")
  /\ UNCHANGED <<rowVars, partial, toRemove, removal, frame, failures, excused, peak>>

(* writeFile fails and may leave a part of the file.  saveWithOriginal     *)
(* removes both of its files; a design removes what was saved before; and  *)
(* nobody knows the name of the file itself.                               *)
SaveFails(u) ==
  LET file == <<u, Files(u)[written[u] + 1]>> IN
  /\ pc[u] = "save"
  /\ CountFailure
  /\ \/ UNCHANGED <<diskVars, excused>>
     \/ /\ disk' = disk \cup {file}
        /\ partial' = partial \cup {file}
        /\ IF KindOf[u] = "derived" THEN UNCHANGED excused ELSE Excuse(u)
  /\ toRemove' = [toRemove EXCEPT ![u] =
       IF KindOf[u] = "derived" THEN FilesOf(u) ELSE Saved(u)]
  /\ Goto(u, "cleanup")
  /\ UNCHANGED <<rowVars, written, removal, frame, peak>>

Insert(u) ==
  /\ pc[u] = "insert"
  /\ row' = [row EXCEPT ![u] = "STORED"]
  /\ Goto(u, "done")
  /\ UNCHANGED <<attached, diskVars, written, toRemove, removal, frame, failures,
                 excused, peak>>

(* Mistaken variant: the original beside the derivative is forgotten.      *)
InsertFailsForgetting(u) ==
  /\ pc[u] = "insert"
  /\ CountFailure
  /\ \/ row' = row /\ UNCHANGED excused
     \/ row' = [row EXCEPT ![u] = "STORED"] /\ Excuse(u)
  /\ toRemove' = [toRemove EXCEPT ![u] = Saved(u) \ {<<u, "original">>}]
  /\ Goto(u, "cleanup")
  /\ UNCHANGED <<attached, diskVars, written, removal, frame, peak>>

(* The insertion throws, perhaps after it was committed: the files go.     *)
InsertFails(u) ==
  /\ pc[u] = "insert"
  /\ CountFailure
  /\ \/ row' = row /\ UNCHANGED excused
     \/ row' = [row EXCEPT ![u] = "STORED"] /\ Excuse(u)
  /\ toRemove' = [toRemove EXCEPT ![u] = Saved(u)]
  /\ Goto(u, "cleanup")
  /\ UNCHANGED <<attached, diskVars, written, removal, frame, peak>>

-----------------------------------------------------------------------------
(* rm with force, for a compensation or a deletion.                        *)

Removing(u) == pc[u] = "cleanup" \/ removal[u] = "unlink"

RemoveFile(u, file) ==
  /\ Removing(u)
  /\ file \in toRemove[u]
  /\ toRemove' = [toRemove EXCEPT ![u] = @ \ {file}]
  /\ disk' = disk \ {file}
  /\ partial' = partial \ {file}
  /\ UNCHANGED <<rowVars, pc, written, removal, frame, failures, excused, peak>>

RemovalRefused(u, file) ==
  /\ Removing(u)
  /\ file \in toRemove[u]
  /\ CountFailure
  /\ Excuse(u)
  /\ toRemove' = [toRemove EXCEPT ![u] = @ \ {file}]
  /\ UNCHANGED <<rowVars, diskVars, pc, written, removal, frame, peak>>

EndRemoval(u) ==
  /\ Removing(u)
  /\ toRemove[u] = {}
  /\ pc' = [pc EXCEPT ![u] = IF @ = "cleanup" THEN "done" ELSE @]
  /\ removal' = [removal EXCEPT ![u] = IF @ = "unlink" THEN "done" ELSE @]
  /\ UNCHANGED <<rowVars, diskVars, written, toRemove, frame, failures, excused, peak>>

-----------------------------------------------------------------------------
(* MediaService.delete, and what shows an asset meanwhile.                 *)

FindAsset(u) ==
  /\ u \notin Designs
  /\ pc[u] = "done" /\ row[u] = "STORED"
  /\ removal[u] = "none"
  /\ removal' = [removal EXCEPT ![u] = "found"]
  /\ UNCHANGED <<rowVars, diskVars, pc, written, toRemove, frame, failures, excused, peak>>

(* Mistaken variant: the files go before the row.                          *)
DeleteRowLast(u) ==
  /\ removal[u] = "found"
  /\ removal' = [removal EXCEPT ![u] = "unlink"]
  /\ toRemove' = [toRemove EXCEPT ![u] = FilesOf(u)]
  /\ row' = IF u \in attached THEN row ELSE [row EXCEPT ![u] = "DELETED"]
  /\ UNCHANGED <<attached, diskVars, pc, written, frame, failures, excused, peak>>

(* The key of a row that shows the asset restricts its deletion (P2003).   *)
(* Deleting a derivative also removes an original beside it.               *)
DeleteRow(u) ==
  /\ removal[u] = "found"
  /\ IF u \in attached
       THEN /\ removal' = [removal EXCEPT ![u] = "none"]
            /\ UNCHANGED <<row, toRemove>>
       ELSE /\ removal' = [removal EXCEPT ![u] = "unlink"]
            /\ row' = [row EXCEPT ![u] = "DELETED"]
            /\ toRemove' = [toRemove EXCEPT ![u] = FilesOf(u)]
  /\ UNCHANGED <<attached, diskVars, pc, written, frame, failures, excused, peak>>

Attach(u) ==
  /\ u \notin Designs \cup attached
  /\ row[u] = "STORED"
  /\ attached' = attached \cup {u}
  /\ UNCHANGED <<row, diskVars, pc, written, toRemove, removal, frame, failures, excused, peak>>

Detach(u) ==
  /\ u \in attached
  /\ attached' = attached \ {u}
  /\ UNCHANGED <<row, diskVars, pc, written, toRemove, removal, frame, failures, excused, peak>>

-----------------------------------------------------------------------------
(* The process dies: every handler ends where it is, the frame is gone.    *)
Crash ==
  /\ CountFailure
  /\ excused' = excused \cup {u \in Upload : Running(u) \/ removal[u] = "unlink"}
  /\ pc' = [u \in Upload |-> IF Running(u) THEN "done" ELSE pc[u]]
  /\ removal' = [u \in Upload |-> IF removal[u] = "found" THEN "none"
                                  ELSE IF removal[u] = "unlink" THEN "done"
                                  ELSE removal[u]]
  /\ toRemove' = [u \in Upload |-> {}]
  /\ frame' = "null"
  /\ UNCHANGED <<rowVars, diskVars, written, peak>>

Init ==
  /\ row = [u \in Upload |-> "NONE"]
  /\ attached = {} /\ disk = {} /\ partial = {} /\ excused = {}
  /\ pc = [u \in Upload |-> "start"]
  /\ written = [u \in Upload |-> 0]
  /\ toRemove = [u \in Upload |-> {}]
  /\ removal = [u \in Upload |-> "none"]
  /\ frame = "null" /\ frameAsset \in FrameAssets
  /\ failures = 0 /\ peak = 0

Handler(u) ==
  \/ Begin(u) \/ Refuse(u)
  \/ LoadFrame(u) \/ UseFrame(u)
  \/ SaveFile(u) \/ Insert(u)
  \/ \E file \in toRemove[u] : RemoveFile(u, file)
  \/ EndRemoval(u)
  \/ FindAsset(u) \/ DeleteRow(u)

Fault(u) ==
  \/ SaveFails(u)
  \/ InsertFails(u)
  \/ \E file \in toRemove[u] : RemovalRefused(u, file)

Next ==
  \/ \E u \in Upload : Handler(u) \/ Fault(u) \/ Attach(u) \/ Detach(u)
  \/ FrameLoaded
  \/ FrameRejected
  \/ Crash

Spec == Init /\ [][Next /\ UNCHANGED frameAsset]_vars

-----------------------------------------------------------------------------
UploadsTypeOK ==
  /\ row \in [Upload -> {"NONE", "STORED", "DELETED"}]
  /\ pc \in [Upload -> {"start", "frame", "save", "insert", "cleanup", "done"}]
  /\ written \in [Upload -> Nat]
  /\ toRemove \in [Upload -> SUBSET UNION {FilesOf(u) : u \in Upload}]
  /\ removal \in [Upload -> {"none", "found", "unlink", "done"}]
  /\ frame \in {"null", "loading", "ready"}
  /\ excused \subseteq Upload
  /\ peak \in Nat

(* Every row has all of its files, whole: an asset that is shown cannot    *)
(* lose them to a deletion.  Only an insertion that was committed and not  *)
(* acknowledged leaves a row whose files the compensation removes.         *)
RowsHaveTheirFiles ==
  \A u \in Upload : row[u] = "STORED" /\ u \notin excused =>
    FilesOf(u) \subseteq disk \ partial

(* A request that has ended leaves files only with a row.  What is left    *)
(* over otherwise comes from a crash, a refused removal or the part of a   *)
(* file whose writing was refused.                                         *)
NoStrayFiles ==
  \A u \in Upload :
    /\ pc[u] = "done" /\ removal[u] # "unlink"
    /\ row[u] # "STORED" /\ u \notin excused
    => FilesOf(u) \cap disk = {}

(* The cap on the designs of a cart is counted before three files are      *)
(* rendered and written: it is exceeded by no more than the designs that   *)
(* were on their way with the last.                                        *)
CapHoldsUpToOverlap ==
  Cardinality({u \in Designs : row[u] = "STORED"}) < MaxPerCart + peak

=============================================================================
