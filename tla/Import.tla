------------------------------- MODULE Import --------------------------------
(***************************************************************************)
(* The bulk import of designs (scripts/catalog-import), a script that may  *)
(* be run again, twice at a time, and die anywhere, while staff work on the*)
(* same products.  A run scans a folder of photos and merges those of one  *)
(* design (dedupeCandidates), checks the plan against the database, and    *)
(* then for each design saves a file and creates a product in one          *)
(* transaction, or adds what an earlier run left out.                      *)
(*                                                                         *)
(* A dry run makes the same reads and writes nothing: it is left out, as   *)
(* are names, prices and collections.  A file is named by the run and the  *)
(* design that save it; a SKU that the script builds by product and combo. *)
(***************************************************************************)
EXTENDS Naturals, FiniteSets, Sequences, Sorting

CONSTANTS
  Run,        \* executions of the script
  Earlier,    \* the one that imported what is there at the start
  Folders,    \* what the source folder may hold, in the order of its paths
  Manifest,   \* Manifest[name]: slug of the photo of that name, if it has one
  Slug,       \* slugs of the manifest
  Other,      \* a product of no manifest
  Combo,      \* phone models x case types
  OwnSku,     \* a SKU that the script does not build
  MaxEdits,   \* bound: edits of staff
  MaxTrouble  \* bound: failures of the disk, the database, the process

(* What was found in a folder: a list of photos.                           *)
IsScan(folder) ==
  /\ folder \in Seq({folder[i] : i \in DOMAIN folder})
  /\ \A i \in DOMAIN folder : folder[i].quality \in Nat

ASSUME ImportAssumption ==
  /\ Earlier \notin Run
  /\ Other \notin Slug
  /\ \A name \in DOMAIN Manifest : Manifest[name] \in Slug
  /\ \A folder \in Folders : IsScan(folder)
  /\ MaxEdits \in Nat /\ MaxTrouble \in Nat

VARIABLES
  photos,    \* the folder, which stays as it is
  seeded,    \* the case types and the staff that seed.ts creates are there
  product,   \* product[p]: "none", "foreign", or "imported" (its marker)
  variants,  \* product_variants
  assets,    \* media_assets, by their files
  pictures,  \* product_media
  files,     \* files on the disk
  stage,     \* stage[r]: the next step of run r
  survivors, \* survivors[r]: the photos that its scan chose
  at,        \* at[r]: which of its designs it is about
  found,     \* found[r]: product[Current(r)] as r has read it
  pictured,  \* pictured[r]: that product had an image
  seen,      \* seen[r]: the combos whose SKU it had
  reported,  \* reported[r]: designs reported as created or reconciled
  edits, trouble,
  lost,      \* history: files of transactions whose commit got no answer
  strays     \* history: files whose removal failed or was not reached

tableVars == <<product, variants, assets, pictures>>
readVars == <<found, pictured, seen>>
runVars == <<stage, survivors, at, readVars, reported>>
importVars == <<photos, seeded, tableVars, files, runVars, edits, trouble, lost, strays>>

BuildSku(p, c) == <<p, c>>

-----------------------------------------------------------------------------
(* dedupeCandidates: union-find over all pairs, with the perceptual hash   *)
(* switched off.  The halving of paths by find, which changes no root, is  *)
(* left out.                                                               *)

Similar(p, q) == p.sha256 = q.sha256 \/ p.groupKey = q.groupKey

Find(parent, i) ==
  LET root[k \in DOMAIN parent] == IF parent[k] = k THEN k ELSE root[parent[k]]
  IN  root[i]

(* Mistaken variant: the photo is linked, not the root of its tree.        *)
UnionWithoutRoot(parent, i, j) == [parent EXCEPT ![i] = Find(parent, j)]

Union(parent, i, j) == [parent EXCEPT ![Find(parent, i)] = Find(parent, j)]

(* All pairs of n photos, in the order of the two loops.                   *)
RowByRow(p, q) == p[1] < q[1] \/ (p[1] = q[1] /\ p[2] < q[2])

Pairs(n) == InOrder({p \in (1 .. n) \X (1 .. n) : p[1] < p[2]}, RowByRow)

Compare(ps, parent, p) ==
  IF Similar(ps[p[1]], ps[p[2]]) THEN Union(parent, p[1], p[2]) ELSE parent

Parents(ps) ==
  LET pairs == Pairs(Len(ps))
      after[m \in Nat] == IF m = 0 THEN [i \in DOMAIN ps |-> i]
                          ELSE Compare(ps, after[m - 1], pairs[m])
  IN after[Len(pairs)]

(* Largest picture, then largest file, then cleanest name, all of it in one*)
(* number; equals as they came.                                            *)
Better(ps, i, j) ==
  ps[i].quality > ps[j].quality \/ (ps[i].quality = ps[j].quality /\ i < j)

PickBest(ps, members) == CHOOSE i \in members : \A j \in members \ {i} : Better(ps, i, j)

(* One photo of each cluster, in the order of their first photos.          *)
Survivors(ps) ==
  LET parents == Parents(ps)
      members(i) == {j \in DOMAIN ps : Find(parents, j) = Find(parents, i)}
      firsts == Ascending({i \in DOMAIN ps : \A j \in members(i) : i <= j})
  IN  [n \in DOMAIN firsts |-> PickBest(ps, members(firsts[n]))]

-----------------------------------------------------------------------------
(* What a run works from.                                                  *)

IsCategorized(i) == photos[i].filename \in DOMAIN Manifest
Categorized(r) == {n \in DOMAIN survivors[r] : IsCategorized(survivors[r][n])}
Planned(r) ==
  [n \in 1 .. Cardinality(Categorized(r)) |->
     Manifest[photos[survivors[r][Ascending(Categorized(r))[n]]].filename]]
PlannedSlugs(r) == {Planned(r)[n] : n \in DOMAIN Planned(r)}
PlannedSkus(r) == {BuildSku(p, c) : p \in PlannedSlugs(r), c \in Combo}
Current(r) == Planned(r)[at[r]]
FileOf(r) == <<r, Current(r)>>

GoOn(r, next) == stage' = [stage EXCEPT ![r] = next]

(* The end of one turn of the loop over the designs.                       *)
NextDesign(r) ==
  /\ at' = [at EXCEPT ![r] = @ + 1]
  /\ GoOn(r, IF at[r] < Len(Planned(r)) THEN "find" ELSE "done")

Trouble == trouble < MaxTrouble /\ trouble' = trouble + 1

-----------------------------------------------------------------------------
(* The script, up to its first write.                                      *)

Scan(r) ==
  /\ stage[r] = "start"
  /\ survivors' = [survivors EXCEPT ![r] = Survivors(photos)]
  /\ GoOn(r, "preflight")
  /\ UNCHANGED <<photos, seeded, tableVars, files, at, readVars, reported, edits,
                 trouble, lost, strays>>

(* SKUs unique within the plan and not taken by a product outside it, the  *)
(* case types there, and no photo without an entry of the manifest unless  *)
(* that is allowed.                                                        *)
PreflightPasses(r, allowUncategorized) ==
  /\ Cardinality(PlannedSlugs(r)) = Len(Planned(r))
  /\ \A v \in variants : v.sku \in PlannedSkus(r) => v.product \in PlannedSlugs(r)
  /\ seeded
  /\ allowUncategorized \/ Len(Planned(r)) = Len(survivors[r])

Preflight(r) ==
  /\ stage[r] = "preflight"
  /\ \E allowUncategorized \in BOOLEAN :
       GoOn(r, IF ~PreflightPasses(r, allowUncategorized) THEN "refused"
               ELSE IF Planned(r) = <<>> THEN "done" ELSE "find")
  /\ UNCHANGED <<photos, seeded, tableVars, files, survivors, at, readVars,
                 reported, edits, trouble, lost, strays>>

-----------------------------------------------------------------------------
(* One design.                                                             *)

(* A product that this importer did not create is left untouched.          *)
FindProduct(r) ==
  /\ stage[r] = "find"
  /\ found' = [found EXCEPT ![r] = product[Current(r)]]
  /\ pictured' = [pictured EXCEPT ![r] = FALSE]
  /\ seen' = [seen EXCEPT ![r] = {}]
  /\ CASE product[Current(r)] = "foreign" -> NextDesign(r)
       [] product[Current(r)] = "imported" -> GoOn(r, "count") /\ UNCHANGED at
       [] OTHER -> GoOn(r, "save") /\ UNCHANGED at
  /\ UNCHANGED <<photos, seeded, tableVars, files, survivors, reported, edits,
                 trouble, lost, strays>>

CountExisting(r) ==
  LET p == Current(r) IN
  /\ stage[r] = "count"
  /\ pictured' = [pictured EXCEPT ![r] = \E shot \in pictures : shot[1] = p]
  /\ seen' = [seen EXCEPT ![r] =
       {c \in Combo : \E v \in variants : v.product = p /\ v.sku = BuildSku(p, c)}]
  /\ GoOn(r, IF pictured'[r] THEN "commit" ELSE "save")
  /\ UNCHANGED <<photos, seeded, tableVars, files, survivors, at, found, reported,
                 edits, trouble, lost, strays>>

SavePhoto(r) ==
  /\ stage[r] = "save"
  /\ files' = files \cup {FileOf(r)}
  /\ GoOn(r, "commit")
  /\ UNCHANGED <<photos, seeded, tableVars, survivors, at, readVars, reported,
                 edits, trouble, lost, strays>>

(* Nothing is written, or a part whose name nobody knows.                  *)
SavePhotoFails(r) ==
  /\ stage[r] = "save"
  /\ Trouble
  /\ \/ UNCHANGED <<files, strays>>
     \/ files' = files \cup {FileOf(r)} /\ strays' = strays \cup {FileOf(r)}
  /\ NextDesign(r)
  /\ UNCHANGED <<photos, seeded, tableVars, survivors, readVars, reported, edits, lost>>

(* Mistaken variant: a product that has variants is taken to have all.     *)
MissingIfNone(r) == IF seen[r] = {} THEN Combo ELSE {}

Missing(r) == Combo \ seen[r]

(* createMany with skipDuplicates: a SKU, or a combo of the product, that  *)
(* is there already is passed over.                                        *)
CreateMany(p, combos) ==
  variants \cup
    {[product |-> p, combo |-> c, sku |-> BuildSku(p, c)] :
       c \in {c \in combos : \A v \in variants :
                /\ v.sku # BuildSku(p, c)
                /\ <<v.product, v.combo>> # <<p, c>>}}

(* What the transaction of either branch does.  The slug is unique.        *)
Apply(r) ==
  LET p == Current(r) IN
  /\ found[r] = "none" => product[p] = "none"
  /\ product' = [product EXCEPT ![p] = IF found[r] = "none" THEN "imported" ELSE @]
  /\ variants' = CreateMany(p, Missing(r))
  /\ IF pictured[r] THEN UNCHANGED <<assets, pictures>>
     ELSE /\ assets' = assets \cup {FileOf(r)}
          /\ pictures' = pictures \cup {<<p, FileOf(r)>>}

Commit(r) ==
  /\ stage[r] = "commit"
  /\ Apply(r)
  /\ reported' = [reported EXCEPT ![r] = @ \cup {Current(r)}]
  /\ NextDesign(r)
  /\ UNCHANGED <<photos, seeded, files, survivors, readVars, edits, trouble, lost, strays>>

(* It is committed, and the script never learns of it.                     *)
CommitUnanswered(r) ==
  /\ stage[r] = "commit"
  /\ Trouble
  /\ Apply(r)
  /\ IF pictured[r] THEN NextDesign(r) /\ UNCHANGED lost
     ELSE GoOn(r, "discard") /\ lost' = lost \cup {FileOf(r)} /\ UNCHANGED at
  /\ UNCHANGED <<photos, seeded, files, survivors, readVars, reported, edits, strays>>

(* Mistaken variant: the file saved for a new product is forgotten.        *)
CommitFailsForgetting(r) ==
  /\ stage[r] = "commit"
  /\ IF found[r] = "none" /\ product[Current(r)] # "none"
       THEN UNCHANGED trouble ELSE Trouble
  /\ IF found[r] = "none" \/ pictured[r] THEN NextDesign(r)
     ELSE GoOn(r, "discard") /\ UNCHANGED at
  /\ UNCHANGED <<photos, seeded, tableVars, files, survivors, readVars, reported,
                 edits, lost, strays>>

(* The slug was taken since, or the database fails.                        *)
CommitFails(r) ==
  /\ stage[r] = "commit"
  /\ IF found[r] = "none" /\ product[Current(r)] # "none"
       THEN UNCHANGED trouble ELSE Trouble
  /\ IF pictured[r] THEN NextDesign(r)
     ELSE GoOn(r, "discard") /\ UNCHANGED at
  /\ UNCHANGED <<photos, seeded, tableVars, files, survivors, readVars, reported,
                 edits, lost, strays>>

(* storage.delete, which only logs a removal that is refused.              *)
Discard(r) ==
  /\ stage[r] = "discard"
  /\ \/ files' = files \ {FileOf(r)} /\ UNCHANGED <<trouble, strays>>
     \/ Trouble /\ strays' = strays \cup {FileOf(r)} /\ UNCHANGED files
  /\ NextDesign(r)
  /\ UNCHANGED <<photos, seeded, tableVars, survivors, readVars, reported, edits, lost>>

RunDies(r) ==
  /\ stage[r] \in {"find", "count", "save", "commit", "discard"}
  /\ Trouble
  /\ GoOn(r, "dead")
  /\ strays' = strays \cup {FileOf(r)}
  /\ UNCHANGED <<photos, seeded, tableVars, files, survivors, at, readVars, reported,
                 edits, lost>>

-----------------------------------------------------------------------------
(* Others.                                                                 *)

(* seed.ts, every statement of which is an upsert that changes nothing     *)
(* that is there: what counts here is whether it was ever finished.        *)
Seed ==
  /\ ~seeded
  /\ seeded' = TRUE
  /\ UNCHANGED <<photos, tableVars, files, runVars, edits, trouble, lost, strays>>

Edit == edits < MaxEdits /\ edits' = edits + 1

(* ProductsService.create, or an update that removes the marker.           *)
StaffOwn(p) ==
  /\ Edit
  /\ product[p] # "foreign"
  /\ product' = [product EXCEPT ![p] = "foreign"]
  /\ UNCHANGED <<photos, seeded, variants, assets, pictures, files, runVars, trouble,
                 lost, strays>>

StaffDetach(p, f) ==
  /\ Edit
  /\ <<p, f>> \in pictures
  /\ pictures' = pictures \ {<<p, f>>}
  /\ UNCHANGED <<photos, seeded, product, variants, assets, files, runVars, trouble,
                 lost, strays>>

(* VariantsService.create and update: a SKU is unique.                     *)
StaffVariant(p, c, sku) ==
  /\ Edit
  /\ product[p] # "none"
  /\ \A v \in variants : v.sku # sku
  /\ variants' = {v \in variants : <<v.product, v.combo>> # <<p, c>>}
                   \cup {[product |-> p, combo |-> c, sku |-> sku]}
  /\ UNCHANGED <<photos, seeded, product, assets, pictures, files, runVars, trouble,
                 lost, strays>>

-----------------------------------------------------------------------------
RunsIdle ==
  /\ stage = [r \in Run |-> "start"]
  /\ survivors = [r \in Run |-> <<>>]
  /\ at = [r \in Run |-> 1]
  /\ found = [r \in Run |-> "none"]
  /\ pictured = [r \in Run |-> FALSE]
  /\ seen = [r \in Run |-> {}]
  /\ reported = [r \in Run |-> {}]
  /\ edits = 0 /\ trouble = 0 /\ lost = {} /\ strays = {}

(* Of an earlier import the products are there, with the combos of then.   *)
EarlierImport(then, combos) ==
  /\ product = [p \in Slug \cup {Other} |->
       IF p = Other THEN "foreign" ELSE IF p \in then THEN "imported" ELSE "none"]
  /\ variants = {[product |-> p, combo |-> c, sku |-> BuildSku(p, c)] :
                   p \in then, c \in combos}
  /\ assets = {Earlier} \X then
  /\ pictures = {<<p, <<Earlier, p>>>> : p \in then}
  /\ files = assets

ImportInit ==
  /\ photos \in Folders
  /\ seeded \in BOOLEAN
  /\ \E then \in SUBSET Slug : \E combos \in SUBSET Combo : EarlierImport(then, combos)
  /\ RunsIdle

ImportStep(r) ==
  \/ Scan(r) \/ Preflight(r) \/ FindProduct(r) \/ CountExisting(r)
  \/ SavePhoto(r) \/ Commit(r) \/ Discard(r)

ImportTrouble(r) ==
  SavePhotoFails(r) \/ CommitFails(r) \/ CommitUnanswered(r) \/ RunDies(r)

ImportNext ==
  \/ \E r \in Run : ImportStep(r) \/ ImportTrouble(r)
  \/ Seed
  \/ \E p \in Slug : StaffOwn(p)
  \/ \E p \in Slug, f \in assets : StaffDetach(p, f)
  \/ \E p \in Slug \cup {Other}, c \in Combo,
        sku \in {OwnSku} \cup {BuildSku(q, d) : q \in Slug, d \in Combo} :
       StaffVariant(p, c, sku)

-----------------------------------------------------------------------------
ImportTypeOK ==
  /\ IsScan(photos)
  /\ stage \in [Run -> {"start", "preflight", "refused", "find", "count", "save", "commit",
                      "discard", "done", "dead"}]
  /\ DOMAIN survivors = Run /\ \A r \in Run : IsFiniteSet(DOMAIN survivors[r])
  /\ at \in [Run -> Nat]
  /\ pictured \in [Run -> BOOLEAN]
  /\ DOMAIN seen = Run /\ DOMAIN found = Run /\ DOMAIN reported = Run

(* No file without its row, and no row without its file, however runs and  *)
(* edits overlap: only a run that died, a removal that was refused, or a   *)
(* commit without an answer leave one behind.                              *)
ImportedFilesMatchAssets ==
  /\ assets \ files \subseteq lost
  /\ \A f \in files \ assets :
       \/ f \in strays
       \/ /\ f[1] \in Run
          /\ stage[f[1]] \in {"commit", "discard"}
          /\ f = FileOf(f[1])

(* A product is reported as created or reconciled only with an image, if   *)
(* it was seen to have none, and all combos that it was seen to lack: also *)
(* a product that another run or staff change meanwhile.  Passed over is   *)
(* only a combo whose SKU another variant carries.                         *)
ReportedProductsAreComplete ==
  [][\A r \in Run : \A p \in reported'[r] \ reported[r] :
       /\ ~pictured[r] => \E f \in files' : <<p, f>> \in pictures'
       /\ \A c \in Combo \ seen[r] : \E v \in variants' :
            <<v.product, v.combo>> = <<p, c>> \/ v.sku = BuildSku(p, c)]_importVars

(* Photos become one product exactly when a chain of photos of the same    *)
(* bytes or the same source joins them, in whatever order they are         *)
(* compared, and the best of them is imported.                             *)
Joined(i, j) ==
  \A S \in SUBSET DOMAIN photos :
    /\ i \in S
    /\ \A k \in S, l \in DOMAIN photos \ S : ~Similar(photos[k], photos[l])
    => j \in S

Best == {i \in DOMAIN photos :
           \A j \in DOMAIN photos \ {i} : Joined(i, j) => Better(photos, i, j)}

PhotosGroupedByChains ==
  [][\A r \in Run : stage[r] = "start" /\ stage'[r] = "preflight" =>
       {survivors'[r][n] : n \in DOMAIN survivors'[r]} = Best]_importVars

=============================================================================
