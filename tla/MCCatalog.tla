------------------------------ MODULE MCCatalog ------------------------------
(* Two edits of one row, which may cross, and two requests for the public  *)
(* offers; or three edits of a product of up to two images; or two runs of *)
(* an import of two designs, one of them in two sizes, and a plan with one *)
(* slug twice; or any four photos of three contents and three sources.     *)
EXTENDS Catalog, TLC

MCOrder == {<<"front">>, <<"back", "front">>, <<"front", "back">>}

Photo(filename, sha256, groupKey, quality) ==
  [filename |-> filename, sha256 |-> sha256, groupKey |-> groupKey, quality |-> quality]

MCFolders ==
  {<<Photo("lion-small", 1, "lion", 1), Photo("lion", 2, "lion", 2), Photo("wave", 3, "wave", 1)>>,
   <<Photo("lion", 1, "lion", 1), Photo("lion-again", 2, "again", 1)>>}

MCManifest == "lion" :> "lion" @@ "lion-again" :> "lion" @@ "wave" :> "wave"

MCOwnSku == <<"own", "own">>

MCQuality == <<2, 3, 1, 3>>

MCScans ==
  {[i \in 1 .. 4 |-> Photo("new", sha[i], group[i], MCQuality[i])] :
     sha \in {f \in [1 .. 4 -> 1 .. 3] : f[1] = 1},
     group \in {f \in [1 .. 4 -> {"a", "b", "c"}] : f[1] = "a"}}

Interchangeable == Permutations(Request) \cup Permutations(Shopper)

=============================================================================
