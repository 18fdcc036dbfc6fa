--------------------------- MODULE MCAssetPipeline ---------------------------
(* A change of the patch alone, of an extension's pin (to a commit that    *)
(* needs a symbol of the new patch), and of the requested extensions (with *)
(* a patch that the source spine refuses).                                 *)
EXTENDS AssetPipeline

Tree(vector, patch, requested, passed) ==
  [pins |-> [s \in {"postgres", "vector"} |-> IF s = "vector" THEN vector ELSE "p1"],
   patch |-> patch, requested |-> requested, passed |-> passed]

First == Tree("v1", "patch1", {"vector"}, {"vector"})
NewPatch == Tree("v1", "patch2", {"vector"}, {"vector"})
NewPin == Tree("v2", "patch1", {"vector"}, {})
Fewer == Tree("v1", "patch0", {}, {"vector"})

AllTrees == {First, NewPatch, NewPin, Fewer}
NoDeps == [e \in {"vector"} |-> {}]
Exported == [p \in {"patch0", "patch1", "patch2"} |->
               IF p = "patch2" THEN {"abi", "new"} ELSE {"abi"}]
Imported == [c \in {"p1", "v1", "v2"} |-> IF c = "v2" THEN {"new"} ELSE {}]
Runs == <<NewPatch, First>>
=============================================================================
