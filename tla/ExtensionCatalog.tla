--------------------------- MODULE ExtensionCatalog ---------------------------
(***************************************************************************)
(* xtask/src/extension_catalog.rs: which extensions are built, packaged    *)
(* and offered to programs.  The tracked inputs (assets/extensions.*.toml, *)
(* here fields of `tree') say what is requested and which smoke tests      *)
(* passed; the generated asset manifest says what is packaged.  From both, *)
(* `xtask extensions' writes three files that are committed: the           *)
(* catalogue, the build plan that the Docker scripts read, and the Rust    *)
(* constants.  Each can be stale with respect to the others.               *)
(*                                                                         *)
(* Every requested extension is taken as stable, and as having a native    *)
(* module built from a checkout of its own.                                *)
(***************************************************************************)
EXTENDS Naturals, Sequences, SequencesExt, FiniteSets

CONSTANTS
  Exts,         \* the extensions the upstream checkouts describe
  Deps,         \* [Exts -> SUBSET Exts], from the control files
  Trees         \* the contents that the tracked asset inputs can have

ASSUME DepsAssumption == Deps \in [Exts -> SUBSET Exts] /\ IsFiniteSet(Exts)

VARIABLES
  tree,         \* the tracked asset inputs of the work tree
  catalog,      \* assets/generated/extensions.catalog.json
  plan,         \* assets/generated/*-build.tsv: the extensions that are built
  api           \* src/pglite/generated_extensions.rs: extensions::ALL

catalogVars == <<catalog, plan, api>>

(* What assets/extensions.promoted.toml asks for, and what                 *)
(* assets/extensions.smoke.toml says has passed all three smoke tests.     *)
PromotionConfig(t) == t.requested
SmokeConfig(t) == t.passed

(* The `requires' of the control file in the extension's checkout.         *)
DiscoverDependencies(e) == Deps[e]

(* The catalogue of inputs t when the extensions in `packaged' are in the  *)
(* generated asset manifest: without a manifest nothing is promoted.       *)
DiscoverCatalog(t, packaged) ==
  [requested |-> PromotionConfig(t),
   promoted  |-> PromotionConfig(t) \cap packaged \cap SmokeConfig(t)]

(* An extension is neither requested nor promoted without the extensions   *)
(* it depends on.                                                          *)
ValidCatalog(c) ==
  /\ \A e \in c.requested : DiscoverDependencies(e) \subseteq c.requested
  /\ \A e \in c.promoted : DiscoverDependencies(e) \subseteq c.promoted

(* The extensions packaging and the list of build outputs ask for: what is *)
(* requested, whether or not it has been promoted yet.                     *)
PromotedBuildSpecs(t) == PromotionConfig(t)

CatalogInit ==
  /\ catalog = DiscoverCatalog(tree, tree.requested)
  /\ plan = PromotedBuildSpecs(tree)
  /\ api = catalog.promoted

(* `extensions discover --write', `build-plan --write' and `generate' each *)
(* discover the catalogue c once and write one or all of the files.        *)
WriteCatalog(c) ==
  /\ catalog' = c
  /\ UNCHANGED <<plan, api>>

WriteBuildPlan(c) ==
  /\ plan' = c.requested
  /\ UNCHANGED <<catalog, api>>

WriteGeneratedApi(c) ==
  /\ api' = c.promoted
  /\ UNCHANGED <<catalog, plan>>

(* What `extensions check' asks of the committed files; the catalogue is   *)
(* compared without what depends on a packaged manifest.                   *)
CatalogFileFresh == catalog.requested = tree.requested

BuildPlanFresh == plan = PromotedBuildSpecs(tree)

ExtensionsCheckOk == CatalogFileFresh /\ BuildPlanFresh
=============================================================================
