---------------------------- MODULE AssetPackage ----------------------------
(***************************************************************************)
(* xtask/src/main.rs, second half of the asset pipeline: what is put into  *)
(* target/pglite-oxide for the crates to embed.  The portable assets (the  *)
(* modules, a PGDATA template that initdb made, and manifest.json with the *)
(* hash of each) and, for each target, the modules compiled ahead of time  *)
(* with a manifest of their own.  Nothing of it is tracked by git, and     *)
(* build, packaging, compilation and download all write into it.           *)
(*                                                                         *)
(* A hash is modelled by the content it is the hash of, and a compiled     *)
(* artifact by the module it was compiled from.                            *)
(***************************************************************************)
EXTENDS AssetBuild

CONSTANTS
  Targets         \* the targets with artifacts compiled ahead of time

VARIABLES
  gen,            \* target/pglite-oxide/assets
  aotDir,         \* assets/wasix-build/build/aot/<target>, or None
  genAot,         \* target/pglite-oxide/aot/<target>
  buildManifest,  \* the outputs recorded by the last command that looked at them
  exportList      \* assets/generated/wasix-dl.exports, which is committed

packageVars == <<gen, aotDir, genAot>>
exportVars == <<buildManifest, exportList>>

NoAssets == [mods |-> NoMods, template |-> None, manifest |-> None]
NoAot == [files |-> NoMods, manifest |-> None]

(* What the runtime beside the modules outs must export.                   *)
RequiredExports(outs) ==
  Abi \cup UNION {LinkImports(outs[e]) : e \in Exts \cap Listed(outs)}

(* A template is told from every other: initdb does not give the same      *)
(* bytes twice.                                                            *)
TemplateBy(outs, maker) ==
  [runtime |-> outs["runtime"], initdb |-> outs["initdb"], by |-> maker]

PackageInit ==
  /\ gen = NoAssets
  /\ aotDir = [t \in Targets |-> None]
  /\ genAot = [t \in Targets |-> NoAot]
  /\ buildManifest = None
  /\ exportList = RequiredExports(BuildOf(tree))

Packaged(g) == IF g.manifest = None THEN {} ELSE Exts \cap Listed(g.manifest.mods)

(***************************************************************************)
(* Portable assets.                                                        *)
(***************************************************************************)
ClearAssets == gen' = NoAssets

StageRuntimeTree == gen' = [gen EXCEPT !.mods["runtime"] = mods["runtime"]]

CopyTools == gen' = [gen EXCEPT !.mods["initdb"] = mods["initdb"]]

(* The catalogue is discovered again, and every extension it asks for must *)
(* be among the outputs found at the start.                                *)
PromotedExtensionsOk ==
  /\ Discoverable(Packaged(gen))
  /\ PromotedBuildSpecs(tree) \subseteq Listed(mods)

PackagePromotedExtensions(made) ==
  gen' = [gen EXCEPT !.mods = [m \in Modules |-> IF m \in made THEN mods[m] ELSE @[m]]]

ClearTemplate == gen' = [gen EXCEPT !.template = None]

GeneratePgdataTemplate == gen' = [gen EXCEPT !.template = TemplateBy(mods, run.name)]

(* Written last.  The pins are those read when the command began.          *)
WriteAssetManifest ==
  gen' = [gen EXCEPT !.manifest =
    [mods |-> gen.mods, template |-> gen.template,
     pins |-> run.pins, passed |-> tree.passed]]

(***************************************************************************)
(* Artifacts compiled ahead of time.                                       *)
(***************************************************************************)
(* The modules in the packaged archives, or None when one is missing.      *)
FromPackagedAssets(g) ==
  IF g.manifest = None \/ ~(Listed(g.manifest.mods) \subseteq Listed(g.mods)) THEN None
  ELSE [m \in Modules |-> IF m \in Listed(g.manifest.mods) THEN g.mods[m] ELSE None]

(* The build directory is preferred to what has been packaged.             *)
DiscoverForAot ==
  IF work /\ BuildOutputsOk(Packaged(gen)) THEN BuildOutputs ELSE FromPackagedAssets(gen)

(* One artifact after the other; interrupted, only some are new.           *)
GenerateAotArtifacts(t, made) ==
  LET old == IF aotDir[t] = None THEN NoMods ELSE aotDir[t] IN
  aotDir' = [aotDir EXCEPT ![t] =
    [m \in Modules |-> IF m \in made THEN DiscoverForAot[m] ELSE old[m]]]

ClearAot(t) == genAot' = [genAot EXCEPT ![t] = NoAot]

AotSourcesOk(t) == Listed(mods) \subseteq Listed(aotDir[t])

CopiedAot(t, made) == [m \in Modules |-> IF m \in made THEN aotDir[t][m] ELSE None]

(* The hash recorded for the module is that of the current output,         *)
(* whatever the artifact was compiled from.                                *)
PackageAotArtifacts(t) ==
  LET files == CopiedAot(t, Listed(mods)) IN
  genAot' = [genAot EXCEPT ![t] =
    [files |-> files, manifest |-> [files |-> files, mods |-> mods]]]

PackageAotInterrupted(t, made) ==
  genAot' = [genAot EXCEPT ![t] = [files |-> CopiedAot(t, made), manifest |-> None]]

(***************************************************************************)
(* The checks, on the generated files or on those of a staged release.     *)
(***************************************************************************)
CheckAot_NoModuleHash(a, outs) ==
  outs # None /\ a.manifest # None /\ \A m \in Listed(a.manifest.files) : a.files[m] = a.manifest.files[m]

(* The artifacts of the manifest are there, and made for the modules outs. *)
(* They are looked for among the generated ones; no command writes the     *)
(* other place that is tried, the crate's own directory, which git ignores *)
(* (in a staged workspace it holds a copy of the same files).              *)
CheckAotPackageManifest(a, outs) ==
  /\ outs # None
  /\ a.manifest # None
  /\ \A m \in Listed(a.manifest.files) :
       /\ a.files[m] = a.manifest.files[m]
       /\ outs[m] = a.manifest.mods[m]

CanonicalAssetLayout(g) == {"runtime", "initdb"} \subseteq Listed(g.mods)

GeneratedManifestOk(g, pins) == g.manifest # None /\ g.manifest.pins = pins

TemplateHashOk_Present(g) == g.template # None

TemplateHashOk(g) == g.template # None /\ g.template = g.manifest.template

AssetManifestHashesOk(g) ==
  /\ \A m \in Listed(g.manifest.mods) : g.mods[m] = g.manifest.mods[m]
  /\ TemplateHashOk(g)

(* The extensions packaged, promoted in the committed catalogue and        *)
(* offered by the committed constants.                                     *)
ExtensionSurfaceOk(g, c, constants) ==
  /\ Packaged(g) = c.promoted
  /\ Packaged(g) \subseteq constants
  /\ Packaged(g) \subseteq g.manifest.passed

(* The export list is computed from the recorded build outputs if there    *)
(* are any, from the packaged manifest otherwise, and without either from  *)
(* what is found in the build directory.                                   *)
ExportListFromModules(outs) ==
  IF ModuleLinkMetadataOk(outs) /\ LinkClosure(outs) THEN RequiredExports(outs) ELSE None

WasixExportList(recorded, g, found) ==
  CASE recorded # None -> ExportListFromModules(recorded)
    [] g.manifest # None -> ExportListFromModules(g.manifest.mods)
    [] found # None -> ExportListFromModules(found)
    [] OTHER -> None

FoundOutputs == IF BuildOutputsOk(Packaged(gen)) THEN BuildOutputs ELSE None

(* In the staged workspace, which has no build directory.                  *)
GeneratedWasixExportListOk(g, list) == list = WasixExportList(None, g, None)

GeneratedOk(g, pins, c, constants) ==
  /\ CanonicalAssetLayout(g)
  /\ GeneratedManifestOk(g, pins)
  /\ AssetManifestHashesOk(g)
  /\ ExtensionSurfaceOk(g, c, constants)

InstallLocalOk(t) ==
  /\ GeneratedOk(gen, tree.pins, catalog, api)
  /\ CheckAotPackageManifest(genAot[t], DiscoverForAot)

(* What the library asks of the artifact of m when it starts: it is listed *)
(* for exactly the module that the asset manifest names.                   *)
StartupAccepts(g, a, m) ==
  /\ m \in Listed(a.manifest.files)
  /\ a.manifest.mods[m] = g.manifest.mods[m]
=============================================================================
