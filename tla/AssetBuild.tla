----------------------------- MODULE AssetBuild -----------------------------
(***************************************************************************)
(* xtask/src/main.rs, first half of the asset pipeline: the checkouts of   *)
(* the upstream sources at the commits pinned in assets/sources.toml, and  *)
(* the build directory that the Docker scripts fill with WASM modules.     *)
(*                                                                         *)
(* A module is named by what it was compiled from: the PostgreSQL commit,  *)
(* the WASIX patch and, for an extension, the state of its own checkout.   *)
(* Compiling the same inputs again gives the same module.  `initdb' stands *)
(* for the runtime-support modules and pg_dump as well, which are built    *)
(* and packaged in the same way.                                           *)
(*                                                                         *)
(* A command of the tool is a sequence of steps, `cmd', one step for each  *)
(* call that reads or changes what is on the disk.  A step that its checks *)
(* refuse ends the command (AssetPipeline).                                *)
(***************************************************************************)
EXTENDS ExtensionCatalog

CONSTANTS
  None,
  Commits,        \* commits of the upstream repositories
  Patches,        \* contents of postgres-pglite-wasix-dl.patch and the bridge
  SoundPatches,   \* those in which the source spine finds what it looks for
  Exports,        \* [Patches -> SUBSET symbols]: what the runtime exports
  Imports,        \* [Commits -> SUBSET symbols]: what an extension imports
  Changed         \* the state of a checkout with uncommitted changes

ASSUME SymbolsAssumption ==
  /\ SoundPatches \subseteq Patches
  /\ DOMAIN Exports = Patches
  /\ DOMAIN Imports = Commits

Sources == {"postgres"} \cup Exts
Modules == {"runtime", "initdb"} \cup Exts
Abi == {"abi"}    \* the exports that the Rust side calls

VARIABLES
  head,           \* the commit checked out for each source, or None
  dirty,          \* the checkouts with uncommitted changes
  work,           \* whether the patched source tree has been made
  sig,            \* the commit and patch the build directory is configured for
  built,          \* the modules in the build directory
  cmd,            \* the steps left of the command that is running
  run,            \* the command that is running or ran last
  mods            \* the build outputs that command works on

buildVars == <<head, dirty, work, sig, built>>

NoMods == [m \in Modules |-> None]
Listed(x) == {m \in Modules : x[m] # None}

(* What compiling module m gives.                                          *)
Content(m, postgres, patch, own) == <<m, postgres, patch, own>>

ASSUME InputsAssumption ==
  /\ {"postgres", "runtime", "initdb"} \cap Exts = {}
  /\ Trees \subseteq [pins : [Sources -> Commits], patch : Patches,
                      requested : SUBSET Exts, passed : SUBSET Exts]
  /\ \A m \in Modules, commit \in Commits \cup {None}, patch \in Patches,
        own \in Commits \cup {None, Changed} : Content(m, commit, patch, own) # None

(* The modules that a clean build of the tracked inputs t gives.           *)
BuildOf(t) ==
  [m \in Modules |->
    CASE m \in {"runtime", "initdb"} -> Content(m, t.pins["postgres"], t.patch, None)
      [] m \in t.requested -> Content(m, t.pins["postgres"], t.patch, t.pins[m])
      [] OTHER -> None]

BuildInit ==
  /\ head = [s \in Sources |-> None]
  /\ dirty = {}
  /\ work = FALSE
  /\ sig = None
  /\ built = NoMods
  /\ mods = NoMods

(***************************************************************************)
(* Sources.                                                                *)
(***************************************************************************)
EnsureCleanCheckout(s) == s \notin dirty

FetchPinnedSource(s) ==
  /\ head' = [head EXCEPT ![s] = run.pins[s]]
  /\ UNCHANGED <<dirty, work, sig, built, mods>>

AllManifestSourceCheckouts ==
  \A s \in Sources : head[s] = run.pins[s] /\ s \notin dirty

(* The exports, macros and hooks that are looked for in the patch, the     *)
(* bridge and the upstream sources are there.                              *)
MarkersFound == tree.patch \in SoundPatches

(* Mutant: the checkouts are not compared with the pins.                   *)
CheckSourceSpine_PatchOnly == MarkersFound

CheckSourceSpine ==
  /\ AllManifestSourceCheckouts
  /\ MarkersFound

(***************************************************************************)
(* The Docker scripts.  Each makes the patched source tree of the current  *)
(* PostgreSQL commit and patch first; all but the first refuse a build     *)
(* directory that is configured for another one, and the extensions also   *)
(* want the runtime.                                                       *)
(***************************************************************************)
PatchedSource == <<head["postgres"], tree.patch>>

Configured == sig = PatchedSource

RuntimeBuilt == built["runtime"] # None

Compiled(m, own) == Content(m, head["postgres"], tree.patch, own)

(* A build directory of another commit or patch is removed as a whole.     *)
Reconfigured == IF sig = PatchedSource THEN built ELSE NoMods

DockerPglite ==
  /\ work' = TRUE
  /\ sig' = PatchedSource
  /\ built' = [Reconfigured EXCEPT !["runtime"] = Compiled("runtime", None)]
  /\ UNCHANGED <<head, dirty, mods>>

(* The signature is written before make runs.                              *)
DockerPgliteInterrupted ==
  /\ work' = TRUE
  /\ sig' = PatchedSource
  /\ built' = Reconfigured
  /\ UNCHANGED <<head, dirty, mods>>

DockerInitdb ==
  /\ built' = [built EXCEPT !["initdb"] = Compiled("initdb", None)]
  /\ UNCHANGED <<head, dirty, work, sig, mods>>

(* make clean comes first.                                                 *)
DockerInitdbInterrupted ==
  /\ built' = [built EXCEPT !["initdb"] = None]
  /\ UNCHANGED <<head, dirty, work, sig, mods>>

(* The extensions of the build plan, one after the other: the directory of *)
(* each is removed and made again from its checkout, uncommitted changes   *)
(* included.  Interrupted, only some are made, and one may be cut: removed *)
(* and not made again.                                                     *)
DockerPgxsExtensions(made, cut) ==
  /\ built' = [m \in Modules |->
       CASE m \in made -> Compiled(m, IF m \in dirty THEN Changed ELSE head[m])
         [] m \in cut \ made -> None
         [] OTHER -> built[m]]
  /\ UNCHANGED <<head, dirty, work, sig, mods>>

(***************************************************************************)
(* What the build left.                                                    *)
(***************************************************************************)
(* The catalogue is discovered in the checkouts.                           *)
Discoverable(packaged) ==
  /\ \A s \in Sources : head[s] # None
  /\ ValidCatalog(DiscoverCatalog(tree, packaged))

Wanted == {"runtime", "initdb"} \cup PromotedBuildSpecs(tree)

EnsureRequiredFiles == \A m \in Wanted : built[m] # None

BuildOutputsOk(packaged) == Discoverable(packaged) /\ EnsureRequiredFiles

BuildOutputs == [m \in Modules |-> IF m \in Wanted THEN built[m] ELSE None]

(* What is read from the sections of a module: the exports of a runtime,   *)
(* and the imports of an extension that the runtime must resolve.  An      *)
(* uncommitted change imports nothing new.                                 *)
LinkExports(module) == Exports[module[3]]
LinkImports(module) == IF module[4] = Changed THEN {} ELSE Imports[module[4]]

ModuleLinkMetadataOk(outs) == Abi \subseteq LinkExports(outs["runtime"])

(* What an extension imports is exported by the runtime beside it.         *)
LinkClosure(outs) ==
  \A e \in Exts \cap Listed(outs) : LinkImports(outs[e]) \subseteq LinkExports(outs["runtime"])
=============================================================================
