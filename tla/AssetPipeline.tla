---------------------------- MODULE AssetPipeline ----------------------------
(***************************************************************************)
(* The commands of xtask that a developer, the Assets workflow and the     *)
(* Release workflow run, one at a time: `extensions', `assets fetch',      *)
(* `build', `package', `template', `aot', `package-aot', `release-build',  *)
(* `download', `input-fingerprint' and `release dry-run'.  The tracked     *)
(* inputs and the checkouts may be edited at any time, also while a        *)
(* command runs; any step may fail on its own (network, disk, a killed     *)
(* process), and what it has done by then stays.                           *)
(*                                                                         *)
(* The commands that only check (`assets check', `check-aot',              *)
(* `install-local') are predicates of AssetPackage.                        *)
(***************************************************************************)
EXTENDS AssetPackage

CONSTANTS
  FirstTree,      \* the tracked inputs of a fresh clone
  CiRuns,         \* the inputs of the successful Assets runs, newest first
  MaxCommands,    \* commands that are run
  MaxEvents       \* edits and faults, together

(* An Assets run makes the checks of a release build, those of the exports *)
(* and imports among them.                                                 *)
ASSUME RunsAssumption ==
  /\ FirstTree \in Trees
  /\ CiRuns \in Seq(Trees) /\ CiRuns # <<>>
  /\ \A i \in DOMAIN CiRuns :
       ModuleLinkMetadataOk(BuildOf(CiRuns[i])) /\ LinkClosure(BuildOf(CiRuns[i]))
  /\ MaxCommands \in Nat /\ MaxEvents \in Nat

VARIABLES
  fpFile,         \* the committed asset-input fingerprint
  stage,          \* target/pglite-oxide/release/workspace, or None
  done,           \* whether the command `run' has succeeded, and no edit since
  commands, events

vars == <<tree, catalogVars, buildVars, packageVars, exportVars, cmd, run, mods,
          fpFile, stage, done, commands, events>>

Idle == cmd = <<>>

Init ==
  /\ tree = FirstTree
  /\ CatalogInit /\ BuildInit /\ PackageInit
  /\ cmd = <<>>
  /\ run = [name |-> "none", flags |-> {}, target |-> None, pins |-> FirstTree.pins,
            steady |-> TRUE, rest |-> <<>>, cat |-> catalog]
  /\ fpFile = FirstTree
  /\ stage = None
  /\ done = FALSE
  /\ commands = 0 /\ events = 0

(***************************************************************************)
(* The commands, as sequences of steps <<operation, arguments>>.           *)
(***************************************************************************)
FetchSteps == SetToSeq({<<"fetch", s>> : s \in Sources}) \o <<<<"spine">>>>

OutputSteps == <<<<"outputs">>, <<"build-manifest">>, <<"closure">>>>

BuildSteps == <<<<"runtime">>, <<"initdb">>, <<"pgxs">>>> \o OutputSteps

PortableSteps ==
  OutputSteps \o <<<<"clear">>, <<"put-runtime">>, <<"put-tools">>, <<"put-extensions">>>>

TemplateSteps == <<<<"clear-template">>, <<"template">>>>

AotSteps(t) == <<<<"serialize", t>>>>

PackageAotSteps(t) == <<<<"clear-aot", t>>, <<"copy-aot", t>>>>

(* `assets package' packages the artifacts that happen to be there; the    *)
(* release build packages those that it generates afterwards.              *)
PackageSteps(t, includeAot) ==
  PortableSteps \o (IF includeAot THEN PackageAotSteps(t) ELSE <<>>)
    \o TemplateSteps \o <<<<"manifest">>>>

ReleaseBuildSteps_ReuseAot(t, flags) ==
  (IF "fetch" \in flags THEN FetchSteps ELSE <<<<"spine">>>>)
    \o (IF "skip-build" \in flags THEN <<>> ELSE BuildSteps)
    \o PackageSteps(t, "skip-aot" \notin flags) \o <<<<"check-generated">>>>

ReleaseBuildSteps(t, flags) ==
  (IF "fetch" \in flags THEN FetchSteps ELSE <<<<"spine">>>>)
    \o (IF "skip-build" \in flags THEN <<>> ELSE BuildSteps)
    \o PackageSteps(t, FALSE) \o <<<<"check-generated">>>>
    \o (IF "skip-aot" \in flags THEN <<>>
        ELSE AotSteps(t) \o PackageAotSteps(t) \o <<<<"check-aot", t>>>>)

Downloaded_Any(c) == TRUE

(* The fingerprint in the download against the committed file; neither is  *)
(* computed again.  That of the download is the file which was committed   *)
(* in its run, and which that run's verify-committed found to be that of   *)
(* its inputs.                                                             *)
VerifyDownloadedFingerprint(c) == c = fpFile

DownloadSteps(c, t) ==
  <<<<"verify-fingerprint", c>>, <<"install-assets", c>>, <<"install-aot", c, t>>,
    <<"install-local", t>>, <<"end">>>>

Start(name, flags, t, rest, steps) ==
  /\ Idle
  /\ commands < MaxCommands
  /\ commands' = commands + 1
  /\ cmd' = steps
  /\ run' = [name |-> name, flags |-> flags, target |-> t, pins |-> tree.pins,
             steady |-> TRUE, rest |-> rest, cat |-> DiscoverCatalog(tree, Packaged(gen))]
  /\ mods' = NoMods
  /\ done' = FALSE
  /\ UNCHANGED <<tree, catalogVars, buildVars, packageVars, exportVars, fpFile, stage, events>>

End == <<<<"end">>>>

Extensions ==
  \/ Start("discover", {}, None, <<>>, <<<<"discover">>, <<"catalog">>>> \o End)
  \/ Start("build-plan", {}, None, <<>>, <<<<"discover">>, <<"plan">>>> \o End)
  \/ Start("generate", {}, None, <<>>, <<<<"discover">>, <<"catalog">>, <<"plan">>, <<"api">>>> \o End)

BuildCommands ==
  \/ Start("build", {}, None, <<>>, BuildSteps \o End)
  \/ Start("template", {}, None, <<>>, <<<<"outputs">>>> \o TemplateSteps \o End)
  \/ Start("fetch", {}, None, <<>>, FetchSteps \o End)
  \/ \E t \in Targets, flags \in SUBSET {"fetch", "skip-build", "skip-aot"} :
       Start("release-build", flags, t, <<>>, ReleaseBuildSteps(t, flags) \o End)

PackageCommands ==
  \/ \E t \in Targets :
       \/ Start("package", {}, t, <<>>, PackageSteps(t, TRUE) \o End)
       \/ Start("package-aot", {}, t, <<>>,
                <<<<"aot-outputs">>>> \o PackageAotSteps(t) \o <<<<"check-aot", t>>>> \o End)
       \/ Start("aot", {}, t, <<>>, AotSteps(t) \o End)
  \/ Start("export-list", {}, None, <<>>, <<<<"export-list">>>> \o End)
  \/ Start("input-fingerprint", {}, None, <<>>, <<<<"fingerprint">>>> \o End)

Assets == BuildCommands \/ PackageCommands

(* --release: the assets attached to a release are those of an Assets run. *)
DownloadAssetsFromRelease(t) ==
  Start("download", {"release"}, t, <<>>, DownloadSteps(Last(CiRuns), t))

(* --run-id and --sha name one run; --latest-compatible tries all.         *)
AssetDownloadRunCandidates == {<<CiRuns[i]>> : i \in DOMAIN CiRuns} \cup {CiRuns}

Download ==
  \E t \in Targets :
    \/ DownloadAssetsFromRelease(t)
    \/ \E runs \in AssetDownloadRunCandidates :
         Start("download", {}, t, Tail(runs), DownloadSteps(Head(runs), t))

Release == Start("dry-run", {}, None, <<>>, <<<<"stage">>, <<"validate">>>> \o End)

(***************************************************************************)
(* What each step checks before it does anything.                          *)
(***************************************************************************)
Accepts(s) ==
  CASE s[1] = "fetch" -> EnsureCleanCheckout(s[2])
    [] s[1] = "spine" -> CheckSourceSpine
    [] s[1] = "runtime" -> head["postgres"] # None
    [] s[1] = "initdb" -> Configured
    [] s[1] = "pgxs" -> Configured /\ RuntimeBuilt /\ \A e \in plan : head[e] # None
    [] s[1] = "outputs" -> BuildOutputsOk(Packaged(gen))
    [] s[1] = "build-manifest" -> ModuleLinkMetadataOk(mods)
    [] s[1] = "closure" -> LinkClosure(mods)
    [] s[1] = "put-extensions" -> PromotedExtensionsOk
    [] s[1] = "manifest" -> Discoverable(Packaged(gen))
    [] s[1] = "check-generated" -> CanonicalAssetLayout(gen) /\ GeneratedManifestOk(gen, run.pins)
    [] s[1] \in {"aot-outputs", "serialize"} -> DiscoverForAot # None
    [] s[1] = "clear-aot" -> aotDir[s[2]] # None
    [] s[1] = "copy-aot" -> AotSourcesOk(s[2])
    [] s[1] = "check-aot" -> CheckAotPackageManifest(genAot[s[2]], DiscoverForAot)
    [] s[1] = "verify-fingerprint" -> VerifyDownloadedFingerprint(s[2])
    [] s[1] = "install-local" -> InstallLocalOk(s[2])
    [] s[1] = "discover" -> Discoverable(Packaged(gen))
    [] s[1] = "export-list" -> WasixExportList(buildManifest, gen, FoundOutputs) # None
    [] s[1] = "stage" -> gen.manifest # None /\ gen.mods["runtime"] # None
    [] s[1] = "validate" ->
         /\ GeneratedOk(stage.gen, stage.tree.pins, stage.catalog, stage.api)
         /\ GeneratedWasixExportListOk(stage.gen, stage.exportList)
         /\ \A t \in Targets :
              CheckAotPackageManifest(stage.aot[t], FromPackagedAssets(stage.gen))
    [] OTHER -> TRUE

Step(op) == ~Idle /\ Head(cmd)[1] = op
Arg(i) == Head(cmd)[i]

Perform(op) ==
  /\ Step(op)
  /\ Accepts(Head(cmd))
  /\ cmd' = Tail(cmd)
  /\ UNCHANGED <<tree, run, fpFile, stage, done, commands, events>>

UnchangedMaking == UNCHANGED <<buildVars, mods>>

(***************************************************************************)
(* The steps.                                                              *)
(***************************************************************************)
BuildStep ==
  /\ UNCHANGED <<catalogVars, packageVars, exportVars>>
  /\ \/ Perform("fetch") /\ FetchPinnedSource(Arg(2))
     \/ Perform("spine") /\ UnchangedMaking
     \/ Perform("runtime") /\ DockerPglite
     \/ Perform("initdb") /\ DockerInitdb
     \/ Perform("pgxs") /\ DockerPgxsExtensions(plan, {})
     \/ Perform("outputs") /\ mods' = BuildOutputs /\ UNCHANGED buildVars
     \/ Perform("aot-outputs") /\ mods' = DiscoverForAot /\ UNCHANGED buildVars

RecordStep ==
  /\ UnchangedMaking
  /\ UNCHANGED <<catalogVars, packageVars>>
  /\ \/ Perform("build-manifest") /\ buildManifest' = mods /\ UNCHANGED exportList
     \/ Perform("closure") /\ UNCHANGED exportVars
     \/ /\ Perform("export-list")
        /\ exportList' = WasixExportList(buildManifest, gen, FoundOutputs)
        /\ UNCHANGED buildManifest

PackageStep ==
  /\ UnchangedMaking
  /\ UNCHANGED <<catalogVars, exportVars>>
  /\ \/ /\ UNCHANGED <<aotDir, genAot>>
        /\ \/ Perform("clear") /\ ClearAssets
           \/ Perform("put-runtime") /\ StageRuntimeTree
           \/ Perform("put-tools") /\ CopyTools
           \/ Perform("put-extensions") /\ PackagePromotedExtensions(PromotedBuildSpecs(tree))
           \/ Perform("clear-template") /\ ClearTemplate
           \/ Perform("template") /\ GeneratePgdataTemplate
           \/ Perform("manifest") /\ WriteAssetManifest
           \/ Perform("check-generated") /\ UNCHANGED gen
     \/ Perform("serialize") /\ GenerateAotArtifacts(Arg(2), Listed(DiscoverForAot)) /\ UNCHANGED <<gen, genAot>>
     \/ Perform("clear-aot") /\ ClearAot(Arg(2)) /\ UNCHANGED <<gen, aotDir>>
     \/ Perform("copy-aot") /\ PackageAotArtifacts(Arg(2)) /\ UNCHANGED <<gen, aotDir>>
     \/ Perform("check-aot") /\ UNCHANGED packageVars

CatalogStep ==
  /\ UnchangedMaking
  /\ UNCHANGED <<packageVars, exportVars>>
  /\ \/ Perform("discover") /\ UNCHANGED catalogVars
     \/ Perform("catalog") /\ WriteCatalog(run.cat)
     \/ Perform("plan") /\ WriteBuildPlan(run.cat)
     \/ Perform("api") /\ WriteGeneratedApi(run.cat)

(* The artifacts of an Assets run of the inputs c.                         *)
CiAssets(c) ==
  LET made == BuildOf(c) template == TemplateBy(BuildOf(c), "ci") IN
  [mods |-> made, template |-> template,
   manifest |-> [mods |-> made, template |-> template, pins |-> c.pins, passed |-> c.passed]]

CiAot(c) == [files |-> BuildOf(c), manifest |-> [files |-> BuildOf(c), mods |-> BuildOf(c)]]

(* copy_dir_all copies on top of what is there: a file the download lacks  *)
(* stays.                                                                  *)
OnTop(new, old) == [m \in Modules |-> IF new[m] # None THEN new[m] ELSE old[m]]

InstallDownloadedArtifacts ==
  /\ UnchangedMaking
  /\ UNCHANGED <<catalogVars, exportVars>>
  /\ \/ Perform("verify-fingerprint") /\ UNCHANGED packageVars
     \/ /\ Perform("install-assets")
        /\ gen' = [CiAssets(Arg(2)) EXCEPT !.mods = OnTop(@, gen.mods)]
        /\ UNCHANGED <<aotDir, genAot>>
     \/ /\ Perform("install-aot")
        /\ genAot' = [genAot EXCEPT ![Arg(3)] =
             [CiAot(Arg(2)) EXCEPT !.files = OnTop(@, genAot[Arg(3)].files)]]
        /\ UNCHANGED <<gen, aotDir>>
     \/ Perform("install-local") /\ UNCHANGED packageVars

UnchangedFiles == UNCHANGED <<tree, catalogVars, buildVars, packageVars, exportVars, mods>>

StageReleaseWorkspace ==
  /\ Step("stage") /\ Accepts(Head(cmd))
  /\ stage' = [tree |-> tree, catalog |-> catalog, api |-> api,
               exportList |-> exportList, gen |-> gen, aot |-> genAot]
  /\ cmd' = Tail(cmd)
  /\ UnchangedFiles
  /\ UNCHANGED <<run, fpFile, done, commands, events>>

ValidateRelease == Perform("validate") /\ UnchangedFiles

WriteFingerprint ==
  /\ Step("fingerprint")
  /\ fpFile' = tree
  /\ cmd' = Tail(cmd)
  /\ UnchangedFiles
  /\ UNCHANGED <<run, stage, done, commands, events>>

Finish ==
  /\ Step("end")
  /\ cmd' = <<>>
  /\ done' = run.steady
  /\ UnchangedFiles
  /\ UNCHANGED <<run, fpFile, stage, commands, events>>

(***************************************************************************)
(* Failure: `download --latest-compatible' tries the next run, any other   *)
(* command ends.                                                           *)
(***************************************************************************)
Abort ==
  /\ IF run.rest = <<>> THEN cmd' = <<>> /\ run' = run
     ELSE /\ cmd' = DownloadSteps(Head(run.rest), run.target)
          /\ run' = [run EXCEPT !.rest = Tail(@)]
  /\ UNCHANGED <<tree, catalogVars, exportVars, fpFile, done, commands>>

Refuse ==
  /\ ~Idle
  /\ ~Accepts(Head(cmd))
  /\ Abort
  /\ UNCHANGED <<buildVars, packageVars, mods, stage, events>>

(* A step breaks off.  Before it has changed anything, or half way.        *)
Break ==
  /\ ~Idle
  /\ events < MaxEvents
  /\ events' = events + 1
  /\ Accepts(Head(cmd))
  /\ Abort

BuildBreaks ==
  /\ Break
  /\ UNCHANGED <<packageVars, stage>>
  /\ \/ UNCHANGED <<buildVars, mods>>
     \/ Step("runtime") /\ DockerPgliteInterrupted
     \/ Step("initdb") /\ DockerInitdbInterrupted
     \/ \E made, cut \in SUBSET plan :
          Step("pgxs") /\ Cardinality(cut) <= 1 /\ DockerPgxsExtensions(made, cut)

PackageBreaks ==
  /\ Break
  /\ UnchangedMaking
  /\ \E some \in SUBSET Modules :
       \/ /\ Step("put-extensions") /\ some \subseteq PromotedBuildSpecs(tree)
          /\ PackagePromotedExtensions(some)
          /\ UNCHANGED <<aotDir, genAot, stage>>
       \/ /\ Step("serialize") /\ some \subseteq Listed(DiscoverForAot)
          /\ GenerateAotArtifacts(Arg(2), some)
          /\ UNCHANGED <<gen, genAot, stage>>
       \/ /\ Step("copy-aot") /\ some \subseteq Listed(mods)
          /\ PackageAotInterrupted(Arg(2), some)
          /\ UNCHANGED <<gen, aotDir, stage>>
       \/ /\ Step("install-assets")
          /\ \E template, manifest \in BOOLEAN :
               gen' = [mods |-> [m \in Modules |->
                                   IF m \in some THEN OnTop(CiAssets(Arg(2)).mods, gen.mods)[m]
                                   ELSE gen.mods[m]],
                       template |-> IF template THEN CiAssets(Arg(2)).template ELSE gen.template,
                       manifest |-> IF manifest THEN CiAssets(Arg(2)).manifest ELSE gen.manifest]
          /\ UNCHANGED <<aotDir, genAot, stage>>
       \/ /\ Step("install-aot")
          /\ \E manifest \in BOOLEAN :
               genAot' = [genAot EXCEPT ![Arg(3)] =
                 [files |-> [m \in Modules |->
                    IF m \in some THEN OnTop(CiAot(Arg(2)).files, @.files)[m] ELSE @.files[m]],
                  manifest |-> IF manifest THEN CiAot(Arg(2)).manifest ELSE @.manifest]]
          /\ UNCHANGED <<gen, aotDir, stage>>
       \/ /\ Step("stage")
          /\ stage' = None
          /\ UNCHANGED packageVars

(***************************************************************************)
(* The people who work on the tree.                                        *)
(***************************************************************************)
Edit ==
  /\ events < MaxEvents
  /\ events' = events + 1
  /\ done' = FALSE
  /\ run' = [run EXCEPT !.steady = FALSE]
  /\ UNCHANGED <<catalogVars, work, sig, built, head, packageVars, exportVars, cmd, mods,
                 fpFile, stage, commands>>

EditInputs ==
  /\ Edit
  /\ \E t \in Trees \ {tree} : tree' = t
  /\ UNCHANGED dirty

EditCheckout ==
  /\ Edit
  /\ \E s \in Sources :
       /\ head[s] # None
       /\ dirty' = IF s \in dirty THEN dirty \ {s} ELSE dirty \cup {s}
  /\ UNCHANGED tree

Next ==
  \/ Extensions \/ Assets \/ Download \/ Release
  \/ BuildStep \/ RecordStep \/ PackageStep \/ CatalogStep \/ InstallDownloadedArtifacts
  \/ StageReleaseWorkspace \/ ValidateRelease \/ WriteFingerprint \/ Finish
  \/ Refuse \/ BuildBreaks \/ PackageBreaks
  \/ EditInputs \/ EditCheckout

Spec == Init /\ [][Next]_vars

(***************************************************************************)
(* Properties.                                                             *)
(***************************************************************************)
Succeeded(name) == done /\ run.name = name

(* A release build that built, with extension files that `extensions       *)
(* check' accepts, leaves the modules of the pinned commits and of the     *)
(* current patch, and a manifest that says so, whatever was built, edited  *)
(* or broken off before it.                                                *)
BuiltFromThePins ==
  (Succeeded("release-build") /\ "skip-build" \notin run.flags /\ ExtensionsCheckOk) =>
    gen.mods = BuildOf(tree) /\ gen.manifest.mods = gen.mods /\ gen.manifest.pins = tree.pins

(* After a release build that generates artifacts, and after a download,   *)
(* every packaged module has an artifact, listed and compiled from it.     *)
ArtifactsOfTheModules ==
  (\/ Succeeded("release-build") /\ "skip-aot" \notin run.flags
   \/ Succeeded("download")) =>
    LET a == genAot[run.target] IN
    \A m \in Listed(gen.manifest.mods) : StartupAccepts(gen, a, m) /\ a.files[m] = gen.mods[m]

(* Whenever the strict checks of the generated assets pass, the template   *)
(* was made by the packaged runtime and initdb, and the packaged runtime   *)
(* exports what each packaged extension imports.                           *)
PackagedTogether ==
  GeneratedOk(gen, tree.pins, catalog, api) =>
    /\ gen.template.runtime = gen.mods["runtime"]
    /\ gen.template.initdb = gen.mods["initdb"]
    /\ LinkClosure(FromPackagedAssets(gen))

(* A download that succeeds while the committed fingerprint is that of the *)
(* tracked inputs has installed the assets of those inputs.                *)
DownloadedForThisTree ==
  (Succeeded("download") /\ fpFile = tree) =>
    /\ gen.manifest.mods = BuildOf(tree)
    /\ \A m \in Listed(gen.manifest.mods) : gen.mods[m] = gen.manifest.mods[m]

(* Some artifact is listed for a module that it was not compiled from.  No *)
(* later check can tell.                                                   *)
Mislabelled(a) ==
  a.manifest # None /\ \E m \in Listed(a.manifest.files) : a.manifest.files[m] # a.manifest.mods[m]

(* `package' and `package-aot' take the artifacts that happen to be in the *)
(* build directory and may label them wrongly.  A download never does, and *)
(* a release build only if an input or a checkout is edited under it:      *)
(* whatever earlier commands left, and also when they break off half way.  *)
LabelledAsCompiled ==
  [][\A t \in Targets :
       (run.name = "download" \/ (run.name = "release-build" /\ run.steady)) =>
         (Mislabelled(genAot'[t]) => Mislabelled(genAot[t]))]_vars

(* A validated release workspace holds, for every target, only artifacts   *)
(* that the library will accept for the modules its manifest lists, and a  *)
(* committed export list with all that those extensions import.  A file    *)
(* that an earlier build left and no manifest lists is not loaded: the     *)
(* library looks there for the hash of a module first.                     *)
ReleaseStarts ==
  Succeeded("dry-run") =>
    /\ RequiredExports(FromPackagedAssets(stage.gen)) \subseteq stage.exportList
    /\ \A t \in Targets : \A m \in Listed(stage.aot[t].manifest.files) :
         StartupAccepts(stage.gen, stage.aot[t], m)
=============================================================================
