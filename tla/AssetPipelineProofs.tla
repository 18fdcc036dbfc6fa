------------------------- MODULE AssetPipelineProofs -------------------------
(***************************************************************************)
(* Proofs about AssetPipeline: whatever commands are run, broken off and   *)
(* edited under, what a release build, a download and a release dry run    *)
(* leave belongs together; for any extensions, inputs, targets and Assets  *)
(* runs.                                                                   *)
(*                                                                         *)
(* A command is a sequence of steps.  The proofs treat it as a program: a  *)
(* relation says which step may follow which, and an invariant says what   *)
(* holds when the command has come to a step.                              *)
(***************************************************************************)
EXTENDS AssetPipeline, FiniteSetTheorems, SequenceTheorems, TLAPS

-----------------------------------------------------------------------------
(* Types.                                                                  *)

CiTrees == {CiRuns[i] : i \in DOMAIN CiRuns}
Outs == {Content(m, commit, patch, own) : m \in Modules, commit \in Commits \cup {None},
           patch \in Patches, own \in Commits \cup {None, Changed}} \cup {None}
Outputs == [Modules -> Outs]
Names == {"none", "discover", "build-plan", "generate", "fetch", "build", "template", "export-list",
          "input-fingerprint", "package", "aot", "package-aot", "release-build", "download", "dry-run"}
Templates == [runtime : Outs, initdb : Outs, by : Names \cup {"ci"}]
Manifests ==
  [mods : Outputs, template : Templates \cup {None}, pins : [Sources -> Commits], passed : SUBSET Exts]
Catalogs == [requested : SUBSET Exts, promoted : SUBSET Exts]

TargetOps == {"serialize", "clear-aot", "copy-aot", "check-aot", "install-local"}
LoneOps ==
  {"spine", "runtime", "initdb", "pgxs", "outputs", "build-manifest", "closure", "clear",
   "put-runtime", "put-tools", "put-extensions", "clear-template", "template", "manifest",
   "check-generated", "aot-outputs", "discover", "catalog", "plan", "api", "export-list",
   "fingerprint", "stage", "validate", "end"}
Steps ==
  {<<op>> : op \in LoneOps}
    \cup {<<"fetch", s>> : s \in Sources}
    \cup {<<op, t>> : op \in TargetOps, t \in Targets}
    \cup {<<op, c>> : op \in {"verify-fingerprint", "install-assets"}, c \in CiTrees}
    \cup {<<"install-aot", c, t>> : c \in CiTrees, t \in Targets}

CatalogTypeOK == tree \in Trees /\ catalog \in Catalogs /\ plan \in SUBSET Exts /\ api \in SUBSET Exts
BuildTypeOK ==
  /\ head \in [Sources -> Commits \cup {None}] /\ dirty \in SUBSET Sources
  /\ built \in Outputs /\ mods \in Outputs
PackageTypeOK ==
  /\ gen \in [mods : Outputs, template : Templates \cup {None}, manifest : Manifests \cup {None}]
  /\ aotDir \in [Targets -> Outputs \cup {None}]
  /\ genAot \in [Targets -> [files : Outputs, manifest : [files : Outputs, mods : Outputs] \cup {None}]]
CommandTypeOK ==
  /\ cmd \in Seq(Steps)
  /\ run \in [name : Names, flags : SUBSET {"fetch", "skip-build", "skip-aot", "release"},
              target : Targets \cup {None}, pins : [Sources -> Commits], steady : BOOLEAN,
              rest : Seq(CiTrees), cat : Catalogs]
  /\ fpFile \in Trees /\ done \in BOOLEAN
  /\ commands \in 0 .. MaxCommands /\ events \in 0 .. MaxEvents
PipelineTypeOK == CatalogTypeOK /\ BuildTypeOK /\ PackageTypeOK /\ CommandTypeOK

-----------------------------------------------------------------------------
(* Which step may follow which.                                            *)

PackageEdges ==
  {<<"outputs", "build-manifest">>, <<"build-manifest", "closure">>, <<"closure", "clear">>,
   <<"clear", "put-runtime">>, <<"put-runtime", "put-tools">>, <<"put-tools", "put-extensions">>,
   <<"clear-template", "template">>, <<"template", "manifest">>}
CopyEdges ==
  {<<"put-extensions", "clear-aot">>, <<"clear-aot", "copy-aot">>, <<"copy-aot", "clear-template">>,
   <<"manifest", "end">>}
MakeEdges ==
  {<<"fetch", "fetch">>, <<"fetch", "spine">>, <<"runtime", "initdb">>, <<"initdb", "pgxs">>,
   <<"pgxs", "outputs">>, <<"closure", "outputs">>, <<"put-extensions", "clear-template">>,
   <<"manifest", "check-generated">>}
AotEdges ==
  {<<"check-generated", "serialize">>, <<"serialize", "clear-aot">>, <<"clear-aot", "copy-aot">>,
   <<"copy-aot", "check-aot">>, <<"check-aot", "end">>}
ReleaseBuildEdges(flags) ==
  PackageEdges \cup MakeEdges
    \cup {<<"spine", IF "skip-build" \in flags THEN "outputs" ELSE "runtime">>}
    \cup (IF "skip-aot" \in flags THEN {<<"check-generated", "end">>} ELSE AotEdges)
DownloadEdges ==
  {<<"verify-fingerprint", "install-assets">>, <<"install-assets", "install-aot">>,
   <<"install-aot", "install-local">>, <<"install-local", "end">>}
DryRunEdges == {<<"stage", "validate">>, <<"validate", "end">>}

(* The steps of the commands that package nothing, in any order.           *)
OtherOps ==
  {"discover", "catalog", "plan", "api", "fetch", "spine", "runtime", "initdb", "pgxs", "outputs",
   "build-manifest", "closure", "clear-template", "template", "export-list", "fingerprint",
   "serialize", "aot-outputs", "clear-aot", "copy-aot", "check-aot"}

Edges(name, flags) ==
  CASE name = "package" -> PackageEdges \cup CopyEdges
    [] name = "release-build" -> ReleaseBuildEdges(flags)
    [] name = "download" -> DownloadEdges
    [] name = "dry-run" -> DryRunEdges
    [] OTHER -> OtherOps \X (OtherOps \cup {"end"})

Follows(a, b, r) ==
  /\ <<a[1], b[1]>> \in Edges(r.name, r.flags)
  /\ b[1] \in TargetOps => b[2] = r.target
  /\ b[1] = "copy-aot" => a = <<"clear-aot", b[2]>>
  /\ b[1] = "install-assets" => b[2] = a[2]
  /\ b[1] = "install-aot" => b[2] = a[2] /\ b[3] = r.target

Chain(s, r) ==
  /\ s \in Seq(Steps) /\ s # <<>>
  /\ \A i \in 1 .. Len(s) - 1 : Follows(s[i], s[i + 1], r)

WellFormed == cmd # <<>> => Chain(cmd, run) /\ cmd[Len(cmd)] = <<"end">>

-----------------------------------------------------------------------------
(* What holds when the command has come to a step.                         *)

(* The step that is next; a command that has succeeded stays at its end.   *)
At == IF cmd # <<>> THEN cmd[1][1] ELSE IF done THEN "end" ELSE "none"

Packaging == run.name \in {"package", "release-build"}
BuildOps == {"fetch", "spine", "runtime", "initdb", "pgxs"}

Bookkeeping ==
  /\ done => cmd = <<>> /\ run.steady
  /\ run.rest # <<>> => run.name = "download"
  /\ run.name \in {"package", "release-build", "download"} => run.target \in Targets
  /\ run.steady => run.pins = tree.pins

(* The checkouts and the build directory, in a release build.              *)
AtPins == \A s \in Sources : head[s] = tree.pins[s] /\ s \notin dirty
Made ==
  (run.name = "release-build" /\ run.steady /\ At # "none") =>
    /\ At \notin {"fetch", "spine"} => AtPins
    /\ "skip-build" \notin run.flags =>
         /\ At \notin {"fetch", "spine", "runtime"} => built["runtime"] = Compiled("runtime", None)
         /\ At \notin {"fetch", "spine", "runtime", "initdb"} => built["initdb"] = Compiled("initdb", None)
         /\ At \notin BuildOps => \A e \in plan : built[e] = Compiled(e, head[e])

(* The outputs that are packaged.                                          *)
OutputsFound ==
  (Packaging /\ At \notin BuildOps \cup {"outputs", "none"}) =>
    /\ {"runtime", "initdb"} \subseteq Listed(mods)
    /\ run.steady => mods = BuildOutputs
OutputsLinked ==
  Packaging =>
    /\ At \notin BuildOps \cup {"outputs", "build-manifest", "none"} => ModuleLinkMetadataOk(mods)
    /\ At \notin BuildOps \cup {"outputs", "build-manifest", "closure", "none"} => LinkClosure(mods)

(* The assets that are put together.                                       *)
Put(some) == \A m \in Modules : gen.mods[m] = IF m \in some THEN mods[m] ELSE None
AllPut ==
  /\ gen.mods["runtime"] = mods["runtime"] /\ gen.mods["initdb"] = mods["initdb"]
  /\ \A e \in Exts : gen.mods[e] \in {mods[e], None}
  /\ run.steady => gen.mods = mods
Manifested == gen.manifest.mods = gen.mods /\ gen.manifest.pins = run.pins
Assembled ==
  Packaging =>
    /\ At = "put-runtime" => Put({})
    /\ At = "put-tools" => Put({"runtime"})
    /\ At = "put-extensions" => Put({"runtime", "initdb"})
    /\ At \in {"clear-template", "template", "manifest", "check-generated", "serialize", "clear-aot",
               "copy-aot", "check-aot", "end"} => AllPut
    /\ At = "manifest" => gen.template = TemplateBy(mods, run.name)
    /\ At \in {"check-generated", "serialize", "check-aot", "end"} => Manifested
    /\ run.name = "release-build" /\ At \in {"clear-aot", "copy-aot"} => Manifested
    /\ At = "serialize" => gen.manifest # None

(* The artifacts of a release build.                                       *)
ArtifactsMade ==
  (run.name = "release-build" /\ run.steady) =>
    /\ At \in {"clear-aot", "copy-aot"} => \A m \in Listed(mods) : aotDir[run.target][m] = mods[m]
    /\ (At = "check-aot" \/ (At = "end" /\ "skip-aot" \notin run.flags)) =>
         genAot[run.target] = [files |-> mods, manifest |-> [files |-> mods, mods |-> mods]]

(* A manifest, packaged here or downloaded, is of one build.               *)
ManifestOk(g) ==
  g.manifest # None =>
    LET outs == g.manifest.mods template == g.manifest.template IN
    /\ {"runtime", "initdb"} \subseteq Listed(outs)
    /\ ModuleLinkMetadataOk(outs) /\ LinkClosure(outs)
    /\ template # None => template.runtime = outs["runtime"] /\ template.initdb = outs["initdb"]

(* The artifacts that are copied have been looked for.                     *)
AotThere == At = "copy-aot" => aotDir[cmd[1][2]] # None

(* A step of a packaging command is for the command's target.              *)
AtTarget ==
  (run.name \in {"package", "release-build", "download"} /\ cmd # <<>>) =>
    /\ cmd[1][1] \in TargetOps => cmd[1][2] = run.target
    /\ cmd[1][1] = "install-aot" => cmd[1][3] = run.target

(* What a download has installed.                                          *)
AssetsOf(c) ==
  /\ gen.manifest = CiAssets(c).manifest
  /\ \A m \in Listed(BuildOf(c)) : gen.mods[m] = BuildOf(c)[m]
AotOf(c, a) ==
  /\ a.manifest = CiAot(c).manifest
  /\ \A m \in Listed(BuildOf(c)) : a.files[m] = BuildOf(c)[m]
Installed ==
  run.name = "download" =>
    /\ At \in {"install-assets", "install-aot"} => cmd[1][2] = fpFile
    /\ At \in {"install-aot", "install-local", "end"} => AssetsOf(fpFile)
    /\ At \in {"install-local", "end"} => AotOf(fpFile, genAot[run.target])

(* What a dry run has staged and validated.                                *)
Validated ==
  /\ stage.gen.manifest # None
  /\ AssetManifestHashesOk(stage.gen)
  /\ stage.exportList = WasixExportList(None, stage.gen, None)
  /\ \A t \in Targets : CheckAotPackageManifest(stage.aot[t], FromPackagedAssets(stage.gen))
Released ==
  run.name = "dry-run" =>
    /\ At \in {"validate", "end"} =>
         stage.gen.mods \in Outputs /\ stage.gen.manifest \in Manifests \cup {None} /\ ManifestOk(stage.gen)
    /\ At = "end" => Validated

PackagingInv == Made /\ OutputsFound /\ OutputsLinked /\ Assembled /\ ArtifactsMade

IndInv ==
  /\ PipelineTypeOK /\ WellFormed /\ Bookkeeping /\ AotThere /\ AtTarget
  /\ PackagingInv /\ ManifestOk(gen) /\ Installed /\ Released

-----------------------------------------------------------------------------
(* Commands as chains of steps.                                            *)

(* Nothing follows the end.                                                *)
LEMMA EndIsLast ==
  ASSUME NEW b, NEW name, NEW flags PROVE <<"end", b>> \notin Edges(name, flags)
BY DEF Edges, PackageEdges, CopyEdges, ReleaseBuildEdges, MakeEdges, AotEdges, DownloadEdges,
       DryRunEdges, OtherOps

(* A command that has not come to its end goes on with a step that may     *)
(* follow the one it has done.                                             *)
LEMMA ChainTail ==
  ASSUME NEW r, NEW s, Chain(s, r), s[Len(s)] = <<"end">>
  PROVE  /\ s[1] \in Steps /\ Head(s) = s[1] /\ Tail(s) \in Seq(Steps)
         /\ Tail(s) = <<>> <=> s[1][1] = "end"
         /\ Tail(s) # <<>> =>
              /\ Chain(Tail(s), r) /\ Tail(s)[Len(Tail(s))] = <<"end">>
              /\ Follows(s[1], Tail(s)[1], r)
<1>1. /\ s \in Seq(Steps) /\ Len(s) \in Nat /\ Len(s) > 0 /\ DOMAIN s = 1 .. Len(s)
      /\ Head(s) = s[1] /\ s[1] \in Steps
    BY DEF Chain
<1>2. /\ Tail(s) \in Seq(Steps) /\ Len(Tail(s)) = Len(s) - 1
      /\ \A i \in 1 .. Len(s) - 1 : Tail(s)[i] = s[i + 1]
    BY <1>1
<1>3. CASE Len(s) = 1
    <2>1. s[1] = <<"end">> BY <1>3
    <2>2. s[1][1] = "end" BY <2>1
    <2>3. Tail(s) = <<>> BY <1>1, <1>2, <1>3
    <2> QED BY <1>1, <1>2, <2>2, <2>3
<1>4. CASE Len(s) > 1
    <2>1. Tail(s) # <<>>
        <3>1. Len(Tail(s)) # 0 BY <1>1, <1>2, <1>4
        <3>2. Len(<<>>) = 0 OBVIOUS
        <3> QED BY <3>1, <3>2
    <2>2. Follows(s[1], s[2], r) BY <1>1, <1>4 DEF Chain
    <2>3. Tail(s)[1] = s[2] BY <1>1, <1>2, <1>4
    <2>4. s[1][1] # "end" BY <2>2, EndIsLast DEF Follows
    <2>5. Tail(s)[Len(Tail(s))] = <<"end">> BY <1>1, <1>2, <1>4
    <2>6. ASSUME NEW i \in 1 .. Len(Tail(s)) - 1
          PROVE  Follows(Tail(s)[i], Tail(s)[i + 1], r)
        <3>1. i + 1 \in 1 .. Len(s) - 1 /\ i \in 1 .. Len(s) - 1 BY <1>1, <1>2
        <3>2. Tail(s)[i] = s[i + 1] /\ Tail(s)[i + 1] = s[(i + 1) + 1] BY <1>2, <3>1
        <3> QED BY <3>1, <3>2 DEF Chain
    <2> QED BY <1>1, <1>2, <2>1, <2>2, <2>3, <2>4, <2>5, <2>6 DEF Chain
<1> QED BY <1>1, <1>3, <1>4

(* One step is a chain.                                                    *)
LEMMA ChainOne ==
  ASSUME NEW r, NEW a \in Steps
  PROVE  Chain(<<a>>, r) /\ <<a>>[1] = a /\ <<a>>[Len(<<a>>)] = a
<1>1. <<a>> \in Seq(Steps) /\ Len(<<a>>) = 1 /\ <<a>>[1] = a /\ <<a>> # <<>>
    OBVIOUS
<1>2. 1 .. Len(<<a>>) - 1 = {} BY <1>1
<1> QED BY <1>1, <1>2 DEF Chain

(* Two chains are one when the second may follow the first.                *)
LEMMA ChainConcat ==
  ASSUME NEW r, NEW s \in Seq(Steps), NEW u \in Seq(Steps),
         Chain(s, r), Chain(u, r), Follows(s[Len(s)], u[1], r)
  PROVE  /\ Chain(s \o u, r) /\ (s \o u)[1] = s[1]
         /\ (s \o u)[Len(s \o u)] = u[Len(u)]
<1>1. /\ s \in Seq(Steps) /\ u \in Seq(Steps) /\ Len(s) \in Nat /\ Len(s) > 0
      /\ Len(u) \in Nat /\ Len(u) > 0
    BY DEF Chain
<1>2. /\ s \o u \in Seq(Steps) /\ Len(s \o u) = Len(s) + Len(u)
      /\ \A i \in 1 .. Len(s) : (s \o u)[i] = s[i]
      /\ \A i \in Len(s) + 1 .. Len(s) + Len(u) : (s \o u)[i] = u[i - Len(s)]
    BY <1>1
<1>3. (s \o u)[1] = s[1] /\ (s \o u)[Len(s \o u)] = u[Len(u)] /\ s \o u # <<>>
    BY <1>1, <1>2
<1>4. ASSUME NEW i \in 1 .. Len(s \o u) - 1
      PROVE  Follows((s \o u)[i], (s \o u)[i + 1], r)
    <2>1. CASE i < Len(s)
        <3>1. i \in 1 .. Len(s) - 1 /\ i \in 1 .. Len(s) /\ i + 1 \in 1 .. Len(s) BY <1>1, <1>2, <2>1
        <3>2. (s \o u)[i] = s[i] /\ (s \o u)[i + 1] = s[i + 1] BY <1>2, <3>1
        <3> QED BY <3>1, <3>2 DEF Chain
    <2>2. CASE i = Len(s)
        <3>1. i \in 1 .. Len(s) /\ i + 1 \in Len(s) + 1 .. Len(s) + Len(u) /\ (i + 1) - Len(s) = 1
            BY <1>1, <1>2, <2>2
        <3>2. (s \o u)[i] = s[Len(s)] /\ (s \o u)[i + 1] = u[1] BY <1>2, <3>1, <2>2
        <3> QED BY <3>2
    <2>3. CASE i > Len(s)
        <3>1. /\ i - Len(s) \in 1 .. Len(u) - 1 /\ i \in Len(s) + 1 .. Len(s) + Len(u)
              /\ i + 1 \in Len(s) + 1 .. Len(s) + Len(u) /\ (i + 1) - Len(s) = (i - Len(s)) + 1
            BY <1>1, <1>2, <2>3
        <3>2. (s \o u)[i] = u[i - Len(s)] /\ (s \o u)[i + 1] = u[(i - Len(s)) + 1]
            BY <1>2, <3>1
        <3> QED BY <3>1, <3>2 DEF Chain
    <2> QED BY <1>1, <1>2, <2>1, <2>2, <2>3
<1> QED BY <1>2, <1>3, <1>4 DEF Chain

(* The steps of a command are steps.                                       *)
LEMMA StepTypes ==
  /\ \A op \in LoneOps : <<op>> \in Steps /\ <<op>>[1] = op
  /\ \A s \in Sources : <<"fetch", s>> \in Steps
  /\ \A op \in TargetOps, t \in Targets : <<op, t>> \in Steps
  /\ \A op \in {"verify-fingerprint", "install-assets"}, c \in CiTrees : <<op, c>> \in Steps
  /\ \A c \in CiTrees, t \in Targets : <<"install-aot", c, t>> \in Steps
BY DEF Steps

(* What a step that has arguments is given.                                *)
LEMMA StepArgs ==
  ASSUME NEW a \in Steps
  PROVE  /\ a[1] = "fetch" => a[2] \in Sources
         /\ a[1] \in TargetOps => a[2] \in Targets
         /\ a[1] \in {"verify-fingerprint", "install-assets", "install-aot"} => a[2] \in CiTrees
         /\ a[1] = "install-aot" => a[3] \in Targets
BY DEF Steps, LoneOps, TargetOps

(* The relation of each command.                                           *)
LEMMA EdgesOf ==
  ASSUME NEW flags
  PROVE  /\ Edges("package", flags) = PackageEdges \cup CopyEdges
         /\ Edges("release-build", flags) = ReleaseBuildEdges(flags)
         /\ Edges("download", flags) = DownloadEdges
         /\ Edges("dry-run", flags) = DryRunEdges
         /\ \A name : name \notin {"package", "release-build", "download", "dry-run"} =>
              Edges(name, flags) = OtherOps \X (OtherOps \cup {"end"})
BY DEF Edges

(* A step without arguments follows by its name alone.                     *)
LEMMA LoneFollows ==
  ASSUME NEW r, NEW a, NEW op \in LoneOps, <<a[1], op>> \in Edges(r.name, r.flags)
  PROVE  Follows(a, <<op>>, r)
<1>1. <<op>>[1] = op OBVIOUS
<1>2. op \notin TargetOps \cup {"copy-aot", "install-assets", "install-aot"} BY DEF LoneOps, TargetOps
<1> QED BY <1>1, <1>2 DEF Follows

(* A step of the command's target follows by its name, too.                *)
LEMMA TargetFollows ==
  ASSUME NEW r, NEW a, NEW op \in TargetOps, <<a[1], op>> \in Edges(r.name, r.flags),
         op = "copy-aot" => a = <<"clear-aot", r.target>>
  PROVE  Follows(a, <<op, r.target>>, r)
<1>1. <<op, r.target>>[1] = op /\ <<op, r.target>>[2] = r.target OBVIOUS
<1>2. op \notin {"install-assets", "install-aot"} BY DEF TargetOps
<1> QED BY <1>1, <1>2 DEF Follows

(* Short chains.                                                           *)
LEMMA ChainTwo ==
  ASSUME NEW r, NEW a \in Steps, NEW b \in Steps, Follows(a, b, r)
  PROVE  Chain(<<a, b>>, r) /\ <<a, b>>[1] = a /\ <<a, b>>[Len(<<a, b>>)] = b
<1>1. <<a, b>> \in Seq(Steps) /\ Len(<<a, b>>) = 2 /\ <<a, b>>[1] = a /\ <<a, b>>[2] = b /\ <<a, b>> # <<>>
    OBVIOUS
<1>2. 1 .. Len(<<a, b>>) - 1 = {1} BY <1>1
<1> QED BY <1>1, <1>2 DEF Chain

(* The same for three steps.                                               *)
LEMMA ChainThree ==
  ASSUME NEW r, NEW a \in Steps, NEW b \in Steps, NEW c \in Steps, Follows(a, b, r), Follows(b, c, r)
  PROVE  Chain(<<a, b, c>>, r) /\ <<a, b, c>>[1] = a /\ <<a, b, c>>[Len(<<a, b, c>>)] = c
<1>1. /\ <<a, b, c>> \in Seq(Steps) /\ Len(<<a, b, c>>) = 3 /\ <<a, b, c>> # <<>>
      /\ <<a, b, c>>[1] = a /\ <<a, b, c>>[2] = b /\ <<a, b, c>>[3] = c
    OBVIOUS
<1>2. 1 .. Len(<<a, b, c>>) - 1 = {1, 2} BY <1>1
<1> QED BY <1>1, <1>2 DEF Chain

(* The same for four steps.                                                *)
LEMMA ChainFour ==
  ASSUME NEW r, NEW a \in Steps, NEW b \in Steps, NEW c \in Steps, NEW d \in Steps,
         Follows(a, b, r), Follows(b, c, r), Follows(c, d, r)
  PROVE  Chain(<<a, b, c, d>>, r) /\ <<a, b, c, d>>[1] = a /\ <<a, b, c, d>>[Len(<<a, b, c, d>>)] = d
<1>1. /\ <<a, b, c, d>> \in Seq(Steps) /\ Len(<<a, b, c, d>>) = 4 /\ <<a, b, c, d>> # <<>>
      /\ <<a, b, c, d>>[1] = a /\ <<a, b, c, d>>[2] = b /\ <<a, b, c, d>>[3] = c /\ <<a, b, c, d>>[4] = d
    OBVIOUS
<1>2. 1 .. Len(<<a, b, c, d>>) - 1 = {1, 2, 3} BY <1>1
<1> QED BY <1>1, <1>2 DEF Chain

(* The steps of the commands that package nothing, for a target.           *)
OtherSteps(t) ==
  {a \in Steps : a[1] \in OtherOps \ {"copy-aot"} /\ (a[1] \in TargetOps => a[2] = t)}

(* They may be in any order.                                               *)
LEMMA OtherChain ==
  ASSUME NEW r, r.name \notin {"package", "release-build", "download", "dry-run"},
         NEW s \in Seq(OtherSteps(r.target)), s # <<>>
  PROVE  Chain(s \o End, r) /\ (s \o End)[Len(s \o End)] = <<"end">>
<1>1. Edges(r.name, r.flags) = OtherOps \X (OtherOps \cup {"end"}) BY EdgesOf
<1>2. /\ Len(s) \in Nat /\ Len(s) > 0 /\ s \in Seq(Steps)
      /\ \A i \in 1 .. Len(s) : s[i] \in OtherSteps(r.target)
    BY DEF OtherSteps
<1>3. Chain(s, r)
    <2>1. ASSUME NEW i \in 1 .. Len(s) - 1 PROVE Follows(s[i], s[i + 1], r)
        <3>1. i \in 1 .. Len(s) /\ i + 1 \in 1 .. Len(s) BY <1>2
        <3>2. s[i][1] \in OtherOps /\ s[i + 1][1] \in OtherOps /\ s[i + 1][1] # "copy-aot"
              /\ (s[i + 1][1] \in TargetOps => s[i + 1][2] = r.target)
            BY <1>2, <3>1 DEF OtherSteps
        <3>3. s[i + 1][1] \notin {"install-assets", "install-aot"} BY <3>2 DEF OtherOps
        <3> QED BY <1>1, <3>2, <3>3 DEF Follows
    <2> QED BY <1>2, <2>1 DEF Chain
<1>4. <<"end">> \in Steps BY StepTypes DEF LoneOps
<1>5. Chain(End, r) /\ End[1] = <<"end">> /\ End[Len(End)] = <<"end">> BY <1>4, ChainOne DEF End
<1>6. Follows(s[Len(s)], End[1], r)
    <2>1. s[Len(s)][1] \in OtherOps BY <1>2 DEF OtherSteps
    <2>2. <<s[Len(s)][1], "end">> \in Edges(r.name, r.flags) BY <1>1, <2>1
    <2> QED BY <1>5, <2>2, LoneFollows DEF LoneOps
<1>7. s \in Seq(Steps) /\ End \in Seq(Steps) BY <1>2, <1>5 DEF Chain
<1>8. Chain(s \o End, r) /\ (s \o End)[Len(s \o End)] = End[Len(End)]
    BY <1>3, <1>5, <1>6, <1>7, ChainConcat
<1> QED BY <1>5, <1>8

(* The sources are fetched one after the other, each once.                 *)
LEMMA FetchesTyped ==
  LET fetches == SetToSeq({<<"fetch", s>> : s \in Sources}) IN
  /\ fetches \in Seq({<<"fetch", s>> : s \in Sources})
  /\ fetches # <<>>
<1> DEFINE Fetches == {<<"fetch", s>> : s \in Sources}
<1>1. IsFiniteSet(Sources)
    BY DepsAssumption, FS_AddElement DEF Sources
<1>2. IsFiniteSet(Fetches)
    <2>1. [s \in Sources |-> <<"fetch", s>>] \in Bijection(Sources, Fetches)
        BY DEF Bijection, Injection, Surjection, IsInjective
    <2>2. ExistsBijection(Sources, Fetches)
        BY <2>1 DEF ExistsBijection
    <2> QED BY <1>1, <2>2, FS_Bijection
<1>3. Cardinality(Fetches) \in Nat /\ ExistsBijection(1 .. Cardinality(Fetches), Fetches)
    BY <1>2, FS_CardinalityType
<1>4. \E f \in [1 .. Cardinality(Fetches) -> Fetches] : IsInjective(f)
    BY <1>3 DEF ExistsBijection, Bijection, Injection
<1>5. SetToSeq(Fetches) \in [1 .. Cardinality(Fetches) -> Fetches]
    BY <1>4 DEF SetToSeq
<1>6. <<"fetch", "postgres">> \in Fetches
    BY DEF Sources
<1>7. Cardinality(Fetches) # 0
    BY <1>2, <1>6, FS_EmptySet
<1>8. SetToSeq(Fetches) \in Seq(Fetches)
    BY <1>3, <1>5, SeqDef
<1>9. SetToSeq(Fetches) # <<>>
    <2>1. DOMAIN SetToSeq(Fetches) = 1 .. Cardinality(Fetches) BY <1>5
    <2>2. 1 \in DOMAIN SetToSeq(Fetches) BY <1>3, <1>7, <2>1
    <2>3. DOMAIN <<>> = {} OBVIOUS
    <2> QED BY <2>2, <2>3
<1> QED BY <1>8, <1>9

(* A chain from one step to another.                                       *)
Path(s, r, a, b) == Chain(s, r) /\ s[1] = a /\ s[Len(s)] = b

(* Paths are joined by an edge.                                            *)
LEMMA PathConcat ==
  ASSUME NEW r
  PROVE  \A s, u, a, b, c, d :
           Path(s, r, a, b) /\ Path(u, r, c, d) /\ Follows(b, c, r) => Path(s \o u, r, a, d)
<1> SUFFICES ASSUME NEW s, NEW u, NEW a, NEW b, NEW c, NEW d,
                    Path(s, r, a, b), Path(u, r, c, d), Follows(b, c, r)
             PROVE  Path(s \o u, r, a, d)
    OBVIOUS
<1>1. Chain(s, r) /\ Chain(u, r) /\ Follows(s[Len(s)], u[1], r) BY DEF Path
<1>2. s \in Seq(Steps) /\ u \in Seq(Steps) BY <1>1 DEF Chain
<1>3. /\ Chain(s \o u, r) /\ (s \o u)[1] = s[1] /\ (s \o u)[Len(s \o u)] = u[Len(u)]
    BY <1>1, <1>2, ChainConcat
<1> QED BY <1>3 DEF Path

(* Nothing is added by an empty one.                                       *)
LEMMA PathAndNothing ==
  ASSUME NEW r
  PROVE  \A s, a, b : Path(s, r, a, b) => Path(s \o <<>>, r, a, b)
<1> SUFFICES ASSUME NEW s, NEW a, NEW b, Path(s, r, a, b) PROVE Path(s \o <<>>, r, a, b)
    OBVIOUS
<1>1. s \in Seq(Steps) BY DEF Path, Chain
<1>2. s \o <<>> = s BY <1>1, ConcatEmptySeq
<1> QED BY <1>2

(* From the outputs to the archives.                                       *)
LEMMA PortablePath ==
  ASSUME NEW r, r.name \in {"package", "release-build"}
  PROVE  /\ Path(OutputSteps, r, <<"outputs">>, <<"closure">>)
         /\ Path(PortableSteps, r, <<"outputs">>, <<"put-extensions">>)
         /\ Path(TemplateSteps, r, <<"clear-template">>, <<"template">>)
<1>1. PackageEdges \subseteq Edges(r.name, r.flags) BY EdgesOf DEF ReleaseBuildEdges
<1>2. /\ Follows(<<"outputs">>, <<"build-manifest">>, r) /\ Follows(<<"build-manifest">>, <<"closure">>, r)
      /\ Follows(<<"closure">>, <<"clear">>, r) /\ Follows(<<"clear">>, <<"put-runtime">>, r)
      /\ Follows(<<"put-runtime">>, <<"put-tools">>, r) /\ Follows(<<"put-tools">>, <<"put-extensions">>, r)
      /\ Follows(<<"clear-template">>, <<"template">>, r)
    BY <1>1, LoneFollows DEF PackageEdges, LoneOps
<1>3. \A op \in LoneOps : <<op>> \in Steps BY StepTypes
<1>4. Path(OutputSteps, r, <<"outputs">>, <<"closure">>)
    BY <1>2, <1>3, ChainThree DEF OutputSteps, Path, LoneOps
<1>5. Path(<<<<"clear">>, <<"put-runtime">>, <<"put-tools">>, <<"put-extensions">>>>, r,
           <<"clear">>, <<"put-extensions">>)
    BY <1>2, <1>3, ChainFour DEF Path, LoneOps
<1>6. Path(PortableSteps, r, <<"outputs">>, <<"put-extensions">>)
    BY <1>2, <1>4, <1>5, PathConcat DEF PortableSteps
<1>7. Path(TemplateSteps, r, <<"clear-template">>, <<"template">>)
    BY <1>2, <1>3, ChainTwo DEF TemplateSteps, Path, LoneOps
<1> QED BY <1>4, <1>6, <1>7

(* One step is a path.                                                     *)
LEMMA PathOne ==
  ASSUME NEW r PROVE \A a \in Steps : Path(<<a>>, r, a, a)
BY ChainOne DEF Path

(* `assets package'.                                                       *)
LEMMA PackagePath ==
  ASSUME NEW r, r.name = "package", r.target \in Targets
  PROVE  Path(PackageSteps(r.target, TRUE) \o End, r, <<"outputs">>, <<"end">>)
<1>1. CopyEdges \subseteq Edges(r.name, r.flags) /\ PackageEdges \subseteq Edges(r.name, r.flags) BY EdgesOf
<1>2. \A op \in LoneOps : <<op>> \in Steps /\ <<op>>[1] = op BY StepTypes
<1>3. /\ <<"clear-aot", r.target>> \in Steps /\ <<"copy-aot", r.target>> \in Steps
      /\ <<"clear-aot", r.target>>[1] = "clear-aot" /\ <<"copy-aot", r.target>>[1] = "copy-aot"
    BY StepTypes DEF TargetOps
<1>4. Follows(<<"copy-aot", r.target>>, <<"clear-template">>, r)
    BY <1>1, <1>3, LoneFollows DEF CopyEdges, LoneOps
<1>5. Follows(<<"clear-aot", r.target>>, <<"copy-aot", r.target>>, r)
    BY <1>1, <1>3, TargetFollows DEF CopyEdges, TargetOps
<1>6. Follows(<<"put-extensions">>, <<"clear-aot", r.target>>, r)
    BY <1>1, <1>2, TargetFollows DEF CopyEdges, TargetOps, LoneOps
<1>7. Follows(<<"template">>, <<"manifest">>, r) /\ Follows(<<"manifest">>, <<"end">>, r)
    BY <1>1, <1>2, LoneFollows DEF CopyEdges, PackageEdges, LoneOps
<1>8. Path(PackageAotSteps(r.target), r, <<"clear-aot", r.target>>, <<"copy-aot", r.target>>)
    BY <1>3, <1>5, ChainTwo DEF PackageAotSteps, Path
<1>9. /\ Path(<<<<"manifest">>>>, r, <<"manifest">>, <<"manifest">>)
      /\ Path(End, r, <<"end">>, <<"end">>)
    BY <1>2, PathOne DEF End, LoneOps
<1>10. Path(PortableSteps \o PackageAotSteps(r.target), r, <<"outputs">>, <<"copy-aot", r.target>>)
    BY <1>6, <1>8, PortablePath, PathConcat
<1>11. Path(PortableSteps \o PackageAotSteps(r.target) \o TemplateSteps, r, <<"outputs">>, <<"template">>)
    BY <1>4, <1>10, PortablePath, PathConcat
<1>12. Path(PackageSteps(r.target, TRUE), r, <<"outputs">>, <<"manifest">>)
    BY <1>7, <1>9, <1>11, PathConcat DEF PackageSteps
<1> QED BY <1>7, <1>9, <1>12, PathConcat

(* `assets build' as a part of a release build.                            *)
LEMMA BuildPath ==
  ASSUME NEW r, r.name = "release-build"
  PROVE  Path(BuildSteps, r, <<"runtime">>, <<"closure">>)
<1>1. MakeEdges \subseteq Edges(r.name, r.flags) BY EdgesOf DEF ReleaseBuildEdges
<1>2. \A op \in LoneOps : <<op>> \in Steps /\ <<op>>[1] = op BY StepTypes
<1>3. /\ Follows(<<"runtime">>, <<"initdb">>, r) /\ Follows(<<"initdb">>, <<"pgxs">>, r)
      /\ Follows(<<"pgxs">>, <<"outputs">>, r)
    BY <1>1, <1>2, LoneFollows DEF MakeEdges, LoneOps
<1>4. Path(<<<<"runtime">>, <<"initdb">>, <<"pgxs">>>>, r, <<"runtime">>, <<"pgxs">>)
    BY <1>2, <1>3, ChainThree DEF Path, LoneOps
<1> QED BY <1>3, <1>4, PortablePath, PathConcat DEF BuildSteps

(* `assets fetch' as a part of a release build.                            *)
LEMMA FetchPath ==
  ASSUME NEW r, r.name = "release-build"
  PROVE  \E a \in Steps : a[1] = "fetch" /\ Path(FetchSteps, r, a, <<"spine">>)
<1> DEFINE fetches == SetToSeq({<<"fetch", s>> : s \in Sources})
<1>1. MakeEdges \subseteq Edges(r.name, r.flags) BY EdgesOf DEF ReleaseBuildEdges
<1>2. fetches \in Seq({<<"fetch", s>> : s \in Sources}) /\ fetches # <<>> BY FetchesTyped
<1>3. {<<"fetch", s>> : s \in Sources} \subseteq Steps BY StepTypes
<1> DEFINE Fetches == {<<"fetch", s>> : s \in Sources}
<1> HIDE DEF fetches
<1>4. /\ fetches \in Seq(Steps) /\ Len(fetches) \in Nat /\ Len(fetches) > 0
      /\ \A i \in 1 .. Len(fetches) : fetches[i] \in Fetches
    <2>1. fetches \in Seq(Fetches) /\ Fetches \subseteq Steps BY <1>2, <1>3
    <2> HIDE DEF Fetches
    <2> QED BY <1>2, <2>1
<1>5. \A i \in 1 .. Len(fetches) : fetches[i] \in Steps /\ fetches[i][1] = "fetch" BY <1>3, <1>4
<1> HIDE DEF fetches
<1>6. Chain(fetches, r)
    <2>1. ASSUME NEW i \in 1 .. Len(fetches) - 1 PROVE Follows(fetches[i], fetches[i + 1], r)
        <3>1. i \in 1 .. Len(fetches) /\ i + 1 \in 1 .. Len(fetches) BY <1>4
        <3>2. fetches[i][1] = "fetch" /\ fetches[i + 1][1] = "fetch" BY <1>5, <3>1
        <3> QED BY <1>1, <3>2 DEF Follows, MakeEdges, TargetOps
    <2> QED BY <1>4, <1>2, <2>1 DEF Chain, fetches
<1>7. Path(fetches, r, fetches[1], fetches[Len(fetches)]) BY <1>6 DEF Path
<1>8. fetches[1] \in Steps /\ fetches[1][1] = "fetch" /\ fetches[Len(fetches)][1] = "fetch" BY <1>4, <1>5
<1>9. Follows(fetches[Len(fetches)], <<"spine">>, r)
    BY <1>1, <1>8, LoneFollows DEF MakeEdges, LoneOps
<1>10. Path(<<<<"spine">>>>, r, <<"spine">>, <<"spine">>) BY PathOne, StepTypes DEF LoneOps
<1>11. Path(fetches \o <<<<"spine">>>>, r, fetches[1], <<"spine">>) BY <1>7, <1>9, <1>10, PathConcat
<1> QED BY <1>8, <1>11 DEF FetchSteps, fetches

(* `assets release-build'.                                                 *)
LEMMA ReleaseBuildPath ==
  ASSUME NEW r, r.name = "release-build", r.target \in Targets
  PROVE  \E a \in Steps : /\ a[1] \in {"fetch", "spine"}
                          /\ Path(ReleaseBuildSteps(r.target, r.flags) \o End, r, a, <<"end">>)
<1> DEFINE first == IF "fetch" \in r.flags THEN FetchSteps ELSE <<<<"spine">>>>
           build == first \o (IF "skip-build" \in r.flags THEN <<>> ELSE BuildSteps)
           package == PackageSteps(r.target, FALSE)
           checked == build \o package \o <<<<"check-generated">>>>
           aot == AotSteps(r.target) \o PackageAotSteps(r.target) \o <<<<"check-aot", r.target>>>>
           all == checked \o (IF "skip-aot" \in r.flags THEN <<>> ELSE aot)
<1>1. /\ Edges(r.name, r.flags) = ReleaseBuildEdges(r.flags)
      /\ MakeEdges \subseteq Edges(r.name, r.flags) /\ PackageEdges \subseteq Edges(r.name, r.flags)
    BY EdgesOf DEF ReleaseBuildEdges
<1>2. \A op \in LoneOps : /\ <<op>> \in Steps /\ <<op>>[1] = op /\ Path(<<<<op>>>>, r, <<op>>, <<op>>)
    BY StepTypes, PathOne
<1>3. PICK a \in Steps : a[1] \in {"fetch", "spine"} /\ Path(first, r, a, <<"spine">>)
    <2>1. CASE "fetch" \in r.flags BY <2>1, FetchPath
    <2>2. CASE "fetch" \notin r.flags
        <3>1. Path(<<<<"spine">>>>, r, <<"spine">>, <<"spine">>) /\ <<"spine">> \in Steps /\ <<"spine">>[1] = "spine"
            BY <1>2 DEF LoneOps
        <3> QED BY <2>2, <3>1
    <2> QED BY <2>1, <2>2
<1>4. PICK b : Path(build, r, a, b) /\ Follows(b, <<"outputs">>, r)
    <2>1. CASE "skip-build" \in r.flags
        <3>1. Path(build, r, a, <<"spine">>) BY <1>3, <2>1, PathAndNothing
        <3>2. Follows(<<"spine">>, <<"outputs">>, r)
            BY <1>1, <1>2, <2>1, LoneFollows DEF ReleaseBuildEdges, LoneOps
        <3> QED BY <3>1, <3>2
    <2>2. CASE "skip-build" \notin r.flags
        <3>1. Follows(<<"spine">>, <<"runtime">>, r)
            BY <1>1, <1>2, <2>2, LoneFollows DEF ReleaseBuildEdges, LoneOps
        <3>2. Path(first \o BuildSteps, r, a, <<"closure">>) BY <1>3, <3>1, BuildPath, PathConcat
        <3>3. Path(build, r, a, <<"closure">>) BY <2>2, <3>2
        <3>4. Follows(<<"closure">>, <<"outputs">>, r)
            BY <1>1, <1>2, LoneFollows DEF MakeEdges, LoneOps
        <3> QED BY <3>3, <3>4
    <2> QED BY <2>1, <2>2
<1> HIDE DEF build
<1>5. Path(package, r, <<"outputs">>, <<"manifest">>)
    <2>1. Follows(<<"put-extensions">>, <<"clear-template">>, r) /\ Follows(<<"template">>, <<"manifest">>, r)
        BY <1>1, <1>2, LoneFollows DEF MakeEdges, PackageEdges, LoneOps
    <2>2. Path(PortableSteps \o <<>>, r, <<"outputs">>, <<"put-extensions">>) BY PortablePath, PathAndNothing
    <2>3. Path(PortableSteps \o <<>> \o TemplateSteps, r, <<"outputs">>, <<"template">>)
        BY <2>1, <2>2, PortablePath, PathConcat
    <2>4. Path(<<<<"manifest">>>>, r, <<"manifest">>, <<"manifest">>) BY <1>2 DEF LoneOps
    <2> QED BY <2>1, <2>3, <2>4, PathConcat DEF PackageSteps
<1> HIDE DEF package
<1>6. Path(checked, r, a, <<"check-generated">>)
    <2>1. Path(build \o package, r, a, <<"manifest">>) BY <1>4, <1>5, PathConcat
    <2>2. Follows(<<"manifest">>, <<"check-generated">>, r)
        BY <1>1, <1>2, LoneFollows DEF MakeEdges, LoneOps
    <2>3. Path(<<<<"check-generated">>>>, r, <<"check-generated">>, <<"check-generated">>) BY <1>2 DEF LoneOps
    <2> QED BY <2>1, <2>2, <2>3, PathConcat
<1> HIDE DEF checked
<1>7. PICK c : Path(all, r, a, c) /\ Follows(c, <<"end">>, r)
    <2>1. CASE "skip-aot" \in r.flags
        <3>1. Path(all, r, a, <<"check-generated">>) BY <1>6, <2>1, PathAndNothing
        <3>2. Follows(<<"check-generated">>, <<"end">>, r)
            BY <1>1, <1>2, <2>1, LoneFollows DEF ReleaseBuildEdges, LoneOps
        <3> QED BY <3>1, <3>2
    <2>2. CASE "skip-aot" \notin r.flags
        <3>1. AotEdges \subseteq Edges(r.name, r.flags) BY <1>1, <2>2 DEF ReleaseBuildEdges
        <3>2. \A op \in TargetOps : <<op, r.target>> \in Steps /\ <<op, r.target>>[1] = op BY StepTypes
        <3>3. /\ Follows(<<"check-generated">>, <<"serialize", r.target>>, r)
              /\ Follows(<<"serialize", r.target>>, <<"clear-aot", r.target>>, r)
              /\ Follows(<<"clear-aot", r.target>>, <<"copy-aot", r.target>>, r)
              /\ Follows(<<"copy-aot", r.target>>, <<"check-aot", r.target>>, r)
            BY <1>2, <3>1, <3>2, TargetFollows DEF AotEdges, TargetOps, LoneOps
        <3>4. Follows(<<"check-aot", r.target>>, <<"end">>, r)
            BY <3>1, <3>2, LoneFollows DEF AotEdges, TargetOps, LoneOps
        <3>5. /\ Path(AotSteps(r.target), r, <<"serialize", r.target>>, <<"serialize", r.target>>)
              /\ Path(<<<<"check-aot", r.target>>>>, r, <<"check-aot", r.target>>, <<"check-aot", r.target>>)
            BY <3>2, PathOne DEF AotSteps, TargetOps
        <3>6. Path(PackageAotSteps(r.target), r, <<"clear-aot", r.target>>, <<"copy-aot", r.target>>)
            BY <3>2, <3>3, ChainTwo DEF PackageAotSteps, Path, TargetOps
        <3>7. Path(AotSteps(r.target) \o PackageAotSteps(r.target), r,
                   <<"serialize", r.target>>, <<"copy-aot", r.target>>)
            BY <3>3, <3>5, <3>6, PathConcat
        <3>8. Path(aot, r, <<"serialize", r.target>>, <<"check-aot", r.target>>)
            BY <3>3, <3>5, <3>7, PathConcat
        <3>9. Path(checked \o aot, r, a, <<"check-aot", r.target>>) BY <1>6, <3>3, <3>8, PathConcat
        <3> QED BY <2>2, <3>4, <3>9
    <2> QED BY <2>1, <2>2
<1>8. Path(End, r, <<"end">>, <<"end">>) BY <1>2 DEF End, LoneOps
<1>9. Path(all \o End, r, a, <<"end">>) BY <1>7, <1>8, PathConcat
<1>10. all = ReleaseBuildSteps(r.target, r.flags)
    BY DEF ReleaseBuildSteps, checked, build, package
<1> QED BY <1>3, <1>9, <1>10

(* `assets download', of one run.                                          *)
LEMMA DownloadPath ==
  ASSUME NEW r, r.name = "download", r.target \in Targets, NEW c \in CiTrees
  PROVE  Path(DownloadSteps(c, r.target), r, <<"verify-fingerprint", c>>, <<"end">>)
<1> DEFINE a1 == <<"verify-fingerprint", c>> a2 == <<"install-assets", c>>
           a3 == <<"install-aot", c, r.target>> a4 == <<"install-local", r.target>> a5 == <<"end">>
           s == <<a1, a2, a3, a4, a5>>
<1>1. a1 \in Steps /\ a2 \in Steps /\ a3 \in Steps /\ a4 \in Steps /\ a5 \in Steps
    BY StepTypes DEF LoneOps, TargetOps
<1>2. Edges(r.name, r.flags) = DownloadEdges BY EdgesOf
<1>3. /\ Follows(a1, a2, r) /\ Follows(a2, a3, r) /\ Follows(a3, a4, r) /\ Follows(a4, a5, r)
    BY <1>2 DEF Follows, DownloadEdges, TargetOps
<1> HIDE DEF a1, a2, a3, a4, a5
<1>4. /\ s \in Seq(Steps) /\ Len(s) = 5 /\ s # <<>>
      /\ s[1] = a1 /\ s[2] = a2 /\ s[3] = a3 /\ s[4] = a4 /\ s[5] = a5
    BY <1>1
<1>5. 1 .. Len(s) - 1 = {1, 2, 3, 4} BY <1>4
<1>6. Path(s, r, a1, a5) BY <1>3, <1>4, <1>5 DEF Path, Chain
<1> QED BY <1>6 DEF DownloadSteps, a1, a2, a3, a4, a5

(* `release dry-run'.                                                      *)
LEMMA DryRunPath ==
  ASSUME NEW r, r.name = "dry-run"
  PROVE  Path(<<<<"stage">>, <<"validate">>>> \o End, r, <<"stage">>, <<"end">>)
<1>1. Edges(r.name, r.flags) = DryRunEdges BY EdgesOf
<1>2. \A op \in LoneOps : <<op>> \in Steps /\ <<op>>[1] = op BY StepTypes
<1>3. Follows(<<"stage">>, <<"validate">>, r) /\ Follows(<<"validate">>, <<"end">>, r)
    BY <1>1, <1>2, LoneFollows DEF DryRunEdges, LoneOps
<1>4. Path(<<<<"stage">>, <<"validate">>>>, r, <<"stage">>, <<"validate">>)
    BY <1>2, <1>3, ChainTwo DEF Path, LoneOps
<1>5. Path(End, r, <<"end">>, <<"end">>) BY <1>2, PathOne DEF End, LoneOps
<1> QED BY <1>3, <1>4, <1>5, PathConcat

(* The steps with which commands begin.                                    *)
FirstOk(name, op) ==
  /\ name = "package" => op = "outputs"
  /\ name = "release-build" => op \in {"fetch", "spine"}
  /\ name = "download" => op = "verify-fingerprint"
  /\ name = "dry-run" => op = "stage"
  /\ op # "copy-aot"

(* Commands in which every step follows.                                   *)
StartOk(name, flags, t, rest, steps) ==
  /\ name \in Names /\ flags \in SUBSET {"fetch", "skip-build", "skip-aot", "release"}
  /\ t \in Targets \cup {None} /\ rest \in Seq(CiTrees)
  /\ rest # <<>> => name = "download"
  /\ name \in {"package", "release-build", "download"} => t \in Targets
  /\ \A r : r.name = name /\ r.flags = flags /\ r.target = t =>
       Chain(steps, r) /\ steps[Len(steps)] = <<"end">>
  /\ steps \in Seq(Steps) /\ steps # <<>> /\ FirstOk(name, steps[1][1])

(* A command that packages nothing.                                        *)
LEMMA OtherStartOk ==
  ASSUME NEW name \in Names \ {"package", "release-build", "download", "dry-run"},
         NEW t \in Targets \cup {None}, NEW s \in Seq(OtherSteps(t)), s # <<>>
  PROVE  StartOk(name, {}, t, <<>>, s \o End)
<1>1. ASSUME NEW r, r.name = name, r.flags = {}, r.target = t
      PROVE  Chain(s \o End, r) /\ (s \o End)[Len(s \o End)] = <<"end">>
    BY <1>1, OtherChain
<1>2. PICK r : r.name = name /\ r.flags = {} /\ r.target = t
    <2>1. [name |-> name, flags |-> {}, target |-> t].name = name
          /\ [name |-> name, flags |-> {}, target |-> t].flags = {}
          /\ [name |-> name, flags |-> {}, target |-> t].target = t
        OBVIOUS
    <2> QED BY <2>1
<1>3. s \o End \in Seq(Steps) /\ s \o End # <<>> BY <1>1, <1>2 DEF Chain
<1>4. <<>> \in Seq(CiTrees) OBVIOUS
<1>5. (s \o End)[1][1] # "copy-aot"
    <2>1. (s \o End)[1] = s[1] /\ s[1] \in OtherSteps(t) BY DEF End
    <2> QED BY <2>1 DEF OtherSteps
<1> QED BY <1>1, <1>3, <1>4, <1>5 DEF StartOk, FirstOk

(* A path of steps for every record of the command is a command.           *)
LEMMA PathStartOk ==
  ASSUME NEW name \in {"package", "release-build", "download", "dry-run"},
         NEW flags \in SUBSET {"fetch", "skip-build", "skip-aot", "release"},
         NEW t \in Targets \cup {None}, NEW rest \in Seq(CiTrees), NEW steps,
         rest # <<>> => name = "download",
         name # "dry-run" => t \in Targets,
         \A r : r.name = name /\ r.flags = flags /\ r.target = t =>
           \E a : Path(steps, r, a, <<"end">>) /\ FirstOk(name, a[1])
  PROVE  StartOk(name, flags, t, rest, steps)
<1>1. ASSUME NEW r, r.name = name, r.flags = flags, r.target = t
      PROVE  Chain(steps, r) /\ steps[Len(steps)] = <<"end">> /\ FirstOk(name, steps[1][1])
    BY <1>1 DEF Path
<1>2. PICK r : r.name = name /\ r.flags = flags /\ r.target = t
    <2>1. [name |-> name, flags |-> flags, target |-> t].name = name
          /\ [name |-> name, flags |-> flags, target |-> t].flags = flags
          /\ [name |-> name, flags |-> flags, target |-> t].target = t
        OBVIOUS
    <2> QED BY <2>1
<1>3. steps \in Seq(Steps) /\ steps # <<>> /\ FirstOk(name, steps[1][1]) BY <1>1, <1>2 DEF Chain
<1>4. name \in Names BY DEF Names
<1> QED BY <1>1, <1>3, <1>4 DEF StartOk

(* A command starts as one of them.                                        *)
Starts ==
  \E name, flags, t, rest, steps :
    Start(name, flags, t, rest, steps) /\ StartOk(name, flags, t, rest, steps)

(* `xtask extensions'.                                                     *)
LEMMA ExtensionsStarts == Extensions => Starts
<1> DEFINE a == <<"discover">> b == <<"catalog">> c == <<"plan">> d == <<"api">>
<1>1. a \in OtherSteps(None) /\ b \in OtherSteps(None) /\ c \in OtherSteps(None) /\ d \in OtherSteps(None)
    <2>1. \A op \in LoneOps : <<op>> \in Steps /\ <<op>>[1] = op BY StepTypes
    <2> QED BY <2>1 DEF OtherSteps, OtherOps, LoneOps, TargetOps
<1> HIDE DEF a, b, c, d
<1>2. /\ <<a, b>> \in Seq(OtherSteps(None)) /\ <<a, b>> # <<>>
      /\ <<a, c>> \in Seq(OtherSteps(None)) /\ <<a, c>> # <<>>
      /\ <<a, b, c, d>> \in Seq(OtherSteps(None)) /\ <<a, b, c, d>> # <<>>
    BY <1>1
<1>3. /\ StartOk("discover", {}, None, <<>>, <<a, b>> \o End)
      /\ StartOk("build-plan", {}, None, <<>>, <<a, c>> \o End)
      /\ StartOk("generate", {}, None, <<>>, <<a, b, c, d>> \o End)
    BY <1>2, OtherStartOk DEF Names
<1> QED BY <1>3 DEF Extensions, Starts, a, b, c, d

(* `assets package-aot'.                                                   *)
LEMMA PackageAotPath ==
  ASSUME NEW t \in Targets
  PROVE  StartOk("package-aot", {}, t, <<>>,
                 <<<<"aot-outputs">>>> \o PackageAotSteps(t) \o <<<<"check-aot", t>>>> \o End)
<1> DEFINE first == <<<<"aot-outputs">>>> last == <<<<"check-aot", t>>>>
           s == first \o PackageAotSteps(t) \o last \o End
<1>1. ASSUME NEW r, r.name = "package-aot", r.flags = {}, r.target = t
      PROVE  Path(s, r, <<"aot-outputs">>, <<"end">>)
    <2>1. Edges(r.name, r.flags) = OtherOps \X (OtherOps \cup {"end"}) BY <1>1, EdgesOf
    <2>2. /\ <<"aot-outputs">> \in Steps /\ <<"clear-aot", t>> \in Steps /\ <<"copy-aot", t>> \in Steps
          /\ <<"check-aot", t>> \in Steps /\ <<"end">> \in Steps
        BY StepTypes DEF LoneOps, TargetOps
    <2>3. /\ <<"aot-outputs">>[1] = "aot-outputs" /\ <<"clear-aot", t>>[1] = "clear-aot"
          /\ <<"copy-aot", t>>[1] = "copy-aot" /\ <<"check-aot", t>>[1] = "check-aot"
        OBVIOUS
    <2>4. /\ Follows(<<"aot-outputs">>, <<"clear-aot", t>>, r)
          /\ Follows(<<"clear-aot", t>>, <<"copy-aot", t>>, r)
          /\ Follows(<<"copy-aot", t>>, <<"check-aot", t>>, r)
        BY <1>1, <2>1, <2>3, TargetFollows DEF OtherOps, TargetOps
    <2>5. Follows(<<"check-aot", t>>, <<"end">>, r) BY <2>1, <2>3, LoneFollows DEF OtherOps, LoneOps
    <2>6. /\ Path(first, r, <<"aot-outputs">>, <<"aot-outputs">>)
          /\ Path(last, r, <<"check-aot", t>>, <<"check-aot", t>>) /\ Path(End, r, <<"end">>, <<"end">>)
        BY <2>2, PathOne DEF End
    <2>7. Path(PackageAotSteps(t), r, <<"clear-aot", t>>, <<"copy-aot", t>>)
        BY <2>2, <2>4, ChainTwo DEF PackageAotSteps, Path
    <2> HIDE DEF first, last
    <2>8. Path(first \o PackageAotSteps(t), r, <<"aot-outputs">>, <<"copy-aot", t>>)
        BY <2>4, <2>6, <2>7, PathConcat
    <2>9. Path(first \o PackageAotSteps(t) \o last, r, <<"aot-outputs">>, <<"check-aot", t>>)
        BY <2>4, <2>6, <2>8, PathConcat
    <2> QED BY <2>5, <2>6, <2>9, PathConcat
<1>2. PICK r : r.name = "package-aot" /\ r.flags = {} /\ r.target = t
    <2> DEFINE r == [name |-> "package-aot", flags |-> {}, target |-> t]
    <2>1. r.name = "package-aot" /\ r.flags = {} /\ r.target = t OBVIOUS
    <2> QED BY <2>1
<1> HIDE DEF s
<1>3. /\ s \in Seq(Steps) /\ s # <<>> /\ s[1] = <<"aot-outputs">>
    BY <1>1, <1>2 DEF Path, Chain
<1>4. FirstOk("package-aot", s[1][1]) BY <1>3 DEF FirstOk
<1>5. <<>> \in Seq(CiTrees) OBVIOUS
<1>6. StartOk("package-aot", {}, t, <<>>, s)
    BY <1>1, <1>3, <1>4, <1>5 DEF StartOk, Path, Names
<1> QED BY <1>6 DEF s

(* The commands of `xtask assets' that package nothing.                    *)
LEMMA OtherAssetsStartOk ==
  /\ StartOk("fetch", {}, None, <<>>, FetchSteps \o End)
  /\ StartOk("build", {}, None, <<>>, BuildSteps \o End)
  /\ StartOk("template", {}, None, <<>>, <<<<"outputs">>>> \o TemplateSteps \o End)
  /\ StartOk("export-list", {}, None, <<>>, <<<<"export-list">>>> \o End)
  /\ StartOk("input-fingerprint", {}, None, <<>>, <<<<"fingerprint">>>> \o End)
  /\ \A t \in Targets :
       /\ StartOk("aot", {}, t, <<>>, AotSteps(t) \o End)
       /\ StartOk("package-aot", {}, t, <<>>,
                  <<<<"aot-outputs">>>> \o PackageAotSteps(t) \o <<<<"check-aot", t>>>> \o End)
<1>1. \A t : \A op \in OtherOps \cap LoneOps : <<op>> \in OtherSteps(t)
    <2>1. \A op \in LoneOps : <<op>> \in Steps /\ <<op>>[1] = op BY StepTypes
    <2> QED BY <2>1 DEF OtherSteps, LoneOps, TargetOps
<1>2. ASSUME NEW t \in Targets, NEW op \in (OtherOps \cap TargetOps) \ {"copy-aot"} PROVE <<op, t>> \in OtherSteps(t)
    <2>1. <<op, t>> \in Steps /\ <<op, t>>[1] = op /\ <<op, t>>[2] = t BY StepTypes
    <2> QED BY <2>1 DEF OtherSteps
<1>3. StartOk("fetch", {}, None, <<>>, FetchSteps \o End)
    <2> DEFINE fetches == SetToSeq({<<"fetch", s>> : s \in Sources})
               Fetches == {<<"fetch", s>> : s \in Sources}
    <2>1. fetches \in Seq(Fetches) /\ fetches # <<>> BY FetchesTyped
    <2>2. Fetches \subseteq OtherSteps(None)
        BY StepTypes DEF OtherSteps, OtherOps, TargetOps
    <2> HIDE DEF fetches, Fetches
    <2>3. fetches \in Seq(OtherSteps(None)) BY <2>1, <2>2
    <2>4. <<"spine">> \in OtherSteps(None) BY <1>1 DEF OtherOps, LoneOps
    <2>5. fetches \o <<<<"spine">>>> \in Seq(OtherSteps(None)) /\ fetches \o <<<<"spine">>>> # <<>>
        <3> DEFINE x == <<"spine">>
        <3>1. x \in OtherSteps(None) BY <2>4
        <3> HIDE DEF x
        <3>2. fetches \o <<x>> \in Seq(OtherSteps(None)) /\ Len(fetches \o <<x>>) # 0 BY <2>3, <3>1
        <3>3. Len(<<>>) = 0 OBVIOUS
        <3> QED BY <3>2, <3>3 DEF x
    <2> QED BY <2>5, OtherStartOk DEF FetchSteps, fetches, Names
<1>4. StartOk("build", {}, None, <<>>, BuildSteps \o End)
    <2> DEFINE x == <<<<"runtime">>, <<"initdb">>, <<"pgxs">>>> y == OutputSteps
    <2>1. x \in Seq(OtherSteps(None)) /\ x # <<>>
        BY <1>1 DEF OtherOps, LoneOps
    <2>2. y \in Seq(OtherSteps(None))
        BY <1>1 DEF OutputSteps, OtherOps, LoneOps
    <2> HIDE DEF x, y
    <2>3. x \o y \in Seq(OtherSteps(None)) /\ Len(x \o y) # 0 BY <2>1, <2>2
    <2>4. Len(<<>>) = 0 OBVIOUS
    <2>5. BuildSteps = x \o y BY DEF BuildSteps, x, y
    <2> QED BY <2>3, <2>4, <2>5, OtherStartOk DEF Names
<1>5. StartOk("template", {}, None, <<>>, <<<<"outputs">>>> \o TemplateSteps \o End)
    <2> DEFINE x == <<<<"outputs">>>> y == TemplateSteps
    <2>1. x \in Seq(OtherSteps(None)) /\ x # <<>>
        BY <1>1 DEF OtherOps, LoneOps
    <2>2. y \in Seq(OtherSteps(None))
        BY <1>1 DEF TemplateSteps, OtherOps, LoneOps
    <2> HIDE DEF x, y
    <2>3. x \o y \in Seq(OtherSteps(None)) /\ Len(x \o y) # 0 BY <2>1, <2>2
    <2>4. Len(<<>>) = 0 OBVIOUS
    <2>5. StartOk("template", {}, None, <<>>, x \o y \o End) BY <2>3, <2>4, OtherStartOk DEF Names
    <2> QED BY <2>5 DEF x, y
<1>6. /\ StartOk("export-list", {}, None, <<>>, <<<<"export-list">>>> \o End)
      /\ StartOk("input-fingerprint", {}, None, <<>>, <<<<"fingerprint">>>> \o End)
    <2>1. \A a \in OtherSteps(None) : <<a>> \in Seq(OtherSteps(None)) /\ <<a>> # <<>> OBVIOUS
    <2>2. <<"export-list">> \in OtherSteps(None) /\ <<"fingerprint">> \in OtherSteps(None)
        BY <1>1 DEF OtherOps, LoneOps
    <2> QED BY <2>1, <2>2, OtherStartOk DEF Names
<1>7. ASSUME NEW t \in Targets PROVE StartOk("aot", {}, t, <<>>, AotSteps(t) \o End)
    <2>1. \A a \in OtherSteps(t) : <<a>> \in Seq(OtherSteps(t)) /\ <<a>> # <<>> OBVIOUS
    <2>2. <<"serialize", t>> \in OtherSteps(t) BY <1>2 DEF OtherOps, TargetOps
    <2> QED BY <2>1, <2>2, OtherStartOk DEF Names, AotSteps
<1>8. ASSUME NEW t \in Targets
      PROVE  StartOk("package-aot", {}, t, <<>>,
                     <<<<"aot-outputs">>>> \o PackageAotSteps(t) \o <<<<"check-aot", t>>>> \o End)
    BY PackageAotPath
<1> QED BY <1>3, <1>4, <1>5, <1>6, <1>7, <1>8

(* `xtask assets'.                                                         *)
LEMMA AssetsStarts == Assets => Starts
<1>1. ASSUME NEW t \in Targets
      PROVE  StartOk("package", {}, t, <<>>, PackageSteps(t, TRUE) \o End)
    <2>1. ASSUME NEW r, r.name = "package", r.flags = {}, r.target = t
          PROVE  Path(PackageSteps(t, TRUE) \o End, r, <<"outputs">>, <<"end">>)
        BY <2>1, PackagePath
    <2>2. <<"outputs">>[1] = "outputs" OBVIOUS
    <2>3. <<>> \in Seq(CiTrees) OBVIOUS
    <2> QED BY <2>1, <2>2, <2>3, PathStartOk DEF FirstOk
<1>2. ASSUME NEW t \in Targets, NEW flags \in SUBSET {"fetch", "skip-build", "skip-aot"}
      PROVE  StartOk("release-build", flags, t, <<>>, ReleaseBuildSteps(t, flags) \o End)
    <2>1. ASSUME NEW r, r.name = "release-build", r.flags = flags, r.target = t
          PROVE  \E a : /\ Path(ReleaseBuildSteps(t, flags) \o End, r, a, <<"end">>)
                        /\ FirstOk("release-build", a[1])
        BY <2>1, ReleaseBuildPath DEF FirstOk
    <2>2. <<>> \in Seq(CiTrees) OBVIOUS
    <2> QED BY <2>1, <2>2, PathStartOk
<1> QED BY <1>1, <1>2, OtherAssetsStartOk DEF Assets, BuildCommands, PackageCommands, Starts

(* The runs that are tried are Assets runs.                                *)
LEMMA RunsTyped ==
  /\ CiRuns \in Seq(CiTrees) /\ Last(CiRuns) \in CiTrees /\ CiTrees \subseteq Trees
  /\ \A runs \in AssetDownloadRunCandidates : Head(runs) \in CiTrees /\ Tail(runs) \in Seq(CiTrees)
<1>1. CiRuns \in Seq(Trees) /\ CiRuns # <<>> BY RunsAssumption
<1>2. /\ DOMAIN CiRuns = 1 .. Len(CiRuns) /\ Len(CiRuns) \in Nat /\ Len(CiRuns) > 0
      /\ \A i \in DOMAIN CiRuns : CiRuns[i] \in CiTrees /\ CiRuns[i] \in Trees
    BY <1>1 DEF CiTrees
<1>3. CiRuns \in Seq(CiTrees) BY <1>1, <1>2
<1>4. Last(CiRuns) \in CiTrees BY <1>2 DEF Last
<1>5. Head(CiRuns) \in CiTrees /\ Tail(CiRuns) \in Seq(CiTrees) BY <1>1, <1>3
<1>6. ASSUME NEW i \in DOMAIN CiRuns
      PROVE  Head(<<CiRuns[i]>>) \in CiTrees /\ Tail(<<CiRuns[i]>>) \in Seq(CiTrees)
    <2>1. CiRuns[i] \in CiTrees BY <1>2
    <2> QED BY <2>1
<1>7. CiTrees \subseteq Trees BY <1>2 DEF CiTrees
<1> QED BY <1>3, <1>4, <1>5, <1>6, <1>7 DEF AssetDownloadRunCandidates

(* `xtask assets download' and `xtask release dry-run'.                    *)
LEMMA DownloadStarts == (Download => Starts) /\ (Release => Starts)
<1>1. ASSUME NEW t \in Targets, NEW flags \in SUBSET {"release"}, NEW c \in CiTrees, NEW rest \in Seq(CiTrees)
      PROVE  StartOk("download", flags, t, rest, DownloadSteps(c, t))
    <2>1. ASSUME NEW r, r.name = "download", r.flags = flags, r.target = t
          PROVE  Path(DownloadSteps(c, t), r, <<"verify-fingerprint", c>>, <<"end">>)
        BY <2>1, DownloadPath
    <2>2. <<"verify-fingerprint", c>>[1] = "verify-fingerprint" OBVIOUS
    <2>3. \A r : r.name = "download" /\ r.flags = flags /\ r.target = t =>
            \E a : Path(DownloadSteps(c, t), r, a, <<"end">>) /\ FirstOk("download", a[1])
        BY <2>1, <2>2 DEF FirstOk
    <2> QED BY <2>3, PathStartOk
<1>2. StartOk("dry-run", {}, None, <<>>, <<<<"stage">>, <<"validate">>>> \o End)
    <2>1. ASSUME NEW r, r.name = "dry-run", r.flags = {}, r.target = None
          PROVE  \E a : /\ Path(<<<<"stage">>, <<"validate">>>> \o End, r, a, <<"end">>)
                        /\ FirstOk("dry-run", a[1])
        <3>1. <<"stage">>[1] = "stage" OBVIOUS
        <3> QED BY <2>1, <3>1, DryRunPath DEF FirstOk
    <2>2. <<>> \in Seq(CiTrees) OBVIOUS
    <2> QED BY <2>1, <2>2, PathStartOk
<1>3. <<>> \in Seq(CiTrees) OBVIOUS
<1>4. Download => Starts
    BY <1>1, <1>3, RunsTyped DEF Download, DownloadAssetsFromRelease, Starts
<1>5. Release => Starts BY <1>2 DEF Release, Starts
<1> QED BY <1>4, <1>5

-----------------------------------------------------------------------------
(* The kinds of step.                                                      *)

(* The command goes on.                                                    *)
Advances ==
  /\ ~Idle /\ Head(cmd)[1] # "end" /\ cmd' = Tail(cmd)
  /\ UNCHANGED <<tree, run, done, commands, events>> /\ fpFile' \in {fpFile, tree}
Aborts ==
  /\ ~Idle /\ Abort /\ events' \in {events, events + 1} /\ (events' = events \/ events < MaxEvents)
Edits == Edit /\ tree' \in Trees /\ dirty' \subseteq Sources

(* Every step is of one of these kinds.                                    *)
LEMMA StepKinds ==
  ASSUME PipelineTypeOK, Next
  PROVE  Starts \/ Advances \/ Finish \/ Aborts \/ Edits
<1>1. CASE Extensions \/ Assets \/ Download \/ Release
    BY <1>1, ExtensionsStarts, AssetsStarts, DownloadStarts
<1>2. ASSUME NEW op, op # "end", Perform(op) PROVE Advances
    BY <1>2 DEF Perform, Step, Advances
<1>3. CASE BuildStep BY <1>2, <1>3 DEF BuildStep
<1>4. CASE RecordStep BY <1>2, <1>4 DEF RecordStep
<1>5. CASE PackageStep BY <1>2, <1>5 DEF PackageStep
<1>6. CASE CatalogStep BY <1>2, <1>6 DEF CatalogStep
<1>7. CASE InstallDownloadedArtifacts BY <1>2, <1>7 DEF InstallDownloadedArtifacts
<1>8. CASE StageReleaseWorkspace \/ WriteFingerprint
    BY <1>8 DEF StageReleaseWorkspace, WriteFingerprint, UnchangedFiles, Step, Advances
<1>9. CASE ValidateRelease BY <1>2, <1>9 DEF ValidateRelease
<1>10. CASE Finish BY <1>10
<1>11. CASE Refuse BY <1>11 DEF Refuse, Aborts
<1>12. CASE BuildBreaks \/ PackageBreaks BY <1>12 DEF BuildBreaks, PackageBreaks, Break, Aborts
<1>13. CASE EditInputs \/ EditCheckout
    BY <1>13 DEF EditInputs, EditCheckout, Edits, PipelineTypeOK, CatalogTypeOK, BuildTypeOK
<1> QED BY <1>1, <1>3, <1>4, <1>5, <1>6, <1>7, <1>8, <1>9, <1>10, <1>11, <1>12, <1>13 DEF Next

(* The next step of a command that goes on follows the one it has done.    *)
LEMMA Advance ==
  ASSUME PipelineTypeOK, WellFormed, Bookkeeping, Advances
  PROVE  /\ ~done /\ cmd # <<>> /\ Head(cmd) = cmd[1] /\ cmd[1] \in Steps /\ At = cmd[1][1]
         /\ cmd' # <<>> /\ cmd' \in Seq(Steps) /\ WellFormed' /\ cmd'[1] \in Steps
         /\ At' = cmd'[1][1] /\ Follows(cmd[1], cmd'[1], run)
         /\ <<At, At'>> \in Edges(run.name, run.flags)
<1>1. cmd # <<>> /\ Chain(cmd, run) /\ cmd[Len(cmd)] = <<"end">>
    BY DEF Advances, Idle, WellFormed
<1>2. /\ cmd[1] \in Steps /\ Head(cmd) = cmd[1] /\ Tail(cmd) \in Seq(Steps)
      /\ Tail(cmd) = <<>> <=> cmd[1][1] = "end"
      /\ Tail(cmd) # <<>> =>
           /\ Chain(Tail(cmd), run) /\ Tail(cmd)[Len(Tail(cmd))] = <<"end">>
           /\ Follows(cmd[1], Tail(cmd)[1], run)
    BY <1>1, ChainTail
<1>3. cmd' = Tail(cmd) /\ run' = run /\ cmd[1][1] # "end" BY <1>2 DEF Advances
<1>4. /\ cmd' # <<>> /\ cmd' \in Seq(Steps) /\ Chain(cmd', run') /\ cmd'[Len(cmd')] = <<"end">>
      /\ Follows(cmd[1], cmd'[1], run)
    BY <1>2, <1>3
<1>5. cmd'[1] \in Steps BY <1>4
<1>6. At = cmd[1][1] /\ At' = cmd'[1][1] BY <1>1, <1>4 DEF At
<1>7. ~done BY <1>1 DEF Bookkeeping
<1>8. WellFormed' BY <1>4 DEF WellFormed
<1> QED BY <1>1, <1>2, <1>4, <1>5, <1>6, <1>7, <1>8 DEF Follows

(* What a command is made of depends on its name, flags and target.        *)
LEMMA ChainOf ==
  ASSUME NEW s, NEW r, NEW q, q.name = r.name, q.flags = r.flags, q.target = r.target, Chain(s, r)
  PROVE  Chain(s, q)
BY DEF Chain, Follows

(* The commands stay well formed.                                          *)
LEMMA WellFormedKept ==
  ASSUME PipelineTypeOK, WellFormed, Bookkeeping, Next
  PROVE  WellFormed'
<1>1. CASE Starts
    <2>1. PICK name, flags, t, rest, steps :
            Start(name, flags, t, rest, steps) /\ StartOk(name, flags, t, rest, steps)
        BY <1>1 DEF Starts
    <2>2. cmd' = steps /\ run'.name = name /\ run'.flags = flags /\ run'.target = t
        BY <2>1 DEF Start
    <2>3. Chain(steps, run') /\ steps[Len(steps)] = <<"end">>
        BY <2>1, <2>2 DEF StartOk
    <2> QED BY <2>2, <2>3 DEF WellFormed
<1>2. CASE Advances BY <1>2, Advance
<1>3. CASE Finish BY <1>3 DEF Finish, WellFormed
<1>4. CASE Aborts
    <2>1. CASE run.rest = <<>> BY <1>4, <2>1 DEF Aborts, Abort, WellFormed
    <2>2. CASE run.rest # <<>>
        <3>1. run.name = "download" /\ run.target \in Targets /\ run.rest \in Seq(CiTrees)
            BY <2>2 DEF Bookkeeping, PipelineTypeOK, CommandTypeOK
        <3>2. Head(run.rest) \in CiTrees BY <2>2, <3>1
        <3>3. /\ cmd' = DownloadSteps(Head(run.rest), run.target)
              /\ run' = [run EXCEPT !.rest = Tail(@)]
            BY <1>4, <2>2 DEF Aborts, Abort
        <3>4. run'.name = run.name /\ run'.target = run.target
            BY <3>3 DEF PipelineTypeOK, CommandTypeOK
        <3>5. Path(DownloadSteps(Head(run.rest), run.target), run', <<"verify-fingerprint", Head(run.rest)>>, <<"end">>)
            BY <3>1, <3>2, <3>4, DownloadPath
        <3> QED BY <3>3, <3>5 DEF WellFormed, Path
    <2> QED BY <2>1, <2>2
<1>5. CASE Edits
    <2>1. cmd' = cmd /\ run' = [run EXCEPT !.steady = FALSE] BY <1>5 DEF Edits, Edit
    <2>2. run'.name = run.name /\ run'.flags = run.flags /\ run'.target = run.target
        BY <2>1 DEF PipelineTypeOK, CommandTypeOK
    <2> QED BY <2>1, <2>2, ChainOf DEF WellFormed
<1> QED BY <1>1, <1>2, <1>3, <1>4, <1>5, StepKinds

(* What is known of the command that runs or ran last.                     *)
LEMMA BookkeepingKept ==
  ASSUME PipelineTypeOK, WellFormed, Bookkeeping, Next
  PROVE  Bookkeeping' /\ CommandTypeOK'
<1> DEFINE RunType == [name : Names, flags : SUBSET {"fetch", "skip-build", "skip-aot", "release"},
              target : Targets \cup {None}, pins : [Sources -> Commits], steady : BOOLEAN,
              rest : Seq(CiTrees), cat : Catalogs]
<1>1. /\ run \in RunType /\ tree \in Trees /\ fpFile \in Trees /\ done \in BOOLEAN
      /\ commands \in 0 .. MaxCommands /\ events \in 0 .. MaxEvents
      /\ MaxCommands \in Nat /\ MaxEvents \in Nat
    BY RunsAssumption DEF PipelineTypeOK, CommandTypeOK, CatalogTypeOK
<1>2. tree.pins \in [Sources -> Commits] /\ tree.requested \in SUBSET Exts BY <1>1, InputsAssumption
<1>3. CASE Starts
    <2>1. PICK name, flags, t, rest, steps :
            Start(name, flags, t, rest, steps) /\ StartOk(name, flags, t, rest, steps)
        BY <1>3 DEF Starts
    <2>2. /\ cmd' = steps /\ commands' = commands + 1 /\ commands < MaxCommands
          /\ run' = [name |-> name, flags |-> flags, target |-> t, pins |-> tree.pins,
                     steady |-> TRUE, rest |-> rest, cat |-> DiscoverCatalog(tree, Packaged(gen))]
          /\ done' = FALSE /\ tree' = tree /\ fpFile' = fpFile /\ events' = events
        BY <2>1 DEF Start
    <2>3. DiscoverCatalog(tree, Packaged(gen)) \in Catalogs
        BY <1>2 DEF DiscoverCatalog, PromotionConfig, Catalogs
    <2>4. run' \in RunType BY <1>2, <2>1, <2>2, <2>3 DEF StartOk
    <2>5. CommandTypeOK'
        <3>1. steps \in Seq(Steps) BY <2>1 DEF StartOk
        <3>2. commands' \in 0 .. MaxCommands BY <1>1, <2>2
        <3> QED BY <1>1, <2>2, <2>4, <3>1, <3>2 DEF CommandTypeOK
    <2> QED BY <2>1, <2>2, <2>5 DEF StartOk, Bookkeeping
<1>4. CASE Advances
    <2>1. cmd' \in Seq(Steps) /\ ~done BY <1>4, Advance
    <2>2. UNCHANGED <<tree, run, done, commands, events>> /\ fpFile' \in {fpFile, tree} BY <1>4 DEF Advances
    <2> QED BY <1>1, <2>1, <2>2 DEF Bookkeeping, CommandTypeOK
<1>5. CASE Finish
    <2>1. /\ cmd' = <<>> /\ done' = run.steady
          /\ UNCHANGED <<tree, run, fpFile, commands, events>>
        BY <1>5 DEF Finish, UnchangedFiles
    <2>2. <<>> \in Seq(Steps) OBVIOUS
    <2> QED BY <1>1, <2>1, <2>2 DEF Bookkeeping, CommandTypeOK
<1>6. CASE Aborts
    <2>1. /\ UNCHANGED <<tree, fpFile, done, commands>> /\ events' \in 0 .. MaxEvents /\ cmd # <<>>
        BY <1>1, <1>6 DEF Aborts, Abort, Idle
    <2>2. done' = FALSE BY <1>1, <2>1 DEF Bookkeeping
    <2>3. CASE run.rest = <<>>
        <3>1. cmd' = <<>> /\ run' = run BY <1>6, <2>3 DEF Aborts, Abort
        <3>2. <<>> \in Seq(Steps) OBVIOUS
        <3> QED BY <1>1, <2>1, <2>2, <3>1, <3>2 DEF Bookkeeping, CommandTypeOK
    <2>4. CASE run.rest # <<>>
        <3>1. run.name = "download" /\ run.target \in Targets /\ run.rest \in Seq(CiTrees)
            BY <1>1, <2>4 DEF Bookkeeping
        <3>2. Head(run.rest) \in CiTrees /\ Tail(run.rest) \in Seq(CiTrees) BY <2>4, <3>1
        <3>3. /\ cmd' = DownloadSteps(Head(run.rest), run.target)
              /\ run' = [run EXCEPT !.rest = Tail(run.rest)]
            BY <1>6, <2>4 DEF Aborts, Abort
        <3>4. cmd' \in Seq(Steps)
            BY <3>1, <3>2, <3>3, DownloadPath DEF Path, Chain
        <3>5. /\ run' \in RunType /\ run'.name = run.name /\ run'.target = run.target
              /\ run'.steady = run.steady /\ run'.pins = run.pins
            BY <1>1, <3>2, <3>3
        <3> HIDE DEF RunType
        <3>6. CommandTypeOK'
            <4> USE DEF RunType
            <4> QED BY <1>1, <2>1, <2>2, <3>4, <3>5 DEF CommandTypeOK
        <3>7. Bookkeeping' BY <2>1, <2>2, <3>1, <3>5 DEF Bookkeeping
        <3> QED BY <3>6, <3>7
    <2> QED BY <2>3, <2>4
<1>7. CASE Edits
    <2>1. /\ cmd' = cmd /\ run' = [run EXCEPT !.steady = FALSE] /\ done' = FALSE /\ tree' \in Trees
          /\ UNCHANGED <<fpFile, commands>> /\ events' \in 0 .. MaxEvents
        BY <1>1, <1>7 DEF Edits, Edit
    <2>2. /\ run' \in RunType /\ run'.name = run.name /\ run'.target = run.target
          /\ run'.steady = FALSE /\ run'.rest = run.rest
        BY <1>1, <2>1
    <2>3. CommandTypeOK' BY <1>1, <2>1, <2>2 DEF CommandTypeOK, PipelineTypeOK
    <2>4. Bookkeeping' BY <2>1, <2>2 DEF Bookkeeping
    <2> QED BY <2>3, <2>4
<1> QED BY <1>3, <1>4, <1>5, <1>6, <1>7, StepKinds

-----------------------------------------------------------------------------
(* Type correctness.                                                       *)

PortableAssets == [mods : Outputs, template : Templates \cup {None}, manifest : Manifests \cup {None}]
Artifacts == [files : Outputs, manifest : [files : Outputs, mods : Outputs] \cup {None}]

(* What the steps make of modules are modules.                             *)
LEMMA OutputsTyped ==
  /\ None \in Outs /\ NoMods \in Outputs
  /\ \A f, g \in Outputs : \A some : [m \in Modules |-> IF m \in some THEN f[m] ELSE g[m]] \in Outputs
  /\ \A f \in Outputs : \A some : [m \in Modules |-> IF m \in some THEN f[m] ELSE None] \in Outputs
  /\ \A f, g \in Outputs : OnTop(f, g) \in Outputs
  /\ \A f \in Outputs, name \in Names \cup {"ci"} : TemplateBy(f, name) \in Templates
<1>1. None \in Outs BY DEF Outs
<1>2. "runtime" \in Modules /\ "initdb" \in Modules BY DEF Modules
<1> QED BY <1>1, <1>2 DEF Outputs, NoMods, OnTop, TemplateBy, Templates

(* Compiling gives a module.                                               *)
LEMMA ContentTyped ==
  ASSUME NEW m \in Modules, NEW commit \in Commits \cup {None}, NEW patch \in Patches,
         NEW own \in Commits \cup {None, Changed}
  PROVE  Content(m, commit, patch, own) \in Outs /\ Content(m, commit, patch, own) # None
<1>1. Content(m, commit, patch, own) \in Outs BY DEF Outs
<1>2. Content(m, commit, patch, own) # None BY InputsAssumption
<1> QED BY <1>1, <1>2

(* A module that is compiled.                                              *)
LEMMA CompiledTyped ==
  ASSUME PipelineTypeOK
  PROVE  /\ \A m \in Modules, own \in Commits \cup {None, Changed} : Compiled(m, own) \in Outs
         /\ \A s \in Sources : head[s] \in Commits \cup {None}
         /\ \A m \in Modules, own \in Commits \cup {None, Changed} : Compiled(m, own) # None
<1>1. head \in [Sources -> Commits \cup {None}] /\ tree.patch \in Patches
    BY InputsAssumption DEF PipelineTypeOK, BuildTypeOK, CatalogTypeOK
<1>2. head["postgres"] \in Commits \cup {None} BY <1>1 DEF Sources
<1>3. ASSUME NEW m \in Modules, NEW own \in Commits \cup {None, Changed}
      PROVE  Compiled(m, own) \in Outs /\ Compiled(m, own) # None
    BY <1>1, <1>2, ContentTyped DEF Compiled
<1> QED BY <1>1, <1>3

(* The outputs that are found.                                             *)
LEMMA FoundTyped ==
  ASSUME PipelineTypeOK
  PROVE  /\ BuildOutputs \in Outputs
         /\ FromPackagedAssets(gen) \in Outputs \cup {None}
         /\ DiscoverForAot \in Outputs \cup {None}
<1>1. built \in Outputs /\ gen.mods \in Outputs BY DEF PipelineTypeOK, BuildTypeOK, PackageTypeOK
<1>2. BuildOutputs \in Outputs BY <1>1, OutputsTyped DEF BuildOutputs
<1>3. FromPackagedAssets(gen) \in Outputs \cup {None} BY <1>1, OutputsTyped DEF FromPackagedAssets
<1> QED BY <1>2, <1>3 DEF DiscoverForAot

(* What an Assets run has made.                                            *)
LEMMA CiTyped ==
  ASSUME NEW c \in CiTrees
  PROVE  /\ c \in Trees /\ BuildOf(c) \in Outputs
         /\ CiAssets(c) \in PortableAssets /\ CiAssets(c).manifest \in Manifests
         /\ CiAot(c) \in Artifacts
<1>1. c \in Trees BY RunsTyped
<1>2. /\ c.pins \in [Sources -> Commits] /\ c.patch \in Patches
      /\ c.requested \in SUBSET Exts /\ c.passed \in SUBSET Exts
    BY <1>1, InputsAssumption
<1>3. BuildOf(c) \in Outputs
    <2>1. ASSUME NEW m \in Modules PROVE BuildOf(c)[m] \in Outs
        <3>1. c.pins["postgres"] \in Commits BY <1>2 DEF Sources
        <3>2. CASE m \in {"runtime", "initdb"}
            <4>1. m \notin c.requested BY <1>2, <3>2, InputsAssumption
            <4>2. BuildOf(c)[m] = Content(m, c.pins["postgres"], c.patch, None) BY <3>2, <4>1 DEF BuildOf
            <4> QED BY <1>2, <3>1, <4>2, ContentTyped
        <3>3. CASE m \notin {"runtime", "initdb"} /\ m \in c.requested
            <4>1. c.pins[m] \in Commits BY <1>2, <3>3 DEF Sources
            <4>2. BuildOf(c)[m] = Content(m, c.pins["postgres"], c.patch, c.pins[m])
                BY <3>3 DEF BuildOf
            <4> QED BY <1>2, <3>1, <4>1, <4>2, ContentTyped
        <3>4. CASE m \notin {"runtime", "initdb"} /\ m \notin c.requested
            BY <3>4 DEF BuildOf, Outs
        <3> QED BY <3>2, <3>3, <3>4
    <2>2. BuildOf(c) = [m \in Modules |-> BuildOf(c)[m]] BY DEF BuildOf
    <2> QED BY <2>1, <2>2 DEF Outputs
<1>4. TemplateBy(BuildOf(c), "ci") \in Templates BY <1>3, OutputsTyped
<1>5. [mods |-> BuildOf(c), template |-> TemplateBy(BuildOf(c), "ci"), pins |-> c.pins, passed |-> c.passed]
        \in Manifests
    BY <1>2, <1>3, <1>4 DEF Manifests
<1> QED BY <1>1, <1>3, <1>4, <1>5 DEF CiAssets, CiAot, PortableAssets, Artifacts

(* The catalogue files.                                                    *)
LEMMA CatalogTypeKept ==
  ASSUME PipelineTypeOK, Next
  PROVE  CatalogTypeOK'
<1>1. /\ tree \in Trees /\ catalog \in Catalogs /\ plan \in SUBSET Exts /\ api \in SUBSET Exts
      /\ run.cat \in Catalogs
    BY DEF PipelineTypeOK, CatalogTypeOK, CommandTypeOK
<1>2. CASE CatalogStep
    <2>1. tree' = tree BY <1>2 DEF CatalogStep, Perform
    <2>2. catalog' \in {catalog, run.cat} /\ plan' \in {plan, run.cat.requested} /\ api' \in {api, run.cat.promoted}
        BY <1>2 DEF CatalogStep, catalogVars, WriteCatalog, WriteBuildPlan, WriteGeneratedApi
    <2> QED BY <1>1, <2>1, <2>2 DEF CatalogTypeOK, Catalogs
<1>3. CASE EditInputs \/ EditCheckout
    BY <1>1, <1>3 DEF EditInputs, EditCheckout, Edit, CatalogTypeOK, catalogVars
<1>4. CASE UNCHANGED <<tree, catalogVars>>
    BY <1>1, <1>4 DEF CatalogTypeOK, catalogVars
<1>5. Next => CatalogStep \/ EditInputs \/ EditCheckout \/ UNCHANGED <<tree, catalogVars>>
    <2>1. CASE Starts BY <2>1 DEF Starts, Start
    <2>2. CASE BuildStep \/ RecordStep \/ PackageStep \/ InstallDownloadedArtifacts
        BY <2>2 DEF BuildStep, RecordStep, PackageStep, InstallDownloadedArtifacts, Perform
    <2>3. CASE StageReleaseWorkspace \/ ValidateRelease \/ WriteFingerprint \/ Finish
        BY <2>3 DEF StageReleaseWorkspace, ValidateRelease, WriteFingerprint, Finish, UnchangedFiles
    <2>4. CASE Refuse \/ BuildBreaks \/ PackageBreaks
        BY <2>4 DEF Refuse, BuildBreaks, PackageBreaks, Break, Abort
    <2> QED BY <2>1, <2>2, <2>3, <2>4, ExtensionsStarts, AssetsStarts, DownloadStarts DEF Next
<1> QED BY <1>2, <1>3, <1>4, <1>5

(* The checkouts and the build directory.                                  *)
LEMMA BuildTypeKept ==
  ASSUME PipelineTypeOK, WellFormed, Bookkeeping, Next
  PROVE  BuildTypeOK'
<1>1. /\ head \in [Sources -> Commits \cup {None}] /\ dirty \in SUBSET Sources
      /\ built \in Outputs /\ mods \in Outputs /\ plan \in SUBSET Exts
      /\ run.pins \in [Sources -> Commits]
    BY DEF PipelineTypeOK, CatalogTypeOK, BuildTypeOK, CommandTypeOK
<1>2. "runtime" \in Modules /\ "initdb" \in Modules BY DEF Modules
<1>3. Reconfigured \in Outputs BY <1>1, OutputsTyped DEF Reconfigured
<1>4. /\ Compiled("runtime", None) \in Outs /\ Compiled("initdb", None) \in Outs
    BY <1>2, CompiledTyped
<1>5. CASE UNCHANGED <<head, dirty, built>> /\ mods' \in Outputs BY <1>1, <1>5 DEF BuildTypeOK
<1>6. ASSUME NEW made \in SUBSET plan, NEW cut, DockerPgxsExtensions(made, cut) PROVE BuildTypeOK'
    <2>0. built' = [m \in Modules |->
            IF m \in made THEN Compiled(m, IF m \in dirty THEN Changed ELSE head[m])
            ELSE IF m \in cut \ made THEN None ELSE built[m]]
        BY <1>6 DEF DockerPgxsExtensions
    <2>1. ASSUME NEW m \in Modules
          PROVE  (IF m \in made THEN Compiled(m, IF m \in dirty THEN Changed ELSE head[m])
                  ELSE IF m \in cut \ made THEN None ELSE built[m]) \in Outs
        <3>1. CASE m \in made
            <4>1. m \in Sources BY <1>1, <3>1 DEF Sources
            <4>2. (IF m \in dirty THEN Changed ELSE head[m]) \in Commits \cup {None, Changed}
                BY <4>1, CompiledTyped
            <4> QED BY <3>1, <4>2, CompiledTyped
        <3>2. CASE m \notin made BY <1>1, <3>2 DEF Outputs, Outs
        <3> QED BY <3>1, <3>2
    <2>2. built' \in Outputs BY <2>0, <2>1 DEF Outputs
    <2> QED BY <1>1, <1>6, <2>2 DEF DockerPgxsExtensions, BuildTypeOK
<1>7. CASE BuildStep
    <2>1. CASE Perform("fetch") /\ FetchPinnedSource(Arg(2))
        <3>1. Advances BY <2>1 DEF Perform, Step, Advances
        <3>2. Arg(2) \in Sources
            BY <2>1, <3>1, Advance, StepArgs DEF Perform, Step, Arg
        <3>3. run.pins[Arg(2)] \in Commits BY <1>1, <3>2
        <3> QED BY <1>1, <2>1, <3>3 DEF FetchPinnedSource, BuildTypeOK
    <2>2. CASE Perform("spine") /\ UnchangedMaking BY <1>1, <2>2 DEF UnchangedMaking, buildVars, BuildTypeOK
    <2>3. CASE Perform("runtime") /\ DockerPglite
        <3>1. built' \in Outputs BY <1>3, <1>4, <2>3 DEF DockerPglite, Outputs
        <3> QED BY <1>1, <2>3, <3>1 DEF DockerPglite, BuildTypeOK
    <2>4. CASE Perform("initdb") /\ DockerInitdb
        <3>1. built' \in Outputs BY <1>1, <1>4, <2>4 DEF DockerInitdb, Outputs
        <3> QED BY <1>1, <2>4, <3>1 DEF DockerInitdb, BuildTypeOK
    <2>5. CASE Perform("pgxs") /\ DockerPgxsExtensions(plan, {}) BY <1>6, <2>5
    <2>6. CASE Perform("outputs") /\ mods' = BuildOutputs /\ UNCHANGED buildVars
        BY <1>5, <2>6, FoundTyped DEF buildVars
    <2>7. CASE Perform("aot-outputs") /\ mods' = DiscoverForAot /\ UNCHANGED buildVars
        <3>1. DiscoverForAot # None BY <2>7 DEF Perform, Step, Accepts
        <3> QED BY <1>5, <2>7, <3>1, FoundTyped DEF buildVars
    <2> QED BY <1>7, <2>1, <2>2, <2>3, <2>4, <2>5, <2>6, <2>7 DEF BuildStep
<1>8. CASE Starts
    <2>1. mods' = NoMods /\ UNCHANGED buildVars BY <1>8 DEF Starts, Start
    <2> QED BY <1>5, <2>1, OutputsTyped DEF buildVars
<1>9. CASE RecordStep \/ PackageStep \/ CatalogStep \/ InstallDownloadedArtifacts \/ PackageBreaks
    BY <1>1, <1>5, <1>9 DEF RecordStep, PackageStep, CatalogStep, InstallDownloadedArtifacts, PackageBreaks,
         UnchangedMaking, buildVars
<1>10. CASE StageReleaseWorkspace \/ ValidateRelease \/ WriteFingerprint \/ Finish
    BY <1>1, <1>5, <1>10 DEF StageReleaseWorkspace, ValidateRelease, WriteFingerprint, Finish, UnchangedFiles, buildVars
<1>11. CASE Refuse BY <1>1, <1>5, <1>11 DEF Refuse, buildVars
<1>12. CASE BuildBreaks
    <2>1. CASE UNCHANGED <<buildVars, mods>> BY <1>1, <1>5, <2>1 DEF buildVars
    <2>2. CASE DockerPgliteInterrupted BY <1>1, <1>3, <2>2 DEF DockerPgliteInterrupted, BuildTypeOK
    <2>3. CASE DockerInitdbInterrupted
        BY <1>1, <2>3, OutputsTyped DEF DockerInitdbInterrupted, BuildTypeOK, Outputs
    <2> QED BY <1>6, <1>12, <2>1, <2>2, <2>3 DEF BuildBreaks
<1>13. CASE EditInputs \/ EditCheckout
    BY <1>1, <1>13 DEF EditInputs, EditCheckout, Edit, BuildTypeOK
<1> QED BY <1>7, <1>8, <1>9, <1>10, <1>11, <1>12, <1>13, ExtensionsStarts, AssetsStarts, DownloadStarts DEF Next

(* What is packaged is changed by the steps of the packaging commands, by  *)
(* a download and by their failures alone.                                 *)
LEMMA PackageChanges ==
  ASSUME Next
  PROVE  PackageStep \/ InstallDownloadedArtifacts \/ PackageBreaks \/ UNCHANGED packageVars
<1>1. CASE Starts BY <1>1 DEF Starts, Start
<1>2. CASE BuildStep \/ RecordStep \/ CatalogStep BY <1>2 DEF BuildStep, RecordStep, CatalogStep
<1>3. CASE StageReleaseWorkspace \/ ValidateRelease \/ WriteFingerprint \/ Finish
    BY <1>3 DEF StageReleaseWorkspace, ValidateRelease, WriteFingerprint, Finish, UnchangedFiles
<1>4. CASE Refuse \/ BuildBreaks BY <1>4 DEF Refuse, BuildBreaks
<1>5. CASE EditInputs \/ EditCheckout BY <1>5 DEF EditInputs, EditCheckout, Edit
<1> QED BY <1>1, <1>2, <1>3, <1>4, <1>5, ExtensionsStarts, AssetsStarts, DownloadStarts DEF Next

(* The arguments of the steps that have some.                              *)
LEMMA ArgsTyped ==
  ASSUME PipelineTypeOK, WellFormed, ~Idle
  PROVE  /\ Head(cmd) = cmd[1] /\ cmd[1] \in Steps
         /\ Step("fetch") => Arg(2) \in Sources
         /\ \A op \in TargetOps : Step(op) => Arg(2) \in Targets
         /\ \A op \in {"verify-fingerprint", "install-assets", "install-aot"} : Step(op) => Arg(2) \in CiTrees
         /\ Step("install-aot") => Arg(3) \in Targets
<1>1. cmd # <<>> /\ Chain(cmd, run) /\ cmd[Len(cmd)] = <<"end">> BY DEF Idle, WellFormed
<1>2. Head(cmd) = cmd[1] /\ cmd[1] \in Steps BY <1>1, ChainTail
<1> QED BY <1>2, StepArgs DEF Step, Arg

(* The packaged files.                                                     *)
LEMMA PackageTypeKept ==
  ASSUME PipelineTypeOK, WellFormed, AotThere, Next
  PROVE  PackageTypeOK'
<1>1. /\ gen \in PortableAssets /\ aotDir \in [Targets -> Outputs \cup {None}]
      /\ genAot \in [Targets -> Artifacts]
      /\ mods \in Outputs /\ run.name \in Names /\ run.pins \in [Sources -> Commits]
    BY DEF PipelineTypeOK, PackageTypeOK, BuildTypeOK, CommandTypeOK, PortableAssets, Artifacts
<1>2. /\ "runtime" \in Modules /\ "initdb" \in Modules /\ mods["runtime"] \in Outs /\ mods["initdb"] \in Outs
    BY <1>1 DEF Modules, Outputs
<1>3. tree.passed \in SUBSET Exts
    BY InputsAssumption DEF PipelineTypeOK, CatalogTypeOK
<1>4. /\ gen.mods \in Outputs /\ gen.template \in Templates \cup {None} /\ gen.manifest \in Manifests \cup {None}
    BY <1>1 DEF PortableAssets
<1>5. SUFFICES /\ gen' \in PortableAssets /\ aotDir' \in [Targets -> Outputs \cup {None}]
               /\ genAot' \in [Targets -> Artifacts]
    BY <1>5 DEF PackageTypeOK, PortableAssets, Artifacts
<1>6. ASSUME NEW some, PackagePromotedExtensions(some) PROVE gen' \in PortableAssets
    <2>1. gen' = [gen EXCEPT !.mods = [m \in Modules |-> IF m \in some THEN mods[m] ELSE gen.mods[m]]]
        BY <1>1, <1>6 DEF PackagePromotedExtensions, PortableAssets
    <2>2. [m \in Modules |-> IF m \in some THEN mods[m] ELSE gen.mods[m]] \in Outputs
        BY <1>1, <1>4 DEF Outputs
    <2> QED BY <1>1, <2>1, <2>2 DEF PortableAssets
<1>7. ASSUME NEW t \in Targets, NEW some, DiscoverForAot # None, GenerateAotArtifacts(t, some)
      PROVE  aotDir' \in [Targets -> Outputs \cup {None}]
    <2> DEFINE old == IF aotDir[t] = None THEN NoMods ELSE aotDir[t]
    <2>1. old \in Outputs BY <1>1, OutputsTyped
    <2>2. DiscoverForAot \in Outputs BY <1>7, FoundTyped
    <2>3. [m \in Modules |-> IF m \in some THEN DiscoverForAot[m] ELSE old[m]] \in Outputs
        BY <2>1, <2>2, OutputsTyped
    <2> QED BY <1>1, <1>7, <2>3 DEF GenerateAotArtifacts
<1>8. ASSUME NEW t \in Targets, NEW some, aotDir[t] # None
      PROVE  CopiedAot(t, some) \in Outputs
    BY <1>1, <1>8, OutputsTyped DEF CopiedAot
<1>9. CASE PackageStep
    <2>1. ~Idle BY <1>9 DEF PackageStep, Perform, Step
    <2>2. \A op \in TargetOps : Step(op) => Arg(2) \in Targets BY <2>1, ArgsTyped
    <2>3. CASE Perform("clear") /\ ClearAssets /\ UNCHANGED <<aotDir, genAot>>
        BY <1>1, <2>3, OutputsTyped DEF ClearAssets, NoAssets, PortableAssets
    <2>4. CASE (StageRuntimeTree \/ CopyTools) /\ UNCHANGED <<aotDir, genAot>>
        <3>1. PICK m \in {"runtime", "initdb"} : gen' = [gen EXCEPT !.mods[m] = mods[m]]
            BY <2>4 DEF StageRuntimeTree, CopyTools
        <3>2. gen' = [gen EXCEPT !.mods = [gen.mods EXCEPT ![m] = mods[m]]] BY <1>1, <3>1 DEF PortableAssets
        <3>3. [gen.mods EXCEPT ![m] = mods[m]] \in Outputs BY <1>2, <1>4 DEF Outputs
        <3> QED BY <1>1, <2>4, <3>2, <3>3 DEF PortableAssets
    <2>5. CASE PackagePromotedExtensions(PromotedBuildSpecs(tree)) /\ UNCHANGED <<aotDir, genAot>>
        BY <1>1, <1>6, <2>5
    <2>6. CASE ClearTemplate /\ UNCHANGED <<aotDir, genAot>>
        BY <1>1, <2>6 DEF ClearTemplate, PortableAssets
    <2>7. CASE GeneratePgdataTemplate /\ UNCHANGED <<aotDir, genAot>>
        <3>1. TemplateBy(mods, run.name) \in Templates BY <1>1, OutputsTyped
        <3> QED BY <1>1, <2>7, <3>1 DEF GeneratePgdataTemplate, PortableAssets
    <2>8. CASE WriteAssetManifest /\ UNCHANGED <<aotDir, genAot>>
        <3> DEFINE manifest == [mods |-> gen.mods, template |-> gen.template,
                                pins |-> run.pins, passed |-> tree.passed]
        <3>1. manifest \in Manifests BY <1>1, <1>3, <1>4 DEF Manifests
        <3>2. gen' = [gen EXCEPT !.manifest = manifest] BY <2>8 DEF WriteAssetManifest
        <3> QED BY <1>1, <2>8, <3>1, <3>2 DEF PortableAssets
    <2>9. CASE UNCHANGED packageVars BY <1>1, <2>9 DEF packageVars
    <2>10. CASE /\ Perform("serialize") /\ GenerateAotArtifacts(Arg(2), Listed(DiscoverForAot))
                /\ UNCHANGED <<gen, genAot>>
        <3>1. Arg(2) \in Targets BY <2>2, <2>10 DEF Perform, TargetOps
        <3>2. DiscoverForAot # None BY <2>10 DEF Perform, Step, Accepts
        <3> QED BY <1>1, <1>7, <2>10, <3>1, <3>2
    <2>11. CASE Perform("clear-aot") /\ ClearAot(Arg(2)) /\ UNCHANGED <<gen, aotDir>>
        <3>1. NoAot \in Artifacts BY OutputsTyped DEF NoAot, Artifacts
        <3> QED BY <1>1, <2>11, <3>1 DEF ClearAot
    <2>12. CASE Perform("copy-aot") /\ PackageAotArtifacts(Arg(2)) /\ UNCHANGED <<gen, aotDir>>
        <3> DEFINE files == CopiedAot(Arg(2), Listed(mods))
        <3>1. Arg(2) \in Targets BY <2>2, <2>12 DEF Perform, TargetOps
        <3>2. aotDir[Arg(2)] # None BY <2>1, <2>12, ArgsTyped DEF AotThere, At, Perform, Step, Arg, Idle
        <3>3. files \in Outputs BY <1>8, <3>1, <3>2
        <3>4. [files |-> files, manifest |-> [files |-> files, mods |-> mods]] \in Artifacts
            BY <1>1, <3>3 DEF Artifacts
        <3> QED BY <1>1, <2>12, <3>4 DEF PackageAotArtifacts
    <2> QED BY <1>9, <2>3, <2>4, <2>5, <2>6, <2>7, <2>8, <2>9, <2>10, <2>11, <2>12 DEF PackageStep, packageVars
<1>10. CASE InstallDownloadedArtifacts
    <2>1. ~Idle BY <1>10 DEF InstallDownloadedArtifacts, Perform, Step
    <2>2. CASE UNCHANGED packageVars BY <1>1, <2>2 DEF packageVars
    <2>3. CASE /\ Perform("install-assets")
               /\ gen' = [CiAssets(Arg(2)) EXCEPT !.mods = OnTop(@, gen.mods)]
               /\ UNCHANGED <<aotDir, genAot>>
        <3>1. Arg(2) \in CiTrees BY <2>1, <2>3, ArgsTyped DEF Perform
        <3>2. CiAssets(Arg(2)) \in PortableAssets /\ CiAssets(Arg(2)).mods \in Outputs
            BY <3>1, CiTyped DEF PortableAssets
        <3>3. OnTop(CiAssets(Arg(2)).mods, gen.mods) \in Outputs BY <1>4, <3>2, OutputsTyped
        <3>4. gen' \in PortableAssets BY <2>3, <3>2, <3>3 DEF PortableAssets
        <3> QED BY <1>1, <2>3, <3>4
    <2>4. CASE /\ Perform("install-aot")
               /\ genAot' = [genAot EXCEPT ![Arg(3)] =
                    [CiAot(Arg(2)) EXCEPT !.files = OnTop(@, genAot[Arg(3)].files)]]
               /\ UNCHANGED <<gen, aotDir>>
        <3>1. Arg(2) \in CiTrees /\ Arg(3) \in Targets BY <2>1, <2>4, ArgsTyped DEF Perform
        <3>2. CiAot(Arg(2)) \in Artifacts /\ CiAot(Arg(2)).files \in Outputs /\ genAot[Arg(3)].files \in Outputs
            BY <1>1, <3>1, CiTyped DEF Artifacts
        <3>3. OnTop(CiAot(Arg(2)).files, genAot[Arg(3)].files) \in Outputs BY <3>2, OutputsTyped
        <3>4. [CiAot(Arg(2)) EXCEPT !.files = OnTop(@, genAot[Arg(3)].files)] \in Artifacts
            BY <3>2, <3>3 DEF Artifacts
        <3> QED BY <1>1, <2>4, <3>4
    <2> QED BY <1>10, <2>2, <2>3, <2>4 DEF InstallDownloadedArtifacts
<1>11. CASE PackageBreaks
    <2>1. ~Idle /\ Accepts(Head(cmd)) BY <1>11 DEF PackageBreaks, Break
    <2>2. \A op \in TargetOps : Step(op) => Arg(2) \in Targets BY <2>1, ArgsTyped
    <2>3. ASSUME NEW some, PackagePromotedExtensions(some), UNCHANGED <<aotDir, genAot>>
          PROVE  /\ gen' \in PortableAssets /\ aotDir' \in [Targets -> Outputs \cup {None}]
                 /\ genAot' \in [Targets -> Artifacts]
        BY <1>1, <1>6, <2>3
    <2>4. ASSUME NEW some, Step("serialize"), GenerateAotArtifacts(Arg(2), some), UNCHANGED <<gen, genAot>>
          PROVE  /\ gen' \in PortableAssets /\ aotDir' \in [Targets -> Outputs \cup {None}]
                 /\ genAot' \in [Targets -> Artifacts]
        <3>1. Arg(2) \in Targets BY <2>2, <2>4 DEF TargetOps
        <3>2. DiscoverForAot # None BY <2>1, <2>4 DEF Step, Accepts
        <3> QED BY <1>1, <1>7, <2>4, <3>1, <3>2
    <2>5. ASSUME NEW some, Step("copy-aot"), PackageAotInterrupted(Arg(2), some), UNCHANGED <<gen, aotDir>>
          PROVE  /\ gen' \in PortableAssets /\ aotDir' \in [Targets -> Outputs \cup {None}]
                 /\ genAot' \in [Targets -> Artifacts]
        <3>1. Arg(2) \in Targets BY <2>2, <2>5 DEF TargetOps
        <3>2. aotDir[Arg(2)] # None BY <2>1, <2>5, ArgsTyped DEF AotThere, At, Step, Arg, Idle
        <3>3. CopiedAot(Arg(2), some) \in Outputs BY <1>8, <3>1, <3>2
        <3>4. [files |-> CopiedAot(Arg(2), some), manifest |-> None] \in Artifacts BY <3>3 DEF Artifacts
        <3> QED BY <1>1, <2>5, <3>4 DEF PackageAotInterrupted
    <2>6. ASSUME NEW some, NEW template \in BOOLEAN, NEW manifest \in BOOLEAN, Step("install-assets"),
                 gen' = [mods |-> [m \in Modules |->
                                     IF m \in some THEN OnTop(CiAssets(Arg(2)).mods, gen.mods)[m]
                                     ELSE gen.mods[m]],
                         template |-> IF template THEN CiAssets(Arg(2)).template ELSE gen.template,
                         manifest |-> IF manifest THEN CiAssets(Arg(2)).manifest ELSE gen.manifest],
                 UNCHANGED <<aotDir, genAot>>
          PROVE  /\ gen' \in PortableAssets /\ aotDir' \in [Targets -> Outputs \cup {None}]
                 /\ genAot' \in [Targets -> Artifacts]
        <3> DEFINE new == OnTop(CiAssets(Arg(2)).mods, gen.mods)
        <3>1. Arg(2) \in CiTrees BY <2>1, <2>6, ArgsTyped
        <3>2. /\ CiAssets(Arg(2)).mods \in Outputs /\ CiAssets(Arg(2)).template \in Templates \cup {None}
              /\ CiAssets(Arg(2)).manifest \in Manifests
            BY <3>1, CiTyped DEF PortableAssets
        <3>3. new \in Outputs BY <1>4, <3>2, OutputsTyped
        <3> HIDE DEF new
        <3>4. [m \in Modules |-> IF m \in some THEN new[m] ELSE gen.mods[m]] \in Outputs
            BY <1>4, <3>3, OutputsTyped
        <3>5. gen' \in PortableAssets BY <1>4, <2>6, <3>2, <3>4 DEF new, PortableAssets
        <3> QED BY <1>1, <2>6, <3>5
    <2>7. ASSUME NEW some, NEW manifest \in BOOLEAN, Step("install-aot"),
                 genAot' = [genAot EXCEPT ![Arg(3)] =
                   [files |-> [m \in Modules |->
                      IF m \in some THEN OnTop(CiAot(Arg(2)).files, @.files)[m] ELSE @.files[m]],
                    manifest |-> IF manifest THEN CiAot(Arg(2)).manifest ELSE @.manifest]],
                 UNCHANGED <<gen, aotDir>>
          PROVE  /\ gen' \in PortableAssets /\ aotDir' \in [Targets -> Outputs \cup {None}]
                 /\ genAot' \in [Targets -> Artifacts]
        <3> DEFINE old == genAot[Arg(3)] new == OnTop(CiAot(Arg(2)).files, old.files)
                   files == [m \in Modules |-> IF m \in some THEN new[m] ELSE old.files[m]]
                   record == [files |-> files, manifest |-> IF manifest THEN CiAot(Arg(2)).manifest ELSE old.manifest]
        <3>1. Arg(2) \in CiTrees /\ Arg(3) \in Targets BY <2>1, <2>7, ArgsTyped
        <3>2. CiAot(Arg(2)) \in Artifacts /\ old \in Artifacts /\ CiAot(Arg(2)).files \in Outputs /\ old.files \in Outputs
            BY <1>1, <3>1, CiTyped DEF Artifacts
        <3>3. new \in Outputs BY <3>2, OutputsTyped
        <3> HIDE DEF new
        <3>4. files \in Outputs BY <3>2, <3>3, OutputsTyped
        <3>5. genAot' = [genAot EXCEPT ![Arg(3)] = record] BY <2>7 DEF new
        <3> HIDE DEF files
        <3>6. record \in Artifacts BY <3>2, <3>4 DEF Artifacts
        <3> HIDE DEF record
        <3> QED BY <1>1, <2>7, <3>5, <3>6
    <2>8. CASE UNCHANGED packageVars BY <1>1, <2>8 DEF packageVars
    <2> QED BY <1>11, <2>3, <2>4, <2>5, <2>6, <2>7, <2>8 DEF PackageBreaks
<1>12. CASE UNCHANGED packageVars BY <1>1, <1>12 DEF packageVars
<1> QED BY <1>9, <1>10, <1>11, <1>12, PackageChanges

-----------------------------------------------------------------------------
(* Where a command is.                                                     *)

(* Where it is after a step that is not one of its own.                    *)
LEMMA WhereNext ==
  ASSUME PipelineTypeOK, WellFormed, Bookkeeping, Next
  PROVE  /\ Starts => cmd' # <<>> /\ At' = cmd'[1][1] /\ FirstOk(run'.name, At') /\ run'.steady
         /\ Finish => At = "end" /\ run' = run /\ At' \in {"end", "none"} /\ (At' = "end" => done')
         /\ Aborts => /\ run.rest = <<>> => run' = run /\ At' = "none"
                      /\ run.rest # <<>> => /\ run'.name = "download" /\ run.name = "download"
                                            /\ At' = "verify-fingerprint"
         /\ Edits => /\ run'.name = run.name /\ run'.flags = run.flags /\ run'.target = run.target
                     /\ run'.pins = run.pins /\ ~run'.steady /\ cmd' = cmd /\ At' \in {At, "none"}
<1>1. ASSUME Starts
      PROVE  cmd' # <<>> /\ At' = cmd'[1][1] /\ FirstOk(run'.name, At') /\ run'.steady
    <2>1. PICK name, flags, t, rest, steps :
            Start(name, flags, t, rest, steps) /\ StartOk(name, flags, t, rest, steps)
        BY <1>1 DEF Starts
    <2>2. cmd' = steps /\ run'.name = name /\ run'.steady BY <2>1 DEF Start
    <2>3. steps # <<>> /\ FirstOk(name, steps[1][1]) BY <2>1 DEF StartOk
    <2> QED BY <2>2, <2>3 DEF At
<1>2. ASSUME Finish
      PROVE  At = "end" /\ run' = run /\ At' \in {"end", "none"} /\ (At' = "end" => done')
    <2>1. ~Idle /\ Head(cmd)[1] = "end" /\ cmd' = <<>> /\ run' = run BY <1>2 DEF Finish, Step
    <2>2. Head(cmd) = cmd[1] BY <2>1, ArgsTyped
    <2> QED BY <2>1, <2>2 DEF At, Idle
<1>3. ASSUME Aborts
      PROVE  /\ run.rest = <<>> => run' = run /\ At' = "none"
             /\ run.rest # <<>> => run'.name = "download" /\ run.name = "download" /\ At' = "verify-fingerprint"
    <2>1. cmd # <<>> /\ done' = done /\ done \in BOOLEAN
        BY <1>3 DEF Aborts, Abort, Idle, PipelineTypeOK, CommandTypeOK
    <2>2. ~done' BY <2>1 DEF Bookkeeping
    <2>3. CASE run.rest = <<>> BY <1>3, <2>2, <2>3 DEF Aborts, Abort, At
    <2>4. CASE run.rest # <<>>
        <3>1. run.name = "download" BY <2>4 DEF Bookkeeping
        <3>2. cmd' = DownloadSteps(Head(run.rest), run.target) /\ run' = [run EXCEPT !.rest = Tail(@)]
            BY <1>3, <2>4 DEF Aborts, Abort
        <3>3. run'.name = run.name BY <3>2 DEF PipelineTypeOK, CommandTypeOK
        <3>4. cmd' # <<>> /\ cmd'[1][1] = "verify-fingerprint" BY <3>2 DEF DownloadSteps
        <3> QED BY <2>4, <3>1, <3>3, <3>4 DEF At
    <2> QED BY <2>3, <2>4
<1>4. ASSUME Edits
      PROVE  /\ run'.name = run.name /\ run'.flags = run.flags /\ run'.target = run.target
             /\ run'.pins = run.pins /\ ~run'.steady /\ cmd' = cmd /\ At' \in {At, "none"}
    <2>1. cmd' = cmd /\ run' = [run EXCEPT !.steady = FALSE] /\ done' = FALSE BY <1>4 DEF Edits, Edit
    <2>2. At' \in {At, "none"} BY <2>1 DEF At
    <2> QED BY <2>1, <2>2 DEF PipelineTypeOK, CommandTypeOK
<1> QED BY <1>1, <1>2, <1>3, <1>4

(* The steps of a command are for its target, and artifacts are looked for *)
(* before they are copied.                                                 *)
LEMMA ArgumentsKept ==
  ASSUME PipelineTypeOK, WellFormed, Bookkeeping, AotThere, AtTarget, Next
  PROVE  AotThere' /\ AtTarget'
<1>1. CASE Starts
    <2>1. cmd' # <<>> /\ At' = cmd'[1][1] /\ FirstOk(run'.name, At') BY <1>1, WhereNext
    <2> QED BY <2>1 DEF FirstOk, AotThere, AtTarget, TargetOps
<1>2. CASE Finish BY <1>2, WhereNext DEF Finish, AotThere, AtTarget
<1>3. CASE Aborts
    <2>1. CASE run.rest = <<>>
        <3>1. cmd' = <<>> BY <1>3, <2>1 DEF Aborts, Abort
        <3> QED BY <1>3, <2>1, <3>1, WhereNext DEF AotThere, AtTarget
    <2>2. CASE run.rest # <<>>
        <3>1. cmd' = DownloadSteps(Head(run.rest), run.target) BY <1>3, <2>2 DEF Aborts, Abort
        <3>2. cmd'[1][1] = "verify-fingerprint" BY <3>1 DEF DownloadSteps
        <3> QED BY <1>3, <2>2, <3>2, WhereNext DEF AotThere, AtTarget, TargetOps
    <2> QED BY <2>1, <2>2
<1>4. CASE Edits
    <2>1. aotDir' = aotDir BY <1>4 DEF Edits, Edit, packageVars
    <2> QED BY <1>4, <2>1, WhereNext DEF AotThere, AtTarget
<1>5. CASE Advances
    <2>1. /\ cmd' # <<>> /\ Follows(cmd[1], cmd'[1], run) /\ At = cmd[1][1] /\ At' = cmd'[1][1] /\ run' = run
          /\ Head(cmd) = cmd[1] /\ ~Idle
        BY <1>5, Advance DEF Advances
    <2>2. AtTarget' BY <2>1 DEF AtTarget, Follows
    <2>3. ASSUME At' = "copy-aot" PROVE aotDir'[cmd'[1][2]] # None
        <3>1. cmd[1] = <<"clear-aot", cmd'[1][2]>> BY <2>1, <2>3 DEF Follows
        <3>2. cmd[1][1] = "clear-aot" /\ cmd[1][2] = cmd'[1][2] BY <3>1
        <3>3. \A op : Step(op) => op = "clear-aot" BY <2>1, <3>2 DEF Step
        <3>4. aotDir' = aotDir /\ Accepts(Head(cmd))
            <4>1. CASE PackageStep BY <3>3, <4>1 DEF PackageStep, Perform
            <4>2. CASE ~PackageStep
                <5>1. ~(Extensions \/ Assets \/ Download \/ Release)
                    <6>1. ~Idle BY <2>1
                    <6> QED BY <6>1 DEF Extensions, Assets, BuildCommands, PackageCommands, Download, DownloadAssetsFromRelease,
                 Release, Start
                <5>2. ~(BuildStep \/ RecordStep \/ CatalogStep \/ InstallDownloadedArtifacts)
                    BY <3>3 DEF BuildStep, RecordStep, CatalogStep, InstallDownloadedArtifacts, Perform
                <5>3. ~(StageReleaseWorkspace \/ ValidateRelease \/ WriteFingerprint \/ Finish)
                    BY <3>3 DEF StageReleaseWorkspace, ValidateRelease, WriteFingerprint, Finish, Perform
                <5>4. CASE Refuse \/ BuildBreaks \/ PackageBreaks
                    <6>1. Aborts BY <5>4 DEF Refuse, BuildBreaks, PackageBreaks, Break, Aborts
                    <6> QED BY <2>1, <2>3, <6>1, WhereNext
                <5>5. CASE EditInputs \/ EditCheckout
                    <6>1. Edits
                        BY <5>5 DEF EditInputs, EditCheckout, Edits, PipelineTypeOK, CatalogTypeOK, BuildTypeOK
                    <6>2. cmd' = cmd BY <6>1, WhereNext
                    <6> QED BY <2>1, <2>3, <3>2, <6>2
                <5> QED BY <4>2, <5>1, <5>2, <5>3, <5>4, <5>5 DEF Next
            <4> QED BY <4>1, <4>2
        <3>5. aotDir[cmd[1][2]] # None BY <2>1, <3>2, <3>4 DEF Accepts
        <3> QED BY <3>2, <3>4, <3>5
    <2> QED BY <2>2, <2>3 DEF AotThere
<1> QED BY <1>1, <1>2, <1>3, <1>4, <1>5, StepKinds

(* What the steps of a packaging command are followed by.                  *)
LEMMA PackagingEdge ==
  ASSUME NEW a, NEW b, NEW flags, NEW name \in {"package", "release-build"},
         <<a, b>> \in Edges(name, flags)
  PROVE  /\ a \in BuildOps => name = "release-build" /\ b \in BuildOps \cup {"outputs"}
         /\ a = "fetch" => b \in {"fetch", "spine"}
         /\ a = "spine" => b = IF "skip-build" \in flags THEN "outputs" ELSE "runtime"
         /\ a = "runtime" => b = "initdb"
         /\ a = "initdb" => b = "pgxs"
         /\ a = "pgxs" => b = "outputs"
         /\ a = "outputs" => b = "build-manifest"
         /\ a = "build-manifest" => b = "closure"
         /\ a = "closure" => b \in {"clear", "outputs"}
         /\ a = "clear" => b = "put-runtime"
         /\ a = "put-runtime" => b = "put-tools"
         /\ a = "put-tools" => b = "put-extensions"
         /\ a = "put-extensions" => b = IF name = "package" THEN "clear-aot" ELSE "clear-template"
         /\ a = "clear-template" => b = "template"
         /\ a = "template" => b = "manifest"
         /\ a = "manifest" => b = IF name = "package" THEN "end" ELSE "check-generated"
         /\ a = "check-generated" => name = "release-build" /\ b = IF "skip-aot" \in flags THEN "end" ELSE "serialize"
         /\ a = "serialize" => name = "release-build" /\ b = "clear-aot"
         /\ a = "clear-aot" => b = "copy-aot"
         /\ a = "copy-aot" => b = IF name = "package" THEN "clear-template" ELSE "check-aot"
         /\ a = "check-aot" => name = "release-build" /\ b = "end" /\ "skip-aot" \notin flags
         /\ a \notin {"aot-outputs", "export-list", "discover", "catalog", "plan", "api", "stage", "validate",
                      "fingerprint", "verify-fingerprint", "install-assets", "install-aot", "install-local"}
<1>1. CASE name = "package"
    BY <1>1, EdgesOf DEF PackageEdges, CopyEdges, BuildOps
<1>2. CASE name = "release-build"
    BY <1>2, EdgesOf DEF ReleaseBuildEdges, PackageEdges, MakeEdges, AotEdges, BuildOps
<1> QED BY <1>1, <1>2

-----------------------------------------------------------------------------
(* Packaging.                                                              *)

(* It says nothing of other commands, or of one that was broken off.       *)
LEMMA PackagingNothing ==
  /\ ~Packaging' => PackagingInv'
  /\ At' = "none" => PackagingInv'
  /\ (Packaging' /\ At' \in {"fetch", "spine"}) => PackagingInv'
  /\ (run'.name = "package" /\ At' = "outputs") => PackagingInv'
<1>1. ASSUME ~Packaging' PROVE PackagingInv'
    BY <1>1 DEF Packaging, PackagingInv, Made, OutputsFound, OutputsLinked, Assembled, ArtifactsMade
<1>2. ASSUME At' = "none" PROVE PackagingInv'
    BY <1>2 DEF PackagingInv, Made, OutputsFound, OutputsLinked, Assembled, ArtifactsMade
<1>3. ASSUME At' \in {"fetch", "spine"} PROVE PackagingInv'
    BY <1>3 DEF PackagingInv, Made, OutputsFound, OutputsLinked, Assembled, ArtifactsMade, BuildOps
<1>4. ASSUME run'.name = "package", At' = "outputs" PROVE PackagingInv'
    BY <1>4 DEF PackagingInv, Made, OutputsFound, OutputsLinked, Assembled, ArtifactsMade
<1> QED BY <1>1, <1>2, <1>3, <1>4

(* A command starts, ends, is broken off, or is edited under.              *)
LEMMA PackagingOutside ==
  ASSUME PipelineTypeOK, WellFormed, Bookkeeping, PackagingInv, Next, ~Advances
  PROVE  PackagingInv'
<1>1. CASE Starts
    <2>1. FirstOk(run'.name, At') BY <1>1, WhereNext
    <2> QED BY <2>1, PackagingNothing DEF FirstOk, Packaging
<1>2. CASE Finish
    <2>1. At = "end" /\ run' = run /\ At' \in {"end", "none"} BY <1>2, WhereNext
    <2>2. UNCHANGED <<tree, plan, head, dirty, built, gen, aotDir, genAot, mods>>
        BY <1>2 DEF Finish, UnchangedFiles, catalogVars, buildVars, packageVars
    <2>3. CASE At' = "end"
        <3>1. Made' BY <2>1, <2>2, <2>3 DEF PackagingInv, Made, AtPins, Compiled
        <3>2. OutputsFound' BY <2>1, <2>2, <2>3
            DEF PackagingInv, OutputsFound, Packaging, Listed, BuildOutputs, Wanted, BuildOps
        <3>3. OutputsLinked' BY <2>1, <2>2, <2>3
            DEF PackagingInv, OutputsLinked, Packaging, ModuleLinkMetadataOk, LinkClosure, Listed
        <3>4. Assembled' BY <2>1, <2>2, <2>3 DEF PackagingInv, Assembled, Packaging, AllPut, Manifested
        <3>5. ArtifactsMade' BY <2>1, <2>2, <2>3 DEF PackagingInv, ArtifactsMade
        <3> QED BY <3>1, <3>2, <3>3, <3>4, <3>5 DEF PackagingInv
    <2> QED BY <2>1, <2>3, PackagingNothing
<1>3. CASE Aborts BY <1>3, WhereNext, PackagingNothing DEF Packaging
<1>4. CASE Edits
    <2>1. /\ run'.name = run.name /\ run'.flags = run.flags /\ run'.target = run.target
          /\ run'.pins = run.pins /\ ~run'.steady /\ At' \in {At, "none"}
        BY <1>4, WhereNext
    <2>2. UNCHANGED <<gen, aotDir, genAot, mods>> BY <1>4 DEF Edits, Edit, packageVars
    <2>3. CASE At' = At
        <3>1. Made' BY <2>1 DEF Made
        <3>2. OutputsFound' BY <2>1, <2>2, <2>3 DEF PackagingInv, OutputsFound, Packaging, Listed
        <3>3. OutputsLinked' BY <2>1, <2>2, <2>3
            DEF PackagingInv, OutputsLinked, Packaging, ModuleLinkMetadataOk, LinkClosure, Listed
        <3>4. Assembled' BY <2>1, <2>2, <2>3 DEF PackagingInv, Assembled, Packaging, AllPut, Manifested, Put, TemplateBy
        <3>5. ArtifactsMade' BY <2>1 DEF ArtifactsMade
        <3> QED BY <3>1, <3>2, <3>3, <3>4, <3>5 DEF PackagingInv
    <2> QED BY <2>1, <2>3, PackagingNothing
<1> QED BY <1>1, <1>2, <1>3, <1>4, StepKinds

(* The build.                                                              *)
LEMMA PackagingBuilds ==
  ASSUME PipelineTypeOK, WellFormed, Bookkeeping, PackagingInv, Advances, BuildStep, Packaging
  PROVE  PackagingInv'
<1>1. /\ At = cmd[1][1] /\ Head(cmd) = cmd[1] /\ <<At, At'>> \in Edges(run.name, run.flags)
      /\ run' = run /\ tree' = tree /\ plan' = plan
    BY Advance DEF Advances, BuildStep, catalogVars
<1>2. \A op : Step(op) => At = op BY <1>1 DEF Step
<1>3. run.name \in {"package", "release-build"} BY DEF Packaging
<1>4. /\ run.steady => run.pins = tree.pins
      /\ plan \in SUBSET Exts /\ built \in Outputs
      /\ "runtime" \notin Exts /\ "initdb" \notin Exts
    BY InputsAssumption DEF Bookkeeping, PipelineTypeOK, CatalogTypeOK, BuildTypeOK
<1>5. ASSUME At \in BuildOps, Made' PROVE PackagingInv'
    <2>1. At' \in BuildOps \cup {"outputs"} BY <1>1, <1>3, <1>5, PackagingEdge
    <2>2. OutputsFound' /\ OutputsLinked' /\ Assembled' /\ ArtifactsMade'
        BY <2>1 DEF OutputsFound, OutputsLinked, Assembled, ArtifactsMade, BuildOps
    <2> QED BY <1>5, <2>2 DEF PackagingInv
<1>6. CASE Perform("fetch") /\ FetchPinnedSource(Arg(2))
    <2>1. At = "fetch" BY <1>2, <1>6 DEF Perform
    <2>2. At' \in {"fetch", "spine"} BY <1>1, <1>3, <2>1, PackagingEdge
    <2> QED BY <1>1, <1>3, <2>2, PackagingNothing DEF Packaging
<1>7. CASE Perform("spine") /\ UnchangedMaking
    <2>1. At = "spine" /\ CheckSourceSpine BY <1>2, <1>7 DEF Perform, Step, Accepts
    <2>2. At' = IF "skip-build" \in run.flags THEN "outputs" ELSE "runtime"
        BY <1>1, <1>3, <2>1, PackagingEdge
    <2>3. UNCHANGED <<head, dirty>> BY <1>7 DEF UnchangedMaking, buildVars
    <2>4. run.steady => AtPins' BY <1>1, <1>4, <2>1, <2>3 DEF CheckSourceSpine, AllManifestSourceCheckouts, AtPins
    <2>5. Made' BY <1>1, <2>2, <2>4 DEF Made, BuildOps
    <2> QED BY <1>5, <2>1, <2>5 DEF BuildOps
<1>8. CASE Perform("runtime") /\ DockerPglite
    <2>1. At = "runtime" BY <1>2, <1>8 DEF Perform
    <2>2. At' = "initdb" BY <1>1, <1>3, <2>1, PackagingEdge
    <2>3. UNCHANGED <<head, dirty>> BY <1>8 DEF DockerPglite
    <2>4. built'["runtime"] = Compiled("runtime", None)
        BY <1>4, <1>8, OutputsTyped DEF DockerPglite, Reconfigured, Outputs, Modules
    <2>5. Made' BY <1>1, <2>1, <2>2, <2>3, <2>4 DEF PackagingInv, Made, AtPins, Compiled, BuildOps
    <2> QED BY <1>5, <2>1, <2>5 DEF BuildOps
<1>9. CASE Perform("initdb") /\ DockerInitdb
    <2>1. At = "initdb" BY <1>2, <1>9 DEF Perform
    <2>2. At' = "pgxs" BY <1>1, <1>3, <2>1, PackagingEdge
    <2>3. UNCHANGED <<head, dirty>> BY <1>9 DEF DockerInitdb
    <2>4. built'["initdb"] = Compiled("initdb", None) /\ built'["runtime"] = built["runtime"]
        BY <1>4, <1>9 DEF DockerInitdb, Outputs, Modules
    <2>5. Made' BY <1>1, <2>1, <2>2, <2>3, <2>4 DEF PackagingInv, Made, AtPins, Compiled, BuildOps
    <2> QED BY <1>5, <2>1, <2>5 DEF BuildOps
<1>10. CASE Perform("pgxs") /\ DockerPgxsExtensions(plan, {})
    <2>1. At = "pgxs" BY <1>2, <1>10 DEF Perform
    <2>2. At' = "outputs" BY <1>1, <1>3, <2>1, PackagingEdge
    <2>3. UNCHANGED <<head, dirty>> BY <1>10 DEF DockerPgxsExtensions
    <2>4. built'["initdb"] = built["initdb"] /\ built'["runtime"] = built["runtime"]
        BY <1>4, <1>10 DEF DockerPgxsExtensions, Modules
    <2>5. ASSUME AtPins, NEW e \in plan PROVE built'[e] = Compiled(e, head[e])
        <3>1. e \in Modules /\ e \in Sources BY <1>4 DEF Modules, Sources
        <3>2. e \notin dirty BY <2>5, <3>1 DEF AtPins
        <3> QED BY <1>10, <3>1, <3>2 DEF DockerPgxsExtensions
    <2>7. AtPins' = AtPins BY <1>1, <2>3 DEF AtPins
    <2>8. Made'
        <3> SUFFICES ASSUME run.name = "release-build", run.steady
                     PROVE  /\ AtPins'
                            /\ "skip-build" \notin run.flags =>
                                 /\ built'["runtime"] = Compiled("runtime", None)'
                                 /\ built'["initdb"] = Compiled("initdb", None)'
                                 /\ \A e \in plan : built'[e] = Compiled(e, head[e])'
            BY <1>1, <2>2 DEF Made, BuildOps
        <3>1. AtPins BY <2>1 DEF PackagingInv, Made
        <3>2. "skip-build" \notin run.flags =>
                /\ built["runtime"] = Compiled("runtime", None) /\ built["initdb"] = Compiled("initdb", None)
            BY <2>1 DEF PackagingInv, Made
        <3>3. \A e : Compiled(e, head[e])' = Compiled(e, head[e]) BY <1>1, <2>3 DEF Compiled
        <3>4. Compiled("runtime", None)' = Compiled("runtime", None) /\ Compiled("initdb", None)' = Compiled("initdb", None)
            BY <1>1, <2>3 DEF Compiled
        <3> QED BY <2>4, <2>5, <2>7, <3>1, <3>2, <3>3, <3>4
    <2> QED BY <1>5, <2>1, <2>8 DEF BuildOps
<1>11. CASE Perform("outputs") /\ mods' = BuildOutputs /\ UNCHANGED buildVars
    <2>1. At = "outputs" /\ BuildOutputsOk(Packaged(gen)) BY <1>2, <1>11 DEF Perform, Step, Accepts
    <2>2. At' = "build-manifest" BY <1>1, <1>3, <2>1, PackagingEdge
    <2>3. UNCHANGED <<head, dirty, built>> BY <1>11 DEF buildVars
    <2>4. Made'
        BY <1>1, <2>1, <2>2, <2>3 DEF PackagingInv, Made, AtPins, Compiled, BuildOps
    <2>5. {"runtime", "initdb"} \subseteq Listed(BuildOutputs)
        BY <2>1 DEF BuildOutputsOk, EnsureRequiredFiles, BuildOutputs, Wanted, Listed, Modules
    <2>6. BuildOutputs' = BuildOutputs BY <1>1, <2>3 DEF BuildOutputs, Wanted
    <2>7. OutputsFound' BY <1>11, <2>5, <2>6 DEF OutputsFound, Listed
    <2>8. OutputsLinked' /\ Assembled' /\ ArtifactsMade' BY <2>2 DEF OutputsLinked, Assembled, ArtifactsMade
    <2> QED BY <2>4, <2>7, <2>8 DEF PackagingInv
<1>12. CASE Perform("aot-outputs")
    <2>1. At = "aot-outputs" BY <1>2, <1>12 DEF Perform
    <2> QED BY <1>1, <1>3, <2>1, PackagingEdge
<1> QED BY <1>6, <1>7, <1>8, <1>9, <1>10, <1>11, <1>12 DEF BuildStep

(* What later steps leave alone.                                           *)
LEMMA PackagingKeepsOutputs ==
  ASSUME PackagingInv, At \notin BuildOps \cup {"none", "outputs", "build-manifest", "closure"},
         UNCHANGED <<tree, plan, head, dirty, built, mods, run>>
  PROVE  Made' /\ OutputsFound' /\ OutputsLinked'
<1>1. Made' BY DEF PackagingInv, Made, AtPins, Compiled, BuildOps
<1>2. OutputsFound' BY DEF PackagingInv, OutputsFound, Packaging, Listed, BuildOutputs, Wanted
<1>3. OutputsLinked' BY DEF PackagingInv, OutputsLinked, Packaging, ModuleLinkMetadataOk, LinkClosure, Listed
<1> QED BY <1>1, <1>2, <1>3

(* The checks of the outputs.                                              *)
LEMMA PackagingRecords ==
  ASSUME PipelineTypeOK, WellFormed, Bookkeeping, PackagingInv, Advances, RecordStep, Packaging
  PROVE  PackagingInv'
<1>1. /\ At = cmd[1][1] /\ Head(cmd) = cmd[1] /\ <<At, At'>> \in Edges(run.name, run.flags)
      /\ UNCHANGED <<run, tree, plan, head, dirty, built, mods>>
    BY Advance DEF Advances, RecordStep, catalogVars, UnchangedMaking, buildVars
<1>2. \A op : Step(op) => At = op BY <1>1 DEF Step
<1>3. run.name \in {"package", "release-build"} BY DEF Packaging
<1>4. ASSUME At \in {"build-manifest", "closure"}
      PROVE  Made' /\ OutputsFound'
    <2>1. Made' BY <1>1, <1>4 DEF PackagingInv, Made, AtPins, Compiled, BuildOps
    <2>2. OutputsFound' BY <1>1, <1>4 DEF PackagingInv, OutputsFound, Packaging, Listed, BuildOutputs, Wanted, BuildOps
    <2> QED BY <2>1, <2>2
<1>5. CASE Perform("build-manifest")
    <2>1. At = "build-manifest" /\ ModuleLinkMetadataOk(mods) BY <1>2, <1>5 DEF Perform, Step, Accepts
    <2>2. At' = "closure" BY <1>1, <1>3, <2>1, PackagingEdge
    <2>3. OutputsLinked' BY <1>1, <2>1, <2>2 DEF OutputsLinked, ModuleLinkMetadataOk
    <2>4. Assembled' /\ ArtifactsMade' BY <2>2 DEF Assembled, ArtifactsMade
    <2> QED BY <1>4, <2>1, <2>3, <2>4 DEF PackagingInv
<1>6. CASE Perform("closure")
    <2>1. At = "closure" /\ LinkClosure(mods) BY <1>2, <1>6 DEF Perform, Step, Accepts
    <2>2. At' \in {"clear", "outputs"} BY <1>1, <1>3, <2>1, PackagingEdge
    <2>3. ModuleLinkMetadataOk(mods) BY <2>1 DEF PackagingInv, OutputsLinked, BuildOps
    <2>4. OutputsLinked' BY <1>1, <2>1, <2>2, <2>3 DEF OutputsLinked, ModuleLinkMetadataOk, LinkClosure, Listed
    <2>5. Assembled' /\ ArtifactsMade' BY <2>2 DEF Assembled, ArtifactsMade
    <2> QED BY <1>4, <2>1, <2>4, <2>5 DEF PackagingInv
<1>7. CASE Perform("export-list")
    <2>1. At = "export-list" BY <1>2, <1>7 DEF Perform
    <2> QED BY <1>1, <1>3, <2>1, PackagingEdge
<1> QED BY <1>5, <1>6, <1>7 DEF RecordStep

(* What is found for compilation after the manifest has been written.      *)
LEMMA FoundIsPackaged ==
  ASSUME PipelineTypeOK, mods = BuildOutputs, gen.mods = mods, gen.manifest.mods = gen.mods,
         gen.manifest # None
  PROVE  DiscoverForAot = mods
<1>1. mods \in Outputs BY DEF PipelineTypeOK, BuildTypeOK
<1>2. FromPackagedAssets(gen) = [m \in Modules |-> IF m \in Listed(mods) THEN mods[m] ELSE None]
    BY DEF FromPackagedAssets
<1>3. \A m \in Modules : (IF m \in Listed(mods) THEN mods[m] ELSE None) = mods[m] BY DEF Listed
<1>4. FromPackagedAssets(gen) = mods BY <1>1, <1>2, <1>3 DEF Outputs
<1> QED BY <1>4 DEF DiscoverForAot

(* The archives.                                                           *)
LEMMA PackagingPuts ==
  ASSUME PipelineTypeOK, WellFormed, Bookkeeping, PackagingInv, Advances, Packaging,
         UNCHANGED <<plan, head, dirty, built, mods, aotDir, genAot>>,
         \/ Perform("clear") /\ ClearAssets
         \/ Perform("put-runtime") /\ StageRuntimeTree
         \/ Perform("put-tools") /\ CopyTools
         \/ Perform("put-extensions") /\ PackagePromotedExtensions(PromotedBuildSpecs(tree))
         \/ Perform("clear-template") /\ ClearTemplate
         \/ Perform("template") /\ GeneratePgdataTemplate
         \/ Perform("manifest") /\ WriteAssetManifest
         \/ Perform("check-generated") /\ UNCHANGED gen
  PROVE  PackagingInv'
<1>1. /\ At = cmd[1][1] /\ Head(cmd) = cmd[1] /\ <<At, At'>> \in Edges(run.name, run.flags)
      /\ UNCHANGED <<run, tree>>
    BY Advance DEF Advances
<1>2. \A op : Step(op) => At = op BY <1>1 DEF Step
<1>3. run.name \in {"package", "release-build"} BY DEF Packaging
<1>4. /\ gen.mods \in Outputs /\ mods \in Outputs /\ "runtime" \in Modules /\ "initdb" \in Modules
      /\ gen \in PortableAssets /\ tree.requested \in SUBSET Exts /\ Exts \subseteq Modules
      /\ "runtime" \notin Exts /\ "initdb" \notin Exts
    BY InputsAssumption DEF PipelineTypeOK, CatalogTypeOK, BuildTypeOK, PackageTypeOK, Modules, PortableAssets
<1>5. ASSUME At \notin BuildOps \cup {"none", "outputs", "build-manifest", "closure"},
             Assembled', ArtifactsMade'
      PROVE  PackagingInv'
    BY <1>1, <1>5, PackagingKeepsOutputs DEF PackagingInv
<1>6. CASE Perform("clear") /\ ClearAssets
    <2>1. At = "clear" BY <1>2, <1>6 DEF Perform
    <2>2. At' = "put-runtime" BY <1>1, <1>3, <2>1, PackagingEdge
    <2>3. Put({})' BY <1>6 DEF ClearAssets, NoAssets, NoMods, Put
    <2>4. Assembled' /\ ArtifactsMade' BY <2>2, <2>3 DEF Assembled, ArtifactsMade
    <2> QED BY <1>5, <2>1, <2>4 DEF BuildOps
<1>7. CASE Perform("put-runtime") /\ StageRuntimeTree
    <2>1. At = "put-runtime" BY <1>2, <1>7 DEF Perform
    <2>2. At' = "put-tools" BY <1>1, <1>3, <2>1, PackagingEdge
    <2>3. Put({}) BY <2>1 DEF PackagingInv, Assembled
    <2>4. gen'.mods = [gen.mods EXCEPT !["runtime"] = mods["runtime"]]
        BY <1>4, <1>7 DEF StageRuntimeTree, PortableAssets
    <2>5. Put({"runtime"})' BY <1>4, <2>3, <2>4 DEF Put, Outputs
    <2>6. Assembled' /\ ArtifactsMade' BY <2>2, <2>5 DEF Assembled, ArtifactsMade
    <2> QED BY <1>5, <2>1, <2>6 DEF BuildOps
<1>8. CASE Perform("put-tools") /\ CopyTools
    <2>1. At = "put-tools" BY <1>2, <1>8 DEF Perform
    <2>2. At' = "put-extensions" BY <1>1, <1>3, <2>1, PackagingEdge
    <2>3. Put({"runtime"}) BY <2>1 DEF PackagingInv, Assembled
    <2>4. gen'.mods = [gen.mods EXCEPT !["initdb"] = mods["initdb"]]
        BY <1>4, <1>8 DEF CopyTools, PortableAssets
    <2>5. Put({"runtime", "initdb"})' BY <1>4, <2>3, <2>4 DEF Put, Outputs
    <2>6. Assembled' /\ ArtifactsMade' BY <2>2, <2>5 DEF Assembled, ArtifactsMade
    <2> QED BY <1>5, <2>1, <2>6 DEF BuildOps
<1>9. CASE Perform("put-extensions") /\ PackagePromotedExtensions(PromotedBuildSpecs(tree))
    <2>1. At = "put-extensions" BY <1>2, <1>9 DEF Perform
    <2>2. At' = IF run.name = "package" THEN "clear-aot" ELSE "clear-template" BY <1>1, <1>3, <2>1, PackagingEdge
    <2>3. Put({"runtime", "initdb"}) BY <2>1 DEF PackagingInv, Assembled
    <2>4. gen'.mods = [m \in Modules |-> IF m \in tree.requested THEN mods[m] ELSE gen.mods[m]]
        BY <1>4, <1>9 DEF PackagePromotedExtensions, PromotedBuildSpecs, PromotionConfig, PortableAssets
    <2>5. gen'.mods["runtime"] = mods["runtime"] /\ gen'.mods["initdb"] = mods["initdb"]
        BY <1>4, <2>3, <2>4 DEF Put
    <2>6. \A e \in Exts : gen'.mods[e] = IF e \in tree.requested THEN mods[e] ELSE None
        BY <1>4, <2>3, <2>4 DEF Put
    <2>7. ASSUME run.steady PROVE gen'.mods = mods
        <3>1. mods = BuildOutputs BY <2>1, <2>7 DEF PackagingInv, OutputsFound, BuildOps
        <3>2. \A e \in Exts : e \notin tree.requested => mods[e] = None
            BY <1>4, <3>1 DEF BuildOutputs, Wanted, PromotedBuildSpecs, PromotionConfig
        <3>3. \A m \in Modules : gen'.mods[m] = mods[m] BY <2>5, <2>6, <3>2 DEF Modules
        <3>4. gen'.mods \in Outputs BY <1>4, <2>4 DEF Outputs
        <3> QED BY <1>4, <3>3, <3>4 DEF Outputs
    <2>8. AllPut' BY <1>1, <2>5, <2>6, <2>7 DEF AllPut
    <2>9. Assembled' BY <1>1, <2>2, <2>8 DEF Assembled
    <2>10. ArtifactsMade' BY <1>1, <2>2 DEF ArtifactsMade
    <2> QED BY <1>5, <2>1, <2>9, <2>10 DEF BuildOps
<1>10. CASE Perform("clear-template") /\ ClearTemplate
    <2>1. At = "clear-template" BY <1>2, <1>10 DEF Perform
    <2>2. At' = "template" BY <1>1, <1>3, <2>1, PackagingEdge
    <2>3. AllPut BY <2>1 DEF PackagingInv, Assembled
    <2>4. gen'.mods = gen.mods BY <1>4, <1>10 DEF ClearTemplate, PortableAssets
    <2>5. AllPut' BY <1>1, <2>3, <2>4 DEF AllPut
    <2>6. Assembled' /\ ArtifactsMade' BY <2>2, <2>5 DEF Assembled, ArtifactsMade
    <2> QED BY <1>5, <2>1, <2>6 DEF BuildOps
<1>11. CASE Perform("template") /\ GeneratePgdataTemplate
    <2>1. At = "template" BY <1>2, <1>11 DEF Perform
    <2>2. At' = "manifest" BY <1>1, <1>3, <2>1, PackagingEdge
    <2>3. AllPut BY <2>1 DEF PackagingInv, Assembled
    <2>4. gen'.mods = gen.mods /\ gen'.template = TemplateBy(mods, run.name)
        BY <1>4, <1>11 DEF GeneratePgdataTemplate, PortableAssets
    <2>5. AllPut' BY <1>1, <2>3, <2>4 DEF AllPut
    <2>6. gen'.template = TemplateBy(mods, run.name)' BY <1>1, <2>4 DEF TemplateBy
    <2>7. Assembled' /\ ArtifactsMade' BY <2>2, <2>5, <2>6 DEF Assembled, ArtifactsMade
    <2> QED BY <1>5, <2>1, <2>7 DEF BuildOps
<1>12. CASE Perform("manifest") /\ WriteAssetManifest
    <2>1. At = "manifest" BY <1>2, <1>12 DEF Perform
    <2>2. At' = IF run.name = "package" THEN "end" ELSE "check-generated" BY <1>1, <1>3, <2>1, PackagingEdge
    <2>3. AllPut BY <2>1 DEF PackagingInv, Assembled
    <2>4. gen'.mods = gen.mods /\ gen'.manifest.mods = gen.mods /\ gen'.manifest.pins = run.pins
        BY <1>4, <1>12 DEF WriteAssetManifest, PortableAssets
    <2>5. AllPut' /\ Manifested' BY <1>1, <2>3, <2>4 DEF AllPut, Manifested
    <2>6. Assembled' BY <1>1, <2>2, <2>5 DEF Assembled
    <2>7. ArtifactsMade' BY <1>1, <2>2 DEF ArtifactsMade
    <2> QED BY <1>5, <2>1, <2>6, <2>7 DEF BuildOps
<1>13. CASE Perform("check-generated") /\ UNCHANGED gen
    <2>1. At = "check-generated" BY <1>2, <1>13 DEF Perform
    <2>2. At' = IF "skip-aot" \in run.flags THEN "end" ELSE "serialize" BY <1>1, <1>3, <2>1, PackagingEdge
    <2>3. AllPut /\ Manifested BY <2>1 DEF PackagingInv, Assembled
    <2>4. AllPut' /\ Manifested' BY <1>1, <1>13, <2>3 DEF AllPut, Manifested
    <2>5. Assembled'
        <3>1. gen.manifest # None BY <1>13 DEF Perform, Step, Accepts, GeneratedManifestOk
        <3> QED BY <1>1, <1>13, <2>2, <2>4, <3>1 DEF Assembled
    <2>6. ArtifactsMade' BY <1>1, <2>2 DEF ArtifactsMade
    <2> QED BY <1>5, <2>1, <2>5, <2>6 DEF BuildOps
<1> QED BY <1>6, <1>7, <1>8, <1>9, <1>10, <1>11, <1>12, <1>13

(* The artifacts.                                                          *)
LEMMA PackagingArtifacts ==
  ASSUME PipelineTypeOK, WellFormed, Bookkeeping, AtTarget, PackagingInv, Advances, Packaging,
         UNCHANGED <<plan, head, dirty, built, mods, gen>>,
         \/ Perform("serialize") /\ GenerateAotArtifacts(Arg(2), Listed(DiscoverForAot)) /\ UNCHANGED genAot
         \/ Perform("clear-aot") /\ ClearAot(Arg(2)) /\ UNCHANGED aotDir
         \/ Perform("copy-aot") /\ PackageAotArtifacts(Arg(2)) /\ UNCHANGED aotDir
         \/ Perform("check-aot") /\ UNCHANGED <<aotDir, genAot>>
  PROVE  PackagingInv'
<1>1. /\ At = cmd[1][1] /\ Head(cmd) = cmd[1] /\ <<At, At'>> \in Edges(run.name, run.flags)
      /\ UNCHANGED <<run, tree>> /\ cmd # <<>>
    BY Advance DEF Advances
<1>2. \A op : Step(op) => At = op BY <1>1 DEF Step
<1>3. run.name \in {"package", "release-build"} /\ run.target \in Targets BY DEF Packaging, Bookkeeping
<1>4. /\ gen.mods \in Outputs /\ mods \in Outputs /\ aotDir \in [Targets -> Outputs \cup {None}]
      /\ genAot \in [Targets -> Artifacts]
    BY DEF PipelineTypeOK, BuildTypeOK, PackageTypeOK, Artifacts
<1>5. ASSUME At \in {"serialize", "clear-aot", "copy-aot", "check-aot"}, Assembled', ArtifactsMade'
      PROVE  PackagingInv'
    BY <1>1, <1>5, PackagingKeepsOutputs DEF PackagingInv, BuildOps
<1>6. ASSUME At \in {"serialize", "clear-aot", "copy-aot", "check-aot"} PROVE Arg(2) = run.target /\ AllPut
    BY <1>1, <1>3, <1>6 DEF AtTarget, Arg, TargetOps, PackagingInv, Assembled
<1>7. AllPut => AllPut' BY <1>1 DEF AllPut
<1>8. Manifested => Manifested' BY <1>1 DEF Manifested
<1>9. ASSUME run.steady, At \in {"serialize", "clear-aot", "copy-aot", "check-aot"}
      PROVE  mods = BuildOutputs /\ gen.mods = mods
    BY <1>6, <1>9 DEF PackagingInv, OutputsFound, BuildOps, AllPut
<1>10. CASE Perform("serialize") /\ GenerateAotArtifacts(Arg(2), Listed(DiscoverForAot)) /\ UNCHANGED genAot
    <2>1. At = "serialize" BY <1>2, <1>10 DEF Perform
    <2>2. run.name = "release-build" /\ At' = "clear-aot" BY <1>1, <1>3, <2>1, PackagingEdge
    <2>3. Manifested /\ gen.manifest # None BY <2>1 DEF PackagingInv, Assembled, Packaging
    <2>4. Assembled' BY <1>1, <1>6, <1>7, <1>8, <2>1, <2>2, <2>3 DEF Assembled
    <2>5. ASSUME run.steady PROVE \A m \in Listed(mods) : aotDir'[run.target][m] = mods[m]
        <3>1. DiscoverForAot = mods BY <1>9, <2>1, <2>3, <2>5, FoundIsPackaged DEF Manifested
        <3> DEFINE old == IF aotDir[run.target] = None THEN NoMods ELSE aotDir[run.target]
        <3>2. aotDir' = [aotDir EXCEPT ![run.target] =
                [m \in Modules |-> IF m \in Listed(mods) THEN mods[m] ELSE old[m]]]
            BY <1>6, <1>10, <2>1, <3>1 DEF GenerateAotArtifacts
        <3> HIDE DEF old
        <3> QED BY <1>3, <1>4, <3>2 DEF Listed
    <2>6. ArtifactsMade' BY <1>1, <2>2, <2>5 DEF ArtifactsMade, Listed
    <2> QED BY <1>5, <2>1, <2>4, <2>6
<1>11. CASE Perform("clear-aot") /\ ClearAot(Arg(2)) /\ UNCHANGED aotDir
    <2>1. At = "clear-aot" BY <1>2, <1>11 DEF Perform
    <2>2. At' = "copy-aot" BY <1>1, <1>3, <2>1, PackagingEdge
    <2>3. Assembled' BY <1>1, <1>6, <1>7, <1>8, <2>1, <2>2 DEF PackagingInv, Assembled
    <2>4. ArtifactsMade' BY <1>1, <1>11, <2>1, <2>2 DEF PackagingInv, ArtifactsMade, Listed
    <2> QED BY <1>5, <2>1, <2>3, <2>4
<1>12. CASE Perform("copy-aot") /\ PackageAotArtifacts(Arg(2)) /\ UNCHANGED aotDir
    <2>1. At = "copy-aot" BY <1>2, <1>12 DEF Perform
    <2>2. At' = IF run.name = "package" THEN "clear-template" ELSE "check-aot" BY <1>1, <1>3, <2>1, PackagingEdge
    <2>3. Assembled' BY <1>1, <1>3, <1>6, <1>7, <1>8, <2>1, <2>2 DEF PackagingInv, Assembled
    <2>4. ASSUME run.name = "release-build", run.steady
          PROVE  genAot'[run.target] = [files |-> mods, manifest |-> [files |-> mods, mods |-> mods]]
        <3>1. \A m \in Listed(mods) : aotDir[run.target][m] = mods[m]
            BY <2>1, <2>4 DEF PackagingInv, ArtifactsMade
        <3>2. \A m \in Modules : (IF m \in Listed(mods) THEN aotDir[run.target][m] ELSE None) = mods[m]
            BY <3>1 DEF Listed
        <3>3. CopiedAot(run.target, Listed(mods)) = mods
            BY <1>4, <3>2 DEF CopiedAot, Outputs
        <3> QED BY <1>3, <1>4, <1>6, <1>12, <2>1, <3>3 DEF PackageAotArtifacts
    <2>5. ArtifactsMade' BY <1>1, <2>2, <2>4 DEF ArtifactsMade
    <2> QED BY <1>5, <2>1, <2>3, <2>5
<1>13. CASE Perform("check-aot") /\ UNCHANGED <<aotDir, genAot>>
    <2>1. At = "check-aot" BY <1>2, <1>13 DEF Perform
    <2>2. run.name = "release-build" /\ At' = "end" BY <1>1, <1>3, <2>1, PackagingEdge
    <2>3. Assembled' BY <1>1, <1>6, <1>7, <1>8, <2>1, <2>2 DEF PackagingInv, Assembled
    <2>4. ArtifactsMade' BY <1>1, <1>13, <2>1, <2>2 DEF PackagingInv, ArtifactsMade
    <2> QED BY <1>5, <2>1, <2>3, <2>4
<1> QED BY <1>10, <1>11, <1>12, <1>13

(* The other steps are not of a packaging command.                         *)
LEMMA PackagingKept ==
  ASSUME PipelineTypeOK, WellFormed, Bookkeeping, AtTarget, PackagingInv, Next
  PROVE  PackagingInv'
<1>1. CASE ~Advances BY <1>1, PackagingOutside
<1>2. CASE Advances /\ ~Packaging
    BY <1>2, PackagingNothing DEF Advances, Packaging
<1>3. CASE Advances /\ Packaging
    <2>1. /\ At = cmd[1][1] /\ Head(cmd) = cmd[1] /\ <<At, At'>> \in Edges(run.name, run.flags) /\ ~Idle
          /\ run' = run
        BY <1>3, Advance DEF Advances
    <2>2. \A op : Step(op) => At = op BY <2>1 DEF Step
    <2>3. At \notin {"aot-outputs", "export-list", "discover", "catalog", "plan", "api", "stage", "validate",
                     "fingerprint", "verify-fingerprint", "install-assets", "install-aot", "install-local"}
        BY <1>3, <2>1, PackagingEdge DEF Packaging
    <2>4. ~(Extensions \/ Assets \/ Download \/ Release)
        BY <2>1 DEF Extensions, Assets, BuildCommands, PackageCommands, Download, DownloadAssetsFromRelease,
                 Release, Start
    <2>5. ~(CatalogStep \/ InstallDownloadedArtifacts)
        BY <2>2, <2>3 DEF CatalogStep, InstallDownloadedArtifacts, Perform
    <2>6. ~(StageReleaseWorkspace \/ ValidateRelease \/ WriteFingerprint)
        BY <2>2, <2>3 DEF StageReleaseWorkspace, ValidateRelease, WriteFingerprint, Perform
    <2>7. ~Finish BY <1>3 DEF Finish, Step, Advances
    <2>8. CASE Refuse \/ BuildBreaks \/ PackageBreaks
        <3>1. Aborts BY <2>8 DEF Refuse, BuildBreaks, PackageBreaks, Break, Aborts
        <3> QED BY <1>3, <3>1, WhereNext, PackagingNothing DEF Packaging
    <2>9. CASE EditInputs \/ EditCheckout
        <3>1. Edits BY <2>9 DEF EditInputs, EditCheckout, Edits, PipelineTypeOK, CatalogTypeOK, BuildTypeOK
        <3>2. ~run'.steady /\ cmd' = cmd /\ cmd # <<>> BY <2>1, <3>1, WhereNext DEF Idle
        <3>3. At' = At /\ UNCHANGED <<gen, aotDir, genAot, mods, run>>
            BY <2>1, <3>1, <3>2 DEF At, Edits, Edit, packageVars
        <3>4. Made' BY <3>2 DEF Made
        <3>5. OutputsFound' BY <3>2, <3>3 DEF PackagingInv, OutputsFound, Packaging, Listed
        <3>6. OutputsLinked' BY <3>3
            DEF PackagingInv, OutputsLinked, Packaging, ModuleLinkMetadataOk, LinkClosure, Listed
        <3>7. Assembled' BY <3>3 DEF PackagingInv, Assembled, Packaging, AllPut, Manifested, Put, TemplateBy
        <3>8. ArtifactsMade' BY <3>2 DEF ArtifactsMade
        <3> QED BY <3>4, <3>5, <3>6, <3>7, <3>8 DEF PackagingInv
    <2>10. CASE BuildStep BY <1>3, <2>10, PackagingBuilds
    <2>11. CASE RecordStep BY <1>3, <2>11, PackagingRecords
    <2>12. CASE PackageStep
        <3>1. UNCHANGED <<plan, head, dirty, built, mods>>
            BY <2>12 DEF PackageStep, UnchangedMaking, buildVars, catalogVars
        <3>2. CASE /\ UNCHANGED <<aotDir, genAot>>
                   /\ \/ Perform("clear") /\ ClearAssets
                      \/ Perform("put-runtime") /\ StageRuntimeTree
                      \/ Perform("put-tools") /\ CopyTools
                      \/ Perform("put-extensions") /\ PackagePromotedExtensions(PromotedBuildSpecs(tree))
                      \/ Perform("clear-template") /\ ClearTemplate
                      \/ Perform("template") /\ GeneratePgdataTemplate
                      \/ Perform("manifest") /\ WriteAssetManifest
                      \/ Perform("check-generated") /\ UNCHANGED gen
            BY <1>3, <3>1, <3>2, PackagingPuts
        <3>3. CASE \/ /\ Perform("serialize") /\ GenerateAotArtifacts(Arg(2), Listed(DiscoverForAot))
                      /\ UNCHANGED <<gen, genAot>>
                   \/ Perform("clear-aot") /\ ClearAot(Arg(2)) /\ UNCHANGED <<gen, aotDir>>
                   \/ Perform("copy-aot") /\ PackageAotArtifacts(Arg(2)) /\ UNCHANGED <<gen, aotDir>>
                   \/ Perform("check-aot") /\ UNCHANGED packageVars
            BY <1>3, <3>1, <3>3, PackagingArtifacts DEF packageVars
        <3> QED BY <2>12, <3>2, <3>3 DEF PackageStep
    <2> QED BY <2>4, <2>5, <2>6, <2>7, <2>8, <2>9, <2>10, <2>11, <2>12 DEF Next
<1> QED BY <1>1, <1>2, <1>3

-----------------------------------------------------------------------------
(* The manifest.                                                           *)

(* What an Assets run has made is of one build.                            *)
LEMMA CiManifestOk ==
  ASSUME NEW c \in CiTrees
  PROVE  /\ {"runtime", "initdb"} \subseteq Listed(BuildOf(c))
         /\ ModuleLinkMetadataOk(BuildOf(c)) /\ LinkClosure(BuildOf(c))
         /\ \A g : g.manifest = CiAssets(c).manifest => ManifestOk(g)
<1>1. c \in Trees BY RunsTyped
<1>2. c.pins \in [Sources -> Commits] /\ c.patch \in Patches /\ c.requested \in SUBSET Exts
    BY <1>1, InputsAssumption
<1>3. c.pins["postgres"] \in Commits BY <1>2 DEF Sources
<1>4. {"runtime", "initdb"} \subseteq Listed(BuildOf(c))
    <2>1. ASSUME NEW m \in {"runtime", "initdb"} PROVE m \in Listed(BuildOf(c))
        <3>1. m \in Modules BY DEF Modules
        <3>2. m \notin c.requested BY <1>2, InputsAssumption
        <3>3. BuildOf(c)[m] = Content(m, c.pins["postgres"], c.patch, None) BY <3>1, <3>2 DEF BuildOf
        <3>4. BuildOf(c)[m] # None BY <1>2, <1>3, <3>1, <3>3, ContentTyped
        <3> QED BY <3>1, <3>4 DEF Listed
    <2> QED BY <2>1
<1>5. ModuleLinkMetadataOk(BuildOf(c)) /\ LinkClosure(BuildOf(c)) BY RunsAssumption DEF CiTrees
<1>6. ASSUME NEW g, g.manifest = CiAssets(c).manifest PROVE ManifestOk(g)
    <2>1. g.manifest.mods = BuildOf(c) /\ g.manifest.template = TemplateBy(BuildOf(c), "ci")
        BY <1>6 DEF CiAssets
    <2>2. /\ g.manifest.template.runtime = BuildOf(c)["runtime"]
          /\ g.manifest.template.initdb = BuildOf(c)["initdb"]
        BY <2>1 DEF TemplateBy
    <2> QED BY <1>4, <1>5, <2>1, <2>2 DEF ManifestOk
<1> QED BY <1>4, <1>5, <1>6

(* The manifest that is written is of one build, and so is the one that is *)
(* installed, the installation interrupted or not.                         *)
LEMMA ManifestKept ==
  ASSUME PipelineTypeOK, WellFormed, Bookkeeping, PackagingInv, ManifestOk(gen), Next
  PROVE  ManifestOk(gen)'
<1>1. gen \in PortableAssets /\ mods \in Outputs
    BY DEF PipelineTypeOK, PackageTypeOK, BuildTypeOK, PortableAssets
<1>2. CASE gen'.manifest = gen.manifest BY <1>2 DEF ManifestOk, ModuleLinkMetadataOk, LinkClosure, Listed
<1>3. CASE gen'.manifest = None BY <1>3 DEF ManifestOk
<1>4. ASSUME NEW c \in CiTrees, gen'.manifest = CiAssets(c).manifest PROVE ManifestOk(gen)'
    <2>1. \A g : g.manifest = CiAssets(c).manifest => ManifestOk(g) BY CiManifestOk
    <2>2. ManifestOk(gen') BY <1>4, <2>1
    <2> QED BY <2>2 DEF ManifestOk, ModuleLinkMetadataOk, LinkClosure, Listed
<1>5. CASE Perform("manifest") /\ WriteAssetManifest
    <2>1. Advances BY <1>5 DEF Perform, Step, Advances
    <2>2. /\ At = cmd[1][1] /\ Head(cmd) = cmd[1] /\ <<At, At'>> \in Edges(run.name, run.flags)
        BY <2>1, Advance
    <2>3. At = "manifest" BY <1>5, <2>2 DEF Perform, Step
    <2>4. Packaging BY <2>2, <2>3, EdgesOf DEF Packaging, DownloadEdges, DryRunEdges, OtherOps
    <2>5. /\ {"runtime", "initdb"} \subseteq Listed(mods)
          /\ ModuleLinkMetadataOk(mods) /\ LinkClosure(mods) /\ AllPut
          /\ gen.template = TemplateBy(mods, run.name)
        BY <2>3, <2>4 DEF PackagingInv, OutputsFound, OutputsLinked, Assembled, BuildOps
    <2>6. gen'.manifest.mods = gen.mods /\ gen'.manifest.template = gen.template
        BY <1>1, <1>5 DEF WriteAssetManifest, PortableAssets
    <2>7. gen.mods["runtime"] = mods["runtime"] /\ gen.mods["initdb"] = mods["initdb"] BY <2>5 DEF AllPut
    <2>8. {"runtime", "initdb"} \subseteq Listed(gen.mods) BY <2>5, <2>7 DEF Listed
    <2>9. ModuleLinkMetadataOk(gen.mods) BY <2>5, <2>7 DEF ModuleLinkMetadataOk
    <2>10. LinkClosure(gen.mods)
        <3>1. ASSUME NEW e \in Exts \cap Listed(gen.mods)
              PROVE  LinkImports(gen.mods[e]) \subseteq LinkExports(gen.mods["runtime"])
            <4>1. gen.mods[e] = mods[e] /\ e \in Listed(mods) BY <2>5 DEF AllPut, Listed
            <4> QED BY <2>5, <2>7, <4>1 DEF LinkClosure
        <3> QED BY <3>1 DEF LinkClosure
    <2>11. gen.template.runtime = gen.mods["runtime"] /\ gen.template.initdb = gen.mods["initdb"]
        BY <2>5, <2>7 DEF TemplateBy
    <2> QED BY <2>6, <2>8, <2>9, <2>10, <2>11 DEF ManifestOk, ModuleLinkMetadataOk, LinkClosure, Listed
<1>6. ASSUME NEW some, PackagePromotedExtensions(some) PROVE gen'.manifest = gen.manifest
    BY <1>1, <1>6 DEF PackagePromotedExtensions, PortableAssets
<1>7. CASE PackageStep
    <2>1. CASE ClearAssets BY <1>3, <2>1 DEF ClearAssets, NoAssets
    <2>2. CASE StageRuntimeTree \/ CopyTools \/ ClearTemplate \/ GeneratePgdataTemplate
        BY <1>1, <1>2, <2>2 DEF StageRuntimeTree, CopyTools, ClearTemplate, GeneratePgdataTemplate, PortableAssets
    <2>3. CASE gen' = gen BY <1>2, <2>3
    <2> QED BY <1>2, <1>5, <1>6, <1>7, <2>1, <2>2, <2>3 DEF PackageStep, packageVars
<1>8. CASE InstallDownloadedArtifacts
    <2>1. ~Idle BY <1>8 DEF InstallDownloadedArtifacts, Perform, Step
    <2>2. CASE gen' = gen BY <1>2, <2>2
    <2>3. CASE /\ Perform("install-assets")
               /\ gen' = [CiAssets(Arg(2)) EXCEPT !.mods = OnTop(@, gen.mods)]
        <3>1. Arg(2) \in CiTrees BY <2>1, <2>3, ArgsTyped DEF Perform
        <3>2. gen'.manifest = CiAssets(Arg(2)).manifest BY <2>3, <3>1, CiTyped DEF PortableAssets
        <3> QED BY <1>4, <3>1, <3>2
    <2> QED BY <1>8, <2>2, <2>3 DEF InstallDownloadedArtifacts, packageVars
<1>9. CASE PackageBreaks
    <2>1. ~Idle BY <1>9 DEF PackageBreaks, Break
    <2>2. CASE gen' = gen BY <1>2, <2>2
    <2>3. ASSUME Step("install-assets"), gen'.manifest \in {CiAssets(Arg(2)).manifest, gen.manifest}
          PROVE  ManifestOk(gen)'
        <3>1. Arg(2) \in CiTrees BY <2>1, <2>3, ArgsTyped
        <3> QED BY <1>2, <1>4, <2>3, <3>1
    <2> QED BY <1>2, <1>6, <1>9, <2>2, <2>3 DEF PackageBreaks, packageVars
<1>10. CASE UNCHANGED packageVars BY <1>2, <1>10 DEF packageVars
<1> QED BY <1>7, <1>8, <1>9, <1>10, PackageChanges

-----------------------------------------------------------------------------
(* Downloads and releases.                                                 *)

(* What is on top is what is found.                                        *)
LEMMA OnTopListed ==
  ASSUME NEW new, NEW old
  PROVE  \A m \in Listed(new) : OnTop(new, old)[m] = new[m]
BY DEF Listed, OnTop

(* A download whose fingerprint was compared installs what it was compared *)
(* for.                                                                    *)
LEMMA InstalledKept ==
  ASSUME PipelineTypeOK, WellFormed, Bookkeeping, AtTarget, Installed, Next
  PROVE  Installed'
<1>1. CASE Starts
    <2>1. FirstOk(run'.name, At') BY <1>1, WhereNext
    <2> QED BY <2>1 DEF FirstOk, Installed
<1>2. CASE Finish
    <2>1. At = "end" /\ run' = run /\ At' \in {"end", "none"} BY <1>2, WhereNext
    <2>2. UNCHANGED <<gen, genAot, fpFile>> BY <1>2 DEF Finish, UnchangedFiles, packageVars
    <2> QED BY <2>1, <2>2 DEF Installed, AssetsOf, AotOf
<1>3. CASE Aborts BY <1>3, WhereNext DEF Installed
<1>4. CASE Edits
    <2>1. run'.name = run.name /\ run'.target = run.target /\ cmd' = cmd /\ At' \in {At, "none"}
        BY <1>4, WhereNext
    <2>2. UNCHANGED <<gen, genAot, fpFile>> BY <1>4 DEF Edits, Edit, packageVars
    <2> QED BY <2>1, <2>2 DEF Installed, AssetsOf, AotOf
<1>5. CASE Advances /\ run.name # "download" BY <1>5 DEF Advances, Installed
<1>6. CASE Advances /\ run.name = "download" /\ ~Aborts /\ ~Edits
    <2>1. /\ At = cmd[1][1] /\ Head(cmd) = cmd[1] /\ <<At, At'>> \in DownloadEdges /\ ~Idle
          /\ At' = cmd'[1][1] /\ Follows(cmd[1], cmd'[1], run) /\ run' = run /\ cmd # <<>>
        BY <1>6, Advance, EdgesOf DEF Advances
    <2>2. \A op : Step(op) => At = op BY <2>1 DEF Step
    <2>3. At \in {"verify-fingerprint", "install-assets", "install-aot", "install-local"}
        BY <2>1 DEF DownloadEdges
    <2>4. InstallDownloadedArtifacts
        <3>1. ~(Extensions \/ Assets \/ Download \/ Release)
            BY <2>1 DEF Extensions, Assets, BuildCommands, PackageCommands, Download, DownloadAssetsFromRelease,
                 Release, Start
        <3>2. ~(BuildStep \/ RecordStep \/ PackageStep \/ CatalogStep)
            BY <2>2, <2>3 DEF BuildStep, RecordStep, PackageStep, CatalogStep, Perform
        <3>3. ~(StageReleaseWorkspace \/ ValidateRelease \/ WriteFingerprint \/ Finish)
            BY <2>2, <2>3 DEF StageReleaseWorkspace, ValidateRelease, WriteFingerprint, Finish, Perform
        <3>4. ~(Refuse \/ BuildBreaks \/ PackageBreaks)
            BY <1>6 DEF Refuse, BuildBreaks, PackageBreaks, Break, Aborts
        <3>5. ~(EditInputs \/ EditCheckout)
            BY <1>6 DEF EditInputs, EditCheckout, Edits, PipelineTypeOK, CatalogTypeOK, BuildTypeOK
        <3> QED BY <3>1, <3>2, <3>3, <3>4, <3>5 DEF Next
    <2>5. fpFile' = fpFile BY <2>4 DEF InstallDownloadedArtifacts, Perform
    <2>6. CASE Perform("verify-fingerprint") /\ UNCHANGED packageVars
        <3>1. At = "verify-fingerprint" /\ Accepts(cmd[1]) BY <2>1, <2>2, <2>6 DEF Perform
        <3>2. cmd[1][2] = fpFile BY <2>1, <3>1 DEF Accepts, VerifyDownloadedFingerprint
        <3>3. At' = "install-assets" BY <2>1, <3>1 DEF DownloadEdges
        <3>4. cmd'[1][2] = cmd[1][2] BY <2>1, <3>3 DEF Follows
        <3> QED BY <2>5, <3>2, <3>3, <3>4 DEF Installed
    <2>7. CASE /\ Perform("install-assets")
               /\ gen' = [CiAssets(Arg(2)) EXCEPT !.mods = OnTop(@, gen.mods)]
        <3>1. At = "install-assets" BY <2>2, <2>7 DEF Perform
        <3>2. Arg(2) = fpFile /\ cmd[1][2] = fpFile BY <1>6, <2>1, <3>1 DEF Installed, Arg
        <3>3. At' = "install-aot" BY <2>1, <3>1 DEF DownloadEdges
        <3>4. cmd'[1][2] = cmd[1][2] BY <2>1, <3>3 DEF Follows
        <3>5. gen'.manifest = CiAssets(fpFile).manifest /\ gen'.mods = OnTop(BuildOf(fpFile), gen.mods)
            BY <2>7, <3>2 DEF CiAssets
        <3>6. AssetsOf(fpFile)' BY <2>5, <3>5, OnTopListed DEF AssetsOf
        <3> QED BY <2>5, <3>2, <3>3, <3>4, <3>6 DEF Installed
    <2>8. CASE /\ Perform("install-aot")
               /\ genAot' = [genAot EXCEPT ![Arg(3)] =
                    [CiAot(Arg(2)) EXCEPT !.files = OnTop(@, genAot[Arg(3)].files)]]
               /\ UNCHANGED <<gen, aotDir>>
        <3>1. At = "install-aot" BY <2>2, <2>8 DEF Perform
        <3>2. Arg(2) = fpFile BY <1>6, <2>1, <3>1 DEF Installed, Arg
        <3>3. Arg(3) = run.target /\ run.target \in Targets
            BY <1>6, <2>1, <3>1 DEF AtTarget, Arg, Bookkeeping
        <3>4. At' = "install-local" BY <2>1, <3>1 DEF DownloadEdges
        <3>5. genAot \in [Targets -> Artifacts] BY DEF PipelineTypeOK, PackageTypeOK, Artifacts
        <3>6. genAot'[run.target] = [CiAot(fpFile) EXCEPT !.files = OnTop(@, genAot[run.target].files)]
            BY <2>8, <3>2, <3>3, <3>5
        <3>7. /\ genAot'[run.target].manifest = CiAot(fpFile).manifest
              /\ genAot'[run.target].files = OnTop(BuildOf(fpFile), genAot[run.target].files)
            BY <3>6 DEF CiAot
        <3>8. AotOf(fpFile, genAot[run.target])' BY <2>1, <2>5, <3>7, OnTopListed DEF AotOf
        <3>9. AssetsOf(fpFile)' BY <1>6, <2>5, <2>8, <3>1 DEF Installed, AssetsOf
        <3> QED BY <3>4, <3>8, <3>9 DEF Installed
    <2>9. CASE Perform("install-local") /\ UNCHANGED packageVars
        <3>1. At = "install-local" BY <2>2, <2>9 DEF Perform
        <3>2. At' = "end" BY <2>1, <3>1 DEF DownloadEdges
        <3>3. AssetsOf(fpFile)' BY <1>6, <2>5, <2>9, <3>1 DEF Installed, AssetsOf, packageVars
        <3>4. AotOf(fpFile, genAot[run.target])' BY <1>6, <2>1, <2>5, <2>9, <3>1 DEF Installed, AotOf, packageVars
        <3> QED BY <3>2, <3>3, <3>4 DEF Installed
    <2> QED BY <2>4, <2>6, <2>7, <2>8, <2>9 DEF InstallDownloadedArtifacts
<1> QED BY <1>1, <1>2, <1>3, <1>4, <1>5, <1>6, StepKinds

(* A release that was validated stays so until the next one is staged.     *)
LEMMA ReleasedKept ==
  ASSUME PipelineTypeOK, WellFormed, Bookkeeping, ManifestOk(gen), Released, Next
  PROVE  Released'
<1>1. CASE Starts
    <2>1. FirstOk(run'.name, At') BY <1>1, WhereNext
    <2> QED BY <2>1 DEF FirstOk, Released
<1>2. ASSUME stage' = stage, run'.name = run.name, At' = At \/ At' = "none" PROVE Released'
    BY <1>2 DEF Released, Validated, ManifestOk, ModuleLinkMetadataOk, LinkClosure, Listed,
         AssetManifestHashesOk, WasixExportList, CheckAotPackageManifest, FromPackagedAssets
<1>3. CASE Finish
    <2>1. stage' = stage BY <1>3 DEF Finish
    <2> QED BY <1>2, <1>3, <2>1, WhereNext
<1>4. CASE Aborts BY <1>4, WhereNext DEF Released
<1>5. CASE Edits
    <2>1. stage' = stage BY <1>5 DEF Edits, Edit
    <2> QED BY <1>2, <1>5, <2>1, WhereNext
<1>6. CASE Advances /\ run.name # "dry-run" BY <1>6 DEF Advances, Released
<1>7. CASE Advances /\ run.name = "dry-run" /\ ~Aborts /\ ~Edits
    <2>1. /\ At = cmd[1][1] /\ Head(cmd) = cmd[1] /\ <<At, At'>> \in DryRunEdges /\ ~Idle /\ run' = run
        BY <1>7, Advance, EdgesOf DEF Advances
    <2>2. \A op : Step(op) => At = op BY <2>1 DEF Step
    <2>3. At \in {"stage", "validate"} BY <2>1 DEF DryRunEdges
    <2>4. StageReleaseWorkspace \/ ValidateRelease
        <3>1. ~(Extensions \/ Assets \/ Download \/ Release)
            BY <2>1 DEF Extensions, Assets, BuildCommands, PackageCommands, Download, DownloadAssetsFromRelease,
                 Release, Start
        <3>2. ~(BuildStep \/ RecordStep \/ PackageStep \/ CatalogStep \/ InstallDownloadedArtifacts)
            BY <2>2, <2>3 DEF BuildStep, RecordStep, PackageStep, CatalogStep, InstallDownloadedArtifacts, Perform
        <3>3. ~(WriteFingerprint \/ Finish) BY <2>2, <2>3 DEF WriteFingerprint, Finish
        <3>4. ~(Refuse \/ BuildBreaks \/ PackageBreaks)
            BY <1>7 DEF Refuse, BuildBreaks, PackageBreaks, Break, Aborts
        <3>5. ~(EditInputs \/ EditCheckout)
            BY <1>7 DEF EditInputs, EditCheckout, Edits, PipelineTypeOK, CatalogTypeOK, BuildTypeOK
        <3> QED BY <3>1, <3>2, <3>3, <3>4, <3>5 DEF Next
    <2>5. CASE StageReleaseWorkspace
        <3>1. At' = "validate" BY <2>1, <2>2, <2>5 DEF StageReleaseWorkspace, DryRunEdges
        <3>2. stage'.gen = gen BY <2>5 DEF StageReleaseWorkspace
        <3>3. gen.mods \in Outputs /\ gen.manifest \in Manifests \cup {None} BY DEF PipelineTypeOK, PackageTypeOK
        <3>4. ManifestOk(stage.gen)' BY <3>2 DEF ManifestOk, ModuleLinkMetadataOk, LinkClosure, Listed
        <3> QED BY <3>1, <3>2, <3>3, <3>4 DEF Released
    <2>6. CASE ValidateRelease
        <3>1. At = "validate" /\ At' = "end" /\ Accepts(cmd[1]) /\ stage' = stage
            BY <2>1, <2>2, <2>6 DEF ValidateRelease, Perform, DryRunEdges
        <3>2. /\ GeneratedOk(stage.gen, stage.tree.pins, stage.catalog, stage.api)
              /\ GeneratedWasixExportListOk(stage.gen, stage.exportList)
              /\ \A t \in Targets : CheckAotPackageManifest(stage.aot[t], FromPackagedAssets(stage.gen))
            BY <2>1, <3>1 DEF Accepts
        <3>3. Validated
            BY <3>2 DEF Validated, GeneratedOk, GeneratedManifestOk, GeneratedWasixExportListOk
        <3>4. Validated'
            BY <3>1, <3>3 DEF Validated, AssetManifestHashesOk, WasixExportList, CheckAotPackageManifest,
                 FromPackagedAssets
        <3>5. /\ stage.gen.mods \in Outputs /\ stage.gen.manifest \in Manifests \cup {None}
              /\ ManifestOk(stage.gen)
            BY <1>7, <3>1 DEF Released
        <3>6. ManifestOk(stage.gen)' BY <3>1, <3>5 DEF ManifestOk, ModuleLinkMetadataOk, LinkClosure, Listed
        <3> QED BY <3>1, <3>4, <3>5, <3>6 DEF Released
    <2> QED BY <2>4, <2>5, <2>6
<1> QED BY <1>1, <1>3, <1>4, <1>5, <1>6, <1>7, StepKinds

-----------------------------------------------------------------------------
(* The invariant and what follows from it.                                 *)

(* The invariant holds in a fresh clone.                                   *)
LEMMA InitInv ==
  ASSUME Init PROVE IndInv
<1>1. tree \in Trees /\ tree = FirstTree BY RunsAssumption DEF Init
<1>2. /\ tree.pins \in [Sources -> Commits] /\ tree.patch \in Patches /\ tree.requested \in SUBSET Exts
    BY <1>1, InputsAssumption
<1>3. catalog \in Catalogs
    BY <1>2 DEF Init, CatalogInit, DiscoverCatalog, PromotionConfig, Catalogs
<1>4. CatalogTypeOK
    BY <1>1, <1>2, <1>3 DEF Init, CatalogInit, CatalogTypeOK, PromotedBuildSpecs, PromotionConfig, Catalogs
<1>5. BuildTypeOK BY OutputsTyped DEF Init, BuildInit, BuildTypeOK
<1>6. PackageTypeOK BY OutputsTyped DEF Init, PackageInit, PackageTypeOK, NoAssets, NoAot
<1>7. /\ cmd = <<>> /\ done = FALSE /\ fpFile \in Trees /\ commands = 0 /\ events = 0
      /\ run = [name |-> "none", flags |-> {}, target |-> None, pins |-> tree.pins,
                steady |-> TRUE, rest |-> <<>>, cat |-> catalog]
    BY <1>1 DEF Init
<1>8. CommandTypeOK
    <2>1. <<>> \in Seq(Steps) /\ <<>> \in Seq(CiTrees) OBVIOUS
    <2>2. "none" \in Names BY DEF Names
    <2>3. 0 \in 0 .. MaxCommands /\ 0 \in 0 .. MaxEvents BY RunsAssumption
    <2> QED BY <1>2, <1>3, <1>7, <2>1, <2>2, <2>3 DEF CommandTypeOK
<1>9. run.name = "none" /\ run.steady /\ run.pins = tree.pins /\ run.rest = <<>> BY <1>7
<1>10. At = "none" BY <1>7 DEF At
<1>11. WellFormed /\ AotThere /\ AtTarget BY <1>7, <1>10 DEF WellFormed, AotThere, AtTarget
<1>12. Bookkeeping BY <1>7, <1>9 DEF Bookkeeping
<1>13. PackagingInv
    BY <1>9, <1>10 DEF PackagingInv, Made, OutputsFound, OutputsLinked, Assembled, ArtifactsMade, Packaging
<1>14. ManifestOk(gen) BY DEF Init, PackageInit, NoAssets, ManifestOk
<1>15. Installed /\ Released BY <1>9 DEF Installed, Released
<1> QED BY <1>4, <1>5, <1>6, <1>8, <1>11, <1>12, <1>13, <1>14, <1>15 DEF IndInv, PipelineTypeOK

(* A step that changes nothing keeps it.                                   *)
LEMMA StutterInv ==
  ASSUME IndInv, UNCHANGED vars PROVE IndInv'
<1>1. UNCHANGED <<tree, catalog, plan, api, head, dirty, work, sig, built, gen, aotDir, genAot, cmd, run, mods,
                  fpFile, stage, done, commands, events>>
    BY DEF vars, catalogVars, buildVars, packageVars
<1>2. PipelineTypeOK'
    BY <1>1 DEF IndInv, PipelineTypeOK, CatalogTypeOK, BuildTypeOK, PackageTypeOK, CommandTypeOK
<1>3. At' = At BY <1>1 DEF At
<1>4. WellFormed' /\ Bookkeeping' /\ AotThere' /\ AtTarget'
    BY <1>1, <1>3 DEF IndInv, WellFormed, Bookkeeping, AotThere, AtTarget
<1>5. Made' BY <1>1, <1>3 DEF IndInv, PackagingInv, Made, AtPins, Compiled
<1>6. OutputsFound' BY <1>1, <1>3 DEF IndInv, PackagingInv, OutputsFound, Packaging, Listed, BuildOutputs, Wanted
<1>7. OutputsLinked' BY <1>1, <1>3
    DEF IndInv, PackagingInv, OutputsLinked, Packaging, ModuleLinkMetadataOk, LinkClosure, Listed
<1>8. Assembled' BY <1>1, <1>3
    DEF IndInv, PackagingInv, Assembled, Packaging, AllPut, Manifested, Put, TemplateBy
<1>9. ArtifactsMade' BY <1>1, <1>3 DEF IndInv, PackagingInv, ArtifactsMade, Listed
<1>10. ManifestOk(gen)' BY <1>1 DEF IndInv, ManifestOk, ModuleLinkMetadataOk, LinkClosure, Listed
<1>11. Installed' BY <1>1, <1>3 DEF IndInv, Installed, AssetsOf, AotOf
<1>12. Released' BY <1>1, <1>3 DEF IndInv, Released, Validated, ManifestOk, ModuleLinkMetadataOk, LinkClosure, Listed,
         AssetManifestHashesOk, WasixExportList, CheckAotPackageManifest, FromPackagedAssets
<1> QED BY <1>2, <1>4, <1>5, <1>6, <1>7, <1>8, <1>9, <1>10, <1>11, <1>12 DEF IndInv, PackagingInv

(* Every step of a command, every failure and every edit keeps it.         *)
LEMMA NextInv ==
  ASSUME IndInv, Next PROVE IndInv'
<1>1. /\ PipelineTypeOK /\ WellFormed /\ Bookkeeping /\ AotThere /\ AtTarget
      /\ PackagingInv /\ ManifestOk(gen) /\ Installed /\ Released
    BY DEF IndInv
<1>2. WellFormed' BY <1>1, WellFormedKept
<1>3. Bookkeeping' /\ CommandTypeOK' BY <1>1, BookkeepingKept
<1>4. CatalogTypeOK' BY <1>1, CatalogTypeKept
<1>5. BuildTypeOK' BY <1>1, BuildTypeKept
<1>6. PackageTypeOK' BY <1>1, PackageTypeKept
<1>7. AotThere' /\ AtTarget' BY <1>1, ArgumentsKept
<1>8. PackagingInv' BY <1>1, PackagingKept
<1>9. ManifestOk(gen)' BY <1>1, ManifestKept
<1>10. Installed' BY <1>1, InstalledKept
<1>11. Released' BY <1>1, ReleasedKept
<1> QED BY <1>2, <1>3, <1>4, <1>5, <1>6, <1>7, <1>8, <1>9, <1>10, <1>11 DEF IndInv, PipelineTypeOK

(* The invariant holds in every state.                                     *)
THEOREM PipelineInvariant == Spec => []IndInv
<1>1. Init => IndInv BY InitInv
<1>2. IndInv /\ [Next]_vars => IndInv' BY NextInv, StutterInv
<1> QED BY <1>1, <1>2, PTL DEF Spec

(* What a step of any command writes has the type of what it replaces, and *)
(* what is left of the command is again a sequence of steps.               *)
THEOREM PipelineTypeCorrect == Spec => []PipelineTypeOK
<1>1. IndInv => PipelineTypeOK BY DEF IndInv
<1> QED BY <1>1, PipelineInvariant, PTL

(* A release build that built leaves the modules of the pinned commits and *)
(* of the current patch, whatever was built, edited or broken off before   *)
(* it: every checkout was compared with its pin, and every module of the   *)
(* plan was compiled after that.                                           *)
THEOREM BuildsThePins == Spec => []BuiltFromThePins
<1>1. ASSUME IndInv, Succeeded("release-build"), "skip-build" \notin run.flags, ExtensionsCheckOk
      PROVE  gen.mods = BuildOf(tree) /\ gen.manifest.mods = gen.mods /\ gen.manifest.pins = tree.pins
    <2>1. /\ done /\ run.name = "release-build" /\ cmd = <<>> /\ run.steady /\ run.pins = tree.pins
        BY <1>1 DEF Succeeded, IndInv, Bookkeeping
    <2>2. At = "end" /\ Packaging BY <2>1 DEF At, Packaging
    <2>3. /\ AtPins /\ built["runtime"] = Compiled("runtime", None) /\ built["initdb"] = Compiled("initdb", None)
          /\ \A e \in plan : built[e] = Compiled(e, head[e])
        BY <1>1, <2>1, <2>2 DEF IndInv, PackagingInv, Made, BuildOps
    <2>4. mods = BuildOutputs BY <1>1, <2>1, <2>2 DEF IndInv, PackagingInv, OutputsFound, BuildOps
    <2>5. gen.mods = mods /\ gen.manifest.mods = gen.mods /\ gen.manifest.pins = run.pins
        BY <1>1, <2>1, <2>2 DEF IndInv, PackagingInv, Assembled, AllPut, Manifested
    <2>6. plan = tree.requested
        BY <1>1 DEF ExtensionsCheckOk, BuildPlanFresh, PromotedBuildSpecs, PromotionConfig
    <2>7. tree.requested \subseteq Exts /\ Exts \subseteq Sources /\ {"runtime", "initdb"} \cap Exts = {}
        BY <1>1, InputsAssumption DEF IndInv, PipelineTypeOK, CatalogTypeOK, Sources
    <2>8. ASSUME NEW m \in Modules PROVE BuildOutputs[m] = BuildOf(tree)[m]
        <3>1. head["postgres"] = tree.pins["postgres"] BY <2>3 DEF AtPins, Sources
        <3>2. CASE m \in {"runtime", "initdb"}
            <4>1. m \notin tree.requested BY <2>7, <3>2
            <4>2. BuildOf(tree)[m] = Content(m, tree.pins["postgres"], tree.patch, None)
                BY <3>2, <4>1 DEF BuildOf
            <4>3. BuildOutputs[m] = built[m] BY <3>2 DEF BuildOutputs, Wanted
            <4> QED BY <2>3, <3>1, <3>2, <4>2, <4>3 DEF Compiled
        <3>3. CASE m \in tree.requested
            <4>1. m \notin {"runtime", "initdb"} /\ head[m] = tree.pins[m] BY <2>3, <2>7, <3>3 DEF AtPins
            <4>2. BuildOf(tree)[m] = Content(m, tree.pins["postgres"], tree.patch, tree.pins[m])
                BY <3>3, <4>1 DEF BuildOf
            <4>3. BuildOutputs[m] = built[m]
                BY <3>3 DEF BuildOutputs, Wanted, PromotedBuildSpecs, PromotionConfig
            <4>4. built[m] = Compiled(m, head[m]) BY <2>3, <2>6, <3>3
            <4> QED BY <3>1, <4>1, <4>2, <4>3, <4>4 DEF Compiled
        <3>4. CASE m \notin {"runtime", "initdb"} /\ m \notin tree.requested
            BY <3>4 DEF BuildOf, BuildOutputs, Wanted, PromotedBuildSpecs, PromotionConfig
        <3> QED BY <3>2, <3>3, <3>4
    <2>9. BuildOutputs = BuildOf(tree)
        <3>1. BuildOutputs = [m \in Modules |-> BuildOutputs[m]] BY DEF BuildOutputs
        <3>2. BuildOf(tree) = [m \in Modules |-> BuildOf(tree)[m]] BY DEF BuildOf
        <3> QED BY <2>8, <3>1, <3>2
    <2> QED BY <2>1, <2>4, <2>5, <2>9
<1>2. IndInv => BuiltFromThePins BY <1>1 DEF BuiltFromThePins
<1> QED BY <1>2, PipelineInvariant, PTL

(* After a release build that generates artifacts, and after a download,   *)
(* each packaged module has an artifact, listed for it and compiled from   *)
(* it, whichever directory its modules were found in.                      *)
THEOREM ArtifactsMatch == Spec => []ArtifactsOfTheModules
<1>1. ASSUME IndInv, Succeeded("release-build"), "skip-aot" \notin run.flags, NEW m \in Listed(gen.manifest.mods)
      PROVE  StartupAccepts(gen, genAot[run.target], m) /\ genAot[run.target].files[m] = gen.mods[m]
    <2>1. done /\ run.name = "release-build" /\ cmd = <<>> /\ run.steady
        BY <1>1 DEF Succeeded, IndInv, Bookkeeping
    <2>2. At = "end" /\ Packaging BY <2>1 DEF At, Packaging
    <2>3. gen.mods = mods /\ gen.manifest.mods = gen.mods
        BY <1>1, <2>1, <2>2 DEF IndInv, PackagingInv, Assembled, AllPut, Manifested
    <2>4. genAot[run.target] = [files |-> mods, manifest |-> [files |-> mods, mods |-> mods]]
        BY <1>1, <2>1, <2>2 DEF IndInv, PackagingInv, ArtifactsMade
    <2> QED BY <1>1, <2>3, <2>4 DEF StartupAccepts
<1>2. ASSUME IndInv, Succeeded("download"), NEW m \in Listed(gen.manifest.mods)
      PROVE  StartupAccepts(gen, genAot[run.target], m) /\ genAot[run.target].files[m] = gen.mods[m]
    <2>1. done /\ run.name = "download" /\ cmd = <<>> BY <1>2 DEF Succeeded, IndInv, Bookkeeping
    <2>2. At = "end" BY <2>1 DEF At
    <2>3. AssetsOf(fpFile) /\ AotOf(fpFile, genAot[run.target]) BY <1>2, <2>1, <2>2 DEF IndInv, Installed
    <2>4. gen.manifest.mods = BuildOf(fpFile) BY <2>3 DEF AssetsOf, CiAssets
    <2>5. /\ genAot[run.target].manifest.files = BuildOf(fpFile)
          /\ genAot[run.target].manifest.mods = BuildOf(fpFile)
        BY <2>3 DEF AotOf, CiAot
    <2> QED BY <1>2, <2>3, <2>4, <2>5 DEF StartupAccepts, AssetsOf, AotOf
<1>3. IndInv => ArtifactsOfTheModules BY <1>1, <1>2 DEF ArtifactsOfTheModules
<1> QED BY <1>3, PipelineInvariant, PTL

(* What the strict checks say of a packaged module.                        *)
LEMMA CheckedModules ==
  ASSUME NEW g, g.manifest # None, AssetManifestHashesOk(g)
  PROVE  /\ FromPackagedAssets(g) = [m \in Modules |-> IF m \in Listed(g.manifest.mods) THEN g.mods[m] ELSE None]
         /\ \A m \in Modules : FromPackagedAssets(g)[m] = g.manifest.mods[m]
         /\ Listed(FromPackagedAssets(g)) = Listed(g.manifest.mods)
<1>1. \A m \in Listed(g.manifest.mods) : g.mods[m] = g.manifest.mods[m] BY DEF AssetManifestHashesOk
<1>2. Listed(g.manifest.mods) \subseteq Listed(g.mods) BY <1>1 DEF Listed
<1>3. FromPackagedAssets(g) = [m \in Modules |-> IF m \in Listed(g.manifest.mods) THEN g.mods[m] ELSE None]
    BY <1>2 DEF FromPackagedAssets
<1>4. ASSUME NEW m \in Modules PROVE FromPackagedAssets(g)[m] = g.manifest.mods[m]
    <2>1. CASE m \in Listed(g.manifest.mods) BY <1>1, <1>3, <2>1
    <2>2. CASE m \notin Listed(g.manifest.mods)
        <3>1. g.manifest.mods[m] = None BY <2>2 DEF Listed
        <3> QED BY <1>3, <2>2, <3>1
    <2> QED BY <2>1, <2>2
<1>5. Listed(FromPackagedAssets(g)) = Listed(g.manifest.mods) BY <1>4 DEF Listed
<1> QED BY <1>3, <1>4, <1>5

(* Whenever the strict checks of the generated assets pass, the template   *)
(* is of the packaged runtime and initdb, and the packaged runtime exports *)
(* what each packaged extension imports: the manifest is written last, of  *)
(* modules that passed the link checks, and a download that was broken off *)
(* leaves the manifest of one build or of another.                         *)
THEOREM PackagesFitTogether == Spec => []PackagedTogether
<1>1. ASSUME IndInv, GeneratedOk(gen, tree.pins, catalog, api)
      PROVE  /\ gen.template.runtime = gen.mods["runtime"]
             /\ gen.template.initdb = gen.mods["initdb"]
             /\ LinkClosure(FromPackagedAssets(gen))
    <2>1. gen.manifest # None /\ AssetManifestHashesOk(gen) BY <1>1 DEF GeneratedOk, GeneratedManifestOk
    <2>2. gen.template # None /\ gen.template = gen.manifest.template
        BY <2>1 DEF AssetManifestHashesOk, TemplateHashOk
    <2>3. /\ {"runtime", "initdb"} \subseteq Listed(gen.manifest.mods) /\ LinkClosure(gen.manifest.mods)
          /\ gen.template.runtime = gen.manifest.mods["runtime"]
          /\ gen.template.initdb = gen.manifest.mods["initdb"]
        BY <1>1, <2>1, <2>2 DEF IndInv, ManifestOk
    <2>4. /\ gen.mods["runtime"] = gen.manifest.mods["runtime"]
          /\ gen.mods["initdb"] = gen.manifest.mods["initdb"]
        BY <2>1, <2>3 DEF AssetManifestHashesOk
    <2>5. /\ \A m \in Modules : FromPackagedAssets(gen)[m] = gen.manifest.mods[m]
          /\ Listed(FromPackagedAssets(gen)) = Listed(gen.manifest.mods)
        BY <2>1, CheckedModules
    <2>6. LinkClosure(FromPackagedAssets(gen)) BY <2>3, <2>5 DEF LinkClosure, Modules
    <2> QED BY <2>3, <2>4, <2>6
<1>2. IndInv => PackagedTogether BY <1>1 DEF PackagedTogether
<1> QED BY <1>2, PipelineInvariant, PTL

(* A download that succeeds while the committed fingerprint is that of the *)
(* tracked inputs has installed the assets of those inputs, even when it   *)
(* tried other runs first and left some of their files.                    *)
THEOREM DownloadsThisTree == Spec => []DownloadedForThisTree
<1>1. ASSUME IndInv, Succeeded("download"), fpFile = tree
      PROVE  /\ gen.manifest.mods = BuildOf(tree)
             /\ \A m \in Listed(gen.manifest.mods) : gen.mods[m] = gen.manifest.mods[m]
    <2>1. done /\ run.name = "download" /\ cmd = <<>> BY <1>1 DEF Succeeded, IndInv, Bookkeeping
    <2>2. At = "end" BY <2>1 DEF At
    <2>3. AssetsOf(tree) BY <1>1, <2>1, <2>2 DEF IndInv, Installed
    <2>4. gen.manifest.mods = BuildOf(tree) BY <2>3 DEF AssetsOf, CiAssets
    <2> QED BY <2>3, <2>4 DEF AssetsOf
<1>2. IndInv => DownloadedForThisTree BY <1>1 DEF DownloadedForThisTree
<1> QED BY <1>2, PipelineInvariant, PTL

(* A validated release workspace holds, for every target, only artifacts   *)
(* that the library will accept, and a committed export list with all that *)
(* the packaged extensions import.                                         *)
THEOREM ReleasesStart == Spec => []ReleaseStarts
<1>1. ASSUME IndInv, Succeeded("dry-run")
      PROVE  /\ RequiredExports(FromPackagedAssets(stage.gen)) \subseteq stage.exportList
             /\ \A t \in Targets : \A m \in Listed(stage.aot[t].manifest.files) :
                  StartupAccepts(stage.gen, stage.aot[t], m)
    <2>1. done /\ run.name = "dry-run" /\ cmd = <<>> BY <1>1 DEF Succeeded, IndInv, Bookkeeping
    <2>2. At = "end" BY <2>1 DEF At
    <2>3. Validated /\ ManifestOk(stage.gen) BY <1>1, <2>1, <2>2 DEF IndInv, Released
    <2>4. stage.gen.manifest # None /\ AssetManifestHashesOk(stage.gen) BY <2>3 DEF Validated
    <2>5. /\ \A m \in Modules : FromPackagedAssets(stage.gen)[m] = stage.gen.manifest.mods[m]
          /\ Listed(FromPackagedAssets(stage.gen)) = Listed(stage.gen.manifest.mods)
        BY <2>4, CheckedModules
    <2>6. stage.exportList = RequiredExports(stage.gen.manifest.mods)
        BY <2>3, <2>4 DEF Validated, WasixExportList, ExportListFromModules, ManifestOk
    <2>7. RequiredExports(FromPackagedAssets(stage.gen)) = RequiredExports(stage.gen.manifest.mods)
        <3>1. \A e \in Exts \cap Listed(stage.gen.manifest.mods) :
                LinkImports(FromPackagedAssets(stage.gen)[e]) = LinkImports(stage.gen.manifest.mods[e])
            BY <2>5 DEF Modules
        <3> QED BY <2>5, <3>1 DEF RequiredExports
    <2>8. ASSUME NEW t \in Targets, NEW m \in Listed(stage.aot[t].manifest.files)
          PROVE  StartupAccepts(stage.gen, stage.aot[t], m)
        <3>1. FromPackagedAssets(stage.gen)[m] = stage.aot[t].manifest.mods[m]
            BY <2>3, <2>8 DEF Validated, CheckAotPackageManifest
        <3>2. m \in Modules BY DEF Listed
        <3> QED BY <2>5, <3>1, <3>2 DEF StartupAccepts
    <2> QED BY <2>6, <2>7, <2>8
<1>2. IndInv => ReleaseStarts BY <1>1 DEF ReleaseStarts
<1> QED BY <1>2, PipelineInvariant, PTL

(* Where artifacts are labelled: the copies of a release build were        *)
(* compiled just before, and what is downloaded is labelled by its run.    *)
LEMMA LabelsStep ==
  ASSUME IndInv, Next, NEW t \in Targets, Mislabelled(genAot'[t]),
         run.name = "download" \/ (run.name = "release-build" /\ run.steady)
  PROVE  Mislabelled(genAot[t])
<1>1. /\ PipelineTypeOK /\ WellFormed /\ Bookkeeping /\ AtTarget /\ ArtifactsMade
      /\ genAot \in [Targets -> Artifacts]
    BY DEF IndInv, PackagingInv, PipelineTypeOK, PackageTypeOK, Artifacts
<1>2. CASE genAot'[t].manifest = genAot[t].manifest
    BY <1>2 DEF Mislabelled
<1>3. CASE genAot'[t].manifest = None
    BY <1>3 DEF Mislabelled
<1>4. ASSUME NEW c, genAot'[t].manifest = CiAot(c).manifest PROVE FALSE
    BY <1>4 DEF Mislabelled, CiAot
<1>5. CASE PackageStep
    <2>1. CASE UNCHANGED genAot BY <1>2, <2>1
    <2>2. CASE ClearAot(Arg(2))
        BY <1>1, <1>2, <1>3, <2>2 DEF ClearAot, NoAot
    <2>3. CASE Perform("copy-aot") /\ PackageAotArtifacts(Arg(2))
        <3>1. Step("copy-aot") /\ ~Idle /\ Head(cmd) = cmd[1] BY <1>1, <2>3, ArgsTyped DEF Perform, Step
        <3>2. cmd # <<>> /\ At = "copy-aot" BY <3>1 DEF Step, At, Idle
        <3>3. cmd[1][1] = "copy-aot" /\ Arg(2) = cmd[1][2] BY <3>1 DEF Step, Arg
        <3>4. Arg(2) = run.target BY <1>1, <3>2, <3>3 DEF AtTarget, TargetOps
        <3>5. run.name # "download"
            <4>1. Advances BY <2>3 DEF Perform, Step, Advances
            <4>2. <<At, At'>> \in Edges(run.name, run.flags) BY <1>1, <4>1, Advance
            <4> QED BY <3>2, <4>2 DEF Edges, DownloadEdges
        <3>6. \A m \in Listed(mods) : aotDir[Arg(2)][m] = mods[m]
            BY <1>1, <3>2, <3>4, <3>5 DEF ArtifactsMade
        <3>7. CopiedAot(Arg(2), Listed(mods)) = mods
            <4>1. mods \in [Modules -> Outs] BY <1>1 DEF PipelineTypeOK, BuildTypeOK, Outputs
            <4>2. \A m \in Modules : m \notin Listed(mods) => mods[m] = None BY DEF Listed
            <4> QED BY <3>6, <4>1, <4>2 DEF CopiedAot
        <3>8. CASE t = Arg(2)
            <4>1. genAot'[t].manifest = [files |-> mods, mods |-> mods]
                BY <1>1, <2>3, <3>7, <3>8 DEF PackageAotArtifacts
            <4> QED BY <4>1 DEF Mislabelled
        <3>9. CASE t # Arg(2)
            BY <1>1, <1>2, <2>3, <3>9 DEF PackageAotArtifacts
        <3> QED BY <3>8, <3>9
    <2> QED BY <1>5, <2>1, <2>2, <2>3 DEF PackageStep, packageVars
<1>6. CASE InstallDownloadedArtifacts
    <2>1. CASE UNCHANGED genAot BY <1>2, <2>1
    <2>2. CASE genAot' = [genAot EXCEPT ![Arg(3)] =
                            [CiAot(Arg(2)) EXCEPT !.files = OnTop(@, genAot[Arg(3)].files)]]
        <3>1. CASE t # Arg(3) BY <1>1, <1>2, <2>2, <3>1
        <3>2. CASE t = Arg(3)
            <4>1. genAot'[t].manifest = CiAot(Arg(2)).manifest
                BY <1>1, <2>2, <3>2 DEF CiAot
            <4> QED BY <1>4, <4>1
        <3> QED BY <3>1, <3>2
    <2> QED BY <1>6, <2>1, <2>2 DEF InstallDownloadedArtifacts, packageVars
<1>7. CASE PackageBreaks
    <2>1. CASE UNCHANGED genAot BY <1>2, <2>1
    <2>2. ASSUME NEW some, PackageAotInterrupted(Arg(2), some) PROVE Mislabelled(genAot[t])
        BY <1>1, <1>2, <1>3, <2>2 DEF PackageAotInterrupted
    <2>3. ASSUME NEW some, NEW manifest \in BOOLEAN,
                 genAot' = [genAot EXCEPT ![Arg(3)] =
                   [files |-> [m \in Modules |->
                      IF m \in some THEN OnTop(CiAot(Arg(2)).files, @.files)[m] ELSE @.files[m]],
                    manifest |-> IF manifest THEN CiAot(Arg(2)).manifest ELSE @.manifest]]
          PROVE  Mislabelled(genAot[t])
        <3>1. \/ genAot'[t].manifest = genAot[t].manifest
              \/ genAot'[t].manifest = CiAot(Arg(2)).manifest
            BY <1>1, <2>3
        <3> QED BY <1>2, <1>4, <3>1
    <2> QED BY <1>7, <2>1, <2>2, <2>3 DEF PackageBreaks, packageVars
<1>8. CASE UNCHANGED packageVars BY <1>2, <1>8 DEF packageVars
<1> QED BY <1>5, <1>6, <1>7, <1>8, PackageChanges

(* A download never labels an artifact with the hash of a module it was    *)
(* not compiled from, and a release build under which nothing is edited    *)
(* does not either: for any targets, extensions and histories, and         *)
(* wherever the command breaks off.                                        *)
THEOREM LabelsTrue == Spec => LabelledAsCompiled
<1>1. ASSUME IndInv, [Next]_vars
      PROVE  [\A t \in Targets :
                (run.name = "download" \/ (run.name = "release-build" /\ run.steady)) =>
                  (Mislabelled(genAot'[t]) => Mislabelled(genAot[t]))]_vars
    BY <1>1, LabelsStep
<1> QED BY <1>1, PipelineInvariant, PTL DEF Spec, LabelledAsCompiled
=============================================================================
