----------------------------- MODULE RootPrepare -----------------------------
(***************************************************************************)
(* Preparing the PGDATA directory of one root (prepare_root and            *)
(* prepare_pgdata in base.rs), over a sequence of opens by processes that  *)
(* may be killed, or fail with an I/O error, between any two of their      *)
(* writes.  The root lock (module RootLock) admits one opener at a time.   *)
(*                                                                         *)
(* A directory is the set of its pieces: the two marker files, everything  *)
(* else of the cluster ("relations"), the overlay manifest and the files a *)
(* running postmaster leaves.  An overlay root holds only what differs     *)
(* from the template it was created from.                                  *)
(***************************************************************************)
EXTENDS Naturals

CONSTANTS
    Sources,     \* of "Template", "FreshInitdb", "DataDirArchive"
    Templates,   \* the PGDATA templates embedded in the builds that are run
    NoTemplate,  \* a build without one; also: no overlay
    Builds,      \* the templates, or NoTemplate, of the builds in use
    Torn,        \* a manifest that was truncated and not written
    InterruptIn  \* <<source, stage>>: where an opener may be killed or fail

ASSUME RootPrepareAssumption ==
    /\ Sources \subseteq {"Template", "FreshInitdb", "DataDirArchive"}
    /\ NoTemplate \notin Templates /\ Torn \notin Templates \cup {NoTemplate}
    /\ Builds \subseteq Templates \cup {NoTemplate}

VARIABLES
    \* the root on disk
    layout,   \* runtime layout manifest: "none", "torn" or "written"
    dir,      \* the PGDATA directory exists
    files,    \* the pieces in it
    manifest, \* content of the overlay manifest; NoTemplate: no such file
    \* the opener
    stage,    \* where prepare_root is
    source,   \* RootPlan.source
    build,    \* the template its build embeds, or NoTemplate
    lower,    \* RuntimeLayout.pgdata_template_root
    \* which cluster the pieces belong to, and which one the user is owed
    id,       \* the cluster in the directory, 0 for none
    over,     \* the template it is an overlay of, or NoTemplate
    need,     \* the pieces it consists of
    owed,     \* the last cluster that was served, 0 for none
    incoming  \* the archive that is replacing it, 0 for none

disk == <<layout, dir, files, manifest>>
opener == <<stage, source, build, lower>>
cluster == <<id, over, need>>
user == <<owed, incoming>>
vars == <<disk, opener, cluster, user>>

Ids == 1 .. 4
Fresh == CHOOSE i \in Ids : i \notin {id, owed, incoming}

Markers == {"PG_VERSION", "pg_control"}
Plain == Markers \cup {"relations"}
Pieces == Plain \cup {"manifest", "postmaster"}
Stages ==
    {"idle", "failed", "layout", "layoutWrite", "pgdata", "remove", "overlay", "manifest",
     "manifestWrite", "initdb", "unpack", "clean", "ready", "serving"}

Init ==
    /\ layout = "none" /\ dir = FALSE /\ files = {} /\ manifest = NoTemplate
    /\ stage = "idle" /\ source = "Template" /\ build = NoTemplate /\ lower = NoTemplate
    /\ id = 0 /\ over = NoTemplate /\ need = {}
    /\ owed = 0 /\ incoming = 0

-----------------------------------------------------------------------------
(* The opener leaves: closed or killed ("idle"), or refused ("failed").    *)
Gone(s) ==
    /\ stage' = s /\ source' = "Template"
    /\ build' = NoTemplate /\ lower' = NoTemplate

Goto(s) == stage' = s /\ UNCHANGED <<source, build, lower>>

(* prepare_root, with the lock.                                            *)
Open ==
    /\ stage \in {"idle", "failed"}
    /\ stage' = "layout" /\ lower' = NoTemplate
    /\ source' \in Sources /\ build' \in Builds
    /\ UNCHANGED <<disk, cluster, user>>

(* resolve_runtime_layout_kind reads the layout manifest, which fails when *)
(* it does not parse; every open then writes it again, truncating it first *)
(* (fs::write).                                                            *)
PrepareRuntimeLayout ==
    /\ stage = "layout"
    /\ \/ /\ layout = "torn"
          /\ Gone("failed")
          /\ UNCHANGED layout
       \/ /\ layout # "torn"
          /\ layout' = "torn"
          /\ Goto("layoutWrite")
    /\ UNCHANGED <<dir, files, manifest, cluster, user>>

(* How the cluster is made when there is none to keep.                     *)
Maker ==
    CASE source = "DataDirArchive" -> "unpack"
      [] source = "Template" /\ build # NoTemplate -> "overlay"
      [] OTHER -> "initdb"

(* The layout manifest is written.  Loading an archive begins by removing  *)
(* the PGDATA that exists, whatever it is.                                 *)
WriteRuntimeLayout ==
    /\ stage = "layoutWrite"
    /\ layout' = "written"
    /\ IF source = "DataDirArchive"
       THEN /\ incoming' = Fresh
            /\ Goto(IF dir THEN "remove" ELSE Maker)
       ELSE /\ Goto("pgdata")
            /\ UNCHANGED incoming
    /\ UNCHANGED <<dir, files, manifest, cluster, owed>>

-----------------------------------------------------------------------------
(* Mutant: one marker is enough.                                           *)
Complete_VersionOnly == "PG_VERSION" \in files \/ "manifest" \in files

(* cluster_is_complete                                                     *)
Complete == Markers \subseteq files \/ "manifest" \in files

(* Mutant: an overlay of another template is recreated.                    *)
PreparePgdata_Recreates ==
    /\ stage = "pgdata"
    /\ \/ "manifest" \in files /\ manifest # build /\ Goto("remove")
       \/ "manifest" \in files /\ manifest = build /\ Goto("overlay")
       \/ "manifest" \notin files /\ Complete /\ Goto("clean")
       \/ ~Complete /\ Goto(IF dir THEN "remove" ELSE Maker)
    /\ UNCHANGED <<disk, cluster, user>>

(* Mutant: what an interrupted open left is refused, not removed.          *)
PreparePgdata_RefusesPartial ==
    /\ stage = "pgdata"
    /\ \/ "manifest" \in files /\ Goto("overlay")
       \/ "manifest" \notin files /\ Complete /\ Goto("clean")
       \/ ~Complete /\ ~dir /\ Goto(Maker)
       \/ ~Complete /\ dir /\ Gone("failed")
    /\ UNCHANGED <<disk, cluster, user>>

(* prepare_pgdata: an overlay root must have a manifest that parses and    *)
(* names this build's template; a cluster with its markers is kept;        *)
(* anything else is removed and made anew.  A build without a template     *)
(* takes an overlay for a complete cluster.                                *)
PreparePgdata ==
    /\ stage = "pgdata"
    /\ \/ /\ "manifest" \in files /\ build # NoTemplate
          /\ IF manifest = build THEN Goto("overlay") ELSE Gone("failed")
       \/ /\ "manifest" \notin files \/ build = NoTemplate
          /\ Complete
          /\ Goto("clean")
       \/ /\ ~Complete
          /\ Goto(IF dir THEN "remove" ELSE Maker)
    /\ UNCHANGED <<disk, cluster, user>>

(* remove_dir_all unlinks one file after the other, in directory order.    *)
RemoveDirAll ==
    /\ stage = "remove"
    /\ \/ \E f \in files :
            /\ files' = files \ {f}
            /\ manifest' = IF f = "manifest" THEN NoTemplate ELSE manifest
            /\ UNCHANGED <<dir, opener>>
       \/ /\ files = {}
          /\ dir' = FALSE
          /\ Goto(Maker)
          /\ UNCHANGED <<files, manifest>>
    /\ UNCHANGED <<layout, cluster, user>>

(* try_prepare_pgdata_template_overlay: the directory and PG_VERSION, for  *)
(* a new overlay and again for an existing one,                            *)
CreateOverlay ==
    /\ stage = "overlay"
    /\ dir' = TRUE
    /\ files' = files \cup {"PG_VERSION"}
    /\ IF "manifest" \in files
       THEN UNCHANGED cluster
       ELSE id' = Fresh /\ over' = build /\ need' = {"PG_VERSION", "manifest"}
    /\ Goto("manifest")
    /\ UNCHANGED <<layout, manifest, user>>

(* then the manifest, truncated and written (fs::write).                   *)
TruncateManifest ==
    /\ stage = "manifest"
    /\ files' = files \cup {"manifest"}
    /\ manifest' = Torn
    /\ Goto("manifestWrite")
    /\ UNCHANGED <<layout, dir, cluster, user>>

WriteManifest ==
    /\ stage = "manifestWrite"
    /\ manifest' = build
    /\ stage' = "clean" /\ lower' = build
    /\ UNCHANGED <<layout, dir, files, source, build, cluster, user>>

(* initdb and unpack_pgdata_archive write the cluster in place: PG_VERSION *)
(* first, pg_control before the rest (initdb bootstraps the control file   *)
(* before the catalogs; archives are in path order, where global/ precedes *)
(* pg_wal/ and pg_xact/).                                                  *)
Creating == stage \in {"initdb", "unpack"}
Order == <<"PG_VERSION", "pg_control", "relations">>

WritePiece ==
    /\ Creating
    /\ \E k \in 1 .. 3 :
        /\ \A j \in 1 .. (k - 1) : Order[j] \in files
        /\ Order[k] \notin files
        /\ files' = files \cup {Order[k]}
        /\ IF k = 1
           THEN /\ id' = IF stage = "unpack" THEN incoming ELSE Fresh
                /\ over' = NoTemplate /\ need' = Plain
           ELSE UNCHANGED cluster
    /\ dir' = TRUE
    /\ UNCHANGED <<layout, manifest, opener, user>>

(* The cluster is there; the markers are checked.                          *)
Created ==
    /\ Creating /\ Plain \subseteq files
    /\ IF stage = "unpack"
       THEN owed' = incoming /\ incoming' = 0
       ELSE UNCHANGED user
    /\ Goto("clean")
    /\ UNCHANGED <<disk, cluster>>

(* remove_template_runtime_state                                           *)
RemoveRuntimeState ==
    /\ stage = "clean"
    /\ files' = files \ {"postmaster"}
    /\ Goto("ready")
    /\ UNCHANGED <<layout, dir, manifest, cluster, user>>

-----------------------------------------------------------------------------
(* The backend: what an overlay changes is copied up into the directory,   *)
(* the control file at once and relations when they are written.           *)
StartBackend ==
    /\ stage = "ready"
    /\ files' = files \cup {"postmaster", "pg_control"}
    /\ need' = need \cup {"pg_control"}
    /\ owed' = IF owed = 0 THEN id ELSE owed
    /\ Goto("serving")
    /\ UNCHANGED <<layout, dir, manifest, id, over, incoming>>

Commit ==
    /\ stage = "serving"
    /\ files' = files \cup {"relations"}
    /\ need' = need \cup {"relations"}
    /\ UNCHANGED <<layout, dir, manifest, opener, id, over, user>>

Close ==
    /\ stage = "serving"
    /\ files' \in {files, files \ {"postmaster"}}
    /\ Gone("idle")
    /\ UNCHANGED <<layout, dir, manifest, cluster, user>>

(* The process is killed, or a step fails and prepare_root returns.        *)
Interrupt ==
    /\ <<source, stage>> \in InterruptIn
    /\ Gone("idle")
    /\ UNCHANGED <<disk, cluster, user>>

Prepare ==
    \/ PrepareRuntimeLayout \/ WriteRuntimeLayout \/ PreparePgdata \/ RemoveDirAll
    \/ CreateOverlay \/ TruncateManifest \/ WriteManifest
    \/ WritePiece \/ Created \/ RemoveRuntimeState \/ StartBackend

Next == Open \/ Prepare \/ Commit \/ Close \/ Interrupt

(* An open that nobody interrupts goes on, and there is always another.    *)
Spec == Init /\ [][Next]_vars /\ WF_vars(Open) /\ WF_vars(Prepare)

-----------------------------------------------------------------------------
(* Properties.                                                             *)

(* Every variable has its type, pieces are in a directory, and the         *)
(* manifest has content exactly when it is there.                          *)
TypeOK ==
    /\ layout \in {"none", "torn", "written"}
    /\ dir \in BOOLEAN /\ files \subseteq Pieces /\ (files # {} => dir)
    /\ manifest \in Templates \cup {NoTemplate, Torn}
    /\ ("manifest" \in files <=> manifest # NoTemplate)
    /\ stage \in Stages /\ source \in {"Template", "FreshInitdb", "DataDirArchive"}
    /\ build \in Templates \cup {NoTemplate} /\ lower \in Templates \cup {NoTemplate}
    /\ id \in Ids \cup {0} /\ over \in Templates \cup {NoTemplate} /\ need \subseteq Pieces
    /\ owed \in Ids \cup {0} /\ incoming \in Ids \cup {0}

(* A backend runs only on a whole cluster: no piece of it is missing, and  *)
(* an overlay lies over the template it was created from.  Directories     *)
(* that an interrupted open left behind are recognised and made anew.      *)
StartsOnWhole ==
    stage = "serving" => id # 0 /\ need \subseteq files /\ lower = over

(* The database that is served is the one the user last used, or the       *)
(* archive that was to replace it, and never a new, empty one.             *)
DataKept ==
    stage = "serving" => id \in {owed, incoming}

(* Recovery from an interrupted open never deletes a file of a cluster     *)
(* that was in use: only loading an archive does, also when the load is    *)
(* interrupted and another open cleans up after it.                        *)
NeverDiscardsServed ==
    [][(id # 0 /\ id = owed /\ \E f \in need : f \in files \ files') => incoming # 0]_vars

(* An interrupted open does no lasting harm: once nobody interrupts opens  *)
(* any more, and the builds that open the root have the template it lies   *)
(* over, it is served again and again.  The exception is an open that was  *)
(* killed while it rewrote one of the two manifests.                       *)
Undisturbed == ~Interrupt /\ (Open => over \in {build', NoTemplate})
TornManifest == stage = "idle" /\ (layout = "torn" \/ manifest = Torn)

Reopens == <>[][Undisturbed]_vars => <>TornManifest \/ []<>(stage = "serving")
=============================================================================
