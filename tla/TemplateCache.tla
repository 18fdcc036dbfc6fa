---------------------------- MODULE TemplateCache ----------------------------
(***************************************************************************)
(* The PGDATA template caches of base.rs, shared by all processes of the   *)
(* user: build_pgdata_template_cache ("base", unpacked from the embedded   *)
(* archive) and build_extension_pgdata_template_cache ("ext", a database   *)
(* built from it with extensions installed).  Each entry is built under a  *)
(* file lock in a staging directory and renamed into place; overlay roots  *)
(* then read it for as long as their process lives.                        *)
(*                                                                         *)
(* Each element of Procs is one life of a process.  The threads of one     *)
(* process take turns (OnceLock, EXTENSION_TEMPLATE_CACHE_LOCK).           *)
(***************************************************************************)
EXTENDS FiniteSets

CONSTANTS Procs, NoProc

ASSUME TemplateCacheAssumption == NoProc \notin Procs

Caches == {"base", "ext"}
Markers == {"PG_VERSION", "pg_control"}
Whole == Markers \cup {"rest"}

VARIABLES
    lock,     \* the holder of each entry's CacheLock
    tree,     \* the pieces of the promoted directory of each entry
    manifest, \* extension-template.json: "none", "torn" or "written"
    stage,    \* where each process is
    want,     \* the entry it is asking for
    outcome,  \* its last answer for each entry: "unset", "ok" or "err"; for the
              \* base template this is PGDATA_TEMPLATE_CACHE
    using,    \* the entries whose path it has been given
    failed    \* it met an I/O error of its own

cacheVars == <<lock, tree, manifest, stage, want, outcome, using, failed>>

Stages ==
    {"idle", "wait", "check", "remove", "build", "promote", "describe", "write",
     "cleanup", "dead"}
Locked == {"check", "remove", "build", "promote", "describe", "write", "cleanup"}

Goto(p, s) == stage' = [stage EXCEPT ![p] = s]

CacheInit ==
    /\ lock = [c \in Caches |-> NoProc]
    /\ tree = [c \in Caches |-> {}]
    /\ manifest = "none"
    /\ stage = [p \in Procs |-> "idle"]
    /\ want = [p \in Procs |-> "base"]
    /\ outcome = [p \in Procs |-> [c \in Caches |-> "unset"]]
    /\ using = [p \in Procs |-> {}]
    /\ failed = [p \in Procs |-> FALSE]

-----------------------------------------------------------------------------
Unlock(p) == lock' = [lock EXCEPT ![want[p]] = IF @ = p THEN NoProc ELSE @]

(* The call returns, and the lock is dropped.                              *)
GetReturns(p, ok) ==
    /\ Unlock(p)
    /\ Goto(p, "idle")
    /\ outcome' = [outcome EXCEPT ![p][want[p]] = IF ok THEN "ok" ELSE "err"]
    /\ using' = IF ok THEN [using EXCEPT ![p] = @ \cup {want[p]}] ELSE using

(* pgdata_template_cache, and extension_pgdata_template_cache, which is    *)
(* reached only by a process that has the base template.  The answer for   *)
(* the base template, an error too, is kept for the life of the process;   *)
(* that for an extension template is not.                                  *)
Ask(p) ==
    /\ stage[p] = "idle"
    /\ \/ outcome[p]["base"] = "unset" /\ want' = [want EXCEPT ![p] = "base"]
       \/ outcome[p]["base"] = "ok" /\ "ext" \notin using[p] /\ want' = [want EXCEPT ![p] = "ext"]
    /\ Goto(p, "wait")
    /\ UNCHANGED <<lock, tree, manifest, outcome, using, failed>>

(* Mutant: no lock.                                                        *)
AcquireCacheLock_None(p) ==
    /\ stage[p] = "wait"
    /\ Goto(p, "check")
    /\ UNCHANGED <<lock, tree, manifest, want, outcome, using, failed>>

(* CacheLock::acquire blocks until the file lock is free.                  *)
AcquireCacheLock(p) ==
    /\ stage[p] = "wait" /\ lock[want[p]] = NoProc
    /\ lock' = [lock EXCEPT ![want[p]] = p]
    /\ Goto(p, "check")
    /\ UNCHANGED <<tree, manifest, want, outcome, using, failed>>

(* The markers, and for an extension template its manifest.                *)
Valid(c) == Markers \subseteq tree[c] /\ (c = "ext" => manifest = "written")

(* Mutant: a directory without its manifest is an error as well.           *)
Unreadable_Missing(c) == c = "ext" /\ Markers \subseteq tree[c] /\ manifest # "written"

(* extension_pgdata_template_is_valid reads a manifest next to a directory *)
(* with its markers; one that does not parse is an error.                  *)
Unreadable(c) == c = "ext" /\ Markers \subseteq tree[c] /\ manifest = "torn"

CheckEntry(p) ==
    /\ stage[p] = "check"
    /\ \/ Valid(want[p]) /\ GetReturns(p, TRUE)
       \/ Unreadable(want[p]) /\ GetReturns(p, FALSE)
       \/ /\ ~Valid(want[p]) /\ ~Unreadable(want[p])
          /\ Goto(p, "remove")
          /\ UNCHANGED <<lock, outcome, using>>
    /\ UNCHANGED <<tree, manifest, want, failed>>

(* remove_dir_all of the entry, file by file.                              *)
RemoveEntry(p) ==
    /\ stage[p] = "remove"
    /\ LET c == want[p]
           described == c = "ext" /\ manifest # "none"
       IN  \/ /\ \E f \in tree[c] : tree' = [tree EXCEPT ![c] = @ \ {f}]
              /\ UNCHANGED <<manifest, stage>>
           \/ /\ described
              /\ manifest' = "none"
              /\ UNCHANGED <<tree, stage>>
           \/ /\ tree[c] = {} /\ ~described
              /\ Goto(p, "build")
              /\ UNCHANGED <<tree, manifest>>
    /\ UNCHANGED <<lock, want, outcome, using, failed>>

(* Mutant: the entry is built where it will be used.                       *)
BuildStaging_InPlace(p) ==
    /\ stage[p] = "build"
    /\ \/ /\ \E f \in Whole \ tree[want[p]] :
                tree' = [tree EXCEPT ![want[p]] = @ \cup {f}]
          /\ UNCHANGED stage
       \/ /\ tree[want[p]] = Whole
          /\ Goto(p, "promote")
          /\ UNCHANGED tree
    /\ UNCHANGED <<lock, manifest, want, outcome, using, failed>>

(* Unpack the archive, or clone the base template, open a database on it,  *)
(* install the extensions and close it; validate_pgdata_template_dir.  All *)
(* of it happens in a staging directory nobody else looks at.              *)
BuildStaging(p) ==
    /\ stage[p] = "build"
    /\ Goto(p, "promote")
    /\ UNCHANGED <<lock, tree, manifest, want, outcome, using, failed>>

(* fs::rename; the base template is done.                                  *)
Promote(p) ==
    /\ stage[p] = "promote"
    /\ tree' = [tree EXCEPT ![want[p]] = Whole]
    /\ IF want[p] = "base"
       THEN GetReturns(p, TRUE)
       ELSE Goto(p, "describe") /\ UNCHANGED <<lock, outcome, using>>
    /\ UNCHANGED <<manifest, want, failed>>

(* fs::write of the manifest truncates the file and then writes it.        *)
TruncateManifest(p) ==
    /\ stage[p] = "describe"
    /\ manifest' = "torn"
    /\ Goto(p, "write")
    /\ UNCHANGED <<lock, tree, want, outcome, using, failed>>

WriteManifest(p) ==
    /\ stage[p] = "write"
    /\ manifest' = "written"
    /\ Goto(p, "cleanup")
    /\ UNCHANGED <<lock, tree, want, outcome, using, failed>>

(* The staging directory is removed.                                       *)
RemoveStaging(p) ==
    /\ stage[p] = "cleanup"
    /\ GetReturns(p, TRUE)
    /\ UNCHANGED <<tree, manifest, want, failed>>

(* Mutant: the lock is not given back by an error return.                  *)
Fails_KeepsLock(p) ==
    /\ stage[p] \in Locked \cup {"wait"}
    /\ Goto(p, "idle")
    /\ failed' = [failed EXCEPT ![p] = TRUE]
    /\ outcome' = [outcome EXCEPT ![p][want[p]] = "err"]
    /\ UNCHANGED <<lock, tree, manifest, want, using>>

(* Opening the lock file, or a step under the lock, fails: `?' returns and *)
(* drops the lock.                                                         *)
Fails(p) ==
    /\ stage[p] \in Locked \cup {"wait"}
    /\ failed' = [failed EXCEPT ![p] = TRUE]
    /\ GetReturns(p, FALSE)
    /\ UNCHANGED <<tree, manifest, want>>

(* The process ends or is killed; the operating system drops its locks.    *)
Die(p) ==
    /\ stage[p] # "dead"
    /\ Goto(p, "dead")
    /\ lock' = [c \in Caches |-> IF lock[c] = p THEN NoProc ELSE lock[c]]
    /\ using' = [using EXCEPT ![p] = {}]
    /\ UNCHANGED <<tree, manifest, want, outcome, failed>>

-----------------------------------------------------------------------------
Build(p) ==
    \/ AcquireCacheLock(p) \/ CheckEntry(p) \/ RemoveEntry(p) \/ BuildStaging(p)
    \/ Promote(p) \/ TruncateManifest(p) \/ WriteManifest(p) \/ RemoveStaging(p)

Finished == (\A p \in Procs : stage[p] = "dead") /\ UNCHANGED cacheVars

CacheNext == (\E p \in Procs : Ask(p) \/ Build(p) \/ Fails(p) \/ Die(p)) \/ Finished

(* A process that is in the middle of a call goes on with it, and the      *)
(* operating system hands a file lock to its waiters in turn.              *)
CacheSpec ==
    /\ CacheInit /\ [][CacheNext]_cacheVars
    /\ \A p \in Procs : WF_cacheVars(Build(p)) /\ SF_cacheVars(AcquireCacheLock(p))

-----------------------------------------------------------------------------
(* Properties.                                                             *)

(* Every variable has its type, and a lock is held exactly by the process  *)
(* that is inside.                                                         *)
CacheTypeOK ==
    /\ lock \in [Caches -> Procs \cup {NoProc}]
    /\ tree \in [Caches -> SUBSET Whole]
    /\ manifest \in {"none", "torn", "written"}
    /\ stage \in [Procs -> Stages] /\ want \in [Procs -> Caches]
    /\ outcome \in [Procs -> [Caches -> {"unset", "ok", "err"}]]
    /\ using \in [Procs -> SUBSET Caches] /\ failed \in [Procs -> BOOLEAN]
    /\ \A c \in Caches, p \in Procs :
        lock[c] = p <=> stage[p] \in Locked /\ want[p] = c

(* A template that a process was given is whole, and stays so as long as   *)
(* the process lives: it is never a half-unpacked one, and no other        *)
(* process that fails, is killed or rebuilds takes it away again.          *)
TemplateWhole ==
    \A p \in Procs : \A c \in using[p] : tree[c] = Whole

(* A process is refused only for an error of its own: what a builder that  *)
(* failed or was killed leaves behind is recognised and rebuilt.  The one  *)
(* exception is a builder killed between truncating and writing the        *)
(* extension manifest, after which that template is refused for good.      *)
ErrorIsOwn ==
    \A p \in Procs, c \in Caches :
        outcome[p][c] = "err" => failed[p] \/ (c = "ext" /\ manifest = "torn")

(* Nobody waits for ever: a process that asks is answered or dies, also    *)
(* when the builder it waits for is killed.                                *)
AskedIsAnswered == \A p \in Procs : stage[p] = "wait" ~> stage[p] \in {"idle", "dead"}
=============================================================================
