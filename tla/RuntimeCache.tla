---------------------------- MODULE RuntimeCache ----------------------------
(***************************************************************************)
(* The runtime that all roots share: runtime_cache and ensure_full_runtime *)
(* of base.rs.  A process unpacks it into the cache directory under a file *)
(* lock and keeps the answer, an error too, for its life (a OnceLock).     *)
(*                                                                         *)
(* The archive is unpacked in place, file after file.  Whether a runtime   *)
(* is there is judged by some of its files: that they exist, and are not   *)
(* empty.  The process may be killed anywhere.                             *)
(***************************************************************************)
EXTENDS Naturals

CONSTANTS
    Processes,
    NoProcess,
    Size,        \* the archive is the files 1 .. Size, in this order
    Module,      \* files that locate_runtime_module wants
    Support      \* files that runtime_support_files_need_repair wants

ASSUME RuntimeAssumption ==
    /\ Size \in Nat \ {0}
    /\ Module \subseteq 1 .. Size /\ Module # {} /\ Support \subseteq 1 .. Size
    /\ NoProcess \notin Processes

VARIABLES
    content,   \* of the unpacked files: "none", "torn" or "whole"
    cacheLock, \* the process that has the file lock, or NoProcess
    runtime,   \* where each process is; "ok" and "error" are its last answer
    cut        \* an unpacking ended too early, when all files asked for existed

runtimeVars == <<content, cacheLock, runtime, cut>>

Files == 1 .. Size

RuntimeInit ==
    /\ content \in [Files -> {"none", "whole"}]
    /\ \A i \in Files : content[i] = content[1]
    /\ cacheLock = NoProcess /\ cut = FALSE
    /\ runtime = [p \in Processes |-> [step |-> "new", next |-> 1]]

Step(p, s) == runtime[p].step = s
Goes(p, s) == runtime' = [runtime EXCEPT ![p] = [step |-> s, next |-> 1]]

(* The first open of the process; other threads wait for its answer.       *)
AskRuntime(p) ==
    /\ Step(p, "new") /\ Goes(p, "lock")
    /\ UNCHANGED <<content, cacheLock, cut>>

(* CacheLock::acquire                                                      *)
TakeCacheLock(p) ==
    /\ Step(p, "lock") /\ cacheLock = NoProcess
    /\ cacheLock' = p /\ Goes(p, "locate")
    /\ UNCHANGED <<content, cut>>

Located == \A i \in Module : content[i] # "none"
NeedsRepair == \E i \in Support : content[i] = "none"

(* Mutant: support files are not looked at.                                *)
Locate_NoRepair(p) ==
    /\ Step(p, "locate")
    /\ Goes(p, IF Located THEN "reset" ELSE "unpack")
    /\ UNCHANGED <<content, cacheLock, cut>>

(* ensure_full_runtime                                                     *)
Locate(p) ==
    /\ Step(p, "locate")
    /\ Goes(p, IF Located /\ ~NeedsRepair THEN "reset" ELSE "unpack")
    /\ UNCHANGED <<content, cacheLock, cut>>

(* unpack_archive_entries: a file is truncated, then written.              *)
UnpackBegins(p) ==
    /\ Step(p, "unpack") /\ runtime[p].next \in Files
    /\ content' = [content EXCEPT ![runtime[p].next] = "torn"]
    /\ runtime' = [runtime EXCEPT ![p].step = "writing"]
    /\ UNCHANGED <<cacheLock, cut>>

UnpackEnds(p) ==
    /\ Step(p, "writing")
    /\ content' = [content EXCEPT ![runtime[p].next] = "whole"]
    /\ runtime' = [runtime EXCEPT ![p] = [step |-> "unpack", next |-> @.next + 1]]
    /\ UNCHANGED <<cacheLock, cut>>

(* The module is located again; build_runtime_cache goes on.               *)
Unpacked(p) ==
    /\ Step(p, "unpack") /\ runtime[p].next = Size + 1
    /\ Goes(p, IF Located THEN "reset" ELSE "fails")
    /\ UNCHANGED <<content, cacheLock, cut>>

(* Manifest and password are written, base, tmp and dev/shm emptied; the   *)
(* lock is dropped with the guard and the answer kept.                     *)
Answer(p, s) ==
    /\ cacheLock' = NoProcess /\ Goes(p, s)
    /\ UNCHANGED content

Reset(p) == Step(p, "reset") /\ Answer(p, "ok") /\ UNCHANGED cut

(* What is left when the unpacking does not go on.                         *)
CutShort(p) ==
    /\ runtime[p].step \in {"unpack", "writing"} /\ runtime[p].next \in Files
    /\ Located /\ ~NeedsRepair

RuntimeFails(p) ==
    /\ runtime[p].step \in {"unpack", "writing", "reset", "fails"}
    /\ Answer(p, "error")
    /\ cut' = (cut \/ CutShort(p))

(* The process is killed; another takes its place.                         *)
RuntimeDies(p) ==
    /\ cacheLock' = IF cacheLock = p THEN NoProcess ELSE cacheLock
    /\ Goes(p, "new")
    /\ cut' = (cut \/ CutShort(p))
    /\ UNCHANGED content

RuntimeStep(p) ==
    \/ TakeCacheLock(p) \/ Locate(p)
    \/ UnpackBegins(p) \/ UnpackEnds(p) \/ Unpacked(p) \/ Reset(p)

-----------------------------------------------------------------------------
(* Every variable has its type, and the file lock is held wherever the     *)
(* cache is read or written.                                               *)
RuntimeTypeOK ==
    /\ content \in [Files -> {"none", "torn", "whole"}]
    /\ cacheLock \in Processes \cup {NoProcess}
    /\ runtime \in [Processes -> [step : {"new", "lock", "locate", "unpack", "writing",
                                          "reset", "fails", "ok", "error"},
                                  next : 1 .. Size + 1]]
    /\ cut \in BOOLEAN
    /\ \A p \in Processes :
        cacheLock = p <=> runtime[p].step \notin {"new", "lock", "ok", "error"}

(* A process that has the shared runtime has all of it, and nobody unpacks *)
(* it again under the process, however many builders were killed: only an  *)
(* unpacking that ends too early when every file that is looked at already *)
(* exists goes unnoticed.                                                  *)
RuntimeWhole ==
    \A p \in Processes :
        runtime[p].step = "ok" => cut \/ \A i \in Files : content[i] = "whole"
=============================================================================
