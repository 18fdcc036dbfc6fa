------------------------------- MODULE Overlay -------------------------------
(***************************************************************************)
(* PGDATA of a root made from a template: EagerCopyOverlayFileSystem       *)
(* (postgres_mod.rs) over the host directories of SyncHostFileSystem       *)
(* (sync_host_fs.rs), and the physical archive of data_dir.rs.             *)
(*                                                                         *)
(* The upper directory belongs to the root, the lower one is the template  *)
(* shared by all roots.  A call that would change a file first copies it   *)
(* up; the copy is in place, and the process may be killed during it.  The *)
(* library's OverlayFileSystem then works on both: the upper file, if any, *)
(* hides the lower one, and a removed lower file is hidden by a whiteout   *)
(* (".wh.<name>") in the upper directory.                                  *)
(***************************************************************************)
CONSTANTS
    Names, Dirs, DirOf, Top,     \* files, and their directory; Top is PGDATA
    Data,                        \* what PostgreSQL writes
    TemplateFiles, TemplateDirs, \* what the lower directory holds
    Configs,                     \* the flags PostgreSQL opens files with
    Skipped,                     \* postmaster.pid, postmaster.opts, the manifest
    Absent, Empty, Torn, Idle    \* no file, an empty one, half a copy; no call

(* OpenOptionsConfig; read stands for read or append.                      *)
Flags == [create : BOOLEAN, createNew : BOOLEAN, truncate : BOOLEAN, read : BOOLEAN]

ASSUME OverlayAssumption ==
    /\ Configs \subseteq Flags
    /\ DirOf \in [Names -> Dirs]
    /\ Top \in TemplateDirs /\ TemplateDirs \subseteq Dirs
    /\ TemplateFiles \subseteq Names
    /\ \A n \in TemplateFiles : DirOf[n] \in TemplateDirs
    /\ Absent \notin Data \cup Names /\ Absent # Empty /\ Absent # Torn

(* The calls, with a write through the new handle if data is not Absent.   *)
Requests ==
    [op : {"open"}, name : Names, conf : Configs, data : Data \cup {Absent}]
    \cup {r \in [op : {"rename"}, name : Names, to : Names] : r.name # r.to}
    \cup [op : {"read", "remove"}, name : Names]
    \cup [op : {"mkdir"}, dir : Dirs]

VARIABLES
    upper,     \* content of the upper files
    whiteouts, \* names with a whiteout in the upper directory
    upperDirs, \* directories of the upper directory
    call,      \* the call PostgreSQL has made, or Idle
    copy,      \* "no", or ensure_upper_copy has "begun" or is "done"
    result     \* what the last call returned

vars == <<upper, whiteouts, upperDirs, call, copy, result>>

Contents == Data \cup Names \cup {Absent, Empty, Torn}

(* The content of a lower file is its name.                                *)
Lower(n) == IF n \in TemplateFiles THEN n ELSE Absent

(* EagerCopyOverlayFileSystem::new: the upper directory is created.        *)
Init ==
    /\ upper = [n \in Names |-> Absent] /\ whiteouts = {} /\ upperDirs = {Top}
    /\ call = Idle /\ copy = "no" /\ result = "none"

Call(r) ==
    /\ call = Idle
    /\ call' = r /\ result' = "none"
    /\ UNCHANGED <<upper, whiteouts, upperDirs, copy>>

Called(op) == call # Idle /\ call.op = op
Return(r) == result' = r /\ call' = Idle /\ copy' = "no"

-----------------------------------------------------------------------------
(* What the library's overlay shows.                                       *)
View(n) ==
    IF upper[n] # Absent THEN upper[n]
    ELSE IF n \in whiteouts THEN Absent ELSE Lower(n)

VisibleDirs == TemplateDirs \cup upperDirs

(* ensure_upper_copy looks at the two host directories, not at whiteouts.  *)
NeedsCopy(n) == upper[n] = Absent /\ Lower(n) # Absent

(* ensure_upper_parent                                                     *)
HasParent(n) == DirOf[n] \in VisibleDirs
WithParent(n) == upperDirs \cup {DirOf[n]}

-----------------------------------------------------------------------------
(* Copy-up, before an open that would change the file, and before rename.  *)

Creates == call.conf.create \/ call.conf.createNew

(* create_new of a file that only the template has is refused.             *)
OpenRefused ==
    /\ Called("open") /\ copy = "no" /\ NeedsCopy(call.name) /\ call.conf.createNew
    /\ Return("exists")
    /\ UNCHANGED <<upper, whiteouts, upperDirs>>

(* Mutant: a creating open starts from an empty file.                      *)
StartsEmpty_Creating == call.op = "open" /\ call.conf.create

(* truncate && !read && !append: File::create instead of fs::copy.         *)
StartsEmpty == call.op = "open" /\ call.conf.truncate /\ ~call.conf.read

CopyBegins ==
    /\ Called("open") \/ Called("rename")
    /\ copy = "no" /\ NeedsCopy(call.name)
    /\ call.op = "open" => ~call.conf.createNew
    /\ upper' = [upper EXCEPT ![call.name] = IF StartsEmpty THEN Empty ELSE Torn]
    /\ copy' = IF StartsEmpty THEN "done" ELSE "begun"
    /\ upperDirs' = WithParent(call.name)
    /\ UNCHANGED <<whiteouts, call, result>>

CopyReturns ==
    /\ copy = "begun"
    /\ upper' = [upper EXCEPT ![call.name] = Lower(call.name)]
    /\ copy' = "done"
    /\ UNCHANGED <<whiteouts, upperDirs, call, result>>

(* The file is in the upper directory now, or nowhere.                     *)
UpperEnsured(n) == copy = "done" \/ (copy = "no" /\ ~NeedsCopy(n))

-----------------------------------------------------------------------------
(* The calls, once the file is copied.  What happens to the two            *)
(* directories is OverlayFileSystem's part.                                *)

(* open: O_EXCL, O_CREAT and O_TRUNC apply to the upper file; a new file   *)
(* needs its directory.                                                    *)
Open ==
    /\ Called("open") /\ UpperEnsured(call.name)
    /\ LET n == call.name
           new == IF call.data # Absent THEN call.data
                  ELSE IF upper[n] = Absent \/ call.conf.truncate THEN Empty ELSE upper[n]
       IN  \/ /\ upper[n] = Absent /\ (Creates => ~HasParent(n))
              /\ Return("missing") /\ UNCHANGED <<upper, upperDirs>>
           \/ /\ upper[n] # Absent /\ call.conf.createNew
              /\ Return("exists") /\ UNCHANGED <<upper, upperDirs>>
           \/ /\ IF upper[n] = Absent THEN Creates /\ HasParent(n) ELSE ~call.conf.createNew
              /\ upper' = [upper EXCEPT ![n] = new]
              /\ upperDirs' = WithParent(n)
              /\ Return("ok")
    /\ UNCHANGED whiteouts

(* rename: the target's directory, then the upper file moves; its lower    *)
(* namesake is whited out and the whiteout of the new name removed.        *)
Rename ==
    /\ Called("rename") /\ UpperEnsured(call.name)
    /\ LET from == call.name
           to == call.to
       IN  \/ /\ ~HasParent(to)
              /\ Return("missing") /\ UNCHANGED <<upper, whiteouts, upperDirs>>
           \/ /\ HasParent(to) /\ upper[from] = Absent
              /\ upperDirs' = WithParent(to)
              /\ Return("missing") /\ UNCHANGED <<upper, whiteouts>>
           \/ /\ HasParent(to) /\ upper[from] # Absent
              /\ upperDirs' = WithParent(to)
              /\ upper' = [upper EXCEPT ![from] = Absent, ![to] = upper[from]]
              /\ whiteouts' = (whiteouts \cup ({from} \cap TemplateFiles)) \ {to}
              /\ Return("ok")

(* Calls that the overlay hands to the library as they are.                *)

OpenToRead ==
    /\ Called("read")
    /\ Return(IF View(call.name) = Absent THEN "missing" ELSE "ok")
    /\ UNCHANGED <<upper, whiteouts, upperDirs>>

(* remove_file: the library whites the lower file out.                     *)
RemoveFile ==
    /\ Called("remove")
    /\ \/ View(call.name) = Absent /\ Return("missing") /\ UNCHANGED <<upper, whiteouts>>
       \/ /\ View(call.name) # Absent
          /\ upper' = [upper EXCEPT ![call.name] = Absent]
          /\ whiteouts' = whiteouts \cup ({call.name} \cap TemplateFiles)
          /\ Return("ok")
    /\ UNCHANGED upperDirs

(* create_dir: a directory of the template that the upper one lacks may    *)
(* count as new for the library.                                           *)
CreateDir ==
    /\ Called("mkdir")
    /\ \/ call.dir \in VisibleDirs /\ Return("exists") /\ UNCHANGED upperDirs
       \/ call.dir \notin upperDirs /\ Return("ok") /\ upperDirs' = upperDirs \cup {call.dir}
    /\ UNCHANGED <<upper, whiteouts>>

(* The process is killed; the next open mounts the same directories.       *)
Crash ==
    /\ Return("none")
    /\ UNCHANGED <<upper, whiteouts, upperDirs>>

Next ==
    \/ \E r \in Requests : Call(r)
    \/ OpenRefused \/ CopyBegins \/ CopyReturns
    \/ Open \/ Rename \/ OpenToRead \/ RemoveFile \/ CreateDir
    \/ Crash

Spec == Init /\ [][Next]_vars

-----------------------------------------------------------------------------
(* The physical archive: materialize_pgdata_view copies the lower tree,    *)
(* then the upper one.  In each directory ".wh.<name>" sorts before        *)
(* <name>, so a whiteout never removes the file that replaced the hidden   *)
(* one.                                                                    *)
CopyTree(from, onto) ==
    [n \in Names |-> IF n \notin Skipped /\ from[n] # Absent THEN from[n] ELSE onto[n]]

ApplyWhiteouts(onto) == [n \in Names |-> IF n \in whiteouts THEN Absent ELSE onto[n]]

NoFiles == [n \in Names |-> Absent]

(* Mutant: the whiteouts come last.                                        *)
MaterializedView_Unsorted ==
    ApplyWhiteouts(CopyTree(upper, CopyTree([n \in Names |-> Lower(n)], NoFiles)))

MaterializedView ==
    CopyTree(upper, ApplyWhiteouts(CopyTree([n \in Names |-> Lower(n)], NoFiles)))

(* unpack_pgdata_archive into an empty directory.                          *)
Unpacked(archive) ==
    [n \in Names |-> IF n \in Skipped THEN Absent ELSE archive[n]]

-----------------------------------------------------------------------------
(* Properties.                                                             *)

(* Every variable has its type; a copy is made only of a template file,    *)
(* into a directory that is there.                                         *)
TypeOK ==
    /\ upper \in [Names -> Contents] /\ whiteouts \subseteq TemplateFiles
    /\ upperDirs \subseteq Dirs
    /\ call \in Requests \cup {Idle} /\ copy \in {"no", "begun", "done"}
    /\ result \in {"none", "ok", "missing", "exists"}
    /\ copy # "no" => /\ Called("open") \/ Called("rename")
                      /\ call.name \in TemplateFiles /\ upper[call.name] # Absent
    /\ \A n \in Names : upper[n] # Absent => DirOf[n] \in upperDirs

(* While a file is being copied up, PostgreSQL still has the old one.      *)
Promised(n) ==
    IF copy # "no" /\ n = call.name
    THEN IF n \in whiteouts THEN Absent ELSE Lower(n)
    ELSE View(n)

Guest == INSTANCE Directory WITH
    files <- [n \in Names |-> Promised(n)], dirs <- VisibleDirs, request <- call

(* Copy-up, whiteouts and directories made on demand are invisible: with   *)
(* crashes at any point PostgreSQL sees the directory that module          *)
(* Directory promises, which says how removed and half-copied template     *)
(* files deviate from a plain one.                                         *)
ImplementsDirectory == Guest!Spec

(* A dump taken between calls, and loaded into a new root, holds exactly   *)
(* the files PostgreSQL sees: nothing deleted comes back, nothing that was *)
(* written after a deletion is lost (runtime state and the manifest stay   *)
(* behind).                                                                *)
ArchiveIsView ==
    call = Idle =>
        \A n \in Names \ Skipped : Unpacked(MaterializedView)[n] = View(n)
=============================================================================
