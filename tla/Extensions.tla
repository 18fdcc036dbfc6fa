----------------------------- MODULE Extensions -----------------------------
(***************************************************************************)
(* Bundled extensions: the set that an open resolves (extensions.rs), the  *)
(* archives it unpacks into the root (base.rs), the compiled modules it    *)
(* seeds (postgres_mod.rs) and the statements that set them up in the      *)
(* session (client.rs for a direct instance, backend.rs for a server).     *)
(*                                                                         *)
(* Three things must agree and live for different times: the files and     *)
(* the catalogue belong to a root, the seeded modules to the process.      *)
(* PostgreSQL, which is outside src/, finds a module by the hash of the    *)
(* library file it opens.                                                  *)
(***************************************************************************)
EXTENDS ExtensionSet

CONSTANTS
    Created,      \* extensions with a CREATE EXTENSION in their setup
    Native,       \* extensions with a library
    MaxFaults     \* bound: disk errors, failed round trips and killed processes

(* What another extension needs has a CREATE EXTENSION (in the generated   *)
(* table: cube, for earthdistance).                                        *)
ASSUME ExtensionsAssumption ==
    /\ \A e \in Exts : ToSet(Dependencies[e]) \subseteq Created
    /\ Created \subseteq Exts /\ Native \subseteq Exts
    /\ MaxFaults \in Nat

VARIABLES
    files,   \* what the kept root and the current temporary one have of each archive
    catalog, \* the extensions created in each root's cluster
    unsure,  \* extensions whose installation was begun, or left to the caller
    seeded,  \* SEEDED_SIDE_MODULES: extensions with the state of the file hashed
    db,      \* the instance or server: where it is, its root, what is to be done
    err,     \* why the last call that failed did, and which it was
    faults

extensionVars == <<files, catalog, unsure, seeded, db, err, faults>>

Roots == {"kept", "temporary"}
NoFiles == [e \in Exts |-> "none"]
Closed == [at |-> "closed", root |-> "kept", server |-> FALSE, list |-> <<>>, todo |-> <<>>,
           pre |-> {}, call |-> "none"]
NoError == [why |-> "none", call |-> "none"]

ExtensionsInit ==
    /\ files = [r \in Roots |-> NoFiles]
    /\ catalog = [r \in Roots |-> {}] /\ unsure = [r \in Roots |-> {}]
    /\ seeded = {}
    /\ db = Closed /\ err = NoError /\ faults = 0

-----------------------------------------------------------------------------
Here == db.root
Current == Head(db.todo)

(* The step of a direct instance for the next extension of its list.       *)
Begins(todo, pre) ==
    IF todo = <<>> THEN "ready" ELSE IF Head(todo) \in pre THEN "preload" ELSE "install"

(* Mutant: the resolved extensions are kept in a set that is ordered by    *)
(* their names.                                                            *)
Opened_Sorted(root, server, list, pre) ==
    db' = [Closed EXCEPT !.at = IF server THEN "listening" ELSE "start", !.root = root,
                         !.server = server, !.list = Requested(ToSet(list)),
                         !.todo = Requested(ToSet(list)), !.pre = pre, !.call = "open"]

(* A server installs all missing archives first (proxy.rs).                *)
Opened(root, server, list, pre) ==
    db' = [Closed EXCEPT !.at = IF server THEN "listening" ELSE "start", !.root = root,
                         !.server = server, !.list = list, !.todo = list, !.pre = pre,
                         !.call = "open"]

(* open and start of a root that persists.                                 *)
OpenPath(server, set) ==
    /\ db.at = "closed"
    /\ Opened("kept", server, Resolved(set), {})
    /\ err' = NoError
    /\ UNCHANGED <<files, catalog, unsure, seeded, faults>>

(* A temporary root goes with its TempDir; one that a killed process left  *)
(* is not found again.                                                     *)
Gone(f, empty) == [f EXCEPT !["temporary"] = empty]
TemporaryGone ==
    /\ files' = Gone(files, NoFiles) /\ catalog' = Gone(catalog, {})
    /\ unsure' = Gone(unsure, {})

(* A temporary root is new.  With the template cache it starts as the      *)
(* template of its extensions, with their archives unpacked.               *)
OpenTemporary(server, set, template) ==
    /\ db.at = "closed"
    /\ LET list == Resolved(set)
           pre == IF template THEN ToSet(list) ELSE {}
       IN  /\ Opened("temporary", server, list, pre)
           /\ files' = [files EXCEPT !["temporary"] =
                            [e \in Exts |-> IF e \in pre THEN "whole" ELSE "none"]]
           /\ catalog' = [catalog EXCEPT !["temporary"] = pre \cap Created]
    /\ unsure' = [unsure EXCEPT !["temporary"] = {}]
    /\ err' = NoError
    /\ UNCHANGED <<seeded, faults>>

(* An archive, of this database or another, brings a catalogue and no      *)
(* files: they are left as they were, or missing in a new root.            *)
OpenArchive(root, set, extensions) ==
    /\ db.at = "closed"
    /\ \A e \in extensions : ToSet(Dependencies[e]) \subseteq extensions
    /\ Opened(root, FALSE, Resolved(set), {})
    /\ files' = IF root = "temporary" THEN [files EXCEPT ![root] = NoFiles] ELSE files
    /\ catalog' = [catalog EXCEPT ![root] = extensions]
    /\ unsure' = [unsure EXCEPT ![root] = extensions]
    /\ err' = NoError
    /\ UNCHANGED <<seeded, faults>>

(* A connection comes: the missing archives are installed.                 *)
Connection ==
    /\ db.at = "listening"
    /\ db' = [db EXCEPT !.at = IF db.list = <<>> THEN "start" ELSE "install", !.todo = db.list]
    /\ err' = NoError
    /\ UNCHANGED <<files, catalog, unsure, seeded, faults>>

(* preload_installed_extension_side_modules: every library in the root.    *)
Present(root) ==
    {<<e, files[root][e]>> : e \in {x \in Native : files[root][x] # "none"}}

(* new_prepared_with_config and finish_open.  A server has the modules of  *)
(* its list seeded as well; they are among those present.                  *)
StartBackend ==
    /\ db.at = "start"
    /\ seeded' = seeded \cup Present(Here)
    /\ db' = [db EXCEPT !.todo = db.list,
                        !.at = IF db.list # <<>> /\ db.server THEN "setup"
                               ELSE Begins(db.list, db.pre)]
    /\ UNCHANGED <<files, catalog, unsure, err, faults>>

-----------------------------------------------------------------------------
(* A step of the list is done: the next, or the end of the call.  A server *)
(* goes over its list twice.                                               *)
Rest == Tail(db.todo)

AfterInstall ==
    IF db.server THEN [db EXCEPT !.todo = Rest, !.at = IF Rest = <<>> THEN "start" ELSE "install"]
    ELSE [db EXCEPT !.at = "preload"]

AfterSetup ==
    [db EXCEPT !.todo = Rest,
               !.at = IF db.server /\ Rest # <<>> THEN "setup" ELSE Begins(Rest, db.pre),
               !.list = IF db.server \/ Rest # <<>> THEN @ ELSE <<>>,
               !.pre = IF db.server \/ Rest # <<>> THEN @ ELSE {},
               !.call = "open"]

(* The call returns an error.  An open drops the instance; a server whose  *)
(* setup failed has lost its serving thread, one that could not open the   *)
(* backend answers the client and goes on; enable_extension keeps the      *)
(* instance.                                                               *)
Failing(why) ==
    /\ err' = [why |-> why, call |-> db.call]
    /\ \/ /\ db.call = "enable_extension"
          /\ db' = [db EXCEPT !.at = "ready", !.todo = <<>>, !.call = "open"]
          /\ UNCHANGED <<files, catalog, unsure>>
       \/ /\ db.call = "open" /\ db.server /\ db.at # "setup"
          /\ db' = [db EXCEPT !.at = "listening"]
          /\ UNCHANGED <<files, catalog, unsure>>
       \/ /\ db.call = "open" /\ ~(db.server /\ db.at # "setup")
          /\ db' = Closed
          /\ TemporaryGone

(* A server's root that was made from the template has the archive.        *)
SkipPreinstalled ==
    /\ db.at = "install" /\ Current \in db.pre
    /\ db' = AfterInstall
    /\ UNCHANGED <<files, catalog, unsure, seeded, err, faults>>

(* install_extension_reader: the files are replaced in place.              *)
UnpackBegins ==
    /\ db.at = "install" /\ Current \notin db.pre
    /\ files' = [files EXCEPT ![Here][Current] = "part"]
    /\ unsure' = [unsure EXCEPT ![Here] = @ \cup {Current}]
    /\ db' = [db EXCEPT !.at = "unpacking"]
    /\ UNCHANGED <<catalog, seeded, err, faults>>

UnpackEnds ==
    /\ db.at = "unpacking"
    /\ files' = [files EXCEPT ![Here][Current] = "whole"]
    /\ db' = AfterInstall
    /\ UNCHANGED <<catalog, unsure, seeded, err, faults>>

(* preload_extension_module: the key has the hash of the file in it.       *)
Seeds(e) == IF e \in Native THEN {<<e, files[Here][e]>>} ELSE {}

PreloadExtension ==
    /\ db.at = "preload"
    /\ IF Current \in Native /\ files[Here][Current] = "none"
       THEN Failing("module") /\ UNCHANGED seeded
       ELSE /\ seeded' = seeded \cup Seeds(Current)
            /\ db' = [db EXCEPT !.at = "setup"]
            /\ UNCHANGED <<files, catalog, unsure, err>>
    /\ UNCHANGED faults

(* PostgreSQL can open the library.                                        *)
Opens(e) == e \in Native => files[Here][e] # "none" /\ <<e, files[Here][e]>> \in seeded

(* extension_setup_sql, or extension_session_setup_sql for one that is     *)
(* preinstalled.  `block' is the state of the session's transaction block. *)
Refuses(block) ==
    LET creates == Current \in Created \ db.pre
    IN  CASE block = "failed" \/ (block = "readonly" /\ creates) -> "block"
          [] creates /\ Current \notin catalog[Here]
                /\ ~ToSet(Dependencies[Current]) \subseteq catalog[Here] -> "dependency"
          [] ~Opens(Current) -> "module"
          [] OTHER -> "none"

SetUp(block) ==
    /\ db.at = "setup"
    /\ IF Refuses(block) # "none"
       THEN Failing(Refuses(block))
       ELSE /\ catalog' = [catalog EXCEPT ![Here] = @ \cup (({Current} \cap Created) \ db.pre)]
            /\ unsure' = [unsure EXCEPT ![Here] = @ \ {Current}]
            /\ db' = AfterSetup
            /\ UNCHANGED <<files, err>>
    /\ UNCHANGED <<seeded, faults>>

(* enable_extension on an open instance: dependencies are not looked at.   *)
EnableExtension(e) ==
    /\ db.at = "ready" /\ ~db.server
    /\ db' = [db EXCEPT !.at = "install", !.todo = <<e>>, !.call = "enable_extension",
                        !.pre = {}]
    /\ err' = NoError
    /\ UNCHANGED <<files, catalog, unsure, seeded, faults>>

(* The program drops an extension that no other needs.                     *)
DropExtension(e, block) ==
    /\ db.at = "ready" /\ block = "idle" /\ e \in catalog[Here]
    /\ \A d \in catalog[Here] : e \notin ToSet(Dependencies[d])
    /\ catalog' = [catalog EXCEPT ![Here] = @ \ {e}]
    /\ UNCHANGED <<files, unsure, seeded, db, err, faults>>

(* archive_quiesced_pgdata: the cluster is archived and the backend is     *)
(* replaced by one that starts on the same root.                           *)
DumpDataDir ==
    /\ db.at = "ready" /\ ~db.server
    /\ seeded' = seeded \cup Present(Here)
    /\ err' = NoError
    /\ UNCHANGED <<files, catalog, unsure, db, faults>>

(* The backend of the source is replaced; the program goes on with a clone *)
(* that is opened from the archive with the extensions `list'.             *)
Cloned(list) ==
    /\ db.at = "ready" /\ ~db.server
    /\ Opened("temporary", FALSE, list, {})
    /\ files' = [files EXCEPT !["temporary"] = NoFiles]
    /\ catalog' = [catalog EXCEPT !["temporary"] = catalog[Here]]
    /\ unsure' = [unsure EXCEPT !["temporary"] = {}]
    /\ seeded' = seeded \cup Present(Here)
    /\ err' = NoError
    /\ UNCHANGED faults

(* Mutant: the clone is opened like any archive.                           *)
TryClone_Unlisted == Cloned(<<>>)

(* try_clone names the bundled extensions of the source's catalogue.       *)
TryClone == Cloned(Resolved(catalog[Here]))

(* The client of a server disconnects; the server stops; an instance is    *)
(* closed.                                                                 *)
Disconnect ==
    /\ db.at = "ready" /\ db.server
    /\ db' = [db EXCEPT !.at = "listening"]
    /\ UNCHANGED <<files, catalog, unsure, seeded, err, faults>>

Close ==
    /\ db.at \in {"ready", "listening"}
    /\ db' = Closed /\ err' = NoError
    /\ TemporaryGone
    /\ UNCHANGED <<seeded, faults>>

(* A disk error or a failed round trip, in a step that writes or asks.     *)
Fault ==
    /\ faults < MaxFaults /\ db.at \in {"install", "unpacking", "start", "preload", "setup"}
    /\ faults' = faults + 1
    /\ Failing("fault")
    /\ UNCHANGED seeded

(* The process is killed.                                                  *)
ProcessDies ==
    /\ faults < MaxFaults /\ faults' = faults + 1
    /\ db' = Closed /\ seeded' = {} /\ err' = NoError
    /\ TemporaryGone

-----------------------------------------------------------------------------
(* Every variable has its type, and a step has an extension to work on.    *)
ExtensionsTypeOK ==
    /\ files \in [Roots -> [Exts -> {"none", "part", "whole"}]]
    /\ catalog \in [Roots -> SUBSET Created] /\ unsure \in [Roots -> SUBSET Exts]
    /\ seeded \subseteq Native \X {"part", "whole"}
    /\ db.at \in {"closed", "listening", "install", "unpacking", "start", "preload", "setup", "ready"}
    /\ db.at \in {"install", "unpacking", "preload", "setup"} => db.todo # <<>>
    /\ err \in [why : {"none", "fault", "module", "dependency", "block"},
               call : {"none", "open", "enable_extension"}]
    /\ faults \in 0 .. MaxFaults

(* In a session that is ready, PostgreSQL can open the library of every    *)
(* extension in its catalogue, whichever process created it, in whichever  *)
(* session and however often its files were replaced since.  Two cases are *)
(* left to the caller: an archive that is loaded without naming its        *)
(* extensions, and files that are replaced in place when a disk error or a *)
(* kill comes; in both, the next open that names the extension repairs it. *)
ExtensionUsable ==
    db.at = "ready" =>
        \A e \in (catalog[Here] \ unsure[Here]) \cap Native :
            files[Here][e] = "whole" /\ <<e, "whole">> \in seeded

(* Opening a database fails only by a fault: what an extension needs is    *)
(* there before it, whatever set was asked for.  enable_extension does not *)
(* look at dependencies, nor at the block that a direct dump leaves.       *)
OpenNeedsNothing ==
    /\ err.why # "module"
    /\ err.why \in {"dependency", "block"} => err.call = "enable_extension"
=============================================================================
