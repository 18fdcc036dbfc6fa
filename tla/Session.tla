------------------------------- MODULE Session -------------------------------
(***************************************************************************)
(* A database with extensions and its direct dumps.  A call borrows the    *)
(* instance, so that nothing else is done through it while pg_dump runs;   *)
(* but pg_dump uses the instance's own session, and what it leaves there   *)
(* is what the next call finds.                                            *)
(***************************************************************************)
EXTENDS Extensions, DirectDump

vars == <<extensionVars, dumpVars>>

Init == ExtensionsInit /\ DumpInit

(* A backend that starts has a session of its own.                         *)
FreshSession == block' = "idle" /\ UNCHANGED <<caller, runner, host, sent, asked>>

Open(set) ==
    \/ \E server \in BOOLEAN : OpenPath(server, set)
    \/ \E server, template \in BOOLEAN : OpenTemporary(server, set, template)
    \/ \E root \in Roots, extensions \in SUBSET Created : OpenArchive(root, set, extensions)

(* Steps that the dump does not see.                                       *)
Enabling ==
    \/ Connection \/ SkipPreinstalled \/ UnpackBegins \/ UnpackEnds \/ PreloadExtension
    \/ SetUp(block)

Program ==
    /\ caller = "idle"
    /\ \/ \E e \in Exts : EnableExtension(e)
       \/ \E e \in Exts : DropExtension(e, block)

Ends == caller = "idle" /\ (Disconnect \/ Close)

(* The CHECKPOINT before a physical dump fails in a failed block.          *)
Physical == caller = "idle" /\ block # "failed" /\ (DumpDataDir \/ TryClone)

DirectDumpSql ==
    /\ db.at = "ready" /\ ~db.server /\ DumpSql
    /\ err' = NoError /\ UNCHANGED <<files, catalog, unsure, seeded, db, faults>>

Dies == ProcessDies /\ NoDump /\ block' = "idle"

Next ==
    \/ \E set \in SUBSET Exts : Open(set) /\ UNCHANGED dumpVars
    \/ Enabling /\ UNCHANGED dumpVars
    \/ Program /\ UNCHANGED dumpVars
    \/ Fault /\ UNCHANGED dumpVars
    \/ StartBackend /\ FreshSession
    \/ Physical /\ FreshSession
    \/ Ends /\ FreshSession
    \/ DirectDumpSql
    \/ db.at = "ready" /\ Rollback /\ UNCHANGED extensionVars
    \/ RunnerStep /\ UNCHANGED extensionVars
    \/ CallerStep /\ UNCHANGED extensionVars
    \/ Dies

(* Both threads go on when they can; a runner that has to load a module    *)
(* may take longer than the timeout.                                       *)
Spec ==
    /\ Init /\ [][Next]_vars
    /\ WF_vars(RunnerStep /\ UNCHANGED extensionVars)
    /\ WF_vars(CallerStep /\ UNCHANGED extensionVars)

(* The state of both parts is well formed.                                 *)
TypeOK == ExtensionsTypeOK /\ DumpTypeOK
=============================================================================
