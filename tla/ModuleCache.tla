----------------------------- MODULE ModuleCache -----------------------------
(***************************************************************************)
(* Ahead-of-time compiled modules: aot.rs, and the seeding of Wasmer's     *)
(* cache in postgres_mod.rs.                                               *)
(*                                                                         *)
(* The compiled modules are embedded, unpacked into a cache directory that *)
(* all processes of the user share, and mapped from there.  Three mutexes  *)
(* order the threads of one process; nothing orders the processes.  A      *)
(* receipt beside a file says that it was written completely; with         *)
(* PGLITE_OXIDE_AOT_VERIFY=full its hash is checked instead.  A file may   *)
(* be damaged on disk at any time.                                         *)
(***************************************************************************)
EXTENDS Naturals

CONSTANTS
    Threads, ProcessOf,
    NoThread,
    Full,         \* processes that verify hashes; the others trust receipts
    Artifacts,
    Seeders,      \* threads that load through seed_wasix_module_cache
    Loads,        \* bound: what each thread loads, once each
    MaxDamages    \* bound: damages to a file

ASSUME ModuleAssumption ==
    /\ NoThread \notin Threads \cup Artifacts
    /\ Seeders \subseteq Threads
    /\ Loads \in [Threads -> SUBSET Artifacts] /\ MaxDamages \in Nat

VARIABLES
    file,    \* per artifact: "none", "whole", "damaged", or "short" (a wrong size)
    receipt, \* per artifact: "none", "good", or "other" (not this build's)
    memory,  \* what the statics of a process hold
    load,    \* what each thread is doing
    damages

moduleVars == <<file, receipt, memory, load, damages>>

ProcessIds == {ProcessOf[t] : t \in Threads}

(* INSTALLED_ARTIFACTS, MODULE_CACHE, SEEDED_SIDE_MODULES, and who holds   *)
(* AOT_INSTALL_LOCK and the mutexes around the latter two.                 *)
Statics == [installed : SUBSET Artifacts, modules : SUBSET Artifacts,
            seeded : SUBSET Artifacts, installLock : Threads \cup {NoThread},
            moduleLock : Threads \cup {NoThread}, seedLock : Threads \cup {NoThread}]

NewStatics == [installed |-> {}, modules |-> {}, seeded |-> {},
               installLock |-> NoThread, moduleLock |-> NoThread, seedLock |-> NoThread]

ModuleInit ==
    /\ file \in [Artifacts -> {"none", "whole"}]
    /\ receipt \in [Artifacts -> {"none", "good", "other"}]
    /\ memory = [p \in ProcessIds |-> NewStatics]
    /\ load = [t \in Threads |-> [step |-> "idle", want |-> NoThread, again |-> FALSE,
                                  disturbed |-> {}, failed |-> NoThread, left |-> Loads[t]]]
    /\ damages = 0

Mine(t) == memory[ProcessOf[t]]
Want(t) == load[t].want
At(t, s) == load[t].step = s
Goto(t, s) == load' = [load EXCEPT ![t].step = s]
Keep(t, rest) == memory' = [memory EXCEPT ![ProcessOf[t]] = rest]

(* Guards are dropped in the order the calls return.                       *)
Free(lock, t) == IF lock = t THEN NoThread ELSE lock

(* Mutant: the module cache stays locked.                                  *)
Freed_NotModules(t, m) == [m EXCEPT !.installLock = Free(@, t), !.seedLock = Free(@, t)]

Freed(t, m) == [m EXCEPT !.installLock = Free(@, t), !.moduleLock = Free(@, t),
                         !.seedLock = Free(@, t)]

(* The artifacts that others have spoiled: removed, or damaged on disk,    *)
(* during the load; for a process that verifies hashes, in its whole life, *)
(* as it never verifies an artifact again.                                 *)
Spoiled(t) == IF ProcessOf[t] \in Full THEN load[t].disturbed ELSE {}

Idle(t) == [load[t] EXCEPT !.step = "idle", !.want = NoThread, !.again = FALSE,
                           !.disturbed = Spoiled(t), !.failed = NoThread]

Returns(t) == load' = [load EXCEPT ![t] = Idle(t)] /\ Keep(t, Freed(t, Mine(t)))

Fails(t) ==
    /\ load' = [load EXCEPT ![t] = [Idle(t) EXCEPT !.failed = Want(t),
                                                  !.disturbed = load[t].disturbed]]
    /\ Keep(t, Freed(t, Mine(t)))

(* load_artifact_module, called directly or by seed_wasix_module_cache.     *)
LoadArtifactModule(t, a) ==
    /\ At(t, "idle") /\ a \in load[t].left
    /\ load' = [load EXCEPT ![t] = [step |-> IF t \in Seeders THEN "seed" ELSE "check",
                                    want |-> a, again |-> FALSE, failed |-> NoThread,
                                    disturbed |-> Spoiled(t), left |-> @.left \ {a}]]
    /\ UNCHANGED <<file, receipt, memory, damages>>

(* seed_wasix_module_cache: the check and the load are under one lock.     *)
Seed(t) ==
    /\ At(t, "seed") /\ Mine(t).seedLock = NoThread
    /\ \/ Want(t) \in Mine(t).seeded /\ Returns(t)
       \/ /\ Want(t) \notin Mine(t).seeded
          /\ Keep(t, [Mine(t) EXCEPT !.seedLock = t]) /\ Goto(t, "check")
    /\ UNCHANGED <<file, receipt, damages>>

-----------------------------------------------------------------------------
(* install_artifact                                                        *)

InstalledArtifact(t) == Want(t) \in Mine(t).installed /\ file[Want(t)] # "none"

Check(t) ==
    /\ At(t, "check")
    /\ Goto(t, IF InstalledArtifact(t) THEN "modules" ELSE "install")
    /\ UNCHANGED <<file, receipt, memory, damages>>

TakeInstallLock(t) ==
    /\ At(t, "install") /\ Mine(t).installLock = NoThread
    /\ IF InstalledArtifact(t)
       THEN Goto(t, "modules") /\ UNCHANGED memory
       ELSE Goto(t, "exists") /\ Keep(t, [Mine(t) EXCEPT !.installLock = t])
    /\ UNCHANGED <<file, receipt, damages>>

(* cached_raw_artifact: first whether there is a file, then its contents.  *)
Exists(t) ==
    /\ At(t, "exists")
    /\ Goto(t, IF file[Want(t)] = "none" THEN "clear" ELSE "verify")
    /\ UNCHANGED <<file, receipt, memory, damages>>

(* cache_receipt_matches: a receipt of this build, a file of its size.     *)
CacheReceiptMatches(a) == file[a] \in {"whole", "damaged"} /\ receipt[a] = "good"

(* sha256_file_with_len                                                    *)
HashMatches(a) == file[a] = "whole"

(* aot_verify_mode                                                         *)
Verified(t) ==
    IF ProcessOf[t] \in Full THEN HashMatches(Want(t)) ELSE CacheReceiptMatches(Want(t))

(* remember_installed_artifact, and the install lock is dropped.           *)
Remember(t, s) ==
    /\ Keep(t, [Mine(t) EXCEPT !.installed = @ \cup {Want(t)}, !.installLock = NoThread])
    /\ Goto(t, s)

(* Hashing a file that another process has removed is an error; a receipt  *)
(* without its file just does not match.                                   *)
Verify(t) ==
    /\ At(t, "verify")
    /\ \/ Verified(t) /\ Remember(t, "modules")
       \/ /\ ~Verified(t) /\ (ProcessOf[t] \in Full => file[Want(t)] # "none")
          /\ Goto(t, "discard") /\ UNCHANGED memory
       \/ ProcessOf[t] \in Full /\ file[Want(t)] = "none" /\ Fails(t)
    /\ UNCHANGED <<file, receipt, damages>>

(* Who may find the file gone or damaged.                                  *)
Exposed(u, a) == ProcessOf[u] \in Full \/ (Want(u) = a /\ ~At(u, "idle"))

Disturb(t, s) ==
    load' = [u \in Threads |->
        IF u = t THEN [load[t] EXCEPT !.step = s]
        ELSE IF ProcessOf[u] # ProcessOf[t] /\ Exposed(u, Want(t)) /\ file[Want(t)] # "none"
        THEN [load[u] EXCEPT !.disturbed = @ \cup {Want(t)}] ELSE load[u]]

(* remove_cached_artifact, in its three places.                            *)
RemoveFile(t) ==
    /\ load[t].step \in {"discard", "clear", "drop"}
    /\ file' = [file EXCEPT ![Want(t)] = "none"]
    /\ Disturb(t, CASE At(t, "discard") -> "discardReceipt" [] At(t, "clear") -> "clearReceipt"
                    [] At(t, "drop") -> "dropReceipt")
    /\ UNCHANGED <<receipt, memory, damages>>

RemoveReceipt(t) ==
    /\ load[t].step \in {"discardReceipt", "clearReceipt", "dropReceipt"}
    /\ receipt' = [receipt EXCEPT ![Want(t)] = "none"]
    /\ Goto(t, CASE At(t, "discardReceipt") -> "clear" [] At(t, "clearReceipt") -> "promote"
                 [] At(t, "dropReceipt") -> "rebuild")
    /\ UNCHANGED <<file, memory, damages>>

(* artifact_raw_bytes: what is embedded unpacks to what the manifest says. *)
RawBytes == "whole"

(* materialize_artifact: a temporary file is renamed, so the name never    *)
(* stands for half a file.                                                 *)
Promote(t) ==
    /\ At(t, "promote")
    /\ file' = [file EXCEPT ![Want(t)] = RawBytes] /\ Goto(t, "receipt")
    /\ UNCHANGED <<receipt, memory, damages>>

WriteCacheReceipt(t) ==
    /\ At(t, "receipt")
    /\ receipt' = [receipt EXCEPT ![Want(t)] = "good"]
    /\ Remember(t, IF load[t].again THEN "reopen" ELSE "modules")
    /\ UNCHANGED <<file, damages>>

(* The disk is full, or not writable.                                      *)
WriteFails(t) ==
    /\ load[t].step \in {"promote", "receipt"}
    /\ Returns(t)
    /\ UNCHANGED <<file, receipt, damages>>

-----------------------------------------------------------------------------
(* load_artifact_module, under the lock of the module cache.               *)

(* The module is in memory; a seeding call has saved it for Wasmer too.     *)
Has(t) ==
    /\ load' = [load EXCEPT ![t] = Idle(t)]
    /\ Keep(t, [Freed(t, Mine(t)) EXCEPT
                !.modules = @ \cup {Want(t)},
                !.seeded = IF Mine(t).seedLock = t THEN @ \cup {Want(t)} ELSE @])

TakeModuleLock(t) ==
    /\ At(t, "modules") /\ Mine(t).moduleLock = NoThread
    /\ \/ Want(t) \in Mine(t).modules /\ Has(t)
       \/ /\ Want(t) \notin Mine(t).modules
          /\ Keep(t, [Mine(t) EXCEPT !.moduleLock = t]) /\ Goto(t, "open")
    /\ UNCHANGED <<file, receipt, damages>>

(* deserialize_headless                                                    *)
Opens(t) == file[Want(t)] = "whole" /\ Has(t)

(* Mutant: one thread's failure is the failure of all.                     *)
Deserialize_NoRebuild(t) ==
    /\ At(t, "open")
    /\ Opens(t) \/ (file[Want(t)] # "whole" /\ Fails(t))
    /\ UNCHANGED <<file, receipt, damages>>

(* In fast mode a bad file is forgotten, removed and unpacked again.       *)
Deserialize(t) ==
    /\ At(t, "open")
    /\ \/ Opens(t)
       \/ file[Want(t)] # "whole" /\ ProcessOf[t] \in Full /\ Fails(t)
       \/ /\ file[Want(t)] # "whole" /\ ProcessOf[t] \notin Full
          /\ Keep(t, [Mine(t) EXCEPT !.installed = @ \ {Want(t)}])
          /\ load' = [load EXCEPT ![t].step = "drop", ![t].again = TRUE]
    /\ UNCHANGED <<file, receipt, damages>>

(* rebuild_artifact                                                        *)
Rebuild(t) ==
    /\ At(t, "rebuild") /\ Mine(t).installLock = NoThread
    /\ Keep(t, [Mine(t) EXCEPT !.installLock = t, !.installed = @ \ {Want(t)}])
    /\ Goto(t, "clear")
    /\ UNCHANGED <<file, receipt, damages>>

Reopen(t) ==
    /\ At(t, "reopen")
    /\ Opens(t) \/ (file[Want(t)] # "whole" /\ Fails(t))
    /\ UNCHANGED <<file, receipt, damages>>

-----------------------------------------------------------------------------
(* Faults: the disk damages a file; a process is killed and started again. *)

Damage(a) ==
    /\ damages < MaxDamages /\ file[a] = "whole"
    /\ \E c \in {"short", "damaged"} : file' = [file EXCEPT ![a] = c]
    /\ damages' = damages + 1
    /\ load' = [t \in Threads |-> IF Exposed(t, a)
                                  THEN [load[t] EXCEPT !.disturbed = @ \cup {a}] ELSE load[t]]
    /\ UNCHANGED <<receipt, memory>>

ModulesDie(p) ==
    /\ memory' = [memory EXCEPT ![p] = NewStatics]
    /\ load' = [t \in Threads |->
        IF ProcessOf[t] = p THEN [Idle(t) EXCEPT !.disturbed = {}] ELSE load[t]]
    /\ UNCHANGED <<file, receipt, damages>>

ModuleStep(t) ==
    \/ Seed(t) \/ Check(t) \/ TakeInstallLock(t) \/ Exists(t) \/ Verify(t)
    \/ RemoveFile(t) \/ RemoveReceipt(t) \/ Promote(t) \/ WriteCacheReceipt(t)
    \/ TakeModuleLock(t) \/ Deserialize(t) \/ Rebuild(t) \/ Reopen(t)

-----------------------------------------------------------------------------
(* The steps of install_artifact and rebuild_artifact under the install    *)
(* lock, and those of load_artifact_module under the lock of the modules.  *)
Installing == {"exists", "verify", "discard", "discardReceipt",
               "clear", "clearReceipt", "promote", "receipt"}
Opening == {"open", "drop", "dropReceipt", "rebuild", "reopen"}

LoadStates ==
    [step : Installing \cup Opening \cup {"idle", "seed", "check", "install", "modules"},
     want : Artifacts \cup {NoThread}, again : BOOLEAN, disturbed : SUBSET Artifacts,
     failed : Artifacts \cup {NoThread}, left : SUBSET Artifacts]

ModuleTypes ==
    /\ file \in [Artifacts -> {"none", "whole", "damaged", "short"}]
    /\ receipt \in [Artifacts -> {"none", "good", "other"}]
    /\ memory \in [ProcessIds -> Statics]
    /\ load \in [Threads -> LoadStates]
    /\ damages \in 0 .. MaxDamages

MutexesHeld ==
    /\ \A t \in Threads :
        /\ ~At(t, "idle") => Want(t) \in Artifacts
        /\ load[t].step \in Installing => Mine(t).installLock = t
        /\ load[t].step \in Opening \/ load[t].again => Mine(t).moduleLock = t
    /\ \A p \in ProcessIds : \A t \in Threads :
        t \in {memory[p].installLock, memory[p].moduleLock, memory[p].seedLock}
            => ProcessOf[t] = p

(* Every variable has its type, and a mutex is held by a thread of its     *)
(* process wherever the code relies on it.                                 *)
ModuleTypeOK == ModuleTypes /\ MutexesHeld

(* A module fails to load only if, during that very load, another process  *)
(* removed the file or the disk damaged it; in a process that verifies     *)
(* hashes, if that happened since the process started.  Whatever state the *)
(* cache directory was left in is repaired, and the threads of a process   *)
(* never make each other fail.                                             *)
FailureHasCause ==
    \A t \in Threads : load[t].failed # NoThread => load[t].failed \in load[t].disturbed
=============================================================================
