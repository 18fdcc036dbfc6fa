------------------------------ MODULE RootLock ------------------------------
(***************************************************************************)
(* The exclusive lock on a persistent database root (base.rs, RootLock).   *)
(*                                                                         *)
(* A root is guarded twice.  ROOT_LOCKED_PATHS is a per-process set of     *)
(* canonical root paths, because file locks do not exclude threads of one  *)
(* process on every platform; the lock file .pglite-oxide.lock under the   *)
(* root carries an operating-system file lock that excludes other          *)
(* processes.  `acquire' reserves the path, opens the file, tries the      *)
(* lock, and undoes the reservation when a later step fails; `drop'        *)
(* unlocks the file, gives the path back and finally closes the file.      *)
(*                                                                         *)
(* An opener is one call of PgliteBuilder::open or                         *)
(* PgliteServerBuilder::start and the handle it returns.  The mutex around *)
(* the path set makes each access to it one step; everything between two   *)
(* such accesses interleaves with other threads and processes, and a       *)
(* process may die between any two steps.                                  *)
(***************************************************************************)
CONSTANTS
    Openers,        \* open calls that may run concurrently
    Processes,      \* operating-system processes
    Roots,          \* canonical root directories
    ProcOf,         \* the process each opener runs in
    NoOpener        \* the lock file is not locked

ASSUME RootLockAssumption ==
    /\ ProcOf \in [Openers -> Processes]
    /\ NoOpener \notin Openers

VARIABLES
    pc,         \* where each opener is
    target,     \* the root each opener asked for
    lockedPaths,\* ROOT_LOCKED_PATHS of each process
    fileOpen,   \* openers that hold an open handle of their lock file
    fileLock    \* the opener whose handle owns the file lock of a root

lockVars == <<pc, target, lockedPaths, fileOpen, fileLock>>

-----------------------------------------------------------------------------
(* Control points of an opener.                                            *)
(*   idle      no RootLock                                                 *)
(*   reserved  path inserted in ROOT_LOCKED_PATHS, file not yet opened     *)
(*   opened    lock file open, try_lock not yet called                     *)
(*   failed    open or try_lock failed, reservation not yet released       *)
(*   held      acquire returned Ok: the root is being prepared             *)
(*   running   a Postgres backend runs on the root                         *)
(*   unlocked  drop has unlocked the file, path still reserved             *)
(*   released  the path was given back, file handle not yet closed         *)
Idle == "idle"
LockStages == {Idle, "reserved", "opened", "failed", "held", "running",
           "unlocked", "released"}

(* Stages in which an opener's path is in its process's set.               *)
Reserving == {"reserved", "opened", "failed", "held", "running", "unlocked"}

(* Stages in which an opener may touch the files of its root.              *)
Owning == {"held", "running"}

LockInit ==
    /\ pc = [o \in Openers |-> Idle]
    /\ target \in [Openers -> Roots]
    /\ lockedPaths = [p \in Processes |-> {}]
    /\ fileOpen = {}
    /\ fileLock = [r \in Roots |-> NoOpener]

MoveTo(o, stage) == pc' = [pc EXCEPT ![o] = stage]

(* locked.insert(canonical_root)                                           *)
Reserve(p, r) == lockedPaths' = [lockedPaths EXCEPT ![p] = @ \cup {r}]

(* release_root_lock_path                                                  *)
ReleasePath(p, r) == lockedPaths' = [lockedPaths EXCEPT ![p] = @ \ {r}]

-----------------------------------------------------------------------------
(* RootLock::acquire, up to the end of the mutex block: `insert' must      *)
(* report a new element, otherwise the call returns "already in use".      *)
AcquirePath(o) ==
    /\ pc[o] = Idle
    /\ \E r \in Roots :
        /\ r \notin lockedPaths[ProcOf[o]]
        /\ Reserve(ProcOf[o], r)
        /\ target' = [target EXCEPT ![o] = r]
    /\ MoveTo(o, "reserved")
    /\ UNCHANGED <<fileOpen, fileLock>>

(* open_root_lock_file.  Any open may fail; on Windows share_mode(0) makes *)
(* it fail whenever another handle of the file is open.                    *)
OpenLockFile(o) ==
    /\ pc[o] = "reserved"
    /\ \/ /\ fileOpen' = fileOpen \cup {o}
          /\ MoveTo(o, "opened")
       \/ /\ MoveTo(o, "failed")
          /\ UNCHANGED fileOpen
    /\ UNCHANGED <<target, lockedPaths, fileLock>>

(* Mutant: the error of try_lock is ignored.                               *)
TryLock_Ignored(o) ==
    /\ pc[o] = "opened"
    /\ fileLock' = [fileLock EXCEPT ![target[o]] = o]
    /\ MoveTo(o, "held")
    /\ UNCHANGED <<target, lockedPaths, fileOpen>>

(* file.try_lock(): takes the lock if nobody owns it, never waits.         *)
TryLock(o) ==
    /\ pc[o] = "opened"
    /\ \/ /\ fileLock[target[o]] = NoOpener
          /\ fileLock' = [fileLock EXCEPT ![target[o]] = o]
          /\ MoveTo(o, "held")
       \/ /\ MoveTo(o, "failed")      \* WouldBlock, or any I/O error
          /\ UNCHANGED fileLock
    /\ UNCHANGED <<target, lockedPaths, fileOpen>>

(* Mutant: an error return forgets release_root_lock_path.                 *)
AbandonAcquire_KeepsPath(o) ==
    /\ pc[o] = "failed"
    /\ MoveTo(o, "released")
    /\ UNCHANGED <<target, lockedPaths, fileOpen, fileLock>>

(* The two error returns of acquire call release_root_lock_path; the file  *)
(* handle, if there is one, closes as the local goes out of scope, which   *)
(* is the same step as at the end of drop.                                 *)
AbandonAcquire(o) ==
    /\ pc[o] = "failed"
    /\ ReleasePath(ProcOf[o], target[o])
    /\ MoveTo(o, "released")
    /\ UNCHANGED <<target, fileOpen, fileLock>>

(* prepare_root returned and the backend was opened on the locked root;    *)
(* the lock moves into the Pglite or PgliteServer handle.                  *)
OwnerStartsBackend(o) ==
    /\ pc[o] = "held"
    /\ MoveTo(o, "running")
    /\ UNCHANGED <<target, lockedPaths, fileOpen, fileLock>>

(* Mutant: drop forgets to unlock the file.                                *)
DropUnlock_Missing(o) ==
    /\ pc[o] \in Owning
    /\ MoveTo(o, "unlocked")
    /\ UNCHANGED <<target, lockedPaths, fileOpen, fileLock>>

(* RootLock::drop, first statement: unlock.  It runs once the handle has   *)
(* shut its backend down, or when preparation failed.                      *)
DropUnlock(o) ==
    /\ pc[o] \in Owning
    /\ fileLock' = [fileLock EXCEPT ![target[o]] = NoOpener]
    /\ MoveTo(o, "unlocked")
    /\ UNCHANGED <<target, lockedPaths, fileOpen>>

(* RootLock::drop, second statement: release_root_lock_path.               *)
DropRelease(o) ==
    /\ pc[o] = "unlocked"
    /\ ReleasePath(ProcOf[o], target[o])
    /\ MoveTo(o, "released")
    /\ UNCHANGED <<target, fileOpen, fileLock>>

(* The file handle goes out of scope and is closed.                        *)
CloseFile(o) ==
    /\ pc[o] = "released"
    /\ fileOpen' = fileOpen \ {o}
    /\ MoveTo(o, Idle)
    /\ UNCHANGED <<target, lockedPaths, fileLock>>

(* A process dies: its memory is gone, and the system closes its files,    *)
(* which releases the file locks they own.                                 *)
Crash(p) ==
    LET dead == {o \in Openers : ProcOf[o] = p} IN
    /\ \E o \in dead : pc[o] # Idle
    /\ pc' = [o \in Openers |-> IF o \in dead THEN Idle ELSE pc[o]]
    /\ lockedPaths' = [lockedPaths EXCEPT ![p] = {}]
    /\ fileOpen' = fileOpen \ dead
    /\ fileLock' = [r \in Roots |->
                     IF fileLock[r] \in dead THEN NoOpener ELSE fileLock[r]]
    /\ UNCHANGED target

OpenerStep(o) ==
    \/ AcquirePath(o) \/ OpenLockFile(o) \/ TryLock(o) \/ AbandonAcquire(o)
    \/ OwnerStartsBackend(o) \/ DropUnlock(o) \/ DropRelease(o) \/ CloseFile(o)

LockNext ==
    \/ \E o \in Openers : OpenerStep(o)
    \/ \E p \in Processes : Crash(p)

LockSpec == LockInit /\ [][LockNext]_lockVars

-----------------------------------------------------------------------------
LockTypeOK ==
    /\ pc \in [Openers -> LockStages]
    /\ target \in [Openers -> Roots]
    /\ lockedPaths \in [Processes -> SUBSET Roots]
    /\ fileOpen \in SUBSET Openers
    /\ fileLock \in [Roots -> Openers \cup {NoOpener}]

(* At most one opener prepares or runs a database on a root, whatever      *)
(* threads, processes, failures and deaths interleave: "A second direct or *)
(* server open against the same root fails" (docs/RUNTIME.md).             *)
MutualExclusion ==
    \A a, b \in Openers :
        a # b /\ pc[a] \in Owning /\ pc[b] \in Owning => target[a] # target[b]

Reservers(p, r) ==
    {o \in Openers : ProcOf[o] = p /\ target[o] = r /\ pc[o] \in Reserving}

(* A root is in a process's ROOT_LOCKED_PATHS exactly while one opener of  *)
(* that process is between `insert' and `release_root_lock_path': no       *)
(* failed or finished open leaves a root refused for the rest of the       *)
(* process's life, and none gives back a reservation it does not own.      *)
PathsAccountedFor ==
    \A p \in Processes, r \in Roots :
        /\ r \in lockedPaths[p] <=> Reservers(p, r) # {}
        /\ \A a, b \in Reservers(p, r) : a = b

(* The operating-system lock of a root is owned by a handle that is still  *)
(* open and whose opener owns the root: after every failure, drop or death *)
(* the next open can succeed.                                              *)
LockBacked ==
    \A r \in Roots :
        fileLock[r] # NoOpener =>
            /\ fileLock[r] \in fileOpen
            /\ pc[fileLock[r]] \in Owning
            /\ target[fileLock[r]] = r
=============================================================================
