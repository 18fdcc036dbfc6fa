----------------------------- MODULE RootProofs -----------------------------
(***************************************************************************)
(* What is proved of a root: of its lock, for every number of processes,   *)
(* openers and roots, and of what the opener that has the lock does to the *)
(* root's files.                                                           *)
(***************************************************************************)
EXTENDS RootLock, RootPrepare, TLAPS

(***************************************************************************)
(* The root lock excludes.                                                 *)
(***************************************************************************)
(* MutualExclusion alone is not inductive: a step of TryLock needs to know *)
(* that an owner's root is locked, and a step of DropUnlock that the lock  *)
(* it clears is its own.                                                   *)
OwnersHoldLock ==
    \A o \in Openers :
        pc[o] \in Owning => fileLock[target[o]] = o /\ o \in fileOpen

HandlesOpen ==
    \A o \in Openers : pc[o] = "opened" => o \in fileOpen

LockInv ==
    /\ LockTypeOK
    /\ OwnersHoldLock
    /\ HandlesOpen
    /\ LockBacked
    /\ PathsAccountedFor

(* Every variable keeps its type along every behaviour of the lock.        *)
LEMMA LockTypeStep == LockTypeOK /\ [LockNext]_lockVars => LockTypeOK'
<1> SUFFICES ASSUME LockTypeOK, [LockNext]_lockVars PROVE LockTypeOK'
  OBVIOUS
<1> USE RootLockAssumption DEF LockTypeOK, LockStages, Idle, MoveTo
<1>1. ASSUME NEW o \in Openers, AcquirePath(o) PROVE LockTypeOK'
  BY <1>1 DEF AcquirePath, Reserve
<1>2. ASSUME NEW o \in Openers, OpenLockFile(o) PROVE LockTypeOK'
  BY <1>2 DEF OpenLockFile
<1>3. ASSUME NEW o \in Openers, TryLock(o) PROVE LockTypeOK'
  BY <1>3 DEF TryLock
<1>4. ASSUME NEW o \in Openers, AbandonAcquire(o) PROVE LockTypeOK'
  BY <1>4 DEF AbandonAcquire, ReleasePath
<1>5. ASSUME NEW o \in Openers, OwnerStartsBackend(o) PROVE LockTypeOK'
  BY <1>5 DEF OwnerStartsBackend
<1>6. ASSUME NEW o \in Openers, DropUnlock(o) PROVE LockTypeOK'
  BY <1>6 DEF DropUnlock
<1>7. ASSUME NEW o \in Openers, DropRelease(o) PROVE LockTypeOK'
  BY <1>7 DEF DropRelease, ReleasePath
<1>8. ASSUME NEW o \in Openers, CloseFile(o) PROVE LockTypeOK'
  BY <1>8 DEF CloseFile
<1>9. ASSUME NEW p \in Processes, Crash(p) PROVE LockTypeOK'
  BY <1>9 DEF Crash
<1>10. CASE UNCHANGED lockVars
  BY <1>10 DEF lockVars
<1> QED
  BY <1>1, <1>2, <1>3, <1>4, <1>5, <1>6, <1>7, <1>8, <1>9, <1>10
     DEF LockNext, OpenerStep

(* The initial states satisfy the inductive invariant.                     *)
LEMMA InitInv == LockInit => LockInv
  BY RootLockAssumption
     DEF LockInit, LockInv, LockTypeOK, LockStages, Idle, OwnersHoldLock, HandlesOpen,
         LockBacked, PathsAccountedFor, Reservers, Reserving, Owning

(* The file-lock half: who owns the lock of a root, and that its handle is *)
(* open.                                                                   *)
LEMMA LockStep ==
    LockTypeOK /\ OwnersHoldLock /\ HandlesOpen /\ LockBacked /\ [LockNext]_lockVars
      => OwnersHoldLock' /\ HandlesOpen' /\ LockBacked'
<1> SUFFICES ASSUME LockTypeOK, OwnersHoldLock, HandlesOpen, LockBacked, [LockNext]_lockVars
             PROVE  OwnersHoldLock' /\ HandlesOpen' /\ LockBacked'
  OBVIOUS
<1> USE RootLockAssumption
    DEF LockTypeOK, OwnersHoldLock, HandlesOpen, LockBacked, Owning, LockStages, Idle, MoveTo
<1>1. ASSUME NEW o \in Openers, AcquirePath(o)
      PROVE  OwnersHoldLock' /\ HandlesOpen' /\ LockBacked'
  BY <1>1 DEF AcquirePath, Reserve
<1>2. ASSUME NEW o \in Openers, OpenLockFile(o)
      PROVE  OwnersHoldLock' /\ HandlesOpen' /\ LockBacked'
  BY <1>2 DEF OpenLockFile
<1>3. ASSUME NEW o \in Openers, TryLock(o)
      PROVE  OwnersHoldLock' /\ HandlesOpen' /\ LockBacked'
  BY <1>3 DEF TryLock
<1>4. ASSUME NEW o \in Openers, AbandonAcquire(o)
      PROVE  OwnersHoldLock' /\ HandlesOpen' /\ LockBacked'
  BY <1>4 DEF AbandonAcquire, ReleasePath
<1>5. ASSUME NEW o \in Openers, OwnerStartsBackend(o)
      PROVE  OwnersHoldLock' /\ HandlesOpen' /\ LockBacked'
  BY <1>5 DEF OwnerStartsBackend
<1>6. ASSUME NEW o \in Openers, DropUnlock(o)
      PROVE  OwnersHoldLock' /\ HandlesOpen' /\ LockBacked'
  BY <1>6 DEF DropUnlock
<1>7. ASSUME NEW o \in Openers, DropRelease(o)
      PROVE  OwnersHoldLock' /\ HandlesOpen' /\ LockBacked'
  BY <1>7 DEF DropRelease, ReleasePath
<1>8. ASSUME NEW o \in Openers, CloseFile(o)
      PROVE  OwnersHoldLock' /\ HandlesOpen' /\ LockBacked'
  BY <1>8 DEF CloseFile
<1>9. ASSUME NEW p \in Processes, Crash(p)
      PROVE  OwnersHoldLock' /\ HandlesOpen' /\ LockBacked'
  BY <1>9 DEF Crash
<1>10. CASE UNCHANGED lockVars
  BY <1>10 DEF lockVars
<1> QED
  BY <1>1, <1>2, <1>3, <1>4, <1>5, <1>6, <1>7, <1>8, <1>9, <1>10
     DEF LockNext, OpenerStep

(* The in-process half: ROOT_LOCKED_PATHS holds the roots of the openers   *)
(* that reserved them, one opener each.                                    *)
LEMMA PathsStep == LockTypeOK /\ PathsAccountedFor /\ [LockNext]_lockVars => PathsAccountedFor'
<1> SUFFICES ASSUME LockTypeOK, PathsAccountedFor, [LockNext]_lockVars
             PROVE  PathsAccountedFor'
  OBVIOUS
<1> USE RootLockAssumption
    DEF LockTypeOK, PathsAccountedFor, Reservers, Reserving, Owning, LockStages, Idle, MoveTo
<1>1. ASSUME NEW o \in Openers, AcquirePath(o) PROVE PathsAccountedFor'
  BY <1>1 DEF AcquirePath, Reserve
<1>2. ASSUME NEW o \in Openers, OpenLockFile(o) PROVE PathsAccountedFor'
  BY <1>2 DEF OpenLockFile
<1>3. ASSUME NEW o \in Openers, TryLock(o) PROVE PathsAccountedFor'
  BY <1>3 DEF TryLock
<1>4. ASSUME NEW o \in Openers, AbandonAcquire(o) PROVE PathsAccountedFor'
  BY <1>4 DEF AbandonAcquire, ReleasePath
<1>5. ASSUME NEW o \in Openers, OwnerStartsBackend(o) PROVE PathsAccountedFor'
  BY <1>5 DEF OwnerStartsBackend
<1>6. ASSUME NEW o \in Openers, DropUnlock(o) PROVE PathsAccountedFor'
  BY <1>6 DEF DropUnlock
<1>7. ASSUME NEW o \in Openers, DropRelease(o) PROVE PathsAccountedFor'
  BY <1>7 DEF DropRelease, ReleasePath
<1>8. ASSUME NEW o \in Openers, CloseFile(o) PROVE PathsAccountedFor'
  BY <1>8 DEF CloseFile
<1>9. ASSUME NEW p \in Processes, Crash(p) PROVE PathsAccountedFor'
  BY <1>9 DEF Crash
<1>10. CASE UNCHANGED lockVars
  BY <1>10 DEF lockVars
<1> QED
  BY <1>1, <1>2, <1>3, <1>4, <1>5, <1>6, <1>7, <1>8, <1>9, <1>10
     DEF LockNext, OpenerStep

(* The inductive invariant holds in every reachable state.                 *)
THEOREM LockInvariance == LockSpec => []LockInv
<1>1. LockInv /\ [LockNext]_lockVars => LockInv'
  BY LockTypeStep, LockStep, PathsStep DEF LockInv
<1> QED
  BY InitInv, <1>1, PTL DEF LockSpec

(* Type correctness of the root lock.                                      *)
THEOREM LockTypeCorrect == LockSpec => []LockTypeOK
<1>1. LockInv => LockTypeOK
  BY DEF LockInv
<1> QED
  BY LockInvariance, <1>1, PTL

(* Two openers never own one root, whatever processes they run in and      *)
(* whatever fails: the file lock of an owned root belongs to its owner.    *)
THEOREM Exclusion == LockSpec => []MutualExclusion
<1>1. LockInv => MutualExclusion
  BY DEF LockInv, OwnersHoldLock, MutualExclusion
<1> QED
  BY LockInvariance, <1>1, PTL

(* No reservation of ROOT_LOCKED_PATHS is leaked, shared or stolen.        *)
THEOREM NoLeakedReservation == LockSpec => []PathsAccountedFor
<1>1. LockInv => PathsAccountedFor
  BY DEF LockInv
<1> QED
  BY LockInvariance, <1>1, PTL

(* No operating-system lock outlives its owner.                            *)
THEOREM NoOrphanLock == LockSpec => []LockBacked
<1>1. LockInv => LockBacked
  BY DEF LockInv
<1> QED
  BY LockInvariance, <1>1, PTL

(***************************************************************************)
(* Preparing a root: first, that it never destroys a cluster that was in   *)
(* use, whatever the sources, builds and interruptions; then, for those    *)
(* interruptions that are recovered from, that a backend starts on a whole *)
(* cluster and on the user's.                                              *)
(*                                                                         *)
(* A cluster is removed when its markers are missing, so the invariant has *)
(* to say that the cluster last served keeps its markers unless an archive *)
(* is replacing it, and that a removal that is under way is of a directory *)
(* without markers.                                                        *)
(***************************************************************************)
(* The cluster last served is recognised as complete.                      *)
ServedComplete == id # 0 /\ id = owed /\ incoming = 0 => Complete

(* What each stage knows about the directory.                              *)
StageKnows ==
    /\ stage \in {"clean", "ready", "serving"} => Complete
    /\ stage = "remove" /\ source # "DataDirArchive" => ~Complete
    /\ stage \in {"remove", "unpack"} /\ source = "DataDirArchive" => incoming # 0
    /\ stage = "unpack" => source = "DataDirArchive"
    /\ stage = "pgdata" => source # "DataDirArchive"
    /\ stage = "manifestWrite" => "manifest" \in files

Bookkeeping ==
    /\ id \in 0 .. 4 /\ owed \in 0 .. 4 /\ incoming \in 0 .. 4
    /\ "postmaster" \notin need

ServedInv == ServedComplete /\ StageKnows /\ Bookkeeping

-----------------------------------------------------------------------------
(* There is always an unused name for a new cluster.                       *)
LEMMA FreshIsNew ==
    ASSUME Bookkeeping
    PROVE  Fresh \in 1 .. 4 /\ Fresh # id /\ Fresh # owed /\ Fresh # incoming
<1>1. \E i \in Ids : i \notin {id, owed, incoming}
    <2>1. \/ 1 \notin {id, owed, incoming} \/ 2 \notin {id, owed, incoming}
          \/ 3 \notin {id, owed, incoming} \/ 4 \notin {id, owed, incoming}
        OBVIOUS
    <2> QED
        BY <2>1 DEF Ids
<1>2. Fresh \in Ids /\ Fresh \notin {id, owed, incoming}
    BY <1>1 DEF Fresh
<1> QED
    BY <1>2 DEF Ids

(* An empty root.                                                          *)
LEMMA InitServed == Init => ServedInv
    BY DEF Init, ServedInv, ServedComplete, StageKnows, Bookkeeping

(* Adding files to a directory keeps it complete.                          *)
LEMMA CompleteGrows ==
    ASSUME files \subseteq files', Complete
    PROVE  Complete'
    BY DEF Complete

(* Each step of an opener, and each interruption, keeps the invariant.     *)
LEMMA ServedStep == ServedInv /\ [Next]_vars => ServedInv'
<1> SUFFICES ASSUME ServedInv, [Next]_vars PROVE ServedInv'
    OBVIOUS
<1> USE DEF ServedInv, Bookkeeping, Goto, Gone, disk, opener, cluster, user
<1>1. ASSUME Open \/ PrepareRuntimeLayout \/ PreparePgdata \/ Interrupt PROVE ServedInv'
    <2>1. UNCHANGED <<dir, files, manifest, id, over, need, owed, incoming>>
        BY <1>1 DEF Open, PrepareRuntimeLayout, PreparePgdata, Interrupt
    <2>2. ServedComplete'
        BY <2>1 DEF ServedComplete, Complete
    <2>3. StageKnows'
        BY <1>1, <2>1
        DEF StageKnows, Complete, Open, PrepareRuntimeLayout, PreparePgdata, Interrupt, Maker
    <2> QED
        BY <2>1, <2>2, <2>3
<1>2. CASE WriteRuntimeLayout
    <2>1. Fresh \in 1 .. 4 /\ Fresh # id /\ Fresh # owed
        BY FreshIsNew
    <2>2. ServedComplete' /\ Bookkeeping'
        BY <1>2, <2>1 DEF ServedComplete, Complete, WriteRuntimeLayout
    <2>3. StageKnows'
        BY <1>2, <2>1 DEF StageKnows, Complete, WriteRuntimeLayout, Maker
    <2> QED
        BY <2>2, <2>3
<1>3. CASE RemoveDirAll
    <2>1. /\ files' \subseteq files
          /\ UNCHANGED <<id, over, need, owed, incoming, source>>
          /\ stage = "remove"
          /\ stage' \in {"remove", Maker}
        BY <1>3 DEF RemoveDirAll
    <2>2. ~Complete => ~Complete'
        BY <2>1 DEF Complete
    <2>3. ServedComplete'
        BY <2>1, <2>2 DEF ServedComplete, StageKnows
    <2>4. StageKnows'
        BY <2>1, <2>2 DEF StageKnows, Maker
    <2> QED
        BY <2>1, <2>3, <2>4
<1>4. CASE CreateOverlay
    <2>1. Fresh \in 1 .. 4 /\ Fresh # owed
        BY FreshIsNew
    <2>2. files \subseteq files' /\ UNCHANGED user /\ stage' = "manifest"
        BY <1>4 DEF CreateOverlay
    <2>3. ServedComplete'
        <3>1. CASE UNCHANGED cluster
            BY <2>2, <3>1, CompleteGrows DEF ServedComplete
        <3>2. CASE id' = Fresh
            BY <2>1, <2>2, <3>2 DEF ServedComplete
        <3> QED
            BY <1>4, <3>1, <3>2 DEF CreateOverlay
    <2>4. StageKnows' /\ Bookkeeping'
        BY <1>4, <2>1, <2>2 DEF StageKnows, CreateOverlay
    <2> QED
        BY <2>3, <2>4
<1>5. ASSUME TruncateManifest \/ WriteManifest PROVE ServedInv'
    <2>1. files \subseteq files' /\ UNCHANGED <<cluster, user>>
        BY <1>5 DEF TruncateManifest, WriteManifest
    <2>2. ServedComplete'
        BY <2>1, CompleteGrows DEF ServedComplete
    <2>3. StageKnows'
        BY <1>5 DEF StageKnows, Complete, TruncateManifest, WriteManifest
    <2> QED
        BY <2>1, <2>2, <2>3
<1>6. CASE WritePiece
    <2>1. Fresh \in 1 .. 4 /\ Fresh # owed
        BY FreshIsNew
    <2>2. files \subseteq files' /\ UNCHANGED <<opener, user>> /\ stage \in {"initdb", "unpack"}
        BY <1>6 DEF WritePiece, Creating
    <2>3. \/ UNCHANGED cluster
          \/ /\ id' = Fresh \/ (stage = "unpack" /\ id' = incoming)
             /\ need' = Plain
        BY <1>6 DEF WritePiece
    <2>4. id' \in 0 .. 4 /\ "postmaster" \notin need'
        BY <2>1, <2>3 DEF Plain, Markers
    <2>5. ServedComplete'
        <3>1. CASE UNCHANGED cluster
            BY <2>2, <3>1, CompleteGrows DEF ServedComplete
        <3>2. CASE id' = Fresh \/ stage = "unpack"
            BY <2>1, <2>2, <3>2 DEF ServedComplete, StageKnows
        <3> QED
            BY <2>3, <3>1, <3>2
    <2>6. StageKnows'
        BY <2>2 DEF StageKnows
    <2> QED
        BY <2>2, <2>4, <2>5, <2>6
<1>7. CASE Created
    <2>1. Complete /\ UNCHANGED <<disk, cluster>> /\ stage' = "clean"
        BY <1>7 DEF Created, Plain, Complete
    <2>2. Complete'
        BY <2>1 DEF Complete
    <2>3. Bookkeeping'
        BY <1>7, <2>1 DEF Created
    <2> QED
        BY <2>1, <2>2, <2>3 DEF ServedComplete, StageKnows
<1>8. ASSUME RemoveRuntimeState \/ Close PROVE ServedInv'
    <2>1. /\ files \ {"postmaster"} \subseteq files' /\ files' \subseteq files
          /\ UNCHANGED <<cluster, user>>
          /\ stage' \in {"ready", "idle"}
          /\ stage \in {"clean", "serving"}
        BY <1>8 DEF RemoveRuntimeState, Close
    <2>2. Complete'
        BY <2>1 DEF StageKnows, Complete, Markers
    <2> QED
        BY <2>1, <2>2 DEF ServedComplete, StageKnows
<1>9. ASSUME StartBackend \/ Commit PROVE ServedInv'
    <2>1. files \subseteq files' /\ UNCHANGED <<id, incoming>> /\ stage' = "serving" /\ Complete
        BY <1>9 DEF StartBackend, Commit, StageKnows
    <2>2. Complete'
        BY <2>1, CompleteGrows
    <2>3. Bookkeeping'
        <3>1. "postmaster" \notin need' /\ owed' \in {owed, id}
            BY <1>9 DEF StartBackend, Commit
        <3> QED
            BY <2>1, <3>1
    <2> QED
        BY <2>1, <2>2, <2>3 DEF ServedComplete, StageKnows
<1>10. CASE UNCHANGED vars
    BY <1>10 DEF vars, ServedComplete, StageKnows, Complete
<1> QED
    BY <1>1, <1>2, <1>3, <1>4, <1>5, <1>6, <1>7, <1>8, <1>9, <1>10 DEF Next, Prepare

(* A step that deletes a file of the cluster last served happens only      *)
(* while an archive is replacing it.                                       *)
LEMMA DiscardStep ==
    ASSUME ServedInv, Next, id # 0, id = owed,
           NEW f \in need, f \in files, f \notin files'
    PROVE  incoming # 0
<1> USE DEF ServedInv, opener, disk
<1>1. f # "postmaster"
    BY DEF Bookkeeping
<1>2. CASE RemoveDirAll
    <2>1. stage = "remove"
        BY <1>2 DEF RemoveDirAll
    <2> QED
        BY <2>1 DEF ServedComplete, StageKnows
<1>3. ASSUME ~RemoveDirAll PROVE files \ {"postmaster"} \subseteq files'
    BY <1>3 DEF Next, Prepare, Open, PrepareRuntimeLayout, WriteRuntimeLayout, PreparePgdata,
        CreateOverlay, TruncateManifest, WriteManifest, WritePiece, Created,
        RemoveRuntimeState, StartBackend, Commit, Close, Interrupt
<1> QED
    BY <1>1, <1>2, <1>3

(* For any sources, builds and interruptions: recovering a root deletes no *)
(* file of the cluster that was last served, unless an archive was to      *)
(* replace it.                                                             *)
THEOREM ServedSurvives == Spec => NeverDiscardsServed
<1> DEFINE Safe == (id # 0 /\ id = owed /\ \E f \in need : f \in files \ files') => incoming # 0
<1>1. ServedInv /\ [Next]_vars => [Safe]_vars
    BY DiscardStep
<1>2. Spec => []ServedInv
    BY InitServed, ServedStep, PTL DEF Spec
<1> QED
    BY <1>1, <1>2, PTL DEF Spec, NeverDiscardsServed

-----------------------------------------------------------------------------
(* Type correctness.  A manifest is written into a directory that is there *)
(* and by a build that has a template to name.                             *)
Templated ==
    /\ stage \in {"overlay", "manifest", "manifestWrite"} => build # NoTemplate
    /\ stage = "manifest" => dir

LEMMA TypeStep == TypeOK /\ Templated /\ ServedInv /\ [Next]_vars => (TypeOK /\ Templated)'
<1> SUFFICES ASSUME TypeOK, Templated, ServedInv, [Next]_vars PROVE (TypeOK /\ Templated)'
    OBVIOUS
<1> USE RootPrepareAssumption DEF TypeOK, Templated, Stages, Goto, Gone, disk, opener, cluster, user
<1>1. Fresh \in Ids
    BY FreshIsNew DEF ServedInv, Ids
<1>2. CASE Open
    BY <1>2 DEF Open
<1>3. CASE PrepareRuntimeLayout
    BY <1>3 DEF PrepareRuntimeLayout
<1>4. CASE WriteRuntimeLayout
    BY <1>1, <1>4 DEF WriteRuntimeLayout, Maker
<1>5. CASE PreparePgdata
    BY <1>5 DEF PreparePgdata, Maker
<1>6. CASE RemoveDirAll
    <2>1. ASSUME NEW f \in files, files' = files \ {f},
                 manifest' = IF f = "manifest" THEN NoTemplate ELSE manifest,
                 UNCHANGED <<dir, opener>>
          PROVE  (TypeOK /\ Templated)'
        <3>1. /\ manifest' \in Templates \cup {NoTemplate, Torn}
              /\ "manifest" \in files' <=> manifest' # NoTemplate
              /\ files' \subseteq Pieces
            BY <2>1
        <3>2. dir' \in BOOLEAN /\ (files' # {} => dir')
            BY <2>1
        <3> QED BY <1>6, <2>1, <3>1, <3>2 DEF RemoveDirAll
    <2>2. ASSUME files = {}, dir' = FALSE, Goto(Maker), UNCHANGED <<files, manifest>>
          PROVE  (TypeOK /\ Templated)'
        <3>1. /\ stage' \in {"unpack", "overlay", "initdb"}
              /\ stage' = "overlay" => build' # NoTemplate
            BY <2>2 DEF Maker
        <3>2. dir' \in BOOLEAN /\ (files' # {} => dir')
            BY <2>2
        <3> HIDE DEF Templated
        <3>3. TypeOK'
            BY <1>6, <2>2, <3>1, <3>2 DEF RemoveDirAll
        <3>4. Templated'
            BY <3>1 DEF Templated
        <3> QED BY <3>3, <3>4
    <2> QED BY <1>6, <2>1, <2>2 DEF RemoveDirAll
<1>7. CASE CreateOverlay
    BY <1>1, <1>7 DEF CreateOverlay, Pieces, Plain, Markers
<1>8. CASE TruncateManifest
    <2>1. files' \subseteq Pieces /\ "manifest" \in files'
        BY <1>8 DEF TruncateManifest, Pieces
    <2> QED
        BY <1>8, <2>1 DEF TruncateManifest
<1>9. CASE WriteManifest
    BY <1>9 DEF WriteManifest, ServedInv, StageKnows
<1>10. CASE WritePiece
    <2>1. \A k \in 1 .. 3 : Order[k] \in Pieces \ {"manifest"}
        BY DEF Order, Pieces, Plain, Markers
    <2>2. files' \subseteq Pieces /\ ("manifest" \in files' <=> "manifest" \in files) /\ dir' = TRUE
        BY <1>10, <2>1 DEF WritePiece
    <2>3. /\ id' \in Ids \cup {0} /\ over' \in Templates \cup {NoTemplate} /\ need' \subseteq Pieces
        BY <1>1, <1>10 DEF WritePiece, Pieces
    <2>4. UNCHANGED <<layout, manifest, opener, user>> /\ stage # "manifest"
        BY <1>10 DEF WritePiece, Creating
    <2> QED
        BY <2>2, <2>3, <2>4
<1>11. CASE Created
    BY <1>11 DEF Created
<1>12. CASE RemoveRuntimeState \/ Close
    BY <1>12 DEF RemoveRuntimeState, Close
<1>13. CASE StartBackend \/ Commit
    <2>1. files # {}
        BY <1>13 DEF StartBackend, Commit, ServedInv, StageKnows, Complete, Markers
    <2>2. /\ files' \subseteq Pieces /\ ("manifest" \in files' <=> "manifest" \in files)
          /\ need' \subseteq Pieces
        BY <1>13 DEF StartBackend, Commit, Pieces, Plain, Markers
    <2> QED
        BY <1>13, <2>1, <2>2 DEF StartBackend, Commit
<1>14. CASE Interrupt
    BY <1>14 DEF Interrupt
<1>15. CASE UNCHANGED vars
    BY <1>15 DEF vars
<1> QED
    BY <1>2, <1>3, <1>4, <1>5, <1>6, <1>7, <1>8, <1>9, <1>10, <1>11, <1>12, <1>13, <1>14, <1>15
    DEF Next, Prepare

LEMMA TypeInit == Init => TypeOK /\ Templated
    BY RootPrepareAssumption DEF Init, TypeOK, Templated, Stages, Ids

(* Type correctness; with it, the overlay manifest has content exactly     *)
(* when the file is there.                                                 *)
THEOREM PrepareTypeCorrect == Spec => []TypeOK
    BY TypeInit, TypeStep, InitServed, ServedStep, PTL DEF Spec

-----------------------------------------------------------------------------
(* The user's data.  Loads of an archive are not interrupted while they    *)
(* replace the cluster.                                                    *)
LoadsFinish ==
    \A w \in InterruptIn : w[1] = "DataDirArchive" => w[2] \notin {"remove", "unpack"}

(* Then an archive is incoming only during the load, and outside of it the *)
(* directory's cluster is the one the user is owed.  A new cluster is made *)
(* only in an empty directory, which the user's never is.                  *)
Owing ==
    /\ incoming # 0 => stage \in {"remove", "unpack"} /\ source = "DataDirArchive"
    /\ owed # 0 /\ incoming = 0 => id = owed
    /\ stage = "serving" => owed # 0

Making ==
    /\ stage = "overlay" => files = {} \/ "manifest" \in files
    /\ stage = "manifest" => files # {}
    /\ Creating => files = {} \/ "PG_VERSION" \in files
    /\ stage = "unpack" /\ files # {} => id = incoming
    /\ files # {} => id # 0

KeptInv == TypeOK /\ Templated /\ ServedInv /\ Owing /\ Making

(* A cluster that is made when no archive is loaded is the first one.      *)
LEMMA FirstCluster ==
    ASSUME KeptInv, files = {}, incoming = 0 PROVE owed = 0
    BY DEF KeptInv, Owing, ServedInv, ServedComplete, Complete, Markers, TypeOK, Ids

LEMMA KeptStep ==
    ASSUME LoadsFinish, KeptInv, [Next]_vars PROVE (Owing /\ Making)'
<1> USE DEF KeptInv, Goto, Gone, disk, opener, cluster, user
<1>a. Fresh \in 1 .. 4 /\ Fresh # owed
    BY FreshIsNew DEF ServedInv
<1>1. ASSUME Open \/ PrepareRuntimeLayout PROVE (Owing /\ Making)'
    BY <1>1 DEF Open, PrepareRuntimeLayout, Owing, Making, Creating
<1>2. CASE Interrupt
    BY <1>2 DEF Interrupt, LoadsFinish, Owing, Making, Creating
<1>3. CASE WriteRuntimeLayout
    BY <1>a, <1>3 DEF WriteRuntimeLayout, Maker, Owing, Making, Creating, TypeOK
<1>4. CASE PreparePgdata
    <2>1. UNCHANGED <<files, dir, id, owed, incoming>> /\ source # "DataDirArchive"
        BY <1>4 DEF PreparePgdata, ServedInv, StageKnows
    <2>2. stage' \in {"failed", "clean", "remove"} \/ (stage' = "overlay" /\ "manifest" \in files)
          \/ (stage' \in {"overlay", "initdb"} /\ files = {})
        BY <1>4, <2>1 DEF PreparePgdata, Maker, TypeOK
    <2> QED
        BY <1>4, <2>1, <2>2 DEF PreparePgdata, Owing, Making, Creating
<1>5. CASE RemoveDirAll
    BY <1>5 DEF RemoveDirAll, Maker, Owing, Making, Creating
<1>6. CASE CreateOverlay
    <2>1. UNCHANGED user /\ stage = "overlay" /\ stage' = "manifest" /\ files' # {} /\ incoming = 0
        BY <1>6 DEF CreateOverlay, Owing
    <2>2. CASE "manifest" \in files
        BY <1>6, <2>1, <2>2 DEF CreateOverlay, Owing, Making, Creating
    <2>3. CASE "manifest" \notin files
        <3>1. id' = Fresh /\ owed = 0
            BY <1>6, <2>1, <2>3, FirstCluster DEF CreateOverlay, Making
        <3> QED
            BY <1>a, <2>1, <3>1 DEF Owing, Making, Creating
    <2> QED
        BY <2>2, <2>3
<1>7. CASE TruncateManifest \/ WriteManifest
    BY <1>7 DEF TruncateManifest, WriteManifest, Owing, Making, Creating
<1>8. CASE WritePiece
    <2>1. PICK k \in 1 .. 3 :
            /\ \A j \in 1 .. (k - 1) : Order[j] \in files
            /\ Order[k] \notin files
            /\ files' = files \cup {Order[k]}
            /\ IF k = 1
               THEN /\ id' = IF stage = "unpack" THEN incoming ELSE Fresh
                    /\ over' = NoTemplate /\ need' = Plain
               ELSE UNCHANGED cluster
        BY <1>8 DEF WritePiece
    <2>2. UNCHANGED <<opener, user>> /\ stage \in {"initdb", "unpack"} /\ files' # {}
        BY <1>8, <2>1 DEF WritePiece, Creating
    <2>3. CASE k = 1
        <3>1. files = {} /\ files' = {"PG_VERSION"}
            BY <2>1, <2>2, <2>3 DEF Order, Making, Creating
        <3>2. CASE stage = "unpack"
            <4>1. id' = incoming /\ incoming # 0
                BY <2>1, <2>3, <3>2 DEF ServedInv, StageKnows
            <4> QED
                BY <2>2, <3>1, <3>2, <4>1 DEF Owing, Making, Creating
        <3>3. CASE stage = "initdb"
            <4>1. incoming = 0 /\ owed = 0
                BY <3>1, <3>3, FirstCluster DEF Owing
            <4> QED
                BY <1>a, <2>1, <2>2, <2>3, <3>1, <3>3, <4>1 DEF Owing, Making, Creating
        <3> QED
            BY <2>2, <3>2, <3>3
    <2>4. CASE k # 1
        <3>1. "PG_VERSION" \in files /\ UNCHANGED cluster
            BY <2>1, <2>4 DEF Order
        <3> QED
            BY <2>1, <2>2, <3>1 DEF Owing, Making, Creating
    <2> QED
        BY <2>3, <2>4
<1>9. CASE Created
    <2>1. files # {} /\ UNCHANGED <<files, id>> /\ stage' = "clean"
        BY <1>9 DEF Created, Plain, Markers
    <2>2. CASE stage = "unpack"
        BY <1>9, <2>1, <2>2 DEF Created, Owing, Making, Creating
    <2>3. CASE stage # "unpack"
        BY <1>9, <2>1, <2>3 DEF Created, Owing, Making, Creating
    <2> QED
        BY <2>2, <2>3
<1>10. CASE RemoveRuntimeState \/ Close
    BY <1>10 DEF RemoveRuntimeState, Close, Owing, Making, Creating
<1>11. CASE StartBackend \/ Commit
    <2>1. id # 0
        BY <1>11
        DEF StartBackend, Commit, Making, ServedInv, StageKnows, Complete, Markers
    <2>2. UNCHANGED <<id, incoming>> /\ stage' = "serving" /\ incoming = 0
        BY <1>11 DEF StartBackend, Commit, Owing
    <2>3. owed' # 0 /\ (owed' = owed \/ owed' = id)
        BY <1>11, <2>1 DEF StartBackend, Commit, Owing
    <2> QED
        BY <2>1, <2>2, <2>3 DEF Owing, Making, Creating
<1>12. CASE UNCHANGED vars
    BY <1>12 DEF vars, Owing, Making, Creating
<1> QED
    BY <1>1, <1>2, <1>3, <1>4, <1>5, <1>6, <1>7, <1>8, <1>9, <1>10, <1>11, <1>12 DEF Next, Prepare

(* For any sources and builds, with a template or without, and any         *)
(* interruptions but those of a load that is replacing the cluster: what   *)
(* is served is the cluster the user last used, never a new, empty one.    *)
THEOREM UsersDataServed == ASSUME LoadsFinish PROVE Spec => []DataKept
<1>1. Init => KeptInv
    BY TypeInit, InitServed DEF Init, KeptInv, Owing, Making, Creating
<1>2. KeptInv /\ [Next]_vars => KeptInv'
    BY TypeStep, ServedStep, KeptStep DEF KeptInv
<1>3. KeptInv => DataKept
    BY DEF KeptInv, Owing, DataKept
<1> QED
    BY <1>1, <1>2, <1>3, PTL DEF Spec

-----------------------------------------------------------------------------
(* Whole clusters.  Every build has a template, and nobody is killed while *)
(* it writes a cluster in place or takes one apart that is complete.  (An  *)
(* opener for a template never does either when there is a template.)      *)
Recovered ==
    /\ NoTemplate \notin Builds
    /\ \A w \in InterruptIn :
        /\ w[1] # "Template" => w[2] \notin {"initdb", "unpack"}
        /\ w # <<"DataDirArchive", "remove">>

(* A whole cluster: all its pieces, and as an overlay a manifest that      *)
(* names its template or was truncated.                                    *)
Sound ==
    /\ id # 0 /\ need \subseteq files
    /\ over = NoTemplate <=> "manifest" \notin files
    /\ manifest \in {over, Torn}

(* What a stage that may be interrupted leaves: a cluster that is whole if *)
(* it will be taken for complete.                                          *)
AtRest == Complete => Sound

Wholeness ==
    /\ stage \in {"idle", "failed", "layout", "layoutWrite", "pgdata"} => AtRest
    /\ stage = "remove" => source = "DataDirArchive" \/ ~Complete
    /\ stage = "overlay" => files = {} \/ (Sound /\ manifest = build)
    /\ stage = "manifest" =>
        /\ id # 0 /\ over = build
        /\ Sound \/ (files = {"PG_VERSION"} /\ need = {"PG_VERSION", "manifest"})
    /\ stage = "manifestWrite" => over = build /\ Sound
    /\ stage \in {"clean", "ready", "serving"} => Sound /\ lower = over
    /\ Creating =>
        /\ source = IF stage = "initdb" THEN "FreshInitdb" ELSE "DataDirArchive"
        /\ files \in {{}, {"PG_VERSION"}, Markers, Plain}
        /\ files # {} => id # 0 /\ over = NoTemplate /\ need = Plain

Fields ==
    /\ stage \notin {"clean", "ready", "serving"} => lower = NoTemplate
    /\ stage \notin {"idle", "failed"} => build # NoTemplate

WholeInv == TypeOK /\ Templated /\ ServedInv /\ Wholeness /\ Fields

LEMMA FieldsStep == ASSUME Recovered, WholeInv, [Next]_vars PROVE Fields'
<1> USE DEF Fields, WholeInv, Goto, Gone, disk, opener, cluster, user
<1>1. CASE Open
    BY <1>1 DEF Open, Recovered
<1>2. CASE PrepareRuntimeLayout \/ WriteRuntimeLayout \/ PreparePgdata \/ RemoveDirAll
    BY <1>2 DEF PrepareRuntimeLayout, WriteRuntimeLayout, PreparePgdata, RemoveDirAll, Maker
<1>3. CASE CreateOverlay \/ TruncateManifest \/ WriteManifest \/ WritePiece \/ Created
    BY <1>3 DEF CreateOverlay, TruncateManifest, WriteManifest, WritePiece, Created, Creating
<1>4. CASE RemoveRuntimeState \/ StartBackend \/ Commit \/ Close \/ Interrupt \/ UNCHANGED vars
    BY <1>4 DEF RemoveRuntimeState, StartBackend, Commit, Close, Interrupt, vars
<1> QED
    BY <1>1, <1>2, <1>3, <1>4 DEF Next, Prepare

(* What an interruption leaves, from any stage where it may happen.        *)
LEMMA InterruptRest == ASSUME Recovered, WholeInv, Interrupt PROVE AtRest
<1> USE DEF WholeInv, Wholeness, AtRest
<1>1. /\ stage # "remove" \/ source # "DataDirArchive"
      /\ stage \in {"initdb", "unpack"} => source = "Template"
    BY DEF Interrupt, Recovered
<1>2. stage \notin {"initdb", "unpack"}
    BY <1>1 DEF Creating
<1>3. CASE stage \in {"overlay", "manifest"}
    BY <1>3 DEF Complete, Markers
<1>4. CASE stage \notin {"overlay", "manifest"}
    BY <1>1, <1>2, <1>4 DEF TypeOK, Stages
<1> QED
    BY <1>3, <1>4

LEMMA WholeStep == ASSUME Recovered, WholeInv, [Next]_vars PROVE Wholeness'
<1> USE RootPrepareAssumption DEF WholeInv, Goto, Gone, disk, opener, cluster, user
<1>a. Fresh # 0
    BY FreshIsNew DEF ServedInv
<1>1. CASE Open \/ PrepareRuntimeLayout
    <2>1. AtRest /\ UNCHANGED <<files, manifest, id, over, need>>
        BY <1>1 DEF Open, PrepareRuntimeLayout, Wholeness
    <2>2. AtRest'
        BY <2>1 DEF AtRest, Sound, Complete
    <2>3. stage' \in {"layout", "failed", "layoutWrite"}
        BY <1>1 DEF Open, PrepareRuntimeLayout
    <2> QED
        BY <2>2, <2>3 DEF Wholeness, Creating
<1>2. CASE Interrupt
    <2>1. AtRest /\ UNCHANGED <<files, manifest, id, over, need>> /\ stage' = "idle"
        BY <1>2, InterruptRest DEF Interrupt
    <2>2. AtRest'
        BY <2>1 DEF AtRest, Sound, Complete
    <2> QED
        BY <2>1, <2>2 DEF Wholeness, Creating
<1>3. CASE WriteRuntimeLayout
    <2>1. AtRest /\ UNCHANGED <<files, dir, manifest, id, over, need, source>>
        BY <1>3 DEF WriteRuntimeLayout, Wholeness
    <2>2. AtRest'
        BY <2>1 DEF AtRest, Sound, Complete
    <2>3. \/ stage' = "pgdata"
          \/ stage' = "remove" /\ source = "DataDirArchive"
          \/ stage' = "unpack" /\ source = "DataDirArchive" /\ files = {}
        BY <1>3 DEF WriteRuntimeLayout, Maker, TypeOK
    <2> QED
        BY <2>1, <2>2, <2>3 DEF Wholeness, Creating
<1>4. CASE PreparePgdata
    <2>1. /\ AtRest /\ UNCHANGED <<files, dir, manifest, id, over, need>>
          /\ build # NoTemplate /\ lower = NoTemplate /\ source # "DataDirArchive"
        BY <1>4 DEF PreparePgdata, Wholeness, Fields, ServedInv, StageKnows
    <2>2. AtRest'
        BY <2>1 DEF AtRest, Sound, Complete
    <2>3. CASE "manifest" \in files
        <3>1. Complete /\ Sound
            BY <2>1, <2>3 DEF AtRest, Complete
        <3>2. \/ stage' = "failed"
              \/ stage' = "overlay" /\ build' = build /\ manifest = build
            BY <1>4, <2>1, <2>3, <3>1 DEF PreparePgdata
        <3>3. Sound'
            BY <2>1, <3>1 DEF Sound
        <3> QED
            BY <2>1, <2>2, <3>2, <3>3 DEF Wholeness, Creating
    <2>4. CASE "manifest" \notin files /\ Complete
        <3>1. Sound /\ stage' = "clean" /\ lower' = NoTemplate
            BY <1>4, <2>1, <2>4 DEF PreparePgdata, AtRest
        <3>2. Sound' /\ over' = NoTemplate
            BY <2>1, <2>4, <3>1 DEF Sound
        <3> QED
            BY <3>1, <3>2 DEF Wholeness, Creating
    <2>5. CASE ~Complete
        <3>1. /\ UNCHANGED source
              /\ \/ stage' = "remove"
                 \/ stage' = "overlay" /\ files = {}
                 \/ stage' = "initdb" /\ files = {} /\ source = "FreshInitdb"
            BY <1>4, <2>1, <2>5 DEF PreparePgdata, Maker, TypeOK, Complete
        <3>2. ~Complete'
            BY <2>1, <2>5 DEF Complete
        <3> QED
            BY <2>1, <3>1, <3>2 DEF Wholeness, Creating
    <2> QED
        BY <2>3, <2>4, <2>5
<1>5. CASE RemoveDirAll
    <2>1. /\ files' \subseteq files /\ UNCHANGED <<source, id, over, need>> /\ stage = "remove"
          /\ source = "DataDirArchive" \/ ~Complete
        BY <1>5 DEF RemoveDirAll, Wholeness
    <2>2. ~Complete => ~Complete'
        BY <2>1 DEF Complete
    <2>3. CASE stage' = "remove"
        BY <2>1, <2>2, <2>3 DEF Wholeness, Creating
    <2>4. CASE stage' # "remove"
        <3>1. files' = {} /\ stage' = Maker
            BY <1>5, <2>1, <2>4 DEF RemoveDirAll
        <3>2. \/ stage' = "unpack" /\ source = "DataDirArchive"
              \/ stage' = "overlay"
              \/ stage' = "initdb" /\ source = "FreshInitdb"
            BY <2>1, <3>1 DEF Maker, TypeOK, Fields
        <3> QED
            BY <2>1, <3>1, <3>2 DEF Wholeness, Creating
    <2> QED
        BY <2>3, <2>4
<1>6. CASE CreateOverlay
    <2>1. /\ stage = "overlay" /\ stage' = "manifest" /\ UNCHANGED <<build, manifest>>
          /\ files' = files \cup {"PG_VERSION"} /\ build # NoTemplate
        BY <1>6 DEF CreateOverlay, Templated
    <2>2. CASE files = {}
        BY <1>6, <1>a, <2>1, <2>2 DEF CreateOverlay, Wholeness, Creating
    <2>3. CASE Sound /\ manifest = build
        <3>1. "manifest" \in files /\ over = build
            BY <2>1, <2>3 DEF Sound, TypeOK
        <3>2. UNCHANGED cluster
            BY <1>6, <3>1 DEF CreateOverlay
        <3>3. Sound'
            BY <2>1, <2>3, <3>2 DEF Sound
        <3> QED
            BY <2>1, <2>3, <3>1, <3>2, <3>3 DEF Wholeness, Creating, Sound
    <2> QED
        BY <2>1, <2>2, <2>3 DEF Wholeness
<1>7. CASE TruncateManifest
    <2>1. /\ stage = "manifest" /\ stage' = "manifestWrite" /\ UNCHANGED <<build, id, over, need>>
          /\ files' = files \cup {"manifest"} /\ manifest' = Torn
          /\ id # 0 /\ over = build /\ build # NoTemplate
        BY <1>7 DEF TruncateManifest, Wholeness, Templated
    <2>2. need \subseteq files'
        BY <2>1 DEF Wholeness, Sound
    <2>3. Sound'
        BY <2>1, <2>2 DEF Sound
    <2> QED
        BY <2>1, <2>3 DEF Wholeness, Creating
<1>8. CASE WriteManifest
    <2>1. /\ stage' = "clean" /\ lower' = build /\ manifest' = build
          /\ UNCHANGED <<files, id, over, need>> /\ over = build /\ Sound
        BY <1>8 DEF WriteManifest, Wholeness
    <2>2. Sound'
        BY <2>1 DEF Sound
    <2> QED
        BY <2>1, <2>2 DEF Wholeness, Creating
<1>9. CASE WritePiece
    <2>1. PICK k \in 1 .. 3 :
            /\ \A j \in 1 .. (k - 1) : Order[j] \in files
            /\ Order[k] \notin files
            /\ files' = files \cup {Order[k]}
            /\ IF k = 1
               THEN /\ id' = IF stage = "unpack" THEN incoming ELSE Fresh
                    /\ over' = NoTemplate /\ need' = Plain
               ELSE UNCHANGED cluster
        BY <1>9 DEF WritePiece
    <2>2. UNCHANGED <<stage, source>> /\ Creating
        BY <1>9 DEF WritePiece
    <2>3. /\ source = IF stage = "initdb" THEN "FreshInitdb" ELSE "DataDirArchive"
          /\ files \in {{}, {"PG_VERSION"}, Markers, Plain}
          /\ files # {} => id # 0 /\ over = NoTemplate /\ need = Plain
        BY <2>2 DEF Wholeness
    <2>4. files' \in {{"PG_VERSION"}, Markers, Plain}
        <3>1. CASE k = 1
            <4>1. files = {} /\ files' = files \cup {"PG_VERSION"}
                BY <2>1, <2>3, <3>1 DEF Order, Markers, Plain
            <4> QED
                BY <4>1
        <3>2. CASE k = 2
            <4>1. files = {"PG_VERSION"} /\ files' = files \cup {"pg_control"}
                BY <2>1, <2>3, <3>2 DEF Order, Markers, Plain
            <4> QED
                BY <4>1 DEF Markers
        <3>3. CASE k = 3
            <4>1. files = Markers /\ files' = files \cup {"relations"}
                BY <2>1, <2>3, <3>3 DEF Order, Markers, Plain
            <4> QED
                BY <4>1 DEF Plain
        <3> QED
            BY <3>1, <3>2, <3>3
    <2>5. id' # 0 /\ over' = NoTemplate /\ need' = Plain
        <3>1. CASE k = 1
            BY <1>a, <2>1, <2>2, <2>3, <3>1 DEF ServedInv, StageKnows, Creating
        <3>2. CASE k # 1
            <4>1. files # {} /\ UNCHANGED cluster
                BY <2>1, <3>2
            <4> QED
                BY <2>3, <4>1
        <3> QED
            BY <3>1, <3>2
    <2> QED
        BY <2>2, <2>3, <2>4, <2>5 DEF Wholeness, Creating
<1>10. CASE Created
    <2>1. /\ stage' = "clean" /\ UNCHANGED <<files, manifest, id, over, need, lower>>
          /\ files = Plain /\ lower = NoTemplate
        BY <1>10 DEF Created, Wholeness, Creating, Fields, Plain, Markers
    <2>2. id # 0 /\ over = NoTemplate /\ need = Plain
        BY <1>10, <2>1 DEF Created, Wholeness, Plain, Markers
    <2>3. "manifest" \notin files /\ manifest = NoTemplate
        BY <2>1 DEF Plain, Markers, TypeOK
    <2>4. Sound'
        BY <2>1, <2>2, <2>3 DEF Sound
    <2> QED
        BY <2>1, <2>2, <2>4 DEF Wholeness, Creating
<1>11. CASE RemoveRuntimeState \/ Close
    <2>1. /\ files' \in {files, files \ {"postmaster"}} /\ UNCHANGED <<manifest, id, over, need>>
          /\ Sound /\ lower = over
          /\ stage' = "idle" \/ (stage' = "ready" /\ lower' = lower)
        BY <1>11 DEF RemoveRuntimeState, Close, Wholeness
    <2>2. need \subseteq files' /\ ("manifest" \in files' <=> "manifest" \in files)
        BY <2>1 DEF Sound, ServedInv, Bookkeeping
    <2>3. Sound'
        BY <2>1, <2>2 DEF Sound
    <2> QED
        BY <2>1, <2>3 DEF Wholeness, AtRest, Creating
<1>12. CASE StartBackend \/ Commit
    <2>1. /\ UNCHANGED <<manifest, id, over, lower>> /\ Sound /\ lower = over /\ stage' = "serving"
          /\ need' \subseteq files'
          /\ "manifest" \in files' <=> "manifest" \in files
        BY <1>12 DEF StartBackend, Commit, Wholeness, Sound
    <2>2. Sound'
        BY <2>1 DEF Sound
    <2> QED
        BY <2>1, <2>2 DEF Wholeness, Creating
<1>13. CASE UNCHANGED vars
    BY <1>13 DEF vars, Wholeness, AtRest, Sound, Complete, Creating
<1> QED
    BY <1>1, <1>2, <1>3, <1>4, <1>5, <1>6, <1>7, <1>8, <1>9, <1>10, <1>11, <1>12, <1>13
    DEF Next, Prepare

(* For any templates and any interruptions but those of initdb, of unpack, *)
(* and of the removal that a load begins with: a backend starts only on a  *)
(* whole cluster, over the template it was made from.  What the other      *)
(* interruptions leave is told from a whole cluster by its markers.        *)
THEOREM WholeWhenServed == ASSUME Recovered PROVE Spec => []StartsOnWhole
<1>1. Init => WholeInv
    BY TypeInit, InitServed
    DEF Init, WholeInv, Wholeness, Fields, AtRest, Complete, Markers, Creating
<1>2. WholeInv /\ [Next]_vars => WholeInv'
    BY TypeStep, ServedStep, WholeStep, FieldsStep DEF WholeInv
<1>3. WholeInv => StartsOnWhole
    BY DEF WholeInv, Wholeness, Sound, StartsOnWhole
<1> QED
    BY <1>1, <1>2, <1>3, PTL DEF Spec
=============================================================================
