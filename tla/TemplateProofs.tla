--------------------------- MODULE TemplateProofs ---------------------------
(***************************************************************************)
(* What is proved of PGDATA templates: of the caches that make them and of *)
(* the filesystem that lays a root over one.                               *)
(***************************************************************************)
EXTENDS TemplateCache, Overlay, TLAPS

(***************************************************************************)
(* The template caches for any number of processes: a template somebody    *)
(* uses is whole.  CacheTypeOK says that the file lock excludes; what has  *)
(* to be added is which states of an entry the builder leaves behind when  *)
(* it is killed.  The base template is there or not, because it appears by *)
(* a rename; the extension template may be there without its manifest, but *)
(* never the manifest without all of the template.  From the same          *)
(* invariant, a call is refused only for an error of its own.              *)
(***************************************************************************)
(* The two entries, as any builder leaves them.                            *)
Entries ==
    /\ tree["base"] \in {{}, Whole}
    /\ manifest # "none" => tree["ext"] = Whole

(* What is in use is valid, so nobody removes it.                          *)
InUse == \A p \in Procs : \A c \in using[p] : Valid(c)

(* What the builder that holds the lock has found or made.                 *)
Builder ==
    \A p \in Procs :
        /\ stage[p] \in {"remove", "build", "promote"} =>
            IF want[p] = "base" THEN tree["base"] = {} ELSE manifest = "none"
        /\ stage[p] \in {"describe", "write", "cleanup"} =>
            want[p] = "ext" /\ tree["ext"] = Whole
        /\ stage[p] = "describe" => manifest = "none"
        /\ stage[p] = "write" => manifest = "torn"
        /\ stage[p] = "cleanup" => manifest = "written"

CacheInv == CacheTypeOK /\ Entries /\ InUse /\ Builder

-----------------------------------------------------------------------------
(* Initially nothing is cached, wanted or used.                            *)
LEMMA CacheInitInv == CacheInit => CacheInv
<1> SUFFICES ASSUME CacheInit PROVE CacheInv
    OBVIOUS
<1> USE TemplateCacheAssumption DEF CacheInit, Caches, Markers, Whole
<1>1. CacheTypeOK
    BY DEF CacheTypeOK, Stages, Locked
<1>2. Entries /\ InUse /\ Builder
    BY DEF Entries, InUse, Builder
<1> QED
    BY <1>1, <1>2 DEF CacheInv

(* The lock excludes: no two processes are inside one entry.               *)
LEMMA Exclusive ==
    ASSUME CacheTypeOK, NEW p \in Procs, NEW q \in Procs,
           stage[p] \in Locked, stage[q] \in Locked, want[p] = want[q]
    PROVE  p = q
<1>1. want[p] \in Caches /\ want[q] \in Caches
    BY DEF CacheTypeOK
<1>2. lock[want[p]] = p /\ lock[want[p]] = q
    BY <1>1 DEF CacheTypeOK
<1> QED
    BY <1>2

(* The type invariant, which says who holds a lock, is inductive.          *)
LEMMA CacheTypeStep == CacheTypeOK /\ [CacheNext]_cacheVars => CacheTypeOK'
<1> SUFFICES ASSUME CacheTypeOK, [CacheNext]_cacheVars PROVE CacheTypeOK'
    OBVIOUS
<1> USE TemplateCacheAssumption DEF CacheTypeOK, Goto, Caches
<1>1. ASSUME NEW p \in Procs, Ask(p) PROVE CacheTypeOK'
    BY <1>1 DEF Ask, Stages, Locked
<1>2. ASSUME NEW p \in Procs, AcquireCacheLock(p) PROVE CacheTypeOK'
    BY <1>2 DEF AcquireCacheLock, Stages, Locked
<1>3. ASSUME NEW p \in Procs, stage[p] \in Locked \cup {"wait"},
             NEW ok \in BOOLEAN, GetReturns(p, ok),
             tree' \in [Caches -> SUBSET Whole],
             UNCHANGED <<manifest, want>>, failed' \in [Procs -> BOOLEAN]
      PROVE  CacheTypeOK'
    <2>1. /\ outcome' \in [Procs -> [Caches -> {"unset", "ok", "err"}]]
          /\ using' \in [Procs -> SUBSET Caches]
        BY <1>3 DEF GetReturns
    <2>2. /\ lock' \in [Caches -> Procs \cup {NoProc}] /\ stage' \in [Procs -> Stages]
          /\ want' \in [Procs -> Caches] /\ manifest' \in {"none", "torn", "written"}
        BY <1>3 DEF GetReturns, Unlock, Stages
    <2>3. ASSUME NEW c \in Caches, NEW q \in Procs
          PROVE  lock'[c] = q <=> stage'[q] \in Locked /\ want'[q] = c
        BY <1>3, NoProc \notin Procs DEF GetReturns, Unlock, Locked
    <2> QED
        BY <1>3, <2>1, <2>2, <2>3
<1>4. ASSUME NEW p \in Procs, CheckEntry(p) PROVE CacheTypeOK'
    <2>1. CASE GetReturns(p, TRUE) \/ GetReturns(p, FALSE)
        BY <1>4, <1>3, <2>1 DEF CheckEntry, Locked
    <2>2. CASE Goto(p, "remove") /\ UNCHANGED <<lock, outcome, using>>
        BY <1>4, <2>2 DEF CheckEntry, Stages, Locked
    <2> QED
        BY <1>4, <2>1, <2>2 DEF CheckEntry
<1>5. ASSUME NEW p \in Procs, RemoveEntry(p) PROVE CacheTypeOK'
    BY <1>5 DEF RemoveEntry, Stages, Locked
<1>6. ASSUME NEW p \in Procs, BuildStaging(p) PROVE CacheTypeOK'
    BY <1>6 DEF BuildStaging, Stages, Locked
<1>7. ASSUME NEW p \in Procs, Promote(p) PROVE CacheTypeOK'
    <2>1. tree' \in [Caches -> SUBSET Whole]
        BY <1>7 DEF Promote
    <2>2. CASE want[p] = "base"
        BY <1>7, <1>3, <2>1, <2>2 DEF Promote, Locked
    <2>3. CASE want[p] # "base"
        BY <1>7, <2>1, <2>3 DEF Promote, Stages, Locked
    <2> QED
        BY <2>2, <2>3
<1>8. ASSUME NEW p \in Procs, TruncateManifest(p) \/ WriteManifest(p) PROVE CacheTypeOK'
    BY <1>8 DEF TruncateManifest, WriteManifest, Stages, Locked
<1>9. ASSUME NEW p \in Procs, RemoveStaging(p) \/ Fails(p) PROVE CacheTypeOK'
    <2>1. CASE RemoveStaging(p)
        BY <1>3, <2>1 DEF RemoveStaging, Locked
    <2>2. CASE Fails(p)
        <3>1. failed' \in [Procs -> BOOLEAN]
            BY <2>2 DEF Fails
        <3> QED
            BY <1>3, <2>2, <3>1 DEF Fails
    <2> QED
        BY <1>9, <2>1, <2>2
<1>10. ASSUME NEW p \in Procs, Die(p) PROVE CacheTypeOK'
    BY <1>10 DEF Die, Stages, Locked
<1>11. CASE UNCHANGED cacheVars
    BY <1>11 DEF cacheVars
<1> QED
    BY <1>1, <1>2, <1>4, <1>5, <1>6, <1>7, <1>8, <1>9, <1>10, <1>11
    DEF CacheNext, Build, Finished

(* A step that leaves the entries and their users alone keeps what they    *)
(* are; a user may only be added for a valid entry.                        *)
LEMMA EntriesFrame ==
    ASSUME CacheInv, UNCHANGED <<tree, manifest>>,
           \A q \in Procs : \A c \in using'[q] : c \in using[q] \/ Valid(c)
    PROVE  Entries' /\ InUse'
<1>1. Entries'
    BY DEF CacheInv, Entries
<1>2. \A c \in Caches : Valid(c)' <=> Valid(c)
    BY DEF Valid
<1>3. InUse'
    BY DEF CacheInv, InUse, Valid
<1> QED
    BY <1>1, <1>3

(* Each step keeps the entries, their users and the builder consistent.    *)
LEMMA EntriesStep == CacheInv /\ [CacheNext]_cacheVars => Entries' /\ InUse' /\ Builder'
<1> SUFFICES ASSUME CacheInv, [CacheNext]_cacheVars PROVE Entries' /\ InUse' /\ Builder'
    OBVIOUS
<1> USE DEF Goto, Locked
<1>1. CacheTypeOK
    BY DEF CacheInv
<1>2. ASSUME NEW p \in Procs, Ask(p) \/ AcquireCacheLock(p) \/ BuildStaging(p)
      PROVE  Entries' /\ InUse' /\ Builder'
    <2>1. Entries' /\ InUse'
        BY <1>2, EntriesFrame DEF Ask, AcquireCacheLock, BuildStaging
    <2>2. Builder'
        BY <1>1, <1>2 DEF CacheInv, Builder, Ask, AcquireCacheLock, BuildStaging, CacheTypeOK
    <2> QED
        BY <2>1, <2>2
<1>3. ASSUME NEW p \in Procs, CheckEntry(p) PROVE Entries' /\ InUse' /\ Builder'
    <2>1. Entries' /\ InUse'
        BY <1>1, <1>3, EntriesFrame DEF CheckEntry, GetReturns, CacheTypeOK
    <2>2. ASSUME stage'[p] = "remove"
          PROVE  IF want[p] = "base" THEN tree["base"] = {} ELSE manifest = "none"
        <3>1. ~Valid(want[p]) /\ ~Unreadable(want[p])
            BY <1>1, <1>3, <2>2 DEF CheckEntry, GetReturns, CacheTypeOK
        <3>2. want[p] \in {"base", "ext"} /\ manifest \in {"none", "torn", "written"}
            BY <1>1 DEF CacheTypeOK, Caches
        <3> QED
            BY <3>1, <3>2 DEF CacheInv, Entries, Valid, Unreadable, Markers, Whole
    <2>3. Builder'
        BY <1>1, <1>3, <2>2 DEF CacheInv, Builder, CheckEntry, GetReturns, CacheTypeOK
    <2> QED
        BY <2>1, <2>3
<1>4. ASSUME NEW p \in Procs, RemoveEntry(p) PROVE Entries' /\ InUse' /\ Builder'
    <2>1. want[p] \in {"base", "ext"}
        BY <1>1 DEF CacheTypeOK, Caches
    <2>2. CASE want[p] = "base"
        <3>1. UNCHANGED <<tree, manifest, using>>
            BY <1>1, <1>4, <2>2 DEF CacheInv, Builder, RemoveEntry, CacheTypeOK
        <3>2. Builder'
            BY <1>1, <1>4, <2>2, <3>1 DEF CacheInv, Builder, RemoveEntry, CacheTypeOK
        <3> QED
            BY <3>1, <3>2, EntriesFrame
    <2>3. CASE want[p] = "ext"
        <3>1. manifest = "none" /\ manifest' = "none" /\ tree'["base"] = tree["base"]
            BY <1>1, <1>4, <2>3 DEF CacheInv, Builder, RemoveEntry, CacheTypeOK, Caches
        <3>2. \A q \in Procs : using'[q] = using[q] /\ "ext" \notin using[q]
            BY <1>4, <3>1 DEF CacheInv, InUse, Valid, RemoveEntry
        <3>3. Entries' /\ InUse'
            BY <1>1, <3>1, <3>2 DEF CacheInv, Entries, InUse, Valid, CacheTypeOK, Caches
        <3>4. ASSUME NEW q \in Procs, q # p, stage[q] \in {"describe", "write", "cleanup"}
              PROVE  FALSE
            BY <1>1, <1>4, <2>3, <3>4, Exclusive DEF CacheInv, Builder, RemoveEntry
        <3>5. Builder'
            BY <1>1, <1>4, <2>3, <3>1, <3>4 DEF CacheInv, Builder, RemoveEntry, CacheTypeOK
        <3> QED
            BY <3>3, <3>5
    <2> QED
        BY <2>1, <2>2, <2>3
<1>5. ASSUME NEW p \in Procs, Promote(p) PROVE Entries' /\ InUse' /\ Builder'
    <2>1. want[p] \in {"base", "ext"}
        BY <1>1 DEF CacheTypeOK, Caches
    <2>2. UNCHANGED <<manifest, want>> /\ tree' = [tree EXCEPT ![want[p]] = Whole]
        BY <1>5 DEF Promote
    <2>3. Entries'
        BY <1>1, <2>1, <2>2 DEF CacheInv, Entries, CacheTypeOK, Caches
    <2>4. ASSUME NEW q \in Procs, NEW c \in using'[q] PROVE Valid(c)'
        <3>1. c \in using[q] \/ (c = want[p] /\ want[p] = "base")
            BY <1>1, <1>5, <2>4 DEF Promote, GetReturns, CacheTypeOK
        <3>2. c \in using[q] => Valid(c) /\ c \in Caches
            BY <1>1 DEF CacheInv, InUse, CacheTypeOK
        <3>3. CASE c = want[p]
            BY <1>1, <2>1, <2>2, <3>1, <3>2, <3>3 DEF Valid, CacheTypeOK, Caches, Markers, Whole
        <3>4. CASE c # want[p]
            BY <1>1, <2>2, <3>1, <3>2, <3>4 DEF Valid, CacheTypeOK
        <3> QED
            BY <3>3, <3>4
    <2>5. Builder'
        <3> SUFFICES ASSUME NEW q \in Procs
                     PROVE  /\ stage'[q] \in {"remove", "build", "promote"} =>
                                IF want[q] = "base" THEN tree'["base"] = {} ELSE manifest = "none"
                            /\ stage'[q] \in {"describe", "write", "cleanup"} =>
                                want[q] = "ext" /\ tree'["ext"] = Whole
                            /\ stage'[q] = "describe" => manifest = "none"
                            /\ stage'[q] = "write" => manifest = "torn"
                            /\ stage'[q] = "cleanup" => manifest = "written"
            BY <2>2 DEF Builder
        <3>1. CASE q = p
            BY <1>1, <1>5, <2>1, <2>2, <3>1
            DEF CacheInv, Builder, Promote, GetReturns, CacheTypeOK, Caches
        <3>2. CASE q # p
            <4>1. stage'[q] = stage[q]
                BY <1>1, <1>5, <3>2 DEF Promote, GetReturns, CacheTypeOK
            <4>2. stage[q] \in Locked => want[q] # want[p]
                BY <1>1, <1>5, <3>2, Exclusive DEF Promote
            <4> QED
                BY <1>1, <2>1, <2>2, <4>1, <4>2 DEF CacheInv, Builder, CacheTypeOK, Caches
        <3> QED
            BY <3>1, <3>2
    <2> QED
        BY <2>3, <2>4, <2>5 DEF InUse
<1>6. ASSUME NEW p \in Procs, TruncateManifest(p) \/ WriteManifest(p)
      PROVE  Entries' /\ InUse' /\ Builder'
    <2>1. want[p] = "ext" /\ tree["ext"] = Whole /\ manifest # "written" /\ stage[p] \in Locked
        BY <1>6 DEF CacheInv, Builder, TruncateManifest, WriteManifest
    <2>2. \A q \in Procs : using'[q] = using[q] /\ "ext" \notin using[q]
        BY <1>6, <2>1 DEF CacheInv, InUse, Valid, TruncateManifest, WriteManifest
    <2>3. Entries' /\ InUse'
        BY <1>6, <2>1, <2>2
        DEF CacheInv, Entries, InUse, Valid, TruncateManifest, WriteManifest
    <2>4. ASSUME NEW q \in Procs, q # p, stage[q] \in Locked PROVE want[q] = "base"
        BY <1>1, <2>1, <2>4, Exclusive DEF CacheTypeOK, Caches
    <2>5. Builder'
        BY <1>1, <1>6, <2>1, <2>4
        DEF CacheInv, Builder, TruncateManifest, WriteManifest, CacheTypeOK
    <2> QED
        BY <2>3, <2>5
<1>7. ASSUME NEW p \in Procs, RemoveStaging(p) PROVE Entries' /\ InUse' /\ Builder'
    <2>1. Valid(want[p])
        BY <1>7 DEF CacheInv, Builder, RemoveStaging, Valid, Markers, Whole
    <2>2. Entries' /\ InUse'
        BY <1>1, <1>7, <2>1, EntriesFrame DEF RemoveStaging, GetReturns, CacheTypeOK
    <2>3. Builder'
        BY <1>1, <1>7 DEF CacheInv, Builder, RemoveStaging, GetReturns, CacheTypeOK
    <2> QED
        BY <2>2, <2>3
<1>8. ASSUME NEW p \in Procs, Fails(p) \/ Die(p) PROVE Entries' /\ InUse' /\ Builder'
    <2>1. \A q \in Procs : \A c \in using'[q] : c \in using[q]
        BY <1>1, <1>8 DEF Fails, Die, GetReturns, CacheTypeOK
    <2>2. Entries' /\ InUse'
        BY <1>8, <2>1, EntriesFrame DEF Fails, Die
    <2>3. Builder'
        BY <1>1, <1>8 DEF CacheInv, Builder, Fails, Die, GetReturns, CacheTypeOK
    <2> QED
        BY <2>2, <2>3
<1>9. CASE UNCHANGED cacheVars
    BY <1>9 DEF cacheVars, CacheInv, Entries, InUse, Builder, Valid
<1> QED
    BY <1>2, <1>3, <1>4, <1>5, <1>6, <1>7, <1>8, <1>9 DEF CacheNext, Build, Finished

(* The invariant holds in every reachable state.                           *)
LEMMA CacheInvariance == CacheSpec => []CacheInv
<1>1. CacheInv /\ [CacheNext]_cacheVars => CacheInv'
    BY CacheTypeStep, EntriesStep DEF CacheInv
<1> QED
    BY CacheInitInv, <1>1, PTL DEF CacheSpec

(* Type correctness, and with it the exclusion that the file lock gives.   *)
THEOREM CacheTypeCorrect == CacheSpec => []CacheTypeOK
<1>1. CacheInv => CacheTypeOK
    BY DEF CacheInv
<1> QED
    BY CacheInvariance, <1>1, PTL

(* For any number of processes: a template that one of them was given is   *)
(* whole, and no other process takes it apart while it is used.            *)
THEOREM UsedTemplateWhole == CacheSpec => []TemplateWhole
<1>1. CacheInv => TemplateWhole
    <2> SUFFICES ASSUME CacheInv, NEW p \in Procs, NEW c \in using[p]
                 PROVE  tree[c] = Whole
        BY DEF TemplateWhole
    <2>1. Valid(c) /\ c \in {"base", "ext"}
        BY DEF CacheInv, InUse, CacheTypeOK, Caches
    <2> QED
        BY <2>1 DEF CacheInv, Entries, Valid, Markers
<1> QED
    BY CacheInvariance, <1>1, PTL

-----------------------------------------------------------------------------
(* A manifest that was torn by a builder that is gone: nobody is left who  *)
(* would write it, and nobody removes a directory that has its markers.    *)
Stuck == manifest = "torn" /\ \A q \in Procs : stage[q] # "write"

(* ErrorIsOwn is not inductive: it must say that nobody is about to write  *)
(* the manifest that somebody was refused for.                             *)
ErrorCause ==
    \A p \in Procs, c \in Caches :
        outcome[p][c] = "err" => failed[p] \/ (c = "ext" /\ Stuck)

(* Once the manifest is torn and its writer gone, it stays so.             *)
LEMMA StuckStays == CacheInv /\ Stuck /\ [CacheNext]_cacheVars => Stuck'
<1> SUFFICES ASSUME CacheInv, Stuck, [CacheNext]_cacheVars PROVE Stuck'
    OBVIOUS
<1> USE DEF Goto
<1>1. CacheTypeOK /\ Builder
    BY DEF CacheInv
<1>2. ASSUME NEW p \in Procs,
             Ask(p) \/ AcquireCacheLock(p) \/ BuildStaging(p) \/ CheckEntry(p)
      PROVE  Stuck'
    BY <1>1, <1>2
    DEF Stuck, Ask, AcquireCacheLock, BuildStaging, CheckEntry, GetReturns, CacheTypeOK
<1>3. ASSUME NEW p \in Procs, RemoveEntry(p) PROVE Stuck'
    <2>1. want[p] = "base"
        BY <1>1, <1>3 DEF Stuck, Builder, RemoveEntry
    <2> QED
        BY <1>1, <1>3, <2>1 DEF Stuck, RemoveEntry, CacheTypeOK
<1>4. ASSUME NEW p \in Procs, Promote(p) \/ RemoveStaging(p) \/ Fails(p) \/ Die(p)
      PROVE  Stuck'
    BY <1>1, <1>4 DEF Stuck, Promote, RemoveStaging, Fails, Die, GetReturns, CacheTypeOK
<1>5. ASSUME NEW p \in Procs, TruncateManifest(p) \/ WriteManifest(p) PROVE FALSE
    BY <1>1, <1>5 DEF Stuck, Builder, TruncateManifest, WriteManifest
<1>6. CASE UNCHANGED cacheVars
    BY <1>6 DEF Stuck, cacheVars
<1> QED
    BY <1>2, <1>3, <1>4, <1>5, <1>6 DEF CacheNext, Build, Finished

(* An answer is written only by GetReturns; what is refused there is refused   *)
(* for an error of the process itself or for a manifest that stays torn.   *)
LEMMA RefusalStep ==
    ASSUME CacheInv, [CacheNext]_cacheVars, NEW p \in Procs, NEW c \in Caches,
           outcome'[p][c] = "err"
    PROVE  \/ outcome[p][c] = "err"
           \/ failed'[p]
           \/ c = "ext" /\ Stuck
<1> USE DEF Goto
<1>1. CacheTypeOK
    BY DEF CacheInv
<1>2. ASSUME NEW q \in Procs, NEW ok \in BOOLEAN, GetReturns(q, ok),
             outcome'[p][c] # outcome[p][c]
      PROVE  p = q /\ c = want[q] /\ ~ok
    BY <1>1, <1>2 DEF GetReturns, CacheTypeOK
<1>3. ASSUME NEW q \in Procs, CheckEntry(q), outcome'[p][c] # outcome[p][c]
      PROVE  c = "ext" /\ Stuck
    <2>1. outcome' # outcome
        BY <1>3
    <2>2. CASE Valid(want[q]) /\ GetReturns(q, TRUE)
        BY <1>2, <1>3, <2>2
    <2>3. CASE Unreadable(want[q]) /\ GetReturns(q, FALSE)
        <3>1. want[q] = "ext" /\ manifest = "torn" /\ c = "ext"
            BY <1>2, <1>3, <2>3 DEF Unreadable
        <3>2. ASSUME NEW r \in Procs, stage[r] = "write" PROVE FALSE
            <4>1. want[r] = "ext" /\ stage[r] \in Locked /\ stage[q] \in Locked
                BY <1>3, <3>2 DEF CacheInv, Builder, CheckEntry, Locked
            <4>2. r = q
                BY <1>1, <3>1, <4>1, Exclusive
            <4> QED
                BY <1>3, <3>2, <4>2 DEF CheckEntry
        <3> QED
            BY <3>1, <3>2 DEF Stuck
    <2> QED
        BY <1>3, <2>1, <2>2, <2>3 DEF CheckEntry
<1>4. ASSUME NEW q \in Procs, Promote(q) \/ RemoveStaging(q) PROVE outcome'[p][c] = outcome[p][c]
    BY <1>2, <1>4 DEF Promote, RemoveStaging
<1>5. ASSUME NEW q \in Procs, Fails(q), outcome'[p][c] # outcome[p][c] PROVE failed'[p]
    <2>1. p = q
        BY <1>2, <1>5 DEF Fails
    <2> QED
        BY <1>1, <1>5, <2>1 DEF Fails, CacheTypeOK
<1>6. ASSUME NEW q \in Procs,
             Ask(q) \/ AcquireCacheLock(q) \/ RemoveEntry(q) \/ BuildStaging(q)
             \/ TruncateManifest(q) \/ WriteManifest(q) \/ Die(q)
      PROVE  outcome' = outcome
    BY <1>6 DEF Ask, AcquireCacheLock, RemoveEntry, BuildStaging, TruncateManifest,
                WriteManifest, Die
<1>7. CASE UNCHANGED cacheVars
    BY <1>7 DEF cacheVars
<1> QED
    BY <1>3, <1>4, <1>5, <1>6, <1>7 DEF CacheNext, Build, Finished

(* A process that met an error of its own stays one that did.              *)
LEMMA FailedStays ==
    ASSUME CacheTypeOK, [CacheNext]_cacheVars, NEW p \in Procs, failed[p] PROVE failed'[p]
<1>1. ASSUME NEW q \in Procs, Fails(q) PROVE failed'[p]
    BY <1>1 DEF Fails, CacheTypeOK
<1>2. ASSUME NEW q \in Procs, Ask(q) \/ Build(q) \/ Die(q) PROVE failed' = failed
    BY <1>2
    DEF Ask, Build, AcquireCacheLock, CheckEntry, RemoveEntry, BuildStaging, Promote,
        TruncateManifest, WriteManifest, RemoveStaging, Die
<1> QED
    BY <1>1, <1>2 DEF CacheNext, Finished, cacheVars

(* For any number of processes: a process is refused a template only for   *)
(* an error of its own, whatever failed or killed builders left behind;    *)
(* the exception is an extension manifest torn by a builder that was       *)
(* killed while it wrote it.                                               *)
THEOREM RefusedForOwnError == CacheSpec => []ErrorIsOwn
<1>1. CacheInit => ErrorCause
    BY DEF CacheInit, ErrorCause
<1>2. CacheInv /\ ErrorCause /\ [CacheNext]_cacheVars => ErrorCause'
    <2> SUFFICES ASSUME CacheInv, ErrorCause, [CacheNext]_cacheVars,
                        NEW p \in Procs, NEW c \in Caches, outcome'[p][c] = "err"
                 PROVE  failed'[p] \/ (c = "ext" /\ Stuck')
        BY DEF ErrorCause
    <2>1. failed'[p] \/ failed[p] \/ (c = "ext" /\ Stuck)
        BY RefusalStep DEF ErrorCause
    <2> QED
        BY <2>1, StuckStays, FailedStays DEF CacheInv
<1>3. ErrorCause => ErrorIsOwn
    BY DEF ErrorCause, ErrorIsOwn, Stuck
<1> QED
    BY CacheInvariance, <1>1, <1>2, <1>3, PTL DEF CacheSpec

(***************************************************************************)
(* The overlay, for any files, directories, templates and open flags: it   *)
(* implements the directory of module Directory, and an archive holds what *)
(* PostgreSQL sees.                                                        *)
(***************************************************************************)
(* The types are kept; a copy is made only of a template file.             *)
LEMMA TypeStep == TypeOK /\ [Next]_vars => TypeOK'
<1> SUFFICES ASSUME TypeOK, [Next]_vars PROVE TypeOK'
    OBVIOUS
<1> USE OverlayAssumption DEF TypeOK, Called
<1>1. ASSUME NEW r \in Requests, Call(r) PROVE TypeOK'
    BY <1>1 DEF Call
<1>2. ASSUME OpenRefused PROVE TypeOK'
    BY <1>2 DEF OpenRefused, Return
<1>3. ASSUME CopyBegins PROVE TypeOK'
    BY <1>3 DEF CopyBegins, StartsEmpty, WithParent, NeedsCopy, Lower, Contents, Requests
<1>4. ASSUME CopyReturns PROVE TypeOK'
    BY <1>4 DEF CopyReturns, Lower, Contents
<1>5. ASSUME Open PROVE TypeOK'
    BY <1>5 DEF Open, Return, WithParent, Contents, Requests
<1>6. ASSUME Rename PROVE TypeOK'
    BY <1>6 DEF Rename, Return, WithParent, Contents, Requests
<1>7. ASSUME OpenToRead PROVE TypeOK'
    BY <1>7 DEF OpenToRead, Return
<1>8. ASSUME RemoveFile PROVE TypeOK'
    BY <1>8 DEF RemoveFile, Return, Contents, Requests
<1>9. ASSUME CreateDir PROVE TypeOK'
    BY <1>9 DEF CreateDir, Return, Requests
<1>10. ASSUME Crash PROVE TypeOK'
    BY <1>10 DEF Crash, Return
<1>11. ASSUME UNCHANGED vars PROVE TypeOK'
    BY <1>11 DEF vars
<1> QED BY <1>1, <1>2, <1>3, <1>4, <1>5, <1>6, <1>7, <1>8, <1>9, <1>10, <1>11 DEF Next

(* The overlay stays well formed.                                          *)
THEOREM OverlayTypeCorrect == Spec => []TypeOK
<1>1. Init => TypeOK
    BY OverlayAssumption DEF Init, TypeOK, Contents, Called
<1> QED BY <1>1, TypeStep, PTL DEF Spec

(* An archive of a stopped backend, loaded into a new root, holds exactly  *)
(* the files PostgreSQL sees (data_dir.rs, materialize_pgdata_view).       *)
THEOREM ArchiveComplete == Spec => []ArchiveIsView
<1>1. TypeOK => ArchiveIsView
    BY DEF TypeOK, ArchiveIsView, Unpacked, MaterializedView, CopyTree, ApplyWhiteouts, NoFiles, View
<1> QED BY <1>1, OverlayTypeCorrect, PTL

-----------------------------------------------------------------------------
(* The refinement.                                                         *)

(* What a copy-up has made so far; an open with O_EXCL makes none.         *)
CopySoFar ==
    /\ copy = "begun" => upper[call.name] = Torn /\ ~StartsEmpty
    /\ copy = "done" => upper[call.name] = IF StartsEmpty THEN Empty ELSE call.name
    /\ copy # "no" /\ call.op = "open" => ~call.conf.createNew

LEMMA CopyStep == TypeOK /\ CopySoFar /\ [Next]_vars => CopySoFar'
<1> SUFFICES ASSUME TypeOK, CopySoFar, [Next]_vars PROVE CopySoFar'
    OBVIOUS
<1> USE OverlayAssumption DEF TypeOK, Called, CopySoFar
<1>1. ASSUME NEW r \in Requests, Call(r) PROVE CopySoFar'
    BY <1>1 DEF Call
<1>2. ASSUME CopyBegins PROVE CopySoFar'
    BY <1>2 DEF CopyBegins, StartsEmpty, Requests
<1>3. ASSUME CopyReturns PROVE CopySoFar'
    BY <1>3 DEF CopyReturns, StartsEmpty, Lower
<1>4. ASSUME OpenRefused \/ Open \/ Rename \/ OpenToRead \/ RemoveFile \/ CreateDir \/ Crash
      PROVE  CopySoFar'
    BY <1>4 DEF OpenRefused, Open, Rename, OpenToRead, RemoveFile, CreateDir, Crash, Return
<1>5. ASSUME UNCHANGED vars PROVE CopySoFar'
    BY <1>5 DEF vars, StartsEmpty
<1> QED BY <1>1, <1>2, <1>3, <1>4, <1>5 DEF Next

(* The step of the abstract directory that each step of the overlay is.    *)
LEMMA StepRefines ==
    TypeOK /\ TypeOK' /\ CopySoFar /\ [Next]_vars => [Guest!Next]_(Guest!directory)
<1> SUFFICES ASSUME TypeOK, TypeOK', CopySoFar, [Next]_vars PROVE [Guest!Next]_(Guest!directory)
    OBVIOUS
<1> USE OverlayAssumption DEF TypeOK, Called, Guest!Asked, Guest!Answer
<1>1. ASSUME NEW r \in Requests, Call(r) PROVE Guest!Ask(r)
  <2>1. copy = "no" /\ copy' = "no"
    BY <1>1 DEF Call
  <2>2. \A n \in Names : Promised(n)' = Promised(n)
    BY <1>1, <2>1 DEF Call, Promised, View
  <2> QED BY <1>1, <2>2 DEF Call, Guest!Ask, VisibleDirs
<1>2. ASSUME OpenRefused PROVE Guest!OpenToChange
  <2>1. \A n \in Names : Promised(n)' = Promised(n)
    BY <1>2 DEF OpenRefused, Return, Promised, View
  <2>2. call.name \in Names /\ call.name \in TemplateFiles
    BY <1>2 DEF OpenRefused, NeedsCopy, Lower, Requests
  <2> QED BY <1>2, <2>1, <2>2 DEF OpenRefused, Return, Guest!OpenToChange, Guest!Seen, VisibleDirs
<1>3. ASSUME CopyBegins PROVE UNCHANGED Guest!directory
  <2>1. \A n \in Names : Promised(n)' = Promised(n)
    BY <1>3 DEF CopyBegins, NeedsCopy, Promised, View
  <2>2. VisibleDirs' = VisibleDirs
    BY <1>3 DEF CopyBegins, NeedsCopy, Lower, VisibleDirs, WithParent
  <2> QED BY <1>3, <2>1, <2>2 DEF CopyBegins, Guest!directory
<1>4. ASSUME CopyReturns PROVE UNCHANGED Guest!directory
  <2>1. \A n \in Names : Promised(n)' = Promised(n)
    BY <1>4 DEF CopyReturns, Promised, View
  <2> QED BY <1>4, <2>1 DEF CopyReturns, Guest!directory, VisibleDirs
<1>5. ASSUME Open PROVE Guest!OpenToChange
  <2>1. /\ call.name \in Names /\ call.conf \in Flags /\ call.data \in Data \cup {Absent}
        /\ Called("open")
    BY <1>5 DEF Open, Requests
  <2>2. PICK n \in Names : n = call.name
    BY <2>1
  <2> DEFINE old == IF Promised(n) = Absent /\ n \in TemplateFiles THEN n ELSE Promised(n)
             made == Guest!Opened(old, call.conf, call.data)
  <2>3. \A x \in Names : Promised(x)' = View(x)'
    BY <1>5 DEF Open, Return, Promised
  <2>4. \A x \in Names : x # n => Promised(x)' = Promised(x)
    BY <1>5, <2>2, <2>3 DEF Open, Promised, View
  <2>5. old = Guest!Seen(n)
    BY DEF Guest!Seen
  <2>6. ASSUME Promised(n)' = made
        PROVE  [x \in Names |-> Promised(x)]' = [[x \in Names |-> Promised(x)] EXCEPT ![n] = made]
    BY <2>4, <2>6
  <2>7. CASE copy = "no"
    <3>1. old = upper[n] /\ Promised(n) = upper[n]
        BY <1>5, <2>2, <2>7 DEF Open, UpperEnsured, NeedsCopy, Promised, View, Lower
    <3>2. VisibleDirs' = VisibleDirs
        BY <1>5, <2>1 DEF Open, VisibleDirs, WithParent, HasParent
    <3>3. CASE UNCHANGED upper
      <4>1. Promised(n)' = Promised(n)
        BY <1>5, <2>3, <2>7, <3>3 DEF Open, View, Promised
      <4>2. UNCHANGED [x \in Names |-> Promised(x)]
        BY <2>4, <4>1
      <4>3. CASE Return("ok")
        <5>1. upper'[n] = made /\ upper[n] # Absent
            BY <1>5, <2>1, <2>2, <3>1, <3>3, <4>3 DEF Open, Return, Guest!Opened
        <5>2. Promised(n)' = made
            BY <3>1, <3>3, <4>1, <5>1
        <5>3. ~call.conf.createNew
            BY <1>5, <2>2, <4>3, <5>1 DEF Open, Return
        <5> QED BY <2>1, <2>2, <2>5, <2>6, <3>1, <3>2, <4>3, <5>1, <5>2, <5>3
                DEF Return, Guest!OpenToChange
      <4>4. CASE ~Return("ok")
        <5>1. \/ /\ upper[n] = Absent /\ (Creates => DirOf[n] \notin VisibleDirs) /\ Return("missing")
              \/ upper[n] # Absent /\ call.conf.createNew /\ Return("exists")
            BY <1>5, <2>2, <4>4 DEF Open, HasParent
        <5> QED BY <2>1, <2>2, <2>5, <3>1, <3>2, <4>2, <5>1 DEF Return, Creates, Guest!OpenToChange
      <4> QED BY <4>3, <4>4
    <3>4. CASE ~UNCHANGED upper
      <4>1. /\ IF upper[n] = Absent THEN Creates /\ DirOf[n] \in VisibleDirs ELSE ~call.conf.createNew
            /\ upper'[n] = made /\ Return("ok")
        BY <1>5, <2>2, <3>1, <3>4 DEF Open, HasParent, Guest!Opened
      <4>2. upper'[n] # Absent
        BY <2>1, <3>1, <4>1 DEF Guest!Opened
      <4>3. Promised(n)' = made
        BY <2>3, <4>1, <4>2 DEF View
      <4> QED BY <2>1, <2>2, <2>5, <2>6, <3>1, <3>2, <4>1, <4>3 DEF Return, Creates, Guest!OpenToChange
    <3> QED BY <3>3, <3>4
  <2>8. CASE copy # "no"
    <3>1. /\ n \in TemplateFiles /\ old = n /\ upper[n] = IF StartsEmpty THEN Empty ELSE n
          /\ upper[n] # Absent /\ ~call.conf.createNew
        BY <1>5, <2>1, <2>2, <2>8 DEF Open, UpperEnsured, Promised, Lower, CopySoFar
    <3>2. VisibleDirs' = VisibleDirs
        BY <1>5, <2>1, <2>2, <3>1 DEF Open, VisibleDirs, WithParent
    <3>3. upper'[n] = made /\ Return("ok")
        BY <1>5, <2>1, <2>2, <3>1 DEF Open, StartsEmpty, Guest!Opened
    <3>4. upper'[n] # Absent
        BY <2>1, <3>1, <3>3 DEF Guest!Opened
    <3>5. Promised(n)' = made
        BY <2>3, <3>3, <3>4 DEF View
    <3> QED BY <2>1, <2>2, <2>5, <2>6, <3>1, <3>2, <3>3, <3>5 DEF Return, Guest!OpenToChange
  <2> QED BY <2>7, <2>8
<1>6. ASSUME Rename PROVE Guest!Rename
  <2>1. call.name \in Names /\ call.to \in Names /\ call.name # call.to /\ Called("rename")
    BY <1>6 DEF Rename, Requests
  <2>2. PICK from \in Names, to \in Names : from = call.name /\ to = call.to /\ from # to
    BY <2>1
  <2> DEFINE old == IF Promised(from) = Absent /\ from \in TemplateFiles THEN from ELSE Promised(from)
  <2>3. \A x \in Names : Promised(x)' = View(x)'
    BY <1>6 DEF Rename, Return, Promised
  <2>4. \A x \in Names : x # from => Promised(x) = View(x)
    BY <2>2 DEF Promised
  <2>5. old = upper[from] /\ old = Guest!Seen(from) /\ (copy = "no" => Promised(from) = upper[from])
    BY <1>6, <2>1, <2>2
    DEF Rename, UpperEnsured, NeedsCopy, StartsEmpty, Promised, View, Lower, CopySoFar, Guest!Seen
  <2>6. VisibleDirs' = VisibleDirs
    BY <1>6, <2>1 DEF Rename, VisibleDirs, WithParent, HasParent
  <2>7. CASE upper[from] = Absent
    <3>1. Return("missing") /\ UNCHANGED <<upper, whiteouts>>
        BY <1>6, <2>2, <2>7 DEF Rename
    <3>2. \A x \in Names : Promised(x)' = Promised(x)
        BY <2>2, <2>3, <2>7, <3>1 DEF Promised, View
    <3> QED BY <2>1, <2>2, <2>5, <2>6, <2>7, <3>1, <3>2 DEF Return, Guest!Rename
  <2>8. CASE upper[from] # Absent /\ ~HasParent(to)
    <3>1. Return("missing") /\ UNCHANGED <<upper, whiteouts>>
        BY <1>6, <2>2, <2>8 DEF Rename
    <3>2. /\ Promised(from)' = old
          /\ \A x \in Names : x # from => Promised(x)' = Promised(x)
        BY <2>3, <2>4, <2>5, <2>8, <3>1 DEF View
    <3>3. [x \in Names |-> Promised(x)]' = [[x \in Names |-> Promised(x)] EXCEPT ![from] = old]
        BY <3>2
    <3> QED BY <2>1, <2>2, <2>5, <2>6, <2>8, <3>1, <3>3 DEF Return, HasParent, Guest!Rename
  <2>9. CASE upper[from] # Absent /\ HasParent(to)
    <3>1. /\ Return("ok") /\ upper' = [upper EXCEPT ![from] = Absent, ![to] = upper[from]]
          /\ whiteouts' = (whiteouts \cup ({from} \cap TemplateFiles)) \ {to}
        BY <1>6, <2>2, <2>9 DEF Rename
    <3>2. Promised(from)' = Absent /\ Promised(to)' = old
        BY <2>2, <2>3, <2>5, <2>9, <3>1 DEF View, Lower
    <3>3. \A x \in Names : x # from /\ x # to => Promised(x)' = Promised(x)
        BY <2>3, <2>4, <3>1 DEF View
    <3>4. [x \in Names |-> Promised(x)]' =
                [[x \in Names |-> Promised(x)] EXCEPT ![from] = Absent, ![to] = old]
        BY <2>2, <3>2, <3>3
    <3> QED BY <2>1, <2>2, <2>5, <2>6, <2>9, <3>1, <3>4 DEF Return, HasParent, Guest!Rename
  <2> QED BY <2>7, <2>8, <2>9
<1>7. ASSUME OpenToRead PROVE Guest!OpenToRead
  <2>1. \A n \in Names : Promised(n)' = Promised(n) /\ Promised(n) = View(n)
    BY <1>7 DEF OpenToRead, Return, Promised, View
  <2>2. call.name \in Names
    BY <1>7 DEF OpenToRead, Requests
  <2> QED BY <1>7, <2>1, <2>2 DEF OpenToRead, Return, Guest!OpenToRead, VisibleDirs
<1>8. ASSUME RemoveFile PROVE Guest!Remove
  <2>1. call.name \in Names /\ copy = "no"
    BY <1>8 DEF RemoveFile, Requests
  <2>2. \A n \in Names : Promised(n) = View(n) /\ Promised(n)' = View(n)'
    BY <1>8, <2>1 DEF RemoveFile, Return, Promised, View
  <2>3. \A n \in Names : View(n)' = IF n = call.name THEN Absent ELSE View(n)
    BY <1>8, <2>1 DEF RemoveFile, View, Lower
  <2> QED BY <1>8, <2>1, <2>2, <2>3 DEF RemoveFile, Return, Guest!Remove, VisibleDirs
<1>9. ASSUME CreateDir PROVE Guest!MakeDir
  <2>1. \A n \in Names : Promised(n)' = Promised(n)
    BY <1>9 DEF CreateDir, Return, Promised, View
  <2> QED BY <1>9, <2>1 DEF CreateDir, Return, Guest!MakeDir, VisibleDirs
<1>10. ASSUME Crash PROVE Guest!Crash
  <2>1. \A x \in Names : Promised(x)' = View(x)
    BY <1>10 DEF Crash, Return, Promised, View, Lower
  <2>2. CASE copy = "no"
    <3>1. \A x \in Names : Promised(x)' = Promised(x)
        BY <2>1, <2>2 DEF Promised
    <3> QED BY <1>10, <3>1 DEF Crash, Return, Guest!Crash, VisibleDirs
  <2>3. CASE copy # "no"
    <3>1. PICK n \in Names : n = call.name /\ n \in TemplateFiles
        BY <2>3
    <3>2. View(n) \in {n, Empty, Torn}
        BY <2>3, <3>1 DEF View, CopySoFar
    <3>3. Guest!Seen(n) = n
        BY <2>3, <3>1 DEF Promised, Lower, Guest!Seen
    <3>4. \A x \in Names : x # n => Promised(x)' = Promised(x)
        BY <2>1, <3>1 DEF Promised
    <3>5. [x \in Names |-> Promised(x)]' = [[x \in Names |-> Promised(x)] EXCEPT ![n] = View(n)]
        BY <2>1, <3>4
    <3>6. (Called("open") \/ Called("rename")) /\ UNCHANGED VisibleDirs /\ Return("none")
        BY <1>10, <2>3 DEF Crash, VisibleDirs
    <3> QED BY <3>1, <3>2, <3>3, <3>5, <3>6 DEF Return, Guest!Crash
  <2> QED BY <2>2, <2>3
<1>11. ASSUME UNCHANGED vars PROVE UNCHANGED Guest!directory
    BY <1>11 DEF vars, Guest!directory, Promised, View, VisibleDirs
<1> QED BY <1>1, <1>2, <1>3, <1>4, <1>5, <1>6, <1>7, <1>8, <1>9, <1>10, <1>11 DEF Next, Guest!Next

(* PostgreSQL sees one directory through the overlay: every step is a step *)
(* of module Directory or a stutter, for any template, files and flags.    *)
THEOREM Refinement == Spec => ImplementsDirectory
<1>1. Init => TypeOK /\ CopySoFar /\ Guest!Init
    BY OverlayAssumption
    DEF Init, TypeOK, Contents, Called, CopySoFar, Guest!Init, Promised, View, Lower, VisibleDirs
<1>2. TypeOK /\ CopySoFar /\ [Next]_vars => (TypeOK /\ CopySoFar)'
    BY TypeStep, CopyStep
<1>3. TypeOK /\ TypeOK' /\ CopySoFar /\ [Next]_vars => [Guest!Next]_(Guest!directory)
    BY StepRefines
<1> QED BY <1>1, <1>2, <1>3, PTL DEF Spec, ImplementsDirectory, Guest!Spec
=============================================================================
