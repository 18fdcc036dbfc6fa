--------------------------- MODULE ColdStartProofs ---------------------------
(***************************************************************************)
(* Proofs about ColdStart, for any number of processes, threads, files and *)
(* artifacts: both caches are well formed with their locks held where the  *)
(* code relies on them, the shared runtime that a process was given is     *)
(* whole, and a module fails to load only when others spoiled its file.    *)
(***************************************************************************)
EXTENDS ColdStart, TLAPS

-----------------------------------------------------------------------------
(* The runtime cache.                                                      *)

AllWhole == \A i \in Files : content[i] = "whole"
Unpacking(p) == runtime[p].step \in {"unpack", "writing"}

(* What each stage knows of the directory, as long as no unpacking was cut *)
(* short unnoticed: who unpacks has written the files before the next one  *)
(* and nobody uses the runtime meanwhile; when nobody unpacks, a directory *)
(* that passes the check is whole.                                         *)
Known ==
    /\ \A p \in Processes : runtime[p].step \in {"reset", "ok"} => AllWhole
    /\ \A p \in Processes : Unpacking(p) =>
        /\ \A i \in Files : i < runtime[p].next => content[i] = "whole"
        /\ \A q \in Processes : runtime[q].step # "ok"
    /\ (\A p \in Processes : ~Unpacking(p)) => AllWhole \/ ~Located \/ NeedsRepair

WritingInFiles == \A p \in Processes : runtime[p].step = "writing" => runtime[p].next \in Files

RuntimeInv == RuntimeTypeOK /\ WritingInFiles /\ (cut \/ Known)

RuntimeNext ==
    \/ \E p \in Processes : AskRuntime(p) \/ RuntimeFails(p) \/ RuntimeStep(p) \/ RuntimeDies(p)
    \/ UNCHANGED runtimeVars

(* A new user's cache is empty or whole.                                   *)
LEMMA RuntimeStarts == RuntimeInit => RuntimeInv
<1> SUFFICES ASSUME RuntimeInit PROVE RuntimeInv
    OBVIOUS
<1> USE RuntimeAssumption DEF RuntimeInit, Files
<1>1. RuntimeTypeOK /\ WritingInFiles
  <2>1. runtime \in [Processes -> [step : {"new"}, next : 1 .. Size + 1]]
    OBVIOUS
  <2>2. cut \in BOOLEAN /\ content \in [Files -> {"none", "torn", "whole"}]
    OBVIOUS
  <2> QED BY <2>1, <2>2 DEF RuntimeTypeOK, WritingInFiles
<1>2. Known
    BY DEF Known, Unpacking, AllWhole, Located, NeedsRepair
<1> QED BY <1>1, <1>2 DEF RuntimeInv

(* The steps keep the types and the file lock's discipline.                *)
LEMMA RuntimeTypeStep ==
    ASSUME RuntimeTypeOK, WritingInFiles, RuntimeNext
    PROVE  RuntimeTypeOK' /\ WritingInFiles'
<1> USE RuntimeAssumption DEF RuntimeTypeOK, WritingInFiles, Files, Step, Goes
<1>1. ASSUME NEW p \in Processes, AskRuntime(p) PROVE RuntimeTypeOK' /\ WritingInFiles'
    BY <1>1 DEF AskRuntime
<1>2. ASSUME NEW p \in Processes, TakeCacheLock(p) PROVE RuntimeTypeOK' /\ WritingInFiles'
    BY <1>2 DEF TakeCacheLock
<1>3. ASSUME NEW p \in Processes, Locate(p) PROVE RuntimeTypeOK' /\ WritingInFiles'
    BY <1>3 DEF Locate
<1>4. ASSUME NEW p \in Processes, UnpackBegins(p) PROVE RuntimeTypeOK' /\ WritingInFiles'
    BY <1>4 DEF UnpackBegins
<1>5. ASSUME NEW p \in Processes, UnpackEnds(p) PROVE RuntimeTypeOK' /\ WritingInFiles'
  <2>1. runtime[p].next + 1 \in 1 .. Size + 1
    BY <1>5 DEF UnpackEnds
  <2> QED BY <1>5, <2>1 DEF UnpackEnds
<1>6. ASSUME NEW p \in Processes, Unpacked(p) PROVE RuntimeTypeOK' /\ WritingInFiles'
    BY <1>6 DEF Unpacked
<1>7. ASSUME NEW p \in Processes, Reset(p) PROVE RuntimeTypeOK' /\ WritingInFiles'
  <2>1. cut' \in BOOLEAN
    BY <1>7 DEF Reset
  <2> QED BY <1>7, <2>1 DEF Reset, Answer
<1>10. ASSUME NEW p \in Processes, RuntimeFails(p) PROVE RuntimeTypeOK' /\ WritingInFiles'
  <2>1. cut' \in BOOLEAN
    BY <1>10 DEF RuntimeFails
  <2> QED BY <1>10, <2>1 DEF RuntimeFails, Answer
<1>8. ASSUME NEW p \in Processes, RuntimeDies(p) PROVE RuntimeTypeOK' /\ WritingInFiles'
    BY <1>8 DEF RuntimeDies
<1>9. ASSUME UNCHANGED runtimeVars PROVE RuntimeTypeOK' /\ WritingInFiles'
    BY <1>9 DEF runtimeVars
<1> QED BY <1>1, <1>2, <1>3, <1>4, <1>5, <1>6, <1>7, <1>8, <1>9, <1>10 DEF RuntimeNext, RuntimeStep

(* The steps keep what each stage knows.                                   *)
LEMMA KnownStep ==
    ASSUME RuntimeInv, RuntimeTypeOK', RuntimeNext
    PROVE  cut' \/ Known'
<1> USE RuntimeAssumption DEF Files, Step, Goes
<1>0. CASE cut
  <2> USE <1>0
  <2> SUFFICES cut' = cut \/ \E p \in Processes : cut' = (cut \/ CutShort(p))
    OBVIOUS
  <2> QED BY DEF RuntimeNext, RuntimeStep, AskRuntime, RuntimeFails, RuntimeDies, TakeCacheLock,
             Locate, UnpackBegins, UnpackEnds, Unpacked, Reset, runtimeVars
<1> SUFFICES ASSUME ~cut, Known, ~cut' PROVE Known'
    BY <1>0 DEF RuntimeInv
<1> USE DEF RuntimeInv, RuntimeTypeOK, WritingInFiles
<1>1. ASSUME NEW p \in Processes, AskRuntime(p) PROVE Known'
    BY <1>1 DEF AskRuntime, Known, Unpacking, AllWhole, Located, NeedsRepair
<1>2. ASSUME NEW p \in Processes, TakeCacheLock(p) PROVE Known'
    BY <1>2 DEF TakeCacheLock, Known, Unpacking, AllWhole, Located, NeedsRepair
<1>3. ASSUME NEW p \in Processes, Locate(p) PROVE Known'
  <2>1. \A q \in Processes : ~Unpacking(q)
    BY <1>3 DEF Locate, Unpacking
  <2>2. CASE Located /\ ~NeedsRepair
    BY <1>3, <2>1, <2>2 DEF Locate, Known, Unpacking, AllWhole, Located, NeedsRepair
  <2>3. CASE ~(Located /\ ~NeedsRepair)
    <3>1. ~AllWhole
        BY <2>3 DEF AllWhole, Located, NeedsRepair
    <3>2. \A q \in Processes : runtime'[q].step \notin {"reset", "ok"}
        BY <1>3, <2>3, <3>1 DEF Known, Locate
    <3>3. runtime' = [runtime EXCEPT ![p] = [step |-> "unpack", next |-> 1]] /\ content' = content
        BY <1>3, <2>3 DEF Locate
    <3> QED BY <2>1, <3>2, <3>3 DEF Known, Unpacking, AllWhole
  <2> QED BY <2>2, <2>3
<1>4. ASSUME NEW p \in Processes, UnpackBegins(p) PROVE Known'
  <2>1. \A q \in Processes : q # p => ~Unpacking(q)
    BY <1>4 DEF UnpackBegins, Unpacking
  <2>2. \A q \in Processes : runtime'[q].step \notin {"reset", "ok"}
    BY <1>4 DEF UnpackBegins, Known, Unpacking
  <2>3. /\ Unpacking(p)' /\ runtime'[p].next = runtime[p].next
        /\ \A q \in Processes : q # p => ~Unpacking(q)'
    BY <1>4, <2>1 DEF UnpackBegins, Unpacking
  <2>4. \A i \in Files : i < runtime[p].next => content'[i] = "whole"
    BY <1>4 DEF UnpackBegins, Known, Unpacking
  <2> QED BY <2>2, <2>3, <2>4 DEF Known
<1>5. ASSUME NEW p \in Processes, UnpackEnds(p) PROVE Known'
    BY <1>5 DEF UnpackEnds, Known, Unpacking, AllWhole, Located, NeedsRepair
<1>6. ASSUME NEW p \in Processes, Unpacked(p) PROVE Known'
  <2>1. AllWhole
    BY <1>6 DEF Unpacked, Known, Unpacking, AllWhole
  <2> QED BY <1>6, <2>1 DEF Unpacked, Known, Unpacking, AllWhole, Located, NeedsRepair
<1>7. ASSUME NEW p \in Processes, Reset(p) PROVE Known'
    BY <1>7 DEF Reset, Answer, Known, Unpacking, AllWhole, Located, NeedsRepair
<1>8. ASSUME NEW p \in Processes, RuntimeFails(p) \/ RuntimeDies(p) PROVE Known'
  <2>1. content' = content /\ ~CutShort(p)
    BY <1>8 DEF RuntimeFails, RuntimeDies, Answer
  <2>2. \E s \in {"error", "new"} : runtime' = [runtime EXCEPT ![p] = [step |-> s, next |-> 1]]
    BY <1>8 DEF RuntimeFails, RuntimeDies, Answer
  <2>3. \A q \in Processes : Unpacking(p) /\ Unpacking(q) => q = p
    BY DEF Unpacking
  <2>4. Unpacking(p) => AllWhole \/ ~Located \/ NeedsRepair
    BY <2>1 DEF CutShort, Known, Unpacking, AllWhole
  <2> QED BY <2>1, <2>2, <2>3, <2>4 DEF Known, Unpacking, AllWhole, Located, NeedsRepair
<1>9. ASSUME UNCHANGED runtimeVars PROVE Known'
    BY <1>9 DEF runtimeVars, Known, Unpacking, AllWhole, Located, NeedsRepair
<1> QED BY <1>1, <1>2, <1>3, <1>4, <1>5, <1>6, <1>7, <1>8, <1>9 DEF RuntimeNext, RuntimeStep

(* The invariant of the runtime cache is inductive.                        *)
LEMMA RuntimeKept == RuntimeInv /\ RuntimeNext => RuntimeInv'
<1> SUFFICES ASSUME RuntimeInv, RuntimeNext PROVE RuntimeInv'
    OBVIOUS
<1>1. RuntimeTypeOK' /\ WritingInFiles'
    BY RuntimeTypeStep DEF RuntimeInv
<1>2. cut' \/ Known'
    BY <1>1, KnownStep
<1> QED BY <1>1, <1>2 DEF RuntimeInv

(* A step of the whole is a step or a stutter of the runtime cache.        *)
LEMMA NextIsRuntimeNext == [Next]_vars => RuntimeNext
BY DEF Next, vars, RuntimeNext, runtimeVars, moduleVars, Die

(* A process that has the shared runtime has all of it (base.rs,           *)
(* ensure_full_runtime), for an archive of any size, wherever builders are *)
(* killed, unless an unpacking was cut short when every file that is       *)
(* looked at existed.                                                      *)
THEOREM RuntimeIsWhole == Spec => []RuntimeWhole
<1>1. Init => RuntimeInv
    BY RuntimeStarts DEF Init
<1>2. RuntimeInv /\ [Next]_vars => RuntimeInv'
    BY RuntimeKept, NextIsRuntimeNext
<1>3. RuntimeInv => RuntimeWhole
    BY DEF RuntimeInv, RuntimeWhole, Known, AllWhole
<1> QED BY <1>1, <1>2, <1>3, PTL DEF Spec
-----------------------------------------------------------------------------
(* The module cache.                                                       *)

ModuleNext ==
    \/ \E t \in Threads : \E a \in Artifacts : LoadArtifactModule(t, a)
    \/ \E t \in Threads : WriteFails(t) \/ ModuleStep(t)
    \/ \E a \in Artifacts : Damage(a)
    \/ \E p \in Processes : ModulesDie(p)
    \/ UNCHANGED moduleVars

(* A step of the whole is a step or a stutter of the module cache.         *)
LEMMA NextIsModuleNext == [Next]_vars => ModuleNext
BY DEF Next, vars, ModuleNext, runtimeVars, moduleVars, Die, Loading

Steps == Installing \cup Opening \cup {"idle", "seed", "check", "install", "modules"}

(* Nothing is locked at the start.                                         *)
LEMMA ModuleTypeStarts == ModuleInit => ModuleTypeOK
<1> SUFFICES ASSUME ModuleInit PROVE ModuleTypeOK
    OBVIOUS
<1> USE ModuleAssumption DEF ModuleInit
<1>1. memory \in [ProcessIds -> Statics]
    BY DEF NewStatics, Statics
<1>2. load \in [Threads -> LoadStates]
    BY DEF LoadStates
<1>3. ModuleTypes
    BY <1>1, <1>2 DEF ModuleTypes
<1>4. MutexesHeld
    BY DEF MutexesHeld, NewStatics, ProcessIds, At, Want, Mine, Installing, Opening
<1> QED BY <1>3, <1>4 DEF ModuleTypeOK

(* What the parts of the actions do to a thread's state and the statics.   *)

(* Goto changes the step of one thread.                                    *)
LEMMA GotoEffect ==
    ASSUME ModuleTypes, NEW t \in Threads, NEW s \in Steps, Goto(t, s)
    PROVE  /\ load' \in [Threads -> LoadStates]
           /\ load'[t].step = s /\ load'[t].want = load[t].want /\ load'[t].again = load[t].again
           /\ load'[t].disturbed = load[t].disturbed /\ load'[t].failed = load[t].failed
           /\ \A u \in Threads : u # t => load'[u] = load[u]
<1>1. load'[t] = [load[t] EXCEPT !.step = s] /\ load[t] \in LoadStates
    BY DEF Goto, ModuleTypes
<1>2. load'[t] \in LoadStates
    BY <1>1 DEF LoadStates, Steps
<1>3. \A u \in Threads : u # t => load'[u] = load[u]
    BY DEF Goto, ModuleTypes
<1>4. load' \in [Threads -> LoadStates]
    BY <1>2 DEF Goto, ModuleTypes
<1> QED BY <1>1, <1>3, <1>4 DEF LoadStates

(* A thread that has ended its call.                                       *)
LEMMA IdleEffect ==
    ASSUME ModuleTypes, NEW t \in Threads, NEW d \in SUBSET Artifacts,
           NEW a \in Artifacts \cup {NoThread},
           load' = [load EXCEPT ![t] = [Idle(t) EXCEPT !.failed = a, !.disturbed = d]]
    PROVE  /\ load' \in [Threads -> LoadStates]
           /\ load'[t].step = "idle" /\ load'[t].again = FALSE
           /\ load'[t].disturbed = d /\ load'[t].failed = a
           /\ \A u \in Threads : u # t => load'[u] = load[u]
<1>0. load[t] \in LoadStates /\ Spoiled(t) \in SUBSET Artifacts
    BY DEF ModuleTypes, LoadStates, Spoiled
<1>1. Idle(t) \in LoadStates /\ Idle(t).step = "idle" /\ Idle(t).again = FALSE
    BY <1>0 DEF LoadStates, Idle
<1> DEFINE r == [Idle(t) EXCEPT !.failed = a, !.disturbed = d]
<1>2. /\ r \in LoadStates /\ r.step = "idle" /\ r.again = FALSE
      /\ r.disturbed = d /\ r.failed = a
    BY <1>1 DEF LoadStates
<1>3. load' = [load EXCEPT ![t] = r]
    OBVIOUS
<1> HIDE DEF r
<1> QED BY <1>2, <1>3 DEF ModuleTypes

(* Keep changes the statics of one process.                                *)
LEMMA KeepEffect ==
    ASSUME ModuleTypes, NEW t \in Threads, NEW m \in Statics, Keep(t, m)
    PROVE  /\ memory' \in [ProcessIds -> Statics]
           /\ \A u \in Threads : memory'[ProcessOf[u]] =
                IF ProcessOf[u] = ProcessOf[t] THEN m ELSE memory[ProcessOf[u]]
           /\ \A p \in ProcessIds : p # ProcessOf[t] => memory'[p] = memory[p]
BY DEF ModuleTypes, Keep, ProcessIds

(* The guards are dropped and nothing else.                                *)
LEMMA FreedEffect ==
    ASSUME NEW m \in Statics, NEW t \in Threads
    PROVE  /\ Freed(t, m) \in Statics
           /\ Freed(t, m).installed = m.installed
           /\ Freed(t, m).modules = m.modules /\ Freed(t, m).seeded = m.seeded
           /\ Freed(t, m).installLock = Free(m.installLock, t)
           /\ Freed(t, m).moduleLock = Free(m.moduleLock, t)
           /\ Freed(t, m).seedLock = Free(m.seedLock, t)
BY ModuleAssumption DEF Freed, Free, Statics

(* A thread goes on without a change of the statics.                       *)
LEMMA GotoHeld ==
    ASSUME ModuleTypeOK, NEW t \in Threads, NEW s \in Steps, Goto(t, s), UNCHANGED memory,
           ~At(t, "idle"), s \in Installing => load[t].step \in Installing,
           s \in Opening => load[t].step \in Opening \/ load[t].again
    PROVE  MutexesHeld'
<1>1. /\ load'[t].step = s /\ load'[t].want = load[t].want /\ load'[t].again = load[t].again
      /\ \A u \in Threads : u # t => load'[u] = load[u]
    BY GotoEffect DEF ModuleTypeOK
<1> QED BY <1>1 DEF ModuleTypeOK, MutexesHeld, At, Want, Mine

(* A thread goes on and changes the statics of its process.                *)
LEMMA MovesHeld ==
    ASSUME ModuleTypeOK, NEW t \in Threads, NEW m \in Statics, Keep(t, m), ~At(t, "idle"),
           NEW s \in Steps, load'[t].step = s, load'[t].want = load[t].want,
           \A u \in Threads : u # t => load'[u] = load[u],
           m.installLock \in {t, Mine(t).installLock, NoThread},
           m.installLock = t => Mine(t).installLock \in {t, NoThread},
           m.installLock = NoThread => Mine(t).installLock \in {t, NoThread},
           m.moduleLock \in {t, Mine(t).moduleLock},
           m.moduleLock = t => Mine(t).moduleLock \in {t, NoThread},
           m.seedLock \in {t, Mine(t).seedLock},
           s \in Installing => m.installLock = t,
           s \in Opening \/ load'[t].again => m.moduleLock = t
    PROVE  MutexesHeld'
<1>1. /\ memory'[ProcessOf[t]] = m
      /\ \A u \in Threads :
            ProcessOf[u] # ProcessOf[t] => memory'[ProcessOf[u]] = memory[ProcessOf[u]]
      /\ \A u \in Threads : ProcessOf[u] = ProcessOf[t] => memory'[ProcessOf[u]] = m
      /\ \A p \in ProcessIds : p # ProcessOf[t] => memory'[p] = memory[p]
    BY KeepEffect DEF ModuleTypeOK
<1>2. ProcessOf[t] \in ProcessIds /\ NoThread \notin Threads
    BY ModuleAssumption DEF ProcessIds
<1>3. ASSUME NEW u \in Threads
      PROVE  /\ (load[u].step # "idle" => load[u].want \in Artifacts)'
             /\ (load[u].step \in Installing => memory[ProcessOf[u]].installLock = u)'
             /\ (load[u].step \in Opening \/ load[u].again => memory[ProcessOf[u]].moduleLock = u)'
  <2>1. CASE u = t
    BY <1>1, <2>1 DEF ModuleTypeOK, MutexesHeld, At, Want, Mine
  <2>2. CASE u # t
    BY <1>1, <1>2, <2>2 DEF ModuleTypeOK, MutexesHeld, At, Want, Mine
  <2> QED BY <2>1, <2>2
<1>4. ASSUME NEW p \in ProcessIds, NEW u \in Threads,
             u \in {memory'[p].installLock, memory'[p].moduleLock, memory'[p].seedLock}
      PROVE  ProcessOf[u] = p
    BY <1>1, <1>2, <1>4 DEF ModuleTypeOK, MutexesHeld, Mine
<1> QED BY <1>3, <1>4 DEF MutexesHeld, At, Want, Mine

(* A call returns and drops the thread's guards.                           *)
LEMMA EndsHeld ==
    ASSUME ModuleTypeOK, NEW t \in Threads, NEW m \in Statics, Keep(t, m),
           load'[t].step = "idle", load'[t].again = FALSE,
           \A u \in Threads : u # t => load'[u] = load[u],
           m.installLock = Free(Mine(t).installLock, t),
           m.moduleLock = Free(Mine(t).moduleLock, t),
           m.seedLock = Free(Mine(t).seedLock, t)
    PROVE  MutexesHeld'
<1>1. /\ memory'[ProcessOf[t]] = m
      /\ \A u \in Threads :
            ProcessOf[u] # ProcessOf[t] => memory'[ProcessOf[u]] = memory[ProcessOf[u]]
      /\ \A u \in Threads : ProcessOf[u] = ProcessOf[t] => memory'[ProcessOf[u]] = m
      /\ \A p \in ProcessIds : p # ProcessOf[t] => memory'[p] = memory[p]
    BY KeepEffect DEF ModuleTypeOK
<1>2. ProcessOf[t] \in ProcessIds /\ NoThread \notin Threads
    BY ModuleAssumption DEF ProcessIds
<1>3. ASSUME NEW u \in Threads
      PROVE  /\ (load[u].step # "idle" => load[u].want \in Artifacts)'
             /\ (load[u].step \in Installing => memory[ProcessOf[u]].installLock = u)'
             /\ (load[u].step \in Opening \/ load[u].again => memory[ProcessOf[u]].moduleLock = u)'
  <2>1. CASE u = t
    BY <1>1, <2>1 DEF Installing, Opening
  <2>2. CASE u # t
    BY <1>1, <1>2, <2>2 DEF ModuleTypeOK, MutexesHeld, At, Want, Mine, Free
  <2> QED BY <2>1, <2>2
<1>4. ASSUME NEW p \in ProcessIds, NEW u \in Threads,
             u \in {memory'[p].installLock, memory'[p].moduleLock, memory'[p].seedLock}
      PROVE  ProcessOf[u] = p
    BY <1>1, <1>2, <1>4 DEF ModuleTypeOK, MutexesHeld, Mine, Free
<1> QED BY <1>3, <1>4 DEF MutexesHeld, At, Want, Mine

(* A call that ends, in one of the three ways.                             *)
LEMMA EndEffect ==
    ASSUME ModuleTypes, NEW t \in Threads, Want(t) \in Artifacts, Returns(t) \/ Fails(t) \/ Has(t)
    PROVE  /\ load' \in [Threads -> LoadStates]
           /\ load'[t].step = "idle" /\ load'[t].again = FALSE
           /\ load'[t].failed # NoThread =>
                Fails(t) /\ load'[t].failed = Want(t) /\ load'[t].disturbed = load[t].disturbed
           /\ ProcessOf[t] \in Full => load'[t].disturbed = load[t].disturbed
           /\ \A u \in Threads : u # t => load'[u] = load[u]
           /\ \E m \in Statics :
                /\ Keep(t, m) /\ m.installed = Mine(t).installed
                /\ m.installLock = Free(Mine(t).installLock, t)
                /\ m.moduleLock = Free(Mine(t).moduleLock, t)
                /\ m.seedLock = Free(Mine(t).seedLock, t)
<1>0. /\ Mine(t) \in Statics /\ load[t] \in LoadStates
      /\ load[t].disturbed \in SUBSET Artifacts /\ Spoiled(t) \in SUBSET Artifacts
    BY DEF ModuleTypes, LoadStates, Spoiled, Mine, ProcessIds
<1>1. CASE Returns(t) \/ Has(t)
  <2>1. Idle(t) = [Idle(t) EXCEPT !.failed = NoThread, !.disturbed = Spoiled(t)]
    BY <1>0 DEF Idle, LoadStates
  <2>2. load' = [load EXCEPT ![t] = [Idle(t) EXCEPT !.failed = NoThread, !.disturbed = Spoiled(t)]]
    BY <1>1, <2>1 DEF Returns, Has
  <2>3. /\ load' \in [Threads -> LoadStates]
        /\ load'[t].step = "idle" /\ load'[t].again = FALSE
        /\ load'[t].disturbed = Spoiled(t) /\ load'[t].failed = NoThread
        /\ \A u \in Threads : u # t => load'[u] = load[u]
    BY <1>0, <2>2, IdleEffect
  <2>4. CASE Returns(t)
    BY <1>0, <2>3, <2>4, FreedEffect DEF Returns, Spoiled
  <2>5. CASE Has(t)
    <3> DEFINE f == Freed(t, Mine(t))
               m == [f EXCEPT !.modules = @ \cup {Want(t)},
                              !.seeded = IF Mine(t).seedLock = t THEN @ \cup {Want(t)} ELSE @]
    <3>1. /\ f \in Statics /\ f.installed = Mine(t).installed
          /\ f.installLock = Free(Mine(t).installLock, t)
          /\ f.moduleLock = Free(Mine(t).moduleLock, t)
          /\ f.seedLock = Free(Mine(t).seedLock, t)
        BY <1>0, FreedEffect
    <3>2. Keep(t, m)
        BY <2>5 DEF Has
    <3> HIDE DEF f
    <3>3. /\ m \in Statics /\ m.installed = f.installed /\ m.installLock = f.installLock
          /\ m.moduleLock = f.moduleLock /\ m.seedLock = f.seedLock
        BY <3>1 DEF Statics
    <3> QED BY <2>3, <3>1, <3>2, <3>3 DEF Spoiled
  <2> QED BY <1>1, <2>4, <2>5
<1>2. CASE Fails(t)
  <2>1. /\ load' \in [Threads -> LoadStates]
        /\ load'[t].step = "idle" /\ load'[t].again = FALSE
        /\ load'[t].disturbed = load[t].disturbed /\ load'[t].failed = Want(t)
        /\ \A u \in Threads : u # t => load'[u] = load[u]
    BY <1>0, <1>2, IdleEffect DEF Fails
  <2> QED BY <1>0, <1>2, <2>1, FreedEffect DEF Fails
<1> QED BY <1>1, <1>2

(* The end of a call keeps types and locks.                                *)
LEMMA EndKept ==
    ASSUME ModuleTypeOK, NEW t \in Threads, ~At(t, "idle"), Returns(t) \/ Fails(t) \/ Has(t),
           UNCHANGED <<file, receipt, damages>>
    PROVE  ModuleTypeOK'
<1>1. Want(t) \in Artifacts
    BY DEF ModuleTypeOK, MutexesHeld
<1>2. PICK m \in Statics :
            /\ Keep(t, m) /\ m.installLock = Free(Mine(t).installLock, t)
            /\ m.moduleLock = Free(Mine(t).moduleLock, t)
            /\ m.seedLock = Free(Mine(t).seedLock, t)
    BY <1>1, EndEffect DEF ModuleTypeOK
<1>3. /\ load' \in [Threads -> LoadStates]
      /\ load'[t].step = "idle" /\ load'[t].again = FALSE
      /\ \A u \in Threads : u # t => load'[u] = load[u]
    BY <1>1, EndEffect DEF ModuleTypeOK
<1>4. MutexesHeld'
    BY <1>2, <1>3, EndsHeld
<1>5. memory' \in [ProcessIds -> Statics]
    BY <1>2, KeepEffect DEF ModuleTypeOK
<1> QED BY <1>3, <1>4, <1>5 DEF ModuleTypeOK, ModuleTypes

(* A removal is noted with the threads it may hurt.                        *)
LEMMA DisturbEffect ==
    ASSUME ModuleTypes, NEW t \in Threads, NEW s \in Steps, Want(t) \in Artifacts, Disturb(t, s)
    PROVE  /\ load' \in [Threads -> LoadStates] /\ load'[t].step = s
           /\ load'[t].disturbed = load[t].disturbed
           /\ \A u \in Threads :
                /\ load'[u].want = load[u].want /\ load'[u].again = load[u].again
                /\ load'[u].failed = load[u].failed
                /\ load[u].disturbed \subseteq load'[u].disturbed
           /\ \A u \in Threads : u # t =>
                /\ load'[u].step = load[u].step
                /\ ProcessOf[u] # ProcessOf[t] /\ Exposed(u, Want(t)) /\ file[Want(t)] # "none"
                    => Want(t) \in load'[u].disturbed
<1>1. ASSUME NEW u \in Threads
      PROVE  /\ load'[u] \in LoadStates
             /\ load'[u].want = load[u].want /\ load'[u].again = load[u].again
             /\ load'[u].failed = load[u].failed
             /\ load[u].disturbed \subseteq load'[u].disturbed
             /\ u = t => load'[u].step = s /\ load'[u].disturbed = load[u].disturbed
             /\ u # t =>
                /\ load'[u].step = load[u].step
                /\ ProcessOf[u] # ProcessOf[t] /\ Exposed(u, Want(t)) /\ file[Want(t)] # "none"
                    => Want(t) \in load'[u].disturbed
  <2>0. load[u] \in LoadStates
    BY DEF ModuleTypes
  <2>1. CASE u = t
    BY <2>0, <2>1 DEF Disturb, LoadStates, Steps
  <2>2. CASE u # t /\ ProcessOf[u] # ProcessOf[t] /\ Exposed(u, Want(t)) /\ file[Want(t)] # "none"
    <3>1. load'[u] = [load[u] EXCEPT !.disturbed = @ \cup {Want(t)}]
        BY <2>2 DEF Disturb
    <3> QED BY <2>0, <2>2, <3>1 DEF LoadStates
  <2>3. CASE u # t /\ ~(ProcessOf[u] # ProcessOf[t] /\ Exposed(u, Want(t)) /\ file[Want(t)] # "none")
    BY <2>0, <2>3 DEF Disturb
  <2> QED BY <2>1, <2>2, <2>3
<1>2. load' \in [Threads -> LoadStates]
    BY <1>1 DEF Disturb
<1> QED BY <1>1, <1>2

(* A thread starts to repair.                                              *)
LEMMA DropEffect ==
    ASSUME ModuleTypes, NEW t \in Threads,
           load' = [load EXCEPT ![t].step = "drop", ![t].again = TRUE]
    PROVE  /\ load' \in [Threads -> LoadStates]
           /\ load'[t].step = "drop" /\ load'[t].want = load[t].want /\ load'[t].again = TRUE
           /\ load'[t].disturbed = load[t].disturbed /\ load'[t].failed = load[t].failed
           /\ \A u \in Threads : u # t => load'[u] = load[u]
<1> DEFINE r == [load[t] EXCEPT !.step = "drop", !.again = TRUE]
<1>1. load[t] \in LoadStates /\ load' = [load EXCEPT ![t] = r]
    BY DEF ModuleTypes
<1>2. /\ r \in LoadStates /\ r.step = "drop" /\ r.want = load[t].want /\ r.again = TRUE
      /\ r.disturbed = load[t].disturbed /\ r.failed = load[t].failed
    BY <1>1 DEF LoadStates, Opening
<1> HIDE DEF r
<1> QED BY <1>1, <1>2 DEF ModuleTypes

(* A damage is noted with the threads it may hurt.                         *)
LEMMA DamageEffect ==
    ASSUME ModuleTypes, NEW a \in Artifacts, Damage(a)
    PROVE  /\ load' \in [Threads -> LoadStates]
           /\ \A u \in Threads :
                /\ load'[u].want = load[u].want /\ load'[u].again = load[u].again
                /\ load'[u].step = load[u].step /\ load'[u].failed = load[u].failed
                /\ load[u].disturbed \subseteq load'[u].disturbed
                /\ Exposed(u, a) => a \in load'[u].disturbed
<1>1. ASSUME NEW u \in Threads
      PROVE  /\ load'[u] \in LoadStates
             /\ load'[u].want = load[u].want /\ load'[u].again = load[u].again
             /\ load'[u].step = load[u].step /\ load'[u].failed = load[u].failed
             /\ load[u].disturbed \subseteq load'[u].disturbed
             /\ Exposed(u, a) => a \in load'[u].disturbed
  <2>0. load[u] \in LoadStates
    BY DEF ModuleTypes
  <2>1. CASE Exposed(u, a)
    <3>1. load'[u] = [load[u] EXCEPT !.disturbed = @ \cup {a}]
        BY <2>1 DEF Damage
    <3> QED BY <2>0, <3>1 DEF LoadStates
  <2>2. CASE ~Exposed(u, a)
    BY <2>0, <2>2 DEF Damage
  <2> QED BY <2>1, <2>2
<1>2. load' \in [Threads -> LoadStates]
    BY <1>1 DEF Damage
<1> QED BY <1>1, <1>2

(* A killed process has idle threads.                                      *)
LEMMA DieEffect ==
    ASSUME ModuleTypes, NEW p \in Processes, ModulesDie(p)
    PROVE  /\ load' \in [Threads -> LoadStates]
           /\ \A u \in Threads :
                IF ProcessOf[u] = p
                THEN load'[u].step = "idle" /\ load'[u].again = FALSE /\ load'[u].failed = NoThread
                ELSE load'[u] = load[u]
<1>1. ASSUME NEW u \in Threads
      PROVE  /\ load'[u] \in LoadStates
             /\ IF ProcessOf[u] = p
                THEN load'[u].step = "idle" /\ load'[u].again = FALSE /\ load'[u].failed = NoThread
                ELSE load'[u] = load[u]
  <2>0. load[u] \in LoadStates /\ Spoiled(u) \in SUBSET Artifacts
    BY DEF ModuleTypes, LoadStates, Spoiled
  <2>1. CASE ProcessOf[u] = p
    <3>1. load'[u] = [Idle(u) EXCEPT !.disturbed = {}]
        BY <2>1 DEF ModulesDie
    <3>2. /\ Idle(u) \in LoadStates /\ Idle(u).step = "idle" /\ Idle(u).again = FALSE
          /\ Idle(u).failed = NoThread
        BY <2>0 DEF Idle, LoadStates
    <3> QED BY <2>1, <3>1, <3>2 DEF LoadStates
  <2>2. CASE ProcessOf[u] # p
    BY <2>0, <2>2 DEF ModulesDie
  <2> QED BY <2>1, <2>2
<1>2. load' \in [Threads -> LoadStates]
    BY <1>1 DEF ModulesDie
<1> QED BY <1>1, <1>2

(* remember_installed_artifact under the install lock.                     *)
LEMMA RememberKept ==
    ASSUME ModuleTypeOK, NEW t \in Threads, load[t].step \in Installing,
           NEW s \in {"modules", "reopen"}, s = "reopen" => load[t].again, Remember(t, s)
    PROVE  /\ MutexesHeld' /\ memory' \in [ProcessIds -> Statics] /\ load' \in [Threads -> LoadStates]
           /\ \E m \in Statics : Keep(t, m) /\ m.installed = Mine(t).installed \cup {Want(t)}
<1> DEFINE m == [Mine(t) EXCEPT !.installed = @ \cup {Want(t)}, !.installLock = NoThread]
<1>0. Want(t) \in Artifacts /\ Mine(t) \in Statics /\ ~At(t, "idle") /\ Mine(t).installLock = t
    BY DEF ModuleTypeOK, ModuleTypes, MutexesHeld, At, Mine, ProcessIds, Installing
<1>1. /\ m \in Statics /\ m.installLock = NoThread /\ m.moduleLock = Mine(t).moduleLock
      /\ m.seedLock = Mine(t).seedLock /\ m.installed = Mine(t).installed \cup {Want(t)}
    BY <1>0 DEF Statics
<1>2. Keep(t, m) /\ Goto(t, s) /\ s \in Steps /\ s \notin Installing
    BY DEF Remember, Steps, Installing, Opening
<1> HIDE DEF m
<1>3. /\ load' \in [Threads -> LoadStates]
      /\ load'[t].step = s /\ load'[t].want = load[t].want /\ load'[t].again = load[t].again
      /\ \A u \in Threads : u # t => load'[u] = load[u]
    BY <1>2, GotoEffect DEF ModuleTypeOK
<1>4. s \in Opening \/ load[t].again => Mine(t).moduleLock = t
    BY DEF ModuleTypeOK, MutexesHeld, Opening
<1>5. MutexesHeld'
    BY <1>0, <1>1, <1>2, <1>3, <1>4, MovesHeld, ModuleAssumption
<1>6. memory' \in [ProcessIds -> Statics]
    BY <1>1, <1>2, KeepEffect DEF ModuleTypeOK
<1> QED BY <1>1, <1>2, <1>3, <1>5, <1>6

(* The steps keep the types, and the mutexes' discipline.                  *)
LEMMA ModuleTypeStep == ASSUME ModuleTypeOK, ModuleNext PROVE ModuleTypeOK'
<1>1. ASSUME NEW t \in Threads, NEW a \in Artifacts, LoadArtifactModule(t, a) PROVE ModuleTypeOK'
  <2> DEFINE r == [step |-> IF t \in Seeders THEN "seed" ELSE "check", want |-> a, again |-> FALSE,
                   failed |-> NoThread, disturbed |-> Spoiled(t), left |-> load[t].left \ {a}]
  <2>1. load[t] \in LoadStates /\ load' = [load EXCEPT ![t] = r]
    BY <1>1 DEF LoadArtifactModule, ModuleTypeOK, ModuleTypes
  <2>2. /\ r \in LoadStates /\ r.step \in {"seed", "check"} /\ r.want = a /\ r.again = FALSE
    BY <2>1 DEF LoadStates, Spoiled
  <2> HIDE DEF r
  <2>3. /\ load' \in [Threads -> LoadStates] /\ load'[t] = r
        /\ \A u \in Threads : u # t => load'[u] = load[u]
    BY <2>1, <2>2 DEF ModuleTypeOK, ModuleTypes
  <2>4. MutexesHeld'
    BY <1>1, <2>2, <2>3 DEF LoadArtifactModule, ModuleTypeOK, MutexesHeld, At, Want, Mine,
        Installing, Opening
  <2> QED BY <1>1, <2>3, <2>4 DEF LoadArtifactModule, ModuleTypeOK, ModuleTypes
<1>2. ASSUME NEW t \in Threads, WriteFails(t) PROVE ModuleTypeOK'
    BY <1>2, EndKept DEF WriteFails, At
<1>4. ASSUME NEW t \in Threads, Check(t) PROVE ModuleTypeOK'
  <2>1. PICK s \in {"modules", "install"} : Goto(t, s)
    BY <1>4 DEF Check
  <2>2. s \in Steps /\ load[t].step \in {"check"} /\ UNCHANGED memory
    BY <1>4 DEF Check, Steps, Installing, Opening, At
  <2>3. MutexesHeld'
    BY <2>1, <2>2, GotoHeld DEF At, Installing, Opening
  <2>4. load' \in [Threads -> LoadStates]
    BY <2>1, <2>2, GotoEffect DEF ModuleTypeOK
  <2> QED BY <1>4, <2>3, <2>4 DEF ModuleTypeOK, ModuleTypes, Check
<1>6. ASSUME NEW t \in Threads, Exists(t) PROVE ModuleTypeOK'
  <2>1. PICK s \in {"clear", "verify"} : Goto(t, s)
    BY <1>6 DEF Exists
  <2>2. s \in Steps /\ load[t].step \in {"exists"} /\ UNCHANGED memory
    BY <1>6 DEF Exists, Steps, Installing, Opening, At
  <2>3. MutexesHeld'
    BY <2>1, <2>2, GotoHeld DEF At, Installing, Opening
  <2>4. load' \in [Threads -> LoadStates]
    BY <2>1, <2>2, GotoEffect DEF ModuleTypeOK
  <2> QED BY <1>6, <2>3, <2>4 DEF ModuleTypeOK, ModuleTypes, Exists
<1>9. ASSUME NEW t \in Threads, RemoveReceipt(t) PROVE ModuleTypeOK'
  <2>1. PICK s \in {"clear", "promote", "rebuild"} :
            Goto(t, s) /\ (s = "rebuild" <=> load[t].step = "dropReceipt")
    BY <1>9 DEF RemoveReceipt, At
  <2>2. s \in Steps /\ load[t].step \in {"discardReceipt", "clearReceipt", "dropReceipt"} /\ UNCHANGED memory
    BY <1>9 DEF RemoveReceipt, At, Steps, Installing, Opening, At
  <2>3. MutexesHeld'
    BY <2>1, <2>2, GotoHeld DEF At, Installing, Opening
  <2>4. load' \in [Threads -> LoadStates]
    BY <2>1, <2>2, GotoEffect DEF ModuleTypeOK
  <2> QED BY <1>9, <2>3, <2>4 DEF ModuleTypeOK, ModuleTypes, RemoveReceipt, At
<1>10. ASSUME NEW t \in Threads, Promote(t) PROVE ModuleTypeOK'
  <2>1. PICK s \in {"receipt"} : Goto(t, s)
    BY <1>10 DEF Promote, RawBytes
  <2>2. s \in Steps /\ load[t].step \in {"promote"} /\ UNCHANGED memory
    BY <1>10 DEF Promote, RawBytes, Steps, Installing, Opening, At
  <2>3. MutexesHeld'
    BY <2>1, <2>2, GotoHeld DEF At, Installing, Opening
  <2>4. load' \in [Threads -> LoadStates]
    BY <2>1, <2>2, GotoEffect DEF ModuleTypeOK
  <2> QED BY <1>10, <2>3, <2>4 DEF ModuleTypeOK, ModuleTypes, Promote, RawBytes
<1>3. ASSUME NEW t \in Threads, Seed(t) PROVE ModuleTypeOK'
  <2>1. CASE Returns(t)
    BY <1>3, <2>1, EndKept DEF Seed, At
  <2>2. CASE Keep(t, [Mine(t) EXCEPT !.seedLock = t]) /\ Goto(t, "check")
    <3> DEFINE m == [Mine(t) EXCEPT !.seedLock = t]
    <3>1. /\ m \in Statics /\ m.installLock = Mine(t).installLock
          /\ m.moduleLock = Mine(t).moduleLock /\ m.seedLock = t
        BY DEF ModuleTypeOK, ModuleTypes, Statics, Mine, ProcessIds
    <3> HIDE DEF m
    <3>2. Keep(t, m) /\ Goto(t, "check") /\ "check" \in Steps /\ At(t, "seed")
        BY <1>3, <2>2 DEF m, Steps, Seed
    <3> QED BY <1>3, <3>1, <3>2, GotoEffect, KeepEffect, MovesHeld
            DEF Seed, ModuleTypeOK, ModuleTypes, MutexesHeld, At, Mine, Installing, Opening
  <2> QED BY <1>3, <2>1, <2>2 DEF Seed
<1>5. ASSUME NEW t \in Threads, TakeInstallLock(t) PROVE ModuleTypeOK'
  <2>1. CASE Goto(t, "modules") /\ UNCHANGED memory
    <3>1. MutexesHeld' /\ load' \in [Threads -> LoadStates]
        BY <1>5, <2>1, GotoHeld, GotoEffect
        DEF TakeInstallLock, ModuleTypeOK, Steps, Installing, Opening, At
    <3> QED BY <1>5, <2>1, <3>1 DEF TakeInstallLock, ModuleTypeOK, ModuleTypes
  <2>2. CASE Goto(t, "exists") /\ Keep(t, [Mine(t) EXCEPT !.installLock = t])
    <3> DEFINE m == [Mine(t) EXCEPT !.installLock = t]
    <3>1. /\ m \in Statics /\ m.seedLock = Mine(t).seedLock
          /\ m.moduleLock = Mine(t).moduleLock /\ m.installLock = t
        BY DEF ModuleTypeOK, ModuleTypes, Statics, Mine, ProcessIds
    <3> HIDE DEF m
    <3>2. /\ Keep(t, m) /\ Goto(t, "exists") /\ "exists" \in Steps /\ At(t, "install")
          /\ Mine(t).installLock = NoThread
        BY <1>5, <2>2 DEF m, Steps, TakeInstallLock, Installing
    <3> QED BY <1>5, <3>1, <3>2, GotoEffect, KeepEffect, MovesHeld
            DEF TakeInstallLock, ModuleTypeOK, ModuleTypes, MutexesHeld, At, Mine, Installing, Opening
  <2> QED BY <1>5, <2>1, <2>2 DEF TakeInstallLock
<1>7. ASSUME NEW t \in Threads, Verify(t) PROVE ModuleTypeOK'
  <2>1. CASE Remember(t, "modules")
    BY <1>7, <2>1, RememberKept DEF Verify, At, Installing, ModuleTypeOK, ModuleTypes
  <2>2. CASE Goto(t, "discard") /\ UNCHANGED memory
    <3>1. MutexesHeld' /\ load' \in [Threads -> LoadStates]
        BY <1>7, <2>2, GotoHeld, GotoEffect DEF Verify, ModuleTypeOK, Steps, Installing, Opening, At
    <3> QED BY <1>7, <2>2, <3>1 DEF Verify, ModuleTypeOK, ModuleTypes
  <2>3. CASE Fails(t)
    BY <1>7, <2>3, EndKept DEF Verify, At
  <2> QED BY <1>7, <2>1, <2>2, <2>3 DEF Verify
<1>8. ASSUME NEW t \in Threads, RemoveFile(t) PROVE ModuleTypeOK'
  <2>1. PICK s \in {"discardReceipt", "clearReceipt", "dropReceipt"} :
            Disturb(t, s) /\ (s = "dropReceipt" <=> load[t].step = "drop")
    BY <1>8 DEF RemoveFile, At
  <2>2. Want(t) \in Artifacts /\ s \in Steps /\ load[t].step \in {"discard", "clear", "drop"}
    BY <1>8 DEF RemoveFile, ModuleTypeOK, MutexesHeld, At, Steps, Installing, Opening
  <2>3. /\ load' \in [Threads -> LoadStates] /\ load'[t].step = s
        /\ \A u \in Threads : load'[u].want = load[u].want /\ load'[u].again = load[u].again
        /\ \A u \in Threads : u # t => load'[u].step = load[u].step
    BY <2>1, <2>2, DisturbEffect DEF ModuleTypeOK
  <2>4. MutexesHeld'
    BY <1>8, <2>1, <2>2, <2>3 DEF RemoveFile, ModuleTypeOK, MutexesHeld, At, Want, Mine,
        Installing, Opening
  <2> QED BY <1>8, <2>2, <2>3, <2>4 DEF RemoveFile, ModuleTypeOK, ModuleTypes
<1>11. ASSUME NEW t \in Threads, WriteCacheReceipt(t) PROVE ModuleTypeOK'
  <2>1. PICK s \in {"modules", "reopen"} : Remember(t, s) /\ (s = "reopen" => load[t].again)
    BY <1>11 DEF WriteCacheReceipt
  <2>2. Want(t) \in Artifacts
    BY <1>11 DEF WriteCacheReceipt, ModuleTypeOK, MutexesHeld, At
  <2> QED BY <1>11, <2>1, <2>2, RememberKept
          DEF WriteCacheReceipt, At, Installing, ModuleTypeOK, ModuleTypes
<1>12. ASSUME NEW t \in Threads, TakeModuleLock(t) PROVE ModuleTypeOK'
  <2>1. CASE Has(t)
    BY <1>12, <2>1, EndKept DEF TakeModuleLock, At
  <2>2. CASE Keep(t, [Mine(t) EXCEPT !.moduleLock = t]) /\ Goto(t, "open")
    <3> DEFINE m == [Mine(t) EXCEPT !.moduleLock = t]
    <3>1. /\ m \in Statics /\ m.seedLock = Mine(t).seedLock
          /\ m.installLock = Mine(t).installLock /\ m.moduleLock = t
        BY DEF ModuleTypeOK, ModuleTypes, Statics, Mine, ProcessIds
    <3> HIDE DEF m
    <3>2. /\ Keep(t, m) /\ Goto(t, "open") /\ "open" \in Steps /\ At(t, "modules")
          /\ Mine(t).moduleLock = NoThread
        BY <1>12, <2>2 DEF m, Steps, TakeModuleLock, Opening
    <3> QED BY <1>12, <3>1, <3>2, GotoEffect, KeepEffect, MovesHeld
            DEF TakeModuleLock, ModuleTypeOK, ModuleTypes, MutexesHeld, At, Mine, Installing, Opening
  <2> QED BY <1>12, <2>1, <2>2 DEF TakeModuleLock
<1>13. ASSUME NEW t \in Threads, Deserialize(t) PROVE ModuleTypeOK'
  <2>1. CASE Has(t) \/ Fails(t)
    BY <1>13, <2>1, EndKept DEF Deserialize, At
  <2>2. CASE /\ Keep(t, [Mine(t) EXCEPT !.installed = @ \ {Want(t)}])
             /\ load' = [load EXCEPT ![t].step = "drop", ![t].again = TRUE]
    <3>1. /\ load' \in [Threads -> LoadStates] /\ load'[t].step = "drop"
          /\ load'[t].want = load[t].want
          /\ \A u \in Threads : u # t => load'[u] = load[u]
        BY <2>2, DropEffect DEF ModuleTypeOK
    <3> DEFINE m == [Mine(t) EXCEPT !.installed = @ \ {Want(t)}]
    <3>2. /\ m \in Statics /\ m.seedLock = Mine(t).seedLock
          /\ m.installLock = Mine(t).installLock /\ m.moduleLock = Mine(t).moduleLock
        BY DEF ModuleTypeOK, ModuleTypes, Statics, Mine, ProcessIds
    <3> HIDE DEF m
    <3>3. /\ Keep(t, m) /\ "drop" \in Steps /\ At(t, "open") /\ Mine(t).moduleLock = t
          /\ Mine(t).installLock # t \/ Mine(t).installLock = t
        BY <1>13, <2>2 DEF m, Steps, Deserialize, Opening, ModuleTypeOK, MutexesHeld, At
    <3>4. MutexesHeld'
        BY <3>1, <3>2, <3>3, MovesHeld, ModuleAssumption DEF At, Mine, Installing, Opening
    <3> QED BY <1>13, <3>1, <3>2, <3>3, <3>4, KeepEffect DEF Deserialize, ModuleTypeOK, ModuleTypes
  <2> QED BY <1>13, <2>1, <2>2 DEF Deserialize, Opens
<1>14. ASSUME NEW t \in Threads, Rebuild(t) PROVE ModuleTypeOK'
  <2> DEFINE m == [Mine(t) EXCEPT !.installLock = t, !.installed = @ \ {Want(t)}]
  <2>1. /\ m \in Statics /\ m.seedLock = Mine(t).seedLock
        /\ m.installLock = t /\ m.moduleLock = Mine(t).moduleLock
    <3>1. Mine(t) \in Statics
        BY DEF ModuleTypeOK, ModuleTypes, Mine, ProcessIds
    <3> QED BY <3>1 DEF Statics
  <2>2. /\ Keep(t, m) /\ Goto(t, "clear") /\ "clear" \in Steps /\ At(t, "rebuild")
        /\ Mine(t).moduleLock = t /\ Mine(t).installLock = NoThread
    BY <1>14 DEF Rebuild, Steps, Installing, Opening, ModuleTypeOK, MutexesHeld, At
  <2> HIDE DEF m
  <2> QED BY <1>14, <2>1, <2>2, GotoEffect, KeepEffect, MovesHeld
          DEF Rebuild, ModuleTypeOK, ModuleTypes, MutexesHeld, At, Mine, Installing, Opening
<1>15. ASSUME NEW t \in Threads, Reopen(t) PROVE ModuleTypeOK'
    BY <1>15, EndKept DEF Reopen, Opens, At
<1>16. ASSUME NEW a \in Artifacts, Damage(a) PROVE ModuleTypeOK'
  <2>1. /\ load' \in [Threads -> LoadStates]
        /\ \A u \in Threads : /\ load'[u].want = load[u].want /\ load'[u].again = load[u].again
                              /\ load'[u].step = load[u].step
    BY <1>16, DamageEffect DEF ModuleTypeOK
  <2>2. MutexesHeld'
    BY <1>16, <2>1 DEF Damage, ModuleTypeOK, MutexesHeld, At, Want, Mine
  <2>3. file' \in [Artifacts -> {"none", "whole", "damaged", "short"}] /\ damages' \in 0 .. MaxDamages
    BY <1>16, ModuleAssumption DEF Damage, ModuleTypeOK, ModuleTypes
  <2> QED BY <1>16, <2>1, <2>2, <2>3 DEF Damage, ModuleTypeOK, ModuleTypes
<1>17. ASSUME NEW p \in Processes, ModulesDie(p) PROVE ModuleTypeOK'
  <2>1. /\ load' \in [Threads -> LoadStates]
        /\ \A u \in Threads : IF ProcessOf[u] = p
                              THEN load'[u].step = "idle" /\ load'[u].again = FALSE
                              ELSE load'[u] = load[u]
    BY <1>17, DieEffect DEF ModuleTypeOK
  <2>2. /\ memory' \in [ProcessIds -> Statics]
        /\ \A q \in ProcessIds : memory'[q] = IF q = p THEN NewStatics ELSE memory[q]
    BY <1>17 DEF ModulesDie, ModuleTypeOK, ModuleTypes, NewStatics, Statics
  <2>3. MutexesHeld'
    BY <2>1, <2>2, ModuleAssumption DEF ModuleTypeOK, MutexesHeld, At, Want, Mine, ProcessIds,
        NewStatics, Installing, Opening
  <2> QED BY <1>17, <2>1, <2>2, <2>3 DEF ModulesDie, ModuleTypeOK, ModuleTypes
<1>18. ASSUME UNCHANGED moduleVars PROVE ModuleTypeOK'
    BY <1>18 DEF moduleVars, ModuleTypeOK, ModuleTypes, MutexesHeld, At, Want, Mine
<1> QED BY <1>1, <1>2, <1>3, <1>4, <1>5, <1>6, <1>7, <1>8, <1>9, <1>10, <1>11, <1>12, <1>13,
           <1>14, <1>15, <1>16, <1>17, <1>18 DEF ModuleNext, ModuleStep

(* Both caches stay well formed, whatever the processes' threads do, and   *)
(* their locks are held wherever the code reads or writes under them.      *)
THEOREM CachesTypeCorrect == Spec => []TypeOK
<1>1. Init => RuntimeInv /\ ModuleTypeOK
    BY RuntimeStarts, ModuleTypeStarts DEF Init
<1>2. RuntimeInv /\ ModuleTypeOK /\ [Next]_vars => RuntimeInv' /\ ModuleTypeOK'
    BY RuntimeKept, NextIsRuntimeNext, ModuleTypeStep, NextIsModuleNext
<1>3. RuntimeInv /\ ModuleTypeOK => TypeOK
    BY DEF RuntimeInv, TypeOK
<1> QED BY <1>1, <1>2, <1>3, PTL DEF Spec

-----------------------------------------------------------------------------
(* Why a load fails.                                                       *)

Verifies(t) == ProcessOf[t] \in Full
Same(t, u) == ProcessOf[t] = ProcessOf[u]

(* A process that verifies hashes never repairs in load_artifact_module.   *)
VerifierNeverRepairs ==
    \A t \in Threads : Verifies(t) =>
        ~load[t].again /\ load[t].step \notin {"drop", "dropReceipt", "rebuild", "reopen"}

(* It opens what it has remembered, and what it remembers is whole unless  *)
(* others spoiled it.                                                      *)
RememberedIsWhole ==
    \A t \in Threads : Verifies(t) =>
        /\ load[t].step \in {"modules", "open"} => Want(t) \in Mine(t).installed
        /\ \A a \in Mine(t).installed : file[a] # "whole" => a \in load[t].disturbed

(* It installs a remembered artifact again only if it was spoiled, and     *)
(* what it has just written or found stays unless it is spoiled.           *)
InstallsSpoiled ==
    \A t, u \in Threads : Verifies(t) /\ Same(t, u) =>
        /\ load[t].step \in Installing \ {"receipt"} /\ Want(t) \in Mine(t).installed
            => Want(t) \in load[u].disturbed
        /\ At(t, "receipt") /\ file[Want(t)] # "whole" => Want(t) \in load[u].disturbed
FoundStays ==
    \A t \in Threads : Verifies(t) /\ At(t, "verify") /\ file[Want(t)] = "none"
        => Want(t) \in load[t].disturbed

(* A repaired artifact is remembered and stays whole unless it is spoiled; *)
(* no other thread of the process installs it without need.                *)
RepairStays ==
    \A t \in Threads : ~Verifies(t) =>
        /\ At(t, "reopen") => Want(t) \in Mine(t).installed
        /\ At(t, "reopen") \/ (At(t, "receipt") /\ load[t].again) =>
            (file[Want(t)] # "whole" => Want(t) \in load[t].disturbed)
        /\ At(t, "reopen") => \A u \in Threads :
            Same(t, u) /\ load[u].step \in Installing /\ Want(u) = Want(t)
                => Want(t) \in load[t].disturbed

Causes ==
    /\ VerifierNeverRepairs /\ RememberedIsWhole /\ InstallsSpoiled /\ FoundStays /\ RepairStays
    /\ FailureHasCause

(* Nothing has failed at the start.                                        *)
LEMMA CausesStart == ModuleInit => Causes
BY ModuleAssumption DEF ModuleInit, Causes, VerifierNeverRepairs, RememberedIsWhole, InstallsSpoiled,
   FoundStays, RepairStays, FailureHasCause, At, Mine, ProcessIds, NewStatics, Installing

(* A thread goes on while files and remembered artifacts stay as they are. *)
LEMMA GotoCauses ==
    ASSUME ModuleTypeOK, Causes, NEW t \in Threads, NEW s \in Steps, Goto(t, s), file' = file,
           \A u \in Threads : memory'[ProcessOf[u]].installed = memory[ProcessOf[u]].installed,
           s \notin {"receipt", "drop", "dropReceipt", "reopen"},
           Verifies(t) => s # "rebuild",
           Verifies(t) /\ s \in {"modules", "open"} => Want(t) \in Mine(t).installed,
           Verifies(t) /\ s \in Installing /\ Want(t) \in Mine(t).installed =>
                \A u \in Threads : Same(t, u) => Want(t) \in load[u].disturbed,
           s = "verify" => file[Want(t)] # "none",
           s \in Installing => load[t].step \in Installing \/
                \A u \in Threads : ~Verifies(u) /\ Same(u, t) /\ At(u, "reopen") /\ Want(u) = Want(t)
                    => Want(u) \in load[u].disturbed
    PROVE  Causes'
<1>1. /\ load'[t].step = s /\ load'[t].want = load[t].want /\ load'[t].again = load[t].again
      /\ load'[t].disturbed = load[t].disturbed /\ load'[t].failed = load[t].failed
      /\ \A u \in Threads : u # t => load'[u] = load[u]
    BY GotoEffect DEF ModuleTypeOK
<1>2. \A u \in Threads : load'[u].disturbed = load[u].disturbed /\ load'[u].want = load[u].want
    BY <1>1
<1>3. VerifierNeverRepairs'
    BY <1>1 DEF Causes, VerifierNeverRepairs, Verifies
<1>4. RememberedIsWhole'
    BY <1>1, <1>2 DEF Causes, RememberedIsWhole, Verifies, Want, Mine
<1>5. InstallsSpoiled'
    BY <1>1, <1>2 DEF Causes, InstallsSpoiled, Verifies, Same, Want, Mine, At
<1>6. FoundStays'
    BY <1>1, <1>2 DEF Causes, FoundStays, Verifies, Want, At
<1>7. RepairStays'
    BY <1>1, <1>2 DEF Causes, RepairStays, Verifies, Same, Want, Mine, At
<1>8. FailureHasCause'
    BY <1>1, <1>2 DEF Causes, FailureHasCause
<1> QED BY <1>3, <1>4, <1>5, <1>6, <1>7, <1>8 DEF Causes

(* A load ends; one that fails does so because its file was spoiled.       *)
LEMMA EndCauses ==
    ASSUME ModuleTypeOK, Causes, NEW t \in Threads, ~At(t, "idle"), file' = file,
           Returns(t) \/ Fails(t) \/ Has(t), Fails(t) => Want(t) \in load[t].disturbed
    PROVE  Causes'
<1>1. Want(t) \in Artifacts
    BY DEF ModuleTypeOK, MutexesHeld
<1>2. /\ load'[t].step = "idle" /\ load'[t].again = FALSE
      /\ load'[t].failed # NoThread =>
            Fails(t) /\ load'[t].failed = Want(t) /\ load'[t].disturbed = load[t].disturbed
      /\ Verifies(t) => load'[t].disturbed = load[t].disturbed
      /\ \A u \in Threads : u # t => load'[u] = load[u]
    BY <1>1, EndEffect DEF ModuleTypeOK, Verifies
<1>3. \A u \in Threads : memory'[ProcessOf[u]].installed = memory[ProcessOf[u]].installed
  <2>1. PICK m \in Statics : Keep(t, m) /\ m.installed = Mine(t).installed
    BY <1>1, EndEffect DEF ModuleTypeOK
  <2> QED BY <2>1, KeepEffect DEF ModuleTypeOK, Mine
<1>4. \A u \in Threads : Verifies(u) => load'[u].disturbed = load[u].disturbed
    BY <1>2
<1>5. VerifierNeverRepairs'
    BY <1>2 DEF Causes, VerifierNeverRepairs, Verifies
<1>6. RememberedIsWhole'
    BY <1>2, <1>3, <1>4 DEF Causes, RememberedIsWhole, Verifies, Want, Mine
<1>7. InstallsSpoiled'
    BY <1>2, <1>3, <1>4 DEF Causes, InstallsSpoiled, Verifies, Same, Want, Mine, At, Installing
<1>8. FoundStays'
    BY <1>2, <1>4 DEF Causes, FoundStays, Verifies, Want, At
<1>9. RepairStays'
    BY <1>2, <1>3 DEF Causes, RepairStays, Verifies, Same, Want, Mine, At, Installing
<1>10. FailureHasCause'
    BY <1>2 DEF Causes, FailureHasCause
<1> QED BY <1>5, <1>6, <1>7, <1>8, <1>9, <1>10 DEF Causes

(* A thread under the install lock is alone there in its process.          *)
LEMMA AloneInstalling ==
    ASSUME ModuleTypeOK, NEW t \in Threads, NEW u \in Threads, Same(t, u),
           load[t].step \in Installing, load[u].step \in Installing
    PROVE  u = t
BY DEF ModuleTypeOK, MutexesHeld, Same, Mine

(* The same for the lock of the modules.                                   *)
LEMMA AloneOpening ==
    ASSUME ModuleTypeOK, NEW t \in Threads, NEW u \in Threads, Same(t, u),
           load[t].step \in Opening \/ load[t].again, load[u].step \in Opening \/ load[u].again
    PROVE  u = t
BY DEF ModuleTypeOK, MutexesHeld, Same, Mine

(* An artifact that is remembered is whole, or was spoiled.                *)
LEMMA RememberCauses ==
    ASSUME ModuleTypeOK, Causes, NEW t \in Threads, load[t].step \in Installing,
           NEW s \in {"modules", "reopen"}, Remember(t, s), file' = file,
           s = "reopen" => At(t, "receipt") /\ load[t].again,
           Verifies(t) /\ file[Want(t)] # "whole" =>
                \A u \in Threads : Same(t, u) => Want(t) \in load[u].disturbed
    PROVE  Causes'
<1>1. /\ load'[t].step = s /\ load'[t].want = load[t].want /\ load'[t].again = load[t].again
      /\ load'[t].disturbed = load[t].disturbed /\ load'[t].failed = load[t].failed
      /\ \A u \in Threads : u # t => load'[u] = load[u]
  <2>1. Goto(t, s) /\ s \in Steps
    BY DEF Remember, Steps, Opening
  <2> QED BY <2>1, GotoEffect DEF ModuleTypeOK
<1>2. \A u \in Threads : load'[u].disturbed = load[u].disturbed /\ load'[u].want = load[u].want
    BY <1>1
<1>3. /\ \A u \in Threads : Same(t, u) =>
            memory'[ProcessOf[u]].installed = memory[ProcessOf[u]].installed \cup {Want(t)}
      /\ \A u \in Threads : ~Same(t, u) => memory'[ProcessOf[u]] = memory[ProcessOf[u]]
  <2>1. PICK m \in Statics : Keep(t, m) /\ m.installed = memory[ProcessOf[t]].installed \cup {Want(t)}
    BY RememberKept DEF Mine
  <2>2. \A u \in Threads : memory'[ProcessOf[u]] =
                IF ProcessOf[u] = ProcessOf[t] THEN m ELSE memory[ProcessOf[u]]
    BY <2>1, KeepEffect DEF ModuleTypeOK
  <2> QED BY <2>1, <2>2 DEF Same
<1>4. \A u \in Threads : Same(t, u) => load'[u].step \notin Installing
  <2>1. load'[t].step \notin Installing
    BY <1>1 DEF Installing
  <2> QED BY <1>1, <2>1, AloneInstalling
<1>5. VerifierNeverRepairs'
    BY <1>1 DEF Causes, VerifierNeverRepairs, Verifies
<1>6. RememberedIsWhole'
  <2> SUFFICES ASSUME NEW u \in Threads, Verifies(u)
               PROVE  /\ load'[u].step \in {"modules", "open"} =>
                            load[u].want \in memory'[ProcessOf[u]].installed
                      /\ \A a \in memory'[ProcessOf[u]].installed :
                            file[a] # "whole" => a \in load[u].disturbed
    BY <1>2 DEF RememberedIsWhole, Verifies, Want, Mine
  <2>1. CASE Same(t, u)
    <3>1. Verifies(t) /\ memory'[ProcessOf[u]].installed = Mine(u).installed \cup {Want(t)}
        BY <1>3, <2>1 DEF Same, Verifies, Mine
    <3> QED BY <1>1, <2>1, <3>1 DEF Causes, RememberedIsWhole, Want
  <2>2. CASE ~Same(t, u)
    <3>1. u # t /\ memory'[ProcessOf[u]].installed = Mine(u).installed
        BY <1>3, <2>2 DEF Same, Mine
    <3> QED BY <1>1, <3>1 DEF Causes, RememberedIsWhole, Want
  <2> QED BY <2>1, <2>2
<1>7. InstallsSpoiled'
    BY <1>1, <1>2, <1>3, <1>4 DEF Causes, InstallsSpoiled, Verifies, Same, Want, Mine, At, Installing
<1>8. FoundStays'
    BY <1>1, <1>2 DEF Causes, FoundStays, Verifies, Want, At
<1>9. RepairStays'
    BY <1>1, <1>2, <1>3, <1>4 DEF Causes, RepairStays, Verifies, Same, Want, Mine, At
<1>10. FailureHasCause'
    BY <1>1, <1>2 DEF Causes, FailureHasCause
<1> QED BY <1>5, <1>6, <1>7, <1>8, <1>9, <1>10 DEF Causes

(* A file is removed: whoever is exposed has it spoiled, and who removes   *)
(* it in the same process does so where the mutexes allow it.              *)
LEMMA RemoveCauses ==
    ASSUME ModuleTypeOK, Causes, NEW t \in Threads, RemoveFile(t)
    PROVE  Causes'
<1>0. PICK s \in {"discardReceipt", "clearReceipt", "dropReceipt"} :
            Disturb(t, s) /\ (s = "dropReceipt" <=> load[t].step = "drop")
    BY DEF RemoveFile, At
<1>1. /\ Want(t) \in Artifacts /\ s \in Steps /\ load[t].step \in {"discard", "clear", "drop"}
      /\ s # "dropReceipt" => s \in Installing /\ load[t].step \in Installing
      /\ s = "dropReceipt" => load[t].step \in Opening
    BY <1>0 DEF RemoveFile, ModuleTypeOK, MutexesHeld, At, Steps, Installing, Opening
<1>2. /\ load'[t].step = s /\ load'[t].disturbed = load[t].disturbed
      /\ \A u \in Threads :
            /\ load'[u].want = load[u].want /\ load'[u].again = load[u].again
            /\ load'[u].failed = load[u].failed
            /\ load[u].disturbed \subseteq load'[u].disturbed
      /\ \A u \in Threads : u # t =>
            /\ load'[u].step = load[u].step
            /\ ProcessOf[u] # ProcessOf[t] /\ Exposed(u, Want(t)) /\ file[Want(t)] # "none"
                => Want(t) \in load'[u].disturbed
    BY <1>0, <1>1, DisturbEffect DEF ModuleTypeOK
<1>3. /\ memory' = memory /\ file'[Want(t)] = "none"
      /\ \A a \in Artifacts : a # Want(t) => file'[a] = file[a]
    BY <1>1 DEF RemoveFile, ModuleTypeOK, ModuleTypes
<1>4. VerifierNeverRepairs'
    BY <1>0, <1>1, <1>2 DEF Causes, VerifierNeverRepairs, Verifies
<1>5. Verifies(t) => load[t].step \in Installing \ {"receipt"}
    BY <1>1 DEF Causes, VerifierNeverRepairs, Installing
<1>6. RememberedIsWhole'
  <2> SUFFICES ASSUME NEW u \in Threads, Verifies(u)
               PROVE  /\ load'[u].step \in {"modules", "open"} => load[u].want \in Mine(u).installed
                      /\ \A a \in Mine(u).installed : file'[a] # "whole" => a \in load'[u].disturbed
    BY <1>2, <1>3 DEF RememberedIsWhole, Verifies, Want, Mine
  <2>1. load'[u].step \in {"modules", "open"} => load[u].want \in Mine(u).installed
    BY <1>2 DEF Causes, RememberedIsWhole, Want
  <2>2. ASSUME NEW a \in Mine(u).installed, file'[a] # "whole" PROVE a \in load'[u].disturbed
    <3>0. a \in Artifacts
        BY DEF ModuleTypeOK, ModuleTypes, Mine, ProcessIds, Statics
    <3>1. CASE file[a] # "whole"
        BY <1>2, <3>1 DEF Causes, RememberedIsWhole
    <3>2. CASE file[a] = "whole"
      <4>1. a = Want(t) /\ file[a] # "none"
        BY <1>3, <2>2, <3>0, <3>2
      <4>2. CASE ~Same(t, u)
        BY <1>2, <4>1, <4>2 DEF Exposed, Same, Verifies
      <4>3. CASE Same(t, u)
        <5>1. Verifies(t) /\ Want(t) \in Mine(t).installed
            BY <4>1, <4>3 DEF Verifies, Same, Mine
        <5> QED BY <1>2, <1>5, <4>1, <4>3, <5>1 DEF Causes, InstallsSpoiled
      <4> QED BY <4>2, <4>3
    <3> QED BY <3>1, <3>2
  <2> QED BY <2>1, <2>2
<1>7. InstallsSpoiled'
  <2> SUFFICES ASSUME NEW x \in Threads, NEW u \in Threads, Verifies(x), Same(x, u)
               PROVE  /\ load'[x].step \in Installing \ {"receipt"} /\ Want(x) \in Mine(x).installed
                            => Want(x) \in load'[u].disturbed
                      /\ load'[x].step = "receipt" /\ file'[Want(x)] # "whole"
                            => Want(x) \in load'[u].disturbed
    BY <1>2, <1>3 DEF InstallsSpoiled, Verifies, Same, Want, Mine, At
  <2>1. CASE x = t
    BY <1>0, <1>2, <1>5, <2>1 DEF Causes, InstallsSpoiled, Installing
  <2>2. CASE x # t
    <3>1. load'[x].step = load[x].step
        BY <1>2, <2>2
    <3>2. load[x].step \in Installing \ {"receipt"} /\ Want(x) \in Mine(x).installed
                            => Want(x) \in load'[u].disturbed
        BY <1>2 DEF Causes, InstallsSpoiled
    <3>3. ASSUME At(x, "receipt"), file'[Want(x)] # "whole" PROVE Want(x) \in load'[u].disturbed
      <4>1. CASE file[Want(x)] # "whole"
        BY <1>2, <3>3, <4>1 DEF Causes, InstallsSpoiled
      <4>2. CASE file[Want(x)] = "whole"
        <5>1. Want(x) \in Artifacts /\ load[x].step \in Installing
            BY <3>3 DEF ModuleTypeOK, MutexesHeld, At, Installing
        <5>2. Want(x) = Want(t)
            BY <1>3, <3>3, <4>2, <5>1
        <5>3. ~Same(t, x)
            BY <1>5, <2>2, <5>1, AloneInstalling DEF Same, Verifies
        <5>4. u # t /\ ~Same(t, u) /\ Verifies(u)
            BY <5>3 DEF Same, Verifies
        <5> QED BY <1>2, <4>2, <5>2, <5>4 DEF Exposed, Same, Verifies
      <4> QED BY <4>1, <4>2
    <3> QED BY <3>1, <3>2, <3>3 DEF At
  <2> QED BY <2>1, <2>2
<1>8. FoundStays'
  <2> SUFFICES ASSUME NEW x \in Threads, Verifies(x), load'[x].step = "verify", file'[Want(x)] = "none"
               PROVE  Want(x) \in load'[x].disturbed
    BY <1>2 DEF FoundStays, Verifies, Want, At
  <2>1. x # t /\ At(x, "verify")
    BY <1>0, <1>2 DEF At
  <2>2. Want(x) \in Artifacts /\ load[x].step \in Installing
    BY <2>1 DEF ModuleTypeOK, MutexesHeld, At, Installing
  <2>3. CASE file[Want(x)] = "none"
    BY <1>2, <2>1, <2>3 DEF Causes, FoundStays
  <2>4. CASE file[Want(x)] # "none"
    <3>1. Want(x) = Want(t)
        BY <1>3, <2>2, <2>4
    <3>2. ~Same(t, x)
        BY <1>5, <2>1, <2>2, AloneInstalling DEF Same, Verifies
    <3> QED BY <1>2, <2>1, <2>4, <3>1, <3>2 DEF Exposed, Same, Verifies
  <2> QED BY <2>3, <2>4
<1>9. RepairStays'
  <2> SUFFICES ASSUME NEW x \in Threads, ~Verifies(x)
               PROVE  /\ load'[x].step = "reopen" => Want(x) \in Mine(x).installed
                      /\ load'[x].step = "reopen" \/ (load'[x].step = "receipt" /\ load[x].again) =>
                            (file'[Want(x)] # "whole" => Want(x) \in load'[x].disturbed)
                      /\ load'[x].step = "reopen" => \A u \in Threads :
                            Same(x, u) /\ load'[u].step \in Installing /\ Want(u) = Want(x)
                                => Want(x) \in load'[x].disturbed
    BY <1>2, <1>3 DEF RepairStays, Verifies, Same, Want, Mine, At
  <2>1. CASE x = t
    BY <1>0, <1>2, <2>1
  <2>2. CASE x # t
    <3>1. load'[x].step = load[x].step
        BY <1>2, <2>2
    <3>2. load[x].step = "reopen" => Want(x) \in Mine(x).installed
        BY DEF Causes, RepairStays, At
    <3>3. ASSUME At(x, "reopen") \/ (At(x, "receipt") /\ load[x].again), file'[Want(x)] # "whole"
          PROVE  Want(x) \in load'[x].disturbed
      <4>1. CASE file[Want(x)] # "whole"
        BY <1>2, <3>3, <4>1 DEF Causes, RepairStays
      <4>2. CASE file[Want(x)] = "whole"
        <5>1. Want(x) \in Artifacts /\ ~At(x, "idle")
            BY <3>3 DEF ModuleTypeOK, MutexesHeld, At
        <5>2. Want(x) = Want(t)
            BY <1>3, <3>3, <4>2, <5>1
        <5>3. CASE ~Same(t, x)
            BY <1>2, <2>2, <4>2, <5>1, <5>2, <5>3 DEF Exposed, Same
        <5>4. CASE Same(t, x)
          <6>1. load[x].step \in Opening \/ load[x].again
            BY <3>3 DEF At, Opening
          <6>2. load[t].step \notin Opening
            BY <2>2, <5>4, <6>1, AloneOpening
          <6>3. load[t].step \in Installing
            BY <1>1, <6>2
          <6>4. ~At(x, "receipt")
            BY <2>2, <5>4, <6>3, AloneInstalling DEF At, Installing
          <6> QED BY <1>2, <3>3, <5>2, <5>4, <6>3, <6>4 DEF Causes, RepairStays, Same
        <5> QED BY <5>3, <5>4
      <4> QED BY <4>1, <4>2
    <3>4. ASSUME At(x, "reopen"), NEW u \in Threads, Same(x, u), load'[u].step \in Installing,
                 Want(u) = Want(x)
          PROVE  Want(x) \in load'[x].disturbed
      <4>1. load[u].step \in Installing
        <5>1. u = t => s # "dropReceipt"
            BY <1>2, <3>4 DEF Installing
        <5> QED BY <1>1, <1>2, <3>4, <5>1
      <4> QED BY <1>2, <3>4, <4>1 DEF Causes, RepairStays
    <3> QED BY <3>1, <3>2, <3>3, <3>4 DEF At
  <2> QED BY <2>1, <2>2
<1>10. FailureHasCause'
    BY <1>2 DEF Causes, FailureHasCause
<1> QED BY <1>4, <1>6, <1>7, <1>8, <1>9, <1>10 DEF Causes

(* A load begins: what was spoiled before matters to verifiers only.       *)
LEMMA BeginCauses ==
    ASSUME ModuleTypeOK, Causes, NEW t \in Threads, NEW a \in Artifacts, LoadArtifactModule(t, a)
    PROVE  Causes'
<1>1. /\ load'[t].step \in {"seed", "check"} /\ load'[t].again = FALSE
      /\ load'[t].failed = NoThread /\ load'[t].disturbed = Spoiled(t)
      /\ \A u \in Threads : u # t => load'[u] = load[u]
    BY DEF LoadArtifactModule, ModuleTypeOK, ModuleTypes
<1>2. file' = file /\ memory' = memory
    BY DEF LoadArtifactModule
<1>3. \A u \in Threads : Verifies(u) => load'[u].disturbed = load[u].disturbed
    BY <1>1 DEF Spoiled, Verifies
<1>4. VerifierNeverRepairs'
    BY <1>1 DEF Causes, VerifierNeverRepairs, Verifies
<1>5. RememberedIsWhole'
    BY <1>1, <1>2, <1>3 DEF Causes, RememberedIsWhole, Verifies, Want, Mine
<1>6. InstallsSpoiled'
    BY <1>1, <1>2, <1>3 DEF Causes, InstallsSpoiled, Verifies, Same, Want, Mine, At, Installing
<1>7. FoundStays'
    BY <1>1, <1>2, <1>3 DEF Causes, FoundStays, Verifies, Want, At
<1>8. RepairStays'
    BY <1>1, <1>2 DEF Causes, RepairStays, Verifies, Same, Want, Mine, At, Installing
<1>9. FailureHasCause'
    BY <1>1 DEF Causes, FailureHasCause
<1> QED BY <1>4, <1>5, <1>6, <1>7, <1>8, <1>9 DEF Causes

(* A whole file takes the place of what was there.                         *)
LEMMA PromoteCauses ==
    ASSUME ModuleTypeOK, Causes, NEW t \in Threads, Promote(t)
    PROVE  Causes'
<1>1. /\ load'[t].step = "receipt" /\ load'[t].want = load[t].want /\ load'[t].again = load[t].again
      /\ load'[t].disturbed = load[t].disturbed /\ load'[t].failed = load[t].failed
      /\ \A u \in Threads : u # t => load'[u] = load[u]
  <2>1. Goto(t, "receipt") /\ "receipt" \in Steps
    BY DEF Promote, Steps, Installing
  <2> QED BY <2>1, GotoEffect DEF ModuleTypeOK
<1>2. \A u \in Threads : load'[u].disturbed = load[u].disturbed /\ load'[u].want = load[u].want
    BY <1>1
<1>3. Want(t) \in Artifacts /\ At(t, "promote") /\ memory' = memory
    BY DEF Promote, ModuleTypeOK, MutexesHeld, At
<1>4. /\ file'[Want(t)] = "whole"
      /\ \A a : file'[a] # "whole" => file[a] # "whole"
      /\ \A a : file'[a] = "none" => file[a] = "none"
    BY <1>3 DEF Promote, RawBytes, ModuleTypeOK, ModuleTypes
<1>5. VerifierNeverRepairs'
    BY <1>1 DEF Causes, VerifierNeverRepairs, Verifies
<1>6. RememberedIsWhole'
    BY <1>1, <1>2, <1>3, <1>4 DEF Causes, RememberedIsWhole, Verifies, Want, Mine
<1>7. InstallsSpoiled'
    BY <1>1, <1>2, <1>3, <1>4 DEF Causes, InstallsSpoiled, Verifies, Same, Want, Mine, At
<1>8. FoundStays'
    BY <1>1, <1>2, <1>4 DEF Causes, FoundStays, Verifies, Want, At
<1>9. RepairStays'
    BY <1>1, <1>2, <1>3, <1>4 DEF Causes, RepairStays, Verifies, Same, Want, Mine, At, Installing
<1>10. FailureHasCause'
    BY <1>1, <1>2 DEF Causes, FailureHasCause
<1> QED BY <1>5, <1>6, <1>7, <1>8, <1>9, <1>10 DEF Causes

(* The disk damages a file.                                                *)
LEMMA DamageCauses ==
    ASSUME ModuleTypeOK, Causes, NEW a \in Artifacts, Damage(a)
    PROVE  Causes'
<1>1. \A u \in Threads :
        /\ load'[u].want = load[u].want /\ load'[u].again = load[u].again
        /\ load'[u].step = load[u].step /\ load'[u].failed = load[u].failed
        /\ load[u].disturbed \subseteq load'[u].disturbed
        /\ Exposed(u, a) => a \in load'[u].disturbed
    BY DamageEffect DEF ModuleTypeOK
<1>2. memory' = memory /\ file'[a] # "none" /\ \A b \in Artifacts : b # a => file'[b] = file[b]
    BY DEF Damage, ModuleTypeOK, ModuleTypes
<1>3. VerifierNeverRepairs'
    BY <1>1 DEF Causes, VerifierNeverRepairs, Verifies
<1>4. \A u \in Threads : Verifies(u) => a \in load'[u].disturbed
    BY <1>1 DEF Exposed, Verifies
<1>5. \A u \in Threads : Mine(u).installed \subseteq Artifacts
    BY DEF ModuleTypeOK, ModuleTypes, Mine, ProcessIds, Statics
<1>6. \A u \in Threads : ~At(u, "idle") => Want(u) \in Artifacts
    BY DEF ModuleTypeOK, MutexesHeld
<1>7. RememberedIsWhole'
    BY <1>1, <1>2, <1>4, <1>5 DEF Causes, RememberedIsWhole, Verifies, Want, Mine
<1>8. InstallsSpoiled'
    BY <1>1, <1>2, <1>4, <1>6 DEF Causes, InstallsSpoiled, Verifies, Same, Want, Mine, At
<1>9. FoundStays'
    BY <1>1, <1>2, <1>6 DEF Causes, FoundStays, Verifies, Want, At
<1>10. RepairStays'
    BY <1>1, <1>2, <1>6 DEF Causes, RepairStays, Verifies, Same, Want, Mine, At, Exposed
<1>11. FailureHasCause'
    BY <1>1 DEF Causes, FailureHasCause
<1> QED BY <1>3, <1>7, <1>8, <1>9, <1>10, <1>11 DEF Causes

(* A process dies with its threads and all it remembered.                  *)
LEMMA DieCauses ==
    ASSUME ModuleTypeOK, Causes, NEW p \in Processes, ModulesDie(p)
    PROVE  Causes'
<1>1. \A u \in Threads :
        IF ProcessOf[u] = p
        THEN load'[u].step = "idle" /\ load'[u].again = FALSE /\ load'[u].failed = NoThread
        ELSE load'[u] = load[u]
    BY DieEffect DEF ModuleTypeOK
<1>2. /\ file' = file
      /\ \A u \in Threads : IF ProcessOf[u] = p THEN memory'[ProcessOf[u]].installed = {}
                            ELSE memory'[ProcessOf[u]] = memory[ProcessOf[u]]
    BY DEF ModulesDie, ModuleTypeOK, ModuleTypes, ProcessIds, NewStatics
<1>3. VerifierNeverRepairs'
    BY <1>1 DEF Causes, VerifierNeverRepairs, Verifies
<1>4. RememberedIsWhole'
    BY <1>1, <1>2 DEF Causes, RememberedIsWhole, Verifies, Want, Mine
<1>5. InstallsSpoiled'
    BY <1>1, <1>2 DEF Causes, InstallsSpoiled, Verifies, Same, Want, Mine, At, Installing
<1>6. FoundStays'
    BY <1>1, <1>2 DEF Causes, FoundStays, Verifies, Want, At
<1>7. RepairStays'
    BY <1>1, <1>2 DEF Causes, RepairStays, Verifies, Same, Want, Mine, At
<1>8. FailureHasCause'
    BY <1>1 DEF Causes, FailureHasCause
<1> QED BY <1>3, <1>4, <1>5, <1>6, <1>7, <1>8 DEF Causes

(* A thread that trusts receipts forgets the artifact and repairs it; it   *)
(* holds the lock of the modules, so no other thread of its process does.  *)
LEMMA ForgetCauses ==
    ASSUME ModuleTypeOK, Causes, NEW t \in Threads, ~Verifies(t), load[t].step \in Opening,
           file' = file, NEW m \in Statics, Keep(t, m), m.installed = Mine(t).installed \ {Want(t)},
           load'[t].step \in {"drop", "clear"}, load'[t].want = load[t].want,
           load'[t].disturbed = load[t].disturbed, load'[t].failed = load[t].failed,
           \A u \in Threads : u # t => load'[u] = load[u]
    PROVE  Causes'
<1>1. /\ \A u \in Threads : Verifies(u) => memory'[ProcessOf[u]] = memory[ProcessOf[u]]
      /\ \A u \in Threads : ~Same(t, u) => memory'[ProcessOf[u]] = memory[ProcessOf[u]]
    BY KeepEffect DEF ModuleTypeOK, Verifies, Same
<1>2. \A u \in Threads : load'[u].disturbed = load[u].disturbed /\ load'[u].want = load[u].want
    OBVIOUS
<1>3. \A u \in Threads : u # t /\ Same(t, u) => load[u].step # "reopen"
    BY AloneOpening DEF Opening
<1>4. VerifierNeverRepairs'
    BY DEF Causes, VerifierNeverRepairs, Verifies
<1>5. RememberedIsWhole'
    BY <1>1, <1>2 DEF Causes, RememberedIsWhole, Verifies, Want, Mine
<1>6. InstallsSpoiled'
    BY <1>1, <1>2 DEF Causes, InstallsSpoiled, Verifies, Same, Want, Mine, At
<1>7. FoundStays'
    BY <1>2 DEF Causes, FoundStays, Verifies, Want, At
<1>8. RepairStays'
    BY <1>1, <1>2, <1>3 DEF Causes, RepairStays, Verifies, Same, Want, Mine, At
<1>9. FailureHasCause'
    BY <1>2 DEF Causes, FailureHasCause
<1> QED BY <1>4, <1>5, <1>6, <1>7, <1>8, <1>9 DEF Causes

(* A call that returns or has its module does not fail.                    *)
LEMMA EndsWell ==
    ASSUME ModuleTypeOK, NEW t \in Threads, ~At(t, "idle"), Returns(t) \/ Has(t)
    PROVE  ~Fails(t)
<1>0. Want(t) \in Artifacts
    BY DEF ModuleTypeOK, MutexesHeld
<1>1. load'[t].failed = NoThread
  <2>1. load' = [load EXCEPT ![t] = Idle(t)]
    BY DEF Returns, Has
  <2> QED BY <2>1 DEF Idle, ModuleTypeOK, ModuleTypes, LoadStates
<1>2. Fails(t) => load'[t].failed = Want(t)
    BY DEF Fails, Idle, ModuleTypeOK, ModuleTypes, LoadStates
<1> QED BY <1>0, <1>1, <1>2, ModuleAssumption

(* The causes of failures are inductive.                                   *)
LEMMA CausesStep == ASSUME ModuleTypeOK, Causes, ModuleNext PROVE Causes'
<1>1. ASSUME NEW t \in Threads, NEW a \in Artifacts, LoadArtifactModule(t, a) PROVE Causes'
    BY <1>1, BeginCauses
<1>2. ASSUME NEW t \in Threads, WriteFails(t) PROVE Causes'
    BY <1>2, EndsWell, EndCauses DEF WriteFails, At
<1>3. ASSUME NEW t \in Threads, Seed(t) PROVE Causes'
  <2>1. CASE Returns(t)
    BY <1>3, <2>1, EndsWell, EndCauses DEF Seed, At
  <2>2. CASE Keep(t, [Mine(t) EXCEPT !.seedLock = t]) /\ Goto(t, "check")
    <3>1. \A u \in Threads : memory'[ProcessOf[u]].installed = memory[ProcessOf[u]].installed
        BY <2>2 DEF Keep, Mine, ModuleTypeOK, ModuleTypes, ProcessIds, Statics
    <3> QED BY <1>3, <2>2, <3>1, GotoCauses DEF Seed, Steps, Installing
  <2> QED BY <1>3, <2>1, <2>2 DEF Seed
<1>4. ASSUME NEW t \in Threads, Check(t) PROVE Causes'
    BY <1>4, GotoCauses DEF Check, InstalledArtifact, Steps, Installing
<1>5. ASSUME NEW t \in Threads, TakeInstallLock(t) PROVE Causes'
  <2>1. CASE InstalledArtifact(t)
    BY <1>5, <2>1, GotoCauses DEF TakeInstallLock, InstalledArtifact, Steps, Installing
  <2>2. CASE ~InstalledArtifact(t)
    <3>1. \A u \in Threads : memory'[ProcessOf[u]].installed = memory[ProcessOf[u]].installed
        BY <1>5, <2>2 DEF TakeInstallLock, Keep, Mine, ModuleTypeOK, ModuleTypes, ProcessIds, Statics
    <3>2. Verifies(t) /\ Want(t) \in Mine(t).installed =>
                \A u \in Threads : Same(t, u) => Want(t) \in load[u].disturbed
        BY <2>2 DEF InstalledArtifact, Causes, RememberedIsWhole, Verifies, Same, Mine
    <3>3. \A u \in Threads : ~Verifies(u) /\ Same(u, t) /\ At(u, "reopen") /\ Want(u) = Want(t)
                    => Want(u) \in load[u].disturbed
        BY <2>2 DEF InstalledArtifact, Causes, RepairStays, Same, Mine
    <3> QED BY <1>5, <2>2, <3>1, <3>2, <3>3, GotoCauses DEF TakeInstallLock, Steps, Installing
  <2> QED BY <2>1, <2>2
<1>6. ASSUME NEW t \in Threads, Exists(t) PROVE Causes'
  <2>1. load[t].step \in Installing \ {"receipt"}
    BY <1>6 DEF Exists, At, Installing
  <2> QED BY <1>6, <2>1, GotoCauses DEF Exists, Steps, Installing, Causes, InstallsSpoiled
<1>7. ASSUME NEW t \in Threads, Verify(t) PROVE Causes'
  <2>0. load[t].step \in Installing \ {"receipt"} /\ ~At(t, "idle") /\ file' = file /\ At(t, "verify")
    BY <1>7 DEF Verify, At, Installing
  <2>1. CASE Verified(t) /\ Remember(t, "modules")
    BY <2>0, <2>1, RememberCauses DEF Verified, HashMatches, Verifies
  <2>2. CASE Goto(t, "discard") /\ UNCHANGED memory
    BY <2>0, <2>2, GotoCauses DEF Steps, Installing, Causes, InstallsSpoiled
  <2>3. CASE ProcessOf[t] \in Full /\ file[Want(t)] = "none" /\ Fails(t)
    BY <2>0, <2>3, EndCauses DEF Causes, FoundStays, Verifies
  <2> QED BY <1>7, <2>1, <2>2, <2>3 DEF Verify
<1>8. ASSUME NEW t \in Threads, RemoveFile(t) PROVE Causes'
    BY <1>8, RemoveCauses
<1>9. ASSUME NEW t \in Threads, RemoveReceipt(t) PROVE Causes'
  <2>1. PICK s \in {"clear", "promote", "rebuild"} :
            /\ Goto(t, s)
            /\ IF s = "rebuild" THEN load[t].step = "dropReceipt"
               ELSE load[t].step \in {"discardReceipt", "clearReceipt"}
    BY <1>9 DEF RemoveReceipt, At
  <2>2. CASE s = "rebuild"
    BY <1>9, <2>1, <2>2, GotoCauses
    DEF RemoveReceipt, Steps, Installing, Opening, Causes, VerifierNeverRepairs
  <2>3. CASE s # "rebuild"
    <3>1. load[t].step \in Installing \ {"receipt"} /\ s \in Steps
        BY <2>1, <2>3 DEF Installing, Steps
    <3> QED BY <1>9, <2>1, <2>3, <3>1, GotoCauses DEF RemoveReceipt, Causes, InstallsSpoiled
  <2> QED BY <2>2, <2>3
<1>10. ASSUME NEW t \in Threads, Promote(t) PROVE Causes'
    BY <1>10, PromoteCauses
<1>11. ASSUME NEW t \in Threads, WriteCacheReceipt(t) PROVE Causes'
  <2>1. PICK s \in {"modules", "reopen"} : Remember(t, s) /\ (s = "reopen" => load[t].again)
    BY <1>11 DEF WriteCacheReceipt
  <2>2. load[t].step \in Installing /\ file' = file /\ At(t, "receipt")
    BY <1>11 DEF WriteCacheReceipt, At, Installing
  <2> QED BY <2>1, <2>2, RememberCauses DEF Causes, InstallsSpoiled
<1>12. ASSUME NEW t \in Threads, TakeModuleLock(t) PROVE Causes'
  <2>1. CASE Has(t)
    BY <1>12, <2>1, EndsWell, EndCauses DEF TakeModuleLock, At
  <2>2. CASE Keep(t, [Mine(t) EXCEPT !.moduleLock = t]) /\ Goto(t, "open")
    <3>1. \A u \in Threads : memory'[ProcessOf[u]].installed = memory[ProcessOf[u]].installed
        BY <2>2 DEF Keep, Mine, ModuleTypeOK, ModuleTypes, ProcessIds, Statics
    <3>2. Verifies(t) => Want(t) \in Mine(t).installed
        BY <1>12 DEF TakeModuleLock, Causes, RememberedIsWhole, At
    <3> QED BY <1>12, <2>2, <3>1, <3>2, GotoCauses DEF TakeModuleLock, Steps, Installing, Opening
  <2> QED BY <1>12, <2>1, <2>2 DEF TakeModuleLock
<1>13. ASSUME NEW t \in Threads, Deserialize(t) PROVE Causes'
  <2>0. At(t, "open") /\ ~At(t, "idle") /\ file' = file /\ load[t].step \in Opening
    BY <1>13 DEF Deserialize, At, Opening
  <2>1. CASE file[Want(t)] = "whole" /\ Has(t)
    BY <2>0, <2>1, EndsWell, EndCauses
  <2>2. CASE file[Want(t)] # "whole" /\ ProcessOf[t] \in Full /\ Fails(t)
    BY <2>0, <2>2, EndCauses DEF Causes, RememberedIsWhole, Verifies, At
  <2>3. CASE /\ ProcessOf[t] \notin Full
             /\ Keep(t, [Mine(t) EXCEPT !.installed = @ \ {Want(t)}])
             /\ load' = [load EXCEPT ![t].step = "drop", ![t].again = TRUE]
    <3> DEFINE m == [Mine(t) EXCEPT !.installed = @ \ {Want(t)}]
    <3>1. m \in Statics /\ m.installed = Mine(t).installed \ {Want(t)}
        BY DEF ModuleTypeOK, ModuleTypes, Statics, Mine, ProcessIds
    <3>2. Keep(t, m) /\ ~Verifies(t)
        BY <2>3 DEF Verifies
    <3> HIDE DEF m
    <3> QED BY <2>0, <2>3, <3>1, <3>2, DropEffect, ForgetCauses DEF ModuleTypeOK
  <2> QED BY <1>13, <2>1, <2>2, <2>3 DEF Deserialize, Opens
<1>14. ASSUME NEW t \in Threads, Rebuild(t) PROVE Causes'
  <2> DEFINE m == [Mine(t) EXCEPT !.installLock = t, !.installed = @ \ {Want(t)}]
  <2>1. Mine(t) \in Statics
    BY DEF ModuleTypeOK, ModuleTypes, Mine, ProcessIds
  <2>2. m \in Statics /\ m.installed = Mine(t).installed \ {Want(t)}
    BY <2>1 DEF Statics
  <2>3. /\ Keep(t, m) /\ Goto(t, "clear") /\ "clear" \in Steps /\ file' = file
        /\ load[t].step \in Opening /\ ~Verifies(t)
    BY <1>14 DEF Rebuild, Steps, Installing, Opening, At, Causes, VerifierNeverRepairs
  <2> HIDE DEF m
  <2> QED BY <2>2, <2>3, GotoEffect, ForgetCauses DEF ModuleTypeOK
<1>15. ASSUME NEW t \in Threads, Reopen(t) PROVE Causes'
  <2>0. At(t, "reopen") /\ ~At(t, "idle") /\ file' = file /\ ~Verifies(t)
    BY <1>15 DEF Reopen, At, Causes, VerifierNeverRepairs
  <2>1. CASE Has(t)
    BY <2>0, <2>1, EndsWell, EndCauses
  <2>2. CASE file[Want(t)] # "whole" /\ Fails(t)
    BY <2>0, <2>2, EndCauses DEF Causes, RepairStays
  <2> QED BY <1>15, <2>1, <2>2 DEF Reopen, Opens
<1>16. ASSUME NEW a \in Artifacts, Damage(a) PROVE Causes'
    BY <1>16, DamageCauses
<1>17. ASSUME NEW p \in Processes, ModulesDie(p) PROVE Causes'
    BY <1>17, DieCauses
<1>18. ASSUME UNCHANGED moduleVars PROVE Causes'
    BY <1>18 DEF moduleVars, Causes, VerifierNeverRepairs, RememberedIsWhole, InstallsSpoiled,
       FoundStays, RepairStays, FailureHasCause, Verifies, Same, At, Want, Mine
<1> QED BY <1>1, <1>2, <1>3, <1>4, <1>5, <1>6, <1>7, <1>8, <1>9, <1>10, <1>11, <1>12, <1>13,
           <1>14, <1>15, <1>16, <1>17, <1>18 DEF ModuleNext, ModuleStep

(* A module fails to load (aot.rs, load_artifact_module) only if another   *)
(* process removed its file or the disk damaged it during the load, or, in *)
(* a process that verifies hashes, in the life of the process.  For any    *)
(* processes and threads: no thread makes another of its process fail.     *)
THEOREM LoadsRepair == Spec => []FailureHasCause
<1>1. Init => ModuleTypeOK /\ Causes
    BY ModuleTypeStarts, CausesStart DEF Init
<1>2. ModuleTypeOK /\ Causes /\ [Next]_vars => ModuleTypeOK' /\ Causes'
    BY ModuleTypeStep, CausesStep, NextIsModuleNext
<1>3. Causes => FailureHasCause
    BY DEF Causes
<1> QED BY <1>1, <1>2, <1>3, PTL DEF Spec
=============================================================================
