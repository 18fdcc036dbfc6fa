------------------------------ MODULE ColdStart ------------------------------
(***************************************************************************)
(* A process opens its first database: it gets the shared runtime, then    *)
(* its threads load the compiled modules.  Both caches belong to all       *)
(* processes of a user, and a killed process leaves both as they are.      *)
(***************************************************************************)
EXTENDS RuntimeCache, ModuleCache

vars == <<content, cacheLock, runtime, cut, file, receipt, memory, load, damages>>

Init == RuntimeInit /\ ModuleInit

(* prepare_runtime_layout comes before the modules of the instance.        *)
Loading(t) ==
    /\ runtime[ProcessOf[t]].step = "ok"
    /\ \E a \in Artifacts : LoadArtifactModule(t, a)

Die(p) == RuntimeDies(p) /\ ModulesDie(p)

Next ==
    \/ \E p \in Processes : AskRuntime(p) /\ UNCHANGED moduleVars
    \/ \E p \in Processes : RuntimeFails(p) /\ UNCHANGED moduleVars
    \/ \E t \in Threads : Loading(t) /\ UNCHANGED runtimeVars
    \/ \E t \in Threads : WriteFails(t) /\ UNCHANGED runtimeVars
    \/ \E a \in Artifacts : Damage(a) /\ UNCHANGED runtimeVars
    \/ \E p \in Processes : RuntimeStep(p) /\ UNCHANGED moduleVars
    \/ \E t \in Threads : ModuleStep(t) /\ UNCHANGED runtimeVars
    \/ \E p \in Processes : Die(p)

(* A thread that can go on does, as threads do; a mutex is taken a bounded *)
(* number of times, so that its fairness does not matter.  Nothing is      *)
(* assumed of faults.                                                      *)
Spec == Init /\ [][Next]_vars /\ \A t \in Threads : WF_vars(ModuleStep(t) /\ UNCHANGED runtimeVars)

(* Both caches are well formed; their locks are held where they must be.   *)
TypeOK == RuntimeTypeOK /\ ModuleTypeOK

(* A load returns: the three mutexes do not deadlock, and no repair runs   *)
(* for ever against another process.                                       *)
LoadReturns == \A t \in Threads : ~At(t, "idle") ~> At(t, "idle")
=============================================================================
