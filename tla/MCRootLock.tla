----------------------------- MODULE MCRootLock -----------------------------
(* RootLock with four openers: three in process p1, one in process p2.     *)
EXTENDS RootLock
CONSTANTS o1, o2, o3, o4, p1, p2
MCOpeners == {o1, o2, o3, o4}
MCProcesses == {p1, p2}
MCProcOf == [o \in MCOpeners |-> IF o = o4 THEN p2 ELSE p1]
=============================================================================
