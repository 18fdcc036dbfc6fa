----------------------------- MODULE MCColdStart -----------------------------
(* Two threads of a process that trusts receipts, one of a process that    *)
(* verifies hashes; an archive of the module and one support file.         *)
EXTENDS ColdStart, TLC

CONSTANTS p1, p2, t1, t2, t3, main

Placement == t1 :> p1 @@ t2 :> p1 @@ t3 :> p2
Work == t1 :> {main} @@ t2 :> {main} @@ t3 :> {main}
=============================================================================
