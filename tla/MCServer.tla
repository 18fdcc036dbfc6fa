------------------------------- MODULE MCServer -------------------------------
(* Two servers that contend for an endpoint, a root, or both.              *)
EXTENDS Server, TLC

CONSTANTS s1, s2, c1, c2, r1, r2, e1

SameEndpoint == s1 :> e1 @@ s2 :> e1

(* Two roots on one TCP address.                                           *)
OneAddress == [root |-> s1 :> r1 @@ s2 :> r2, endpoint |-> SameEndpoint, unix |-> {}]
(* One root, and the path of its socket.                                   *)
OnePath == [root |-> s1 :> r1 @@ s2 :> r1, endpoint |-> SameEndpoint, unix |-> {e1}]
AllSetups == {OneAddress, OnePath}
=============================================================================
