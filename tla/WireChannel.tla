----------------------------- MODULE WireChannel -----------------------------
(***************************************************************************)
(* What a client of the proxy is promised about one connection: the        *)
(* embedded backend receives the bytes the client sent, in the order it    *)
(* sent them, none lost and none repeated, whether a message travels       *)
(* through a batch or over the socket after a COPY handoff; answers come   *)
(* back in request order; nothing happens once the connection has ended.   *)
(*                                                                         *)
(* Message i of the client is sent[i].  Its bytes are the two units 2i-1   *)
(* and 2i, so that a read may end inside a message.                        *)
(***************************************************************************)
EXTENDS Naturals, Sequences

CONSTANT Kinds     \* kinds of frontend messages

VARIABLES
    sent,       \* kinds of the messages the client has sent
    delivered,  \* units the backend has received, in order
    answered,   \* messages whose answer the client's socket has, in order
    ended       \* the proxy is done with the connection

channel == <<sent, delivered, answered, ended>>

MessageOf(u) == (u + 1) \div 2

(* Packets the proxy answers itself; all other messages are the backend's. *)
ControlKinds == {"Ssl", "Cancel", "Terminate", "Startup"}

(* d is what a backend that lost, repeated and reordered nothing has       *)
(* received of the messages s: units increase, and a skipped unit belongs  *)
(* to a control packet.                                                    *)
Faithful(d, s) ==
    /\ \A i, j \in DOMAIN d : i < j => d[i] < d[j]
    /\ \A j \in DOMAIN d :
        /\ d[j] <= 2 * Len(s)
        /\ \A u \in (IF j = 1 THEN 1 ELSE d[j-1] + 1) .. (d[j] - 1) :
               s[MessageOf(u)] \in ControlKinds

(* Answers are in request order and follow the request's last unit.        *)
AnswersFollow(a, d) ==
    /\ \A i, j \in DOMAIN a : i < j => a[i] < a[j]
    /\ \A i \in DOMAIN a : \E j \in DOMAIN d : d[j] = 2 * a[i]

Extends(new, old) ==
    Len(old) <= Len(new) /\ SubSeq(new, 1, Len(old)) = old

Init == sent \in Seq(Kinds) /\ delivered = <<>> /\ answered = <<>> /\ ended = FALSE

Send ==
    /\ \E k \in Kinds : sent' = Append(sent, k)
    /\ UNCHANGED <<delivered, answered, ended>>

Exchange ==
    /\ ~ended
    /\ Extends(delivered', delivered) /\ Faithful(delivered', sent)
    /\ Extends(answered', answered) /\ AnswersFollow(answered', delivered')
    /\ ended' \in BOOLEAN
    /\ UNCHANGED sent

Next == Send \/ Exchange

Spec == Init /\ [][Next]_channel
=============================================================================
