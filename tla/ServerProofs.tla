----------------------------- MODULE ServerProofs -----------------------------
(***************************************************************************)
(* Safety of the server's life cycle for every set of servers, clients,    *)
(* roots and endpoints: a thread serves only under its root's lock, and a  *)
(* running server keeps its endpoint if servers that share a Unix path     *)
(* share a root; every connection of a client is in exactly one place.     *)
(***************************************************************************)
EXTENDS Server, TLAPS

(* From prepare_root to the drop of the fields, the server has the lock.   *)
Owning == Stages \ {"new", "gone"}

OwnersHold == \A s \in Servers : owner[s] \in Owning => holder[RootOf[s]] = s

(* A live thread's owner is between spawn and join.                        *)
ThreadsOwned ==
    \A s \in Servers :
        thread[s] \in Live => owner[s] \in {"starting", "running", "flagged", "woken"}

(* The types of the variables the argument looks at.                       *)
LifeTypes ==
    /\ setup \in Setups
    /\ owner \in [Servers -> Stages]
    /\ thread \in [Servers -> Live \cup Exited \cup {"none"}]
    /\ binding \in [Endpoints -> Servers \cup {NoServer}]
    /\ holder \in [Roots -> Servers \cup {NoServer}]

LifeInv == LifeTypes /\ OwnersHold /\ ThreadsOwned

-----------------------------------------------------------------------------
(* Initially no server has a lock or a thread.                             *)
LEMMA InitLife == Init => LifeInv
BY ServerAssumption DEF Init, LifeInv, LifeTypes, OwnersHold, ThreadsOwned, Owning, Stages, Live

(* A step of a server's thread leaves owners and locks alone, and never    *)
(* brings a thread that is not live back to life.                          *)
LEMMA ThreadFrame ==
    ASSUME NEW s \in Servers, LifeTypes, Thread(s)
    PROVE  /\ UNCHANGED <<setup, owner, holder>>
           /\ thread[s] \in Live
           /\ \E to \in Live \cup Exited : thread' = [thread EXCEPT ![s] = to]
           /\ \/ UNCHANGED binding
              \/ /\ thread' = [thread EXCEPT ![s] = "ok"] \/ thread' = [thread EXCEPT ![s] = "err"]
                    \/ thread' = [thread EXCEPT ![s] = "acceptErr"]
                 /\ \E b \in Servers \cup {NoServer} :
                       /\ binding' = [binding EXCEPT ![EndpointOf[s]] = b]
                       /\ b \in {binding[EndpointOf[s]], NoServer}
                       /\ binding[EndpointOf[s]] # s => b = binding[EndpointOf[s]]
<1> USE ServerAssumption DEF RootOf, EndpointOf, UnixEndpoints, Live, Exited
<1>1. ASSUME NEW how \in Exited, Exit(s, how)
      PROVE  /\ thread' = [thread EXCEPT ![s] = how]
             /\ \E b \in Servers \cup {NoServer} :
                   /\ binding' = [binding EXCEPT ![EndpointOf[s]] = b]
                   /\ b \in {binding[EndpointOf[s]], NoServer}
                   /\ binding[EndpointOf[s]] # s => b = binding[EndpointOf[s]]
  BY <1>1 DEF Exit, Step, LifeTypes
<1>2. CASE Ready(s)
  BY <1>2 DEF Ready, Step
<1>3. CASE Check(s)
  BY <1>1, <1>3 DEF Check, Step
<1>4. CASE Accept(s)
  BY <1>1, <1>4 DEF Accept, Step
<1>5. CASE Recheck(s)
  BY <1>1, <1>5 DEF Recheck, Step
<1>6. CASE HandleReturns(s)
  BY <1>1, <1>6 DEF HandleReturns, Step
<1> QED
  BY <1>2, <1>3, <1>4, <1>5, <1>6 DEF Thread

(* A thread's step keeps the invariant.                                    *)
LEMMA ThreadStep ==
    ASSUME NEW s \in Servers, LifeInv, Thread(s)
    PROVE  LifeInv'
<1>1. LifeTypes'
  BY ThreadFrame, ServerAssumption DEF LifeInv, LifeTypes
<1>2. OwnersHold'
  BY ThreadFrame DEF LifeInv, OwnersHold, RootOf
<1>3. ThreadsOwned'
  BY ThreadFrame DEF LifeInv, LifeTypes, ThreadsOwned
<1> QED
  BY <1>1, <1>2, <1>3 DEF LifeInv

(* A step of a server's owner keeps it: the lock is taken only when free,  *)
(* and given back only by a server whose thread is not live.               *)
LEMMA OwnerStep ==
    ASSUME NEW s \in Servers, LifeInv,
           PrepareRoot(s) \/ Start(s) \/ SetShutdown(s) \/ Stop(s)
    PROVE  LifeInv'
<1> USE ServerAssumption DEF RootOf, EndpointOf, UnixEndpoints, LifeInv, LifeTypes, OwnersHold, ThreadsOwned, Owning, Stages
<1>1. CASE PrepareRoot(s)
  BY <1>1 DEF PrepareRoot, Goto, Live
<1>2. CASE RemoveStaleSocket(s)
  BY <1>2 DEF RemoveStaleSocket, Goto, Live
<1>3. CASE Bind(s)
  BY <1>3 DEF Bind, Goto, Step, Release, Live, Exited
<1>4. CASE WaitUntilReady(s)
  BY <1>4 DEF WaitUntilReady, Goto, Live
<1>5. CASE SetShutdown(s)
  BY <1>5 DEF SetShutdown, Goto, Live
<1>6. CASE Wake(s)
  BY <1>6 DEF Wake, WakeListener, Goto, Live
<1>7. CASE Join(s)
  BY <1>7 DEF Join, Goto, Live, Exited
<1>8. CASE WakeAgain(s)
  BY <1>8 DEF WakeAgain, WakeListener, Goto, Live
<1>9. CASE DropServer(s)
  BY <1>9 DEF DropServer, Goto, Release, Live
<1> QED
  BY <1>1, <1>2, <1>3, <1>4, <1>5, <1>6, <1>7, <1>8, <1>9 DEF Start, Stop

(* Clients, finished programs and stuttering do not touch what it says.    *)
LEMMA FrameStep ==
    ASSUME LifeInv, UNCHANGED <<setup, owner, thread, binding, holder>>
    PROVE  LifeInv'
BY DEF LifeInv, LifeTypes, OwnersHold, ThreadsOwned, RootOf

LEMMA LifeStep == LifeInv /\ [Next]_vars => LifeInv'
<1> SUFFICES ASSUME LifeInv, [Next]_vars PROVE LifeInv'
  OBVIOUS
<1>1. CASE \E s \in Servers :
              PrepareRoot(s) \/ Start(s) \/ Thread(s) \/ SetShutdown(s) \/ Stop(s)
  BY <1>1, ThreadStep, OwnerStep
<1>2. CASE \E c \in Clients : Connect(c) \/ Leave(c)
  BY <1>2, FrameStep DEF Connect, Leave
<1>3. CASE Finished \/ UNCHANGED vars
  BY <1>3, FrameStep DEF Finished, vars
<1> QED
  BY <1>1, <1>2, <1>3 DEF Next

(* The inductive invariant holds in every reachable state.                 *)
THEOREM LifeCycle == Spec => []LifeInv
BY InitLife, LifeStep, PTL DEF Spec

(* A server's thread runs only under the lock of its root: stop joins the  *)
(* thread before the RootLock field is dropped.                            *)
THEOREM ServesUnderLock == Spec => []LockedWhileServing
<1>1. LifeInv => LockedWhileServing
  BY DEF LifeInv, LifeTypes, OwnersHold, ThreadsOwned, LockedWhileServing, Owning, Stages
<1> QED
  BY <1>1, LifeCycle, PTL

-----------------------------------------------------------------------------
(* Every running server is reached at its endpoint.                        *)
Reached == \A s \in Servers : AtItsEndpoint(s)

(* The program's choice of roots and endpoints never changes.              *)
LEMMA SetupKept == [Next]_vars => setup' = setup
<1> SUFFICES ASSUME Next \/ UNCHANGED vars PROVE setup' = setup
  OBVIOUS
<1>1. CASE \E s \in Servers : PrepareRoot(s) \/ Start(s)
  BY <1>1 DEF PrepareRoot, Start, RemoveStaleSocket, Bind, WaitUntilReady
<1>2. CASE \E s \in Servers : Thread(s)
  BY <1>2 DEF Thread, Ready, Check, Accept, Recheck, HandleReturns
<1>3. CASE \E s \in Servers : SetShutdown(s) \/ Stop(s)
  BY <1>3 DEF SetShutdown, Stop, Wake, WakeAgain, WakeListener, Join, DropServer
<1>4. CASE (\E c \in Clients : Connect(c) \/ Leave(c)) \/ Finished \/ UNCHANGED vars
  BY <1>4 DEF Connect, Leave, Finished, vars
<1> QED
  BY <1>1, <1>2, <1>3, <1>4 DEF Next

(* If servers that share a Unix path share a root, removing the socket     *)
(* found at a path never hits a running server,                            *)
(* for whoever removes it has the lock that a running server would have.   *)
LEMMA EndpointStep ==
    ASSUME LifeInv, LifeInv', [Next]_vars, PathsFollowRoots, Reached
    PROVE  Reached'
<1> USE ServerAssumption DEF RootOf, EndpointOf, UnixEndpoints, LifeInv, LifeTypes, Reached, AtItsEndpoint
<1>1. ASSUME NEW s \in Servers, Thread(s) PROVE Reached'
  <2>1. CASE UNCHANGED binding
    BY <1>1, <2>1, ThreadFrame DEF Live
  <2>2. CASE ~ UNCHANGED binding
    <3>1. PICK b \in Servers \cup {NoServer} :
             /\ binding' = [binding EXCEPT ![EndpointOf[s]] = b]
             /\ binding[EndpointOf[s]] # s => b = binding[EndpointOf[s]]
      BY <1>1, <2>2, ThreadFrame
    <3>2. /\ thread'[s] \notin Live
          /\ \A t \in Servers \ {s} : thread'[t] = thread[t]
      BY <1>1, <2>2, ThreadFrame DEF Live
    <3>3. ASSUME NEW t \in Servers, thread'[t] \in Live
          PROVE  binding'[EndpointOf[t]] = t
      BY <3>1, <3>2, <3>3
    <3>4. setup' = setup
      BY <1>1, ThreadFrame
    <3> QED
      BY <3>3, <3>4
  <2> QED
    BY <2>1, <2>2
<1>2. ASSUME NEW s \in Servers, RemoveStaleSocket(s) PROVE Reached'
  <2>1. /\ owner[s] = "locked" /\ EndpointOf[s] \in UnixEndpoints
        /\ binding' = [binding EXCEPT ![EndpointOf[s]] = NoServer]
        /\ thread' = thread /\ setup' = setup
    BY <1>2 DEF RemoveStaleSocket
  <2>2. ASSUME NEW t \in Servers, thread[t] \in Live
        PROVE  EndpointOf[t] # EndpointOf[s]
    BY <2>1, <2>2 DEF PathsFollowRoots, OwnersHold, ThreadsOwned, Owning, Stages
  <2> QED
    BY <2>1, <2>2
<1>3. ASSUME NEW s \in Servers, Bind(s) PROVE Reached'
  BY <1>3 DEF Bind, Step, Live
<1>4. ASSUME UNCHANGED <<setup, binding, thread>> PROVE Reached'
  BY <1>4
<1>5. CASE \E s \in Servers : PrepareRoot(s) \/ WaitUntilReady(s) \/ SetShutdown(s) \/ Stop(s)
  BY <1>4, <1>5 DEF PrepareRoot, WaitUntilReady, SetShutdown, Stop, Wake, WakeAgain,
                    WakeListener, Join, DropServer
<1>6. CASE \E c \in Clients : Connect(c) \/ Leave(c)
  BY <1>4, <1>6 DEF Connect, Leave
<1>7. CASE Finished \/ UNCHANGED vars
  BY <1>4, <1>7 DEF Finished, vars
<1> QED
  BY <1>1, <1>2, <1>3, <1>5, <1>6, <1>7 DEF Next, Start

(* If servers that share a Unix path share a root, every running server is *)
(* reached at its endpoint, whoever starts and stops around it.            *)
THEOREM EndpointKept == Spec => []EndpointLeadsToServer
<1>1. Init => EndpointLeadsToServer
  BY DEF Init, EndpointLeadsToServer, AtItsEndpoint, Live
<1>2. LifeInv /\ LifeInv' /\ EndpointLeadsToServer /\ [Next]_vars => EndpointLeadsToServer'
  <2> SUFFICES ASSUME LifeInv, LifeInv', EndpointLeadsToServer, [Next]_vars, PathsFollowRoots'
               PROVE  Reached'
    BY DEF EndpointLeadsToServer, Reached
  <2>1. setup' = setup
    BY SetupKept
  <2>2. PathsFollowRoots
    BY <2>1 DEF PathsFollowRoots, RootOf, EndpointOf, UnixEndpoints
  <2>3. Reached
    BY <2>2 DEF EndpointLeadsToServer, Reached
  <2> QED
    BY <2>2, <2>3, EndpointStep
<1> QED
  BY <1>1, <1>2, LifeCycle, PTL DEF Spec

-----------------------------------------------------------------------------
(* Connections.  The types of what the argument above does not look at.    *)
ClientStates ==
    {"idle", "queued", "open", "leaving", "failing", "done", "reset", "refused"}

ConnTypes ==
    /\ shutdown \in [Servers -> BOOLEAN]
    /\ queue \in [Servers -> Seq(Servers \cup Clients)]
    /\ \A s \in Servers : Len(queue[s]) <= Backlog
    /\ conn \in [Servers -> Servers \cup Clients \cup {NoServer}]
    /\ client \in [Clients -> ClientStates]

(* A thread has a connection only between accept and the end of            *)
(* handle_stream, so accept never drops one it has.                        *)
OneAtATime ==
    \A s \in Servers : thread[s] \notin {"accepted", "serving"} => conn[s] = NoServer

(* Where a client is, said of each place.                                  *)
Connected == {"queued", "open", "leaving", "failing"}

Accounted ==
    \A c \in Clients :
        /\ client[c] = "open" => \E s \in Servers : thread[s] = "serving" /\ conn[s] = c
        /\ client[c] \in Connected <=> \E s \in Servers, i \in 0 .. Backlog : Holds(s, i, c)
        /\ \A s, t \in Servers, i, j \in 0 .. Backlog :
                Holds(s, i, c) /\ Holds(t, j, c) => s = t /\ i = j

ConnInv == ConnTypes /\ OneAtATime /\ Accounted

(* What Accounted says of places is what ConnectionsAccounted says.        *)
LEMMA AccountedPlaces == Accounted <=> ConnectionsAccounted
<1>1. \A c : Places(c) # {} <=> \E s \in Servers, i \in 0 .. Backlog : Holds(s, i, c)
  <2> SUFFICES ASSUME NEW c
               PROVE  Places(c) # {} <=> \E s \in Servers, i \in 0 .. Backlog : Holds(s, i, c)
    OBVIOUS
  <2>1. ASSUME NEW s \in Servers, NEW i \in 0 .. Backlog, Holds(s, i, c) PROVE <<s, i>> \in Places(c)
    BY <2>1 DEF Places
  <2>2. ASSUME NEW p \in Places(c) PROVE p[1] \in Servers /\ p[2] \in 0 .. Backlog /\ Holds(p[1], p[2], c)
    BY DEF Places
  <2> QED
    BY <2>1, <2>2
<1>2. \A c : (\A p, q \in Places(c) : p = q) <=>
             \A s, t \in Servers, i, j \in 0 .. Backlog :
                Holds(s, i, c) /\ Holds(t, j, c) => s = t /\ i = j
  <2> SUFFICES ASSUME NEW c
               PROVE  (\A p, q \in Places(c) : p = q) <=>
                      \A s, t \in Servers, i, j \in 0 .. Backlog :
                         Holds(s, i, c) /\ Holds(t, j, c) => s = t /\ i = j
    OBVIOUS
  <2>1. ASSUME \A p, q \in Places(c) : p = q,
               NEW s \in Servers, NEW t \in Servers, NEW i \in 0 .. Backlog, NEW j \in 0 .. Backlog,
               Holds(s, i, c), Holds(t, j, c)
        PROVE  s = t /\ i = j
    <3>1. <<s, i>> \in Places(c) /\ <<t, j>> \in Places(c)
      BY <2>1 DEF Places
    <3>2. <<s, i>> = <<t, j>>
      BY <2>1, <3>1
    <3> QED
      BY <3>2
  <2>2. ASSUME \A s, t \in Servers, i, j \in 0 .. Backlog :
                  Holds(s, i, c) /\ Holds(t, j, c) => s = t /\ i = j,
               NEW p \in Places(c), NEW q \in Places(c)
        PROVE  p = q
    <3>1. /\ p \in Servers \X (0 .. Backlog) /\ Holds(p[1], p[2], c)
          /\ q \in Servers \X (0 .. Backlog) /\ Holds(q[1], q[2], c)
      BY DEF Places
    <3>2. p[1] = q[1] /\ p[2] = q[2]
      BY <2>2, <3>1
    <3> QED
      BY <3>1, <3>2
  <2> QED
    BY <2>1, <2>2
<1> QED
  BY <1>1, <1>2 DEF Accounted, ConnectionsAccounted, Connected

LEMMA InitConn == Init => ConnInv
<1> SUFFICES ASSUME Init PROVE ConnInv
  OBVIOUS
<1> USE ServerAssumption DEF Init
<1>1. ConnTypes
  BY DEF ConnTypes, ClientStates
<1>2. OneAtATime
  BY DEF OneAtATime
<1>3. \A c \in Clients, s \in Servers, i \in 0 .. Backlog : ~Holds(s, i, c)
  BY DEF Holds
<1>4. Accounted
  BY <1>3 DEF Accounted, Connected
<1> QED
  BY <1>1, <1>2, <1>4 DEF ConnInv

(* A thread that returns closes what it has, and its clients know.         *)
LEMMA ExitConn ==
    ASSUME NEW s \in Servers, NEW how \in Exited, LifeTypes, ConnInv, Exit(s, how),
           shutdown' = shutdown
    PROVE  ConnInv'
<1> USE ServerAssumption DEF ConnInv
<1>1. ConnTypes'
  BY DEF ConnTypes, Exit, ClientStates
<1>2. OneAtATime'
  BY DEF ConnTypes, OneAtATime, Exit, Step, LifeTypes, Exited
<1>3. ASSUME NEW c \in Clients, NEW t \in Servers, NEW i \in 0 .. Backlog
      PROVE  Holds(t, i, c)' <=> t # s /\ Holds(t, i, c)
  BY DEF Holds, Exit, ConnTypes
<1>4. ASSUME NEW c \in Clients
      PROVE  c \in Dropped(s) <=> \E i \in 0 .. Backlog : Holds(s, i, c)
  <2>1. /\ DOMAIN queue[s] = 1 .. Len(queue[s]) /\ Len(queue[s]) \in Nat
        /\ Len(queue[s]) <= Backlog /\ Backlog \in Nat
    BY DEF ConnTypes
  <2>2. ASSUME NEW i \in 1 .. Len(queue[s])
        PROVE  i \in 0 .. Backlog /\ (Holds(s, i, c) <=> queue[s][i] = c)
    BY <2>1 DEF Holds
  <2>3. 0 \in 0 .. Backlog /\ (Holds(s, 0, c) <=> conn[s] = c)
    BY <2>1 DEF Holds
  <2>4. ASSUME NEW i \in 0 .. Backlog, Holds(s, i, c) PROVE i = 0 \/ i \in 1 .. Len(queue[s])
    BY <2>1, <2>4 DEF Holds
  <2> QED
    BY <2>1, <2>2, <2>3, <2>4 DEF Dropped
<1>5. ASSUME NEW c \in Clients
      PROVE  /\ client'[c] = "open" => \E t \in Servers : thread'[t] = "serving" /\ conn'[t] = c
             /\ client'[c] \in Connected <=> \E t \in Servers, i \in 0 .. Backlog : Holds(t, i, c)'
             /\ \A t, u \in Servers, i, j \in 0 .. Backlog :
                    Holds(t, i, c)' /\ Holds(u, j, c)' => t = u /\ i = j
  <2>1. CASE c \in Dropped(s)
    <3>1. client'[c] = "reset"
      BY <2>1 DEF Exit
    <3>2. \A t \in Servers, i \in 0 .. Backlog : ~Holds(t, i, c)'
      BY <1>3, <1>4, <2>1 DEF Accounted
    <3> QED
      BY <3>1, <3>2 DEF Connected
  <2>2. CASE c \notin Dropped(s)
    <3>1. client'[c] = client[c]
      BY <2>2 DEF Exit
    <3>2. \A t \in Servers, i \in 0 .. Backlog : Holds(t, i, c)' <=> Holds(t, i, c)
      BY <1>3, <1>4, <2>2
    <3>3. conn[s] # c /\ \A t \in Servers \ {s} : thread'[t] = thread[t] /\ conn'[t] = conn[t]
      BY <2>2 DEF Dropped, Exit, Step, ConnTypes, LifeTypes
    <3> QED
      BY <3>1, <3>2, <3>3 DEF Accounted
  <2> QED
    BY <2>1, <2>2
<1> QED
  BY <1>1, <1>2, <1>5 DEF Accounted

(* accept takes the first connection of the backlog; the others move up.   *)
LEMMA AcceptConn ==
    ASSUME NEW s \in Servers, LifeTypes, ConnInv, Accept(s) PROVE ConnInv'
<1> USE ServerAssumption DEF ConnInv
<1>1. CASE Exit(s, "acceptErr")
  BY <1>1, ExitConn DEF Accept, Exited
<1>2. CASE /\ conn' = [conn EXCEPT ![s] = Head(queue[s])]
           /\ queue' = [queue EXCEPT ![s] = Tail(@)]
           /\ Step(s, "accepted")
           /\ UNCHANGED <<binding, client>>
  <2>1. queue[s] \in Seq(Servers \cup Clients) /\ queue[s] # <<>> /\ Len(queue[s]) <= Backlog
    BY DEF Accept, ConnTypes
  <2>2. ConnTypes'
    BY <1>2, <2>1 DEF ConnTypes, Accept
  <2>3. OneAtATime'
    BY <1>2 DEF OneAtATime, ConnTypes, Accept, Step, LifeTypes
  <2>4. conn[s] = NoServer
    BY DEF Accept, OneAtATime
  <2>5. ASSUME NEW c \in Clients, NEW i \in 0 .. Backlog
        PROVE  Holds(s, i, c)' <=> i + 1 \in 0 .. Backlog /\ Holds(s, i + 1, c)
    <3>1. CASE i = 0
      BY <1>2, <2>1, <3>1 DEF Holds, ConnTypes
    <3>2. CASE i # 0
      BY <1>2, <2>1, <3>2 DEF Holds, ConnTypes
    <3> QED
      BY <3>1, <3>2
  <2>6. ASSUME NEW c \in Clients, NEW t \in Servers \ {s}, NEW i \in 0 .. Backlog
        PROVE  Holds(t, i, c)' <=> Holds(t, i, c)
    BY <1>2 DEF Holds, ConnTypes
  <2>7. ASSUME NEW c \in Clients
        PROVE  /\ client'[c] = "open" => \E t \in Servers : thread'[t] = "serving" /\ conn'[t] = c
               /\ client'[c] \in Connected <=> \E t \in Servers, i \in 0 .. Backlog : Holds(t, i, c)'
               /\ \A t, u \in Servers, i, j \in 0 .. Backlog :
                      Holds(t, i, c)' /\ Holds(u, j, c)' => t = u /\ i = j
    <3>1. client' = client
      BY <1>2
    <3>2. \A t \in Servers : thread[t] = "serving" => thread'[t] = "serving" /\ conn'[t] = conn[t]
      BY <1>2 DEF Accept, Step, LifeTypes, ConnTypes
    <3>3. ~Holds(s, 0, c)
      BY <2>4 DEF Holds
    <3>4. ASSUME NEW t \in Servers, NEW i \in 0 .. Backlog, Holds(t, i, c)
          PROVE  \E j \in 0 .. Backlog : Holds(t, j, c)'
      <4>1. CASE t = s
        <5>1. i # 0 /\ i - 1 \in 0 .. Backlog /\ (i - 1) + 1 = i
          BY <3>3, <3>4, <4>1
        <5> QED
          BY <2>5, <3>4, <4>1, <5>1
      <4>2. CASE t # s
        BY <2>6, <3>4, <4>2
      <4> QED
        BY <4>1, <4>2
    <3>5. (\E t \in Servers, i \in 0 .. Backlog : Holds(t, i, c)')
            => \E t \in Servers, i \in 0 .. Backlog : Holds(t, i, c)
      BY <2>5, <2>6
    <3>6. ASSUME NEW t \in Servers, NEW u \in Servers, NEW i \in 0 .. Backlog, NEW j \in 0 .. Backlog,
                 Holds(t, i, c)', Holds(u, j, c)'
          PROVE  t = u /\ i = j
      <4>1. CASE t = s /\ u = s
        <5>1. i + 1 = j + 1
          BY <2>5, <3>6, <4>1 DEF Accounted
        <5> QED
          BY <4>1, <5>1
      <4>2. CASE t # s \/ u # s
        BY <2>5, <2>6, <3>6, <4>2 DEF Accounted
      <4> QED
        BY <4>1, <4>2
    <3> QED
      BY <3>1, <3>2, <3>4, <3>5, <3>6 DEF Accounted
  <2> QED
    BY <2>2, <2>3, <2>7 DEF Accounted
<1> QED
  BY <1>1, <1>2 DEF Accept

(* The second read of the flag: the connection is served, or closed.       *)
LEMMA RecheckConn ==
    ASSUME NEW s \in Servers, LifeTypes, ConnInv, Recheck(s) PROVE ConnInv'
<1> USE ServerAssumption DEF ConnInv
<1>1. CASE Exit(s, "ok")
  BY <1>1, ExitConn DEF Recheck, Exited
<1>2. CASE /\ Step(s, "serving")
           /\ client' = [c \in Clients |->
                            IF c = conn[s] /\ client[c] = "queued" THEN "open" ELSE client[c]]
           /\ UNCHANGED <<queue, conn, binding>>
  <2>1. ConnTypes'
    BY <1>2 DEF ConnTypes, ClientStates, Recheck
  <2>2. OneAtATime'
    BY <1>2 DEF OneAtATime, Recheck, Step, LifeTypes
  <2>3. \A c \in Clients : /\ client'[c] \in Connected <=> client[c] \in Connected
                           /\ client'[c] = "open" => client[c] = "open" \/ conn[s] = c
    BY <1>2 DEF Connected
  <2>4. \A c, t, i : Holds(t, i, c)' <=> Holds(t, i, c)
    BY <1>2 DEF Holds
  <2>5. /\ thread'[s] = "serving"
        /\ \A t \in Servers : conn'[t] = conn[t] /\ (thread[t] = "serving" => thread'[t] = "serving")
    BY <1>2 DEF Step, LifeTypes
  <2> QED
    BY <2>1, <2>2, <2>3, <2>4, <2>5 DEF Accounted
<1> QED
  BY <1>1, <1>2 DEF Recheck

(* handle_stream returns: its client is done, or the thread returns.       *)
LEMMA HandleConn ==
    ASSUME NEW s \in Servers, LifeTypes, ConnInv, HandleReturns(s) PROVE ConnInv'
<1> USE ServerAssumption DEF ConnInv
<1>1. CASE Exit(s, "err")
  BY <1>1, ExitConn DEF HandleReturns, Exited
<1>2. CASE /\ Step(s, "check")
           /\ client' = [c \in Clients |-> IF c = conn[s] THEN "done" ELSE client[c]]
           /\ conn' = [conn EXCEPT ![s] = NoServer]
           /\ UNCHANGED <<queue, binding>>
  <2>1. ConnTypes'
    BY <1>2 DEF ConnTypes, ClientStates, HandleReturns
  <2>2. OneAtATime'
    BY <1>2 DEF OneAtATime, HandleReturns, Step, LifeTypes, ConnTypes
  <2>3. ASSUME NEW c \in Clients, NEW t \in Servers, NEW i \in 0 .. Backlog
        PROVE  Holds(t, i, c)' <=> Holds(t, i, c) /\ ~(t = s /\ i = 0)
    BY <1>2 DEF Holds, ConnTypes
  <2>4. ASSUME NEW c \in Clients
        PROVE  /\ client'[c] = "open" => \E t \in Servers : thread'[t] = "serving" /\ conn'[t] = c
               /\ client'[c] \in Connected <=> \E t \in Servers, i \in 0 .. Backlog : Holds(t, i, c)'
               /\ \A t, u \in Servers, i, j \in 0 .. Backlog :
                      Holds(t, i, c)' /\ Holds(u, j, c)' => t = u /\ i = j
    <3>1. Holds(s, 0, c) <=> conn[s] = c
      BY DEF Holds
    <3>2. 0 \in 0 .. Backlog
      OBVIOUS
    <3>3. CASE conn[s] = c
      <4>1. client'[c] = "done"
        BY <1>2, <3>3
      <4>2. \A t \in Servers, i \in 0 .. Backlog : ~Holds(t, i, c)'
        BY <2>3, <3>1, <3>2, <3>3 DEF Accounted
      <4> QED
        BY <4>1, <4>2 DEF Connected
    <3>4. CASE conn[s] # c
      <4>1. client'[c] = client[c]
        BY <1>2, <3>4
      <4>2. \A t \in Servers, i \in 0 .. Backlog : Holds(t, i, c)' <=> Holds(t, i, c)
        BY <2>3, <3>1, <3>4
      <4>3. \A t \in Servers \ {s} : thread'[t] = thread[t] /\ conn'[t] = conn[t]
        BY <1>2 DEF Step, ConnTypes, LifeTypes
      <4> QED
        BY <3>4, <4>1, <4>2, <4>3 DEF Accounted
    <3> QED
      BY <3>3, <3>4
  <2> QED
    BY <2>1, <2>2, <2>4 DEF Accounted
<1> QED
  BY <1>1, <1>2 DEF HandleReturns

(* What a connection that is queued adds to the places.                    *)
LEMMA EnqueueHolds ==
    ASSUME LifeTypes, ConnTypes, NEW e \in Endpoints, NEW x \in Servers \cup Clients, Enqueue(e, x),
           conn' = conn
    PROVE  /\ queue' \in [Servers -> Seq(Servers \cup Clients)]
           /\ \A s \in Servers : Len(queue'[s]) <= Backlog
           /\ \E b \in Servers, n \in 0 .. Backlog :
                \A t \in Servers, i \in 0 .. Backlog, c \in Clients :
                    Holds(t, i, c)' <=> Holds(t, i, c) \/ (t = b /\ i = n /\ c = x)
<1> USE ServerAssumption
<1>1. PICK b \in Servers : b = binding[e]
  BY DEF Enqueue, Reachable, LifeTypes
<1>2. PICK n \in Nat : n = Len(queue[b])
  BY DEF ConnTypes
<1>3. n < Backlog /\ queue' = [queue EXCEPT ![b] = Append(queue[b], x)]
  BY <1>1, <1>2 DEF Enqueue
<1>4. /\ Append(queue[b], x) \in Seq(Servers \cup Clients)
      /\ Len(Append(queue[b], x)) = n + 1
      /\ Append(queue[b], x)[n + 1] = x
      /\ \A i \in 1 .. n : Append(queue[b], x)[i] = queue[b][i]
  BY <1>2 DEF ConnTypes
<1>5. queue' \in [Servers -> Seq(Servers \cup Clients)] /\ \A s \in Servers : Len(queue'[s]) <= Backlog
  BY <1>3, <1>4 DEF ConnTypes
<1>6. ASSUME NEW t \in Servers, NEW i \in 0 .. Backlog, NEW c \in Clients
      PROVE  Holds(t, i, c)' <=> Holds(t, i, c) \/ (t = b /\ i = n + 1 /\ c = x)
  <2>1. CASE t = b
    <3>1. queue'[b] = Append(queue[b], x)
      BY <1>3 DEF ConnTypes
    <3> QED
      BY <1>2, <1>4, <2>1, <3>1 DEF Holds
  <2>2. CASE t # b
    BY <1>3, <2>2 DEF Holds, ConnTypes
  <2> QED
    BY <2>1, <2>2
<1>7. n + 1 \in 0 .. Backlog
  BY <1>3
<1> QED
  BY <1>5, <1>6, <1>7

(* A client that connects was in no place before.                          *)
LEMMA ConnectConn ==
    ASSUME NEW c \in Clients, LifeTypes, ConnInv, Connect(c) PROVE ConnInv'
<1> USE ServerAssumption DEF ConnInv
<1>1. PICK e \in Endpoints :
        \/ /\ Enqueue(e, c)
           /\ client' = [client EXCEPT ![c] = "queued"]
        \/ /\ ~Reachable(e)
           /\ client' = [client EXCEPT ![c] = "refused"]
           /\ UNCHANGED queue
  BY DEF Connect
<1>2. UNCHANGED <<thread, shutdown, conn>> /\ client[c] = "idle"
  BY DEF Connect
<1>3. OneAtATime'
  BY <1>2 DEF OneAtATime
<1>4. \A s \in Servers, i \in 0 .. Backlog : ~Holds(s, i, c)
  BY <1>2 DEF Accounted, Connected
<1>5. CASE Enqueue(e, c) /\ client' = [client EXCEPT ![c] = "queued"]
  <2>1. ConnTypes'
    BY <1>2, <1>5, EnqueueHolds DEF ConnTypes, ClientStates
  <2>2. PICK b \in Servers, n \in 0 .. Backlog :
            \A t \in Servers, i \in 0 .. Backlog, d \in Clients :
                Holds(t, i, d)' <=> Holds(t, i, d) \/ (t = b /\ i = n /\ d = c)
    BY <1>2, <1>5, EnqueueHolds
  <2>3. client'[c] = "queued" /\ \A d \in Clients \ {c} : client'[d] = client[d]
    BY <1>5 DEF ConnTypes
  <2>4. Accounted'
    BY <1>2, <1>4, <2>2, <2>3 DEF Accounted, Connected
  <2> QED
    BY <1>3, <2>1, <2>4
<1>6. CASE client' = [client EXCEPT ![c] = "refused"] /\ UNCHANGED queue
  <2>1. ConnTypes'
    BY <1>2, <1>6 DEF ConnTypes, ClientStates
  <2>2. \A t, i, d : Holds(t, i, d)' <=> Holds(t, i, d)
    BY <1>2, <1>6 DEF Holds
  <2>3. client'[c] = "refused" /\ \A d \in Clients \ {c} : client'[d] = client[d]
    BY <1>6 DEF ConnTypes
  <2>4. Accounted'
    BY <1>2, <1>4, <2>2, <2>3 DEF Accounted, Connected
  <2> QED
    BY <1>3, <2>1, <2>4
<1> QED
  BY <1>1, <1>5, <1>6

(* A wake is no client's connection.                                       *)
LEMMA WakeConn ==
    ASSUME NEW s \in Servers, NEW from, NEW to, LifeTypes, ConnInv, WakeListener(s, from, to)
    PROVE  ConnInv'
<1> USE ServerAssumption DEF ConnInv
<1>1. UNCHANGED <<thread, shutdown, conn, client>>
  BY DEF WakeListener
<1>2. OneAtATime'
  BY <1>1 DEF OneAtATime
<1>3. CASE UNCHANGED queue
  BY <1>1, <1>2, <1>3 DEF ConnTypes, Accounted, Holds
<1>4. CASE Enqueue(EndpointOf[s], s)
  <2>1. EndpointOf[s] \in Endpoints
    BY DEF LifeTypes, EndpointOf
  <2>2. ConnTypes'
    BY <1>1, <1>4, <2>1, EnqueueHolds DEF ConnTypes
  <2>3. \A c \in Clients : c # s
    OBVIOUS
  <2>4. \A t \in Servers, i \in 0 .. Backlog, c \in Clients : Holds(t, i, c)' <=> Holds(t, i, c)
    BY <1>1, <1>4, <2>1, <2>3, EnqueueHolds
  <2>5. Accounted'
    BY <1>1, <2>4 DEF Accounted
  <2> QED
    BY <1>2, <2>2, <2>5
<1> QED
  BY <1>3, <1>4 DEF WakeListener

(* A step that leaves connections and serving threads alone.               *)
LEMMA FrameConn ==
    ASSUME ConnInv, UNCHANGED <<queue, conn, client>>, shutdown' \in [Servers -> BOOLEAN],
           \A s \in Servers : \/ thread'[s] = thread[s]
                              \/ thread[s] \notin {"accepted", "serving"}
    PROVE  ConnInv'
<1> USE DEF ConnInv
<1>1. ConnTypes' /\ OneAtATime'
  BY DEF ConnTypes, OneAtATime
<1>2. \A t, i, d : Holds(t, i, d)' <=> Holds(t, i, d)
  BY DEF Holds
<1>3. Accounted'
  BY <1>2 DEF Accounted
<1> QED
  BY <1>1, <1>3

LEMMA LeaveConn == ASSUME NEW c \in Clients, ConnInv, Leave(c) PROVE ConnInv'
<1> USE DEF ConnInv
<1>1. PICK how \in {"leaving", "failing"} : client' = [client EXCEPT ![c] = how]
  BY DEF Leave
<1>2. UNCHANGED <<thread, shutdown, queue, conn>> /\ client[c] \in {"queued", "open"}
  BY DEF Leave
<1>3. ConnTypes' /\ OneAtATime'
  BY <1>1, <1>2 DEF ConnTypes, ClientStates, OneAtATime
<1>4. \A t, i, d : Holds(t, i, d)' <=> Holds(t, i, d)
  BY <1>2 DEF Holds
<1>5. client'[c] = how /\ \A d \in Clients \ {c} : client'[d] = client[d]
  BY <1>1 DEF ConnTypes
<1>6. Accounted'
  BY <1>2, <1>4, <1>5 DEF Accounted, Connected
<1> QED
  BY <1>3, <1>6

LEMMA ConnStep == LifeInv /\ ConnInv /\ [Next]_vars => ConnInv'
<1> SUFFICES ASSUME LifeInv, ConnInv, [Next]_vars PROVE ConnInv'
  OBVIOUS
<1>1. LifeTypes /\ ConnTypes
  BY DEF LifeInv, ConnInv
<1>2. ASSUME NEW s \in Servers, PrepareRoot(s) \/ RemoveStaleSocket(s) \/ WaitUntilReady(s)
                                \/ SetShutdown(s) \/ Join(s) \/ DropServer(s)
      PROVE  ConnInv'
  <2>1. UNCHANGED <<thread, queue, conn, client>> /\ shutdown' \in [Servers -> BOOLEAN]
    BY <1>1, <1>2
    DEF PrepareRoot, RemoveStaleSocket, WaitUntilReady, SetShutdown, Join, DropServer, ConnTypes
  <2> QED
    BY <2>1, FrameConn
<1>3. ASSUME NEW s \in Servers, Bind(s) PROVE ConnInv'
  <2>1. thread[s] \notin Live
    BY <1>3 DEF Bind, LifeInv, ThreadsOwned
  <2>2. \A t \in Servers : thread'[t] = thread[t] \/ thread[t] \notin {"accepted", "serving"}
    BY <1>1, <1>3, <2>1 DEF Bind, Step, Live, LifeTypes
  <2>3. UNCHANGED <<queue, conn, client>> /\ shutdown' \in [Servers -> BOOLEAN]
    BY <1>1, <1>3 DEF Bind, ConnTypes
  <2> QED
    BY <2>2, <2>3, FrameConn
<1>4. ASSUME NEW s \in Servers, Ready(s) PROVE ConnInv'
  <2>1. \A t \in Servers : thread'[t] = thread[t] \/ thread[t] \notin {"accepted", "serving"}
    BY <1>1, <1>4 DEF Ready, Step, LifeTypes
  <2>2. UNCHANGED <<queue, conn, client>> /\ shutdown' \in [Servers -> BOOLEAN]
    BY <1>1, <1>4 DEF Ready, ConnTypes
  <2> QED
    BY <2>1, <2>2, FrameConn
<1>5. ASSUME NEW s \in Servers, Check(s) PROVE ConnInv'
  <2>1. CASE Exit(s, "ok")
    BY <1>1, <1>5, <2>1, ExitConn DEF Check, Exited
  <2>2. CASE Step(s, "accept") /\ UNCHANGED <<queue, conn, binding, client>>
    <3>1. \A t \in Servers : thread'[t] = thread[t] \/ thread[t] \notin {"accepted", "serving"}
      BY <1>1, <1>5, <2>2 DEF Check, Step, LifeTypes
    <3> QED
      BY <1>1, <1>5, <2>2, <3>1, FrameConn DEF Check, ConnTypes
  <2> QED
    BY <1>5, <2>1, <2>2 DEF Check
<1>6. ASSUME NEW s \in Servers, Thread(s) PROVE ConnInv'
  BY <1>1, <1>4, <1>5, <1>6, AcceptConn, RecheckConn, HandleConn DEF Thread
<1>7. ASSUME NEW s \in Servers, Wake(s) \/ WakeAgain(s) PROVE ConnInv'
  BY <1>1, <1>7, WakeConn DEF Wake, WakeAgain
<1>8. ASSUME NEW c \in Clients, Connect(c) \/ Leave(c) PROVE ConnInv'
  BY <1>1, <1>8, ConnectConn, LeaveConn
<1>9. CASE Finished \/ UNCHANGED vars
  BY <1>1, <1>9, FrameConn DEF Finished, vars, ConnTypes
<1> QED
  BY <1>2, <1>3, <1>6, <1>7, <1>8, <1>9 DEF Next, Start, Stop

(* For any number of servers and clients and any backlog: a client that    *)
(* has connected and was not told otherwise is in exactly one place, one   *)
(* backlog or the one thread that serves it, through accepts, wakes, exits *)
(* with an error and stops.                                                *)
THEOREM ConnectionsKept == Spec => []ConnectionsAccounted
<1>1. ConnInv => ConnectionsAccounted
  BY AccountedPlaces DEF ConnInv
<1> QED
  BY <1>1, InitConn, ConnStep, LifeCycle, PTL DEF Spec

(* Type correctness; in particular a backlog never exceeds its limit.      *)
THEOREM ServerTypeCorrect == Spec => []TypeOK
<1>1. LifeInv /\ ConnInv => TypeOK
  BY DEF LifeInv, LifeTypes, ConnInv, ConnTypes, TypeOK, ClientStates
<1> QED
  BY <1>1, InitConn, ConnStep, LifeCycle, PTL DEF Spec
=============================================================================
