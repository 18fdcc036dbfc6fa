-------------------------------- MODULE Server --------------------------------
(***************************************************************************)
(* PgliteServer (server.rs) and the accept loop of PgliteProxy (proxy.rs): *)
(* a program starts servers on roots and endpoints, each server's thread   *)
(* accepts one connection at a time, and stopping a server sets a flag and *)
(* wakes the blocked accept with a connection of its own.                  *)
(*                                                                         *)
(* handle_stream is abstracted to what it does to the loop: it returns     *)
(* when the client leaves, with an error or without (module Proxy).  The   *)
(* root lock is abstracted to its holder (module RootLock).  Each server   *)
(* value goes through its life once.                                       *)
(***************************************************************************)
EXTENDS Naturals, Sequences

CONSTANTS
    Servers, Clients,
    Roots, Endpoints,
    Setups,        \* what the program may start its servers on: records with
                   \*   root      the root of each server
                   \*   endpoint  its TCP address or Unix path
                   \*   unix      the endpoints that are Unix paths
    Backlog,       \* bound: connections a listener queues
    NoServer       \* no server, and no connection

ASSUME ServerAssumption ==
    /\ Servers \cap Clients = {}
    /\ NoServer \notin Servers \cup Clients
    /\ \A u \in Setups :
        /\ u.root \in [Servers -> Roots]
        /\ u.endpoint \in [Servers -> Endpoints]
        /\ u.unix \subseteq Endpoints
    /\ Backlog \in Nat \ {0}

VARIABLES
    setup,    \* what the servers are started on, the same all along
    owner,    \* where start, stop and drop are, for each server
    thread,   \* where the server thread is
    shutdown, \* the shared flag
    queue,    \* the listener's backlog: clients, and servers for their wakes
    conn,     \* the connection the thread has accepted
    binding,  \* the server whose listener an endpoint leads to
    holder,   \* the server that holds the lock of a root
    client    \* the state of each client

vars == <<setup, owner, thread, shutdown, queue, conn, binding, holder, client>>

RootOf == setup.root
EndpointOf == setup.endpoint
UnixEndpoints == setup.unix

Stages ==
    {"new", "locked", "removed", "starting", "running",
     "flagged", "woken", "joined", "rewoken", "gone"}
Live == {"ready", "check", "accept", "accepted", "serving"}
Exited == {"ok", "err", "acceptErr"}

Goto(s, to) == owner' = [owner EXCEPT ![s] = to]
Step(s, to) == thread' = [thread EXCEPT ![s] = to]

Init ==
    /\ setup \in Setups
    /\ owner = [s \in Servers |-> "new"]
    /\ thread = [s \in Servers |-> "none"]
    /\ shutdown = [s \in Servers |-> FALSE]
    /\ queue = [s \in Servers |-> <<>>]
    /\ conn = [s \in Servers |-> NoServer]
    /\ binding = [e \in Endpoints |-> NoServer]
    /\ holder = [r \in Roots |-> NoServer]
    /\ client = [c \in Clients |-> "idle"]

-----------------------------------------------------------------------------
(* start                                                                   *)

Release(s) ==
    holder' = [holder EXCEPT ![RootOf[s]] = IF @ = s THEN NoServer ELSE @]

(* prepare_root: take the root's lock, or fail.                            *)
PrepareRoot(s) ==
    /\ owner[s] = "new"
    /\ \/ /\ holder[RootOf[s]] = NoServer
          /\ holder' = [holder EXCEPT ![RootOf[s]] = s]
          /\ Goto(s, "locked")
       \/ /\ holder[RootOf[s]] # NoServer
          /\ Goto(s, "gone")
          /\ UNCHANGED holder
    /\ UNCHANGED <<setup, thread, shutdown, queue, conn, binding, client>>

(* start_unix: whatever is at the path is removed, without asking whether  *)
(* a server still listens there.                                           *)
RemoveStaleSocket(s) ==
    /\ owner[s] = "locked" /\ EndpointOf[s] \in UnixEndpoints
    /\ binding' = [binding EXCEPT ![EndpointOf[s]] = NoServer]
    /\ Goto(s, "removed")
    /\ UNCHANGED <<setup, thread, shutdown, queue, conn, holder, client>>

(* bind and thread::spawn.  A taken endpoint fails the start, and dropping *)
(* the prepared root releases its lock.                                    *)
Bind(s) ==
    /\ owner[s] = IF EndpointOf[s] \in UnixEndpoints THEN "removed" ELSE "locked"
    /\ \/ /\ binding[EndpointOf[s]] = NoServer
          /\ binding' = [binding EXCEPT ![EndpointOf[s]] = s]
          /\ Step(s, "ready")
          /\ Goto(s, "starting")
          /\ UNCHANGED holder
       \/ /\ binding[EndpointOf[s]] # NoServer
          /\ Release(s)
          /\ Goto(s, "gone")
          /\ UNCHANGED <<binding, thread>>
    /\ UNCHANGED <<setup, shutdown, queue, conn, client>>

(* wait_until_ready                                                        *)
WaitUntilReady(s) ==
    /\ owner[s] = "starting" /\ thread[s] # "ready"
    /\ Goto(s, "running")
    /\ UNCHANGED <<setup, thread, shutdown, queue, conn, binding, holder, client>>

-----------------------------------------------------------------------------
(* The server thread: serve_tcp_listener_until_ready and its Unix twin.    *)

(* Connections the thread takes down with its listener.                    *)
Dropped(s) == {queue[s][i] : i \in DOMAIN queue[s]} \cup {conn[s]}

(* Mutant: the backlog is not closed with the thread.                      *)
Exit_LeavesQueue(s, how) ==
    /\ Step(s, how)
    /\ conn' = [conn EXCEPT ![s] = NoServer]
    /\ client' = [c \in Clients |-> IF c = conn[s] THEN "reset" ELSE client[c]]
    /\ UNCHANGED <<queue, binding>>

(* The thread returns: accepted and queued connections are closed.  A TCP  *)
(* address is free again; a Unix path stays and leads nowhere.             *)
Exit(s, how) ==
    /\ Step(s, how)
    /\ queue' = [queue EXCEPT ![s] = <<>>]
    /\ conn' = [conn EXCEPT ![s] = NoServer]
    /\ client' = [c \in Clients |-> IF c \in Dropped(s) THEN "reset" ELSE client[c]]
    /\ binding' = [binding EXCEPT ![EndpointOf[s]] =
                      IF @ = s /\ EndpointOf[s] \notin UnixEndpoints THEN NoServer ELSE @]

Ready(s) ==
    /\ thread[s] = "ready"
    /\ Step(s, "check")
    /\ UNCHANGED <<setup, owner, shutdown, queue, conn, binding, holder, client>>

(* while !shutdown                                                         *)
Check(s) ==
    /\ thread[s] = "check"
    /\ \/ /\ shutdown[s]
          /\ Exit(s, "ok")
       \/ /\ ~shutdown[s]
          /\ Step(s, "accept")
          /\ UNCHANGED <<queue, conn, binding, client>>
    /\ UNCHANGED <<setup, owner, shutdown, holder>>

(* Mutant: the connection stays in the backlog.                            *)
Accept_NotTaken(s) ==
    /\ thread[s] = "accept" /\ queue[s] # <<>>
    /\ conn' = [conn EXCEPT ![s] = Head(queue[s])]
    /\ Step(s, "accepted")
    /\ UNCHANGED <<setup, owner, shutdown, queue, binding, holder, client>>

(* accept blocks until there is a connection, and may fail.                *)
Accept(s) ==
    /\ thread[s] = "accept" /\ queue[s] # <<>>
    /\ \/ /\ conn' = [conn EXCEPT ![s] = Head(queue[s])]
          /\ queue' = [queue EXCEPT ![s] = Tail(@)]
          /\ Step(s, "accepted")
          /\ UNCHANGED <<binding, client>>
       \/ Exit(s, "acceptErr")
    /\ UNCHANGED <<setup, owner, shutdown, holder>>

(* The flag is read again: it may have been set while accept was blocked.  *)
Recheck(s) ==
    /\ thread[s] = "accepted"
    /\ \/ /\ shutdown[s]
          /\ Exit(s, "ok")
       \/ /\ ~shutdown[s]
          /\ Step(s, "serving")
          /\ client' = [c \in Clients |->
                           IF c = conn[s] /\ client[c] = "queued" THEN "open" ELSE client[c]]
          /\ UNCHANGED <<queue, conn, binding>>
    /\ UNCHANGED <<setup, owner, shutdown, holder>>

(* handle_stream returns: at once for a wake, which carries no data, and   *)
(* for a client when it has left.  An error ends the loop.                 *)
HandleReturns(s) ==
    /\ thread[s] = "serving"
    /\ \/ /\ conn[s] \in Servers \/ (conn[s] \in Clients /\ client[conn[s]] = "leaving")
          /\ Step(s, "check")
          /\ client' = [c \in Clients |-> IF c = conn[s] THEN "done" ELSE client[c]]
          /\ conn' = [conn EXCEPT ![s] = NoServer]
          /\ UNCHANGED <<queue, binding>>
       \/ /\ conn[s] \in Clients /\ client[conn[s]] = "failing"
          /\ Exit(s, "err")
    /\ UNCHANGED <<setup, owner, shutdown, holder>>

-----------------------------------------------------------------------------
(* Connecting, for clients and for wakes.                                  *)

Reachable(e) == binding[e] # NoServer /\ thread[binding[e]] \in Live

(* The connection is queued; a full backlog makes connect wait.            *)
Enqueue(e, x) ==
    /\ Reachable(e) /\ Len(queue[binding[e]]) < Backlog
    /\ queue' = [queue EXCEPT ![binding[e]] = Append(@, x)]

Connect(c) ==
    /\ client[c] = "idle"
    /\ \E e \in Endpoints :
        \/ /\ Enqueue(e, c)
           /\ client' = [client EXCEPT ![c] = "queued"]
        \/ /\ ~Reachable(e)
           /\ client' = [client EXCEPT ![c] = "refused"]
           /\ UNCHANGED queue
    /\ UNCHANGED <<setup, owner, thread, shutdown, conn, binding, holder>>

(* A client goes; "failing" if that makes handle_stream return an error.   *)
Leave(c) ==
    /\ client[c] \in {"queued", "open"}
    /\ client' \in {[client EXCEPT ![c] = "leaving"], [client EXCEPT ![c] = "failing"]}
    /\ UNCHANGED <<setup, owner, thread, shutdown, queue, conn, binding, holder>>

-----------------------------------------------------------------------------
(* stop, run by shutdown and by drop.                                      *)

SetShutdown(s) ==
    /\ owner[s] = "running"
    /\ shutdown' = [shutdown EXCEPT ![s] = TRUE]
    /\ Goto(s, "flagged")
    /\ UNCHANGED <<setup, thread, queue, conn, binding, holder, client>>

(* Mutant: no wake.                                                        *)
WakeListener_None(s, from, to) ==
    /\ owner[s] = from
    /\ Goto(s, to)
    /\ UNCHANGED <<setup, thread, shutdown, queue, conn, binding, holder, client>>

(* wake_listener: connect and hang up, ignoring errors.                    *)
WakeListener(s, from, to) ==
    /\ owner[s] = from
    /\ \/ Enqueue(EndpointOf[s], s)
       \/ ~Reachable(EndpointOf[s]) /\ UNCHANGED queue
    /\ Goto(s, to)
    /\ UNCHANGED <<setup, thread, shutdown, conn, binding, holder, client>>

Wake(s) == WakeListener(s, "flagged", "woken")

(* Mutant: the thread is detached, not joined.                             *)
Join_Detached(s) ==
    /\ owner[s] = "woken"
    /\ Goto(s, "joined")
    /\ UNCHANGED <<setup, thread, shutdown, queue, conn, binding, holder, client>>

(* handle.join()                                                           *)
Join(s) ==
    /\ owner[s] = "woken" /\ thread[s] \in Exited
    /\ Goto(s, "joined")
    /\ UNCHANGED <<setup, thread, shutdown, queue, conn, binding, holder, client>>

(* shutdown() consumes the server, so drop calls stop a second time: the   *)
(* flag is set already, there is no thread to join, but the wake is sent.  *)
WakeAgain(s) == WakeListener(s, "joined", "rewoken")

(* The fields are dropped, the root lock among them.                       *)
DropServer(s) ==
    /\ owner[s] \in {"joined", "rewoken"}
    /\ Release(s)
    /\ Goto(s, "gone")
    /\ UNCHANGED <<setup, thread, shutdown, queue, conn, binding, client>>

-----------------------------------------------------------------------------
Start(s) == RemoveStaleSocket(s) \/ Bind(s) \/ WaitUntilReady(s)
Thread(s) == Ready(s) \/ Check(s) \/ Accept(s) \/ Recheck(s) \/ HandleReturns(s)
Stop(s) == Wake(s) \/ Join(s) \/ WakeAgain(s) \/ DropServer(s)

(* Everything is over.                                                     *)
Finished ==
    /\ \A s \in Servers : owner[s] = "gone"
    /\ UNCHANGED vars

Next ==
    \/ \E s \in Servers :
        PrepareRoot(s) \/ Start(s) \/ Thread(s) \/ SetShutdown(s) \/ Stop(s)
    \/ \E c \in Clients : Connect(c) \/ Leave(c)
    \/ Finished

(* Threads are scheduled; a start or stop that was begun goes on; clients  *)
(* leave some day, as the documentation of shutdown asks of them.          *)
Fairness ==
    /\ \A s \in Servers : WF_vars(Start(s)) /\ WF_vars(Thread(s)) /\ WF_vars(Stop(s))
    /\ \A c \in Clients : WF_vars(Leave(c))

Spec == Init /\ [][Next]_vars /\ Fairness

-----------------------------------------------------------------------------
(* Properties.                                                             *)

(* Every variable has its type.                                            *)
TypeOK ==
    /\ setup \in Setups
    /\ owner \in [Servers -> Stages]
    /\ thread \in [Servers -> Live \cup Exited \cup {"none"}]
    /\ shutdown \in [Servers -> BOOLEAN]
    /\ queue \in [Servers -> Seq(Servers \cup Clients)]
    /\ \A s \in Servers : Len(queue[s]) <= Backlog
    /\ conn \in [Servers -> Servers \cup Clients \cup {NoServer}]
    /\ binding \in [Endpoints -> Servers \cup {NoServer}]
    /\ holder \in [Roots -> Servers \cup {NoServer}]
    /\ client \in [Clients -> {"idle", "queued", "open", "leaving", "failing",
                               "done", "reset", "refused"}]

(* A server thread that may open a backend runs under its root's lock, so  *)
(* two servers never run backends on one root: stop joins the thread, and  *)
(* only then is the lock dropped.                                          *)
LockedWhileServing ==
    \A s \in Servers : thread[s] \in Live => holder[RootOf[s]] = s

(* Servers that share a Unix path share a root.                            *)
PathsFollowRoots ==
    \A s, t \in Servers :
        EndpointOf[s] = EndpointOf[t] /\ EndpointOf[s] \in UnixEndpoints
            => RootOf[s] = RootOf[t]

AtItsEndpoint(s) == thread[s] \in Live => binding[EndpointOf[s]] = s

(* If so, a running server is reached at its endpoint: nobody has taken    *)
(* its path away, although a starting server removes what it finds there.  *)
EndpointLeadsToServer == PathsFollowRoots => \A s \in Servers : AtItsEndpoint(s)

(* A client's connection is in one place: one backlog or one thread.  No   *)
(* thread serves a connection that another one has, and none is forgotten. *)
Holds(s, i, x) == IF i = 0 THEN conn[s] = x ELSE i <= Len(queue[s]) /\ queue[s][i] = x
Places(x) == {p \in Servers \X (0 .. Backlog) : Holds(p[1], p[2], x)}

ConnectionsAccounted ==
    \A c \in Clients :
        /\ client[c] = "open" => \E s \in Servers : thread[s] = "serving" /\ conn[s] = c
        /\ client[c] \in {"queued", "open", "leaving", "failing"} <=> Places(c) # {}
        /\ \A p, q \in Places(c) : p = q

(* stop returns: the flag and the wake reach a thread wherever it is       *)
(* between its two reads of the flag and the blocked accept.               *)
StopReturns == \A s \in Servers : owner[s] = "flagged" ~> owner[s] = "gone"

(* A client in the backlog is served or told that it will not be.          *)
QueuedClientLeavesQueue ==
    \A c \in Clients : client[c] = "queued" ~> client[c] \in {"done", "reset"}
=============================================================================
