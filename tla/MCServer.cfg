CONSTANTS
    s1 = s1
    s2 = s2
    c1 = c1
    c2 = c2
    r1 = r1
    r2 = r2
    e1 = e1
    Servers = {s1, s2}
    Clients = {c1, c2}
    Roots = {r1, r2}
    Endpoints = {e1}
    Setups <- AllSetups
    Backlog = 2
    NoServer = NoServer
SPECIFICATION Spec
INVARIANTS LockedWhileServing ConnectionsAccounted EndpointLeadsToServer
PROPERTIES StopReturns QueuedClientLeavesQueue
