CONSTANTS
    o1 = o1
    o2 = o2
    o3 = o3
    o4 = o4
    p1 = p1
    p2 = p2
    Openers <- MCOpeners
    Processes <- MCProcesses
    ProcOf <- MCProcOf
    Roots = {r1, r2}
    NoOpener = NoOpener
SPECIFICATION LockSpec
INVARIANTS
    MutualExclusion
    PathsAccountedFor
    LockBacked
