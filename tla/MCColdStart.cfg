CONSTANTS
    p1 = p1
    p2 = p2
    t1 = t1
    t2 = t2
    t3 = t3
    main = main
    Processes = {p1, p2}
    NoProcess = NoProcess
    Size = 2
    Module = {1}
    Support = {2}
    Threads = {t1, t2, t3}
    ProcessOf <- Placement
    NoThread = NoThread
    Full = {p2}
    Artifacts = {main}
    Seeders = {t2}
    Loads <- Work
    MaxDamages = 1
SPECIFICATION Spec
INVARIANTS RuntimeWhole FailureHasCause
PROPERTIES LoadReturns
CHECK_DEADLOCK FALSE
