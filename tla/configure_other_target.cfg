\* A record stored under this agent's key that names another target.
CONSTANTS
    p1 = p1
    p2 = p2
    blank = blank
    t1 = t1
    t2 = t2
    u1 = u1
    u2 = u2
    u3 = u3
    NoProc = NoProc
    Procs <- MCProcs
    Blank = blank
    Target = t1
    EntryTargets <- MCAnyTarget
    EntryUUIDs <- MCUUIDs2
    RealMode = FALSE
    FreshUUIDs = TRUE
    MaxPuts = 2
SPECIFICATION Spec
INVARIANTS
    OnlyOwnTarget
