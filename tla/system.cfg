\* Two writes, one failing call, and two outages of any kind with save_after_commit
\* and a persistent state file, or one with neither.
CONSTANTS
    r1 = r1
    u1 = u1
    u2 = u2
    Handler = handler
    Main = main
    Passes <- MCPasses
    NoProc = NoProc
    Blank = blank
    Target = t1
    UUIDs <- MCUUIDs
    Setups <- MCSafeSetups
    MaxFaults = 1
    MaxOutages <- MCOutages
SPECIFICATION Spec
INVARIANTS
    TypeOK
    SkipIsSafe
\* With every write answered and no outage left the system rests.
CHECK_DEADLOCK FALSE
PROPERTIES
    IsDurableSync
    Converges
    WritesAreAnswered
