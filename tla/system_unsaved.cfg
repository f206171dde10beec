\* The state file outlives a reboot, save_after_commit is off (its default).
CONSTANTS
    r1 = r1
    u1 = u1
    u2 = u2
    Handler = handler
    Main = main
    Passes <- MCPasses
    NoProc = NoProc
    Blank = blank
    Target = t1
    UUIDs <- MCUUIDs
    Setups <- MCUnsavedSetup
    MaxFaults = 0
    MaxOutages <- MCOneOutage
SPECIFICATION Spec
\* With every write answered and no outage left the system rests.
CHECK_DEADLOCK FALSE
INVARIANTS
    StartupSyncs
