\* Two goroutines, two writes that may carry another target or no UUID, the real
\* renderer and apply engine, UUIDs never reused.
CONSTANTS
    p1 = p1
    p2 = p2
    blank = blank
    t1 = t1
    t2 = t2
    u1 = u1
    u2 = u2
    u3 = u3
    NoProc = NoProc
    Procs <- MCProcs
    Blank = blank
    Target = t1
    EntryTargets <- MCAnyTarget
    EntryUUIDs <- MCUUIDs3AndBlank
    RealMode = TRUE
    FreshUUIDs = TRUE
    MaxPuts = 2
SPECIFICATION Spec
INVARIANTS
    TypeOK
    CheckpointWasApplied
    NoReapplyOfCheckpoint
    SuccessIsTrue
    NoFailureAfterSave
    NilMeansInSync
    FailureCodeTellsHowFar
PROPERTIES
    NoRollback
    KeepsPromise
SYMMETRY MCSymmetry
