\* Two reconnects, a configure subscription and one caller of Close beside Run.
CONSTANTS
    r1 = r1
    r2 = r2
    c1 = c1
    Passes <- MCPasses
    Closers <- MCClosers
    Main = Main
    Handler = Handler
    Nobody = Nobody
SPECIFICATION Spec
INVARIANTS
    TypeOK
    ClientOutlivesPasses
    CleanExit
    NoLateApply
PROPERTIES
    NoAddWhileWaiting
    ShutdownEndsRun
    HungApplyCannotBlockExit
\* The process ends.
CHECK_DEADLOCK FALSE
