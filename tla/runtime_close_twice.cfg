\* A reconnect pass at work, a Close whose context expires before the pass is done, and
\* another Close after it: one of the two is Run's.
CONSTANTS
    r1 = r1
    r2 = r2
    c1 = c1
    Passes <- MCPasses
    Closers <- MCClosers
    Main = Main
    Handler = Handler
    Nobody = Nobody
SPECIFICATION Spec
PROPERTIES
    NilCloseStopsClient
\* The process ends.
CHECK_DEADLOCK FALSE
