------------------------------- MODULE Runtime -------------------------------
(***************************************************************************)
(* internal/agent: the life of one Runtime.  Run starts the agentcore      *)
(* client, publishes the startup status, reconciles once and waits for the *)
(* shutdown signal; the client's reconnect callback starts reconcile       *)
(* passes on goroutines of their own; Close cancels them, waits for them   *)
(* (not longer than its context allows) and closes the client.  Startup    *)
(* reconcile, reconnect passes and configure notifications contend for the *)
(* mutex of the configure service; the work done under it is one stage     *)
(* here (ConfigureService has the details).                                *)
(***************************************************************************)
EXTENDS Naturals, FiniteSets

CONSTANTS
    Passes,    \* reconnect callbacks: each may start one reconcile pass
    Main,      \* the goroutine of Run
    Closers,   \* other callers of Close
    Handler,   \* the goroutine of the configure subscription
    Nobody     \* the owner of an unlocked mutex

ASSUME NamesAssumption ==
    /\ Main \notin Passes \cup Closers \cup {Handler, Nobody}
    /\ Handler \notin Passes \cup Closers \cup {Nobody}
    /\ Nobody \notin Passes \cup Closers
    /\ Passes \cap Closers = {}
ASSUME PassesAssumption == IsFiniteSet(Passes)

VARIABLES
    shutdown,   \* the signal arrived: Run's context is cancelled
    main,       \* where Run stands
    runErr,     \* whether Run returns an error
    closed,     \* Runtime.closed
    cancelled,  \* Runtime.ctx is cancelled
    wg,         \* Runtime.wg
    rmu,        \* Runtime.mu, as the reconnect callback holds it
    pass,       \* where each reconnect callback, then its pass, stands
    late,       \* the passes that took the service mutex after the cancellation
    closing,    \* where each call of Close stands
    closeErr,   \* whether it returned an error
    client,     \* the agentcore client: "new", "started", "closed"
    smu,        \* configure.Service.mu
    handler     \* where the configure subscription's goroutine stands

vars == <<shutdown, main, runErr, closed, cancelled, wg, rmu, pass, late, closing,
          closeErr, client, smu, handler>>

MainStages == {"begin", "register", "client_start", "startup_status", "reconcile",
               "reconciling", "wait", "close_failed_start", "close", "done"}
PassStages == {"none", "callback", "lock", "load", "apply", "done"}
CloseStages == {"none", "cancel", "wait", "client_close", "returned"}

Init ==
    /\ shutdown = FALSE
    /\ main = "begin"
    /\ runErr = FALSE
    /\ closed = FALSE
    /\ cancelled = FALSE
    /\ wg = 0
    /\ rmu = Nobody
    /\ pass = [p \in Passes |-> "none"]
    /\ late = {}
    /\ closing = [c \in Closers \cup {Main} |-> "none"]
    /\ closeErr = [c \in Closers \cup {Main} |-> FALSE]
    /\ client = "new"
    /\ smu = Nobody
    /\ handler = "none"

-----------------------------------------------------------------------------
(* Close                                                                   *)

\* markClosed: only the first caller goes on; a later one returns nil at once.
CallClose(c) ==
    /\ closing[c] = "none"
    /\ rmu = Nobody
    /\ closed' = TRUE
    /\ closing' = [closing EXCEPT ![c] = IF closed THEN "returned" ELSE "cancel"]
    /\ UNCHANGED <<closeErr, cancelled, wg, rmu, pass, late, client, smu, handler>>

\* r.cancel(), and the goroutine that waits for the passes.
Cancel(c) ==
    /\ closing[c] = "cancel"
    /\ cancelled' = TRUE
    /\ closing' = [closing EXCEPT ![c] = "wait"]
    /\ UNCHANGED <<shutdown, main, runErr, closed, wg, rmu, pass, late, closeErr,
                   client, smu, handler>>

\* Mutant: the client is closed although the passes were not waited for.
CloseAnyway == [stage |-> "client_close", err |-> FALSE]

\* Mutant: Close waits for the passes whatever its context says.
KeepWaiting == [stage |-> "wait", err |-> FALSE]

\* The close context expired before the passes finished.
GiveUpWaiting == [stage |-> "returned", err |-> TRUE]

\* select: the passes are done, or the context of Close is.
Wait(c) ==
    /\ closing[c] = "wait"
    /\ \/ /\ wg = 0
          /\ closing' = [closing EXCEPT ![c] = "client_close"]
          /\ UNCHANGED closeErr
       \/ /\ closing' = [closing EXCEPT ![c] = GiveUpWaiting.stage]
          /\ closeErr' = [closeErr EXCEPT ![c] = GiveUpWaiting.err]
    /\ UNCHANGED <<shutdown, main, runErr, closed, cancelled, wg, rmu, pass, late,
                   client, smu, handler>>

\* client.Close(ctx) stops the subscriptions and the connection, or fails.
CloseClient(c) ==
    /\ closing[c] = "client_close"
    /\ closing' = [closing EXCEPT ![c] = "returned"]
    /\ \/ client' = "closed" /\ UNCHANGED closeErr
       \/ closeErr' = [closeErr EXCEPT ![c] = TRUE] /\ UNCHANGED client
    /\ UNCHANGED <<shutdown, main, runErr, closed, cancelled, wg, rmu, pass, late,
                   smu, handler>>

-----------------------------------------------------------------------------
(* Run                                                                     *)

\* Run returns with this error flag.
Finish(e) == main' = "done" /\ runErr' = e

MainOnly ==
    UNCHANGED <<closed, cancelled, wg, rmu, pass, late, closing, closeErr, handler>>

\* beginStart; a runtime closed before it was started cannot start.
BeginStart ==
    /\ main = "begin"
    /\ rmu = Nobody
    /\ \/ closed /\ Finish(TRUE)
       \/ ~closed /\ main' = "register" /\ UNCHANGED runErr
    /\ MainOnly /\ UNCHANGED <<shutdown, client, smu>>

RegisterHandlers ==
    /\ main = "register"
    /\ \/ main' = "client_start" /\ UNCHANGED runErr
       \/ Finish(TRUE)
    /\ MainOnly /\ UNCHANGED <<shutdown, client, smu>>

\* client.Start subscribes and connects.  Close may have got there first.
StartClient ==
    /\ main = "client_start"
    /\ \/ /\ client = "new"
          /\ client' = "started"
          /\ main' = "startup_status"
          /\ UNCHANGED runErr
       \/ Finish(TRUE) /\ UNCHANGED client
    /\ MainOnly /\ UNCHANGED <<shutdown, smu>>

\* A failing startup status makes Start close what it started.
PublishStartupStatus ==
    /\ main = "startup_status"
    /\ main' \in {"reconcile", "close_failed_start"}
    /\ MainOnly /\ UNCHANGED <<shutdown, runErr, client, smu>>

\* Reconcile waits for the service mutex whatever its context says.
StartupReconcile ==
    /\ main = "reconcile"
    /\ smu = Nobody
    /\ smu' = Main
    /\ main' = "reconciling"
    /\ MainOnly /\ UNCHANGED <<shutdown, runErr, client>>

\* Its error is only logged.
StartupReconciled ==
    /\ main = "reconciling"
    /\ smu' = Nobody
    /\ main' = "wait"
    /\ MainOnly /\ UNCHANGED <<shutdown, runErr, client>>

\* Mutant: Run waits for the runtime's own context instead of its argument.
OwnContextDone == cancelled

\* <-ctx.Done()
ContextDone == shutdown

ShutdownRequested ==
    /\ main = "wait"
    /\ ContextDone
    /\ main' = "close"
    /\ MainOnly /\ UNCHANGED <<shutdown, runErr, client, smu>>

RunCallsClose ==
    /\ main \in {"close", "close_failed_start"}
    /\ CallClose(Main)
    /\ UNCHANGED <<shutdown, main, runErr>>

\* Run returns what Close returned; after a failed start, an error in any case.
RunReturns ==
    /\ main \in {"close", "close_failed_start"}
    /\ closing[Main] = "returned"
    /\ Finish(main = "close_failed_start" \/ closeErr[Main])
    /\ MainOnly /\ UNCHANGED <<shutdown, client, smu>>

-----------------------------------------------------------------------------
(* Reconnects                                                              *)

PassOnly == UNCHANGED <<shutdown, main, runErr, closed, cancelled, closing, closeErr,
                        client, handler>>

\* Mutant: the callback looks at closed before it takes the mutex.
CallbackHoldsNothing(p) == Nobody

\* Who holds Runtime.mu between the callback's check of closed and its wg.Add.
CallbackHolder(p) == p

\* The client reconnected: the callback takes r.mu and finds the runtime open.
Reconnect(p) ==
    /\ client = "started"
    /\ pass[p] = "none"
    /\ rmu = Nobody
    /\ ~closed
    /\ rmu' = CallbackHolder(p)
    /\ pass' = [pass EXCEPT ![p] = "callback"]
    /\ PassOnly /\ UNCHANGED <<wg, late, smu>>

\* Mutant: the callback starts a pass without adding it to the WaitGroup.
ForgetAdd == UNCHANGED wg

\* r.wg.Add(1)
AddPass == wg' = wg + 1

\* r.wg.Add(1), r.mu.Unlock() and the go statement.
SpawnPass(p) ==
    /\ pass[p] = "callback"
    /\ AddPass
    /\ rmu' = Nobody
    /\ pass' = [pass EXCEPT ![p] = "lock"]
    /\ PassOnly /\ UNCHANGED <<late, smu>>

\* The pass takes the service mutex; its context may be cancelled by then.
PassLock(p) ==
    /\ pass[p] = "lock"
    /\ smu = Nobody
    /\ smu' = p
    /\ late' = IF cancelled THEN late \cup {p} ELSE late
    /\ pass' = [pass EXCEPT ![p] = "load"]
    /\ PassOnly /\ UNCHANGED <<wg, rmu>>

\* Mutant: FileStore.Load does not look at its context.
LoadRegardless == TRUE

\* FileStore.Load, Reconcile's first call, fails on a cancelled context.
LoadSucceeds == ~cancelled

\* Reconcile stops (an error, nothing desired, already in sync) or goes on to apply.
PassLoad(p) ==
    /\ pass[p] = "load"
    /\ \/ /\ LoadSucceeds
          /\ pass' = [pass EXCEPT ![p] = "apply"]
          /\ UNCHANGED <<wg, smu>>
       \/ /\ pass' = [pass EXCEPT ![p] = "done"]
          /\ wg' = wg - 1
          /\ smu' = Nobody
    /\ PassOnly /\ UNCHANGED <<rmu, late>>

\* The pass applied and reported, or failed at it; the deferred wg.Done().
PassApply(p) ==
    /\ pass[p] = "apply"
    /\ pass' = [pass EXCEPT ![p] = "done"]
    /\ wg' = wg - 1
    /\ smu' = Nobody
    /\ PassOnly /\ UNCHANGED <<rmu, late>>

-----------------------------------------------------------------------------
(* Configure notifications and the environment                             *)

\* A notification reaches Handle while the client is started.
HandleNotification ==
    /\ client = "started"
    /\ handler = "none"
    /\ handler' = "lock"
    /\ UNCHANGED <<shutdown, main, runErr, closed, cancelled, wg, rmu, pass, late,
                   closing, closeErr, client, smu>>

HandlerLock ==
    /\ handler = "lock"
    /\ smu = Nobody
    /\ smu' = Handler
    /\ handler' = "handling"
    /\ UNCHANGED <<shutdown, main, runErr, closed, cancelled, wg, rmu, pass, late,
                   closing, closeErr, client>>

HandlerDone ==
    /\ handler = "handling"
    /\ smu' = Nobody
    /\ handler' = "none"
    /\ UNCHANGED <<shutdown, main, runErr, closed, cancelled, wg, rmu, pass, late,
                   closing, closeErr, client>>

\* SIGINT or SIGTERM.
Signal ==
    /\ ~shutdown
    /\ shutdown' = TRUE
    /\ UNCHANGED <<main, runErr, closed, cancelled, wg, rmu, pass, late, closing,
                   closeErr, client, smu, handler>>

\* Somebody else who holds the Runtime calls Close.
OtherClose(c) ==
    /\ c \in Closers
    /\ CallClose(c)
    /\ UNCHANGED <<shutdown, main, runErr>>

-----------------------------------------------------------------------------

MainStep ==
    \/ BeginStart \/ RegisterHandlers \/ StartClient \/ PublishStartupStatus
    \/ ShutdownRequested \/ RunCallsClose \/ RunReturns

CloseStep(c) == Cancel(c) \/ Wait(c) \/ CloseClient(c)

PassStep(p) == SpawnPass(p) \/ PassLoad(p)

Next ==
    \/ Signal \/ MainStep \/ StartupReconcile \/ StartupReconciled
    \/ \E c \in Closers \cup {Main} : OtherClose(c) \/ CloseStep(c)
    \/ \E p \in Passes : Reconnect(p) \/ PassStep(p) \/ PassLock(p) \/ PassApply(p)
    \/ HandleNotification \/ HandlerLock \/ HandlerDone

\* Every goroutine that can run does, and the service mutex is starvation-free;
\* signals, notifications, reconnects and other callers of Close owe nothing, and
\* neither does an apply: nothing bounds its duration.
Fairness ==
    /\ WF_vars(MainStep) /\ SF_vars(StartupReconcile)
    /\ \A c \in Closers \cup {Main} : WF_vars(CloseStep(c))
    /\ \A p \in Passes : WF_vars(PassStep(p)) /\ SF_vars(PassLock(p))
    /\ SF_vars(HandlerLock)

Spec == Init /\ [][Next]_vars /\ Fairness

-----------------------------------------------------------------------------
(* Properties                                                              *)

\* Every variable has its type; the WaitGroup counts the passes and never goes below zero
\* (it would panic).
TypeOK ==
    /\ shutdown \in BOOLEAN /\ runErr \in BOOLEAN /\ closed \in BOOLEAN
    /\ cancelled \in BOOLEAN
    /\ main \in MainStages
    /\ wg \in 0 .. Cardinality(Passes)
    /\ rmu \in Passes \cup {Nobody}
    /\ pass \in [Passes -> PassStages]
    /\ late \subseteq Passes
    /\ closing \in [Closers \cup {Main} -> CloseStages]
    /\ closeErr \in [Closers \cup {Main} -> BOOLEAN]
    /\ client \in {"new", "started", "closed"}
    /\ smu \in Passes \cup {Main, Handler, Nobody}
    /\ handler \in {"none", "lock", "handling"}

\* No reconnect adds to the WaitGroup once a Close waits for it: the callback adds
\* under r.mu, where Close has set closed before it waits.
NoAddWhileWaiting ==
    [][\A c \in Closers \cup {Main} : closing[c] = "wait" => wg' <= wg]_vars

\* The client is closed only when no reconnect pass can use it any more.
ClientOutlivesPasses ==
    client = "closed" => \A p \in Passes : pass[p] \in {"none", "done"}

\* A clean exit leaves nothing behind: Run returns nil only after shutdown was
\* requested, with no pass and no Close in progress unless somebody else called
\* Close, and, then too, with the runtime closed and its passes told to stop.
CleanExit ==
    main = "done" /\ ~runErr =>
        /\ shutdown /\ closed
        /\ (\A c \in Closers : closing[c] = "none") =>
              /\ client = "closed" /\ cancelled
              /\ \A p \in Passes : pass[p] \in {"none", "done"}

\* A pass that gets the service mutex only after shutdown began applies nothing.
NoLateApply == \A p \in late : pass[p] # "apply"

\* The work done under the service mutex always ends.
AppliesReturn ==
    /\ WF_vars(StartupReconciled) /\ WF_vars(HandlerDone)
    /\ \A p \in Passes : WF_vars(PassApply(p))

\* Once the shutdown signal arrives Run returns, wherever it stands, if no apply
\* hangs: the startup reconcile waits for the service mutex for ever.
ShutdownEndsRun == AppliesReturn => (shutdown ~> main = "done")

\* Once started, Run returns on the signal even if a pass or a notification hangs in
\* its apply and keeps the service mutex: Close gives the passes up.
HungApplyCannotBlockExit == shutdown /\ main \in {"wait", "close"} ~> main = "done"

\* Nobody is in Close any more, but a pass is still at work: the Close that was to wait
\* for it has given it up.
PassesGivenUp ==
    /\ \A c \in Closers \cup {Main} : closing[c] \in {"none", "returned"}
    /\ \E p \in Passes : pass[p] \notin {"none", "done"}

\* lifecycle.go:116: Close stops the agentcore client lifecycle.  So when a Close has
\* returned nil and none is under way, the client stops in the end, if not at once then
\* when the passes that were given up are done with it.
NilCloseStopsClient ==
    AppliesReturn =>
        \A c \in Closers \cup {Main} :
            PassesGivenUp /\ closing[c] = "returned" /\ ~closeErr[c] ~> client # "started"
=============================================================================
