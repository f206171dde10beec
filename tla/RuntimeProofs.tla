---------------------------- MODULE RuntimeProofs ----------------------------
(***************************************************************************)
(* Proofs about Runtime, for any number of reconnects and of callers of    *)
(* Close: the WaitGroup counts the passes, so the client is closed after   *)
(* the last of them, and an exit without an error leaves nothing running.  *)
(* A shutdown waits for nobody but an apply that has not returned.         *)
(***************************************************************************)
EXTENDS Runtime, FiniteSetTheorems, TLAPS

-----------------------------------------------------------------------------
(* The inductive invariant                                                 *)

AllClosers == Closers \cup {Main}

\* The passes that may still use the service and the client.
Active == {p \in Passes : pass[p] \in {"lock", "load", "apply"}}

\* The WaitGroup counts the active passes; a reconnect callback between its check of
\* closed and its wg.Add holds the mutex that markClosed needs.
PassInv ==
    /\ wg = Cardinality(Active)
    /\ \A p \in Passes : pass[p] = "callback" => rmu = p /\ ~closed

\* What each stage of Close has achieved.
CloseInv ==
    /\ closed => \E c \in AllClosers : closing[c] # "none"
    /\ \A c \in AllClosers :
          /\ closing[c] # "none" => closed
          /\ closing[c] \in {"wait", "client_close"} => cancelled
          /\ closing[c] = "client_close" => Active = {}
          /\ closing[c] = "returned" /\ ~closeErr[c] =>
                client = "closed" \/ \E d \in AllClosers \ {c} : closing[d] # "none"
    /\ client = "closed" => closed /\ cancelled /\ Active = {}

\* A pass that took the mutex late goes no further than the load.
LateInv ==
    \A p \in late : cancelled /\ pass[p] \in {"load", "done"}

\* Run closes on the signal only, and returns nil only if its Close did.
RunInv ==
    /\ main = "close" => shutdown
    /\ main = "done" /\ ~runErr =>
          shutdown /\ closing[Main] = "returned" /\ ~closeErr[Main]

IInv == TypeOK /\ PassInv /\ CloseInv /\ LateInv /\ RunInv

\* The passes are finitely many, and so is any set of them.
LEMMA PassesAreFinite ==
    ASSUME NEW S, S \subseteq Passes
    PROVE  /\ IsFiniteSet(S) /\ Cardinality(S) \in 0 .. Cardinality(Passes)
           /\ Cardinality(S) = 0 => S = {}
<1>1. IsFiniteSet(S) /\ Cardinality(S) <= Cardinality(Passes)
  BY PassesAssumption, FS_Subset
<1>2. Cardinality(S) \in Nat /\ Cardinality(Passes) \in Nat
  BY <1>1, PassesAssumption, FS_CardinalityType
<1> QED
  BY <1>1, <1>2, FS_EmptySet

-----------------------------------------------------------------------------
(* What the steps leave alone                                              *)

\* A step of Run outside Close, of the configure subscription or of the environment.
QuietStep ==
    \/ Signal \/ BeginStart \/ RegisterHandlers \/ StartClient \/ PublishStartupStatus
    \/ ShutdownRequested \/ RunReturns \/ StartupReconcile \/ StartupReconciled
    \/ HandleNotification \/ HandlerLock \/ HandlerDone

\* A step of a reconnect callback or of its pass.
ReconnectStep(p) == Reconnect(p) \/ SpawnPass(p) \/ PassLock(p) \/ PassLoad(p) \/ PassApply(p)

\* Every step is one of these.
LEMMA StepCases ==
    ASSUME [Next]_vars
    PROVE  \/ QuietStep \/ UNCHANGED vars
           \/ \E c \in AllClosers : CallClose(c) /\ UNCHANGED <<shutdown, main, runErr>>
           \/ \E c \in AllClosers : CloseStep(c)
           \/ \E p \in Passes : ReconnectStep(p)
  BY DEF Next, MainStep, QuietStep, RunCallsClose, OtherClose, PassStep, ReconnectStep,
         AllClosers

\* Such a step leaves the passes and the calls of Close alone, and at most starts the
\* client.
LEMMA QuietShape ==
    ASSUME QuietStep
    PROVE  /\ UNCHANGED <<closed, cancelled, wg, rmu, pass, late, closing, closeErr>>
           /\ client' = client \/ (client = "new" /\ client' = "started")
  BY DEF QuietStep, Signal, BeginStart, RegisterHandlers, StartClient, PublishStartupStatus,
         ShutdownRequested, RunReturns, StartupReconcile, StartupReconciled, MainOnly,
         HandleNotification, HandlerLock, HandlerDone

\* A step of Cancel, Wait and CloseClient changes the stage of one Close, and what it
\* achieves on the way.
LEMMA CloseShape ==
    ASSUME TypeOK, NEW c \in AllClosers, CloseStep(c)
    PROVE  /\ UNCHANGED <<shutdown, main, runErr, closed, wg, rmu, pass, late, smu, handler>>
           /\ \A d \in AllClosers \ {c} : closing'[d] = closing[d] /\ closeErr'[d] = closeErr[d]
           /\ \/ /\ closing[c] = "cancel" /\ closing'[c] = "wait" /\ cancelled'
                 /\ UNCHANGED <<client, closeErr>>
              \/ /\ closing[c] = "wait" /\ closing'[c] = "client_close" /\ wg = 0
                 /\ UNCHANGED <<cancelled, client, closeErr>>
              \/ /\ closing[c] = "wait" /\ closing'[c] = "returned" /\ closeErr'[c]
                 /\ UNCHANGED <<cancelled, client>>
              \/ /\ closing[c] = "client_close" /\ closing'[c] = "returned"
                 /\ UNCHANGED cancelled
                 /\ client' = "closed" \/ (UNCHANGED client /\ closeErr'[c])
<1> USE DEF TypeOK, AllClosers
<1>1. CASE Cancel(c)
  BY <1>1 DEF Cancel
<1>2. CASE Wait(c)
  BY <1>2 DEF Wait, GiveUpWaiting
<1>3. CASE CloseClient(c)
  BY <1>3 DEF CloseClient
<1> QED
  BY <1>1, <1>2, <1>3 DEF CloseStep

\* A step of one reconnect leaves the others and the calls of Close alone.
LEMMA ReconnectShape ==
    ASSUME TypeOK, NEW p \in Passes, ReconnectStep(p)
    PROVE  /\ UNCHANGED <<shutdown, main, runErr, closed, cancelled, closing, closeErr,
                          client, handler>>
           /\ \A q \in Passes \ {p} : pass'[q] = pass[q]
<1> USE DEF TypeOK, PassOnly
<1>1. CASE Reconnect(p)
  BY <1>1 DEF Reconnect
<1>2. CASE SpawnPass(p)
  BY <1>2 DEF SpawnPass
<1>3. CASE PassLock(p)
  BY <1>3 DEF PassLock
<1>4. CASE PassLoad(p)
  BY <1>4 DEF PassLoad
<1>5. CASE PassApply(p)
  BY <1>5 DEF PassApply
<1> QED
  BY <1>1, <1>2, <1>3, <1>4, <1>5 DEF ReconnectStep

\* A pass becomes active when its callback adds it to the WaitGroup, and stops being
\* active when it counts itself down.
LEMMA ActiveStep ==
    ASSUME TypeOK, NEW p \in Passes, ReconnectStep(p)
    PROVE  \/ Active' = Active /\ wg' = wg /\ pass'[p] # "none"
           \/ /\ pass[p] = "callback" /\ rmu' = Nobody /\ pass'[p] = "lock"
              /\ Active' = Active \cup {p} /\ p \notin Active /\ wg' = wg + 1
           \/ /\ p \in Active /\ pass'[p] = "done"
              /\ Active' = Active \ {p} /\ wg' = wg - 1
<1> USE DEF TypeOK, Active
<1>1. CASE Reconnect(p) \/ PassLock(p)
  BY <1>1, ReconnectShape DEF Reconnect, PassLock
<1>2. CASE SpawnPass(p)
  BY <1>2, ReconnectShape DEF SpawnPass, AddPass
<1>3. CASE PassLoad(p) \/ PassApply(p)
  BY <1>3, ReconnectShape DEF PassLoad, PassApply
<1> QED
  BY <1>1, <1>2, <1>3 DEF ReconnectStep

-----------------------------------------------------------------------------
(* The invariant holds and is preserved                                    *)

\* The invariant holds initially.
LEMMA IInvInit == Init => IInv
<1> SUFFICES ASSUME Init PROVE IInv
  OBVIOUS
<1>1. Active = {}
  BY DEF Init, Active
<1>2. Cardinality(Passes) \in Nat
  BY PassesAssumption, FS_CardinalityType
<1>3. TypeOK
  <2>1. wg \in 0 .. Cardinality(Passes)
    BY <1>2 DEF Init
  <2>2. closing \in [Closers \cup {Main} -> CloseStages]
    BY DEF Init, CloseStages
  <2>3. closeErr \in [Closers \cup {Main} -> BOOLEAN]
    BY DEF Init
  <2>4. pass \in [Passes -> PassStages] /\ main \in MainStages
    BY DEF Init, PassStages, MainStages
  <2> QED
    BY <2>1, <2>2, <2>3, <2>4 DEF Init, TypeOK
<1>4. PassInv
  BY <1>1, FS_EmptySet DEF Init, PassInv
<1>5. CloseInv /\ LateInv /\ RunInv
  BY <1>1 DEF Init, CloseInv, LateInv, RunInv, AllClosers
<1> QED
  BY <1>3, <1>4, <1>5 DEF IInv

\* Every step keeps the WaitGroup equal to the number of active passes.
LEMMA PassStepInv == IInv /\ [Next]_vars => PassInv'
<1> SUFFICES ASSUME IInv, [Next]_vars PROVE PassInv'
  OBVIOUS
<1> USE DEF IInv, PassInv
<1>1. CASE QuietStep \/ UNCHANGED vars
  BY <1>1, QuietShape DEF vars, Active
<1>2. ASSUME NEW c \in AllClosers, CallClose(c) PROVE PassInv'
  BY <1>2, NamesAssumption DEF CallClose, Active
<1>3. ASSUME NEW c \in AllClosers, CloseStep(c) PROVE PassInv'
  BY <1>3, CloseShape DEF Active
<1>4. ASSUME NEW p \in Passes, ReconnectStep(p) PROVE PassInv'
  <2>1. wg' = Cardinality(Active)'
    <3>1. IsFiniteSet(Active)
      BY PassesAreFinite DEF Active
    <3> QED
      BY <1>4, <3>1, ActiveStep, FS_AddElement, FS_RemoveElement
  <2>2. ASSUME NEW q \in Passes, pass'[q] = "callback" PROVE rmu' = q /\ ~closed'
    <3>1. CASE Reconnect(p)
      BY <2>2, <3>1, NamesAssumption DEF Reconnect, CallbackHolder, PassOnly, TypeOK
    <3>2. CASE SpawnPass(p)
      BY <2>2, <3>2 DEF SpawnPass, TypeOK
    <3>3. CASE PassLock(p) \/ PassLoad(p) \/ PassApply(p)
      BY <2>2, <3>3 DEF PassLock, PassLoad, PassApply, PassOnly, TypeOK
    <3> QED
      BY <1>4, <3>1, <3>2, <3>3 DEF ReconnectStep
  <2> QED
    BY <2>1, <2>2
<1> QED
  BY <1>1, <1>2, <1>3, <1>4, StepCases

\* Every step keeps the types.
LEMMA TypeStep == IInv /\ [Next]_vars => TypeOK'
<1> SUFFICES ASSUME IInv, [Next]_vars PROVE TypeOK'
  OBVIOUS
<1>1. wg' \in 0 .. Cardinality(Passes)
  <2>1. wg' = Cardinality(Active)'
    BY PassStepInv DEF PassInv
  <2>2. Active' \subseteq Passes
    BY DEF Active
  <2> QED
    BY <2>1, <2>2, PassesAreFinite
<1> USE DEF IInv, TypeOK
<1>2. CASE QuietStep
  <2>1. main' \in MainStages /\ runErr' \in BOOLEAN /\ shutdown' \in BOOLEAN
    BY <1>2 DEF QuietStep, Signal, BeginStart, RegisterHandlers, StartClient,
       PublishStartupStatus, ShutdownRequested, RunReturns, StartupReconcile,
       StartupReconciled, Finish, HandleNotification, HandlerLock, HandlerDone, MainStages
  <2>2. smu' \in Passes \cup {Main, Handler, Nobody} /\ handler' \in {"none", "lock", "handling"}
    BY <1>2 DEF QuietStep, Signal, BeginStart, RegisterHandlers, StartClient,
       PublishStartupStatus, ShutdownRequested, RunReturns, StartupReconcile,
       StartupReconciled, MainOnly, HandleNotification, HandlerLock, HandlerDone
  <2> QED
    BY <1>2, <2>1, <2>2, QuietShape
<1>3. ASSUME NEW c \in AllClosers, CallClose(c), UNCHANGED <<shutdown, main, runErr>>
      PROVE  TypeOK'
  BY <1>3 DEF CallClose, AllClosers, CloseStages
<1>4. ASSUME NEW c \in AllClosers, CloseStep(c) PROVE TypeOK'
  BY <1>4 DEF CloseStep, Cancel, Wait, CloseClient, GiveUpWaiting, AllClosers, CloseStages
<1>5. ASSUME NEW p \in Passes, ReconnectStep(p) PROVE TypeOK'
  <2>1. /\ pass' \in [Passes -> PassStages] /\ rmu' \in Passes \cup {Nobody}
        /\ smu' \in Passes \cup {Main, Handler, Nobody} /\ late' \subseteq Passes
    BY <1>5 DEF ReconnectStep, Reconnect, CallbackHolder, SpawnPass, PassLock, PassLoad,
       PassApply, PassStages
  <2> QED
    BY <1>1, <1>5, <2>1, ReconnectShape
<1>6. CASE UNCHANGED vars
  BY <1>6 DEF vars
<1> QED
  BY <1>2, <1>3, <1>4, <1>5, <1>6, StepCases

\* Every step keeps what the stages of Close have achieved.
LEMMA CloseStepInv == IInv /\ [Next]_vars => CloseInv'
<1> SUFFICES ASSUME IInv, [Next]_vars PROVE CloseInv'
  OBVIOUS
<1> USE DEF IInv, CloseInv
<1>1. CASE QuietStep \/ UNCHANGED vars
  BY <1>1, QuietShape DEF vars, Active
<1>2. ASSUME NEW c \in AllClosers, CallClose(c) PROVE CloseInv'
  <2>1. /\ closed' /\ UNCHANGED <<cancelled, client, closeErr>> /\ Active' = Active
        /\ closing[c] = "none"
        /\ closing'[c] = IF closed THEN "returned" ELSE "cancel"
        /\ \A d \in AllClosers \ {c} : closing'[d] = closing[d]
    BY <1>2 DEF CallClose, Active, TypeOK, AllClosers
  <2> QED
    BY <1>2, <2>1
<1>3. ASSUME NEW c \in AllClosers, CloseStep(c) PROVE CloseInv'
  <2>1. Active' = Active /\ closed' = closed
    BY <1>3, CloseShape DEF Active
  <2>2. wg = 0 => Active = {}
    BY PassesAreFinite DEF PassInv, Active
  <2> QED
    BY <1>3, <2>1, <2>2, CloseShape
<1>4. ASSUME NEW p \in Passes, ReconnectStep(p) PROVE CloseInv'
  <2>1. closed => Active' \subseteq Active
    BY <1>4, ActiveStep DEF PassInv
  <2> QED
    BY <1>4, <2>1, ReconnectShape
<1> QED
  BY <1>1, <1>2, <1>3, <1>4, StepCases

\* Every step keeps the late passes from applying, and Run from returning nil early.
LEMMA LateStep == IInv /\ [Next]_vars => LateInv' /\ RunInv'
<1> SUFFICES ASSUME IInv, [Next]_vars PROVE LateInv' /\ RunInv'
  OBVIOUS
<1> USE DEF IInv, LateInv, RunInv
<1>1. CASE QuietStep
  <2>1. LateInv'
    BY <1>1, QuietShape
  <2>2. RunInv'
    BY <1>1, QuietShape DEF QuietStep, Signal, BeginStart, RegisterHandlers, StartClient,
       PublishStartupStatus, ShutdownRequested, ContextDone, RunReturns, StartupReconcile,
       StartupReconciled, Finish, HandleNotification, HandlerLock, HandlerDone, TypeOK
  <2> QED
    BY <2>1, <2>2
<1>2. ASSUME NEW c \in AllClosers, CallClose(c), UNCHANGED <<shutdown, main, runErr>>
      PROVE  LateInv' /\ RunInv'
  BY <1>2 DEF CallClose, TypeOK, AllClosers
<1>3. ASSUME NEW c \in AllClosers, CloseStep(c) PROVE LateInv' /\ RunInv'
  BY <1>3, CloseShape DEF AllClosers
<1>4. ASSUME NEW p \in Passes, ReconnectStep(p) PROVE LateInv' /\ RunInv'
  <2>1. LateInv'
    <3>1. CASE Reconnect(p) \/ SpawnPass(p)
      BY <1>4, <3>1, ReconnectShape DEF Reconnect, SpawnPass, TypeOK
    <3>2. CASE PassLock(p)
      BY <1>4, <3>2, ReconnectShape DEF PassLock, TypeOK
    <3>3. CASE PassLoad(p) \/ PassApply(p)
      BY <1>4, <3>3, ReconnectShape DEF PassLoad, PassApply, LoadSucceeds, TypeOK
    <3> QED
      BY <1>4, <3>1, <3>2, <3>3 DEF ReconnectStep
  <2>2. RunInv'
    BY <1>4, ReconnectShape
  <2> QED
    BY <2>1, <2>2
<1>5. CASE UNCHANGED vars
  BY <1>5 DEF vars
<1> QED
  BY <1>1, <1>2, <1>3, <1>4, <1>5, StepCases

\* In every behavior the WaitGroup counts the active passes, and each stage of Close has
\* achieved what the next relies on.
THEOREM InvariantHolds == Spec => []IInv
<1>1. IInv /\ [Next]_vars => IInv'
  BY TypeStep, PassStepInv, CloseStepInv, LateStep DEF IInv
<1> QED
  BY IInvInit, <1>1, PTL DEF Spec

-----------------------------------------------------------------------------
(* What follows                                                            *)

\* Every variable has its type; in particular the WaitGroup never goes below zero, which
\* would panic, nor above the number of passes.
THEOREM TypeCorrect == Spec => []TypeOK
<1>1. IInv => TypeOK
  BY DEF IInv
<1> QED
  BY InvariantHolds, <1>1, PTL

\* The client is closed only when no reconnect pass can use it any more.
THEOREM ClientClosesLast == Spec => []ClientOutlivesPasses
<1>1. IInv => ClientOutlivesPasses
  BY DEF IInv, TypeOK, PassStages, PassInv, CloseInv, Active, ClientOutlivesPasses
<1> QED
  BY InvariantHolds, <1>1, PTL

\* No reconnect pass is added to the WaitGroup while a Close waits for it.
THEOREM NoPassAddedWhileWaiting == Spec => NoAddWhileWaiting
<1>1. IInv /\ [Next]_vars =>
          [\A c \in Closers \cup {Main} : closing[c] = "wait" => wg' <= wg]_vars
  <2> SUFFICES ASSUME IInv, [Next]_vars, NEW c \in AllClosers, closing[c] = "wait"
               PROVE  wg' <= wg
    BY DEF AllClosers
  <2> USE DEF IInv
  <2>1. wg \in Nat
    BY DEF TypeOK
  <2>2. ASSUME NEW p \in Passes, ReconnectStep(p) PROVE wg' <= wg
    BY <2>1, <2>2, ActiveStep DEF CloseInv, PassInv
  <2>3. CASE QuietStep \/ UNCHANGED vars
    BY <2>1, <2>3, QuietShape DEF vars
  <2>4. ASSUME NEW d \in AllClosers, CallClose(d) \/ CloseStep(d) PROVE wg' <= wg
    BY <2>1, <2>4, CloseShape DEF CallClose
  <2> QED
    BY <2>2, <2>3, <2>4, StepCases
<1> QED
  BY InvariantHolds, <1>1, PTL DEF Spec, NoAddWhileWaiting

\* A pass that gets the service mutex only after shutdown began applies nothing.
THEOREM LatePassesDoNotApply == Spec => []NoLateApply
<1>1. IInv => NoLateApply
  BY DEF IInv, LateInv, NoLateApply
<1> QED
  BY InvariantHolds, <1>1, PTL

\* Run returns nil only on the signal, and unless somebody else closed the runtime, only
\* with the client closed and every pass finished.
THEOREM ExitIsClean == Spec => []CleanExit
<1>1. IInv => CleanExit
  <2> SUFFICES ASSUME IInv, main = "done", ~runErr PROVE CleanExit
    BY DEF CleanExit
  <2>1. shutdown /\ closing[Main] = "returned" /\ ~closeErr[Main]
    BY DEF IInv, RunInv
  <2>2. closed
    BY <2>1 DEF IInv, CloseInv, AllClosers
  <2>3. (\A c \in Closers : closing[c] = "none") => client = "closed"
    BY <2>1 DEF IInv, CloseInv, AllClosers
  <2>4. client = "closed" => cancelled /\ \A p \in Passes : pass[p] \in {"none", "done"}
    BY DEF IInv, CloseInv, TypeOK, PassStages, PassInv, Active
  <2> QED
    BY <2>1, <2>2, <2>3, <2>4 DEF CleanExit
<1> QED
  BY InvariantHolds, <1>1, PTL

-----------------------------------------------------------------------------
(* Shutdown is never blocked                                               *)

\* The two mutexes belong to whoever works under them, and only to them; Run is in its
\* Close only at its end.
HolderInv ==
    /\ \A p \in Passes : /\ (smu = p) <=> pass[p] \in {"load", "apply"}
                         /\ (rmu = p) <=> pass[p] = "callback"
    /\ (smu = Main) <=> main = "reconciling"
    /\ (smu = Handler) <=> handler = "handling"
    /\ closing[Main] # "none" => main \in {"close", "close_failed_start", "done"}
    /\ main = "done" => closing[Main] \in {"none", "returned"}

\* A step of Run's goroutine.
RunStep == MainStep \/ StartupReconcile \/ StartupReconciled \/ CloseStep(Main)

\* Run's goroutine has a step to take: the guards of RunStep.
RunReady ==
    \/ main \in {"register", "client_start", "startup_status", "reconciling"}
    \/ main = "begin" /\ rmu = Nobody
    \/ main = "reconcile" /\ smu = Nobody
    \/ main = "wait" /\ shutdown
    \/ main \in {"close", "close_failed_start"} /\ (closing[Main] # "none" \/ rmu = Nobody)

\* How many steps Run may still take.
StagesLeft(s) ==
    CASE s = "begin" -> 8
      [] s = "register" -> 7
      [] s = "client_start" -> 6
      [] s = "startup_status" -> 5
      [] s = "reconcile" -> 4
      [] s = "reconciling" -> 3
      [] s = "wait" -> 2
      [] s = "done" -> 0
      [] OTHER -> 1

ClosesLeft(s) ==
    CASE s = "none" -> 4
      [] s = "cancel" -> 3
      [] s = "wait" -> 2
      [] s = "client_close" -> 1
      [] OTHER -> 0

StepsLeft == StagesLeft(main) + ClosesLeft(closing[Main])

\* Every step is of Run's goroutine, of another caller of Close, of a reconnect, or of the
\* notifications and the environment.
LEMMA GoroutineCases ==
    ASSUME [Next]_vars
    PROVE  \/ RunStep
           \/ \E c \in Closers : OtherClose(c) \/ CloseStep(c)
           \/ \E p \in Passes : ReconnectStep(p)
           \/ Signal \/ HandleNotification \/ HandlerLock \/ HandlerDone
           \/ UNCHANGED vars
  BY DEF Next, RunStep, PassStep, ReconnectStep, OtherClose

\* The mutexes stay with whoever works under them.
LEMMA HolderStep == IInv /\ HolderInv /\ [Next]_vars => HolderInv'
<1> SUFFICES ASSUME IInv, HolderInv, [Next]_vars PROVE HolderInv'
  OBVIOUS
<1>0. TypeOK
  BY DEF IInv
<1> USE NamesAssumption DEF HolderInv
<1>1. CASE MainStep /\ ~RunCallsClose
  <2>1. UNCHANGED <<rmu, smu, pass, handler, closing>>
    BY <1>1 DEF MainStep, BeginStart, RegisterHandlers, StartClient, PublishStartupStatus,
       ShutdownRequested, RunReturns, MainOnly
  <2>2. /\ main # "reconciling" /\ main' # "reconciling"
        /\ closing[Main] # "none" => main' \in {"close", "close_failed_start", "done"}
        /\ main' = "done" => closing[Main] \in {"none", "returned"}
    BY <1>1 DEF MainStep, BeginStart, RegisterHandlers, StartClient, PublishStartupStatus,
       ShutdownRequested, RunReturns, Finish
  <2> QED
    BY <2>1, <2>2
<1>2. CASE StartupReconcile \/ StartupReconciled
  BY <1>0, <1>2 DEF StartupReconcile, StartupReconciled, MainOnly, TypeOK
<1>3. CASE RunCallsClose
  BY <1>0, <1>3 DEF RunCallsClose, CallClose, TypeOK
<1>4. ASSUME NEW c \in Closers, OtherClose(c) PROVE HolderInv'
  BY <1>0, <1>4 DEF OtherClose, CallClose, TypeOK
<1>5. ASSUME NEW c \in AllClosers, CloseStep(c) PROVE HolderInv'
  BY <1>0, <1>5, CloseShape DEF AllClosers, TypeOK
<1>6. ASSUME NEW p \in Passes, ReconnectStep(p) PROVE HolderInv'
  <2>1. UNCHANGED <<main, closing, handler>>
    BY <1>0, <1>6, ReconnectShape
  <2>2. CASE Reconnect(p) \/ SpawnPass(p)
    BY <1>0, <2>1, <2>2 DEF Reconnect, CallbackHolder, SpawnPass, PassOnly, TypeOK
  <2>3. CASE PassLock(p)
    BY <1>0, <2>1, <2>3 DEF PassLock, TypeOK
  <2>4. CASE PassLoad(p) \/ PassApply(p)
    BY <1>0, <2>1, <2>4 DEF PassLoad, PassApply, TypeOK
  <2> QED
    BY <1>6, <2>2, <2>3, <2>4 DEF ReconnectStep
<1>7. CASE Signal \/ HandleNotification \/ HandlerLock \/ HandlerDone
  BY <1>0, <1>7 DEF Signal, HandleNotification, HandlerLock, HandlerDone, TypeOK
<1>8. CASE UNCHANGED vars
  BY <1>8 DEF vars
<1> QED
  BY <1>1, <1>2, <1>3, <1>4, <1>5, <1>6, <1>7, <1>8, GoroutineCases DEF RunStep, AllClosers

\* In every behavior each mutex belongs to the goroutine that works under it.
THEOREM HoldersWork == Spec => []HolderInv
<1>1. Init => HolderInv
  BY NamesAssumption DEF Init, HolderInv
<1> QED
  BY InvariantHolds, HolderStep, <1>1, PTL DEF Spec

\* The signal never finds Run in a circle of waiting goroutines: until it has returned, Run
\* has a step to take, or waits for the reconnect callback that holds r.mu, or, in the
\* startup reconcile only, for the work under the service mutex.  So a hung apply cannot
\* keep it from its exit later on.
THEOREM ShutdownIsNotBlocked ==
    Spec => [](shutdown /\ main # "done" =>
                  \/ RunReady
                  \/ \E p \in Passes : rmu = p /\ pass[p] = "callback"
                  \/ /\ main = "reconcile"
                     /\ handler = "handling" \/ \E p \in Passes : pass[p] \in {"load", "apply"})
<1>1. IInv /\ HolderInv =>
          (shutdown /\ main # "done" =>
              \/ RunReady
              \/ \E p \in Passes : rmu = p /\ pass[p] = "callback"
              \/ /\ main = "reconcile"
                 /\ handler = "handling" \/ \E p \in Passes : pass[p] \in {"load", "apply"})
  BY DEF IInv, TypeOK, MainStages, HolderInv, RunReady
<1> QED
  BY InvariantHolds, HoldersWork, <1>1, PTL

\* Run never goes back: each step of its goroutine leaves it fewer steps to take, at most
\* twelve in all, and no other goroutine's step changes their number.
THEOREM RunOnlyAdvances ==
    Spec => [][IF RunStep THEN StepsLeft' < StepsLeft ELSE StepsLeft' = StepsLeft]_vars
<1>1. IInv /\ HolderInv /\ [Next]_vars =>
          [IF RunStep THEN StepsLeft' < StepsLeft ELSE StepsLeft' = StepsLeft]_vars
  <2> SUFFICES ASSUME IInv, HolderInv, Next
               PROVE  IF RunStep THEN StepsLeft' < StepsLeft ELSE StepsLeft' = StepsLeft
    OBVIOUS
  <2>1. TypeOK /\ ClosesLeft(closing[Main]) \in Nat
    BY DEF IInv, ClosesLeft
  <2> USE DEF StepsLeft
  <2>2. CASE RunStep
    <3>1. CASE MainStep /\ ~RunCallsClose
      <4>1. UNCHANGED closing
        BY <3>1 DEF MainStep, BeginStart, RegisterHandlers, StartClient, PublishStartupStatus,
           ShutdownRequested, RunReturns, MainOnly
      <4>2. StagesLeft(main') < StagesLeft(main)
        BY <3>1 DEF MainStep, BeginStart, RegisterHandlers, StartClient, PublishStartupStatus,
           ShutdownRequested, RunReturns, Finish, StagesLeft
      <4>3. StagesLeft(main') \in Nat /\ StagesLeft(main) \in Nat
        BY DEF StagesLeft
      <4> QED
        BY <2>1, <2>2, <4>1, <4>2, <4>3
    <3>2. CASE StartupReconcile \/ StartupReconciled
      BY <2>1, <2>2, <3>2 DEF StartupReconcile, StartupReconciled, MainOnly, StagesLeft
    <3>3. CASE RunCallsClose \/ CloseStep(Main)
      <4>1. UNCHANGED main /\ StagesLeft(main) \in Nat
        BY <2>1, <3>3, CloseShape DEF RunCallsClose, AllClosers, StagesLeft
      <4>2. ClosesLeft(closing'[Main]) < ClosesLeft(closing[Main])
        BY <2>1, <3>3, CloseShape DEF RunCallsClose, CallClose, TypeOK, AllClosers, ClosesLeft
      <4>3. ClosesLeft(closing'[Main]) \in Nat
        BY DEF ClosesLeft
      <4> QED
        BY <2>1, <2>2, <4>1, <4>2, <4>3
    <3> QED
      BY <2>2, <3>1, <3>2, <3>3 DEF RunStep
  <2>3. CASE ~RunStep
    <3>1. UNCHANGED main
      BY <2>1, <2>3, GoroutineCases, CloseShape, ReconnectShape
         DEF OtherClose, Signal, HandleNotification, HandlerLock, HandlerDone, vars, AllClosers
    <3>2. closing'[Main] = closing[Main]
      BY <2>1, <2>3, GoroutineCases, CloseShape, ReconnectShape, NamesAssumption
         DEF OtherClose, CallClose, Signal, HandleNotification, HandlerLock, HandlerDone, vars,
             AllClosers, TypeOK
    <3> QED
      BY <2>3, <3>1, <3>2
  <2> QED
    BY <2>2, <2>3
<1> QED
  BY InvariantHolds, HoldersWork, <1>1, PTL DEF Spec

\* A closed runtime stays closed and only finishes the passes it has; once their context is
\* cancelled, none of them begins to apply.
THEOREM ClosedRuntimeDrains ==
    Spec => [][/\ closed => closed' /\ Active' \subseteq Active
               /\ cancelled =>
                     cancelled' /\ \A p \in Passes : pass'[p] = "apply" => pass[p] = "apply"]_vars
<1>1. IInv /\ [Next]_vars =>
          [/\ closed => closed' /\ Active' \subseteq Active
           /\ cancelled =>
                 cancelled' /\ \A p \in Passes : pass'[p] = "apply" => pass[p] = "apply"]_vars
  <2> SUFFICES ASSUME IInv, Next
               PROVE  /\ closed => closed' /\ Active' \subseteq Active
                      /\ cancelled =>
                            cancelled' /\ \A p \in Passes : pass'[p] = "apply" => pass[p] = "apply"
    OBVIOUS
  <2>0. TypeOK /\ PassInv
    BY DEF IInv
  <2>1. CASE QuietStep
    BY <2>1, QuietShape DEF Active
  <2>2. ASSUME NEW c \in AllClosers, CallClose(c) \/ CloseStep(c)
        PROVE  closed' /\ (cancelled => cancelled') /\ UNCHANGED pass
    BY <2>0, <2>2, CloseShape DEF CallClose, IInv, CloseInv
  <2>3. ASSUME NEW p \in Passes, ReconnectStep(p)
        PROVE  /\ closed => closed' /\ Active' \subseteq Active
               /\ cancelled =>
                     cancelled' /\ \A q \in Passes : pass'[q] = "apply" => pass[q] = "apply"
    <3>1. closed => Active' \subseteq Active
      BY <2>0, <2>3, ActiveStep DEF PassInv
    <3>2. cancelled /\ pass'[p] = "apply" => pass[p] = "apply"
      BY <2>0, <2>3 DEF ReconnectStep, Reconnect, SpawnPass, PassLock, PassLoad, PassApply,
         LoadSucceeds, TypeOK
    <3> QED
      BY <2>0, <2>3, <3>1, <3>2, ReconnectShape
  <2> QED
    BY <2>1, <2>2, <2>3, StepCases DEF vars, Active
<1> QED
  BY InvariantHolds, <1>1, PTL DEF Spec

=============================================================================
