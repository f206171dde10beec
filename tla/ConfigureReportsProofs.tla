----------------------- MODULE ConfigureReportsProofs -----------------------
(***************************************************************************)
(* Proofs about what a call of ConfigureService tells its caller: the      *)
(* failure code, the messages the bus accepted and the returned error,     *)
(* each against what the call really did to the device and the checkpoint; *)
(* and that a call only advances towards its return.                       *)
(***************************************************************************)
EXTENDS ConfigureServiceProofs

-----------------------------------------------------------------------------
(* The invariant of a call's report                                        *)

\* Once the device may have changed, and once the call may have ended.
ApplyDone == {"save", "applied_status", "applied_result"}
Failing == {"fail_status", "fail_result"}
Ending == Failing \cup {"return"}

\* What the call did, against the failure code it reports.
EffectInv(p) ==
    /\ pc[p] \notin Ending => code[p] = NoCode
    /\ pc[p] \notin ApplyDone \cup Ending => effects[p] = {}
    /\ pc[p] \in {"save"} \cup Failing => "saved" \notin effects[p]
    /\ code[p] \notin {NoCode, "apply_failed", "state_save_failed"} => effects[p] = {}

\* What the call published and what it will return, stage by stage.
PublishedInv(p) ==
    /\ pc[p] \notin {"in_sync_result", "applied_result"} \cup Ending => sent[p] = {}
    /\ pc[p] = "in_sync_result" => sent[p] = {"success_status"}
    /\ pc[p] = "applied_result" =>
          sent[p] = {"success_status"} \/ (sent[p] = {} /\ err[p])
    /\ pc[p] \notin {"applied_result", "fail_result", "return"} => ~err[p]
    /\ pc[p] = "fail_result" => err[p]
    /\ "saved" \in effects[p] => sent[p] \cap FailureMessages = {}

\* Reconcile has no record before it reads one; a call about to return without an
\* error agrees with the record it read.
AgreementInv(p) ==
    /\ pc[p] \in {"load_state", "load_desired"} /\ kind[p] = "reconcile" =>
          desired[p] = NoEntry
    /\ pc[p] = "return" /\ ~err[p] =>
          /\ desired[p].uuid # Blank => disk.uuid = desired[p].uuid
          /\ kind[p] = "handle" => sent[p] = SuccessMessages

CallInv == \A p \in Procs : EffectInv(p) /\ PublishedInv(p) /\ AgreementInv(p)

-----------------------------------------------------------------------------
(* The steps of a call past the lock                                       *)

\* Every step of a call keeps its failure code true to what it did.
LEMMA EffectStep ==
    ASSUME TypeInv, NEW p \in Procs, EffectInv(p), LockedStep(p)
    PROVE  EffectInv(p)'
<1> USE DEF TypeInv, TypeOK, EffectInv, ApplyDone, Failing, Ending
<1>1. CASE PublishRunning(p)
  BY <1>1, FaultTypes DEF PublishRunning, RunningStages, Goto, Fail, world, locals
<1>2. CASE HandleLoadDesired(p)
  BY <1>2 DEF HandleLoadDesired, Goto, Fail, world
<1>3. CASE HandleLoadState(p)
  BY <1>3 DEF HandleLoadState, Goto, Fail, world
<1>4. CASE ReconcileLoadState(p)
  BY <1>4 DEF ReconcileLoadState, Goto, world
<1>5. CASE ReconcileLoadDesired(p)
  BY <1>5 DEF ReconcileLoadDesired, Goto, world
<1>6. CASE Render(p)
  BY <1>6 DEF Render, Goto, Fail, world, locals
<1>7. CASE Apply(p)
  BY <1>7 DEF Apply, Goto, Fail
<1>8. CASE Save(p)
  BY <1>8 DEF Save, Goto, Fail
<1>9. CASE InSyncStatus(p)
  BY <1>9 DEF InSyncStatus, Accepted, Goto, Fail, world
<1>10. CASE InSyncResult(p)
  BY <1>10 DEF InSyncResult, Accepted, Goto, Fail, world
<1>11. CASE AppliedStatus(p)
  BY <1>11 DEF AppliedStatus, AppliedStatusLost, Accepted, Goto, world
<1>12. CASE AppliedResult(p)
  BY <1>12 DEF AppliedResult, Accepted, Goto, world
<1>13. CASE FailStatus(p)
  BY <1>13 DEF FailStatus, Accepted, Goto, world
<1>14. CASE FailResult(p)
  BY <1>14 DEF FailResult, Accepted, Goto, world
<1>15. CASE PublishDegraded(p)
  BY <1>15 DEF PublishDegraded, Accepted, Goto, world
<1>16. CASE Return(p)
  BY <1>16 DEF Return, world
<1> QED
  BY <1>1, <1>2, <1>3, <1>4, <1>5, <1>6, <1>7, <1>8,
     <1>9, <1>10, <1>11, <1>12, <1>13, <1>14, <1>15, <1>16 DEF LockedStep

\* Every step of a call keeps what it published in step with its stage.
LEMMA PublishedStep ==
    ASSUME TypeInv, NEW p \in Procs, EffectInv(p), PublishedInv(p), LockedStep(p)
    PROVE  PublishedInv(p)'
<1> USE DEF TypeInv, TypeOK, EffectInv, PublishedInv, ApplyDone, Failing, Ending
<1>1. CASE PublishRunning(p)
  BY <1>1, FaultTypes DEF PublishRunning, RunningStages, Goto, Fail, world, locals,
     SuccessMessages, FailureMessages
<1>2. CASE HandleLoadDesired(p)
  BY <1>2 DEF HandleLoadDesired, Goto, Fail, world, SuccessMessages, FailureMessages
<1>3. CASE HandleLoadState(p)
  BY <1>3 DEF HandleLoadState, Goto, Fail, world, SuccessMessages, FailureMessages
<1>4. CASE ReconcileLoadState(p)
  BY <1>4 DEF ReconcileLoadState, Goto, world, SuccessMessages, FailureMessages
<1>5. CASE ReconcileLoadDesired(p)
  BY <1>5 DEF ReconcileLoadDesired, Goto, world, SuccessMessages, FailureMessages
<1>6. CASE Render(p)
  BY <1>6 DEF Render, Goto, Fail, world, locals, SuccessMessages, FailureMessages
<1>7. CASE Apply(p)
  BY <1>7 DEF Apply, Goto, Fail, SuccessMessages, FailureMessages
<1>8. CASE Save(p)
  BY <1>8 DEF Save, Goto, Fail, SuccessMessages, FailureMessages
<1>9. CASE InSyncStatus(p)
  BY <1>9 DEF InSyncStatus, Accepted, Goto, Fail, world, SuccessMessages, FailureMessages
<1>10. CASE InSyncResult(p)
  BY <1>10 DEF InSyncResult, Accepted, Goto, Fail, world, SuccessMessages, FailureMessages
<1>11. CASE AppliedStatus(p)
  BY <1>11 DEF AppliedStatus, AppliedStatusLost, Accepted, Goto, world, SuccessMessages,
     FailureMessages
<1>12. CASE AppliedResult(p)
  BY <1>12 DEF AppliedResult, Accepted, Goto, world, SuccessMessages, FailureMessages
<1>13. CASE FailStatus(p)
  BY <1>13 DEF FailStatus, Accepted, Goto, world, SuccessMessages, FailureMessages
<1>14. CASE FailResult(p)
  BY <1>14 DEF FailResult, Accepted, Goto, world, SuccessMessages, FailureMessages
<1>15. CASE PublishDegraded(p)
  BY <1>15 DEF PublishDegraded, Accepted, Goto, world, SuccessMessages, FailureMessages
<1>16. CASE Return(p)
  BY <1>16 DEF Return, world, SuccessMessages, FailureMessages
<1> QED
  BY <1>1, <1>2, <1>3, <1>4, <1>5, <1>6, <1>7, <1>8,
     <1>9, <1>10, <1>11, <1>12, <1>13, <1>14, <1>15, <1>16 DEF LockedStep

\* Every step of a call that ends it without an error leaves it in agreement with the
\* record it read.
LEMMA AgreementStep ==
    ASSUME IInv, NEW p \in Procs, PublishedInv(p), AgreementInv(p), LockedStep(p)
    PROVE  AgreementInv(p)'
<1> USE DEF IInv, TypeInv, TypeOK, StageInv, PublishedInv, AgreementInv, Ending, Failing
<1>1. CASE PublishRunning(p)
  <2>1. AfterRunning(pc[p]) = "load_desired" => pc[p] = "loading_desired"
    BY DEF AfterRunning
  <2>2. pc'[p] = AfterRunning(pc[p]) \/ pc'[p] = "fail_status"
    BY <1>1 DEF PublishRunning, Goto, Fail
  <2>3. UNCHANGED <<kind, desired>>
    BY <1>1 DEF PublishRunning, locals
  <2> QED
    BY <2>1, <2>2, <2>3, FaultTypes
<1>2. CASE HandleLoadDesired(p)
  BY <1>2 DEF HandleLoadDesired, Goto, Fail, world
<1>3. CASE HandleLoadState(p)
  BY <1>3 DEF HandleLoadState, Goto, Fail, world
<1>4. CASE ReconcileLoadState(p)
  BY <1>4 DEF ReconcileLoadState, Goto, world
<1>5. CASE ReconcileLoadDesired(p)
  <2>1. CASE pc'[p] \in {"degraded", "rendering"}
    BY <2>1
  <2>2. CASE kv = NoEntry /\ UNCHANGED desired
    <3>1. kind'[p] = "reconcile"
      BY <1>5 DEF ReconcileLoadDesired
    <3>2. desired'[p] = NoEntry
      BY <1>5, <2>2 DEF ReconcileLoadDesired
    <3> QED
      BY <3>1, <3>2 DEF NoEntry
  <2>3. CASE /\ InSync(local[p], kv) /\ Goto(p, "return")
             /\ desired' = [desired EXCEPT ![p] = kv]
    <3>1. pc'[p] = "return" /\ kind'[p] = "reconcile" /\ disk' = disk
      BY <1>5, <2>3 DEF ReconcileLoadDesired, Goto, world
    <3>2. desired'[p] = kv /\ disk.uuid = kv.uuid
      BY <1>5, <2>3 DEF ReconcileLoadDesired, InSync
    <3> QED
      BY <3>1, <3>2
  <2> QED
    BY <1>5, <2>1, <2>2, <2>3 DEF ReconcileLoadDesired, Goto
<1>6. CASE Render(p)
  BY <1>6 DEF Render, Goto, Fail, world, locals
<1>7. CASE Apply(p)
  BY <1>7 DEF Apply, Goto, Fail
<1>8. CASE Save(p)
  BY <1>8 DEF Save, Goto, Fail
<1>9. CASE InSyncStatus(p)
  BY <1>9 DEF InSyncStatus, Accepted, Goto, Fail, world
<1>10. CASE InSyncResult(p)
  <2>1. pc'[p] = "return" => sent'[p] = SuccessMessages
    BY <1>10 DEF InSyncResult, Accepted, Goto, Fail, SuccessMessages
  <2>2. disk.uuid = desired[p].uuid /\ UNCHANGED <<disk, desired>>
    BY <1>10 DEF InSyncResult, world
  <2>3. pc'[p] \in {"return", "fail_status"}
    BY <1>10 DEF InSyncResult, Goto, Fail
  <2> QED
    BY <2>1, <2>2, <2>3
<1>11. CASE AppliedStatus(p)
  BY <1>11 DEF AppliedStatus, AppliedStatusLost, Accepted, Goto, world
<1>12. CASE AppliedResult(p)
  <2>1. ~err'[p] => sent'[p] = SuccessMessages
    BY <1>12 DEF AppliedResult, Accepted, SuccessMessages
  <2>2. disk.uuid = desired[p].uuid /\ UNCHANGED <<disk, desired>>
    BY <1>12 DEF AppliedResult, world, NameOf
  <2>3. pc'[p] = "return"
    BY <1>12 DEF AppliedResult, Goto
  <2> QED
    BY <2>1, <2>2, <2>3
<1>13. CASE FailStatus(p)
  BY <1>13 DEF FailStatus, Accepted, Goto, world
<1>14. CASE FailResult(p)
  BY <1>14 DEF FailResult, Accepted, Goto, world
<1>15. CASE PublishDegraded(p)
  BY <1>15 DEF PublishDegraded, Accepted, Goto, world
<1>16. CASE Return(p)
  BY <1>16 DEF Return, world
<1> QED
  BY <1>1, <1>2, <1>3, <1>4, <1>5, <1>6, <1>7, <1>8,
     <1>9, <1>10, <1>11, <1>12, <1>13, <1>14, <1>15, <1>16 DEF LockedStep

-----------------------------------------------------------------------------
(* The invariant holds and is preserved                                    *)

\* The report invariant holds initially.
LEMMA CallInvInit == Init => CallInv
  BY DEF Init, CallInv, EffectInv, PublishedInv, AgreementInv, ApplyDone, Failing, Ending

\* The environment and the lock leave what the calls did and published alone.
LEMMA EnvironmentKeepsReports ==
    ASSUME IInv, CallInv,
           \/ Put \/ Purge
           \/ \E p \in Procs : Notify(p) \/ StartReconcile(p) \/ Lock(p)
    PROVE  \A p \in Procs : EffectInv(p)' /\ PublishedInv(p)' /\ AgreementInv(p)'
<1> USE DEF CallInv, EffectInv, PublishedInv, AgreementInv, ApplyDone, Failing, Ending
<1>1. CASE Put \/ Purge
  BY <1>1 DEF Put, Purge, locals
<1>2. ASSUME NEW p \in Procs, Notify(p) \/ StartReconcile(p)
      PROVE  \A q \in Procs : EffectInv(q)' /\ PublishedInv(q)' /\ AgreementInv(q)'
  <2>1. /\ UNCHANGED <<disk, desired, code, err, sent, effects>>
        /\ pc[p] = "idle" /\ pc'[p] = "lock"
        /\ \A q \in Procs \ {p} : pc'[q] = pc[q] /\ kind'[q] = kind[q]
    BY <1>2 DEF Notify, StartReconcile, Goto, world, IInv, TypeInv, TypeOK
  <2> QED
    BY <2>1
<1>3. ASSUME NEW p \in Procs, Lock(p)
      PROVE  \A q \in Procs : EffectInv(q)' /\ PublishedInv(q)' /\ AgreementInv(q)'
  <2>1. /\ UNCHANGED <<disk, kind, desired, err, sent, effects>>
        /\ \A q \in Procs \ {p} : pc'[q] = pc[q] /\ code'[q] = code[q]
        /\ pc'[p] \in {"received", "fail_status", "load_state"}
        /\ pc'[p] # "fail_status" => code'[p] = code[p]
        /\ pc[p] \in {"idle", "lock"}
    BY <1>3, LockShape DEF IInv, Locked
  <2>2. desired[p] = NoEntry
    BY <2>1 DEF IInv, StageInv, Locked
  <2>3. EffectInv(p)' /\ PublishedInv(p)' /\ AgreementInv(p)'
    BY <2>1, <2>2
  <2>4. ASSUME NEW q \in Procs, q # p
        PROVE  EffectInv(q)' /\ PublishedInv(q)' /\ AgreementInv(q)'
    BY <2>1, <2>4
  <2> QED
    BY <2>3, <2>4
<1> QED
  BY <1>1, <1>2, <1>3

\* Every step keeps the report invariant.
LEMMA CallInvStep == IInv /\ CallInv /\ [Next]_vars => CallInv'
<1> SUFFICES ASSUME IInv, CallInv, [Next]_vars
             PROVE  \A p \in Procs : EffectInv(p)' /\ PublishedInv(p)' /\ AgreementInv(p)'
  BY DEF CallInv
<1>1. CASE Put \/ Purge \/ \E p \in Procs : Notify(p) \/ StartReconcile(p) \/ Lock(p)
  BY <1>1, EnvironmentKeepsReports
<1>2. CASE Crash
  BY <1>2 DEF Crash, ForgetCalls, EffectInv, PublishedInv, AgreementInv, ApplyDone,
     Failing, Ending
<1>3. ASSUME NEW p \in Procs, LockedStep(p)
      PROVE  \A q \in Procs : EffectInv(q)' /\ PublishedInv(q)' /\ AgreementInv(q)'
  <2>1. EffectInv(p)' /\ PublishedInv(p)' /\ AgreementInv(p)'
    BY <1>3, EffectStep, PublishedStep, AgreementStep DEF IInv, CallInv
  <2>2. ASSUME NEW q \in Procs, q # p
        PROVE  EffectInv(q)' /\ PublishedInv(q)' /\ AgreementInv(q)'
    <3>1. pc[q] \in {"idle", "lock"}
      BY <1>3, <2>2, LockedStepShape DEF IInv, MutexInv, Locked
    <3>2. /\ pc'[q] = pc[q] /\ code'[q] = code[q] /\ err'[q] = err[q]
          /\ sent'[q] = sent[q] /\ effects'[q] = effects[q]
      BY <1>3, <2>2, LockedStepShape DEF IInv
    <3> QED
      BY <3>1, <3>2 DEF CallInv, EffectInv, PublishedInv, AgreementInv, ApplyDone,
         Failing, Ending
  <2> QED
    BY <2>1, <2>2
<1>4. CASE UNCHANGED vars
  BY <1>4 DEF vars, CallInv, EffectInv, PublishedInv, AgreementInv
<1> QED
  BY <1>1, <1>2, <1>3, <1>4 DEF Next

\* In every behavior, what a call did, published and returns fit together.
THEOREM ReportsFitEffects == Spec => []CallInv
  BY InvariantHolds, CallInvInit, CallInvStep, PTL DEF Spec

-----------------------------------------------------------------------------
(* What follows                                                            *)

\* A failure code other than apply_failed and state_save_failed means the device and
\* the checkpoint are as the call found them.
THEOREM FailureCodesAreHonest == Spec => []FailureCodeTellsHowFar
<1>1. CallInv => FailureCodeTellsHowFar
  BY DEF CallInv, EffectInv, FailureCodeTellsHowFar
<1> QED
  BY ReportsFitEffects, <1>1, PTL

\* Once its checkpoint is saved, a call publishes no failure.
THEOREM SavedCallsReportNoFailure == Spec => []NoFailureAfterSave
<1>1. CallInv => NoFailureAfterSave
  BY DEF CallInv, PublishedInv, NoFailureAfterSave
<1> QED
  BY ReportsFitEffects, <1>1, PTL

\* With UUIDs that are never reused, a nil return means the device runs, and the
\* checkpoint names, the record the call read, and Handle's controller was told.
THEOREM NilReturnsAreInSync == FreshUUIDs => (Spec => []NilMeansInSync)
<1> SUFFICES ASSUME FreshUUIDs PROVE Spec => []NilMeansInSync
  OBVIOUS
<1>1. IInv /\ CallInv => NilMeansInSync
  <2> SUFFICES ASSUME IInv, CallInv, NEW p \in Procs, pc[p] = "return", ~err[p]
               PROVE  /\ desired[p].uuid # Blank =>
                            device = desired[p] /\ disk.uuid = desired[p].uuid
                      /\ kind[p] = "handle" => sent[p] = SuccessMessages
    BY DEF NilMeansInSync
  <2>1. AgreementInv(p)
    BY DEF CallInv
  <2> QED
    BY <2>1, InSyncIsTrue DEF AgreementInv
<1> QED
  BY InvariantHolds, ReportsFitEffects, <1>1, PTL

-----------------------------------------------------------------------------
(* Calls come to their end                                                 *)

\* A call takes at most sixteen steps, whatever fails: each of its steps leaves it fewer, and
\* no step of anybody else, short of the death of the process, changes their number.
THEOREM CallsOnlyAdvance ==
    Spec => [][\A p \in Procs :
                  IF Lock(p) \/ LockedStep(p) THEN CallLeft(p)' < CallLeft(p)
                  ELSE pc[p] = "idle" \/ CallLeft(p)' = CallLeft(p) \/ Crash]_vars
<1>1. IInv /\ [Next]_vars =>
          [\A p \in Procs :
              IF Lock(p) \/ LockedStep(p) THEN CallLeft(p)' < CallLeft(p)
              ELSE pc[p] = "idle" \/ CallLeft(p)' = CallLeft(p) \/ Crash]_vars
  <2> SUFFICES ASSUME TypeInv, Next, NEW p \in Procs, ~(Lock(p) \/ LockedStep(p)),
                      pc[p] # "idle", ~Crash
               PROVE  CallLeft(p)' = CallLeft(p)
    BY CallAdvances DEF IInv
  <2>1. CASE Put \/ Purge
    BY <2>1 DEF Put, Purge, locals, CallLeft
  <2>2. ASSUME NEW q \in Procs, Notify(q) \/ StartReconcile(q)
        PROVE  CallLeft(p)' = CallLeft(p)
    BY <2>2 DEF Notify, StartReconcile, Goto, TypeInv, TypeOK, CallLeft
  <2>3. ASSUME NEW q \in Procs, Lock(q) \/ LockedStep(q)
        PROVE  CallLeft(p)' = CallLeft(p)
    BY <2>3, CallAdvances
  <2> QED
    BY <2>1, <2>2, <2>3 DEF Next
<1> QED
  BY InvariantHolds, <1>1, PTL DEF Spec

=============================================================================
