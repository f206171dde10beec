----------------------- MODULE ConfigureServiceProofs -----------------------
(***************************************************************************)
(* Proofs about ConfigureService, for any set of goroutines, any records   *)
(* and any number of writes.                                               *)
(***************************************************************************)
EXTENDS ConfigureService, FiniteSetTheorems, TLAPS

-----------------------------------------------------------------------------
(* Types                                                                   *)

TypeInv == TypeOK /\ IsFiniteSet(puts)

\* The types hold initially.
LEMMA TypeInit == Init => TypeInv
<1> SUFFICES ASSUME Init PROVE TypeInv
  OBVIOUS
<1>1. IsFiniteSet(puts)
  BY FS_EmptySet DEF Init
<1>2. TypeOK
  BY DEF Init, TypeOK, Entry, NoEntry, Checkpoint, NoCheckpoint, Message,
         NoMessage, PCs, RunningStages, NoCode
<1> QED
  BY <1>1, <1>2 DEF TypeInv

\* The failure codes and labels the handlers jump to are known ones.
LEMMA FaultTypes ==
    /\ \A m : NotificationFault(m) \in FailureCodes \cup {NoCode}
    /\ \A m, e : DesiredFault(m, e) \in FailureCodes \cup {NoCode}
    /\ \A stage : AfterRunning(stage) \in
          {"loading_desired", "load_desired", "render", "applying", "apply"}
<1>1. \A m : NotificationFault(m) \in FailureCodes \cup {NoCode}
  BY DEF NotificationFault, FailureCodes, NoCode
<1>2. \A m, e : DesiredFault(m, e) \in FailureCodes \cup {NoCode}
  BY DEF DesiredFault, FailureCodes, NoCode
<1>3. \A stage : AfterRunning(stage) \in
           {"loading_desired", "load_desired", "render", "applying", "apply"}
  BY DEF AfterRunning
<1> QED
  BY <1>1, <1>2, <1>3

\* What Save writes is a checkpoint.
LEMMA CheckpointType ==
    ASSUME TypeInv, NEW p \in Procs
    PROVE  NextCheckpoint(p) \in Checkpoint
<1>1. msg[p] \in Message /\ desired[p] \in Entry \cup {NoEntry}
  BY DEF TypeInv, TypeOK
<1> QED
  BY <1>1 DEF NextCheckpoint, Checkpoint, Message, Entry, NoEntry

\* Every step keeps the types.
LEMMA TypeStep == TypeInv /\ [Next]_vars => TypeInv'
<1> SUFFICES ASSUME TypeInv, [Next]_vars PROVE TypeInv'
  OBVIOUS
<1> USE DEF TypeInv, TypeOK
<1>1. CASE Put
  <2>1. Cardinality(puts) \in Nat
    BY FS_CardinalityType
  <2>2. PICK e \in Entry : kv' = e /\ puts' = puts \cup {e}
    BY <1>1, <2>1 DEF Put, Entry
  <2>3. IsFiniteSet(puts')
    BY <2>2, FS_AddElement
  <2> QED
    BY <1>1, <2>2, <2>3 DEF Put, locals
<1>2. CASE Purge
  BY <1>2 DEF Purge, locals
<1>3. CASE Crash
  <2>1. device' \in Entry \cup {NoEntry}
    BY <1>3 DEF Crash, ForgetCalls
  <2>2. disk' \in Checkpoint
    BY <1>3, CheckpointType DEF Crash, ForgetCalls
  <2> QED
    BY <1>3, <2>1, <2>2 DEF Crash, ForgetCalls, PCs, NoMessage, Message
<1>4. ASSUME NEW p \in Procs, Notify(p) PROVE TypeInv'
  <2>1. PICK m \in Notification : msg' = [msg EXCEPT ![p] = m]
    BY <1>4 DEF Notify
  <2>2. m \in Message
    BY TargetAssumption DEF Notification, Message
  <2>3. msg' \in [Procs -> Message]
    BY <2>1, <2>2
  <2> QED
    BY <1>4, <2>3 DEF Notify, Goto, world, PCs
<1>5. ASSUME NEW p \in Procs, StartReconcile(p) PROVE TypeInv'
  BY <1>5 DEF StartReconcile, Goto, world, PCs
<1>6. ASSUME NEW p \in Procs, LockHandle(p) PROVE TypeInv'
  BY <1>6, FaultTypes DEF LockHandle, Goto, Fail, world, locals, PCs, RunningStages
<1>7. ASSUME NEW p \in Procs, LockReconcile(p) PROVE TypeInv'
  BY <1>7 DEF LockReconcile, Goto, world, locals, PCs
<1>8. ASSUME NEW p \in Procs, PublishRunning(p) PROVE TypeInv'
  BY <1>8, FaultTypes DEF PublishRunning, Goto, Fail, world, locals, PCs, RunningStages,
     FailureCodes
<1>9. ASSUME NEW p \in Procs, HandleLoadDesired(p) PROVE TypeInv'
  BY <1>9, FaultTypes DEF HandleLoadDesired, Goto, Fail, world, PCs, FailureCodes
<1>10. ASSUME NEW p \in Procs, HandleLoadState(p) PROVE TypeInv'
  BY <1>10 DEF HandleLoadState, Goto, Fail, world, PCs, RunningStages, FailureCodes, Checkpoint
<1>11. ASSUME NEW p \in Procs, ReconcileLoadState(p) PROVE TypeInv'
  BY <1>11 DEF ReconcileLoadState, Goto, world, PCs, Checkpoint
<1>12. ASSUME NEW p \in Procs, ReconcileLoadDesired(p) PROVE TypeInv'
  <2>1. [target |-> kv.target, uuid |-> kv.uuid] \in Message
    BY DEF Entry, NoEntry, Message
  <2> QED
    BY <1>12, <2>1 DEF ReconcileLoadDesired, Goto, world, PCs, RunningStages
<1>13. ASSUME NEW p \in Procs, Render(p) PROVE TypeInv'
  BY <1>13 DEF Render, Goto, Fail, world, locals, PCs, RunningStages, FailureCodes
<1>14. ASSUME NEW p \in Procs, Apply(p) PROVE TypeInv'
  BY <1>14 DEF Apply, Goto, Fail, PCs, FailureCodes
<1>15. ASSUME NEW p \in Procs, Save(p) PROVE TypeInv'
  <2>1. NextCheckpoint(p) \in Checkpoint
    BY CheckpointType
  <2> QED
    BY <1>15, <2>1 DEF Save, Goto, Fail, PCs, FailureCodes
<1>16. ASSUME NEW p \in Procs, InSyncStatus(p) PROVE TypeInv'
  BY <1>16 DEF InSyncStatus, Accepted, Goto, Fail, world, PCs, FailureCodes, SuccessMessages
<1>17. ASSUME NEW p \in Procs, InSyncResult(p) PROVE TypeInv'
  BY <1>17 DEF InSyncResult, Accepted, Goto, Fail, world, PCs, FailureCodes, SuccessMessages
<1>18. ASSUME NEW p \in Procs, AppliedStatus(p) PROVE TypeInv'
  <2>1. err' \in [Procs -> BOOLEAN]
    BY <1>18 DEF AppliedStatus, AppliedStatusLost
  <2>2. sent' \in [Procs -> SUBSET (SuccessMessages \cup FailureMessages)]
    BY <1>18 DEF AppliedStatus, Accepted, SuccessMessages
  <2>3. pc' \in [Procs -> PCs] /\ UNCHANGED code
    BY <1>18 DEF AppliedStatus, AppliedStatusLost, Goto, PCs
  <2>4. UNCHANGED <<kv, puts, device, disk, mu, kind, msg, desired, local, effects>>
    BY <1>18 DEF AppliedStatus, world
  <2> QED
    BY <2>1, <2>2, <2>3, <2>4
<1>19. ASSUME NEW p \in Procs, AppliedResult(p) PROVE TypeInv'
  <2>1. err' \in [Procs -> BOOLEAN]
    BY <1>19 DEF AppliedResult
  <2>2. sent' \in [Procs -> SUBSET (SuccessMessages \cup FailureMessages)]
    BY <1>19 DEF AppliedResult, Accepted, SuccessMessages
  <2>3. pc' \in [Procs -> PCs] /\ UNCHANGED code
    BY <1>19 DEF AppliedResult, Goto, PCs
  <2>4. UNCHANGED <<kv, puts, device, disk, mu, kind, msg, desired, local, effects>>
    BY <1>19 DEF AppliedResult, world
  <2> QED
    BY <2>1, <2>2, <2>3, <2>4
<1>20. ASSUME NEW p \in Procs, FailStatus(p) PROVE TypeInv'
  BY <1>20 DEF FailStatus, Accepted, Goto, world, PCs, FailureMessages
<1>21. ASSUME NEW p \in Procs, FailResult(p) PROVE TypeInv'
  BY <1>21 DEF FailResult, Accepted, Goto, world, PCs, FailureMessages
<1>22. ASSUME NEW p \in Procs, PublishDegraded(p) PROVE TypeInv'
  BY <1>22 DEF PublishDegraded, Accepted, Goto, world, PCs, FailureMessages
<1>23. ASSUME NEW p \in Procs, Return(p) PROVE TypeInv'
  BY <1>23 DEF Return, world, PCs, NoMessage, Message
<1>24. CASE UNCHANGED vars
  BY <1>24 DEF vars
<1> QED
  BY <1>1, <1>2, <1>3, <1>4, <1>5, <1>6, <1>7, <1>8, <1>9, <1>10, <1>11, <1>12,
     <1>13, <1>14, <1>15, <1>16, <1>17, <1>18, <1>19, <1>20, <1>21, <1>22, <1>23,
     <1>24 DEF Next, Lock, LockedStep

\* The type invariant holds in every behavior, with any number of goroutines.
THEOREM TypeCorrect == Spec => []TypeOK
<1>1. TypeInv => TypeOK
  BY DEF TypeInv
<1> QED
  BY TypeInit, TypeStep, <1>1, PTL DEF Spec

-----------------------------------------------------------------------------
(* The inductive invariant                                                 *)

Locked(p) == pc[p] \notin {"idle", "lock"}

\* Whoever is past the lock holds the mutex.
MutexInv == \A p \in Procs : Locked(p) => mu = p

\* The history of the desired configuration: revisions and, if the controller
\* never reuses them, UUIDs identify records; the current record is the newest.
HistoryInv ==
    /\ \A e \in puts : e.rev \in 1 .. Cardinality(puts)
    /\ \A e, f \in puts : e.rev = f.rev => e = f
    /\ FreshUUIDs => \A e, f \in puts : e.uuid = f.uuid /\ e.uuid # Blank => e = f
    /\ kv # NoEntry => kv \in puts /\ \A e \in puts : e.rev <= kv.rev

\* The call has a record, and its message names it.
HasRecord(p) == desired[p] # NoEntry /\ msg[p] = NameOf(desired[p])

\* What a goroutine knows at each of its stages.
StageInv(p) ==
    /\ ~Locked(p) => desired[p] = NoEntry /\ sent[p] = {}
    /\ pc[p] \in {"received", "loading_desired"} => kind[p] = "handle"
    /\ pc[p] = "load_state" /\ kind[p] = "handle" =>
          HasRecord(p) /\ desired[p].uuid # Blank
    /\ pc[p] = "load_desired" /\ kind[p] = "reconcile" => local[p] = disk.uuid
    /\ pc[p] \in {"rendering", "render", "rendered", "applying", "apply"} =>
          HasRecord(p) /\ disk.uuid # desired[p].uuid
    /\ pc[p] \in {"save", "applied_status", "applied_result"} =>
          HasRecord(p) /\ device = desired[p]
    /\ pc[p] \in {"applied_status", "applied_result"} => disk = NameOf(desired[p])
    /\ pc[p] \in {"in_sync_status", "in_sync_result"} =>
          HasRecord(p) /\ desired[p].uuid # Blank /\ disk.uuid = desired[p].uuid

\* No record in hand is older than the one the device runs.
OrderInv ==
    /\ device # NoEntry => device \in puts
    /\ \A p \in Procs : desired[p] # NoEntry =>
          desired[p] \in puts /\ device.rev <= desired[p].rev
    /\ CheckpointWasApplied

IInv ==
    /\ TypeInv
    /\ MutexInv
    /\ HistoryInv
    /\ \A p \in Procs : StageInv(p)
    /\ OrderInv

-----------------------------------------------------------------------------
(* Mutual exclusion                                                        *)

\* A step of a goroutine past the lock changes nothing of any other goroutine,
\* and gives up the mutex only when it returns.
LEMMA LockedStepShape ==
    ASSUME TypeInv, NEW p \in Procs, LockedStep(p)
    PROVE  /\ Locked(p)
           /\ \A q \in Procs \ {p} :
                 /\ pc'[q] = pc[q] /\ kind'[q] = kind[q] /\ msg'[q] = msg[q]
                 /\ desired'[q] = desired[q]
                 /\ code'[q] = code[q] /\ err'[q] = err[q]
                 /\ sent'[q] = sent[q] /\ effects'[q] = effects[q]
           /\ (mu' = mu /\ Locked(p)') \/ (mu' = NoProc /\ ~Locked(p)')
           /\ UNCHANGED <<kv, puts>>
<1> USE DEF TypeInv, TypeOK, Locked
<1>1. CASE PublishRunning(p)
  BY <1>1, FaultTypes DEF PublishRunning, RunningStages, Goto, Fail, world, locals
<1>2. CASE HandleLoadDesired(p)
  BY <1>2 DEF HandleLoadDesired, Goto, Fail, world
<1>3. CASE HandleLoadState(p)
  BY <1>3 DEF HandleLoadState, Goto, Fail, world
<1>4. CASE ReconcileLoadState(p)
  BY <1>4 DEF ReconcileLoadState, Goto, world
<1>5. CASE ReconcileLoadDesired(p)
  BY <1>5 DEF ReconcileLoadDesired, Goto, world
<1>6. CASE Render(p)
  BY <1>6 DEF Render, Goto, Fail, world, locals
<1>7. CASE Apply(p)
  BY <1>7 DEF Apply, Goto, Fail
<1>8. CASE Save(p)
  BY <1>8 DEF Save, Goto, Fail
<1>9. CASE InSyncStatus(p)
  BY <1>9 DEF InSyncStatus, Accepted, Goto, Fail, world
<1>10. CASE InSyncResult(p)
  BY <1>10 DEF InSyncResult, Accepted, Goto, Fail, world
<1>11. CASE AppliedStatus(p)
  BY <1>11 DEF AppliedStatus, AppliedStatusLost, Accepted, Goto, world
<1>12. CASE AppliedResult(p)
  BY <1>12 DEF AppliedResult, Accepted, Goto, world
<1>13. CASE FailStatus(p)
  BY <1>13 DEF FailStatus, Accepted, Goto, world
<1>14. CASE FailResult(p)
  BY <1>14 DEF FailResult, Accepted, Goto, world
<1>15. CASE PublishDegraded(p)
  BY <1>15 DEF PublishDegraded, Accepted, Goto, world
<1>16. CASE Return(p)
  BY <1>16 DEF Return, world
<1> QED
  BY <1>1, <1>2, <1>3, <1>4, <1>5, <1>6, <1>7, <1>8, <1>9, <1>10, <1>11, <1>12,
     <1>13, <1>14, <1>15, <1>16 DEF LockedStep

\* Taking the lock changes only the goroutine's stage, the mutex and, if the
\* notification is invalid, the error code.
LEMMA LockShape ==
    ASSUME TypeInv, NEW p \in Procs, Lock(p)
    PROVE  /\ mu = NoProc /\ mu' = p
           /\ ~Locked(p)
           /\ pc'[p] \in {"received", "fail_status", "load_state"}
           /\ pc'[p] = "load_state" => kind[p] = "reconcile"
           /\ pc'[p] = "received" => kind[p] = "handle"
           /\ pc'[p] # "fail_status" => code'[p] = code[p]
           /\ \A q \in Procs \ {p} : pc'[q] = pc[q] /\ code'[q] = code[q]
           /\ UNCHANGED <<kv, puts, device, disk, kind, msg, desired, local, err, sent, effects>>
<1> USE DEF TypeInv, TypeOK, Locked
<1>1. CASE LockHandle(p)
  BY <1>1 DEF LockHandle, LockIsFree, Goto, Fail, world, locals
<1>2. CASE LockReconcile(p)
  BY <1>2 DEF LockReconcile, LockIsFree, Goto, world, locals
<1> QED
  BY <1>1, <1>2 DEF Lock

\* No step lets two goroutines past the lock.
LEMMA MutexStep == TypeInv /\ MutexInv /\ [Next]_vars => MutexInv'
<1> SUFFICES ASSUME TypeInv, MutexInv, [Next]_vars PROVE MutexInv'
  OBVIOUS
<1> USE DEF MutexInv, Locked
<1>1. CASE Put \/ Purge
  BY <1>1 DEF Put, Purge
<1>2. CASE Crash
  BY <1>2 DEF Crash, ForgetCalls
<1>3. ASSUME NEW p \in Procs, Notify(p) \/ StartReconcile(p) PROVE MutexInv'
  BY <1>3 DEF Notify, StartReconcile, Goto, TypeInv, TypeOK
<1>4. ASSUME NEW p \in Procs, Lock(p) PROVE MutexInv'
  BY <1>4, LockShape, ProcsAssumption
<1>5. ASSUME NEW p \in Procs, LockedStep(p) PROVE MutexInv'
  BY <1>5, LockedStepShape
<1>6. CASE UNCHANGED vars
  BY <1>6 DEF vars
<1> QED
  BY <1>1, <1>2, <1>3, <1>4, <1>5, <1>6 DEF Next

\* The call that holds the mutex is under way.
HeldInv == \A p \in Procs : mu = p => Locked(p)

\* Only a call under way holds the mutex: Lock takes it, Return and a crash free it.
LEMMA HeldStep == TypeInv /\ MutexInv /\ HeldInv /\ [Next]_vars => HeldInv'
<1> SUFFICES ASSUME TypeInv, MutexInv, HeldInv, [Next]_vars PROVE HeldInv'
  OBVIOUS
<1> USE DEF HeldInv
<1>1. CASE Put \/ Purge
  BY <1>1 DEF Put, Purge, Locked
<1>2. CASE Crash
  BY <1>2, ProcsAssumption DEF Crash, ForgetCalls
<1>3. ASSUME NEW p \in Procs, Notify(p) \/ StartReconcile(p) PROVE HeldInv'
  BY <1>3 DEF Notify, StartReconcile, Goto, TypeInv, TypeOK, Locked
<1>4. ASSUME NEW p \in Procs, Lock(p) PROVE HeldInv'
  BY <1>4, LockShape DEF Locked
<1>5. ASSUME NEW p \in Procs, LockedStep(p) PROVE HeldInv'
  <2>1. mu = p
    BY <1>5, LockedStepShape DEF MutexInv
  <2> QED
    BY <1>5, <2>1, LockedStepShape, ProcsAssumption
<1>6. CASE UNCHANGED vars
  BY <1>6 DEF vars, Locked
<1> QED
  BY <1>1, <1>2, <1>3, <1>4, <1>5, <1>6 DEF Next

-----------------------------------------------------------------------------
(* The history of the desired configuration                                *)

\* A write extends the history of the desired configuration; no other step touches it.
LEMMA HistoryStep == TypeInv /\ HistoryInv /\ [Next]_vars => HistoryInv'
<1> SUFFICES ASSUME TypeInv, HistoryInv, [Next]_vars PROVE HistoryInv'
  OBVIOUS
<1> USE DEF HistoryInv
<1>1. CASE Put
  <2>1. PICK e : /\ e.rev = Cardinality(puts) + 1
                 /\ kv' = e /\ puts' = puts \cup {e}
                 /\ FreshUUIDs /\ e.uuid # Blank => \A f \in puts : f.uuid # e.uuid
    BY <1>1 DEF Put
  <2>2. Cardinality(puts) \in Nat
    BY FS_CardinalityType DEF TypeInv
  <2>3. \A f \in puts : f.rev \in Nat /\ f.rev < e.rev
    BY <2>1, <2>2
  <2>4. Cardinality(puts') = Cardinality(puts) + 1
    BY <2>1, <2>3, FS_AddElement DEF TypeInv
  <2> QED
    BY <2>1, <2>2, <2>3, <2>4
<1>2. CASE Purge
  BY <1>2 DEF Purge
<1>3. CASE Crash
  BY <1>3 DEF Crash, ForgetCalls
<1>4. ASSUME NEW p \in Procs, Notify(p) \/ StartReconcile(p) PROVE HistoryInv'
  BY <1>4 DEF Notify, StartReconcile, world
<1>5. ASSUME NEW p \in Procs, Lock(p) PROVE HistoryInv'
  BY <1>5, LockShape
<1>6. ASSUME NEW p \in Procs, LockedStep(p) PROVE HistoryInv'
  BY <1>6, LockedStepShape
<1>7. CASE UNCHANGED vars
  BY <1>7 DEF vars
<1> QED
  BY <1>1, <1>2, <1>3, <1>4, <1>5, <1>6, <1>7 DEF Next

-----------------------------------------------------------------------------
(* The invariant holds and is preserved                                    *)

\* The inductive invariant holds initially.
LEMMA IInvInit == Init => IInv
<1> SUFFICES ASSUME Init PROVE IInv
  OBVIOUS
<1>1. MutexInv /\ \A p \in Procs : StageInv(p)
  BY DEF Init, MutexInv, StageInv, Locked
<1>2. HistoryInv /\ OrderInv
  BY DEF Init, HistoryInv, OrderInv, CheckpointWasApplied
<1> QED
  BY <1>1, <1>2, TypeInit DEF IInv

\* A step of p past the lock keeps the invariant if it keeps p's own part of it
\* and the order: every other goroutine is outside the lock.
LEMMA LockedStepKeeps ==
    ASSUME IInv, NEW p \in Procs, LockedStep(p), StageInv(p)'
    PROVE  \A q \in Procs : StageInv(q)'
<1> SUFFICES ASSUME NEW q \in Procs, q # p PROVE StageInv(q)'
  OBVIOUS
<1>1. TypeInv /\ MutexInv /\ StageInv(q)
  BY DEF IInv
<1>2. Locked(p)
  BY <1>1, LockedStepShape
<1>3. pc'[q] = pc[q] /\ desired'[q] = desired[q] /\ sent'[q] = sent[q]
  BY <1>1, LockedStepShape
<1>4. ~Locked(q)
  BY <1>1, <1>2 DEF MutexInv
<1> QED
  BY <1>1, <1>3, <1>4 DEF StageInv, Locked

\* A step that leaves the device, the checkpoint, the history and the records in
\* hand alone keeps the order.
LEMMA OrderFrame ==
    ASSUME OrderInv, UNCHANGED <<puts, device, disk, desired>>
    PROVE  OrderInv'
BY DEF OrderInv, CheckpointWasApplied

\* The record p loads is the newest ever written.
LEMMA LoadKeepsOrder ==
    ASSUME IInv, NEW p \in Procs, kv # NoEntry,
           desired' = [desired EXCEPT ![p] = kv], UNCHANGED <<puts, device, disk>>
    PROVE  OrderInv'
<1> USE DEF IInv, OrderInv
<1>1. kv \in puts /\ device.rev <= kv.rev
  <2>1. kv \in puts /\ kv.rev \in Nat
    BY DEF HistoryInv, TypeInv, TypeOK, Entry
  <2>2. CASE device = NoEntry
    BY <2>1, <2>2 DEF NoEntry
  <2>3. CASE device # NoEntry
    BY <2>1, <2>3 DEF HistoryInv
  <2> QED
    BY <2>1, <2>2, <2>3
<1>2. \A q \in Procs : desired'[q] = kv \/ desired'[q] = desired[q]
  BY DEF TypeInv, TypeOK
<1>3. CheckpointWasApplied'
  BY DEF CheckpointWasApplied
<1> QED
  BY <1>1, <1>2, <1>3

\* A commit moves the device to the record in hand, which is no older.
LEMMA ApplyKeepsInv == ASSUME IInv, NEW p \in Procs, Apply(p)
                       PROVE  StageInv(p)' /\ OrderInv'
<1> USE DEF IInv
<1>1. HasRecord(p) /\ desired[p] \in puts /\ device.rev <= desired[p].rev
  BY DEF Apply, StageInv, OrderInv, HasRecord
<1>2. StageInv(p)'
  BY <1>1 DEF Apply, Goto, Fail, StageInv, HasRecord, Locked, TypeInv, TypeOK
<1>3. CASE device' = desired[p]
  <2>1. /\ UNCHANGED <<puts, disk, desired>>
        /\ pc[p] = "apply"
    BY DEF Apply
  <2>2. \A q \in Procs : desired[q] # NoEntry => q = p
    <3>1. \A q \in Procs : q # p => ~Locked(q)
      BY <2>1 DEF MutexInv, Locked
    <3> QED
      BY <3>1 DEF StageInv
  <2>3. \A e \in puts : e.rev \in Nat
    BY DEF TypeInv, TypeOK, Entry
  <2>4. CheckpointWasApplied'
    <3>1. device.rev \in Nat /\ desired[p].rev \in Nat
      BY <1>1, <2>3 DEF TypeInv, TypeOK, Entry, NoEntry
    <3> QED
      BY <1>1, <1>3, <2>1, <2>3, <3>1 DEF OrderInv, CheckpointWasApplied
  <2> QED
    BY <1>1, <1>2, <1>3, <2>1, <2>2, <2>3, <2>4 DEF OrderInv
<1>4. CASE UNCHANGED device
  BY <1>2, <1>4, OrderFrame DEF Apply
<1> QED
  BY <1>2, <1>3, <1>4 DEF Apply

\* Checkpointing the record the device runs keeps the checkpoint justified.
LEMMA CheckpointKept ==
    ASSUME IInv, NEW p \in Procs, pc[p] = "save", disk' = NextCheckpoint(p),
           UNCHANGED <<puts, device>>
    PROVE  disk' = NameOf(desired[p]) /\ CheckpointWasApplied'
<1>1. HasRecord(p) /\ device = desired[p] /\ desired[p] \in puts
  BY DEF IInv, StageInv, OrderInv, HasRecord
<1>2. disk' = NameOf(desired[p])
  BY <1>1 DEF HasRecord, NameOf, NextCheckpoint
<1>3. device.rev \in Nat
  BY DEF IInv, TypeInv, TypeOK, Entry, NoEntry
<1> QED
  BY <1>1, <1>2, <1>3 DEF CheckpointWasApplied, NameOf

\* A save checkpoints the record in hand, which the device runs.
LEMMA SaveKeepsInv == ASSUME IInv, NEW p \in Procs, Save(p)
                      PROVE  StageInv(p)' /\ OrderInv'
<1> USE DEF IInv
<1>1. pc[p] = "save" /\ UNCHANGED <<puts, device, desired, msg, sent>>
  BY DEF Save
<1>2. HasRecord(p) /\ device = desired[p]
  BY <1>1 DEF StageInv
<1>3. CASE disk' = NextCheckpoint(p)
  <2>1. disk' = NameOf(desired[p]) /\ CheckpointWasApplied'
    BY <1>1, <1>3, CheckpointKept
  <2>2. StageInv(p)'
    BY <1>1, <1>2, <2>1 DEF Save, Goto, Fail, StageInv, HasRecord, Locked, TypeInv, TypeOK
  <2> QED
    BY <1>1, <2>1, <2>2 DEF OrderInv
<1>4. CASE UNCHANGED disk /\ Fail(p, "state_save_failed")
  <2>1. StageInv(p)'
    BY <1>1, <1>2, <1>4 DEF Fail, StageInv, HasRecord, Locked, TypeInv, TypeOK
  <2> QED
    BY <1>1, <1>4, <2>1, OrderFrame
<1> QED
  BY <1>3, <1>4 DEF Save

\* The steps that read: what a call learns is recorded in its stage.
LEMMA LoadKeepsInv ==
    ASSUME IInv, NEW p \in Procs,
           HandleLoadDesired(p) \/ HandleLoadState(p)
               \/ ReconcileLoadState(p) \/ ReconcileLoadDesired(p)
    PROVE  StageInv(p)' /\ OrderInv'
<1> USE DEF IInv, StageInv, HasRecord, Locked, TypeInv, TypeOK
<1>1. CASE HandleLoadDesired(p)
  <2>1. CASE UNCHANGED desired /\ pc'[p] = "fail_status"
    BY <1>1, <2>1, OrderFrame DEF HandleLoadDesired, world
  <2>2. CASE /\ kv # NoEntry
             /\ desired' = [desired EXCEPT ![p] = kv]
             /\ \/ DesiredFault(msg[p], kv) = NoCode /\ Goto(p, "load_state")
                \/ pc'[p] = "fail_status"
    <3>1. OrderInv'
      BY <1>1, <2>2, LoadKeepsOrder DEF HandleLoadDesired, world
    <3>2. ASSUME DesiredFault(msg[p], kv) = NoCode
          PROVE  msg[p] = NameOf(kv) /\ kv.uuid # Blank
      <4>1. msg[p] \in Message
        OBVIOUS
      <4>2. msg[p].target = kv.target /\ msg[p].uuid = kv.uuid /\ kv.uuid # Blank
        BY <3>2 DEF DesiredFault, NoCode
      <4> QED
        BY <4>1, <4>2 DEF Message, NameOf
    <3>3. StageInv(p)'
      BY <1>1, <2>2, <3>2 DEF HandleLoadDesired, Goto
    <3> QED
      BY <3>1, <3>3
  <2> QED
    BY <1>1, <2>1, <2>2 DEF HandleLoadDesired, Fail
<1>2. CASE HandleLoadState(p)
  <2>1. OrderInv'
    BY <1>2, OrderFrame DEF HandleLoadState, world
  <2>2. StageInv(p)'
    BY <1>2 DEF HandleLoadState, Goto, Fail, InSync, world
  <2> QED
    BY <2>1, <2>2
<1>3. CASE ReconcileLoadState(p)
  <2>1. OrderInv'
    BY <1>3, OrderFrame DEF ReconcileLoadState, world
  <2>2. StageInv(p)'
    BY <1>3 DEF ReconcileLoadState, Goto, world
  <2> QED
    BY <2>1, <2>2
<1>4. CASE ReconcileLoadDesired(p)
  <2>1. OrderInv'
    BY <1>4, OrderFrame, LoadKeepsOrder DEF ReconcileLoadDesired, world
  <2>2. StageInv(p)'
    BY <1>4 DEF ReconcileLoadDesired, Goto, InSync, NameOf, world
  <2> QED
    BY <2>1, <2>2
<1> QED
  BY <1>1, <1>2, <1>3, <1>4

\* The steps that report change neither records nor order.
LEMMA ReportKeepsInv ==
    ASSUME IInv, NEW p \in Procs,
           \/ PublishRunning(p) \/ Render(p)
           \/ InSyncStatus(p) \/ InSyncResult(p) \/ AppliedStatus(p) \/ AppliedResult(p)
           \/ FailStatus(p) \/ FailResult(p) \/ PublishDegraded(p)
    PROVE  StageInv(p)' /\ OrderInv'
<1> USE DEF IInv
<1>1. OrderInv'
  BY OrderFrame DEF PublishRunning, Render, InSyncStatus, InSyncResult, AppliedStatus,
     AppliedResult, FailStatus, FailResult, PublishDegraded, world, locals
<1> USE DEF StageInv, HasRecord, Locked, TypeInv, TypeOK
<1>2. CASE PublishRunning(p)
  <2>1. CASE Fail(p, "status_publish_failed")
    BY <1>1, <1>2, <2>1 DEF PublishRunning, Fail, RunningStages, world, locals
  <2>2. CASE Goto(p, AfterRunning(pc[p]))
    <3>1. /\ pc[p] \in {"received", "loading_desired"} =>
               pc'[p] = "loading_desired" \/ (pc'[p] = "load_desired" /\ kind[p] = "handle")
          /\ pc[p] \in {"rendering", "rendered", "applying"} =>
               pc'[p] \in {"render", "applying", "apply"}
      BY <1>2, <2>2 DEF PublishRunning, Goto, AfterRunning, RunningStages
    <3> QED
      BY <1>1, <1>2, <2>2, <3>1 DEF PublishRunning, Goto, RunningStages, world, locals
  <2> QED
    BY <1>2, <2>1, <2>2 DEF PublishRunning
<1>3. CASE Render(p)
  BY <1>1, <1>3 DEF Render, Goto, Fail, world, locals
<1>4. CASE InSyncStatus(p)
  BY <1>1, <1>4 DEF InSyncStatus, Goto, Fail, world
<1>5. CASE InSyncResult(p)
  BY <1>1, <1>5 DEF InSyncResult, Goto, Fail, world
<1>6. CASE AppliedStatus(p)
  BY <1>1, <1>6 DEF AppliedStatus, AppliedStatusLost, Goto, world
<1>7. CASE AppliedResult(p) \/ FailStatus(p) \/ FailResult(p) \/ PublishDegraded(p)
  BY <1>1, <1>7 DEF AppliedResult, FailStatus, FailResult, PublishDegraded, Goto, world
<1> QED
  BY <1>2, <1>3, <1>4, <1>5, <1>6, <1>7

\* A returning goroutine forgets its record; the others are outside the lock.
LEMMA ReturnKeepsInv == ASSUME IInv, NEW p \in Procs, Return(p)
                        PROVE  StageInv(p)' /\ OrderInv'
<1> USE DEF IInv, TypeInv, TypeOK
<1>1. StageInv(p)'
  BY DEF Return, StageInv, Locked
<1>2. \A q \in Procs : desired'[q] = NoEntry \/ desired'[q] = desired[q]
  BY DEF Return
<1>3. CheckpointWasApplied'
  BY DEF Return, world, OrderInv, CheckpointWasApplied
<1> QED
  BY <1>1, <1>2, <1>3 DEF Return, world, OrderInv

\* A crash may leave a commit or a rename behind, never one that breaks the order.
LEMMA CrashKeepsInv == ASSUME IInv, Crash
                       PROVE  (\A p \in Procs : StageInv(p)') /\ OrderInv'
<1> USE DEF IInv
<1>1. \A p \in Procs : StageInv(p)'
  BY DEF Crash, ForgetCalls, StageInv, Locked
<1>2. UNCHANGED puts /\ \A p \in Procs : desired'[p] = NoEntry
  BY DEF Crash, ForgetCalls
<1>3. (device' # NoEntry => device' \in puts) /\ device'.rev >= device.rev
  <2>1. CASE UNCHANGED device
    BY <2>1 DEF OrderInv, TypeInv, TypeOK, Entry, NoEntry
  <2>2. ASSUME NEW p \in Procs, pc[p] = "apply", device' = desired[p]
        PROVE  device' \in puts /\ device'.rev >= device.rev
    BY <2>2 DEF StageInv, HasRecord, OrderInv
  <2> QED
    BY <2>1, <2>2 DEF Crash, ForgetCalls, OrderInv
<1>4. device.rev \in Nat /\ device'.rev \in Nat /\ \A e \in puts : e.rev \in Nat
  BY <1>3 DEF TypeInv, TypeOK, Entry, NoEntry
<1>5. CheckpointWasApplied'
  <2>1. CASE UNCHANGED disk
    BY <1>2, <1>3, <1>4, <2>1 DEF OrderInv, CheckpointWasApplied
  <2>2. ASSUME NEW p \in Procs, pc[p] = "save", disk' = NextCheckpoint(p)
        PROVE  CheckpointWasApplied'
    <3>1. HasRecord(p) /\ device = desired[p] /\ desired[p] \in puts
      BY <2>2 DEF StageInv, HasRecord, OrderInv
    <3>2. disk' = NameOf(desired[p])
      BY <2>2, <3>1 DEF HasRecord, NameOf, NextCheckpoint
    <3> QED
      BY <1>2, <1>3, <1>4, <3>1, <3>2 DEF CheckpointWasApplied, NameOf
  <2> QED
    BY <2>1, <2>2 DEF Crash, ForgetCalls
<1> QED
  BY <1>1, <1>2, <1>3, <1>5 DEF OrderInv

\* The environment and the lock leave the device, the checkpoint and the records in
\* hand alone.
LEMMA EnvironmentKeepsInv ==
    ASSUME IInv,
           \/ Put \/ Purge
           \/ \E p \in Procs : Notify(p) \/ StartReconcile(p) \/ Lock(p)
    PROVE  (\A p \in Procs : StageInv(p)') /\ OrderInv'
<1> USE DEF IInv
<1>1. CASE Put \/ Purge
  <2>1. puts \subseteq puts' /\ UNCHANGED <<device, disk, mu, pc, kind, msg, desired, local, sent>>
    BY <1>1 DEF Put, Purge, locals
  <2>2. \A p \in Procs : StageInv(p)'
    BY <2>1 DEF StageInv, HasRecord, Locked
  <2>3. OrderInv'
    BY <2>1 DEF OrderInv, CheckpointWasApplied
  <2> QED
    BY <2>2, <2>3
<1>2. ASSUME NEW p \in Procs, Notify(p) \/ StartReconcile(p)
      PROVE  (\A q \in Procs : StageInv(q)') /\ OrderInv'
  <2>1. /\ UNCHANGED <<puts, device, disk, desired, local, sent>>
        /\ pc[p] = "idle" /\ pc'[p] = "lock"
        /\ \A q \in Procs \ {p} : pc'[q] = pc[q] /\ kind'[q] = kind[q] /\ msg'[q] = msg[q]
    BY <1>2 DEF Notify, StartReconcile, Goto, world, TypeInv, TypeOK
  <2>2. \A q \in Procs : StageInv(q)'
    <3>1. StageInv(p)'
      BY <2>1 DEF StageInv, Locked
    <3>2. ASSUME NEW q \in Procs, q # p PROVE StageInv(q)'
      BY <2>1, <3>2 DEF StageInv, HasRecord, Locked
    <3> QED
      BY <3>1, <3>2
  <2> QED
    BY <2>1, <2>2, OrderFrame
<1>3. ASSUME NEW p \in Procs, Lock(p)
      PROVE  (\A q \in Procs : StageInv(q)') /\ OrderInv'
  <2>1. OrderInv'
    BY <1>3, LockShape, OrderFrame
  <2>2. StageInv(p)'
    BY <1>3, LockShape DEF StageInv, Locked
  <2>3. ASSUME NEW q \in Procs, q # p PROVE StageInv(q)'
    <3>1. ~Locked(q)
      BY <1>3, LockShape, ProcsAssumption DEF MutexInv
    <3> QED
      BY <1>3, <2>3, <3>1, LockShape DEF StageInv, Locked
  <2> QED
    BY <2>1, <2>2, <2>3
<1> QED
  BY <1>1, <1>2, <1>3

\* Every step keeps the inductive invariant.
LEMMA IInvStep == IInv /\ [Next]_vars => IInv'
<1> SUFFICES ASSUME IInv, [Next]_vars
             PROVE  (\A p \in Procs : StageInv(p)') /\ OrderInv'
  BY TypeStep, MutexStep, HistoryStep DEF IInv
<1>1. CASE Crash
  BY <1>1, CrashKeepsInv
<1>2. CASE Put \/ Purge \/ \E p \in Procs : Notify(p) \/ StartReconcile(p) \/ Lock(p)
  BY <1>2, EnvironmentKeepsInv
<1>3. ASSUME NEW p \in Procs, LockedStep(p)
      PROVE  (\A q \in Procs : StageInv(q)') /\ OrderInv'
  <2>1. StageInv(p)' /\ OrderInv'
    BY <1>3, LoadKeepsInv, ReportKeepsInv, ReturnKeepsInv, ApplyKeepsInv, SaveKeepsInv
       DEF LockedStep
  <2> QED
    BY <1>3, <2>1, LockedStepKeeps
<1>4. CASE UNCHANGED vars
  <2>1. OrderInv'
    BY <1>4, OrderFrame DEF vars, IInv
  <2> QED
    BY <1>4, <2>1 DEF vars, IInv, StageInv, HasRecord, Locked
<1> QED
  BY <1>1, <1>2, <1>3, <1>4 DEF Next

\* The inductive invariant holds in every behavior: who is past the lock holds the
\* mutex, and what a goroutine read is still true when it acts on it.
THEOREM InvariantHolds == Spec => []IInv
  BY IInvInit, IInvStep, PTL DEF Spec

-----------------------------------------------------------------------------
(* What follows                                                            *)

\* The checkpoint never names a configuration the device has not run.
THEOREM CheckpointIsJustified == Spec => []CheckpointWasApplied
<1>1. IInv => CheckpointWasApplied
  BY DEF IInv, OrderInv
<1> QED
  BY InvariantHolds, <1>1, PTL

\* No goroutine ever renders or applies what the checkpoint already names.
THEOREM CheckpointIsNotReapplied == Spec => []NoReapplyOfCheckpoint
<1>1. IInv => NoReapplyOfCheckpoint
  BY DEF IInv, StageInv, NoReapplyOfCheckpoint
<1> QED
  BY InvariantHolds, <1>1, PTL

\* What a step does to the device and the checkpoint: it commits a desired record
\* that is no older and not checkpointed, or checkpoints what the device runs, or
\* neither; it never does both.
LEMMA WorldStep ==
    ASSUME IInv, [Next]_vars
    PROVE  \/ UNCHANGED <<device, disk>>
           \/ /\ UNCHANGED <<puts, disk>>
              /\ device' \in puts /\ device'.rev >= device.rev
              /\ device'.uuid # disk.uuid
           \/ /\ UNCHANGED <<puts, device>>
              /\ device # NoEntry /\ disk' = NameOf(device)
<1> USE DEF IInv
<1>1. ASSUME NEW p \in Procs, pc[p] = "apply", device' = desired[p]
      PROVE  device' \in puts /\ device'.rev >= device.rev /\ device'.uuid # disk.uuid
  <2>1. HasRecord(p) /\ disk.uuid # desired[p].uuid
    BY <1>1 DEF StageInv
  <2>2. desired[p] \in puts /\ device.rev <= desired[p].rev
    BY <2>1 DEF HasRecord, OrderInv
  <2>3. device.rev \in Nat /\ desired[p].rev \in Nat
    BY <2>2 DEF TypeInv, TypeOK, Entry, NoEntry
  <2> QED
    BY <1>1, <2>1, <2>2, <2>3
<1>2. ASSUME NEW p \in Procs, pc[p] = "save", disk' = NextCheckpoint(p)
      PROVE  device # NoEntry /\ disk' = NameOf(device)
  <2>1. HasRecord(p) /\ device = desired[p]
    BY <1>2 DEF StageInv
  <2> QED
    BY <1>2, <2>1 DEF HasRecord, NameOf, NextCheckpoint
<1>3. CASE Crash
  <2>1. \A p, q \in Procs : ~(pc[p] = "apply" /\ pc[q] = "save")
    BY DEF MutexInv, Locked
  <2>2. UNCHANGED puts
    BY <1>3 DEF Crash, ForgetCalls
  <2>3. UNCHANGED disk \/ \E p \in Procs : pc[p] = "save" /\ disk' = NextCheckpoint(p)
    BY <1>3 DEF Crash, ForgetCalls
  <2>4. UNCHANGED device \/ \E p \in Procs : pc[p] = "apply" /\ device' = desired[p]
    BY <1>3 DEF Crash, ForgetCalls
  <2> QED
    BY <1>1, <1>2, <2>1, <2>2, <2>3, <2>4
<1>4. ASSUME NEW p \in Procs, Apply(p)
      PROVE  /\ UNCHANGED <<puts, disk>>
             /\ UNCHANGED device \/ (pc[p] = "apply" /\ device' = desired[p])
  BY <1>4 DEF Apply
<1>5. ASSUME NEW p \in Procs, Save(p)
      PROVE  /\ UNCHANGED <<puts, device>>
             /\ UNCHANGED disk \/ (pc[p] = "save" /\ disk' = NextCheckpoint(p))
  BY <1>5 DEF Save
<1>6. CASE \/ Put \/ Purge \/ UNCHANGED vars
           \/ \E p \in Procs :
                \/ Notify(p) \/ StartReconcile(p) \/ Lock(p)
                \/ LockedStep(p) /\ ~Apply(p) /\ ~Save(p)
  BY <1>6, LockShape DEF Put, Purge, vars, Notify, StartReconcile, LockedStep,
     PublishRunning, HandleLoadDesired, HandleLoadState, ReconcileLoadState,
     ReconcileLoadDesired, Render, InSyncStatus, InSyncResult, AppliedStatus,
     AppliedResult, FailStatus, FailResult, PublishDegraded, Return, world
<1> QED
  BY <1>1, <1>2, <1>3, <1>4, <1>5, <1>6 DEF Next

\* The device never goes back to an older desired configuration.
THEOREM DeviceNeverRollsBack == Spec => NoRollback
<1>1. IInv /\ [Next]_vars => [device'.rev >= device.rev]_vars
  <2> SUFFICES ASSUME IInv, [Next]_vars PROVE device'.rev >= device.rev
    OBVIOUS
  <2>1. device.rev \in Nat
    BY DEF IInv, TypeInv, TypeOK, Entry, NoEntry
  <2> QED
    BY <2>1, WorldStep
<1> QED
  BY InvariantHolds, <1>1, PTL DEF Spec, NoRollback

\* A write adds a newer record to the history; no other step changes it.
LEMMA DesireStep ==
    ASSUME IInv, [Next]_vars
    PROVE  UNCHANGED puts \/ Promise!Desire
<1> USE DEF IInv
<1>1. CASE Put
  <2>1. PICK e : e.rev = Cardinality(puts) + 1 /\ puts' = puts \cup {e}
    BY <1>1 DEF Put
  <2>2. Cardinality(puts) \in Nat
    BY FS_CardinalityType DEF TypeInv
  <2>3. \A f \in puts : f.rev < e.rev
    BY <2>1, <2>2 DEF HistoryInv
  <2>4. UNCHANGED <<device, disk>>
    BY <1>1 DEF Put
  <2> QED
    BY <2>1, <2>3, <2>4 DEF Promise!Desire
<1>2. CASE Purge \/ Crash \/ UNCHANGED vars
  BY <1>2 DEF Purge, Crash, ForgetCalls, vars
<1>3. ASSUME NEW p \in Procs, Notify(p) \/ StartReconcile(p) \/ Lock(p) \/ LockedStep(p)
      PROVE  UNCHANGED puts
  BY <1>3, LockShape, LockedStepShape DEF Notify, StartReconcile, world
<1> QED
  BY <1>1, <1>2, <1>3 DEF Next

\* The configure service implements DesiredSync, under identity on the history, the
\* device and the checkpoint.
THEOREM ServiceKeepsPromise == Spec => KeepsPromise
<1>1. Init => Promise!Init
  BY DEF Init, Promise!Init
<1>2. IInv /\ [Next]_vars => [Promise!Next]_(Promise!vars)
  <2> SUFFICES ASSUME IInv, [Next]_vars
               PROVE  Promise!Next \/ UNCHANGED Promise!vars
    OBVIOUS
  <2>1. CASE UNCHANGED <<device, disk>>
    BY <2>1, DesireStep DEF Promise!Next, Promise!vars
  <2>2. CASE /\ UNCHANGED <<puts, disk>>
             /\ device' \in puts /\ device'.rev >= device.rev /\ device'.uuid # disk.uuid
    BY <2>2 DEF Promise!Next, Promise!Commit
  <2>3. CASE UNCHANGED <<puts, device>> /\ device # NoEntry /\ disk' = NameOf(device)
    BY <2>3 DEF Promise!Next, Promise!Remember
  <2> QED
    BY <2>1, <2>2, <2>3, WorldStep
<1> QED
  BY InvariantHolds, <1>1, <1>2, PTL DEF Spec, KeepsPromise, Promise!Spec

-----------------------------------------------------------------------------
(* Success is true                                                         *)

\* A call that published a success is on one of the paths that end in its return,
\* and holds the record it reported, which the device runs and the checkpoint names.
ReportInv ==
    \A p \in Procs : sent[p] \cap SuccessMessages # {} =>
        /\ pc[p] \in {"in_sync_result", "applied_result", "fail_status", "fail_result", "return"}
        /\ HasRecord(p)
        /\ device = desired[p]
        /\ disk.uuid = desired[p].uuid

\* If UUIDs are never reused, a record whose UUID the checkpoint names, no older
\* than the one the device runs, is the one the device runs.
LEMMA InSyncIsTrue ==
    ASSUME FreshUUIDs, IInv, NEW p \in Procs,
           desired[p].uuid # Blank, disk.uuid = desired[p].uuid
    PROVE  device = desired[p]
<1> USE DEF IInv
<1>1. desired[p] \in puts /\ device.rev <= desired[p].rev
  BY DEF NoEntry, OrderInv
<1>2. disk # NoCheckpoint
  BY DEF NoCheckpoint
<1>3. PICK e \in puts : e.uuid = disk.uuid /\ e.rev <= device.rev
  BY <1>2 DEF OrderInv, CheckpointWasApplied
<1>4. e = desired[p]
  BY <1>1, <1>3 DEF HistoryInv
<1>5. /\ device.rev \in Nat /\ desired[p].rev \in Nat /\ desired[p].rev >= 1
      /\ device # NoEntry => device \in puts
  BY <1>1, FS_CardinalityType DEF TypeInv, TypeOK, Entry, NoEntry, HistoryInv, OrderInv
<1>6. device.rev = desired[p].rev
  BY <1>1, <1>3, <1>4, <1>5
<1>7. device \in puts
  BY <1>5, <1>6 DEF NoEntry
<1> QED
  BY <1>1, <1>6, <1>7 DEF HistoryInv

\* Every step keeps the truth of the successes published so far.
LEMMA ReportStep ==
    FreshUUIDs /\ IInv /\ ReportInv /\ [Next]_vars => ReportInv'
<1> SUFFICES ASSUME FreshUUIDs, IInv, ReportInv, [Next]_vars PROVE ReportInv'
  OBVIOUS
<1> USE DEF ReportInv
<1>1. CASE Put \/ Purge
  BY <1>1 DEF Put, Purge, locals, HasRecord
<1>2. CASE Crash
  BY <1>2 DEF Crash, ForgetCalls
<1>3. ASSUME NEW p \in Procs, Notify(p) \/ StartReconcile(p) \/ Lock(p) PROVE ReportInv'
  <2>1. ~Locked(p) /\ UNCHANGED <<device, disk, desired, sent>>
    BY <1>3, LockShape DEF Notify, StartReconcile, world, Locked, IInv
  <2>2. sent[p] = {}
    BY <2>1 DEF IInv, StageInv
  <2>3. \A q \in Procs \ {p} : pc'[q] = pc[q] /\ msg'[q] = msg[q]
    BY <1>3, LockShape DEF Notify, StartReconcile, Goto, IInv, TypeInv, TypeOK
  <2> QED
    BY <2>1, <2>2, <2>3 DEF HasRecord
<1>4. ASSUME NEW p \in Procs, LockedStep(p) PROVE ReportInv'
  <2>1. \A q \in Procs \ {p} : sent'[q] = {}
    BY <1>4, LockedStepShape DEF IInv, MutexInv, StageInv
  <2> SUFFICES ASSUME (sent[p] \cap SuccessMessages # {})'
               PROVE  /\ pc'[p] \in {"in_sync_result", "applied_result", "fail_status",
                                     "fail_result", "return"}
                      /\ HasRecord(p)' /\ (device = desired[p])'
                      /\ (disk.uuid = desired[p].uuid)'
    BY <2>1
  <2> USE DEF IInv, TypeInv, TypeOK
  <2>2. CASE InSyncStatus(p)
    <3>1. HasRecord(p) /\ disk.uuid = desired[p].uuid /\ device = desired[p]
      BY <2>2, InSyncIsTrue DEF InSyncStatus, StageInv
    <3> QED
      BY <2>2, <3>1 DEF InSyncStatus, Goto, Fail, world, HasRecord
  <2>3. CASE InSyncResult(p)
    <3>1. HasRecord(p) /\ disk.uuid = desired[p].uuid /\ device = desired[p]
      BY <2>3, InSyncIsTrue DEF InSyncResult, StageInv
    <3> QED
      BY <2>3, <3>1 DEF InSyncResult, Goto, Fail, world, HasRecord
  <2>4. CASE AppliedStatus(p) \/ AppliedResult(p)
    <3>1. HasRecord(p) /\ disk.uuid = desired[p].uuid /\ device = desired[p]
      BY <2>4 DEF AppliedStatus, AppliedResult, StageInv, NameOf
    <3> QED
      BY <2>4, <3>1 DEF AppliedStatus, AppliedStatusLost, AppliedResult, Goto, world, HasRecord
  <2>5. CASE FailStatus(p) \/ FailResult(p)
    <3>1. sent[p] \cap SuccessMessages # {}
      BY <2>5 DEF FailStatus, FailResult, Accepted, SuccessMessages
    <3> QED
      BY <2>5, <3>1 DEF FailStatus, FailResult, Goto, world, HasRecord
  <2>6. CASE PublishDegraded(p)
    <3>1. sent[p] \cap SuccessMessages = {} /\ pc[p] = "degraded"
      BY <2>6 DEF PublishDegraded
    <3> QED
      BY <2>6, <3>1 DEF PublishDegraded, Accepted, SuccessMessages
  <2>7. CASE Return(p)
    BY <2>7 DEF Return
  <2>8. CASE \/ PublishRunning(p) \/ HandleLoadDesired(p) \/ HandleLoadState(p)
             \/ ReconcileLoadState(p) \/ ReconcileLoadDesired(p)
             \/ Render(p) \/ Apply(p) \/ Save(p)
    <3>1. UNCHANGED sent
      BY <2>8 DEF PublishRunning, HandleLoadDesired, HandleLoadState, ReconcileLoadState,
         ReconcileLoadDesired, Render, Apply, Save, locals
    <3>2. pc[p] \notin {"in_sync_result", "applied_result", "fail_status", "fail_result", "return"}
      BY <2>8 DEF PublishRunning, RunningStages, HandleLoadDesired, HandleLoadState,
         ReconcileLoadState, ReconcileLoadDesired, Render, Apply, Save
    <3> QED
      BY <3>1, <3>2
  <2> QED
    BY <1>4, <2>2, <2>3, <2>4, <2>5, <2>6, <2>7, <2>8 DEF LockedStep
<1>5. CASE UNCHANGED vars
  BY <1>5 DEF vars, HasRecord
<1> QED
  BY <1>1, <1>2, <1>3, <1>4, <1>5 DEF Next

\* With UUIDs that are never reused, every success a call publishes is true: the
\* device runs exactly the record it names.
THEOREM SuccessIsAlwaysTrue == FreshUUIDs => (Spec => []SuccessIsTrue)
<1> SUFFICES ASSUME FreshUUIDs PROVE Spec => []SuccessIsTrue
  OBVIOUS
<1>1. Init => ReportInv
  BY DEF Init, ReportInv
<1>2. IInv /\ ReportInv /\ [Next]_vars => ReportInv'
  BY ReportStep
<1>3. ReportInv => SuccessIsTrue
  <2>1. \A p \in Procs : HasRecord(p) => desired[p].uuid = msg[p].uuid
    BY DEF HasRecord, NameOf
  <2> QED
    BY <2>1 DEF ReportInv, SuccessIsTrue
<1> QED
  BY InvariantHolds, <1>1, <1>2, <1>3, PTL DEF Spec

-----------------------------------------------------------------------------
(* What a system around the service relies on                              *)

\* The stages at which a call has loaded the record it works on.
RecordStages ==
    {"rendering", "render", "rendered", "applying", "apply", "save", "applied_status",
     "applied_result", "in_sync_status", "in_sync_result"}

\* Whatever becomes of the device and the checkpoint, records come from the history, and
\* a call has a failure code only while it reports the failure.
KnownInv ==
    /\ kv \in puts \cup {NoEntry}
    /\ \A p \in Procs :
          /\ desired[p] \in puts \cup {NoEntry}
          /\ pc[p] \in RecordStages => desired[p] # NoEntry
          /\ pc[p] = "load_state" /\ kind[p] = "handle" => desired[p] # NoEntry
          /\ code[p] # NoCode => pc[p] \in {"fail_status", "fail_result", "return"}

\* Every step keeps the records known.
LEMMA KnownStep == TypeInv /\ KnownInv /\ [Next]_vars => KnownInv'
<1> SUFFICES ASSUME TypeInv, KnownInv, [Next]_vars PROVE KnownInv'
  OBVIOUS
<1> USE DEF KnownInv, RecordStages
<1>1. CASE Put \/ Purge
  BY <1>1 DEF Put, Purge, locals
<1>2. CASE Crash
  BY <1>2 DEF Crash, ForgetCalls
<1>3. ASSUME NEW p \in Procs, Notify(p) \/ StartReconcile(p) PROVE KnownInv'
  BY <1>3 DEF Notify, StartReconcile, Goto, world, TypeInv, TypeOK
<1>4. ASSUME NEW p \in Procs, Lock(p) PROVE KnownInv'
  BY <1>4, LockShape DEF Locked
<1>5. ASSUME NEW p \in Procs, LockedStep(p) PROVE KnownInv'
  <2>1. /\ UNCHANGED <<kv, puts>>
        /\ \A q \in Procs \ {p} :
              /\ pc'[q] = pc[q] /\ kind'[q] = kind[q] /\ desired'[q] = desired[q]
              /\ code'[q] = code[q]
    BY <1>5, LockedStepShape
  <2> SUFFICES /\ desired'[p] \in puts \cup {NoEntry}
               /\ pc'[p] \in RecordStages => desired'[p] # NoEntry
               /\ pc'[p] = "load_state" /\ kind'[p] = "handle" => desired'[p] # NoEntry
               /\ code'[p] # NoCode => pc'[p] \in {"fail_status", "fail_result", "return"}
    BY <2>1
  <2> USE DEF TypeInv, TypeOK
  <2>2. CASE PublishRunning(p)
    BY <2>2 DEF PublishRunning, RunningStages, AfterRunning, Goto, Fail, locals
  <2>3. CASE HandleLoadDesired(p) \/ HandleLoadState(p)
    BY <2>3 DEF HandleLoadDesired, HandleLoadState, Goto, Fail
  <2>4. CASE ReconcileLoadState(p) \/ ReconcileLoadDesired(p)
    BY <2>4 DEF ReconcileLoadState, ReconcileLoadDesired, Goto
  <2>5. CASE Render(p) \/ Apply(p) \/ Save(p)
    BY <2>5 DEF Render, Apply, Save, Goto, Fail, locals
  <2>6. CASE InSyncStatus(p) \/ InSyncResult(p)
    BY <2>6 DEF InSyncStatus, InSyncResult, Goto, Fail
  <2>7. CASE AppliedStatus(p) \/ AppliedResult(p)
    BY <2>7 DEF AppliedStatus, AppliedStatusLost, AppliedResult, Goto
  <2>8. CASE FailStatus(p) \/ FailResult(p) \/ PublishDegraded(p)
    BY <2>8 DEF FailStatus, FailResult, PublishDegraded, Goto
  <2>9. CASE Return(p)
    BY <2>9 DEF Return
  <2> QED
    BY <1>5, <2>2, <2>3, <2>4, <2>5, <2>6, <2>7, <2>8, <2>9 DEF LockedStep
<1>6. CASE UNCHANGED vars
  BY <1>6 DEF vars
<1> QED
  BY <1>1, <1>2, <1>3, <1>4, <1>5, <1>6 DEF Next

\* Where a step past the lock may lead: only an apply touches the device, only a save
\* the checkpoint, a save follows a commit, only two steps publish a success result, and
\* Handle works on the notification it was called with until it has loaded the record.
LEMMA LockedStepOrder ==
    ASSUME TypeInv, NEW p \in Procs, LockedStep(p)
    PROVE  /\ UNCHANGED device \/ (pc[p] = "apply" /\ device' = desired[p])
           /\ UNCHANGED disk \/ (pc[p] = "save" /\ disk' = NextCheckpoint(p))
           /\ pc'[p] = "save" =>
                 pc[p] = "apply" /\ device' = desired[p] /\ UNCHANGED desired
           /\ pc'[p] \in {"applied_status", "applied_result"} =>
                 pc[p] \in {"save", "applied_status"} /\ UNCHANGED desired
           /\ "success_result" \in sent'[p] \ sent[p] =>
                 pc[p] \in {"in_sync_result", "applied_result"}
           /\ /\ kind'[p] = "handle"
              /\ pc'[p] \in {"lock", "received", "loading_desired", "load_desired"}
              => /\ kind[p] = "handle" /\ pc[p] \in {"received", "loading_desired"}
                 /\ msg'[p] = msg[p]
<1> USE DEF TypeInv, TypeOK
<1>1. CASE PublishRunning(p)
  BY <1>1, FaultTypes DEF PublishRunning, RunningStages, AfterRunning, Goto, Fail, world, locals
<1>2. CASE HandleLoadDesired(p) \/ HandleLoadState(p)
  BY <1>2 DEF HandleLoadDesired, HandleLoadState, Goto, Fail, world
<1>3. CASE ReconcileLoadState(p) \/ ReconcileLoadDesired(p)
  BY <1>3 DEF ReconcileLoadState, ReconcileLoadDesired, Goto, world
<1>4. CASE Render(p)
  BY <1>4 DEF Render, Goto, Fail, world, locals
<1>5. CASE Apply(p)
  BY <1>5 DEF Apply, Goto, Fail
<1>6. CASE Save(p)
  BY <1>6 DEF Save, Goto, Fail
<1>7. CASE InSyncStatus(p)
  BY <1>7 DEF InSyncStatus, Accepted, Goto, Fail, world
<1>8. CASE InSyncResult(p)
  BY <1>8 DEF InSyncResult, Goto, Fail, world
<1>9. CASE AppliedStatus(p)
  BY <1>9 DEF AppliedStatus, AppliedStatusLost, Accepted, Goto, world
<1>10. CASE AppliedResult(p)
  BY <1>10 DEF AppliedResult, Goto, world
<1>11. CASE FailStatus(p) \/ FailResult(p)
  BY <1>11 DEF FailStatus, FailResult, Accepted, Goto, world
<1>12. CASE PublishDegraded(p)
  BY <1>12 DEF PublishDegraded, Accepted, Goto, world
<1>13. CASE Return(p)
  BY <1>13 DEF Return, world
<1> QED
  BY <1>1, <1>2, <1>3, <1>4, <1>5, <1>6, <1>7, <1>8, <1>9, <1>10, <1>11, <1>12,
     <1>13 DEF LockedStep

\* The stage of a call on its way to its checkpoint tells which step comes next.
LEMMA StageActions ==
    ASSUME NEW p \in Procs, LockedStep(p)
    PROVE  /\ pc[p] \in RunningStages => PublishRunning(p)
           /\ pc[p] = "load_desired" /\ kind[p] = "handle" => HandleLoadDesired(p)
           /\ pc[p] = "load_state" /\ kind[p] = "handle" => HandleLoadState(p)
           /\ pc[p] = "load_state" /\ kind[p] = "reconcile" => ReconcileLoadState(p)
           /\ pc[p] = "load_desired" /\ kind[p] = "reconcile" => ReconcileLoadDesired(p)
           /\ pc[p] = "render" => Render(p)
           /\ pc[p] = "apply" => Apply(p)
           /\ pc[p] = "save" => Save(p)
           /\ pc[p] = "applied_status" => AppliedStatus(p)
           /\ pc[p] = "applied_result" => AppliedResult(p)
  BY DEF LockedStep, RunningStages, PublishRunning, HandleLoadDesired, HandleLoadState,
     ReconcileLoadState, ReconcileLoadDesired, Render, Apply, Save, InSyncStatus, InSyncResult,
     AppliedStatus, AppliedResult, FailStatus, FailResult, PublishDegraded, Return

-----------------------------------------------------------------------------
(* Calls come to their end                                                 *)

\* How many steps a call may still take; Handle and Reconcile load in another order.
StepsLeft(stage, k) ==
    CASE stage = "lock" -> 16
      [] stage = "received" -> 15
      [] stage = "loading_desired" -> 14
      [] stage = "load_desired" -> IF k = "handle" THEN 13 ELSE 12
      [] stage = "load_state" -> IF k = "handle" THEN 12 ELSE 13
      [] stage = "rendering" -> 11
      [] stage = "render" -> 10
      [] stage = "rendered" -> 9
      [] stage = "applying" -> 8
      [] stage = "apply" -> 7
      [] stage = "save" -> 6
      [] stage \in {"applied_status", "in_sync_status"} -> 5
      [] stage \in {"applied_result", "in_sync_result"} -> 4
      [] stage = "fail_status" -> 3
      [] stage \in {"fail_result", "degraded"} -> 2
      [] stage = "return" -> 1
      [] OTHER -> 0

CallLeft(p) == StepsLeft(pc[p], kind[p])

\* Every step of a call, on whatever path, brings it nearer to its return and leaves the
\* other calls where they are.
LEMMA CallAdvances ==
    ASSUME TypeInv, NEW p \in Procs, Lock(p) \/ LockedStep(p)
    PROVE  /\ CallLeft(p)' < CallLeft(p)
           /\ \A q \in Procs \ {p} : CallLeft(q)' = CallLeft(q)
<1>1. \A q \in Procs \ {p} : CallLeft(q)' = CallLeft(q)
  BY LockShape, LockedStepShape DEF CallLeft
<1>2. CallLeft(p)' < CallLeft(p)
  <2> USE DEF TypeInv, TypeOK, CallLeft, StepsLeft
  <2>1. CASE Lock(p)
    BY <2>1 DEF Lock, LockHandle, LockReconcile, Goto, Fail, locals
  <2>2. CASE PublishRunning(p)
    BY <2>2 DEF PublishRunning, RunningStages, AfterRunning, Goto, Fail, locals
  <2>3. CASE HandleLoadDesired(p)
    BY <2>3 DEF HandleLoadDesired, Goto, Fail
  <2>4. CASE HandleLoadState(p)
    BY <2>4 DEF HandleLoadState, Goto, Fail
  <2>5. CASE ReconcileLoadState(p)
    BY <2>5 DEF ReconcileLoadState, Goto
  <2>6. CASE ReconcileLoadDesired(p)
    BY <2>6 DEF ReconcileLoadDesired, Goto
  <2>7. CASE Render(p)
    BY <2>7 DEF Render, Goto, Fail, locals
  <2>8. CASE Apply(p)
    BY <2>8 DEF Apply, Goto, Fail
  <2>9. CASE Save(p)
    BY <2>9 DEF Save, Goto, Fail
  <2>10. CASE InSyncStatus(p) \/ InSyncResult(p)
    BY <2>10 DEF InSyncStatus, InSyncResult, Goto, Fail
  <2>11. CASE AppliedStatus(p) \/ AppliedResult(p)
    BY <2>11 DEF AppliedStatus, AppliedStatusLost, AppliedResult, Goto
  <2>12. CASE FailStatus(p) \/ FailResult(p) \/ PublishDegraded(p)
    BY <2>12 DEF FailStatus, FailResult, PublishDegraded, Goto
  <2>13. CASE Return(p)
    BY <2>13 DEF Return
  <2> QED
    BY <2>1, <2>2, <2>3, <2>4, <2>5, <2>6, <2>7, <2>8, <2>9, <2>10, <2>11, <2>12, <2>13
       DEF LockedStep
<1> QED
  BY <1>1, <1>2

=============================================================================
