-------------------------- MODULE AgentSystemProofs --------------------------
(***************************************************************************)
(* Proofs about AgentSystem, for any number of reconnect passes, writes,   *)
(* faults and outages.  What the configure service keeps by itself is      *)
(* taken from ConfigureServiceProofs; what is new is that drops, process   *)
(* crashes and reboots keep it too, the boot configuration's part, that    *)
(* the whole path implements DurableSync, and that a written configuration *)
(* stays on its way to the device, and a write to its answer, with a step  *)
(* to take at every moment.                                                *)
(***************************************************************************)
EXTENDS AgentSystem, SequenceTheorems, TLAPS

CSP == INSTANCE ConfigureServiceProofs WITH
    EntryTargets <- {Target}, EntryUUIDs <- Range(UUIDs),
    RealMode <- TRUE, FreshUUIDs <- TRUE

-----------------------------------------------------------------------------
(* The inductive invariant                                                 *)

\* The types of what surrounds the service.
AroundInv ==
    /\ agent \in {"down", "subscribed", "up"}
    /\ linked \in BOOLEAN
    /\ unsent \subseteq puts
    /\ bus \in Seq(CS!Notification)
    /\ boot \in puts \cup {CS!NoEntry}
    /\ answered \subseteq puts
    /\ setup \in Setups
    /\ faults \in 0 .. MaxFaults
    /\ outages \in 0 .. MaxOutages[setup]

\* With save_after_commit the machine boots with a configuration that justifies the
\* checkpoint and every answer: an apply has saved it before the checkpoint is.
BootInv ==
    /\ boot.rev <= device.rev
    /\ disk # CSP!NoCheckpoint =>
          \E e \in puts : /\ e.target = disk.target /\ e.uuid = disk.uuid
                          /\ e.rev <= boot.rev
    /\ \A p \in Procs :
          pc[p] \in {"save", "applied_status", "applied_result"} => boot = desired[p]
    /\ \A e \in answered : e.rev <= boot.rev

\* A reboot that keeps the checkpoint finds what the checkpoint names in the boot
\* configuration.
Safe == setup.persistent => setup.save
SafeSetups == \A s \in Setups : s.persistent => s.save

IInv ==
    /\ CSP!TypeInv
    /\ CSP!KnownInv
    /\ AroundInv
    /\ Safe => CSP!IInv
    /\ setup.save => BootInv

-----------------------------------------------------------------------------
(* The service's steps are those ConfigureServiceProofs is about           *)

\* The instance's assumptions on the constants.
LEMMA ServiceConstants ==
    /\ NoProc \notin Procs
    /\ Target \in {Target} /\ Target # Blank
    /\ MaxPuts \in Nat
  BY ProcsAssumption, TargetAssumption, UUIDsAssumption DEF Procs, MaxPuts

\* A locked step of the model is one of the service the proofs are about.
LEMMA SameLockedStep == \A p \in Procs : CS!LockedStep(p) => CSP!LockedStep(p)
<1> SUFFICES ASSUME NEW p \in Procs, CS!LockedStep(p) PROVE CSP!LockedStep(p)
  OBVIOUS
<1> USE DEF CS!Goto, CSP!Goto, CS!Fail, CSP!Fail, CS!Accepted, CSP!Accepted, CS!world,
            CSP!world, CS!locals, CSP!locals, CS!NoCode, CSP!NoCode, CS!NoEntry, CSP!NoEntry
<1>1. CS!PublishRunning(p) => CSP!PublishRunning(p)
  BY DEF CS!PublishRunning, CSP!PublishRunning, CS!AfterRunning, CSP!AfterRunning,
     CS!RunningStages, CSP!RunningStages
<1>2. CS!HandleLoadDesired(p) => CSP!HandleLoadDesired(p)
  BY DEF CS!HandleLoadDesired, CSP!HandleLoadDesired, CS!DesiredFault, CSP!DesiredFault
<1>3. CS!HandleLoadState(p) => CSP!HandleLoadState(p)
  BY DEF CS!HandleLoadState, CSP!HandleLoadState, CS!InSync, CSP!InSync
<1>4. CS!ReconcileLoadState(p) => CSP!ReconcileLoadState(p)
  BY DEF CS!ReconcileLoadState, CSP!ReconcileLoadState
<1>5. CS!ReconcileLoadDesired(p) => CSP!ReconcileLoadDesired(p)
  BY DEF CS!ReconcileLoadDesired, CSP!ReconcileLoadDesired, CS!InSync, CSP!InSync
<1>6. CS!Render(p) => CSP!Render(p)
  BY DEF CS!Render, CSP!Render, CS!Renderable, CSP!Renderable
<1>7. CS!Apply(p) => CSP!Apply(p)
  BY DEF CS!Apply, CSP!Apply
<1>8. CS!Save(p) => CSP!Save(p)
  BY DEF CS!Save, CSP!Save, CS!NextCheckpoint, CSP!NextCheckpoint
<1>9. CS!InSyncStatus(p) => CSP!InSyncStatus(p)
  BY DEF CS!InSyncStatus, CSP!InSyncStatus
<1>10. CS!InSyncResult(p) => CSP!InSyncResult(p)
  BY DEF CS!InSyncResult, CSP!InSyncResult
<1>11. CS!AppliedStatus(p) => CSP!AppliedStatus(p)
  BY DEF CS!AppliedStatus, CSP!AppliedStatus, CS!AppliedStatusLost,
     CSP!AppliedStatusLost
<1>12. CS!AppliedResult(p) => CSP!AppliedResult(p)
  BY DEF CS!AppliedResult, CSP!AppliedResult
<1>13. CS!FailStatus(p) => CSP!FailStatus(p)
  BY DEF CS!FailStatus, CSP!FailStatus
<1>14. CS!FailResult(p) => CSP!FailResult(p)
  BY DEF CS!FailResult, CSP!FailResult
<1>15. CS!PublishDegraded(p) => CSP!PublishDegraded(p)
  BY DEF CS!PublishDegraded, CSP!PublishDegraded
<1>16. CS!Return(p) => CSP!Return(p)
  BY DEF CS!Return, CSP!Return, CS!NoMessage, CSP!NoMessage
<1> QED
  BY <1>1, <1>2, <1>3, <1>4, <1>5, <1>6, <1>7, <1>8, <1>9, <1>10, <1>11, <1>12, <1>13,
     <1>14, <1>15, <1>16 DEF CS!LockedStep, CSP!LockedStep

\* So are the lock and what the environment does to the service.
LEMMA SameEnvironment ==
    /\ \A p \in Procs : CS!Lock(p) => CSP!Lock(p)
    /\ \A p \in Procs : CS!Notify(p) => CSP!Notify(p)
    /\ \A p \in Procs : CS!StartReconcile(p) => CSP!StartReconcile(p)
    /\ CS!Put => CSP!Put
    /\ CS!Crash => CSP!Crash
<1> USE DEF CS!Goto, CSP!Goto, CS!Fail, CSP!Fail, CS!Accepted, CSP!Accepted, CS!world,
            CSP!world, CS!locals, CSP!locals, CS!NoCode, CSP!NoCode, CS!NoEntry, CSP!NoEntry
<1>1. \A p \in Procs : CS!Lock(p) => CSP!Lock(p)
  BY DEF CS!Lock, CSP!Lock, CS!LockHandle, CSP!LockHandle, CS!LockIsFree,
     CSP!LockIsFree, CS!LockReconcile, CSP!LockReconcile, CS!NotificationFault,
     CSP!NotificationFault
<1>2. \A p \in Procs : CS!Notify(p) => CSP!Notify(p)
  BY DEF CS!Notify, CSP!Notify, CS!Notification, CSP!Notification
<1>3. \A p \in Procs : CS!StartReconcile(p) => CSP!StartReconcile(p)
  BY DEF CS!StartReconcile, CSP!StartReconcile
<1>4. CS!Put => CSP!Put
  BY DEF CS!Put, CSP!Put, CS!Cardinality, CSP!Cardinality
<1>5. CS!Crash => CSP!Crash
  BY DEF CS!Crash, CSP!Crash, CS!ForgetCalls, CSP!ForgetCalls, CS!NextCheckpoint,
     CSP!NextCheckpoint, CS!NoMessage, CSP!NoMessage
<1> QED
  BY <1>1, <1>2, <1>3, <1>4, <1>5

\* A service step of an agent, as the lemmas about the service see it.
LEMMA SameServiceStep ==
    ASSUME NEW p \in Procs, ServiceStep(p)
    PROVE  CSP!Lock(p) \/ CSP!LockedStep(p)
  BY SameLockedStep, SameEnvironment DEF ServiceStep, Steps

\* Every step of the system but a reboot is a step of the service or none.
LEMMA ServiceView == Next => [CSP!Next]_(CSP!vars) \/ Reboot
<1> SUFFICES ASSUME Next, ~Reboot PROVE CSP!Next \/ UNCHANGED CSP!vars
  OBVIOUS
<1>1. CASE Write
  BY <1>1, SameEnvironment DEF Write, CSP!Next
<1>2. CASE Publish \/ StartClient \/ Drop
  BY <1>2 DEF Publish, StartClient, Drop, service, CSP!vars
<1>3. CASE Deliver
  BY <1>3, SameEnvironment DEF Deliver, Procs, CSP!Next
<1>4. CASE FinishStart
  BY <1>4, SameEnvironment DEF FinishStart, StartupReconcile, Procs, CSP!Next
<1>5. CASE Reconnect
  BY <1>5, SameEnvironment DEF Reconnect, ReconnectPass, Procs, CSP!Next, service, CSP!vars
<1>6. ASSUME NEW p \in Procs, ServiceStep(p) PROVE CSP!Next
  BY <1>6, SameServiceStep DEF CSP!Next
<1>7. CASE ProcessCrash
  BY <1>7, SameEnvironment DEF ProcessCrash, CSP!Next, service, CSP!vars
<1> QED
  BY <1>1, <1>2, <1>3, <1>4, <1>5, <1>6, <1>7 DEF Next

-----------------------------------------------------------------------------
(* The types, and the invariant around the service                         *)

\* The inductive invariant holds initially.
LEMMA IInvInit == Init => IInv
<1> SUFFICES ASSUME Init PROVE IInv
  OBVIOUS
<1>1. CSP!Init
  BY DEF Init, CS!Init, CSP!Init, CS!NoEntry, CSP!NoEntry, CS!NoCheckpoint,
     CSP!NoCheckpoint, CS!NoMessage, CSP!NoMessage, CS!NoCode, CSP!NoCode
<1>2. CSP!TypeInv /\ CSP!IInv
  BY <1>1, ServiceConstants, CSP!TypeInit, CSP!IInvInit
<1>3. CSP!KnownInv
  BY <1>1 DEF CSP!Init, CSP!KnownInv, CSP!RecordStages
<1>4. AroundInv
  BY DEF Init, AroundInv
<1>5. BootInv
  BY <1>1 DEF Init, CSP!Init, BootInv, CS!NoEntry, CSP!NoEntry
<1> QED
  BY <1>2, <1>3, <1>4, <1>5 DEF IInv

\* Every step keeps the service's types and its records known.
LEMMA ServiceTypesStep ==
    CSP!TypeInv /\ CSP!KnownInv /\ AroundInv /\ Next => CSP!TypeInv' /\ CSP!KnownInv'
<1> SUFFICES ASSUME CSP!TypeInv, CSP!KnownInv, AroundInv, Next
             PROVE  CSP!TypeInv' /\ CSP!KnownInv'
  OBVIOUS
<1>1. CASE [CSP!Next]_(CSP!vars)
  BY <1>1, ServiceConstants, CSP!TypeStep, CSP!KnownStep
<1>2. CASE Reboot
  <2>1. device' \in CSP!Entry \cup {CSP!NoEntry}
    BY <1>2 DEF Reboot, AroundInv, CSP!TypeInv, CSP!TypeOK, CS!NoEntry, CSP!NoEntry
  <2>2. disk' \in CSP!Checkpoint
    BY <1>2 DEF Reboot, DiskAfterReboot, CSP!TypeInv, CSP!TypeOK, CSP!Checkpoint,
       CS!NoCheckpoint
  <2>3. UNCHANGED <<kv, puts>> /\ CSP!ForgetCalls
    BY <1>2 DEF Reboot, CS!ForgetCalls, CSP!ForgetCalls, CS!NoEntry, CSP!NoEntry,
       CS!NoMessage, CSP!NoMessage, CS!NoCode, CSP!NoCode
  <2>4. CSP!TypeInv'
    BY <2>1, <2>2, <2>3 DEF CSP!TypeInv, CSP!TypeOK, CSP!ForgetCalls, CSP!PCs,
       CSP!Message, CSP!NoMessage
  <2>5. CSP!KnownInv'
    BY <2>3 DEF CSP!KnownInv, CSP!RecordStages, CSP!ForgetCalls
  <2> QED
    BY <2>4, <2>5
<1> QED
  BY <1>1, <1>2, ServiceView

\* What a service step answers is a record, and so is what it saves for the boot.
LEMMA ServiceStepRecords ==
    ASSUME CSP!TypeInv, CSP!KnownInv, AroundInv, NEW p \in Procs, ServiceStep(p)
    PROVE  /\ UNCHANGED puts
           /\ boot' \in puts \cup {CS!NoEntry}
           /\ answered' \subseteq puts
<1>1. UNCHANGED puts
  <2>1. CSP!Lock(p) => UNCHANGED puts
    BY ServiceConstants, CSP!LockShape
  <2>2. CSP!LockedStep(p) => UNCHANGED puts
    BY ServiceConstants, CSP!LockedStepShape
  <2> QED
    BY <2>1, <2>2, SameServiceStep
<1>2. desired[p] \in puts \cup {CS!NoEntry}
  BY DEF CSP!KnownInv, CS!NoEntry, CSP!NoEntry
<1>3. boot' \in puts \cup {CS!NoEntry}
  BY <1>2 DEF ServiceStep, BootAfterStep, AroundInv
<1>4. "success_result" \in sent'[p] \ sent[p] => desired[p] \in puts
  <2>1. CASE CSP!Lock(p)
    <3>1. UNCHANGED sent
      BY <2>1, ServiceConstants, CSP!LockShape
    <3> QED
      BY <3>1
  <2>2. CASE CSP!LockedStep(p)
    <3>1. "success_result" \in sent'[p] \ sent[p] =>
              pc[p] \in {"in_sync_result", "applied_result"}
      BY <2>2, ServiceConstants, CSP!LockedStepOrder
    <3> QED
      BY <3>1 DEF CSP!KnownInv, CSP!RecordStages
  <2> QED
    BY <2>1, <2>2, SameServiceStep
<1>5. answered' \subseteq puts
  BY <1>4 DEF ServiceStep, AnsweredAfterStep, AroundInv
<1> QED
  BY <1>1, <1>3, <1>5

\* Every step keeps the types of what surrounds the service.
LEMMA AroundStep ==
    CSP!TypeInv /\ CSP!KnownInv /\ AroundInv /\ Next => AroundInv'
<1> SUFFICES ASSUME CSP!TypeInv, CSP!KnownInv, AroundInv, Next PROVE AroundInv'
  OBVIOUS
<1> USE DEF AroundInv
<1>0. MaxFaults \in Nat /\ MaxOutages[setup] \in Nat
  BY BoundsAssumption
<1>1. CASE Write
  <2>1. UNCHANGED <<agent, linked, bus, boot, answered, setup, faults, outages>>
    BY <1>1 DEF Write
  <2>2. puts' = puts \cup {kv'}
    BY <1>1 DEF Write, CS!Put
  <2> QED
    BY <1>1, <2>1, <2>2 DEF Write
<1>2. CASE Publish
  <2>1. PICK e \in unsent :
            /\ unsent' = unsent \ {e}
            /\ bus' = IF linked /\ agent # "down" THEN Append(bus, NotificationOf(e)) ELSE bus
    BY <1>2 DEF Publish
  <2>2. e \in CSP!Entry
    BY DEF CSP!TypeInv, CSP!TypeOK
  <2>3. NotificationOf(e) \in CS!Notification
    BY <2>2 DEF NotificationOf, CSP!Entry, CS!Notification
  <2> QED
    BY <1>2, <2>1, <2>3 DEF Publish, service
<1>3. CASE Deliver
  <2>1. UNCHANGED puts
    BY <1>3 DEF Deliver, CS!Notify, CS!world
  <2> QED
    BY <1>3, <2>1 DEF Deliver
<1>4. CASE StartClient
  BY <1>4 DEF StartClient, service
<1>5. CASE FinishStart
  BY <1>5 DEF FinishStart, StartupReconcile, CS!StartReconcile, CS!world
<1>6. CASE Reconnect
  BY <1>6 DEF Reconnect, ReconnectPass, CS!StartReconcile, CS!world, service
<1>7. ASSUME NEW p \in Procs, ServiceStep(p) PROVE AroundInv'
  <2>1. UNCHANGED <<agent, linked, unsent, bus, setup, outages>>
    BY <1>7 DEF ServiceStep
  <2>2. faults' \in 0 .. MaxFaults
    BY <1>0, <1>7 DEF ServiceStep
  <2> QED
    BY <1>7, <2>1, <2>2, ServiceStepRecords
<1>8. CASE Drop
  <2>1. outages' \in 0 .. MaxOutages[setup] /\ linked' = FALSE
    BY <1>0, <1>8 DEF Drop, Outage
  <2>2. PICK n \in 0 .. Len(bus) : bus' = SubSeq(bus, 1, n)
    BY <1>8 DEF Drop
  <2>3. bus' \in Seq(CS!Notification)
    BY <2>2
  <2> QED
    BY <1>8, <2>1, <2>3 DEF Drop, service
<1>9. CASE ProcessCrash
  <2>1. UNCHANGED puts
    BY <1>9 DEF ProcessCrash, CS!Crash, service
  <2>2. boot' \in puts \cup {CS!NoEntry}
    BY <1>9 DEF ProcessCrash, BootAfterCrash, CSP!KnownInv, CS!NoEntry, CSP!NoEntry
  <2>3. outages' \in 0 .. MaxOutages[setup]
    BY <1>0, <1>9 DEF ProcessCrash, Outage
  <2> QED
    BY <1>9, <2>1, <2>2, <2>3 DEF ProcessCrash
<1>10. CASE Reboot
  <2>1. outages' \in 0 .. MaxOutages[setup]
    BY <1>0, <1>10 DEF Reboot, Outage
  <2> QED
    BY <1>10, <2>1 DEF Reboot
<1> QED
  BY <1>1, <1>2, <1>3, <1>4, <1>5, <1>6, <1>7, <1>8, <1>9, <1>10 DEF Next

-----------------------------------------------------------------------------
(* The service's invariant outlives a reboot                               *)

\* No step changes the agent's configuration.
LEMMA SetupIsFixed == Next => UNCHANGED setup
  BY DEF Next, Write, Publish, Deliver, StartClient, FinishStart, Reconnect,
     ServiceStep, Drop, ProcessCrash, Reboot

\* A safe setup keeps the configure service's inductive invariant through every step:
\* what a reboot leaves of the checkpoint names a record the machine booted with.
LEMMA ServiceInvStep == IInv /\ CSP!TypeInv' /\ Safe /\ Next => CSP!IInv'
<1> SUFFICES ASSUME IInv, CSP!TypeInv', Safe, Next PROVE CSP!IInv'
  OBVIOUS
<1>1. CSP!IInv
  BY DEF IInv
<1>2. CASE [CSP!Next]_(CSP!vars)
  BY <1>1, <1>2, ServiceConstants, CSP!IInvStep
<1>3. CASE Reboot
  <2>1. /\ UNCHANGED <<kv, puts>> /\ device' = boot
        /\ \A p \in Procs : pc'[p] = "idle" /\ desired'[p] = CSP!NoEntry /\ sent'[p] = {}
    BY <1>3 DEF Reboot, CS!ForgetCalls, CS!NoEntry, CSP!NoEntry
  <2>2. CSP!MutexInv' /\ (\A p \in Procs : CSP!StageInv(p)')
    BY <2>1 DEF CSP!MutexInv, CSP!StageInv, CSP!Locked
  <2>3. CSP!HistoryInv'
    <3>1. CSP!HistoryInv
      BY <1>1 DEF CSP!IInv
    <3> QED
      BY <2>1, <3>1 DEF CSP!HistoryInv, CSP!NoEntry
  <2>4. CSP!CheckpointWasApplied'
    <3>1. CASE setup.persistent
      <4>1. BootInv /\ UNCHANGED disk
        BY <1>3, <3>1 DEF Safe, IInv, Reboot, DiskAfterReboot
      <4> QED
        BY <2>1, <4>1 DEF BootInv, CSP!CheckpointWasApplied, CSP!NoCheckpoint
    <3>2. CASE ~setup.persistent
      BY <1>3, <3>2 DEF Reboot, DiskAfterReboot, CSP!CheckpointWasApplied,
         CS!NoCheckpoint, CSP!NoCheckpoint
    <3> QED
      BY <3>1, <3>2
  <2>5. CSP!OrderInv'
    BY <2>1, <2>4 DEF IInv, AroundInv, CSP!OrderInv, CS!NoEntry, CSP!NoEntry
  <2> QED
    BY <2>2, <2>3, <2>5 DEF CSP!IInv
<1> QED
  BY <1>2, <1>3, ServiceView

-----------------------------------------------------------------------------
(* The boot configuration                                                  *)

\* Revisions are numbers, and those a goroutine or the machine holds are ordered.
LEMMA Revisions ==
    ASSUME CSP!IInv, AroundInv
    PROVE  /\ device.rev \in Nat /\ boot.rev \in Nat
           /\ \A e \in puts : e.rev \in Nat
           /\ \A p \in Procs : desired[p].rev \in Nat
           /\ \A p \in Procs : desired[p] # CSP!NoEntry =>
                 desired[p] \in puts /\ device.rev <= desired[p].rev
<1>1. CSP!TypeOK /\ CSP!OrderInv
  BY DEF CSP!IInv, CSP!TypeInv
<1> QED
  BY <1>1 DEF CSP!TypeOK, CSP!OrderInv, CSP!Entry, CSP!NoEntry, CS!NoEntry, AroundInv

\* Where the machine, the checkpoint and the answers stay as they are, the boot
\* configuration stays right.
LEMMA BootFrame ==
    ASSUME BootInv, puts \subseteq puts', UNCHANGED <<boot, device, disk, answered>>,
           \A p \in Procs :
               pc'[p] \in {"save", "applied_status", "applied_result"} =>
                   pc'[p] = pc[p] /\ desired'[p] = desired[p]
    PROVE  BootInv'
  BY DEF BootInv, CSP!NoCheckpoint

\* A locked step that is no apply and no save leaves the boot configuration as it is, and
\* answers only for a record the machine boots with.
LEMMA OtherStepKeepsBoot ==
    ASSUME CSP!IInv, AroundInv, BootInv, setup.save,
           NEW p \in Procs, ServiceStep(p), CSP!LockedStep(p), pc[p] \notin {"apply", "save"}
    PROVE  BootInv'
<1>1. CSP!TypeInv
  BY DEF CSP!IInv
<1>2. UNCHANGED <<puts, device, disk, boot>>
  BY <1>1, ServiceConstants, CSP!LockedStepOrder, CSP!LockedStepShape
     DEF ServiceStep, BootAfterStep
<1>3. \A q \in Procs :
          pc'[q] \in {"save", "applied_status", "applied_result"} => boot = desired'[q]
  <2>1. \A q \in Procs \ {p} : pc'[q] = pc[q] /\ desired'[q] = desired[q]
    BY <1>1, ServiceConstants, CSP!LockedStepShape
  <2>2. pc'[p] \in {"save", "applied_status", "applied_result"} =>
            pc[p] = "applied_status" /\ desired'[p] = desired[p]
    BY <1>1, ServiceConstants, CSP!LockedStepOrder
  <2> QED
    BY <2>1, <2>2 DEF BootInv
<1>4. "success_result" \in sent'[p] \ sent[p] => desired[p].rev <= boot.rev
  <2> SUFFICES ASSUME "success_result" \in sent'[p] \ sent[p]
               PROVE  desired[p].rev <= boot.rev
    OBVIOUS
  <2>1. pc[p] \in {"in_sync_result", "applied_result"}
    BY <1>1, ServiceConstants, CSP!LockedStepOrder
  <2>2. CASE pc[p] = "applied_result"
    BY <2>2, Revisions DEF BootInv
  <2>3. CASE pc[p] = "in_sync_result"
    <3>1. /\ desired[p] # CSP!NoEntry /\ desired[p].uuid # Blank
          /\ disk.uuid = desired[p].uuid
      BY <2>3 DEF CSP!IInv, CSP!StageInv, CSP!HasRecord
    <3>2. disk # CSP!NoCheckpoint
      BY <3>1 DEF CSP!NoCheckpoint
    <3>3. PICK e \in puts : e.uuid = disk.uuid /\ e.rev <= boot.rev
      BY <3>2 DEF BootInv
    <3>4. e = desired[p]
      BY <3>1, <3>3, Revisions DEF CSP!IInv, CSP!HistoryInv
    <3> QED
      BY <3>3, <3>4
  <2> QED
    BY <2>1, <2>2, <2>3
<1>5. \A e \in answered' : e.rev <= boot.rev
  BY <1>4 DEF BootInv, ServiceStep, AnsweredAfterStep
<1> QED
  BY <1>2, <1>3, <1>5 DEF BootInv, CSP!NoCheckpoint

\* An apply that succeeds has saved what it committed; one that fails saved that or
\* nothing.
LEMMA ApplyKeepsBoot ==
    ASSUME CSP!IInv, AroundInv, BootInv, setup.save,
           NEW p \in Procs, ServiceStep(p), CSP!LockedStep(p), pc[p] = "apply"
    PROVE  BootInv'
<1>1. CSP!TypeInv
  BY DEF CSP!IInv
<1>2. /\ UNCHANGED <<puts, disk>> /\ device' \in {device, desired[p]}
      /\ pc'[p] = "save" => device' = desired[p] /\ UNCHANGED desired
      /\ pc'[p] \notin {"applied_status", "applied_result"}
      /\ "success_result" \notin sent'[p] \ sent[p]
  BY <1>1, ServiceConstants, CSP!LockedStepOrder, CSP!LockedStepShape
<1>3. /\ UNCHANGED answered
      /\ pc'[p] = "save" => boot' = desired[p]
      /\ boot' = boot \/ (boot' = desired[p] /\ device' = desired[p])
  BY <1>2 DEF ServiceStep, BootAfterStep, SavesBoot, AnsweredAfterStep
<1>4. desired[p] # CSP!NoEntry
  BY DEF CSP!IInv, CSP!StageInv, CSP!HasRecord
<1>5. boot.rev <= boot'.rev /\ boot'.rev <= device'.rev
  BY <1>2, <1>3, <1>4, Revisions DEF BootInv
<1>6. \A q \in Procs :
          pc'[q] \in {"save", "applied_status", "applied_result"} => boot' = desired'[q]
  <2>1. \A q \in Procs \ {p} : pc'[q] = pc[q] /\ pc[q] \in {"idle", "lock"}
    BY <1>1, ServiceConstants, CSP!LockedStepShape DEF CSP!IInv, CSP!MutexInv, CSP!Locked
  <2> QED
    BY <1>2, <1>3, <2>1
<1>7. boot'.rev \in Nat
  BY <1>3, Revisions
<1>8. \A e \in puts : e.rev <= boot.rev => e.rev <= boot'.rev
  BY <1>5, <1>7, Revisions
<1>9. disk' # CSP!NoCheckpoint =>
          \E e \in puts' : /\ e.target = disk'.target /\ e.uuid = disk'.uuid
                           /\ e.rev <= boot'.rev
  BY <1>2, <1>8 DEF BootInv
<1>10. \A e \in answered' : e.rev <= boot'.rev
  BY <1>3, <1>8 DEF BootInv, AroundInv
<1> QED
  BY <1>5, <1>6, <1>9, <1>10 DEF BootInv, CSP!NoCheckpoint

\* A save checkpoints the record the machine boots with.
LEMMA SaveKeepsBoot ==
    ASSUME CSP!IInv, AroundInv, BootInv, setup.save,
           NEW p \in Procs, ServiceStep(p), CSP!LockedStep(p), pc[p] = "save"
    PROVE  BootInv'
<1>1. CSP!TypeInv
  BY DEF CSP!IInv
<1>2. /\ UNCHANGED <<puts, device>> /\ disk' \in {disk, CSP!NextCheckpoint(p)}
      /\ pc'[p] # "save"
      /\ pc'[p] \in {"applied_status", "applied_result"} => UNCHANGED desired
      /\ "success_result" \notin sent'[p] \ sent[p]
  BY <1>1, ServiceConstants, CSP!LockedStepOrder, CSP!LockedStepShape
<1>3. UNCHANGED <<boot, answered>>
  BY <1>2 DEF ServiceStep, BootAfterStep, AnsweredAfterStep
<1>4. /\ boot = desired[p] /\ desired[p] \in puts
      /\ CSP!NextCheckpoint(p) = CSP!NameOf(desired[p])
  <2>1. CSP!HasRecord(p)
    BY DEF CSP!IInv, CSP!StageInv
  <2> QED
    BY <2>1, Revisions DEF BootInv, CSP!HasRecord, CSP!NameOf, CSP!NextCheckpoint
<1>5. disk' # CSP!NoCheckpoint =>
          \E e \in puts : /\ e.target = disk'.target /\ e.uuid = disk'.uuid
                          /\ e.rev <= boot.rev
  <2>1. CASE disk' = disk
    BY <2>1 DEF BootInv
  <2>2. CASE disk' = CSP!NextCheckpoint(p)
    BY <1>4, <2>2, Revisions DEF CSP!NameOf
  <2> QED
    BY <1>2, <2>1, <2>2
<1>6. \A q \in Procs :
          pc'[q] \in {"save", "applied_status", "applied_result"} => boot = desired'[q]
  <2>1. \A q \in Procs \ {p} : pc'[q] = pc[q] /\ pc[q] \in {"idle", "lock"}
    BY <1>1, ServiceConstants, CSP!LockedStepShape DEF CSP!IInv, CSP!MutexInv, CSP!Locked
  <2> QED
    BY <1>2, <1>4, <2>1
<1> QED
  BY <1>2, <1>3, <1>5, <1>6 DEF BootInv, CSP!NoCheckpoint

\* A crash may interrupt an apply that has committed, with the boot configuration
\* saved or not, or a save that has renamed.
LEMMA CrashKeepsBoot ==
    ASSUME CSP!IInv, AroundInv, BootInv, ProcessCrash
    PROVE  BootInv'
<1>1. CASE \A p \in Procs : pc[p] = "idle"
  <2>1. UNCHANGED service /\ UNCHANGED answered /\ boot' = boot
    BY <1>1 DEF ProcessCrash, BootAfterCrash
  <2> QED
    BY <2>1, BootFrame DEF service
<1>2. CASE CSP!Crash
  <2>1. /\ UNCHANGED puts /\ UNCHANGED answered
        /\ \A p \in Procs : pc'[p] = "idle"
    BY <1>2 DEF CSP!Crash, CSP!ForgetCalls, ProcessCrash
  <2>2. device'.rev >= device.rev /\ device'.rev \in Nat
    <3>1. ASSUME NEW p \in Procs, pc[p] = "apply"
          PROVE  desired[p] # CSP!NoEntry
      BY <3>1 DEF CSP!IInv, CSP!StageInv, CSP!HasRecord
    <3> QED
      BY <1>2, <3>1, Revisions DEF CSP!Crash
  <2>3. boot' = boot \/ (boot' = device' /\ boot'.rev >= boot.rev)
    <3>1. ASSUME NEW p \in Procs, pc[p] = "apply"
          PROVE  desired[p].rev >= boot.rev
      <4>1. desired[p] # CSP!NoEntry
        BY <3>1 DEF CSP!IInv, CSP!StageInv, CSP!HasRecord
      <4> QED
        BY <4>1, Revisions DEF BootInv
    <3> QED
      BY <3>1 DEF ProcessCrash, BootAfterCrash
  <2>4. boot.rev <= boot'.rev /\ boot'.rev <= device'.rev /\ boot'.rev \in Nat
    BY <2>2, <2>3, Revisions DEF BootInv
  <2>5. disk' # CSP!NoCheckpoint =>
            \E e \in puts : /\ e.target = disk'.target /\ e.uuid = disk'.uuid
                            /\ e.rev <= boot'.rev
    <3>1. CASE disk' = disk
      BY <2>4, <3>1, Revisions DEF BootInv
    <3>2. ASSUME NEW p \in Procs, pc[p] = "save", disk' = CSP!NextCheckpoint(p)
          PROVE  \E e \in puts : /\ e.target = disk'.target /\ e.uuid = disk'.uuid
                                 /\ e.rev <= boot'.rev
      <4>1. boot = desired[p] /\ desired[p] \in puts
        BY <3>2, Revisions DEF BootInv, CSP!IInv, CSP!StageInv, CSP!HasRecord
      <4>2. disk' = CSP!NameOf(desired[p])
        BY <3>2 DEF CSP!IInv, CSP!StageInv, CSP!HasRecord, CSP!NameOf, CSP!NextCheckpoint
      <4> QED
        BY <2>4, <4>1, <4>2 DEF CSP!NameOf
    <3> QED
      BY <1>2, <3>1, <3>2 DEF CSP!Crash
  <2>6. \A e \in answered' : e.rev <= boot'.rev
    BY <2>1, <2>4, Revisions DEF BootInv, AroundInv
  <2> QED
    BY <2>1, <2>4, <2>5, <2>6 DEF BootInv, CSP!NoCheckpoint
<1> QED
  BY <1>1, <1>2, SameEnvironment DEF ProcessCrash

\* With save_after_commit every step keeps the boot configuration right.
LEMMA BootStep == IInv /\ setup.save /\ Next => BootInv'
<1> SUFFICES ASSUME IInv, setup.save, Next PROVE BootInv'
  OBVIOUS
<1>1. CSP!IInv /\ CSP!TypeInv /\ AroundInv /\ BootInv
  BY DEF IInv, Safe
<1>2. pc \in [Procs -> CSP!PCs]
  BY <1>1 DEF CSP!TypeInv, CSP!TypeOK
<1>3. CASE Write
  BY <1>1, <1>3, BootFrame DEF Write, CS!Put, CS!locals
<1>4. CASE Publish \/ StartClient \/ Drop
  BY <1>1, <1>4, BootFrame DEF Publish, StartClient, Drop, service
<1>5. ASSUME NEW p \in Procs, CS!Notify(p) \/ CS!StartReconcile(p),
             UNCHANGED <<boot, answered>>
      PROVE  BootInv'
  <2>1. /\ UNCHANGED <<puts, device, disk, desired>>
        /\ \A q \in Procs : pc'[q] = pc[q] \/ pc'[q] = "lock"
    BY <1>2, <1>5 DEF CS!Notify, CS!StartReconcile, CS!Goto, CS!world
  <2> QED
    BY <1>1, <1>5, <2>1, BootFrame
<1>6. CASE Deliver \/ FinishStart
  BY <1>5, <1>6 DEF Deliver, FinishStart, StartupReconcile, Procs
<1>7. CASE Reconnect
  <2>1. CASE agent = "down"
    BY <1>1, <1>7, <2>1, BootFrame DEF Reconnect, service
  <2>2. CASE agent # "down"
    BY <1>5, <1>7, <2>2 DEF Reconnect, ReconnectPass, Procs
  <2> QED
    BY <2>1, <2>2
<1>8. ASSUME NEW p \in Procs, ServiceStep(p) PROVE BootInv'
  <2>1. CASE CSP!Lock(p)
    <3>1. /\ UNCHANGED <<puts, device, disk, desired, sent>>
          /\ ~CSP!Locked(p) /\ pc'[p] \in {"received", "fail_status", "load_state"}
          /\ \A q \in Procs \ {p} : pc'[q] = pc[q]
      BY <1>1, <2>1, ServiceConstants, CSP!LockShape
    <3>2. UNCHANGED <<boot, answered>>
      BY <1>8, <3>1 DEF ServiceStep, BootAfterStep, AnsweredAfterStep, CSP!Locked
    <3> QED
      BY <1>1, <3>1, <3>2, BootFrame
  <2>2. CASE CSP!LockedStep(p)
    BY <1>1, <1>8, <2>2, OtherStepKeepsBoot, ApplyKeepsBoot, SaveKeepsBoot
  <2> QED
    BY <1>8, <2>1, <2>2, SameServiceStep
<1>9. CASE ProcessCrash
  BY <1>1, <1>9, CrashKeepsBoot
<1>10. CASE Reboot
  <2>1. /\ device' = boot /\ UNCHANGED <<puts, boot, answered>>
        /\ disk' \in {disk, CSP!NoCheckpoint}
        /\ \A p \in Procs : pc'[p] = "idle"
    BY <1>10 DEF Reboot, DiskAfterReboot, CS!ForgetCalls, CS!NoCheckpoint, CSP!NoCheckpoint
  <2> QED
    BY <1>1, <2>1, Revisions DEF BootInv, CSP!NoCheckpoint
<1> QED
  BY <1>3, <1>4, <1>6, <1>7, <1>8, <1>9, <1>10 DEF Next

-----------------------------------------------------------------------------
(* The theorems                                                            *)

\* Every step keeps the inductive invariant.
LEMMA IInvStep == IInv /\ [Next]_vars => IInv'
<1>1. ASSUME IInv, Next PROVE IInv'
  <2>1. CSP!TypeInv' /\ CSP!KnownInv' /\ AroundInv'
    BY <1>1, ServiceTypesStep, AroundStep DEF IInv
  <2>2. Safe' => CSP!IInv'
    BY <1>1, <2>1, SetupIsFixed, ServiceInvStep DEF Safe
  <2>3. setup'.save => BootInv'
    BY <1>1, SetupIsFixed, BootStep
  <2> QED
    BY <2>1, <2>2, <2>3 DEF IInv
<1>2. ASSUME IInv, UNCHANGED vars PROVE IInv'
  <2>1. UNCHANGED CSP!vars
    BY <1>2 DEF vars, service, CSP!vars
  <2>2. CSP!TypeInv' /\ CSP!KnownInv'
    BY <1>2, <2>1, ServiceConstants, CSP!TypeStep, CSP!KnownStep DEF IInv
  <2>3. Safe' => CSP!IInv'
    BY <1>2, <2>1, ServiceConstants, CSP!IInvStep DEF IInv, Safe, vars
  <2>4. AroundInv' /\ (setup'.save => BootInv')
    BY <1>2 DEF IInv, AroundInv, BootInv, vars, service, CSP!NoCheckpoint
  <2> QED
    BY <2>2, <2>3, <2>4 DEF IInv
<1> QED
  BY <1>1, <1>2

\* The inductive invariant holds in every behavior: with a safe setup the service keeps
\* its own invariant through drops, crashes and reboots, and with save_after_commit
\* the boot configuration justifies the checkpoint and the answers.
THEOREM InvariantHolds == Spec => []IInv
  BY IInvInit, IInvStep, PTL DEF Spec

\* Every variable has its type in every state.
THEOREM TypeCorrect == Spec => []TypeOK
<1>1. IInv => TypeOK
  <2> SUFFICES ASSUME IInv PROVE TypeOK
    OBVIOUS
  <2>1. CSP!TypeOK /\ AroundInv
    BY DEF IInv, CSP!TypeInv
  <2>2. CS!TypeOK
    BY <2>1 DEF CS!TypeOK, CSP!TypeOK, CS!Entry, CSP!Entry, CS!NoEntry, CSP!NoEntry,
       CS!Checkpoint, CSP!Checkpoint, CS!PCs, CSP!PCs, CS!RunningStages, CSP!RunningStages,
       CS!Message, CSP!Message, CS!FailureCodes, CSP!FailureCodes, CS!NoCode, CSP!NoCode,
       CS!SuccessMessages, CSP!SuccessMessages, CS!FailureMessages, CSP!FailureMessages
  <2> QED
    BY <2>1, <2>2 DEF AroundInv, TypeOK
<1> QED
  BY InvariantHolds, <1>1, PTL

\* An agent that finds the desired configuration's UUID in its checkpoint has that
\* configuration.
LEMMA SyncedIsRight ==
    ASSUME IInv, Safe, Blank \notin Range(UUIDs), kv # CS!NoEntry, disk.uuid = kv.uuid
    PROVE  AgentHas(kv)
<1>1. CSP!IInv /\ AroundInv
  BY DEF IInv
<1>2. kv \in puts /\ kv.uuid # Blank
  BY <1>1 DEF CSP!IInv, CSP!HistoryInv, CSP!TypeInv, CSP!TypeOK, CSP!Entry, CS!NoEntry,
     CSP!NoEntry
<1>3. PICK e \in puts : e.target = disk.target /\ e.uuid = disk.uuid /\ e.rev <= device.rev
  BY <1>1, <1>2 DEF CSP!IInv, CSP!OrderInv, CSP!CheckpointWasApplied, CSP!NoCheckpoint
<1>4. e = kv
  BY <1>1, <1>2, <1>3 DEF CSP!IInv, CSP!HistoryInv
<1>5. device \in puts
  <2>1. kv.rev >= 1
    BY <1>1, <1>2, Revisions DEF CSP!IInv, CSP!HistoryInv
  <2>2. device # CSP!NoEntry
    BY <1>1, <1>3, <1>4, <2>1, Revisions DEF CSP!NoEntry
  <2> QED
    BY <1>1, <2>2 DEF CSP!IInv, CSP!OrderInv
<1>6. device.rev = kv.rev
  BY <1>1, <1>2, <1>3, <1>4, <1>5, Revisions DEF CSP!IInv, CSP!HistoryInv, CSP!NoEntry,
     CS!NoEntry
<1>7. device = kv
  BY <1>1, <1>2, <1>5, <1>6 DEF CSP!IInv, CSP!HistoryInv
<1>8. disk = CS!NameOf(kv)
  BY <1>1, <1>3, <1>4 DEF CS!NameOf, CSP!IInv, CSP!TypeInv, CSP!TypeOK, CSP!Checkpoint
<1> QED
  BY <1>7, <1>8 DEF AgentHas

\* When every setup saves the boot configuration or loses the state file with a reboot,
\* and no UUID is blank, an agent that skips the apply because the checkpoint names
\* the desired configuration is right: the device runs it.
THEOREM SkippingIsSafe ==
    SafeSetups /\ Blank \notin Range(UUIDs) => (Spec => []SkipIsSafe)
<1> SUFFICES ASSUME SafeSetups, Blank \notin Range(UUIDs) PROVE Spec => []SkipIsSafe
  OBVIOUS
<1>1. IInv => SkipIsSafe
  BY SyncedIsRight DEF SkipIsSafe, CS!InSync, AgentHas, IInv, AroundInv, Safe, SafeSetups
<1> QED
  BY InvariantHolds, <1>1, PTL

\* With save_after_commit no success reaches the controller for a configuration newer
\* than the one the machine would boot with, whatever crashes and reboots came before.
THEOREM AnswersAreDurable == Spec => []AnsweredIsDurable
<1>1. IInv => AnsweredIsDurable
  BY DEF IInv, BootInv, AnsweredIsDurable
<1> QED
  BY InvariantHolds, <1>1, PTL

-----------------------------------------------------------------------------
(* What the service promises holds in the whole system                     *)

\* A call that published a success holds a record that the device runs.
LEMMA ReportsStep == IInv /\ Safe /\ CSP!ReportInv /\ [Next]_vars => CSP!ReportInv'
<1> SUFFICES ASSUME IInv, Safe, CSP!ReportInv, [Next]_vars PROVE CSP!ReportInv'
  OBVIOUS
<1>1. CASE [CSP!Next]_(CSP!vars)
  BY <1>1, ServiceConstants, CSP!ReportStep DEF IInv
<1>2. CASE Reboot
  BY <1>2 DEF Reboot, CS!ForgetCalls, CSP!ReportInv
<1>3. UNCHANGED vars => UNCHANGED CSP!vars
  BY DEF vars, service, CSP!vars
<1> QED
  BY <1>1, <1>2, <1>3, ServiceView

\* With a safe setup a success is true when it is published, whatever reboots and crashes
\* came before: the device runs the very record the call reports.
THEOREM SuccessIsTrueInTheSystem == SafeSetups => (Spec => []CS!SuccessIsTrue)
<1> SUFFICES ASSUME SafeSetups PROVE Spec => []CS!SuccessIsTrue
  OBVIOUS
<1>1. IInv => Safe
  BY DEF SafeSetups, IInv, AroundInv, Safe
<1>2. Init => CSP!ReportInv
  BY DEF Init, CS!Init, CSP!ReportInv
<1>3. IInv /\ CSP!ReportInv /\ [Next]_vars => CSP!ReportInv'
  BY <1>1, ReportsStep
<1>4. CSP!ReportInv => CS!SuccessIsTrue
  <2>1. \A p \in Procs : CSP!HasRecord(p) => desired[p].uuid = msg[p].uuid
    BY DEF CSP!HasRecord, CSP!NameOf
  <2> QED
    BY <2>1 DEF CSP!ReportInv, CS!SuccessIsTrue, CS!SuccessMessages, CSP!SuccessMessages
<1> QED
  BY InvariantHolds, <1>2, <1>3, <1>4, PTL DEF Spec

\* With a safe setup no pass renders or applies what the checkpoint names, and it names
\* nothing the device has not run since it booted or booted with.
THEOREM CheckpointIsRightInTheSystem ==
    SafeSetups => (Spec => [](CS!NoReapplyOfCheckpoint /\ CS!CheckpointWasApplied))
<1> SUFFICES ASSUME SafeSetups
             PROVE  Spec => [](CS!NoReapplyOfCheckpoint /\ CS!CheckpointWasApplied)
  OBVIOUS
<1>1. IInv => CS!NoReapplyOfCheckpoint /\ CS!CheckpointWasApplied
  <2> SUFFICES ASSUME IInv PROVE CS!NoReapplyOfCheckpoint /\ CS!CheckpointWasApplied
    OBVIOUS
  <2>1. CSP!IInv
    BY DEF SafeSetups, IInv, AroundInv, Safe
  <2>2. CS!NoReapplyOfCheckpoint
    BY <2>1 DEF CSP!IInv, CSP!StageInv, CS!NoReapplyOfCheckpoint
  <2>3. CS!CheckpointWasApplied
    BY <2>1 DEF CSP!IInv, CSP!OrderInv, CSP!CheckpointWasApplied, CS!CheckpointWasApplied,
       CSP!NoCheckpoint, CS!NoCheckpoint
  <2> QED
    BY <2>2, <2>3
<1> QED
  BY InvariantHolds, <1>1, PTL

\* Only a reboot takes the device back to an older configuration, and with
\* save_after_commit never to one older than an answered one.
THEOREM OnlyRebootsRollBack ==
    SafeSetups => (Spec => [][\/ device'.rev >= device.rev
                              \/ /\ Reboot
                                 /\ setup.save => \A e \in answered : e.rev <= device'.rev]_vars)
<1> SUFFICES ASSUME SafeSetups
             PROVE  Spec => [][\/ device'.rev >= device.rev
                               \/ /\ Reboot
                                  /\ setup.save =>
                                        \A e \in answered : e.rev <= device'.rev]_vars
  OBVIOUS
<1>1. IInv /\ [Next]_vars => [\/ device'.rev >= device.rev
                              \/ /\ Reboot
                                 /\ setup.save => \A e \in answered : e.rev <= device'.rev]_vars
  <2> SUFFICES ASSUME IInv, Next
               PROVE  \/ device'.rev >= device.rev
                      \/ Reboot /\ (setup.save => \A e \in answered : e.rev <= device'.rev)
    OBVIOUS
  <2>1. CSP!IInv /\ AroundInv
    BY DEF SafeSetups, IInv, AroundInv, Safe
  <2>2. CASE [CSP!Next]_(CSP!vars)
    BY <2>1, <2>2, ServiceConstants, CSP!WorldStep, Revisions
  <2>3. CASE Reboot
    BY <2>3 DEF Reboot, IInv, BootInv
  <2> QED
    BY <2>2, <2>3, ServiceView
<1> QED
  BY InvariantHolds, <1>1, PTL DEF Spec

-----------------------------------------------------------------------------
(* The system implements DurableSync                                       *)

\* A call about to report success has the record that the device runs, the checkpoint
\* names and, with save_after_commit, the machine would boot with.
LEMMA ReportIsSettled ==
    ASSUME IInv, Safe, NEW p \in Procs, pc[p] \in {"in_sync_result", "applied_result"}
    PROVE  /\ desired[p] = device /\ disk = CS!NameOf(device)
           /\ setup.save => boot = device
<1>1. CSP!IInv /\ AroundInv /\ CSP!StageInv(p) /\ CSP!TypeOK
  BY DEF IInv, CSP!IInv, CSP!TypeInv
<1>2. CASE pc[p] = "applied_result"
  BY <1>1, <1>2 DEF CSP!StageInv, CSP!NameOf, CS!NameOf, IInv, BootInv
<1>3. CASE pc[p] = "in_sync_result"
  <2>1. /\ desired[p] \in puts /\ desired[p].uuid # Blank /\ disk.uuid = desired[p].uuid
        /\ desired[p].rev >= 1 /\ device.rev <= desired[p].rev
    BY <1>1, <1>3, Revisions
       DEF CSP!StageInv, CSP!HasRecord, CSP!IInv, CSP!HistoryInv
  <2>2. disk # CSP!NoCheckpoint
    BY <2>1 DEF CSP!NoCheckpoint
  <2>3. \A e \in puts : e.uuid = disk.uuid => e = desired[p]
    BY <1>1, <2>1 DEF CSP!IInv, CSP!HistoryInv
  <2>4. disk.target = desired[p].target /\ desired[p].rev <= device.rev
    BY <1>1, <2>2, <2>3 DEF CSP!IInv, CSP!OrderInv, CSP!CheckpointWasApplied
  <2>5. disk = CS!NameOf(desired[p])
    BY <1>1, <2>1, <2>4 DEF CSP!TypeOK, CSP!Checkpoint, CS!NameOf
  <2>6. ASSUME NEW e \in puts \cup {CS!NoEntry}, e.rev = desired[p].rev PROVE e = desired[p]
    BY <1>1, <2>1, <2>6 DEF CSP!IInv, CSP!HistoryInv, CS!NoEntry
  <2>7. desired[p] = device
    <3>1. device \in puts \cup {CS!NoEntry}
      BY <1>1 DEF CSP!IInv, CSP!OrderInv, CSP!NoEntry, CS!NoEntry
    <3>2. device.rev = desired[p].rev
      BY <1>1, <2>1, <2>4, Revisions
    <3> QED
      BY <2>6, <3>1, <3>2
  <2>8. ASSUME setup.save PROVE boot = device
    <3>1. boot.rev <= device.rev /\ desired[p].rev <= boot.rev
      BY <2>2, <2>3, <2>8 DEF IInv, BootInv
    <3>2. boot.rev = desired[p].rev
      BY <1>1, <2>1, <2>7, <3>1, Revisions
    <3> QED
      BY <1>1, <2>6, <2>7, <3>2 DEF AroundInv
  <2> QED
    BY <2>5, <2>7, <2>8
<1> QED
  BY <1>2, <1>3

\* Committing the record in hand is the promise's Commit.
LEMMA ApplyIsCommit ==
    ASSUME IInv, Safe, NEW p \in Procs, pc[p] = "apply", device' = desired[p],
           UNCHANGED <<puts, disk, answered, setup>>,
           UNCHANGED boot \/ (setup.save /\ boot' = desired[p])
    PROVE  Promise!Commit
<1>1. CSP!IInv /\ AroundInv /\ CSP!StageInv(p)
  BY DEF IInv, CSP!IInv
<1>2. desired[p] \in puts /\ disk.uuid # desired[p].uuid
  BY <1>1 DEF CSP!StageInv, CSP!HasRecord, CSP!IInv, CSP!OrderInv
<1>3. device'.rev >= device.rev
  BY <1>1, <1>2, Revisions DEF CSP!StageInv, CSP!HasRecord
<1> QED
  BY <1>2, <1>3 DEF Promise!Commit, Promise!Sync!Commit

\* Saving the checkpoint is the promise's Remember.
LEMMA SaveIsRemember ==
    ASSUME IInv, Safe, NEW p \in Procs, pc[p] = "save", disk' = CSP!NextCheckpoint(p),
           UNCHANGED <<puts, device, boot, answered, setup>>
    PROVE  Promise!Remember
<1>1. CSP!StageInv(p)
  BY DEF IInv, CSP!IInv
<1>2. device = desired[p] /\ device # CS!NoEntry /\ disk' = CS!NameOf(device)
  BY <1>1 DEF CSP!StageInv, CSP!HasRecord, CSP!NextCheckpoint, CSP!NameOf, CS!NameOf,
     CSP!NoEntry, CS!NoEntry
<1>3. setup.save => boot = device
  BY <1>2 DEF IInv, BootInv
<1> QED
  BY <1>2, <1>3 DEF Promise!Remember, Promise!Sync!Remember, Promise!Settled

\* A call's step is a step of the promise.
LEMMA ServiceStepKeepsPromise ==
    ASSUME IInv, Safe, NEW p \in Procs, ServiceStep(p)
    PROVE  Promise!Next \/ UNCHANGED Promise!vars
<1>1. CSP!TypeInv /\ UNCHANGED setup /\ boot' \in BootAfterStep(p)
  BY DEF IInv, ServiceStep
<1>2. CASE CSP!Lock(p)
  <2>1. UNCHANGED <<puts, device, disk, sent>> /\ pc[p] # "apply"
    BY <1>1, <1>2, ServiceConstants, CSP!LockShape
       DEF CSP!Lock, CSP!LockHandle, CSP!LockReconcile
  <2>2. UNCHANGED <<boot, answered>>
    BY <1>1, <2>1 DEF BootAfterStep, ServiceStep, AnsweredAfterStep
  <2> QED
    BY <1>1, <2>1, <2>2 DEF Promise!vars
<1>3. CASE CSP!LockedStep(p)
  <2>1. /\ UNCHANGED puts
        /\ UNCHANGED device \/ (pc[p] = "apply" /\ device' = desired[p])
        /\ UNCHANGED disk \/ (pc[p] = "save" /\ disk' = CSP!NextCheckpoint(p))
        /\ pc'[p] = "save" => device' = desired[p]
    BY <1>1, <1>3, ServiceConstants, CSP!LockedStepShape, CSP!LockedStepOrder
  <2>2. \/ UNCHANGED answered
        \/ /\ pc[p] \in {"in_sync_result", "applied_result"}
           /\ answered' = answered \cup {desired[p]}
    BY <1>1, <1>3, ServiceConstants, CSP!LockedStepOrder DEF ServiceStep, AnsweredAfterStep
  <2>3. CASE pc[p] = "apply"
    <3>1. UNCHANGED <<disk, answered>>
      BY <2>1, <2>2, <2>3
    <3>2. UNCHANGED boot \/ (setup.save /\ boot' = desired[p] /\ device' = desired[p])
      BY <1>1, <2>1, <2>3 DEF BootAfterStep, SavesBoot
    <3>3. CASE device' = desired[p]
      BY <1>1, <2>1, <2>3, <3>1, <3>2, <3>3, ApplyIsCommit DEF Promise!Next
    <3>4. CASE device' # desired[p]
      BY <1>1, <2>1, <3>1, <3>2, <3>4 DEF Promise!vars
    <3> QED
      BY <3>3, <3>4
  <2>4. CASE pc[p] # "apply"
    <3>1. UNCHANGED <<boot, device>>
      BY <1>1, <2>1, <2>4 DEF BootAfterStep
    <3>2. CASE UNCHANGED <<disk, answered>>
      BY <1>1, <2>1, <3>1, <3>2 DEF Promise!vars
    <3>3. CASE pc[p] = "save" /\ disk' = CSP!NextCheckpoint(p)
      BY <1>1, <2>1, <2>2, <3>1, <3>3, SaveIsRemember DEF Promise!Next
    <3>4. CASE /\ pc[p] \in {"in_sync_result", "applied_result"}
               /\ answered' = answered \cup {desired[p]}
      BY <1>1, <2>1, <3>1, <3>4, ReportIsSettled DEF Promise!Next, Promise!Answer, Promise!Settled
    <3> QED
      BY <2>1, <2>2, <3>2, <3>3, <3>4
  <2> QED
    BY <2>3, <2>4
<1> QED
  BY <1>2, <1>3, SameServiceStep

\* So is the death of the process, a commit or a save in flight included.
LEMMA CrashKeepsPromise ==
    ASSUME IInv, Safe, ProcessCrash
    PROVE  Promise!Next \/ UNCHANGED Promise!vars
<1>1. UNCHANGED <<answered, setup>> /\ boot' \in BootAfterCrash
  BY DEF ProcessCrash
<1>2. CASE \A p \in Procs : pc[p] = "idle"
  BY <1>1, <1>2 DEF ProcessCrash, BootAfterCrash, service, Promise!vars
<1>3. CASE ~ \A p \in Procs : pc[p] = "idle"
  <2>1. CSP!Crash
    BY <1>3, SameEnvironment DEF ProcessCrash
  <2>2. /\ UNCHANGED puts
        /\ UNCHANGED device \/ \E p \in Procs : pc[p] = "apply" /\ device' = desired[p]
        /\ UNCHANGED disk \/ \E p \in Procs : pc[p] = "save" /\ disk' = CSP!NextCheckpoint(p)
    BY <2>1 DEF CSP!Crash
  <2>3. \A p, q \in Procs : ~(pc[p] = "apply" /\ pc[q] = "save")
    BY DEF IInv, CSP!IInv, CSP!MutexInv, CSP!Locked
  <2>4. ASSUME NEW p \in Procs, pc[p] = "apply", device' = desired[p] PROVE Promise!Commit
    <3>1. UNCHANGED disk
      BY <2>2, <2>3, <2>4
    <3>2. UNCHANGED boot \/ (setup.save /\ boot' = desired[p])
      BY <1>1, <2>4 DEF BootAfterCrash, SavesBoot
    <3> QED
      BY <1>1, <2>2, <2>4, <3>1, <3>2, ApplyIsCommit
  <2>5. CASE ~ \E p \in Procs : pc[p] = "apply" /\ device' = desired[p]
    <3>1. UNCHANGED <<device, boot>>
      BY <1>1, <2>2, <2>5 DEF BootAfterCrash
    <3> QED
      BY <1>1, <2>2, <3>1, SaveIsRemember DEF Promise!Next, Promise!vars
  <2> QED
    BY <2>4, <2>5 DEF Promise!Next
<1> QED
  BY <1>2, <1>3

\* The system implements the abstract specification DurableSync, under identity on the
\* history, the device, the checkpoint, the boot configuration and the answers, if every
\* setup saves the boot configuration or loses the state file with a reboot.
THEOREM SystemIsDurableSync == SafeSetups => (Spec => IsDurableSync)
<1> SUFFICES ASSUME SafeSetups PROVE Spec => IsDurableSync
  OBVIOUS
<1>1. Init => Promise!Init
  BY SetupsAssumption DEF Init, CS!Init, Promise!Init, Promise!Sync!Init
<1>2. IInv /\ [Next]_vars => [Promise!Next]_(Promise!vars)
  <2> SUFFICES ASSUME IInv, Next PROVE Promise!Next \/ UNCHANGED Promise!vars
    BY DEF vars, service, Promise!vars
  <2>1. Safe /\ CSP!IInv
    BY DEF SafeSetups, IInv, AroundInv, Safe
  <2>2. CASE Write
    <3>1. CSP!Put /\ UNCHANGED <<boot, answered, setup>>
      BY <2>2, SameEnvironment DEF Write
    <3>2. UNCHANGED puts \/ CSP!Promise!Desire
      BY <2>1, <3>1, ServiceConstants, CSP!DesireStep DEF CSP!Next
    <3>3. UNCHANGED <<device, disk>>
      BY <3>1 DEF CSP!Put
    <3> QED
      BY <3>1, <3>2, <3>3 DEF CSP!Promise!Desire, Promise!Next, Promise!Desire,
         Promise!Sync!Desire, Promise!vars
  <2>3. CASE Publish \/ Deliver \/ StartClient \/ FinishStart \/ Reconnect \/ Drop
    BY <2>3 DEF Publish, Deliver, StartClient, FinishStart, StartupReconcile, Reconnect,
       ReconnectPass, Drop, CS!Notify, CS!StartReconcile, CS!world, service, Promise!vars
  <2>4. ASSUME NEW p \in Procs, ServiceStep(p) PROVE Promise!Next \/ UNCHANGED Promise!vars
    BY <2>1, <2>4, ServiceStepKeepsPromise
  <2>5. CASE ProcessCrash
    BY <2>1, <2>5, CrashKeepsPromise
  <2>6. CASE Reboot
    BY <2>1, <2>6 DEF Reboot, DiskAfterReboot, Safe, CS!ForgetCalls, Promise!Next, Promise!Reboot
  <2> QED
    BY <2>2, <2>3, <2>4, <2>5, <2>6 DEF Next
<1> QED
  BY InvariantHolds, <1>1, <1>2, PTL DEF Spec, IsDurableSync, Promise!Spec

-----------------------------------------------------------------------------
(* A written configuration is not forgotten                                *)

\* p's call is about to read the desired configuration, or holds it and has yet to
\* apply or save it.
Working(p) ==
    \/ /\ pc[p] \in {"received", "loading_desired", "load_desired"}
       /\ kind[p] = "handle" /\ msg[p] = NotificationOf(kv)
    \/ pc[p] \in {"load_state", "load_desired"} /\ kind[p] = "reconcile"
    \/ /\ \/ pc[p] \in {"rendering", "render", "rendered", "applying", "apply", "save"}
          \/ pc[p] = "load_state" /\ kind[p] = "handle"
       /\ desired[p] = kv

\* The desired configuration is in place, or something still brings it there.
OnItsWay == kv # CS!NoEntry => Owed \/ AgentHas(kv) \/ \E p \in Procs : Working(p)

\* p's call of Handle has not loaded the record yet.
Unread(p) ==
    /\ kind[p] = "handle"
    /\ pc[p] \in {"lock", "received", "loading_desired", "load_desired"}

\* Every notification names the agent's target.
NoticeInv ==
    /\ \A i \in 1 .. Len(bus) : bus[i].target = Target
    /\ \A p \in Procs : Unread(p) => msg[p].target = Target

\* No step makes a notification name another target.
LEMMA NoticeStep == IInv /\ NoticeInv /\ [Next]_vars => NoticeInv'
<1> SUFFICES ASSUME IInv, NoticeInv, [Next]_vars PROVE NoticeInv'
  OBVIOUS
<1> USE DEF NoticeInv, Unread
<1>0. CSP!TypeInv /\ CSP!TypeOK /\ AroundInv /\ bus \in Seq(CS!Notification)
  BY DEF IInv, CSP!TypeInv, AroundInv
<1>1. CASE Write
  BY <1>1 DEF Write, CS!Put, CS!locals
<1>2. CASE Publish
  <2>1. PICK e \in puts : bus' \in {bus, Append(bus, NotificationOf(e))}
    BY <1>0, <1>2 DEF Publish, AroundInv
  <2>2. NotificationOf(e).target = Target
    BY <1>0 DEF NotificationOf, CSP!TypeOK, CSP!Entry
  <2>3. \A i \in 1 .. Len(bus') : bus'[i].target = Target
    BY <1>0, <2>1, <2>2
  <2> QED
    BY <1>2, <2>3 DEF Publish, service
<1>3. CASE Deliver
  <2>1. bus # <<>> /\ bus' = Tail(bus)
    BY <1>3 DEF Deliver
  <2>2. Head(bus).target = Target /\ \A i \in 1 .. Len(bus') : bus'[i].target = Target
    BY <1>0, <2>1
  <2>3. \A p \in Procs : Unread(p)' => msg'[p].target = Target
    BY <1>0, <1>3, <2>2 DEF Deliver, CS!Notify, CS!Goto, CSP!TypeOK
  <2> QED
    BY <2>2, <2>3
<1>4. CASE Drop
  <2>1. PICK n \in 0 .. Len(bus) : bus' = SubSeq(bus, 1, n)
    BY <1>4 DEF Drop
  <2>2. \A i \in 1 .. Len(bus') : bus'[i].target = Target
    BY <1>0, <2>1
  <2> QED
    BY <1>4, <2>2 DEF Drop, service
<1>5. CASE FinishStart \/ Reconnect \/ StartClient
  <2>1. ASSUME NEW p \in Procs, CS!StartReconcile(p), UNCHANGED bus PROVE NoticeInv'
    BY <1>0, <2>1 DEF CS!StartReconcile, CS!Goto, CSP!TypeOK
  <2>2. CASE UNCHANGED service /\ UNCHANGED bus
    BY <2>2 DEF service
  <2> QED
    BY <1>5, <2>1, <2>2 DEF FinishStart, StartupReconcile, Reconnect, ReconnectPass,
       StartClient, Procs
<1>6. ASSUME NEW p \in Procs, ServiceStep(p) PROVE NoticeInv'
  <2>1. UNCHANGED bus
    BY <1>6 DEF ServiceStep
  <2>2. CASE CSP!Lock(p)
    <3>1. Unread(p)' => Unread(p)
      BY <2>2, <1>0, ServiceConstants, CSP!LockShape
         DEF CSP!Lock, CSP!LockHandle, CSP!LockReconcile
    <3>2. \A q \in Procs : msg'[q] = msg[q] /\ (q # p => (Unread(q)' => Unread(q)))
      BY <2>2, <1>0, ServiceConstants, CSP!LockShape
    <3> QED
      BY <2>1, <3>1, <3>2
  <2>3. CASE CSP!LockedStep(p)
    <3>1. Unread(p)' => Unread(p) /\ msg'[p] = msg[p]
      BY <2>3, <1>0, ServiceConstants, CSP!LockedStepOrder
    <3>2. \A q \in Procs \ {p} : msg'[q] = msg[q] /\ (Unread(q)' => Unread(q))
      BY <2>3, <1>0, ServiceConstants, CSP!LockedStepShape
    <3> QED
      BY <2>1, <3>1, <3>2
  <2> QED
    BY <1>6, <2>2, <2>3, SameServiceStep
<1>7. CASE ProcessCrash \/ Reboot
  <2>1. bus' = <<>> /\ \A p \in Procs : pc'[p] = "idle"
    BY <1>7 DEF ProcessCrash, Reboot, CS!Crash, CS!ForgetCalls, service
  <2> QED
    BY <2>1
<1>8. CASE UNCHANGED vars
  BY <1>8 DEF vars, service
<1> QED
  BY <1>1, <1>2, <1>3, <1>4, <1>5, <1>6, <1>7, <1>8 DEF Next

\* The desired configuration is one of the agent's target and has a UUID.
LEMMA DesiredIsOurs ==
    ASSUME IInv, Blank \notin Range(UUIDs), kv # CS!NoEntry
    PROVE  /\ kv \in puts
           /\ kv.target = Target /\ Target # Blank
           /\ kv.uuid # Blank
  BY ServiceConstants DEF IInv, CSP!TypeInv, CSP!TypeOK, CSP!KnownInv, CSP!Entry, CS!NoEntry,
     CSP!NoEntry

\* Without a fault left, a call that works for the desired configuration goes on to its
\* checkpoint, or finds it there.
LEMMA WorkGoesOn ==
    ASSUME IInv, Safe, Blank \notin Range(UUIDs), kv # CS!NoEntry, NoMoreFaults, linked,
           NEW p \in Procs, ServiceStep(p), CSP!LockedStep(p), Working(p)
    PROVE  Working(p)' \/ AgentHas(kv)'
<1>1. CSP!IInv /\ CSP!TypeOK /\ CSP!KnownInv /\ CSP!StageInv(p)
  BY DEF IInv, CSP!TypeInv, CSP!IInv
<1>2. UNCHANGED kv
  BY <1>1, ServiceConstants, CSP!LockedStepShape DEF CSP!IInv
<1>3. ~CallFails(p)
  BY BoundsAssumption DEF ServiceStep, NoMoreFaults
<1>4. code[p] = CSP!NoCode
  BY <1>1 DEF CSP!KnownInv, Working
<1>5. CSP!InSync(disk.uuid, kv) /\ UNCHANGED <<device, disk>> => AgentHas(kv)'
  BY <1>2, SyncedIsRight DEF CSP!InSync, AgentHas
<1> USE DEF CallFails, CSP!Goto, CSP!Fail, CSP!NoCode
<1>6. CASE pc[p] \in {"received", "loading_desired", "rendering", "rendered", "applying"}
  <2>1. CSP!PublishRunning(p)
    BY <1>6, ServiceConstants, CSP!StageActions DEF CSP!RunningStages
  <2>2. UNCHANGED CSP!locals /\ pc'[p] = CSP!AfterRunning(pc[p])
    BY <1>1, <1>3, <1>6, <2>1 DEF CSP!PublishRunning, CSP!TypeOK
  <2> QED
    BY <1>2, <1>6, <2>2 DEF CSP!AfterRunning, CSP!locals, Working
<1>7. CASE pc[p] = "load_desired" /\ kind[p] = "handle"
  <2>1. CSP!HandleLoadDesired(p) /\ msg[p] = NotificationOf(kv)
    BY <1>7, ServiceConstants, CSP!StageActions DEF Working
  <2>2. CSP!DesiredFault(msg[p], kv) = CSP!NoCode
    BY <2>1, DesiredIsOurs DEF CSP!DesiredFault, NotificationOf
  <2>3. pc'[p] = "load_state" /\ desired'[p] = kv /\ UNCHANGED kind
    BY <1>1, <1>3, <2>1, <2>2 DEF CSP!HandleLoadDesired, CSP!TypeOK, CS!NoEntry, CSP!NoEntry
  <2> QED
    BY <1>2, <1>7, <2>3 DEF Working
<1>8. CASE pc[p] = "load_state" /\ kind[p] = "handle"
  <2>1. CSP!HandleLoadState(p) /\ desired[p] = kv
    BY <1>8, ServiceConstants, CSP!StageActions DEF Working
  <2>2. UNCHANGED <<desired, device, disk>>
    BY <2>1 DEF CSP!HandleLoadState, CSP!world
  <2>3. CSP!InSync(disk.uuid, kv) \/ pc'[p] = "rendering"
    BY <1>1, <1>3, <2>1 DEF CSP!HandleLoadState, CSP!TypeOK
  <2> QED
    BY <1>2, <1>5, <2>1, <2>2, <2>3 DEF Working
<1>9. CASE pc[p] = "load_state" /\ kind[p] = "reconcile"
  <2>1. CSP!ReconcileLoadState(p)
    BY <1>9, ServiceConstants, CSP!StageActions
  <2>2. pc'[p] = "load_desired" /\ UNCHANGED kind
    BY <1>1, <1>3, <1>4, <2>1 DEF CSP!ReconcileLoadState, CSP!TypeOK
  <2> QED
    BY <1>9, <2>2 DEF Working
<1>10. CASE pc[p] = "load_desired" /\ kind[p] = "reconcile"
  <2>1. CSP!ReconcileLoadDesired(p) /\ local[p] = disk.uuid
    BY <1>1, <1>10, ServiceConstants, CSP!StageActions DEF CSP!StageInv
  <2>2. UNCHANGED <<device, disk>>
    BY <2>1 DEF CSP!ReconcileLoadDesired, CSP!world
  <2>3. CSP!InSync(disk.uuid, kv) \/ (pc'[p] = "rendering" /\ desired'[p] = kv)
    BY <1>1, <1>3, <1>4, <2>1 DEF CSP!ReconcileLoadDesired, CSP!TypeOK, CS!NoEntry, CSP!NoEntry
  <2> QED
    BY <1>2, <1>5, <2>2, <2>3 DEF Working
<1>11. CASE pc[p] \in {"render", "apply"}
  <2>1. CSP!Render(p) \/ CSP!Apply(p)
    BY <1>11, ServiceConstants, CSP!StageActions
  <2>2. UNCHANGED desired /\ pc'[p] \in {"rendered", "save"}
    BY <1>1, <1>3, <2>1 DEF CSP!Render, CSP!Apply, CSP!locals, CSP!TypeOK
  <2> QED
    BY <1>2, <1>11, <2>2 DEF Working
<1>12. CASE pc[p] = "save"
  <2>1. CSP!Save(p) /\ desired[p] = kv
    BY <1>12, ServiceConstants, CSP!StageActions DEF Working
  <2>2. device = kv /\ msg[p] = CSP!NameOf(kv)
    BY <1>1, <1>12, <2>1 DEF CSP!StageInv, CSP!HasRecord
  <2>3. UNCHANGED device /\ disk' = CSP!NextCheckpoint(p)
    BY <1>1, <1>3, <2>1 DEF CSP!Save, CSP!TypeOK
  <2> QED
    BY <1>2, <2>1, <2>2, <2>3 DEF AgentHas, CSP!NextCheckpoint, CSP!NameOf, CS!NameOf
<1> QED
  BY <1>6, <1>7, <1>8, <1>9, <1>10, <1>11, <1>12 DEF Working

\* An agent that has the desired configuration does not lose it to a call.
LEMMA HasStays ==
    ASSUME IInv, Safe, Blank \notin Range(UUIDs), kv # CS!NoEntry, AgentHas(kv),
           NEW p \in Procs, CSP!LockedStep(p)
    PROVE  AgentHas(kv)'
<1>1. CSP!IInv /\ CSP!TypeInv /\ AroundInv /\ CSP!StageInv(p)
  BY DEF IInv, CSP!IInv
<1>2. UNCHANGED kv
  BY <1>1, ServiceConstants, CSP!LockedStepShape
<1>3. device = kv /\ disk = CS!NameOf(kv)
  BY DEF AgentHas
<1>4. pc[p] # "apply"
  <2> SUFFICES ASSUME pc[p] = "apply" PROVE FALSE
    OBVIOUS
  <2>1. /\ desired[p] \in puts /\ kv.rev <= desired[p].rev
        /\ disk.uuid # desired[p].uuid
    BY <1>1, <1>3, Revisions DEF CSP!StageInv, CSP!HasRecord
  <2>2. kv \in puts /\ desired[p].rev <= kv.rev
    BY <1>1, <2>1 DEF CSP!IInv, CSP!HistoryInv, CS!NoEntry, CSP!NoEntry
  <2>3. desired[p].rev = kv.rev
    BY <1>1, <2>1, <2>2, Revisions
  <2>4. desired[p] = kv
    BY <1>1, <2>1, <2>2, <2>3 DEF CSP!IInv, CSP!HistoryInv
  <2> QED
    BY <1>3, <2>1, <2>4 DEF CS!NameOf
<1>5. UNCHANGED device
  BY <1>1, <1>4, ServiceConstants, CSP!LockedStepOrder
<1>6. disk' = CS!NameOf(kv)
  <2>1. CASE pc[p] = "save"
    <3>1. CSP!NextCheckpoint(p) = CS!NameOf(kv)
      BY <1>1, <1>3, <2>1 DEF CSP!StageInv, CSP!HasRecord, CSP!NextCheckpoint, CSP!NameOf,
         CS!NameOf
    <3> QED
      BY <1>1, <1>3, <3>1, ServiceConstants, CSP!LockedStepOrder
  <2>2. CASE pc[p] # "save"
    BY <1>1, <1>3, <2>2, ServiceConstants, CSP!LockedStepOrder
  <2> QED
    BY <2>1, <2>2
<1> QED
  BY <1>2, <1>3, <1>5, <1>6 DEF AgentHas

\* A goroutine that takes the lock for the desired configuration starts working for it.
LEMMA LockStartsWork ==
    ASSUME IInv, NoticeInv, Blank \notin Range(UUIDs), kv # CS!NoEntry,
           NEW p \in Procs, CSP!Lock(p), kind[p] = "handle" => msg[p].uuid = kv.uuid
    PROVE  Working(p)'
<1>1. CSP!TypeInv /\ CSP!TypeOK
  BY DEF IInv, CSP!TypeInv
<1>2. UNCHANGED <<kv, kind, msg>>
  BY <1>1, ServiceConstants, CSP!LockShape
<1>3. CASE CSP!LockReconcile(p)
  BY <1>1, <1>2, <1>3 DEF CSP!LockReconcile, CSP!Goto, CSP!TypeOK, Working
<1>4. CASE CSP!LockHandle(p)
  <2>1. kind[p] = "handle" /\ msg[p].target = Target /\ msg[p].uuid = kv.uuid
    BY <1>4 DEF CSP!LockHandle, NoticeInv, Unread
  <2>2. msg[p] = NotificationOf(kv)
    BY <1>1, <2>1, DesiredIsOurs DEF NotificationOf, CSP!TypeOK, CSP!Message
  <2>3. CSP!NotificationFault(msg[p]) = CSP!NoCode
    BY <2>1, DesiredIsOurs DEF CSP!NotificationFault
  <2>4. pc'[p] = "received"
    BY <1>1, <1>4, <2>3 DEF CSP!LockHandle, CSP!Goto, CSP!TypeOK
  <2> QED
    BY <1>2, <2>1, <2>2, <2>4 DEF Working, NotificationOf
<1> QED
  BY <1>3, <1>4 DEF CSP!Lock

\* A call's step, without a fault left, leaves the desired configuration on its way.
LEMMA ServiceStepForgetsNothing ==
    ASSUME IInv, NoticeInv, Safe, Blank \notin Range(UUIDs), NoMoreFaults, OnItsWay,
           NEW p \in Procs, ServiceStep(p)
    PROVE  OnItsWay'
<1>1. CSP!IInv /\ CSP!TypeInv
  BY DEF IInv
<1>2. UNCHANGED <<kv, agent, linked, unsent, bus>>
  BY <1>1, SameServiceStep, ServiceConstants, CSP!LockShape, CSP!LockedStepShape
     DEF ServiceStep
<1> SUFFICES ASSUME kv # CS!NoEntry, linked, agent = "up", kv \notin unsent,
                    \A i \in 1 .. Len(bus) : bus[i].uuid # kv.uuid
             PROVE  AgentHas(kv)' \/ \E q \in Procs :
                        \/ Working(q)'
                        \/ pc'[q] = "lock" /\ (kind'[q] = "handle" => msg'[q].uuid = kv.uuid)
  BY <1>2 DEF OnItsWay, Owed, CS!NoEntry
<1>3. \/ AgentHas(kv)
      \/ \E q \in Procs : Working(q)
      \/ \E q \in Procs : pc[q] = "lock" /\ (kind[q] = "handle" => msg[q].uuid = kv.uuid)
  BY DEF OnItsWay, Owed
<1>4. CASE CSP!Lock(p)
  <2>1. /\ UNCHANGED <<device, disk, kind, msg, desired>>
        /\ pc[p] = "lock" /\ \A q \in Procs \ {p} : pc'[q] = pc[q]
    BY <1>1, <1>4, ServiceConstants, CSP!LockShape
       DEF CSP!Lock, CSP!LockHandle, CSP!LockReconcile
  <2>2. ASSUME NEW q \in Procs, pc[q] = "lock", kind[q] = "handle" => msg[q].uuid = kv.uuid
        PROVE  \/ Working(q)'
               \/ pc'[q] = "lock" /\ (kind'[q] = "handle" => msg'[q].uuid = kv.uuid)
    BY <1>4, <2>1, <2>2, LockStartsWork
  <2>3. ASSUME NEW q \in Procs, Working(q) PROVE Working(q)'
    BY <1>2, <2>1, <2>3 DEF Working, NotificationOf
  <2> QED
    BY <1>2, <1>3, <2>1, <2>2, <2>3 DEF AgentHas
<1>5. CASE CSP!LockedStep(p)
  <2>1. /\ CSP!Locked(p)
        /\ \A q \in Procs \ {p} : pc'[q] = pc[q] /\ kind'[q] = kind[q] /\ msg'[q] = msg[q]
    BY <1>1, <1>5, ServiceConstants, CSP!LockedStepShape
  <2>2. ASSUME NEW q \in Procs, pc[q] = "lock" PROVE q # p
    BY <2>1, <2>2 DEF CSP!Locked
  <2>3. ASSUME NEW q \in Procs, Working(q) PROVE q = p
    BY <1>1, <2>1, <2>3 DEF Working, CSP!Locked, CSP!IInv, CSP!MutexInv
  <2>4. CASE AgentHas(kv)
    BY <1>5, <2>4, HasStays
  <2>5. CASE \E q \in Procs : Working(q)
    BY <1>2, <1>5, <2>3, <2>5, WorkGoesOn
  <2> QED
    BY <1>3, <2>1, <2>2, <2>4, <2>5
<1> QED
  BY <1>4, <1>5, SameServiceStep

\* The controller, the bus and the process keep it on its way too: a lost notification
\* leaves a reconnect or a startup owed.
LEMMA OnItsWayStep ==
    ASSUME IInv, NoticeInv, Safe, Blank \notin Range(UUIDs), NoMoreFaults, OnItsWay, Next
    PROVE  OnItsWay'
<1>1. CSP!TypeOK /\ bus \in Seq(CS!Notification)
  BY DEF IInv, CSP!TypeInv, AroundInv
<1>2. CASE Write
  BY <1>2 DEF Write, OnItsWay, Owed
<1>3. CASE Publish
  <2>1. /\ UNCHANGED service /\ UNCHANGED <<agent, linked>>
        /\ \A i \in 1 .. Len(bus) : i \in 1 .. Len(bus') /\ bus'[i] = bus[i]
    BY <1>1, <1>3 DEF Publish, NotificationOf
  <2>2. linked /\ agent = "up" /\ kv \in unsent =>
            kv \in unsent' \/ \E i \in 1 .. Len(bus') : bus'[i].uuid = kv.uuid
    BY <1>1, <1>3 DEF Publish, NotificationOf
  <2>3. Owed => Owed'
    BY <2>1, <2>2 DEF Owed, service
  <2> QED
    BY <2>1, <2>3 DEF OnItsWay, AgentHas, Working, NotificationOf, service
<1>4. CASE Deliver
  <2>1. /\ UNCHANGED <<kv, device, disk, desired, agent, linked, unsent>>
        /\ pc[Handler] = "idle" /\ pc'[Handler] = "lock" /\ msg'[Handler] = Head(bus)
        /\ \A q \in Procs \ {Handler} : pc'[q] = pc[q] /\ kind'[q] = kind[q] /\ msg'[q] = msg[q]
    BY <1>1, <1>4 DEF Deliver, CS!Notify, CS!Goto, CS!world, CSP!TypeOK, Procs
  <2>2. ASSUME NEW i \in 1 .. Len(bus), bus[i].uuid = kv.uuid PROVE Owed'
    <3>1. CASE i = 1
      BY <2>1, <2>2, <3>1 DEF Owed, Procs
    <3>2. CASE i # 1
      <4>1. i - 1 \in 1 .. Len(bus') /\ bus'[i - 1] = bus[i]
        BY <1>1, <1>4, <3>2 DEF Deliver
      <4> QED
        BY <2>1, <2>2, <4>1 DEF Owed
    <3> QED
      BY <3>1, <3>2
  <2>3. ASSUME NEW q \in Procs, pc[q] = "lock", kind[q] = "handle" => msg[q].uuid = kv.uuid
        PROVE  Owed'
    BY <2>1, <2>3 DEF Owed
  <2>4. ASSUME NEW q \in Procs, Working(q) PROVE Working(q)'
    BY <2>1, <2>4 DEF Working, NotificationOf
  <2>5. Owed => Owed'
    BY <2>1, <2>2, <2>3 DEF Owed
  <2> QED
    BY <2>1, <2>4, <2>5 DEF OnItsWay, AgentHas
<1>5. CASE FinishStart \/ Reconnect
  <2>1. ASSUME NEW p \in Procs, CS!StartReconcile(p) PROVE Owed'
    BY <1>1, <2>1 DEF CS!StartReconcile, CS!Goto, CSP!TypeOK, Owed
  <2>2. ASSUME agent = "down", UNCHANGED agent PROVE Owed'
    BY <2>2 DEF Owed
  <2> QED
    BY <1>5, <2>1, <2>2 DEF FinishStart, StartupReconcile, Reconnect, ReconnectPass, Procs,
       OnItsWay
<1>6. ASSUME NEW p \in Procs, ServiceStep(p) PROVE OnItsWay'
  BY <1>6, ServiceStepForgetsNothing
<1>7. CASE StartClient \/ Drop \/ ProcessCrash \/ Reboot
  BY <1>7 DEF StartClient, Drop, ProcessCrash, Reboot, OnItsWay, Owed
<1> QED
  BY <1>2, <1>3, <1>4, <1>5, <1>6, <1>7 DEF Next

\* The safety half of Converges: once calls stop failing, no interleaving of writes,
\* notifications, their losses, drops, crashes and reboots leaves the desired configuration
\* neither in place nor with something that will still bring it there.
THEOREM NothingIsForgotten ==
    SafeSetups /\ Blank \notin Range(UUIDs) =>
        (Spec => [][NoMoreFaults /\ OnItsWay => OnItsWay']_vars)
<1> SUFFICES ASSUME SafeSetups, Blank \notin Range(UUIDs)
             PROVE  Spec => [][NoMoreFaults /\ OnItsWay => OnItsWay']_vars
  OBVIOUS
<1>1. IInv => Safe
  BY DEF SafeSetups, IInv, AroundInv, Safe
<1>2. Init => NoticeInv
  BY DEF Init, CS!Init, NoticeInv, Unread
<1>3. IInv /\ NoticeInv /\ [Next]_vars => [NoMoreFaults /\ OnItsWay => OnItsWay']_vars
  BY <1>1, OnItsWayStep
<1> QED
  BY InvariantHolds, NoticeStep, <1>2, <1>3, PTL DEF Spec

-----------------------------------------------------------------------------
(* A write is not left unanswered                                          *)

\* p's call has checkpointed the desired configuration and has yet to publish the result.
Reporting(p) == pc[p] \in {"applied_status", "applied_result"} /\ desired[p] = kv

\* The desired configuration is answered, or about to be, or still to be applied by
\* something that is on its way.
AnswerDue ==
    kv # CS!NoEntry =>
        \/ kv \in answered
        \/ disk.uuid # kv.uuid /\ (Owed \/ \E p \in Procs : Working(p))
        \/ \E p \in Procs : Reporting(p)

\* A new write is owed, and no checkpoint names it yet.
LEMMA WriteIsDue ==
    ASSUME IInv, Safe, Blank \notin Range(UUIDs), Write
    PROVE  AnswerDue'
<1>1. CSP!IInv /\ CSP!Put
  BY SameEnvironment DEF IInv, Write
<1>2. /\ UNCHANGED disk /\ kv'.uuid \in Range(UUIDs) /\ kv'.uuid # Blank
      /\ \A e \in puts : e.uuid # kv'.uuid
  BY <1>1 DEF CSP!Put
<1>3. disk.uuid # kv'.uuid
  BY <1>1, <1>2 DEF CSP!IInv, CSP!OrderInv, CSP!CheckpointWasApplied, CSP!NoCheckpoint
<1>4. Owed'
  BY DEF Write, Owed
<1> QED
  BY <1>2, <1>3, <1>4 DEF AnswerDue

\* Without a fault left, the step that checkpoints the desired configuration leads to its
\* report.
LEMMA CheckpointIsReported ==
    ASSUME IInv, Safe, Blank \notin Range(UUIDs), NoMoreFaults, linked, kv # CS!NoEntry,
           NEW p \in Procs, ServiceStep(p), CSP!LockedStep(p),
           disk.uuid # kv.uuid, disk'.uuid = kv.uuid
    PROVE  Reporting(p)'
<1>1. CSP!IInv /\ CSP!TypeInv /\ CSP!TypeOK /\ CSP!StageInv(p)
  BY DEF IInv, CSP!TypeInv, CSP!IInv
<1>2. pc[p] = "save" /\ disk' = CSP!NextCheckpoint(p) /\ CSP!Save(p)
  BY <1>1, ServiceConstants, CSP!LockedStepOrder, CSP!StageActions
<1>3. ~CallFails(p)
  BY BoundsAssumption DEF ServiceStep, NoMoreFaults
<1>4. pc'[p] = "applied_status" /\ UNCHANGED <<kv, desired>>
  BY <1>1, <1>2, <1>3 DEF CSP!Save, CSP!Goto, CSP!Fail, CSP!TypeOK, CallFails
<1>5. desired[p] \in puts /\ desired[p].uuid = kv.uuid
  BY <1>1, <1>2 DEF CSP!StageInv, CSP!HasRecord, CSP!NameOf, CSP!NextCheckpoint, CSP!IInv,
     CSP!OrderInv
<1>6. desired[p] = kv
  BY <1>1, <1>5, DesiredIsOurs DEF CSP!IInv, CSP!HistoryInv
<1> QED
  BY <1>4, <1>6 DEF Reporting

\* Without a fault left and with a connection, a report goes on to its result, and the
\* result reaches the controller.
LEMMA ReportGoesOn ==
    ASSUME IInv, NoMoreFaults, linked, NEW p \in Procs, ServiceStep(p), CSP!LockedStep(p),
           Reporting(p)
    PROVE  Reporting(p)' \/ kv' \in answered'
<1>1. CSP!TypeOK
  BY DEF IInv, CSP!TypeInv
<1>2. ~MessageLost(p)
  BY BoundsAssumption DEF ServiceStep, NoMoreFaults
<1>3. CASE pc[p] = "applied_status"
  <2>1. CSP!AppliedStatus(p)
    BY <1>3, ServiceConstants, CSP!StageActions
  <2> QED
    BY <1>1, <2>1 DEF CSP!AppliedStatus, CSP!AppliedStatusLost, CSP!Goto, CSP!TypeOK,
       CSP!world, Reporting
<1>4. CASE pc[p] = "applied_result"
  <2>1. CSP!AppliedResult(p)
    BY <1>4, ServiceConstants, CSP!StageActions
  <2>2. UNCHANGED kv /\ sent'[p] # sent[p]
    BY <1>2, <1>4, <2>1 DEF CSP!AppliedResult, CSP!world, MessageLost
  <2>3. sent'[p] = sent[p] \cup {"success_result"}
    BY <1>1, <2>1, <2>2 DEF CSP!AppliedResult, CSP!Accepted, CSP!TypeOK
  <2>4. "success_result" \in sent'[p] \ sent[p]
    BY <2>2, <2>3
  <2> QED
    BY <2>2, <2>4 DEF Reporting, ServiceStep, AnsweredAfterStep
<1> QED
  BY <1>3, <1>4 DEF Reporting

\* A call's step leaves the answer due.
LEMMA ServiceStepStaysDue ==
    ASSUME IInv, NoticeInv, Safe, Blank \notin Range(UUIDs), NoMoreFaults, linked,
           kv # CS!NoEntry, AnswerDue, NEW p \in Procs, ServiceStep(p)
    PROVE  AnswerDue'
<1>1. CSP!IInv /\ CSP!TypeInv
  BY DEF IInv
<1>2. UNCHANGED kv /\ answered \subseteq answered'
  BY <1>1, SameServiceStep, ServiceConstants, CSP!LockShape, CSP!LockedStepShape
     DEF ServiceStep, AnsweredAfterStep
<1>3. CASE kv \in answered
  BY <1>2, <1>3 DEF AnswerDue
<1>4. CASE disk.uuid # kv.uuid /\ (Owed \/ \E q \in Procs : Working(q))
  <2>1. OnItsWay'
    BY <1>4, ServiceStepForgetsNothing DEF OnItsWay
  <2>2. CASE disk'.uuid # kv.uuid
    BY <1>2, <2>1, <2>2 DEF OnItsWay, AnswerDue, AgentHas, CS!NameOf
  <2>3. CASE disk'.uuid = kv.uuid
    <3>1. CSP!LockedStep(p)
      BY <1>1, <1>4, <2>3, SameServiceStep, ServiceConstants, CSP!LockShape
    <3> QED
      BY <1>4, <2>3, <3>1, CheckpointIsReported DEF AnswerDue
  <2> QED
    BY <2>2, <2>3
<1>5. ASSUME NEW q \in Procs, Reporting(q) PROVE AnswerDue'
  <2>1. CASE CSP!Lock(p)
    <3>1. pc'[q] = pc[q] /\ UNCHANGED desired
      BY <1>1, <1>5, <2>1, ServiceConstants, CSP!LockShape
         DEF CSP!Lock, CSP!LockHandle, CSP!LockReconcile, Reporting
    <3> QED
      BY <1>2, <1>5, <3>1 DEF Reporting, AnswerDue
  <2>2. CASE CSP!LockedStep(p)
    <3>1. q = p
      BY <1>1, <1>5, <2>2, ServiceConstants, CSP!LockedStepShape
         DEF Reporting, CSP!Locked, CSP!IInv, CSP!MutexInv
    <3> QED
      BY <1>2, <1>5, <2>2, <3>1, ReportGoesOn DEF AnswerDue
  <2> QED
    BY <2>1, <2>2, SameServiceStep
<1> QED
  BY <1>3, <1>4, <1>5 DEF AnswerDue

\* So does every step but an outage.
LEMMA AnswerDueStep ==
    ASSUME IInv, NoticeInv, Safe, Blank \notin Range(UUIDs), NoMoreFaults, NoMoreOutages,
           linked, AnswerDue, Next
    PROVE  AnswerDue'
<1>1. CSP!TypeOK
  BY DEF IInv, CSP!TypeInv
<1>2. ~Drop /\ ~ProcessCrash /\ ~Reboot
  <2>1. ~Outage
    BY BoundsAssumption DEF IInv, AroundInv, NoMoreOutages, Outage
  <2> QED
    BY <2>1 DEF Drop, ProcessCrash, Reboot
<1>3. CASE Write
  BY <1>3, WriteIsDue
<1>4. CASE kv # CS!NoEntry /\ \E p \in Procs : ServiceStep(p)
  BY <1>4, ServiceStepStaysDue
<1>5. CASE kv = CS!NoEntry /\ ~Write
  <2>1. UNCHANGED kv
    BY <1>1, <1>2, <1>5, SameServiceStep, ServiceConstants, CSP!LockShape,
       CSP!LockedStepShape
       DEF IInv, Next, Publish, Deliver, StartClient, FinishStart, StartupReconcile,
           Reconnect, ReconnectPass, CS!Notify, CS!StartReconcile, CS!world, service
  <2> QED
    BY <1>5, <2>1 DEF AnswerDue
<1>6. CASE kv # CS!NoEntry /\ (Publish \/ Deliver \/ StartClient \/ FinishStart \/ Reconnect)
  <2>1. /\ UNCHANGED <<kv, disk, desired, answered>>
        /\ \A p \in Procs : pc[p] = "idle" \/ pc'[p] = pc[p]
    BY <1>1, <1>6
       DEF Publish, Deliver, StartClient, FinishStart, StartupReconcile, Reconnect,
           ReconnectPass, CS!Notify, CS!StartReconcile, CS!Goto, CS!world, CSP!TypeOK, service
  <2>2. ASSUME NEW p \in Procs, Reporting(p) PROVE Reporting(p)'
    BY <2>1, <2>2 DEF Reporting
  <2>3. Owed \/ (\E p \in Procs : Working(p)) => OnItsWay'
    BY <1>6, OnItsWayStep DEF OnItsWay
  <2> QED
    BY <1>6, <2>1, <2>2, <2>3 DEF AnswerDue, OnItsWay, AgentHas, CS!NameOf
<1> QED
  BY <1>2, <1>3, <1>4, <1>5, <1>6 DEF Next

\* The safety half of WritesAreAnswered: with a connection, and neither a fault nor an outage
\* left, no interleaving of writes, notifications and passes leaves the desired
\* configuration with neither an answer nor anything that will still give it.
THEOREM NothingIsLeftUnanswered ==
    SafeSetups /\ Blank \notin Range(UUIDs) =>
        (Spec => [][NoMoreFaults /\ NoMoreOutages /\ linked /\ AnswerDue => AnswerDue']_vars)
<1> SUFFICES ASSUME SafeSetups, Blank \notin Range(UUIDs)
             PROVE  Spec => [][NoMoreFaults /\ NoMoreOutages /\ linked /\ AnswerDue
                                   => AnswerDue']_vars
  OBVIOUS
<1>1. IInv => Safe
  BY DEF SafeSetups, IInv, AroundInv, Safe
<1>2. Init => NoticeInv
  BY DEF Init, CS!Init, NoticeInv, Unread
<1>3. IInv /\ NoticeInv /\ [Next]_vars =>
          [NoMoreFaults /\ NoMoreOutages /\ linked /\ AnswerDue => AnswerDue']_vars
  BY <1>1, AnswerDueStep
<1> QED
  BY InvariantHolds, NoticeStep, <1>2, <1>3, PTL DEF Spec

-----------------------------------------------------------------------------
(* What is owed is not stuck                                               *)

\* With any setup the mutex belongs to the call past the lock; and a process that is down
\* has left no notification behind.
HolderInv ==
    /\ CSP!MutexInv /\ CSP!HeldInv
    /\ agent = "down" => bus = <<>>

\* The guards of the actions that Fairness is about.
PublishReady == unsent # {}
DeliverReady == agent # "down" /\ bus # <<>> /\ pc[Handler] = "idle"
StartReady ==
    \/ agent = "down" /\ linked
    \/ agent = "subscribed" /\ pc[Main] = "idle"
ReconnectReady == ~linked /\ (agent = "down" \/ \E p \in Passes : pc[p] = "idle")
CallReady(p) == CSP!Locked(p) \/ (pc[p] = "lock" /\ mu = NoProc)

SomethingIsReady ==
    \/ PublishReady \/ DeliverReady \/ StartReady \/ ReconnectReady
    \/ \E p \in Procs : CallReady(p)

\* Every step keeps the mutex with its owner.
LEMMA HolderStep == IInv /\ HolderInv /\ [Next]_vars => HolderInv'
<1> SUFFICES ASSUME IInv, HolderInv, [Next]_vars PROVE HolderInv'
  OBVIOUS
<1> USE DEF HolderInv
<1>0. CSP!TypeInv
  BY DEF IInv
<1>1. CSP!MutexInv' /\ CSP!HeldInv'
  <2>1. CASE [CSP!Next]_(CSP!vars)
    BY <1>0, <2>1, ServiceConstants, CSP!MutexStep, CSP!HeldStep
  <2>2. CASE Reboot
    <3>1. mu' = NoProc /\ \A p \in Procs : pc'[p] = "idle"
      BY <2>2 DEF Reboot, CS!ForgetCalls
    <3> QED
      BY <3>1, ServiceConstants DEF CSP!MutexInv, CSP!HeldInv, CSP!Locked
  <2>3. CASE UNCHANGED vars
    BY <2>3 DEF vars, service, CSP!MutexInv, CSP!HeldInv, CSP!Locked
  <2> QED
    BY <2>1, <2>2, <2>3, ServiceView
<1>2. agent' = "down" => bus' = <<>>
  <2>1. CASE ProcessCrash \/ Reboot
    BY <2>1 DEF ProcessCrash, Reboot
  <2>2. CASE Drop
    <3>1. PICK n \in 0 .. Len(bus) : bus' = SubSeq(bus, 1, n)
      BY <2>2 DEF Drop
    <3>2. bus = <<>> => bus' = <<>>
      BY <3>1
    <3> QED
      BY <2>2, <3>2 DEF Drop
  <2>3. CASE Publish
    BY <2>3 DEF Publish
  <2>4. CASE Deliver
    BY <2>4 DEF Deliver
  <2>5. CASE Write \/ StartClient \/ FinishStart \/ Reconnect \/ UNCHANGED vars
    BY <2>5 DEF Write, StartClient, FinishStart, Reconnect, vars
  <2>6. ASSUME NEW p \in Procs, ServiceStep(p) PROVE UNCHANGED <<agent, bus>>
    BY <2>6 DEF ServiceStep
  <2> QED
    BY <2>1, <2>2, <2>3, <2>4, <2>5, <2>6 DEF Next
<1> QED
  BY <1>1, <1>2

\* A call under way, waiting or not, means that some call has a step to take.
LEMMA CallsAreNotStuck ==
    ASSUME IInv, HolderInv, NEW p \in Procs, pc[p] # "idle"
    PROVE  \E q \in Procs : CallReady(q)
<1>1. mu \in Procs \cup {NoProc}
  BY DEF IInv, CSP!TypeInv, CSP!TypeOK
<1>2. CASE mu = NoProc
  BY <1>2 DEF CallReady, CSP!Locked
<1>3. CASE mu \in Procs
  BY <1>3 DEF CallReady, HolderInv, CSP!HeldInv
<1> QED
  BY <1>1, <1>2, <1>3

\* The other safety half of Converges and WritesAreAnswered: whatever is owed or worked on
\* for the desired configuration, some step that fairness promises can be taken; controller,
\* bus, process, connection and the calls on the mutex never all wait for each other.
THEOREM OwedWorkIsNotStuck ==
    Passes # {} =>
        (Spec => []((Owed \/ \E p \in Procs : Working(p)) => SomethingIsReady))
<1> SUFFICES ASSUME Passes # {}
             PROVE  Spec => []((Owed \/ \E p \in Procs : Working(p)) => SomethingIsReady)
  OBVIOUS
<1>1. Init => HolderInv
  BY ServiceConstants
     DEF Init, CS!Init, HolderInv, CSP!MutexInv, CSP!HeldInv, CSP!Locked
<1>2. IInv /\ HolderInv =>
          ((Owed \/ \E p \in Procs : Working(p)) => SomethingIsReady)
  <2> SUFFICES ASSUME IInv, HolderInv, Owed \/ \E p \in Procs : Working(p),
                      \A p \in Procs : ~CallReady(p)
               PROVE  PublishReady \/ DeliverReady \/ StartReady \/ ReconnectReady
    BY DEF SomethingIsReady
  <2>1. \A p \in Procs : pc[p] = "idle"
    BY CallsAreNotStuck
  <2>2. Main \in Procs /\ Handler \in Procs /\ \E p \in Passes : p \in Procs
    BY DEF Procs
  <2>3. Owed
    BY <2>1 DEF Working
  <2>4. AroundInv
    BY DEF IInv
  <2>5. CASE ~linked \/ agent # "up"
    BY <2>1, <2>2, <2>4, <2>5 DEF StartReady, ReconnectReady, AroundInv
  <2>6. CASE kv \in unsent
    BY <2>6 DEF PublishReady
  <2>7. CASE \E i \in 1 .. Len(bus) : bus[i].uuid = kv.uuid
    <3>1. bus # <<>>
      BY <2>4, <2>7 DEF AroundInv
    <3> QED
      BY <2>1, <2>2, <3>1 DEF DeliverReady, HolderInv
  <2> QED
    BY <2>1, <2>3, <2>5, <2>6, <2>7 DEF Owed
<1> QED
  BY InvariantHolds, HolderStep, <1>1, <1>2, PTL DEF Spec

\* And it gets done: each step of a call brings it nearer to its return, on every path and
\* after every fault, and nothing else but the death of its process changes how far it is.
THEOREM CallsOnlyAdvance ==
    Spec => [][\A p \in Procs :
                  IF ServiceStep(p) THEN CSP!CallLeft(p)' < CSP!CallLeft(p)
                  ELSE \/ pc[p] = "idle" \/ CSP!CallLeft(p)' = CSP!CallLeft(p)
                       \/ ProcessCrash \/ Reboot]_vars
<1>1. IInv /\ [Next]_vars =>
          [\A p \in Procs :
              IF ServiceStep(p) THEN CSP!CallLeft(p)' < CSP!CallLeft(p)
              ELSE \/ pc[p] = "idle" \/ CSP!CallLeft(p)' = CSP!CallLeft(p)
                   \/ ProcessCrash \/ Reboot]_vars
  <2>0. IInv => CSP!TypeInv /\ CSP!TypeOK
    BY DEF IInv, CSP!TypeInv
  <2>1. ASSUME IInv, NEW q \in Procs, ServiceStep(q)
        PROVE  /\ CSP!CallLeft(q)' < CSP!CallLeft(q)
               /\ \A p \in Procs \ {q} : CSP!CallLeft(p)' = CSP!CallLeft(p)
    BY <2>0, <2>1, ServiceConstants, SameServiceStep, CSP!CallAdvances
  <2> SUFFICES ASSUME IInv, Next, NEW p \in Procs, ~ServiceStep(p), pc[p] # "idle",
                      ~ProcessCrash, ~Reboot
               PROVE  CSP!CallLeft(p)' = CSP!CallLeft(p)
    BY <2>1
  <2>2. CASE Write \/ Publish \/ StartClient \/ Drop
    BY <2>2 DEF Write, CS!Put, CS!locals, Publish, StartClient, Drop, service, CSP!CallLeft
  <2>3. ASSUME NEW q \in Procs, CS!Notify(q) \/ CS!StartReconcile(q)
        PROVE  CSP!CallLeft(p)' = CSP!CallLeft(p)
    BY <2>0, <2>3 DEF CS!Notify, CS!StartReconcile, CS!Goto, CSP!TypeOK, CSP!CallLeft
  <2>4. CASE Deliver \/ FinishStart \/ Reconnect
    BY <2>3, <2>4 DEF Deliver, FinishStart, StartupReconcile, Reconnect, ReconnectPass, Procs,
       service, CSP!CallLeft
  <2>5. ASSUME NEW q \in Procs, ServiceStep(q) PROVE CSP!CallLeft(p)' = CSP!CallLeft(p)
    BY <2>1, <2>5
  <2> QED
    BY <2>2, <2>4, <2>5 DEF Next
<1> QED
  BY InvariantHolds, <1>1, PTL DEF Spec

=============================================================================
