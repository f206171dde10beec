-------------------------- MODULE ConfigureService --------------------------
(***************************************************************************)
(* internal/configure/service.go: the two entry points of the configure    *)
(* service, Handle (a configure notification) and Reconcile (startup and   *)
(* reconnect), run by any number of goroutines of one agent process.  Both *)
(* take the service mutex, read the desired configuration from the KV      *)
(* store and the local checkpoint from disk, and, when the two differ,     *)
(* render, apply and checkpoint the desired configuration, publishing a    *)
(* status at each stage and one result at the end.                         *)
(*                                                                         *)
(* Every call the service makes to another component (KV read, checkpoint  *)
(* load and save, render, apply, publish) is one action, with each outcome *)
(* the callee can produce.  The environment may write or delete the        *)
(* desired configuration, deliver any notification (late, twice, stale or  *)
(* malformed), and crash and restart the process between any two steps.    *)
(***************************************************************************)
EXTENDS Naturals, FiniteSets

CONSTANTS
    Procs,         \* the goroutines that call Handle or Reconcile
    NoProc,        \* the owner of the unlocked mutex
    Blank,         \* the empty string (all-space ones are left out)
    Target,        \* agent.target: the key whose desired configuration is read
    EntryTargets,  \* the target fields a KV record may carry
    EntryUUIDs,    \* the uuid fields a KV record may carry
    RealMode,      \* agent.configure.mode = "real" (FALSE: "placeholder")
    FreshUUIDs,    \* the controller never reuses a UUID for a later write
    MaxPuts        \* bound: how often the desired configuration is written

ASSUME ProcsAssumption == NoProc \notin Procs
ASSUME TargetAssumption == Target \in EntryTargets /\ Target # Blank
ASSUME FlagsAssumption == RealMode \in BOOLEAN /\ FreshUUIDs \in BOOLEAN
ASSUME BoundAssumption == MaxPuts \in Nat

VARIABLES
    kv,       \* the desired configuration stored under Target, or NoEntry
    puts,     \* history: every record ever written under Target
    device,   \* the record whose rendered commands the device last committed
    disk,     \* the local checkpoint file (state.State)
    mu,       \* Service.mu: the goroutine holding it, or NoProc
    pc,       \* where each goroutine stands in Handle or Reconcile
    kind,     \* which entry point it called
    msg,      \* the notification (Reconcile: the one it builds)
    desired,  \* the record it loaded
    local,    \* AppliedUUID of the checkpoint it loaded
    code,     \* the error code of the failure it reports
    err,      \* whether its return value is a non-nil error
    sent,     \* the success and failure messages the bus accepted from the call
    effects   \* what the call changed outside itself

world == <<kv, puts, device, disk>>
locals == <<kind, msg, desired, local, err, sent, effects>>
vars == <<kv, puts, device, disk, mu, pc, kind, msg, desired, local, code,
          err, sent, effects>>

-----------------------------------------------------------------------------
(* Records                                                                 *)

Entry == [rev : Nat, target : EntryTargets, uuid : EntryUUIDs]
NoEntry == [rev |-> 0, target |-> Blank, uuid |-> Blank]

\* state.State: the target and UUID of the last checkpoint; both blank when the
\* file does not exist.  AppliedAt is never read.
Checkpoint == [target : EntryTargets \cup {Blank}, uuid : EntryUUIDs \cup {Blank}]
NoCheckpoint == [target |-> Blank, uuid |-> Blank]

\* A notification names the target and the UUID to configure.  It is delivered
\* on Target's subject; its body may lack either field.
Notification == [target : {Target, Blank}, uuid : EntryUUIDs \cup {Blank}]
Message == [target : EntryTargets \cup {Blank}, uuid : EntryUUIDs \cup {Blank}]
NoMessage == [target |-> Blank, uuid |-> Blank]

FailureCodes ==
    {"notification_target_invalid", "notification_uuid_invalid",
     "status_publish_failed", "load_desired_failed", "desired_config_missing",
     "desired_target_invalid", "desired_uuid_invalid",
     "desired_target_mismatch", "desired_uuid_mismatch", "state_load_failed",
     "result_publish_failed", "render_failed", "apply_failed",
     "state_save_failed"}
NoCode == "none"

RunningStages == {"received", "loading_desired", "rendering", "rendered", "applying"}
PCs == RunningStages \cup
    {"idle", "lock", "load_desired", "load_state", "in_sync_status",
     "in_sync_result", "render", "apply", "save", "applied_status",
     "applied_result", "fail_status", "fail_result", "degraded", "return"}
SuccessMessages == {"success_status", "success_result"}
FailureMessages == {"failure_status", "failure_result"}

-----------------------------------------------------------------------------
(* Control flow                                                            *)

Goto(p, label) ==
    /\ pc' = [pc EXCEPT ![p] = label]
    /\ UNCHANGED code

\* Service.fail: the failure status and the failure result with this code come next.
Fail(p, c) ==
    /\ pc' = [pc EXCEPT ![p] = "fail_status"]
    /\ code' = [code EXCEPT ![p] = c]

\* Mutant: the service forgets its mutex.
NoMutex(p) == TRUE

\* The mutex is free for p to take.
LockIsFree(p) == mu = NoProc

\* localState.AppliedUUID == desired.Record.UUID
InSync(uuid, entry) == uuid = entry.uuid

\* What Handle finds wrong with the notification itself, in the code's order.
NotificationFault(m) ==
    IF m.target = Blank THEN "notification_target_invalid"
    ELSE IF m.uuid = Blank THEN "notification_uuid_invalid"
    ELSE NoCode

\* Mutant: the record's UUID is not compared with the notification's.
DesiredFaultWithoutUUID(m, e) ==
    IF e.target = Blank THEN "desired_target_invalid"
    ELSE IF e.uuid = Blank THEN "desired_uuid_invalid"
    ELSE IF e.target # m.target THEN "desired_target_mismatch"
    ELSE NoCode

\* What Handle finds wrong with the record it loaded, in the code's order.
DesiredFault(m, e) ==
    IF e.target = Blank THEN "desired_target_invalid"
    ELSE IF e.uuid = Blank THEN "desired_uuid_invalid"
    ELSE IF e.target # m.target THEN "desired_target_mismatch"
    ELSE IF e.uuid # m.uuid THEN "desired_uuid_mismatch"
    ELSE NoCode

\* Mutant: the checkpoint is saved before the apply.
AfterRunningSaveFirst(stage) ==
    CASE stage = "received" -> "loading_desired"
      [] stage = "loading_desired" -> "load_desired"
      [] stage = "rendering" -> "render"
      [] stage = "rendered" -> "applying"
      [] OTHER -> "save"

\* What follows each running status once the bus accepted it.
AfterRunning(stage) ==
    CASE stage = "received" -> "loading_desired"
      [] stage = "loading_desired" -> "load_desired"
      [] stage = "rendering" -> "render"
      [] stage = "rendered" -> "applying"
      [] OTHER -> "apply"

\* Mutant: the two fields of the checkpoint are swapped.
SwappedCheckpoint(p) == [target |-> desired[p].uuid, uuid |-> msg[p].target]

\* nextState, the checkpoint to save, in processDesiredConfigLocked
NextCheckpoint(p) == [target |-> msg[p].target, uuid |-> desired[p].uuid]

Init ==
    /\ kv = NoEntry
    /\ puts = {}
    /\ device = NoEntry
    /\ disk = NoCheckpoint
    /\ mu = NoProc
    /\ pc = [p \in Procs |-> "idle"]
    /\ kind = [p \in Procs |-> "handle"]
    /\ msg = [p \in Procs |-> NoMessage]
    /\ desired = [p \in Procs |-> NoEntry]
    /\ local = [p \in Procs |-> Blank]
    /\ code = [p \in Procs |-> NoCode]
    /\ err = [p \in Procs |-> FALSE]
    /\ sent = [p \in Procs |-> {}]
    /\ effects = [p \in Procs |-> {}]

-----------------------------------------------------------------------------
(* The environment: the controller, the bus and process crashes            *)

\* The controller writes a new desired configuration under Target.
Put ==
    /\ Cardinality(puts) < MaxPuts
    /\ \E t \in EntryTargets, u \in EntryUUIDs :
          LET e == [rev |-> Cardinality(puts) + 1, target |-> t, uuid |-> u]
          IN  /\ FreshUUIDs /\ u # Blank => \A f \in puts : f.uuid # u
              /\ kv' = e
              /\ puts' = puts \cup {e}
    /\ UNCHANGED <<device, disk, mu, pc, code>>
    /\ UNCHANGED locals

\* The desired configuration is deleted or expires.
Purge ==
    /\ kv # NoEntry
    /\ kv' = NoEntry
    /\ UNCHANGED <<puts, device, disk, mu, pc, code>>
    /\ UNCHANGED locals

\* A notification reaches Handle on a goroutine of its own.  Any notification
\* may arrive at any time: early, late, twice, for a superseded UUID, malformed.
Notify(p) ==
    /\ pc[p] = "idle"
    /\ \E m \in Notification : msg' = [msg EXCEPT ![p] = m]
    /\ kind' = [kind EXCEPT ![p] = "handle"]
    /\ Goto(p, "lock")
    /\ UNCHANGED <<mu, desired, local, err, sent, effects>>
    /\ UNCHANGED world

\* Startup, or a reconnect, calls Reconcile.
StartReconcile(p) ==
    /\ pc[p] = "idle"
    /\ kind' = [kind EXCEPT ![p] = "reconcile"]
    /\ Goto(p, "lock")
    /\ UNCHANGED <<mu, msg, desired, local, err, sent, effects>>
    /\ UNCHANGED world

\* Every call dies with the process: its goroutine's locals and the mutex are gone.
ForgetCalls ==
    /\ mu' = NoProc
    /\ pc' = [p \in Procs |-> "idle"]
    /\ kind' = [p \in Procs |-> "handle"]
    /\ msg' = [p \in Procs |-> NoMessage]
    /\ desired' = [p \in Procs |-> NoEntry]
    /\ local' = [p \in Procs |-> Blank]
    /\ code' = [p \in Procs |-> NoCode]
    /\ err' = [p \in Procs |-> FALSE]
    /\ sent' = [p \in Procs |-> {}]
    /\ effects' = [p \in Procs |-> {}]

\* The process dies and restarts.  A commit or a rename in flight may or may not
\* have happened.
Crash ==
    /\ \E p \in Procs : pc[p] # "idle"
    /\ \/ UNCHANGED device
       \/ \E p \in Procs : pc[p] = "apply" /\ device' = desired[p]
    /\ \/ UNCHANGED disk
       \/ \E p \in Procs : pc[p] = "save" /\ disk' = NextCheckpoint(p)
    /\ ForgetCalls
    /\ UNCHANGED <<kv, puts>>

-----------------------------------------------------------------------------
(* The locked region                                                       *)

\* s.mu.Lock(), and Handle's checks of the notification.
LockHandle(p) ==
    /\ pc[p] = "lock" /\ kind[p] = "handle"
    /\ LockIsFree(p)
    /\ mu' = p
    /\ \/ NotificationFault(msg[p]) = NoCode /\ Goto(p, "received")
       \/ NotificationFault(msg[p]) # NoCode /\ Fail(p, NotificationFault(msg[p]))
    /\ UNCHANGED world /\ UNCHANGED locals

LockReconcile(p) ==
    /\ pc[p] = "lock" /\ kind[p] = "reconcile"
    /\ LockIsFree(p)
    /\ mu' = p
    /\ Goto(p, "load_state")
    /\ UNCHANGED world /\ UNCHANGED locals

\* publishStatus(ctx, msg, "running", stage, ...)
PublishRunning(p) ==
    /\ pc[p] \in RunningStages
    /\ \/ Goto(p, AfterRunning(pc[p]))
       \/ Fail(p, "status_publish_failed")
    /\ UNCHANGED mu /\ UNCHANGED world /\ UNCHANGED locals

\* Handle: LoadDesiredConfig and the checks of the record.  A missing key comes
\* back as an error or as a nil record.
HandleLoadDesired(p) ==
    /\ pc[p] = "load_desired" /\ kind[p] = "handle"
    /\ \/ /\ Fail(p, "load_desired_failed")
          /\ UNCHANGED desired
       \/ /\ kv = NoEntry
          /\ Fail(p, "desired_config_missing")
          /\ UNCHANGED desired
       \/ /\ kv # NoEntry
          /\ desired' = [desired EXCEPT ![p] = kv]
          /\ \/ DesiredFault(msg[p], kv) = NoCode /\ Goto(p, "load_state")
             \/ DesiredFault(msg[p], kv) # NoCode /\ Fail(p, DesiredFault(msg[p], kv))
    /\ UNCHANGED <<mu, kind, msg, local, err, sent, effects>>
    /\ UNCHANGED world

\* Handle: stateStore.Load and the comparison with the desired UUID.
HandleLoadState(p) ==
    /\ pc[p] = "load_state" /\ kind[p] = "handle"
    /\ \/ /\ Fail(p, "state_load_failed")
          /\ UNCHANGED local
       \/ /\ local' = [local EXCEPT ![p] = disk.uuid]
          /\ \/ InSync(disk.uuid, desired[p]) /\ Goto(p, "in_sync_status")
             \/ ~InSync(disk.uuid, desired[p]) /\ Goto(p, "rendering")
    /\ UNCHANGED <<mu, kind, msg, desired, err, sent, effects>>
    /\ UNCHANGED world

\* Reconcile: stateStore.Load comes first.
ReconcileLoadState(p) ==
    /\ pc[p] = "load_state" /\ kind[p] = "reconcile"
    /\ \/ /\ Goto(p, "degraded")
          /\ UNCHANGED local
       \/ /\ local' = [local EXCEPT ![p] = disk.uuid]
          /\ Goto(p, "load_desired")
    /\ UNCHANGED <<mu, kind, msg, desired, err, sent, effects>>
    /\ UNCHANGED world

\* Reconcile: LoadDesiredConfig.  A missing record and one already in sync end
\* the call silently; otherwise the record itself becomes the message, unchecked.
ReconcileLoadDesired(p) ==
    /\ pc[p] = "load_desired" /\ kind[p] = "reconcile"
    /\ \/ /\ Goto(p, "degraded")
          /\ UNCHANGED <<desired, msg>>
       \/ /\ kv = NoEntry
          /\ Goto(p, "return")
          /\ UNCHANGED <<desired, msg>>
       \/ /\ kv # NoEntry
          /\ desired' = [desired EXCEPT ![p] = kv]
          /\ \/ /\ InSync(local[p], kv)
                /\ Goto(p, "return")
                /\ UNCHANGED msg
             \/ /\ ~InSync(local[p], kv)
                /\ msg' = [msg EXCEPT ![p] = [target |-> kv.target, uuid |-> kv.uuid]]
                /\ Goto(p, "rendering")
    /\ UNCHANGED <<mu, kind, local, err, sent, effects>>
    /\ UNCHANGED world

-----------------------------------------------------------------------------
(* processDesiredConfigLocked                                              *)

\* The placeholder renderer refuses a record without target or UUID; what the
\* VyOS renderer refuses is its own business.
Renderable(e) == RealMode \/ (e.target # Blank /\ e.uuid # Blank)

Render(p) ==
    /\ pc[p] = "render"
    /\ \/ Renderable(desired[p]) /\ Goto(p, "rendered")
       \/ Fail(p, "render_failed")
    /\ UNCHANGED mu /\ UNCHANGED world /\ UNCHANGED locals

\* applyEngine.Apply.  The VyOS engine may commit and fail afterwards (the save,
\* the answer, a cancelled context); the placeholder fails without effect.
Apply(p) ==
    /\ pc[p] = "apply"
    /\ \/ /\ device' = desired[p]
          /\ effects' = [effects EXCEPT ![p] = @ \cup {"device"}]
          /\ \/ Goto(p, "save")
             \/ RealMode /\ Fail(p, "apply_failed")
       \/ /\ Fail(p, "apply_failed")
          /\ UNCHANGED <<device, effects>>
    /\ UNCHANGED <<kv, puts, disk, mu, kind, msg, desired, local, err, sent>>

\* stateStore.Save.  FileStore.Save also reports an error when it cannot sync the
\* directory, after the rename has put the new checkpoint in place.
Save(p) ==
    /\ pc[p] = "save"
    /\ \/ /\ disk' = NextCheckpoint(p)
          /\ \/ /\ Goto(p, "applied_status")
                /\ effects' = [effects EXCEPT ![p] = @ \cup {"checkpoint", "saved"}]
             \/ /\ Fail(p, "state_save_failed")
                /\ effects' = [effects EXCEPT ![p] = @ \cup {"checkpoint"}]
       \/ /\ Fail(p, "state_save_failed")
          /\ UNCHANGED <<disk, effects>>
    /\ UNCHANGED <<kv, puts, device, mu, kind, msg, desired, local, err, sent>>

-----------------------------------------------------------------------------
(* Reports                                                                 *)

\* publishStatus or publishSuccessResult / publishFailureResult: the bus accepts
\* the message, or the call returns an error.
Accepted(p, m) == sent' = [sent EXCEPT ![p] = @ \cup {m}]

\* Already in sync: each publish error turns the report into a failure.
InSyncStatus(p) ==
    /\ pc[p] = "in_sync_status"
    /\ \/ Accepted(p, "success_status") /\ Goto(p, "in_sync_result")
       \/ Fail(p, "status_publish_failed") /\ UNCHANGED sent
    /\ UNCHANGED <<mu, kind, msg, desired, local, err, effects>>
    /\ UNCHANGED world

InSyncResult(p) ==
    /\ pc[p] = "in_sync_result"
    /\ \/ Accepted(p, "success_result") /\ Goto(p, "return")
       \/ Fail(p, "result_publish_failed") /\ UNCHANGED sent
    /\ UNCHANGED <<mu, kind, msg, desired, local, err, effects>>
    /\ UNCHANGED world

\* Mutant: a status lost after the checkpoint is a failure like any other.
AppliedStatusFails(p) ==
    /\ UNCHANGED err
    /\ Fail(p, "status_publish_failed")

\* Mutant: a status lost after the checkpoint is forgotten.
AppliedStatusForgotten(p) ==
    /\ UNCHANGED err
    /\ Goto(p, "applied_result")

\* After the checkpoint: the result is published whatever became of the status,
\* and a publish error is only returned (reportingFailure).
AppliedStatusLost(p) ==
    /\ err' = [err EXCEPT ![p] = TRUE]
    /\ Goto(p, "applied_result")

AppliedStatus(p) ==
    /\ pc[p] = "applied_status"
    /\ \/ Accepted(p, "success_status") /\ Goto(p, "applied_result") /\ UNCHANGED err
       \/ AppliedStatusLost(p) /\ UNCHANGED sent
    /\ UNCHANGED <<mu, kind, msg, desired, local, effects>>
    /\ UNCHANGED world

AppliedResult(p) ==
    /\ pc[p] = "applied_result"
    /\ Goto(p, "return")
    /\ \/ Accepted(p, "success_result") /\ UNCHANGED err
       \/ err' = [err EXCEPT ![p] = TRUE] /\ UNCHANGED sent
    /\ UNCHANGED <<mu, kind, msg, desired, local, effects>>
    /\ UNCHANGED world

\* Service.fail publishes both messages, each attempted whatever became of the other.
FailStatus(p) ==
    /\ pc[p] = "fail_status"
    /\ Goto(p, "fail_result")
    /\ err' = [err EXCEPT ![p] = TRUE]
    /\ Accepted(p, "failure_status") \/ UNCHANGED sent
    /\ UNCHANGED <<mu, kind, msg, desired, local, effects>>
    /\ UNCHANGED world

FailResult(p) ==
    /\ pc[p] = "fail_result"
    /\ Goto(p, "return")
    /\ Accepted(p, "failure_result") \/ UNCHANGED sent
    /\ UNCHANGED <<mu, kind, msg, desired, local, err, effects>>
    /\ UNCHANGED world

\* Reconcile could not read the checkpoint or the KV store: a failure status, no result.
PublishDegraded(p) ==
    /\ pc[p] = "degraded"
    /\ Goto(p, "return")
    /\ err' = [err EXCEPT ![p] = TRUE]
    /\ Accepted(p, "failure_status") \/ UNCHANGED sent
    /\ UNCHANGED <<mu, kind, msg, desired, local, effects>>
    /\ UNCHANGED world

\* The call returns: the deferred s.mu.Unlock() runs and the goroutine's locals die.
Return(p) ==
    /\ pc[p] = "return"
    /\ mu' = NoProc
    /\ pc' = [pc EXCEPT ![p] = "idle"]
    /\ kind' = [kind EXCEPT ![p] = "handle"]
    /\ msg' = [msg EXCEPT ![p] = NoMessage]
    /\ desired' = [desired EXCEPT ![p] = NoEntry]
    /\ local' = [local EXCEPT ![p] = Blank]
    /\ code' = [code EXCEPT ![p] = NoCode]
    /\ err' = [err EXCEPT ![p] = FALSE]
    /\ sent' = [sent EXCEPT ![p] = {}]
    /\ effects' = [effects EXCEPT ![p] = {}]
    /\ UNCHANGED world

-----------------------------------------------------------------------------
(* Specification                                                           *)

Lock(p) == LockHandle(p) \/ LockReconcile(p)

\* The steps of a goroutine that holds the mutex.
LockedStep(p) ==
    \/ PublishRunning(p)
    \/ HandleLoadDesired(p) \/ HandleLoadState(p)
    \/ ReconcileLoadState(p) \/ ReconcileLoadDesired(p)
    \/ Render(p) \/ Apply(p) \/ Save(p)
    \/ InSyncStatus(p) \/ InSyncResult(p)
    \/ AppliedStatus(p) \/ AppliedResult(p)
    \/ FailStatus(p) \/ FailResult(p) \/ PublishDegraded(p)
    \/ Return(p)

Next ==
    \/ Put \/ Purge \/ Crash
    \/ \E p \in Procs : Notify(p) \/ StartReconcile(p) \/ Lock(p) \/ LockedStep(p)

\* Every call to another component returns (each is given a context, and the KV
\* and bus calls have timeouts), and sync.Mutex hands itself to a goroutine that
\* has waited too long (starvation mode), hence strong fairness of Lock.
Fairness == \A p \in Procs : WF_vars(LockedStep(p)) /\ SF_vars(Lock(p))

Spec == Init /\ [][Next]_vars /\ Fairness

-----------------------------------------------------------------------------
(* Properties                                                              *)

\* Every variable has its type; only known failure codes are ever reported.
TypeOK ==
    /\ kv \in Entry \cup {NoEntry}
    /\ puts \subseteq Entry
    /\ device \in Entry \cup {NoEntry}
    /\ disk \in Checkpoint
    /\ mu \in Procs \cup {NoProc}
    /\ pc \in [Procs -> PCs]
    /\ kind \in [Procs -> {"handle", "reconcile"}]
    /\ msg \in [Procs -> Message]
    /\ desired \in [Procs -> Entry \cup {NoEntry}]
    /\ local \in [Procs -> EntryUUIDs \cup {Blank}]
    /\ code \in [Procs -> FailureCodes \cup {NoCode}]
    /\ err \in [Procs -> BOOLEAN]
    /\ sent \in [Procs -> SUBSET (SuccessMessages \cup FailureMessages)]
    /\ effects \in [Procs -> SUBSET {"device", "checkpoint", "saved"}]

\* The device never goes back to an older desired configuration, whatever
\* notifications, reconciles and crashes interleave: a record is loaded and
\* applied under one mutex hold (service.go:90 "so local applied UUID
\* load/apply/save remains ordered").
NoRollback == [][device'.rev >= device.rev]_vars

\* The checkpoint names a configuration the device has already run, never one it
\* has yet to run: a restart that finds its desired UUID there may skip the apply.
CheckpointWasApplied ==
    disk # NoCheckpoint =>
        \E e \in puts : /\ e.target = disk.target /\ e.uuid = disk.uuid
                        /\ e.rev <= device.rev

\* The service never renders or applies a configuration the checkpoint already
\* names: a duplicate notification, or a reconcile racing the notification of the
\* same write, does not commit twice.
NoReapplyOfCheckpoint ==
    \A p \in Procs :
        pc[p] \in {"rendering", "render", "rendered", "applying", "apply"} =>
            disk.uuid # desired[p].uuid

\* A success message tells the truth when it is published: the device runs the
\* very record the message names, and the checkpoint says so too.
SuccessIsTrue ==
    \A p \in Procs : sent[p] \cap SuccessMessages # {} =>
        /\ device = desired[p]
        /\ disk.uuid = desired[p].uuid
        /\ desired[p].uuid = msg[p].uuid

\* A call whose checkpoint was saved reports no failure: a later publish error
\* becomes a warning and an error return (reportingFailure), because a failure
\* result would invite the controller to redo what the checkpoint makes a no-op.
NoFailureAfterSave ==
    \A p \in Procs : "saved" \in effects[p] => sent[p] \cap FailureMessages = {}

\* A nil return means the agent agrees with the record the call read: the device
\* runs it and the checkpoint names it; and Handle's controller was told so, by
\* both messages.  (Records without UUID excepted: a blank one equals an empty
\* checkpoint.)
NilMeansInSync ==
    \A p \in Procs : pc[p] = "return" /\ ~err[p] =>
        /\ desired[p].uuid # Blank =>
              device = desired[p] /\ disk.uuid = desired[p].uuid
        /\ kind[p] = "handle" => sent[p] = SuccessMessages

\* The failure code tells the controller how far the call went: every code but
\* apply_failed and state_save_failed promises that the device and the
\* checkpoint are as the call found them.
FailureCodeTellsHowFar ==
    \A p \in Procs :
        code[p] \notin {NoCode, "apply_failed", "state_save_failed"} => effects[p] = {}

\* What a checkpoint keeps of a record.
NameOf(e) == [target |-> e.target, uuid |-> e.uuid]

\* The service implements DesiredSync: whatever the interleaving, each step commits
\* a desired record no older than the running one and not yet checkpointed, or
\* checkpoints the record the device runs, or changes neither.
Promise == INSTANCE DesiredSync WITH
    Nothing <- NoEntry, Name <- NameOf,
    desirable <- puts, running <- device, checkpoint <- disk
KeepsPromise == Promise!Spec

-----------------------------------------------------------------------------
(* Claims of the documentation that the code does not keep                 *)

\* README.md:144, SPEC.md:584: a call that reports a failure has not checkpointed
\* the UUID.
FailedCallDidNotCheckpoint ==
    \A p \in Procs : sent[p] \cap FailureMessages # {} => "checkpoint" \notin effects[p]

\* SPEC.md:596 and SPEC.md:609: no failure is published for a UUID whose success
\* is on record; one call never reports both.
NoMixedOutcome ==
    \A p \in Procs : ~(sent[p] \cap SuccessMessages # {} /\ sent[p] \cap FailureMessages # {})

\* README.md:346: notifications and reconciliation passes verify the target, so the
\* device only ever runs records of this agent's target.
OnlyOwnTarget == device # NoEntry => device.target = Target

=============================================================================
