----------------------------- MODULE AgentSystem -----------------------------
(***************************************************************************)
(* The whole configure path: the controller that writes the desired        *)
(* configuration and then notifies, the NATS bus, the agent process with   *)
(* its startup (internal/agent/lifecycle.go), its notification handler     *)
(* and its reconnect callback (internal/agent/agent.go), the configure     *)
(* service they all call (ConfigureService), and the machine, whose boot   *)
(* configuration and state file outlive the process.                       *)
(*                                                                         *)
(* The connection drops and comes back, the process and the machine        *)
(* restart, and calls to other components fail, each a bounded number of   *)
(* times.  A notification reaches the agent only while it is subscribed    *)
(* and connected; nobody sends it again.                                   *)
(***************************************************************************)
EXTENDS Naturals, Sequences, FiniteSets, Functions

CONSTANTS
    Handler,       \* the goroutine that runs the subscription's handler
    Main,          \* the goroutine that runs Runtime.Run
    Passes,        \* the goroutines of reconnect reconciliation passes
    NoProc,        \* the owner of the unlocked mutex
    Blank,         \* the empty string
    Target,        \* agent.target
    UUIDs,         \* the UUIDs of the desired configurations, in the order written
    Setups,        \* the configurations of the agent considered
    MaxFaults,     \* bound: how many calls and messages fail while connected
    MaxOutages     \* bound, of each setup: drops, process crashes and reboots together

\* save: agent.apply.save_after_commit.  persistent: agent.state_file is on a file
\* system that a reboot of the machine does not clear.
ASSUME SetupsAssumption == Setups \subseteq [save : BOOLEAN, persistent : BOOLEAN]
ASSUME ProcsAssumption ==
    /\ Main # Handler /\ {Main, Handler} \cap Passes = {}
    /\ NoProc \notin {Main, Handler} \cup Passes
\* agent.target is required (internal/config).
ASSUME TargetAssumption == Target # Blank
ASSUME UUIDsAssumption ==
    /\ UUIDs \in Seq(Range(UUIDs))
    /\ \A i, j \in DOMAIN UUIDs : UUIDs[i] = UUIDs[j] => i = j
ASSUME BoundsAssumption == MaxFaults \in Nat /\ MaxOutages \in [Setups -> Nat]

VARIABLES
    kv, puts, device, disk, mu, pc, kind, msg, desired, local, code, err, sent,
    effects,   \* the configure service and its world: see ConfigureService
    agent,     \* the process: "down", "subscribed" (client started), "up"
    linked,    \* whether the machine reaches the NATS servers
    unsent,    \* written configurations whose notification is not yet published
    bus,       \* notifications on their way to the handler, in order
    boot,      \* the record in the device's boot configuration
    answered,  \* the records whose success result reached the controller (history)
    setup,     \* the agent's configuration
    faults,    \* how many of the failures of calls and messages are used up
    outages    \* how many of the drops, crashes and reboots are used up

service == <<kv, puts, device, disk, mu, pc, kind, msg, desired, local, code,
             err, sent, effects>>
vars == <<service, agent, linked, unsent, bus, boot, answered, setup, faults, outages>>

Procs == {Handler, Main} \cup Passes

\* Bound: each UUID is written once.
MaxPuts == Len(UUIDs)

CS == INSTANCE ConfigureService WITH
    EntryTargets <- {Target}, EntryUUIDs <- Range(UUIDs),
    RealMode <- TRUE, FreshUUIDs <- TRUE

\* A behaviour may have fewer faults and outages than the bounds allow: the others
\* are used up from the start.
Init ==
    /\ CS!Init
    /\ agent = "down"
    /\ linked = TRUE
    /\ unsent = {}
    /\ bus = <<>>
    /\ boot = CS!NoEntry
    /\ answered = {}
    /\ setup \in Setups
    /\ faults \in 0 .. MaxFaults
    /\ outages \in 0 .. MaxOutages[setup]

\* Mutant: the notification's two fields are swapped.
SwappedNotification(e) == [target |-> e.uuid, uuid |-> e.target]

\* What the notification of a record says.
NotificationOf(e) == [target |-> e.target, uuid |-> e.uuid]

-----------------------------------------------------------------------------
(* The controller and the bus                                              *)

\* The controller writes a desired configuration.
Write ==
    /\ CS!Put /\ kv'.uuid = UUIDs[kv'.rev]
    /\ unsent' = unsent \cup {kv'}
    /\ UNCHANGED <<agent, linked, bus, boot, answered, setup, faults, outages>>

\* It then publishes the notification; two writers may publish in either order.
\* Only a connected, subscribed agent receives it.
Publish ==
    /\ \E e \in unsent :
          /\ unsent' = unsent \ {e}
          /\ bus' = IF linked /\ agent # "down" THEN Append(bus, NotificationOf(e)) ELSE bus
    /\ UNCHANGED service
    /\ UNCHANGED <<agent, linked, boot, answered, setup, faults, outages>>

\* The subscription's goroutine takes the next notification once the handler has
\* returned from the one before (handler_mode: sync).
Deliver ==
    /\ agent # "down" /\ bus # <<>>
    /\ CS!Notify(Handler) /\ msg'[Handler] = Head(bus)
    /\ bus' = Tail(bus)
    /\ UNCHANGED <<agent, linked, unsent, boot, answered, setup, faults, outages>>

-----------------------------------------------------------------------------
(* Startup, and the connection                                             *)

\* registerHandlers and client.Start: from here on notifications arrive.  Without a
\* connection client.Start fails, the process exits and is started again
\* (retry_on_failed_connect is refused).
StartClient ==
    /\ agent = "down" /\ linked
    /\ agent' = "subscribed"
    /\ UNCHANGED service
    /\ UNCHANGED <<linked, unsent, bus, boot, answered, setup, faults, outages>>

\* Mutant: startup skips the reconcile.
NoStartupReconcile == UNCHANGED service

\* Start: the startup status was published, and Reconcile is called.  What it
\* returns is only logged: the process stays up.
StartupReconcile == CS!StartReconcile(Main)

FinishStart ==
    /\ agent = "subscribed"
    /\ StartupReconcile
    /\ agent' = "up"
    /\ UNCHANGED <<linked, unsent, bus, boot, answered, setup, faults, outages>>

\* Mutant: the reconnect callback starts no pass.
NoReconnectPass == UNCHANGED service

\* The reconnect callback starts a reconciliation pass on a goroutine of its own.
ReconnectPass == \E p \in Passes : CS!StartReconcile(p)

\* The client reconnects, for ever (max_reconnects: -1), restores its subscription
\* and calls the callback; without a running client only the network is back.
Reconnect ==
    /\ ~linked
    /\ linked' = TRUE
    /\ IF agent = "down" THEN UNCHANGED service ELSE ReconnectPass
    /\ UNCHANGED <<agent, unsent, bus, boot, answered, setup, faults, outages>>

-----------------------------------------------------------------------------
(* The configure service's steps, in this environment                      *)

Steps(p) == CS!Lock(p) \/ CS!LockedStep(p)

\* A step that ends the call with a failure some other component caused; that a
\* newer record supersedes the notification (desired_uuid_mismatch) is not one.
CallFails(p) ==
    /\ pc[p] \notin {"fail_status", "degraded"}
    /\ pc'[p] \in {"fail_status", "degraded"}
    /\ code'[p] # "desired_uuid_mismatch"

\* The bus did not accept a final message.
MessageLost(p) ==
    /\ pc[p] \in {"applied_status", "applied_result", "fail_status", "fail_result", "degraded"}
    /\ sent'[p] = sent[p]

\* The KV bucket cannot be read without a connection.
KVReadable(p) == pc[p] = "load_desired" /\ ~linked => CallFails(p)

\* Mutant: the apply engine commits without saving.
NeverSaves == FALSE

\* vyosapply.WithSaveAfterCommit: a successful apply has also saved the boot
\* configuration, and a failing one may have.
SavesBoot == setup.save

BootAfterStep(p) ==
    IF pc[p] # "apply" \/ ~SavesBoot THEN {boot}
    ELSE IF pc'[p] = "save" THEN {desired[p]}
    ELSE IF device' = desired[p] THEN {boot, desired[p]}
    ELSE {boot}

\* A result published over a connection reaches the controller.
AnsweredAfterStep(p) ==
    IF linked /\ "success_result" \in sent'[p] \ sent[p]
    THEN answered \cup {desired[p]} ELSE answered

ServiceStep(p) ==
    /\ Steps(p)
    /\ KVReadable(p)
    /\ IF linked /\ (CallFails(p) \/ MessageLost(p))
       THEN faults < MaxFaults /\ faults' = faults + 1
       ELSE UNCHANGED faults
    /\ boot' \in BootAfterStep(p)
    /\ answered' = AnsweredAfterStep(p)
    /\ UNCHANGED <<agent, linked, unsent, bus, setup, outages>>

-----------------------------------------------------------------------------
(* Outages                                                                 *)

Outage == outages < MaxOutages[setup] /\ outages' = outages + 1

\* The connection drops: notifications the client does not hold yet are lost.
Drop ==
    /\ linked /\ Outage
    /\ linked' = FALSE
    /\ \E n \in 0 .. Len(bus) : bus' = SubSeq(bus, 1, n)
    /\ UNCHANGED service
    /\ UNCHANGED <<agent, unsent, boot, answered, setup, faults>>

\* What an apply in flight may still save when its process goes down.
BootAfterCrash ==
    {boot} \cup {desired[p] : p \in {q \in Procs :
                    SavesBoot /\ pc[q] = "apply" /\ device' = desired[q]}}

\* The process dies: a signal, a panic, or Start giving up because the startup
\* status could not be published.  Its supervisor starts it again.
ProcessCrash ==
    /\ agent # "down" /\ Outage
    /\ IF \A p \in Procs : pc[p] = "idle" THEN UNCHANGED service ELSE CS!Crash
    /\ boot' \in BootAfterCrash
    /\ agent' = "down"
    /\ bus' = <<>>
    /\ UNCHANGED <<linked, unsent, answered, setup, faults>>

\* Mutant: the state file outlives the reboot wherever it is.
KeptFile == disk

\* What a reboot leaves of the state file.
DiskAfterReboot == IF setup.persistent THEN disk ELSE CS!NoCheckpoint

\* The machine reboots, a step in flight having taken effect or not: the device
\* comes back with its boot configuration.
Reboot ==
    /\ Outage
    /\ device' = boot
    /\ disk' = DiskAfterReboot
    /\ CS!ForgetCalls
    /\ agent' = "down"
    /\ bus' = <<>>
    /\ UNCHANGED <<kv, puts, linked, unsent, boot, answered, setup, faults>>

-----------------------------------------------------------------------------

Next ==
    \/ Write \/ Publish \/ Deliver
    \/ StartClient \/ FinishStart \/ Reconnect
    \/ \E p \in Procs : ServiceStep(p)
    \/ Drop \/ ProcessCrash \/ Reboot

\* A supervisor restarts the process, the client reconnects for ever, published
\* notifications are delivered, every call returns (one goroutine at a time holds the
\* mutex and takes steps), and the mutex is not barged for ever.  Nothing obliges
\* the controller to write or a fault to happen.
Fairness ==
    /\ WF_vars(Publish) /\ WF_vars(Deliver)
    /\ WF_vars(StartClient \/ FinishStart) /\ WF_vars(Reconnect)
    /\ WF_vars(\E p \in Procs : CS!LockedStep(p) /\ ServiceStep(p))
    /\ \A p \in Procs : SF_vars(CS!Lock(p) /\ ServiceStep(p))

Spec == Init /\ [][Next]_vars /\ Fairness

-----------------------------------------------------------------------------
(* Properties                                                              *)

\* Every variable has its type.
TypeOK ==
    /\ CS!TypeOK
    /\ agent \in {"down", "subscribed", "up"}
    /\ linked \in BOOLEAN
    /\ unsent \subseteq puts
    /\ bus \in Seq(CS!Notification)
    /\ boot \in puts \cup {CS!NoEntry}
    /\ answered \subseteq puts
    /\ setup \in Setups
    /\ faults \in 0 .. MaxFaults
    /\ outages \in 0 .. MaxOutages[setup]

\* The one test that lets startup, a reconnect and a duplicate notification skip the
\* apply is right whatever restarts, drops and reboots came before: if the
\* checkpoint names the desired configuration, the device runs it.
SkipIsSafe == kv # CS!NoEntry /\ CS!InSync(disk.uuid, kv) => device = kv

\* With save_after_commit, the controller is told of a success only for a
\* configuration that the machine would also boot with.
AnsweredIsDurable == setup.save => \A e \in answered : e.rev <= boot.rev

\* The system implements DurableSync: whatever drops, crashes and reboots interleave, what
\* the device runs, would boot with, remembers and reports success for stay in step.
Promise == INSTANCE DurableSync WITH
    Nothing <- CS!NoEntry, NoCheckpoint <- CS!NoCheckpoint, Name <- CS!NameOf,
    desirable <- puts, running <- device, checkpoint <- disk,
    durable <- setup.save, bootable <- boot
IsDurableSync == Promise!Spec

\* Something the agent will still react to concerns the desired configuration: a
\* notification of it, a reconnect, a startup, or a pass that has yet to look.
Owed ==
    \/ ~linked \/ agent # "up"
    \/ kv \in unsent
    \/ \E i \in 1 .. Len(bus) : bus[i].uuid = kv.uuid
    \/ \E p \in Procs : pc[p] = "lock" /\ (kind[p] = "handle" => msg[p].uuid = kv.uuid)

AgentHas(e) == device = e /\ disk = CS!NameOf(e)

\* No call fails and no message is lost any more, except for want of a connection.
NoMoreFaults == faults = MaxFaults
NoMoreOutages == outages = MaxOutages[setup]

\* Convergence (SPEC.md:577 "converges from only the latest desired config",
\* README.md:20-21): whatever failed before, once calls stop failing the next
\* notification, reconnect or restart brings the desired configuration last
\* written to the device and into the checkpoint, however notifications, their
\* losses and the remaining outages interleave.
Converges == NoMoreFaults /\ kv # CS!NoEntry /\ Owed ~> AgentHas(kv)

\* SPEC.md:603: a configuration still to be applied is also answered with a success
\* result, whether its notification arrives or only a reconciliation pass finds it;
\* outages must be over, because a checkpointed configuration whose result
\* was lost is never reported again.
WritesAreAnswered ==
    NoMoreFaults /\ NoMoreOutages /\ linked /\ kv # CS!NoEntry /\ disk.uuid # kv.uuid /\ Owed
        ~> kv \in answered

-----------------------------------------------------------------------------
(* A claim of the documentation that the code does not keep                *)

\* README.md:20: startup brings the device in line with the latest desired
\* configuration: when the startup reconcile has nothing to report, the
\* device runs the record it read.
StartupSyncs ==
    pc[Main] = "return" /\ ~err[Main] /\ desired[Main] # CS!NoEntry => device = desired[Main]
=============================================================================
