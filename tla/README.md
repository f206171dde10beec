# vyos-nats-agent: specification, model checking and proofs

`vyos-nats-agent` runs on a VyOS router. A controller stores the desired
configuration of each target in a NATS key-value bucket and notifies the agent;
the agent renders it, applies it to the device, remembers the UUID it applied in a
local state file, and reports. It also runs one action, `trace` (tcpdump plus an
upload). This directory specifies that behaviour in TLA+, model-checks it with TLC
on small instances, and proves with TLAPS, for every instance, the safety properties
of every component and of the whole path; liveness stays with TLC (section 5).

All references are to files of the repository: `service.go` alone means
`internal/configure/service.go`, `lifecycle.go` means `internal/agent/lifecycle.go`,
`vyos_trace.go` means `internal/actions/vyos_trace.go`.

## 1. Inventory

| Component | State it keeps | Operations | Interacts with |
|---|---|---|---|
| Configure service (`internal/configure`) | one mutex; nothing else in memory | `Handle` (notification), `Reconcile` (startup, reconnect) | KV store and bus (agentcore), state store, renderer, apply engine |
| State store (`internal/state`) | the checkpoint file `{target, applied_uuid, applied_at}` | `Load`, `Save` (temp file, fsync, rename, directory fsync) | file system |
| Runtime (`internal/agent`) | `started`, `closed`, a context, a WaitGroup, the agentcore client | `New`, `Run`, `Start`, `Close`, the reconnect callback, the handlers | all of the above; signals |
| Action service (`internal/actions/service.go`) | enabled actions and executors, immutable | `Handle` | bus, trace executor |
| Trace executors (`vyos_trace.go`, `placeholder_trace.go`) | one temporary file, one pipe and one goroutine per command | `Execute`, `uploadFile` | tcpdump, the controller's HTTP server |
| Renderers (`internal/renderer`, `internal/renderervyos`) | none | `Render` | the VyOS renderer library (outside the repository) |
| Apply engines (`internal/apply`, `internal/applyvyos`) | none | `Apply` (and `Prepare`) | the VyOS apply library (outside), the device |
| Configuration (`internal/config`) and command line (`cmd/vyos-nats-agent`) | the effective configuration | load, `Validate`, `ToAgentCoreConfig`, redaction, `runConfigCLI` | file system, runtime |
| Logging (`internal/agent/logging.go`) | none | `NewLogger` | |

What is hard, and what makes each part correct:

* **Configure service.** Notifications, the startup pass and reconnect passes run
  concurrently; each reads the KV store and the checkpoint, then applies, saves and
  reports, and any of some fifteen calls can fail or the process can die in between.
  Correct means: the device never goes back to an older record; the checkpoint never
  names what the device has not run; nothing checkpointed is applied again; a success
  report is true; a failure report says how far the call went.
* **State store.** A power loss between any two system calls. Correct means: the file
  always decodes, holds the last saved state or one tried since, and a `nil` from
  `Save` survives the power loss.
* **Runtime.** Shutdown races reconnects, the startup pass and other callers of
  `Close`. Correct means: the client is not closed under a pass, `WaitGroup.Add` never
  races `Wait`, no pass applies after shutdown began, `Run` returns.
* **Actions.** The capture's duration, its packet limit, tcpdump's failure and the
  cancellation race; a goroutine streams the file to a server that may stop
  listening. Correct means: a completed trace was uploaded whole, a cancelled one is
  not reported completed, captures and goroutines end.
* **Engines.** The schema name and version are merged from four places of the payload; the
  apply adapter plans and then applies. Correct means: the most specific declaration wins
  for each, and the device commits the rendering of that record and nothing else.
* **The whole path.** Notifications are lost while the agent is away; connection, process and
  machine fail at any time, and the device, the boot configuration and the
  checkpoint survive different failures. Correct means: a checkpoint that says "in sync"
  is right, and once things stop failing the last configuration written is on the device.
* **Startup.** Four files keep lists of what a configuration may say. Correct means:
  what `Validate` accepts, every later check accepts, and the accepted patterns
  format into subjects that name the target once.

`PROJECT.json` lists every component with its status, and under `hazards` every
place where this can go wrong, with the properties that would notice.

## 2. Modules

| Module | Models | Run by |
|---|---|---|
| `ConfigureService` | `service.go`, with the outcomes of the KV store, the state store, the engines and the bus | `MCConfigureService` |
| `AgentSystem` | controller, bus, process, connection, machine, around the actions of `ConfigureService` | `MCAgentSystem` |
| `DesiredSync` | the abstract specification the configure service implements | property `KeepsPromise` |
| `DurableSync` | the abstract specification `AgentSystem` implements: `DesiredSync` with reboots and answers | property `IsDurableSync` |
| `ConfigureServiceProofs` | `ConfigureService`: its inductive invariant, the device, the checkpoint, the refinement | TLAPS |
| `ConfigureReportsProofs` | `ConfigureService`: what calls do, publish and return | TLAPS |
| `AgentSystemProofs` | `AgentSystem`, from an instance of `ConfigureServiceProofs` | TLAPS |
| `FileStoreProofs`, `EnginesProofs`, `RuntimeProofs`, `ActionsProofs`, `StartupProofs` | the module each is named after | TLAPS |
| `FileStore` | `internal/state/file_store.go` on a POSIX file system | `MCFileStore` |
| `AtomicStore` | the abstract store that `FileStore` implements | property `IsAtomic` |
| `Engines` | `internal/renderer`, `internal/renderervyos`, `internal/apply`, `internal/applyvyos` for one record | `MCEngines` |
| `Runtime` | `internal/agent` with the service's mutex | `MCRuntime` |
| `Actions` | `internal/actions` | `MCActions` |
| `Startup` | `cmd/vyos-nats-agent/main.go`, `internal/config`, the checks of `agent.New` | `MCStartup` |

The interfaces between them: `ConfigureService` takes from `FileStore` that `Save` is
atomic but may report an error after its rename (action `Save`), that the checkpoint
survives a crash, and that one `Save` runs at a time; `FileStore` takes the last point
from the service's mutex. That `Save` is atomic is the abstract store `AtomicStore`, which
`FileStore` is shown to implement (`IsAtomic`). What `ConfigureService` takes for the
outcomes of `Render` and `Apply` is spelled out in `Engines`. `AgentSystem` does not repeat
the service: it instantiates `ConfigureService` and gives its actions an environment.
`Runtime` shrinks a whole `Handle` or `Reconcile` to "waits
for the mutex, reads the checkpoint, works, releases". `Startup` ends where `Runtime`
begins.

### ConfigureService

| TLA+ | Code |
|---|---|
| `kv`, `puts` | the KV entry of the agent's target (revision, record target, record UUID); every entry ever written (history) |
| `device` | the record whose commands were committed last |
| `disk` | `state.State` in the state file, without `applied_at`, which nothing reads |
| `mu` | `Service.mu` |
| `pc`, `kind`, `msg`, `desired`, `local`, `code`, `err` | the program counter and locals of each goroutine |
| `sent`, `effects` | which messages of a call the bus accepted; what the call changed (history of one call) |

Each call to another component is one action with every outcome of the callee:
`PublishRunning` covers the five running statuses, `HandleLoadDesired`/`HandleLoadState`
and `ReconcileLoadState`/`ReconcileLoadDesired` keep the two different orders of the
entry points, `Render`, `Apply`, `Save` are `processDesiredConfigLocked`,
`InSyncStatus`/`InSyncResult` and `AppliedStatus`/`AppliedResult` are the two ways to
report success (they treat a lost message differently), `FailStatus`/`FailResult` are
`fail`, `PublishDegraded` the status of a failed reconcile. `Return` releases the mutex.
The early returns are the branches of `NotificationFault` and `DesiredFault`, in the
code's order. The environment writes (`Put`) or deletes (`Purge`) the entry, delivers any
notification at any time (`Notify`: late, twice, superseded, malformed), starts
passes (`StartReconcile`) and kills the process (`Crash`), also in the middle of a
commit or a rename.

Assumptions: a KV read returns the current entry; a notification arrives on the
agent's own subject, so its target is the agent's or missing; strings of spaces, which the
code treats like empty ones, are left out; a message the bus accepted is sent; the VyOS apply
library may commit and still return an error (save of the boot configuration, a
cancelled context), the placeholder fails without effect; the nil-receiver and
nil-context checks are unreachable and left out; `Handle`'s context deadline shows only as
failures of the calls it is given to.

### AgentSystem

`ConfigureService` runs here with three kinds of goroutine: `Handler` (the subscription), `Main`
(`Runtime.Run`, which reconciles at startup) and the reconnect `Passes`. Around it:

| TLA+ | Code or world |
|---|---|
| `agent`, `StartClient`, `FinishStart` | the life of a process: the client is started and subscribed, the startup reconcile is called (`lifecycle.go:84-114`) |
| `linked`, `Drop`, `Reconnect` | the NATS connection; `Reconnect` calls the callback of `agent.go:105`, which starts a pass |
| `unsent`, `bus`, `Write`, `Publish`, `Deliver` | the controller writes the KV entry, then publishes; a subscribed, connected agent receives; the handler takes the messages one by one |
| `boot`, `setup`, `Reboot`, `ProcessCrash` | the boot configuration, saved with the commit if `save_after_commit` is on; a reboot takes the device back to it and keeps or clears the state file |
| `answered` | the records whose success result reached the controller (history) |
| `faults`, `outages` | bounds: failing calls and messages; drops, crashes and reboots |

`ServiceStep` is one step of a goroutine of the service in this environment: without a connection
the KV bucket cannot be read, a failing call costs one of the faults, and a
commit may also save the boot configuration. The faults and outages of a behaviour are chosen at its
start, so "nothing fails any more" is a state it can reach with any number of them. A client
that cannot connect at startup makes the process exit and be started again: the
configuration refuses `retry_on_failed_connect`.

### FileStore

One action per system call of `Save` (`Prepare` is the argument checks, marshalling
and `MkdirAll`), each with its failure and the deferred removal of the temporary file
(`Cleanup`); `Load` is what it makes of a file. `file` is what the path names,
`onDisk` what it names if an unsynced rename is lost; `AfterLoss` is what POSIX lets a
file hold after a power loss: an unsynced one may hold anything, `Torn`. `Kill` ends
the process and leaves the temporary file; `PowerLoss` also takes back the unsynced;
`WriteBack` is the kernel putting a rename on disk by itself. `Survivors` is what the path may
name after a power loss; with it the file is an `AtomicStore`: a reader finds the
stored state, and after a power loss one of the states that may come back.

### Runtime

`Run` is `BeginStart`, `RegisterHandlers`, `StartClient`, `PublishStartupStatus`,
`StartupReconcile`, `ShutdownRequested`, `Finish` and so on, in the order of `Start` and
`Run`. `Close` is `CallClose` (`markClosed`), `Cancel`, `Wait` (or `GiveUpWaiting`, its
context expired) and `CloseClient`. The reconnect callback is two steps under
`Runtime.mu` (`Reconnect`, then `SpawnPass`), because the order of its check of `closed`,
`wg.Add` and the unlock is what `Close` relies on. A pass takes the service mutex
(`PassLock`), reads the checkpoint with its context (`PassLoad`; `FileStore.Load` refuses
a cancelled one) and works (`PassApply`).

### Actions

`PublishRunning`, `SelectExecutor`, `Execute`, `CompletedStatus`, `PublishResult` and
`PublishFailure` are `Service.Handle`; `StartCapture` to `EndCapture` are the capture,
with `timer` the state of `captureCtx`; `OpenCapture`, `WritePart`, `CloseBody` and
`WriterFails` are the goroutine that writes the multipart body, one part per packet
between a header and a trailer; `Server*`, `BreakPipe`, `ConnectionFails` and
`AbortRequest` are the HTTP side. `ValidPayload` is the check of the payload, which differs between
the executors: bounds, an interface that exists or matches and is no path, an HTTP URI.
`CaptureSeconds` and `CaptureContext` turn the duration into the deadline of the capture:
a deadline that has already passed keeps tcpdump from starting. The server answers
2xx only once it has read the whole body; it may refuse earlier or never answer. A refusal
comes in two steps, `ServerRefuses` (its headers, with which `Do` returns) and `RefusalEnds`:
`uploadFile` reads it to its end before it closes the response (`RefusalRead`,
`vyos_trace.go:262`), and the server need not end it. Until then the request is `Pending`: the
transport may go on reading the body, the connection may break and the transport may give up.
`http.NewRequest` cannot fail after the URI was validated.

### Engines

One record goes through `BuildInput`, `BackendRender`, `Prepare` and `BackendApply` (real mode) or
`PlaceholderRender` and `PlaceholderApply`. A payload is what the adapter tells apart in the
JSON: at each of four places (the root, its `schema`, the wrapped `config`, its `schema`) whether name
and version are a string, `null` (which decodes to the empty string), or not there.
`MergeMetadata`, `StringField` and `Metadata` follow `mergeMetadata`, `stringField` and
`payloadAndMetadata`; the reference they are compared with, `Declarations`, ranks the
places instead of merging in order. The two libraries may fail anywhere, the apply
library also after its commit; they are assumed to answer for the record they were
given.

### Startup

One action per call of `runConfigCLI`. A configuration is the record of its YAML fields,
a file the fields it sets; a value is its class, except for the patterns, which are
character sequences because `Validate` scans them. `Decode` overlays the file on the
defaults. `Placeholders` is the scan of
`validateFormatPlaceholders`; `Formats` says when Go's `Sprintf` formats a pattern without a
mark and is the reference it is compared with. Both are written without recursion, so that they
can be proved about: the scan jumps over the character after a `%` only if that is an `s`, so
it misses no `%`, while `Formats` asks which `%` start a directive (`AreDirectives`). Printing and redaction are left out.

## 3. Runs

| Run | What it shows | Bounds |
|---|---|---|
| `configure` | the invariants of section 1, `NoRollback` and the refinement `KeepsPromise` | 2 goroutines, 2 writes, records for 2 targets, 3 UUIDs or none, real engines; crashes, deletions and failures without limit |
| `system` | a checkpoint that says "in sync" is right, the path implements `DurableSync` (so an answered record survives a reboot), the last write reaches the device and is answered | 2 writes, 1 failing call, 1 reconnect pass at a time; with `save_after_commit` and a persistent state file 2 outages of any kind, with neither 1 |
| `file_store` | the checkpoint file under failures, kills and power losses | 3 states, any number of saves, 3 losses |
| `engines` | the most specific schema wins; the device commits the record's rendering | every combination of string, null and missing for name and version at four places, every shape of payload |
| `runtime` | shutdown against reconnects, a second caller of `Close`, a handler, and applies that hang | 2 reconnects, 1 other closer, 1 subscription |
| `actions` | completion means captured and uploaded; cancellation; termination | captures of up to 3 packets, both executors, payloads at and beyond each bound |
| `startup` | accepted configurations start; patterns make subjects | every file that sets one or two fields, every pattern of at most 5 characters over five, every way to name the file |
| `configure_save_error`, `configure_mixed`, `configure_other_target`, `runtime_close_twice`, `system_unsaved` | each refutes one sentence of the documentation (section 6) | as above |

Why the bounds are enough. Only one goroutine is inside the mutex, so two are enough for
"one works while another waits or comes next"; two writes give a newer record for a
stale one to overwrite; the blank UUID and the second target reach the odd branches of both
entry points; the proofs of section 5 remove these bounds for the results they cover.
Three states distinguish the saved, the tried and the next one in `FileStore`, and a loss
inside a save after a loss. In `system` two writes let the second overtake, replace or
miss the first, one fault loses or fails any single step, and two outages give a crash
inside the recovery from a crash, drop or reboot; the third combination of the two settings
(`save_after_commit` with a state file that a reboot clears) only makes the agent
apply again what the device booted. Two reconnects give one pass holding the service mutex while
another waits; the callback's race with `Close` needs one. Three packets exceed what any
branch of the upload counts. A pattern of five characters holds two placeholders with
a literal between them, or a placeholder and every kind of malformed tail; two
fields at once show that no check hides another.

`actions` enables an action without executor: `actions.NewService` allows it and reports
`unsupported_action`, although `Validate` admits only `trace`; `startup` shows that
the branch is not reachable from a file (`AcceptedConfigStarts`).

Deadlock is checked for `ConfigureService` and `FileStore`, which never stop; the other
models end with their process, command, record or program, and `AgentSystem` rests once both writes
are dealt with and no outage is left.

Every property of a passing run has a mutant in `PROJECT.json`: a plausible bug, kept in the
module as a definition marked "Mutant", that makes TLC report that property.

## 4. Fairness

* `ConfigureService`: weak fairness of each goroutine that holds the mutex (every
  external call returns: KV and bus calls carry timeouts; the apply library has none,
  see the hazard at `service.go:260`) and strong fairness of taking the mutex
  (`sync.Mutex` hands itself to a goroutine that waited more than 1 ms). Nothing is assumed of writes,
  notifications, reconciles and crashes. Its own run checks safety; liveness is checked in
  `AgentSystem`, where the calls come from somewhere.
* `AgentSystem`: the same for the service; a published notification is delivered, a written
  record is notified, the process is restarted by its supervisor and the client reconnects
  (`max_reconnects` is -1). Nothing obliges the controller to write again, and nobody sends
  a notification twice. `Converges` asks for calls that stop failing, not for outages that stop:
  each outage is followed by a startup or a reconnect pass that looks again.
* `Runtime`: the goroutines run; taking the service mutex is strongly fair. Signals, reconnects,
  notifications and other closers owe nothing, `Close`'s wait may end by its context or by the
  passes, and the work under the service mutex (an apply) may hang for ever.
  `ShutdownEndsRun` adds that applies return (`AppliesReturn`), because the startup reconcile waits
  for the mutex without looking at its context; `HungApplyCannotBlockExit` does not need it
  once `Start` is done.
* `Actions`: the goroutines run, the capture's duration expires (`captureCtx` always has a
  deadline), a killed tcpdump dies, the HTTP transport gives up a request whose
  context is done. tcpdump, packets and the cancellation owe nothing; the server owes neither an
  answer, nor the end of one, nor a read of the body. The HTTP client has no timeout, so an
  upload whose server never answers, or never ends a refusal, ends only when the call is
  cancelled (`CancelEndsCall`), and `WriterEnds` asks for the end of the writer only once the
  call is cancelled or has left the upload.
* `FileStore`, `AtomicStore`, `Engines`, `Startup` and `DesiredSync` state no fairness;
  nothing about them is a liveness claim.

## 5. Proofs

Every theorem holds for all values of the constants that satisfy the assumptions of the
module: any goroutines, records, writes, passes, faults and outages, any states of the
store, any bounds of a trace, any payload. The last column names the property of a run that
the theorem states (where it has another name).

### ConfigureService

| Theorem | Statement | Property |
|---|---|---|
| `TypeCorrect` | every variable has its type | `TypeOK` |
| `InvariantHolds` | `Spec => []IInv` | |
| `CheckpointIsJustified` | the checkpoint names a record the device has run | `CheckpointWasApplied` |
| `CheckpointIsNotReapplied` | nothing checkpointed is rendered or applied again | `NoReapplyOfCheckpoint` |
| `DeviceNeverRollsBack` | no step takes the device to an older record | `NoRollback` |
| `ServiceKeepsPromise` | the service implements `DesiredSync` | `KeepsPromise` |
| `SuccessIsAlwaysTrue` | with `FreshUUIDs`, a published success is true | `SuccessIsTrue` |
| `ReportsFitEffects` | `Spec => []CallInv` | |
| `FailureCodesAreHonest` | a failure code tells how far the call went | `FailureCodeTellsHowFar` |
| `SavedCallsReportNoFailure` | no failure is published after a save | `NoFailureAfterSave` |
| `NilReturnsAreInSync` | with `FreshUUIDs`, `nil` means applied, checkpointed, reported | `NilMeansInSync` |
| `CallsOnlyAdvance` | each step of a call leaves it fewer, at most 16 in all | |

The last five are in `ConfigureReportsProofs`. Assumed: no goroutine is `NoProc`, the agent's
target is not blank and may occur in records, the two modes are Booleans, the bound on writes
is a number.

None of the safety properties is inductive alone. The invariant is

    IInv == TypeInv /\ MutexInv /\ HistoryInv /\ (\A p \in Procs : StageInv(p)) /\ OrderInv

* `MutexInv`: a goroutine past its lock owns `mu`. With `LockedStepShape` this
  is what lets the proof of one goroutine's step ignore the others.
* `HistoryInv`: the KV entry is the newest record ever written, a revision names one record,
  and, under `FreshUUIDs`, so does a UUID.
* `StageInv(p)`: what a goroutine may rely on at each label: its message names the record in
  hand; that record is not checkpointed while it is rendered and applied, is on the device from
  `save` on and in the checkpoint once saved; a reconcile's copy of the checkpoint is still the
  one on disk when it loads the record.
* `OrderInv`: what the device runs and what a goroutine holds was written, no record in hand is
  older than the device's, and `CheckpointWasApplied`. It holds because nobody else can
  apply between a goroutine's load and its apply: this is where the mutex is needed.

One lemma per kind of step (`ApplyKeepsInv`, `SaveKeepsInv`, `LoadKeepsInv`,
`ReportKeepsInv`, `ReturnKeepsInv`, `CrashKeepsInv`, `EnvironmentKeepsInv`) shows that
the invariant is preserved; `WorldStep` sums up what a step may do to `device`
and `disk`, from which the action property and the refinement follow. `SuccessIsTrue`
needs one more invariant, `ReportInv` (what a call that reported success still holds), and that a
UUID names one record, because the in-sync check compares UUIDs only: without
`FreshUUIDs` it is false (with u1 checkpointed and u2 committed but not checkpointed, writing u1
again is answered "already in sync" while the device runs u2). `NilMeansInSync` needs it for the
same reason.

The reports need `CallInv`, which is inductive relative to `IInv`: for each goroutine `EffectInv` (a
code is set only on the way out, and what had changed when it was), `PublishedInv` (which messages
may have been sent at each label) and `AgreementInv` (what a call about to return `nil` has
achieved).

### AgentSystem

| Theorem | Statement | Property |
|---|---|---|
| `TypeCorrect` | every variable has its type | `TypeOK` |
| `InvariantHolds` | `Spec => []IInv` | |
| `SkippingIsSafe` | with safe setups and no blank UUID, a checkpoint that says "in sync" is right | `SkipIsSafe` |
| `AnswersAreDurable` | with `save_after_commit` an answered record is never newer than the boot configuration | |
| `SystemIsDurableSync` | with safe setups the system implements `DurableSync` | `IsDurableSync` |
| `SuccessIsTrueInTheSystem` | with safe setups a published success is true | |
| `CheckpointIsRightInTheSystem` | with safe setups, `CheckpointWasApplied` and `NoReapplyOfCheckpoint` survive reboots | |
| `OnlyRebootsRollBack` | with safe setups only `Reboot` takes the device back, with `save_after_commit` never behind an answer | |
| `NothingIsForgotten` | with safe setups and no blank UUID, once calls stop failing `OnItsWay` is never lost | |
| `NothingIsLeftUnanswered` | with safe setups, no blank UUID and a connection, once faults and outages are over `AnswerDue` is never lost | |
| `OwedWorkIsNotStuck` | while something is owed or a call works for the desired record, a step that fairness promises can be taken | |
| `CallsOnlyAdvance` | each step of a call brings it nearer to its return; only a crash or a reboot interferes | |

Assumed: the goroutines are distinct and none is `NoProc`, the target is not blank, each UUID is written once,
the bounds are numbers. Two hypotheses stay in the statements. `SafeSetups`: a state file that
survives a reboot goes with `save_after_commit`; without it the run `system_unsaved` reaches
a state in which the checkpoint is wrong, so no such theorem exists. No blank UUID:
a record without UUID equals the absent checkpoint, and a reconcile takes it for applied.

The module instantiates `ConfigureServiceProofs` as `CSP` with the constants
`AgentSystem` gives the service; `ServiceConstants` discharges that module's assumptions.
`SameLockedStep`, `SameEnvironment` and `ServiceView` show that every step of the system is a step of
the service the theorems are about, or leaves it alone, or is `Reboot`, which the service does not know. So

    IInv == CSP!TypeInv /\ CSP!KnownInv /\ AroundInv
            /\ (Safe => CSP!IInv) /\ (setup.save => BootInv)

where the service's invariant is carried over by its own lemmas, except through `Reboot`: that
needs `BootInv` (the boot configuration is no newer than the device, is no older than what the checkpoint
names or an answer reported, and is the record in hand between apply and return), which in turn
needs the service's invariant. `KnownInv` is the part of it that holds even with unsafe setups.

`NothingIsForgotten` is the safety half of `Converges`. `OnItsWay` says that the desired
configuration is on the device and checkpointed, or that something is owed (`Owed`: a
notification, a reconnect, a startup, a waiting call), or that a call is working for it. Every step
keeps it: a lost notification costs a connection or a process and so leaves a reconnect or startup owed, a
failing call would need a fault, a call that skips the apply is right by `SyncedIsRight`,
and a call that works for an older record cannot displace what is in place. That owed work
can be done is `OwedWorkIsNotStuck`: over `HolderInv` (the mutex has an owner inside a call, with any
setup; `HeldInv` of `ConfigureServiceProofs` is the same for the service alone) one of the fair actions has its guard true; it asks for at least one reconnect goroutine, because
the model takes one per pass. With `CallsOnlyAdvance`, whose measure counts the steps to the
return on every path, what remains for TLC is that fair steps are taken.

`NothingIsLeftUnanswered` is the same for `WritesAreAnswered`. `AnswerDue` says that the desired
record is answered, or that a call reports it (`Reporting`: between the save and the result), or that
no checkpoint names it yet and something is still owed or at work for it. That the checkpoint
does not name it matters: a pass that finds it there publishes nothing. It is preserved only while
messages get through, hence the hypotheses; the write itself makes it true (`WriteIsDue`), the
save passes it on (`CheckpointIsReported`) and the published result settles it (`ReportGoesOn`).

In the refinement a write is `Desire`, the commit of an apply or of a dying process `Commit` (with or
without the boot configuration), a save `Remember`, a result the controller receives `Answer`, a
reboot `Reboot`, and everything else a stutter. `ReportIsSettled` is its core: a call
about to report has the record the device runs, the checkpoint names and, with `save_after_commit`,
the machine would boot with, whatever other goroutines did since.

### The other components

| Module | Theorems | Properties |
|---|---|---|
| `FileStoreProofs` | `TypeCorrect`, `SavesAreAllOrNothing`, `TempIsAlwaysDisposed`, `StoreIsAtomic` | `TypeOK`, `AllOrNothing`, `TempIsDisposed`, `IsAtomic` |
| `RuntimeProofs` | `TypeCorrect`, `ClientClosesLast`, `NoPassAddedWhileWaiting`, `LatePassesDoNotApply`, `ExitIsClean`; `HoldersWork`, `ShutdownIsNotBlocked`, `RunOnlyAdvances`, `ClosedRuntimeDrains` | `TypeOK`, `ClientOutlivesPasses`, `NoAddWhileWaiting`, `NoLateApply`, `CleanExit` |
| `ActionsProofs` | `TypeCorrect`, `CompletedTracesAreUploaded`, `CompletedTracesWereCaptured`, `CancelledTracesFail`, `ReturnsMatchMessages`; `NoCallIsStuck`, `HandleOnlyAdvances` | `TypeOK`, `CompletedIsUploaded`, `CompletedWasCaptured`, `CancelledTraceFails`, `ReturnMatchesMessages` |
| `EnginesProofs` | `TypeCorrect`, `RendererIsToldMostSpecific`, `OnlyTheRecordIsCommitted` | `TypeOK`, `MetadataIsMostSpecific`, `CommitsTheRecord` |
| `StartupProofs` | `TypeCorrect`, `AcceptedConfigsStart`, `SubjectsAreWellFormed` | `TypeOK`, `AcceptedConfigStarts`, `SubjectsWellFormed` |

Each has its own `IInv` and `InvariantHolds`; the theorems after a semicolon are the safety halves
of the module's liveness properties.

* `FileStore`: `TempInv` says what the temporary file holds at each system call (it is synced before it may be
  renamed), `PathInv` that the path, and what a power loss may make of it, hold synced states that were
  saved last or tried since. In the refinement the rename is `Replace`, the directory sync and the
  kernel's write-back are `Settle`, a power loss is `Lose`, and every other system call is a stutter.
* `Runtime`: `PassInv` counts the active passes in the WaitGroup (the module assumes that there are
  finitely many) and says that a callback between check and `Add` holds `Runtime.mu` with `closed`
  unset; `CloseInv` says what each stage of `Close` has achieved. Together they exclude an `Add` after
  `Wait` has begun. The safety half of `ShutdownEndsRun` and `HungApplyCannotBlockExit` is three
  theorems over `HolderInv` (each mutex belongs to the goroutine that works under it): after the
  signal Run has a step to take or waits for a reconnect callback or, in the startup reconcile
  only, for the work under the service mutex; each of its steps brings it nearer to its end; and
  the passes it waits for become no more.
* `Actions`: `MessageInv`, `CaptureInv` and `UploadInv` relate the handler, the capture and the
  parts in the pipe; `SuccessInv` says that a success needs an accepted upload.
  The safety half of its three liveness properties is `NoCallIsStuck` over `WaitInv` (a running
  tcpdump has a context that is done or will be, a writer has a request or a broken pipe), with
  `HandleOnlyAdvances` as the measure. During an upload it claims progress only of cancelled calls:
  the others may wait for the server.
* `Engines`: `InputInv`, `OutputInv` and `ApplyInv` trace each stage back to the record. That the
  sequential merge equals the ranking is `MostSpecificWins`, by cases on which of the four places
  are objects.
* `Startup`: `ConfigInv` keeps that everything is made from one validated configuration, `BlameInv`
  that neither conversion nor logger nor engines refuse it; the lemmas `ValidatedIsUsable` and `ConversionKeepsTarget`
  compare the four files' lists. `ScannedPatternFormats` is the comparison of the scan with the
  formatting, for a pattern of any length.

### Left to TLC

* Liveness under fairness, which the prover cannot do here: `Converges`, `WritesAreAnswered`,
  `ShutdownEndsRun`, `HungApplyCannotBlockExit`, `CaptureEnds`, `CancelEndsCall`, `WriterEnds`.
  Proved of them is that nothing gets lost or stuck on the way (above). `ENABLED` is out of reach
  too: `PublishReady`, `DeliverReady`, `StartReady`, `ReconnectReady`, `CallReady`, `RunReady`,
  `HandleReady`, `KillReady`, `TimeoutReady`, `AbortReady` and `WriterReady` spell the guards of the
  actions out instead.
* The five runs that refute a sentence of the documentation: a counterexample is not a theorem.

## 6. What the code does and the documentation denies

* `configure_save_error`: a `Save` that fails after its rename reports
  `state_save_failed` for a UUID that is checkpointed (`README.md:144`, `SPEC.md:584`).
* `configure_mixed`: an already-in-sync call whose result cannot be published publishes
  success and then failure for one UUID (`SPEC.md:594-598`, `607-610`).
* `configure_other_target`: `Reconcile` does not compare the record's target with the
  agent's (`README.md:346`).
* `runtime_close_twice`: the context of a `Close` expires while a pass is at work, so that it
  leaves the client alone; the next `Close` finds the runtime closed and returns `nil`; the pass
  ends, and nobody closes the client any more, although `Close` is said to stop it
  (`lifecycle.go:116`).
* `system_unsaved`: with a state file that survives a reboot and `save_after_commit` at its
  default, the startup reconcile of a rebooted device finds the checkpoint in sync and
  applies nothing, while the device runs its boot configuration (`README.md:20`, `TDD_SPEC.md:761`).

## 7. Not modelled

* Logging, message texts, timestamps, redaction and printing: no property is about them.
* agentcore, NATS, the VyOS libraries, tcpdump and the HTTP stack: outside the
  repository, modelled from how it uses them and marked external in the map.
* The directory entry that `MkdirAll` creates is never synced by the code (`file_store.go:66`), so a
  power loss may take back the whole directory after the very first `Save`; `FileStore` takes the
  directory to be there already.
* Wildcards, dots and blanks in the target itself: `SubjectsWellFormed` is about the patterns.
* A target renamed between two lives of the process: records of two targets under one key
  (`configure`) are as near as the models come.
* Repeated notifications in `AgentSystem`: nobody sends them again there (`ConfigureService` has them).
* Test doubles.

## 8. Plan

Built so far, in this order: `ConfigureService` with `DesiredSync` and its proofs, `FileStore`,
`Runtime`, `Actions`, `Startup`; then `AgentSystem`, `AtomicStore` with its refinement, `Engines`, the
payload rules of `Actions` and applies that hang in `Runtime`; then the proofs of every module; last
`DurableSync` with its refinement and the safety halves of the liveness properties. Every safety
property the passing runs check is proved. Open:

1. an abstract specification of `Runtime` (passes come, a shutdown lets them go, then the client is
   closed), with `Close` and the reconnect callback as its implementation;
2. a target renamed between two lives of the process, and notifications sent again, in `AgentSystem`;
3. the liveness properties themselves, with a prover that supports `ENABLED`: the invariants and
   measures of section 5 are the ones they would need.
