# Formal verification of mydocker

mydocker is a container runtime in Go: a daemon (`mydockerd`) keeps a durable
record of Sandboxes, Containers and operations, drives Linux namespaces,
cgroups and processes through providers, and recovers after a crash from what
it recorded and what it finds on the host. This directory holds TLA+ models of
it, the TLC configurations that check them on small instances, and TLAPS proofs
of the theorems that matter most.

Paths below are relative to `src/internal/` unless they begin with `src/`.

## 1. The system

A client sends a request with an *operation ID* over a Unix socket. The daemon
service hands it to the **engine**, which calls `Begin...` of the **lifecycle
Coordinator** (one transaction that persists the intent), works on the host
through the **providers**, journals each effect with `CheckpointOperation`, and
calls `Confirm...` or `Fail...` (one transaction that moves the resource and
ends the operation). The **Store** runs one transaction at a time and commits
all of it or nothing. Every container's init process is owned by a **shim**, a
process that outlives the daemon. At startup, before the socket is opened, the
engine's **recovery** reconciles each record with the host; **watchers** then
turn exits into records and escalate kills whose grace has ended.

| Component | State it keeps | Operations | What makes it correct |
|---|---|---|---|
| Lifecycle Coordinator (`lifecycle`) | none of its own; each method is one Store transaction | Begin / Confirm / Fail / Record per operation type, `CheckpointOperation`, `FailActiveOperation`, `persistOperationConflict` | one active operation per target, one active Attempt per Sandbox, no phase without the operation that leaves it, final answers, immutable history |
| Domain and operation model (`domain`, `operation`) | record types | phase transitions, binding resolution | an ID is never rebound; phases move along their edges |
| Ownership (`ownership`) | receipts and releases in the operation journal | profile and release validation | what was acquired is released exactly once, in dependency order |
| State Store (`state`) | tables, CAS revisions, event log, a file | `Update`, `View`, retention, durable replacement | atomicity, no lost update, an uncertain write is never reported as certain |
| Engine (`engine`) | target locks, identity registry (volatile) | public operations, rollback, recovery, watchers | crash windows between effect and checkpoint; effects at most once; every intent ends |
| Rollback stack (`rollback`) | LIFO stack of inverses, its seal | register, run, resume | inverses run one at a time in reverse order, all of them, idempotently |
| Shim (`shim`) | gate, child, terminal record on disk, replay cache | Inspect, PrepareRootfs, Release, Signal, reap | the gate opens once; the terminal record is written once |
| Slim provider and launcher (`slim`) | launch journal, start gate file | launch, authorise, adopt, release, signal, remove | at most one process per launch, one start per Attempt |
| Isolation and cgroup managers (`isolation`, `cgroupv2`) | kernel objects | create, attach, observe, remove | identity is verified before use (PID reuse); limits are enforced or refused |
| Log store and registry (`logstore`, `daemon`) | framed log file; registered attempts and epochs | append, recover, read; register, unregister, discover | committed frames survive; a scan never revives a deleted log |
| HTTP server and client (`server`, `src/pkg/client`) | the socket's name, in-flight calls | publish, serve, drain; retry with the same ID | the name leads to a live daemon; shutdown ends and loses no answer |

Interaction is by direct calls inside the daemon, under a lock per target that
one engine method holds from `Begin...` to `Confirm...`; by shared state only in
the Store; by a request/response socket between daemon and shim; and by polling
in the watchers. What is hard: operations on *different* targets that constrain
each other (a Sandbox stop against a Container create); a crash between a host
effect and its checkpoint; recovery and watchers meeting client retries; a
terminal observation racing a kill, a start or a delete; timeouts that leave an
operation active; failed inverses; files that are renamed and not yet synced;
PIDs and socket names that pass to somebody else. `PROJECT.json` lists each
hazard at its line.

## 2. Modules

| Module | Models | Status |
|---|---|---|
| `Lifecycle` | the Coordinator over the Store: 19 transactions on Sandboxes, Container/Attempt pairs and operations, 7 journal and failure transactions | checked and proved |
| `AttemptEngine` | the engine on one Container: start, kill, natural stop, two watchers, recovery, crashes; every durable effect is an action of `Lifecycle` | checked and proved |
| `AttemptContract` | what the record of an Attempt promises about its workload | refined by `AttemptEngine` and by `ShimWrapper` (checked and proved) |
| `ShimWrapper` | one init wrapper: gate, root preparation, release, signals, reaping, terminal record, replay cache | checked and proved |
| `Acquisition` | create, rollback, delete and their recovery for a Sandbox or a Container, one host resource at a time | checked and proved |
| `RollbackStack` | the stack of inverses under concurrent runs | checked and proved |
| `CgroupTree`, `CgroupLimits` | the cgroups of a Sandbox; the conversion of limits in machine words | checked and proved |
| `LaunchJournal` | launch, adoption and removal of a wrapper under its journal | checked and proved |
| `StartGate` | the artifact file of the start gate and its consumption | checked and proved |
| `ProcessIdentity` | evidence, pidfd, signal and removal under PID reuse | checked and proved |
| `FileStore` | the state file: lock, load, migration, the steps of an Update, power loss | refines `DurableRegister` (checked and proved) |
| `DurableRegister` | what a durable Store promises across crashes | refined by `FileStore` |
| `EventLog` | operation history, event log, retention, validation, and a client that follows | checked and proved |
| `LogStore` | the log of an Attempt, down to the parts of a frame; writer, readers, death, power loss | checked and proved |
| `LogRegistry` | the daemon's registry of logs and its scans | checked and proved |
| `TargetLocks` | the engine's reference-counted lock table | refines `KeyedMutex` (checked and proved) |
| `KeyedMutex` | a mutex per key | refined by `TargetLocks` |
| `SocketLease` | the public name of the API socket among daemons and a stranger | checked and proved |
| `DaemonRun` | one life of the daemon: open, recover, serve, watch, drain, exit | checked and proved |
| `ApiExchange` | a mutation of a Container from the client library over HTTP to its record and back, with losses, retries and crashes | checked and proved |
| `LifecycleProofs`, `AttemptRecordProofs`, `ShimWrapperProofs`, `DaemonProofs`, `ProcessesProofs`, `StorageProofs`, `AcquisitionProofs`, `ResourcesProofs` | TLAPS proofs | section 5 |
| `MCLifecycle`, `MCAttemptEngine`, `MCShimWrapper` | instances of one module each | sections 3 and 4 |
| `MCAcquisition` | the two receipt profiles as constants of `Acquisition` | section 3 |
| `MCAttempt`, `MCLiveness`, `MCResources`, `MCProcesses`, `MCStorage`, `MCDaemon` | suites: several modules in one instance | section 3 |

**How the modules compose.** `AttemptEngine` EXTENDS `Lifecycle`: what the engine
does to the record is a Coordinator transaction, and this is a theorem
(`CoordinatorOnly`). `AttemptEngine` and `ShimWrapper` refine one abstract
module, `AttemptContract`, from the two sides of the control socket: what the
engine assumes of its wrapper is what the wrapper keeps. `CgroupTree` EXTENDS
`CgroupLimits`. The others meet in the interfaces of the code and say in their
head what they take for granted: `Acquisition` takes providers that are
idempotent or fail, which `LaunchJournal`, `StartGate`, `ProcessIdentity` and
`CgroupTree` are about; `StartGate` takes the wrapper that refuses a second
release (`ShimWrapper`); `Lifecycle` takes atomic durable transactions
(`FileStore`) and an unbounded history (`EventLog`); everything in the engine
takes one method per target at a time (`TargetLocks`).

**Suites.** A suite puts modules that share no variable into one instance. Its
variable `subject` is chosen in the initial state and never changes; the
variables of the other modules keep their initial values, and the fairness of a
module is conditional on its being the subject. The states are therefore the
*sum* and not the product of the modules', and because the modules share no
state a property of one holds in the suite if and only if it holds of the module
alone. A suite never asserts an interaction; interactions are inside the
modules.

### 2.1 `Lifecycle`

**State.** `sandbox`, `pair` and `op` are the Store's tables, with a record per
ID and phase `absent` (state `unused`) for an ID that is not stored. A pair is a
Container with its one Attempt, which the code stores and validates together.
All three are durable, so a daemon crash changes none of them: it is the absence
of the next call, and every interleaving of calls by several clients, by
recovery and by watchers is a behaviour of the module.

**Actions.** One Coordinator method is one `store.Update`, thus one action; a
call that returns an error is a step that does not happen, and a replay of a
terminal operation is a step that changes nothing. `Begin...` actions resolve
the ID (`ResolveNew`: unused ID and free target); the no-op answers of the code
(create of what is stored, kill of what is stopped) are their first disjunct.
`Confirm...`, `Fail...AfterRollback` and `Record...` need the active operation
with its binding, a minimal stage, the expected phase and, where the code
demands it, a complete journal. `CheckpointOperation` is the code's generic
method with its stage rule; `CheckpointReceipt`, `CheckpointAttach`,
`CheckpointProcess`, `CheckpointRelease`, `CheckpointRollback` and
`CheckpointRecoveryIssue` are the calls the engine makes of it.
`PersistOperationConflict` records the rejection of a new ID on a busy target.

**Abstractions.** Stages that no guard tells apart are one ("prepare"). A
journal of receipts or releases is `none`, `partial`, `full`, and for a rollback
`undoing` and `undone`; `owner` stands for the inventory a record adopts. A
fingerprint is the record of the request's inputs rather than its digest.
Conditions, CAS revisions, timestamps and quotas are left out; events and
retention are in `EventLog`. The Store validates the graph before it commits;
those checks are *not* guards of the model: they are the invariants, so a
passing run says that no transaction of the Coordinator needs them.

### 2.2 `AttemptEngine` and `AttemptContract`

**State.** Beside the tables of `Lifecycle`, durable: `cond` (the condition
ProcessIdentityUnknown of the Attempt, as the watchers tell it apart) and
`deadline` (KillEscalationDeadline). Volatile: `daemon`; `known` (the identity
registry holds the init process); `call`, the method that holds the target lock
of the Container, with its caller, operation, place and last observation. Host:
`proc` and `exit` (the init wrapper and the outcome it commits) and `sent` (when
the wrapper first delivered a kill's initial signal and its escalation).

**Actions.** `StartContainer`, `KillContainer` and `RecordTerminal` are cut into
one step per provider call and per Coordinator transaction, each named for it
(`StartAttach`, `ReleaseStartGate`, `GateReleased`, `StartCheckpointRelease`,
..., `KillSignal`, `KillCheckpointSignal`, `KillWait`, `KillEscalate`,
`KillConfirm`, `TerminalObserve`, ...). An early return of the code is a step to
`Return`, which also says what the caller makes of the error: a client gets it,
a watcher ignores an unavailable observation and stops the daemon for anything
else (`WatchRuntime`), recovery refuses startup. `SynchronizeTerminals` and
`SynchronizeKillDeadlines` are the watchers' entries; the second reads without
the lock, so its error on a missing deadline may fire while a client's method
is under way. `Discover` chooses what the host answers, and the `Reconcile...`
actions are the branches of `Reconcile`. `Crash` ends the daemon between any two
steps, `Abandon` ends a client's method (its context is cancelled), `HostStep`
moves the wrapper, `Tick` the clock.

**Abstractions.** One Container; creation, rollback and deletion are in
`Acquisition`. Reading the OOM counters is part of the observation it follows,
and the outcome a natural stop records is the one the wrapper committed. Provider
errors are of two kinds because the code tells only those apart: unavailable and
any other. With `HostErrors` false the host answers and wrappers survive.
The operation the watch enters with is read in the step that takes the lock:
both methods read it again under the lock and do nothing if it has moved on. For
the same reason the lookup with which the watch forgives an error of a kill that
a client ended in between (`engine/watch.go:228`) has nothing to find here: an
operation the watch has entered with is ended by nobody else.

`AttemptContract` has four variables: workload, its outcome, and the recorded
phase and outcome. The workload is launched at most once; Running is recorded
only of a workload that was published; an end is recorded only once, after the
wrapper committed it, and with that outcome. `AttemptEngine` maps `proc` (by
`Workload`), `exit` and the pair's record to them (`Contract`).

### 2.3 `ShimWrapper`

**State.** The fields of `Wrapper` (`gateConsumed`, `starting`, `child`,
`quiescenceErr`, `rootfsStarted`, `rootfs`, `terminal`, `persistenceErr`) and
its `controlEntries`; `calls`, what each connection of the control socket is
doing; `task`, the goroutine that reaps the child, or the failed start, up to the
terminal record; `workload`, the process tree as the kernel has it; `disk`, the
name of the terminal record and whether its directory was synchronized. `starts`,
`preparations`, `delivered` and `answers` count what this life of the wrapper
did, `reported` what an Inspect has ever said.

**Actions.** One step per hold of `Wrapper.mu` or `controlMu` and per call made
outside both, so that connections interleave where the code lets them:
`Receive` (look up or enter the request ID), `PrepareBegin` and `PrepareEnd`
around the preparer, `ReleaseBegin`, `RunnerStart` and `ReleasePublish` or
`ReleaseFailed` around `runner.Start`, `SignalBegin` and `SignalVerified` around
the child's own lock, `Answer` and `Replay`. The reaping goroutine is
`DirectWait`, `Reap`, then `Seal`, or `Persist` (the write) and `Publish` (the
lock). `Inspect` includes the repair it attempts. `Die` is the death of PID 1,
which takes the namespace with it; `NewInit` is construction on what is on disk.

**Abstractions.** Inspect requests are not cached and are a step of their own
when they report an end; other observations change nothing and are the operator
`Observed`. A request that is refused before dispatch (other content under the
same ID, full cache) gets an error and leaves no trace, so it is no step. There
is one signal. The production wiring always has a root preparer, so the mode
without one is left out; the keeper mode has no state. Texts, exit codes and
diagnostics are left out; a terminal record is its reason. After `NewInit` the
counters begin again: `starts` speaks of one life; `StartGate` is about several.

`Contract` maps a wrapper with one life to the workload of `AttemptContract`.

### 2.4 `Acquisition`, `RollbackStack`

`Acquisition` is `CreateSandbox`/`CreateContainer`, `RollbackCreate` with
`executeRollback`, `RemoveSandbox`/`DeleteContainer` and the recovery of all
three, over one target. `Profile` is the canonical order of
`ownership.ReceiptProfile` and `DeleteOrder` the order of the removals in
`engine/sandbox.go` and `engine/container.go`; `MCAcquisition` has the two
profiles. *State*: `create` and `remove` are the durable operation records
(state, stage, how far the journal of receipts goes, the rollback stage, its
seal and the inverses that are recorded), `adopted` the inventory the metadata
owns, `host` what exists; `call` is the engine method that holds the target lock.
Every effect on the host and the checkpoint that records it are two actions, so a
crash, a failure or the end of the caller's context comes between any two. A
failure is definite (`NoEffect`, `RollbackRequired`) or of unknown effect, as
`failDefiniteCreateLocked` tells them apart. `Holds`, `Blocks` and `Needs` are
the external part: which resource ends with which (a namespace with its process),
keeps which from being removed, and is needed for which. `Quiesce` stands for
the Attempt's start and end. `AcquisitionAssumption` states what makes the two orders
right, and what the proofs use of them: they list each kind once, whatever blocks an
inverse was acquired later and has an inverse of its own, and whatever blocks the
removal of a kind is removed before it (`ownership/model.go:384`). TLC evaluates it
for every profile of the suite.

`RollbackStack` is `rollback.Stack` itself: `Push`, `Begin`, `Run` by several
goroutines that share the mutex but not the inverse, `Snapshot`, `Restore`. The
production engine keeps such records in its journal and calls its inverses
itself, so nothing but tests runs the `Stack`. The model's caller saves the
sealed stack before it runs it, as the comment of `Begin` asks. Restoring a
sealed and *empty* stack yields an unsealed one, which is harmless.

### 2.5 `CgroupTree`, `CgroupLimits`

A parent without processes, the keeper's leaf and one leaf per Attempt. Calls on
different groups run together, each in several file system calls; a call may fail
at each and the daemon may die between two. `node` is what the kernel keeps
(directory, limits, OOM counter), `receipt` what an Ensure returned. The kernel
may round `memory.max` up or down (`up`). The code and
`src/docs/features/isolation-resources.md:184` expect upward rounding: on a host
that rounds down, every limit between two pages is refused when it is read back
(`ErrEffectiveMismatch`), and never enforced wrongly. `CgroupLimits` has
`cpuQuotaMicros` and the rounding of `planLimits` with wrapping integers of
`Bits` bits, against `QuotaExact` and `RoundExact`: the smallest quota that is
enough, the smallest whole page, or a refusal exactly where the result does not
fit.

### 2.6 `LaunchJournal`, `StartGate`, `ProcessIdentity`

`LaunchJournal` follows `EnsureKeeper`/`EnsureInit` and `removeLauncherAction`
under the journal: fork behind a release pipe, name the child, authorise it, let
it serve, mark it ready; adopt, kill or reset what an earlier call left. A write
of the journal may fail before or after its rename. `StartGate` is the artifact
file that survives what the wrapper forgets: visible and durable content are two
variables, a release consumes the file before it asks the wrapper, and
`EnsureInit` launches only behind a closed gate. `ProcessIdentity` cuts each call
into its system calls (open the pidfd, read stat, cgroup and exe one file at a
time, compare, signal through the pidfd, poll) while processes are born, die, are
reaped and leave their PID to others, and the host reboots. Two facts are taken
from the kernel: two processes of one boot and PID differ in start time, and a
pidfd stays with its process. The goroutine that waits for a launched child reaps
it at once, which is why PIDs are reused at all.

### 2.7 `FileStore`, `DurableRegister`, `EventLog`

`FileStore` is `state/file.go`: the owner lock, load, migration of the old
schema, and an Update as write, sync, rename, directory sync, publication. `shown`
is what the path names, `kept` what a power loss would leave; `Kill`, `PowerLoss`
and failures come between any two steps, and an Update whose directory sync
failed poisons the Store. A transaction is a version number. `DurableRegister`
says what this must amount to: one value is served, a promised write stays, a
write that was cut short stays in doubt until the register serves again and is
then settled for good. The refinement maps the versions on disk that nobody was
promised to the doubts.

`EventLog` is the history that `Lifecycle` has unbounded: records, tombstones,
events, with `applyRetention` and what `validate()` asks of its result. A
transaction makes a candidate, retention cuts it, validation accepts it or the
client is refused (`refused`). Creates whose inventory still names them are
pinned. The marks a resource keeps of its last operation must stay explicable.
`cursor` is a client that pages through the log: the Store's `EventsAfter`, the
handler that reads one event more than it sends, the checks that server and client
library make of a page.

### 2.8 `LogStore`, `LogRegistry`

A log file is a sequence of *cells*: the data cells of a frame, the first holding
its prefix, and the commit marker. An append writes and syncs the data, then the
marker, under a commit lock; after a failure the Store is poisoned and keeps the
lock. A death frees the lock and leaves what was written; a power loss keeps a
part of what was not synced and may garble it, the prefix of a frame excepted.
Readers learn the size under the lock and scan later. `ScanFramePage` is a recursive
function over the offsets of the file (`Walk`). `peril`, chosen in the initial state, says
whether a behaviour has deaths of the wrapper or losses of power, each with a bound of
its own. One behaviour does not have both: a marker that a dead writer left unsynced is
accepted by the next `Open`, which does not sync it, and a power loss during the append
after it may garble the marker below the prefix of the next frame, a file that no `Open`
takes any more. The engine does not get there: it launches a wrapper only behind a closed
gate (`StartGate`), so the log of an Attempt that has frames is not opened for writing again.

`LogRegistry` is one Container ID that is created and deleted again and again,
with the configs the deleted incarnations leave, the registry and its epochs, and
log requests that take no lock between reading the metadata, capturing the epoch,
scanning the configs, publishing and opening. A scan reads all configs at one
moment. The service's own lock table for Containers has the algorithm of
`TargetLocks`. A Container whose create failed can never be deleted, so that the
binding it may leave is harmless.

### 2.9 `TargetLocks`, `SocketLease`, `DaemonRun`

`TargetLocks`: `lock` fetches or makes the entry of a key and counts itself in,
acquires the entry's mutex, and on release counts itself out and deletes the entry
if nobody is left; each is a step. It refines `KeyedMutex`.

`SocketLease` has one step per system call of `server/socket.go`: the flock of
the directory, the look at what has the name, the probe of it, the removal by
moving it aside and comparing it, bind, chmod, rename without replacement, the
final probe. Daemons may die at any step; a process that does not know of the
lease may take the name or remove it. The checks of the path's owner, type and
permissions are left out.

`DaemonRun` is `runDaemon` with its goroutines: the server's `Serve`, `Wait` and
`Shutdown`, the watchers, the requests, the timeouts of every phase. Requests and
watchers may hang as long as they like. `net/http` is external and modelled by
what it documents of `Shutdown` and `Close`. The branch in which a drained
Shutdown finds the result of `Wait` already taken cannot be reached, in the
module as in the code.

### 2.10 `ApiExchange`

**State.** `call` is the method a user of the client library is in, `link` one HTTP
exchange, `op` the operation records, `pair` the Container's phase and whether it
has its host-owner binding. `told` collects the terminal answers the server gave for
an ID; no action reads it.

**Actions.** A user chooses an operation ID (`Ask`), also one that was used before,
with any verb. The library repeats a lost attempt with the same ID (`Retry`), while the
lost one may still be on its way or at work. A handler takes the target lock and
finds its ID retired or used otherwise (`Refuse`), terminal (`Replay`), active
(`Resume`) or new: a conflict, a no-op, an intent that begins, or a rejection. The
work ends (`Finish`), stays for another attempt (`Falter`), or is ended by recovery
and the kill watcher (`Reconcile`). The service registers or removes the log
between the end of the record and the answer, and answers an error when that fails.
`Lose`, `Expire` and `Crash` come at any time. The engine's work is one step here;
`AttemptEngine` and `Acquisition` have its steps.

`AnswersAreExact` says that an ID is given one terminal answer ever, the one its
record keeps, and that no success is refused by the method that asked for it.

## 3. Runs

Eight runs check the properties of the modules and four show where the code
does not do what its documentation says.

| Run | Instance | Distinct states | What it shows |
|---|---|---|---|
| `lifecycle` | 2 Sandboxes, 2 Containers, 5 operation IDs, 1 spec; symmetry | 94,000 | the graph (`GraphConsistent`), the intents (`IntentsConsistent`), the host resources (`HostResourcesAccounted`), final answers (`RecordsFinal`) and truthful ends (`OutcomesTruthful`) in every interleaving |
| `attempt` | 2 starts, 1 kill, 1 stop; failing host; grace 2, clock 0..4, 2 faults (engine); 2 users, 2 IDs, 2 exchanges, 1 retry, 2 calls (exchange) | 1,118,000 | durable stages are backed by the host, no early escalation, the refinement of `AttemptContract`, one answer per ID |
| `wrapper` | 3 connections, 4 request IDs, 2 root commands, cache of 3, 2 failed writes, 2 lives; symmetry | 234,991 | true and committed reports, one answer per ID, signals that meet their workload |
| `liveness` | the engine (2 starts, 1 kill, 1 stop; grace 1, clock 0..2, 2 faults) and the wrapper (2 connections, 3 IDs, 1 failed write, 1 life) | 144,000 | starts and kills settle, ends are recorded and reported, requests are answered, the wrapper refines `AttemptContract` |
| `resources` | Sandbox and Container profile, 4 or 5 faults; 2 cgroup leaves, 2 faults; 3 inverses, 2 runners; limits around every bound of 27-bit words | 179,000 | ordered removals, creates that are all or nothing, creates and deletes that settle, limits that are enforced or refused |
| `processes` | 2 calls and 3 faults (launch), 4 faults (gate), 2 processes on 1 PID, a reboot, a replaced executable | 320,000 | accounted launches, one start per Attempt, signals that reach their owner, absence that is death |
| `storage` | 2 daemons, 5 versions, 5 faults (file); 4 IDs, 3 limits (history); 2 frames of 1 or 2 cells (log); 2 incarnations, 2 calls, 2 scans (registry) | 685,000 | a durable register, safe retention, committed frames, logs that are found |
| `daemon` | 3 lock callers on 2 keys; 2 daemons and a stranger on 3 sockets; 2 requests; 4 operation IDs | 198,000 | a mutex per target, a served name, an orderly end, intents that settle |
| `restart_stages`, `acquisition_leak`, `acquisition_rolled_back`, `process_identity_replaced` | small instances | | section 4 |

Each property of a suite is a conjunction that is listed with its parts in the
suite's module, the type invariants of the modules among them. `TypeOK` of
`Lifecycle`, `EngineTypeOK` and `ShimTypeOK` are proved (section 5). A suite declares
the constants of its modules, those that bound a module's faults under a name of
their own, and its `.cfg` gives every one of them; what is proved of a property of a
suite is therefore proved for every instance of it.

**Bounds.** `Ops` bounds the number of operations of a run. Five let two
Containers race for one Sandbox (two creates), against a stop or a delete
of it, after the create of each Sandbox, or take one Container through create,
start, kill against a terminal observation, and delete. Two Sandboxes are needed
for references that cross them; a third Container or Sandbox adds no guard that
two do not exercise, because every guard speaks of one target and of the pairs of
one Sandbox. One spec suffices: a create with another spec is an error and
changes nothing. IDs are interchangeable in every definition, which makes
`Symmetry` sound; no run with a liveness property uses it.

In `attempt`, two starts let one fail (a wrapper that aborts, recovery that gives
it up) before the other; `Grace` 2 and `MaxTime` 4 leave room for a delivery that
is late, a crash in the grace period and an escalation after it; two faults are
a crash in a method and another one in the recovery from it, or one of each kind.
Time stops at `MaxTime`, and a kill is planned only when its grace still fits
below it, so that no deadline is out of the clock's reach.

In the exchanges of `attempt`, the pair begins in any phase in which nobody works on
it. Two calls are a mutation against another one or against its own repetition
under one ID; two exchanges are a lost attempt and the one after it, and two users
make conflicts. Crashes are not bounded.

In `wrapper`, three connections let a request, its repetition and another
request run at once; four IDs against a cache of three fill it; two commands are
one and another; two failed writes are one in the goroutine and one in the repair
by an Inspect, each before or after the rename; the second life begins with every
record the first can leave.

In the suites, faults count crashes, failed calls and losses together. Four let
a create fail, its rollback be interrupted, fail, and be interrupted once more;
three launch faults are a failed journal write, a crash and a death of the child.
Two processes on one PID are one and its successor. Two daemons are a dying and
a starting one; three sockets are theirs and one more bind. `TerminalLimit` 1 and
`IdentityLimit` 4 with four IDs make retention cut in every long behaviour, and
`EventLimit` 2 with six events leaves a slow client behind. Two frames let the
torn one follow a committed one; four faults of a process (`DeathFaults`) and three of the
machine (`PowerFaults`) fail an append, its truncation, and the truncation of the one after. Two incarnations under fresh and under reused
IDs are the deleted one and its successor. With 27-bit words every bound of the
64-bit conversions (whole CPUs, the remainder times the period, the last page)
has the same place relative to the others (`BitsAssumption`), and TLC's integers
hold the intermediate values.

The runs turn deadlock checking off because behaviours end where their operation
IDs, faults, clocks or sockets are used up, or the daemon has exited.

**Fairness.** What is assumed is what the code drives by itself:

* `AttemptEngine`: a method under way takes its next step (it runs in a goroutine
  whose context has no deadline), recovery runs to its end, the watchers come
  round (tickers in `engine/watch.go`), a supervisor restarts the daemon, the
  wrapper publishes an exit, SIGKILL kills, and time passes. A client retries the
  start it was told to retry (`engine/recovery.go:756`), and no kill: the watch
  must end it. `EndIsRecorded` exempts an Attempt with a blocking condition, which
  recovery puts on every live Attempt it finds (`engine/recovery.go:340`, deferred
  by its own message): the watch skips it from then on. `KillSettles` and
  `EndIsRecorded` exempt the state of `RestartCoversStages` (section 4).
* `ShimWrapper`: goroutines run (`Serve` of each connection, `Reaper`), and the
  daemon's watch polls (`Inspect`). Neither that a workload exits nor that the
  wrapper lives is assumed: `RequestsAnswered` holds because a death closes every
  connection, and `EndReported` exempts it.
* `Lifecycle` (`IntentsSettle`): an active operation is driven on while it can be
  (`Drive`): clients retry with the same ID, recovery resumes every active
  operation at startup. No new operation, recovery issue or failure is assumed.
  The property is about the Coordinator: whatever checkpoints were written, its
  stage rules accept some way to end. That the engine takes it is the subject of
  `StartSettles`, `KillSettles`, `CreateIsSettled` and `RemoveIsSettled`.
* `Acquisition`: a method goes on, a stopped daemon is restarted and recovers, a
  client retries an operation that is active; faults are bounded.
  `CreateIsSettled` exempts two states the code does not leave, `Leaked` and
  `Rebased` (section 4).
* `CgroupTree`: calls go on, the engine repeats a removal that failed, and a
  process whose workload was not started ends. `RollbackStack`: runs go on and
  are repeated.
* `LaunchJournal`: calls and children go on, Ensure is repeated. `StartGate`:
  calls go on and a client repeats the start; strong fairness, as the engine's
  other calls alternate with it. `ProcessIdentity`: calls go on, the reaper reaps,
  a removal is repeated.
* `TargetLocks`: methods return; `sync.Mutex` serves a waiter at last (strong
  fairness; it hands itself over to one that has waited long enough).
* `SocketLease`: daemons go on; a process that takes the name excuses it.
* `DaemonRun`: the main goroutine, the server's goroutines and the timers go on.
  Requests and watchers may hang: `Ends` rests on the timeouts.

`EventLog`, `FileStore`, `LogStore`, `LogRegistry` have safety properties only:
what they do ends with the call that does it.

**Mutants.** Every property of a passing run is broken by a mutated definition
that stands for a plausible bug (a forgotten lookup, a dropped sync, an admitted
phase, a removal in the wrong order); the mutated operators stand in the modules
before the definition they change.

## 4. Disagreements between the code and its documentation

Four have a run and are listed under `findings`.

* `RestartCoversStages` (run `restart_stages`).
  `src/docs/features/daemon-recovery-observability-api.md:396` says that
  reconciliation covers every durable stage. Trace: the workload exits by itself
  while a kill is at `persist_intent`; the signal fails, the observation is
  terminal, and the kill is checkpointed at `observe_process` without a deadline;
  the daemon dies before the record. `reconcileActiveKill`
  (`engine/recovery.go:608`) demands a deadline at that stage, so every later
  startup fails.
* `FailedLeavesNothing` (run `acquisition_leak`). `engine/rollback.go:185` says that
  "every possible effect is covered by already-checkpointed owner inverses". Trace:
  the daemon dies after an effect and before its receipt is stored; the retry
  fails definitely before it gets there (preflight); only journaled receipts are
  rolled back, and the operation fails with the resource left on the host.
* `EveryRemoveSettles` (run `acquisition_rolled_back`).
  `src/docs/features/lifecycle-sandbox.md:119` says that `DeleteContainer` takes a
  stopped Container and that a retry continues its teardown. Trace: a create is
  rolled back, which leaves the Container stopped without host resources; its
  delete looks up one receipt per kind (`engine/container.go:189`), finds none, and
  stays active for good; it blocks the target and every startup.
* `VerifiedExit` (run `process_identity_replaced`). `isolation/process.go:214` says
  that `ProcessEvidencePresent` distinguishes the process from "verified exit/PID
  reuse". Trace: the executable of a live wrapper is replaced on disk, as an
  upgrade does; `/proc/PID/exe` then ends in " (deleted)", the evidence differs,
  and the wrapper is reported absent while it runs; a removal answers "already
  absent" and leaves it.

Others were met while modelling. The modules contain the behaviour; the properties
that pass are stated around it.

* `lifecycle/coordinator.go:138` says that a rejection is recorded so that it
  "remains stable across retries". If the target has no metadata (a delete of an
  absent Sandbox is active) and the rejected request is no delete, the event
  lookup at line 168 fails, the transaction is dropped, and the same ID is
  accepted once the delete has ended.
* `src/docs/features/lifecycle-sandbox.md:104` says that `CreateContainer` returns
  its IDs only once `created` is durable. `BeginContainerCreate`
  (`lifecycle/container.go:39`) answers a durable success for *any* stored pair
  with the same inputs, also for one that a failed create left as stopped history.
* `shim/wrapper.go:154` says that Inspect returns a "durable terminal fact". When
  the directory could not be synchronized after the rename (`shim/terminal.go:288`),
  the wrapper dies and the next one is constructed, `NewInit` takes the record as
  committed and nothing synchronizes it. What is kept, and proved, is
  `ReportedIsCommitted`: a report is of a record on disk, which the life that
  wrote it has synchronized.
* `engine/recovery.go:398` says that `checkpointRecoveryIssue` keeps an intent
  resumable. It moves an intent at `persist_intent` to `check_preconditions`, from
  where a start's only checkpoint is refused by the stage order and a kill is
  refused by `KillContainer` and by recovery.
* `engine/watch.go:245` speaks of "a benign race with a completed same-ID client
  request". `SynchronizeKillDeadlines` reads without the target lock and may find
  a client's kill at `observe_process` without a deadline, just before its record;
  the error of line 219 stops the daemon.
* `src/docs/features/lifecycle-sandbox.md:220` says that an operation continues
  from its last durable stage. `checkpointProgress` (`engine/checkpoint.go:34`)
  drops the OOM baseline: a create that is resumed after the baseline was stored
  repeats a checkpoint the Store refuses, is neither completed nor rolled back, and
  fails every startup (`Rebased` in `Acquisition`).
* `daemon/logs_test.go:432` says that a "successful Delete bounds registry memory
  and permits exact identity reuse". A log request that read the metadata before
  a delete and captures its epoch after it publishes the deleted owner again
  (`daemon/logs.go:389`); and while IDs are created anew, a log request binds the
  deleted owner's config, so that `RegisterAttempt` answers the completed create
  with `ErrLogAlreadyRegistered` (`daemon/service.go:289`). `LogsAreFound` claims
  the absence of the second for fresh IDs only.
* `daemon/logs.go:415` says that `discoverOwner` restores a lost binding. With the
  config of a deleted incarnation of the same IDs on disk it answers "duplicate
  identity bindings" (`daemon/logs.go:473`) after each restart. `LogsAreFound`
  claims answered requests for fresh IDs only.
* `logstore/reader.go:58` says that a snapshot is of a "synchronized size". The
  commit lock is freed when the wrapper dies, and a reader takes a frame whose
  marker was not synced, which a power loss may take back.
* `logstore/store.go:353` takes an invalid last marker for a torn one and the same
  bytes before the end for corruption. `Open` accepts a whole last frame that a
  dead wrapper had not synced and does not sync it; once a frame follows, a power
  loss that garbles the first marker leaves a log no `Open` accepts. The passing
  run has deaths *or* power losses, not one after the other.
* `src/docs/features/lifecycle-sandbox.md:165` says that a call with another ID returns
  the current state when the target has been reached. The server does so for a
  create, in whatever phase the pair is; the client library takes only `created`
  (`src/pkg/client/client.go:212`) and reports an error. The second part of `AnswersAreExact`
  excepts create for this reason.
* A create under another ID that finds a pair which was rolled back has a succeeded
  record, but its first answer is `internal`: the service misses the host-owner
  binding. The repetition is a replay and succeeds.

## 5. Proofs

### 5.1 `Lifecycle`

`LifecycleProofs` proves, for every value of the constants (any number of
Sandboxes, Containers, operations and specs), from the one assumption
`DistinctIDs` (the ID sets are disjoint and `None` is none of them):

| Theorem | States |
|---|---|
| `TypeCorrect` | `Spec => []TypeOK` |
| `AttemptExclusive`, `ReferencesHold`; `GraphKept` | `Spec => []ActiveAttemptExclusive`, `[]ReferencesIntact`; both: `[]GraphConsistent` |
| `OperationExclusive`, `ConfirmationsFit`, `NothingStranded`; `IntentsKept` | `Spec => []OneActiveOperation`, `[]ActiveOperationFits`, `[]NoStrandedPhase`; all: `[]IntentsConsistent` |
| `AnswersKept`, `HistoryKept`; `FinalKept` | `Spec => OperationsFinal`, `HistoryImmutable`; both: `RecordsFinal` |
| `OutcomesKept` | `Spec => OutcomesTruthful` |

The inductive invariant is `SafetyInv == TypeOK /\ OperationsInv /\ ResourcesInv`.
None of its conjuncts is inductive alone. `NoStrandedPhase` is kept by a
confirmation only because the operation that ends is the one the phase waits
for, which is `OneActiveOperation`; a confirmation leaves no *other* operation
with the wrong phase for the same reason; and `FailActiveOperation` strands
nothing because `ActiveOperationFits` says that a start or a kill is never active
on a resource in `creating` or `stopping`. On the resource side,
`ActiveAttemptExclusive` and `ReferencesIntact` need each other: a Sandbox
removed without pairs leaves no dangling reference, and a Sandbox whose create
is rolled back has no pair because pairs exist only in Sandboxes that were Ready.

The proof classifies the effect of a step: it opens an operation, ends one, or
keeps the active ones; it changes one Sandbox, one pair, or both. Lemmas
(`OpensKeepsInv`, `EndsKeepsInv`, `SameActiveKeepsInv`, `SandboxChangeKeepsInv`,
`PairChangeKeepsInv`, ...) say what each class preserves; then each action is put
in its classes, one proof step per action.

`OutcomesKept` needs one more invariant, `OutcomesNamed`: an active operation
that records a terminal observation carries a terminal outcome in its
fingerprint. `BeginRecordStopped` admits nothing else, and no step changes a
fingerprint of an active operation (`StepObserves`).

### 5.2 `AttemptEngine`

In `AttemptRecordProofs`, for every set of start, kill and stop operations, every grace
period and every bound on clock and faults, from `EngineAssumption` (one Sandbox, one Container,
the ID sets of clients, watch and initial creates are disjoint) and `DistinctIDs`:

| Theorem | States |
|---|---|
| `GraceAnchored` | `EngineSpec => []DeadlineAnchored` |
| `NoEarlyEscalation` | `EngineSpec => []EscalationAfterGrace` |
| `NoWorkloadForgotten` | `EngineSpec => []WorkloadAccounted` |
| `EngineTypeCorrect` | `EngineSpec => []EngineTypeOK` |
| `CoordinatorOnly` | `EngineSpec => [][Next]_vars /\ []SafetyInv`, with `Next` and `SafetyInv` of `Lifecycle` |
| `RecordImplementsContract` | `EngineSpec => RecordFollowsWorkload`, the refinement of `AttemptContract` |

*The grace period.* `GraceInv` adds `KillInv` to the two properties: what a
method relies on at the three places where it acts on deliveries and deadlines.
At `checkpoint_signal` the first delivery is stamped; at `wait` and `escalate`
the deadline is durable; at `escalate` it has passed, and the clock does not run
back. Deadline and first delivery are each written once, so a method that was
resumed anywhere escalates against the same two values.

*The record.* `AttemptInv` joins `SafetyInv` of `Lifecycle`, `GraceInv`, and
three parts that need each other. `HostInv`: the wrapper has an outcome exactly
when it says the workload is over. `CallInv`: what a method under way has seen
stays true until it acts on it although the wrapper does not wait for it
(`ended` means that the outcome is committed, `running` that the child was
published, `absent` that the wrapper is gone), and a start under way is still
active. `RecordInv`: Running is recorded only of a published child, active
starts are clients' starts, and an active stop carries the wrapper's outcome.
Each step has one of a few *shapes* (nothing durable but a stage; the gate is
consumed for an active start; an operation is opened; Running or an end is
recorded; recovery gives up because the wrapper is gone). `ShapeKeeps` shows
that a step of such a shape keeps `HostInv` and `RecordInv`; the `...Follows`
lemmas, one per group of actions, show that every step is a Coordinator step of
such a shape and keeps `CallInv`. The refinement is then a case split over the
shapes.

### 5.3 `ShimWrapper`

For any number of connections, request IDs, commands, failed writes and lives,
from `ShimAssumption` (`None` is no value of another kind, no command is called
`release` or `signal`, the bounds are naturals and there is a life):

| Theorem | States |
|---|---|
| `WrapperInvariant` | `Spec => []ShimInv` |
| `ShimTypes` | `Spec => []ShimTypeOK` |
| `GateOnce` | `Spec => []GateOpensOnce` |
| `PreparedIsUnstarted` | `Spec => []PreparedMeansClosed` |
| `RecordsTruthful` | `Spec => []TerminalTruthful` |
| `Replays` | `Spec => []ReplayExact` |
| `DeliversOnce` | `Spec => []DeliveredOnce` |
| `ReportsCommitted` | `Spec => []ReportedIsCommitted` |
| `SignalsReach` | `Spec => SignalsReachTheWorkload` |
| `WrapperKeepsContract` | `MaxLives = 1`, then `Spec => KeepsContract`, the refinement of `AttemptContract` |

`ShimInv` follows the one start of a wrapper. `StartInv`: at most one connection
is between `ReleaseBegin` and its answer, the gate is consumed then, and until
the child is published nothing is recorded and the goroutine has not begun.
`TaskInv`: while the goroutine is at a place, the child, the workload and the
record are what that place supposes. `RecordInv`: a record in memory is the one on
disk or still uncertain, and true of the workload. `CacheInv`: one connection
executes a request ID, its entry has no response before that connection answers,
and a delivered signal is one whose connection is about to answer or whose answer
is remembered. The parts need each other: a signal's delivery relies on
`StartInv` (a connection at `sending` saw a safe child, so the goroutine exists)
and on `TaskInv` (a child that is not reaped means the goroutine still waits),
hence nothing has been recorded.

### 5.4 `TargetLocks`, `SocketLease` and `DaemonRun`

`DaemonProofs`. For any callers, keys and entries, from `LocksAssumption` (finitely
many callers, and `None` is none of these):

| Theorem | States |
|---|---|
| `LocksTyped` | `Spec => []TypeOK` |
| `LocksExclude` | `Spec => []MutualExclusion` |
| `LocksTableIsUsed` | `Spec => []TableIsUsed`: an entry is in the table exactly while somebody uses it |
| `LocksImplementMutex` | `Spec => IsMutex`, the refinement of `KeyedMutex` |
| `DaemonExitsClean` | `DaemonSpec => []CleanExitIsComplete`, for any number of requests |
| `StoreClosesQuietly` | `DaemonSpec => Run!CloseIsQuiet`, the action property that is part of `Ends` |
| `SocketInvariant` | `DaemonSpec => []SocketInv` |
| `NameServed` | `DaemonSpec => NameIsServed`, for any daemons, sockets, strangers and faults |

The inductive invariant `LocksInv` says that the count of an entry is the number
of callers that point at it (`Counted`), that whoever uses a key points at the one
entry of that key in the table (`InTable`, `Separate`, `UsedOnly`), and that a holder
owns the mutex of its entry (`OwnerHolds`). `Counted` alone makes the deletion
harmless: the last to leave sees zero, hence nobody has fetched the entry.

`RunInv` says of the run of the daemon what its goroutines and channels have told
the main goroutine where that is: a shutdown that answers "ok" left no request
unfinished (`RunDrain`), and the Store may be closed only where the drain was clean
and the watchers' message has been taken (`RunPlace`). That the exit is clean is then
what the last place says.

*The name of the socket.* A daemon removes a dead socket in steps: it looks, dials, moves
what it finds to a quarantine name, compares, and unlinks or moves back, while a stranger may
put its own socket at the name between any two of these. `SocketInv` says that only the
holder of the lease is at any step (`SocketPlaces`), what the shared name leads to
(`SocketShared`), and, of each daemon at its step, how its own socket, the one it wants to
remove and the one it moved are related (`SocketOf`): what it is about to unlink is its
own or was seen dead and is not what the name leads to, and what it moved by mistake it
knows to be another one. That a live socket of another is never unlinked (`UnlinksOwn`), and
that one moved by mistake is back at its name unless that was taken, then follow at the
one step that compares.

### 5.5 The books of the host resources

`ResourcesAccounted` in `LifecycleProofs`: `Spec => []HostResourcesAccounted`.
`AccountInv` keeps books for every target (`Books`): the creates that acquired an
inventory are as many as the deletes that released one, and one more exactly while
the target owns one. A step either acquires for a target that owns nothing, or
releases the inventory of a target that owns one, or counts for nothing and moves
no inventory; that each action is one of the three needs `SafetyInv` (a create
succeeds only on a target in `creating`, which owns nothing: `OwnsLate`). The sets of
operations are finite for every run because one record changes per step.

### 5.6 Stages and answers

In `AttemptRecordProofs`:

| Theorem | States |
|---|---|
| `StagesAreBacked` | `EngineSpec => []StagesBacked` |
| `ExchangeInvariant` | `AttemptSpec => []ExchangeInv` |
| `AnswersExact` | `AttemptSpec => []AnswersAreExact` |

*Stages.* `StagesInv` says what the stage of an active operation claims of the host
(`ClaimsHold`: a start past `release_start_gate` has a consumed gate, a kill past
`signal_process` a delivered signal or an exit) and what a Start that is about to write
such a stage has seen (`GateSeen`). Claims are never withdrawn, for the gate and the deliveries
only ever go on (`Onward`); so a step is harmless unless an operation comes to claim
more (`Unclaimed`), and the few steps that do follow a place where `GateSeen`, or
`KillInv` of the grace period, has the fact.

*Answers.* For any users, operation IDs, links and retries. A link carries an answer
the client may take for the mutation it asked for (`LinkPlace`), one link works at a
time on an ID's active record, and everything told of an ID is the reply of its record
(`RecordPlace`): hence one answer per ID, and no success that the client refuses.

### 5.7 Start gate, launch journal and identity

In `ProcessesProofs`, for any calls and bounds, from `ProcessesAssumption`
(`None` is no call and no launch, nor anything kept of a process, there is a PID, and
the bounds are naturals):

| Theorem | States |
|---|---|
| `GateStartsOnce` | `Spec => []StartsOnce` |
| `LaunchAccounted` | `Spec => []LaunchIsAccounted` |
| `ReturnedReady`, `ReturnedSpared` | `Spec => Launch!ReturnedIsReady`, `Launch!ReturnedIsSpared`, the action properties in `LaunchSettles` |
| `SignalsReachTheOwner` | `Spec => []SignalsTheOwner` |
| `AbsentHasEnded` | `Spec => []AbsentIsDead` |

`GateInv` rests on one fact about the disk: once anything may have been delivered, the
visible *and* the durable artifact are consumed (`Consumed`), so no power loss opens the gate
again. `LaunchInv` says of the one call that holds the owner's lock what it knows at its
step (`LaunchPlace`) and of the world that a child which may pass its gate is the one the
journal names and the only one alive (`LaunchWorld`). The parts need each other: the
journal may be rewritten only where the call has seen every other child dead.

*Identity.* A call reads `/proc` file by file while PIDs are reused, so what it holds may
come from several processes, and `SignalsTheOwner` alone says nothing of that.
`IdentityInv` has these parts:

- `HostInv`: no two processes have the boot and the start in common, one that exists
  has its PID to itself. Every step of the host satisfies `Later`: a process once born
  changes in nothing but its end, and its executable if that is replaced.
- `Program`: what a call has left to do is in order. The readings follow one another,
  a judgement comes next after a reading, a signal next after the judgement
  (`Ordered`), and a probe is closed before the call goes on (`Probed`).
- `Knows`: the kept evidence is that of the process, and while that exists every
  descriptor the call holds is of it. During a launch the evidence may be mixed, but
  only if its child is gone and the check that follows is still to come.
- `Tells`: between the first reading and the judgement, a reading that shows the boot
  and start of the evidence means that the descriptor is of that process: the owner
  existed when it was read, so it has held its PID since before the descriptor was opened.
  At the judgement of a probe or removal, a reading that differs from the evidence,
  and did not fail, means that the process no longer runs unless its executable was
  replaced.

The signal that follows the judgement then has no other process to reach, whatever
happens on the host in between.

### 5.8 State file, event log, registry of logs, and the log of an Attempt

In `StorageProofs`, from `StorageAssumption`:

| Theorem | States |
|---|---|
| `FileInvariant` | `Spec => []FileInv` |
| `FileServesDurably` | `Spec => [](File!TypeOK /\ NeverTorn /\ OneOwner /\ ServedIsDurable)` |
| `FileImplementsRegister` | `Spec => ImplementsRegister`, the refinement of `DurableRegister` |
| `EventInvariant` | `Spec => []EventInv` |
| `RetentionSafe` | `Spec => []RetentionIsSafe` |
| `FollowerMissesNothing` | `Spec => NothingMissed` |
| `RegistryInvariant` | `Spec => []RegistryInv` |
| `LogsFound` | `Spec => []LogsAreFound` |
| `LogInvariant` | `Spec => []LogInv` |
| `CommittedKept` | `Spec => []CommittedLasts` |

*The state file.* A power loss may leave either of the two versions that the directory
shows and that is synced. `FileInv` says that at most one version is in doubt (`OneDoubt`),
and what the method of each daemon knows where it is (`FilePlace`): until its rename,
a daemon that serves has nothing in doubt. Every step is then an attempt, a commit, a
drop of the version in doubt or a stutter of the register.

*The event log.* That no candidate is refused is not inductive: validation looks at records
that retention may have cut long before. `EventInv` has three parts. `HistoryKept` is what
retention leaves intact of every record: an operation that is active is the only one of its
target and owns nothing yet (`OperationKept`), what a resource owns came with a create of it
that adopted its receipts (`OwnerKept`), and the operation a mark names keeps its reason,
be it a record or a tombstone (`MarkKept`). A create that adopted its receipts is either
pinned by the resource that owns them or has a release that ended *after* it
(`ReleaseKept`); because retention goes by the order of the ends, it never retires a
release before the create it explains. `Numbered` says that the ends are numbered without
gap and without double, and `Limited` what retention promises. The limit on full records
follows from counting: of the candidates that are kept, each has a different number of later ones
below `TerminalLimit`.

A commit is three steps of data, and each has a shape lemma (`Renumbered`, `Compaction`,
`Suffix`) and one that it keeps `HistoryKept`; what is kept is valid (`KeptIsValid`). A
transaction is a `Draft` of one operation and its resource, an event and a mark. `Allowed`
says which of them the lifecycle makes, one lemma per transaction proves it, and
`RecordStopped` does it twice in one commit. `Remembers` carries through the
same three steps what an operation that ended says. For the client, `BehindShape` computes
what `EventsAfter` cuts behind a position that is no gap.

`EventLogAssumption` asks of the constants what `RetentionPolicy.Validate` does, finitely many
IDs, and a `None` that is no record.

*The registry.* With fresh IDs, `FreshInv` compares revisions: no epoch is from the future,
a scan has an epoch no later than that of its ID, and an earlier one if its incarnation was
unregistered since (`ScanPlace`), so that `registerDiscoveredAttempt` refuses what is stale.
With reused IDs (`ReusedInv`) only what a create registers is claimed to last.

*The log of an Attempt.* `CommittedLasts` speaks of what a scan makes of the file, and the scan
is a recursive function. That it is defined at every offset is an induction from the end of
the file (`FromTheEnd`), for which the proof takes a greatest counterexample from the
well-foundedness of the naturals. `LogInv` then says without any scan what the file is: the
frames of one ordered log `L` (`Fits`), followed by at most a part of one frame that has the
next positions (`Rest`). A scan of such a file returns `L`, or `L` and that frame if it is
whole (`FitsAgree` says that no two logs fit one file). On what is synced there are two cases.
`Synced`: it has all that was acknowledged, a part of one frame behind it, and of a frame
that is whole in the file it lacks at most the marker. `Unsynced`: a writer died before it synced the last marker
of `L`, and the acknowledged frames are those before it. `Place` says how the index and the
confirmed size of the Store stand to `L` at each of its steps. None of the parts is
inductive alone: that `Open` may keep a frame nobody acknowledged, and that truncation never
cuts one that was, both need `Rest` and `Synced` together. What a power loss leaves of a file
and its synced part is computed in `OutcomeRest` and `OutcomeUnsynced`: the cells both share
stay, what is behind them is a prefix that may be garbled, and as the prefix of a frame is
never garbled this again is a rest.

### 5.9 Cgroups and limits, acquisition and rollback

In `ResourcesProofs`, for any number of Attempts, any page and any bounds:

| Theorem | States |
|---|---|
| `CgroupInvariant` | `ResourcesSpec => []CgroupInv` |
| `LimitsEnforced` | `ResourcesSpec => []LimitsAreEnforced` |
| `QuotaIsExact`, `RoundIsExact` | `QuotaExact(milli)`, `RoundExact(value, page)` for every limit, value and page, not only those the suite tries |

`HeldIsEnforced` is not inductive: a leaf that is held could lose the controllers of its
parent. `CgroupInv` therefore says that nothing, not even a call, is beneath a group that
is not held (`Nested`), what a call in progress is about (`CallPlace`), and what the kills
mean before and after the baseline (`Counted`). That removals and ensures of different
groups run together is harmless because every step acts at one group (`Settles`,
`StructureKept`).

The conversions are exact for integers of any width, from `BitsAssumption`: the modulus
exceeds the period times 1000. That `2^Bits`, `2^(Bits - 1)` and the page sizes are positive
integers is part of this assumption and of `TreeAssumption`, for the provers know
nothing of powers; TLC evaluates it for the width of the run.

*Acquisition.* `AcquisitionProofs`, for every profile and every bound on faults and losses,
from `AcquisitionAssumption`; `ResourcesProofs` instantiates it for the Container, the
Attempt and the Sandbox of the suite.

| Theorem | States |
|---|---|
| `AcqInvariant` | `Spec => []AcqInv` |
| `HeldInvariant` | `ResourcesSpec => []HeldInv` |
| `RemovalsOrdered` | `ResourcesSpec => []RemovalsAreOrdered`, of the targets and of the stack |
| `CreatesAreWhole` | `ResourcesSpec => CreateIsAllOrNothing` |

`RecordInv` says what the durable records promise whatever becomes of the daemon: the host
is at most one effect ahead of the journal, what an inverse or a release is recorded for is
gone, and nothing is acquired once the create has ended. `CallInv` says what the method
under way has established beyond the records: the inverses behind the position of a
rollback pass have succeeded unless one failed (`Passed`), a delete has released everything
before its position. A crash leaves `RecordInv` and an idle call, so each step is judged
by the place it leaves and the one it enters. Of a create that failed every journaled
resource is gone because `inspect` ends it only after a pass without failure, and because
`host` never regains what an inverse is recorded for (what was acquired and not yet
journaled is the subject of section 4); that every removal finds what blocks it gone is
then the order of the profiles, which is why the assumption is needed.

*The stack of inverses.* `StackInv`: once anything was released, the saved records cover every
step of the stack (`StepsInv`), one run at a time is among the inverses, and a run has left
nothing behind itself that is held, except what it will report as failed (`RunInv`).

### 5.10 Model-checked only

Liveness under fairness is out of the prover's reach: `IntentsSettle`,
`StartSettles`, `KillSettles`, `EndIsRecorded`, `RequestsAnswered`, `EndReported`,
`CreateIsSettled`, `RemoveIsSettled`, `LaunchSettles` but for its two action properties,
`StartIsAnswered`, `Ends` but for the closing of the Store. Every safety invariant and
every action property of the passing runs, and every refinement, is a theorem.

## 6. Not modelled, and what is left

* **Pure values**: API types and their validation, the encoding and decoding of client
  library and handlers, strict JSON decoding, the projections and queries of the
  service, observability, flag parsing and printing of the client program, the
  evaluation tool. They keep no state of the lifecycle. The mutations of a Sandbox
  take the way of those of a Container (`ApiExchange`) and have no module of their own.
* **System calls without a protocol**: namespaces, mounts, `pivot_root`, checks of
  owners, modes and inodes of paths. The models take the paths for what they
  should be.
* **Bookkeeping of the Store**: CAS revisions (one writer at a time inside one
  transaction), field validation, the sequence overflow at 2^64.
* **`IdentityRegistry`** of the engine is only `known` in `AttemptEngine`: `Discover`
  fills it before the API and the watchers start (`cmd/mydockerd/main.go:221`);
  afterwards a create adds an entry and a teardown removes one. The revision guard
  of `publishDiscoveredIdentities` never meets a concurrent change.
* **`ReconcileCondition`** and condition records other than the one the watchers
  look at; `CapturePeer` of `isolation`, which nothing calls.

Of the plan nothing is left that the provers can reach. Liveness stays with TLC. The
hazards of `PROJECT.json` without a property say there why they have none.

## 7. Running

    tlc -config MCLifecycle.cfg MCLifecycle
    tlc -config MCAttempt.cfg MCAttempt
    tlc -config MCShimWrapper.cfg MCShimWrapper
    tlc -config MCLiveness.cfg MCLiveness
    tlc -config MCResources.cfg MCResources
    tlc -config MCProcesses.cfg MCProcesses
    tlc -config MCStorage.cfg MCStorage
    tlc -config MCDaemon.cfg MCDaemon
    tlapm LifecycleProofs.tla
    tlapm AttemptRecordProofs.tla
    tlapm ShimWrapperProofs.tla
    tlapm DaemonProofs.tla
    tlapm ProcessesProofs.tla
    tlapm StorageProofs.tla
    tlapm AcquisitionProofs.tla
    tlapm ResourcesProofs.tla

The runs of section 4 end with a counterexample:

    tlc -config AttemptEngineRestart.cfg MCAttemptEngine
    tlc -config AcquisitionLeak.cfg MCAcquisition
    tlc -config AcquisitionRolledBack.cfg MCAcquisition
    tlc -config ProcessesReplaced.cfg MCProcesses
