----------------------------- MODULE Lifecycle -----------------------------
(***************************************************************************)
(* The lifecycle Coordinator of src/internal/lifecycle: the durable state   *)
(* machine of Sandboxes, Container/Attempt pairs and operations.            *)
(*                                                                         *)
(* Every Coordinator method is one store.Update: it holds the exclusive     *)
(* store lock, works on a copy and either commits everything or nothing     *)
(* (state/memory.go:133-157).  One method is therefore one atomic action    *)
(* here, and a call that returns an error is a step that does not happen.   *)
(* What is not atomic is the engine's use of the Coordinator: it calls      *)
(* Begin..., works on the host, calls CheckpointOperation as it goes and     *)
(* then calls Confirm..., and the daemon may crash between any two calls.    *)
(* All variables are durable, so a crash is the absence of a next call, and  *)
(* the interleavings of this module are those of the calls of every client   *)
(* and of every incarnation of the daemon.                                  *)
(*                                                                         *)
(* The Store validates the whole graph before it commits (memory.go:162).    *)
(* These checks are not guards here: the invariants below say that no        *)
(* Coordinator transaction ever needs them.                                  *)
(***************************************************************************)
EXTENDS Naturals, FiniteSets

CONSTANTS
    Sandboxes,    \* sandbox IDs
    Containers,   \* container IDs; the attempt ID of a pair is the container's
    Ops,          \* operation IDs clients and recovery may use: the bound on a run
    Specs,        \* immutable create inputs (SandboxSpec; process, image and rootfs)
    None          \* absence of an optional field

ASSUME DistinctIDs ==
    /\ Sandboxes \cap Containers = {}
    /\ None \notin Sandboxes \cup Containers \cup Ops \cup Specs

VARIABLES
    sandbox,      \* [Sandboxes -> SandboxRecord], phase "absent" when not stored
    pair,         \* [Containers -> PairRecord], phase "absent" when not stored
    op            \* [Ops -> OperationRecord], state "unused" when not stored

vars == <<sandbox, pair, op>>

-----------------------------------------------------------------------------
(* Records. *)

Targets == Sandboxes \cup Containers

SandboxPhases == {"absent", "creating", "ready", "stopping", "stopped"}
AttemptPhases == {"absent", "creating", "created", "running", "stopped"}

\* domain.IsActiveAttempt
ActivePhases == {"creating", "created", "running"}

\* What a captured or unknown terminal observation reports; "not_applicable"
\* is kept for workloads that never ran and "pending" for those not over.
TerminalOutcomes == {"captured", "unknown"}
Outcomes == TerminalOutcomes \cup {"none", "pending", "not_applicable"}

\* owner is the create operation whose adopted receipts make up the retained
\* host inventory (HostResources), None when the record owns nothing.
NoSandbox == [phase |-> "absent", spec |-> None, current |-> None, owner |-> None]
NoPair == [phase |-> "absent", sandbox |-> None, spec |-> None,
           outcome |-> "none", owner |-> None]

StoredSandbox ==
    [phase : SandboxPhases \ {"absent"}, spec : Specs,
     current : Containers \cup {None}, owner : Ops \cup {None}]

StoredPair ==
    [phase : AttemptPhases \ {"absent"}, sandbox : Sandboxes, spec : Specs,
     outcome : Outcomes, owner : Ops \cup {None}]

SandboxRecord == {NoSandbox} \cup StoredSandbox
PairRecord == {NoPair} \cup StoredPair

Types == {"create", "start", "kill", "stop", "delete"}

\* The stages some guard tells apart, in the order of operationStageRank;
\* "prepare" stands for every acquisition stage up to rootfs preparation.
Stages == {"persist_intent", "check_preconditions", "prepare", "attach_cgroup",
           "release_start_gate", "signal_process", "observe_process", "teardown",
           "rollback", "complete"}

StageRank ==
    [s \in Stages |->
        CASE s = "persist_intent"      -> 1
          [] s = "check_preconditions" -> 2
          [] s = "prepare"             -> 10
          [] s = "attach_cgroup"       -> 11
          [] s = "release_start_gate"  -> 12
          [] s = "signal_process"      -> 13
          [] s = "observe_process"     -> 14
          [] s = "teardown"            -> 15
          [] s = "rollback"            -> 18
          [] OTHER                     -> 20]

\* The ownership evidence of an operation.  A create journals receipts and, in
\* the rollback stage, their inverses ("undoing" when they are recorded as
\* started, "undone" once every one succeeded and absence was inspected); a
\* delete journals releases, "full" when they cover the inventory exactly.
Journals == {"none", "partial", "full", "undoing", "undone"}

\* The request fingerprint: the inputs of the request besides type and target.
Fingerprints == [sandbox : Sandboxes \cup {None}, spec : Specs \cup {None},
                 outcome : TerminalOutcomes \cup {"none"}]
NoInput == [sandbox |-> None, spec |-> None, outcome |-> "none"]

\* A binding as bindingFor and suppliedBinding build it; Validate pairs each
\* type with the targets it may have.
Bindings == [type : Types, target : Targets, fp : Fingerprints]

Results == {"pending", "succeeded", "noop", "failed", "conflict"}

NoOperation == [state |-> "unused", type |-> "none", target |-> None,
                fp |-> NoInput, stage |-> "none", journal |-> "none",
                result |-> "none"]

StoredOperation ==
    [state : {"running", "succeeded", "failed"}, type : Types, target : Targets,
     fp : Fingerprints, stage : Stages, journal : Journals, result : Results]

OperationRecord == {NoOperation} \cup StoredOperation

-----------------------------------------------------------------------------
(* Queries of the Store. *)

Active(o) == op[o].state = "running"
Terminal(o) == op[o].state \in {"succeeded", "failed"}

\* tx.ActiveOperation finds an operation on this target.
Busy(t) == \E o \in Ops : Active(o) /\ op[o].target = t

\* The phase of a target, and whether its primary record is stored.
PhaseOf(t) == IF t \in Sandboxes THEN sandbox[t].phase ELSE pair[t].phase

Exists(t) == PhaseOf(t) # "absent"

PairsOf(s) == {c \in Containers : pair[c].phase # "absent" /\ pair[c].sandbox = s}

ActivePairsOf(s) == {c \in PairsOf(s) : pair[c].phase \in ActivePhases}

-----------------------------------------------------------------------------
(* Operation records. *)

Binding(type, t, fp) == [type |-> type, target |-> t, fp |-> fp]

\* newActiveOperation and putNewActiveOperation.
PutNewActive(o, b) ==
    op' = [op EXCEPT ![o] = [state |-> "running", type |-> b.type,
              target |-> b.target, fp |-> b.fp, stage |-> "persist_intent",
              journal |-> "none", result |-> "pending"]]

\* An operation that is terminal in the transaction that records it.
PutNewTerminal(o, b, state, result) ==
    op' = [op EXCEPT ![o] = [state |-> state, type |-> b.type,
              target |-> b.target, fp |-> b.fp, stage |-> "complete",
              journal |-> "none", result |-> result]]

\* completeOperation and failOperation keep the journal of the active record.
Finish(o, state, result) ==
    op' = [op EXCEPT ![o].state = state, ![o].stage = "complete", ![o].result = result]

Complete(o) == Finish(o, "succeeded", "succeeded")
FailOperation(o) == Finish(o, "failed", "failed")

\* resolveOperation, ResolutionNew: the ID is unused and the target is free.
ResolveNew(o, b) == op[o].state = "unused" /\ ~Busy(b.target)

\* resolveOperation, ResolutionResume: the ID is active with this binding.
\* A terminal record resolves to ResolutionReplay, which changes nothing, and
\* any other binding of a known ID to BindingMismatchError.
ResolveResume(o, type, t) ==
    Active(o) /\ op[o].type = type /\ op[o].target = t

AtLeast(o, stage) == StageRank[op[o].stage] >= StageRank[stage]

-----------------------------------------------------------------------------
(* Sandbox operations (lifecycle/sandbox.go). *)

SandboxCreate(s, p) == Binding("create", s, [NoInput EXCEPT !.spec = p])

\* A stored Ready Sandbox with the same spec is a durable no-op; any other
\* stored Sandbox answers CodeAlreadyExists.
BeginSandboxCreate(o, s, p) ==
    /\ ResolveNew(o, SandboxCreate(s, p))
    /\ \/ /\ sandbox[s].phase = "ready" /\ sandbox[s].spec = p
          /\ PutNewTerminal(o, SandboxCreate(s, p), "succeeded", "noop")
          /\ UNCHANGED sandbox
       \/ /\ sandbox[s].phase = "absent"
          /\ PutNewActive(o, SandboxCreate(s, p))
          /\ sandbox' = [sandbox EXCEPT ![s] =
                            [NoSandbox EXCEPT !.phase = "creating", !.spec = p]]
    /\ UNCHANGED pair

\* The receipts become the Sandbox inventory in the transaction that
\* completes the operation; a successful create needs the complete profile.
ConfirmSandboxCreate(o, s) ==
    /\ ResolveResume(o, "create", s)
    /\ AtLeast(o, "prepare") /\ op[o].journal = "full"
    /\ sandbox[s].phase = "creating"
    /\ sandbox' = [sandbox EXCEPT ![s].phase = "ready", ![s].owner = o]
    /\ Complete(o)
    /\ UNCHANGED pair

\* The inverses have run and absence was verified: the metadata goes too.
FailSandboxCreateAfterRollback(o, s) ==
    /\ ResolveResume(o, "create", s)
    /\ op[o].stage = "rollback" /\ op[o].journal = "undone"
    /\ sandbox[s].phase = "creating" /\ sandbox[s].owner = None
    /\ sandbox' = [sandbox EXCEPT ![s] = NoSandbox]
    /\ FailOperation(o)
    /\ UNCHANGED pair

\* Mutant: an active Attempt does not keep the Sandbox from stopping.
BeginSandboxStopUnchecked(o, s) ==
    LET b == Binding("stop", s, NoInput) IN
    /\ ResolveNew(o, b)
    /\ sandbox[s].phase = "ready"
    /\ PutNewActive(o, b)
    /\ sandbox' = [sandbox EXCEPT ![s].phase = "stopping"]
    /\ UNCHANGED pair

BeginSandboxStop(o, s) ==
    LET b == Binding("stop", s, NoInput) IN
    /\ ResolveNew(o, b)
    /\ \/ /\ sandbox[s].phase = "stopped"
          /\ PutNewTerminal(o, b, "succeeded", "noop")
          /\ UNCHANGED sandbox
       \/ /\ sandbox[s].phase = "ready"
          /\ ActivePairsOf(s) = {}
          /\ PutNewActive(o, b)
          /\ sandbox' = [sandbox EXCEPT ![s].phase = "stopping"]
    /\ UNCHANGED pair

ConfirmSandboxStop(o, s) ==
    /\ ResolveResume(o, "stop", s)
    /\ AtLeast(o, "observe_process")
    /\ sandbox[s].phase = "stopping"
    /\ sandbox' = [sandbox EXCEPT ![s].phase = "stopped"]
    /\ Complete(o)
    /\ UNCHANGED pair

\* Removal is two-phase even for an absent record: the provider must still
\* confirm that the host holds nothing.
BeginSandboxRemove(o, s) ==
    LET b == Binding("delete", s, NoInput) IN
    /\ ResolveNew(o, b)
    /\ \/ sandbox[s].phase = "absent"
       \/ sandbox[s].phase = "stopped" /\ PairsOf(s) = {}
    /\ PutNewActive(o, b)
    /\ UNCHANGED <<sandbox, pair>>

\* Mutant: any release at all counts as a complete cleanup.
ReleasesCoverAny(o, owner) == owner = None <=> op[o].journal = "none"

\* validateCompleteCleanupReleases: the releases match the inventory exactly.
ReleasesCover(o, owner) ==
    op[o].journal = IF owner = None THEN "none" ELSE "full"

ConfirmSandboxRemove(o, s) ==
    /\ ResolveResume(o, "delete", s)
    /\ \/ /\ sandbox[s].phase = "absent" /\ op[o].journal = "none"
          /\ Finish(o, "succeeded", "noop")
          /\ UNCHANGED sandbox
       \/ /\ sandbox[s].phase = "stopped" /\ PairsOf(s) = {}
          /\ ReleasesCover(o, sandbox[s].owner)
          /\ Complete(o)
          /\ sandbox' = [sandbox EXCEPT ![s] = NoSandbox]
    /\ UNCHANGED pair

-----------------------------------------------------------------------------
(* Container operations (lifecycle/container.go). *)

ContainerCreate(c, s, p) ==
    Binding("create", c, [NoInput EXCEPT !.sandbox = s, !.spec = p])

\* A stored pair with the same immutable inputs is a durable no-op in every
\* phase; different inputs answer CodeAlreadyExists.  A new pair needs a Ready
\* Sandbox without an active Attempt and becomes its current pair at once.
BeginContainerCreate(o, c, s, p) ==
    LET b == ContainerCreate(c, s, p) IN
    /\ ResolveNew(o, b)
    /\ \/ /\ pair[c].phase # "absent"
          /\ pair[c].sandbox = s /\ pair[c].spec = p
          /\ PutNewTerminal(o, b, "succeeded", "noop")
          /\ UNCHANGED <<sandbox, pair>>
       \/ /\ pair[c].phase = "absent"
          /\ sandbox[s].phase = "ready"
          /\ ActivePairsOf(s) = {}
          /\ PutNewActive(o, b)
          /\ sandbox' = [sandbox EXCEPT ![s].current = c]
          /\ pair' = [pair EXCEPT ![c] =
                        [phase |-> "creating", sandbox |-> s, spec |-> p,
                         outcome |-> "pending", owner |-> None]]

ConfirmContainerCreate(o, c) ==
    /\ ResolveResume(o, "create", c)
    /\ AtLeast(o, "attach_cgroup") /\ op[o].journal = "full"
    /\ pair[c].phase = "creating"
    /\ pair' = [pair EXCEPT ![c].phase = "created", ![c].owner = o]
    /\ Complete(o)
    /\ UNCHANGED sandbox

\* The stopped record is retained as history; it owns nothing and stays the
\* Sandbox's current pair.
FailContainerCreateAfterRollback(o, c) ==
    /\ ResolveResume(o, "create", c)
    /\ op[o].stage = "rollback" /\ op[o].journal = "undone"
    /\ pair[c].phase = "creating" /\ pair[c].owner = None
    /\ pair' = [pair EXCEPT ![c].phase = "stopped", ![c].outcome = "not_applicable"]
    /\ FailOperation(o)
    /\ UNCHANGED sandbox

\* Start leaves the Attempt Created until the workload was observed.
BeginContainerStart(o, c) ==
    LET b == Binding("start", c, NoInput) IN
    /\ ResolveNew(o, b)
    /\ \/ pair[c].phase = "running" /\ PutNewTerminal(o, b, "succeeded", "noop")
       \/ pair[c].phase = "created" /\ PutNewActive(o, b)
    /\ UNCHANGED <<sandbox, pair>>

ConfirmContainerStart(o, c) ==
    /\ ResolveResume(o, "start", c)
    /\ AtLeast(o, "observe_process")
    /\ pair[c].phase = "created"
    /\ pair' = [pair EXCEPT ![c].phase = "running"]
    /\ Complete(o)
    /\ UNCHANGED sandbox

\* The gate was consumed and the child ended before Running was recorded.  A
\* workload that never ran ("not_applicable") can only fail the operation.
RecordContainerStartTerminal(o, c, outcome, failed) ==
    /\ ResolveResume(o, "start", c)
    /\ outcome = "not_applicable" => failed
    /\ AtLeast(o, "observe_process")
    /\ pair[c].phase = "created"
    /\ pair' = [pair EXCEPT ![c].phase = "stopped", ![c].outcome = outcome]
    /\ IF failed THEN FailOperation(o) ELSE Complete(o)
    /\ UNCHANGED sandbox

\* Mutants: the delete intent forgets to stop a Created Attempt, writes the
\* outcome of a stopped one again, or admits a running one.
BeginContainerDeleteStopping(o, c, phases) ==
    LET b == Binding("delete", c, NoInput) IN
    /\ ResolveNew(o, b)
    /\ pair[c].phase \in phases
    /\ pair' = [pair EXCEPT ![c].phase = "stopped", ![c].outcome = "not_applicable"]
    /\ PutNewActive(o, b)
    /\ UNCHANGED sandbox
BeginContainerDeleteRewriting(o, c) ==
    BeginContainerDeleteStopping(o, c, {"created", "stopped"})
BeginContainerDeleteRunning(o, c) ==
    BeginContainerDeleteStopping(o, c, {"created", "running"})

\* A Created Attempt stops with its delete intent; a workload that may still
\* run must be stopped first.
BeginContainerDelete(o, c) ==
    LET b == Binding("delete", c, NoInput) IN
    /\ ResolveNew(o, b)
    /\ \/ /\ pair[c].phase \in {"absent", "stopped"}
          /\ UNCHANGED pair
       \/ /\ pair[c].phase = "created"
          /\ pair' = [pair EXCEPT ![c].phase = "stopped",
                                  ![c].outcome = "not_applicable"]
    /\ PutNewActive(o, b)
    /\ UNCHANGED sandbox

\* The Sandbox keeps a current pair that is not the one deleted.
ConfirmContainerDelete(o, c) ==
    /\ ResolveResume(o, "delete", c)
    /\ \/ /\ pair[c].phase = "absent" /\ op[o].journal = "none"
          /\ Finish(o, "succeeded", "noop")
          /\ UNCHANGED <<sandbox, pair>>
       \/ /\ pair[c].phase = "stopped"
          /\ ReleasesCover(o, pair[c].owner)
          /\ sandbox' = [sandbox EXCEPT ![pair[c].sandbox].current =
                            IF @ = c THEN None ELSE @]
          /\ pair' = [pair EXCEPT ![c] = NoPair]
          /\ Complete(o)

\* The observed outcome is part of the fingerprint of a terminal observation.
StopObserved(c, outcome) == Binding("stop", c, [NoInput EXCEPT !.outcome = outcome])

BeginRecordStopped(o, c, outcome) ==
    /\ ResolveNew(o, StopObserved(c, outcome))
    /\ pair[c].phase = "running"
    /\ PutNewActive(o, StopObserved(c, outcome))
    /\ UNCHANGED <<sandbox, pair>>

\* Only an Attempt that runs can take a terminal observation: one that is
\* already Stopped belongs to another operation, an earlier phase has no edge.
RecordStopped(o, c) ==
    /\ ResolveResume(o, "stop", c)
    /\ AtLeast(o, "observe_process")
    /\ pair[c].phase = "running"
    /\ pair' = [pair EXCEPT ![c].phase = "stopped", ![c].outcome = op[o].fp.outcome]
    /\ Complete(o)
    /\ UNCHANGED sandbox

\* A kill of a stopped Attempt is a no-op; otherwise the process identity is
\* verified in the transaction that records the plan.
PlanKill(o, c) ==
    LET b == Binding("kill", c, NoInput) IN
    /\ ResolveNew(o, b)
    /\ \/ pair[c].phase = "stopped" /\ PutNewTerminal(o, b, "succeeded", "noop")
       \/ pair[c].phase = "running" /\ PutNewActive(o, b)
    /\ UNCHANGED <<sandbox, pair>>

RecordKillStopped(o, c, outcome) ==
    /\ ResolveResume(o, "kill", c)
    /\ AtLeast(o, "observe_process")
    /\ pair[c].phase = "running"
    /\ pair' = [pair EXCEPT ![c].phase = "stopped", ![c].outcome = outcome]
    /\ Complete(o)
    /\ UNCHANGED sandbox

-----------------------------------------------------------------------------
(* Rejection, progress and failure (coordinator.go, checkpoint.go,          *)
(* reconcile.go).                                                           *)

\* The requests that open an operation.
Requests ==
    {SandboxCreate(s, p) : s \in Sandboxes, p \in Specs}
    \cup {ContainerCreate(c, s, p) : c \in Containers, s \in Sandboxes, p \in Specs}
    \cup {Binding(type, s, NoInput) : type \in {"stop", "delete"}, s \in Sandboxes}
    \cup {Binding(type, c, NoInput) : type \in {"start", "kill", "delete"}, c \in Containers}
    \cup {StopObserved(c, outcome) : c \in Containers, outcome \in TerminalOutcomes}

\* A new ID that meets a busy target is recorded as a terminal failure.  The
\* record goes with an event of the target, so it needs the target's metadata;
\* only a delete does without.
PersistOperationConflict(o, b) ==
    /\ op[o].state = "unused"
    /\ Busy(b.target)
    /\ Exists(b.target) \/ b.type = "delete"
    /\ PutNewTerminal(o, b, "failed", "conflict")
    /\ UNCHANGED <<sandbox, pair>>

\* Mutant: a Start may advance by one rank only.
StartMayAdvanceByOne(from, to) == StageRank[to] <= StageRank[from] + 1

\* validateLinuxCheckpointAdvance: a Start may not skip the attachment, the
\* gate release or the observation.
StartMayAdvance(from, to) ==
    LET r(s) == StageRank[s] IN
    /\ ~(r(from) < r("attach_cgroup") /\ r(to) > r("attach_cgroup"))
    /\ ~(/\ from = "attach_cgroup" /\ r(to) > r("attach_cgroup")
         /\ to # "release_start_gate")
    /\ ~(/\ r("release_start_gate") <= r(from) /\ r(from) < r("observe_process")
         /\ r(to) > r("release_start_gate") /\ to # "observe_process")

\* One CheckpointOperation call that is not an exact retry.  Its event needs
\* the target's metadata; the Store refuses a stage that goes back.
CheckpointOperation(o, stage, journal) ==
    /\ Active(o)
    /\ Exists(op[o].target)
    /\ AtLeast(o, stage) => op[o].stage = stage
    /\ op[o].type = "start" => StartMayAdvance(op[o].stage, stage)
    /\ op[o].stage # stage \/ op[o].journal # journal
    /\ op' = [op EXCEPT ![o].stage = stage, ![o].journal = journal]
    /\ UNCHANGED <<sandbox, pair>>

\* What a journal may hold after one more acquisition or release.
Extended(journal) == IF journal = "full" THEN {"full"} ELSE {"partial", "full"}

\* checkpointReceipt: a create records the resource it has just acquired.
CheckpointReceipt(o) ==
    /\ op[o].type = "create"
    /\ \E j \in Extended(op[o].journal) : CheckpointOperation(o, "prepare", j)

\* The init process joined its cgroup: the last step of a Container create and
\* the first of a Start.
CheckpointAttach(o) ==
    /\ \/ op[o].type = "create" /\ op[o].target \in Containers /\ op[o].journal = "full"
       \/ op[o].type = "start"
    /\ CheckpointOperation(o, "attach_cgroup", op[o].journal)

\* The gate was released, the signal sent or the process observed.
CheckpointProcess(o, stage) ==
    /\ stage \in CASE op[o].type = "start" -> {"release_start_gate", "observe_process"}
                   [] op[o].type = "kill"  -> {"signal_process", "observe_process"}
                   [] op[o].type = "stop"  -> {"observe_process"}
                   [] OTHER                -> {}
    /\ CheckpointOperation(o, stage, op[o].journal)

\* checkpointRelease: a delete records what a provider has seen absent.
CheckpointRelease(o) ==
    /\ op[o].type = "delete"
    /\ \/ op[o].target \in Sandboxes /\ sandbox[op[o].target].owner # None
       \/ op[o].target \in Containers /\ pair[op[o].target].owner # None
    /\ \E j \in Extended(op[o].journal) : CheckpointOperation(o, "teardown", j)

\* A create turns to rollback: the cause and every inverse are journalled as
\* started before the first runs.  With no receipt there is nothing to undo.
CheckpointRollback(o) ==
    /\ op[o].type = "create"
    /\ CheckpointOperation(o, "rollback",
          IF op[o].stage = "rollback" \/ op[o].journal = "none" THEN "undone" ELSE "undoing")

\* checkpointRecoveryIssue: recovery could not judge the active intent.
CheckpointRecoveryIssue(o) ==
    /\ op[o].stage = "persist_intent"
    /\ CheckpointOperation(o, "check_preconditions", op[o].journal)

\* Mutants: a stop fails too, and the state of the operation is not looked at.
FailActiveOperationOfStop(o) ==
    /\ Active(o)
    /\ op[o].type \in {"start", "kill", "stop"}
    /\ Exists(op[o].target)
    /\ FailOperation(o)
    /\ UNCHANGED <<sandbox, pair>>

\* FailActiveOperation as recovery calls it (engine/recovery.go:291-303): a
\* create must roll back, a stop and a delete stay resumable.
FailActiveOperation(o) ==
    /\ Active(o)
    /\ op[o].type \in {"start", "kill"}
    /\ Exists(op[o].target)
    /\ FailOperation(o)
    /\ UNCHANGED <<sandbox, pair>>

-----------------------------------------------------------------------------

Init ==
    /\ sandbox = [s \in Sandboxes |-> NoSandbox]
    /\ pair = [c \in Containers |-> NoPair]
    /\ op = [o \in Ops |-> NoOperation]

SandboxNext(o, s) ==
    \/ \E p \in Specs : BeginSandboxCreate(o, s, p)
    \/ ConfirmSandboxCreate(o, s)
    \/ FailSandboxCreateAfterRollback(o, s)
    \/ BeginSandboxStop(o, s)
    \/ ConfirmSandboxStop(o, s)
    \/ BeginSandboxRemove(o, s)
    \/ ConfirmSandboxRemove(o, s)

ContainerNext(o, c) ==
    \/ \E s \in Sandboxes, p \in Specs : BeginContainerCreate(o, c, s, p)
    \/ ConfirmContainerCreate(o, c)
    \/ FailContainerCreateAfterRollback(o, c)
    \/ BeginContainerStart(o, c)
    \/ ConfirmContainerStart(o, c)
    \/ \E outcome \in TerminalOutcomes \cup {"not_applicable"}, failed \in BOOLEAN :
          RecordContainerStartTerminal(o, c, outcome, failed)
    \/ BeginContainerDelete(o, c)
    \/ ConfirmContainerDelete(o, c)
    \/ \E outcome \in TerminalOutcomes : BeginRecordStopped(o, c, outcome)
    \/ RecordStopped(o, c)
    \/ PlanKill(o, c)
    \/ \E outcome \in TerminalOutcomes : RecordKillStopped(o, c, outcome)

OperationNext(o) ==
    \/ \E b \in Requests : PersistOperationConflict(o, b)
    \/ CheckpointReceipt(o)
    \/ CheckpointAttach(o)
    \/ \E stage \in Stages : CheckpointProcess(o, stage)
    \/ CheckpointRelease(o)
    \/ CheckpointRollback(o)
    \/ CheckpointRecoveryIssue(o)
    \/ FailActiveOperation(o)

Next ==
    \E o \in Ops :
        \/ \E s \in Sandboxes : SandboxNext(o, s)
        \/ \E c \in Containers : ContainerNext(o, c)
        \/ OperationNext(o)

Spec == Init /\ [][Next]_vars

\* What the engine does with an operation it drives, for the client that
\* retries it or for recovery, which resumes every active operation
\* (engine/recovery.go:227-285).
Drive(o) ==
    \/ CheckpointReceipt(o)
    \/ CheckpointAttach(o)
    \/ \E stage \in Stages : CheckpointProcess(o, stage)
    \/ CheckpointRelease(o)
    \/ CheckpointRollback(o)
    \/ \E s \in Sandboxes :
          \/ ConfirmSandboxCreate(o, s) \/ FailSandboxCreateAfterRollback(o, s)
          \/ ConfirmSandboxStop(o, s) \/ ConfirmSandboxRemove(o, s)
    \/ \E c \in Containers :
          \/ ConfirmContainerCreate(o, c) \/ FailContainerCreateAfterRollback(o, c)
          \/ ConfirmContainerStart(o, c) \/ ConfirmContainerDelete(o, c)
          \/ RecordStopped(o, c)
          \/ \E outcome \in TerminalOutcomes : RecordKillStopped(o, c, outcome)

\* The host answers and the operation is driven again after every crash.
FairSpec == Spec /\ \A o \in Ops : WF_vars(Drive(o))

-----------------------------------------------------------------------------
(* Properties. *)

\* Every table holds records of its schema.
TypeOK ==
    /\ sandbox \in [Sandboxes -> SandboxRecord]
    /\ pair \in [Containers -> PairRecord]
    /\ op \in [Ops -> OperationRecord]

\* At most one Attempt of a Sandbox is active; it is the Sandbox's current pair
\* and the Sandbox is Ready (memory.go:251-306).  BeginSandboxStop and
\* BeginContainerCreate run under locks of different targets, so only their
\* transactional checks of each other's effect keep this.
ActiveAttemptExclusive ==
    \A c \in Containers :
        pair[c].phase \in ActivePhases =>
            /\ sandbox[pair[c].sandbox].phase = "ready"
            /\ sandbox[pair[c].sandbox].current = c

\* No two operations are active on one target, whatever mix of clients, crash
\* recovery and watchers opened them (memory.go:853-861).
OneActiveOperation ==
    \A o, p \in Ops :
        Active(o) /\ Active(p) /\ op[o].target = op[p].target => o = p

\* A transitional phase always has the operation that will leave it: nothing
\* ends an operation (FailActiveOperation, a conflict, a late confirmation)
\* and strands its resource in creating or stopping.
NoStrandedPhase ==
    /\ \A s \in Sandboxes :
        sandbox[s].phase \in {"creating", "stopping"} =>
            \E o \in Ops : /\ Active(o) /\ op[o].target = s
                           /\ op[o].type = IF sandbox[s].phase = "creating"
                                           THEN "create" ELSE "stop"
    /\ \A c \in Containers :
        pair[c].phase = "creating" =>
            \E o \in Ops : Active(o) /\ op[o].target = c /\ op[o].type = "create"

\* What the confirmation of an operation expects of its target's phase.
ExpectedPhases(type) ==
    CASE type = "create" -> {"creating"}
      [] type = "start"  -> {"created"}
      [] type = "kill"   -> {"running"}
      [] type = "stop"   -> {"stopping", "running"}
      [] type = "delete" -> {"absent", "stopped"}

\* The phase an active operation was admitted in is still there when it is
\* confirmed: no other operation moves the target under it, so a confirmation
\* that follows the host's work is never refused for its phase.
ActiveOperationFits ==
    \A o \in Ops : Active(o) => PhaseOf(op[o].target) \in ExpectedPhases(op[o].type)

\* Removal never leaves a dangling reference: the Sandbox of a stored pair is
\* stored and was confirmed Ready once, and a current pair is stored and
\* belongs to the Sandbox that names it (memory.go:266-291), although removal
\* runs in two transactions and a rolled-back create deletes its Sandbox.
ReferencesIntact ==
    /\ \A c \in Containers :
        pair[c].phase # "absent" =>
            sandbox[pair[c].sandbox].phase \in {"ready", "stopping", "stopped"}
    /\ \A s \in Sandboxes :
        sandbox[s].current # None => sandbox[s].current \in PairsOf(s)

\* The store's graph: Attempts exclude one another in their Sandbox, and no
\* reference dangles (validate, memory.go:266-330).
GraphConsistent == ActiveAttemptExclusive /\ ReferencesIntact

\* The intents: one at a time on a target, each still fits the phase it will be
\* confirmed in, and each transitional phase has one (resolveOperation,
\* coordinator.go:110, and FailActiveOperation, reconcile.go:288).
IntentsConsistent == OneActiveOperation /\ ActiveOperationFits /\ NoStrandedPhase

\* The creates of t that succeeded and the deletes of t that released all.
Created(t) == {o \in Ops : /\ op[o].target = t /\ op[o].type = "create"
                           /\ op[o].result = "succeeded"}
Released(t) == {o \in Ops : /\ op[o].target = t /\ op[o].type = "delete"
                            /\ op[o].result = "succeeded" /\ op[o].journal = "full"}

OwnerOf(t) == IF t \in Sandboxes THEN sandbox[t].owner ELSE pair[t].owner

\* Host resources are accounted for: an inventory belongs to a create of that
\* very target that succeeded, every such create is owned or was released
\* exactly once, and a create that failed has undone all it acquired
\* (validateOwnershipGraph, memory.go:1538).
HostResourcesAccounted ==
    /\ \A t \in Targets :
        /\ OwnerOf(t) # None => OwnerOf(t) \in Created(t)
        /\ Cardinality(Created(t)) =
              Cardinality(Released(t)) + (IF OwnerOf(t) = None THEN 0 ELSE 1)
    /\ \A o \in Ops :
        op[o].type = "create" /\ op[o].state = "failed" =>
            op[o].journal \in {"none", "undone"}

\* A terminal result is final and an ID keeps its binding, so that a replay
\* answers what was answered before (memory.go:842-851).
OperationsFinal ==
    [][\A o \in Ops :
        /\ Terminal(o) => op'[o] = op[o]
        /\ op[o].state # "unused" =>
              <<op'[o].type, op'[o].target, op'[o].fp>> =
              <<op[o].type, op[o].target, op[o].fp>>]_vars

\* The history of a stopped Attempt is immutable until its record is deleted:
\* a late RecordStopped, kill completion or start observation cannot replace
\* the outcome another operation recorded.
HistoryImmutable ==
    [][\A c \in Containers :
        pair[c].phase = "stopped" => pair'[c] \in {pair[c], NoPair}]_vars

\* What is final stays: the answer to an operation ID, and the end of an Attempt.
RecordsFinal == OperationsFinal /\ HistoryImmutable

\* The Attempt phases move along the edges of TransitionAttempt; a workload
\* that ran is never recorded as one that did not.
OutcomesTruthful ==
    [][\A c \in Containers :
        pair[c].phase = "running" =>
            \/ pair'[c] = pair[c]
            \/ pair'[c].phase = "stopped" /\ pair'[c].outcome \in TerminalOutcomes]_vars

\* Every persisted intent settles: whatever checkpoints, crashes and recovery
\* left behind, the Coordinator still accepts some way to end the operation.
IntentsSettle == \A o \in Ops : Active(o) ~> Terminal(o)

=============================================================================
