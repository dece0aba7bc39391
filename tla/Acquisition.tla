---------------------------- MODULE Acquisition ----------------------------
(***************************************************************************)
(* How the engine acquires and gives back the host resources of one target: *)
(* CreateSandbox/CreateContainer, RollbackCreate, RemoveSandbox/             *)
(* DeleteContainer and startup recovery of all three (src/internal/engine),  *)
(* over the operation records of the Store.                                  *)
(*                                                                         *)
(* Profile is the canonical order of acquisition (ownership.ReceiptProfile), *)
(* so the module stands for Sandboxes and for Containers alike.  Every host  *)
(* effect and the checkpoint that records it are two actions, and the daemon *)
(* may crash or the caller may give up between any two.  The target lock      *)
(* admits one engine method at a time: "call" is the one under way.          *)
(*                                                                         *)
(* Start, kill and exit of the workload are in AttemptEngine; here the       *)
(* action Quiesce stands for them.                                           *)
(***************************************************************************)
EXTENDS Naturals, Sequences, FiniteSets

CONSTANTS
    Kinds,         \* the ownership.Kind values of the target
    Profile,       \* them in the order they are acquired
    DeleteOrder,   \* them in the order a delete removes them
    Actionable,    \* the kinds with an inverse of their own (inverseAction)
    Holds,         \* [Kinds -> what goes away with the resource]
    Blocks,        \* [Kinds -> what must be gone before it can be removed]
    Needs,         \* [Kinds -> what must be there before it can be acquired]
    Undoable,      \* kinds whose Ensure reports NoEffect or RollbackRequired
    HasBaseline,   \* Container creates attach, take an OOM baseline and observe
    Losses,        \* whether host resources may vanish on their own
    MaxFaults      \* bound on crashes, failures, abandoned calls and losses

N == Len(Profile)

ASSUME AcquisitionAssumption ==
    /\ Profile \in [1 .. N -> Kinds] /\ DeleteOrder \in [1 .. N -> Kinds]
    /\ \A i, j \in 1 .. N : i # j => Profile[i] # Profile[j] /\ DeleteOrder[i] # DeleteOrder[j]
    /\ \A k \in Kinds : (\E i \in 1 .. N : Profile[i] = k) /\ (\E i \in 1 .. N : DeleteOrder[i] = k)
    /\ Actionable \subseteq Kinds /\ Undoable \subseteq Kinds
    /\ {Holds, Blocks, Needs} \subseteq [Kinds -> SUBSET Kinds]
    \* The profiles are ordered by dependency (ownership/model.go:384): what blocks an
    \* inverse was acquired later and has one of its own; what blocks a removal goes first.
    /\ \A i, j \in 1 .. N : Profile[i] \in Actionable /\ Profile[j] \in Blocks[Profile[i]] =>
           i < j /\ Profile[j] \in Actionable
    /\ \A i, j \in 1 .. N : DeleteOrder[j] \in Blocks[DeleteOrder[i]] => j < i
    /\ HasBaseline \in BOOLEAN /\ Losses \in BOOLEAN /\ MaxFaults \in Nat

VARIABLES
    create,    \* durable: the create operation
    remove,    \* durable: the delete operation
    phase,     \* durable: phase of the Sandbox or Attempt
    adopted,   \* durable: number of receipts in the record's HostResources
    host,      \* the kinds that exist on the host
    daemon,    \* down, starting (Reconcile under way) or up
    call,      \* the engine method that holds the target lock
    faults

vars == <<create, remove, phase, adopted, host, daemon, call, faults>>

States == {"unused", "running", "succeeded", "failed"}
Phases == {"absent", "creating", "live", "stopped"}

\* operationStageRank.  "acquire" stands for the stages of the receipts, which
\* only ever rise with them.
CreateStages == {"none", "persist_intent", "host_preflight", "acquire", "attach_cgroup", "rollback", "complete"}
Rank == [s \in CreateStages |->
    CASE s = "none" -> 0 [] s = "persist_intent" -> 1 [] s = "host_preflight" -> 3
      [] s = "acquire" -> 5 [] s = "attach_cgroup" -> 11 [] s = "rollback" -> 18 [] OTHER -> 20]

\* journal: how many receipts are stored, always the first ones of Profile.
\* sealed: every inverse is recorded as started.  undone: those recorded as
\* succeeded.  Attempts and LastError of a record are left out.
CreateRecord ==
    [state : States, stage : CreateStages, journal : 0 .. N, baseline : BOOLEAN,
     sealed : BOOLEAN, undone : SUBSET Kinds]
RemoveRecord == [state : States, released : SUBSET Kinds]

Unused == [state |-> "unused", stage |-> "none", journal |-> 0, baseline |-> FALSE,
           sealed |-> FALSE, undone |-> {}]
Idle == [method |-> "none", by |-> "none", pc |-> "idle", at |-> 0, failed |-> FALSE]
PCs == {"idle", "begin", "ensure", "journal", "attach", "attached", "baseline", "measured", "observe",
        "confirm", "seal", "undo", "undone", "inspect", "remove", "release"}

TypeOK ==
    /\ create \in CreateRecord /\ remove \in RemoveRecord
    /\ phase \in Phases /\ adopted \in {0, N} /\ host \subseteq Kinds
    /\ daemon \in {"down", "starting", "up"} /\ faults \in 0 .. MaxFaults
    /\ call \in [method : {"none", "create", "rollback", "remove"}, by : {"none", "client", "recover", "recover_failing"},
                 pc : PCs, at : 0 .. N + 1, failed : BOOLEAN]

Init ==
    /\ create = Unused /\ remove = [state |-> "unused", released |-> {}]
    /\ phase = "absent" /\ adopted = 0 /\ host = {}
    /\ daemon = "up" /\ call = Idle /\ faults = 0

durable == <<create, remove, phase, adopted>>

-----------------------------------------------------------------------------
(* The Store's rules for one operation record and the engine's call frame.  *)

Journaled == {Profile[i] : i \in 1 .. create.journal}
Armed == Journaled \cap Actionable

OperationAdvance(old, new) == Rank[old.stage] <= Rank[new.stage]
ReceiptAdvance(old, new) ==
    /\ new.journal \in {old.journal, old.journal + 1}
    /\ new.journal > old.journal => ~old.sealed /\ ~new.sealed
RollbackAdvance(old, new) ==
    /\ old.sealed => new.sealed
    /\ old.undone \subseteq new.undone
BaselineAdvance(old, new) == old.baseline => new.baseline

\* What PutOperation accepts as the successor of an active record.
Accepts(old, new) ==
    /\ OperationAdvance(old, new) /\ ReceiptAdvance(old, new)
    /\ RollbackAdvance(old, new) /\ BaselineAdvance(old, new)

\* The engine method returns.  Reconcile passes its error on, and mydockerd
\* exits when Reconcile fails.  A create that failed definitely returns its
\* failure as an error, even after a complete rollback.
Return(ok) ==
    /\ call' = Idle
    /\ daemon' = IF call.by \in {"recover", "recover_failing"}
                 THEN IF ok /\ call.by = "recover" THEN "up" ELSE "down"
                 ELSE daemon

Goto(pc) == call' = [call EXCEPT !.pc = pc] /\ UNCHANGED daemon
At(method, pc) == call.method = method /\ call.pc = pc

Fault == faults < MaxFaults /\ faults' = faults + 1

\* CheckpointOperation: commit new and go on, or return the Store's error.
Checkpoint(new, pc) ==
    /\ UNCHANGED <<remove, phase, adopted, host, faults>>
    /\ \/ Accepts(create, new) /\ create' = new /\ Goto(pc)
       \/ ~Accepts(create, new) /\ UNCHANGED create /\ Return(FALSE)

\* failDefiniteCreateLocked: the create goes over to rollback in the same call.
FailDefinite ==
    call' = [call EXCEPT !.method = "rollback", !.pc = "seal",
                         !.by = IF @ = "recover" THEN "recover_failing" ELSE @]

-----------------------------------------------------------------------------
(* Create. *)

\* Mutant: a retry does not look for the rollback stage.
Mut_RetryAcquires ==
    /\ daemon = "up" /\ call = Idle /\ create.state \in {"unused", "running"}
    /\ create' = [create EXCEPT !.state = "running",
                                !.stage = IF @ = "none" THEN "persist_intent" ELSE @]
    /\ phase' = "creating"
    /\ call' = [Idle EXCEPT !.by = "client", !.method = "create", !.pc = "begin"]
    /\ UNCHANGED <<remove, adopted, host, daemon, faults>>

\* A client's call, new or a retry: BeginSandboxCreate, BeginContainerCreate.
CreateBegin ==
    /\ daemon = "up" /\ call = Idle
    /\ \/ create.state = "running" /\ UNCHANGED <<create, phase>>
       \/ /\ create.state = "unused" /\ phase = "absent"
          /\ create' = [create EXCEPT !.state = "running", !.stage = "persist_intent"]
          /\ phase' = "creating"
    /\ call' = [Idle EXCEPT !.by = "client",
                            !.method = IF create.stage = "rollback" THEN "rollback" ELSE "create",
                            !.pc = IF create.stage = "rollback" THEN "seal" ELSE "begin"]
    /\ UNCHANGED <<remove, adopted, host, daemon, faults>>

\* preflight and its checkpoint; a failure here is definite.
Preflight ==
    /\ At("create", "begin")
    /\ \/ /\ create.journal = 0 /\ create.stage = "persist_intent"
          /\ Checkpoint([create EXCEPT !.stage = "host_preflight"], "ensure")
       \/ /\ create.journal > 0 \/ create.stage # "persist_intent"
          /\ Goto("ensure") /\ UNCHANGED <<durable, host, faults>>
       \/ Fault /\ FailDefinite /\ UNCHANGED <<durable, host, daemon>>

Next1 == Profile[create.journal + 1]

\* acquireSandboxReceipt, acquireContainerReceipt: the provider makes the next
\* resource, or finds the one an earlier call made.  Its answer may be lost, or
\* it may fail before or after the effect; only errors the provider marks
\* NoEffect or RollbackRequired end the create, any other leaves it active.
Ensure ==
    /\ At("create", "ensure") /\ create.journal < N
    /\ \/ /\ Needs[Next1] \subseteq host /\ host' = host \cup {Next1}
          /\ Goto("journal") /\ UNCHANGED faults
       \/ /\ Needs[Next1] \subseteq host /\ host' = host \cup {Next1}
          /\ Fault /\ Return(FALSE)
       \/ /\ UNCHANGED host /\ Return(FALSE)
          /\ IF Needs[Next1] \subseteq host THEN Fault ELSE UNCHANGED faults
       \/ /\ Next1 \in Undoable /\ Fault /\ FailDefinite
          /\ host' \in {host, host \cup {Next1}} /\ UNCHANGED daemon
    /\ UNCHANGED durable

\* checkpointReceipt: one receipt, and its inverse armed when it has one.
JournalReceipt ==
    /\ At("create", "journal")
    /\ Checkpoint([create EXCEPT !.stage = "acquire", !.journal = @ + 1], "ensure")

\* ValidateReceiptJournalProfile: every receipt is there.
Acquired ==
    /\ At("create", "ensure") /\ create.journal = N
    /\ Goto(IF HasBaseline THEN "attach" ELSE "confirm")
    /\ UNCHANGED <<durable, host, faults>>

\* AttachAttemptProcess, SnapshotAttemptOOM and ObserveAttempt: each may fail,
\* and each failure is definite.
Attest(from, to) ==
    /\ At("create", from) /\ UNCHANGED <<durable, host, daemon>>
    /\ \/ call' = [call EXCEPT !.pc = to] /\ UNCHANGED faults
       \/ Fault /\ FailDefinite

Attach == Attest("attach", "attached")

\* checkpointProgress(attach_cgroup) builds the checkpoint without OOMBaseline.
RecordAttach ==
    /\ At("create", "attached")
    /\ Checkpoint([create EXCEPT !.stage = "attach_cgroup", !.baseline = FALSE],
                  IF create.baseline THEN "observe" ELSE "baseline")

Snapshot == Attest("baseline", "measured")

\* checkpointOOMBaseline
RecordBaseline ==
    /\ At("create", "measured")
    /\ Checkpoint([create EXCEPT !.baseline = TRUE], "observe")

ObservePrepared == Attest("observe", "confirm")

\* ConfirmSandboxCreate, ConfirmContainerCreate: adopt every receipt.
ConfirmCreate ==
    /\ At("create", "confirm")
    /\ create' = [create EXCEPT !.state = "succeeded", !.stage = "complete"]
    /\ phase' = "live" /\ adopted' = create.journal
    /\ Return(TRUE) /\ UNCHANGED <<remove, host, faults>>

-----------------------------------------------------------------------------
(* Rollback. *)

\* Mutant: inverses run in the order of acquisition.
Mut_Fifo(i) ==
    LET left == {j \in 1 .. N : (IF i = N + 1 THEN TRUE ELSE j > i) /\ Profile[j] \in Armed \ create.undone}
    IN IF left = {} THEN 0 ELSE CHOOSE j \in left : \A l \in left : j <= l

\* The last armed inverse before position i that has not succeeded, 0 if none.
Pending(i) == {j \in 1 .. i - 1 : Profile[j] \in Armed \ create.undone}
Before(i) == IF Pending(i) = {} THEN 0 ELSE CHOOSE j \in Pending(i) : \A l \in Pending(i) : l <= j

ToNextInverse(i) == [call EXCEPT !.at = Before(i), !.pc = IF Before(i) = 0 THEN "inspect" ELSE "undo"]

\* checkpointRollback before the first inverse: the cause and every record as
\* started.
Seal ==
    /\ At("rollback", "seal")
    /\ create' = [create EXCEPT !.stage = "rollback", !.sealed = TRUE]
    /\ call' = ToNextInverse(N + 1)
    /\ UNCHANGED <<remove, phase, adopted, host, daemon, faults>>

\* The host after k was removed: what it holds goes with it.
Without(k) == host \ ({k} \cup Holds[k])
Removable(k) == Blocks[k] \cap host = {}

\* One inverse: it may fail without effect, or after its effect; it must fail
\* while something on the host blocks it.
RunInverse ==
    /\ At("rollback", "undo")
    /\ LET k == Profile[call.at] IN
       \/ Removable(k) /\ host' = Without(k) /\ Goto("undone") /\ UNCHANGED faults
       \/ /\ host' \in {host} \cup (IF Removable(k) THEN {Without(k)} ELSE {})
          /\ IF Removable(k) THEN Fault ELSE UNCHANGED faults
          /\ call' = [ToNextInverse(call.at) EXCEPT !.failed = TRUE] /\ UNCHANGED daemon
    /\ UNCHANGED durable

\* checkpointRollback with the record's success.
RecordInverse ==
    /\ At("rollback", "undone")
    /\ create' = [create EXCEPT !.undone = @ \cup {Profile[call.at]}]
    /\ call' = ToNextInverse(call.at)
    /\ UNCHANGED <<remove, phase, adopted, host, daemon, faults>>

\* Mutant: a pass with failed inverses is followed by the terminal failure.
Mut_IgnoreFailures ==
    /\ At("rollback", "inspect")
    /\ create' = [create EXCEPT !.state = "failed", !.stage = "complete"]
    /\ phase' = IF HasBaseline THEN "stopped" ELSE "absent"
    /\ Return(call.by = "recover") /\ UNCHANGED <<remove, adopted, host, faults>>

\* End of a pass: with a failed inverse, or a receipt not observed absent, the
\* operation stays in rollback; otherwise Fail...CreateAfterRollback.
FinishRollback ==
    /\ At("rollback", "inspect")
    /\ \/ /\ call.failed \/ Journaled \cap host # {}
          /\ Return(FALSE) /\ UNCHANGED <<create, phase, faults>>
       \/ Fault /\ Return(FALSE) /\ UNCHANGED <<create, phase>>
       \/ /\ ~call.failed /\ Journaled \cap host = {}
          /\ create' = [create EXCEPT !.state = "failed", !.stage = "complete"]
          /\ phase' = IF HasBaseline THEN "stopped" ELSE "absent"
          /\ Return(TRUE) /\ UNCHANGED faults
    /\ UNCHANGED <<remove, adopted, host>>

-----------------------------------------------------------------------------
(* Delete. *)

\* The workload ran and is over, or StopSandbox confirmed.
Quiesce ==
    /\ phase = "live" /\ call = Idle /\ remove.state = "unused"
    /\ phase' = "stopped"
    /\ UNCHANGED <<create, remove, adopted, host, daemon, call, faults>>

\* receiptByKind on an empty inventory is an error, and the operation stays
\* active; with no metadata the delete is a no-op (not modelled).
EnterRemove(by) ==
    IF adopted = 0 THEN /\ call' = Idle
                        /\ daemon' = IF by = "recover" THEN "down" ELSE daemon
    ELSE /\ call' = [Idle EXCEPT !.method = "remove", !.by = by, !.pc = "remove", !.at = 1]
         /\ UNCHANGED daemon

\* BeginSandboxRemove, BeginContainerDelete, new or a retry.
RemoveBegin ==
    /\ daemon = "up" /\ call = Idle
    /\ \/ remove.state = "running" /\ UNCHANGED remove
       \/ /\ remove.state = "unused" /\ create.state \in {"succeeded", "failed"}
          /\ phase = "stopped" \/ (phase = "live" /\ HasBaseline)
          /\ remove' = [remove EXCEPT !.state = "running"]
    /\ EnterRemove("client")
    /\ UNCHANGED <<create, phase, adopted, host, faults>>

\* Mutant: the receipts are removed in the order they were acquired.
Mut_RemoveForward == Profile

\* The kind the loop is at.
Removal == DeleteOrder

AtKind == Removal[call.at]

Skip ==
    /\ At("remove", "remove") /\ call.at <= N /\ AtKind \in remove.released
    /\ call' = [call EXCEPT !.at = @ + 1]
    /\ UNCHANGED <<durable, host, daemon, faults>>

\* Mutant: the release is stored before the provider has verified absence.
Mut_ReleaseFirst ==
    /\ At("remove", "remove") /\ call.at <= N
    /\ remove' = [remove EXCEPT !.released = @ \cup {AtKind}]
    /\ Goto("remove") /\ UNCHANGED <<create, phase, adopted, host, faults>>

\* cleanupReceipt: idempotent, and verified absent when it succeeds.
Cleanup ==
    /\ At("remove", "remove") /\ call.at <= N /\ AtKind \notin remove.released
    /\ \/ Removable(AtKind) /\ host' = Without(AtKind) /\ Goto("release") /\ UNCHANGED faults
       \/ /\ host' \in {host} \cup (IF Removable(AtKind) THEN {Without(AtKind)} ELSE {})
          /\ IF Removable(AtKind) THEN Fault ELSE UNCHANGED faults
          /\ Return(FALSE)
    /\ UNCHANGED durable

\* checkpointRelease
RecordRelease ==
    /\ At("remove", "release")
    /\ remove' = [remove EXCEPT !.released = @ \cup {AtKind}]
    /\ call' = [call EXCEPT !.pc = "remove", !.at = @ + 1]
    /\ UNCHANGED <<create, phase, adopted, host, daemon, faults>>

\* ConfirmSandboxRemove, ConfirmContainerDelete
ConfirmRemove ==
    /\ At("remove", "remove") /\ call.at = N + 1
    /\ remove' = [remove EXCEPT !.state = "succeeded"]
    /\ phase' = "absent" /\ adopted' = 0
    /\ Return(TRUE) /\ UNCHANGED <<create, host, faults>>

-----------------------------------------------------------------------------
(* Crashes, host losses and recovery. *)

Crash ==
    /\ daemon # "down" /\ Fault
    /\ daemon' = "down" /\ call' = Idle
    /\ UNCHANGED <<durable, host>>

\* A store error or an ended context: the method returns where it stands.
Abandon ==
    /\ call # Idle /\ Fault /\ Return(FALSE)
    /\ UNCHANGED <<durable, host>>

\* A process of the target dies, and with it what it holds.
Lose ==
    /\ Losses /\ Fault
    /\ \E k \in Kinds \cap host : Holds[k] # {} /\ host' = Without(k)
    /\ UNCHANGED <<durable, daemon, call>>

Restart == daemon = "down" /\ daemon' = "starting" /\ UNCHANGED <<durable, host, call, faults>>

Observed == IF adopted # 0 THEN Kinds ELSE IF create.state = "running" THEN Journaled ELSE {}

\* reconcileActiveOperation for a create that is not in rollback, all of its
\* receipts observed present.
ResumesCreate == create.state = "running" /\ create.stage # "rollback" /\ Journaled \subseteq host

\* Reconcile for this target.  An observation may be a hard error (recovery
\* fails), or unknown (a condition is recorded and the intent stays active).
Reconcile ==
    /\ daemon = "starting" /\ call = Idle
    /\ \/ Fault /\ Observed # {} /\ daemon' \in {"up", "down"} /\ UNCHANGED call
       \/ /\ remove.state = "running" /\ EnterRemove("recover") /\ UNCHANGED faults
       \/ /\ ResumesCreate
          /\ call' = [Idle EXCEPT !.by = "recover", !.method = "create", !.pc = "begin"]
          /\ UNCHANGED <<daemon, faults>>
       \/ /\ create.state = "running" /\ ~ResumesCreate
          /\ call' = [Idle EXCEPT !.by = "recover", !.method = "rollback", !.pc = "seal"]
          /\ UNCHANGED <<daemon, faults>>
       \/ /\ create.state # "running" /\ remove.state # "running"
          /\ daemon' = "up" /\ UNCHANGED <<call, faults>>
    /\ UNCHANGED <<durable, host>>

-----------------------------------------------------------------------------

CreateSteps == Preflight \/ Ensure \/ JournalReceipt \/ Acquired \/ Attach \/ RecordAttach
               \/ Snapshot \/ RecordBaseline \/ ObservePrepared \/ ConfirmCreate
RollbackSteps == Seal \/ RunInverse \/ RecordInverse \/ FinishRollback
RemoveSteps == Skip \/ Cleanup \/ RecordRelease \/ ConfirmRemove
EngineSteps == CreateSteps \/ RollbackSteps \/ RemoveSteps
Retry == (CreateBegin /\ create.state = "running") \/ (RemoveBegin /\ remove.state = "running")

Next == CreateBegin \/ RemoveBegin \/ EngineSteps \/ Quiesce
        \/ Crash \/ Abandon \/ Lose \/ Restart \/ Reconcile

Spec == Init /\ [][Next]_vars

\* A method that runs goes on, a stopped daemon is started again and recovers,
\* and a client retries an operation that is still active.
FairSpec == /\ Spec /\ WF_vars(EngineSteps) /\ WF_vars(Restart) /\ WF_vars(Reconcile)
            /\ WF_vars(Retry)
-----------------------------------------------------------------------------
(* Properties. *)

\* At most one host effect is ahead of the journal, and it is the next of the
\* profile: whatever a crashed or abandoned create left behind is the resource
\* its retry asks for again (checkpoint.go:108, "before any later host side
\* effect").
OneEffectAhead ==
    host \subseteq {Profile[i] : i \in (1 .. N) \cap (1 .. create.journal + 1)}

\* Nothing is taken away from an unfinished create before the rollback is
\* sealed in the Store: a crash in a rollback is never resumed as a create
\* over resources that are already gone (rollback.go:17).
SealedBeforeInverse ==
    [][create.state = "running" /\ ~create.sealed /\ faults' = faults => host \subseteq host']_vars

\* Once a create is in rollback, no retry and no restart acquires for it again.
RollbackNeverAcquires ==
    [][create.stage = "rollback" => host' \subseteq host /\ create'.journal = create.journal]_vars

\* Inverses run in an order in which, as long as none has failed in the pass,
\* no journaled resource blocks the next one: processes go before the cgroups
\* they are in, whatever crashes and retries came between.
InversesUnblocked ==
    At("rollback", "undo") /\ ~call.failed
        => Blocks[Profile[call.at]] \cap host \cap Journaled = {}

\* A create fails for good only when every inverse is recorded as succeeded
\* and every journaled resource is gone.
FailedIsAbsent ==
    create.state = "failed" => Armed \subseteq create.undone /\ Journaled \cap host = {}

\* The delete loop, entered anew after any crash or failure, never asks for a
\* removal that another owned resource makes impossible.
RemovalUnblocked ==
    At("remove", "remove") /\ call.at <= N /\ AtKind \notin remove.released
        => Blocks[AtKind] \cap host = {}

\* A release is evidence of absence, and a delete that succeeded left nothing.
ReleasedIsGone ==
    /\ remove.released \cap host = {}
    /\ remove.state = "succeeded" => host = {}

\* A create succeeds, after however many resumptions, only with its whole
\* profile journaled and, for a Container, the OOM baseline stored.
WholeStep ==
    create'.state = "succeeded" /\ create.state = "running"
        => create.journal = N /\ (HasBaseline => create.baseline)

\* A resource whose receipt was never stored survived into a rollback.
Leaked == create.sealed /\ host \ Journaled # {}

\* A create is resumed after its OOM baseline was stored.
Rebased == create.baseline /\ create.stage = "attach_cgroup" /\ call = Idle

\* What the comment of failDefiniteCreateLocked states: a definite failure has
\* every possible effect covered by the inverses already checkpointed, so that
\* a failed create leaves nothing on the host.
FailedLeavesNothing == create.state = "failed" => host = {}

\* The promise that a delete accepts every stopped Container and that a retry
\* or recovery completes it.
EveryRemoveSettles == remove.state = "running" ~> remove.state = "succeeded"
=============================================================================
