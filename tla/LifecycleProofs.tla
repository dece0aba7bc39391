-------------------------- MODULE LifecycleProofs --------------------------
(***************************************************************************)
(* Proofs about the lifecycle Coordinator for any set of Sandboxes,         *)
(* Containers, operation IDs and specs.                                     *)
(*                                                                         *)
(* The argument has two layers.  A step changes at most one operation, one  *)
(* Sandbox and one pair, and the invariants look at a few fields of them;    *)
(* the effect operators below name these changes.  Part 1 proves that the    *)
(* tables keep their types.  Part 2 proves that each kind of change, under    *)
(* the guard the Coordinator puts before it, keeps the inductive invariant.  *)
(* Part 3 goes through the actions.  Part 4 keeps the books of the host       *)
(* resources.                                                                *)
(***************************************************************************)
EXTENDS Lifecycle, FiniteSetTheorems, TLAPS

-----------------------------------------------------------------------------
(* Part 1: types. *)

\* A record that is not the absent one is a stored one.
LEMMA StoredRecords ==
    /\ \A x \in SandboxRecord : x.phase # "absent" => x \in StoredSandbox
    /\ \A x \in PairRecord : x.phase # "absent" => x \in StoredPair
    /\ \A x \in OperationRecord : x.state # "unused" => x \in StoredOperation
  BY DEF SandboxRecord, NoSandbox, StoredSandbox, PairRecord, NoPair, StoredPair,
         OperationRecord, NoOperation, StoredOperation

\* The updates the Coordinator makes to a stored record keep it a stored one.
LEMMA StoredUpdates ==
    /\ \A x \in StoredSandbox, ph \in SandboxPhases \ {"absent"} :
          [x EXCEPT !.phase = ph] \in StoredSandbox
    /\ \A x \in StoredSandbox, ph \in SandboxPhases \ {"absent"}, o \in Ops :
          [x EXCEPT !.phase = ph, !.owner = o] \in StoredSandbox
    /\ \A x \in StoredSandbox, c \in Containers \cup {None} :
          [x EXCEPT !.current = c] \in StoredSandbox
    /\ \A x \in StoredPair, ph \in AttemptPhases \ {"absent"} :
          [x EXCEPT !.phase = ph] \in StoredPair
    /\ \A x \in StoredPair, ph \in AttemptPhases \ {"absent"}, o \in Ops :
          [x EXCEPT !.phase = ph, !.owner = o] \in StoredPair
    /\ \A x \in StoredPair, ph \in AttemptPhases \ {"absent"}, out \in Outcomes :
          [x EXCEPT !.phase = ph, !.outcome = out] \in StoredPair
  BY DEF StoredSandbox, StoredPair

\* Finish and CheckpointOperation keep a stored operation record a stored one.
LEMMA OperationUpdates ==
    /\ \A x \in StoredOperation, st \in {"succeeded", "failed"}, r \in Results :
          [x EXCEPT !.state = st, !.stage = "complete", !.result = r] \in StoredOperation
    /\ \A x \in StoredOperation, stage \in Stages, j \in Journals :
          [x EXCEPT !.stage = stage, !.journal = j] \in StoredOperation
  BY DEF StoredOperation, Stages

\* The requests the actions build are bindings of the schema.
LEMMA RequestsTyped ==
    /\ \A s \in Sandboxes, p \in Specs : SandboxCreate(s, p) \in Bindings
    /\ \A c \in Containers, s \in Sandboxes, p \in Specs : ContainerCreate(c, s, p) \in Bindings
    /\ \A type \in Types, t \in Targets : Binding(type, t, NoInput) \in Bindings
    /\ \A c \in Containers, out \in TerminalOutcomes : StopObserved(c, out) \in Bindings
    /\ Requests \subseteq Bindings
  <1>1. NoInput \in Fingerprints
    BY DEF NoInput, Fingerprints
  <1>2. \A s \in Sandboxes, p \in Specs : SandboxCreate(s, p) \in Bindings
    BY DEF SandboxCreate, Binding, Bindings, Types, Targets, NoInput, Fingerprints
  <1>3. \A c \in Containers, s \in Sandboxes, p \in Specs : ContainerCreate(c, s, p) \in Bindings
    BY DEF ContainerCreate, Binding, Bindings, Types, Targets, NoInput, Fingerprints
  <1>4. \A type \in Types, t \in Targets : Binding(type, t, NoInput) \in Bindings
    BY <1>1 DEF Binding, Bindings
  <1>5. \A c \in Containers, out \in TerminalOutcomes : StopObserved(c, out) \in Bindings
    BY DEF StopObserved, Binding, Bindings, Types, Targets, NoInput, Fingerprints
  <1> QED
    BY <1>2, <1>3, <1>4, <1>5 DEF Requests, Types, Targets

\* Opening an operation, active or terminal at once, with a request of the
\* schema writes a record of the schema.
LEMMA OpenTyped ==
    ASSUME TypeOK, NEW o \in Ops, NEW b \in Bindings
    PROVE  /\ PutNewActive(o, b) => op' \in [Ops -> OperationRecord]
           /\ \A st \in {"succeeded", "failed"}, r \in Results :
                PutNewTerminal(o, b, st, r) => op' \in [Ops -> OperationRecord]
  BY DEF TypeOK, PutNewActive, PutNewTerminal, OperationRecord, StoredOperation,
         Bindings, Results, Stages, Journals

\* Ending an active operation (completeOperation, failOperation) writes a record
\* of the schema.
LEMMA FinishTyped ==
    ASSUME TypeOK, NEW o \in Ops, Active(o)
    PROVE  /\ \A st \in {"succeeded", "failed"}, r \in Results :
                Finish(o, st, r) => op' \in [Ops -> OperationRecord]
           /\ Complete(o) => op' \in [Ops -> OperationRecord]
           /\ FailOperation(o) => op' \in [Ops -> OperationRecord]
  <1>1. op[o] \in StoredOperation
    BY StoredRecords DEF TypeOK, Active
  <1>2. \A st \in {"succeeded", "failed"}, r \in Results :
            Finish(o, st, r) => op' \in [Ops -> OperationRecord]
    <2>1. SUFFICES ASSUME NEW st \in {"succeeded", "failed"}, NEW r \in Results,
                          Finish(o, st, r)
                   PROVE  op' \in [Ops -> OperationRecord]
      OBVIOUS
    <2>2. [op[o] EXCEPT !.state = st, !.stage = "complete", !.result = r] \in OperationRecord
      BY <1>1, OperationUpdates DEF OperationRecord
    <2>3. op' = [op EXCEPT ![o] = [op[o] EXCEPT !.state = st, !.stage = "complete",
                                                !.result = r]]
      BY <2>1 DEF Finish
    <2> QED
      BY <2>2, <2>3 DEF TypeOK
  <1> QED
    BY <1>2 DEF Complete, FailOperation, Results

\* A checkpoint (CheckpointOperation) writes a record of the schema.
LEMMA CheckpointTyped ==
    ASSUME TypeOK, NEW o \in Ops, NEW stage \in Stages, NEW j \in Journals,
           CheckpointOperation(o, stage, j)
    PROVE  TypeOK'
  <1>1. op[o] \in StoredOperation
    BY StoredRecords DEF TypeOK, CheckpointOperation, Active
  <1>2. op' \in [Ops -> OperationRecord]
    BY <1>1, OperationUpdates DEF TypeOK, CheckpointOperation, OperationRecord
  <1> QED
    BY <1>2 DEF TypeOK, CheckpointOperation

\* Every transaction of lifecycle/sandbox.go keeps the tables typed.
LEMMA SandboxStepTyped ==
    ASSUME TypeOK, NEW o \in Ops, NEW s \in Sandboxes, SandboxNext(o, s)
    PROVE  TypeOK'
  <1> s \in Targets /\ sandbox[s] \in SandboxRecord
    BY DEF TypeOK, Targets
  <1>1. ASSUME NEW p \in Specs, BeginSandboxCreate(o, s, p)  PROVE TypeOK'
    <2>1. [NoSandbox EXCEPT !.phase = "creating", !.spec = p] \in SandboxRecord
      BY DEF NoSandbox, SandboxRecord, StoredSandbox, SandboxPhases
    <2>2. op' \in [Ops -> OperationRecord]
      BY <1>1, OpenTyped, RequestsTyped DEF BeginSandboxCreate, Results
    <2> QED
      BY <1>1, <2>1, <2>2 DEF BeginSandboxCreate, TypeOK
  <1>2. CASE ConfirmSandboxCreate(o, s)
    <2>1. op' \in [Ops -> OperationRecord]
      BY <1>2, FinishTyped DEF ConfirmSandboxCreate, ResolveResume
    <2>2. [sandbox[s] EXCEPT !.phase = "ready", !.owner = o] \in SandboxRecord
      BY <1>2, StoredRecords, StoredUpdates
         DEF ConfirmSandboxCreate, SandboxRecord, SandboxPhases
    <2>3. sandbox' = [sandbox EXCEPT ![s] = [sandbox[s] EXCEPT !.phase = "ready", !.owner = o]]
      BY <1>2 DEF ConfirmSandboxCreate
    <2> QED
      BY <1>2, <2>1, <2>2, <2>3 DEF ConfirmSandboxCreate, TypeOK
  <1>3. CASE FailSandboxCreateAfterRollback(o, s)
    <2>1. op' \in [Ops -> OperationRecord]
      BY <1>3, FinishTyped DEF FailSandboxCreateAfterRollback, ResolveResume
    <2> QED
      BY <1>3, <2>1 DEF FailSandboxCreateAfterRollback, TypeOK, SandboxRecord
  <1>4. CASE BeginSandboxStop(o, s)
    <2>1. op' \in [Ops -> OperationRecord]
      BY <1>4, OpenTyped, RequestsTyped DEF BeginSandboxStop, Types, Results
    <2>2. CASE UNCHANGED sandbox
      BY <1>4, <2>1, <2>2 DEF BeginSandboxStop, TypeOK
    <2>3. CASE sandbox[s].phase = "ready" /\ sandbox' = [sandbox EXCEPT ![s].phase = "stopping"]
      <3>1. [sandbox[s] EXCEPT !.phase = "stopping"] \in SandboxRecord
        BY <2>3, StoredRecords, StoredUpdates DEF SandboxRecord, SandboxPhases
      <3> QED
        BY <1>4, <2>1, <2>3, <3>1 DEF BeginSandboxStop, TypeOK
    <2> QED
      BY <1>4, <2>2, <2>3 DEF BeginSandboxStop
  <1>5. CASE ConfirmSandboxStop(o, s)
    <2>1. op' \in [Ops -> OperationRecord]
      BY <1>5, FinishTyped DEF ConfirmSandboxStop, ResolveResume
    <2>2. [sandbox[s] EXCEPT !.phase = "stopped"] \in SandboxRecord
      BY <1>5, StoredRecords, StoredUpdates DEF ConfirmSandboxStop, SandboxRecord, SandboxPhases
    <2> QED
      BY <1>5, <2>1, <2>2 DEF ConfirmSandboxStop, TypeOK
  <1>6. CASE BeginSandboxRemove(o, s)
    <2>1. op' \in [Ops -> OperationRecord]
      BY <1>6, OpenTyped, RequestsTyped DEF BeginSandboxRemove, Types
    <2> QED
      BY <1>6, <2>1 DEF BeginSandboxRemove, TypeOK
  <1>7. CASE ConfirmSandboxRemove(o, s)
    <2>1. op' \in [Ops -> OperationRecord]
      BY <1>7, FinishTyped DEF ConfirmSandboxRemove, ResolveResume, Results
    <2> QED
      BY <1>7, <2>1 DEF ConfirmSandboxRemove, TypeOK, SandboxRecord
  <1> QED
    BY <1>1, <1>2, <1>3, <1>4, <1>5, <1>6, <1>7 DEF SandboxNext

\* Every transaction of lifecycle/container.go keeps the tables typed.
LEMMA ContainerStepTyped ==
    ASSUME TypeOK, NEW o \in Ops, NEW c \in Containers, ContainerNext(o, c)
    PROVE  TypeOK'
  <1> c \in Targets /\ pair[c] \in PairRecord /\ op[o] \in OperationRecord
    BY DEF TypeOK, Targets
  <1> DEFINE Moved(ph) == [pair[c] EXCEPT !.phase = ph]
             Ended(out) == [pair[c] EXCEPT !.phase = "stopped", !.outcome = out]
  <1>a. \A ph \in AttemptPhases \ {"absent"} :
            pair[c].phase # "absent" => Moved(ph) \in PairRecord
    BY StoredRecords, StoredUpdates DEF PairRecord
  <1>b. \A out \in Outcomes :
            pair[c].phase # "absent" => Ended(out) \in PairRecord
    BY StoredRecords, StoredUpdates DEF PairRecord, AttemptPhases
  <1> HIDE DEF Moved, Ended
  <1>1. ASSUME NEW s \in Sandboxes, NEW p \in Specs, BeginContainerCreate(o, c, s, p)
        PROVE  TypeOK'
    <2>1. op' \in [Ops -> OperationRecord]
      BY <1>1, OpenTyped, RequestsTyped DEF BeginContainerCreate, Results
    <2>2. CASE UNCHANGED <<sandbox, pair>>
      BY <2>1, <2>2 DEF TypeOK
    <2>3. CASE /\ sandbox[s].phase = "ready"
               /\ sandbox' = [sandbox EXCEPT ![s].current = c]
               /\ pair' = [pair EXCEPT ![c] =
                             [phase |-> "creating", sandbox |-> s, spec |-> p,
                              outcome |-> "pending", owner |-> None]]
      <3>1. [sandbox[s] EXCEPT !.current = c] \in SandboxRecord
        BY <2>3, StoredRecords, StoredUpdates DEF TypeOK, SandboxRecord
      <3>2. [phase |-> "creating", sandbox |-> s, spec |-> p,
             outcome |-> "pending", owner |-> None] \in PairRecord
        BY DEF PairRecord, StoredPair, AttemptPhases, Outcomes
      <3> QED
        BY <2>1, <2>3, <3>1, <3>2 DEF TypeOK
    <2> QED
      BY <1>1, <2>2, <2>3 DEF BeginContainerCreate
  <1>2. CASE ConfirmContainerCreate(o, c)
    <2>1. op' \in [Ops -> OperationRecord]
      BY <1>2, FinishTyped DEF ConfirmContainerCreate, ResolveResume
    <2>2. [pair[c] EXCEPT !.phase = "created", !.owner = o] \in PairRecord
      BY <1>2, StoredRecords, StoredUpdates DEF ConfirmContainerCreate, PairRecord, AttemptPhases
    <2>3. pair' = [pair EXCEPT ![c] = [pair[c] EXCEPT !.phase = "created", !.owner = o]]
      BY <1>2 DEF ConfirmContainerCreate
    <2> QED
      BY <1>2, <2>1, <2>2, <2>3 DEF ConfirmContainerCreate, TypeOK
  <1>3. CASE FailContainerCreateAfterRollback(o, c)
    <2>1. op' \in [Ops -> OperationRecord]
      BY <1>3, FinishTyped DEF FailContainerCreateAfterRollback, ResolveResume
    <2>2. Ended("not_applicable") \in PairRecord
      BY <1>3, <1>b DEF FailContainerCreateAfterRollback, Outcomes
    <2>3. pair' = [pair EXCEPT ![c] = Ended("not_applicable")]
      BY <1>3 DEF FailContainerCreateAfterRollback, Ended
    <2> QED
      BY <1>3, <2>1, <2>2, <2>3 DEF FailContainerCreateAfterRollback, TypeOK
  <1>4. CASE BeginContainerStart(o, c) \/ PlanKill(o, c)
    <2>1. op' \in [Ops -> OperationRecord]
      BY <1>4, OpenTyped, RequestsTyped DEF BeginContainerStart, PlanKill, Types, Results
    <2> QED
      BY <1>4, <2>1 DEF BeginContainerStart, PlanKill, TypeOK
  <1>5. CASE ConfirmContainerStart(o, c)
    <2>1. op' \in [Ops -> OperationRecord]
      BY <1>5, FinishTyped DEF ConfirmContainerStart, ResolveResume
    <2>2. Moved("running") \in PairRecord
      BY <1>5, <1>a DEF ConfirmContainerStart, AttemptPhases
    <2>3. pair' = [pair EXCEPT ![c] = Moved("running")]
      BY <1>5 DEF ConfirmContainerStart, Moved
    <2> QED
      BY <1>5, <2>1, <2>2, <2>3 DEF ConfirmContainerStart, TypeOK
  <1>6. ASSUME NEW out \in TerminalOutcomes \cup {"not_applicable"}, NEW failed \in BOOLEAN,
               RecordContainerStartTerminal(o, c, out, failed)
        PROVE  TypeOK'
    <2>1. op' \in [Ops -> OperationRecord]
      BY <1>6, FinishTyped DEF RecordContainerStartTerminal, ResolveResume
    <2>2. Ended(out) \in PairRecord
      BY <1>6, <1>b DEF RecordContainerStartTerminal, Outcomes, TerminalOutcomes
    <2>3. pair' = [pair EXCEPT ![c] = Ended(out)]
      BY <1>6 DEF RecordContainerStartTerminal, Ended
    <2> QED
      BY <1>6, <2>1, <2>2, <2>3 DEF RecordContainerStartTerminal, TypeOK
  <1>7. CASE BeginContainerDelete(o, c)
    <2>1. op' \in [Ops -> OperationRecord]
      BY <1>7, OpenTyped, RequestsTyped DEF BeginContainerDelete, Types
    <2>2. pair' \in [Containers -> PairRecord]
      <3>1. CASE UNCHANGED pair
        BY <3>1 DEF TypeOK
      <3>2. CASE pair[c].phase = "created" /\ pair' = [pair EXCEPT ![c] = Ended("not_applicable")]
        BY <3>2, <1>b DEF TypeOK, Outcomes
      <3> QED
        BY <1>7, <3>1, <3>2 DEF BeginContainerDelete, Ended
    <2> QED
      BY <1>7, <2>1, <2>2 DEF BeginContainerDelete, TypeOK
  <1>8. CASE ConfirmContainerDelete(o, c)
    <2>1. op' \in [Ops -> OperationRecord]
      BY <1>8, FinishTyped DEF ConfirmContainerDelete, ResolveResume, Results
    <2>2. CASE UNCHANGED <<sandbox, pair>>
      BY <2>1, <2>2 DEF TypeOK
    <2>3. CASE /\ pair[c].phase = "stopped"
               /\ sandbox' = [sandbox EXCEPT ![pair[c].sandbox].current =
                                 IF @ = c THEN None ELSE @]
               /\ pair' = [pair EXCEPT ![c] = NoPair]
      <3> DEFINE s == pair[c].sandbox
                 cur == IF sandbox[s].current = c THEN None ELSE sandbox[s].current
      <3>1. s \in Sandboxes
        BY <2>3, StoredRecords DEF StoredPair
      <3>2. [sandbox[s] EXCEPT !.current = cur] \in SandboxRecord
        <4>1. CASE sandbox[s] = NoSandbox
          <5>1. cur = None
            BY <4>1 DEF NoSandbox
          <5>2. [NoSandbox EXCEPT !.current = None] = NoSandbox
            BY DEF NoSandbox
          <5> QED
            BY <4>1, <5>1, <5>2 DEF SandboxRecord
        <4>2. CASE sandbox[s] \in StoredSandbox
          <5>1. cur \in Containers \cup {None}
            BY <4>2 DEF StoredSandbox
          <5> QED
            BY <4>2, <5>1, StoredUpdates DEF SandboxRecord
        <4> QED
          BY <3>1, <4>1, <4>2 DEF TypeOK, SandboxRecord
      <3>3. sandbox' = [sandbox EXCEPT ![s] = [sandbox[s] EXCEPT !.current = cur]]
        BY <2>3
      <3> QED
        BY <2>1, <2>3, <3>1, <3>2, <3>3 DEF TypeOK, PairRecord
    <2> QED
      BY <1>8, <2>2, <2>3 DEF ConfirmContainerDelete
  <1>9. ASSUME NEW out \in TerminalOutcomes, BeginRecordStopped(o, c, out)  PROVE TypeOK'
    <2>1. op' \in [Ops -> OperationRecord]
      BY <1>9, OpenTyped, RequestsTyped DEF BeginRecordStopped
    <2> QED
      BY <1>9, <2>1 DEF BeginRecordStopped, TypeOK
  <1>10. CASE RecordStopped(o, c)
    <2>1. op' \in [Ops -> OperationRecord]
      BY <1>10, FinishTyped DEF RecordStopped, ResolveResume
    <2>2. Ended(op[o].fp.outcome) \in PairRecord
      BY <1>10, <1>b, StoredRecords
         DEF RecordStopped, ResolveResume, Active, StoredOperation, Fingerprints,
             Outcomes, TerminalOutcomes
    <2>3. pair' = [pair EXCEPT ![c] = Ended(op[o].fp.outcome)]
      BY <1>10 DEF RecordStopped, Ended
    <2> QED
      BY <1>10, <2>1, <2>2, <2>3 DEF RecordStopped, TypeOK
  <1>11. ASSUME NEW out \in TerminalOutcomes, RecordKillStopped(o, c, out)  PROVE TypeOK'
    <2>1. op' \in [Ops -> OperationRecord]
      BY <1>11, FinishTyped DEF RecordKillStopped, ResolveResume
    <2>2. Ended(out) \in PairRecord
      BY <1>11, <1>b DEF RecordKillStopped, Outcomes, TerminalOutcomes
    <2>3. pair' = [pair EXCEPT ![c] = Ended(out)]
      BY <1>11 DEF RecordKillStopped, Ended
    <2> QED
      BY <1>11, <2>1, <2>2, <2>3 DEF RecordKillStopped, TypeOK
  <1> QED
    BY <1>1, <1>2, <1>3, <1>4, <1>5, <1>6, <1>7, <1>8, <1>9, <1>10, <1>11 DEF ContainerNext

\* Every provider or recovery checkpoint is one CheckpointOperation call.
LEMMA CheckpointKinds ==
    ASSUME TypeOK, NEW o \in Ops,
           \/ CheckpointReceipt(o) \/ CheckpointAttach(o)
           \/ \E stage \in Stages : CheckpointProcess(o, stage)
           \/ CheckpointRelease(o) \/ CheckpointRollback(o) \/ CheckpointRecoveryIssue(o)
    PROVE  \E stage \in Stages, j \in Journals : CheckpointOperation(o, stage, j)
  <1> op[o] \in OperationRecord /\ op[o].journal \in Journals
    BY DEF TypeOK, OperationRecord, StoredOperation, NoOperation, Journals
  <1> \A j \in Extended(op[o].journal) : j \in Journals
    BY DEF Extended, Journals
  <1>1. CASE CheckpointReceipt(o)
    BY <1>1 DEF CheckpointReceipt, Stages
  <1>2. CASE CheckpointAttach(o)
    BY <1>2 DEF CheckpointAttach, Stages
  <1>3. CASE \E stage \in Stages : CheckpointProcess(o, stage)
    BY <1>3 DEF CheckpointProcess
  <1>4. CASE CheckpointRelease(o)
    BY <1>4 DEF CheckpointRelease, Stages
  <1>5. CASE CheckpointRollback(o)
    <2>1. PICK j \in {"undone", "undoing"} : CheckpointOperation(o, "rollback", j)
      BY <1>5 DEF CheckpointRollback
    <2> QED
      BY <2>1 DEF Stages, Journals
  <1>6. CASE CheckpointRecoveryIssue(o)
    BY <1>6 DEF CheckpointRecoveryIssue, Stages
  <1> QED
    BY <1>1, <1>2, <1>3, <1>4, <1>5, <1>6

\* Conflicts, checkpoints and FailActiveOperation keep the tables typed.
LEMMA OperationStepTyped ==
    ASSUME TypeOK, NEW o \in Ops, OperationNext(o)
    PROVE  TypeOK'
  <1>1. ASSUME NEW b \in Requests, PersistOperationConflict(o, b)  PROVE TypeOK'
    <2>1. op' \in [Ops -> OperationRecord]
      BY <1>1, OpenTyped, RequestsTyped DEF PersistOperationConflict, Results
    <2> QED
      BY <1>1, <2>1 DEF PersistOperationConflict, TypeOK
  <1>2. CASE FailActiveOperation(o)
    <2>1. op' \in [Ops -> OperationRecord]
      BY <1>2, FinishTyped DEF FailActiveOperation
    <2> QED
      BY <1>2, <2>1 DEF FailActiveOperation, TypeOK
  <1> QED
    BY <1>1, <1>2, CheckpointKinds, CheckpointTyped DEF OperationNext

\* No step of the Coordinator leaves the schema.
LEMMA StepTyped == TypeOK /\ [Next]_vars => TypeOK'
  <1>1. ASSUME TypeOK, Next  PROVE TypeOK'
    BY <1>1, SandboxStepTyped, ContainerStepTyped, OperationStepTyped DEF Next
  <1>2. ASSUME TypeOK, UNCHANGED vars  PROVE TypeOK'
    BY <1>2 DEF TypeOK, vars
  <1> QED
    BY <1>1, <1>2

\* The tables of the Store always hold records of their schema.
THEOREM TypeCorrect == Spec => []TypeOK
  <1>1. Init => TypeOK
    BY DEF Init, TypeOK, SandboxRecord, PairRecord, OperationRecord
  <1> QED
    BY <1>1, StepTyped, PTL DEF Spec

-----------------------------------------------------------------------------
(* Part 2: the kinds of change and what each one preserves. *)

\* How a step changes the operations: o alone opens, ends or keeps its place.
Others(o) == \A p \in Ops \ {o} : op'[p] = op[p]
Opens(o, type, t) == /\ Others(o)
                     /\ op'[o].state = "running"
                     /\ op'[o].type = type /\ op'[o].target = t
Ends(o) == Others(o) /\ op'[o].state # "running"
Keeps(o) == /\ Others(o)
            /\ op'[o].state = op[o].state
            /\ op'[o].type = op[o].type /\ op'[o].target = op[o].target

\* Only the phase of t may change.
SameElsewhere(t) ==
    /\ \A s \in Sandboxes \ {t} : sandbox'[s].phase = sandbox[s].phase
    /\ \A c \in Containers \ {t} : pair'[c].phase = pair[c].phase

\* The half of the invariant that relates operations to phases, and the half
\* that relates Sandboxes to pairs.
OperationsInv == OneActiveOperation /\ ActiveOperationFits /\ NoStrandedPhase
ResourcesInv == ActiveAttemptExclusive /\ ReferencesIntact

\* An active operation (resolveOperation's resume) is a stored record.
LEMMA ActiveTyped ==
    ASSUME TypeOK, NEW o \in Ops, Active(o)
    PROVE  op[o].target \in Targets /\ op[o].type \in Types
  BY DEF TypeOK, Active, OperationRecord, NoOperation, StoredOperation

\* Opening an operation on a free target, in a phase its type expects.
LEMMA OpensKeepsInv ==
    ASSUME TypeOK, TypeOK', OperationsInv, NEW o \in Ops, NEW t \in Targets, NEW type \in Types,
           ~Busy(t), Opens(o, type, t), ~Active(o), SameElsewhere(t),
           PhaseOf(t)' \in ExpectedPhases(type)
    PROVE  OperationsInv'
  <1>1. OneActiveOperation'
    BY DEF OperationsInv, OneActiveOperation, Active, Busy, Opens, Others
  <1>2. ActiveOperationFits'
    <2>1. SUFFICES ASSUME NEW p \in Ops, Active(p)'
                   PROVE  (PhaseOf(op[p].target) \in ExpectedPhases(op[p].type))'
      BY DEF ActiveOperationFits
    <2>2. CASE p = o
      BY <2>2 DEF Opens
    <2>3. CASE p # o
      <3>1. op'[p] = op[p] /\ Active(p)
        BY <2>1, <2>3 DEF Opens, Others, Active
      <3>2. op[p].target # t /\ op[p].target \in Targets
        BY <3>1, ActiveTyped DEF Busy
      <3>3. PhaseOf(op[p].target)' = PhaseOf(op[p].target)
        BY <3>1, <3>2 DEF SameElsewhere, PhaseOf, Targets
      <3> QED
        BY <3>1, <3>3 DEF OperationsInv, ActiveOperationFits
    <2> QED
      BY <2>2, <2>3
  <1>3. NoStrandedPhase'
    <2>1. ASSUME NEW s \in Sandboxes, sandbox'[s].phase \in {"creating", "stopping"}
          PROVE  \E p \in Ops : /\ Active(p)' /\ op'[p].target = s
                                /\ op'[p].type = IF sandbox'[s].phase = "creating"
                                                 THEN "create" ELSE "stop"
      <3>1. CASE s = t
        BY <2>1, <3>1 DEF Opens, Active, PhaseOf, ExpectedPhases, Types
      <3>2. CASE s # t
        <4>1. sandbox'[s].phase = sandbox[s].phase
          BY <3>2 DEF SameElsewhere
        <4>2. PICK p \in Ops : /\ Active(p) /\ op[p].target = s
                               /\ op[p].type = IF sandbox[s].phase = "creating"
                                               THEN "create" ELSE "stop"
          BY <2>1, <4>1 DEF OperationsInv, NoStrandedPhase
        <4> QED
          BY <4>1, <4>2 DEF Opens, Others, Active
      <3> QED
        BY <3>1, <3>2
    <2>2. ASSUME NEW c \in Containers, pair'[c].phase = "creating"
          PROVE  \E p \in Ops : Active(p)' /\ op'[p].target = c /\ op'[p].type = "create"
      <3>1. CASE c = t
        BY <2>2, <3>1, DistinctIDs DEF Opens, Active, PhaseOf, ExpectedPhases, Types
      <3>2. CASE c # t
        <4>1. pair[c].phase = "creating"
          BY <2>2, <3>2 DEF SameElsewhere
        <4>2. PICK p \in Ops : Active(p) /\ op[p].target = c /\ op[p].type = "create"
          BY <4>1 DEF OperationsInv, NoStrandedPhase
        <4> QED
          BY <4>2 DEF Opens, Others, Active
      <3> QED
        BY <3>1, <3>2
    <2> QED
      BY <2>1, <2>2 DEF NoStrandedPhase, Active
  <1> QED
    BY <1>1, <1>2, <1>3 DEF OperationsInv

\* Ending the operation of a target that is left in a settled phase.
LEMMA EndsKeepsInv ==
    ASSUME TypeOK, TypeOK', OperationsInv, NEW o \in Ops, NEW t \in Targets,
           Active(o), op[o].target = t, Ends(o), SameElsewhere(t),
           PhaseOf(t)' \notin {"creating", "stopping"}
    PROVE  OperationsInv'
  <1>0. \A p \in Ops : Active(p)' => p # o /\ Active(p) /\ op'[p] = op[p] /\ op[p].target # t
    BY DEF OperationsInv, OneActiveOperation, Active, Ends, Others
  <1>1. OneActiveOperation'
    BY <1>0 DEF OperationsInv, OneActiveOperation, Active
  <1>2. ActiveOperationFits'
    <2>1. SUFFICES ASSUME NEW p \in Ops, Active(p)'
                   PROVE  (PhaseOf(op[p].target) \in ExpectedPhases(op[p].type))'
      BY DEF ActiveOperationFits
    <2>2. Active(p) /\ op'[p] = op[p] /\ op[p].target # t /\ op[p].target \in Targets
      BY <1>0, <2>1, ActiveTyped
    <2>3. PhaseOf(op[p].target)' = PhaseOf(op[p].target)
      BY <2>2 DEF SameElsewhere, PhaseOf, Targets
    <2> QED
      BY <2>2, <2>3 DEF OperationsInv, ActiveOperationFits
  <1>3. NoStrandedPhase'
    <2>1. ASSUME NEW s \in Sandboxes, sandbox'[s].phase \in {"creating", "stopping"}
          PROVE  \E p \in Ops : /\ Active(p)' /\ op'[p].target = s
                                /\ op'[p].type = IF sandbox'[s].phase = "creating"
                                                 THEN "create" ELSE "stop"
      <3>1. s # t
        BY <2>1 DEF PhaseOf
      <3>2. sandbox'[s].phase = sandbox[s].phase
        BY <3>1 DEF SameElsewhere
      <3>3. PICK p \in Ops : /\ Active(p) /\ op[p].target = s
                             /\ op[p].type = IF sandbox[s].phase = "creating"
                                             THEN "create" ELSE "stop"
        BY <2>1, <3>2 DEF OperationsInv, NoStrandedPhase
      <3>4. p # o
        BY <3>1, <3>3
      <3> QED
        BY <3>2, <3>3, <3>4 DEF Ends, Others, Active
    <2>2. ASSUME NEW c \in Containers, pair'[c].phase = "creating"
          PROVE  \E p \in Ops : Active(p)' /\ op'[p].target = c /\ op'[p].type = "create"
      <3>1. c # t
        BY <2>2, DistinctIDs DEF PhaseOf
      <3>2. pair[c].phase = "creating"
        BY <2>2, <3>1 DEF SameElsewhere
      <3>3. PICK p \in Ops : Active(p) /\ op[p].target = c /\ op[p].type = "create"
        BY <3>2 DEF OperationsInv, NoStrandedPhase
      <3> QED
        BY <3>1, <3>3 DEF Ends, Others, Active
    <2> QED
      BY <2>1, <2>2 DEF NoStrandedPhase, Active
  <1> QED
    BY <1>1, <1>2, <1>3 DEF OperationsInv

\* A checkpoint, and a record that is terminal at once, move no phase and
\* neither open nor end an operation.
SameActive ==
    \A p \in Ops : /\ Active(p)' <=> Active(p)
                   /\ Active(p) => op'[p].type = op[p].type /\ op'[p].target = op[p].target

\* A transaction that opens and ends nothing, and moves no phase, reference or
\* binding, keeps the invariant: a checkpoint or a durable no-op.
LEMMA SameActiveKeepsInv ==
    ASSUME TypeOK, OperationsInv, SameActive, UNCHANGED <<sandbox, pair>>
    PROVE  OperationsInv'
  <1>1. OneActiveOperation'
    BY DEF OperationsInv, OneActiveOperation, SameActive
  <1>2. ActiveOperationFits'
    BY DEF OperationsInv, ActiveOperationFits, SameActive, PhaseOf
  <1>3. NoStrandedPhase'
    <2>1. ASSUME NEW s \in Sandboxes, sandbox'[s].phase \in {"creating", "stopping"}
          PROVE  \E p \in Ops : /\ Active(p)' /\ op'[p].target = s
                                /\ op'[p].type = IF sandbox'[s].phase = "creating"
                                                 THEN "create" ELSE "stop"
      <3>1. PICK p \in Ops : /\ Active(p) /\ op[p].target = s
                             /\ op[p].type = IF sandbox[s].phase = "creating"
                                             THEN "create" ELSE "stop"
        BY <2>1 DEF OperationsInv, NoStrandedPhase
      <3> QED
        BY <3>1 DEF SameActive
    <2>2. ASSUME NEW c \in Containers, pair'[c].phase = "creating"
          PROVE  \E p \in Ops : Active(p)' /\ op'[p].target = c /\ op'[p].type = "create"
      <3>1. PICK p \in Ops : Active(p) /\ op[p].target = c /\ op[p].type = "create"
        BY <2>2 DEF OperationsInv, NoStrandedPhase
      <3> QED
        BY <3>1 DEF SameActive
    <2> QED
      BY <2>1, <2>2 DEF NoStrandedPhase
  <1> QED
    BY <1>1, <1>2, <1>3 DEF OperationsInv

\* A Sandbox may leave Ready only without an active Attempt, and be forgotten
\* only without a stored one.
MayBecome(s, r) ==
    /\ r.phase = "ready" \/ ActivePairsOf(s) = {}
    /\ r.phase \in {"ready", "stopping", "stopped"} \/ PairsOf(s) = {}
    /\ \/ r.current = sandbox[s].current
       \/ r.current = None /\ PairsOf(s) = {}

\* A Sandbox record may change along MayBecome without disturbing the pairs:
\* what the Begin and Confirm methods of sandbox.go write.
LEMMA SandboxChangeKeepsInv ==
    ASSUME TypeOK, ResourcesInv, NEW s \in Sandboxes, NEW r \in SandboxRecord,
           sandbox' = [sandbox EXCEPT ![s] = r], UNCHANGED pair, MayBecome(s, r)
    PROVE  ResourcesInv'
  <1>1. sandbox'[s] = r /\ \A u \in Sandboxes \ {s} : sandbox'[u] = sandbox[u]
    BY DEF TypeOK
  <1>2. ActiveAttemptExclusive'
    <2>1. SUFFICES ASSUME NEW c \in Containers, pair[c].phase \in ActivePhases
                   PROVE  /\ sandbox'[pair[c].sandbox].phase = "ready"
                          /\ sandbox'[pair[c].sandbox].current = c
      BY DEF ActiveAttemptExclusive
    <2>2. pair[c].phase # "absent" /\ pair[c].sandbox \in Sandboxes
      BY <2>1, StoredRecords DEF TypeOK, ActivePhases, StoredPair
    <2>3. CASE pair[c].sandbox = s
      <3>1. c \in ActivePairsOf(s) /\ c \in PairsOf(s)
        BY <2>1, <2>2, <2>3 DEF ActivePairsOf, PairsOf
      <3> QED
        BY <1>1, <2>1, <2>3, <3>1 DEF MayBecome, ResourcesInv, ActiveAttemptExclusive
    <2>4. CASE pair[c].sandbox # s
      BY <1>1, <2>1, <2>2, <2>4 DEF ResourcesInv, ActiveAttemptExclusive
    <2> QED
      BY <2>3, <2>4
  <1>3. ReferencesIntact'
    <2>1. ASSUME NEW c \in Containers, pair[c].phase # "absent"
          PROVE  sandbox'[pair[c].sandbox].phase \in {"ready", "stopping", "stopped"}
      <3>1. pair[c].sandbox \in Sandboxes
        BY <2>1, StoredRecords DEF TypeOK, StoredPair
      <3>2. CASE pair[c].sandbox = s
        BY <1>1, <2>1, <3>2 DEF MayBecome, PairsOf
      <3>3. CASE pair[c].sandbox # s
        BY <1>1, <2>1, <3>1, <3>3 DEF ResourcesInv, ReferencesIntact
      <3> QED
        BY <3>2, <3>3
    <2>2. ASSUME NEW u \in Sandboxes, sandbox'[u].current # None
          PROVE  sandbox'[u].current \in PairsOf(u)'
      <3>1. sandbox'[u].current = sandbox[u].current
        BY <1>1, <2>2 DEF MayBecome
      <3> QED
        BY <2>2, <3>1 DEF ResourcesInv, ReferencesIntact, PairsOf
    <2> QED
      BY <2>1, <2>2 DEF ReferencesIntact
  <1> QED
    BY <1>2, <1>3 DEF ResourcesInv

\* A stored pair may change its phase as long as no ended Attempt revives.
LEMMA PairChangeKeepsInv ==
    ASSUME TypeOK, ResourcesInv, NEW c \in Containers, NEW r \in StoredPair,
           pair' = [pair EXCEPT ![c] = r], UNCHANGED sandbox,
           pair[c].phase # "absent", r.sandbox = pair[c].sandbox,
           r.phase \in ActivePhases => pair[c].phase \in ActivePhases
    PROVE  ResourcesInv'
  <1>1. pair'[c] = r /\ \A d \in Containers \ {c} : pair'[d] = pair[d]
    BY DEF TypeOK
  <1>2. r.phase # "absent"
    BY DEF StoredPair
  <1>3. ActiveAttemptExclusive'
    BY <1>1 DEF ResourcesInv, ActiveAttemptExclusive
  <1>4. \A u \in Sandboxes : PairsOf(u)' = PairsOf(u)
    BY <1>1, <1>2 DEF PairsOf
  <1>5. ReferencesIntact'
    BY <1>1, <1>4 DEF ResourcesInv, ReferencesIntact
  <1> QED
    BY <1>3, <1>5 DEF ResourcesInv

\* A new pair enters a Ready Sandbox without an active Attempt as its current
\* one.
LEMMA NewPairKeepsInv ==
    ASSUME TypeOK, ResourcesInv, NEW s \in Sandboxes, NEW c \in Containers, NEW r \in StoredPair,
           pair[c].phase = "absent", sandbox[s].phase = "ready", ActivePairsOf(s) = {},
           sandbox' = [sandbox EXCEPT ![s].current = c],
           pair' = [pair EXCEPT ![c] = r], r.sandbox = s
    PROVE  ResourcesInv'
  <1>1. pair'[c] = r /\ \A d \in Containers \ {c} : pair'[d] = pair[d]
    BY DEF TypeOK
  <1>2. /\ sandbox[s] \in StoredSandbox
        /\ sandbox'[s].phase = "ready" /\ sandbox'[s].current = c
        /\ \A u \in Sandboxes : sandbox'[u].phase = sandbox[u].phase
        /\ \A u \in Sandboxes \ {s} : sandbox'[u] = sandbox[u]
    <2>1. sandbox[s] \in StoredSandbox
      BY StoredRecords DEF TypeOK
    <2>2. sandbox'[s] = [sandbox[s] EXCEPT !.current = c]
      BY DEF TypeOK
    <2> QED
      BY <2>1, <2>2 DEF TypeOK, StoredSandbox
  <1>3. ActiveAttemptExclusive'
    <2>1. SUFFICES ASSUME NEW d \in Containers, pair'[d].phase \in ActivePhases
                   PROVE  /\ sandbox'[pair'[d].sandbox].phase = "ready"
                          /\ sandbox'[pair'[d].sandbox].current = d
      BY DEF ActiveAttemptExclusive
    <2>2. CASE d = c
      BY <1>1, <1>2, <2>2
    <2>3. CASE d # c
      <3>1. pair[d].phase \in ActivePhases /\ pair'[d] = pair[d] /\ pair[d].phase # "absent"
        BY <1>1, <2>1, <2>3 DEF ActivePhases
      <3>2. pair[d].sandbox \in Sandboxes /\ pair[d].sandbox # s
        BY <3>1, StoredRecords DEF TypeOK, StoredPair, ActivePairsOf, PairsOf
      <3> QED
        BY <1>2, <3>1, <3>2 DEF ResourcesInv, ActiveAttemptExclusive
    <2> QED
      BY <2>2, <2>3
  <1>4. ReferencesIntact'
    <2>1. ASSUME NEW d \in Containers, pair'[d].phase # "absent"
          PROVE  sandbox'[pair'[d].sandbox].phase \in {"ready", "stopping", "stopped"}
      <3>1. CASE d = c
        BY <1>1, <1>2, <3>1
      <3>2. CASE d # c
        <4>1. pair'[d] = pair[d] /\ pair[d].sandbox \in Sandboxes
          BY <1>1, <2>1, <3>2, StoredRecords DEF TypeOK, StoredPair
        <4> QED
          BY <1>2, <2>1, <4>1 DEF ResourcesInv, ReferencesIntact
      <3> QED
        BY <3>1, <3>2
    <2>2. ASSUME NEW u \in Sandboxes, sandbox'[u].current # None
          PROVE  sandbox'[u].current \in PairsOf(u)'
      <3>1. CASE u = s
        BY <1>1, <1>2, <3>1 DEF PairsOf, StoredPair
      <3>2. CASE u # s
        <4>1. sandbox[u].current \in PairsOf(u) /\ sandbox'[u] = sandbox[u]
          BY <1>2, <2>2, <3>2 DEF ResourcesInv, ReferencesIntact
        <4>2. sandbox[u].current # c
          BY <4>1 DEF PairsOf
        <4>3. sandbox[u].current \in Containers /\ pair'[sandbox[u].current] = pair[sandbox[u].current]
          BY <1>1, <4>1, <4>2 DEF PairsOf
        <4> QED
          BY <4>1, <4>3 DEF PairsOf
      <3> QED
        BY <3>1, <3>2
    <2> QED
      BY <2>1, <2>2 DEF ReferencesIntact
  <1> QED
    BY <1>3, <1>4 DEF ResourcesInv

\* Deleting the record of an ended Attempt clears the reference to it.
LEMMA DeletePairKeepsInv ==
    ASSUME TypeOK, ResourcesInv, NEW c \in Containers,
           pair[c].phase = "stopped", pair' = [pair EXCEPT ![c] = NoPair],
           sandbox' = [sandbox EXCEPT ![pair[c].sandbox].current = IF @ = c THEN None ELSE @]
    PROVE  ResourcesInv'
  <1> DEFINE s == pair[c].sandbox
  <1>1. /\ pair'[c] = NoPair /\ NoPair.phase = "absent"
        /\ \A d \in Containers \ {c} : pair'[d] = pair[d]
    BY DEF TypeOK, NoPair
  <1>2. s \in Sandboxes
    BY StoredRecords DEF TypeOK, StoredPair
  <1>3. sandbox[s] \in StoredSandbox
    <2>1. sandbox[s].phase \in {"ready", "stopping", "stopped"}
      BY DEF ResourcesInv, ReferencesIntact
    <2> QED
      BY <1>2, <2>1, StoredRecords DEF TypeOK
  <1>4. /\ \A u \in Sandboxes : sandbox'[u].phase = sandbox[u].phase
        /\ \A u \in Sandboxes \ {s} : sandbox'[u] = sandbox[u]
        /\ sandbox'[s].current = IF sandbox[s].current = c THEN None ELSE sandbox[s].current
    <2>1. sandbox'[s] = [sandbox[s] EXCEPT !.current =
                            IF sandbox[s].current = c THEN None ELSE sandbox[s].current]
      BY <1>2 DEF TypeOK
    <2>2. \A u \in Sandboxes \ {s} : sandbox'[u] = sandbox[u]
      BY <1>2 DEF TypeOK
    <2> QED
      BY <1>2, <1>3, <2>1, <2>2 DEF StoredSandbox
  <1>5. ActiveAttemptExclusive'
    <2>1. SUFFICES ASSUME NEW d \in Containers, pair'[d].phase \in ActivePhases
                   PROVE  /\ sandbox'[pair'[d].sandbox].phase = "ready"
                          /\ sandbox'[pair'[d].sandbox].current = d
      BY DEF ActiveAttemptExclusive
    <2>2. d # c /\ pair'[d] = pair[d] /\ pair[d].phase # "absent"
      BY <1>1, <2>1 DEF ActivePhases
    <2>3. pair[d].sandbox \in Sandboxes
      BY <2>2, StoredRecords DEF TypeOK, StoredPair
    <2>4. sandbox[pair[d].sandbox].phase = "ready" /\ sandbox[pair[d].sandbox].current = d
      BY <2>1, <2>2 DEF ResourcesInv, ActiveAttemptExclusive
    <2> QED
      BY <1>4, <2>2, <2>3, <2>4
  <1>6. ReferencesIntact'
    <2>1. ASSUME NEW d \in Containers, pair'[d].phase # "absent"
          PROVE  sandbox'[pair'[d].sandbox].phase \in {"ready", "stopping", "stopped"}
      <3>1. pair'[d] = pair[d] /\ pair[d].sandbox \in Sandboxes
        BY <1>1, <2>1, StoredRecords DEF TypeOK, StoredPair
      <3> QED
        BY <1>4, <2>1, <3>1 DEF ResourcesInv, ReferencesIntact
    <2>2. ASSUME NEW u \in Sandboxes, sandbox'[u].current # None
          PROVE  sandbox'[u].current \in PairsOf(u)'
      <3>1. sandbox'[u].current = sandbox[u].current
        BY <1>4, <2>2
      <3>2. sandbox[u].current # c
        <4>1. CASE u = s
          BY <1>4, <2>2, <4>1
        <4>2. CASE u # s
          BY <2>2, <3>1, <4>2 DEF ResourcesInv, ReferencesIntact, PairsOf
        <4> QED
          BY <4>1, <4>2
      <3> QED
        BY <1>1, <2>2, <3>1, <3>2 DEF ResourcesInv, ReferencesIntact, PairsOf
    <2> QED
      BY <2>1, <2>2 DEF ReferencesIntact
  <1> QED
    BY <1>5, <1>6 DEF ResourcesInv

-----------------------------------------------------------------------------
(* Part 3: the actions. *)

SafetyInv == TypeOK /\ OperationsInv /\ ResourcesInv

\* The shapes of the operation updates, as Part 2 names them.
LEMMA UpdateShapes ==
    ASSUME TypeOK, NEW o \in Ops
    PROVE  /\ \A b \in Bindings : PutNewActive(o, b) => Opens(o, b.type, b.target)
           /\ \A b \in Bindings, st \in {"succeeded", "failed"}, r \in Results :
                 PutNewTerminal(o, b, st, r) => Ends(o)
           /\ Complete(o) => Ends(o)
           /\ FailOperation(o) => Ends(o)
           /\ Finish(o, "succeeded", "noop") => Ends(o)
  <1>1. \A b \in Bindings : PutNewActive(o, b) => Opens(o, b.type, b.target)
    BY DEF TypeOK, PutNewActive, Opens, Others, Bindings
  <1>2. \A b \in Bindings, st \in {"succeeded", "failed"}, r \in Results :
            PutNewTerminal(o, b, st, r) => Ends(o)
    BY DEF TypeOK, PutNewTerminal, Ends, Others
  <1>3. \A st \in {"succeeded", "failed"}, r \in Results : Finish(o, st, r) => Ends(o)
    <2>1. SUFFICES ASSUME NEW st \in {"succeeded", "failed"}, NEW r \in Results,
                          Finish(o, st, r)
                   PROVE  Ends(o)
      OBVIOUS
    <2> QED
      BY <2>1 DEF TypeOK, Finish, Ends, Others, OperationRecord, NoOperation, StoredOperation
  <1> QED
    BY <1>1, <1>2, <1>3 DEF Complete, FailOperation, Results

\* An ID that is unused is not active, and a record that ends at once leaves
\* every operation that is active as it was.
LEMMA TerminalAtOnce ==
    ASSUME NEW o \in Ops, op[o].state = "unused"
    PROVE  /\ ~Active(o)
           /\ Ends(o) => SameActive
  BY DEF Active, Ends, Others, SameActive

\* An open action opens its operation, or records it terminal and moves nothing.
LEMMA OpenStep ==
    ASSUME TypeOK, TypeOK', OperationsInv, NEW o \in Ops, NEW b \in Bindings,
           ResolveNew(o, b),
           \/ /\ \E st \in {"succeeded", "failed"}, r \in Results : PutNewTerminal(o, b, st, r)
              /\ UNCHANGED <<sandbox, pair>>
           \/ /\ PutNewActive(o, b)
              /\ SameElsewhere(b.target)
              /\ PhaseOf(b.target)' \in ExpectedPhases(b.type)
    PROVE  OperationsInv'
  <1> b.type \in Types /\ b.target \in Targets
    BY DEF Bindings
  <1>1. CASE /\ \E st \in {"succeeded", "failed"}, r \in Results : PutNewTerminal(o, b, st, r)
             /\ UNCHANGED <<sandbox, pair>>
    BY <1>1, UpdateShapes, TerminalAtOnce, SameActiveKeepsInv DEF ResolveNew
  <1>2. CASE /\ PutNewActive(o, b)
             /\ SameElsewhere(b.target)
             /\ PhaseOf(b.target)' \in ExpectedPhases(b.type)
    BY <1>2, UpdateShapes, TerminalAtOnce, OpensKeepsInv DEF ResolveNew
  <1> QED
    BY <1>1, <1>2

\* A confirmation ends its operation and leaves the target in a settled phase.
LEMMA CloseStep ==
    ASSUME TypeOK, TypeOK', OperationsInv, NEW o \in Ops, NEW t \in Targets, NEW type \in Types,
           ResolveResume(o, type, t),
           Complete(o) \/ FailOperation(o) \/ Finish(o, "succeeded", "noop"),
           SameElsewhere(t), PhaseOf(t)' \notin {"creating", "stopping"}
    PROVE  OperationsInv'
  BY UpdateShapes, EndsKeepsInv DEF ResolveResume

\* A step of a Sandbox request.
LEMMA SandboxStepSafe ==
    ASSUME SafetyInv, NEW o \in Ops, NEW s \in Sandboxes, SandboxNext(o, s)
    PROVE  SafetyInv'
  <1> s \in Targets /\ PhaseOf(s) = sandbox[s].phase /\ PhaseOf(s)' = sandbox'[s].phase
    BY DEF Targets, PhaseOf
  <1> TypeOK /\ TypeOK' /\ OperationsInv /\ ResourcesInv
    BY SandboxStepTyped DEF SafetyInv
  <1>a. \A r \in SandboxRecord :
            sandbox' = [sandbox EXCEPT ![s] = r] /\ UNCHANGED pair
               => sandbox'[s] = r /\ SameElsewhere(s)
    BY DEF TypeOK, SameElsewhere
  <1>b. UNCHANGED <<sandbox, pair>> => SameElsewhere(s) /\ ResourcesInv'
    BY DEF SameElsewhere, ResourcesInv, ActiveAttemptExclusive, ReferencesIntact, PairsOf
  <1>c. sandbox[s].phase \in {"absent", "creating"} => PairsOf(s) = {} /\ ActivePairsOf(s) = {}
    BY DEF ResourcesInv, ReferencesIntact, PairsOf, ActivePairsOf
  <1>d. \A ph \in SandboxPhases \ {"absent"} :
            sandbox[s].phase # "absent" =>
                LET r == [sandbox[s] EXCEPT !.phase = ph] IN
                r \in SandboxRecord /\ r.phase = ph /\ r.current = sandbox[s].current
    BY StoredRecords DEF TypeOK, SandboxRecord, StoredSandbox
  <1>e. NoSandbox \in SandboxRecord /\ NoSandbox.phase = "absent" /\ NoSandbox.current = None
    BY DEF NoSandbox, SandboxRecord
  <1>1. ASSUME NEW p \in Specs, BeginSandboxCreate(o, s, p)  PROVE SafetyInv'
    <2> DEFINE b == SandboxCreate(s, p)
               r == [NoSandbox EXCEPT !.phase = "creating", !.spec = p]
    <2>0. b \in Bindings /\ b.target = s /\ b.type = "create"
      BY RequestsTyped DEF SandboxCreate, Binding
    <2>1. CASE PutNewTerminal(o, b, "succeeded", "noop") /\ UNCHANGED <<sandbox, pair>>
      BY <1>1, <1>b, <2>0, <2>1, OpenStep DEF BeginSandboxCreate, SafetyInv, Results
    <2>2. CASE /\ sandbox[s].phase = "absent" /\ PutNewActive(o, b)
               /\ sandbox' = [sandbox EXCEPT ![s] = r] /\ UNCHANGED pair
      <3>1. r \in SandboxRecord /\ r.phase = "creating" /\ r.current = None
        BY DEF NoSandbox, SandboxRecord, StoredSandbox, SandboxPhases
      <3>2. sandbox[s].current = None
        BY <2>2, <1>e DEF TypeOK, SandboxRecord, StoredSandbox
      <3>3. MayBecome(s, r)
        BY <1>c, <2>2, <3>1, <3>2 DEF MayBecome
      <3>4. ResourcesInv'
        BY <2>2, <3>1, <3>3, SandboxChangeKeepsInv
      <3>5. OperationsInv'
        BY <1>1, <1>a, <2>0, <2>2, <3>1, OpenStep DEF BeginSandboxCreate, ExpectedPhases
      <3> QED
        BY <3>4, <3>5 DEF SafetyInv
    <2> QED
      BY <1>1, <2>1, <2>2 DEF BeginSandboxCreate
  <1>2. CASE ConfirmSandboxCreate(o, s)
    <2> DEFINE r == [sandbox[s] EXCEPT !.phase = "ready", !.owner = o]
    <2>0. sandbox[s] \in StoredSandbox
      BY <1>2, StoredRecords DEF ConfirmSandboxCreate, TypeOK
    <2>1. r \in SandboxRecord /\ r.phase = "ready" /\ r.current = sandbox[s].current
      BY <2>0 DEF SandboxRecord, StoredSandbox, SandboxPhases
    <2>2. sandbox' = [sandbox EXCEPT ![s] = r] /\ UNCHANGED pair
      BY <1>2 DEF ConfirmSandboxCreate
    <2> HIDE DEF r
    <2>3. MayBecome(s, r)
      BY <2>1 DEF MayBecome
    <2>4. ResourcesInv'
      BY <2>1, <2>2, <2>3, SandboxChangeKeepsInv
    <2>5. OperationsInv'
      BY <1>2, <1>a, <2>1, <2>2, CloseStep DEF ConfirmSandboxCreate, Types
    <2> QED
      BY <2>4, <2>5 DEF SafetyInv
  <1>3. CASE FailSandboxCreateAfterRollback(o, s)
    <2>0. MayBecome(s, NoSandbox)
      BY <1>3, <1>c, <1>e DEF MayBecome, FailSandboxCreateAfterRollback
    <2>1. ResourcesInv'
      BY <1>3, <1>e, <2>0, SandboxChangeKeepsInv DEF FailSandboxCreateAfterRollback
    <2>2. OperationsInv'
      BY <1>3, <1>a, <1>e, CloseStep DEF FailSandboxCreateAfterRollback, Types
    <2> QED
      BY <2>1, <2>2 DEF SafetyInv
  <1>4. CASE BeginSandboxStop(o, s)
    <2> DEFINE b == Binding("stop", s, NoInput)
               r == [sandbox[s] EXCEPT !.phase = "stopping"]
    <2>0. b \in Bindings /\ b.target = s /\ b.type = "stop"
      BY RequestsTyped DEF Binding, Types
    <2>1. CASE PutNewTerminal(o, b, "succeeded", "noop") /\ UNCHANGED <<sandbox, pair>>
      BY <1>4, <1>b, <2>0, <2>1, OpenStep DEF BeginSandboxStop, SafetyInv, Results
    <2>2. CASE /\ sandbox[s].phase = "ready" /\ ActivePairsOf(s) = {} /\ PutNewActive(o, b)
               /\ sandbox' = [sandbox EXCEPT ![s] = r] /\ UNCHANGED pair
      <3>1. r \in SandboxRecord /\ r.phase = "stopping" /\ r.current = sandbox[s].current
        BY <1>d, <2>2 DEF SandboxPhases
      <3> HIDE DEF r
      <3>2. MayBecome(s, r)
        BY <2>2, <3>1 DEF MayBecome
      <3>3. ResourcesInv'
        BY <2>2, <3>1, <3>2, SandboxChangeKeepsInv
      <3>4. OperationsInv'
        BY <1>4, <1>a, <2>0, <2>2, <3>1, OpenStep DEF BeginSandboxStop, ExpectedPhases
      <3> QED
        BY <3>3, <3>4 DEF SafetyInv
    <2> QED
      BY <1>4, <2>1, <2>2 DEF BeginSandboxStop
  <1>5. CASE ConfirmSandboxStop(o, s)
    <2> DEFINE r == [sandbox[s] EXCEPT !.phase = "stopped"]
    <2>1. r \in SandboxRecord /\ r.phase = "stopped" /\ r.current = sandbox[s].current
      BY <1>5, <1>d DEF ConfirmSandboxStop, SandboxPhases
    <2>2. sandbox' = [sandbox EXCEPT ![s] = r] /\ UNCHANGED pair
      BY <1>5 DEF ConfirmSandboxStop
    <2> HIDE DEF r
    <2>3. ActivePairsOf(s) = {}
      BY <1>5 DEF ConfirmSandboxStop, ResourcesInv, ActiveAttemptExclusive, ActivePairsOf, PairsOf
    <2>4. MayBecome(s, r)
      BY <2>1, <2>3 DEF MayBecome
    <2>5. ResourcesInv'
      BY <2>1, <2>2, <2>4, SandboxChangeKeepsInv
    <2>6. OperationsInv'
      BY <1>5, <1>a, <2>1, <2>2, CloseStep DEF ConfirmSandboxStop, Types
    <2> QED
      BY <2>5, <2>6 DEF SafetyInv
  <1>6. CASE BeginSandboxRemove(o, s)
    <2> DEFINE b == Binding("delete", s, NoInput)
    <2>0. b \in Bindings /\ b.target = s /\ b.type = "delete"
      BY RequestsTyped DEF Binding, Types
    <2>1. sandbox'[s].phase \in ExpectedPhases("delete")
      BY <1>6 DEF BeginSandboxRemove, ExpectedPhases
    <2> QED
      BY <1>6, <1>b, <2>0, <2>1, OpenStep DEF BeginSandboxRemove, SafetyInv
  <1>7. CASE ConfirmSandboxRemove(o, s)
    <2>1. CASE /\ sandbox[s].phase = "absent" /\ Finish(o, "succeeded", "noop")
               /\ UNCHANGED <<sandbox, pair>>
      BY <1>7, <1>b, <2>1, CloseStep DEF ConfirmSandboxRemove, SafetyInv, Types
    <2>2. CASE /\ PairsOf(s) = {} /\ Complete(o)
               /\ sandbox' = [sandbox EXCEPT ![s] = NoSandbox] /\ UNCHANGED pair
      <3>1. MayBecome(s, NoSandbox)
        BY <1>e, <2>2 DEF MayBecome, ActivePairsOf
      <3>2. ResourcesInv'
        BY <1>e, <2>2, <3>1, SandboxChangeKeepsInv
      <3>3. OperationsInv'
        BY <1>7, <1>a, <1>e, <2>2, CloseStep DEF ConfirmSandboxRemove, Types
      <3> QED
        BY <3>2, <3>3 DEF SafetyInv
    <2> QED
      BY <1>7, <2>1, <2>2 DEF ConfirmSandboxRemove
  <1> QED
    BY <1>1, <1>2, <1>3, <1>4, <1>5, <1>6, <1>7 DEF SandboxNext

\* A step of a Container request or of a terminal observation.
LEMMA ContainerStepSafe ==
    ASSUME SafetyInv, NEW o \in Ops, NEW c \in Containers, ContainerNext(o, c)
    PROVE  SafetyInv'
  <1> c \in Targets /\ c \notin Sandboxes /\ PhaseOf(c) = pair[c].phase /\ PhaseOf(c)' = pair'[c].phase
    BY DistinctIDs DEF Targets, PhaseOf
  <1> TypeOK /\ TypeOK' /\ OperationsInv /\ ResourcesInv
    BY ContainerStepTyped DEF SafetyInv
  <1> DEFINE Ended(out) == [pair[c] EXCEPT !.phase = "stopped", !.outcome = out]
             Moved(ph) == [pair[c] EXCEPT !.phase = ph]
             Owned(ph) == [pair[c] EXCEPT !.phase = ph, !.owner = o]
  <1>a. \A r \in PairRecord :
            pair' = [pair EXCEPT ![c] = r] /\ UNCHANGED sandbox
               => pair'[c] = r /\ SameElsewhere(c)
    BY DEF TypeOK, SameElsewhere
  <1>b. UNCHANGED <<sandbox, pair>> => SameElsewhere(c) /\ ResourcesInv'
    BY DEF SameElsewhere, ResourcesInv, ActiveAttemptExclusive, ReferencesIntact, PairsOf
  <1>c. ASSUME pair[c].phase # "absent"
        PROVE  /\ \A out \in Outcomes : /\ Ended(out) \in StoredPair
                                        /\ Ended(out).phase = "stopped"
                                        /\ Ended(out).sandbox = pair[c].sandbox
               /\ \A ph \in AttemptPhases \ {"absent"} :
                     /\ Moved(ph) \in StoredPair /\ Moved(ph).phase = ph
                     /\ Moved(ph).sandbox = pair[c].sandbox
                     /\ Owned(ph) \in StoredPair /\ Owned(ph).phase = ph
                     /\ Owned(ph).sandbox = pair[c].sandbox
    <2>1. pair[c] \in StoredPair
      BY <1>c, StoredRecords DEF TypeOK
    <2> QED
      BY <2>1 DEF StoredPair, AttemptPhases
  <1> HIDE DEF Ended, Moved, Owned
  <1>d. StoredPair \subseteq PairRecord
    BY DEF PairRecord
  <1>e. ASSUME NEW out \in Outcomes, pair[c].phase # "absent",
               pair' = [pair EXCEPT ![c] = Ended(out)], UNCHANGED sandbox
        PROVE  ResourcesInv' /\ SameElsewhere(c) /\ pair'[c].phase = "stopped"
    <2>1. /\ Ended(out) \in StoredPair /\ Ended(out).phase = "stopped"
          /\ Ended(out).sandbox = pair[c].sandbox
      BY <1>c, <1>e
    <2>2. ResourcesInv'
      BY <1>e, <2>1, PairChangeKeepsInv DEF ActivePhases
    <2> QED
      BY <1>a, <1>d, <1>e, <2>1, <2>2
  <1>1. ASSUME NEW s \in Sandboxes, NEW p \in Specs, BeginContainerCreate(o, c, s, p)
        PROVE  SafetyInv'
    <2> DEFINE b == ContainerCreate(c, s, p)
               r == [phase |-> "creating", sandbox |-> s, spec |-> p,
                     outcome |-> "pending", owner |-> None]
    <2>0. b \in Bindings /\ b.target = c /\ b.type = "create"
      BY RequestsTyped DEF ContainerCreate, Binding
    <2>1. CASE PutNewTerminal(o, b, "succeeded", "noop") /\ UNCHANGED <<sandbox, pair>>
      BY <1>1, <1>b, <2>0, <2>1, OpenStep DEF BeginContainerCreate, SafetyInv, Results
    <2>2. CASE /\ pair[c].phase = "absent" /\ sandbox[s].phase = "ready"
               /\ ActivePairsOf(s) = {} /\ PutNewActive(o, b)
               /\ sandbox' = [sandbox EXCEPT ![s].current = c]
               /\ pair' = [pair EXCEPT ![c] = r]
      <3>1. r \in StoredPair /\ r.phase = "creating" /\ r.sandbox = s
        BY DEF StoredPair, AttemptPhases, Outcomes
      <3> HIDE DEF r
      <3>2. ResourcesInv'
        BY <2>2, <3>1, NewPairKeepsInv
      <3>3. SameElsewhere(c) /\ pair'[c].phase = "creating"
        <4>1. sandbox[s] \in StoredSandbox
          BY <2>2, StoredRecords DEF TypeOK
        <4>2. \A u \in Sandboxes : sandbox'[u].phase = sandbox[u].phase
          BY <2>2, <4>1 DEF TypeOK, StoredSandbox
        <4> QED
          BY <2>2, <3>1, <4>2 DEF SameElsewhere, TypeOK
      <3>4. OperationsInv'
        BY <1>1, <2>0, <2>2, <3>3, OpenStep DEF BeginContainerCreate, ExpectedPhases
      <3> QED
        BY <3>2, <3>4 DEF SafetyInv
    <2> QED
      BY <1>1, <2>1, <2>2 DEF BeginContainerCreate
  <1>2. CASE ConfirmContainerCreate(o, c)
    <2>1. pair' = [pair EXCEPT ![c] = Owned("created")] /\ UNCHANGED sandbox
      BY <1>2 DEF ConfirmContainerCreate, Owned
    <2>2. Owned("created") \in StoredPair /\ Owned("created").phase = "created"
      BY <1>2, <1>c DEF ConfirmContainerCreate, AttemptPhases
    <2>3. ResourcesInv'
      BY <1>2, <1>c, <2>1, <2>2, PairChangeKeepsInv
         DEF ConfirmContainerCreate, ActivePhases, AttemptPhases
    <2>4. OperationsInv'
      BY <1>2, <1>a, <1>d, <2>1, <2>2, CloseStep DEF ConfirmContainerCreate, Types
    <2> QED
      BY <2>3, <2>4 DEF SafetyInv
  <1>3. CASE FailContainerCreateAfterRollback(o, c)
    <2>1. pair' = [pair EXCEPT ![c] = Ended("not_applicable")] /\ UNCHANGED sandbox
      BY <1>3 DEF FailContainerCreateAfterRollback, Ended
    <2>2. ResourcesInv' /\ SameElsewhere(c) /\ pair'[c].phase = "stopped"
      BY <1>3, <1>e, <2>1 DEF FailContainerCreateAfterRollback, Outcomes
    <2>3. OperationsInv'
      BY <1>3, <2>2, CloseStep DEF FailContainerCreateAfterRollback, Types
    <2> QED
      BY <2>2, <2>3 DEF SafetyInv
  <1>4. CASE BeginContainerStart(o, c)
    <2> DEFINE b == Binding("start", c, NoInput)
    <2>0. b \in Bindings /\ b.target = c /\ b.type = "start"
      BY RequestsTyped DEF Binding, Types
    <2>1. UNCHANGED <<sandbox, pair>>
      BY <1>4 DEF BeginContainerStart
    <2>2. OperationsInv'
      BY <1>4, <1>b, <2>0, <2>1, OpenStep DEF BeginContainerStart, ExpectedPhases, Results
    <2> QED
      BY <1>b, <2>1, <2>2 DEF SafetyInv
  <1>5. CASE ConfirmContainerStart(o, c)
    <2>1. pair' = [pair EXCEPT ![c] = Moved("running")] /\ UNCHANGED sandbox
      BY <1>5 DEF ConfirmContainerStart, Moved
    <2>2. Moved("running") \in StoredPair /\ Moved("running").phase = "running"
      BY <1>5, <1>c DEF ConfirmContainerStart, AttemptPhases
    <2>3. ResourcesInv'
      BY <1>5, <1>c, <2>1, <2>2, PairChangeKeepsInv
         DEF ConfirmContainerStart, ActivePhases, AttemptPhases
    <2>4. OperationsInv'
      BY <1>5, <1>a, <1>d, <2>1, <2>2, CloseStep DEF ConfirmContainerStart, Types
    <2> QED
      BY <2>3, <2>4 DEF SafetyInv
  <1>6. ASSUME NEW out \in TerminalOutcomes \cup {"not_applicable"}, NEW failed \in BOOLEAN,
               RecordContainerStartTerminal(o, c, out, failed)
        PROVE  SafetyInv'
    <2>1. pair' = [pair EXCEPT ![c] = Ended(out)] /\ UNCHANGED sandbox
      BY <1>6 DEF RecordContainerStartTerminal, Ended
    <2>2. ResourcesInv' /\ SameElsewhere(c) /\ pair'[c].phase = "stopped"
      BY <1>6, <1>e, <2>1 DEF RecordContainerStartTerminal, Outcomes, TerminalOutcomes
    <2>3. OperationsInv'
      BY <1>6, <2>2, CloseStep DEF RecordContainerStartTerminal, Types
    <2> QED
      BY <2>2, <2>3 DEF SafetyInv
  <1>7. CASE BeginContainerDelete(o, c)
    <2> DEFINE b == Binding("delete", c, NoInput)
    <2>0. b \in Bindings /\ b.target = c /\ b.type = "delete"
      BY RequestsTyped DEF Binding, Types
    <2>1. /\ ResourcesInv' /\ SameElsewhere(c)
          /\ pair'[c].phase \in ExpectedPhases("delete")
      <3>1. CASE pair[c].phase \in {"absent", "stopped"} /\ UNCHANGED pair
        BY <1>7, <1>b, <3>1 DEF BeginContainerDelete, ExpectedPhases
      <3>2. CASE /\ pair[c].phase = "created"
                 /\ pair' = [pair EXCEPT ![c] = Ended("not_applicable")]
        <4>1. UNCHANGED sandbox
          BY <1>7 DEF BeginContainerDelete
        <4>2. ResourcesInv' /\ SameElsewhere(c) /\ pair'[c].phase = "stopped"
          BY <1>e, <3>2, <4>1 DEF Outcomes
        <4> QED
          BY <4>2 DEF ExpectedPhases
      <3> QED
        BY <1>7, <3>1, <3>2 DEF BeginContainerDelete, Ended
    <2>2. OperationsInv'
      BY <1>7, <2>0, <2>1, OpenStep DEF BeginContainerDelete
    <2> QED
      BY <2>1, <2>2 DEF SafetyInv
  <1>8. CASE ConfirmContainerDelete(o, c)
    <2>1. CASE /\ pair[c].phase = "absent" /\ Finish(o, "succeeded", "noop")
               /\ UNCHANGED <<sandbox, pair>>
      BY <1>8, <1>b, <2>1, CloseStep DEF ConfirmContainerDelete, SafetyInv, Types
    <2>2. CASE /\ pair[c].phase = "stopped" /\ Complete(o)
               /\ sandbox' = [sandbox EXCEPT ![pair[c].sandbox].current =
                                 IF @ = c THEN None ELSE @]
               /\ pair' = [pair EXCEPT ![c] = NoPair]
      <3>1. ResourcesInv'
        BY <2>2, DeletePairKeepsInv
      <3>2. \A u \in Sandboxes : sandbox'[u].phase = sandbox[u].phase
        <4>1. \A u \in Sandboxes : sandbox[u] \in SandboxRecord
          BY DEF TypeOK
        <4>2. \A x \in SandboxRecord : \A v : [x EXCEPT !.current = v].phase = x.phase
          BY DEF SandboxRecord, NoSandbox, StoredSandbox
        <4> QED
          BY <2>2, <4>1, <4>2 DEF TypeOK
      <3>3. SameElsewhere(c) /\ pair'[c].phase = "absent"
        BY <2>2, <3>2 DEF SameElsewhere, TypeOK, NoPair
      <3>4. OperationsInv'
        BY <1>8, <2>2, <3>3, CloseStep DEF ConfirmContainerDelete, Types
      <3> QED
        BY <3>1, <3>4 DEF SafetyInv
    <2> QED
      BY <1>8, <2>1, <2>2 DEF ConfirmContainerDelete
  <1>9. ASSUME NEW out \in TerminalOutcomes, BeginRecordStopped(o, c, out)  PROVE SafetyInv'
    <2> DEFINE b == StopObserved(c, out)
    <2>0. b \in Bindings /\ b.target = c /\ b.type = "stop"
      BY RequestsTyped DEF StopObserved, Binding
    <2>1. UNCHANGED <<sandbox, pair>> /\ pair[c].phase \in ExpectedPhases("stop")
      BY <1>9 DEF BeginRecordStopped, ExpectedPhases
    <2>2. OperationsInv'
      BY <1>9, <1>b, <2>0, <2>1, OpenStep DEF BeginRecordStopped
    <2> QED
      BY <1>b, <2>1, <2>2 DEF SafetyInv
  <1>10. CASE RecordStopped(o, c)
    <2>1. pair' = [pair EXCEPT ![c] = Ended(op[o].fp.outcome)] /\ UNCHANGED sandbox
      BY <1>10 DEF RecordStopped, Ended
    <2>2. op[o].fp.outcome \in Outcomes
      BY <1>10, StoredRecords
         DEF RecordStopped, ResolveResume, Active, TypeOK, StoredOperation, Fingerprints,
             Outcomes, TerminalOutcomes
    <2>3. ResourcesInv' /\ SameElsewhere(c) /\ pair'[c].phase = "stopped"
      BY <1>10, <1>e, <2>1, <2>2 DEF RecordStopped
    <2>4. OperationsInv'
      BY <1>10, <2>3, CloseStep DEF RecordStopped, Types
    <2> QED
      BY <2>3, <2>4 DEF SafetyInv
  <1>11. CASE PlanKill(o, c)
    <2> DEFINE b == Binding("kill", c, NoInput)
    <2>0. b \in Bindings /\ b.target = c /\ b.type = "kill"
      BY RequestsTyped DEF Binding, Types
    <2>1. UNCHANGED <<sandbox, pair>>
      BY <1>11 DEF PlanKill
    <2>2. OperationsInv'
      BY <1>11, <1>b, <2>0, <2>1, OpenStep DEF PlanKill, ExpectedPhases, Results
    <2> QED
      BY <1>b, <2>1, <2>2 DEF SafetyInv
  <1>12. ASSUME NEW out \in TerminalOutcomes, RecordKillStopped(o, c, out)  PROVE SafetyInv'
    <2>1. pair' = [pair EXCEPT ![c] = Ended(out)] /\ UNCHANGED sandbox
      BY <1>12 DEF RecordKillStopped, Ended
    <2>2. ResourcesInv' /\ SameElsewhere(c) /\ pair'[c].phase = "stopped"
      BY <1>12, <1>e, <2>1 DEF RecordKillStopped, Outcomes, TerminalOutcomes
    <2>3. OperationsInv'
      BY <1>12, <2>2, CloseStep DEF RecordKillStopped, Types
    <2> QED
      BY <2>2, <2>3 DEF SafetyInv
  <1> QED
    BY <1>1, <1>2, <1>3, <1>4, <1>5, <1>6, <1>7, <1>8, <1>9, <1>10, <1>11, <1>12
       DEF ContainerNext

\* A conflict, a checkpoint or the failure of an operation moves no phase.  The
\* failure relies on ActiveOperationFits: the target of a start or a kill is in
\* a settled phase.
LEMMA OperationStepSafe ==
    ASSUME SafetyInv, NEW o \in Ops, OperationNext(o)
    PROVE  SafetyInv'
  <1> TypeOK /\ TypeOK' /\ OperationsInv /\ ResourcesInv
    BY OperationStepTyped DEF SafetyInv
  <1>0. UNCHANGED <<sandbox, pair>>
    BY CheckpointKinds
       DEF OperationNext, PersistOperationConflict, CheckpointOperation, FailActiveOperation
  <1>1. ResourcesInv'
    BY <1>0 DEF ResourcesInv, ActiveAttemptExclusive, ReferencesIntact, PairsOf
  <1>2. ASSUME NEW b \in Requests, PersistOperationConflict(o, b)  PROVE OperationsInv'
    BY <1>0, <1>2, RequestsTyped, UpdateShapes, TerminalAtOnce, SameActiveKeepsInv
       DEF PersistOperationConflict, Results
  <1>3. ASSUME NEW stage \in Stages, NEW j \in Journals, CheckpointOperation(o, stage, j)
        PROVE  OperationsInv'
    <2>1. op[o] \in StoredOperation
      BY <1>3, StoredRecords DEF TypeOK, CheckpointOperation, Active
    <2>2. op' = [op EXCEPT ![o] = [op[o] EXCEPT !.stage = stage, !.journal = j]]
      BY <1>3 DEF CheckpointOperation
    <2>3. SameActive
      BY <2>1, <2>2 DEF TypeOK, SameActive, Active, StoredOperation
    <2> QED
      BY <1>0, <2>3, SameActiveKeepsInv
  <1>4. ASSUME FailActiveOperation(o)  PROVE OperationsInv'
    <2>1. PICK t \in Targets : op[o].target = t
      BY <1>4, ActiveTyped DEF FailActiveOperation
    <2>2. Active(o) /\ Ends(o)
      BY <1>4, UpdateShapes DEF FailActiveOperation
    <2>3. PhaseOf(t) \in {"created", "running"}
      BY <1>4, <2>1 DEF FailActiveOperation, OperationsInv, ActiveOperationFits, ExpectedPhases
    <2>4. PhaseOf(t)' = PhaseOf(t)
      BY <1>0 DEF PhaseOf
    <2>5. SameElsewhere(t)
      BY <1>0 DEF SameElsewhere
    <2> QED
      BY <2>1, <2>2, <2>3, <2>4, <2>5, EndsKeepsInv
  <1> QED
    BY <1>1, <1>2, <1>3, <1>4, CheckpointKinds DEF OperationNext, SafetyInv

\* Every transaction of the Coordinator keeps the inductive invariant.
LEMMA StepSafe == SafetyInv /\ [Next]_vars => SafetyInv'
  <1>1. ASSUME SafetyInv, Next  PROVE SafetyInv'
    BY <1>1, SandboxStepSafe, ContainerStepSafe, OperationStepSafe DEF Next
  <1>2. ASSUME SafetyInv, UNCHANGED vars  PROVE SafetyInv'
    BY <1>2 DEF SafetyInv, TypeOK, OperationsInv, OneActiveOperation, ActiveOperationFits,
                NoStrandedPhase, ResourcesInv, ActiveAttemptExclusive, ReferencesIntact,
                Active, PhaseOf, PairsOf, vars
  <1> QED
    BY <1>1, <1>2

\* The empty store satisfies the inductive invariant.
LEMMA InitSafe == Init => SafetyInv
  <1> SUFFICES ASSUME Init PROVE SafetyInv
    OBVIOUS
  <1>1. TypeOK
    BY DEF Init, TypeOK, SandboxRecord, PairRecord, OperationRecord
  <1>2. \A o \in Ops : ~Active(o)
    BY DEF Init, Active, NoOperation
  <1>3. OperationsInv
    BY <1>2 DEF Init, OperationsInv, OneActiveOperation, ActiveOperationFits, NoStrandedPhase,
                NoSandbox, NoPair
  <1>4. ResourcesInv
    BY DEF Init, ResourcesInv, ActiveAttemptExclusive, ReferencesIntact, ActivePhases,
           NoSandbox, NoPair
  <1> QED
    BY <1>1, <1>3, <1>4 DEF SafetyInv

\* The inductive invariant holds in every state the Coordinator can reach.
LEMMA Safe == Spec => []SafetyInv
  BY InitSafe, StepSafe, PTL DEF Spec

\* At most one Attempt of a Sandbox is active, and only in a Ready Sandbox that
\* names it as current, although BeginSandboxStop and BeginContainerCreate hold
\* locks of different targets.
THEOREM AttemptExclusive == Spec => []ActiveAttemptExclusive
  <1>1. SafetyInv => ActiveAttemptExclusive
    BY DEF SafetyInv, ResourcesInv
  <1> QED
    BY <1>1, Safe, PTL

\* No mix of clients, watchers and recovery has two operations active on one
\* target (resolveOperation).
THEOREM OperationExclusive == Spec => []OneActiveOperation
  <1>1. SafetyInv => OneActiveOperation
    BY DEF SafetyInv, OperationsInv
  <1> QED
    BY <1>1, Safe, PTL

\* A Sandbox or Attempt in creating or stopping always has the operation that
\* will move it on; FailActiveOperation never orphans one.
THEOREM NothingStranded == Spec => []NoStrandedPhase
  <1>1. SafetyInv => NoStrandedPhase
    BY DEF SafetyInv, OperationsInv
  <1> QED
    BY <1>1, Safe, PTL

\* The phase test of every Confirm and Record method finds the phase its Begin
\* method left behind.
THEOREM ConfirmationsFit == Spec => []ActiveOperationFits
  <1>1. SafetyInv => ActiveOperationFits
    BY DEF SafetyInv, OperationsInv
  <1> QED
    BY <1>1, Safe, PTL

\* The removal of a Sandbox, of a pair or of a rolled-back create leaves no
\* reference to a record that is gone.
THEOREM ReferencesHold == Spec => []ReferencesIntact
  <1>1. SafetyInv => ReferencesIntact
    BY DEF SafetyInv, ResourcesInv
  <1> QED
    BY <1>1, Safe, PTL

\* No transaction but the confirmation of its delete changes a stopped
\* Attempt: late observations find it stopped and are refused.
THEOREM HistoryKept == Spec => HistoryImmutable
  <1>1. ASSUME TypeOK, [Next]_vars, NEW c \in Containers, pair[c].phase = "stopped"
        PROVE  pair'[c] \in {pair[c], NoPair}
    <2>1. CASE UNCHANGED vars
      BY <2>1 DEF vars
    <2>2. ASSUME NEW o \in Ops, NEW s \in Sandboxes, SandboxNext(o, s)  PROVE pair' = pair
      BY <2>2 DEF SandboxNext, BeginSandboxCreate, ConfirmSandboxCreate,
                  FailSandboxCreateAfterRollback, BeginSandboxStop, ConfirmSandboxStop,
                  BeginSandboxRemove, ConfirmSandboxRemove
    <2>3. ASSUME NEW o \in Ops, OperationNext(o)  PROVE pair' = pair
      BY <1>1, <2>3, CheckpointKinds
         DEF OperationNext, PersistOperationConflict, CheckpointOperation, FailActiveOperation
    <2>4. ASSUME NEW o \in Ops, NEW d \in Containers, ContainerNext(o, d)
          PROVE  \/ pair' = pair
                 \/ /\ pair' = [pair EXCEPT ![d] = pair'[d]]
                    /\ pair[d].phase # "stopped" \/ pair'[d] = NoPair
      BY <1>1, <2>4
         DEF ContainerNext, BeginContainerCreate, ConfirmContainerCreate,
             FailContainerCreateAfterRollback, BeginContainerStart, ConfirmContainerStart,
             RecordContainerStartTerminal, BeginContainerDelete, ConfirmContainerDelete,
             BeginRecordStopped, RecordStopped, PlanKill, RecordKillStopped, TypeOK
    <2> QED
      BY <1>1, <2>1, <2>2, <2>3, <2>4 DEF Next, TypeOK
  <1>2. TypeOK /\ [Next]_vars => [\A c \in Containers :
            pair[c].phase = "stopped" => pair'[c] \in {pair[c], NoPair}]_vars
    BY <1>1
  <1> QED
    BY <1>2, TypeCorrect, PTL DEF Spec, HistoryImmutable

\* A step writes the record of one ID: a new one, or an active one whose
\* binding it keeps.
Writes(o) ==
    /\ Others(o)
    /\ \/ op[o].state = "unused"
       \/ /\ Active(o)
          /\ <<op'[o].type, op'[o].target, op'[o].fp>> = <<op[o].type, op[o].target, op[o].fp>>

\* Every transaction leaves a record alone, opens an unused ID, or rewrites an
\* active one under the binding it has.
LEMMA WriteShapes ==
    ASSUME TypeOK, NEW o \in Ops
    PROVE  /\ \A b : ResolveNew(o, b) /\ PutNewActive(o, b) => Writes(o)
           /\ \A b, st, r : op[o].state = "unused" /\ PutNewTerminal(o, b, st, r) => Writes(o)
           /\ \A st, r : Active(o) /\ Finish(o, st, r) => Writes(o)
           /\ \A stage, j : CheckpointOperation(o, stage, j) => Writes(o)
  <1>1. \A b : ResolveNew(o, b) /\ PutNewActive(o, b) => Writes(o)
    BY DEF TypeOK, ResolveNew, PutNewActive, Writes, Others
  <1>2. \A b, st, r : op[o].state = "unused" /\ PutNewTerminal(o, b, st, r) => Writes(o)
    BY DEF TypeOK, PutNewTerminal, Writes, Others
  <1>3. Active(o) => op[o] \in StoredOperation
    BY StoredRecords DEF TypeOK, Active
  <1>4. \A st, r : Active(o) /\ Finish(o, st, r) => Writes(o)
    <2> SUFFICES ASSUME NEW st, NEW r, Active(o), Finish(o, st, r)  PROVE Writes(o)
      OBVIOUS
    <2>1. op' = [op EXCEPT ![o] = [op[o] EXCEPT !.state = st, !.stage = "complete",
                                                !.result = r]]
      BY DEF Finish
    <2> QED
      BY <1>3, <2>1 DEF TypeOK, StoredOperation, Writes, Others
  <1>5. \A stage, j : CheckpointOperation(o, stage, j) => Writes(o)
    <2> SUFFICES ASSUME NEW stage, NEW j, CheckpointOperation(o, stage, j)  PROVE Writes(o)
      OBVIOUS
    <2>1. op' = [op EXCEPT ![o] = [op[o] EXCEPT !.stage = stage, !.journal = j]] /\ Active(o)
      BY DEF CheckpointOperation
    <2> QED
      BY <1>3, <2>1 DEF TypeOK, StoredOperation, Writes, Others
  <1> QED
    BY <1>1, <1>2, <1>4, <1>5

\* A terminal operation is never rewritten and an ID is never rebound, so a
\* replay returns the answer that was recorded first.
THEOREM AnswersKept == Spec => OperationsFinal
  <1>1. ASSUME TypeOK, NEW o \in Ops, NEW s \in Sandboxes, SandboxNext(o, s)  PROVE Writes(o)
    BY <1>1, WriteShapes
       DEF SandboxNext, BeginSandboxCreate, ConfirmSandboxCreate,
           FailSandboxCreateAfterRollback, BeginSandboxStop, ConfirmSandboxStop,
           BeginSandboxRemove, ConfirmSandboxRemove, ResolveNew, ResolveResume,
           Complete, FailOperation
  <1>2. ASSUME TypeOK, NEW o \in Ops, NEW c \in Containers, ContainerNext(o, c)  PROVE Writes(o)
    BY <1>2, WriteShapes
       DEF ContainerNext, BeginContainerCreate, ConfirmContainerCreate,
           FailContainerCreateAfterRollback, BeginContainerStart, ConfirmContainerStart,
           RecordContainerStartTerminal, BeginContainerDelete, ConfirmContainerDelete,
           BeginRecordStopped, RecordStopped, PlanKill, RecordKillStopped, ResolveNew,
           ResolveResume, Complete, FailOperation
  <1>3. ASSUME TypeOK, NEW o \in Ops, OperationNext(o)  PROVE Writes(o)
    BY <1>3, WriteShapes, CheckpointKinds
       DEF OperationNext, PersistOperationConflict, FailActiveOperation, FailOperation
  <1>4. ASSUME TypeOK, Next
        PROVE  \A o \in Ops :
                  /\ Terminal(o) => op'[o] = op[o]
                  /\ op[o].state # "unused" =>
                        <<op'[o].type, op'[o].target, op'[o].fp>> =
                        <<op[o].type, op[o].target, op[o].fp>>
    <2>1. PICK p \in Ops : Writes(p)
      BY <1>1, <1>2, <1>3, <1>4 DEF Next
    <2> QED
      BY <2>1 DEF Writes, Others, Terminal, Active
  <1> QED
    BY <1>4, TypeCorrect, PTL DEF Spec, OperationsFinal

\* A binding of a terminal observation names what was observed.
Fits(b) == b.type = "stop" /\ b.target \in Containers => b.fp.outcome \in TerminalOutcomes

\* The operation that records the end of an Attempt carries its outcome, from
\* BeginRecordStopped through every checkpoint and resumption.
OutcomesNamed == \A o \in Ops : Fits(op[o])

\* A step writes one record, and keeps its binding or gives it one that fits.
Observes(o) ==
    /\ Others(o)
    /\ \/ <<op'[o].type, op'[o].target, op'[o].fp>> = <<op[o].type, op[o].target, op[o].fp>>
       \/ Fits(op'[o])

\* Only a terminal observation stops a Container.
LEMMA RequestsFit == \A b \in Requests : Fits(b)
  <1>1. \A c \in Containers, outcome \in TerminalOutcomes : Fits(StopObserved(c, outcome))
    BY DEF Fits, StopObserved, Binding, NoInput
  <1>2. \A type, s, f : s \in Sandboxes => Fits(Binding(type, s, f))
    BY DistinctIDs DEF Fits, Binding
  <1>3. \A type, c, f : type # "stop" => Fits(Binding(type, c, f))
    BY DEF Fits, Binding
  <1>4. /\ \A s, q : s \in Sandboxes => Fits(SandboxCreate(s, q))
        /\ \A c, s, q : Fits(ContainerCreate(c, s, q))
    BY <1>2, <1>3 DEF SandboxCreate, ContainerCreate
  <1> QED
    BY <1>1, <1>2, <1>3, <1>4 DEF Requests

\* Which transactions observe an operation.
LEMMA ObservedShapes ==
    ASSUME TypeOK, NEW o \in Ops
    PROVE  /\ \A b \in Requests : PutNewActive(o, b) => Observes(o)
           /\ \A b \in Requests : \A st, r : PutNewTerminal(o, b, st, r) => Observes(o)
           /\ \A st, r : Active(o) /\ Finish(o, st, r) => Observes(o)
           /\ \A stage, j : CheckpointOperation(o, stage, j) => Observes(o)
  <1>1. \A b \in Requests : PutNewActive(o, b) => Observes(o)
    BY RequestsFit DEF TypeOK, PutNewActive, Observes, Others, Fits
  <1>2. \A b \in Requests : \A st, r : PutNewTerminal(o, b, st, r) => Observes(o)
    BY RequestsFit DEF TypeOK, PutNewTerminal, Observes, Others, Fits
  <1>3. Active(o) => op[o] \in StoredOperation
    BY StoredRecords DEF TypeOK, Active
  <1>4. \A st, r : Active(o) /\ Finish(o, st, r) => Observes(o)
    <2> SUFFICES ASSUME NEW st, NEW r, Active(o), Finish(o, st, r)  PROVE Observes(o)
      OBVIOUS
    <2>1. op' = [op EXCEPT ![o] = [op[o] EXCEPT !.state = st, !.stage = "complete",
                                                !.result = r]]
      BY DEF Finish
    <2> QED
      BY <1>3, <2>1 DEF TypeOK, StoredOperation, Observes, Others
  <1>5. \A stage, j : CheckpointOperation(o, stage, j) => Observes(o)
    <2> SUFFICES ASSUME NEW stage, NEW j, CheckpointOperation(o, stage, j)  PROVE Observes(o)
      OBVIOUS
    <2>1. op' = [op EXCEPT ![o] = [op[o] EXCEPT !.stage = stage, !.journal = j]] /\ Active(o)
      BY DEF CheckpointOperation
    <2> QED
      BY <1>3, <2>1 DEF TypeOK, StoredOperation, Observes, Others
  <1> QED
    BY <1>1, <1>2, <1>4, <1>5

\* Every transaction keeps what an observation has recorded of its outcome.
LEMMA StepObserves ==
    ASSUME TypeOK, Next
    PROVE  \E o \in Ops : Observes(o)
  <1>1. ASSUME NEW o \in Ops, NEW s \in Sandboxes, SandboxNext(o, s)  PROVE Observes(o)
    <2>1. /\ \A p \in Specs : SandboxCreate(s, p) \in Requests
          /\ Binding("stop", s, NoInput) \in Requests /\ Binding("delete", s, NoInput) \in Requests
      BY DEF Requests
    <2> QED
      BY <1>1, <2>1, ObservedShapes
         DEF SandboxNext, BeginSandboxCreate, ConfirmSandboxCreate,
             FailSandboxCreateAfterRollback, BeginSandboxStop, ConfirmSandboxStop,
             BeginSandboxRemove, ConfirmSandboxRemove, ResolveResume, Complete, FailOperation
  <1>2. ASSUME NEW o \in Ops, NEW c \in Containers, ContainerNext(o, c)  PROVE Observes(o)
    <2>1. /\ \A s \in Sandboxes, p \in Specs : ContainerCreate(c, s, p) \in Requests
          /\ \A type \in {"start", "kill", "delete"} : Binding(type, c, NoInput) \in Requests
          /\ \A outcome \in TerminalOutcomes : StopObserved(c, outcome) \in Requests
      BY DEF Requests
    <2> QED
      BY <1>2, <2>1, ObservedShapes
         DEF ContainerNext, BeginContainerCreate, ConfirmContainerCreate,
             FailContainerCreateAfterRollback, BeginContainerStart, ConfirmContainerStart,
             RecordContainerStartTerminal, BeginContainerDelete, ConfirmContainerDelete,
             BeginRecordStopped, RecordStopped, PlanKill, RecordKillStopped,
             ResolveResume, Complete, FailOperation
  <1>3. ASSUME NEW o \in Ops, OperationNext(o)  PROVE Observes(o)
    BY <1>3, ObservedShapes, CheckpointKinds
       DEF OperationNext, PersistOperationConflict, FailActiveOperation, FailOperation
  <1> QED
    BY <1>1, <1>2, <1>3 DEF Next

\* In every state, an operation that stops a Container has an outcome.
LEMMA OutcomesAreNamed == Spec => []OutcomesNamed
  <1>1. Init => OutcomesNamed
    BY DEF Init, OutcomesNamed, Fits, NoOperation
  <1>2. TypeOK /\ OutcomesNamed /\ [Next]_vars => OutcomesNamed'
    <2> SUFFICES ASSUME TypeOK, OutcomesNamed, [Next]_vars  PROVE OutcomesNamed'
      OBVIOUS
    <2>1. CASE Next
      <3>1. PICK o \in Ops : Observes(o)
        BY <2>1, StepObserves
      <3> QED
        BY <3>1 DEF OutcomesNamed, Observes, Others, Fits
    <2>2. CASE UNCHANGED vars
      BY <2>2 DEF OutcomesNamed, Fits, vars
    <2> QED
      BY <2>1, <2>2
  <1> QED
    BY <1>1, <1>2, TypeCorrect, PTL DEF Spec

\* A workload that is recorded as Running is next recorded as ended, with the
\* outcome that was captured or with an unknown one, and never as one that did
\* not run (ConfirmContainerStart to RecordStopped and RecordKillStopped).
THEOREM OutcomesKept == Spec => OutcomesTruthful
  <1> DEFINE Over(c) == \/ pair'[c] = pair[c]
                        \/ pair'[c].phase = "stopped" /\ pair'[c].outcome \in TerminalOutcomes
  <1>1. ASSUME TypeOK, OutcomesNamed, [Next]_vars, NEW c \in Containers, pair[c].phase = "running"
        PROVE  Over(c)
    <2>1. CASE UNCHANGED vars
      BY <2>1 DEF vars
    <2>2. ASSUME NEW o \in Ops, NEW s \in Sandboxes, SandboxNext(o, s)  PROVE pair' = pair
      BY <2>2 DEF SandboxNext, BeginSandboxCreate, ConfirmSandboxCreate,
                  FailSandboxCreateAfterRollback, BeginSandboxStop, ConfirmSandboxStop,
                  BeginSandboxRemove, ConfirmSandboxRemove
    <2>3. ASSUME NEW o \in Ops, OperationNext(o)  PROVE pair' = pair
      BY <1>1, <2>3, CheckpointKinds
         DEF OperationNext, PersistOperationConflict, CheckpointOperation, FailActiveOperation
    <2>4. ASSUME NEW o \in Ops, NEW d \in Containers, ContainerNext(o, d)
          PROVE  \/ pair' = pair
                 \/ /\ pair' = [pair EXCEPT ![d] = pair'[d]]
                    /\ \/ pair[d].phase # "running"
                       \/ pair'[d].phase = "stopped" /\ pair'[d].outcome \in TerminalOutcomes
      <3>1. CASE RecordStopped(o, d)
        <4>1. op[o].fp.outcome \in TerminalOutcomes
          BY <1>1, <3>1 DEF OutcomesNamed, Fits, RecordStopped, ResolveResume
        <4>2. pair[d] \in StoredPair /\ pair' = [pair EXCEPT ![d] =
                [pair[d] EXCEPT !.phase = "stopped", !.outcome = op[o].fp.outcome]]
          BY <1>1, <3>1, StoredRecords DEF RecordStopped, TypeOK
        <4> QED
          BY <1>1, <4>1, <4>2 DEF TypeOK, StoredPair
      <3>2. CASE \E outcome \in TerminalOutcomes : RecordKillStopped(o, d, outcome)
        <4>1. PICK outcome \in TerminalOutcomes : RecordKillStopped(o, d, outcome)
          BY <3>2
        <4>2. pair[d] \in StoredPair /\ pair' = [pair EXCEPT ![d] =
                [pair[d] EXCEPT !.phase = "stopped", !.outcome = outcome]]
          BY <1>1, <4>1, StoredRecords DEF RecordKillStopped, TypeOK
        <4> QED
          BY <1>1, <4>2 DEF TypeOK, StoredPair
      <3>3. CASE ~RecordStopped(o, d) /\ ~\E outcome \in TerminalOutcomes : RecordKillStopped(o, d, outcome)
        BY <1>1, <2>4, <3>3
           DEF ContainerNext, BeginContainerCreate, ConfirmContainerCreate,
               FailContainerCreateAfterRollback, BeginContainerStart, ConfirmContainerStart,
               RecordContainerStartTerminal, BeginContainerDelete, ConfirmContainerDelete,
               BeginRecordStopped, PlanKill, TypeOK
      <3> QED
        BY <3>1, <3>2, <3>3
    <2> QED
      BY <1>1, <2>1, <2>2, <2>3, <2>4 DEF Next, TypeOK
  <1>2. TypeOK /\ OutcomesNamed /\ [Next]_vars => [\A c \in Containers :
            pair[c].phase = "running" => Over(c)]_vars
    BY <1>1
  <1> QED
    BY <1>2, TypeCorrect, OutcomesAreNamed, PTL DEF Spec, OutcomesTruthful

\* The graph of Sandboxes and pairs: exclusion of active Attempts, and whole
\* references, in every state the Coordinator's transactions can leave.
THEOREM GraphKept == Spec => []GraphConsistent
  BY AttemptExclusive, ReferencesHold, PTL DEF GraphConsistent

\* The intents: exclusive on their target, fit for their confirmation, and there
\* for every transitional phase, whichever of clients, watchers and recovery
\* opened or failed them.
THEOREM IntentsKept == Spec => []IntentsConsistent
  BY OperationExclusive, ConfirmationsFit, NothingStranded, PTL DEF IntentsConsistent

\* The answers to operation IDs and the ends of Attempts are final.
THEOREM FinalKept == Spec => RecordsFinal
  BY AnswersKept, HistoryKept DEF RecordsFinal

-----------------------------------------------------------------------------
(* Part 4: host resources.  Every step writes one record; it acquires the     *)
(* inventory of a target that has none, releases the one of a target that has  *)
(* one, or counts for nothing and moves no inventory.                         *)

Acquired(r) == r.type = "create" /\ r.result = "succeeded"
Freed(r) == r.type = "delete" /\ r.result = "succeeded" /\ r.journal = "full"

\* A success is a state as well, and a create that failed holds nothing.
Settled(r) ==
    /\ r.result = "succeeded" => r.state = "succeeded"
    /\ r.type = "create" /\ r.state = "failed" => r.journal \in {"none", "undone"}

\* A record that is not confirmed owns nothing.
OwnsLate ==
    /\ \A s \in Sandboxes : sandbox[s].phase \in {"absent", "creating"} => sandbox[s].owner = None
    /\ \A c \in Containers : pair[c].phase \in {"absent", "creating"} => pair[c].owner = None

\* The books of a target: what was acquired for it is owned or was released.
Books(t) ==
    /\ IsFiniteSet(Created(t)) /\ IsFiniteSet(Released(t))
    /\ OwnerOf(t) # None => OwnerOf(t) \in Created(t)
    /\ Cardinality(Created(t)) = Cardinality(Released(t)) + (IF OwnerOf(t) = None THEN 0 ELSE 1)

AccountInv == OwnsLate /\ (\A o \in Ops : Settled(op[o])) /\ \A t \in Targets : Books(t)

SameOwners == \A t \in Targets : OwnerOf(t)' = OwnerOf(t)

\* A step that counts for nothing; one that acquires; and one that releases.
KeepsBooks(o) ==
    /\ Others(o) /\ Settled(op'[o]) /\ ~Acquired(op[o]) /\ ~Freed(op[o])
    /\ ~Acquired(op'[o]) /\ ~Freed(op'[o])
Takes(o, t) ==
    /\ Others(o) /\ Settled(op'[o]) /\ ~Acquired(op[o]) /\ ~Freed(op[o])
    /\ Acquired(op'[o]) /\ op'[o].target = t
    /\ OwnerOf(t) = None /\ OwnerOf(t)' = o /\ \A u \in Targets \ {t} : OwnerOf(u)' = OwnerOf(u)
Gives(o, t) ==
    /\ Others(o) /\ Settled(op'[o]) /\ ~Acquired(op[o]) /\ ~Freed(op[o])
    /\ Freed(op'[o]) /\ op'[o].target = t
    /\ OwnerOf(t) # None /\ OwnerOf(t)' = None /\ \A u \in Targets \ {t} : OwnerOf(u)' = OwnerOf(u)
Balanced(o) ==
    \/ KeepsBooks(o) /\ SameOwners
    \/ \E t \in Targets : Takes(o, t) \/ Gives(o, t)

\* A balanced step keeps the books.
LEMMA BooksKept ==
    ASSUME AccountInv, DistinctIDs, NEW o \in Ops, Balanced(o), NEW t \in Targets
    PROVE  Books(t)'
  <1> USE DEF Books
  <1>0. Books(t)
    BY DEF AccountInv
  <1>1. CASE /\ \A p \in Ops : Acquired(op'[p]) /\ op'[p].target = t <=> Acquired(op[p]) /\ op[p].target = t
             /\ \A p \in Ops : Freed(op'[p]) /\ op'[p].target = t <=> Freed(op[p]) /\ op[p].target = t
             /\ OwnerOf(t)' = OwnerOf(t)
    <2>1. Created(t)' = Created(t) /\ Released(t)' = Released(t)
      BY <1>1 DEF Created, Released, Acquired, Freed
    <2> QED
      BY <1>0, <1>1, <2>1
  <1>2. CASE KeepsBooks(o) /\ SameOwners
    BY <1>1, <1>2 DEF KeepsBooks, SameOwners, Others
  <1>3. ASSUME NEW u \in Targets, Takes(o, u) PROVE Books(t)'
    <2>1. CASE u # t
      BY <1>1, <1>3, <2>1 DEF Takes, Others, Acquired, Freed
    <2>2. CASE u = t
      <3>1. Created(t)' = Created(t) \cup {o} /\ o \notin Created(t) /\ Released(t)' = Released(t)
        BY <1>3, <2>2 DEF Takes, Others, Acquired, Freed, Created, Released
      <3>2. IsFiniteSet(Created(t)') /\ Cardinality(Created(t)') = Cardinality(Created(t)) + 1
        BY <1>0, <3>1, FS_AddElement
      <3>3. OwnerOf(t) = None /\ OwnerOf(t)' = o /\ o # None
        BY <1>3, <2>2 DEF Takes, DistinctIDs
      <3>4. Cardinality(Released(t)) \in Nat
        BY <1>0, FS_CardinalityType
      <3> QED
        BY <1>0, <3>1, <3>2, <3>3, <3>4
    <2> QED
      BY <2>1, <2>2
  <1>4. ASSUME NEW u \in Targets, Gives(o, u) PROVE Books(t)'
    <2>1. CASE u # t
      BY <1>1, <1>4, <2>1 DEF Gives, Others, Acquired, Freed
    <2>2. CASE u = t
      <3>1. Released(t)' = Released(t) \cup {o} /\ o \notin Released(t) /\ Created(t)' = Created(t)
        BY <1>4, <2>2 DEF Gives, Others, Acquired, Freed, Created, Released
      <3>2. IsFiniteSet(Released(t)') /\ Cardinality(Released(t)') = Cardinality(Released(t)) + 1
        BY <1>0, <3>1, FS_AddElement
      <3>3. OwnerOf(t) # None /\ OwnerOf(t)' = None
        BY <1>4, <2>2 DEF Gives
      <3>4. Cardinality(Released(t)) \in Nat
        BY <1>0, FS_CardinalityType
      <3> QED
        BY <1>0, <3>1, <3>2, <3>3, <3>4
    <2> QED
      BY <2>1, <2>2
  <1> QED
    BY <1>2, <1>3, <1>4 DEF Balanced

\* A balanced step keeps what every record says of itself.
LEMMA SettledKept ==
    ASSUME AccountInv, NEW o \in Ops, Balanced(o)
    PROVE  \A p \in Ops : Settled(op'[p])
  BY DEF AccountInv, Balanced, KeepsBooks, Takes, Gives, Others, Settled

\* The ways a record is written, and what counts of them.
LEMMA QuietWrites ==
    ASSUME TypeOK, AccountInv, NEW o \in Ops
    PROVE  /\ \A b : op[o].state = "unused" /\ PutNewActive(o, b) => KeepsBooks(o)
           /\ \A b, st : \A r \in {"noop", "conflict"} :
                 op[o].state = "unused" /\ PutNewTerminal(o, b, st, r) => KeepsBooks(o)
           /\ Active(o) /\ Finish(o, "succeeded", "noop") => KeepsBooks(o)
           /\ Active(o) /\ FailOperation(o) /\ (op[o].type = "create" => op[o].journal = "undone") => KeepsBooks(o)
           /\ Active(o) /\ Complete(o) =>
                 /\ Others(o) /\ Settled(op'[o]) /\ ~Acquired(op[o]) /\ ~Freed(op[o])
                 /\ op'[o].type = op[o].type /\ op'[o].target = op[o].target
                 /\ op'[o].journal = op[o].journal /\ op'[o].result = "succeeded"
           /\ \A stage, j : CheckpointOperation(o, stage, j) => KeepsBooks(o)
  <1>1. op[o].state \in {"unused", "running"} => ~Acquired(op[o]) /\ ~Freed(op[o])
    BY DEF AccountInv, Settled, Acquired, Freed
  <1>2. \A b : op[o].state = "unused" /\ PutNewActive(o, b) => KeepsBooks(o)
    BY <1>1 DEF TypeOK, PutNewActive, KeepsBooks, Others, Settled, Acquired, Freed
  <1>3. \A b, st : \A r \in {"noop", "conflict"} :
            op[o].state = "unused" /\ PutNewTerminal(o, b, st, r) => KeepsBooks(o)
    BY <1>1 DEF TypeOK, PutNewTerminal, KeepsBooks, Others, Settled, Acquired, Freed
  <1>4. Active(o) => op[o] \in StoredOperation /\ Settled(op[o])
    BY StoredRecords DEF TypeOK, Active, AccountInv
  <1>5. ASSUME NEW st, NEW r, Active(o), Finish(o, st, r)
        PROVE  /\ Others(o) /\ op'[o].state = st /\ op'[o].result = r /\ op'[o].type = op[o].type
               /\ op'[o].target = op[o].target /\ op'[o].journal = op[o].journal
    <2>1. op' = [op EXCEPT ![o] = [op[o] EXCEPT !.state = st, !.stage = "complete", !.result = r]]
      BY <1>5 DEF Finish
    <2> QED
      BY <1>4, <1>5, <2>1 DEF TypeOK, StoredOperation, Others
  <1>6. Active(o) /\ Finish(o, "succeeded", "noop") => KeepsBooks(o)
    BY <1>1, <1>5 DEF Active, KeepsBooks, Settled, Acquired, Freed
  <1>7. Active(o) /\ FailOperation(o) /\ (op[o].type = "create" => op[o].journal = "undone") => KeepsBooks(o)
    BY <1>1, <1>5 DEF FailOperation, Active, KeepsBooks, Settled, Acquired, Freed
  <1>8. Active(o) /\ Complete(o) =>
            /\ Others(o) /\ Settled(op'[o]) /\ ~Acquired(op[o]) /\ ~Freed(op[o])
            /\ op'[o].type = op[o].type /\ op'[o].target = op[o].target
            /\ op'[o].journal = op[o].journal /\ op'[o].result = "succeeded"
    BY <1>1, <1>5 DEF Complete, Active, Settled
  <1>9. \A stage, j : CheckpointOperation(o, stage, j) => KeepsBooks(o)
    <2> SUFFICES ASSUME NEW stage, NEW j, CheckpointOperation(o, stage, j)  PROVE KeepsBooks(o)
      OBVIOUS
    <2>1. op' = [op EXCEPT ![o] = [op[o] EXCEPT !.stage = stage, !.journal = j]] /\ Active(o)
      BY DEF CheckpointOperation
    <2>2. op'[o].state = "running" /\ op'[o].type = op[o].type /\ op'[o].result = op[o].result
      BY <1>4, <2>1 DEF TypeOK, StoredOperation, Active
    <2>3. op[o].result # "succeeded"
      BY <1>4, <2>1 DEF Settled, Active
    <2> QED
      BY <1>1, <2>1, <2>2, <2>3 DEF TypeOK, KeepsBooks, Others, Settled, Acquired, Freed, Active
  <1> QED
    BY <1>2, <1>3, <1>6, <1>7, <1>8, <1>9

\* A record keeps its owner under the updates of its phase and of its pair.
LEMMA OwnersKept ==
    ASSUME TypeOK
    PROVE  /\ UNCHANGED <<sandbox, pair>> => SameOwners
           /\ \A s \in Sandboxes, r \in SandboxRecord :
                 (sandbox' = [sandbox EXCEPT ![s] = r] /\ UNCHANGED pair)
                 => /\ \A t \in Targets \ {s} : OwnerOf(t)' = OwnerOf(t)
                    /\ OwnerOf(s)' = r.owner /\ OwnerOf(s) = sandbox[s].owner
           /\ \A c \in Containers, r \in PairRecord :
                 (pair' = [pair EXCEPT ![c] = r] /\ \A s \in Sandboxes : sandbox'[s].owner = sandbox[s].owner)
                 => /\ \A t \in Targets \ {c} : OwnerOf(t)' = OwnerOf(t)
                    /\ OwnerOf(c)' = r.owner /\ OwnerOf(c) = pair[c].owner
  BY DistinctIDs DEF TypeOK, SameOwners, OwnerOf, Targets

\* The accounting of a step of a Sandbox request.
LEMMA SandboxStepBalanced ==
    ASSUME TypeOK, AccountInv, NEW o \in Ops, NEW s \in Sandboxes, SandboxNext(o, s)
    PROVE  Balanced(o) /\ OwnsLate'
  <1> s \in Targets /\ OwnerOf(s) = sandbox[s].owner
    BY DEF Targets, OwnerOf
  <1>a. UNCHANGED <<sandbox, pair>> => SameOwners /\ OwnsLate'
    BY OwnersKept DEF AccountInv, OwnsLate
  <1>b. sandbox[s].phase # "absent" => sandbox[s] \in StoredSandbox
    BY StoredRecords DEF TypeOK
  <1>c. ASSUME NEW r \in SandboxRecord, sandbox' = [sandbox EXCEPT ![s] = r], UNCHANGED pair,
               r.phase \in {"absent", "creating"} => r.owner = None
        PROVE  /\ OwnsLate' /\ (r.owner = sandbox[s].owner => SameOwners)
               /\ \A t \in Targets \ {s} : OwnerOf(t)' = OwnerOf(t)
               /\ OwnerOf(s)' = r.owner
    BY <1>c, OwnersKept DEF TypeOK, AccountInv, OwnsLate, SameOwners
  <1>d. sandbox[s].phase \in {"absent", "creating"} => sandbox[s].owner = None
    BY DEF AccountInv, OwnsLate
  <1>1. ASSUME NEW p \in Specs, BeginSandboxCreate(o, s, p)  PROVE Balanced(o) /\ OwnsLate'
    <2> DEFINE r == [NoSandbox EXCEPT !.phase = "creating", !.spec = p]
    <2>1. KeepsBooks(o)
      BY <1>1, QuietWrites DEF BeginSandboxCreate, ResolveNew
    <2>2. r \in SandboxRecord /\ r.phase = "creating" /\ r.owner = None
      BY DEF NoSandbox, SandboxRecord, StoredSandbox, SandboxPhases
    <2>3. SameOwners /\ OwnsLate'
      BY <1>1, <1>a, <1>c, <1>d, <2>2 DEF BeginSandboxCreate
    <2> QED
      BY <2>1, <2>3 DEF Balanced
  <1>2. CASE ConfirmSandboxCreate(o, s)
    <2> DEFINE r == [sandbox[s] EXCEPT !.phase = "ready", !.owner = o]
    <2>1. r \in SandboxRecord /\ r.phase = "ready" /\ r.owner = o
      BY <1>2, <1>b DEF ConfirmSandboxCreate, SandboxRecord, StoredSandbox, SandboxPhases
    <2>2. sandbox' = [sandbox EXCEPT ![s] = r] /\ UNCHANGED pair
      BY <1>2 DEF ConfirmSandboxCreate
    <2>3. OwnsLate' /\ (\A t \in Targets \ {s} : OwnerOf(t)' = OwnerOf(t)) /\ OwnerOf(s)' = o
      BY <1>c, <2>1, <2>2
    <2>4. Takes(o, s)
      BY <1>2, <1>d, <2>3, QuietWrites DEF ConfirmSandboxCreate, ResolveResume, Takes, Acquired
    <2> QED
      BY <2>3, <2>4 DEF Balanced
  <1>3. CASE FailSandboxCreateAfterRollback(o, s)
    <2>1. KeepsBooks(o)
      BY <1>3, QuietWrites DEF FailSandboxCreateAfterRollback, ResolveResume
    <2>2. NoSandbox \in SandboxRecord /\ NoSandbox.owner = None
      BY DEF NoSandbox, SandboxRecord
    <2>3. SameOwners /\ OwnsLate'
      BY <1>3, <1>c, <2>2 DEF FailSandboxCreateAfterRollback
    <2> QED
      BY <2>1, <2>3 DEF Balanced
  <1>4. CASE BeginSandboxStop(o, s)
    <2> DEFINE r == [sandbox[s] EXCEPT !.phase = "stopping"]
    <2>1. KeepsBooks(o)
      BY <1>4, QuietWrites DEF BeginSandboxStop, ResolveNew
    <2>2. sandbox[s].phase = "ready" => r \in SandboxRecord /\ r.phase = "stopping" /\ r.owner = sandbox[s].owner
      BY <1>b DEF SandboxRecord, StoredSandbox, SandboxPhases
    <2>3. SameOwners /\ OwnsLate'
      BY <1>4, <1>a, <1>c, <2>2 DEF BeginSandboxStop
    <2> QED
      BY <2>1, <2>3 DEF Balanced
  <1>5. CASE ConfirmSandboxStop(o, s)
    <2> DEFINE r == [sandbox[s] EXCEPT !.phase = "stopped"]
    <2>1. KeepsBooks(o)
      BY <1>5, QuietWrites DEF ConfirmSandboxStop, ResolveResume, KeepsBooks, Acquired, Freed
    <2>2. r \in SandboxRecord /\ r.phase = "stopped" /\ r.owner = sandbox[s].owner
      BY <1>5, <1>b DEF ConfirmSandboxStop, SandboxRecord, StoredSandbox, SandboxPhases
    <2>3. SameOwners /\ OwnsLate'
      BY <1>5, <1>c, <2>2 DEF ConfirmSandboxStop
    <2> QED
      BY <2>1, <2>3 DEF Balanced
  <1>6. CASE BeginSandboxRemove(o, s)
    BY <1>6, <1>a, QuietWrites DEF BeginSandboxRemove, ResolveNew, Balanced
  <1>7. CASE ConfirmSandboxRemove(o, s)
    <2>1. CASE Finish(o, "succeeded", "noop") /\ UNCHANGED <<sandbox, pair>>
      BY <1>7, <1>a, <2>1, QuietWrites DEF ConfirmSandboxRemove, ResolveResume, Balanced
    <2>2. CASE /\ ReleasesCover(o, sandbox[s].owner) /\ Complete(o)
               /\ sandbox' = [sandbox EXCEPT ![s] = NoSandbox] /\ UNCHANGED pair
      <3>1. NoSandbox \in SandboxRecord /\ NoSandbox.owner = None
        BY DEF NoSandbox, SandboxRecord
      <3>2. /\ OwnsLate' /\ (sandbox[s].owner = None => SameOwners)
            /\ (\A t \in Targets \ {s} : OwnerOf(t)' = OwnerOf(t)) /\ OwnerOf(s)' = None
        BY <1>c, <2>2, <3>1
      <3>3. CASE sandbox[s].owner = None
        BY <1>7, <2>2, <3>2, <3>3, QuietWrites
           DEF ConfirmSandboxRemove, ResolveResume, ReleasesCover, Balanced, KeepsBooks, Acquired, Freed
      <3>4. CASE sandbox[s].owner # None
        <4>1. Gives(o, s)
          BY <1>7, <2>2, <3>2, <3>4, QuietWrites
             DEF ConfirmSandboxRemove, ResolveResume, ReleasesCover, Gives, Freed
        <4> QED
          BY <3>2, <4>1 DEF Balanced
      <3> QED
        BY <3>3, <3>4
    <2> QED
      BY <1>7, <2>1, <2>2 DEF ConfirmSandboxRemove
  <1> QED
    BY <1>1, <1>2, <1>3, <1>4, <1>5, <1>6, <1>7 DEF SandboxNext

\* The accounting of a step of a Container request or of a terminal observation.
LEMMA ContainerStepBalanced ==
    ASSUME TypeOK, AccountInv, NEW o \in Ops, NEW c \in Containers, ContainerNext(o, c)
    PROVE  Balanced(o) /\ OwnsLate'
  <1> c \in Targets /\ OwnerOf(c) = pair[c].owner
    BY DistinctIDs DEF Targets, OwnerOf
  <1>a. UNCHANGED <<sandbox, pair>> => SameOwners /\ OwnsLate'
    BY OwnersKept DEF AccountInv, OwnsLate
  <1>b. pair[c].phase # "absent" => pair[c] \in StoredPair
    BY StoredRecords DEF TypeOK
  <1>c. ASSUME NEW r \in PairRecord, pair' = [pair EXCEPT ![c] = r],
               \A s \in Sandboxes : /\ sandbox'[s].owner = sandbox[s].owner
                                    /\ sandbox'[s].phase = sandbox[s].phase,
               r.phase \in {"absent", "creating"} => r.owner = None
        PROVE  /\ OwnsLate' /\ (r.owner = pair[c].owner => SameOwners)
               /\ \A t \in Targets \ {c} : OwnerOf(t)' = OwnerOf(t)
               /\ OwnerOf(c)' = r.owner
    BY <1>c, OwnersKept, ZenonT(60) DEF TypeOK, AccountInv, OwnsLate, SameOwners
  <1>d. pair[c].phase \in {"absent", "creating"} => pair[c].owner = None
    BY DEF AccountInv, OwnsLate
  <1>e. ASSUME NEW s \in Sandboxes, NEW d, sandbox[s] \in StoredSandbox,
               sandbox' = [sandbox EXCEPT ![s].current = d]
        PROVE  \A u \in Sandboxes : sandbox'[u].owner = sandbox[u].owner /\ sandbox'[u].phase = sandbox[u].phase
    BY <1>e DEF TypeOK, StoredSandbox
  <1>f. \A ph \in AttemptPhases \ {"absent"}, out \in Outcomes :
            pair[c].phase # "absent" =>
               LET r == [pair[c] EXCEPT !.phase = ph, !.outcome = out] IN
               r \in PairRecord /\ r.phase = ph /\ r.owner = pair[c].owner
    BY <1>b DEF PairRecord, StoredPair
  <1>1. ASSUME NEW s \in Sandboxes, NEW p \in Specs, BeginContainerCreate(o, c, s, p)
        PROVE  Balanced(o) /\ OwnsLate'
    <2> DEFINE r == [phase |-> "creating", sandbox |-> s, spec |-> p, outcome |-> "pending", owner |-> None]
    <2>1. KeepsBooks(o)
      BY <1>1, QuietWrites DEF BeginContainerCreate, ResolveNew
    <2>2. CASE UNCHANGED <<sandbox, pair>>
      BY <1>a, <2>1, <2>2 DEF Balanced
    <2>3. CASE /\ pair[c].phase = "absent" /\ sandbox[s].phase = "ready"
               /\ sandbox' = [sandbox EXCEPT ![s].current = c] /\ pair' = [pair EXCEPT ![c] = r]
      <3>1. r \in PairRecord /\ r.phase = "creating" /\ r.owner = None
        BY DEF PairRecord, StoredPair, AttemptPhases, Outcomes
      <3>2. sandbox[s] \in StoredSandbox
        BY <2>3, StoredRecords DEF TypeOK
      <3>3. SameOwners /\ OwnsLate'
        BY <1>c, <1>d, <1>e, <2>3, <3>1, <3>2
      <3> QED
        BY <2>1, <3>3 DEF Balanced
    <2> QED
      BY <1>1, <2>2, <2>3 DEF BeginContainerCreate
  <1>2. CASE ConfirmContainerCreate(o, c)
    <2> DEFINE r == [pair[c] EXCEPT !.phase = "created", !.owner = o]
    <2>1. r \in PairRecord /\ r.phase = "created" /\ r.owner = o
      BY <1>2, <1>b DEF ConfirmContainerCreate, PairRecord, StoredPair, AttemptPhases
    <2>2. pair' = [pair EXCEPT ![c] = r] /\ UNCHANGED sandbox
      BY <1>2 DEF ConfirmContainerCreate
    <2>3. OwnsLate' /\ (\A t \in Targets \ {c} : OwnerOf(t)' = OwnerOf(t)) /\ OwnerOf(c)' = o
      BY <1>c, <2>1, <2>2
    <2>4. Takes(o, c)
      BY <1>2, <1>d, <2>3, QuietWrites DEF ConfirmContainerCreate, ResolveResume, Takes, Acquired
    <2> QED
      BY <2>3, <2>4 DEF Balanced
  <1>3. CASE FailContainerCreateAfterRollback(o, c)
    <2> DEFINE r == [pair[c] EXCEPT !.phase = "stopped", !.outcome = "not_applicable"]
    <2>1. KeepsBooks(o)
      BY <1>3, QuietWrites DEF FailContainerCreateAfterRollback, ResolveResume
    <2>2. r \in PairRecord /\ r.phase = "stopped" /\ r.owner = pair[c].owner
      BY <1>3, <1>b DEF FailContainerCreateAfterRollback, PairRecord, StoredPair, AttemptPhases, Outcomes
    <2>3. SameOwners /\ OwnsLate'
      BY <1>3, <1>c, <2>2 DEF FailContainerCreateAfterRollback
    <2> QED
      BY <2>1, <2>3 DEF Balanced
  <1>4. CASE BeginContainerStart(o, c)
    BY <1>4, <1>a, QuietWrites DEF BeginContainerStart, ResolveNew, Balanced
  <1>5. CASE ConfirmContainerStart(o, c)
    <2> DEFINE r == [pair[c] EXCEPT !.phase = "running"]
    <2>1. KeepsBooks(o)
      BY <1>5, QuietWrites DEF ConfirmContainerStart, ResolveResume, KeepsBooks, Acquired, Freed
    <2>2. r \in PairRecord /\ r.phase = "running" /\ r.owner = pair[c].owner
      BY <1>5, <1>b DEF ConfirmContainerStart, PairRecord, StoredPair, AttemptPhases
    <2>3. SameOwners /\ OwnsLate'
      BY <1>5, <1>c, <2>2 DEF ConfirmContainerStart
    <2> QED
      BY <2>1, <2>3 DEF Balanced
  <1>6. ASSUME NEW outcome \in TerminalOutcomes \cup {"not_applicable"}, NEW failed \in BOOLEAN,
               RecordContainerStartTerminal(o, c, outcome, failed)
        PROVE  Balanced(o) /\ OwnsLate'
    <2> DEFINE r == [pair[c] EXCEPT !.phase = "stopped", !.outcome = outcome]
    <2>1. Active(o) /\ op[o].type = "start" /\ (FailOperation(o) \/ Complete(o))
      BY <1>6 DEF RecordContainerStartTerminal, ResolveResume
    <2>2. KeepsBooks(o)
      BY <2>1, QuietWrites DEF KeepsBooks, Acquired, Freed
    <2>3. r \in PairRecord /\ r.phase = "stopped" /\ r.owner = pair[c].owner
      BY <1>6, <1>f DEF RecordContainerStartTerminal, AttemptPhases, Outcomes
    <2>4. SameOwners /\ OwnsLate'
      BY <1>6, <1>c, <2>3 DEF RecordContainerStartTerminal
    <2> QED
      BY <2>2, <2>4 DEF Balanced
  <1>7. CASE BeginContainerDelete(o, c)
    <2> DEFINE r == [pair[c] EXCEPT !.phase = "stopped", !.outcome = "not_applicable"]
    <2>1. KeepsBooks(o)
      BY <1>7, QuietWrites DEF BeginContainerDelete, ResolveNew
    <2>2. pair[c].phase = "created" => r \in PairRecord /\ r.phase = "stopped" /\ r.owner = pair[c].owner
      BY <1>f DEF AttemptPhases, Outcomes
    <2>3. SameOwners /\ OwnsLate'
      BY <1>7, <1>a, <1>c, <2>2 DEF BeginContainerDelete
    <2> QED
      BY <2>1, <2>3 DEF Balanced
  <1>8. CASE ConfirmContainerDelete(o, c)
    <2>1. CASE Finish(o, "succeeded", "noop") /\ UNCHANGED <<sandbox, pair>>
      BY <1>8, <1>a, <2>1, QuietWrites DEF ConfirmContainerDelete, ResolveResume, Balanced
    <2>2. CASE /\ pair[c].phase = "stopped" /\ ReleasesCover(o, pair[c].owner)
               /\ sandbox' = [sandbox EXCEPT ![pair[c].sandbox].current = IF @ = c THEN None ELSE @]
               /\ pair' = [pair EXCEPT ![c] = NoPair] /\ Complete(o)
      <3>1. NoPair \in PairRecord /\ NoPair.owner = None
        BY DEF NoPair, PairRecord
      <3>2. \A s \in Sandboxes : sandbox'[s].owner = sandbox[s].owner /\ sandbox'[s].phase = sandbox[s].phase
        BY <2>2 DEF TypeOK, SandboxRecord, StoredSandbox, NoSandbox
      <3>3. /\ OwnsLate' /\ (pair[c].owner = None => SameOwners)
            /\ (\A t \in Targets \ {c} : OwnerOf(t)' = OwnerOf(t)) /\ OwnerOf(c)' = None
        BY <1>c, <2>2, <3>1, <3>2
      <3>4. CASE pair[c].owner = None
        BY <1>8, <2>2, <3>3, <3>4, QuietWrites
           DEF ConfirmContainerDelete, ResolveResume, ReleasesCover, Balanced, KeepsBooks, Acquired, Freed
      <3>5. CASE pair[c].owner # None
        <4>1. Gives(o, c)
          BY <1>8, <2>2, <3>3, <3>5, QuietWrites
             DEF ConfirmContainerDelete, ResolveResume, ReleasesCover, Gives, Freed
        <4> QED
          BY <3>3, <4>1 DEF Balanced
      <3> QED
        BY <3>4, <3>5
    <2> QED
      BY <1>8, <2>1, <2>2 DEF ConfirmContainerDelete
  <1>9. ASSUME NEW outcome \in TerminalOutcomes, BeginRecordStopped(o, c, outcome)
        PROVE  Balanced(o) /\ OwnsLate'
    BY <1>9, <1>a, QuietWrites DEF BeginRecordStopped, ResolveNew, Balanced
  <1>10. CASE RecordStopped(o, c)
    <2> DEFINE r == [pair[c] EXCEPT !.phase = "stopped", !.outcome = op[o].fp.outcome]
    <2>1. KeepsBooks(o)
      BY <1>10, QuietWrites DEF RecordStopped, ResolveResume, KeepsBooks, Acquired, Freed
    <2>2. op[o].fp.outcome \in Outcomes
      BY <1>10, StoredRecords
         DEF RecordStopped, ResolveResume, Active, TypeOK, StoredOperation, Fingerprints, Outcomes
    <2>3. r \in PairRecord /\ r.phase = "stopped" /\ r.owner = pair[c].owner
      BY <1>10, <1>f, <2>2 DEF RecordStopped, AttemptPhases
    <2>4. SameOwners /\ OwnsLate'
      BY <1>10, <1>c, <2>3 DEF RecordStopped
    <2> QED
      BY <2>1, <2>4 DEF Balanced
  <1>11. CASE PlanKill(o, c)
    BY <1>11, <1>a, QuietWrites DEF PlanKill, ResolveNew, Balanced
  <1>12. ASSUME NEW outcome \in TerminalOutcomes, RecordKillStopped(o, c, outcome)
         PROVE  Balanced(o) /\ OwnsLate'
    <2> DEFINE r == [pair[c] EXCEPT !.phase = "stopped", !.outcome = outcome]
    <2>1. KeepsBooks(o)
      BY <1>12, QuietWrites DEF RecordKillStopped, ResolveResume, KeepsBooks, Acquired, Freed
    <2>2. r \in PairRecord /\ r.phase = "stopped" /\ r.owner = pair[c].owner
      BY <1>12, <1>f DEF RecordKillStopped, AttemptPhases, Outcomes
    <2>3. SameOwners /\ OwnsLate'
      BY <1>12, <1>c, <2>2 DEF RecordKillStopped
    <2> QED
      BY <2>1, <2>3 DEF Balanced
  <1> QED
    BY <1>1, <1>2, <1>3, <1>4, <1>5, <1>6, <1>7, <1>8, <1>9, <1>10, <1>11, <1>12 DEF ContainerNext

\* A conflict, a checkpoint and a failure count for nothing.
LEMMA OperationStepBalanced ==
    ASSUME TypeOK, AccountInv, NEW o \in Ops, OperationNext(o)
    PROVE  Balanced(o) /\ OwnsLate'
  <1>1. UNCHANGED <<sandbox, pair>> => SameOwners /\ OwnsLate'
    BY OwnersKept DEF AccountInv, OwnsLate
  <1>2. CASE \E b \in Requests : PersistOperationConflict(o, b)
    BY <1>1, <1>2, QuietWrites DEF PersistOperationConflict, Balanced
  <1>3. CASE FailActiveOperation(o)
    BY <1>1, <1>3, QuietWrites DEF FailActiveOperation, Balanced
  <1>4. CASE \E stage \in Stages, j \in Journals : CheckpointOperation(o, stage, j)
    <2>1. KeepsBooks(o) /\ UNCHANGED <<sandbox, pair>>
      BY <1>4, QuietWrites, ZenonT(60) DEF CheckpointOperation
    <2> QED
      BY <1>1, <2>1 DEF Balanced
  <1> QED
    BY <1>2, <1>3, <1>4, CheckpointKinds DEF OperationNext

\* The books balance in every state.
LEMMA Accounted == Spec => []AccountInv
  <1>1. Init => AccountInv
    <2> SUFFICES ASSUME Init PROVE AccountInv
      OBVIOUS
    <2>1. OwnsLate /\ \A o \in Ops : Settled(op[o])
      BY DEF Init, OwnsLate, Settled, NoSandbox, NoPair, NoOperation
    <2>2. ASSUME NEW t \in Targets PROVE Created(t) = {} /\ Released(t) = {} /\ OwnerOf(t) = None
      BY DEF Init, Created, Released, OwnerOf, NoOperation, NoSandbox, NoPair, Targets
    <2> QED
      BY <2>1, <2>2, FS_EmptySet DEF AccountInv, Books
  <1>2. ASSUME TypeOK, AccountInv, [Next]_vars PROVE AccountInv'
    <2>1. CASE Next
      <3>1. PICK o \in Ops : Balanced(o) /\ OwnsLate'
        BY <1>2, <2>1, SandboxStepBalanced, ContainerStepBalanced, OperationStepBalanced DEF Next
      <3>2. (\A t \in Targets : Books(t)') /\ \A p \in Ops : Settled(op'[p])
        BY <1>2, <3>1, BooksKept, SettledKept, DistinctIDs
      <3> QED
        BY <3>1, <3>2 DEF AccountInv
    <2>2. CASE UNCHANGED vars
      <3>1. OwnsLate' /\ \A p \in Ops : Settled(op'[p])
        BY <1>2, <2>2 DEF AccountInv, OwnsLate, Settled, vars
      <3>2. ASSUME NEW t \in Targets
            PROVE  Created(t)' = Created(t) /\ Released(t)' = Released(t) /\ OwnerOf(t)' = OwnerOf(t)
        BY <2>2 DEF Created, Released, OwnerOf, vars
      <3> QED
        BY <1>2, <3>1, <3>2 DEF AccountInv, Books
    <2> QED
      BY <1>2, <2>1, <2>2
  <1> QED
    BY <1>1, <1>2, TypeCorrect, PTL DEF Spec

\* validateOwnershipGraph (memory.go:1538) never refuses what the Coordinator
\* commits: every inventory belongs to the create that acquired it, each create that
\* succeeded is owned or was released once, and one that failed undid what it held.
THEOREM ResourcesAccounted == Spec => []HostResourcesAccounted
  <1>1. AccountInv => HostResourcesAccounted
    BY DEF AccountInv, Books, Settled, HostResourcesAccounted
  <1> QED
    BY <1>1, Accounted, PTL

=============================================================================
