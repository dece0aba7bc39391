------------------------- MODULE AcquisitionProofs -------------------------
(***************************************************************************)
(* Proofs about how the engine acquires and gives back the resources of one   *)
(* target, for every profile that is ordered by dependency and every bound on   *)
(* crashes, failures and losses.  ResourcesProofs instantiates them for the        *)
(* Container and for the Sandbox.                                              *)
(*                                                                         *)
(* The argument: RecordInv says what the two durable records promise of the     *)
(* host whatever happens to the daemon, CallInv what the method under way has     *)
(* established of its own.  A crash or an abandoned call leaves RecordInv and      *)
(* an idle call; so each step is judged by the place it leaves and the place it     *)
(* enters.                                                                  *)
(***************************************************************************)
EXTENDS Acquisition, WellFoundedInduction, TLAPS

CreatePCs == {"begin", "ensure", "journal", "attach", "attached", "baseline", "measured", "observe", "confirm"}
RollbackPCs == {"seal", "undo", "undone", "inspect"}
Whole == {"attach", "attached", "baseline", "measured", "observe", "confirm"}

\* What the records promise: at most one effect is ahead of the journal, what an
\* inverse or a release is recorded for is gone, and nothing is acquired after the
\* create has ended.
RecordInv ==
    /\ OneEffectAhead /\ FailedIsAbsent /\ ReleasedIsGone
    /\ create.stage = "complete" <=> create.state \in {"succeeded", "failed"}
    /\ create.state = "unused" => create = Unused
    /\ create.sealed <=> create.stage = "rollback" \/ create.state = "failed"
    /\ create.undone # {} => create.sealed
    /\ create.undone \cap host = {}
    /\ remove.state = "unused" => remove.released = {}
    /\ remove.state # "unused" => create.stage = "complete"

\* The inverses behind the position of the pass have succeeded, unless one failed.
Passed(i) == \A j \in 1 .. N : j > i /\ Profile[j] \in Armed => Profile[j] \in create.undone

\* What the method under way has established.
CallInv ==
    /\ call.method = "none" <=> call.pc = "idle"
    /\ call.pc \in CreatePCs <=> call.method = "create"
    /\ call.pc \in RollbackPCs <=> call.method = "rollback"
    /\ call.method = "create" => create.state = "running" /\ create.stage # "rollback"
    /\ call.method = "rollback" => create.state = "running"
    /\ call.method = "remove" => remove.state = "running"
    /\ call.pc = "journal" => create.journal < N
    /\ call.pc \in Whole => create.journal = N
    /\ call.pc \in {"observe", "confirm"} /\ HasBaseline => create.baseline
    /\ call.pc \in {"undo", "undone", "inspect"} => create.sealed
    /\ call.pc \in {"undo", "undone"} =>
          call.at \in 1 .. N /\ Profile[call.at] \in Armed /\ (~call.failed => Passed(call.at))
    /\ call.pc = "undone" => Profile[call.at] \notin host
    /\ call.pc = "inspect" /\ ~call.failed => Passed(0)
    /\ call.pc \in {"remove", "release"} =>
          call.at \in 1 .. N + 1 /\ \A j \in 1 .. call.at - 1 : DeleteOrder[j] \in remove.released
    /\ call.pc = "release" => call.at <= N /\ AtKind \notin host

AcqInv == TypeOK /\ RecordInv /\ CallInv

-----------------------------------------------------------------------------
(* The next inverse.                                                         *)

\* Among finitely many positions there is a last one.
LEMMA Last ==
    ASSUME NEW n \in Nat, NEW S, S \subseteq 1 .. n, S # {}
    PROVE  \E j \in S : \A l \in S : l <= j
  <1> DEFINE Below == {p \in Nat \X Nat : p[1] < p[2]}
             T == {n - l : l \in S}
  <1>1. IsWellFoundedOn(Below, Nat)
    <2>1. OpToRel(<, Nat) = Below
      BY DEF OpToRel
    <2> QED
      BY <2>1, NatLessThanWellFounded
  <1> HIDE DEF Below
  <1>2. T \subseteq Nat /\ T # {}
    <2>1. \A l \in S : n - l \in Nat
      OBVIOUS
    <2> QED
      BY <2>1
  <1>3. PICK t \in T : \A u \in T : <<u, t>> \notin Below
    BY <1>1, <1>2, WFMin
  <1>4. ASSUME NEW u \in T PROVE t <= u
    <2>1. ~(u < t)
      BY <1>2, <1>3, <1>4 DEF Below
    <2> QED
      BY <1>2, <1>4, <2>1
  <1>5. PICK j \in S : t = n - j
    BY <1>3
  <1>6. ASSUME NEW l \in S PROVE l <= j
    BY <1>4, <1>5, <1>6
  <1> QED
    BY <1>6

\* Before is the last armed inverse before a position that has not succeeded.
LEMMA BeforeIsLast ==
    ASSUME NEW i \in 1 .. N + 1
    PROVE  /\ Before(i) \in 0 .. i - 1
           /\ Before(i) # 0 => Profile[Before(i)] \in Armed \ create.undone
           /\ \A j \in 1 .. i - 1 : j > Before(i) => Profile[j] \notin Armed \ create.undone
  <1>0. N \in Nat
    BY AcquisitionAssumption DEF AcquisitionAssumption, N
  <1>1. CASE Pending(i) = {}
    BY <1>0, <1>1 DEF Before, Pending
  <1>2. CASE Pending(i) # {}
    <2>1. i - 1 \in Nat /\ Pending(i) \subseteq 1 .. i - 1
      BY <1>0 DEF Pending
    <2>2. \E j \in Pending(i) : \A l \in Pending(i) : l <= j
      BY <1>2, <2>1, Last
    <2>3. Before(i) \in Pending(i) /\ \A l \in Pending(i) : l <= Before(i)
      BY <1>2, <2>2 DEF Before
    <2> QED
      BY <2>1, <2>3 DEF Pending
  <1> QED
    BY <1>1, <1>2

\* The constants.
LEMMA Profiles ==
    /\ N \in Nat /\ Profile \in [1 .. N -> Kinds] /\ DeleteOrder \in [1 .. N -> Kinds]
    /\ MaxFaults \in Nat /\ HasBaseline \in BOOLEAN
    /\ \A i, j \in 1 .. N : i # j => Profile[i] # Profile[j] /\ DeleteOrder[i] # DeleteOrder[j]
    /\ \A k \in Kinds : (\E i \in 1 .. N : Profile[i] = k) /\ (\E i \in 1 .. N : DeleteOrder[i] = k)
  BY AcquisitionAssumption DEF AcquisitionAssumption, N

-----------------------------------------------------------------------------
(* What may happen to the records.                                           *)

\* A step that stores nothing and acquires nothing keeps the records' promise.
LEMMA RecordKept ==
    ASSUME RecordInv, UNCHANGED <<create, remove>>, host' \subseteq host
    PROVE  RecordInv' /\ Journaled' = Journaled /\ Armed' = Armed /\ \A i \in 0 .. N : Passed(i) => Passed(i)'
  BY DEF RecordInv, OneEffectAhead, FailedIsAbsent, ReleasedIsGone, Journaled, Armed, Passed

\* An idle engine has established nothing.
LEMMA IdleKept ==
    ASSUME call' = Idle
    PROVE  CallInv'
  BY DEF CallInv, Idle, CreatePCs, RollbackPCs, Whole

-----------------------------------------------------------------------------
(* What may happen to the call.                                              *)

Calls == [method : {"none", "create", "rollback", "remove"}, by : {"none", "client", "recover", "recover_failing"},
          pc : PCs, at : 0 .. N + 1, failed : BOOLEAN]

\* A method that goes on keeps all but its place.
LEMMA GotoTyped ==
    ASSUME call \in Calls, NEW pc \in PCs, call' = [call EXCEPT !.pc = pc]
    PROVE  /\ call' \in Calls /\ call'.pc = pc
           /\ call'.method = call.method /\ call'.at = call.at /\ call'.failed = call.failed
  BY DEF Calls

\* A method that returns leaves an idle engine.
LEMMA IdleTyped == Idle \in Calls /\ Idle.pc = "idle" /\ Idle.method = "none" /\ Idle.failed = FALSE
  BY Profiles DEF Calls, Idle, PCs

\* A create that fails definitely goes over to the rollback.
LEMMA FailTyped ==
    ASSUME call \in Calls, FailDefinite
    PROVE  call' \in Calls /\ call'.method = "rollback" /\ call'.pc = "seal"
  BY DEF FailDefinite, Calls, PCs

\* Where the pass goes from a position, with or without a failed inverse.
NextInverse(i, f) ==
    \/ call' = [ToNextInverse(i) EXCEPT !.failed = f]
    \/ call' = ToNextInverse(i) /\ f = call.failed

\* The pass goes on with the next inverse, or ends.
LEMMA NextInverseTyped ==
    ASSUME call \in Calls, NEW i \in 1 .. N + 1, NEW f \in BOOLEAN, NextInverse(i, f)
    PROVE  /\ call' \in Calls /\ call'.method = call.method /\ call'.failed = f
           /\ \/ call'.pc = "inspect" /\ \A j \in 1 .. i - 1 : Profile[j] \notin Armed \ create.undone
              \/ /\ call'.pc = "undo" /\ call'.at \in 1 .. i - 1 /\ Profile[call'.at] \in Armed \ create.undone
                 /\ \A j \in 1 .. i - 1 : j > call'.at => Profile[j] \notin Armed \ create.undone
  <1>1. N \in Nat /\ Before(i) \in 0 .. i - 1
    BY Profiles, BeforeIsLast
  <1>2. /\ call'.at = Before(i) /\ call'.method = call.method /\ call'.failed = f /\ call'.by = call.by
        /\ call'.pc = IF Before(i) = 0 THEN "inspect" ELSE "undo"
    BY DEF NextInverse, ToNextInverse, Calls
  <1>3. call' \in Calls
    <2>1. "inspect" \in PCs /\ "undo" \in PCs /\ Before(i) \in 0 .. N + 1
      BY <1>1 DEF PCs
    <2>2. ToNextInverse(i) \in Calls
      BY <2>1 DEF ToNextInverse, Calls
    <2> QED
      BY <2>2 DEF NextInverse, Calls
  <1> QED
    BY <1>1, <1>2, <1>3, BeforeIsLast

\* The types as the proofs use them.
LEMMA Typed ==
    ASSUME TypeOK
    PROVE  /\ create \in CreateRecord /\ remove \in RemoveRecord /\ phase \in Phases /\ adopted \in {0, N}
           /\ host \subseteq Kinds /\ daemon \in {"down", "starting", "up"} /\ faults \in 0 .. MaxFaults
           /\ call \in Calls /\ call.at \in 0 .. N + 1 /\ call.failed \in BOOLEAN
  BY DEF TypeOK, Calls

\* A step that stores nothing and acquires nothing keeps the types.
LEMMA TypeKept ==
    ASSUME TypeOK, UNCHANGED <<create, remove, adopted>>, phase' \in Phases, host' \subseteq Kinds, call' \in Calls,
           daemon' \in {"down", "starting", "up"}, UNCHANGED faults \/ Fault
    PROVE  TypeOK'
  <1>1. faults' \in 0 .. MaxFaults
    BY Typed, Profiles DEF Fault
  <1> QED
    BY <1>1 DEF TypeOK, Calls

\* Where a Return leaves the daemon.
LEMMA ReturnTyped ==
    ASSUME TypeOK, NEW ok \in BOOLEAN, Return(ok)
    PROVE  call' = Idle /\ daemon' \in {"down", "starting", "up"}
  BY DEF Return, TypeOK

\* A step that stores nothing and acquires nothing, and what its call knows.
LEMMA QuietStep ==
    ASSUME AcqInv, UNCHANGED <<create, remove, adopted>>, phase' \in Phases, host' \subseteq host,
           daemon' \in {"down", "starting", "up"}, UNCHANGED faults \/ Fault, call' \in Calls, CallInv'
    PROVE  AcqInv'
  <1>1. host' \subseteq Kinds
    BY Typed DEF AcqInv
  <1> QED
    BY <1>1, TypeKept, RecordKept DEF AcqInv

\* A method that returns or dies without storing anything.
LEMMA ReturnStep ==
    ASSUME AcqInv, UNCHANGED <<create, remove, adopted>>, phase' \in Phases, host' \subseteq host,
           daemon' \in {"down", "starting", "up"}, UNCHANGED faults \/ Fault, call' = Idle
    PROVE  AcqInv'
  BY QuietStep, IdleTyped, IdleKept

\* A create that fails definitely is in rollback.
LEMMA FailKept ==
    ASSUME call \in Calls, FailDefinite, create'.state = "running"
    PROVE  call' \in Calls /\ CallInv'
  <1>1. call' \in Calls /\ call'.method = "rollback" /\ call'.pc = "seal"
    BY FailTyped
  <1> QED
    BY <1>1 DEF CallInv, CreatePCs, RollbackPCs, Whole

\* A create that goes on.
LEMMA CreateGoesOn ==
    ASSUME call \in Calls, call.method = "create", NEW pc \in CreatePCs, Goto(pc),
           create'.state = "running", create'.stage # "rollback", pc = "journal" => create'.journal < N,
           pc \in Whole => create'.journal = N, pc \in {"observe", "confirm"} /\ HasBaseline => create'.baseline
    PROVE  call' \in Calls /\ CallInv'
  <1>1. pc \in PCs
    BY DEF CreatePCs, PCs
  <1>2. call' \in Calls /\ call'.pc = pc /\ call'.method = "create"
    BY <1>1, GotoTyped DEF Goto
  <1> QED
    BY <1>2 DEF CallInv, CreatePCs, RollbackPCs, Whole

\* Where a create is.
LEMMA Creating ==
    ASSUME AcqInv, NEW pc \in CreatePCs, At("create", pc)
    PROVE  /\ call \in Calls /\ call.method = "create" /\ call.pc = pc
           /\ create.state = "running" /\ create.stage # "rollback" /\ ~create.sealed /\ create.undone = {}
           /\ create.stage # "complete" /\ remove.state = "unused" /\ remove.released = {} /\ create \in CreateRecord
           /\ pc = "journal" => create.journal < N
           /\ pc \in Whole => create.journal = N
           /\ pc \in {"observe", "confirm"} /\ HasBaseline => create.baseline
  <1>1. TypeOK /\ CallInv /\ RecordInv
    BY DEF AcqInv
  <1> QED
    BY <1>1, Typed DEF At, CallInv, RecordInv

-----------------------------------------------------------------------------
(* Create.                                                                   *)

\* The record and the host of a create that goes on.
LEMMA Advances ==
    ASSUME RecordInv, create.state = "running", create \in CreateRecord, create' \in CreateRecord, create'.state = "running",
           create'.stage \notin {"rollback", "complete"}, ~create'.sealed, create'.undone = {},
           create'.journal >= create.journal, remove.state = "unused", UNCHANGED remove,
           host' = host \/ (host' = host \cup {Next1} /\ create.journal < N /\ create' = create)
    PROVE  RecordInv'
  <1>1. create.journal \in 0 .. N /\ create'.journal \in 0 .. N /\ N \in Nat
    BY Profiles DEF CreateRecord
  <1>2. host \subseteq {Profile[i] : i \in (1 .. N) \cap (1 .. create.journal + 1)}
    BY DEF RecordInv, OneEffectAhead
  <1>3. (1 .. N) \cap (1 .. create.journal + 1) \subseteq (1 .. N) \cap (1 .. create'.journal + 1)
    BY <1>1
  <1>4. OneEffectAhead'
    <2>1. CASE host' = host
      BY <1>2, <1>3, <2>1 DEF OneEffectAhead
    <2>2. CASE host' = host \cup {Next1} /\ create.journal < N /\ create' = create
      <3>1. create.journal + 1 \in (1 .. N) \cap (1 .. create.journal + 1)
        BY <1>1, <2>2
      <3> QED
        BY <1>2, <2>2, <3>1 DEF OneEffectAhead, Next1
    <2> QED
      BY <2>1, <2>2
  <1>5. FailedIsAbsent' /\ create'.undone \cap host' = {}
    BY DEF FailedIsAbsent
  <1>6. ReleasedIsGone' /\ remove.released = {}
    BY DEF RecordInv, ReleasedIsGone
  <1> QED
    BY <1>4, <1>5, <1>6 DEF RecordInv

\* A checkpoint of a create is stored, or the method returns.
LEMMA CheckpointStep ==
    ASSUME AcqInv, NEW from \in CreatePCs, At("create", from), NEW pc \in CreatePCs, NEW new \in CreateRecord, Checkpoint(new, pc),
           new.state = "running", new.stage \notin {"rollback", "complete"}, ~new.sealed, new.undone = {},
           new.journal >= create.journal, pc = "journal" => new.journal < N,
           pc \in Whole => new.journal = N,
           Accepts(create, new) /\ pc \in {"observe", "confirm"} /\ HasBaseline => new.baseline
    PROVE  AcqInv'
  <1>1. TypeOK /\ RecordInv /\ UNCHANGED <<remove, phase, adopted, host, faults>>
    BY DEF AcqInv, Checkpoint
  <1>2. CASE Accepts(create, new) /\ create' = new /\ Goto(pc)
    <2>1. call' \in Calls /\ CallInv'
      BY <1>2, Creating, CreateGoesOn
    <2>2. RecordInv'
      <3>1. /\ create.state = "running" /\ create \in CreateRecord /\ remove.state = "unused"
            /\ create' = new /\ UNCHANGED remove /\ host' = host
        BY <1>1, <1>2, Creating
      <3>2. /\ create' \in CreateRecord /\ create'.state = "running" /\ create'.stage \notin {"rollback", "complete"}
            /\ ~create'.sealed /\ create'.undone = {} /\ create'.journal >= create.journal
        BY <3>1
      <3> QED
        BY <1>1, <3>1, <3>2, Advances
    <2>3. TypeOK'
      BY <1>1, <1>2, <2>1 DEF TypeOK, Calls, Goto
    <2> QED
      BY <2>1, <2>2, <2>3 DEF AcqInv
  <1>3. CASE UNCHANGED create /\ Return(FALSE)
    BY <1>1, <1>3, ReturnTyped, ReturnStep, Typed
  <1> QED
    BY <1>2, <1>3 DEF Checkpoint

\* The receipt of the effect ahead is stored.
LEMMA JournalReceiptKeeps ==
    ASSUME AcqInv, JournalReceipt
    PROVE  AcqInv'
  <1> DEFINE new == [create EXCEPT !.stage = "acquire", !.journal = @ + 1]
  <1>1. At("create", "journal") /\ Checkpoint(new, "ensure") /\ {"journal", "ensure"} \subseteq CreatePCs
    BY DEF JournalReceipt, CreatePCs
  <1>2. create \in CreateRecord /\ create.state = "running" /\ ~create.sealed /\ create.undone = {} /\ create.journal < N
    BY <1>1, Creating
  <1>3. /\ new \in CreateRecord /\ new.state = "running" /\ new.stage = "acquire" /\ ~new.sealed /\ new.undone = {}
        /\ new.journal >= create.journal
    <2>1. create.journal + 1 \in 0 .. N /\ create.journal + 1 >= create.journal /\ "acquire" \in CreateStages
      BY <1>2, Profiles DEF CreateRecord, CreateStages
    <2> QED
      BY <1>2, <2>1 DEF CreateRecord
  <1> HIDE DEF new
  <1> QED
    BY <1>1, <1>3, CheckpointStep DEF Whole

\* The attachment is stored without a baseline.
LEMMA RecordAttachKeeps ==
    ASSUME AcqInv, RecordAttach
    PROVE  AcqInv'
  <1> DEFINE new == [create EXCEPT !.stage = "attach_cgroup", !.baseline = FALSE]
             pc == IF create.baseline THEN "observe" ELSE "baseline"
  <1>1. At("create", "attached") /\ Checkpoint(new, pc) /\ "attached" \in CreatePCs /\ pc \in CreatePCs /\ "attached" \in Whole
    BY DEF RecordAttach, CreatePCs, Whole
  <1>2. create \in CreateRecord /\ create.state = "running" /\ ~create.sealed /\ create.undone = {} /\ create.journal = N
    BY <1>1, Creating
  <1>3. /\ new \in CreateRecord /\ new.state = "running" /\ new.stage = "attach_cgroup" /\ ~new.sealed /\ new.undone = {}
        /\ new.journal = N /\ new.baseline = FALSE
    BY <1>2, Profiles DEF CreateRecord, CreateStages
  <1>4. Accepts(create, new) => ~create.baseline
    BY <1>3 DEF Accepts, BaselineAdvance
  <1>5. pc # "journal" /\ (~create.baseline => pc \notin {"observe", "confirm"})
    OBVIOUS
  <1>6. new.journal >= create.journal
    BY <1>2, <1>3, Profiles
  <1> HIDE DEF new, pc
  <1> QED
    BY <1>1, <1>3, <1>4, <1>5, <1>6, CheckpointStep

\* The baseline is stored.
LEMMA RecordBaselineKeeps ==
    ASSUME AcqInv, RecordBaseline
    PROVE  AcqInv'
  <1> DEFINE new == [create EXCEPT !.baseline = TRUE]
  <1>1. At("create", "measured") /\ Checkpoint(new, "observe") /\ {"measured", "observe"} \subseteq CreatePCs /\ "measured" \in Whole
    BY DEF RecordBaseline, CreatePCs, Whole
  <1>2. /\ create \in CreateRecord /\ create.state = "running" /\ ~create.sealed /\ create.undone = {} /\ create.journal = N
        /\ create.stage \notin {"rollback", "complete"}
    BY <1>1, Creating
  <1>3. /\ new \in CreateRecord /\ new.state = "running" /\ new.stage = create.stage /\ ~new.sealed /\ new.undone = {}
        /\ new.journal = N /\ new.baseline
    BY <1>2 DEF CreateRecord
  <1>4. new.journal >= create.journal
    BY <1>2, <1>3, Profiles
  <1> HIDE DEF new
  <1> QED
    BY <1>1, <1>2, <1>3, <1>4, CheckpointStep

\* The first checkpoint, or a definite failure before any effect.
LEMMA PreflightKeeps ==
    ASSUME AcqInv, Preflight
    PROVE  AcqInv'
  <1>1. At("create", "begin") /\ {"begin", "ensure"} \subseteq CreatePCs /\ {"begin", "ensure"} \cap Whole = {}
    BY DEF Preflight, CreatePCs, Whole
  <1>2. /\ create \in CreateRecord /\ create.state = "running" /\ ~create.sealed /\ create.undone = {}
        /\ create.stage \notin {"rollback", "complete"} /\ call \in Calls /\ call.method = "create"
    BY <1>1, Creating
  <1>3. CASE Checkpoint([create EXCEPT !.stage = "host_preflight"], "ensure")
    <2> DEFINE new == [create EXCEPT !.stage = "host_preflight"]
    <2>1. /\ new \in CreateRecord /\ new.state = "running" /\ new.stage = "host_preflight" /\ ~new.sealed /\ new.undone = {}
          /\ new.journal = create.journal /\ create.journal \in Nat
      <3>1. create.journal \in Nat /\ "host_preflight" \in CreateStages
        BY <1>2, Profiles DEF CreateRecord, CreateStages
      <3> QED
        BY <1>2, <3>1 DEF CreateRecord
    <2>2. Checkpoint(new, "ensure") /\ new.journal >= create.journal
      BY <1>3, <2>1
    <2> HIDE DEF new
    <2> QED
      BY <1>1, <2>1, <2>2, CheckpointStep
  <1>4. CASE Goto("ensure") /\ UNCHANGED <<durable, host, faults>>
    <2>1. call' \in Calls /\ CallInv'
      BY <1>1, <1>2, <1>4, CreateGoesOn DEF durable
    <2> QED
      BY <1>4, <2>1, QuietStep, Typed DEF AcqInv, durable, Goto
  <1>5. CASE Fault /\ FailDefinite /\ UNCHANGED <<durable, host, daemon>>
    <2>1. call' \in Calls /\ CallInv'
      BY <1>2, <1>5, FailKept DEF durable
    <2> QED
      BY <1>5, <2>1, QuietStep, Typed DEF AcqInv, durable
  <1> QED
    BY <1>3, <1>4, <1>5 DEF Preflight

\* The next effect of the profile, with any answer.
LEMMA EnsureKeeps ==
    ASSUME AcqInv, Ensure
    PROVE  AcqInv'
  <1>1. At("create", "ensure") /\ create.journal < N /\ {"journal", "ensure"} \subseteq CreatePCs /\ "journal" \notin Whole
    BY DEF Ensure, CreatePCs, Whole
  <1>2. /\ create \in CreateRecord /\ create.state = "running" /\ ~create.sealed /\ create.undone = {}
        /\ create.stage \notin {"rollback", "complete"} /\ call \in Calls /\ call.method = "create" /\ remove.state = "unused"
    BY <1>1, Creating
  <1>3. UNCHANGED durable /\ host' \in {host, host \cup {Next1}}
    BY DEF Ensure
  <1>4. RecordInv'
    <2>1. create.journal >= create.journal
      BY <1>2, Profiles DEF CreateRecord
    <2> QED
      BY <1>1, <1>2, <1>3, <2>1, Advances DEF AcqInv, durable
  <1>5. host' \subseteq Kinds
    <2>1. Next1 \in Kinds
      <3>1. create.journal + 1 \in 1 .. N
        BY <1>1, <1>2, Profiles DEF CreateRecord
      <3> QED
        BY <3>1, Profiles DEF Next1
    <2> QED
      BY <1>3, <2>1, Typed DEF AcqInv
  <1>6. call' \in Calls /\ CallInv' /\ daemon' \in {"down", "starting", "up"}
    <2>1. CASE Goto("journal")
      BY <1>1, <1>2, <1>3, <2>1, CreateGoesOn, Typed DEF AcqInv, durable, Goto
    <2>2. CASE Return(FALSE)
      BY <2>2, ReturnTyped, IdleTyped, IdleKept DEF AcqInv
    <2>3. CASE FailDefinite /\ UNCHANGED daemon
      BY <1>2, <1>3, <2>3, FailKept, Typed DEF AcqInv, durable
    <2> QED
      BY <2>1, <2>2, <2>3 DEF Ensure
  <1>7. UNCHANGED faults \/ Fault
    BY DEF Ensure
  <1>8. TypeOK'
    BY <1>3, <1>5, <1>6, <1>7, TypeKept, Typed DEF AcqInv, durable
  <1> QED
    BY <1>4, <1>6, <1>8 DEF AcqInv

\* The whole profile is journaled.
LEMMA AcquiredKeeps ==
    ASSUME AcqInv, Acquired
    PROVE  AcqInv'
  <1> DEFINE pc == IF HasBaseline THEN "attach" ELSE "confirm"
  <1>1. /\ At("create", "ensure") /\ create.journal = N /\ Goto(pc) /\ UNCHANGED <<durable, host, faults>>
        /\ "ensure" \in CreatePCs /\ pc \in CreatePCs /\ pc # "journal" /\ (HasBaseline => pc = "attach")
    BY DEF Acquired, CreatePCs
  <1> HIDE DEF pc
  <1>2. call' \in Calls /\ CallInv'
    BY <1>1, Creating, CreateGoesOn DEF durable
  <1> QED
    BY <1>1, <1>2, QuietStep, Typed DEF AcqInv, durable, Goto

\* An observation of what was acquired goes on or fails definitely.
LEMMA AttestKeeps ==
    ASSUME AcqInv, NEW from \in Whole, NEW to \in Whole, to \in {"observe", "confirm"} => from = "observe",
           Attest(from, to)
    PROVE  AcqInv'
  <1>1. /\ At("create", from) /\ UNCHANGED <<durable, host, daemon>> /\ (UNCHANGED faults \/ Fault)
        /\ from \in CreatePCs /\ to \in CreatePCs /\ to # "journal"
    BY DEF Attest, CreatePCs, Whole
  <1>2. /\ call \in Calls /\ call.method = "create" /\ create.state = "running" /\ create.stage # "rollback"
        /\ create.journal = N /\ (to \in {"observe", "confirm"} /\ HasBaseline => create.baseline)
    BY <1>1, Creating
  <1>3. call' \in Calls /\ CallInv'
    <2>1. CASE call' = [call EXCEPT !.pc = to]
      BY <1>1, <1>2, <2>1, CreateGoesOn DEF durable, Goto
    <2>2. CASE FailDefinite
      BY <1>1, <1>2, <2>2, FailKept DEF durable
    <2> QED
      BY <2>1, <2>2 DEF Attest
  <1> QED
    BY <1>1, <1>3, QuietStep, Typed DEF AcqInv, durable

\* The observations after the acquisition.
LEMMA AttestationsKeep ==
    ASSUME AcqInv, Attach \/ Snapshot \/ ObservePrepared
    PROVE  AcqInv'
  <1>1. {"attach", "attached", "baseline", "measured", "observe", "confirm"} = Whole
    BY DEF Whole
  <1> QED
    BY <1>1, AttestKeeps DEF Attach, Snapshot, ObservePrepared

\* A create succeeds with its whole profile.
LEMMA ConfirmCreateKeeps ==
    ASSUME AcqInv, ConfirmCreate
    PROVE  AcqInv'
  <1>1. /\ At("create", "confirm") /\ "confirm" \in CreatePCs /\ "confirm" \in Whole
        /\ create' = [create EXCEPT !.state = "succeeded", !.stage = "complete"]
        /\ phase' = "live" /\ adopted' = create.journal /\ Return(TRUE) /\ UNCHANGED <<remove, host, faults>>
    BY DEF ConfirmCreate, CreatePCs, Whole
  <1>2. create \in CreateRecord /\ create.journal = N /\ ~create.sealed /\ create.undone = {}
    BY <1>1, Creating
  <1>3. /\ create' \in CreateRecord /\ create'.state = "succeeded" /\ create'.stage = "complete" /\ create'.journal = N
        /\ ~create'.sealed /\ create'.undone = {}
    BY <1>1, <1>2 DEF CreateRecord, States, CreateStages
  <1>4. TypeOK'
    <2>1. call' \in Calls /\ daemon' \in {"down", "starting", "up"}
      BY <1>1, ReturnTyped, IdleTyped DEF AcqInv
    <2> QED
      BY <1>1, <1>2, <1>3, <2>1, Typed DEF AcqInv, TypeOK, Calls, Phases
  <1>5. RecordInv'
    BY <1>1, <1>2, <1>3 DEF AcqInv, RecordInv, OneEffectAhead, FailedIsAbsent, ReleasedIsGone
  <1> QED
    BY <1>1, <1>4, <1>5, IdleKept DEF AcqInv, Return

-----------------------------------------------------------------------------
(* Rollback.                                                                 *)

\* Where a rollback is.
LEMMA RollingBack ==
    ASSUME AcqInv, NEW pc \in RollbackPCs, At("rollback", pc)
    PROVE  /\ TypeOK /\ RecordInv /\ call \in Calls /\ call.method = "rollback" /\ call.pc = pc
           /\ create \in CreateRecord /\ create.state = "running" /\ create.stage # "complete" /\ remove.state = "unused"
           /\ pc # "seal" => create.sealed /\ create.stage = "rollback"
           /\ pc \in {"undo", "undone"} =>
                 call.at \in 1 .. N /\ Profile[call.at] \in Armed /\ (~call.failed => Passed(call.at))
           /\ pc = "undone" => Profile[call.at] \notin host
           /\ pc = "inspect" /\ ~call.failed => Passed(0)
  <1>1. TypeOK /\ RecordInv /\ CallInv
    BY DEF AcqInv
  <1> QED
    BY <1>1, Typed DEF At, CallInv, RecordInv, RollbackPCs

\* A pass that goes on with the next inverse below a position, behind which all have
\* succeeded unless one has failed.
LEMMA PassGoesOn ==
    ASSUME call \in Calls, call.method = "rollback", NEW i \in 1 .. N + 1, NEW f \in BOOLEAN,
           NextInverse(i, f), create'.state = "running", create'.sealed,
           create.undone \subseteq create'.undone, Armed' = Armed,
           ~f => \A j \in 1 .. N : j >= i /\ Profile[j] \in Armed => Profile[j] \in create'.undone
    PROVE  call' \in Calls /\ CallInv'
  <1>1. /\ call' \in Calls /\ call'.method = "rollback" /\ call'.failed = f
        /\ \/ call'.pc = "inspect" /\ \A j \in 1 .. i - 1 : Profile[j] \notin Armed \ create.undone
           \/ /\ call'.pc = "undo" /\ call'.at \in 1 .. i - 1 /\ Profile[call'.at] \in Armed \ create.undone
              /\ \A j \in 1 .. i - 1 : j > call'.at => Profile[j] \notin Armed \ create.undone
    BY NextInverseTyped
  <1>2. N \in Nat
    BY Profiles
  <1>3. CASE call'.pc = "inspect" /\ \A j \in 1 .. i - 1 : Profile[j] \notin Armed \ create.undone
    <2>1. ~f => Passed(0)'
      BY <1>2, <1>3 DEF Passed
    <2> QED
      BY <1>1, <1>3, <2>1 DEF CallInv, CreatePCs, RollbackPCs, Whole
  <1>4. CASE /\ call'.pc = "undo" /\ call'.at \in 1 .. i - 1 /\ Profile[call'.at] \in Armed \ create.undone
             /\ \A j \in 1 .. i - 1 : j > call'.at => Profile[j] \notin Armed \ create.undone
    <2>1. call'.at \in 1 .. N
      BY <1>2, <1>4
    <2>2. ~f => Passed(call.at)'
      BY <1>2, <1>4, <2>1 DEF Passed
    <2> QED
      BY <1>1, <1>4, <2>1, <2>2 DEF CallInv, CreatePCs, RollbackPCs, Whole
  <1> QED
    BY <1>1, <1>3, <1>4

\* The rollback is durable before its first inverse.
LEMMA SealKeeps ==
    ASSUME AcqInv, Seal
    PROVE  AcqInv'
  <1>1. /\ At("rollback", "seal") /\ "seal" \in RollbackPCs
        /\ create' = [create EXCEPT !.stage = "rollback", !.sealed = TRUE]
        /\ call' = ToNextInverse(N + 1) /\ UNCHANGED <<remove, phase, adopted, host, daemon, faults>>
    BY DEF Seal, RollbackPCs
  <1>2. /\ TypeOK /\ RecordInv /\ call \in Calls /\ call.method = "rollback" /\ create \in CreateRecord
        /\ create.state = "running" /\ remove.state = "unused"
    BY <1>1, RollingBack
  <1>3. /\ create' \in CreateRecord /\ create'.state = "running" /\ create'.stage = "rollback" /\ create'.sealed
        /\ create'.undone = create.undone /\ create'.journal = create.journal
    BY <1>1, <1>2 DEF CreateRecord, CreateStages
  <1>4. Journaled' = Journaled /\ Armed' = Armed
    BY <1>3 DEF Journaled, Armed
  <1>5. call' \in Calls /\ CallInv'
    <2>1. NextInverse(N + 1, call.failed) /\ call.failed \in BOOLEAN /\ N + 1 \in 1 .. N + 1
      BY <1>1, <1>2, Profiles DEF NextInverse, Calls
    <2>2. \A j \in 1 .. N : ~(j >= N + 1)
      BY Profiles
    <2> QED
      BY <1>2, <1>3, <1>4, <2>1, <2>2, PassGoesOn
  <1>6. TypeOK'
    BY <1>1, <1>2, <1>3, <1>5 DEF TypeOK, Calls
  <1>7. RecordInv'
    BY <1>1, <1>2, <1>3 DEF RecordInv, OneEffectAhead, FailedIsAbsent, ReleasedIsGone
  <1> QED
    BY <1>5, <1>6, <1>7 DEF AcqInv


\* An inverse releases its resource, or the pass has a failure.
LEMMA RunInverseKeeps ==
    ASSUME AcqInv, RunInverse
    PROVE  AcqInv'
  <1> DEFINE k == Profile[call.at]
  <1>1. /\ At("rollback", "undo") /\ {"undo", "undone"} \subseteq RollbackPCs /\ UNCHANGED durable
        /\ host' \in {host, Without(k)} /\ (UNCHANGED faults \/ Fault) /\ UNCHANGED daemon
    BY DEF RunInverse, RollbackPCs, Goto
  <1>2. /\ TypeOK /\ RecordInv /\ call \in Calls /\ call.method = "rollback" /\ call.pc = "undo" /\ create \in CreateRecord
        /\ create.state = "running" /\ create.sealed
        /\ call.at \in 1 .. N /\ k \in Armed /\ (~call.failed => Passed(call.at))
    BY <1>1, RollingBack
  <1>3. host' \subseteq host /\ k \notin Without(k)
    BY <1>1 DEF Without
  <1>4. RecordInv' /\ Armed' = Armed /\ \A i \in 0 .. N : Passed(i) => Passed(i)'
    BY <1>1, <1>2, <1>3, RecordKept DEF durable
  <1>5. call' \in Calls /\ CallInv'
    <2>1. CASE host' = Without(k) /\ Goto("undone")
      <3>1. "undone" \in PCs /\ call.at \in 0 .. N
        BY <1>2, Profiles DEF PCs
      <3>2. /\ call' \in Calls /\ call'.pc = "undone" /\ call'.method = "rollback" /\ call'.at = call.at
            /\ call'.failed = call.failed
        BY <1>2, <2>1, <3>1, GotoTyped DEF Goto
      <3>3. ~call'.failed => Passed(call.at)'
        BY <1>2, <1>4, <3>1, <3>2
      <3>4. Profile[call'.at] \in Armed' /\ Profile[call'.at] \notin host' /\ create' = create
        BY <1>1, <1>2, <1>3, <1>4, <2>1, <3>2 DEF durable
      <3> QED
        BY <1>2, <3>2, <3>3, <3>4 DEF CallInv, CreatePCs, RollbackPCs, Whole
    <2>2. CASE call' = [ToNextInverse(call.at) EXCEPT !.failed = TRUE]
      <3>1. call.at \in 1 .. N + 1 /\ TRUE \in BOOLEAN /\ NextInverse(call.at, TRUE) /\ create' = create
        BY <1>1, <1>2, <2>2, Profiles DEF NextInverse, durable
      <3> HIDE DEF k
      <3> QED
        BY <1>2, <1>4, <3>1, PassGoesOn
    <2> QED
      BY <2>1, <2>2 DEF RunInverse
  <1> QED
    BY <1>1, <1>2, <1>3, <1>5, QuietStep, Typed DEF durable

\* An inverse is recorded for a resource that is gone.
LEMMA RecordInverseKeeps ==
    ASSUME AcqInv, RecordInverse
    PROVE  AcqInv'
  <1> DEFINE k == Profile[call.at]
  <1>1. /\ At("rollback", "undone") /\ "undone" \in RollbackPCs
        /\ create' = [create EXCEPT !.undone = @ \cup {k}] /\ call' = ToNextInverse(call.at)
        /\ UNCHANGED <<remove, phase, adopted, host, daemon, faults>>
    BY DEF RecordInverse, RollbackPCs
  <1>2. /\ TypeOK /\ RecordInv /\ call \in Calls /\ call.method = "rollback" /\ create \in CreateRecord
        /\ create.state = "running" /\ create.sealed /\ create.stage = "rollback" /\ remove.state = "unused"
        /\ call.at \in 1 .. N /\ k \in Armed /\ (~call.failed => Passed(call.at)) /\ k \notin host /\ k \in Kinds
    <2>1. call.at \in 1 .. N => k \in Kinds
      BY Profiles
    <2> QED
      BY <1>1, <2>1, RollingBack
  <1>3. /\ create' \in CreateRecord /\ create'.state = "running" /\ create'.stage = "rollback" /\ create'.sealed
        /\ create'.undone = create.undone \cup {k} /\ create'.journal = create.journal
    BY <1>1, <1>2 DEF CreateRecord
  <1>4. Journaled' = Journaled /\ Armed' = Armed
    BY <1>3 DEF Journaled, Armed
  <1>5. call' \in Calls /\ CallInv'
    <2>1. call.failed \in BOOLEAN /\ NextInverse(call.at, call.failed) /\ call.at \in 1 .. N + 1
      BY <1>1, <1>2, Profiles DEF NextInverse, Calls
    <2>2. ~call.failed => \A j \in 1 .. N : j >= call.at /\ Profile[j] \in Armed => Profile[j] \in create'.undone
      <3>1. ASSUME ~call.failed, NEW j \in 1 .. N, j >= call.at, Profile[j] \in Armed PROVE Profile[j] \in create'.undone
        <4>1. j = call.at \/ j > call.at
          BY <1>2, <3>1
        <4> QED
          BY <1>2, <1>3, <3>1, <4>1 DEF Passed
      <3> QED
        BY <3>1
    <2>3. create'.undone = create.undone \cup {Profile[call.at]}
      BY <1>3
    <2> HIDE DEF k
    <2> QED
      BY <1>2, <1>3, <1>4, <2>1, <2>2, <2>3, PassGoesOn
  <1>6. TypeOK'
    BY <1>1, <1>2, <1>3, <1>5 DEF TypeOK, Calls
  <1>7. RecordInv'
    <2> HIDE DEF k
    <2> QED
      BY <1>1, <1>2, <1>3, <1>4 DEF RecordInv, OneEffectAhead, FailedIsAbsent, ReleasedIsGone
  <1> QED
    BY <1>5, <1>6, <1>7 DEF AcqInv

\* The end of a pass: the create fails only when all are recorded and gone.
LEMMA FinishRollbackKeeps ==
    ASSUME AcqInv, FinishRollback
    PROVE  AcqInv'
  <1>1. At("rollback", "inspect") /\ "inspect" \in RollbackPCs /\ UNCHANGED <<remove, adopted, host>>
    BY DEF FinishRollback, RollbackPCs
  <1>2. /\ TypeOK /\ RecordInv /\ create \in CreateRecord /\ create.state = "running" /\ create.sealed
        /\ remove.state = "unused" /\ (~call.failed => Passed(0))
    BY <1>1, RollingBack
  <1>3. CASE Return(FALSE) /\ UNCHANGED <<create, phase>> /\ (UNCHANGED faults \/ Fault)
    <2>1. call' = Idle /\ daemon' \in {"down", "starting", "up"} /\ phase' \in Phases /\ host' \subseteq host
      BY <1>1, <1>2, <1>3, ReturnTyped, Typed
    <2> QED
      BY <1>1, <1>3, <2>1, ReturnStep
  <1>4. CASE /\ ~call.failed /\ Journaled \cap host = {} /\ create' = [create EXCEPT !.state = "failed", !.stage = "complete"]
             /\ phase' = (IF HasBaseline THEN "stopped" ELSE "absent") /\ Return(TRUE) /\ UNCHANGED faults
    <2>1. /\ create' \in CreateRecord /\ create'.state = "failed" /\ create'.stage = "complete" /\ create'.sealed
          /\ create'.undone = create.undone /\ create'.journal = create.journal
      BY <1>2, <1>4 DEF CreateRecord, CreateStages, States
    <2>2. Journaled' = Journaled /\ Armed' = Armed
      BY <2>1 DEF Journaled, Armed
    <2>3. Armed \subseteq create.undone
      <3>1. create.journal \in 0 .. N /\ N \in Nat
        BY <1>2, Profiles DEF CreateRecord
      <3>2. \A j \in 1 .. create.journal : j \in 1 .. N /\ j > 0
        BY <3>1
      <3> QED
        BY <1>2, <1>4, <3>2 DEF Passed, Armed, Journaled
    <2>4. RecordInv'
      BY <1>1, <1>2, <1>4, <2>1, <2>2, <2>3 DEF RecordInv, OneEffectAhead, FailedIsAbsent, ReleasedIsGone
    <2>5. TypeOK'
      <3>1. call' = Idle /\ daemon' \in {"down", "starting", "up"} /\ Idle \in Calls
        BY <1>2, <1>4, ReturnTyped, IdleTyped
      <3>2. phase' \in Phases
        BY <1>4 DEF Phases
      <3> QED
        BY <1>1, <1>2, <1>4, <2>1, <3>1, <3>2 DEF TypeOK, Calls
    <2> QED
      BY <1>4, <2>4, <2>5, IdleKept DEF AcqInv, Return
  <1> QED
    BY <1>3, <1>4 DEF FinishRollback

-----------------------------------------------------------------------------
(* Delete.                                                                   *)

\* Where a delete is.
LEMMA Removing ==
    ASSUME AcqInv, NEW pc \in {"remove", "release"}, At("remove", pc)
    PROVE  /\ TypeOK /\ RecordInv /\ call \in Calls /\ call.method = "remove" /\ call.pc = pc
           /\ remove \in RemoveRecord /\ remove.state = "running" /\ create.stage = "complete"
           /\ call.at \in 1 .. N + 1 /\ \A j \in 1 .. call.at - 1 : DeleteOrder[j] \in remove.released
           /\ pc = "release" => call.at \in 1 .. N /\ AtKind \notin host
           /\ call.at <= N => call.at \in 1 .. N /\ AtKind \in Kinds /\ AtKind = DeleteOrder[call.at]
  <1>1. TypeOK /\ RecordInv /\ CallInv /\ N \in Nat
    BY Profiles DEF AcqInv
  <1>2. /\ call \in Calls /\ call.method = "remove" /\ call.pc = pc /\ remove \in RemoveRecord /\ remove.state = "running"
        /\ create.stage = "complete" /\ call.at \in 1 .. N + 1
        /\ \A j \in 1 .. call.at - 1 : DeleteOrder[j] \in remove.released
        /\ pc = "release" => call.at <= N /\ AtKind \notin host
    BY <1>1, Typed DEF At, CallInv, RecordInv
  <1>3. call.at <= N => call.at \in 1 .. N /\ AtKind \in Kinds /\ AtKind = DeleteOrder[call.at]
    <2>1. call.at <= N => call.at \in 1 .. N
      BY <1>1, <1>2
    <2> QED
      BY <2>1, Profiles DEF AtKind, Removal
  <1> QED
    BY <1>1, <1>2, <1>3

\* A delete that goes on in its loop.
LEMMA RemoveGoesOn ==
    ASSUME call' \in Calls, call'.method = "remove", call'.pc \in {"remove", "release"}, remove'.state = "running",
           call'.at \in 1 .. N + 1, \A j \in 1 .. call'.at - 1 : DeleteOrder[j] \in remove'.released,
           call'.pc = "release" => call'.at <= N /\ AtKind' \notin host'
    PROVE  CallInv'
  BY DEF CallInv, CreatePCs, RollbackPCs, Whole

\* The position behind one of the profile.
LEMMA OneFurther == \A i \in 1 .. N : i + 1 \in 0 .. N + 1
  BY Profiles

\* The loop behind a kind that is released.
LEMMA PassesOne ==
    ASSUME NEW i \in 1 .. N, NEW S, \A j \in 1 .. i - 1 : DeleteOrder[j] \in S, DeleteOrder[i] \in S,
           NEW k, k = i + 1
    PROVE  k \in 1 .. N + 1 /\ \A j \in 1 .. k - 1 : DeleteOrder[j] \in S
  <1>1. N \in Nat
    BY Profiles
  <1>2. ASSUME NEW j \in 1 .. k - 1 PROVE j \in 1 .. i - 1 \/ j = i
    BY <1>1
  <1> QED
    BY <1>1, <1>2

\* A released kind is passed over.
LEMMA SkipKeeps ==
    ASSUME AcqInv, Skip
    PROVE  AcqInv'
  <1>1. /\ At("remove", "remove") /\ call.at <= N /\ AtKind \in remove.released
        /\ call' = [call EXCEPT !.at = @ + 1] /\ UNCHANGED <<durable, host, daemon, faults>>
    BY DEF Skip
  <1>2. /\ TypeOK /\ call \in Calls /\ call.method = "remove" /\ call.pc = "remove" /\ remove.state = "running"
        /\ call.at \in 1 .. N /\ DeleteOrder[call.at] \in remove.released
        /\ \A j \in 1 .. call.at - 1 : DeleteOrder[j] \in remove.released
    BY <1>1, Removing
  <1>3. call'.at = call.at + 1
    BY <1>1, <1>2 DEF Calls
  <1>4. call' \in Calls /\ call'.method = "remove" /\ call'.pc = "remove"
    <2>1. call.at + 1 \in 0 .. N + 1
      BY <1>2, OneFurther
    <2> QED
      BY <1>1, <1>2, <2>1 DEF Calls
  <1>5. CallInv'
    <2>1. call'.at \in 1 .. N + 1 /\ \A j \in 1 .. call'.at - 1 : DeleteOrder[j] \in remove.released
      BY <1>2, <1>3, PassesOne
    <2> QED
      BY <1>1, <1>2, <1>4, <2>1, RemoveGoesOn DEF durable
  <1> QED
    BY <1>1, <1>2, <1>4, <1>5, QuietStep, Typed DEF durable

\* A removal that answers has removed.
LEMMA CleanupKeeps ==
    ASSUME AcqInv, Cleanup
    PROVE  AcqInv'
  <1>1. /\ At("remove", "remove") /\ call.at <= N /\ host' \in {host, Without(AtKind)} /\ UNCHANGED durable
        /\ (UNCHANGED faults \/ Fault)
    BY DEF Cleanup
  <1>2. /\ TypeOK /\ call \in Calls /\ call.method = "remove" /\ call.pc = "remove" /\ remove.state = "running"
        /\ call.at \in 1 .. N /\ \A j \in 1 .. call.at - 1 : DeleteOrder[j] \in remove.released
    BY <1>1, Removing
  <1>3. host' \subseteq host /\ AtKind \notin Without(AtKind)
    BY <1>1 DEF Without
  <1>4. CASE host' = Without(AtKind) /\ Goto("release")
    <2>1. "release" \in PCs
      BY DEF PCs
    <2>2. call' \in Calls /\ call'.pc = "release" /\ call'.method = "remove" /\ call'.at = call.at
      BY <1>2, <1>4, <2>1, GotoTyped DEF Goto
    <2>3. AtKind' \notin host' /\ call'.at \in 1 .. N + 1 /\ call.at <= N
      BY <1>1, <1>2, <1>3, <1>4, <2>2, Profiles DEF AtKind, Removal
    <2>4. CallInv'
      BY <1>1, <1>2, <2>2, <2>3, RemoveGoesOn DEF durable
    <2> QED
      BY <1>1, <1>2, <1>3, <1>4, <2>2, <2>4, QuietStep, Typed DEF durable, Goto
  <1>5. CASE Return(FALSE)
    <2>1. call' = Idle /\ daemon' \in {"down", "starting", "up"}
      BY <1>2, <1>5, ReturnTyped
    <2> QED
      BY <1>1, <1>2, <1>3, <2>1, ReturnStep, Typed DEF durable
  <1> QED
    BY <1>4, <1>5 DEF Cleanup

\* A release is recorded for a resource that is gone.
LEMMA RecordReleaseKeeps ==
    ASSUME AcqInv, RecordRelease
    PROVE  AcqInv'
  <1>1. /\ At("remove", "release") /\ remove' = [remove EXCEPT !.released = @ \cup {AtKind}]
        /\ call' = [call EXCEPT !.pc = "remove", !.at = @ + 1]
        /\ UNCHANGED <<create, phase, adopted, host, daemon, faults>>
    BY DEF RecordRelease
  <1>2. /\ TypeOK /\ RecordInv /\ call \in Calls /\ call.method = "remove" /\ remove \in RemoveRecord
        /\ remove.state = "running" /\ create.stage = "complete"
        /\ call.at \in 1 .. N /\ AtKind \notin host /\ AtKind \in Kinds /\ AtKind = DeleteOrder[call.at]
        /\ \A j \in 1 .. call.at - 1 : DeleteOrder[j] \in remove.released
    <2>1. \A i \in 1 .. N : i <= N
      BY Profiles
    <2> QED
      BY <1>1, <2>1, Removing
  <1>3. remove' \in RemoveRecord /\ remove'.state = "running" /\ remove'.released = remove.released \cup {AtKind}
    BY <1>1, <1>2 DEF RemoveRecord
  <1>4. call'.at = call.at + 1
    BY <1>1, <1>2 DEF Calls
  <1>5. call' \in Calls /\ call'.method = "remove" /\ call'.pc = "remove"
    <2>1. call.at + 1 \in 0 .. N + 1 /\ "remove" \in PCs
      BY <1>2, OneFurther DEF PCs
    <2> QED
      BY <1>1, <1>2, <2>1 DEF Calls
  <1>6. CallInv'
    <2>1. call'.at \in 1 .. N + 1 /\ \A j \in 1 .. call'.at - 1 : DeleteOrder[j] \in remove'.released
      BY <1>2, <1>3, <1>4, PassesOne
    <2> QED
      BY <1>3, <1>5, <2>1, RemoveGoesOn
  <1>7. RecordInv'
    BY <1>1, <1>2, <1>3 DEF RecordInv, OneEffectAhead, FailedIsAbsent, ReleasedIsGone, Armed, Journaled
  <1>8. TypeOK'
    BY <1>1, <1>2, <1>3, <1>5 DEF TypeOK, Calls
  <1> QED
    BY <1>6, <1>7, <1>8 DEF AcqInv

\* A delete succeeds when everything was released.
LEMMA ConfirmRemoveKeeps ==
    ASSUME AcqInv, ConfirmRemove
    PROVE  AcqInv'
  <1>1. /\ At("remove", "remove") /\ call.at = N + 1 /\ remove' = [remove EXCEPT !.state = "succeeded"]
        /\ phase' = "absent" /\ adopted' = 0 /\ Return(TRUE) /\ UNCHANGED <<create, host, faults>>
    BY DEF ConfirmRemove
  <1>2. /\ TypeOK /\ RecordInv /\ remove \in RemoveRecord /\ remove.state = "running" /\ create.stage = "complete"
        /\ \A j \in 1 .. call.at - 1 : DeleteOrder[j] \in remove.released
    BY <1>1, Removing
  <1>3. remove' \in RemoveRecord /\ remove'.state = "succeeded" /\ remove'.released = remove.released
    BY <1>1, <1>2 DEF RemoveRecord, States
  <1>4. host = {}
    <2>1. \A j \in 1 .. N : DeleteOrder[j] \in remove.released
      <3>1. call.at - 1 = N
        BY <1>1, Profiles
      <3> QED
        BY <1>1, <1>2, <3>1
    <2>2. Kinds \subseteq remove.released /\ host \subseteq Kinds
      BY <1>2, <2>1, Profiles, Typed
    <2> QED
      BY <1>2, <2>2 DEF RecordInv, ReleasedIsGone
  <1>5. RecordInv'
    BY <1>1, <1>2, <1>3, <1>4 DEF RecordInv, OneEffectAhead, FailedIsAbsent, ReleasedIsGone, Armed, Journaled
  <1>6. TypeOK'
    <2>1. call' = Idle /\ daemon' \in {"down", "starting", "up"} /\ Idle \in Calls
      BY <1>1, <1>2, ReturnTyped, IdleTyped
    <2>2. phase' \in Phases
      BY <1>1 DEF Phases
    <2> QED
      BY <1>1, <1>2, <1>3, <2>1, <2>2 DEF TypeOK, Calls
  <1> QED
    BY <1>1, <1>5, <1>6, IdleKept DEF AcqInv, Return

-----------------------------------------------------------------------------
(* Calls that begin, and what happens to the daemon and to the host.          *)

\* What a method knows is kept while the records stand and nothing is acquired.
LEMMA CallKept ==
    ASSUME AcqInv, UNCHANGED <<create, remove, call>>, host' \subseteq host
    PROVE  CallInv'
  <1>1. Armed' = Armed /\ \A i \in 0 .. N : Passed(i) => Passed(i)'
    BY RecordKept DEF AcqInv
  <1>2. N \in Nat /\ 0 \in 0 .. N /\ \A i \in 1 .. N : i \in 0 .. N
    BY Profiles
  <1>3. call.pc \in {"undo", "undone"} /\ ~call.failed => Passed(call.at)'
    BY <1>1, <1>2 DEF AcqInv, CallInv
  <1>4. call.pc = "inspect" /\ ~call.failed => Passed(0)'
    BY <1>1, <1>2 DEF AcqInv, CallInv
  <1>5. AtKind' = AtKind
    BY DEF AtKind, Removal
  <1> QED
    BY <1>1, <1>3, <1>4, <1>5 DEF AcqInv, CallInv

\* Losses, the end of the workload and a restarted daemon take nothing from the promises.
LEMMA HostKeeps ==
    ASSUME AcqInv, Lose \/ Quiesce \/ Restart
    PROVE  AcqInv'
  <1>1. /\ UNCHANGED <<create, remove, adopted, call>> /\ host' \subseteq host /\ (UNCHANGED faults \/ Fault)
        /\ phase' \in {phase, "stopped"} /\ daemon' \in {daemon, "starting"}
    BY DEF Lose, Quiesce, Restart, Without, durable
  <1>2. phase' \in Phases /\ daemon' \in {"down", "starting", "up"} /\ call' \in Calls
    BY <1>1, Typed DEF AcqInv, Phases
  <1> QED
    BY <1>1, <1>2, CallKept, QuietStep

\* A crash or an abandoned call leaves the records as they are.
LEMMA GivesUp ==
    ASSUME AcqInv, Crash \/ Abandon
    PROVE  AcqInv'
  <1>1. /\ UNCHANGED <<create, remove, adopted, phase>> /\ host' = host /\ Fault /\ call' = Idle
        /\ (daemon' = "down" \/ Return(FALSE))
    BY DEF Crash, Abandon, Return, durable
  <1>2. phase' \in Phases /\ daemon' \in {"down", "starting", "up"}
    BY <1>1, Typed, ReturnTyped DEF AcqInv
  <1> QED
    BY <1>1, <1>2, ReturnStep

\* A create or a rollback that begins.
LEMMA BeginsKept ==
    ASSUME NEW by \in {"client", "recover"}, create'.state = "running",
           \/ call' = [Idle EXCEPT !.by = by, !.method = "rollback", !.pc = "seal"]
           \/ create'.stage # "rollback" /\ call' = [Idle EXCEPT !.by = by, !.method = "create", !.pc = "begin"]
    PROVE  call' \in Calls /\ CallInv'
  <1>1. 0 \in 0 .. N + 1 /\ {"seal", "begin"} \subseteq PCs
    BY Profiles DEF PCs
  <1> QED
    BY <1>1 DEF CallInv, CreatePCs, RollbackPCs, Whole, Calls, Idle

\* A delete that is entered.
LEMMA EnterKept ==
    ASSUME TypeOK, NEW by \in {"client", "recover"}, EnterRemove(by), remove'.state = "running"
    PROVE  call' \in Calls /\ CallInv' /\ daemon' \in {"down", "starting", "up"}
  <1>1. daemon' \in {"down", "starting", "up"}
    BY Typed DEF EnterRemove
  <1>2. CASE call' = Idle
    BY <1>1, <1>2, IdleTyped, IdleKept
  <1>3. CASE call' = [Idle EXCEPT !.method = "remove", !.by = by, !.pc = "remove", !.at = 1]
    <2>1. 1 \in 0 .. N + 1 /\ 1 \in 1 .. N + 1 /\ "remove" \in PCs
      BY Profiles DEF PCs
    <2>2. call' \in Calls /\ call'.method = "remove" /\ call'.pc = "remove" /\ call'.at = 1
      BY <1>3, <2>1 DEF Calls, Idle
    <2>3. \A j \in 1 .. call'.at - 1 : DeleteOrder[j] \in remove'.released
      BY <2>2
    <2> QED
      BY <1>1, <2>1, <2>2, <2>3, RemoveGoesOn
  <1> QED
    BY <1>2, <1>3 DEF EnterRemove

\* A create begins, or is retried where its record says.
LEMMA CreateBeginKeeps ==
    ASSUME AcqInv, CreateBegin
    PROVE  AcqInv'
  <1>1. /\ call' = [Idle EXCEPT !.by = "client",
                                !.method = IF create.stage = "rollback" THEN "rollback" ELSE "create",
                                !.pc = IF create.stage = "rollback" THEN "seal" ELSE "begin"]
        /\ UNCHANGED <<remove, adopted, host, daemon, faults>>
    BY DEF CreateBegin
  <1>2. CASE create.state = "running" /\ UNCHANGED <<create, phase>>
    <2>1. call' \in Calls /\ CallInv'
      BY <1>1, <1>2, BeginsKept
    <2> QED
      BY <1>1, <1>2, <2>1, QuietStep, Typed DEF AcqInv
  <1>3. CASE /\ create.state = "unused" /\ create' = [create EXCEPT !.state = "running", !.stage = "persist_intent"]
             /\ phase' = "creating"
    <2>1. /\ create = Unused /\ remove.state = "unused" /\ TypeOK /\ create \in CreateRecord
          /\ create.stage = "none"
      BY <1>3, Typed DEF AcqInv, RecordInv, Unused
    <2>2. /\ create' \in CreateRecord /\ create'.state = "running" /\ create'.stage = "persist_intent"
          /\ create'.undone = create.undone /\ create'.journal = create.journal /\ create'.sealed = FALSE
          /\ create'.undone = {}
      BY <1>3, <2>1 DEF CreateRecord, CreateStages, States, Unused
    <2>3. call' \in Calls /\ CallInv'
      <3>1. call' = [Idle EXCEPT !.by = "client", !.method = "create", !.pc = "begin"]
        BY <1>1, <2>1
      <3> QED
        BY <2>2, <3>1, BeginsKept
    <2>4. RecordInv'
      BY <1>1, <2>1, <2>2 DEF AcqInv, RecordInv, OneEffectAhead, FailedIsAbsent, ReleasedIsGone
    <2>5. TypeOK'
      BY <1>1, <1>3, <2>1, <2>2, <2>3 DEF TypeOK, Calls, Phases
    <2> QED
      BY <2>3, <2>4, <2>5 DEF AcqInv
  <1> QED
    BY <1>2, <1>3 DEF CreateBegin

\* A delete begins, or is retried from the first kind.
LEMMA RemoveBeginKeeps ==
    ASSUME AcqInv, RemoveBegin
    PROVE  AcqInv'
  <1>1. EnterRemove("client") /\ UNCHANGED <<create, phase, adopted, host, faults>>
    BY DEF RemoveBegin
  <1>2. CASE remove.state = "running" /\ UNCHANGED remove
    <2>1. call' \in Calls /\ CallInv' /\ daemon' \in {"down", "starting", "up"}
      BY <1>1, <1>2, EnterKept DEF AcqInv
    <2> QED
      BY <1>1, <1>2, <2>1, QuietStep, Typed DEF AcqInv
  <1>3. CASE /\ remove.state = "unused" /\ create.state \in {"succeeded", "failed"}
             /\ remove' = [remove EXCEPT !.state = "running"]
    <2>1. /\ TypeOK /\ remove \in RemoveRecord /\ create.stage = "complete" /\ remove.released = {}
      BY <1>3, Typed DEF AcqInv, RecordInv
    <2>2. remove' \in RemoveRecord /\ remove'.state = "running" /\ remove'.released = {}
      BY <1>3, <2>1 DEF RemoveRecord, States
    <2>3. call' \in Calls /\ CallInv' /\ daemon' \in {"down", "starting", "up"}
      BY <1>1, <2>1, <2>2, EnterKept
    <2>4. RecordInv'
      BY <1>1, <2>1, <2>2 DEF AcqInv, RecordInv, OneEffectAhead, FailedIsAbsent, ReleasedIsGone, Armed, Journaled
    <2>5. TypeOK'
      BY <1>1, <2>1, <2>2, <2>3 DEF TypeOK, Calls
    <2> QED
      BY <2>3, <2>4, <2>5 DEF AcqInv
  <1> QED
    BY <1>2, <1>3 DEF RemoveBegin

\* Recovery enters what the records say was under way.
LEMMA ReconcileKeeps ==
    ASSUME AcqInv, Reconcile
    PROVE  AcqInv'
  <1>1. /\ call = Idle /\ UNCHANGED <<create, remove, phase, adopted, host>> /\ TypeOK
        /\ (UNCHANGED faults \/ Fault)
    BY DEF Reconcile, AcqInv, durable
  <1>2. CASE daemon' \in {"up", "down"} /\ UNCHANGED call
    BY <1>1, <1>2, ReturnStep, Typed
  <1>3. CASE remove.state = "running" /\ EnterRemove("recover")
    <2>1. call' \in Calls /\ CallInv' /\ daemon' \in {"down", "starting", "up"}
      BY <1>1, <1>3, EnterKept
    <2> QED
      BY <1>1, <2>1, QuietStep, Typed
  <1>4. CASE /\ ResumesCreate /\ UNCHANGED daemon
             /\ call' = [Idle EXCEPT !.by = "recover", !.method = "create", !.pc = "begin"]
    <2>1. call' \in Calls /\ CallInv'
      BY <1>1, <1>4, BeginsKept DEF ResumesCreate
    <2> QED
      BY <1>1, <1>4, <2>1, QuietStep, Typed
  <1>5. CASE /\ create.state = "running" /\ UNCHANGED daemon
             /\ call' = [Idle EXCEPT !.by = "recover", !.method = "rollback", !.pc = "seal"]
    <2>1. call' \in Calls /\ CallInv'
      BY <1>1, <1>5, BeginsKept
    <2> QED
      BY <1>1, <1>5, <2>1, QuietStep, Typed
  <1> QED
    BY <1>2, <1>3, <1>4, <1>5 DEF Reconcile

-----------------------------------------------------------------------------
(* The invariant.                                                            *)

\* The steps of a create.
LEMMA AcquiresKeep ==
    ASSUME AcqInv, CreateSteps
    PROVE  AcqInv'
  BY PreflightKeeps, EnsureKeeps, JournalReceiptKeeps, AcquiredKeeps, AttestationsKeep, RecordAttachKeeps,
     RecordBaselineKeeps, ConfirmCreateKeeps DEF CreateSteps

\* The steps of a rollback.
LEMMA InversesKeep ==
    ASSUME AcqInv, RollbackSteps
    PROVE  AcqInv'
  BY SealKeeps, RunInverseKeeps, RecordInverseKeeps, FinishRollbackKeeps DEF RollbackSteps

\* The steps of a delete.
LEMMA RemovalsKeep ==
    ASSUME AcqInv, RemoveSteps
    PROVE  AcqInv'
  BY SkipKeeps, CleanupKeeps, RecordReleaseKeeps, ConfirmRemoveKeeps DEF RemoveSteps

\* Nothing is acquired at first.
LEMMA AcqInit == Init => AcqInv
  <1> SUFFICES ASSUME Init PROVE AcqInv
    OBVIOUS
  <1>1. TypeOK
    <2>1. 0 \in 0 .. N /\ 0 \in 0 .. N + 1 /\ 0 \in 0 .. MaxFaults
      BY Profiles
    <2> QED
      BY <2>1, IdleTyped DEF Init, TypeOK, CreateRecord, RemoveRecord, Unused, States, CreateStages, Phases, Calls
  <1>2. RecordInv
    BY DEF Init, RecordInv, OneEffectAhead, FailedIsAbsent, ReleasedIsGone, Unused
  <1>3. CallInv
    BY DEF Init, CallInv, Idle, CreatePCs, RollbackPCs, Whole
  <1> QED
    BY <1>1, <1>2, <1>3 DEF AcqInv

\* Every step keeps the invariant.
LEMMA AcqStep ==
    ASSUME AcqInv, Next
    PROVE  AcqInv'
  BY AcquiresKeep, InversesKeep, RemovalsKeep, HostKeeps, GivesUp, CreateBeginKeeps, RemoveBeginKeeps, ReconcileKeeps
     DEF Next, EngineSteps

\* So does none.
LEMMA AcqStutter ==
    ASSUME AcqInv, UNCHANGED vars
    PROVE  AcqInv'
  <1>1. /\ UNCHANGED <<create, remove, adopted, call, faults>> /\ host' \subseteq host /\ phase' \in Phases
        /\ daemon' \in {"down", "starting", "up"} /\ call' \in Calls
    BY Typed DEF AcqInv, vars
  <1> QED
    BY <1>1, CallKept, QuietStep

\* For every ordered profile the records and the method under way keep their promises,
\* whatever crashes, fails, is abandoned or lost.
THEOREM AcqInvariant == Spec => []AcqInv
  <1>1. Init => AcqInv
    BY AcqInit
  <1>2. AcqInv /\ [Next]_vars => AcqInv'
    BY AcqStep, AcqStutter
  <1> QED
    BY <1>1, <1>2, PTL DEF Spec

-----------------------------------------------------------------------------
(* What it says of the order in which things are taken away.                  *)

\* The state invariants: one effect ahead, inverses and removals unblocked, releases
\* and failures that are evidence of absence.
LEMMA AcqSafe ==
    ASSUME AcqInv
    PROVE  TypeOK /\ OneEffectAhead /\ FailedIsAbsent /\ ReleasedIsGone /\ InversesUnblocked /\ RemovalUnblocked
  <1>1. TypeOK /\ RecordInv /\ CallInv /\ host \subseteq Kinds /\ create \in CreateRecord
    BY Typed DEF AcqInv
  <1>2. InversesUnblocked
    <2> SUFFICES ASSUME At("rollback", "undo"), ~call.failed,
                        NEW k \in Blocks[Profile[call.at]] \cap host \cap Journaled
                 PROVE  FALSE
      BY DEF InversesUnblocked
    <2>1. call.at \in 1 .. N /\ Profile[call.at] \in Armed /\ Passed(call.at)
      BY <1>1 DEF CallInv, At
    <2>2. PICK j \in 1 .. N : Profile[j] = k
      <3>1. k \in Kinds
        BY <1>1
      <3> QED
        BY <3>1, Profiles
    <2>3. call.at < j /\ k \in Actionable
      BY <2>1, <2>2, AcquisitionAssumption DEF AcquisitionAssumption, Armed
    <2>4. k \in create.undone
      <3>1. j > call.at /\ Profile[j] \in Armed
        BY <2>1, <2>2, <2>3, Profiles DEF Armed
      <3> QED
        BY <2>1, <2>2, <3>1 DEF Passed
    <2> QED
      BY <1>1, <2>4 DEF RecordInv
  <1>3. RemovalUnblocked
    <2> SUFFICES ASSUME At("remove", "remove"), call.at <= N, NEW k \in Blocks[AtKind] \cap host
                 PROVE  FALSE
      BY DEF RemovalUnblocked
    <2>1. /\ call.at \in 1 .. N /\ AtKind = DeleteOrder[call.at]
          /\ \A j \in 1 .. call.at - 1 : DeleteOrder[j] \in remove.released
      BY Removing DEF AcqInv
    <2>2. PICK j \in 1 .. N : DeleteOrder[j] = k
      <3>1. k \in Kinds
        BY <1>1
      <3> QED
        BY <3>1, Profiles
    <2>3. j < call.at
      BY <2>1, <2>2, AcquisitionAssumption DEF AcquisitionAssumption
    <2>4. j \in 1 .. call.at - 1
      BY <2>1, <2>2, <2>3, Profiles
    <2> QED
      BY <1>1, <2>1, <2>2, <2>4 DEF RecordInv, ReleasedIsGone
  <1> QED
    BY <1>1, <1>2, <1>3 DEF RecordInv

\* Until the rollback is sealed, only a loss takes anything away from a running create;
\* once it is sealed nothing is acquired; and a create that succeeds is whole.
LEMMA AcqSteps ==
    ASSUME AcqInv, [Next]_vars
    PROVE  /\ create.state = "running" /\ ~create.sealed /\ faults' = faults => host \subseteq host'
           /\ create.stage = "rollback" => host' \subseteq host /\ create'.journal = create.journal
           /\ WholeStep
  <1>1. TypeOK /\ RecordInv /\ CallInv /\ create \in CreateRecord /\ faults \in 0 .. MaxFaults /\ MaxFaults \in Nat
    BY Typed, Profiles DEF AcqInv
  <1>2. ASSUME create.state = "running", ~create.sealed, faults' = faults PROVE host \subseteq host'
    <2>1. ~Lose
      BY <1>1, <1>2 DEF Lose, Fault
    <2>2. ~RunInverse /\ ~Cleanup
      <3>1. ~At("rollback", "undo")
        BY <1>1, <1>2 DEF CallInv, At
      <3>2. ~At("remove", "remove")
        BY <1>1, <1>2 DEF CallInv, RecordInv, At
      <3> QED
        BY <3>1, <3>2 DEF RunInverse, Cleanup
    <2>3. CASE Ensure
      BY <2>3 DEF Ensure
    <2>4. CASE UNCHANGED host
      BY <2>4
    <2> QED
      BY <2>1, <2>2, <2>3, <2>4 DEF Next, CreateBegin, RemoveBegin, EngineSteps, CreateSteps, RollbackSteps, RemoveSteps, Preflight,
         JournalReceipt, Acquired, Attach, RecordAttach, Snapshot, RecordBaseline, ObservePrepared, Attest, ConfirmCreate, Checkpoint,
         Seal, RecordInverse, FinishRollback, Skip, RecordRelease, ConfirmRemove, Quiesce, Crash, Abandon, Restart, Reconcile, vars
  <1>3. ASSUME create.stage = "rollback" PROVE host' \subseteq host /\ create'.journal = create.journal
    <2>1. ~CreateSteps
      <3>1. call.method # "create"
        BY <1>1, <1>3 DEF CallInv
      <3> QED
        BY <3>1 DEF CreateSteps, Preflight, Ensure, JournalReceipt, Acquired, Attach, RecordAttach, Snapshot, RecordBaseline,
           ObservePrepared, Attest, ConfirmCreate, At
    <2>2. CASE CreateBegin
      BY <1>1, <1>3, <2>2 DEF CreateBegin, RecordInv, Unused
    <2>3. CASE RollbackSteps
      BY <1>1, <2>3 DEF RollbackSteps, Seal, RunInverse, RecordInverse, FinishRollback, Without, durable, CreateRecord
    <2>4. CASE RemoveSteps
      BY <2>4 DEF RemoveSteps, Skip, Cleanup, RecordRelease, ConfirmRemove, Without, durable
    <2>5. CASE Lose
      BY <2>5 DEF Lose, Without, durable
    <2> QED
      BY <2>1, <2>2, <2>3, <2>4, <2>5 DEF Next, RemoveBegin, EngineSteps, Quiesce, Crash, Abandon, Restart, Reconcile, durable, vars
  <1>4. ASSUME create'.state = "succeeded", create.state = "running"
        PROVE  create.journal = N /\ (HasBaseline => create.baseline)
    <2>1. CASE ConfirmCreate
      BY <1>1, <2>1 DEF ConfirmCreate, At, CallInv, Whole
    <2>2. CASE UNCHANGED create
      BY <1>4, <2>2
    <2>3. CASE Preflight \/ JournalReceipt \/ RecordAttach \/ RecordBaseline
      BY <1>1, <1>4, <2>3 DEF Preflight, JournalReceipt, RecordAttach, RecordBaseline, Checkpoint, CreateRecord, durable
    <2>4. CASE RollbackSteps
      BY <1>1, <1>4, <2>4 DEF RollbackSteps, Seal, RunInverse, RecordInverse, FinishRollback, durable, CreateRecord
    <2>5. CASE CreateBegin
      BY <1>1, <1>4, <2>5 DEF CreateBegin
    <2> QED
      BY <2>1, <2>2, <2>3, <2>4, <2>5 DEF Next, RemoveBegin, EngineSteps, CreateSteps, RemoveSteps, Ensure, Acquired,
         Attach, Snapshot, ObservePrepared, Attest, Skip, Cleanup, RecordRelease, ConfirmRemove, Quiesce, Crash, Abandon, Lose, Restart,
         Reconcile, durable, vars
  <1> QED
    BY <1>2, <1>3, <1>4 DEF WholeStep
=============================================================================
