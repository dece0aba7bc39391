-------------------------- MODULE ShimWrapperProofs --------------------------
(***************************************************************************)
(* Proofs about ShimWrapper, for any number of connections, request IDs,     *)
(* commands, failed writes and lives.                                        *)
(***************************************************************************)
EXTENDS ShimWrapper, TLAPS

-----------------------------------------------------------------------------
(* The inductive invariant. *)

Executing(c) == calls[c].pc \notin {"free", "waiting"}
Launcher(c) == calls[c].pc \in {"launching", "publishing", "recording"}

\* One connection executes a request; its entry has no response before that
\* connection answers, and the response of an entry never changes.
CacheInv ==
    /\ \A c \in Connections : calls[c].pc # "free" => controlEntries[calls[c].id] # None
    /\ \A c \in Connections : Executing(c) => controlEntries[calls[c].id].response = None
    /\ \A c, d \in Connections :
         Executing(c) /\ Executing(d) /\ calls[c].id = calls[d].id => c = d
    /\ \A c \in Connections : At(c, "answering") => calls[c].result \in Answers
    /\ \A c \in Connections : At(c, "preparing") => Content(c) \in Commands
    /\ \A a \in answers : /\ controlEntries[a.id] # None
                          /\ controlEntries[a.id].response = a.answer
    /\ \A id \in RequestIDs :
         delivered[id] # 0 =>
            /\ controlEntries[id] # None
            /\ \A c \in Connections :
                 Executing(c) /\ calls[c].id = id => At(c, "answering")
    /\ DeliveredOnce

Unstarted ==
    /\ starts = 0 /\ task = NoTask /\ workload = "none"
    /\ child = "none" /\ ~quiescenceErr

Unrecorded == terminal = None /\ disk.record = None /\ persistenceErr = "none"

Truth(r) == workload = IF r = "start_failed" THEN "none" ELSE "quiet"

\* Where the one start of a wrapper is.
StartInv ==
    /\ \A c, d \in Connections : Launcher(c) /\ Launcher(d) => c = d
    /\ ~gateConsumed => /\ Unstarted /\ Unrecorded /\ ~starting
                        /\ \A c \in Connections : ~Launcher(c)
    /\ starts = 0 => Unstarted
    /\ \A c \in Connections : At(c, "launching") =>
         Unstarted /\ Unrecorded /\ starting /\ rootfs # None
    /\ \A c \in Connections : At(c, "publishing") =>
         /\ starts = 1 /\ task = NoTask /\ child = "none" /\ ~quiescenceErr
         /\ Unrecorded /\ starting
         /\ \/ calls[c].result = "unknown" /\ workload = "unknown"
            \/ calls[c].result \in {"child", "unsafe_child"} /\ workload \in {"running", "zombie"}
    /\ \A c \in Connections : At(c, "recording") =>
         task.pc \in {"persist", "publish", "done"} /\ task.record # None
    /\ starts = 1 /\ task.pc # "done" /\ child = "none" /\ ~quiescenceErr => starting
    /\ \A c \in Connections : At(c, "sending") =>
         task.pc # "none" /\ (task.pc = "wait" => child = "safe")

\* Where the child is, and what may be recorded of it.
TaskInv ==
    /\ task.pc # "none" => starts = 1
    /\ child # "none" => task.pc # "none"
    /\ starts = 1 /\ task.pc \in {"none", "wait", "clean", "seal", "persist"} => Unrecorded
    /\ task.pc \in {"wait", "clean", "seal", "persist", "publish"} =>
         ~quiescenceErr /\ persistenceErr = "none" /\ terminal = None
    /\ task.pc \in {"wait", "clean", "seal"} => child # "none"
    /\ task.pc = "wait" => workload \in {"running", "zombie"}
    /\ task.pc = "clean" => workload = "waited"
    /\ task.pc = "seal" => workload = "unknown" \/ (workload = "quiet" /\ child = "unsafe")
    /\ task.pc \in {"persist", "publish"} => task.record # None /\ Truth(task.record)
    /\ task.pc = "publish" => /\ disk.record \in {None, task.record}
                              /\ task.ok => disk.record = task.record /\ disk.synced
    /\ task.pc = "done" => workload \in {"none", "quiet", "unknown"}
    /\ task.pc = "done" =>
         IF terminal = None THEN quiescenceErr \/ persistenceErr = "unbuildable"
         ELSE task.record = terminal

RecordInv ==
    /\ terminal = None /\ task.pc # "publish" => disk.record = None
    /\ terminal = None => persistenceErr # "uncommitted"
    /\ terminal # None => ~quiescenceErr /\ child = "none" /\ persistenceErr # "unbuildable"
    /\ terminal # None /\ starts = 0 =>
         disk.record = terminal /\ persistenceErr = "none"
    /\ terminal # None /\ starts # 0 =>
         /\ task.pc = "done" /\ Truth(terminal)
         /\ disk.record \in {None, terminal}
         /\ persistenceErr = "none" => disk.record = terminal /\ disk.synced

DeadInv ==
    ~alive => /\ \A c \in Connections : calls[c] = Free
              /\ task = NoTask /\ workload = "none"

PrepareInv ==
    /\ GateOpensOnce
    /\ ~rootfsStarted => preparations = 0

ShimInv ==
    /\ ShimTypeOK /\ CacheInv /\ DeadInv /\ PrepareInv
    /\ alive => StartInv /\ TaskInv /\ RecordInv
    /\ ReportedIsCommitted

-----------------------------------------------------------------------------
(* Types of what a step writes. *)

\* A task that begins with the terminal record.
LEMMA TaskMade ==
    ASSUME NEW r \in Reasons
    PROVE  [pc |-> "persist", record |-> r, ok |-> FALSE] \in Tasks
BY DEF Tasks, Records

\* A task that goes on.
LEMMA TaskMoved ==
    ASSUME NEW t \in Tasks, NEW ok \in BOOLEAN,
           NEW p \in {"none", "wait", "clean", "seal", "persist", "publish", "done"}
    PROVE  /\ [t EXCEPT !.pc = p] \in Tasks
           /\ [t EXCEPT !.pc = p, !.ok = ok] \in Tasks
BY DEF Tasks

\* No task is typed as one.
LEMMA NoTaskTyped == NoTask \in Tasks
BY DEF NoTask, Tasks, Records

\* What an attempt to write the terminal record leaves.
LEMMA PersistTyped ==
    ASSUME WorldTypes, NEW r \in Records, NEW ok \in BOOLEAN, PersistTerminal(r, ok)
    PROVE  disk' \in [record : Records, synced : BOOLEAN] /\ faults' \in 0 .. MaxFaults
<1>1. \/ disk' = [record |-> r, synced |-> TRUE] \/ disk' = [record |-> r, synced |-> FALSE]
      \/ disk' = disk
  BY DEF PersistTerminal
<1>2. disk' \in [record : Records, synced : BOOLEAN]
  <2> DEFINE Disks == [record : Records, synced : BOOLEAN]
  <2>1. [record |-> r, synced |-> TRUE] \in Disks /\ [record |-> r, synced |-> FALSE] \in Disks
    OBVIOUS
  <2>2. disk \in Disks
    BY DEF WorldTypes
  <2> HIDE DEF Disks
  <2>3. disk' \in Disks
    BY <1>1, <2>1, <2>2
  <2> QED  BY <2>3 DEF Disks
<1>3. faults' = faults \/ (faults < MaxFaults /\ faults' = faults + 1)
  BY DEF PersistTerminal
<1>4. faults' \in 0 .. MaxFaults
  BY <1>3, ShimAssumption DEF WorldTypes
<1> QED  BY <1>2, <1>4

\* A call that goes on.
LEMMA CallMoved ==
    ASSUME ServingTypes, NEW c \in Connections, calls[c] # Free,
           NEW pc \in PCs, NEW r \in Answers \cup Started \cup {"none"}, Move(c, pc, r)
    PROVE  calls' \in [Connections -> Calls \cup {Free}]
BY DEF ServingTypes, Calls, Move

-----------------------------------------------------------------------------
(* Every action keeps the invariant: one step per conjunct, and below it the  *)
(* facts it rests on where they are not plain from the definitions.          *)

\* server.go: an answer leaves the connection.
LEMMA AnswerKeeps ==
    ASSUME ShimInv, NEW c \in Connections, Answer(c)
    PROVE  ShimInv'
<1> USE ShimAssumption DEF ShimInv, gate, root, record, serving, world, said, Answer,
      Tell, At
<1>1. WrapperTypes'
  BY DEF ShimTypeOK, WrapperTypes
<1>2. ServingTypes'
  BY DEF ShimTypeOK, ServingTypes, CacheInv, Calls, Free, Entries
<1>3. WorldTypes'
  BY DEF ShimTypeOK, WorldTypes
<1>4. CacheInv'
  BY DEF CacheInv, Executing, DeliveredOnce, Content, ShimTypeOK, ServingTypes, Calls,
     Free, Entries
<1>5. DeadInv'
  BY DEF DeadInv
<1>6. PrepareInv'
  BY DEF PrepareInv, GateOpensOnce
<1>7. (alive => StartInv)'
  BY DEF StartInv, Launcher, Unstarted, Unrecorded, Free
<1>8. (alive => TaskInv)'
  BY DEF Unrecorded, TaskInv, Truth
<1>9. (alive => RecordInv)'
  BY DEF RecordInv, Truth
<1>10. ReportedIsCommitted'
  BY DEF ReportedIsCommitted
<1> QED  BY <1>1, <1>2, <1>3, <1>4, <1>5, <1>6, <1>7, <1>8, <1>9, <1>10 DEF ShimTypeOK

\* A repeated request is answered from the cache.
LEMMA ReplayKeeps ==
    ASSUME ShimInv, NEW c \in Connections, Replay(c)
    PROVE  ShimInv'
<1> USE ShimAssumption DEF ShimInv, gate, root, record, serving, world, said, Replay,
      Tell, At
<1>1. WrapperTypes'
  BY DEF ShimTypeOK, WrapperTypes
<1>2. ServingTypes'
  BY DEF ShimTypeOK, ServingTypes, CacheInv, Calls, Free, Entries
<1>3. WorldTypes'
  BY DEF ShimTypeOK, WorldTypes
<1>4. CacheInv'
  BY DEF CacheInv, Executing, DeliveredOnce, Content, Free
<1>5. DeadInv'
  BY DEF DeadInv
<1>6. PrepareInv'
  BY DEF PrepareInv, GateOpensOnce
<1>7. (alive => StartInv)'
  BY DEF StartInv, Launcher, Unstarted, Unrecorded, Free
<1>8. (alive => TaskInv)'
  BY DEF Unrecorded, TaskInv, Truth
<1>9. (alive => RecordInv)'
  BY DEF RecordInv, Truth
<1>10. ReportedIsCommitted'
  BY DEF ReportedIsCommitted
<1> QED  BY <1>1, <1>2, <1>3, <1>4, <1>5, <1>6, <1>7, <1>8, <1>9, <1>10 DEF ShimTypeOK

\* The preparation of the root begins once.
LEMMA PrepareBeginKeeps ==
    ASSUME ShimInv, NEW c \in Connections, PrepareBegin(c)
    PROVE  ShimInv'
<1> USE ShimAssumption DEF ShimInv, gate, root, record, serving, world, said,
      PrepareBegin, Reply, Move, At, Content
<1>1. WrapperTypes'
  BY DEF ShimTypeOK, WrapperTypes
<1>2. ServingTypes'
  BY DEF ShimTypeOK, ServingTypes, Calls, Free, PCs
<1>3. WorldTypes'
  BY DEF ShimTypeOK, WorldTypes
<1>4. CacheInv'
  BY DEF CacheInv, Executing, DeliveredOnce, ShimTypeOK, ServingTypes, Calls, Free, Started
<1>5. DeadInv'
  BY DEF DeadInv, Free
<1>6. PrepareInv'
  BY DEF PrepareInv, GateOpensOnce
<1>7. (alive => StartInv)'
  <2>1. \A d \in Connections : d # c => calls'[d] = calls[d]
    BY DEF ShimTypeOK, ServingTypes
  <2>2. calls'[c].pc \in {"answering", "preparing"}
    BY DEF ShimTypeOK, ServingTypes, Calls, Free
  <2>3. /\ UNCHANGED <<gateConsumed, starting, child, quiescenceErr, rootfs, task, workload>>
        /\ UNCHANGED <<terminal, disk, persistenceErr, starts, alive>>
    OBVIOUS
  <2> HIDE DEF PrepareBegin
  <2> QED
    BY <2>1, <2>2, <2>3 DEF StartInv, Launcher, Unstarted, Unrecorded, At
<1>8. (alive => TaskInv)'
  BY DEF Unrecorded, TaskInv, Truth
<1>9. (alive => RecordInv)'
  BY DEF RecordInv, Truth
<1>10. ReportedIsCommitted'
  BY DEF ReportedIsCommitted
<1> QED  BY <1>1, <1>2, <1>3, <1>4, <1>5, <1>6, <1>7, <1>8, <1>9, <1>10 DEF ShimTypeOK

\* The preparation ends.
LEMMA PrepareEndKeeps ==
    ASSUME ShimInv, NEW c \in Connections, PrepareEnd(c)
    PROVE  ShimInv'
<1> USE ShimAssumption DEF ShimInv, gate, root, record, serving, world, said, PrepareEnd,
      Reply, Move, At, Content
<1>1. WrapperTypes'
  BY DEF ShimTypeOK, WrapperTypes, CacheInv
<1>2. ServingTypes'
  BY DEF ShimTypeOK, ServingTypes, Calls, Free, PCs
<1>3. WorldTypes'
  BY DEF ShimTypeOK, WorldTypes
<1>4. CacheInv'
  BY DEF CacheInv, Executing, DeliveredOnce, ShimTypeOK, ServingTypes, Calls, Free, Started
<1>5. DeadInv'
  BY DEF DeadInv, Free
<1>6. PrepareInv'
  BY DEF PrepareInv, GateOpensOnce, CacheInv
<1>7. (alive => StartInv)'
  <2>1. \A d \in Connections : d # c => calls'[d] = calls[d]
    BY DEF ShimTypeOK, ServingTypes
  <2>2. calls'[c].pc = "answering"
    BY DEF ShimTypeOK, ServingTypes, Calls, Free
  <2>3. rootfs # None => rootfs' # None
    BY DEF CacheInv
  <2>4. /\ UNCHANGED <<gateConsumed, starting, child, quiescenceErr, task, workload>>
        /\ UNCHANGED <<terminal, disk, persistenceErr, starts, alive>>
    OBVIOUS
  <2> QED
    BY <2>1, <2>2, <2>3, <2>4 DEF StartInv, Launcher, Unstarted, Unrecorded, At
<1>8. (alive => TaskInv)'
  BY DEF Unrecorded, TaskInv, Truth
<1>9. (alive => RecordInv)'
  BY DEF RecordInv, Truth
<1>10. ReportedIsCommitted'
  BY DEF ReportedIsCommitted
<1> QED  BY <1>1, <1>2, <1>3, <1>4, <1>5, <1>6, <1>7, <1>8, <1>9, <1>10 DEF ShimTypeOK

\* A release consumes the gate.
LEMMA ReleaseBeginKeeps ==
    ASSUME ShimInv, NEW c \in Connections, ReleaseBegin(c)
    PROVE  ShimInv'
<1> USE ShimAssumption DEF ShimInv, gate, root, record, serving, world, said,
      ReleaseBegin, Reply, Move, At, Content
<1>1. WrapperTypes'
  BY DEF ShimTypeOK, WrapperTypes
<1>2. ServingTypes'
  BY DEF ShimTypeOK, ServingTypes, Calls, Free, PCs
<1>3. WorldTypes'
  BY DEF ShimTypeOK, WorldTypes
<1>4. CacheInv'
  BY SMTT(40) DEF CacheInv, Executing, DeliveredOnce, At, Content, ShimTypeOK, WrapperTypes,
     ServingTypes, WorldTypes, Calls, Free, Entries, Started, Answers
<1>5. DeadInv'
  BY DEF DeadInv, Free
<1>6. PrepareInv'
  BY DEF PrepareInv, GateOpensOnce
<1>7. (alive => StartInv)'
  BY DEF StartInv, Launcher, Unstarted, Unrecorded, ShimTypeOK, ServingTypes, Calls, Free,
     PrepareInv
<1>8. (alive => TaskInv)'
  BY DEF Unrecorded, TaskInv, Truth
<1>9. (alive => RecordInv)'
  BY DEF RecordInv, Truth
<1>10. ReportedIsCommitted'
  BY DEF ReportedIsCommitted
<1> QED  BY <1>1, <1>2, <1>3, <1>4, <1>5, <1>6, <1>7, <1>8, <1>9, <1>10 DEF ShimTypeOK

\* runner.Start runs the workload, fails, or cannot tell.
LEMMA RunnerStartKeeps ==
    ASSUME ShimInv, NEW c \in Connections, RunnerStart(c)
    PROVE  ShimInv'
<1> USE ShimAssumption DEF ShimInv
<1>a. alive /\ Unstarted /\ Unrecorded /\ starting /\ rootfs # None /\ gateConsumed
  BY DEF DeadInv, StartInv, Launcher, At, Free, RunnerStart
<1>b. starts' = 1
  BY <1>a DEF Unstarted, RunnerStart
<1>c. \A d \in Connections : d # c => calls'[d] = calls[d] /\ ~Launcher(d)
  BY <1>a DEF StartInv, Launcher, At, ShimTypeOK, ServingTypes, RunnerStart,
     RecordFailure, Move
<1>e. /\ calls'[c].id = calls[c].id
      /\ \/ /\ calls'[c].pc = "publishing" /\ calls'[c].result \in {"child", "unsafe_child"}
            /\ workload' = "running" /\ task' = task
         \/ /\ calls'[c].pc = "recording" /\ workload' = workload
            /\ task' = [pc |-> "persist", record |-> "start_failed", ok |-> FALSE]
         \/ /\ calls'[c].pc = "recording" /\ workload' = "quiet"
            /\ task' = [pc |-> "persist", record |-> "launch_aborted", ok |-> FALSE]
         \/ /\ calls'[c].pc = "publishing" /\ calls'[c].result = "unknown"
            /\ workload' = "unknown" /\ task' = task
  BY DEF RunnerStart, RecordFailure, Move, At, ShimTypeOK, ServingTypes, Calls, Free
<1>u. UNCHANGED <<gate, root, record, controlEntries, disk, world, preparations,
                   delivered, answers, reported>>
  BY DEF RunnerStart
<1>1. WrapperTypes'
  BY <1>u DEF ShimTypeOK, WrapperTypes, gate, root, record
<1>2. ServingTypes'
  BY DEF RunnerStart, RecordFailure, Move, At, ShimTypeOK, ServingTypes, CacheInv, Calls,
     Free, PCs, Answers, Started, Entries
<1>3. WorldTypes'
  <2>1. task' \in Tasks
    BY <1>e, TaskMade DEF ShimTypeOK, WorldTypes, Reasons
  <2>2. workload' \in Workloads
    BY <1>e DEF ShimTypeOK, WorldTypes, Workloads
  <2> QED
    BY <1>b, <1>u, <2>1, <2>2 DEF ShimTypeOK, WorldTypes, world
<1>4. CacheInv'
  BY <1>c, <1>e, <1>u DEF CacheInv, Executing, DeliveredOnce, At, Content, RunnerStart
<1>5. DeadInv'
  BY <1>a, <1>u DEF DeadInv, world
<1>6. PrepareInv'
  BY <1>a, <1>b, <1>u DEF PrepareInv, GateOpensOnce, root
<1>7. (alive => StartInv)'
  <2>1. \A d \in Connections : d # c => ~At(d, "sending")
    BY <1>a DEF StartInv, Unstarted, NoTask
  <2>2. gateConsumed' /\ starting' /\ Unrecorded' /\ child' = "none" /\ ~quiescenceErr'
    BY <1>a, <1>u DEF Unstarted, Unrecorded, gate, record
  <2>3. \A d \in Connections : d # c => ~Launcher(d)' /\ ~At(d, "sending")'
    BY <1>c, <2>1 DEF Launcher, At
  <2>4. ~At(c, "launching")' /\ ~At(c, "sending")'
    BY <1>e DEF At
  <2>5. At(c, "publishing")' => task' = NoTask
    BY <1>a, <1>e DEF At, Unstarted
  <2>6. At(c, "publishing")' =>
          \/ (calls[c].result = "unknown" /\ workload = "unknown")'
          \/ (calls[c].result \in {"child", "unsafe_child"} /\ workload \in {"running", "zombie"})'
    BY <1>e DEF At
  <2>7. At(c, "recording")' => (task.pc \in {"persist", "publish", "done"} /\ task.record # None)'
    BY <1>e, ShimAssumption DEF At, Reasons
  <2> QED
    BY <1>b, <2>2, <2>3, <2>4, <2>5, <2>6, <2>7 DEF StartInv, Launcher, At

<1>8. (alive => TaskInv)'
  BY <1>a, <1>b, <1>e, <1>u DEF TaskInv, Unstarted, Unrecorded, Truth, NoTask, gate,
     record, Reasons, ShimTypeOK
<1>9. (alive => RecordInv)'
  BY <1>a, <1>b, <1>e, <1>u DEF RecordInv, Unstarted, Unrecorded, NoTask, gate, record
<1>10. ReportedIsCommitted'
  BY <1>a, <1>u DEF ReportedIsCommitted, Unrecorded, world
<1> QED  BY <1>1, <1>2, <1>3, <1>4, <1>5, <1>6, <1>7, <1>8, <1>9, <1>10 DEF ShimTypeOK

\* The child is handed to the reaper.
LEMMA ReleasePublishKeeps ==
    ASSUME ShimInv, NEW c \in Connections, ReleasePublish(c)
    PROVE  ShimInv'
<1> USE ShimAssumption DEF ShimInv, gate, root, record, serving, world, said,
      ReleasePublish, ReapLater, Reply, Move, At
<1>1. WrapperTypes'
  BY DEF ShimTypeOK, WrapperTypes
<1>2. ServingTypes'
  BY DEF ShimTypeOK, ServingTypes, Calls, Free
<1>3. WorldTypes'
  <2>1. task' \in Tasks
    BY NoTaskTyped, TaskMoved DEF ShimTypeOK, WorldTypes
  <2> QED  BY <2>1 DEF ShimTypeOK, WorldTypes
<1>4. CacheInv'
  BY DEF ShimTypeOK, ServingTypes, Calls, Free
<1>5. DeadInv'
  BY DEF DeadInv, Free
<1>6. PrepareInv'
  BY DEF ShimTypeOK, ServingTypes, Calls, Free
<1>7. (alive => StartInv)'
  BY DEF ShimTypeOK, ServingTypes, Calls, Free
<1>8. (alive => TaskInv)'
  BY DEF ShimTypeOK, ServingTypes, Calls, Free
<1>9. (alive => RecordInv)'
  BY DEF ShimTypeOK, ServingTypes, Calls, Free
<1>10. ReportedIsCommitted'
  BY DEF ReportedIsCommitted
<1> QED  BY <1>1, <1>2, <1>3, <1>4, <1>5, <1>6, <1>7, <1>8, <1>9, <1>10 DEF ShimTypeOK

\* A start that failed is answered behind its record.
LEMMA ReleaseFailedKeeps ==
    ASSUME ShimInv, NEW c \in Connections, ReleaseFailed(c)
    PROVE  ShimInv'
<1> USE ShimAssumption DEF ShimInv, gate, root, record, serving, world, said,
      ReleaseFailed, Reply, Move, At
<1>1. WrapperTypes'
  BY DEF ShimTypeOK, WrapperTypes
<1>2. ServingTypes'
  <2>1. calls[c] # Free
    BY DEF Free
  <2> HIDE DEF Move
  <2>2. Move(c, "answering", "start_failed") \/ Move(c, "answering", "persistence_failed")
    OBVIOUS
  <2>3. calls' \in [Connections -> Calls \cup {Free}]
    BY <2>1, <2>2, CallMoved DEF ShimTypeOK, PCs, Answers
  <2> QED  BY <2>3 DEF ShimTypeOK, ServingTypes
<1>3. WorldTypes'
  BY DEF ShimTypeOK, WorldTypes
<1>4. CacheInv'
  BY DEF CacheInv, Executing, DeliveredOnce, Content, ShimTypeOK, ServingTypes, Calls,
     Free, Started
<1>5. DeadInv'
  BY DEF DeadInv, Free
<1>6. PrepareInv'
  BY DEF PrepareInv, GateOpensOnce
<1>7. (alive => StartInv)'
  BY DEF StartInv, Launcher, Unstarted, ShimTypeOK, ServingTypes
<1>8. (alive => TaskInv)'
  BY DEF TaskInv
<1>9. (alive => RecordInv)'
  BY DEF RecordInv, Truth
<1>10. ReportedIsCommitted'
  BY DEF ReportedIsCommitted
<1> QED  BY <1>1, <1>2, <1>3, <1>4, <1>5, <1>6, <1>7, <1>8, <1>9, <1>10 DEF ShimTypeOK

\* A signal asks whether the workload runs.
LEMMA SignalBeginKeeps ==
    ASSUME ShimInv, NEW c \in Connections, SignalBegin(c)
    PROVE  ShimInv'
<1> USE ShimAssumption DEF ShimInv, gate, root, record, serving, world, said, SignalBegin,
      Reply, Move, At, Content
<1>1. WrapperTypes'
  BY DEF ShimTypeOK, WrapperTypes
<1>2. ServingTypes'
  BY DEF ShimTypeOK, ServingTypes, Calls, Free, PCs
<1>3. WorldTypes'
  BY DEF ShimTypeOK, WorldTypes
<1>4. CacheInv'
  BY DEF CacheInv, Executing, DeliveredOnce, ShimTypeOK, ServingTypes, Calls, Free, Started
<1>5. DeadInv'
  BY DEF DeadInv, Free
<1>6. PrepareInv'
  BY DEF PrepareInv, GateOpensOnce
<1>7. (alive => StartInv)'
  <2>1. \A d \in Connections : d # c => calls'[d] = calls[d]
    BY DEF ShimTypeOK, ServingTypes
  <2>2. \/ calls'[c].pc = "answering"
        \/ calls'[c].pc = "sending" /\ child = "safe"
    BY DEF ShimTypeOK, ServingTypes, Calls, Free
  <2>3. child = "safe" => alive /\ task.pc # "none"
    BY DEF DeadInv, TaskInv, At, Free
  <2>4. /\ UNCHANGED <<gateConsumed, starting, child, quiescenceErr, rootfs, task, workload>>
        /\ UNCHANGED <<terminal, disk, persistenceErr, starts, alive>>
    OBVIOUS
  <2> QED
    BY <2>1, <2>2, <2>3, <2>4 DEF StartInv, Launcher, Unstarted, Unrecorded, At
<1>8. (alive => TaskInv)'
  BY DEF Unrecorded, TaskInv, Truth
<1>9. (alive => RecordInv)'
  BY DEF RecordInv, Truth
<1>10. ReportedIsCommitted'
  BY DEF ReportedIsCommitted
<1> QED  BY <1>1, <1>2, <1>3, <1>4, <1>5, <1>6, <1>7, <1>8, <1>9, <1>10 DEF ShimTypeOK

\* A signal is sent to what was verified.
LEMMA SignalVerifiedKeeps ==
    ASSUME ShimInv, NEW c \in Connections, SignalVerified(c)
    PROVE  ShimInv'
<1> USE ShimAssumption DEF ShimInv, gate, root, record, serving, world, said,
      SignalVerified, Reply, Move, At
<1>1. WrapperTypes'
  BY DEF ShimTypeOK, WrapperTypes
<1>2. ServingTypes'
  BY DEF ShimTypeOK, ServingTypes, Calls, Free, PCs
<1>3. WorldTypes'
  BY DEF ShimTypeOK, WorldTypes
<1>4. CacheInv'
  BY SMTT(40) DEF CacheInv, Executing, DeliveredOnce, Content, ShimTypeOK, WrapperTypes,
     ServingTypes, WorldTypes, Calls, Free, Started
<1>5. DeadInv'
  BY DEF DeadInv, Free
<1>6. PrepareInv'
  BY DEF PrepareInv, GateOpensOnce
<1>7. (alive => StartInv)'
  <2>1. /\ calls'[c].pc = "answering"
        /\ \A d \in Connections : d # c => calls'[d] = calls[d]
    BY DEF ShimTypeOK, ServingTypes, Calls, Free
  <2>2. /\ UNCHANGED <<gateConsumed, starting, child, quiescenceErr, rootfs, task, workload>>
        /\ UNCHANGED <<terminal, disk, persistenceErr, starts, alive>>
    OBVIOUS
  <2> QED
    BY <2>1, <2>2, SMTT(60) DEF StartInv, Launcher, Unstarted, Unrecorded, At
<1>8. (alive => TaskInv)'
  BY DEF Unrecorded, TaskInv, Truth
<1>9. (alive => RecordInv)'
  BY DEF RecordInv, Truth
<1>10. ReportedIsCommitted'
  BY DEF ReportedIsCommitted
<1> QED  BY <1>1, <1>2, <1>3, <1>4, <1>5, <1>6, <1>7, <1>8, <1>9, <1>10 DEF ShimTypeOK

\* A request arrives.
LEMMA ReceiveKeeps ==
    ASSUME ShimInv, NEW c \in Connections, NEW id \in RequestIDs,
           NEW content \in Contents, Receive(c, id, content)
    PROVE  ShimInv'
<1> USE ShimAssumption DEF ShimInv, gate, root, record, serving, world, said, Receive,
      Found, Remembered
<1>1. WrapperTypes'
  BY DEF ShimTypeOK, WrapperTypes
<1>2. ServingTypes'
  BY DEF ShimTypeOK, ServingTypes, Calls, PCs, Entries
<1>3. WorldTypes'
  BY DEF ShimTypeOK, WorldTypes
<1>4. CacheInv'
  BY DEF CacheInv, Executing, DeliveredOnce, At, Content, ShimTypeOK, WrapperTypes,
     ServingTypes, Calls, Free, Entries
<1>5. DeadInv'
  BY DEF DeadInv
<1>6. PrepareInv'
  BY DEF PrepareInv, GateOpensOnce
<1>7. (alive => StartInv)'
  BY DEF StartInv, Launcher, Unstarted, Unrecorded, At, ShimTypeOK, ServingTypes
<1>8. (alive => TaskInv)'
  BY DEF Unrecorded, TaskInv, Truth
<1>9. (alive => RecordInv)'
  BY DEF RecordInv, Truth
<1>10. ReportedIsCommitted'
  BY DEF ReportedIsCommitted
<1> QED  BY <1>1, <1>2, <1>3, <1>4, <1>5, <1>6, <1>7, <1>8, <1>9, <1>10 DEF ShimTypeOK

\* An Inspect repairs and reports the terminal record.
LEMMA InspectKeeps ==
    ASSUME ShimInv, Inspect
    PROVE  ShimInv'
<1> USE ShimAssumption DEF ShimInv, gate, root, record, serving, world, said, Inspect,
      PersistTerminal
<1>1. WrapperTypes'
  BY DEF ShimTypeOK, WrapperTypes
<1>2. ServingTypes'
  BY DEF ShimTypeOK, ServingTypes
<1>3. WorldTypes'
  <2>1. disk' \in [record : Records, synced : BOOLEAN] /\ faults' \in 0 .. MaxFaults
    BY PersistTyped DEF ShimTypeOK, WrapperTypes, WorldTypes
  <2>2. reported' \in Records
    BY DEF ShimTypeOK, WrapperTypes, WorldTypes
  <2> QED  BY <2>1, <2>2 DEF ShimTypeOK, WorldTypes
<1>4. CacheInv'
  BY DEF CacheInv, Executing, DeliveredOnce, At, Content
<1>5. DeadInv'
  BY DEF DeadInv
<1>6. PrepareInv'
  BY DEF PrepareInv, GateOpensOnce
<1>7. (alive => StartInv)'
  BY DEF StartInv, Launcher, Unstarted, Unrecorded, At
<1>8. (alive => TaskInv)'
  BY DEF Unrecorded, TaskInv
<1>9. (alive => RecordInv)'
  BY DEF RecordInv, Truth
<1>10. ReportedIsCommitted'
  BY DEF ReportedIsCommitted, RecordInv
<1> QED  BY <1>1, <1>2, <1>3, <1>4, <1>5, <1>6, <1>7, <1>8, <1>9, <1>10 DEF ShimTypeOK

\* The terminal record is written, or is not.
LEMMA PersistKeeps ==
    ASSUME ShimInv, Persist
    PROVE  ShimInv'
<1> USE ShimAssumption DEF ShimInv, gate, root, record, serving, world, said, Persist,
      PersistTerminal
<1>1. WrapperTypes'
  BY DEF ShimTypeOK, WrapperTypes
<1>2. ServingTypes'
  BY DEF ShimTypeOK, ServingTypes
<1>3. WorldTypes'
  <2>0. task.record \in Records
    BY DEF ShimTypeOK, WorldTypes, Tasks
  <2>1. disk' \in [record : Records, synced : BOOLEAN] /\ faults' \in 0 .. MaxFaults
    BY <2>0, PersistTyped, SMTT(40) DEF ShimTypeOK
  <2>2. task' \in Tasks
    BY TaskMoved DEF ShimTypeOK, WorldTypes
  <2> QED  BY <2>1, <2>2 DEF ShimTypeOK, WorldTypes
<1>4. CacheInv'
  BY DEF CacheInv, Executing, DeliveredOnce, At, Content
<1>5. DeadInv'
  BY DEF DeadInv, NoTask
<1>6. PrepareInv'
  BY DEF PrepareInv, GateOpensOnce
<1>7. (alive => StartInv)'
  BY DEF StartInv, Launcher, Unstarted, At, NoTask
<1>8. (alive => TaskInv)'
  BY DEF Unrecorded, TaskInv, Truth
<1>9. (alive => RecordInv)'
  BY DEF RecordInv
<1>10. ReportedIsCommitted'
  BY DEF ReportedIsCommitted
<1> QED  BY <1>1, <1>2, <1>3, <1>4, <1>5, <1>6, <1>7, <1>8, <1>9, <1>10 DEF ShimTypeOK

\* The end is published.
LEMMA PublishKeeps ==
    ASSUME ShimInv, Publish
    PROVE  ShimInv'
<1> USE ShimAssumption DEF ShimInv, gate, root, record, serving, world, said, Publish
<1>1. WrapperTypes'
  BY DEF ShimTypeOK, WrapperTypes, WorldTypes, Tasks
<1>2. ServingTypes'
  BY DEF ShimTypeOK, ServingTypes
<1>3. WorldTypes'
  BY DEF ShimTypeOK, WorldTypes, Tasks
<1>4. CacheInv'
  BY DEF CacheInv, Executing, DeliveredOnce, At, Content
<1>5. DeadInv'
  BY DEF DeadInv, NoTask
<1>6. PrepareInv'
  BY DEF PrepareInv, GateOpensOnce
<1>7. (alive => StartInv)'
  BY DEF StartInv, Launcher, Unstarted, At, NoTask
<1>8. (alive => TaskInv)'
  BY DEF TaskInv, Truth
<1>9. (alive => RecordInv)'
  BY DEF TaskInv, RecordInv, Truth
<1>10. ReportedIsCommitted'
  BY DEF ReportedIsCommitted
<1> QED  BY <1>1, <1>2, <1>3, <1>4, <1>5, <1>6, <1>7, <1>8, <1>9, <1>10 DEF ShimTypeOK

\* The direct child has been waited for.
LEMMA DirectWaitKeeps ==
    ASSUME ShimInv, DirectWait
    PROVE  ShimInv'
<1> USE ShimAssumption DEF ShimInv, gate, root, record, serving, world, said, DirectWait
<1>1. WrapperTypes'
  BY DEF ShimTypeOK, WrapperTypes
<1>2. ServingTypes'
  BY DEF ShimTypeOK, ServingTypes
<1>3. WorldTypes'
  BY DEF ShimTypeOK, WorldTypes, Tasks, Workloads
<1>4. CacheInv'
  BY DEF CacheInv, Executing, DeliveredOnce, At, Content
<1>5. DeadInv'
  BY DEF DeadInv
<1>6. PrepareInv'
  BY DEF PrepareInv, GateOpensOnce
<1>7. (alive => StartInv)'
  BY DEF StartInv, Launcher, Unstarted, At, NoTask
<1>8. (alive => TaskInv)'
  BY DEF Unrecorded, TaskInv
<1>9. (alive => RecordInv)'
  BY DEF RecordInv
<1>10. ReportedIsCommitted'
  BY DEF ReportedIsCommitted
<1> QED  BY <1>1, <1>2, <1>3, <1>4, <1>5, <1>6, <1>7, <1>8, <1>9, <1>10 DEF ShimTypeOK

\* The reaper has taken the descendants, or gives up.
LEMMA ReapKeeps ==
    ASSUME ShimInv, Reap
    PROVE  ShimInv'
<1> USE ShimAssumption DEF ShimInv, gate, root, record, serving, world, said, Reap
<1>1. WrapperTypes'
  BY DEF ShimTypeOK, WrapperTypes
<1>2. ServingTypes'
  BY DEF ShimTypeOK, ServingTypes
<1>3. WorldTypes'
  <2>1. task' \in Tasks
    BY TaskMade, TaskMoved DEF ShimTypeOK, WorldTypes, Reasons
  <2>2. workload' \in Workloads
    BY DEF Workloads
  <2> QED  BY <2>1, <2>2, SMTT(40) DEF ShimTypeOK, WorldTypes
<1>4. CacheInv'
  BY DEF CacheInv, Executing, DeliveredOnce, At, Content
<1>5. DeadInv'
  BY DEF DeadInv, NoTask
<1>6. PrepareInv'
  BY DEF PrepareInv, GateOpensOnce
<1>7. (alive => StartInv)'
  BY DEF StartInv, Launcher, Unstarted, At, NoTask, ShimTypeOK, WorldTypes, Tasks
<1>8. (alive => TaskInv)'
  <2>1. alive /\ TaskInv
    BY DEF DeadInv, NoTask
  <2>2. /\ starts = 1 /\ child # "none" /\ Unrecorded /\ ~quiescenceErr
        /\ UNCHANGED <<starts, child, terminal, disk, persistenceErr, quiescenceErr>>
    BY <2>1 DEF TaskInv
  <2>3. \/ /\ task'.pc = "persist" /\ task'.record \in {"child_exit", "wait_failed"}
           /\ workload' = "quiet"
        \/ task'.pc = "seal" /\ workload' = "quiet" /\ child = "unsafe"
        \/ task'.pc = "seal" /\ workload' = "unknown"
    BY DEF ShimTypeOK, WorldTypes, Tasks
  <2> QED
    BY <2>2, <2>3 DEF TaskInv, Unrecorded, Truth, Reasons
<1>9. (alive => RecordInv)'
  BY DEF RecordInv
<1>10. ReportedIsCommitted'
  BY DEF ReportedIsCommitted
<1> QED  BY <1>1, <1>2, <1>3, <1>4, <1>5, <1>6, <1>7, <1>8, <1>9, <1>10 DEF ShimTypeOK

\* Nothing can be recorded, and nothing is.
LEMMA SealKeeps ==
    ASSUME ShimInv, Seal
    PROVE  ShimInv'
<1> USE ShimAssumption DEF ShimInv, gate, root, record, serving, world, said, Seal
<1>1. WrapperTypes'
  BY DEF ShimTypeOK, WrapperTypes
<1>2. ServingTypes'
  BY DEF ShimTypeOK, ServingTypes
<1>3. WorldTypes'
  BY DEF ShimTypeOK, WorldTypes, Tasks
<1>4. CacheInv'
  BY DEF CacheInv, Executing, DeliveredOnce, At, Content
<1>5. DeadInv'
  BY DEF DeadInv
<1>6. PrepareInv'
  BY DEF PrepareInv, GateOpensOnce
<1>7. (alive => StartInv)'
  BY DEF StartInv, Launcher, Unstarted, At, NoTask
<1>8. (alive => TaskInv)'
  BY DEF TaskInv
<1>9. (alive => RecordInv)'
  BY DEF StartInv, Unstarted, RecordInv
<1>10. ReportedIsCommitted'
  BY DEF ReportedIsCommitted
<1> QED  BY <1>1, <1>2, <1>3, <1>4, <1>5, <1>6, <1>7, <1>8, <1>9, <1>10 DEF ShimTypeOK

\* The workload ends.
LEMMA ExitKeeps ==
    ASSUME ShimInv, Exit
    PROVE  ShimInv'
<1> USE ShimAssumption DEF ShimInv, gate, root, record, serving, world, said, Exit
<1>1. WrapperTypes'
  BY DEF ShimTypeOK, WrapperTypes
<1>2. ServingTypes'
  BY DEF ShimTypeOK, ServingTypes
<1>3. WorldTypes'
  BY DEF ShimTypeOK, WorldTypes, Workloads
<1>4. CacheInv'
  BY DEF CacheInv, Executing, DeliveredOnce, At, Content
<1>5. DeadInv'
  BY DEF DeadInv
<1>6. PrepareInv'
  BY DEF PrepareInv, GateOpensOnce
<1>7. (alive => StartInv)'
  BY DEF StartInv, Launcher, Unstarted, Unrecorded, At
<1>8. (alive => TaskInv)'
  BY DEF Unrecorded, TaskInv, Truth
<1>9. (alive => RecordInv)'
  BY DEF TaskInv, RecordInv
<1>10. ReportedIsCommitted'
  BY DEF ReportedIsCommitted
<1> QED  BY <1>1, <1>2, <1>3, <1>4, <1>5, <1>6, <1>7, <1>8, <1>9, <1>10 DEF ShimTypeOK

\* The wrapper dies between any two steps.
LEMMA DieKeeps ==
    ASSUME ShimInv, Die
    PROVE  ShimInv'
<1> USE ShimAssumption DEF ShimInv, gate, root, record, serving, world, said, Die
<1>1. WrapperTypes'
  BY DEF ShimTypeOK, WrapperTypes
<1>2. ServingTypes'
  BY DEF ShimTypeOK, ServingTypes
<1>3. WorldTypes'
  BY DEF ShimTypeOK, WorldTypes, Tasks, NoTask, Records, Workloads
<1>4. CacheInv'
  BY DEF CacheInv, Executing, DeliveredOnce, At, Free
<1>5. DeadInv'
  BY DEF DeadInv
<1>6. PrepareInv'
  BY DEF PrepareInv, GateOpensOnce
<1>7. (alive => StartInv)'
  OBVIOUS
<1>8. (alive => TaskInv)'
  OBVIOUS
<1>9. (alive => RecordInv)'
  OBVIOUS
<1>10. ReportedIsCommitted'
  BY DEF ReportedIsCommitted
<1> QED  BY <1>1, <1>2, <1>3, <1>4, <1>5, <1>6, <1>7, <1>8, <1>9, <1>10 DEF ShimTypeOK

\* Another wrapper is constructed on the record.
LEMMA NewInitKeeps ==
    ASSUME ShimInv, NewInit
    PROVE  ShimInv'
<1> USE ShimAssumption DEF ShimInv, gate, root, record, serving, world, said, NewInit
<1>1. WrapperTypes'
  BY DEF ShimTypeOK, WrapperTypes, WorldTypes
<1>2. ServingTypes'
  BY DEF ShimTypeOK, ServingTypes
<1>3. WorldTypes'
  BY DEF ShimTypeOK, WorldTypes
<1>4. CacheInv'
  <2>1. \A c \in Connections : calls'[c].pc = "free"
    BY DEF DeadInv, Free
  <2> QED  BY <2>1 DEF CacheInv, Executing, DeliveredOnce, At
<1>5. DeadInv'
  BY DEF DeadInv
<1>6. PrepareInv'
  BY DEF PrepareInv, GateOpensOnce
<1>7. (alive => StartInv)'
  <2>1. \A c \in Connections : calls'[c].pc = "free"
    BY DEF DeadInv, Free
  <2>2. task' = NoTask /\ workload' = "none"
    BY DEF DeadInv
  <2>3. /\ starts' = 0 /\ child' = "none" /\ ~starting' /\ ~quiescenceErr'
        /\ ~gateConsumed' => Unrecorded'
    BY DEF Unrecorded
  <2>4. Unstarted'
    BY <2>2, <2>3 DEF Unstarted
  <2> HIDE DEF NewInit
  <2> QED  BY <2>1, <2>2, <2>3, <2>4 DEF StartInv, Launcher, At
<1>8. (alive => TaskInv)'
  <2>1. task' = NoTask
    BY DEF DeadInv
  <2> QED  BY <2>1 DEF TaskInv, NoTask
<1>9. (alive => RecordInv)'
  BY DEF RecordInv
<1>10. ReportedIsCommitted'
  BY DEF ReportedIsCommitted
<1> QED  BY <1>1, <1>2, <1>3, <1>4, <1>5, <1>6, <1>7, <1>8, <1>9, <1>10 DEF ShimTypeOK

\* A wrapper that was launched serves nothing yet.
LEMMA InitKeeps == Init => ShimInv
<1> SUFFICES ASSUME Init PROVE ShimInv
  OBVIOUS
<1> USE ShimAssumption DEF Init
<1>1. ShimTypeOK
  <2>1. WrapperTypes
    BY DEF WrapperTypes, Records
  <2>2. ServingTypes
    BY DEF ServingTypes
  <2>3. WorldTypes
    BY NoTaskTyped DEF WorldTypes, Records, Workloads
  <2> QED  BY <2>1, <2>2, <2>3 DEF ShimTypeOK
<1>2. CacheInv
  BY DEF CacheInv, Executing, At, Free, DeliveredOnce
<1>3. DeadInv /\ PrepareInv /\ ReportedIsCommitted
  BY DEF DeadInv, PrepareInv, GateOpensOnce, ReportedIsCommitted
<1>4. StartInv /\ TaskInv /\ RecordInv
  BY DEF StartInv, TaskInv, RecordInv, Launcher, At, Free, NoTask, Unstarted, Unrecorded
<1> QED  BY <1>1, <1>2, <1>3, <1>4 DEF ShimInv

\* Every step of a connection keeps the invariant.
LEMMA ServeKeeps ==
    ASSUME ShimInv, NEW c \in Connections, Serve(c)
    PROVE  ShimInv'
BY AnswerKeeps, ReplayKeeps, PrepareBeginKeeps, PrepareEndKeeps, ReleaseBeginKeeps,
   RunnerStartKeeps, ReleasePublishKeeps, ReleaseFailedKeeps, SignalBeginKeeps,
   SignalVerifiedKeeps DEF Serve

\* Who does nothing keeps it.
LEMMA StutterKeeps ==
    ASSUME ShimInv, UNCHANGED shimVars
    PROVE  ShimInv'
<1> USE DEF shimVars, gate, root, record, serving, world, said
<1>1. ShimTypeOK'
  BY DEF ShimInv, ShimTypeOK, WrapperTypes, ServingTypes, WorldTypes
<1>2. CacheInv' /\ DeadInv'
  BY DEF ShimInv, CacheInv, Executing, At, Content, DeliveredOnce, DeadInv
<1>3. PrepareInv' /\ ReportedIsCommitted'
  BY DEF ShimInv, PrepareInv, GateOpensOnce, ReportedIsCommitted
<1>4. (alive => StartInv /\ TaskInv /\ RecordInv)'
  BY DEF ShimInv, StartInv, TaskInv, RecordInv, Launcher, At, Unstarted, Unrecorded, Truth
<1> QED  BY <1>1, <1>2, <1>3, <1>4 DEF ShimInv

\* The inductive invariant of the wrapper, through every request, every step of
\* the reaping goroutine, every repair, death and construction.
THEOREM WrapperInvariant == Spec => []ShimInv
<1>1. ShimInv /\ [Next]_shimVars => ShimInv'
  <2> SUFFICES ASSUME ShimInv, [Next]_shimVars PROVE ShimInv'
    OBVIOUS
  <2>1. CASE \E c \in Connections : Serve(c)
    BY <2>1, ServeKeeps
  <2>2. CASE \E c \in Connections, id \in RequestIDs, content \in Contents : Receive(c, id, content)
    BY <2>2, ReceiveKeeps
  <2>3. CASE Inspect \/ Reaper \/ Exit
    BY <2>3, InspectKeeps, DirectWaitKeeps, ReapKeeps, SealKeeps, PersistKeeps, PublishKeeps,
       ExitKeeps DEF Reaper
  <2>4. CASE Die \/ NewInit
    BY <2>4, DieKeeps, NewInitKeeps
  <2>5. CASE UNCHANGED shimVars
    BY <2>5, StutterKeeps
  <2> QED  BY <2>1, <2>2, <2>3, <2>4, <2>5 DEF Next
<1> QED  BY InitKeeps, <1>1, PTL DEF Spec

-----------------------------------------------------------------------------
(* What the invariant gives. *)

\* Every variable keeps its type (the types of wrapper.go, terminal.go and
\* control.go).
THEOREM ShimTypes == Spec => []ShimTypeOK
<1>1. ShimInv => ShimTypeOK
  BY DEF ShimInv
<1> QED  BY <1>1, WrapperInvariant, PTL

\* Release starts at most one workload and PrepareRootfs prepares at most once,
\* whatever connections race, and nothing is started in an unprepared root.
THEOREM GateOnce == Spec => []GateOpensOnce
<1>1. ShimInv => GateOpensOnce
  BY DEF ShimInv, PrepareInv
<1> QED  BY <1>1, WrapperInvariant, PTL

\* An Inspect says "prepared" only of a wrapper that has started nothing.
THEOREM PreparedIsUnstarted == Spec => []PreparedMeansClosed
<1>1. ShimInv => PreparedMeansClosed
  <2> SUFFICES ASSUME ShimInv, alive, Observed = "prepared"
               PROVE  starts = 0 /\ workload = "none" /\ disk.record = None
    BY DEF PreparedMeansClosed
  <2> USE DEF ShimInv
  <2>1. /\ ~quiescenceErr /\ persistenceErr = "none" /\ terminal = None
        /\ child = "none" /\ ~starting
    BY DEF Observed, ShimTypeOK, WrapperTypes
  <2>2. starts = 0
    <3> SUFFICES ASSUME starts # 0 PROVE FALSE
      OBVIOUS
    <3>1. starts = 1
      BY DEF PrepareInv, GateOpensOnce, ShimTypeOK, WorldTypes
    <3> QED  BY <2>1, <3>1 DEF StartInv, TaskInv
  <2>3. Unstarted /\ disk.record = None
    BY <2>1, <2>2 DEF StartInv, RecordInv, Unstarted, NoTask
  <2> QED  BY <2>3 DEF Unstarted
<1> QED  BY <1>1, WrapperInvariant, PTL

\* A record of this wrapper's workload is made when its tree is gone, and names
\* a failure before exec only when nothing ran.
THEOREM RecordsTruthful == Spec => []TerminalTruthful
<1>1. ShimInv => TerminalTruthful
  <2> SUFFICES ASSUME ShimInv, alive, starts > 0, NEW r \in {terminal, disk.record} \ {None}
               PROVE  Truth(r)
    BY DEF TerminalTruthful, Truth
  <2> USE DEF ShimInv
  <2>1. starts = 1
    BY DEF PrepareInv, GateOpensOnce, ShimTypeOK, WorldTypes
  <2>2. CASE terminal # None
    BY <2>1, <2>2 DEF RecordInv
  <2>3. CASE terminal = None
    BY <2>1, <2>3 DEF RecordInv, TaskInv
  <2> QED  BY <2>2, <2>3
<1> QED  BY <1>1, WrapperInvariant, PTL

\* Every answer to a request ID is the first answer to it.
THEOREM Replays == Spec => []ReplayExact
<1>1. ShimInv => ReplayExact
  BY DEF ShimInv, ReplayExact, CacheInv, ShimTypeOK, ServingTypes
<1> QED  BY <1>1, WrapperInvariant, PTL

\* A signal request is delivered at most once however often it is sent.
THEOREM DeliversOnce == Spec => []DeliveredOnce
<1>1. ShimInv => DeliveredOnce
  BY DEF ShimInv, CacheInv
<1> QED  BY <1>1, WrapperInvariant, PTL

\* What an Inspect has reported is on disk, in this life and in later ones.
THEOREM ReportsCommitted == Spec => []ReportedIsCommitted
<1>1. ShimInv => ReportedIsCommitted
  BY DEF ShimInv
<1> QED  BY <1>1, WrapperInvariant, PTL

\* SignalVerified runs without the wrapper's lock; it still delivers nothing
\* once an end has been committed, in memory or on disk.
THEOREM SignalsReach == Spec => SignalsReachTheWorkload
<1> DEFINE Reaches == \A id \in RequestIDs : delivered'[id] > delivered[id] =>
                        child = "safe" /\ terminal = None /\ disk.record = None
<1>1. ShimInv /\ [Next]_shimVars => [Reaches]_shimVars
  <2> SUFFICES ASSUME ShimInv, Next, NEW id \in RequestIDs, delivered'[id] > delivered[id]
               PROVE  child = "safe" /\ terminal = None /\ disk.record = None
    OBVIOUS
  <2>1. delivered'[id] # delivered[id]
    BY SMTT(40) DEF ShimInv, ShimTypeOK, ServingTypes
  <2>2. PICK c \in Connections : SignalVerified(c)
    <3>1. ~NewInit
      BY DEF NewInit, ShimInv, ShimTypeOK, ServingTypes
    <3>2. ~UNCHANGED delivered
      BY <2>1
    <3> QED
      BY <3>1, <3>2 DEF Next, Serve, Reaper, Receive, Inspect, Exit, Die, Answer, Replay,
         Tell,
         PrepareBegin, PrepareEnd, ReleaseBegin, RunnerStart, ReleasePublish, ReleaseFailed,
         SignalBegin, DirectWait, Reap, Seal, Persist, Publish, said, serving
  <2>3. alive /\ At(c, "sending") /\ workload \in {"running", "zombie"}
    BY <2>1, <2>2 DEF SignalVerified, ShimInv, DeadInv, At, Free
  <2>4. task.pc = "wait"
    <3>1. task.pc # "none"
      BY <2>3 DEF ShimInv, StartInv
    <3>2. task.pc \in {"none", "wait", "clean", "seal", "persist", "publish", "done"}
      BY DEF ShimInv, ShimTypeOK, WorldTypes, Tasks
    <3> QED  BY <2>3, <3>1, <3>2 DEF ShimInv, TaskInv, Truth
  <2>5. child = "safe" /\ Unrecorded
    <3>1. starts = 1
      BY <2>3, <2>4 DEF ShimInv, TaskInv
    <3> QED  BY <2>3, <2>4, <3>1 DEF ShimInv, StartInv, TaskInv
  <2> QED  BY <2>5 DEF Unrecorded
<1> QED  BY <1>1, WrapperInvariant, PTL DEF Spec, SignalsReachTheWorkload

\* A wrapper with one life is the workload AttemptContract describes.
THEOREM WrapperKeepsContract ==
    ASSUME MaxLives = 1
    PROVE  Spec => KeepsContract
<1> DEFINE unchanged == UNCHANGED <<ContractWorkload, ContractOutcome>>
<1>1. Init => Contract!ContractInit
  BY DEF Init, Contract!ContractInit, ContractWorkload, ContractOutcome, Pending
<1>2. ShimInv /\ [Next]_shimVars => [Contract!ContractNext]_(Contract!contractVars)
  <2> SUFFICES ASSUME ShimInv, [Next]_shimVars
               PROVE  unchanged \/ Contract!ContractNext
    BY DEF Contract!contractVars
  <2>1. ASSUME UNCHANGED <<gateConsumed, child, quiescenceErr, terminal, persistenceErr, alive>>
        PROVE  unchanged
    BY <2>1 DEF ContractWorkload, ContractOutcome
  <2>2. \A c \in Connections : calls[c] # Free => alive
    BY DEF ShimInv, DeadInv
  <2>3. task.pc # "none" => alive /\ gateConsumed
    BY DEF ShimInv, DeadInv, NoTask, TaskInv, StartInv, Unstarted
  <2>4. ASSUME NEW c \in Connections, ReleaseBegin(c) PROVE unchanged \/ Contract!ContractNext
    <3>1. CASE gateConsumed' = gateConsumed
      BY <2>4, <3>1, <2>1 DEF ReleaseBegin, record, world
    <3>2. CASE ~gateConsumed /\ gateConsumed'
      <4>1. alive /\ terminal = None /\ child = "none" /\ ~quiescenceErr /\ persistenceErr = "none"
        BY <2>2, <2>4, <3>2 DEF ShimInv, StartInv, Unstarted, Unrecorded, ReleaseBegin,
           At, Free
      <4>2. UNCHANGED <<alive, terminal, child, quiescenceErr, persistenceErr>>
        BY <2>4 DEF ReleaseBegin, record, world
      <4>3. ContractWorkload = "waiting" /\ ContractWorkload' = "consumed"
        BY <3>2, <4>1, <4>2 DEF ContractWorkload
      <4>4. UNCHANGED ContractOutcome
        BY <4>2 DEF ContractOutcome
      <4> QED  BY <4>3, <4>4 DEF Contract!ContractNext, Contract!Launch
    <3> QED  BY <2>4, <3>1, <3>2 DEF ReleaseBegin
  <2>5. ASSUME NEW c \in Connections, ReleasePublish(c) PROVE unchanged \/ Contract!ContractNext
    <3>1. /\ alive /\ terminal = None /\ child = "none" /\ ~quiescenceErr /\ persistenceErr = "none"
          /\ gateConsumed
      BY <2>2, <2>5 DEF ShimInv, StartInv, Launcher, Unrecorded, ReleasePublish, At, Free
    <3>2. UNCHANGED <<alive, terminal, persistenceErr, gateConsumed>>
      BY <2>5 DEF ReleasePublish, record, world
    <3>3. ContractWorkload = "consumed" /\ UNCHANGED ContractOutcome
      BY <3>1, <3>2 DEF ContractWorkload, ContractOutcome
    <3>4. quiescenceErr' \/ child' \in {"safe", "unsafe"}
      BY <2>5, <3>1 DEF ReleasePublish
    <3>5. ContractWorkload' \in {"running", "consumed", "lost"}
      BY <3>1, <3>2, <3>4 DEF ContractWorkload
    <3> QED
      BY <3>3, <3>5 DEF Contract!ContractNext, Contract!Publish, Contract!Lose
  <2>6. ASSUME Publish PROVE unchanged \/ Contract!ContractNext
    <3>1. /\ alive /\ terminal = None /\ ~quiescenceErr /\ persistenceErr = "none" /\ gateConsumed
          /\ task.record \in Reasons
      BY <2>3, <2>6 DEF Publish, ShimInv, TaskInv, ShimTypeOK, WorldTypes, Tasks, Records
    <3>2. /\ terminal' = task.record /\ persistenceErr' # "unbuildable"
          /\ UNCHANGED <<alive, quiescenceErr>>
      BY <2>6 DEF Publish, world
    <3>3. ContractWorkload \in {"consumed", "running"}
      BY <3>1 DEF ContractWorkload
    <3>4. ContractWorkload' = "ended" /\ ContractOutcome' \in Reasons
      BY <3>1, <3>2, ShimAssumption DEF ContractWorkload, ContractOutcome
    <3> QED  BY <3>3, <3>4 DEF Contract!ContractNext, Contract!End
  <2>7. ASSUME Seal PROVE unchanged \/ Contract!ContractNext
    <3>1. alive /\ terminal = None /\ ~quiescenceErr /\ persistenceErr = "none"
      BY <2>3, <2>7 DEF Seal, ShimInv, TaskInv
    <3>2. UNCHANGED terminal /\ (quiescenceErr' \/ persistenceErr' = "unbuildable")
      BY <2>7 DEF Seal
    <3>3. ContractWorkload # "lost" /\ ContractWorkload' = "lost" /\ UNCHANGED ContractOutcome
      BY <3>1, <3>2 DEF ContractWorkload, ContractOutcome
    <3> QED  BY <3>3 DEF Contract!ContractNext, Contract!Lose
  <2>8. ASSUME Die PROVE unchanged \/ Contract!ContractNext
    <3>1. ContractWorkload' = "lost" /\ UNCHANGED ContractOutcome
      BY <2>8 DEF Die, record, ContractWorkload, ContractOutcome
    <3> QED  BY <3>1 DEF Contract!ContractNext, Contract!Lose
  <2>9. ~NewInit
    BY DEF NewInit, ShimInv, ShimTypeOK, WorldTypes
  <2>10. ASSUME Inspect PROVE unchanged
    <3>1. /\ UNCHANGED <<gateConsumed, child, quiescenceErr, terminal, alive>>
          /\ persistenceErr' = persistenceErr
             \/ (persistenceErr # "unbuildable" /\ persistenceErr' # "unbuildable")
      BY <2>10 DEF Inspect, gate
    <3> QED  BY <3>1 DEF ContractWorkload, ContractOutcome
  <2>11. ASSUME Exit \/ DirectWait \/ Reap \/ Persist PROVE unchanged
    BY <2>1, <2>11 DEF Exit, DirectWait, Reap, Persist, gate, record, world
  <2>12. ASSUME NEW c \in Connections,
                \/ Answer(c) \/ Replay(c) \/ PrepareBegin(c) \/ PrepareEnd(c) \/ RunnerStart(c)
                \/ ReleaseFailed(c) \/ SignalBegin(c) \/ SignalVerified(c)
                \/ \E id \in RequestIDs, content \in Contents : Receive(c, id, content)
         PROVE  unchanged
    BY <2>1, <2>12 DEF Answer, Replay, Tell, PrepareBegin, PrepareEnd, RunnerStart,
       ReleaseFailed,
       SignalBegin, SignalVerified, Receive, gate, record, world
  <2>13. CASE UNCHANGED shimVars
    BY <2>1, <2>13 DEF shimVars, gate, record, world
  <2> HIDE DEF unchanged
  <2> QED
    BY <2>4, <2>5, <2>6, <2>7, <2>8, <2>9, <2>10, <2>11, <2>12, <2>13 DEF Next, Serve,
       Reaper
<1> QED  BY <1>1, <1>2, WrapperInvariant, PTL DEF Spec, KeepsContract, Contract!ContractSpec

=============================================================================
