---------------------------- MODULE ShimWrapper ----------------------------
(***************************************************************************)
(* One init wrapper of src/internal/shim: the start gate, the preparation of *)
(* the root filesystem, the workload's child and its reaping, the terminal   *)
(* record in memory and on disk, and the cache that replays answers of the   *)
(* control socket.  Connections run beside each other, beside the goroutine  *)
(* that reaps, and beside the workload; a step is what the code does under   *)
(* one hold of Wrapper.mu or controlMu, or one call it makes outside both.   *)
(*                                                                         *)
(* A wrapper that dies takes its PID namespace with it; a wrapper that is    *)
(* constructed again on the same directory begins with what is on disk.      *)
(***************************************************************************)
EXTENDS Naturals, FiniteSets

CONSTANTS
    Connections,   \* connections of the control socket that are served at once
    RequestIDs,    \* request IDs of mutating requests
    Commands,      \* contents of prepare_rootfs requests
    None,
    CacheLimit,    \* maxRememberedControlRequests
    MaxFaults,     \* bound on failed writes of the record
    MaxLives       \* bound on constructions of the wrapper

VARIABLES
    gateConsumed, starting, child, quiescenceErr,     \* fields of Wrapper
    rootfsStarted, rootfs,
    terminal, persistenceErr,
    controlEntries,
    calls,        \* [Connections -> request under way]
    task,         \* what becomes of the child: wait, record, persist, publish
    workload,     \* the process tree of the workload, as the kernel has it
    disk,         \* the terminal record's name, and whether it was synchronized
    alive, life, faults,
    starts, preparations, delivered, answers,   \* what this life did and said
    reported      \* the terminal record an Inspect has returned, in any life

gate == <<gateConsumed, starting, child, quiescenceErr>>
root == <<rootfsStarted, rootfs>>
record == <<terminal, persistenceErr>>
serving == <<controlEntries, calls>>
world == <<alive, life, faults>>
said == <<starts, preparations, delivered, answers>>
shimVars == <<gate, root, record, serving, task, workload, disk, world, said, reported>>

-----------------------------------------------------------------------------
(* Types. *)

Reasons == {"child_exit", "start_failed", "launch_aborted", "wait_failed"}
Records == Reasons \cup {None}

\* A request is its action, and for prepare_rootfs its command.
Contents == {"release", "signal"} \cup Commands

\* The result of a request: an observation, a delivery, an acknowledgement of
\* the root filesystem, or the code of an error.
Answers == {"running", "delivered", "prepared", "already_released", "rootfs_failed",
            "start_failed", "unavailable", "persistence_failed", "not_running",
            "duplicate_request"}

Entries == [content : Contents, response : Answers \cup {None}]

\* dispatch: registered.  waiting: for the first answer to the same request.
\* launching: in runner.Start.  publishing: Start returned.  recording: a failed
\* Start is being recorded.  preparing: in the preparer.  sending: in
\* SignalVerified.  answering: dispatchControl has returned.
PCs == {"dispatch", "waiting", "launching", "publishing", "recording", "preparing",
        "sending", "answering"}

Free == [pc |-> "free", id |-> None, result |-> "none"]

\* What runner.Start returned, kept until the lock is taken again.
Started == {"child", "unsafe_child", "unknown"}
Calls == [pc : PCs, id : RequestIDs, result : Answers \cup Started \cup {"none"}]

Tasks == [pc : {"none", "wait", "clean", "seal", "persist", "publish", "done"},
          record : Records, ok : BOOLEAN]

NoTask == [pc |-> "none", record |-> None, ok |-> FALSE]

\* zombie: exited, not yet waited for.  waited: the direct child is reaped, its
\* descendants may live.  quiet: no process is left.  unknown: nobody can tell.
Workloads == {"none", "running", "zombie", "waited", "quiet", "unknown"}

ASSUME ShimAssumption ==
    /\ None \notin RequestIDs \cup Commands \cup Reasons \cup Answers \cup Entries
    /\ Commands \cap {"release", "signal"} = {}
    /\ {CacheLimit, MaxFaults, MaxLives} \subseteq Nat
    /\ MaxLives > 0

WrapperTypes ==
    /\ gateConsumed \in BOOLEAN /\ starting \in BOOLEAN /\ quiescenceErr \in BOOLEAN
    /\ child \in {"none", "safe", "unsafe"}
    /\ rootfsStarted \in BOOLEAN
    /\ rootfs \in Commands \cup {None}
    /\ terminal \in Records
    /\ persistenceErr \in {"none", "uncommitted", "unbuildable"}

ServingTypes ==
    /\ controlEntries \in [RequestIDs -> Entries \cup {None}]
    /\ calls \in [Connections -> Calls \cup {Free}]
    /\ delivered \in [RequestIDs -> Nat]
    /\ answers \subseteq [id : RequestIDs, answer : Answers]

WorldTypes ==
    /\ task \in Tasks
    /\ workload \in Workloads
    /\ disk \in [record : Records, synced : BOOLEAN]
    /\ alive \in BOOLEAN
    /\ life \in 1 .. MaxLives /\ faults \in 0 .. MaxFaults
    /\ starts \in Nat /\ preparations \in Nat
    /\ reported \in Records

ShimTypeOK == WrapperTypes /\ ServingTypes /\ WorldTypes

-----------------------------------------------------------------------------
(* The terminal record. *)

\* persistTerminal through FileTerminalStore.Commit: the write fails before the
\* rename, or after it and before the directory is synchronized, or succeeds.
\* A record that is already there is accepted when it is the same one.
PersistTerminal(r, ok) ==
    \/ /\ ok /\ disk.record \in {None, r}
       /\ disk' = [record |-> r, synced |-> TRUE] /\ UNCHANGED faults
    \/ /\ ~ok /\ faults < MaxFaults /\ faults' = faults + 1
       /\ \/ UNCHANGED disk
          \/ disk.record = None /\ disk' = [record |-> r, synced |-> FALSE]

\* What inspectLocked reports of a wrapper whose record needs no repair.
Observed ==
    CASE quiescenceErr -> "unavailable"
      [] ~quiescenceErr /\ persistenceErr # "none" -> "persistence_failed"
      [] ~quiescenceErr /\ persistenceErr = "none" ->
           IF terminal # None THEN "terminal"
           ELSE IF child = "safe" THEN "running"
           ELSE IF child = "unsafe" THEN "unavailable"
           ELSE IF starting THEN "starting" ELSE "prepared"

\* Mutant: an Inspect reports the record it holds, written or not.
InspectUncommitted ==
    /\ alive /\ ~quiescenceErr /\ terminal # None /\ reported' = terminal
    /\ UNCHANGED <<gate, root, record, serving, task, workload, disk, world, said>>

\* Mutant: an Inspect does not repair a record that was not written.
InspectUnrepaired ==
    /\ alive /\ ~quiescenceErr /\ terminal # None
    /\ persistenceErr = "none" /\ reported' = terminal
    /\ UNCHANGED <<gate, root, record, serving, task, workload, disk, world, said>>

\* An Inspect that reports a terminal record, after one attempt to repair it.
Inspect ==
    /\ alive /\ ~quiescenceErr /\ terminal # None
    /\ \/ /\ persistenceErr = "none" /\ reported' = terminal
          /\ UNCHANGED <<persistenceErr, disk, faults>>
       \/ /\ persistenceErr = "uncommitted"
          /\ \E ok \in BOOLEAN :
               /\ PersistTerminal(terminal, ok)
               /\ persistenceErr' = IF ok THEN "none" ELSE "uncommitted"
               /\ reported' = IF ok THEN terminal ELSE reported
    /\ UNCHANGED <<gate, root, terminal, serving, task, workload, alive, life, said>>

Persist ==
    /\ task.pc = "persist"
    /\ \E ok \in BOOLEAN : /\ PersistTerminal(task.record, ok)
                           /\ task' = [task EXCEPT !.pc = "publish", !.ok = ok]
    /\ UNCHANGED <<gate, root, record, serving, workload, alive, life, said, reported>>

\* commitTerminal under the lock.
Publish ==
    /\ task.pc = "publish"
    /\ task' = [task EXCEPT !.pc = "done"]
    /\ starting' = FALSE /\ child' = "none"
    /\ terminal' = task.record
    /\ persistenceErr' = IF task.ok THEN "none" ELSE "uncommitted"
    /\ UNCHANGED <<gateConsumed, quiescenceErr, root, serving, workload, disk, world, said, reported>>
-----------------------------------------------------------------------------
(* Requests. *)

Found(id) == controlEntries[id] # None
At(c, pc) == calls[c].pc = pc
Content(c) == controlEntries[calls[c].id].content

Move(c, pc, result) == calls' = [calls EXCEPT ![c].pc = pc, ![c].result = result]
Reply(c, answer) == Move(c, "answering", answer)

Remembered == {id \in RequestIDs : Found(id)}

\* HandleControl up to dispatchControl.  A known ID with other content, and a
\* new one when the cache is full, get an error and leave nothing behind.
Receive(c, id, content) ==
    /\ alive /\ calls[c] = Free
    /\ \/ /\ Found(id) /\ controlEntries[id].content = content
          /\ calls' = [calls EXCEPT ![c] = [pc |-> "waiting", id |-> id, result |-> "none"]]
          /\ UNCHANGED controlEntries
       \/ /\ ~Found(id) /\ Cardinality(Remembered) < CacheLimit
          /\ calls' = [calls EXCEPT ![c] = [pc |-> "dispatch", id |-> id, result |-> "none"]]
          /\ controlEntries' = [controlEntries EXCEPT
                                  ![id] = [content |-> content, response |-> None]]
    /\ UNCHANGED <<gate, root, record, task, workload, disk, world, said, reported>>

Tell(c, answer) ==
    /\ answers' = answers \cup {[id |-> calls[c].id, answer |-> answer]}
    /\ calls' = [calls EXCEPT ![c] = Free]
    /\ UNCHANGED <<gate, root, record, task, workload, disk, world, reported,
                   starts, preparations, delivered>>

\* Mutant: the entry of an answered request is never done.
AnswerUnremembered(c) ==
    At(c, "answering") /\ Tell(c, calls[c].result) /\ UNCHANGED controlEntries

\* The response is remembered before the entry is done.
Answer(c) ==
    /\ At(c, "answering") /\ Tell(c, calls[c].result)
    /\ controlEntries' = [controlEntries EXCEPT ![calls[c].id].response = calls[c].result]

\* Mutant: a repeated request does not wait for the first one.
ReplayEarly(c) ==
    LET first == controlEntries[calls[c].id].response IN
    /\ At(c, "waiting") /\ Tell(c, IF first = None THEN "unavailable" ELSE first)
    /\ UNCHANGED controlEntries

Replay(c) ==
    /\ At(c, "waiting") /\ controlEntries[calls[c].id].response # None
    /\ Tell(c, controlEntries[calls[c].id].response)
    /\ UNCHANGED controlEntries

-----------------------------------------------------------------------------
(* PrepareRootfs. *)

PrepareBegin(c) ==
    LET command == Content(c) IN
    /\ At(c, "dispatch") /\ command \in Commands
    /\ \/ /\ rootfs # None
          /\ Reply(c, IF rootfs = command THEN "prepared" ELSE "duplicate_request")
          /\ UNCHANGED <<rootfsStarted, preparations>>
       \/ /\ rootfs = None /\ rootfsStarted /\ Reply(c, "rootfs_failed")
          /\ UNCHANGED <<rootfsStarted, preparations>>
       \/ /\ rootfs = None /\ ~rootfsStarted /\ Move(c, "preparing", "none")
          /\ rootfsStarted' = TRUE /\ preparations' = preparations + 1
    /\ UNCHANGED <<gate, rootfs, record, controlEntries, task, workload, disk, world,
                   starts, delivered, answers, reported>>

\* rootfsErr is kept by the code for its text; rootfsStarted is what seals.
PrepareEnd(c) ==
    /\ At(c, "preparing")
    /\ \/ rootfs' = Content(c) /\ Reply(c, "prepared")
       \/ UNCHANGED rootfs /\ Reply(c, "rootfs_failed")
    /\ UNCHANGED <<gate, rootfsStarted, record, controlEntries, task, workload, disk,
                   world, said, reported>>

-----------------------------------------------------------------------------
(* Release. *)

ReleaseBegin(c) ==
    /\ At(c, "dispatch") /\ Content(c) = "release"
    /\ \/ /\ gateConsumed /\ Reply(c, "already_released")
          /\ UNCHANGED <<gateConsumed, starting>>
       \/ /\ ~gateConsumed /\ rootfs = None /\ Reply(c, "rootfs_failed")
          /\ UNCHANGED <<gateConsumed, starting>>
       \/ /\ ~gateConsumed /\ rootfs # None /\ Move(c, "launching", "none")
          /\ gateConsumed' = TRUE /\ starting' = TRUE
    /\ UNCHANGED <<child, quiescenceErr, root, record, controlEntries, task, workload,
                   disk, world, said, reported>>

RecordFailure(c, reason) ==
    /\ Move(c, "recording", "none")
    /\ task' = [pc |-> "persist", record |-> reason, ok |-> FALSE]

\* Mutant: a failure before exec opens the gate again.
RunnerStartReopening(c) ==
    /\ At(c, "launching") /\ starts' = starts + 1
    /\ \/ /\ Move(c, "publishing", "child") /\ workload' = "running"
          /\ UNCHANGED <<task, gateConsumed>>
       \/ /\ RecordFailure(c, "start_failed") /\ UNCHANGED workload
          /\ gateConsumed' = FALSE
    /\ UNCHANGED <<starting, child, quiescenceErr, root, record, controlEntries, disk,
                   world, preparations, delivered, answers, reported>>

\* runner.Start: a child, with an identity that is valid or not; a failure
\* before exec; one after it, with the tree known to be gone; or no telling.
RunnerStart(c) ==
    /\ At(c, "launching") /\ starts' = starts + 1
    /\ \/ /\ \E k \in {"child", "unsafe_child"} : Move(c, "publishing", k)
          /\ workload' = "running" /\ UNCHANGED task
       \/ /\ RecordFailure(c, "start_failed") /\ UNCHANGED workload
       \/ /\ RecordFailure(c, "launch_aborted") /\ workload' = "quiet"
       \/ /\ Move(c, "publishing", "unknown")
          /\ workload' = "unknown" /\ UNCHANGED task
    /\ UNCHANGED <<gate, root, record, controlEntries, disk, world, preparations,
                   delivered, answers, reported>>

ReapLater == task' = [NoTask EXCEPT !.pc = "wait"]

\* Release takes the lock again and hands the child to the reaper.
ReleasePublish(c) ==
    /\ At(c, "publishing") /\ starting' = FALSE
    /\ \/ /\ calls[c].result = "child" /\ child' = "safe" /\ ReapLater
          /\ Reply(c, "running") /\ UNCHANGED quiescenceErr
       \/ /\ calls[c].result = "unsafe_child" /\ child' = "unsafe" /\ ReapLater
          /\ Reply(c, "start_failed") /\ UNCHANGED quiescenceErr
       \/ /\ calls[c].result = "unknown" /\ quiescenceErr' = TRUE
          /\ Reply(c, "unavailable") /\ UNCHANGED <<child, task>>
    /\ UNCHANGED <<gateConsumed, root, record, controlEntries, workload, disk, world,
                   said, reported>>

ReleaseFailed(c) ==
    /\ At(c, "recording") /\ task.pc = "done"
    /\ Reply(c, IF task.ok THEN "start_failed" ELSE "persistence_failed")
    /\ UNCHANGED <<gate, root, record, controlEntries, task, workload, disk, world,
                   said, reported>>

-----------------------------------------------------------------------------
(* ForwardSignal. *)

SignalBegin(c) ==
    /\ At(c, "dispatch") /\ Content(c) = "signal"
    /\ IF ~quiescenceErr /\ child = "safe" /\ terminal = None
       THEN Move(c, "sending", "none")
       ELSE Reply(c, "not_running")
    /\ UNCHANGED <<gate, root, record, controlEntries, task, workload, disk, world,
                   said, reported>>

\* Mutant: the child does not know that it has been waited for.
SignalVerifiedLate(c) ==
    /\ At(c, "sending") /\ Reply(c, "delivered")
    /\ delivered' = [delivered EXCEPT ![calls[c].id] = @ + 1]
    /\ UNCHANGED <<gate, root, record, controlEntries, task, workload, disk, world,
                   starts, preparations, answers, reported>>

\* SignalVerified under the child's own lock, not the wrapper's: the pidfd takes
\* a signal until the direct child has been waited for.
SignalVerified(c) ==
    /\ At(c, "sending")
    /\ \/ /\ workload \in {"running", "zombie"} /\ Reply(c, "delivered")
          /\ delivered' = [delivered EXCEPT ![calls[c].id] = @ + 1]
       \/ /\ workload \notin {"running", "zombie"} /\ Reply(c, "not_running")
          /\ UNCHANGED delivered
    /\ UNCHANGED <<gate, root, record, controlEntries, task, workload, disk, world,
                   starts, preparations, answers, reported>>

-----------------------------------------------------------------------------
(* The workload and the goroutine that reaps it. *)

Exit ==
    /\ workload = "running" /\ workload' = "zombie"
    /\ UNCHANGED <<gate, root, record, serving, task, disk, world, said, reported>>

\* osChild.Wait: the direct child, then every descendant PID 1 adopted.
DirectWait ==
    /\ task.pc = "wait" /\ workload = "zombie"
    /\ workload' = "waited" /\ task' = [task EXCEPT !.pc = "clean"]
    /\ UNCHANGED <<gate, root, record, serving, disk, world, said, reported>>

\* Mutant: the exit of the direct child is recorded before its descendants end.
ReapDirect ==
    /\ task.pc = "clean" /\ workload' \in {"quiet", "unknown"}
    /\ task' = [pc |-> "persist", record |-> "child_exit", ok |-> FALSE]
    /\ UNCHANGED <<gate, root, record, serving, disk, world, said, reported>>

\* reapDescendants reaches ECHILD or gives up; evidence that names a child of
\* invalid identity cannot be recorded (NewTerminalRecord).
Reap ==
    /\ task.pc = "clean"
    /\ \/ /\ workload' = "quiet" /\ child = "safe"
          /\ \E r \in {"child_exit", "wait_failed"} :
               task' = [pc |-> "persist", record |-> r, ok |-> FALSE]
       \/ /\ workload' = "quiet" /\ child = "unsafe"
          /\ task' = [task EXCEPT !.pc = "seal"]
       \/ workload' = "unknown" /\ task' = [task EXCEPT !.pc = "seal"]
    /\ UNCHANGED <<gate, root, record, serving, disk, world, said, reported>>

\* Nothing can be recorded: the wrapper answers no Inspect from here on.
Seal ==
    /\ task.pc = "seal" /\ task' = [task EXCEPT !.pc = "done"]
    /\ \/ /\ workload = "unknown" /\ starting' = FALSE /\ quiescenceErr' = TRUE
          /\ UNCHANGED <<child, persistenceErr>>
       \/ /\ workload = "quiet" /\ child' = "none" /\ persistenceErr' = "unbuildable"
          /\ UNCHANGED <<starting, quiescenceErr>>
    /\ UNCHANGED <<gateConsumed, root, terminal, serving, workload, disk, world, said, reported>>

-----------------------------------------------------------------------------
(* Death and construction. *)

\* PID 1 dies, and every process of its namespace with it.
Die ==
    /\ alive /\ alive' = FALSE
    /\ calls' = [c \in Connections |-> Free]
    /\ task' = NoTask /\ workload' = "none"
    /\ UNCHANGED <<gate, root, record, controlEntries, disk, life, faults, said, reported>>

\* The gate of a wrapper that finds a record is closed for good.
NewInit ==
    /\ ~alive /\ life < MaxLives /\ alive' = TRUE /\ life' = life + 1
    /\ gateConsumed' = (disk.record # None) /\ terminal' = disk.record
    /\ starting' = FALSE /\ child' = "none" /\ quiescenceErr' = FALSE
    /\ rootfsStarted' = FALSE /\ rootfs' = None /\ persistenceErr' = "none"
    /\ controlEntries' = [id \in RequestIDs |-> None]
    /\ starts' = 0 /\ preparations' = 0 /\ answers' = {}
    /\ delivered' = [id \in RequestIDs |-> 0]
    /\ UNCHANGED <<calls, task, workload, disk, faults, reported>>

Init ==
    /\ gateConsumed = FALSE /\ starting = FALSE /\ child = "none" /\ quiescenceErr = FALSE
    /\ rootfsStarted = FALSE /\ rootfs = None
    /\ terminal = None /\ persistenceErr = "none"
    /\ controlEntries = [id \in RequestIDs |-> None]
    /\ calls = [c \in Connections |-> Free]
    /\ task = NoTask /\ workload = "none"
    /\ disk = [record |-> None, synced |-> FALSE]
    /\ alive = TRUE /\ life = 1 /\ faults = 0
    /\ starts = 0 /\ preparations = 0 /\ answers = {}
    /\ delivered = [id \in RequestIDs |-> 0]
    /\ reported = None

Serve(c) ==
    \/ Answer(c) \/ Replay(c)
    \/ PrepareBegin(c) \/ PrepareEnd(c)
    \/ ReleaseBegin(c) \/ RunnerStart(c) \/ ReleasePublish(c) \/ ReleaseFailed(c)
    \/ SignalBegin(c) \/ SignalVerified(c)

Reaper == DirectWait \/ Reap \/ Seal \/ Persist \/ Publish

Next ==
    \/ \E c \in Connections : Serve(c)
    \/ \E c \in Connections, id \in RequestIDs, content \in Contents : Receive(c, id, content)
    \/ Inspect \/ Reaper \/ Exit \/ Die \/ NewInit

Spec == Init /\ [][Next]_shimVars

\* Goroutines run; the daemon polls Inspect (engine/watch.go); a workload that
\* was told to end is not assumed to.
FairSpec ==
    /\ Spec
    /\ \A c \in Connections : WF_shimVars(Serve(c))
    /\ WF_shimVars(Reaper) /\ WF_shimVars(Inspect)

-----------------------------------------------------------------------------
(* Properties. *)

\* One wrapper calls runner.Start at most once and its preparer at most once,
\* whatever connections ask for it together (wrapper.go, Release and
\* PrepareRootfs), and starts nothing in a root that was not prepared.
GateOpensOnce ==
    /\ starts <= 1 /\ preparations <= 1
    /\ starts = 1 => rootfs # None

\* "prepared" is what the daemon takes for permission to release: it is never
\* said of a wrapper that has started a workload, however the start ended.
PreparedMeansClosed ==
    alive /\ Observed = "prepared" => starts = 0 /\ workload = "none" /\ disk.record = None

\* The record of this wrapper's workload, in memory or on disk, exists only
\* when the tree is known to be gone, and says that nothing ran only if so.
TerminalTruthful ==
    alive /\ starts > 0 =>
        \A r \in {terminal, disk.record} \ {None} :
            workload = IF r = "start_failed" THEN "none" ELSE "quiet"

\* A request ID is answered with one answer, its first (HandleControl).
ReplayExact ==
    \A a, b \in answers : a.id = b.id => a = b

\* However often a signal request is repeated, on however many connections, it
\* is delivered at most once.
DeliveredOnce == \A id \in RequestIDs : delivered[id] <= 1

\* What an Inspect has reported as terminal stays on disk when the wrapper dies,
\* and the wrapper that wrote it has synchronized it before.
ReportedIsCommitted ==
    reported # None =>
        /\ disk.record = reported
        /\ alive /\ starts > 0 => disk.synced

\* No signal leaves for a workload whose end was committed or reported, although
\* the check of the wrapper and the delivery of the child are under two locks.
SignalsReachTheWorkload ==
    [][\A id \in RequestIDs : delivered'[id] > delivered[id] =>
          child = "safe" /\ terminal = None /\ disk.record = None]_shimVars

-----------------------------------------------------------------------------
(* Liveness. *)

\* Every request on a connection is answered, unless the wrapper dies.
RequestsAnswered ==
    \A c \in Connections : calls[c] # Free ~> calls[c] = Free

\* An end of the workload that can be recorded is reported, unless the wrapper
\* dies: failed writes are repaired by later Inspects.
EndReported ==
    task.pc \in {"persist", "publish"} ~> (reported # None \/ ~alive)

-----------------------------------------------------------------------------
(* The wrapper that AttemptEngine assumes. *)

Pending == "pending"

\* AttemptContract's workload.  A wrapper that died, or that will never record
\* an end, has lost it.
ContractWorkload ==
    CASE ~alive \/ quiescenceErr \/ persistenceErr = "unbuildable" -> "lost"
      [] OTHER -> IF terminal # None THEN "ended"
                  ELSE IF child = "safe" THEN "running"
                  ELSE IF gateConsumed THEN "consumed" ELSE "waiting"

ContractOutcome == IF terminal # None THEN terminal ELSE Pending

Contract == INSTANCE AttemptContract WITH
    Pending <- Pending, Outcomes <- Reasons,
    workload <- ContractWorkload, outcome <- ContractOutcome,
    phase <- "created", recorded <- Pending

\* The workload of AttemptEngine is that of a wrapper with one life: launched
\* once, published at most once, ended once with one outcome.
KeepsContract == Contract!ContractSpec
=============================================================================
