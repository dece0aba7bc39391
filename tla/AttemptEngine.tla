--------------------------- MODULE AttemptEngine ---------------------------
(***************************************************************************)
(* The engine of src/internal/engine driving one Container through start,   *)
(* kill and natural exit: StartContainer, KillContainer, RecordTerminal,    *)
(* the two runtime watchers and startup recovery, against the init wrapper   *)
(* that holds the workload and a daemon that may crash between any two       *)
(* steps.                                                                   *)
(*                                                                         *)
(* Every durable effect is an action of Lifecycle; this module adds the      *)
(* order in which the engine takes them and what it does in between.  The    *)
(* engine holds the target lock of the Container for a whole method          *)
(* (engine.go:243), so one register "call" holds the method that is under    *)
(* way; the lock-free reads of the watchers and the wrapper itself run       *)
(* beside it.  Creation, rollback and deletion are not part of this module:  *)
(* it begins with a Container that was created.                              *)
(***************************************************************************)
EXTENDS Lifecycle

CONSTANTS
    Box, Ctr,          \* the Sandbox and the Container
    BoxBy, MadeBy,     \* the creates that made them
    StartOps,          \* operation IDs of clients' starts
    KillOps,           \* operation IDs of clients' kills
    StopOps,           \* operation IDs the terminal watch and recovery may use
    HostErrors,        \* whether observations, signals and wrappers may fail
    Grace,             \* KillRequest.Policy.GracePeriod
    MaxTime,           \* bound on the clock
    MaxFaults          \* bound on crashes and abandoned client calls

ASSUME EngineAssumption ==
    /\ Sandboxes = {Box} /\ Containers = {Ctr} /\ Specs # {}
    /\ Ops = {BoxBy, MadeBy} \cup StartOps \cup KillOps \cup StopOps
    /\ BoxBy # MadeBy
    /\ {BoxBy, MadeBy} \cap (StartOps \cup KillOps \cup StopOps) = {}
    /\ StartOps \cap KillOps = {} /\ StopOps \cap (StartOps \cup KillOps) = {}
    /\ HostErrors \in BOOLEAN
    /\ {Grace, MaxTime, MaxFaults} \subseteq Nat
    /\ None \notin Nat

VARIABLES
    cond,       \* durable: ProcessIdentityUnknown on the Attempt: none, retryable, blocked
    deadline,   \* durable: [Ops -> time or None], KillEscalationDeadline
    daemon,     \* down, starting (recovery), up, stopping or refused
    call,       \* the engine method that holds the target lock, and where it is
    known,      \* the identity registry holds the init process
    proc,       \* the init wrapper's workload
    exit,       \* the outcome the wrapper will report
    sent,       \* [Ops -> first delivery of its initial signal and of its escalation]
    now,        \* the clock
    faults      \* crashes and abandoned calls so far

durable == <<sandbox, pair, op, cond, deadline>>
engine == <<daemon, call, known>>
host == <<proc, exit, sent>>
allVars == <<durable, engine, host, now, faults>>

-----------------------------------------------------------------------------
(* Types. *)

Times == 0 .. MaxTime
Conditions == {"none", "retryable", "blocked"}
DaemonStates == {"down", "starting", "up", "stopping", "refused"}

\* gated: rootfs prepared, StartGate closed.  starting: gate consumed, child
\* not published.  reaped: the child is gone, its terminal record not yet
\* committed.  aborted: no child was published.  lost: the wrapper is gone.
ProcStates == {"gated", "starting", "running", "reaped", "exited", "aborted", "lost"}

\* Who entered a method: a client of the API, a runtime watcher, recovery, or
\* recovery retrying a Start whose effect it observed.
Callers == {"client", "watch", "recover", "recover_again"}
Methods == {"start", "kill", "kill_initial", "terminal"}

\* AttemptObservation as the engine tells it apart, and the two ways to fail.
Seen == {"prepared", "starting", "running", "ended", "error", "unavailable"}

Idle == [by |-> "none", method |-> "none", op |-> None, pc |-> "idle", seen |-> "none"]

PCs == {"dispatch", "release", "releasing", "checkpoint_release", "checkpoint_observe",
        "clear", "record", "recheck", "after_error", "checkpoint_signal", "wait",
        "escalate", "confirm", "observe_end", "begin_stop", "checkpoint_end",
        "record_end"}

Calls == [by : Callers, method : Methods, op : Ops, pc : PCs,
          seen : Seen \cup {"none"}]

\* Recovery between Discover and Reconcile: what Discover found.
Discovered == [by : {"recover"}, method : {"none"}, op : {None}, pc : {"reconcile"},
               seen : {"clean", "unknown", "absent", "retryable", "running", "ended"}]

EngineTypes ==
    /\ cond \in Conditions
    /\ deadline \in [Ops -> Nat \cup {None}]
    /\ daemon \in DaemonStates
    /\ call \in {Idle} \cup Calls \cup Discovered
    /\ known \in BOOLEAN
    /\ proc \in ProcStates
    /\ exit \in Outcomes
    /\ sent \in [Ops -> [initial : Times \cup {None}, escalation : Times \cup {None}]]
    /\ now \in Times
    /\ faults \in 0 .. MaxFaults

EngineTypeOK == TypeOK /\ EngineTypes

-----------------------------------------------------------------------------
(* The host as the engine sees it. *)

\* IsolationProvider.ObserveAttempt: the wrapper's State, Terminal once the
\* record is committed; a wrapper that is gone is an error that is not marked
\* unavailable, a failed control exchange one that is.
Observed ==
    CASE proc = "gated" -> "prepared"
      [] proc = "starting" -> "starting"
      [] proc \in {"running", "reaped"} -> "running"
      [] proc \in {"exited", "aborted"} -> "ended"
      [] OTHER -> "error"

Unavailable == IF HostErrors THEN {"unavailable"} ELSE {}
Observations == {Observed} \cup Unavailable
Bad(seen) == seen \in {"error", "unavailable"}

\* SignalVerified through the wrapper's replay cache: a request ID derived
\* from operation and step is executed once and answered with its first
\* delivery time ever after; a child that was reaped takes no signal.
DeliveredAt(o) ==
    IF sent[o].initial # None THEN sent[o].initial
    ELSE IF proc = "running" THEN now ELSE None

StartFailed == proc = "aborted"

-----------------------------------------------------------------------------
(* Control of a method. *)

Quiet == call.pc = "idle"

At(methods, pc) == call.method \in methods /\ call.pc = pc

Stage == op[call.op].stage

Go(pc, seen) ==
    /\ call' = [call EXCEPT !.pc = pc, !.seen = seen]
    /\ UNCHANGED <<daemon, known>>

Enter(by, method, o, pc) ==
    /\ call' = [by |-> by, method |-> method, op |-> o, pc |-> pc, seen |-> "none"]
    /\ UNCHANGED known

\* The end of a method.  A client gets the error; a watcher ignores an
\* unavailable observation and stops the daemon for any other error
\* (watch.go, WatchRuntime); recovery fails startup for both, except that it
\* rechecks a failed Start (reconcileActiveOperation).
Return(result) ==
    LET recheck == call.by = "recover" /\ call.method = "start" /\ Bad(result) IN
    /\ call' = IF recheck THEN [call EXCEPT !.pc = "recheck"] ELSE Idle
    /\ daemon' = CASE recheck -> daemon
                   [] call.by = "client" -> daemon
                   [] call.by = "watch" -> IF result = "error" THEN "stopping" ELSE daemon
                   [] OTHER -> IF Bad(result) THEN "refused" ELSE "up"
    /\ UNCHANGED known

\* The end of recovery: the API and the watchers start, or startup fails.
Recovered == daemon' = "up" /\ call' = Idle /\ UNCHANGED known
Refuse == daemon' = "refused" /\ call' = Idle /\ UNCHANGED known

ReadsOnly == UNCHANGED <<durable, host, now, faults>>
Persists == UNCHANGED <<host, now, faults>>
KeepNotes == UNCHANGED <<cond, deadline>>

\* A failed provider call before the effect it asks for.
HostFails == HostErrors /\ Return("unavailable")

-----------------------------------------------------------------------------
(* StartContainer. *)

ClientStart(o) ==
    /\ daemon = "up" /\ Quiet /\ o \in StartOps
    /\ Persists /\ KeepNotes
    /\ \/ BeginContainerStart(o, Ctr)
       \/ PersistOperationConflict(o, Binding("start", Ctr, NoInput))
       \/ ResolveResume(o, "start", Ctr) /\ UNCHANGED vars
    /\ IF op'[o].state = "running"
       THEN Enter("client", "start", o, "dispatch") /\ UNCHANGED daemon
       ELSE UNCHANGED engine

\* AttachAttemptProcess is idempotent; only its checkpoint is remembered.
StartAttach ==
    /\ At({"start"}, "dispatch") /\ Stage = "persist_intent"
    /\ \/ CheckpointAttach(call.op) /\ Go("dispatch", "none") /\ KeepNotes /\ Persists
       \/ HostFails /\ ReadsOnly

StartObserveBeforeRelease ==
    /\ At({"start"}, "dispatch") /\ Stage = "attach_cgroup"
    /\ \E seen \in Observations :
          IF Bad(seen) THEN Return(seen)
          ELSE Go(IF seen = "prepared" THEN "release" ELSE "checkpoint_release", seen)
    /\ ReadsOnly

\* Mutant: a release that failed counts as one whose answer was lost.
ReleaseStartGateAssumed ==
    /\ At({"start"}, "release")
    /\ UNCHANGED <<durable, exit, sent, now, faults>>
    /\ \/ proc = "gated" /\ proc' = "starting" /\ Go("releasing", "none")
       \/ HostErrors /\ Go("checkpoint_release", "starting") /\ UNCHANGED proc

\* The gate is consumed, or the request is lost before it; a caller that gets
\* an error looks again and gives up only when the wrapper is still prepared.
ReleaseStartGate ==
    /\ At({"start"}, "release")
    /\ UNCHANGED <<durable, exit, sent, now, faults>>
    /\ \/ proc = "gated" /\ proc' = "starting" /\ Go("releasing", "none")
       \/ proc # "gated" /\ UNCHANGED proc /\ Go("releasing", "none")
       \/ HostFails /\ UNCHANGED proc

\* The response arrives when the child is published or failed to start; a lost
\* response is followed by one observation.
GateReleased ==
    /\ At({"start"}, "releasing") /\ ReadsOnly
    /\ \/ proc # "starting" /\ ~Bad(Observed) /\ Go("checkpoint_release", Observed)
       \/ proc = "lost" /\ Return("error")
       \/ HostErrors /\ \E seen \in Observations :
             IF Bad(seen) THEN Return(seen) ELSE Go("checkpoint_release", seen)

StartCheckpointRelease ==
    /\ At({"start"}, "checkpoint_release")
    /\ CheckpointProcess(call.op, "release_start_gate")
    /\ Go("dispatch", "none") /\ KeepNotes /\ Persists

\* Any later stage, check_preconditions included, goes straight to here.
StartObserve ==
    /\ At({"start"}, "dispatch") /\ Stage \notin {"persist_intent", "attach_cgroup"}
    /\ \E seen \in Observations :
          IF Bad(seen) THEN Return(seen) ELSE Go("checkpoint_observe", seen)
    /\ ReadsOnly

\* Mutant: the retry of a checkpoint that is already there is an error.
StartCheckpointObserveOnce ==
    /\ At({"start"}, "checkpoint_observe")
    /\ Persists /\ KeepNotes
    /\ \/ CheckpointProcess(call.op, "observe_process") /\ Go("clear", call.seen)
       \/ Stage = "observe_process" /\ UNCHANGED vars /\ Return("error")

\* An exact retry of the checkpoint changes nothing; a stage that may not
\* advance is refused by the Coordinator.
StartCheckpointObserve ==
    /\ At({"start"}, "checkpoint_observe")
    /\ Persists /\ KeepNotes
    /\ \/ CheckpointProcess(call.op, "observe_process") /\ Go("clear", call.seen)
       \/ Stage = "observe_process" /\ UNCHANGED vars /\ Go("clear", call.seen)
       \/ ~StartMayAdvance(Stage, "observe_process") /\ UNCHANGED vars /\ Return("error")

StartClearCondition ==
    /\ At({"start"}, "clear")
    /\ cond' = "none" /\ UNCHANGED <<vars, deadline>>
    /\ Go("record", call.seen) /\ Persists

\* Mutant: Running is confirmed from an observation that only says starting.
StartRecordEagerly ==
    /\ At({"start"}, "record") /\ KeepNotes /\ Persists
    /\ \/ call.seen = "ended" /\ RecordContainerStartTerminal(call.op, Ctr, exit, StartFailed)
       \/ call.seen # "ended" /\ ConfirmContainerStart(call.op, Ctr)
    /\ Return("ok")

StartRecord ==
    /\ At({"start"}, "record") /\ KeepNotes /\ Persists
    /\ \/ /\ call.seen = "ended"
          /\ RecordContainerStartTerminal(call.op, Ctr, exit, StartFailed)
          /\ Return("ok")
       \/ call.seen = "running" /\ ConfirmContainerStart(call.op, Ctr) /\ Return("ok")
       \/ call.seen \in {"prepared", "starting"} /\ Return("error") /\ UNCHANGED vars

StartStep ==
    \/ StartAttach \/ StartObserveBeforeRelease \/ ReleaseStartGate \/ GateReleased
    \/ StartCheckpointRelease \/ StartObserve \/ StartCheckpointObserve
    \/ StartClearCondition \/ StartRecord

-----------------------------------------------------------------------------
(* KillContainer, and the initial delivery that recovery and the deadline    *)
(* watch make without waiting (checkpointInitialKillDuringRecovery).        *)

\* Engine.Verify behind PlanKill, for a new kill and for each resume.
Verified == known /\ proc # "lost"

ClientKill(o) ==
    /\ daemon = "up" /\ Quiet /\ o \in KillOps
    /\ Persists /\ KeepNotes
    /\ \/ /\ PlanKill(o, Ctr)
          /\ pair[Ctr].phase = "running" => Verified /\ now + Grace <= MaxTime
       \/ PersistOperationConflict(o, Binding("kill", Ctr, NoInput))
       \/ ResolveResume(o, "kill", Ctr) /\ Verified /\ UNCHANGED vars
    /\ IF op'[o].state = "running"
       THEN Enter("client", "kill", o, "dispatch") /\ UNCHANGED daemon
       ELSE UNCHANGED engine

\* SignalVerified, step initial.  The wrapper stamps the first delivery.
KillSignal ==
    /\ At({"kill", "kill_initial"}, "dispatch") /\ Stage = "persist_intent"
    /\ UNCHANGED <<durable, proc, exit, now, faults>>
    /\ LET at == DeliveredAt(call.op) IN
       \/ /\ at # None
          /\ sent' = [sent EXCEPT ![call.op].initial = at]
          /\ Go("checkpoint_signal", "none")
       \/ at = None /\ Go("after_error", "error") /\ UNCHANGED sent
       \/ /\ HostErrors /\ Go("after_error", "unavailable")
          /\ sent' \in {sent, [sent EXCEPT ![call.op].initial = at]}

\* observeAfterSignalError accepts a verified terminal fact only.
KillAfterError ==
    /\ At({"kill", "kill_initial"}, "after_error")
    /\ \E seen \in Observations :
          IF seen = "ended" THEN Go("checkpoint_end", seen)
          ELSE LET result == IF "unavailable" \in {seen, call.seen}
                             THEN "unavailable" ELSE "error"
               IN Return(IF call.method = "kill_initial" /\ result = "unavailable"
                         THEN "ok" ELSE result)
    /\ ReadsOnly

\* checkpointKillSignal binds the first delivery to one absolute deadline.
KillCheckpointSignal ==
    /\ At({"kill", "kill_initial"}, "checkpoint_signal")
    /\ CheckpointProcess(call.op, "signal_process")
    /\ deadline' = [deadline EXCEPT ![call.op] = sent[call.op].initial + Grace]
    /\ IF call.method = "kill" THEN Go("wait", "none") ELSE Return("ok")
    /\ UNCHANGED cond /\ Persists

\* The other stages KillContainer may find its operation in.
KillResumeStage ==
    /\ At({"kill"}, "dispatch") /\ Stage # "persist_intent" /\ ReadsOnly
    /\ IF Stage = "signal_process" /\ deadline[call.op] # None THEN Go("wait", "none")
       ELSE IF Stage # "observe_process" THEN Return("error")
       ELSE \E seen \in Observations :
               IF Bad(seen) THEN Return(seen)
               ELSE IF seen = "ended" THEN Go("checkpoint_end", seen)
               ELSE IF deadline[call.op] # None THEN Go("wait", "none")
               ELSE Return("error")

\* Mutant: the poll that finds a live workload escalates at once.
KillWaitImpatiently ==
    /\ At({"kill"}, "wait") /\ ReadsOnly
    /\ \E seen \in Observations :
          \/ Bad(seen) /\ Return(seen)
          \/ seen = "ended" /\ Go("checkpoint_end", seen)
          \/ ~Bad(seen) /\ seen # "ended" /\ Go("escalate", seen)

\* waitForTerminalUntil polls; a live workload is left alone until the deadline.
KillWait ==
    /\ At({"kill"}, "wait") /\ ReadsOnly
    /\ \E seen \in Observations :
          \/ Bad(seen) /\ Return(seen)
          \/ seen = "ended" /\ Go("checkpoint_end", seen)
          \/ ~Bad(seen) /\ seen # "ended" /\ now >= deadline[call.op] /\ Go("escalate", seen)

\* SignalVerified, step escalation.
KillEscalate ==
    /\ At({"kill"}, "escalate")
    /\ UNCHANGED <<durable, proc, exit, now, faults>>
    /\ LET delivered == [sent EXCEPT ![call.op].escalation = IF @ = None THEN now ELSE @] IN
       \/ /\ proc = "running" \/ sent[call.op].escalation # None
          /\ sent' = delivered /\ Go("confirm", "none")
       \/ /\ proc # "running" /\ sent[call.op].escalation = None
          /\ UNCHANGED sent /\ Go("after_error", "error")
       \/ /\ HostErrors /\ Go("after_error", "unavailable")
          /\ sent' \in {sent} \cup IF proc = "running" THEN {delivered} ELSE {}

\* waitForConfirmedTerminal polls for five seconds; only a wrapper that does
\* not publish the exit lets them pass.
KillConfirm ==
    /\ At({"kill"}, "confirm") /\ ReadsOnly
    /\ \/ \E seen \in Observations :
             \/ Bad(seen) /\ Return(seen)
             \/ seen = "ended" /\ Go("checkpoint_end", seen)
       \/ HostErrors /\ Return("error")

KillStep ==
    \/ KillSignal \/ KillAfterError \/ KillCheckpointSignal \/ KillResumeStage
    \/ KillWait \/ KillEscalate \/ KillConfirm

-----------------------------------------------------------------------------
(* Recording a terminal fact: RecordTerminal, SynchronizeTerminals, and the  *)
(* end of a kill.                                                           *)

\* The watcher skips a live workload, which is an error to RecordTerminal.  An
\* active stop that recovery cannot observe keeps a retryable condition.
TerminalObserve ==
    /\ At({"terminal"}, "observe_end") /\ UNCHANGED <<vars, deadline>> /\ Persists
    /\ \E seen \in Observations :
          IF seen = "unavailable" /\ call.by = "recover" /\ Active(call.op)
          THEN cond' = "retryable" /\ Recovered
          ELSE /\ UNCHANGED cond
               /\ IF seen = "ended" THEN Go("begin_stop", seen)
                  ELSE Return(IF Bad(seen) THEN seen
                              ELSE IF call.by = "watch" THEN "ok" ELSE "error")

\* A new natural stop, or the one an earlier pass left active; its fingerprint
\* holds the outcome, which the wrapper's record makes the same every time.
TerminalBegin ==
    /\ At({"terminal"}, "begin_stop") /\ KeepNotes /\ Persists
    /\ \/ BeginRecordStopped(call.op, Ctr, exit)
       \/ ResolveResume(call.op, "stop", Ctr) /\ op[call.op].fp.outcome = exit /\ UNCHANGED vars
    /\ Go("checkpoint_end", call.seen)

CheckpointEnd ==
    /\ At({"kill", "kill_initial", "terminal"}, "checkpoint_end") /\ KeepNotes /\ Persists
    /\ \/ CheckpointProcess(call.op, "observe_process")
       \/ Stage = "observe_process" /\ UNCHANGED vars
    /\ Go("record_end", call.seen)

RecordEnd ==
    /\ At({"kill", "kill_initial", "terminal"}, "record_end") /\ KeepNotes /\ Persists
    /\ IF call.method = "terminal" THEN RecordStopped(call.op, Ctr)
                                   ELSE RecordKillStopped(call.op, Ctr, exit)
    /\ Return("ok")

RecordStep == TerminalObserve \/ TerminalBegin \/ CheckpointEnd \/ RecordEnd

-----------------------------------------------------------------------------
(* The runtime watchers (watch.go).                                         *)

ActiveOn(c) == {o \in Ops : Active(o) /\ op[o].target = c}

\* Mutant: the watch resumes its own stop and begins none.
TerminalWatchPlanOwned(o) == o \in ActiveOn(Ctr) /\ op[o].type = "stop" /\ cond # "blocked"

\* planTerminalWatch: a Running Attempt that no operation holds and no
\* condition blocks, or the engine's own interrupted stop.
TerminalWatchPlan(o) ==
    /\ pair[Ctr].phase = "running"
    /\ \/ ActiveOn(Ctr) = {} /\ cond = "none" /\ o \in StopOps /\ op[o].state = "unused"
       \/ o \in ActiveOn(Ctr) /\ op[o].type = "stop" /\ cond # "blocked"

SynchronizeTerminals(o) ==
    /\ daemon = "up" /\ Quiet
    /\ TerminalWatchPlan(o)
    /\ Enter("watch", "terminal", o, "observe_end") /\ UNCHANGED daemon
    /\ ReadsOnly

\* Mutant: the watch delivers and leaves the escalation to the client.
SynchronizeKillDeliveries(o) ==
    /\ daemon = "up" /\ Active(o) /\ op[o].type = "kill" /\ ReadsOnly
    /\ op[o].stage = "persist_intent" /\ Quiet
    /\ Enter("watch", "kill_initial", o, "dispatch") /\ UNCHANGED daemon

\* SynchronizeKillDeadlines reads the operations without the target lock.  An
\* undelivered kill is delivered, one that is due is resumed, one past its
\* intent without a deadline stops the daemon.
SynchronizeKillDeadlines(o) ==
    /\ daemon = "up" /\ Active(o) /\ op[o].type = "kill" /\ ReadsOnly
    /\ \/ /\ op[o].stage = "persist_intent" /\ Quiet
          /\ Enter("watch", "kill_initial", o, "dispatch") /\ UNCHANGED daemon
       \/ /\ op[o].stage # "persist_intent" /\ deadline[o] = None
          /\ daemon' = "stopping" /\ UNCHANGED <<call, known>>
       \/ /\ op[o].stage # "persist_intent" /\ deadline[o] # None
          /\ now >= deadline[o] /\ Quiet
          /\ \/ Verified /\ Enter("watch", "kill", o, "dispatch") /\ UNCHANGED daemon
             \/ ~Verified /\ daemon' = "stopping" /\ UNCHANGED <<call, known>>

-----------------------------------------------------------------------------
(* Startup recovery (recovery.go), before the API and the watchers run.     *)

\* The init receipt is adopted and inspected with every other receipt.
Presences == (IF proc = "lost" THEN {"absent"} ELSE {"present"})
             \cup (IF HostErrors THEN {"unknown"} ELSE {})

\* A Running Attempt that no operation holds is observed too; an observation
\* that fails for good, of a wrapper lost since its inspection, fails Discover.
DiscoverRunning(presence) ==
    IF presence = "present" /\ pair[Ctr].phase = "running" /\ ActiveOn(Ctr) = {}
    THEN {IF seen = "unavailable" THEN "retryable" ELSE seen : seen \in Observations}
         \cup (IF HostErrors THEN {"error"} ELSE {})
    ELSE {CASE presence = "absent" -> "absent"
            [] presence = "unknown" -> "unknown"
            [] OTHER -> "clean"}

Discover ==
    /\ daemon = "starting" /\ Quiet /\ ReadsOnly
    /\ \E presence \in Presences : \E seen \in DiscoverRunning(presence) :
          IF seen = "error"
          THEN daemon' = "refused" /\ UNCHANGED <<call, known>>
          ELSE /\ call' = [Idle EXCEPT !.by = "recover", !.pc = "reconcile",
                              !.seen = IF seen \in {"prepared", "starting"} THEN "running" ELSE seen]
               /\ known' = (presence = "present")
               /\ UNCHANGED daemon

Reconciling == call.pc = "reconcile"

\* checkpointRecoveryIssue keeps the operation active and blocks the Attempt.
ProjectRecoveryIssue(o) ==
    /\ IF op[o].stage = "persist_intent" THEN CheckpointRecoveryIssue(o) ELSE UNCHANGED vars
    /\ cond' = "blocked" /\ UNCHANGED deadline

\* Discovery could not judge a resource of an active intent, or proved it gone.
ReconcileIssue(o) ==
    /\ Reconciling /\ Active(o) /\ call.seen \in {"unknown", "absent"} /\ Persists
    /\ \/ /\ call.seen = "unknown" \/ op[o].type = "stop"
          /\ ProjectRecoveryIssue(o)
       \/ /\ call.seen = "absent" /\ op[o].type # "stop"
          /\ FailActiveOperation(o)
          /\ cond' = "blocked" /\ UNCHANGED deadline
    /\ Recovered

\* Without an active intent every finding but a terminal one is a condition.
ReconcileCondition ==
    /\ Reconciling /\ ActiveOn(Ctr) = {} /\ Persists
    /\ UNCHANGED <<vars, deadline>>
    /\ \/ call.seen = "clean" /\ UNCHANGED cond
       \/ call.seen = "retryable" /\ cond' = "retryable"
       \/ call.seen \in {"unknown", "absent", "running"} /\ cond' = "blocked"
    /\ Recovered

ReconcileTerminal(o) ==
    /\ Reconciling /\ call.seen = "ended" /\ o \in StopOps /\ op[o].state = "unused"
    /\ Enter("recover", "terminal", o, "observe_end") /\ UNCHANGED daemon
    /\ ReadsOnly

\* reconcileActiveOperation resumes an intent none of whose resources is in doubt.
ReconcileActive(o) ==
    /\ Reconciling /\ Active(o) /\ call.seen = "clean"
    /\ op[o].type \in {"start", "stop"} /\ ReadsOnly /\ UNCHANGED daemon
    /\ IF op[o].type = "start" THEN Enter("recover", "start", o, "dispatch")
                               ELSE Enter("recover", "terminal", o, "observe_end")

RecoverKill(o) ==
    /\ UNCHANGED durable
    /\ \/ Verified /\ Enter("recover", "kill", o, "dispatch") /\ UNCHANGED daemon
       \/ (~Verified \/ HostErrors) /\ Refuse

\* reconcileActiveKill does not wait for a deadline that is in the future.
ReconcileActiveKill(o) ==
    /\ Reconciling /\ Active(o) /\ call.seen = "clean" /\ op[o].type = "kill"
    /\ UNCHANGED <<host, now, faults>>
    /\ \/ /\ op[o].stage = "persist_intent"
          /\ Enter("recover", "kill_initial", o, "dispatch")
          /\ UNCHANGED <<daemon, durable>>
       \/ /\ op[o].stage # "persist_intent" /\ deadline[o] = None
          /\ Refuse /\ UNCHANGED durable
       \/ /\ op[o].stage # "persist_intent" /\ deadline[o] # None
          /\ now >= deadline[o] /\ RecoverKill(o)
       \/ /\ op[o].stage # "persist_intent" /\ deadline[o] # None /\ now < deadline[o]
          /\ \E seen \in Observations :
                \/ seen = "unavailable" /\ Recovered /\ cond' = "blocked"
                   /\ UNCHANGED <<vars, deadline>>
                \/ seen = "error" /\ Refuse /\ UNCHANGED durable
                \/ seen = "ended" /\ RecoverKill(o)
                \/ ~Bad(seen) /\ seen # "ended" /\ Recovered /\ UNCHANGED durable

\* A resumed Start failed: the wrapper is asked once more.
RecheckStart ==
    /\ call.pc = "recheck" /\ Persists
    /\ \E seen \in Observations :
          \/ /\ seen = "unavailable"
             /\ ProjectRecoveryIssue(call.op) /\ Recovered
          \/ /\ seen = "starting"
             /\ cond' = "blocked" /\ UNCHANGED <<vars, deadline>> /\ Recovered
          \/ /\ seen \in {"running", "ended"}
             /\ Enter("recover_again", "start", call.op, "dispatch")
             /\ UNCHANGED <<daemon, durable>>
          \/ seen \in {"prepared", "error"} /\ Refuse /\ UNCHANGED durable

RecoverStep ==
    \/ Discover \/ ReconcileCondition \/ RecheckStart
    \/ \E o \in Ops : \/ ReconcileIssue(o) \/ ReconcileTerminal(o)
                      \/ ReconcileActive(o) \/ ReconcileActiveKill(o)

-----------------------------------------------------------------------------
(* The daemon and the host.                                                 *)

\* Startup failed, the daemon stopped or crashed: its supervisor starts it.
StartDaemon ==
    /\ daemon \in {"down", "refused"}
    /\ daemon' = "starting" /\ known' = FALSE
    /\ UNCHANGED call /\ ReadsOnly

\* A shutdown drops what is under way when it does not finish in time.
StopDaemon ==
    /\ daemon = "stopping"
    /\ daemon' = "down" /\ call' = Idle /\ UNCHANGED known /\ ReadsOnly

Crash ==
    /\ daemon \in {"starting", "up"} /\ faults < MaxFaults
    /\ faults' = faults + 1
    /\ daemon' = "down" /\ call' = Idle
    /\ UNCHANGED <<durable, known, host, now>>

\* The context of a client's call ends while its method is under way.
Abandon ==
    /\ call.by = "client" /\ faults < MaxFaults
    /\ faults' = faults + 1 /\ call' = Idle
    /\ UNCHANGED <<durable, daemon, known, host, now>>

HostStep ==
    /\ UNCHANGED <<durable, engine, sent, now, faults>>
    /\ \/ proc = "starting" /\ proc' = "running" /\ UNCHANGED exit
       \/ proc = "starting" /\ proc' = "aborted" /\ exit' \in {"not_applicable", "unknown"}
       \/ proc = "running" /\ proc' = "reaped" /\ UNCHANGED exit
       \/ proc = "reaped" /\ proc' = "exited" /\ exit' \in TerminalOutcomes
       \/ HostErrors /\ proc # "lost" /\ proc' = "lost" /\ UNCHANGED exit

\* The clock leaves room for the grace of a kill that is not delivered yet.
Tick ==
    /\ \A o \in KillOps : Active(o) /\ sent[o].initial = None => now + Grace < MaxTime
    /\ now < MaxTime /\ now' = now + 1
    /\ UNCHANGED <<durable, engine, host, faults>>

-----------------------------------------------------------------------------

\* The Sandbox is Ready and the Container was created: its wrapper waits.
EngineInit ==
    /\ \E p \in Specs :
        LET made(b) == [state |-> "succeeded", type |-> "create", target |-> b.target,
                        fp |-> b.fp, stage |-> "complete", journal |-> "full",
                        result |-> "succeeded"] IN
        /\ sandbox = [s \in Sandboxes |->
              [phase |-> "ready", spec |-> p, current |-> Ctr, owner |-> BoxBy]]
        /\ pair = [c \in Containers |->
              [phase |-> "created", sandbox |-> Box, spec |-> p,
               outcome |-> "pending", owner |-> MadeBy]]
        /\ op = [o \in Ops |->
              CASE o = BoxBy  -> made(SandboxCreate(Box, p))
                [] o = MadeBy -> made(ContainerCreate(Ctr, Box, p))
                [] OTHER      -> NoOperation]
    /\ cond = "none" /\ deadline = [o \in Ops |-> None]
    /\ daemon = "up" /\ call = Idle /\ known = TRUE
    /\ proc = "gated" /\ exit = "pending"
    /\ sent = [o \in Ops |-> [initial |-> None, escalation |-> None]]
    /\ now = 0 /\ faults = 0

MethodStep == StartStep \/ KillStep \/ RecordStep

EngineNext ==
    \/ \E o \in Ops : \/ ClientStart(o) \/ ClientKill(o)
                      \/ SynchronizeTerminals(o) \/ SynchronizeKillDeadlines(o)
    \/ MethodStep \/ RecoverStep
    \/ StartDaemon \/ StopDaemon \/ Crash \/ Abandon
    \/ HostStep \/ Tick

EngineSpec == EngineInit /\ [][EngineNext]_allVars

\* Methods run to their end, the watchers come round, the supervisor starts the
\* daemon, the wrapper publishes what happened, a child that was sent SIGKILL
\* ends and time passes.  A client retries the Start it was told to retry
\* (recovery.go:756); a natural exit and a kill are nobody's duty.
Retry(o) == ResolveResume(o, "start", Ctr) /\ ClientStart(o)

Publishes ==
    HostStep /\ (proc \in {"starting", "reaped"} \/ \E o \in Ops : sent[o].escalation # None)

FairEngineSpec ==
    /\ EngineSpec
    /\ WF_allVars(MethodStep) /\ WF_allVars(RecoverStep)
    /\ WF_allVars(StartDaemon) /\ WF_allVars(StopDaemon)
    /\ WF_allVars(Publishes) /\ WF_allVars(Tick)
    /\ \A o \in Ops : /\ WF_allVars(SynchronizeTerminals(o))
                      /\ WF_allVars(SynchronizeKillDeadlines(o))
                      /\ WF_allVars(Retry(o))

-----------------------------------------------------------------------------
(* Properties. *)

\* No workload is forgotten: while a child may run, the Attempt is recorded as
\* Running or an active Start is still there to record it, across crashes,
\* recovery's FailActiveOperation and abandoned calls (container.go:643).
WorkloadAccounted ==
    proc \in {"starting", "running", "reaped"} =>
        \/ pair[Ctr].phase = "running"
        \/ \E o \in StartOps : Active(o)

\* A durable stage never claims more than happened on the host: a release that
\* did not consume the gate, a delivery nobody made, an end nobody saw.
StagesBacked ==
    \A o \in Ops : Active(o) =>
        /\ op[o].type = "start" /\ AtLeast(o, "release_start_gate") => proc # "gated"
        /\ op[o].type = "kill" /\ AtLeast(o, "signal_process") =>
              sent[o].initial # None \/ exit # "pending"
        /\ op[o].type = "stop" => op[o].fp.outcome = exit

\* The grace period is anchored at the first delivery: a response that was
\* lost, a retry and a restart neither extend nor shorten it
\* (checkpoint.go:79, wrapper.go:486).
DeadlineAnchored ==
    \A o \in Ops : deadline[o] # None =>
        sent[o].initial # None /\ deadline[o] = sent[o].initial + Grace

\* No workload is killed early: the escalation follows the deadline that was
\* made durable before it, whoever resumes the kill (container.go:308-332).
EscalationAfterGrace ==
    \A o \in Ops : sent[o].escalation # None =>
        /\ deadline[o] # None
        /\ sent[o].escalation >= sent[o].initial + Grace

\* The workload as the contract tells it apart.
Workload ==
    CASE proc = "gated" -> "waiting"
      [] proc = "starting" -> "consumed"
      [] proc \in {"running", "reaped"} -> "running"
      [] proc \in {"exited", "aborted"} -> "ended"
      [] OTHER -> "lost"

\* The record of the Attempt implements the contract with its workload.
Contract == INSTANCE AttemptContract WITH
    Pending <- "pending", Outcomes <- TerminalOutcomes \cup {"not_applicable"},
    workload <- Workload, outcome <- exit,
    phase <- pair[Ctr].phase, recorded <- pair[Ctr].outcome
RecordFollowsWorkload == Contract!ContractSpec

\* The state recovery refuses: a kill past its intent without a deadline.
NoDeadline(o) ==
    Active(o) /\ op[o].type = "kill" /\ op[o].stage # "persist_intent" /\ deadline[o] = None

\* A Start that was accepted settles, through crashes between any two of its
\* steps, with the retry of its client and one restart.
StartSettles == \A o \in StartOps : Active(o) ~> Terminal(o)

\* A kill that was accepted ends, although its client may be gone: the watch
\* resumes it when it is due (watch.go:189).  The exception is the state
\* RestartCoversStages is about.
KillSettles ==
    \A o \in KillOps : Active(o) ~> (Terminal(o) \/ NoDeadline(o))

\* The end of a Running workload is recorded without any client, unless a
\* restart has blocked the Attempt (recovery.go:340) or left that same state.
EndIsRecorded ==
    (pair[Ctr].phase = "running" /\ proc = "exited") ~>
        (pair[Ctr].phase = "stopped" \/ cond = "blocked" \/ \E o \in KillOps : NoDeadline(o))

\* docs/features/daemon-recovery-observability-api.md: reconciliation after a
\* restart covers every durable lifecycle stage.  So the stage a crash leaves
\* behind never makes recovery refuse to start the daemon.
RestartCoversStages == daemon = "refused" => \A o \in KillOps : ~NoDeadline(o)

=============================================================================
