----------------------------- MODULE CgroupTree -----------------------------
(***************************************************************************)
(* The cgroups of one Sandbox (src/internal/cgroupv2/manager.go, observe.go)  *)
(* under the calls of their provider (src/internal/slim/cgroup.go): a parent  *)
(* without processes, the leaf of the keeper and one leaf per Attempt.        *)
(*                                                                         *)
(* A call acts on one group.  The engine makes one call per target at a time, *)
(* so calls on different groups run together, each in several file system     *)
(* calls; any of these may fail, and the daemon may die between two of them.  *)
(* The engine orders the targets: a Container is created in a Sandbox that is  *)
(* ready, and a Sandbox is deleted when it has no Container.                  *)
(*                                                                         *)
(* A leaf keeps its controls and its OOM counter; the kernel rounds memory.max *)
(* to whole pages, upward as the code expects or downward.                   *)
(***************************************************************************)
EXTENDS CgroupLimits

CONSTANTS
    Attempts, Parent, Keeper, Root,
    PageSize,  \* of the host
    Requested, \* [Attempts -> the resolved memory limit]
    MaxFaults, \* bound on failed file system calls and deaths of the daemon
    MaxKills   \* bound on the OOM kills in a leaf

Leaves == Attempts \cup {Keeper}
Groups == Leaves \cup {Parent}
Sizes == {RoundMemory(Requested[a], PageSize) : a \in Attempts}
         \cup {Requested[a] - (Requested[a] % PageSize) : a \in Attempts}

TreeAssumption ==
    /\ Parent # Keeper /\ Keeper # Root /\ Root # Parent /\ {Parent, Keeper, Root} \cap Attempts = {}
    /\ PageSize \in PageSizes
    /\ Requested \in [Attempts -> 1 .. MaxUint]
    /\ MaxFaults \in Nat /\ MaxKills \in Nat

Controls == <<"cpu.max", "memory.max", "pids.max">>
Max == 0 \* a limit that is not set: "max"
Asked == 1 \* the limits of CPUs and of processes that were asked for

VARIABLES
    up,       \* the kernel rounds memory.max upward
    node,     \* [Groups -> present, limits, OOM kills]
    enabled,  \* groups whose children have the controllers
    procs,    \* leaves with a process
    call,     \* [Groups -> progress of the call on the group]
    phase,    \* [Groups -> wanted, held, removing or removed, by the engine]
    receipt,  \* [Attempts -> the effective memory limit that an Ensure returned]
    baseline, \* [Attempts -> OOM kills before the start, or NoBaseline]
    started,  \* Attempts whose workload was released
    verdict,  \* [Attempts -> the OOM verdict of the ended workload]
    killed,   \* Attempts in which the kernel killed after the release
    faults

vars == <<up, node, enabled, procs, call, phase, receipt, baseline, started, verdict, killed, faults>>
workload == <<procs, baseline, started, verdict, killed>>

NoBaseline == MaxKills + 1
Fresh == [exists |-> TRUE, limits |-> [i \in 1 .. 3 |-> Max], kills |-> 0]
Absent == [Fresh EXCEPT !.exists = FALSE]
Idle == [step |-> "idle", op |-> "none", created |-> FALSE, next |-> 1]
Steps == {"idle", "above", "mkdir", "enable", "write", "read", "verify", "rmdir", "after"}

\* The type invariant of CgroupTree.
TypeOK ==
    /\ up \in BOOLEAN
    /\ node \in [Groups -> [exists : BOOLEAN, kills : 0 .. MaxKills,
                            limits : [1 .. 3 -> {Max, Asked} \cup Sizes]]]
    /\ enabled \subseteq {Root, Parent} /\ procs \subseteq Leaves
    /\ call \in [Groups -> [step : Steps, op : {"none", "ensure", "undo", "remove"},
                            created : BOOLEAN, next : 1 .. 4]]
    /\ phase \in [Groups -> {"wanted", "held", "removing", "removed"}]
    /\ receipt \in [Attempts -> {Max} \cup Sizes]
    /\ baseline \in [Attempts -> 0 .. NoBaseline]
    /\ started \subseteq Attempts /\ killed \subseteq started
    /\ verdict \in [Attempts -> {"unknown", "true", "false"}]
    /\ faults \in 0 .. MaxFaults

Init ==
    /\ up \in BOOLEAN
    /\ node = [g \in Groups |-> Absent]
    /\ enabled = {} /\ procs = {}
    /\ call = [g \in Groups |-> Idle]
    /\ phase = [g \in Groups |-> "wanted"]
    /\ receipt = [a \in Attempts |-> Max]
    /\ baseline = [a \in Attempts |-> NoBaseline]
    /\ started = {} /\ killed = {} /\ faults = 0
    /\ verdict = [a \in Attempts |-> "unknown"]

-----------------------------------------------------------------------------
(* The file system                                                          *)

Above(g) == IF g = Parent THEN Root ELSE Parent
Exists(g) == IF g = Root THEN TRUE ELSE node[g].exists
Children(g) == IF g = Parent THEN {leaf \in Leaves : node[leaf].exists} ELSE {}

\* readEventsPath: "populated" counts the processes of the whole subtree.
Populated(g) == ({g} \cup Children(g)) \cap procs # {}

\* What the kernel enforces, and shows, of a memory limit that is written.
Enforced(value) ==
    IF up THEN RoundMemory(value, PageSize) ELSE value - (value % PageSize)

Fault == faults < MaxFaults /\ faults' = faults + 1

At(g, step) == call[g].step = step
Goto(g, step) == call' = [call EXCEPT ![g].step = step]
Finish(g) == call' = [call EXCEPT ![g] = Idle]

\* A call that fails leaves what it has done, but for the group that this Ensure
\* has made: CreateSandbox and CreateAttempt remove it again.  An error of that
\* removal is reported and ends the call.
Abandon(g) ==
    \/ call[g].op = "ensure" /\ call[g].created
       /\ call' = [call EXCEPT ![g].op = "undo", ![g].step = "verify"]
    \/ ~(call[g].op = "ensure" /\ call[g].created) /\ Finish(g)

\* Lstat of the group: only ErrNotExist is absence.
Lstat(g, present) == present = Exists(g) /\ UNCHANGED faults

\* Any call of the file system may fail.
Fail(g) ==
    /\ call[g].step # "idle"
    /\ Fault /\ Abandon(g)
    /\ UNCHANGED <<up, node, enabled, phase, receipt, workload>>

\* The daemon dies: its calls end where they are.
Restart ==
    /\ \E g \in Groups : call[g] # Idle
    /\ Fault /\ call' = [g \in Groups |-> Idle]
    /\ UNCHANGED <<up, node, enabled, phase, receipt, workload>>

-----------------------------------------------------------------------------
(* Ensure                                                                   *)

\* A group is ensured until that succeeds.
BeginEnsure(g) ==
    /\ At(g, "idle") /\ phase[g] = "wanted"
    /\ call' = [call EXCEPT ![g] = [Idle EXCEPT !.step = "above", !.op = "ensure"]]
    /\ UNCHANGED <<up, node, enabled, phase, receipt, workload, faults>>

EnsureSandboxCgroup == BeginEnsure(Parent)
EnsureKeeperCgroup == phase[Parent] = "held" /\ BeginEnsure(Keeper)

\* The Sandbox of an Attempt is ready, and its limits can be planned.
EnsureAttemptCgroup(a) ==
    /\ phase[Keeper] = "held" /\ RoundMemory(Requested[a], PageSize) # Refused
    /\ BeginEnsure(a)

\* requireControllers: the group was given the controllers by the one above.
Available(g) == IF g = Root THEN TRUE ELSE Above(g) \in enabled

\* The group above exists and passes its controllers on, which is written and
\* read back on every call.  It holds no process: a foreign one fails the call.
EnableAbove(g) ==
    /\ At(g, "above") /\ Exists(Above(g)) /\ Available(Above(g))
    /\ enabled' = enabled \cup {Above(g)} /\ Goto(g, "mkdir")
    /\ UNCHANGED <<up, node, phase, receipt, workload, faults>>

\* Mutant: a leaf that exists is taken as it is.
Mut_ReuseLeaf(g) ==
    /\ At(g, "mkdir")
    /\ IF Exists(g)
       THEN Finish(g) /\ phase' = [phase EXCEPT ![g] = "held"] /\ UNCHANGED node
       ELSE /\ node' = [node EXCEPT ![g] = Fresh] /\ UNCHANGED phase
            /\ call' = [call EXCEPT ![g].created = TRUE,
                 ![g].step = IF g = Parent THEN "enable" ELSE "write"]
    /\ UNCHANGED <<up, enabled, receipt, workload, faults>>
\* ensureDirectory makes the group, or takes the one that exists.  If the new
\* group cannot be verified it is left behind.  The leaf of the keeper is done.
MakeDirectory(g) ==
    /\ At(g, "mkdir")
    /\ node' = [node EXCEPT ![g] = IF Exists(g) THEN @ ELSE Fresh]
    /\ \/ g = Keeper /\ Finish(g) /\ phase' = [phase EXCEPT ![g] = "held"] /\ UNCHANGED faults
       \/ /\ g # Keeper
          /\ call' = [call EXCEPT ![g].created = ~Exists(g),
               ![g].step = IF g = Parent THEN "enable" ELSE "write"]
          /\ UNCHANGED <<phase, faults>>
       \/ Fault /\ Finish(g) /\ UNCHANGED phase
    /\ UNCHANGED <<up, enabled, receipt, workload>>

\* CreateSandbox enables the controllers of its new group for the leaves.
EnableSelf ==
    /\ At(Parent, "enable") /\ Available(Parent)
    /\ enabled' = enabled \cup {Parent}
    /\ Finish(Parent) /\ phase' = [phase EXCEPT ![Parent] = "held"]
    /\ UNCHANGED <<up, node, receipt, workload, faults>>

\* writeLimits: one control after the other; the kernel rounds the memory limit.
Write(a) ==
    /\ At(a, "write") /\ Parent \in enabled
    /\ node' = [node EXCEPT ![a].limits[call[a].next] =
                  IF Controls[call[a].next] = "memory.max" THEN Enforced(Requested[a]) ELSE Asked]
    /\ call' = [call EXCEPT ![a].next = @ + 1, ![a].step = IF call[a].next = 3 THEN "read" ELSE @]
    /\ UNCHANGED <<up, enabled, phase, receipt, workload, faults>>

Expected(a) == <<Asked, RoundMemory(Requested[a], PageSize), Asked>>

\* readEffectiveLimitsPath: limits other than expected fail the call; otherwise
\* the receipt tells what was read.
ReadBack(a) ==
    /\ At(a, "read")
    /\ \/ /\ node[a].limits = Expected(a)
          /\ receipt' = [receipt EXCEPT ![a] = node[a].limits[2]]
          /\ phase' = [phase EXCEPT ![a] = "held"] /\ Finish(a)
       \/ node[a].limits # Expected(a) /\ Abandon(a) /\ UNCHANGED <<receipt, phase>>
    /\ UNCHANGED <<up, node, enabled, workload, faults>>

-----------------------------------------------------------------------------
(* Remove                                                                   *)

\* The engine gives a group up: an Attempt that was not started, or whose verdict
\* is known; the keeper when no Attempt is left; the parent after the keeper.
GiveUp(g) ==
    /\ phase[g] = "held" /\ At(g, "idle")
    /\ g \in Attempts => (g \in started => verdict[g] # "unknown" /\ g \notin procs)
    /\ g = Keeper => /\ g \notin procs
                     /\ \A a \in Attempts : \/ phase[a] = "removed"
                                            \/ phase[a] = "wanted" /\ ~Exists(a) /\ At(a, "idle")
    /\ g = Parent => phase[Keeper] = "removed"
    /\ phase' = [phase EXCEPT ![g] = "removing"]
    /\ UNCHANGED <<up, node, enabled, call, receipt, workload, faults>>

\* A removal is asked for until it succeeds.  Its first look at the group only
\* tells how to call the answer.
BeginRemove(g) ==
    /\ At(g, "idle") /\ phase[g] = "removing"
    /\ call' = [call EXCEPT ![g] = [Idle EXCEPT !.step = "verify", !.op = "remove"]]
    /\ UNCHANGED <<up, node, enabled, phase, receipt, workload, faults>>

RemoveSandboxCgroup == BeginRemove(Parent)
RemoveKeeperCgroup == BeginRemove(Keeper)
RemoveAttemptCgroup(a) == BeginRemove(a)

\* The group is gone: an undo ends, a removal looks once more.
Gone(g) == IF call[g].op = "undo" THEN Finish(g) ELSE Goto(g, "after")

\* removeExact: an absent group is removed already, and a group with a process
\* in it is kept.
VerifyRemovable(g) ==
    /\ At(g, "verify")
    /\ \/ Lstat(g, FALSE) /\ Gone(g)
       \/ Lstat(g, TRUE) /\ Populated(g) /\ Finish(g)
       \/ Lstat(g, TRUE) /\ ~Populated(g) /\ Goto(g, "rmdir")
    /\ UNCHANGED <<up, node, enabled, phase, receipt, workload>>

\* A group without children is removed.
Rmdir(g) ==
    /\ At(g, "rmdir") /\ ~Populated(g) /\ Children(g) = {}
    /\ node' = [node EXCEPT ![g] = Absent] /\ enabled' = enabled \ {g}
    /\ Gone(g)
    /\ UNCHANGED <<up, phase, receipt, workload, faults>>

\* verifyCgroupRemoval: the answer is given when the group is seen absent.
VerifyRemoval(g) ==
    /\ At(g, "after")
    /\ \E present \in BOOLEAN :
         /\ Lstat(g, present)
         /\ phase' = [phase EXCEPT ![g] = IF present THEN @ ELSE "removed"]
    /\ Finish(g)
    /\ UNCHANGED <<up, node, enabled, receipt, workload>>

-----------------------------------------------------------------------------
(* Processes and the OOM verdict                                            *)

\* A process is cloned into the leaf, which OpenAttempt or OpenKeeper verified.
Launch(g) ==
    /\ phase[g] = "held" /\ At(g, "idle") /\ g \notin procs
    /\ g \in Attempts => baseline[g] = NoBaseline
    /\ procs' = procs \cup {g}
    /\ UNCHANGED <<up, node, enabled, call, phase, receipt, baseline, started, verdict, killed, faults>>

Exit(g) ==
    /\ g \in procs /\ procs' = procs \ {g}
    /\ UNCHANGED <<up, node, enabled, call, phase, receipt, baseline, started, verdict, killed, faults>>

\* The kernel kills the process, or a descendant of a workload, for its memory.
Kill(a) ==
    /\ a \in procs /\ node[a].kills < MaxKills
    /\ node' = [node EXCEPT ![a].kills = @ + 1]
    /\ \/ procs' = procs \ {a}
       \/ a \in started /\ UNCHANGED procs
    /\ killed' = IF a \in started THEN killed \cup {a} ELSE killed
    /\ UNCHANGED <<up, enabled, call, phase, receipt, baseline, started, verdict, faults>>

\* SnapshotAttemptOOM before the start.
Baseline(a) ==
    /\ phase[a] = "held" /\ At(a, "idle") /\ a \in procs /\ baseline[a] = NoBaseline
    /\ baseline' = [baseline EXCEPT ![a] = node[a].kills]
    /\ UNCHANGED <<up, node, enabled, procs, call, phase, receipt, started, verdict, killed, faults>>

\* The start gate of the workload opens.
Start(a) ==
    /\ phase[a] = "held" /\ At(a, "idle") /\ a \in procs
    /\ baseline[a] # NoBaseline /\ a \notin started
    /\ started' = started \cup {a}
    /\ UNCHANGED <<up, node, enabled, procs, call, phase, receipt, baseline, verdict, killed, faults>>

\* Delta of the counters since the baseline.
Delta(a) == IF node[a].kills > baseline[a] THEN "true" ELSE "false"

\* attributeTerminalOOM, once the workload is known to have ended.
Attribute(a) ==
    /\ a \in started /\ a \notin procs /\ verdict[a] = "unknown" /\ At(a, "idle")
    /\ verdict' = [verdict EXCEPT ![a] = Delta(a)]
    /\ UNCHANGED <<up, node, enabled, procs, call, phase, receipt, baseline, started, killed, faults>>

-----------------------------------------------------------------------------
Proceed(g) ==
    \/ EnableAbove(g) \/ MakeDirectory(g)
    \/ g = Parent /\ EnableSelf
    \/ g \in Attempts /\ (Write(g) \/ ReadBack(g))
    \/ VerifyRemovable(g) \/ Rmdir(g) \/ VerifyRemoval(g)

Next ==
    \/ EnsureSandboxCgroup \/ EnsureKeeperCgroup
    \/ RemoveSandboxCgroup \/ RemoveKeeperCgroup
    \/ \E a \in Attempts : EnsureAttemptCgroup(a) \/ RemoveAttemptCgroup(a)
    \/ \E g \in Groups : GiveUp(g) \/ Proceed(g) \/ Fail(g)
    \/ Restart
    \/ \E g \in Leaves : Launch(g) \/ Exit(g)
    \/ \E a \in Attempts : Kill(a) \/ Baseline(a) \/ Start(a) \/ Attribute(a)

\* A call goes on, a removal is repeated until it succeeds, the parent is given up
\* after the keeper, and a process that was not started ends by itself.
Fairness ==
    /\ \A g \in Groups : WF_vars(Proceed(g)) /\ WF_vars(BeginRemove(g))
    /\ WF_vars(GiveUp(Parent))
    /\ \A a \in Attempts : WF_vars(a \notin started /\ Exit(a))

Spec == Init /\ [][Next]_vars
LiveSpec == Spec /\ Fairness

-----------------------------------------------------------------------------
(* What the tree promises                                                   *)

\* A group whose receipt was issued exists until it is given up, and the leaf of
\* an Attempt enforces every limit that was asked for, to the byte that its receipt
\* tells.  The leaf may be one that a call left behind, without limits or with
\* some, when it failed or the daemon died: CreateAttempt writes and reads all of
\* them again.
HeldIsEnforced ==
    \A g \in Groups : phase[g] = "held" =>
        /\ Exists(g) /\ (g # Parent => Parent \in enabled)
        /\ g \in Attempts => /\ node[g].limits = Expected(g)
                             /\ receipt[g] = node[g].limits[2]

\* The OOM verdict of a workload that ended says whether the kernel killed in its
\* leaf after the start: kills before the start, of a gated process that had to be
\* launched again, are not its own (attributeTerminalOOM and the baseline).
VerdictIsTrue ==
    \A a \in Attempts : verdict[a] # "unknown" => (verdict[a] = "true" <=> a \in killed)

\* A removal answers only when its group is gone for good, whatever failed, and
\* the Sandbox goes last (verifyCgroupRemoval).
RemovedIsAbsent ==
    \A g \in Groups : phase[g] = "removed" =>
        ~Exists(g) /\ (g = Parent => \A leaf \in Leaves : ~Exists(leaf))

\* A Sandbox that is being deleted leaves no group behind: a removal that failed
\* or was interrupted, even after its rmdir, succeeds when it is repeated.
SandboxVanishes == phase[Keeper] = "removing" ~> \A g \in Groups : ~Exists(g)
=============================================================================
