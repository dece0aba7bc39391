---------------------------- MODULE MCResources ----------------------------
(***************************************************************************)
(* What a target holds on the host: how the engine acquires it and gives it     *)
(* back (Acquisition), the cgroups among it (CgroupTree, CgroupLimits) and the     *)
(* stack of inverses that the repository has for the purpose (RollbackStack).       *)
(*                                                                         *)
(* They share no state.  `subject' says whose behaviour this is; the variables *)
(* of the others keep their initial values, so that the instance is the sum of     *)
(* the parts and not their product.  Acquisition is here three times: a          *)
(* Container whose resources may vanish ("container"), and a Container and a      *)
(* Sandbox whose do not ("attempt", "sandbox"), for which creates and deletes must *)
(* settle.                                                                    *)
(***************************************************************************)
EXTENDS MCAcquisition, Integers

CONSTANTS
    Attempts, Requested, Parent, Keeper, Root, PageSize, Bits, MaxKills, TreeFaults, \* CgroupTree, CgroupLimits
    Names, Runners, StackFaults,                                                    \* RollbackStack
    AttemptFaults                                                                   \* Acquisition without losses

VARIABLES
    subject,
    up, node, enabled, procs, work, state, receipt, baseline, started, verdict, killed, errors, \* CgroupTree
    limit,                                                                                    \* CgroupLimits
    held, failed, steps, sealed, running, saved, run, crashes                                   \* RollbackStack

treeVars == <<up, node, enabled, procs, work, state, receipt, baseline, started, verdict, killed, errors>>
stackVars == <<held, failed, steps, sealed, running, saved, run, crashes>>
resourceVars == <<subject, vars, treeVars, limit, stackVars>>

Attempt == INSTANCE Acquisition WITH Losses <- FALSE, MaxFaults <- AttemptFaults
Box ==
    INSTANCE Acquisition WITH
        Kinds <- BoxKinds, Profile <- BoxProfile, DeleteOrder <- BoxDelete, Actionable <- BoxActionable,
        Holds <- BoxHolds, Blocks <- BoxBlocks, Needs <- BoxNeeds, Undoable <- {},
        HasBaseline <- FALSE, Losses <- FALSE

Tree == INSTANCE CgroupTree WITH MaxFaults <- TreeFaults, call <- work, phase <- state, faults <- errors

\* The values of Requested for TLC: one limit between two pages, others of whole pages.
OnePage == [a \in Attempts |-> IF a = CHOOSE b \in Attempts : TRUE THEN 2 * PageSize + 1 ELSE 2 * PageSize]

Stack == INSTANCE RollbackStack WITH MaxFaults <- StackFaults, faults <- crashes

Limits == INSTANCE CgroupLimits

\* Limits around every bound: the floor of the CPU limit, whole CPUs, the largest
\* quota and the first whole CPU over it, the page and the largest integer.
Around(n) == {m \in n - 60 .. n + 60 : m >= 0 /\ m <= Limits!MaxUint}
Millis ==
    Around(0) \cup Around(Limits!MinimumCPULimitMilli) \cup Around(1000) \cup Around(Limits!MaxUint \div 100)
        \cup Around((Limits!MaxUint \div Limits!CPUPeriodMicros + 1) * 1000)
Values == (Around(0) \cup Around(4096) \cup Around(Limits!LargestPage) \cup Around(Limits!MaxUint)) \ {0}
NoLimit == [milli |-> 0, value |-> 1, page |-> 1]

ASSUME ResourcesAssumption ==
    Tree!TreeAssumption /\ Limits!BitsAssumption /\ Stack!RollbackAssumption
        /\ Attempt!AcquisitionAssumption /\ Box!AcquisitionAssumption

ResourcesInit ==
    /\ subject \in {"container", "attempt", "sandbox", "tree", "limits", "stack"}
    /\ Init /\ Tree!Init /\ Stack!Init /\ limit = NoLimit
    /\ up \/ subject = "tree"

ResourcesNext ==
    /\ UNCHANGED subject
    /\ \/ subject = "container" /\ Next /\ UNCHANGED <<treeVars, limit, stackVars>>
       \/ subject = "attempt" /\ Attempt!Next /\ UNCHANGED <<treeVars, limit, stackVars>>
       \/ subject = "sandbox" /\ Box!Next /\ UNCHANGED <<treeVars, limit, stackVars>>
       \/ subject = "tree" /\ Tree!Next /\ UNCHANGED <<vars, limit, stackVars>>
       \/ subject = "stack" /\ Stack!Next /\ UNCHANGED <<vars, treeVars, limit>>
       \/ /\ subject = "limits" /\ limit = NoLimit /\ UNCHANGED <<vars, treeVars, stackVars>>
          /\ \/ \E m \in Millis : limit' = [limit EXCEPT !.milli = m]
             \/ \E v \in Values, p \in {1, 2, 4096, Limits!LargestPage} : limit' = [milli |-> 0, value |-> v, page |-> p]

\* The fairness of Acquisition, CgroupTree and RollbackStack.
ResourcesFairness ==
    /\ WF_vars(subject = "attempt" /\ Attempt!EngineSteps) /\ WF_vars(subject = "attempt" /\ Attempt!Restart)
    /\ WF_vars(subject = "attempt" /\ Attempt!Reconcile) /\ WF_vars(subject = "attempt" /\ Attempt!Retry)
    /\ WF_vars(subject = "sandbox" /\ Box!EngineSteps) /\ WF_vars(subject = "sandbox" /\ Box!Restart)
    /\ WF_vars(subject = "sandbox" /\ Box!Reconcile) /\ WF_vars(subject = "sandbox" /\ Box!Retry)
    /\ \A g \in Tree!Groups :
          /\ WF_treeVars(subject = "tree" /\ Tree!Proceed(g))
          /\ WF_treeVars(subject = "tree" /\ Tree!BeginRemove(g))
    /\ WF_treeVars(subject = "tree" /\ Tree!GiveUp(Parent))
    /\ \A a \in Attempts : WF_treeVars(subject = "tree" /\ a \notin started /\ Tree!Exit(a))
    /\ WF_stackVars(subject = "stack" /\ sealed /\ Stack!Snapshot)
    /\ \A r \in Runners :
          /\ WF_stackVars(subject = "stack" /\ Stack!Proceed(r))
          /\ WF_stackVars(subject = "stack" /\ Stack!Call(r))

ResourcesSpec == ResourcesInit /\ [][ResourcesNext]_resourceVars /\ ResourcesFairness

-----------------------------------------------------------------------------
(* Properties *)

\* The rollback and the delete (engine/rollback.go, engine/container.go and sandbox.go)
\* never ask for a removal that another resource of the target makes impossible,
\* at most one effect is ahead of the journal, and a release is evidence of absence.
\* The stack of inverses (rollback/stack.go) runs one inverse at a time, reports no
\* failure only when nothing is held, and releases in reverse order but for inverses
\* that failed.
RemovalsAreOrdered ==
    CASE subject = "sandbox" ->
           Box!OneEffectAhead /\ Box!InversesUnblocked /\ Box!RemovalUnblocked /\ Box!ReleasedIsGone
      [] subject \in {"container", "attempt"} ->
           /\ IF subject = "attempt" THEN Attempt!TypeOK ELSE TypeOK
           /\ OneEffectAhead /\ InversesUnblocked /\ RemovalUnblocked /\ ReleasedIsGone
      [] subject = "stack" ->
           Stack!TypeOK /\ Stack!OneInverseAtATime /\ Stack!CleanIsReleased /\ Stack!LastInFirstOut
      [] OTHER -> TRUE

\* A create is all or nothing (engine/rollback.go): it fails only when every inverse
\* is recorded and every journaled resource gone, it succeeds only with its whole
\* profile, nothing is undone before the rollback is sealed, and nothing is acquired after.
CreateIsAllOrNothing ==
    /\ [](IF subject = "sandbox" THEN Box!FailedIsAbsent ELSE FailedIsAbsent)
    /\ SealedBeforeInverse /\ RollbackNeverAcquires
    /\ [][IF subject = "sandbox" THEN Box!WholeStep ELSE WholeStep]_vars

\* A create that runs succeeds or is rolled back completely, whatever crashes,
\* fails or is given up on the way, but for the two cases that Acquisition names.
Excused ==
    IF subject = "sandbox" THEN Box!Leaked \/ Box!Rebased ELSE Attempt!Leaked \/ Attempt!Rebased
CreateIsSettled ==
    []~Excused =>
        (subject \in {"attempt", "sandbox"} /\ create.state = "running" ~> create.state # "running")

\* A delete of a target that owns resources completes, a Sandbox that is being
\* deleted leaves no cgroup behind, and a sealed stack is released.
RemoveIsSettled ==
    /\ subject \in {"attempt", "sandbox"} /\ remove.state = "running" /\ adopted # 0
          ~> remove.state = "succeeded"
    /\ subject = "tree" => Tree!SandboxVanishes
    /\ subject = "stack" => Stack!SealedIsReleased

\* The cgroups (cgroupv2/manager.go): a leaf enforces what its receipt tells, a
\* removal answers only when its group is gone, an OOM verdict counts the kills after
\* the start alone, and limits are converted exactly or refused.
LimitsAreEnforced ==
    /\ subject = "tree" => Tree!TypeOK /\ Tree!HeldIsEnforced /\ Tree!RemovedIsAbsent /\ Tree!VerdictIsTrue
    /\ subject = "limits" => Limits!QuotaExact(limit.milli) /\ Limits!RoundExact(limit.value, limit.page)
=============================================================================
