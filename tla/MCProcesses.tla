---------------------------- MODULE MCProcesses ----------------------------
(***************************************************************************)
(* How a process of a runtime is launched (LaunchJournal), started            *)
(* (StartGate) and recognised (ProcessIdentity).                               *)
(*                                                                         *)
(* The modules share no state: what one assumes of another is in its own         *)
(* environment.  `subject' says whose behaviour this is; the variables of the     *)
(* others keep their initial values, so that the instance is the sum of the       *)
(* three and not their product.                                              *)
(***************************************************************************)
EXTENDS Naturals, Sequences, FiniteSets

CONSTANTS
    Calls, None,
    LaunchFaults, MaxRemovals,                                      \* bounds of LaunchJournal
    GateFaults,                                                     \* of StartGate
    Callers, Pids, Leaves,
    MaxBirths, MaxReplacements, MaxReboots, IdentityFaults          \* of ProcessIdentity

VARIABLES
    subject,
    journal, proc, gate, doomed, socket, call, lock, receipts, gone, removals, faults,   \* LaunchJournal
    visible, durable, receipt, wrapper, starts, inflight, step, held, answered, removed, \* StartGate
    losses,
    boot, tick, process, fds, saved, calls, replacements, misses                         \* ProcessIdentity

launchVars == <<journal, proc, gate, doomed, socket, call, lock, receipts, gone, removals, faults>>
gateVars == <<visible, durable, receipt, wrapper, starts, inflight, step, held, answered, removed, losses>>
identityVars == <<boot, tick, process, fds, saved, calls, replacements, misses>>
vars == <<subject, launchVars, gateVars, identityVars>>

Launch == INSTANCE LaunchJournal WITH MaxFaults <- LaunchFaults
Gate == INSTANCE StartGate WITH MaxFaults <- GateFaults, lock <- held, faults <- losses
Identity == INSTANCE ProcessIdentity WITH MaxFaults <- IdentityFaults, faults <- misses

ASSUME ProcessesAssumption == Launch!LaunchAssumption /\ Gate!GateAssumption /\ Identity!IdentityAssumption

Init == subject \in {"launch", "gate", "identity"} /\ Launch!Init /\ Gate!Init /\ Identity!Init

Next ==
    /\ UNCHANGED subject
    /\ \/ subject = "launch" /\ Launch!Next /\ UNCHANGED <<gateVars, identityVars>>
       \/ subject = "gate" /\ Gate!Next /\ UNCHANGED <<launchVars, identityVars>>
       \/ subject = "identity" /\ Identity!Next /\ UNCHANGED <<launchVars, gateVars>>

\* The fairness of LaunchJournal, StartGate and ProcessIdentity.
Fairness ==
    /\ \A c \in Calls : WF_launchVars(subject = "launch" /\ Launch!Step(c))
    /\ \A p \in Launch!Launches : WF_launchVars(subject = "launch" /\ Launch!Progress(p))
    /\ WF_launchVars(subject = "launch" /\ \E c \in Calls : Launch!Ensure(c))
    /\ \A c \in Calls : WF_gateVars(subject = "gate" /\ Gate!Step(c))
    /\ SF_gateVars(subject = "gate" /\ \E c \in Calls : Gate!ReleaseStartGate(c))
    /\ \A c \in Callers : WF_identityVars(subject = "identity" /\ Identity!Step(c))
    /\ \A p \in Identity!Processes :
          /\ WF_identityVars(subject = "identity" /\ Identity!Reap(p))
          /\ SF_identityVars(subject = "identity" /\ \E c \in Callers, r \in saved : r.of = p /\ Identity!Remove(c, r))

Spec == Init /\ [][Next]_vars /\ Fairness

-----------------------------------------------------------------------------
(* Properties *)

\* The launch journal (slim/launcher_journal.go): whatever served is named by it,
\* no two processes of one owner live in its leaf, a socket is never left to
\* refuse every later launch, and what a removal reports absent is dead.
LaunchIsAccounted ==
    /\ Launch!TypeOK /\ Launch!RunnerIsNamed /\ Launch!OneInLeaf /\ Launch!NeverWedged /\ Launch!RemovedIsDead

\* Once faults and removals have ceased, repeated calls of Ensure settle on one
\* serving process, whatever the journal, the leaf and the socket were left as.
\* What Ensure returned is ready in the journal, and only a Remove of it kills it.
\* A wrapper whose removal is asked for until it succeeds ends.
LaunchSettles ==
    /\ Launch!ReturnedIsReady /\ Launch!ReturnedIsSpared
    /\ subject = "launch" => Launch!Settles
    /\ subject = "identity" => Identity!RemovalEnds

\* The start gate (slim/launcher_actions.go): the workload starts at most once,
\* behind a gate that is durably consumed, and what was answered lasts over
\* lost answers, restarts and power losses.
StartsOnce ==
    Gate!TypeOK /\ Gate!StartsOnce /\ Gate!ConsumedFirst /\ Gate!ReleasedIsStarted /\ Gate!AnswerLasts

\* A start that the engine repeats is answered, unless the wrapper is lost or
\* the Attempt is removed.
StartIsAnswered == subject = "gate" => Gate!Answered

\* The identity of a process (isolation/process.go): a signal reaches the one
\* whose evidence was kept, evidence is kept only of the child that was forked,
\* and a call that ends has closed its descriptors.
SignalsTheOwner ==
    Identity!TypeOK /\ Identity!SignalsTheOwner /\ Identity!SavedNamesTheChild /\ Identity!DescriptorsAreHeld

\* A process that is reported absent, or removed, has ended, as long as the
\* executable of the shim is not replaced.
AbsentIsDead == replacements = 0 => Identity!AbsentIsDead

\* What the comment of ProcessEvidencePresent says (isolation/process.go:214):
\* "distinguishes the exact persisted process from verified exit/PID reuse".
\* The code takes any difference of the evidence for an exit, the executable of
\* a live process that was replaced on disk included.
VerifiedExit == Identity!AbsentIsDead
=============================================================================
