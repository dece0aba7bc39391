--------------------------- MODULE LaunchJournal ---------------------------
(***************************************************************************)
(* The launch journal of one owner (src/internal/slim/launcher_journal.go)   *)
(* and the calls that act under it: EnsureKeeper and EnsureInit, which differ *)
(* in the names of the cgroup leaf only, and removeLauncherAction.           *)
(*                                                                         *)
(* A launch forks a child behind a release pipe, names it in the journal,    *)
(* releases it, waits until it serves its control socket and marks the       *)
(* journal ready.  Every step may fail, a write of the journal may fail after *)
(* its rename, the daemon may die, and so may the child.  A child whose pipe  *)
(* closes without the release byte exits; until then only its membership of   *)
(* the leaf tells of it.                                                    *)
(*                                                                         *)
(* A process is the number of its launch: evidence never matches another one. *)
(***************************************************************************)
EXTENDS Naturals, FiniteSets

CONSTANTS
    Calls,       \* calls of the daemon that may be under way
    MaxFaults,   \* bound on failed steps, timeouts and deaths
    MaxRemovals, \* bound on calls of Remove
    None         \* no process, and no call

LaunchAssumption == MaxFaults \in Nat /\ MaxRemovals \in Nat /\ None \notin Nat /\ None \notin Calls

VARIABLES
    journal,  \* phase and process in the journal file; phase "none" is no file
    proc,     \* [Launches -> none, gated, released, serving or dead]
    gate,     \* [Launches -> the release pipe: held, byte or eof]
    doomed,   \* processes with a SIGKILL pending
    socket,   \* the process that bound the control socket file, or None
    call,     \* [Calls -> progress of the call]
    lock,     \* the call that holds the lock of the owner
    receipts, \* processes that an Ensure returned
    gone,     \* processes that a Remove reported absent
    removals, faults

vars == <<journal, proc, gate, doomed, socket, call, lock, receipts, gone, removals, faults>>
kernel == <<proc, gate, doomed>>
answers == <<receipts, gone, removals>>

\* Every launch but the first follows a fault or a removal.
Launches == 1 .. MaxFaults + MaxRemovals + 1
Journals == [phase : {"none", "intent"}, process : {None}]
            \cup [phase : {"authorized", "ready"}, process : Launches]
Steps == {"idle", "intent", "socket", "empty", "fork", "attach", "authorize", "release", "await",
          "ready", "commit", "abort", "aborting", "fail", "present", "adopt", "confirm", "return",
          "kill", "cleanup", "reset", "drain", "recheck", "restore"}
Idle == [step |-> "idle", op |-> "none", asked |-> None, process |-> None,
         seen |-> [phase |-> "none", process |-> None]]

\* The type invariant of LaunchJournal: the values the fields take, and only
\* the call that holds the lock of the owner is under way.
TypeOK ==
    /\ journal \in Journals
    /\ proc \in [Launches -> {"none", "gated", "released", "serving", "dead"}]
    /\ gate \in [Launches -> {"held", "byte", "eof"}]
    /\ doomed \subseteq Launches /\ socket \in Launches \cup {None}
    /\ call \in [Calls -> [step : Steps, op : {"none", "ensure", "remove"},
                           asked : Launches \cup {None}, process : Launches \cup {None},
                           seen : Journals]]
    /\ lock \in Calls \cup {None}
    /\ \A c \in Calls : c # lock => call[c] = Idle
    /\ receipts \subseteq Launches /\ gone \subseteq Launches
    /\ removals \in 0 .. MaxRemovals /\ faults \in 0 .. MaxFaults

Alive(p) == proc[p] \in {"gated", "released", "serving"}
Leaf == {p \in Launches : Alive(p)}
Serves(p) == proc[p] = "serving" /\ socket = p

Init ==
    /\ journal = [phase |-> "none", process |-> None]
    /\ proc = [p \in Launches |-> "none"] /\ gate = [p \in Launches |-> "held"]
    /\ doomed = {} /\ socket = None
    /\ call = [c \in Calls |-> Idle] /\ lock = None
    /\ receipts = {} /\ gone = {} /\ removals = 0 /\ faults = 0

-----------------------------------------------------------------------------
At(c, step) == call[c].step = step
Goto(c, step) == call' = [call EXCEPT ![c].step = step]
Finish(c) == call' = [call EXCEPT ![c] = Idle] /\ lock' = None
Fault == faults < MaxFaults /\ faults' = faults + 1

\* The call holds the pidfd of the child it forked.
HoldsChild(c) == call[c].step \in {"attach", "authorize", "release", "await", "ready", "commit"}

\* A call that fails aborts the child it forked, if any.
Abandon(c) ==
    \/ HoldsChild(c) /\ Goto(c, "abort") /\ UNCHANGED lock
    \/ ~HoldsChild(c) /\ Finish(c)

\* Write replaces the journal only where it still is what the call has seen.
\* It may fail before its rename, or after: then the new journal is in place.
\* A failed Write abandons the call; otherwise the call goes on at `step'.
Write(c, next, step) ==
    \/ /\ journal \in {call[c].seen, next}
       /\ journal' = next
       /\ call' = [call EXCEPT ![c].step = step, ![c].seen = next]
       /\ UNCHANGED <<lock, faults>>
    \/ journal \notin {call[c].seen, next} /\ Abandon(c) /\ UNCHANGED <<journal, faults>>
    \/ Fault /\ journal' \in {journal, next} /\ Abandon(c)

\* Any step may fail, a wait by its timeout.  A process under abort is left to
\* the kill that was sent.
Fail(c) ==
    /\ call[c].step \notin {"idle", "abort"}
    /\ Fault /\ Abandon(c)
    /\ UNCHANGED <<journal, kernel, socket, answers>>

\* ownerOperationLock: one call acts on an owner at a time.
Locked(c) == At(c, "idle") /\ lock = None /\ lock' = c

-----------------------------------------------------------------------------
(* Ensure                                                                   *)

\* EnsureKeeper and EnsureInit: take the lock, validate the request.
Ensure(c) ==
    /\ Locked(c)
    /\ call' = [call EXCEPT ![c] = [Idle EXCEPT !.step = "intent", !.op = "ensure"]]
    /\ UNCHANGED <<journal, kernel, socket, answers, faults>>

\* EnsureIntent writes the configuration and, if there is no journal, the
\* intent; a journal that names a process is recovered.
EnsureIntent(c) ==
    /\ At(c, "intent")
    /\ \/ /\ journal.phase = "none"
          /\ Write(c, [phase |-> "intent", process |-> None], "socket")
       \/ /\ journal.phase # "none"
          /\ call' = [call EXCEPT ![c].seen = journal, ![c].process = journal.process,
                        ![c].step = IF journal.phase = "intent" THEN "socket" ELSE "present"]
          /\ UNCHANGED <<journal, lock, faults>>
    /\ UNCHANGED <<kernel, socket, answers>>

\* requireControlSocketAbsent: before the leaf is empty in a launch, after it
\* in a relaunch.
RequireSocketAbsent(c) ==
    /\ call[c].step \in {"socket", "recheck"}
    /\ \/ socket = None /\ Goto(c, IF At(c, "socket") THEN "empty" ELSE "fork") /\ UNCHANGED lock
       \/ socket # None /\ Finish(c)
    /\ UNCHANGED <<journal, kernel, socket, answers, faults>>

\* waitKeeperLeafEmpty, waitAttemptLeafEmpty: an unjournaled child of an
\* earlier launch exits by itself.
AwaitEmptyLeaf(c) ==
    /\ call[c].step \in {"empty", "drain"} /\ Leaf = {}
    /\ Goto(c, IF At(c, "empty") THEN "fork" ELSE "recheck")
    /\ UNCHANGED <<journal, kernel, socket, lock, answers, faults>>

\* factory.Start forks the child into the leaf, behind its release pipe.
Fork(c) ==
    /\ At(c, "fork")
    /\ \E p \in Launches :
          /\ proc[p] = "none" /\ \A q \in Launches : q < p => proc[q] # "none"
          /\ proc' = [proc EXCEPT ![p] = "gated"]
          /\ call' = [call EXCEPT ![c].step = "attach", ![c].process = p]
    /\ UNCHANGED <<journal, gate, doomed, socket, lock, answers, faults>>

\* CaptureFromPIDFD, AttachProcess or ConfirmKeeperProcess.
Attach(c) ==
    /\ At(c, "attach")
    /\ Goto(c, IF Alive(call[c].process) THEN "authorize" ELSE "abort")
    /\ UNCHANGED <<journal, kernel, socket, lock, answers, faults>>

Named(c, phase) == [phase |-> phase, process |-> call[c].process]

\* Mutant: the child is released before the journal names it.
Mut_ReleaseFirst(c) ==
    /\ At(c, "authorize")
    /\ gate' = [gate EXCEPT ![call[c].process] = "byte"]
    /\ Write(c, Named(c, "authorized"), "await")
    /\ UNCHANGED <<proc, doomed, socket, answers>>

\* The journal names the child before anything releases it.
Authorize(c) ==
    /\ At(c, "authorize") /\ Write(c, Named(c, "authorized"), "release")
    /\ UNCHANGED <<kernel, socket, answers>>

\* Release writes the byte into the pipe and closes it.
Release(c) ==
    /\ At(c, "release")
    /\ LET p == call[c].process
       IN \/ Alive(p) /\ gate' = [gate EXCEPT ![p] = "byte"] /\ Goto(c, "await")
          \/ ~Alive(p) /\ UNCHANGED gate /\ Goto(c, "abort")
    /\ UNCHANGED <<journal, proc, doomed, socket, lock, answers, faults>>

\* waitKeeperReady, waitInitReady: the process answers at its socket, or the
\* readiness timeout ends the wait for one that died.
AwaitReady(c) ==
    /\ At(c, "await")
    /\ LET p == call[c].process
       IN \/ Serves(p) /\ Goto(c, "ready")
          \/ proc[p] = "dead" /\ Goto(c, "abort")
    /\ UNCHANGED <<journal, kernel, socket, lock, answers, faults>>

MarkReady(c) ==
    /\ At(c, "ready") /\ Write(c, Named(c, "ready"), "commit")
    /\ UNCHANGED <<kernel, socket, answers>>

Return(c) == receipts' = receipts \cup {call[c].process} /\ Finish(c) /\ UNCHANGED <<gone, removals>>

\* Commit gives up the right to abort; where closing the pidfd fails, the
\* process is killed and the call fails.
Commit(c) ==
    /\ At(c, "commit")
    /\ \/ Return(c) /\ UNCHANGED <<doomed, faults>>
       \/ /\ Fault /\ doomed' = doomed \cup {call[c].process}
          /\ Goto(c, "fail") /\ UNCHANGED <<lock, answers>>
    /\ UNCHANGED <<journal, proc, gate, socket>>

\* The rest of terminateProcess waits for the exit of the process.
CommitFailed(c) ==
    /\ At(c, "fail") /\ ~Alive(call[c].process) /\ Finish(c)
    /\ UNCHANGED <<journal, kernel, socket, answers, faults>>

\* Abort closes the pipe and kills the child, then waits for its exit.
Abort(c) ==
    /\ At(c, "abort") /\ Goto(c, "aborting")
    /\ LET p == call[c].process
       IN /\ gate' = [gate EXCEPT ![p] = IF @ = "held" THEN "eof" ELSE @]
          /\ doomed' = doomed \cup {p}
    /\ UNCHANGED <<journal, proc, socket, lock, answers, faults>>

Aborted(c) ==
    /\ At(c, "aborting") /\ ~Alive(call[c].process) /\ Finish(c)
    /\ UNCHANGED <<journal, kernel, socket, answers, faults>>
-----------------------------------------------------------------------------
(* Recovery of a journal that names a process                               *)

\* Mutant: a dead process in the journal is an error.
Mut_NoRelaunch(c) ==
    /\ At(c, "present")
    /\ \/ Alive(call[c].process) /\ Goto(c, "adopt") /\ UNCHANGED lock
       \/ ~Alive(call[c].process) /\ Finish(c)
    /\ UNCHANGED <<journal, kernel, socket, answers, faults>>

\* Present: a process that is gone is replaced.
Present(c) ==
    /\ At(c, "present")
    /\ Goto(c, IF Alive(call[c].process) THEN "adopt" ELSE "cleanup")
    /\ UNCHANGED <<journal, kernel, socket, lock, answers, faults>>

\* recoverKeeper, recoverInit adopt a process that answers.  One that is not
\* ready in time is killed where it was only authorized; a ready one is left
\* alone and the call fails.
Adopt(c) ==
    /\ At(c, "adopt")
    /\ LET p == call[c].process
           authorized == call[c].seen.phase = "authorized"
       IN \/ /\ Serves(p) /\ Goto(c, IF authorized THEN "confirm" ELSE "return")
             /\ UNCHANGED <<doomed, lock, faults>>
          \/ /\ authorized /\ Goto(c, "kill") /\ doomed' = doomed \cup {p}
             /\ (proc[p] = "dead" /\ UNCHANGED faults) \/ Fault
             /\ UNCHANGED lock
          \/ ~authorized /\ proc[p] = "dead" /\ Finish(c) /\ UNCHANGED <<doomed, faults>>
    /\ UNCHANGED <<journal, proc, gate, socket, answers>>

\* Mutant: an adopted process is returned without the ready mark.
Mut_NoConfirm(c) ==
    /\ At(c, "confirm") /\ Goto(c, "return")
    /\ UNCHANGED <<journal, kernel, socket, lock, answers, faults>>
\* The adopted process becomes ready in the journal before it is returned.
Confirm(c) ==
    /\ At(c, "confirm") /\ Write(c, Named(c, "ready"), "return")
    /\ UNCHANGED <<kernel, socket, answers>>

Adopted(c) ==
    /\ At(c, "return") /\ Return(c)
    /\ UNCHANGED <<journal, kernel, socket, faults>>

\* terminateProcess, then waitProcessAbsent.
AwaitAbsent(c) ==
    /\ At(c, "kill") /\ ~Alive(call[c].process) /\ Goto(c, "cleanup")
    /\ UNCHANGED <<journal, kernel, socket, lock, answers, faults>>

\* cleanupStaleControlSocket; a removal ends with it.
CleanupSocket(c) ==
    /\ At(c, "cleanup") /\ socket' = None
    /\ \/ call[c].op = "ensure" /\ Goto(c, "reset") /\ UNCHANGED <<lock, gone>>
       \/ call[c].op = "remove" /\ gone' = gone \cup {call[c].asked} /\ Finish(c)
    /\ UNCHANGED <<journal, kernel, receipts, removals, faults>>

\* relaunchAbsentKeeper, relaunchAbsentInit: the journal is an intent again.
Reset(c) ==
    /\ At(c, "reset") /\ Write(c, [phase |-> "intent", process |-> None], "drain")
    /\ UNCHANGED <<kernel, socket, answers>>

-----------------------------------------------------------------------------
(* Remove                                                                   *)

\* launchJournalBindsActionProcess: a receipt that the journal no longer names
\* is answered as absent.
Bound(p) == IF journal.process = p THEN p ELSE None

\* removeLauncherAction for the receipt of p: take the lock, read the journal.
Remove(c, p) ==
    /\ Locked(c) /\ removals < MaxRemovals /\ removals' = removals + 1
    /\ Bound(p) # None
    /\ call' = [call EXCEPT ![c] = [Idle EXCEPT !.step = "restore", !.op = "remove",
                                                 !.asked = p, !.process = Bound(p)]]
    /\ UNCHANGED <<journal, kernel, socket, receipts, gone, faults>>

RemoveUnbound(c, p) ==
    /\ At(c, "idle") /\ lock = None /\ removals < MaxRemovals /\ removals' = removals + 1
    /\ Bound(p) = None /\ gone' = gone \cup {p}
    /\ UNCHANGED <<journal, kernel, socket, call, lock, receipts, faults>>

\* restoreActionProcess finds the process gone, or opens it to be terminated.
Restore(c) ==
    /\ At(c, "restore")
    /\ LET p == call[c].process
       IN \/ ~Alive(p) /\ Goto(c, "cleanup") /\ UNCHANGED doomed
          \/ Alive(p) /\ Goto(c, "kill") /\ doomed' = doomed \cup {p}
    /\ UNCHANGED <<journal, proc, gate, socket, lock, answers, faults>>

-----------------------------------------------------------------------------
(* The child, its death, and the death of the daemon                        *)

Dies(p) == proc' = [proc EXCEPT ![p] = "dead"] /\ UNCHANGED <<gate, doomed>>
Rest == UNCHANGED <<journal, call, lock, answers>>

\* WaitLaunchRelease: the byte lets the child pass, its absence ends it.
Pass(p) ==
    /\ proc[p] = "gated" /\ gate[p] # "held"
    /\ proc' = [proc EXCEPT ![p] = IF gate[p] = "byte" THEN "released" ELSE "dead"]
    /\ UNCHANGED <<gate, doomed, socket, faults>> /\ Rest

\* NewControlServer refuses a path that exists.
Bind(p) ==
    /\ proc[p] = "released"
    /\ \/ socket = None /\ socket' = p /\ proc' = [proc EXCEPT ![p] = "serving"]
       \/ socket # None /\ proc' = [proc EXCEPT ![p] = "dead"] /\ UNCHANGED socket
    /\ UNCHANGED <<gate, doomed, faults>> /\ Rest

\* SIGKILL ends a process and leaves its socket file behind.
Killed(p) ==
    /\ p \in doomed /\ Alive(p) /\ Dies(p)
    /\ UNCHANGED <<socket, faults>> /\ Rest

\* A process that ends by itself removes its own socket; one that is killed
\* from outside does not.
Exit(p) ==
    /\ Alive(p) /\ Fault /\ Dies(p)
    /\ socket' \in IF socket = p THEN {None, p} ELSE {socket}
    /\ Rest

\* The daemon dies: its calls end, and so does every pipe it holds.
Crash ==
    /\ Fault /\ lock # None
    /\ call' = [c \in Calls |-> Idle] /\ lock' = None
    /\ gate' = [p \in Launches |-> IF gate[p] = "held" /\ Alive(p) THEN "eof" ELSE gate[p]]
    /\ UNCHANGED <<journal, proc, doomed, socket, answers>>

Launch(c) ==
    \/ Fork(c) \/ Attach(c) \/ Authorize(c) \/ Release(c) \/ AwaitReady(c) \/ MarkReady(c) \/ Commit(c)
    \/ CommitFailed(c) \/ Abort(c) \/ Aborted(c)
Recover(c) == Present(c) \/ Adopt(c) \/ Confirm(c) \/ Adopted(c)
Relaunch(c) == AwaitAbsent(c) \/ CleanupSocket(c) \/ Reset(c)

Step(c) ==
    \/ EnsureIntent(c) \/ RequireSocketAbsent(c) \/ AwaitEmptyLeaf(c)
    \/ Launch(c) \/ Recover(c) \/ Relaunch(c) \/ Restore(c)

Progress(p) == Pass(p) \/ Bind(p) \/ Killed(p)

Next ==
    \/ \E c \in Calls : \/ Ensure(c) \/ Step(c) \/ Fail(c)
                       \/ \E p \in receipts : Remove(c, p) \/ RemoveUnbound(c, p)
    \/ \E p \in Launches : Progress(p) \/ Exit(p)
    \/ Crash

\* Every call goes on, every child runs, and the engine asks again for a
\* process it needs.
Fairness ==
    /\ \A c \in Calls : WF_vars(Step(c))
    /\ \A p \in Launches : WF_vars(Progress(p))
    /\ WF_vars(\E c \in Calls : Ensure(c))

Spec == Init /\ [][Next]_vars /\ Fairness

-----------------------------------------------------------------------------
\* A process that passed its gate is named by the journal, so that a restarted
\* daemon can find and end it: nothing serves that no record knows.
RunnerIsNamed == \A p \in Launches : proc[p] \in {"released", "serving"} => journal.process = p

\* No two processes of one owner live in its leaf: a launch waits for what an
\* aborted launch or a dead daemon left behind.
OneInLeaf == Cardinality(Leaf) <= 1

\* A journal without a process has no control socket.  A socket left behind
\* would make requireControlSocketAbsent refuse every later launch of the owner.
NeverWedged == journal.process = None => socket = None

\* What Remove reports absent is dead, also for an older receipt whose process
\* the journal no longer names.
RemovedIsDead == \A p \in gone : ~Alive(p)

\* Ensure kills what did not become ready and nothing it has returned: a
\* receipt loses its process by a Remove that was asked for it alone.
ReturnedIsSpared ==
    [][\A p \in receipts \cap (doomed' \ doomed) :
          \E c \in Calls : call[c].op = "remove" /\ call[c].asked = p]_vars

\* A process is returned only where the journal holds it as ready: later calls
\* adopt it instead of replacing it.
ReturnedIsReady ==
    [][\A p \in receipts' \ receipts : journal = [phase |-> "ready", process |-> p]]_vars

\* Once faults and removals have ceased, retried calls of Ensure settle on one
\* serving process, whatever the journal, the leaf and the socket were left as.
Settles == <>[](journal.phase = "ready" /\ Serves(journal.process))
=============================================================================
