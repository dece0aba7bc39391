----------------------------- MODULE StartGate -----------------------------
(***************************************************************************)
(* The start gate of one Attempt: its artifact file                          *)
(* (src/internal/slim/artifacts.go), ReleaseStartGate                        *)
(* (src/internal/slim/provider.go), which consumes it, and the check of       *)
(* EnsureInit that launches a wrapper only behind a closed gate.             *)
(*                                                                         *)
(* The workload must start once at most, although a release may be repeated   *)
(* after any failure and a dead wrapper may be launched again.  The file is   *)
(* what is known of that after the daemon, the wrapper or the machine is lost: *)
(* a change of it is visible after its rename and lasts after the sync of its *)
(* directory.  The wrapper itself refuses a second release (ShimWrapper), but *)
(* a new one does not know of the first.                                     *)
(***************************************************************************)
EXTENDS Naturals

CONSTANTS
    Calls,     \* calls of the daemon on this owner that may be under way
    MaxFaults, \* bound on failures, deaths and power losses
    None       \* no call

GateAssumption == MaxFaults \in Nat /\ None \notin Calls

VARIABLES
    visible,  \* state in the gate file the path names now
    durable,  \* state a power loss would leave
    receipt,  \* the engine holds the receipt of the gate
    wrapper,  \* the init wrapper: none, prepared, started or ended
    starts,   \* number of times the workload was released
    inflight, \* a release that nobody waits for may still reach the wrapper
    step,     \* [Calls -> next step of the call]
    lock,     \* the call that holds the lock of the owner
    answered, \* a ReleaseStartGate has succeeded
    removed,  \* a RemoveStartGate: not asked, asked or succeeded
    faults

vars == <<visible, durable, receipt, wrapper, starts, inflight, step, lock, answered, removed, faults>>
file == <<visible, durable>>
engine == <<receipt, answered, removed>>
shim == <<wrapper, starts, inflight>>

States == {"absent", "closed", "consuming", "released"}
Steps == {"idle", "create", "created", "validate", "launch", "read", "consumed", "confirm", "inspect",
          "deliver", "reinspect", "release", "settled", "recheck", "unlink", "unlinked"}

\* The type invariant of StartGate: the values the fields take, and only the
\* call that holds the lock is under way.
TypeOK ==
    /\ {visible, durable} \subseteq States /\ receipt \in BOOLEAN
    /\ wrapper \in {"none", "prepared", "started", "ended"}
    /\ starts \in 0 .. MaxFaults + 1 /\ inflight \in BOOLEAN
    /\ step \in [Calls -> Steps] /\ lock \in Calls \cup {None}
    /\ \A c \in Calls : c # lock => step[c] = "idle"
    /\ answered \in BOOLEAN /\ removed \in {"no", "asked", "done"} /\ faults \in 0 .. MaxFaults

Init ==
    /\ visible = "absent" /\ durable = "absent" /\ receipt = FALSE
    /\ wrapper = "none" /\ starts = 0 /\ inflight = FALSE
    /\ step = [c \in Calls |-> "idle"] /\ lock = None
    /\ answered = FALSE /\ removed = "no" /\ faults = 0

-----------------------------------------------------------------------------
Fault == faults < MaxFaults /\ faults' = faults + 1
Goto(c, next) == step' = [step EXCEPT ![c] = next]
From(c, current, next) == step[c] = current /\ Goto(c, next)
Finish(c) == Goto(c, "idle") /\ lock' = None

\* Every call takes the lock of the owner before it looks at anything.
Begin(c, first) == step[c] = "idle" /\ lock = None /\ lock' = c /\ Goto(c, first)

\* A step fails, or its answer is lost: the call ends where it is.
Fail(c) ==
    /\ step[c] # "idle" /\ Fault /\ Finish(c)
    /\ UNCHANGED <<file, engine, shim>>

\* write renames the new record into place, the directory is synced later.
Rename(c, state, next) ==
    /\ visible' = state /\ Goto(c, next)
    /\ UNCHANGED <<durable, engine, shim, lock, faults>>

\* The sync of the directory makes the visible record durable.
Sync == durable' = visible /\ UNCHANGED visible

-----------------------------------------------------------------------------
(* The gate is created and the wrapper launched                             *)

\* Ensure returns the record that exists, and creates it closed otherwise.
EnsureStartGate(c) ==
    /\ ~receipt /\ removed = "no" /\ Begin(c, "create")
    /\ UNCHANGED <<file, engine, shim, faults>>

Create(c) ==
    \/ step[c] = "create" /\ visible = "absent" /\ Rename(c, "closed", "created")
    \/ /\ step[c] = "create" /\ visible # "absent" /\ receipt' = TRUE /\ Finish(c)
       /\ UNCHANGED <<file, answered, removed, shim, faults>>

Created(c) ==
    /\ step[c] = "created" /\ Sync /\ receipt' = TRUE /\ Finish(c)
    /\ UNCHANGED <<answered, removed, shim, faults>>

\* Mutant: the gate is validated before the lock is taken.
Mut_ValidateFirst(c) ==
    /\ receipt /\ removed = "no" /\ visible = "closed" /\ step[c] = "idle" /\ Goto(c, "launch")
    /\ UNCHANGED <<file, engine, shim, lock, faults>>

EnsureInit(c) ==
    /\ receipt /\ removed = "no" /\ Begin(c, "validate")
    /\ UNCHANGED <<file, engine, shim, faults>>

\* validateInitLaunch and validateInitArtifact require a closed gate.
ValidateInitArtifact(c) ==
    /\ \/ visible = "closed" /\ From(c, "validate", "launch") /\ UNCHANGED lock
       \/ visible # "closed" /\ step[c] = "validate" /\ Finish(c)
    /\ UNCHANGED <<file, engine, shim, faults>>

\* The wrapper is adopted, or launched in the place of one that is gone
\* (LaunchJournal).
LaunchInit(c) ==
    /\ step[c] = "launch" /\ Finish(c)
    /\ wrapper' = IF wrapper = "none" THEN "prepared" ELSE wrapper
    /\ UNCHANGED <<file, engine, starts, inflight, faults>>

-----------------------------------------------------------------------------
(* ReleaseStartGate                                                         *)

ReleaseStartGate(c) ==
    /\ receipt /\ removed = "no" /\ wrapper # "none" /\ Begin(c, "read")
    /\ UNCHANGED <<file, engine, shim, faults>>

\* Mutant: a consumed gate is trusted without the sync of its directory.
Mut_NoConfirm(c) ==
    \/ step[c] = "read" /\ visible = "closed" /\ Rename(c, "consuming", "consumed")
    \/ /\ step[c] = "read" /\ visible # "closed"
       /\ \/ visible = "consuming" /\ Goto(c, "inspect") /\ UNCHANGED lock
          \/ visible = "released" /\ Goto(c, "recheck") /\ UNCHANGED lock
          \/ visible = "absent" /\ Finish(c)
       /\ UNCHANGED <<file, engine, shim, faults>>

\* A closed gate is consumed first.  One found consuming or released may stem
\* from a rename whose sync failed: ConfirmState syncs it before it is relied on.
ReadGate(c) ==
    \/ step[c] = "read" /\ visible = "closed" /\ Rename(c, "consuming", "consumed")
    \/ /\ step[c] = "read" /\ visible # "closed"
       /\ \/ visible = "consuming" /\ Goto(c, "confirm") /\ UNCHANGED lock
          \/ visible = "released" /\ Goto(c, "recheck") /\ UNCHANGED lock
          \/ visible = "absent" /\ Finish(c)
       /\ UNCHANGED <<file, engine, shim, faults>>

\* The consumption is durable.
Consumed(c) ==
    /\ From(c, "consumed", "deliver") /\ Sync
    /\ UNCHANGED <<engine, shim, lock, faults>>

ConfirmState(c) ==
    /\ From(c, "confirm", "inspect") /\ Sync
    /\ UNCHANGED <<engine, shim, lock, faults>>

\* Mutant: a workload that ended is not recognised as one that started.
Mut_EndedFails(c) ==
    /\ \/ wrapper = "prepared" /\ From(c, "inspect", "deliver") /\ UNCHANGED lock
       \/ wrapper = "started" /\ From(c, "inspect", "release") /\ UNCHANGED lock
       \/ wrapper \in {"none", "ended"} /\ step[c] = "inspect" /\ Finish(c)
    /\ UNCHANGED <<file, engine, shim, faults>>

\* A consumption found under way: the wrapper tells whether it was delivered.
Inspect(c) ==
    /\ \/ wrapper = "prepared" /\ From(c, "inspect", "deliver") /\ UNCHANGED lock
       \/ wrapper \in {"started", "ended"} /\ From(c, "inspect", "release") /\ UNCHANGED lock
       \/ wrapper = "none" /\ step[c] = "inspect" /\ Finish(c)
    /\ UNCHANGED <<file, engine, shim, faults>>

Started == wrapper' = "started" /\ starts' = starts + 1

\* The release reaches the wrapper.  Where the answer is lost or the wait for
\* it times out, it has arrived or may still do so.  A wrapper that was released
\* before says so.
Deliver(c) ==
    /\ step[c] = "deliver"
    /\ \/ wrapper = "prepared" /\ Started /\ Goto(c, "release") /\ UNCHANGED <<inflight, lock, faults>>
       \/ /\ wrapper = "prepared" /\ Fault /\ Finish(c)
          /\ (Started /\ UNCHANGED inflight) \/ (inflight' = TRUE /\ UNCHANGED <<wrapper, starts>>)
       \/ wrapper \in {"started", "ended"} /\ Goto(c, "reinspect") /\ UNCHANGED <<shim, lock, faults>>
       \/ wrapper = "none" /\ Finish(c) /\ UNCHANGED <<shim, faults>>
    /\ UNCHANGED <<file, engine>>

\* The wrapper takes one release only.
Arrive ==
    /\ inflight /\ inflight' = FALSE
    /\ \/ wrapper = "prepared" /\ Started
       \/ wrapper # "prepared" /\ UNCHANGED <<wrapper, starts>>
    /\ UNCHANGED <<file, engine, step, lock, faults>>

Reinspect(c) ==
    /\ \/ wrapper \in {"started", "ended"} /\ From(c, "reinspect", "release") /\ UNCHANGED lock
       \/ wrapper \in {"none", "prepared"} /\ step[c] = "reinspect" /\ Finish(c)
    /\ UNCHANGED <<file, engine, shim, faults>>

\* Transition to released.
MarkReleased(c) == step[c] = "release" /\ Rename(c, "released", "settled")

Settled(c) ==
    /\ step[c] = "settled" /\ Sync /\ answered' = TRUE /\ Finish(c)
    /\ UNCHANGED <<receipt, removed, shim, faults>>

\* A gate found released: ConfirmState, then the wrapper must not be prepared.
Recheck(c) ==
    /\ step[c] = "recheck" /\ Sync /\ Finish(c)
    /\ answered' = (answered \/ wrapper \in {"started", "ended"})
    /\ UNCHANGED <<receipt, removed, shim, faults>>

-----------------------------------------------------------------------------
(* The gate is removed after its wrapper                                     *)

RemoveStartGate(c) ==
    /\ receipt /\ wrapper = "none" /\ Begin(c, "unlink")
    /\ removed' = IF removed = "done" THEN "done" ELSE "asked"
    /\ UNCHANGED <<file, receipt, answered, shim, faults>>

\* Remove deletes the file; one that is gone already is confirmed all the same.
Unlink(c) == step[c] = "unlink" /\ Rename(c, "absent", "unlinked")

\* The sync of the owner's directories ends the removal: confirmArtifactAbsence
\* where nothing was found.
Unlinked(c) ==
    /\ step[c] = "unlinked" /\ Sync /\ removed' = "done" /\ Finish(c)
    /\ UNCHANGED <<receipt, answered, shim, faults>>

-----------------------------------------------------------------------------
\* The workload ends, and the wrapper keeps its outcome.
End ==
    /\ wrapper = "started" /\ wrapper' = "ended"
    /\ UNCHANGED <<file, engine, starts, inflight, step, lock, faults>>

\* The wrapper dies, or is removed.
Die ==
    /\ wrapper # "none" /\ wrapper' = "none" /\ inflight' = FALSE /\ Fault
    /\ UNCHANGED <<file, engine, starts, step, lock>>

Crash ==
    /\ lock # None /\ Fault /\ step' = [c \in Calls |-> "idle"] /\ lock' = None
    /\ UNCHANGED <<file, engine, shim>>

\* The kernel may write the directory back at any time.
Flush == durable # visible /\ Sync /\ UNCHANGED <<engine, shim, step, lock, faults>>

PowerLoss ==
    /\ Fault /\ visible' = durable /\ wrapper' = "none" /\ inflight' = FALSE
    /\ step' = [c \in Calls |-> "idle"] /\ lock' = None
    /\ UNCHANGED <<durable, engine, starts>>

Step(c) ==
    \/ Create(c) \/ Created(c) \/ ValidateInitArtifact(c) \/ LaunchInit(c)
    \/ ReadGate(c) \/ Consumed(c) \/ ConfirmState(c) \/ Inspect(c) \/ Deliver(c)
    \/ Reinspect(c) \/ MarkReleased(c) \/ Settled(c) \/ Recheck(c)
    \/ Unlink(c) \/ Unlinked(c)

Next ==
    \/ \E c \in Calls :
          \/ EnsureStartGate(c) \/ EnsureInit(c) \/ ReleaseStartGate(c) \/ RemoveStartGate(c)
          \/ Step(c) \/ Fail(c)
    \/ Arrive \/ End \/ Die \/ Crash \/ Flush \/ PowerLoss

\* A call goes on, and the engine repeats a start that was not answered.
Fairness ==
    /\ \A c \in Calls : WF_vars(Step(c))
    /\ SF_vars(\E c \in Calls : ReleaseStartGate(c))

Spec == Init /\ [][Next]_vars /\ Fairness

-----------------------------------------------------------------------------
\* The workload of an Attempt starts at most once, over lost answers, repeated
\* releases, new wrappers, restarts of the daemon and power losses.
StartsOnce == starts <= 1

\* Before the workload starts its gate is durably consumed: no power loss lets
\* EnsureInit find a closed gate behind a workload that ran.
ConsumedFirst == starts > 0 /\ removed = "no" => durable \in {"consuming", "released"}

\* A gate is marked released only after a start, and no wrapper is prepared
\* behind it: the two conflicts that ReleaseStartGate refuses do not occur.
ReleasedIsStarted == visible = "released" => starts > 0 /\ wrapper # "prepared"

\* What was reported lasts: a start that was answered is durably released, a
\* removal that was answered leaves no file after a power loss.
AnswerLasts ==
    /\ answered /\ removed = "no" => durable = "released"
    /\ removed = "done" => durable = "absent"

\* A start that the engine repeats is answered, unless the wrapper is lost or
\* the Attempt is removed.
Answered == [](wrapper = "started" /\ receipt => <>(answered \/ wrapper = "none" \/ removed # "no"))
=============================================================================
