-------------------------- MODULE ProcessesProofs --------------------------
(***************************************************************************)
(* Proofs about the start gate, the launch journal and the identity of a       *)
(* process, for any calls and any bounds on failures and removals.            *)
(***************************************************************************)
EXTENDS MCProcesses, FiniteSetTheorems, TLAPS

-----------------------------------------------------------------------------
(* The start gate.                                                           *)

\* No power loss can open the gate again.
Consumed == {visible, durable} \subseteq {"consuming", "released"}

\* What a call of the gate knows where it is.
GatePlace(c) ==
    /\ step[c] \in {"unlink", "unlinked"} => removed # "no"
    /\ step[c] \notin {"idle", "unlink", "unlinked"} => removed = "no"
    /\ step[c] = "launch" => visible = "closed"
    /\ step[c] \in {"consumed", "confirm"} => visible = "consuming"
    /\ step[c] \in {"inspect", "deliver", "reinspect", "release"} => Consumed
    /\ step[c] \in {"release", "settled"} => starts = 1 /\ wrapper # "prepared"
    /\ step[c] \in {"settled", "recheck"} => visible = "released"
    /\ step[c] = "unlinked" => visible = "absent"

\* A prepared wrapper has an unstarted Attempt, and a start, or one that may
\* still arrive, has a gate that was consumed for good.
GateInv ==
    /\ Gate!TypeOK
    /\ starts <= 1
    /\ wrapper = "prepared" => starts = 0
    /\ wrapper \in {"started", "ended"} => starts = 1
    /\ inflight => wrapper # "none"
    /\ removed # "no" => wrapper = "none"
    /\ (starts = 1 \/ inflight) /\ removed = "no" => Consumed
    /\ "released" \in {visible, durable} => starts = 1 /\ wrapper # "prepared"
    /\ answered /\ removed = "no" => visible = "released" /\ durable = "released"
    /\ removed = "done" => visible = "absent" /\ durable = "absent"
    /\ \A c \in Calls : GatePlace(c)

\* No step of the gate, its wrapper or the machine leaves the invariant.
LEMMA GateStep ==
    ASSUME GateInv, [Gate!Next]_gateVars, ProcessesAssumption
    PROVE  GateInv'
  <1> USE ProcessesAssumption DEF ProcessesAssumption, Gate!GateAssumption
  <1> USE DEF GateInv, GatePlace, Consumed, Gate!TypeOK, Gate!States, Gate!Steps,
        Gate!file, Gate!engine, Gate!shim, Gate!Fault, Gate!Goto, Gate!From, Gate!Finish, Gate!Begin,
        Gate!Rename, Gate!Sync, Gate!Started
  <1>1. ASSUME NEW c \in Calls, Gate!EnsureStartGate(c) PROVE GateInv'
    BY <1>1 DEF Gate!EnsureStartGate
  <1>2. ASSUME NEW c \in Calls, Gate!EnsureInit(c) PROVE GateInv'
    BY <1>2 DEF Gate!EnsureInit
  <1>3. ASSUME NEW c \in Calls, Gate!ReleaseStartGate(c) PROVE GateInv'
    BY <1>3 DEF Gate!ReleaseStartGate
  <1>4. ASSUME NEW c \in Calls, Gate!RemoveStartGate(c) PROVE GateInv'
    BY <1>4 DEF Gate!RemoveStartGate
  <1>5. ASSUME NEW c \in Calls, Gate!Create(c) PROVE GateInv'
    <2>1. CASE visible = "absent"
      BY <1>5, <2>1 DEF Gate!Create
    <2>2. CASE visible # "absent"
      <3>1. receipt' \in BOOLEAN /\ inflight' \in BOOLEAN /\ answered' \in BOOLEAN
        BY <1>5, <2>2 DEF Gate!Create
      <3>2. \A d \in Calls : GatePlace(d)'
        BY <1>5, <2>2 DEF Gate!Create
      <3>3. step' = [step EXCEPT ![c] = "idle"] /\ held' = None /\ step[c] = "create"
        BY <1>5, <2>2 DEF Gate!Create
      <3>4. UNCHANGED <<visible, durable, answered, removed, wrapper, starts, inflight, losses>>
        BY <1>5, <2>2 DEF Gate!Create
      <3>5. Gate!TypeOK'
        <4>1. step' \in [Calls -> Gate!Steps] /\ \A d \in Calls : d # held' => step'[d] = "idle"
          BY <3>3
        <4> QED
          BY <3>1, <3>3, <3>4, <4>1
      <3> QED
        BY <3>2, <3>4, <3>5
    <2> QED
      BY <2>1, <2>2
  <1>6. ASSUME NEW c \in Calls, Gate!Created(c) PROVE GateInv'
    BY <1>6 DEF Gate!Created
  <1>7. ASSUME NEW c \in Calls, Gate!ValidateInitArtifact(c) PROVE GateInv'
    BY <1>7 DEF Gate!ValidateInitArtifact
  <1>8. ASSUME NEW c \in Calls, Gate!LaunchInit(c) PROVE GateInv'
    BY <1>8 DEF Gate!LaunchInit
  <1>9. ASSUME NEW c \in Calls, Gate!ReadGate(c) PROVE GateInv'
    BY <1>9 DEF Gate!ReadGate
  <1>10. ASSUME NEW c \in Calls, Gate!Consumed(c) PROVE GateInv'
    BY <1>10 DEF Gate!Consumed
  <1>11. ASSUME NEW c \in Calls, Gate!ConfirmState(c) PROVE GateInv'
    BY <1>11 DEF Gate!ConfirmState
  <1>12. ASSUME NEW c \in Calls, Gate!Inspect(c) PROVE GateInv'
    BY <1>12 DEF Gate!Inspect
  <1>13. ASSUME NEW c \in Calls, Gate!Deliver(c) PROVE GateInv'
    <2>1. CASE wrapper = "prepared" /\ Gate!Started /\ Gate!Goto(c, "release") /\ UNCHANGED <<inflight, held, losses>>
      BY <1>13, <2>1 DEF Gate!Deliver
    <2>2. CASE wrapper = "prepared" /\ Gate!Fault /\ Gate!Finish(c) /\ Gate!Started /\ UNCHANGED inflight
      BY <1>13, <2>2 DEF Gate!Deliver
    <2>3. CASE wrapper = "prepared" /\ Gate!Fault /\ Gate!Finish(c) /\ inflight' /\ UNCHANGED <<wrapper, starts>>
      BY <1>13, <2>3 DEF Gate!Deliver
    <2>4. CASE wrapper # "prepared"
      BY <1>13, <2>4 DEF Gate!Deliver
    <2> QED
      BY <1>13, <2>1, <2>2, <2>3, <2>4 DEF Gate!Deliver
  <1>14. ASSUME NEW c \in Calls, Gate!Reinspect(c) PROVE GateInv'
    BY <1>14 DEF Gate!Reinspect
  <1>15. ASSUME NEW c \in Calls, Gate!MarkReleased(c) PROVE GateInv'
    BY <1>15 DEF Gate!MarkReleased
  <1>16. ASSUME NEW c \in Calls, Gate!Settled(c) PROVE GateInv'
    BY <1>16 DEF Gate!Settled
  <1>17. ASSUME NEW c \in Calls, Gate!Recheck(c) PROVE GateInv'
    BY <1>17 DEF Gate!Recheck
  <1>18. ASSUME NEW c \in Calls, Gate!Unlink(c) PROVE GateInv'
    BY <1>18 DEF Gate!Unlink
  <1>19. ASSUME NEW c \in Calls, Gate!Unlinked(c) PROVE GateInv'
    BY <1>19 DEF Gate!Unlinked
  <1>20. ASSUME NEW c \in Calls, Gate!Fail(c) PROVE GateInv'
    BY <1>20 DEF Gate!Fail
  <1>21. CASE Gate!Arrive
    <2>1. Gate!TypeOK'
      <3>1. ({visible, durable} \subseteq Gate!States)' /\ receipt' \in BOOLEAN
        BY <1>21 DEF Gate!Arrive
      <3>2. wrapper' \in {"none", "prepared", "started", "ended"} /\ starts' \in 0 .. GateFaults + 1
        BY <1>21 DEF Gate!Arrive
      <3>3. inflight' \in BOOLEAN
        BY <1>21 DEF Gate!Arrive
      <3>4. step' \in [Calls -> Gate!Steps] /\ held' \in Calls \cup {None}
        BY <1>21 DEF Gate!Arrive
      <3>5. \A c \in Calls : c # held' => step'[c] = "idle"
        BY <1>21 DEF Gate!Arrive
      <3>6. answered' \in BOOLEAN /\ removed' \in {"no", "asked", "done"} /\ losses' \in 0 .. GateFaults
        BY <1>21 DEF Gate!Arrive
      <3> QED
        BY <3>1, <3>2, <3>3, <3>4, <3>5, <3>6
    <2>2. \A c \in Calls : GatePlace(c)'
      BY <1>21 DEF Gate!Arrive
    <2> QED
      BY <1>21, <2>1, <2>2 DEF Gate!Arrive
  <1>22. CASE Gate!End
    BY <1>22 DEF Gate!End
  <1>23. CASE Gate!Die
    <2>1. Gate!TypeOK'
      <3>1. ({visible, durable} \subseteq Gate!States)' /\ receipt' \in BOOLEAN
        BY <1>23 DEF Gate!Die
      <3>2. wrapper' \in {"none", "prepared", "started", "ended"} /\ starts' \in 0 .. GateFaults + 1
        BY <1>23 DEF Gate!Die
      <3>3. inflight' \in BOOLEAN
        BY <1>23 DEF Gate!Die
      <3>4. step' \in [Calls -> Gate!Steps] /\ held' \in Calls \cup {None}
        BY <1>23 DEF Gate!Die
      <3>5. \A c \in Calls : c # held' => step'[c] = "idle"
        BY <1>23 DEF Gate!Die
      <3>6. answered' \in BOOLEAN /\ removed' \in {"no", "asked", "done"} /\ losses' \in 0 .. GateFaults
        BY <1>23 DEF Gate!Die
      <3> QED
        BY <3>1, <3>2, <3>3, <3>4, <3>5, <3>6
    <2>2. \A c \in Calls : GatePlace(c)'
      BY <1>23 DEF Gate!Die
    <2> QED
      BY <1>23, <2>1, <2>2 DEF Gate!Die
  <1>24. CASE Gate!Crash
    BY <1>24 DEF Gate!Crash
  <1>25. CASE Gate!Flush
    BY <1>25 DEF Gate!Flush
  <1>26. CASE Gate!PowerLoss
    <2>1. Gate!TypeOK'
      <3>1. ({visible, durable} \subseteq Gate!States)' /\ receipt' \in BOOLEAN
        BY <1>26 DEF Gate!PowerLoss
      <3>2. wrapper' \in {"none", "prepared", "started", "ended"} /\ starts' \in 0 .. GateFaults + 1
        BY <1>26 DEF Gate!PowerLoss
      <3>3. inflight' \in BOOLEAN
        BY <1>26 DEF Gate!PowerLoss
      <3>4. step' \in [Calls -> Gate!Steps] /\ held' \in Calls \cup {None}
        BY <1>26 DEF Gate!PowerLoss
      <3>5. \A c \in Calls : c # held' => step'[c] = "idle"
        BY <1>26 DEF Gate!PowerLoss
      <3>6. answered' \in BOOLEAN /\ removed' \in {"no", "asked", "done"} /\ losses' \in 0 .. GateFaults
        BY <1>26 DEF Gate!PowerLoss
      <3> QED
        BY <3>1, <3>2, <3>3, <3>4, <3>5, <3>6
    <2>2. \A c \in Calls : GatePlace(c)'
      BY <1>26 DEF Gate!PowerLoss
    <2> QED
      BY <1>26, <2>1, <2>2 DEF Gate!PowerLoss
  <1>27. CASE UNCHANGED gateVars
    BY <1>27 DEF gateVars
  <1> QED
    BY <1>1, <1>2, <1>3, <1>4, <1>5, <1>6, <1>7, <1>8, <1>9, <1>10, <1>11, <1>12, <1>13, <1>14, <1>15, <1>16, <1>17, <1>18, <1>19, <1>20, <1>21, <1>22, <1>23, <1>24, <1>25, <1>26, <1>27 DEF Gate!Next, Gate!Step

\* A step of the suite is one of the gate, or leaves it alone.
LEMMA SuiteGateStep == Next => [Gate!Next]_gateVars
  BY DEF Next

\* The invariant of the start gate holds of every reachable state.
LEMMA GateInvariant == Spec => []GateInv
  <1>1. ASSUME Init PROVE GateInv
    <2> USE <1>1, ProcessesAssumption DEF ProcessesAssumption, Gate!GateAssumption, Init, Gate!Init
    <2>1. receipt \in BOOLEAN /\ inflight \in BOOLEAN /\ answered \in BOOLEAN
      OBVIOUS
    <2>2. Gate!TypeOK
      BY <2>1 DEF Gate!TypeOK, Gate!States, Gate!Steps
    <2> QED
      BY <2>2 DEF GateInv, GatePlace, Consumed
  <1>2. GateInv /\ [Next]_vars => GateInv'
    BY GateStep, SuiteGateStep, ProcessesAssumption DEF vars
  <1> QED
    BY <1>1, <1>2, PTL DEF Spec

\* ReleaseStartGate (slim/provider.go): whatever answers are lost and whatever
\* wrappers, daemons and machines are lost with them, the workload of an Attempt is
\* started once at most, behind a gate that no power loss opens again, and what was
\* answered lasts.
THEOREM GateStartsOnce == Spec => []StartsOnce
  <1>1. GateInv => StartsOnce
    BY DEF GateInv, Consumed, StartsOnce, Gate!StartsOnce, Gate!ConsumedFirst, Gate!ReleasedIsStarted,
        Gate!AnswerLasts, Gate!TypeOK
  <1> QED
    BY <1>1, GateInvariant, PTL

-----------------------------------------------------------------------------
(* The launch journal.                                                       *)

CallRec == [step : Launch!Steps, op : {"none", "ensure", "remove"},
            asked : Launch!Launches \cup {None}, process : Launch!Launches \cup {None}, seen : Launch!Journals]

\* Only the call that holds the lock of the owner is under way.
CallsTyped ==
    /\ call \in [Calls -> CallRec] /\ lock \in Calls \cup {None}
    /\ \A c \in Calls : c # lock => call[c] = Launch!Idle

\* The steps of a call that forked its process, and of one that found it in the journal.
Forked == {"attach", "authorize", "release", "await", "ready", "commit", "abort", "aborting", "fail"}
Found == {"present", "adopt", "confirm", "return", "kill", "cleanup", "reset", "restore"}

\* What a call of the launcher knows where it is.
LaunchPlace(c) ==
    LET s == call[c].step
        p == call[c].process
    IN /\ s \in {"recheck", "fork"} => \A q \in Launch!Launches : ~Launch!Alive(q)
       /\ s \in Forked =>
              /\ p \in Launch!Launches /\ proc[p] # "none" /\ p \notin receipts
              /\ \A q \in Launch!Launches : Launch!Alive(q) => q = p
       /\ s \in {"release", "await", "ready", "commit"} => journal.process = p
       /\ s \in {"await", "ready", "commit", "confirm", "return"} => gate[p] = "byte"
       /\ s \in {"commit", "return"} => journal.phase = "ready"
       /\ s \in Found => p \in Launch!Launches /\ journal.process = p
       /\ s \in {"present", "adopt"} => call[c].seen = journal
       /\ s \in {"cleanup", "reset"} => proc[p] = "dead"
       /\ s = "reset" => socket = None
       /\ s = "restore" => call[c].op = "remove"
       /\ call[c].op = "remove" => call[c].asked = p /\ s \in {"restore", "kill", "cleanup"}

\* A child that may pass its gate is the one the journal names, and nothing else
\* lives in the leaf.
LaunchWorld ==
    /\ journal \in Launch!Journals
    /\ proc \in [Launch!Launches -> {"none", "gated", "released", "serving", "dead"}]
    /\ gate \in [Launch!Launches -> {"held", "byte", "eof"}]
    /\ doomed \subseteq Launch!Launches /\ socket \in Launch!Launches \cup {None}
    /\ receipts \subseteq Launch!Launches /\ gone \subseteq Launch!Launches
    /\ removals \in 0 .. MaxRemovals /\ faults \in 0 .. LaunchFaults
    /\ \A p \in Launch!Launches :
          /\ proc[p] = "none" => gate[p] = "held"
          /\ proc[p] \in {"released", "serving"} => gate[p] = "byte"
          /\ Launch!Alive(p) /\ gate[p] = "byte" => journal.process = p
    /\ \A p, q \in Launch!Launches : Launch!Alive(p) /\ Launch!Alive(q) => p = q
    /\ journal.process # None => proc[journal.process] # "none"
    /\ \A p \in receipts : gate[p] = "byte" /\ (journal.process = p => journal.phase = "ready")
    /\ \A p \in gone : proc[p] = "dead"
    /\ Launch!NeverWedged

LaunchInv == CallsTyped /\ LaunchWorld /\ \A c \in Calls : LaunchPlace(c)

\* No launch has the number that stands for no process.
LEMMA NoneIsNoLaunch == ASSUME ProcessesAssumption PROVE None \notin Launch!Launches
  BY DEF ProcessesAssumption, Launch!LaunchAssumption, Launch!Launches

\* A journal that names a process has released it, or is about to.
LEMMA NamingPhase ==
    ASSUME LaunchWorld, ProcessesAssumption, journal.process \in Launch!Launches
    PROVE  journal.phase \in {"authorized", "ready"}
  BY NoneIsNoLaunch DEF LaunchWorld, Launch!Journals

\* A process is in its life-cycle: not forked, alive, or dead.
LEMMA Life ==
    ASSUME LaunchWorld, ProcessesAssumption, NEW p \in Launch!Launches, ~Launch!Alive(p),
           gate[p] = "byte" \/ journal.process = p
    PROVE  proc[p] = "dead"
  BY NoneIsNoLaunch DEF LaunchWorld, Launch!Alive

\* A call that is not under way knows nothing.
LEMMA IdlePlace ==
    ASSUME NEW d \in Calls, call'[d] = Launch!Idle
    PROVE  LaunchPlace(d)'
  BY DEF LaunchPlace, Launch!Idle, Forked, Found

\* The call under way holds the lock.
LEMMA Holder ==
    ASSUME CallsTyped, NEW c \in Calls, call[c].step # "idle"
    PROVE  lock = c
  BY DEF CallsTyped, Launch!Idle

\* The call keeps what it was asked and the process it acts on.
Same(c, old) ==
    /\ call'[c].op = old.op /\ call'[c].asked = old.asked
    /\ call'[c].process = old.process

\* A step of a call that goes on changes where that call is.
LEMMA Going ==
    ASSUME CallsTyped, NEW c \in Calls, call[c].step # "idle",
           NEW s \in Launch!Steps, Launch!Goto(c, s), UNCHANGED lock
    PROVE  /\ CallsTyped' /\ call'[c].step = s /\ Same(c, call[c]) /\ call'[c].seen = call[c].seen
           /\ \A d \in Calls \ {c} : LaunchPlace(d)'
  <1>1. call[c] \in CallRec /\ call' = [call EXCEPT ![c] = [call[c] EXCEPT !.step = s]]
    BY DEF Launch!Goto, CallsTyped
  <1>2. [call[c] EXCEPT !.step = s] \in CallRec
    BY <1>1 DEF CallRec
  <1>3. CallsTyped' /\ call'[c].step = s /\ Same(c, call[c]) /\ call'[c].seen = call[c].seen
    BY <1>1, <1>2, Holder DEF CallRec, CallsTyped, Same
  <1>4. \A d \in Calls \ {c} : call'[d] = Launch!Idle
    BY <1>1, Holder DEF CallsTyped
  <1> QED
    BY <1>3, <1>4, IdlePlace

\* A call that ends is idle, and so are the others.
LEMMA Ending ==
    ASSUME CallsTyped, ProcessesAssumption, NEW c \in Calls, call[c].step # "idle", Launch!Finish(c)
    PROVE  CallsTyped' /\ \A d \in Calls : LaunchPlace(d)'
  <1>1. Launch!Idle \in CallRec
    BY DEF CallRec, Launch!Idle, Launch!Steps, Launch!Journals, ProcessesAssumption, Launch!LaunchAssumption
  <1>2. call' \in [Calls -> CallRec] /\ \A d \in Calls : call'[d] = Launch!Idle
    BY <1>1, Holder DEF CallsTyped, Launch!Finish
  <1> QED
    BY <1>2, IdlePlace DEF CallsTyped, Launch!Finish

\* A call that fails ends, or goes to abort the child that it forked.
LEMMA Abandoning ==
    ASSUME LaunchInv, ProcessesAssumption, NEW c \in Calls, call[c].step # "idle", Launch!Abandon(c),
           UNCHANGED <<proc, receipts>>
    PROVE  CallsTyped' /\ \A d \in Calls : LaunchPlace(d)'
  <1>1. CASE Launch!HoldsChild(c) /\ Launch!Goto(c, "abort") /\ UNCHANGED lock
    <2>1. /\ CallsTyped' /\ call'[c].step = "abort" /\ Same(c, call[c])
          /\ \A d \in Calls \ {c} : LaunchPlace(d)'
      BY <1>1, Going DEF LaunchInv, Launch!Steps
    <2>2. call[c].step \in Forked /\ LaunchPlace(c)
      BY <1>1 DEF LaunchInv, Launch!HoldsChild, Forked
    <2>3. LaunchPlace(c)'
      BY <2>1, <2>2 DEF LaunchPlace, Forked, Found, Same, Launch!Alive
    <2> QED
      BY <2>1, <2>3
  <1>2. CASE Launch!Finish(c)
    BY <1>2, Ending DEF LaunchInv
  <1> QED
    BY <1>1, <1>2 DEF Launch!Abandon

\* A write of the journal that fails abandons the call; another one takes it on.
LEMMA Writing ==
    ASSUME LaunchInv, ProcessesAssumption, NEW c \in Calls, call[c].step # "idle",
           NEW n \in Launch!Journals, NEW s \in Launch!Steps, Launch!Write(c, n, s),
           UNCHANGED <<proc, receipts>>
    PROVE  /\ CallsTyped' /\ journal' \in {journal, n} /\ faults' \in 0 .. LaunchFaults
           /\ \A d \in Calls \ {c} : LaunchPlace(d)'
           /\ \/ LaunchPlace(c)'
              \/ journal' = n /\ call'[c].step = s /\ Same(c, call[c]) /\ call'[c].seen = n
  <1>1. CASE /\ journal' = n /\ call' = [call EXCEPT ![c].step = s, ![c].seen = n]
             /\ UNCHANGED <<lock, faults>>
    <2>1. call[c] \in CallRec /\ call' = [call EXCEPT ![c] = [call[c] EXCEPT !.step = s, !.seen = n]]
      BY <1>1 DEF LaunchInv, CallsTyped
    <2>2. [call[c] EXCEPT !.step = s, !.seen = n] \in CallRec
      BY <2>1 DEF CallRec
    <2>3. CallsTyped' /\ call'[c].step = s /\ Same(c, call[c]) /\ call'[c].seen = n
      BY <1>1, <2>1, <2>2, Holder DEF LaunchInv, CallRec, CallsTyped, Same
    <2>4. \A d \in Calls \ {c} : call'[d] = Launch!Idle
      BY <2>1, Holder DEF LaunchInv, CallsTyped
    <2> QED
      BY <1>1, <2>3, <2>4, IdlePlace DEF LaunchInv, LaunchWorld
  <1>2. CASE Launch!Abandon(c) /\ UNCHANGED <<journal, faults>>
    BY <1>2, Abandoning DEF LaunchInv, LaunchWorld
  <1>3. CASE Launch!Fault /\ journal' \in {journal, n} /\ Launch!Abandon(c)
    BY <1>3, Abandoning DEF LaunchInv, LaunchWorld, Launch!Fault, ProcessesAssumption, Launch!LaunchAssumption
  <1> QED
    BY <1>1, <1>2, <1>3 DEF Launch!Write

\* No step of the launcher, a child or the machine leaves the invariant.
LEMMA LaunchStep ==
    ASSUME LaunchInv, [Launch!Next]_launchVars, ProcessesAssumption
    PROVE  LaunchInv'
  <1> USE ProcessesAssumption DEF ProcessesAssumption, Launch!LaunchAssumption
  <1> USE DEF LaunchInv, Launch!kernel, Launch!answers, Launch!At
  <1>1. ASSUME NEW c \in Calls, Launch!Ensure(c) PROVE LaunchInv'
    <2>1. lock = None /\ lock' = c /\ call[c] \in CallRec /\ \A d \in Calls : call[d] = Launch!Idle
      BY <1>1 DEF Launch!Ensure, Launch!Locked, CallsTyped
    <2> DEFINE r == [Launch!Idle EXCEPT !.step = "intent", !.op = "ensure"]
    <2>2. r \in CallRec /\ r.step = "intent" /\ r.op = "ensure"
      BY DEF CallRec, Launch!Idle, Launch!Steps, Launch!Journals
    <2>3. CallsTyped' /\ call'[c] = r /\ \A d \in Calls \ {c} : call'[d] = Launch!Idle
      BY <1>1, <2>1, <2>2 DEF Launch!Ensure, CallsTyped
    <2>4. LaunchPlace(c)'
      BY <2>2, <2>3 DEF LaunchPlace, Forked, Found
    <2>5. LaunchWorld'
      BY <1>1 DEF Launch!Ensure, LaunchWorld, Launch!Alive, Launch!NeverWedged
    <2> QED
      BY <2>3, <2>4, <2>5, IdlePlace
  <1>2. ASSUME NEW c \in Calls, Launch!EnsureIntent(c) PROVE LaunchInv'
    <2> DEFINE n == [phase |-> "intent", process |-> None]
    <2>1. call[c].step # "idle" /\ LaunchPlace(c) /\ UNCHANGED <<proc, gate, doomed, socket, receipts, gone, removals>>
      BY <1>2 DEF Launch!EnsureIntent
    <2>2. CASE journal.phase = "none" /\ Launch!Write(c, n, "socket")
      <3>1. n \in Launch!Journals
        BY DEF Launch!Journals
      <3>2. /\ CallsTyped' /\ journal' \in {journal, n} /\ faults' \in 0 .. LaunchFaults
            /\ \A d \in Calls \ {c} : LaunchPlace(d)'
            /\ \/ LaunchPlace(c)'
               \/ journal' = n /\ call'[c].step = "socket" /\ Same(c, call[c]) /\ call'[c].seen = n
        BY <2>1, <2>2, <3>1, Writing DEF Launch!Steps
      <3>3. LaunchPlace(c)'
        BY <1>2, <2>1, <3>2 DEF Launch!EnsureIntent, LaunchPlace, Forked, Found, Same
      <3>4. LaunchWorld'
        BY <2>1, <2>2, <3>1, <3>2 DEF LaunchWorld, Launch!Alive, Launch!NeverWedged, Launch!Journals
      <3> QED
        BY <3>2, <3>3, <3>4
    <2>3. CASE /\ journal.phase # "none"
               /\ call' = [call EXCEPT ![c].seen = journal, ![c].process = journal.process,
                             ![c].step = IF journal.phase = "intent" THEN "socket" ELSE "present"]
               /\ UNCHANGED <<journal, lock, faults>>
      <3> DEFINE r == [call[c] EXCEPT !.seen = journal, !.process = journal.process,
                         !.step = IF journal.phase = "intent" THEN "socket" ELSE "present"]
      <3>1. /\ r \in CallRec /\ r.op = call[c].op /\ r.seen = journal /\ r.process = journal.process
            /\ r.step = IF journal.phase = "intent" THEN "socket" ELSE "present"
        <4>1. journal.process \in Launch!Launches \cup {None}
          BY DEF LaunchWorld, Launch!Journals
        <4>2. call[c] \in CallRec /\ journal \in Launch!Journals
          BY DEF CallsTyped, LaunchWorld
        <4>3. (IF journal.phase = "intent" THEN "socket" ELSE "present") \in Launch!Steps
          BY DEF Launch!Steps
        <4> QED
          BY <4>1, <4>2, <4>3 DEF CallRec
      <3>2. CallsTyped' /\ call'[c] = r /\ \A d \in Calls \ {c} : call'[d] = Launch!Idle
        <4>1. call' = [call EXCEPT ![c] = r]
          BY <2>3 DEF CallsTyped
        <4> QED
          BY <2>1, <2>3, <3>1, <4>1, Holder DEF CallsTyped
      <3>3. journal.phase # "intent" => journal.process \in Launch!Launches
        BY <2>3 DEF LaunchWorld, Launch!Journals
      <3> HIDE DEF r
      <3>4. LaunchPlace(c)'
        <4>1. call[c].op # "remove"
          BY <1>2, <2>1 DEF Launch!EnsureIntent, LaunchPlace
        <4> QED
          BY <2>3, <3>1, <3>2, <3>3, <4>1 DEF LaunchPlace, Forked, Found
      <3>5. LaunchWorld'
        BY <2>1, <2>3 DEF LaunchWorld, Launch!Alive, Launch!NeverWedged
      <3> QED
        BY <3>2, <3>4, <3>5, IdlePlace
    <2> QED
      BY <1>2, <2>2, <2>3 DEF Launch!EnsureIntent
  <1>3. ASSUME NEW c \in Calls, Launch!RequireSocketAbsent(c) PROVE LaunchInv'
    <2>1. call[c].step \in {"socket", "recheck"} /\ UNCHANGED <<journal, proc, gate, socket, receipts>> /\ LaunchPlace(c)
      BY <1>3 DEF Launch!RequireSocketAbsent
    <2>2. LaunchWorld'
      BY <1>3, <2>1 DEF Launch!RequireSocketAbsent, LaunchWorld, Launch!Alive, Launch!NeverWedged, LaunchPlace, Forked, Found
    <2>3. CASE Launch!Goto(c, "empty") /\ UNCHANGED lock /\ call[c].step = "socket"
      <3>1. /\ CallsTyped' /\ call'[c].step = "empty" /\ Same(c, call[c]) /\ call'[c].seen = call[c].seen
            /\ \A d \in Calls \ {c} : LaunchPlace(d)'
        BY <2>1, <2>3, Going DEF Launch!Steps
      <3>2. LaunchPlace(c)'
        BY <2>1, <2>3, <3>1 DEF LaunchPlace, Forked, Found, Same, Launch!Alive, LaunchWorld
      <3> QED
        BY <2>2, <3>1, <3>2
    <2>4. CASE Launch!Goto(c, "fork") /\ UNCHANGED lock /\ call[c].step = "recheck"
      <3>1. /\ CallsTyped' /\ call'[c].step = "fork" /\ Same(c, call[c]) /\ call'[c].seen = call[c].seen
            /\ \A d \in Calls \ {c} : LaunchPlace(d)'
        BY <2>1, <2>4, Going DEF Launch!Steps
      <3>2. LaunchPlace(c)'
        BY <2>1, <2>4, <3>1 DEF LaunchPlace, Forked, Found, Same, Launch!Alive, LaunchWorld
      <3> QED
        BY <2>2, <3>1, <3>2
    <2>5. CASE Launch!Finish(c)
      BY <2>1, <2>2, <2>5, Ending
    <2> QED
      BY <1>3, <2>1, <2>3, <2>4, <2>5 DEF Launch!RequireSocketAbsent
  <1>4. ASSUME NEW c \in Calls, Launch!AwaitEmptyLeaf(c) PROVE LaunchInv'
    <2>1. call[c].step \in {"empty", "drain"} /\ Launch!Leaf = {} /\ UNCHANGED <<journal, proc, gate, socket, receipts>> /\ LaunchPlace(c)
      BY <1>4 DEF Launch!AwaitEmptyLeaf
    <2>2. LaunchWorld'
      BY <1>4, <2>1 DEF Launch!AwaitEmptyLeaf, LaunchWorld, Launch!Alive, Launch!NeverWedged, LaunchPlace, Forked, Found
    <2>3. CASE Launch!Goto(c, "fork") /\ UNCHANGED lock
      <3>1. /\ CallsTyped' /\ call'[c].step = "fork" /\ Same(c, call[c]) /\ call'[c].seen = call[c].seen
            /\ \A d \in Calls \ {c} : LaunchPlace(d)'
        BY <2>1, <2>3, Going DEF Launch!Steps
      <3>2. LaunchPlace(c)'
        BY <2>1, <2>3, <3>1 DEF LaunchPlace, Forked, Found, Same, Launch!Alive, LaunchWorld, Launch!Leaf
      <3> QED
        BY <2>2, <3>1, <3>2
    <2>4. CASE Launch!Goto(c, "recheck") /\ UNCHANGED lock
      <3>1. /\ CallsTyped' /\ call'[c].step = "recheck" /\ Same(c, call[c]) /\ call'[c].seen = call[c].seen
            /\ \A d \in Calls \ {c} : LaunchPlace(d)'
        BY <2>1, <2>4, Going DEF Launch!Steps
      <3>2. LaunchPlace(c)'
        BY <2>1, <2>4, <3>1 DEF LaunchPlace, Forked, Found, Same, Launch!Alive, LaunchWorld, Launch!Leaf
      <3> QED
        BY <2>2, <3>1, <3>2
    <2> QED
      BY <1>4, <2>1, <2>3, <2>4 DEF Launch!AwaitEmptyLeaf
  <1>5. ASSUME NEW c \in Calls, Launch!Fork(c) PROVE LaunchInv'
    <2>1. PICK p \in Launch!Launches :
            /\ proc[p] = "none" /\ proc' = [proc EXCEPT ![p] = "gated"]
            /\ call' = [call EXCEPT ![c].step = "attach", ![c].process = p]
      BY <1>5 DEF Launch!Fork
    <2>2. /\ call[c].step = "fork" /\ LaunchPlace(c)
          /\ UNCHANGED <<journal, gate, doomed, socket, lock, receipts, gone, removals, faults>>
      BY <1>5 DEF Launch!Fork
    <2> DEFINE r == [call[c] EXCEPT !.step = "attach", !.process = p]
    <2>3. /\ r \in CallRec /\ r.op = call[c].op /\ r.asked = call[c].asked /\ r.process = p /\ r.step = "attach"
      BY DEF CallsTyped, CallRec, Launch!Steps
    <2>4. CallsTyped' /\ call'[c] = r /\ \A d \in Calls \ {c} : call'[d] = Launch!Idle
      <3>1. call' = [call EXCEPT ![c] = r]
        BY <2>1 DEF CallsTyped
      <3> QED
        BY <2>2, <2>3, <3>1, Holder DEF CallsTyped
    <2>5. LaunchWorld'
      BY <2>1, <2>2 DEF LaunchWorld, LaunchPlace, Launch!Alive, Launch!NeverWedged
    <2> HIDE DEF r
    <2>6. LaunchPlace(c)'
      <3>1. proc'[p] = "gated" /\ \A q \in Launch!Launches \ {p} : proc'[q] = proc[q]
        BY <2>1 DEF LaunchWorld
      <3>2. p \notin receipts /\ \A q \in Launch!Launches : ~Launch!Alive(q)
        BY <2>1, <2>2 DEF LaunchPlace, LaunchWorld
      <3>3. call[c].op # "remove"
        BY <2>2 DEF LaunchPlace
      <3> QED
        BY <2>2, <2>3, <2>4, <3>1, <3>2, <3>3 DEF LaunchPlace, Forked, Found, Launch!Alive
    <2> QED
      BY <2>4, <2>5, <2>6, IdlePlace
  <1>6. ASSUME NEW c \in Calls, Launch!Attach(c) PROVE LaunchInv'
    <2>1. call[c].step = "attach" /\ UNCHANGED <<journal, proc, gate, socket, receipts>> /\ LaunchPlace(c)
      BY <1>6 DEF Launch!Attach
    <2>2. LaunchWorld'
      BY <1>6, <2>1 DEF Launch!Attach, LaunchWorld, Launch!Alive, Launch!NeverWedged, LaunchPlace, Forked, Found
    <2>3. CASE Launch!Goto(c, "authorize") /\ UNCHANGED lock
      <3>1. /\ CallsTyped' /\ call'[c].step = "authorize" /\ Same(c, call[c]) /\ call'[c].seen = call[c].seen
            /\ \A d \in Calls \ {c} : LaunchPlace(d)'
        BY <2>1, <2>3, Going DEF Launch!Steps
      <3>2. LaunchPlace(c)'
        BY <2>1, <2>3, <3>1 DEF LaunchPlace, Forked, Found, Same, Launch!Alive, LaunchWorld
      <3> QED
        BY <2>2, <3>1, <3>2
    <2>4. CASE Launch!Goto(c, "abort") /\ UNCHANGED lock
      <3>1. /\ CallsTyped' /\ call'[c].step = "abort" /\ Same(c, call[c]) /\ call'[c].seen = call[c].seen
            /\ \A d \in Calls \ {c} : LaunchPlace(d)'
        BY <2>1, <2>4, Going DEF Launch!Steps
      <3>2. LaunchPlace(c)'
        BY <2>1, <2>4, <3>1 DEF LaunchPlace, Forked, Found, Same, Launch!Alive, LaunchWorld
      <3> QED
        BY <2>2, <3>1, <3>2
    <2> QED
      BY <1>6, <2>1, <2>3, <2>4 DEF Launch!Attach
  <1>7. ASSUME NEW c \in Calls, Launch!Authorize(c) PROVE LaunchInv'
    <2> DEFINE n == [phase |-> "authorized", process |-> call[c].process]
    <2>1. call[c].step # "idle" /\ LaunchPlace(c) /\ UNCHANGED <<proc, gate, doomed, socket, receipts, gone, removals>>
      BY <1>7 DEF Launch!Authorize
    <2>2. n \in Launch!Journals /\ Launch!Write(c, n, "release")
      BY <1>7, <2>1 DEF Launch!Authorize, Launch!Journals, Launch!Named, LaunchPlace, Forked, Found
    <2>3. /\ CallsTyped' /\ journal' \in {journal, n} /\ faults' \in 0 .. LaunchFaults
          /\ \A d \in Calls \ {c} : LaunchPlace(d)'
          /\ \/ LaunchPlace(c)'
             \/ journal' = n /\ call'[c].step = "release" /\ Same(c, call[c]) /\ call'[c].seen = n
      BY <2>1, <2>2, Writing DEF Launch!Steps
    <2>4. LaunchPlace(c)'
      BY <1>7, <2>1, <2>3 DEF Launch!Authorize, LaunchPlace, Forked, Found, Same, Launch!Alive
    <2>5. LaunchWorld'
      BY <1>7, <2>1, <2>2, <2>3, NoneIsNoLaunch DEF Launch!Authorize, LaunchWorld, Launch!Alive, Launch!NeverWedged, LaunchPlace, Forked, Found
    <2> QED
      BY <2>3, <2>4, <2>5
  <1>8. ASSUME NEW c \in Calls, Launch!Release(c) PROVE LaunchInv'
    <2>1. call[c].step = "release" /\ UNCHANGED <<journal, proc, socket, receipts>> /\ LaunchPlace(c)
      BY <1>8 DEF Launch!Release
    <2>2. LaunchWorld'
      BY <1>8, <2>1 DEF Launch!Release, LaunchWorld, Launch!Alive, Launch!NeverWedged, LaunchPlace, Forked, Found
    <2>3. CASE Launch!Goto(c, "await") /\ UNCHANGED lock /\ gate' = [gate EXCEPT ![call[c].process] = "byte"]
      <3>1. /\ CallsTyped' /\ call'[c].step = "await" /\ Same(c, call[c]) /\ call'[c].seen = call[c].seen
            /\ \A d \in Calls \ {c} : LaunchPlace(d)'
        BY <2>1, <2>3, Going DEF Launch!Steps
      <3>2. LaunchPlace(c)'
        BY <2>1, <2>3, <3>1 DEF LaunchPlace, Forked, Found, Same, Launch!Alive, LaunchWorld
      <3> QED
        BY <2>2, <3>1, <3>2
    <2>4. CASE Launch!Goto(c, "abort") /\ UNCHANGED lock /\ UNCHANGED gate
      <3>1. /\ CallsTyped' /\ call'[c].step = "abort" /\ Same(c, call[c]) /\ call'[c].seen = call[c].seen
            /\ \A d \in Calls \ {c} : LaunchPlace(d)'
        BY <2>1, <2>4, Going DEF Launch!Steps
      <3>2. LaunchPlace(c)'
        BY <2>1, <2>4, <3>1 DEF LaunchPlace, Forked, Found, Same, Launch!Alive, LaunchWorld
      <3> QED
        BY <2>2, <3>1, <3>2
    <2> QED
      BY <1>8, <2>1, <2>3, <2>4 DEF Launch!Release
  <1>9. ASSUME NEW c \in Calls, Launch!AwaitReady(c) PROVE LaunchInv'
    <2>1. call[c].step = "await" /\ UNCHANGED <<journal, proc, gate, socket, receipts>> /\ LaunchPlace(c)
      BY <1>9 DEF Launch!AwaitReady
    <2>2. LaunchWorld'
      BY <1>9, <2>1 DEF Launch!AwaitReady, LaunchWorld, Launch!Alive, Launch!NeverWedged, LaunchPlace, Forked, Found
    <2>3. CASE Launch!Goto(c, "ready") /\ UNCHANGED lock /\ Launch!Serves(call[c].process)
      <3>1. /\ CallsTyped' /\ call'[c].step = "ready" /\ Same(c, call[c]) /\ call'[c].seen = call[c].seen
            /\ \A d \in Calls \ {c} : LaunchPlace(d)'
        BY <2>1, <2>3, Going DEF Launch!Steps
      <3>2. LaunchPlace(c)'
        BY <2>1, <2>3, <3>1 DEF LaunchPlace, Forked, Found, Same, Launch!Alive, LaunchWorld, Launch!Serves
      <3> QED
        BY <2>2, <3>1, <3>2
    <2>4. CASE Launch!Goto(c, "abort") /\ UNCHANGED lock
      <3>1. /\ CallsTyped' /\ call'[c].step = "abort" /\ Same(c, call[c]) /\ call'[c].seen = call[c].seen
            /\ \A d \in Calls \ {c} : LaunchPlace(d)'
        BY <2>1, <2>4, Going DEF Launch!Steps
      <3>2. LaunchPlace(c)'
        BY <2>1, <2>4, <3>1 DEF LaunchPlace, Forked, Found, Same, Launch!Alive, LaunchWorld, Launch!Serves
      <3> QED
        BY <2>2, <3>1, <3>2
    <2> QED
      BY <1>9, <2>1, <2>3, <2>4 DEF Launch!AwaitReady
  <1>10. ASSUME NEW c \in Calls, Launch!MarkReady(c) PROVE LaunchInv'
    <2> DEFINE n == [phase |-> "ready", process |-> call[c].process]
    <2>1. call[c].step # "idle" /\ LaunchPlace(c) /\ UNCHANGED <<proc, gate, doomed, socket, receipts, gone, removals>>
      BY <1>10 DEF Launch!MarkReady
    <2>2. n \in Launch!Journals /\ Launch!Write(c, n, "commit")
      BY <1>10, <2>1 DEF Launch!MarkReady, Launch!Journals, Launch!Named, LaunchPlace, Forked, Found
    <2>3. /\ CallsTyped' /\ journal' \in {journal, n} /\ faults' \in 0 .. LaunchFaults
          /\ \A d \in Calls \ {c} : LaunchPlace(d)'
          /\ \/ LaunchPlace(c)'
             \/ journal' = n /\ call'[c].step = "commit" /\ Same(c, call[c]) /\ call'[c].seen = n
      BY <2>1, <2>2, Writing DEF Launch!Steps
    <2>4. LaunchPlace(c)'
      BY <1>10, <2>1, <2>3 DEF Launch!MarkReady, LaunchPlace, Forked, Found, Same, Launch!Alive
    <2>5. LaunchWorld'
      BY <1>10, <2>1, <2>2, <2>3, NoneIsNoLaunch DEF Launch!MarkReady, LaunchWorld, Launch!Alive, Launch!NeverWedged, LaunchPlace, Forked, Found
    <2> QED
      BY <2>3, <2>4, <2>5
  <1>11. ASSUME NEW c \in Calls, Launch!Commit(c) PROVE LaunchInv'
    <2>1. call[c].step = "commit" /\ UNCHANGED <<journal, proc, gate, socket>> /\ LaunchPlace(c)
      BY <1>11 DEF Launch!Commit, Launch!Return
    <2>2. LaunchWorld'
      BY <1>11, <2>1 DEF Launch!Commit, LaunchWorld, Launch!Alive, Launch!NeverWedged, LaunchPlace, Forked, Found, Launch!Return, Launch!Fault
    <2>3. CASE Launch!Finish(c)
      BY <2>1, <2>2, <2>3, Ending
    <2>4. CASE Launch!Goto(c, "fail") /\ UNCHANGED lock /\ UNCHANGED receipts
      <3>1. /\ CallsTyped' /\ call'[c].step = "fail" /\ Same(c, call[c]) /\ call'[c].seen = call[c].seen
            /\ \A d \in Calls \ {c} : LaunchPlace(d)'
        BY <2>1, <2>4, Going DEF Launch!Steps
      <3>2. LaunchPlace(c)'
        BY <2>1, <2>4, <3>1 DEF LaunchPlace, Forked, Found, Same, Launch!Alive, LaunchWorld
      <3> QED
        BY <2>2, <3>1, <3>2
    <2> QED
      BY <1>11, <2>1, <2>3, <2>4 DEF Launch!Commit, Launch!Return
  <1>12. ASSUME NEW c \in Calls, Launch!CommitFailed(c) PROVE LaunchInv'
    <2>1. call[c].step = "fail" /\ LaunchPlace(c)
      BY <1>12 DEF Launch!CommitFailed
    <2>2. LaunchWorld'
      BY <1>12, <2>1 DEF Launch!CommitFailed, LaunchWorld, Launch!Alive, Launch!NeverWedged, LaunchPlace, Forked, Found
    <2>3. CASE Launch!Finish(c)
      BY <2>1, <2>2, <2>3, Ending
    <2> QED
      BY <1>12, <2>1, <2>3 DEF Launch!CommitFailed
  <1>13. ASSUME NEW c \in Calls, Launch!Abort(c) PROVE LaunchInv'
    <2>1. call[c].step = "abort" /\ UNCHANGED <<journal, proc, receipts>> /\ LaunchPlace(c)
      BY <1>13 DEF Launch!Abort
    <2>2. LaunchWorld'
      BY <1>13, <2>1 DEF Launch!Abort, LaunchWorld, Launch!Alive, Launch!NeverWedged, LaunchPlace, Forked, Found
    <2>3. CASE Launch!Goto(c, "aborting") /\ UNCHANGED lock
      <3>1. /\ CallsTyped' /\ call'[c].step = "aborting" /\ Same(c, call[c]) /\ call'[c].seen = call[c].seen
            /\ \A d \in Calls \ {c} : LaunchPlace(d)'
        BY <2>1, <2>3, Going DEF Launch!Steps
      <3>2. LaunchPlace(c)'
        BY <2>1, <2>3, <3>1 DEF LaunchPlace, Forked, Found, Same, Launch!Alive, LaunchWorld
      <3> QED
        BY <2>2, <3>1, <3>2
    <2> QED
      BY <1>13, <2>1, <2>3 DEF Launch!Abort
  <1>14. ASSUME NEW c \in Calls, Launch!Aborted(c) PROVE LaunchInv'
    <2>1. call[c].step = "aborting" /\ LaunchPlace(c)
      BY <1>14 DEF Launch!Aborted
    <2>2. LaunchWorld'
      BY <1>14, <2>1 DEF Launch!Aborted, LaunchWorld, Launch!Alive, Launch!NeverWedged, LaunchPlace, Forked, Found
    <2>3. CASE Launch!Finish(c)
      BY <2>1, <2>2, <2>3, Ending
    <2> QED
      BY <1>14, <2>1, <2>3 DEF Launch!Aborted
  <1>15. ASSUME NEW c \in Calls, Launch!Present(c) PROVE LaunchInv'
    <2>1. call[c].step = "present" /\ UNCHANGED <<journal, proc, gate, socket, receipts>> /\ LaunchPlace(c)
      BY <1>15 DEF Launch!Present
    <2>2. LaunchWorld'
      BY <1>15, <2>1 DEF Launch!Present, LaunchWorld, Launch!Alive, Launch!NeverWedged, LaunchPlace, Forked, Found
    <2>3. CASE Launch!Goto(c, "adopt") /\ UNCHANGED lock /\ Launch!Alive(call[c].process)
      <3>1. /\ CallsTyped' /\ call'[c].step = "adopt" /\ Same(c, call[c]) /\ call'[c].seen = call[c].seen
            /\ \A d \in Calls \ {c} : LaunchPlace(d)'
        BY <2>1, <2>3, Going DEF Launch!Steps
      <3>2. LaunchPlace(c)'
        BY <2>1, <2>3, <3>1, Life DEF LaunchPlace, Forked, Found, Same, Launch!Alive, LaunchWorld
      <3> QED
        BY <2>2, <3>1, <3>2
    <2>4. CASE Launch!Goto(c, "cleanup") /\ UNCHANGED lock /\ ~Launch!Alive(call[c].process)
      <3>1. /\ CallsTyped' /\ call'[c].step = "cleanup" /\ Same(c, call[c]) /\ call'[c].seen = call[c].seen
            /\ \A d \in Calls \ {c} : LaunchPlace(d)'
        BY <2>1, <2>4, Going DEF Launch!Steps
      <3>2. LaunchPlace(c)'
        BY <2>1, <2>4, <3>1, Life DEF LaunchPlace, Forked, Found, Same, Launch!Alive, LaunchWorld
      <3> QED
        BY <2>2, <3>1, <3>2
    <2> QED
      BY <1>15, <2>1, <2>3, <2>4 DEF Launch!Present
  <1>16. ASSUME NEW c \in Calls, Launch!Adopt(c) PROVE LaunchInv'
    <2>1. call[c].step = "adopt" /\ UNCHANGED <<journal, proc, gate, socket, receipts>> /\ LaunchPlace(c)
      BY <1>16 DEF Launch!Adopt
    <2>2. LaunchWorld'
      BY <1>16, <2>1 DEF Launch!Adopt, LaunchWorld, Launch!Alive, Launch!NeverWedged, LaunchPlace, Forked, Found, Launch!Fault
    <2>3. CASE Launch!Goto(c, "confirm") /\ UNCHANGED lock /\ Launch!Serves(call[c].process)
      <3>1. /\ CallsTyped' /\ call'[c].step = "confirm" /\ Same(c, call[c]) /\ call'[c].seen = call[c].seen
            /\ \A d \in Calls \ {c} : LaunchPlace(d)'
        BY <2>1, <2>3, Going DEF Launch!Steps
      <3>2. LaunchPlace(c)'
        BY <2>1, <2>3, <3>1, NamingPhase DEF LaunchPlace, Forked, Found, Same, Launch!Alive, LaunchWorld, Launch!Serves
      <3> QED
        BY <2>2, <3>1, <3>2
    <2>4. CASE Launch!Goto(c, "return") /\ UNCHANGED lock /\ Launch!Serves(call[c].process) /\ call[c].seen.phase # "authorized"
      <3>1. /\ CallsTyped' /\ call'[c].step = "return" /\ Same(c, call[c]) /\ call'[c].seen = call[c].seen
            /\ \A d \in Calls \ {c} : LaunchPlace(d)'
        BY <2>1, <2>4, Going DEF Launch!Steps
      <3>2. LaunchPlace(c)'
        BY <2>1, <2>4, <3>1, NamingPhase DEF LaunchPlace, Forked, Found, Same, Launch!Alive, LaunchWorld, Launch!Serves
      <3> QED
        BY <2>2, <3>1, <3>2
    <2>5. CASE Launch!Goto(c, "kill") /\ UNCHANGED lock
      <3>1. /\ CallsTyped' /\ call'[c].step = "kill" /\ Same(c, call[c]) /\ call'[c].seen = call[c].seen
            /\ \A d \in Calls \ {c} : LaunchPlace(d)'
        BY <2>1, <2>5, Going DEF Launch!Steps
      <3>2. LaunchPlace(c)'
        BY <2>1, <2>5, <3>1, NamingPhase DEF LaunchPlace, Forked, Found, Same, Launch!Alive, LaunchWorld, Launch!Serves
      <3> QED
        BY <2>2, <3>1, <3>2
    <2>6. CASE Launch!Finish(c)
      BY <2>1, <2>2, <2>6, Ending
    <2> QED
      BY <1>16, <2>1, <2>3, <2>4, <2>5, <2>6 DEF Launch!Adopt
  <1>17. ASSUME NEW c \in Calls, Launch!Confirm(c) PROVE LaunchInv'
    <2> DEFINE n == [phase |-> "ready", process |-> call[c].process]
    <2>1. call[c].step # "idle" /\ LaunchPlace(c) /\ UNCHANGED <<proc, gate, doomed, socket, receipts, gone, removals>>
      BY <1>17 DEF Launch!Confirm
    <2>2. n \in Launch!Journals /\ Launch!Write(c, n, "return")
      BY <1>17, <2>1 DEF Launch!Confirm, Launch!Journals, Launch!Named, LaunchPlace, Forked, Found
    <2>3. /\ CallsTyped' /\ journal' \in {journal, n} /\ faults' \in 0 .. LaunchFaults
          /\ \A d \in Calls \ {c} : LaunchPlace(d)'
          /\ \/ LaunchPlace(c)'
             \/ journal' = n /\ call'[c].step = "return" /\ Same(c, call[c]) /\ call'[c].seen = n
      BY <2>1, <2>2, Writing DEF Launch!Steps
    <2>4. LaunchPlace(c)'
      BY <1>17, <2>1, <2>3 DEF Launch!Confirm, LaunchPlace, Forked, Found, Same, Launch!Alive
    <2>5. LaunchWorld'
      BY <1>17, <2>1, <2>2, <2>3, NoneIsNoLaunch DEF Launch!Confirm, LaunchWorld, Launch!Alive, Launch!NeverWedged, LaunchPlace, Forked, Found
    <2> QED
      BY <2>3, <2>4, <2>5
  <1>18. ASSUME NEW c \in Calls, Launch!Adopted(c) PROVE LaunchInv'
    <2>1. call[c].step = "return" /\ LaunchPlace(c)
      BY <1>18 DEF Launch!Adopted, Launch!Return
    <2>2. LaunchWorld'
      BY <1>18, <2>1 DEF Launch!Adopted, LaunchWorld, Launch!Alive, Launch!NeverWedged, LaunchPlace, Forked, Found, Launch!Return
    <2>3. CASE Launch!Finish(c)
      BY <2>1, <2>2, <2>3, Ending
    <2> QED
      BY <1>18, <2>1, <2>3 DEF Launch!Adopted, Launch!Return
  <1>19. ASSUME NEW c \in Calls, Launch!AwaitAbsent(c) PROVE LaunchInv'
    <2>1. call[c].step = "kill" /\ ~Launch!Alive(call[c].process) /\ UNCHANGED <<journal, proc, gate, socket, receipts>> /\ LaunchPlace(c)
      BY <1>19 DEF Launch!AwaitAbsent
    <2>2. LaunchWorld'
      BY <1>19, <2>1 DEF Launch!AwaitAbsent, LaunchWorld, Launch!Alive, Launch!NeverWedged, LaunchPlace, Forked, Found
    <2>3. CASE Launch!Goto(c, "cleanup") /\ UNCHANGED lock
      <3>1. /\ CallsTyped' /\ call'[c].step = "cleanup" /\ Same(c, call[c]) /\ call'[c].seen = call[c].seen
            /\ \A d \in Calls \ {c} : LaunchPlace(d)'
        BY <2>1, <2>3, Going DEF Launch!Steps
      <3>2. LaunchPlace(c)'
        BY <2>1, <2>3, <3>1, Life DEF LaunchPlace, Forked, Found, Same, Launch!Alive, LaunchWorld
      <3> QED
        BY <2>2, <3>1, <3>2
    <2> QED
      BY <1>19, <2>1, <2>3 DEF Launch!AwaitAbsent
  <1>20. ASSUME NEW c \in Calls, Launch!CleanupSocket(c) PROVE LaunchInv'
    <2>1. call[c].step = "cleanup" /\ socket' = None /\ UNCHANGED <<journal, proc, gate, receipts>> /\ LaunchPlace(c)
      BY <1>20 DEF Launch!CleanupSocket
    <2>2. LaunchWorld'
      BY <1>20, <2>1 DEF Launch!CleanupSocket, LaunchWorld, Launch!Alive, Launch!NeverWedged, LaunchPlace, Forked, Found
    <2>3. CASE Launch!Goto(c, "reset") /\ UNCHANGED lock /\ call[c].op = "ensure"
      <3>1. /\ CallsTyped' /\ call'[c].step = "reset" /\ Same(c, call[c]) /\ call'[c].seen = call[c].seen
            /\ \A d \in Calls \ {c} : LaunchPlace(d)'
        BY <2>1, <2>3, Going DEF Launch!Steps
      <3>2. LaunchPlace(c)'
        BY <2>1, <2>3, <3>1 DEF LaunchPlace, Forked, Found, Same, Launch!Alive, LaunchWorld
      <3> QED
        BY <2>2, <3>1, <3>2
    <2>4. CASE Launch!Finish(c)
      BY <2>1, <2>2, <2>4, Ending
    <2> QED
      BY <1>20, <2>1, <2>3, <2>4 DEF Launch!CleanupSocket
  <1>21. ASSUME NEW c \in Calls, Launch!Reset(c) PROVE LaunchInv'
    <2> DEFINE n == [phase |-> "intent", process |-> None]
    <2>1. call[c].step # "idle" /\ LaunchPlace(c) /\ UNCHANGED <<proc, gate, doomed, socket, receipts, gone, removals>>
      BY <1>21 DEF Launch!Reset
    <2>2. n \in Launch!Journals /\ Launch!Write(c, n, "drain")
      BY <1>21, <2>1 DEF Launch!Reset, Launch!Journals, Launch!Named, LaunchPlace, Forked, Found
    <2>3. /\ CallsTyped' /\ journal' \in {journal, n} /\ faults' \in 0 .. LaunchFaults
          /\ \A d \in Calls \ {c} : LaunchPlace(d)'
          /\ \/ LaunchPlace(c)'
             \/ journal' = n /\ call'[c].step = "drain" /\ Same(c, call[c]) /\ call'[c].seen = n
      BY <2>1, <2>2, Writing DEF Launch!Steps
    <2>4. LaunchPlace(c)'
      BY <1>21, <2>1, <2>3 DEF Launch!Reset, LaunchPlace, Forked, Found, Same, Launch!Alive
    <2>5. LaunchWorld'
      BY <1>21, <2>1, <2>2, <2>3, NoneIsNoLaunch DEF Launch!Reset, LaunchWorld, Launch!Alive, Launch!NeverWedged, LaunchPlace, Forked, Found
    <2> QED
      BY <2>3, <2>4, <2>5
  <1>22. ASSUME NEW c \in Calls, Launch!Restore(c) PROVE LaunchInv'
    <2>1. call[c].step = "restore" /\ UNCHANGED <<journal, proc, gate, socket, receipts>> /\ LaunchPlace(c)
      BY <1>22 DEF Launch!Restore
    <2>2. LaunchWorld'
      BY <1>22, <2>1 DEF Launch!Restore, LaunchWorld, Launch!Alive, Launch!NeverWedged, LaunchPlace, Forked, Found
    <2>3. CASE Launch!Goto(c, "cleanup") /\ UNCHANGED lock /\ ~Launch!Alive(call[c].process)
      <3>1. /\ CallsTyped' /\ call'[c].step = "cleanup" /\ Same(c, call[c]) /\ call'[c].seen = call[c].seen
            /\ \A d \in Calls \ {c} : LaunchPlace(d)'
        BY <2>1, <2>3, Going DEF Launch!Steps
      <3>2. LaunchPlace(c)'
        BY <2>1, <2>3, <3>1, Life DEF LaunchPlace, Forked, Found, Same, Launch!Alive, LaunchWorld
      <3> QED
        BY <2>2, <3>1, <3>2
    <2>4. CASE Launch!Goto(c, "kill") /\ UNCHANGED lock
      <3>1. /\ CallsTyped' /\ call'[c].step = "kill" /\ Same(c, call[c]) /\ call'[c].seen = call[c].seen
            /\ \A d \in Calls \ {c} : LaunchPlace(d)'
        BY <2>1, <2>4, Going DEF Launch!Steps
      <3>2. LaunchPlace(c)'
        BY <2>1, <2>4, <3>1, Life DEF LaunchPlace, Forked, Found, Same, Launch!Alive, LaunchWorld
      <3> QED
        BY <2>2, <3>1, <3>2
    <2> QED
      BY <1>22, <2>1, <2>3, <2>4 DEF Launch!Restore
  <1>23. ASSUME NEW c \in Calls, Launch!Fail(c) PROVE LaunchInv'
    <2>1. call[c].step # "idle" /\ LaunchPlace(c)
      BY <1>23 DEF Launch!Fail
    <2>2. LaunchWorld'
      BY <1>23, <2>1 DEF Launch!Fail, LaunchWorld, Launch!Alive, Launch!NeverWedged, LaunchPlace, Forked, Found, Launch!Fault
    <2>3. CASE Launch!Abandon(c)
      <3>1. UNCHANGED <<proc, receipts>>
        BY <1>23 DEF Launch!Fail
      <3> QED
        BY <2>1, <2>2, <2>3, <3>1, Abandoning
    <2> QED
      BY <1>23, <2>1, <2>3 DEF Launch!Fail
  <1>24. ASSUME NEW c \in Calls, NEW p \in receipts, Launch!Remove(c, p) PROVE LaunchInv'
    <2>1. /\ lock = None /\ lock' = c /\ \A d \in Calls : call[d] = Launch!Idle
          /\ p \in Launch!Launches /\ journal.process = p /\ journal.phase = "ready"
      BY <1>24 DEF Launch!Remove, Launch!Locked, Launch!Bound, CallsTyped, LaunchWorld
    <2> DEFINE r == [Launch!Idle EXCEPT !.step = "restore", !.op = "remove", !.asked = p, !.process = Launch!Bound(p)]
    <2>2. r \in CallRec /\ r.step = "restore" /\ r.op = "remove" /\ r.asked = p /\ r.process = p
      BY <2>1 DEF CallRec, Launch!Idle, Launch!Steps, Launch!Journals, Launch!Bound
    <2>3. CallsTyped' /\ call'[c] = r /\ \A d \in Calls \ {c} : call'[d] = Launch!Idle
      BY <1>24, <2>1, <2>2 DEF Launch!Remove, CallsTyped
    <2>4. LaunchWorld'
      BY <1>24 DEF Launch!Remove, LaunchWorld, Launch!Alive, Launch!NeverWedged
    <2>5. LaunchPlace(c)'
      BY <1>24, <2>1, <2>2, <2>3 DEF Launch!Remove, LaunchPlace, Forked, Found
    <2> QED
      BY <2>3, <2>4, <2>5, IdlePlace
  <1>25. ASSUME NEW c \in Calls, NEW p \in receipts, Launch!RemoveUnbound(c, p) PROVE LaunchInv'
    <2>1. CallsTyped' /\ \A d \in Calls : LaunchPlace(d)'
      BY <1>25 DEF Launch!RemoveUnbound, CallsTyped, LaunchPlace, Launch!Alive
    <2>2. LaunchWorld'
      <3>1. p \in Launch!Launches /\ proc[p] = "dead"
        BY <1>25, NoneIsNoLaunch, Life DEF Launch!RemoveUnbound, Launch!Bound, LaunchWorld
      <3> QED
        BY <1>25, <3>1 DEF Launch!RemoveUnbound, LaunchWorld, Launch!Alive, Launch!NeverWedged
    <2> QED
      BY <2>1, <2>2
  <1>26. ASSUME NEW p \in Launch!Launches, Launch!Pass(p) PROVE LaunchInv'
    <2> USE DEF Launch!Pass, Launch!Dies, Launch!Rest, Launch!Alive
    <2>1. CallsTyped'
      BY <1>26 DEF CallsTyped
    <2>2. LaunchWorld'
      BY <1>26 DEF LaunchWorld, Launch!NeverWedged, Launch!Fault
    <2>3. \A d \in Calls : LaunchPlace(d)'
      BY <1>26 DEF LaunchWorld, LaunchPlace, Forked, Found
    <2> QED
      BY <2>1, <2>2, <2>3
  <1>27. ASSUME NEW p \in Launch!Launches, Launch!Bind(p) PROVE LaunchInv'
    <2> USE DEF Launch!Bind, Launch!Dies, Launch!Rest, Launch!Alive
    <2>1. CallsTyped'
      BY <1>27 DEF CallsTyped
    <2>2. LaunchWorld'
      BY <1>27 DEF LaunchWorld, Launch!NeverWedged, Launch!Fault
    <2>3. \A d \in Calls : LaunchPlace(d)'
      BY <1>27 DEF LaunchWorld, LaunchPlace, Forked, Found
    <2> QED
      BY <2>1, <2>2, <2>3
  <1>28. ASSUME NEW p \in Launch!Launches, Launch!Killed(p) PROVE LaunchInv'
    <2> USE DEF Launch!Killed, Launch!Dies, Launch!Rest, Launch!Alive
    <2>1. CallsTyped'
      BY <1>28 DEF CallsTyped
    <2>2. LaunchWorld'
      BY <1>28 DEF LaunchWorld, Launch!NeverWedged, Launch!Fault
    <2>3. \A d \in Calls : LaunchPlace(d)'
      BY <1>28 DEF LaunchWorld, LaunchPlace, Forked, Found
    <2> QED
      BY <2>1, <2>2, <2>3
  <1>29. ASSUME NEW p \in Launch!Launches, Launch!Exit(p) PROVE LaunchInv'
    <2> USE DEF Launch!Exit, Launch!Dies, Launch!Rest, Launch!Alive
    <2>1. CallsTyped'
      BY <1>29 DEF CallsTyped
    <2>2. LaunchWorld'
      BY <1>29 DEF LaunchWorld, Launch!NeverWedged, Launch!Fault
    <2>3. \A d \in Calls : LaunchPlace(d)'
      BY <1>29 DEF LaunchWorld, LaunchPlace, Forked, Found
    <2> QED
      BY <2>1, <2>2, <2>3
  <1>30. CASE Launch!Crash
    <2>1. Launch!Idle \in CallRec
      BY DEF CallRec, Launch!Idle, Launch!Steps, Launch!Journals
    <2>2. CallsTyped' /\ \A d \in Calls : call'[d] = Launch!Idle
      BY <1>30, <2>1 DEF Launch!Crash, CallsTyped
    <2>3. LaunchWorld'
      BY <1>30 DEF Launch!Crash, LaunchWorld, Launch!Alive, Launch!NeverWedged, Launch!Fault
    <2> QED
      BY <2>2, <2>3, IdlePlace
  <1>31. CASE UNCHANGED launchVars
    BY <1>31 DEF launchVars, CallsTyped, LaunchWorld, LaunchPlace, Launch!Alive, Launch!NeverWedged
  <1> QED
    BY <1>1, <1>2, <1>3, <1>4, <1>5, <1>6, <1>7, <1>8, <1>9, <1>10, <1>11, <1>12, <1>13, <1>14, <1>15, <1>16, <1>17, <1>18, <1>19, <1>20, <1>21, <1>22, <1>23, <1>24, <1>25, <1>26, <1>27, <1>28, <1>29, <1>30, <1>31 DEF Launch!Next, Launch!Step, Launch!Launch, Launch!Recover,
        Launch!Relaunch, Launch!Progress, launchVars

\* A step of the suite is one of the launch journal, or leaves it alone.
LEMMA SuiteLaunchStep == Next => [Launch!Next]_launchVars
  BY DEF Next

\* The invariant of the launch journal does.
LEMMA LaunchInvariant == Spec => []LaunchInv
  <1>1. ASSUME Init PROVE LaunchInv
    <2> USE <1>1, ProcessesAssumption, NoneIsNoLaunch DEF ProcessesAssumption, Launch!LaunchAssumption, Init, Launch!Init
    <2>1. Launch!Idle \in CallRec
      BY DEF CallRec, Launch!Idle, Launch!Steps, Launch!Journals
    <2>2. CallsTyped /\ \A c \in Calls : LaunchPlace(c)
      BY <2>1 DEF CallsTyped, LaunchPlace, Launch!Idle, Forked, Found
    <2>3. LaunchWorld
      BY DEF LaunchWorld, Launch!Journals, Launch!Alive, Launch!NeverWedged
    <2> QED
      BY <2>2, <2>3 DEF LaunchInv
  <1>2. LaunchInv /\ [Next]_vars => LaunchInv'
    BY LaunchStep, SuiteLaunchStep, ProcessesAssumption DEF vars
  <1> QED
    BY <1>1, <1>2, PTL DEF Spec

\* The cardinality of the instance is that of the module FiniteSets.
LEMMA LaunchCardinality == \A S : Launch!Cardinality(S) = Cardinality(S)
  BY DEF Cardinality, Launch!Cardinality, IsFiniteSet, Launch!IsFiniteSet

\* launcher_journal.go: whatever faults, timeouts, crashes and removals there are,
\* what serves is named by the journal, one process at most lives in the leaf of an
\* owner, no socket is left to refuse every later launch, and what a removal
\* reported absent is dead.
THEOREM LaunchAccounted == Spec => []LaunchIsAccounted
  <1>1. ASSUME LaunchInv PROVE LaunchIsAccounted
    <2> USE <1>1 DEF LaunchInv, LaunchWorld
    <2>1. Launch!TypeOK
      BY DEF CallsTyped, CallRec, Launch!TypeOK
    <2>2. Cardinality(Launch!Leaf) \in {0, 1}
      <3>1. CASE Launch!Leaf = {}
        BY <3>1, FS_EmptySet
      <3>2. CASE Launch!Leaf # {}
        <4>1. PICK p \in Launch!Leaf : TRUE
          BY <3>2
        <4>2. Launch!Leaf = {p}
          BY <4>1 DEF Launch!Leaf
        <4> QED
          BY <4>2, FS_Singleton
      <3> QED
        BY <3>1, <3>2
    <2>3. Launch!OneInLeaf
      BY <2>2, LaunchCardinality DEF Launch!OneInLeaf
    <2>4. Launch!RunnerIsNamed /\ Launch!RemovedIsDead
      BY DEF Launch!RunnerIsNamed, Launch!RemovedIsDead, Launch!Alive
    <2> QED
      BY <2>1, <2>3, <2>4 DEF LaunchIsAccounted
  <1> QED
    BY <1>1, LaunchInvariant, PTL

\* A receipt is returned only by Commit and by the end of an adoption.
LEMMA Returning ==
    ASSUME LaunchInv, ProcessesAssumption, [Launch!Next]_launchVars, NEW p \in receipts' \ receipts
    PROVE  journal = [phase |-> "ready", process |-> p]
  <1> USE DEF Launch!answers, Launch!kernel, Launch!Rest
  <1>1. PICK c \in Calls : call[c].step \in {"commit", "return"} /\ p = call[c].process
    BY ZenonT(60) DEF Launch!Next, Launch!Step, Launch!Launch, Launch!Recover, Launch!Relaunch, Launch!Progress, launchVars,
        Launch!Ensure, Launch!EnsureIntent, Launch!RequireSocketAbsent, Launch!AwaitEmptyLeaf, Launch!Fork,
        Launch!Attach, Launch!Authorize, Launch!Release, Launch!AwaitReady, Launch!MarkReady, Launch!Commit,
        Launch!CommitFailed, Launch!Abort, Launch!Aborted, Launch!Present, Launch!Adopt, Launch!Confirm,
        Launch!Adopted, Launch!AwaitAbsent, Launch!CleanupSocket, Launch!Reset, Launch!Restore, Launch!Fail,
        Launch!Remove, Launch!RemoveUnbound, Launch!Pass, Launch!Bind, Launch!Killed, Launch!Exit, Launch!Crash,
        Launch!Return, Launch!At
  <1>2. journal.process = p /\ journal.phase = "ready" /\ journal \in Launch!Journals
    BY <1>1 DEF LaunchInv, LaunchPlace, LaunchWorld, Found
  <1> QED
    BY <1>2 DEF Launch!Journals

\* A call of Ensure gives a process back only while the journal holds it as ready,
\* so that every later call adopts it.
THEOREM ReturnedReady == Spec => Launch!ReturnedIsReady
  <1>1. LaunchInv /\ [Next]_vars => [\A p \in receipts' \ receipts : journal = [phase |-> "ready", process |-> p]]_launchVars
    BY Returning, SuiteLaunchStep, ProcessesAssumption DEF vars
  <1> QED
    BY <1>1, LaunchInvariant, PTL DEF Spec, Launch!ReturnedIsReady, Launch!vars, launchVars

\* A signal is sent by a failed Commit, by Abort, to a process that is adopted and
\* not ready, and by Remove.
LEMMA Dooming ==
    ASSUME LaunchInv, ProcessesAssumption, [Launch!Next]_launchVars, NEW p \in receipts, p \in doomed' \ doomed
    PROVE  \E c \in Calls : call[c].op = "remove" /\ call[c].asked = p
  <1> USE DEF Launch!answers, Launch!kernel, Launch!Rest, Launch!Dies
  <1>1. PICK c \in Calls :
           /\ p = call[c].process
           /\ \/ call[c].step \in {"commit", "abort", "restore"}
              \/ call[c].step = "adopt" /\ call[c].seen.phase = "authorized"
    BY ZenonT(60) DEF Launch!Next, Launch!Step, Launch!Launch, Launch!Recover, Launch!Relaunch, Launch!Progress, launchVars,
        Launch!Ensure, Launch!EnsureIntent, Launch!RequireSocketAbsent, Launch!AwaitEmptyLeaf, Launch!Fork,
        Launch!Attach, Launch!Authorize, Launch!Release, Launch!AwaitReady, Launch!MarkReady, Launch!Commit,
        Launch!CommitFailed, Launch!Abort, Launch!Aborted, Launch!Present, Launch!Adopt, Launch!Confirm,
        Launch!Adopted, Launch!AwaitAbsent, Launch!CleanupSocket, Launch!Reset, Launch!Restore, Launch!Fail,
        Launch!Remove, Launch!RemoveUnbound, Launch!Pass, Launch!Bind, Launch!Killed, Launch!Exit, Launch!Crash,
        Launch!Return, Launch!At
  <1>2. LaunchPlace(c) /\ (journal.process = p => journal.phase = "ready")
    BY DEF LaunchInv, LaunchWorld
  <1> QED
    BY <1>1, <1>2 DEF LaunchPlace, Forked, Found

\* What Ensure has returned loses its process by a removal that was asked for it,
\* never by the abort of another launch or by a recovery.
THEOREM ReturnedSpared == Spec => Launch!ReturnedIsSpared
  <1>1. LaunchInv /\ [Next]_vars =>
          [\A p \in receipts \cap (doomed' \ doomed) :
             \E c \in Calls : call[c].op = "remove" /\ call[c].asked = p]_launchVars
    BY Dooming, SuiteLaunchStep, ProcessesAssumption DEF vars
  <1> QED
    BY <1>1, LaunchInvariant, PTL DEF Spec, Launch!ReturnedIsSpared, Launch!vars, launchVars

-----------------------------------------------------------------------------
(* The identity of a process.                                                *)

\* Those of the component.
Born == Identity!Born
Running(p) == Identity!Running(p)
Exists(p) == Identity!Exists(p)

\* The steps that read procfs, the ones that judge what was read, and the ones that
\* send a signal.
Readings == {"stat", "cgroup", "exe"}
Judging == {"same", "image", "present", "recheck"}
Acting == {"deliver", "kill"}

\* The readings follow one another, what is read is judged before another thing
\* is done, and a signal is sent next to the judgement.
Ordered(todo) ==
    \A j \in 1 .. Len(todo) :
       /\ todo[j] = "stat" => j + 2 <= Len(todo) /\ todo[j + 1] = "cgroup" /\ todo[j + 2] = "exe"
       /\ todo[j] = "cgroup" => j + 1 <= Len(todo) /\ todo[j + 1] = "exe"
       /\ j > 1 /\ todo[j] = "cgroup" => todo[j - 1] = "stat"
       /\ j > 1 /\ todo[j] = "exe" => todo[j - 1] = "cgroup"
       /\ j > 1 /\ todo[j] \in Judging => todo[j - 1] = "exe"
       /\ j > 1 /\ todo[j] \in Acting => todo[j - 1] = "same"

\* The next close, if there is one.
ClosesAfter(todo, j) ==
    \E k \in (j + 1) .. Len(todo) : todo[k] = "close" /\ \A i \in (j + 1) .. (k - 1) : todo[i] # "close"

\* A call that finds its process present closes the probe.
Probed(todo) == \A j \in 1 .. Len(todo) : todo[j] = "present" => ClosesAfter(todo, j)

\* Only a launch takes the evidence it reads, before it verifies it.
Captured(todo) ==
    \A j \in 1 .. Len(todo) : todo[j] = "image" =>
       /\ j + 1 <= Len(todo) /\ todo[j + 1] = "live"
       /\ \A i \in 1 .. (j - 1) : todo[i] \in Readings \cup {"bound"}

\* The steps of a launch, and those of a signal or a removal.
LaunchSteps == Identity!Steps \ {"present", "recheck", "open", "deliver", "kill", "exit"}
OtherSteps == Identity!Steps \ {"image", "save"}

\* What a call has left to do.
Program(c) ==
    LET todo == calls[c].todo
    IN /\ todo \in Seq(Identity!Steps)
       /\ Ordered(todo) /\ Probed(todo) /\ Captured(todo)
       /\ calls[c].op = None => todo = <<>>
       /\ calls[c].op = "launch" => todo \in Seq(LaunchSteps)
       /\ calls[c].op # "launch" => todo \in Seq(OtherSteps)
       /\ calls[c].probing => ClosesAfter(todo, 0)

\* Two processes are never alike, one of them holds a PID, and who lives was born
\* since the last boot.
HostInv ==
    /\ boot \in 0 .. MaxReboots /\ replacements \in 0 .. MaxReplacements
    /\ \E n \in 0 .. MaxBirths :
          /\ tick \in 0 .. n
          /\ \A p \in Identity!Processes : process[p] # None <=> p <= n
    /\ process \in [Identity!Processes -> Identity!Records \cup {None}]
    /\ \A p \in Born : Exists(p) => process[p].boot = boot
    /\ \A p \in Born : process[p].boot <= boot /\ (process[p].boot = boot => process[p].start <= tick)
    /\ \A p, q \in Born : process[p].boot = process[q].boot /\ process[p].start = process[q].start => p = q
    /\ \A p, q \in Born : Exists(p) /\ Exists(q) /\ process[p].pid = process[q].pid => p = q

\* The types of a call and of what it holds open.
CallRecords ==
    [op : {None, "launch", "signal", "remove"}, todo : Seq(Identity!Steps), of : Identity!Processes \cup {None},
     leaf : Leaves \cup {None}, ev : Identity!Evidences, got : Identity!Evidences \cup {Identity!Gone, Identity!Unreadable},
     probing : BOOLEAN, verdict : {None, "error", "absent", "removed", "done"}, hit : Identity!Processes \cup {None}]

Descriptors == [handle : Identity!Processes \cup {None}, probe : Identity!Processes \cup {None}]

\* The evidence is that of the process; its executable is the shim, unless it was replaced.
Names(ev, p) ==
    ev.pid = process[p].pid /\ ev.boot = process[p].boot /\ ev.start = process[p].start /\ ev.leaf = process[p].leaf
IsShim(p) == replacements = 0 => process[p].exe = Identity!Shim

\* A reference names the process of which it was kept.
SavedInv ==
    /\ saved \subseteq Identity!References
    /\ \A r \in saved :
          r.of \in Born /\ Names(r.ev, r.of) /\ r.ev.exe = Identity!Shim /\ r.ev.leaf = r.leaf /\ IsShim(r.of)

\* What a call knows of its process.
Knows(c) ==
    LET k == calls[c] IN
    /\ k.op # None => k.of \in Born /\ IsShim(k.of) /\ k.ev.pid = process[k.of].pid
    /\ k.op \in {"signal", "remove"} => Names(k.ev, k.of) /\ k.ev.exe = Identity!Shim
    /\ k.op = "launch" =>
          /\ fds[c].handle = k.of /\ fds[c].probe = None /\ ~k.probing
          /\ k.leaf \in Leaves /\ process[k.of].leaf = k.leaf
          /\ k.ev.start # 0 => k.ev.exe = Identity!Shim
          /\ k.ev.start # 0 /\ Exists(k.of) => Names(k.ev, k.of)
          /\ k.ev.start # 0 /\ ~Names(k.ev, k.of) => Identity!At(c, "live")
          /\ k.ev.start = 0 => \E i \in 1 .. Len(k.todo) : k.todo[i] = "image"
    /\ k.hit \in {None, k.of}
    /\ k.verdict \in {"absent", "removed"} => k.of \in Born /\ (replacements = 0 => ~Running(k.of))
    /\ fds[c].handle # None => k.op # None
    /\ fds[c].probe # None => k.probing
    /\ k.op # None /\ Exists(k.of) => {fds[c].handle, fds[c].probe} \subseteq {k.of, None}

\* What the readings of a call say of its process, and of its descriptor.
Failed == {Identity!Gone, Identity!Unreadable}
Tells(c) ==
    LET k == calls[c]
        p == k.of
        at == Head(k.todo)
    IN k.todo # <<>> =>
          /\ at \in {"cgroup", "exe"} => k.got \in Identity!Evidences
          /\ at \in {"cgroup", "exe"} \cup Judging /\ k.got \notin Failed => k.got.pid = k.ev.pid /\ k.got.start # 0
          /\ at \in {"cgroup", "exe"} \cup Judging /\ k.got \notin Failed /\ Exists(p) =>
                /\ k.got.boot = process[p].boot /\ k.got.start = process[p].start
                /\ at # "cgroup" => k.got.leaf = process[p].leaf
          /\ at \in {"cgroup", "exe"} \cup Judging /\ k.op # "launch"
                /\ k.got.boot = k.ev.boot /\ k.got.start = k.ev.start => Identity!Fd(c) \in {None, p}
          /\ at \in Judging /\ k.op # "launch" /\ replacements = 0 /\ Running(p) =>
                k.got \in {k.ev, Identity!Unreadable}
          /\ at \in Acting => Identity!Fd(c) \in {None, p}

\* The inductive invariant: the host, the journals and every call are in order.
IdentityInv ==
    /\ HostInv /\ SavedInv /\ misses \in 0 .. IdentityFaults /\ calls \in [Callers -> CallRecords]
    /\ fds \in [Callers -> Descriptors]
    /\ \A c \in Callers : Program(c) /\ Knows(c) /\ Tells(c)

\* What follows a step of a program is in the same order.
LEMMA SuffixProgram ==
    ASSUME NEW S, NEW todo \in Seq(S), NEW n \in 0 .. Len(todo)
    PROVE  LET rest == SubSeq(todo, n + 1, Len(todo))
           IN /\ rest \in Seq(S) /\ Len(rest) = Len(todo) - n /\ \A i \in 1 .. Len(rest) : rest[i] = todo[n + i]
              /\ Ordered(todo) => Ordered(rest)
              /\ Probed(todo) => Probed(rest)
              /\ Captured(todo) => Captured(rest)
  <1> DEFINE rest == SubSeq(todo, n + 1, Len(todo))
  <1>1. rest \in Seq(S) /\ Len(rest) = Len(todo) - n /\ \A i \in 1 .. Len(rest) : rest[i] = todo[n + i]
    OBVIOUS
  <1> HIDE DEF rest
  <1>2. Ordered(todo) => Ordered(rest)
    <2> SUFFICES ASSUME Ordered(todo), NEW j \in 1 .. Len(rest)
                 PROVE  /\ rest[j] = "stat" => j + 2 <= Len(rest) /\ rest[j + 1] = "cgroup" /\ rest[j + 2] = "exe"
                        /\ rest[j] = "cgroup" => j + 1 <= Len(rest) /\ rest[j + 1] = "exe"
                        /\ j > 1 /\ rest[j] = "cgroup" => rest[j - 1] = "stat"
                        /\ j > 1 /\ rest[j] = "exe" => rest[j - 1] = "cgroup"
                        /\ j > 1 /\ rest[j] \in Judging => rest[j - 1] = "exe"
                        /\ j > 1 /\ rest[j] \in Acting => rest[j - 1] = "same"
      BY DEF Ordered
    <2>1. n + j \in 1 .. Len(todo) /\ rest[j] = todo[n + j] /\ Len(todo) \in Nat /\ n \in Nat /\ Len(rest) = Len(todo) - n
      BY <1>1
    <2>2. j > 1 => rest[j - 1] = todo[(n + j) - 1] /\ n + j > 1
      BY <1>1
    <2>3. j + 1 <= Len(rest) => rest[j + 1] = todo[(n + j) + 1]
      BY <1>1
    <2>4. j + 2 <= Len(rest) => rest[j + 2] = todo[(n + j) + 2]
      BY <1>1
    <2> HIDE <1>1
    <2> QED
      BY <2>1, <2>2, <2>3, <2>4 DEF Ordered
  <1>3. ASSUME Probed(todo), NEW j \in 1 .. Len(rest), rest[j] = "present" PROVE ClosesAfter(rest, j)
    <2>1. PICK k \in (n + j + 1) .. Len(todo) :
             todo[k] = "close" /\ \A i \in (n + j + 1) .. (k - 1) : todo[i] # "close"
      <3>1. n + j \in 1 .. Len(todo) /\ todo[n + j] = "present"
        BY <1>1, <1>3
      <3> QED
        BY <1>3, <3>1 DEF Probed, ClosesAfter
    <2>2. k - n \in (j + 1) .. Len(rest) /\ rest[k - n] = "close"
      BY <1>1, <2>1
    <2>3. \A i \in (j + 1) .. (k - n - 1) : rest[i] # "close"
      BY <1>1, <2>1, SMTT(40)
    <2> QED
      BY <2>2, <2>3 DEF ClosesAfter
  <1>4. ASSUME Captured(todo), NEW j \in 1 .. Len(rest), rest[j] = "image"
        PROVE  /\ j + 1 <= Len(rest) /\ rest[j + 1] = "live"
               /\ \A i \in 1 .. (j - 1) : rest[i] \in Readings \cup {"bound"}
    <2>1. n + j \in 1 .. Len(todo) /\ todo[n + j] = "image" /\ n + j \in Nat /\ n \in Nat /\ j \in Nat
      BY <1>1, <1>4
    <2>2. n + j + 1 <= Len(todo) /\ todo[(n + j) + 1] = "live"
          /\ \A i \in 1 .. ((n + j) - 1) : todo[i] \in Readings \cup {"bound"}
      BY <1>4, <2>1 DEF Captured
    <2>3. j + 1 <= Len(rest) /\ rest[j + 1] = "live"
      BY <1>1, <2>1, <2>2
    <2>4. ASSUME NEW i \in 1 .. (j - 1) PROVE rest[i] \in Readings \cup {"bound"}
      <3>1. i \in 1 .. Len(rest) /\ n + i \in 1 .. ((n + j) - 1)
        BY <1>1, <1>4, <2>1
      <3> QED
        BY <1>1, <2>2, <3>1
    <2> QED
      BY <2>3, <2>4
  <1> QED
    BY <1>1, <1>2, <1>3, <1>4 DEF Probed, Captured, rest

\* What a program may begin with.
Opening == {"stat", "open", "live", "members", "exit", "bound"}

\* One program after another.
LEMMA JoinedProgram ==
    ASSUME NEW S, NEW s \in Seq(S), NEW t \in Seq(S), t # <<>>,
           \/ t[1] \in Opening \cup {"close", "save"}
           \/ t[1] \in Acting /\ s # <<>> /\ s[Len(s)] = "same"
           \/ t[1] \in Judging /\ s # <<>> /\ s[Len(s)] = "exe"
    PROVE  /\ s \o t \in Seq(S)
           /\ Ordered(s) /\ Ordered(t) => Ordered(s \o t)
           /\ Probed(s) /\ Probed(t) => Probed(s \o t)
           /\ Captured(s) /\ (\A i \in 1 .. Len(t) : t[i] # "image") => Captured(s \o t)
  <1> DEFINE r == s \o t
             n == Len(s)
  <1>1. /\ r \in Seq(S) /\ Len(r) = n + Len(t) /\ n \in Nat /\ Len(t) \in Nat
        /\ \A i \in 1 .. n : r[i] = s[i]
        /\ \A i \in 1 .. Len(t) : r[n + i] = t[i]
    OBVIOUS
  <1>2. \A i \in 1 .. Len(r) : i > n => i - n \in 1 .. Len(t) /\ r[i] = t[i - n]
    <2> TAKE i \in 1 .. Len(r)
    <2>1. i > n => i - n \in 1 .. Len(t) /\ n + (i - n) = i
      BY <1>1
    <2> QED
      BY <1>1, <2>1
  <1> HIDE DEF r, n
  <1>3. ASSUME Ordered(s), Ordered(t) PROVE Ordered(r)
    <2> SUFFICES ASSUME NEW j \in 1 .. Len(r)
                 PROVE  /\ r[j] = "stat" => j + 2 <= Len(r) /\ r[j + 1] = "cgroup" /\ r[j + 2] = "exe"
                        /\ r[j] = "cgroup" => j + 1 <= Len(r) /\ r[j + 1] = "exe"
                        /\ j > 1 /\ r[j] = "cgroup" => r[j - 1] = "stat"
                        /\ j > 1 /\ r[j] = "exe" => r[j - 1] = "cgroup"
                        /\ j > 1 /\ r[j] \in Judging => r[j - 1] = "exe"
                        /\ j > 1 /\ r[j] \in Acting => r[j - 1] = "same"
      BY DEF Ordered
    <2>1. CASE j <= n
      <3>1. j \in 1 .. n /\ r[j] = s[j] /\ (j > 1 => r[j - 1] = s[j - 1])
        BY <1>1, <2>1
      <3>2. j + 1 <= n => j + 1 <= Len(r) /\ r[j + 1] = s[j + 1]
        BY <1>1, <2>1
      <3>3. j + 2 <= n => j + 2 <= Len(r) /\ r[j + 2] = s[j + 2]
        BY <1>1, <2>1
      <3> QED
        BY <1>3, <3>1, <3>2, <3>3 DEF Ordered, n
    <2>2. CASE j = n + 1
      <3>1. r[j] = t[1] /\ 1 \in 1 .. Len(t) /\ (j > 1 => r[j - 1] = s[n])
        BY <1>1, <2>2
      <3>2. 2 <= Len(t) => r[j + 1] = t[2]
        BY <1>1, <2>2
      <3>3. 3 <= Len(t) => r[j + 2] = t[3]
        BY <1>1, <2>2
      <3>4. /\ t[1] = "stat" => 3 <= Len(t) /\ t[2] = "cgroup" /\ t[3] = "exe"
            /\ t[1] = "cgroup" => 2 <= Len(t) /\ t[2] = "exe"
        BY <1>3, <3>1 DEF Ordered
      <3>5. t[1] \notin {"cgroup", "exe"} /\ (t[1] \in Judging => s[n] = "exe") /\ (t[1] \in Acting => s[n] = "same")
        BY DEF Opening, Acting, Judging, n
      <3> QED
        BY <1>1, <2>2, <3>1, <3>2, <3>3, <3>4, <3>5
    <2>3. CASE j > n + 1
      <3>1. j - n \in 1 .. Len(t) /\ j - n > 1 /\ r[j] = t[j - n] /\ r[j - 1] = t[(j - n) - 1]
        BY <1>1, <1>2, <2>3
      <3>2. (j - n) + 1 <= Len(t) => j + 1 <= Len(r) /\ r[j + 1] = t[(j - n) + 1]
        BY <1>1, <1>2, <2>3
      <3>3. (j - n) + 2 <= Len(t) => j + 2 <= Len(r) /\ r[j + 2] = t[(j - n) + 2]
        BY <1>1, <1>2, <2>3
      <3> DEFINE i == j - n
      <3>4. /\ t[i] = "stat" => i + 2 <= Len(t) /\ t[i + 1] = "cgroup" /\ t[i + 2] = "exe"
            /\ t[i] = "cgroup" => i + 1 <= Len(t) /\ t[i + 1] = "exe"
            /\ t[i] = "cgroup" => t[i - 1] = "stat"
            /\ t[i] = "exe" => t[i - 1] = "cgroup"
            /\ t[i] \in Judging => t[i - 1] = "exe"
            /\ t[i] \in Acting => t[i - 1] = "same"
        BY <1>3, <3>1 DEF Ordered
      <3>5. i + 2 <= Len(t) => i + 1 <= Len(t)
        BY <1>1, <3>1
      <3> HIDE DEF i
      <3>6. r[j] = t[i] /\ r[j - 1] = t[i - 1]
        BY <3>1 DEF i
      <3>7. i + 1 <= Len(t) => j + 1 <= Len(r) /\ r[j + 1] = t[i + 1]
        BY <3>2 DEF i
      <3>8. i + 2 <= Len(t) => j + 2 <= Len(r) /\ r[j + 2] = t[i + 2]
        BY <3>3 DEF i
      <3> QED
        BY <3>4, <3>5, <3>6, <3>7, <3>8
    <2> QED
      BY <1>1, <2>1, <2>2, <2>3
  <1>4. ASSUME Probed(s), Probed(t), NEW j \in 1 .. Len(r), r[j] = "present" PROVE ClosesAfter(r, j)
    <2>1. CASE j <= n
      <3>1. PICK k \in (j + 1) .. n : s[k] = "close" /\ \A i \in (j + 1) .. (k - 1) : s[i] # "close"
        BY <1>1, <1>4, <2>1 DEF Probed, ClosesAfter, n
      <3>2. k \in (j + 1) .. Len(r) /\ r[k] = "close"
        BY <1>1, <2>1, <3>1
      <3>3. ASSUME NEW i \in (j + 1) .. (k - 1) PROVE r[i] # "close"
        <4>1. i \in 1 .. n
          BY <1>1, <2>1, <3>1
        <4> QED
          BY <1>1, <3>1, <4>1
      <3> QED
        BY <3>2, <3>3 DEF ClosesAfter
    <2>2. CASE j > n
      <3>1. PICK k \in (j - n + 1) .. Len(t) : t[k] = "close" /\ \A i \in (j - n + 1) .. (k - 1) : t[i] # "close"
        BY <1>2, <1>4, <2>2 DEF Probed, ClosesAfter
      <3>2. n + k \in (j + 1) .. Len(r) /\ r[n + k] = "close"
        BY <1>1, <2>2, <3>1
      <3>3. ASSUME NEW i \in (j + 1) .. ((n + k) - 1) PROVE r[i] # "close"
        <4>1. i - n \in (j - n + 1) .. (k - 1) /\ i \in 1 .. Len(r) /\ i > n
          BY <1>1, <2>2, <3>1
        <4> QED
          BY <1>2, <3>1, <4>1
      <3> QED
        BY <3>2, <3>3 DEF ClosesAfter
    <2> QED
      BY <1>1, <2>1, <2>2
  <1>5. ASSUME Captured(s), \A i \in 1 .. Len(t) : t[i] # "image" PROVE Captured(r)
    <2> SUFFICES ASSUME NEW j \in 1 .. Len(r), r[j] = "image"
                 PROVE  /\ j + 1 <= Len(r) /\ r[j + 1] = "live"
                        /\ \A i \in 1 .. (j - 1) : r[i] \in Readings \cup {"bound"}
      BY DEF Captured
    <2>1. j <= n
      BY <1>1, <1>2, <1>5
    <2>2. j \in 1 .. n /\ s[j] = "image"
      BY <1>1, <2>1
    <2>3. j + 1 <= n /\ s[j + 1] = "live" /\ \A i \in 1 .. (j - 1) : s[i] \in Readings \cup {"bound"}
      BY <1>5, <2>2 DEF Captured, n
    <2> QED
      BY <1>1, <2>2, <2>3
  <1> QED
    BY <1>1, <1>3, <1>4, <1>5 DEF Probed, r, n

\* A program of a signal or a removal.
Starts(todo) == todo # <<>> /\ todo[1] \in Opening
Judged(todo) == todo \in Seq(OtherSteps) /\ Ordered(todo) /\ Probed(todo)

\* Nothing that such a program does is a step of a launch.
LEMMA JudgedProgram ==
    ASSUME NEW todo, Judged(todo)
    PROVE  todo \in Seq(Identity!Steps) /\ Captured(todo)
  <1>1. \A i \in 1 .. Len(todo) : todo[i] \in OtherSteps
    BY DEF Judged
  <1>2. todo \in Seq(Identity!Steps)
    BY DEF Judged, OtherSteps
  <1> QED
    BY <1>1, <1>2 DEF Captured, OtherSteps

\* What signals and removals do begins with a reading or a wait, and is judged.
LEMMA SignalPrograms ==
    /\ Judged(Identity!Present) /\ Starts(Identity!Present)
    /\ Judged(Identity!SignalAction) /\ Starts(Identity!SignalAction)
    /\ Judged(Identity!RemoveAction) /\ Starts(Identity!RemoveAction)
    /\ Judged(<<"exit">> \o Identity!Present)
  <1> USE DEF OtherSteps, Identity!Steps, Judging, Acting, Opening, Starts
  <1>1. Judged(Identity!Verify) /\ Starts(Identity!Verify)
    BY DEF Judged, Ordered, Probed, Identity!Verify, Identity!ReadEvidence
  <1>2. Judged(Identity!OpenVerified) /\ Starts(Identity!OpenVerified)
    BY DEF Judged, Ordered, Probed, Identity!Verify, Identity!ReadEvidence, Identity!OpenVerified
  <1>3. Judged(Identity!Present) /\ Starts(Identity!Present)
    BY DEF Judged, Ordered, Probed, ClosesAfter, Identity!Verify, Identity!ReadEvidence, Identity!OpenVerified, Identity!Present
  <1>4. Judged(Identity!Confirm) /\ Starts(Identity!Confirm)
    BY DEF Judged, Ordered, Probed, Identity!Verify, Identity!ReadEvidence, Identity!Confirm
  <1>5. Judged(Identity!Verify \o <<"deliver", "close">>) /\ Starts(Identity!Verify \o <<"deliver", "close">>)
    BY DEF Judged, Ordered, Probed, Identity!Verify, Identity!ReadEvidence
  <1>6. Judged(Identity!Verify \o <<"kill", "exit">>) /\ Starts(Identity!Verify \o <<"kill", "exit">>)
    BY DEF Judged, Ordered, Probed, Identity!Verify, Identity!ReadEvidence
  <1>7. Judged(<<"exit">>) /\ <<"exit">> # <<>>
    BY DEF Judged, Ordered, Probed
  <1> HIDE DEF OtherSteps, Identity!Steps, Judging, Acting
  <1>8. ASSUME NEW s, NEW t, Judged(s), Judged(t), Starts(t) PROVE Judged(s \o t) /\ (Starts(s) => Starts(s \o t))
    <2>1. Judged(s \o t)
      BY <1>8, JoinedProgram DEF Judged
    <2>2. s # <<>> => s \o t # <<>> /\ (s \o t)[1] = s[1]
      BY <1>8 DEF Judged
    <2> QED
      BY <2>1, <2>2
  <1> HIDE DEF Starts, Opening
  <1> DEFINE Good(s) == Judged(s) /\ Starts(s)
  <1>9. Good(Identity!RestoreAction)
    <2>1. Good(Identity!Present \o Identity!OpenVerified)
      BY <1>2, <1>3, <1>8
    <2>2. Good(Identity!Present \o Identity!OpenVerified \o Identity!Verify)
      BY <1>1, <1>8, <2>1
    <2>3. Good(Identity!Present \o Identity!OpenVerified \o Identity!Verify \o Identity!Confirm)
      BY <1>4, <1>8, <2>2
    <2> QED
      BY <2>3 DEF Identity!RestoreAction
  <1>10. Good(Identity!RestoreAction \o (Identity!Verify \o <<"deliver", "close">>))
    BY <1>5, <1>8, <1>9
  <1>11. Good(Identity!RestoreAction \o (Identity!Verify \o <<"kill", "exit">>) \o Identity!Present)
    BY <1>3, <1>6, <1>8, <1>9
  <1>12. ASSUME NEW r \in Seq(OtherSteps), NEW s \in Seq(OtherSteps), NEW t \in Seq(OtherSteps)
         PROVE  r \o (s \o t) = (r \o s) \o t
    OBVIOUS
  <1>13. Identity!SignalAction = Identity!RestoreAction \o (Identity!Verify \o <<"deliver", "close">>)
    <2>1. <<"deliver", "close">> \in Seq(OtherSteps)
      BY DEF OtherSteps, Identity!Steps
    <2> QED
      BY <1>1, <1>9, <1>12, <2>1 DEF Judged, Identity!SignalAction
  <1>14. Identity!RemoveAction = Identity!RestoreAction \o (Identity!Verify \o <<"kill", "exit">>) \o Identity!Present
    <2>1. <<"kill", "exit">> \in Seq(OtherSteps)
      BY DEF OtherSteps, Identity!Steps
    <2> QED
      BY <1>1, <1>9, <1>12, <2>1 DEF Judged, Identity!RemoveAction
  <1> QED
    BY <1>3, <1>7, <1>8, <1>10, <1>11, <1>13, <1>14

\* The program of a launch.
LEMMA LaunchProgram ==
    LET todo == Identity!Capture
    IN /\ todo \in Seq(LaunchSteps) /\ Ordered(todo) /\ Probed(todo) /\ Captured(todo)
       /\ todo # <<>> /\ Head(todo) = "bound" /\ \E k \in 1 .. Len(todo) : todo[k] = "image"
  <1> USE DEF LaunchSteps, Identity!Steps, Judging, Acting, Readings
  <1> DEFINE first == <<"bound", "stat", "cgroup", "exe", "image", "live", "stat", "cgroup", "exe", "same">>
             then == Identity!Confirm
             last == <<"save", "close">>
             Good(s) == s \in Seq(LaunchSteps) /\ Ordered(s) /\ Probed(s)
             Plain(t) == t # <<>> /\ t[1] \in Opening \cup {"save"} /\ \A i \in 1 .. Len(t) : t[i] # "image"
  <1>1. Identity!Capture = first \o then \o last
    BY DEF Identity!Capture, Identity!ReadEvidence, Identity!Verify
  <1>2. Good(first) /\ Captured(first)
    BY DEF Ordered, Probed, Captured
  <1>3. Good(then) /\ Plain(then)
    BY DEF Ordered, Probed, Identity!Confirm, Identity!Verify, Identity!ReadEvidence, Opening
  <1>4. Good(last) /\ Plain(last)
    BY DEF Ordered, Probed
  <1>5. ASSUME NEW s, NEW t, Good(s), Captured(s), Good(t), Plain(t) PROVE Good(s \o t) /\ Captured(s \o t)
    BY <1>5, JoinedProgram
  <1>6. Good(first \o then) /\ Captured(first \o then)
    BY <1>2, <1>3, <1>5
  <1>7. Good(first \o then \o last) /\ Captured(first \o then \o last)
    BY <1>4, <1>5, <1>6
  <1>8. LET todo == first \o then \o last IN todo # <<>> /\ Head(todo) = "bound" /\ 5 \in 1 .. Len(todo) /\ todo[5] = "image"
    BY <1>3
  <1> QED
    BY <1>1, <1>7, <1>8

-----------------------------------------------------------------------------

\* Processes are born and end, and what they are does not change; only their
\* executable is replaced.
Later ==
    /\ \A p \in Born :
          /\ p \in Born' /\ process'[p].pid = process[p].pid /\ process'[p].boot = process[p].boot
          /\ process'[p].start = process[p].start /\ process'[p].leaf = process[p].leaf
          /\ Exists(p)' => Exists(p)
          /\ Running(p)' => Running(p)
          /\ replacements' = 0 => process'[p].exe = process[p].exe
    /\ replacements' = 0 => replacements = 0

\* A step that leaves the host alone.
LEMMA HostStays == ASSUME HostInv, UNCHANGED Identity!host PROVE HostInv' /\ Later
  BY DEF HostInv, Later, Identity!host, Born, Exists, Running, Identity!Born, Identity!Exists, Identity!Running

\* A child has a PID that was free, and a start that no process of the boot has.
LEMMA HostBirth ==
    ASSUME HostInv, Identity!IdentityAssumption, NEW pid \in Pids, NEW leaf \in Leaves \cup {Identity!Elsewhere},
           NEW exe \in {Identity!Shim, "other"}, NEW p \in Identity!Processes, Identity!Birth(p, pid, leaf, exe)
    PROVE  HostInv' /\ Later /\ p \in Born' /\ p \notin Born /\ process'[p] = Identity!Child(pid, leaf, exe)
  <1> USE DEF Identity!Processes, Born, Exists, Running, Identity!Born, Identity!Exists, Identity!Running
  <1>1. PICK n \in 0 .. MaxBirths : tick \in 0 .. n /\ \A q \in Identity!Processes : process[q] # None <=> q <= n
    BY DEF HostInv
  <1>2. MaxBirths \in Nat /\ n < MaxBirths
    BY <1>1 DEF Identity!Birth, Identity!Unborn, Identity!IdentityAssumption
  <1>3. n + 1 \in Identity!Unborn /\ \A q \in Identity!Unborn : n + 1 <= q
    BY <1>1, <1>2 DEF Identity!Unborn
  <1>4. Identity!NextOf(Identity!Unborn) = n + 1
    BY <1>3 DEF Identity!NextOf, Identity!Unborn
  <1>5. p = n + 1 /\ tick' = tick + 1 /\ boot' = boot /\ replacements' = replacements /\ p \notin Born
        /\ process' = [process EXCEPT ![p] = Identity!Child(pid, leaf, exe)]
    BY <1>1, <1>4 DEF Identity!Birth
  <1>6. Identity!Child(pid, leaf, exe) \in Identity!Records /\ Identity!Child(pid, leaf, exe) # None
    BY <1>1, <1>2 DEF HostInv, Identity!Child, Identity!Records, Identity!IdentityAssumption, Identity!Elsewhere
  <1>7. process' \in [Identity!Processes -> Identity!Records \cup {None}] /\ process'[p] = Identity!Child(pid, leaf, exe)
        /\ \A q \in Identity!Processes : q # p => process'[q] = process[q]
    BY <1>5, <1>6 DEF HostInv
  <1>8. Born' = Born \cup {p}
    BY <1>6, <1>7
  <1>9. \A q \in Born : Exists(q) => process[q].pid # pid
    BY DEF Identity!Birth, Identity!FreePid, Identity!Holders
  <1>10. \A q \in Born : q \in Identity!Processes /\ q # p /\ process'[q] = process[q]
    BY <1>5, <1>7
  <1>11. Later
    BY <1>5, <1>8, <1>10 DEF Later
  <1>12. \A q \in Born : ~(process[q].boot = boot /\ process[q].start = tick + 1)
    BY <1>1 DEF HostInv, Identity!Records
  <1>13. HostInv'
    <2>1. tick' \in 0 .. (n + 1) /\ \A q \in Identity!Processes : process'[q] # None <=> q <= n + 1
      BY <1>1, <1>2, <1>5, <1>6, <1>7
    <2>2. \A q, r \in Born' : process'[q].boot = process'[r].boot /\ process'[q].start = process'[r].start => q = r
      BY <1>7, <1>8, <1>10, <1>12 DEF HostInv, Identity!Child
    <2>3. \A q, r \in Born' : Exists(q)' /\ Exists(r)' /\ process'[q].pid = process'[r].pid => q = r
      BY <1>7, <1>8, <1>9, <1>10 DEF HostInv, Identity!Child
    <2>4. \A q \in Born' : Exists(q)' => process'[q].boot = boot'
      BY <1>5, <1>7, <1>8, <1>10 DEF HostInv, Identity!Child
    <2>5. \A q \in Born' : process'[q].boot <= boot' /\ (process'[q].boot = boot' => process'[q].start <= tick')
      BY <1>1, <1>5, <1>7, <1>8, <1>10 DEF HostInv, Identity!Child, Identity!Records
    <2>6. \E m \in 0 .. MaxBirths :
             tick' \in 0 .. m /\ \A q \in Identity!Processes : process'[q] # None <=> q <= m
      BY <1>2, <2>1
    <2>7. boot' \in 0 .. MaxReboots /\ replacements' \in 0 .. MaxReplacements
      BY <1>5 DEF HostInv
    <2> HIDE DEF Born, Exists, Identity!Processes
    <2> QED
      BY <1>7, <2>2, <2>3, <2>4, <2>5, <2>6, <2>7 DEF HostInv
  <1> QED
    BY <1>5, <1>7, <1>8, <1>11, <1>13

\* A process exits, or is reaped.
LEMMA HostEnds ==
    ASSUME HostInv, Identity!IdentityAssumption, NEW p \in Born, NEW life \in {"zombie", "gone"},
           life = "zombie" => Exists(p), process' = [process EXCEPT ![p].life = life], UNCHANGED <<boot, tick, replacements>>
    PROVE  HostInv' /\ Later /\ ~Running(p)'
  <1> USE DEF Identity!Processes, Born, Exists, Running, Identity!Born, Identity!Exists, Identity!Running
  <1>1. process' \in [Identity!Processes -> Identity!Records \cup {None}] /\ process'[p] \in Identity!Records
        /\ process'[p].life = life /\ process'[p].pid = process[p].pid /\ process'[p].boot = process[p].boot
        /\ process'[p].start = process[p].start /\ process'[p].leaf = process[p].leaf /\ process'[p].exe = process[p].exe
        /\ \A q \in Identity!Processes : q # p => process'[q] = process[q]
    BY SMTT(40) DEF HostInv, Identity!Records
  <1>2. process'[p] # None
    BY <1>1 DEF Identity!IdentityAssumption
  <1>3. Born' = Born
    BY <1>1, <1>2
  <1>4. Later /\ ~Running(p)'
    BY <1>1, <1>3 DEF Later
  <1>5. HostInv'
    BY <1>1, <1>2, <1>3, <1>4 DEF HostInv, Later
  <1> QED
    BY <1>4, <1>5

\* An executable is replaced on disk under its process.
LEMMA HostReplaced ==
    ASSUME HostInv, Identity!IdentityAssumption, Identity!Replace
    PROVE  HostInv' /\ Later
  <1> USE DEF Identity!Processes, Born, Exists, Running, Identity!Born, Identity!Exists, Identity!Running
  <1>1. \A q \in Identity!Processes : q \notin Born => process'[q] = None
    BY DEF Identity!Replace, HostInv
  <1>2. \A q \in Born :
          /\ process'[q] \in Identity!Records /\ process'[q].pid = process[q].pid /\ process'[q].boot = process[q].boot
          /\ process'[q].start = process[q].start /\ process'[q].leaf = process[q].leaf /\ process'[q].life = process[q].life
    <2> TAKE q \in Born
    <2>1. process[q] \in Identity!Records /\ q \in Identity!Processes
      BY DEF HostInv
    <2>2. process'[q] \in {process[q], [process[q] EXCEPT !.exe = Identity!Replaced]}
      BY <2>1 DEF Identity!Replace
    <2>3. Identity!Replaced \in {Identity!Shim, Identity!Replaced, "other"}
      OBVIOUS
    <2> QED
      BY <2>1, <2>2, <2>3 DEF Identity!Records
  <1>3. Born' = Born /\ process' \in [Identity!Processes -> Identity!Records \cup {None}]
    BY <1>1, <1>2 DEF Identity!Replace, Identity!IdentityAssumption
  <1>4. replacements' = replacements + 1 /\ replacements' \in 0 .. MaxReplacements /\ replacements' # 0 /\ UNCHANGED <<boot, tick>>
    BY DEF Identity!Replace, HostInv, Identity!IdentityAssumption
  <1> QED
    BY <1>1, <1>2, <1>3, <1>4 DEF HostInv, Later

\* A reboot ends every process and begins to count starts anew.
LEMMA HostReboots ==
    ASSUME HostInv, Identity!IdentityAssumption, Identity!Reboot
    PROVE  HostInv' /\ Later
  <1> USE DEF Identity!Processes, Born, Exists, Running, Identity!Born, Identity!Exists, Identity!Running
  <1>1. \A q \in Identity!Processes : q \notin Born => process'[q] = None
    BY DEF Identity!Reboot
  <1>2. \A q \in Born :
          /\ process'[q] \in Identity!Records /\ process'[q].pid = process[q].pid /\ process'[q].boot = process[q].boot
          /\ process'[q].start = process[q].start /\ process'[q].leaf = process[q].leaf /\ process'[q].life = "gone"
          /\ process'[q].exe = process[q].exe
    BY SMTT(40) DEF Identity!Reboot, HostInv, Identity!Records
  <1>3. Born' = Born /\ process' \in [Identity!Processes -> Identity!Records \cup {None}]
    BY <1>1, <1>2 DEF Identity!Reboot, Identity!IdentityAssumption
  <1>4. boot' = boot + 1 /\ boot' \in 0 .. MaxReboots /\ boot \in Nat /\ tick' = 0 /\ replacements' = replacements
    BY DEF Identity!Reboot, HostInv, Identity!IdentityAssumption
  <1>5. \A q \in Born : process'[q].boot < boot' /\ process'[q].boot \in Nat
    BY <1>2, <1>4 DEF HostInv, Identity!Records
  <1>6. Later
    BY <1>2, <1>3, <1>4 DEF Later
  <1>7. \A q \in Born : ~Exists(q)'
    BY <1>2
  <1>8. \E n \in 0 .. MaxBirths : tick' \in 0 .. n /\ \A p \in Identity!Processes : process'[p] # None <=> p <= n
    <2>1. PICK n \in 0 .. MaxBirths : \A p \in Identity!Processes : process[p] # None <=> p <= n
      BY DEF HostInv
    <2>2. tick' \in 0 .. n
      BY <1>4
    <2> QED
      BY <1>3, <2>1, <2>2
  <1>9. \A p, q \in Born : process'[p].boot = process'[q].boot /\ process'[p].start = process'[q].start => p = q
    BY <1>2 DEF HostInv
  <1>10. replacements' \in 0 .. MaxReplacements
    BY <1>4 DEF HostInv
  <1> HIDE DEF Born, Exists, Running, Identity!Processes
  <1> QED
    BY <1>3, <1>4, <1>5, <1>6, <1>7, <1>8, <1>9, <1>10 DEF HostInv

\* The references of the journals stay true of their processes.
LEMMA SavedStays == ASSUME SavedInv, Later, saved' = saved PROVE SavedInv'
  BY DEF SavedInv, Later, Names, IsShim, Born, Identity!Born

\* Nothing that happens on the host makes what a call knows untrue.
LEMMA CallStays ==
    ASSUME Identity!IdentityAssumption, NEW c \in Callers, Program(c), Knows(c), Tells(c), Later, calls'[c] = calls[c], fds'[c] = fds[c]
    PROVE  Program(c)' /\ Knows(c)' /\ Tells(c)'
  <1>1. Program(c)'
    BY DEF Program
  <1>2. Knows(c)'
    <2>1. calls[c].op # None => calls[c].of \in Born
      BY DEF Knows
    <2>2. calls[c].of \in Born => (Names(calls[c].ev, calls[c].of) <=> Names(calls[c].ev, calls[c].of)')
      BY DEF Later, Names
    <2>3. calls[c].of \in Born => (IsShim(calls[c].of) => IsShim(calls[c].of)')
      BY DEF Later, IsShim
    <2>4. Identity!At(c, "live") => Identity!At(c, "live")'
      BY DEF Identity!At
    <2>5. calls[c].op # None => calls[c].of \in Born' /\ IsShim(calls[c].of)' /\ calls[c].ev.pid = process'[calls[c].of].pid
      BY <2>1, <2>3 DEF Knows, Later
    <2>6. calls[c].op \in {"signal", "remove"} /\ calls[c].op # None => Names(calls[c].ev, calls[c].of)' /\ calls[c].ev.exe = Identity!Shim
      BY <2>1, <2>2 DEF Knows
    <2>7. calls[c].op = "launch" /\ calls[c].op # None =>
            /\ fds[c].handle = calls[c].of /\ fds[c].probe = None /\ ~calls[c].probing
            /\ calls[c].leaf \in Leaves /\ process'[calls[c].of].leaf = calls[c].leaf
            /\ calls[c].ev.start # 0 => calls[c].ev.exe = Identity!Shim
            /\ calls[c].ev.start # 0 /\ Exists(calls[c].of)' => Names(calls[c].ev, calls[c].of)'
            /\ calls[c].ev.start # 0 /\ ~Names(calls[c].ev, calls[c].of)' => Identity!At(c, "live")'
            /\ calls[c].ev.start = 0 => \E i \in 1 .. Len(calls[c].todo) : calls[c].todo[i] = "image"
      BY <2>1, <2>2, <2>4 DEF Knows, Later
    <2>8. calls[c].verdict \in {"absent", "removed"} =>
             calls[c].of \in Born' /\ (replacements' = 0 => ~Running(calls[c].of)')
      BY DEF Knows, Later
    <2>9. calls[c].op # None /\ Exists(calls[c].of)' => {fds[c].handle, fds[c].probe} \subseteq {calls[c].of, None}
      BY <2>1 DEF Knows, Later
    <2> QED
      BY <2>5, <2>6, <2>7, <2>8, <2>9 DEF Knows, Identity!IdentityAssumption
  <1>3. Tells(c)'
    <2>1. calls[c].todo # <<>> => calls[c].of \in Born
      BY DEF Program, Knows
    <2>2. Identity!Fd(c)' = Identity!Fd(c)
      BY DEF Identity!Fd
    <2> QED
      BY <2>1, <2>2 DEF Tells, Later
  <1> QED
    BY <1>1, <1>2, <1>3

\* The other calls, the host and the journals are as they should be.
World == HostInv' /\ Later /\ SavedInv' /\ misses' \in 0 .. IdentityFaults

\* A call moves, and what it becomes is in order.
Changed(c) ==
    /\ calls' \in [Callers -> CallRecords] /\ fds' \in [Callers -> Descriptors]
    /\ \A d \in Callers : d # c => calls'[d] = calls[d] /\ fds'[d] = fds[d]

\* One call moves; the others know what they knew.
LEMMA CallMoves ==
    ASSUME IdentityInv, Identity!IdentityAssumption, NEW c \in Callers, World, Changed(c), Program(c)', Knows(c)', Tells(c)'
    PROVE  IdentityInv'
  <1>1. \A d \in Callers : Program(d)' /\ Knows(d)' /\ Tells(d)'
    BY CallStays DEF IdentityInv, World, Changed
  <1> QED
    BY <1>1 DEF IdentityInv, World, Changed

\* An idle call holds no evidence: the evidence of a process has a start.
LEMMA BlankTyped ==
    ASSUME Identity!IdentityAssumption
    PROVE  /\ Identity!Idle \in CallRecords /\ Identity!Blank \in Identity!Evidences /\ Identity!Idle.todo = <<>>
           /\ Identity!Blank.start = 0 /\ Identity!Gone.start = 0 /\ Identity!Unreadable.start = 0
  <1>1. (CHOOSE pid \in Pids : TRUE) \in Pids
    BY DEF Identity!IdentityAssumption
  <1>2. Identity!Blank \in Identity!Evidences
    BY <1>1 DEF Identity!Blank, Identity!Evidences, Identity!IdentityAssumption
  <1>3. <<>> \in Seq(Identity!Steps)
    OBVIOUS
  <1> HIDE DEF Identity!Steps, Identity!Evidences, Identity!Blank
  <1>4. Identity!Idle \in CallRecords
    BY <1>2, <1>3 DEF Identity!Idle, CallRecords
  <1> QED
    BY <1>2, <1>4 DEF Identity!Idle, Identity!Blank, Identity!Gone, Identity!Unreadable

\* A call that ends has closed what it opened and knows no more than its verdict.
LEMMA CallEnds ==
    ASSUME IdentityInv, Identity!IdentityAssumption, NEW c \in Callers, World, calls[c].op # None,
           NEW verdict \in {"error", "absent", "removed", "done"}, Identity!End(c, verdict),
           verdict \in {"absent", "removed"} /\ replacements' = 0 => ~Running(calls[c].of)'
    PROVE  IdentityInv'
  <1>1. calls[c] \in CallRecords /\ calls[c].of \in Born /\ calls[c].of \in Born'
    BY DEF IdentityInv, Knows, World, Later
  <1>2. calls'[c] = [Identity!Idle EXCEPT !.verdict = verdict, !.of = calls[c].of]
        /\ fds'[c] = [handle |-> None, probe |-> None]
        /\ \A d \in Callers : d # c => calls'[d] = calls[d] /\ fds'[d] = fds[d]
    BY DEF Identity!End, IdentityInv
  <1>3. calls'[c] \in CallRecords
    BY <1>1, <1>2, BlankTyped DEF CallRecords
  <1>4. Changed(c)
    BY <1>2, <1>3 DEF Changed, IdentityInv, Identity!End, Descriptors
  <1>5. calls'[c].todo = <<>> /\ calls'[c].op = None /\ calls'[c].hit = None /\ ~calls'[c].probing
        /\ calls'[c].verdict = verdict /\ calls'[c].of = calls[c].of
    BY <1>1, <1>2, BlankTyped DEF CallRecords, Identity!Idle
  <1>6. Program(c)'
    BY <1>5 DEF Program, Ordered, Probed, Captured, Identity!IdentityAssumption
  <1>7. Knows(c)'
    BY <1>1, <1>2, <1>5 DEF Knows, Identity!IdentityAssumption
  <1>8. Tells(c)'
    BY <1>5 DEF Tells
  <1> QED
    BY <1>4, <1>6, <1>7, <1>8, CallMoves

\* A call of which only the program and the reading change knows what it knew.
LEMMA KnowsStays ==
    ASSUME Identity!IdentityAssumption, NEW c \in Callers, Knows(c), Later, calls[c].op # None, fds'[c] = fds[c],
           calls'[c].op = calls[c].op, calls'[c].of = calls[c].of, calls'[c].ev = calls[c].ev,
           calls'[c].leaf = calls[c].leaf, calls'[c].probing = calls[c].probing,
           calls'[c].hit \in {calls[c].hit, calls[c].of}, calls'[c].verdict = calls[c].verdict,
           calls[c].op = "launch" /\ Identity!At(c, "live") => Exists(calls[c].of),
           calls[c].op = "launch" /\ calls[c].ev.start = 0 =>
              \E i \in 1 .. Len(calls'[c].todo) : calls'[c].todo[i] = "image"
    PROVE  Knows(c)'
  <1>1. calls[c].of \in Born
    BY DEF Knows
  <1>2. calls[c].of \in Born => (Names(calls[c].ev, calls[c].of) <=> Names(calls[c].ev, calls[c].of)')
    BY DEF Later, Names
  <1>3. calls[c].of \in Born => (IsShim(calls[c].of) => IsShim(calls[c].of)')
    BY DEF Later, IsShim
  <1>4. calls[c].of \in Born' /\ IsShim(calls[c].of)' /\ calls[c].ev.pid = process'[calls[c].of].pid
    BY <1>1, <1>3 DEF Knows, Later
  <1>5. calls[c].op \in {"signal", "remove"} => Names(calls[c].ev, calls[c].of)' /\ calls[c].ev.exe = Identity!Shim
    BY <1>1, <1>2 DEF Knows
  <1>6. calls[c].op = "launch" =>
            /\ fds[c].handle = calls[c].of /\ fds[c].probe = None /\ ~calls[c].probing
            /\ calls[c].leaf \in Leaves /\ process'[calls[c].of].leaf = calls[c].leaf
            /\ calls[c].ev.start # 0 => calls[c].ev.exe = Identity!Shim
            /\ calls[c].ev.start # 0 => Names(calls[c].ev, calls[c].of)'
    BY <1>1, <1>2 DEF Knows, Later
  <1>7. calls[c].verdict \in {"absent", "removed"} =>
             calls[c].of \in Born' /\ (replacements' = 0 => ~Running(calls[c].of)')
    BY DEF Knows, Later
  <1>8. Exists(calls[c].of)' => {fds[c].handle, fds[c].probe} \subseteq {calls[c].of, None}
    BY <1>1 DEF Knows, Later
  <1>9. calls'[c].hit \in {None, calls[c].of}
    BY DEF Knows
  <1> QED
    BY <1>4, <1>5, <1>6, <1>7, <1>8, <1>9 DEF Knows

\* What follows the close of the probe.
LEMMA AfterProbe ==
    ASSUME NEW c \in Callers, Program(c), calls[c].probing, calls[c].op # "launch"
    PROVE  LET todo == Identity!ReadEvidence \o <<"recheck">> \o Identity!Rest(c)
           IN Judged(todo) /\ Judged(Identity!Rest(c)) /\ todo # <<>> /\ Head(todo) = "stat"
  <1> DEFINE todo == calls[c].todo
             rest == Identity!Rest(c)
             first == Identity!ReadEvidence \o <<"recheck">>
             First(k) == k \in DOMAIN todo /\ todo[k] = "close" /\ \A j \in 1 .. (k - 1) : todo[j] # "close"
  <1>1. todo \in Seq(OtherSteps) /\ Ordered(todo) /\ Probed(todo) /\ Captured(todo)
    BY DEF Program
  <1>2. PICK k \in 1 .. Len(todo) : First(k)
    BY <1>1 DEF Program, ClosesAfter
  <1>3. PICK m \in 1 .. Len(todo) : First(m) /\ rest = SubSeq(todo, m + 1, Len(todo))
    <2> DEFINE m == CHOOSE m \in DOMAIN todo : todo[m] = "close" /\ \A j \in 1 .. (m - 1) : todo[j] # "close"
    <2>1. m \in DOMAIN todo /\ First(m)
      BY <1>1, <1>2
    <2>2. rest = SubSeq(todo, m + 1, Len(todo))
      BY DEF Identity!Rest
    <2>3. m \in 1 .. Len(todo)
      BY <1>1, <2>1
    <2> HIDE DEF m, rest, First, todo
    <2> QED
      BY <2>1, <2>2, <2>3
  <1> HIDE DEF rest, todo
  <1>4. rest \in Seq(OtherSteps) /\ Ordered(rest) /\ Probed(rest) /\ Captured(rest)
        /\ Len(rest) = Len(todo) - m /\ \A i \in 1 .. Len(rest) : rest[i] = todo[m + i]
    <2>1. m \in 0 .. Len(todo)
      BY <1>1, <1>3
    <2>2. rest = SubSeq(todo, m + 1, Len(todo))
      BY <1>3
    <2> HIDE DEF First
    <2> QED
      BY <1>1, <2>1, <2>2, SuffixProgram
  <1>5. rest # <<>> => rest[1] \notin {"cgroup", "exe"} \cup Judging \cup Acting
    <2> SUFFICES ASSUME rest # <<>> PROVE rest[1] \notin {"cgroup", "exe"} \cup Judging \cup Acting
      OBVIOUS
    <2>0. Len(todo) \in Nat /\ Len(rest) \in Nat /\ Len(rest) # 0 /\ Len(rest) = Len(todo) - m
      BY <1>1, <1>4
    <2> HIDE DEF First
    <2>1. m + 1 \in 1 .. Len(todo) /\ m + 1 > 1 /\ (m + 1) - 1 = m
      BY <2>0
    <2>3. rest[1] = todo[m + 1]
      BY <2>0, <1>4
    <2>2. todo[m] = "close"
      BY <1>3 DEF First
    <2> HIDE DEF rest, First, todo
    <2> QED
      BY <1>1, <2>1, <2>2, <2>3 DEF Ordered, Judging, Acting
  <1>6. rest # <<>> => rest[1] \in Opening \cup {"close", "save"}
    BY <1>4, <1>5 DEF Opening, OtherSteps, Identity!Steps, Judging, Acting
  <1>7. Judged(first) /\ first # <<>> /\ first[1] = "stat"
    BY DEF Judged, Ordered, Probed, Identity!ReadEvidence, OtherSteps, Identity!Steps, Judging, Acting
  <1> HIDE DEF rest, First, todo, first
  <1>8. Judged(rest) /\ Judged(first \o rest)
    <2>1. CASE rest = <<>>
      <3>1. first \o rest = first
        BY <1>7, <2>1 DEF Judged
      <3> QED
        BY <1>4, <1>7, <3>1 DEF Judged
    <2>2. CASE rest # <<>>
      BY <1>4, <1>6, <1>7, <2>2, JoinedProgram DEF Judged
    <2> QED
      BY <2>1, <2>2
  <1>9. first \o rest # <<>> /\ Head(first \o rest) = "stat"
    BY <1>4, <1>7 DEF Judged
  <1> QED
    BY <1>8, <1>9 DEF rest, first

\* A step of a call that leaves the host and the journals alone.
LEMMA WorldStays ==
    ASSUME IdentityInv, UNCHANGED Identity!host, saved' = saved, misses' \in 0 .. IdentityFaults
    PROVE  World
  BY HostStays, SavedStays DEF IdentityInv, World

\* A signal or a removal knows what it knew.
LEMMA KnowsOn ==
    ASSUME Identity!IdentityAssumption, NEW c \in Callers, Knows(c), Later, calls[c].op \in {"signal", "remove"},
           calls'[c].op = calls[c].op, calls'[c].of = calls[c].of, calls'[c].ev = calls[c].ev,
           calls'[c].hit \in {calls[c].hit, calls[c].of}, calls'[c].verdict = calls[c].verdict,
           fds'[c].probe # None => calls'[c].probing,
           Exists(calls[c].of)' => {fds'[c].handle, fds'[c].probe} \subseteq {calls[c].of, None}
    PROVE  Knows(c)'
  <1>1. calls[c].of \in Born /\ calls[c].op # None
    BY DEF Knows, Identity!IdentityAssumption
  <1>2. Names(calls[c].ev, calls[c].of)' /\ calls[c].ev.exe = Identity!Shim
    BY <1>1 DEF Knows, Later, Names
  <1>3. calls[c].of \in Born' /\ IsShim(calls[c].of)' /\ calls[c].ev.pid = process'[calls[c].of].pid
    BY <1>1 DEF Knows, Later, IsShim
  <1>4. calls[c].verdict \in {"absent", "removed"} =>
             calls[c].of \in Born' /\ (replacements' = 0 => ~Running(calls[c].of)')
    BY DEF Knows, Later
  <1>5. calls'[c].hit \in {None, calls[c].of}
    BY DEF Knows
  <1> QED
    BY <1>1, <1>2, <1>3, <1>4, <1>5 DEF Knows

\* A step that failed ends the call, or turns it to what it does instead.
LEMMA CallFails ==
    ASSUME IdentityInv, Identity!IdentityAssumption, NEW c \in Callers, calls[c].todo # <<>>, Identity!Fail(c),
           saved' = saved, misses' \in 0 .. IdentityFaults
    PROVE  IdentityInv'
  <1>1. /\ calls[c] \in CallRecords /\ fds[c] \in Descriptors /\ Program(c) /\ Knows(c) /\ calls[c].op # None
        /\ calls[c].of \in Born /\ (calls[c].op = "launch" => ~calls[c].probing)
    BY DEF IdentityInv, Program, Knows
  <1>2. calls[c].op \in {"launch", "signal", "remove"}
    BY <1>1 DEF CallRecords
  <1>3. UNCHANGED Identity!host => World
    BY WorldStays
  <1>4. ASSUME calls[c].probing, UNCHANGED Identity!host, Identity!WithFd(c, None),
               calls' = [calls EXCEPT ![c].probing = FALSE,
                           ![c].todo = Identity!ReadEvidence \o <<"recheck">> \o Identity!Rest(c)]
        PROVE  IdentityInv'
    <2> DEFINE todo == Identity!ReadEvidence \o <<"recheck">> \o Identity!Rest(c)
    <2>1. Judged(todo) /\ todo # <<>> /\ Head(todo) = "stat" /\ calls[c].op # "launch"
      BY <1>1, <1>4, AfterProbe
    <2>2. todo \in Seq(Identity!Steps) /\ Captured(todo)
      BY <2>1, JudgedProgram
    <2> HIDE DEF todo
    <2>3. calls'[c].todo = todo /\ calls'[c].op = calls[c].op /\ calls'[c].of = calls[c].of /\ calls'[c].ev = calls[c].ev
          /\ calls'[c].hit = calls[c].hit /\ calls'[c].verdict = calls[c].verdict /\ calls'[c].probing = FALSE
          /\ calls'[c] \in CallRecords /\ \A d \in Callers : d # c => calls'[d] = calls[d]
      BY <1>1, <1>4, <2>2 DEF CallRecords, IdentityInv, todo
    <2>4. fds'[c].handle = fds[c].handle /\ fds'[c].probe = None /\ fds' \in [Callers -> Descriptors]
          /\ \A d \in Callers : d # c => fds'[d] = fds[d]
      BY <1>1, <1>4 DEF Identity!WithFd, IdentityInv, Descriptors
    <2>5. Changed(c)
      BY <1>4, <2>3, <2>4 DEF Changed, IdentityInv
    <2>6. Program(c)'
      BY <1>1, <2>1, <2>2, <2>3 DEF Program, Judged
    <2>7. Knows(c)'
      <3>1. Later
        BY <1>3, <1>4 DEF World
      <3>2. Exists(calls[c].of)' => {fds'[c].handle, fds'[c].probe} \subseteq {calls[c].of, None}
        BY <1>1, <2>3, <2>4, <3>1 DEF Knows, Later
      <3> QED
        BY <1>1, <1>2, <2>1, <2>3, <2>4, <3>1, <3>2, KnowsOn
    <2>8. Tells(c)'
      BY <2>1, <2>3 DEF Tells, Judging, Acting
    <2> QED
      BY <1>3, <1>4, <2>5, <2>6, <2>7, <2>8, CallMoves
  <1>5. ASSUME ~calls[c].probing, Identity!Terminating(c), UNCHANGED <<Identity!host, fds>>,
               calls' = [calls EXCEPT ![c].todo = <<"exit">> \o Identity!Present]
        PROVE  IdentityInv'
    <2> DEFINE todo == <<"exit">> \o Identity!Present
    <2>1. calls[c].op = "remove" /\ UNCHANGED Identity!host /\ fds' = fds
      BY <1>5 DEF Identity!Terminating
    <2>2. Judged(todo) /\ todo # <<>> /\ Head(todo) = "exit"
      <3>1. Identity!Present \in Seq(OtherSteps)
        BY SignalPrograms DEF Judged
      <3> QED
        BY <3>1, SignalPrograms
    <2>3. todo \in Seq(Identity!Steps) /\ Captured(todo)
      BY <2>2, JudgedProgram
    <2> HIDE DEF todo
    <2>4. calls'[c].todo = todo /\ calls'[c].op = calls[c].op /\ calls'[c].of = calls[c].of /\ calls'[c].ev = calls[c].ev
          /\ calls'[c].hit = calls[c].hit /\ calls'[c].verdict = calls[c].verdict /\ calls'[c].probing = calls[c].probing
          /\ calls'[c] \in CallRecords /\ \A d \in Callers : d # c => calls'[d] = calls[d]
      BY <1>1, <1>5, <2>3 DEF CallRecords, IdentityInv, todo
    <2>5. Changed(c)
      BY <2>1, <2>4, <1>5 DEF Changed, IdentityInv
    <2>6. Program(c)'
      BY <1>1, <1>5, <2>1, <2>2, <2>3, <2>4 DEF Program, Judged
    <2>7. Knows(c)'
      <3>1. Later
        BY <1>3, <2>1 DEF World
      <3>2. Exists(calls[c].of)' => {fds'[c].handle, fds'[c].probe} \subseteq {calls[c].of, None}
        BY <1>1, <2>1, <2>4, <3>1 DEF Knows, Later
      <3>3. fds'[c].probe # None => calls'[c].probing
        BY <1>1, <2>1, <2>4 DEF Knows
      <3> QED
        BY <1>1, <2>1, <2>4, <3>1, <3>2, <3>3, KnowsOn
    <2>8. Tells(c)'
      BY <2>2, <2>4 DEF Tells, Judging, Acting
    <2> QED
      BY <1>3, <2>1, <2>5, <2>6, <2>7, <2>8, CallMoves
  <1>6. ASSUME Identity!Abandoned(c), Identity!End(c, "error"),
               process' = [process EXCEPT ![calls[c].of].life = "zombie"], UNCHANGED <<boot, tick, replacements>>
        PROVE  IdentityInv'
    <2>1. Exists(calls[c].of)
      BY <1>6 DEF Identity!Abandoned, Exists, Identity!Exists, Identity!Running
    <2>2. HostInv' /\ Later
      BY <1>1, <1>6, <2>1, HostEnds DEF IdentityInv
    <2>3. World
      BY <2>2, SavedStays DEF World, IdentityInv
    <2> QED
      BY <1>1, <1>6, <2>3, CallEnds
  <1>7. ASSUME UNCHANGED Identity!host, Identity!End(c, "error") PROVE IdentityInv'
    BY <1>1, <1>3, <1>7, CallEnds
  <1> QED
    BY <1>4, <1>5, <1>6, <1>7 DEF Identity!Fail

\* What a call goes on with, after one step or the rest of a reading.
LEMMA GoesOn ==
    ASSUME NEW c \in Callers, Program(c), NEW n \in 1 .. Len(calls[c].todo), calls'[c].op = calls[c].op,
           calls'[c].todo = SubSeq(calls[c].todo, n + 1, Len(calls[c].todo)),
           calls[c].op # None,
           calls'[c].probing => \/ calls[c].probing /\ \A i \in 1 .. n : calls[c].todo[i] # "close"
                                \/ calls[c].todo[n] = "present"
    PROVE  /\ Program(c)'
           /\ calls'[c].todo # <<>> =>
                LET h == calls[c].todo[n]
                    next == Head(calls'[c].todo)
                IN /\ next = "cgroup" => h = "stat"
                   /\ next = "exe" => h = "cgroup"
                   /\ next \in Judging => h = "exe"
                   /\ next \in Acting => h = "same"
           /\ (\E i \in 1 .. Len(calls[c].todo) : calls[c].todo[i] = "image") /\ (\A i \in 1 .. n : calls[c].todo[i] # "image")
                => \E i \in 1 .. Len(calls'[c].todo) : calls'[c].todo[i] = "image"
  <1> DEFINE todo == calls[c].todo
             rest == calls'[c].todo
  <1>1. todo \in Seq(Identity!Steps) /\ Ordered(todo) /\ Probed(todo) /\ Captured(todo) /\ n \in 0 .. Len(todo)
        /\ Len(todo) \in Nat /\ n \in Nat
    BY DEF Program
  <1>2. rest = SubSeq(todo, n + 1, Len(todo))
    OBVIOUS
  <1>3. /\ rest \in Seq(Identity!Steps) /\ Len(rest) = Len(todo) - n /\ \A i \in 1 .. Len(rest) : rest[i] = todo[n + i]
        /\ Ordered(rest) /\ Probed(rest) /\ Captured(rest)
    BY <1>1, <1>2, SuffixProgram, SMTT(40)
  <1>4. calls[c].op = "launch" => rest \in Seq(LaunchSteps)
    BY <1>1, <1>2, SuffixProgram DEF Program
  <1>5. calls[c].op # "launch" => rest \in Seq(OtherSteps)
    BY <1>1, <1>2, SuffixProgram DEF Program
  <1>6. calls'[c].probing => ClosesAfter(rest, 0)
    <2> SUFFICES ASSUME calls'[c].probing PROVE ClosesAfter(rest, 0)
      OBVIOUS
    <2>1. PICK k \in (n + 1) .. Len(todo) : todo[k] = "close" /\ \A i \in (n + 1) .. (k - 1) : todo[i] # "close"
      <3>1. CASE todo[n] = "present"
        BY <1>1, <3>1 DEF Probed, ClosesAfter
      <3>2. CASE calls[c].probing /\ \A i \in 1 .. n : todo[i] # "close"
        <4>1. PICK k \in 1 .. Len(todo) : todo[k] = "close" /\ \A i \in 1 .. (k - 1) : todo[i] # "close"
          BY <3>2 DEF Program, ClosesAfter
        <4>2. k \in (n + 1) .. Len(todo)
          BY <1>1, <3>2, <4>1
        <4> QED
          BY <1>1, <4>1, <4>2
      <3> QED
        BY <3>1, <3>2
    <2>2. k - n \in 1 .. Len(rest) /\ rest[k - n] = "close"
      BY <1>1, <1>3, <2>1
    <2>3. ASSUME NEW i \in 1 .. (k - n - 1) PROVE rest[i] # "close"
      <3>1. i \in 1 .. Len(rest) /\ n + i \in (n + 1) .. (k - 1)
        BY <1>1, <1>3, <2>1
      <3> QED
        BY <1>3, <2>1, <3>1
    <2> HIDE DEF rest, todo
    <2>4. k - n \in (0 + 1) .. Len(rest) /\ \A i \in (0 + 1) .. ((k - n) - 1) : rest[i] # "close"
      BY <2>2, <2>3
    <2> QED
      BY <2>2, <2>4 DEF ClosesAfter
  <1>7. Program(c)'
    BY <1>3, <1>4, <1>5, <1>6 DEF Program
  <1>8. ASSUME rest # <<>>
        PROVE  /\ Head(rest) = "cgroup" => todo[n] = "stat"
               /\ Head(rest) = "exe" => todo[n] = "cgroup"
               /\ Head(rest) \in Judging => todo[n] = "exe"
               /\ Head(rest) \in Acting => todo[n] = "same"
    <2>1. Len(rest) \in Nat /\ Len(rest) # 0 /\ Head(rest) = rest[1]
      BY <1>3, <1>8, SMTT(40)
    <2>2. n + 1 \in 1 .. Len(todo) /\ n + 1 > 1 /\ (n + 1) - 1 = n /\ Head(rest) = todo[n + 1]
      BY <1>1, <1>3, <2>1
    <2> HIDE DEF rest, todo
    <2> QED
      BY <1>1, <2>2 DEF Ordered
  <1>9. ASSUME NEW j \in 1 .. Len(todo), todo[j] = "image", \A i \in 1 .. n : todo[i] # "image"
        PROVE  \E i \in 1 .. Len(rest) : rest[i] = "image"
    <2>1. j - n \in 1 .. Len(rest) /\ rest[j - n] = todo[j]
      BY <1>1, <1>3, <1>9
    <2> QED
      BY <1>9, <2>1
  <1> QED
    BY <1>7, <1>8, <1>9

-----------------------------------------------------------------------------

\* What a call at a step is.
LEMMA Acts ==
    ASSUME IdentityInv, Identity!IdentityAssumption, NEW c \in Callers, calls[c].todo # <<>>
    PROVE  /\ calls[c] \in CallRecords /\ fds[c] \in Descriptors /\ Program(c) /\ Knows(c) /\ Tells(c)
           /\ calls[c].op \in {"launch", "signal", "remove"} /\ calls[c].op # None
           /\ calls[c].of \in Born /\ calls[c].of \in Identity!Processes /\ calls[c].of # None
           /\ (calls[c].op = "launch" => ~calls[c].probing)
           /\ Len(calls[c].todo) \in Nat /\ 1 \in 1 .. Len(calls[c].todo) /\ Head(calls[c].todo) = calls[c].todo[1]
           /\ Tail(calls[c].todo) = SubSeq(calls[c].todo, 2, Len(calls[c].todo))
           /\ Tail(calls[c].todo) \in Seq(Identity!Steps)
           /\ \A i \in 1 .. Len(calls[c].todo) :
                 /\ calls[c].op = "launch" => calls[c].todo[i] \in LaunchSteps
                 /\ calls[c].op # "launch" => calls[c].todo[i] \in OtherSteps
  <1>1. calls[c] \in CallRecords /\ fds[c] \in Descriptors /\ Program(c) /\ Knows(c) /\ Tells(c)
    BY DEF IdentityInv
  <1>2. calls[c].op \in {"launch", "signal", "remove"} /\ calls[c].op # None
    BY <1>1 DEF Program, CallRecords
  <1>3. calls[c].of \in Born /\ (calls[c].op = "launch" => ~calls[c].probing)
    BY <1>1, <1>2 DEF Knows
  <1>4. calls[c].of \in Identity!Processes /\ calls[c].of # None
    BY <1>3 DEF Born, Identity!Born, Identity!Processes, Identity!IdentityAssumption
  <1>5. calls[c].todo \in Seq(Identity!Steps)
    BY <1>1 DEF CallRecords
  <1>6. Len(calls[c].todo) \in Nat /\ 1 \in 1 .. Len(calls[c].todo) /\ Head(calls[c].todo) = calls[c].todo[1]
        /\ Tail(calls[c].todo) = SubSeq(calls[c].todo, 2, Len(calls[c].todo)) /\ Tail(calls[c].todo) \in Seq(Identity!Steps)
    <2> DEFINE s == calls[c].todo
    <2>1. s \in Seq(Identity!Steps) /\ s # <<>>
      BY <1>5
    <2> HIDE DEF s
    <2>2. Len(s) \in Nat /\ Len(s) # 0 /\ Head(s) = s[1]
      BY <2>1
    <2>3. Tail(s) = SubSeq(s, 2, Len(s)) /\ Tail(s) \in Seq(Identity!Steps)
      BY <2>1, <2>2
    <2> QED
      BY <2>2, <2>3 DEF s
  <1>7. \A i \in 1 .. Len(calls[c].todo) :
                 /\ calls[c].op = "launch" => calls[c].todo[i] \in LaunchSteps
                 /\ calls[c].op # "launch" => calls[c].todo[i] \in OtherSteps
    BY <1>1 DEF Program
  <1> QED
    BY <1>1, <1>2, <1>3, <1>4, <1>6, <1>7

\* A step that neither reads nor judges: the next one relies on no reading.
LEMMA StepOn ==
    ASSUME IdentityInv, Identity!IdentityAssumption, NEW c \in Callers, calls[c].todo # <<>>,
           Head(calls[c].todo) \notin Readings \cup {"same"}, World, Changed(c), Knows(c)',
           calls'[c].op = calls[c].op, calls'[c].todo = Tail(calls[c].todo),
           calls'[c].probing => (calls[c].probing /\ Head(calls[c].todo) # "close") \/ Head(calls[c].todo) = "present"
    PROVE  IdentityInv'
  <1>1. Program(c)' /\ (calls'[c].todo # <<>> =>
           Head(calls'[c].todo) \notin {"cgroup", "exe"} \cup Judging \cup Acting)
    <2>1. Program(c) /\ calls[c].op # None /\ 1 \in 1 .. Len(calls[c].todo) /\ Head(calls[c].todo) = calls[c].todo[1]
          /\ calls'[c].todo = SubSeq(calls[c].todo, 1 + 1, Len(calls[c].todo))
      BY Acts
    <2>2. \A i \in 1 .. 1 : i = 1
      OBVIOUS
    <2> QED
      BY <2>1, <2>2, GoesOn DEF Readings
  <1>2. Tells(c)'
    BY <1>1 DEF Tells
  <1> QED
    BY <1>1, <1>2, CallMoves

\* The holder of the PID of a process that exists is that process.
LEMMA HolderIsOf ==
    ASSUME IdentityInv, Identity!IdentityAssumption, NEW c \in Callers, calls[c].todo # <<>>, NEW p \in Identity!Holding(c)
    PROVE  /\ p \in Born /\ Exists(p) /\ process[p] \in Identity!Records /\ process[p].pid = calls[c].ev.pid
           /\ process[p].boot = boot
           /\ Exists(calls[c].of) => p = calls[c].of
           /\ calls[c].op # "launch" /\ boot = calls[c].ev.boot /\ process[p].start = calls[c].ev.start => p = calls[c].of
  <1>1. p \in Born /\ Exists(p) /\ process[p].pid = calls[c].ev.pid
    BY DEF Identity!Holding, Identity!Holders, Born, Exists
  <1>2. calls[c].of \in Born /\ calls[c].ev.pid = process[calls[c].of].pid
        /\ (calls[c].op # "launch" => Names(calls[c].ev, calls[c].of))
    BY Acts DEF Knows
  <1>3. process[p].boot = boot /\ process[p] \in Identity!Records
    BY <1>1 DEF IdentityInv, HostInv, Born, Identity!Born
  <1>4. Exists(calls[c].of) => p = calls[c].of
    BY <1>1, <1>2 DEF IdentityInv, HostInv
  <1>5. calls[c].op # "launch" /\ boot = calls[c].ev.boot /\ process[p].start = calls[c].ev.start => p = calls[c].of
    BY <1>1, <1>2, <1>3 DEF IdentityInv, HostInv, Names
  <1> QED
    BY <1>1, <1>3, <1>4, <1>5

\* What is kept of a call whose program and reading change.
Reads(c, got, rest) ==
    /\ calls'[c].todo = rest /\ calls'[c].got = got
    /\ calls'[c].op = calls[c].op /\ calls'[c].of = calls[c].of /\ calls'[c].ev = calls[c].ev
    /\ calls'[c].leaf = calls[c].leaf /\ calls'[c].probing = calls[c].probing /\ calls'[c].hit = calls[c].hit
    /\ calls'[c].verdict = calls[c].verdict

\* What a reading keeps of the call has the types of the call.
LEMMA ReadsShape ==
    ASSUME IdentityInv, NEW c \in Callers, NEW rest \in Seq(Identity!Steps),
           NEW got \in Identity!Evidences \cup Failed,
           calls' = [calls EXCEPT ![c].got = got, ![c].todo = rest], fds' = fds
    PROVE  Changed(c) /\ Reads(c, got, rest)
  <1>1. calls[c] \in CallRecords /\ calls \in [Callers -> CallRecords]
    BY DEF IdentityInv
  <1>2. Reads(c, got, rest) /\ calls'[c] \in CallRecords
    BY <1>1 DEF Reads, CallRecords, Failed
  <1> QED
    BY <1>1, <1>2 DEF Changed, IdentityInv

\* A reading shows nothing, or fails.
LEMMA Skipped ==
    ASSUME IdentityInv, Identity!IdentityAssumption, NEW c \in Callers, calls[c].todo # <<>>,
           NEW n \in 1 .. 3, <<Head(calls[c].todo), n>> \in {<<"stat", 3>>, <<"cgroup", 2>>, <<"exe", 1>>},
           NEW got \in Failed, got = Identity!Gone => ~Running(calls[c].of),
           Changed(c), Reads(c, got, Identity!Skip(c, n)), UNCHANGED <<Identity!host, fds, saved>>, misses' \in 0 .. IdentityFaults
    PROVE  IdentityInv'
  <1> DEFINE todo == calls[c].todo
  <1>1. World
    BY WorldStays
  <1>2. n \in 1 .. Len(todo) /\ todo[n] = "exe" /\ \A i \in 1 .. n : todo[i] \in Readings
    <2>1. Ordered(todo) /\ 1 \in 1 .. Len(todo) /\ Len(todo) \in Nat /\ Head(todo) = todo[1]
      BY Acts DEF Program
    <2>2. todo[1] = "stat" => 3 <= Len(todo) /\ todo[2] = "cgroup" /\ todo[3] = "exe"
      BY <2>1 DEF Ordered
    <2>3. todo[1] = "cgroup" => 2 <= Len(todo) /\ todo[2] = "exe"
      BY <2>1 DEF Ordered
    <2> HIDE DEF todo
    <2> QED
      BY <2>1, <2>2, <2>3 DEF Readings, todo
  <1>4. calls'[c].todo = SubSeq(todo, n + 1, Len(todo)) /\ calls'[c].got = got
        /\ calls'[c].op = calls[c].op /\ calls'[c].of = calls[c].of /\ calls'[c].ev = calls[c].ev
        /\ calls'[c].leaf = calls[c].leaf /\ calls'[c].probing = calls[c].probing /\ calls'[c].hit = calls[c].hit
        /\ calls'[c].verdict = calls[c].verdict
    BY DEF Reads, Identity!Skip
  <1>6. /\ Program(c)'
        /\ calls'[c].todo # <<>> => Head(calls'[c].todo) \notin {"cgroup", "exe"} \cup Acting
        /\ (\E i \in 1 .. Len(todo) : todo[i] = "image") => \E i \in 1 .. Len(calls'[c].todo) : calls'[c].todo[i] = "image"
    <2>1. \A i \in 1 .. n : todo[i] # "close" /\ todo[i] # "image"
      BY <1>2 DEF Readings
    <2>2. Program(c) /\ calls[c].op # None
      BY Acts
    <2>3. calls'[c].probing => calls[c].probing /\ \A i \in 1 .. n : todo[i] # "close"
      BY <1>4, <2>1
    <2>4. calls'[c].op = calls[c].op /\ calls'[c].todo = SubSeq(todo, n + 1, Len(todo)) /\ n \in 1 .. Len(todo)
      BY <1>2, <1>4
    <2>5. /\ Program(c)'
          /\ calls'[c].todo # <<>> =>
                /\ Head(calls'[c].todo) = "cgroup" => todo[n] = "stat"
                /\ Head(calls'[c].todo) = "exe" => todo[n] = "cgroup"
                /\ Head(calls'[c].todo) \in Acting => todo[n] = "same"
          /\ (\E i \in 1 .. Len(todo) : todo[i] = "image") /\ (\A i \in 1 .. n : todo[i] # "image")
                => \E i \in 1 .. Len(calls'[c].todo) : calls'[c].todo[i] = "image"
      BY <2>2, <2>3, <2>4, GoesOn
    <2> QED
      BY <1>2, <2>1, <2>5
  <1>7. Knows(c)'
    <2>1. ~Identity!At(c, "live") /\ Later /\ fds'[c] = fds[c]
      BY <1>1 DEF World, Identity!At
    <2>2. calls[c].op = "launch" /\ calls[c].ev.start = 0 =>
             \E i \in 1 .. Len(calls'[c].todo) : calls'[c].todo[i] = "image"
      BY <1>6, Acts DEF Knows
    <2> QED
      BY <1>4, <2>1, <2>2, Acts, KnowsStays
  <1>8. Tells(c)'
    <2>1. calls[c].op # "launch" => calls[c].ev.start # 0
      <3>1. calls[c].op # "launch" => Names(calls[c].ev, calls[c].of) /\ process[calls[c].of] \in Identity!Records
        BY Acts DEF Knows, IdentityInv, HostInv, Born, Identity!Born
      <3> QED
        BY <3>1 DEF Names, Identity!Records, Identity!Processes
    <2>2. got.start = 0
      BY BlankTyped DEF Failed
    <2>3. got # Identity!Unreadable => ~Running(calls[c].of)'
      <3>1. ~Running(calls[c].of) => ~Running(calls[c].of)'
        BY <1>1, <1>4, Acts DEF World, Later
      <3> QED
        BY <3>1 DEF Failed
    <2> QED
      BY <1>4, <1>6, <2>1, <2>2, <2>3 DEF Tells
  <1> QED
    BY <1>1, <1>6, <1>7, <1>8, CallMoves

\* A reading that is refused, or a process that is missing, leaves the call in order.
LEMMA Misses ==
    ASSUME IdentityInv, Identity!IdentityAssumption, NEW c \in Callers, calls[c].todo # <<>>,
           NEW n \in 1 .. 3, <<Head(calls[c].todo), n>> \in {<<"stat", 3>>, <<"cgroup", 2>>, <<"exe", 1>>},
           NEW got \in Failed, got = Identity!Gone => ~Running(calls[c].of),
           calls' = [calls EXCEPT ![c].got = got, ![c].todo = Identity!Skip(c, n)],
           UNCHANGED <<Identity!host, fds, saved>>, misses' \in 0 .. IdentityFaults
    PROVE  IdentityInv'
  <1>1. n \in 0 .. Len(calls[c].todo) /\ calls[c].todo \in Seq(Identity!Steps)
    <2>1. Ordered(calls[c].todo) /\ 1 \in 1 .. Len(calls[c].todo) /\ Len(calls[c].todo) \in Nat
          /\ Head(calls[c].todo) = calls[c].todo[1] /\ calls[c].todo \in Seq(Identity!Steps)
      BY Acts DEF Program
    <2>2. /\ calls[c].todo[1] = "stat" => 3 <= Len(calls[c].todo)
          /\ calls[c].todo[1] = "cgroup" => 2 <= Len(calls[c].todo)
      BY <2>1 DEF Ordered
    <2> QED
      BY <2>1, <2>2
  <1>2. Identity!Skip(c, n) \in Seq(Identity!Steps)
    BY <1>1, SuffixProgram DEF Identity!Skip
  <1>3. Changed(c) /\ Reads(c, got, Identity!Skip(c, n))
    BY <1>2, ReadsShape
  <1> QED
    BY <1>3, Skipped

\* A reading that shows what it read goes on.
LEMMA Shown ==
    ASSUME IdentityInv, Identity!IdentityAssumption, NEW c \in Callers, calls[c].todo # <<>>,
           Head(calls[c].todo) \in Readings, NEW got, Changed(c), Reads(c, got, Tail(calls[c].todo)),
           UNCHANGED <<Identity!host, fds, saved, misses>>
    PROVE  /\ World /\ Program(c)' /\ Knows(c)'
           /\ calls'[c].todo # <<>> =>
                /\ Head(calls'[c].todo) = "cgroup" => Head(calls[c].todo) = "stat"
                /\ Head(calls'[c].todo) = "exe" => Head(calls[c].todo) = "cgroup"
                /\ Head(calls'[c].todo) \in Judging => Head(calls[c].todo) = "exe"
                /\ Head(calls'[c].todo) \notin Acting
  <1>1. World
    BY WorldStays DEF IdentityInv
  <1>2. Program(c) /\ calls[c].op # None /\ 1 \in 1 .. Len(calls[c].todo) /\ Head(calls[c].todo) = calls[c].todo[1]
        /\ calls'[c].todo = SubSeq(calls[c].todo, 1 + 1, Len(calls[c].todo))
    BY Acts DEF Reads
  <1>3. \A i \in 1 .. 1 : calls[c].todo[i] \notin {"close", "image"}
    BY <1>2 DEF Readings
  <1>4. calls'[c].op = calls[c].op /\ calls'[c].probing = calls[c].probing
    BY DEF Reads
  <1>7. calls'[c].probing => calls[c].probing /\ \A i \in 1 .. 1 : calls[c].todo[i] # "close"
    BY <1>3, <1>4
  <1>5. /\ Program(c)'
        /\ calls'[c].todo # <<>> =>
                /\ Head(calls'[c].todo) = "cgroup" => calls[c].todo[1] = "stat"
                /\ Head(calls'[c].todo) = "exe" => calls[c].todo[1] = "cgroup"
                /\ Head(calls'[c].todo) \in Judging => calls[c].todo[1] = "exe"
                /\ Head(calls'[c].todo) \in Acting => calls[c].todo[1] = "same"
    BY <1>2, <1>4, <1>7, GoesOn
  <1>8. (\E i \in 1 .. Len(calls[c].todo) : calls[c].todo[i] = "image")
             => \E i \in 1 .. Len(calls'[c].todo) : calls'[c].todo[i] = "image"
    <2> SUFFICES ASSUME NEW i \in 1 .. Len(calls[c].todo), calls[c].todo[i] = "image"
                 PROVE  \E j \in 1 .. Len(calls'[c].todo) : calls'[c].todo[j] = "image"
      OBVIOUS
    <2>1. i # 1
      BY <1>3
    <2>2. calls[c].todo \in Seq(Identity!Steps)
      BY <1>2 DEF Program
    <2>3. i - 1 \in 1 .. Len(calls'[c].todo) /\ calls'[c].todo[i - 1] = calls[c].todo[i]
      BY <1>2, <2>1, <2>2
    <2> QED
      BY <2>3
  <1>6. Knows(c)'
    <2>1. ~Identity!At(c, "live") /\ Later /\ fds'[c] = fds[c]
      BY <1>1 DEF World, Identity!At, Readings
    <2>2. calls[c].op = "launch" /\ calls[c].ev.start = 0 =>
             \E i \in 1 .. Len(calls'[c].todo) : calls'[c].todo[i] = "image"
      BY <1>8, Acts DEF Knows
    <2>3. Knows(c)
      BY Acts
    <2> QED
      BY <1>2, <2>1, <2>2, <2>3, KnowsStays DEF Reads
  <1> QED
    BY <1>1, <1>2, <1>5, <1>6 DEF Readings

\* The start time of the holder of the PID is read.
LEMMA ReadStatStep ==
    ASSUME IdentityInv, Identity!IdentityAssumption, NEW c \in Callers, Identity!ReadStat(c)
    PROVE  IdentityInv'
  <1>1. calls[c].todo # <<>> /\ Head(calls[c].todo) = "stat" /\ UNCHANGED <<Identity!host, fds, saved, misses>>
    BY DEF Identity!ReadStat, Identity!Reading, Identity!At
  <1>2. CASE Identity!Holding(c) = {} /\ Identity!Missing(c, 3)
    <2>1. ~Running(calls[c].of)
      BY <1>1, <1>2, Acts DEF Knows, Identity!Holding, Identity!Holders, Running, Identity!Running, Identity!Exists, Born
    <2>2. misses' \in 0 .. IdentityFaults /\ Identity!Gone \in Failed
      BY <1>1 DEF Failed, IdentityInv
    <2>3. calls' = [calls EXCEPT ![c].got = Identity!Gone, ![c].todo = Identity!Skip(c, 3)]
      BY <1>2 DEF Identity!Missing
    <2>4. <<Head(calls[c].todo), 3>> \in {<<"stat", 3>>, <<"cgroup", 2>>, <<"exe", 1>>}
      BY <1>1
    <2> QED
      <3>1. UNCHANGED <<Identity!host, fds, saved>> /\ calls[c].todo # <<>> /\ 3 \in 1 .. 3
        BY <1>1
      <3> HIDE <1>1
      <3> QED
        BY <2>1, <2>2, <2>3, <2>4, <3>1, Misses
  <1>3. ASSUME NEW p \in Identity!Holding(c),
               calls' = [calls EXCEPT ![c].todo = Tail(@),
                           ![c].got = [pid |-> process[p].pid, boot |-> boot, start |-> process[p].start, leaf |-> None, exe |-> None]]
        PROVE  IdentityInv'
    <2> DEFINE got == [pid |-> process[p].pid, boot |-> boot, start |-> process[p].start, leaf |-> None, exe |-> None]
    <2>2. p \in Born /\ process[p] \in Identity!Records /\ process[p].pid = calls[c].ev.pid /\ process[p].boot = boot
          /\ (Exists(calls[c].of) => p = calls[c].of)
          /\ (calls[c].op # "launch" /\ boot = calls[c].ev.boot /\ process[p].start = calls[c].ev.start => p = calls[c].of)
          /\ Exists(p)
      BY <1>1, HolderIsOf
    <2>3. got \in Identity!Evidences
      BY <2>2 DEF Identity!Evidences, Identity!Records, IdentityInv, HostInv
    <2>4. got.start # 0 /\ got.pid = calls[c].ev.pid /\ got.boot = boot /\ got.start = process[p].start
      BY <2>2 DEF Identity!Records, Identity!Processes
    <2> HIDE DEF got
    <2>5. Changed(c) /\ Reads(c, got, Tail(calls[c].todo))
      <3>1. calls' = [calls EXCEPT ![c].got = got, ![c].todo = Tail(calls[c].todo)]
        BY <1>3 DEF IdentityInv, CallRecords, got
      <3>2. Tail(calls[c].todo) \in Seq(Identity!Steps)
        BY <1>1, Acts
      <3> QED
        BY <1>1, <2>3, <3>1, <3>2, ReadsShape
    <2>6. /\ World /\ Program(c)' /\ Knows(c)'
          /\ calls'[c].todo # <<>> => Head(calls'[c].todo) \notin {"exe"} \cup Judging \cup Acting
      BY <1>1, <2>5, Shown DEF Readings
    <2>7. Tells(c)'
      <3>1. calls'[c].got = got /\ calls'[c].of = calls[c].of /\ calls'[c].op = calls[c].op /\ calls'[c].ev = calls[c].ev
        BY <2>5 DEF Reads
      <3>2. Exists(calls[c].of)' => got.boot = process'[calls[c].of].boot /\ got.start = process'[calls[c].of].start
        BY <1>1, <2>2, <2>4, <2>6, <3>1, Acts DEF World, Later
      <3>3. calls[c].op # "launch" /\ got.boot = calls[c].ev.boot /\ got.start = calls[c].ev.start =>
              (Identity!Fd(c) \in {None, calls[c].of})'
        <4>1. Exists(calls[c].of) => Identity!Fd(c) \in {None, calls[c].of}
          BY <1>1, Acts DEF Knows, Identity!Fd
        <4>2. Identity!Fd(c)' = Identity!Fd(c)
          BY <1>1, <2>5 DEF Identity!Fd, Reads
        <4> QED
          BY <2>2, <2>4, <3>1, <4>1, <4>2
      <3> QED
        BY <2>3, <2>4, <2>6, <3>1, <3>2, <3>3 DEF Tells
    <2> QED
      BY <2>5, <2>6, <2>7, CallMoves
  <1> QED
    BY <1>2, <1>3 DEF Identity!ReadStat

\* The leaf of the holder is read, after its start.
LEMMA ReadCgroupStep ==
    ASSUME IdentityInv, Identity!IdentityAssumption, NEW c \in Callers, Identity!ReadCgroup(c)
    PROVE  IdentityInv'
  <1>1. calls[c].todo # <<>> /\ Head(calls[c].todo) = "cgroup" /\ UNCHANGED <<Identity!host, fds, saved, misses>>
    BY DEF Identity!ReadCgroup, Identity!Reading, Identity!At
  <1>2. CASE Identity!Holding(c) = {} /\ Identity!Missing(c, 2)
    <2>1. ~Running(calls[c].of)
      BY <1>1, <1>2, Acts DEF Knows, Identity!Holding, Identity!Holders, Running, Identity!Running, Identity!Exists, Born
    <2>2. misses' \in 0 .. IdentityFaults /\ Identity!Gone \in Failed
      BY <1>1 DEF Failed, IdentityInv
    <2>3. calls' = [calls EXCEPT ![c].got = Identity!Gone, ![c].todo = Identity!Skip(c, 2)]
      BY <1>2 DEF Identity!Missing
    <2>4. <<Head(calls[c].todo), 2>> \in {<<"stat", 3>>, <<"cgroup", 2>>, <<"exe", 1>>}
      BY <1>1
    <2> QED
      <3>1. UNCHANGED <<Identity!host, fds, saved>> /\ calls[c].todo # <<>> /\ 2 \in 1 .. 3
        BY <1>1
      <3> HIDE <1>1
      <3> QED
        BY <2>1, <2>2, <2>3, <2>4, <3>1, Misses
  <1>3. ASSUME NEW p \in Identity!Holding(c),
               calls' = [calls EXCEPT ![c].todo = Tail(@), ![c].got.leaf = process[p].leaf]
        PROVE  IdentityInv'
    <2> DEFINE old == calls[c].got
               got == [pid |-> old.pid, boot |-> old.boot, start |-> old.start, leaf |-> process[p].leaf, exe |-> old.exe]
    <2>1. p \in Born /\ process[p] \in Identity!Records /\ (Exists(calls[c].of) => p = calls[c].of)
      BY <1>1, HolderIsOf
    <2>2. old \in Identity!Evidences /\ old \notin Failed
      BY <1>1, Acts DEF Tells, Failed, Identity!Evidences, Identity!Gone, Identity!Unreadable, Identity!Blank,
            Identity!Shim, Identity!Replaced, Identity!IdentityAssumption
    <2>3. got \in Identity!Evidences
      BY <2>1, <2>2 DEF Identity!Evidences, Identity!Records
    <2>4. /\ old.pid = calls[c].ev.pid /\ old.start # 0
          /\ Exists(calls[c].of) => old.boot = process[calls[c].of].boot /\ old.start = process[calls[c].of].start
          /\ calls[c].op # "launch" /\ old.boot = calls[c].ev.boot /\ old.start = calls[c].ev.start =>
                Identity!Fd(c) \in {None, calls[c].of}
      BY <1>1, <2>2, Acts DEF Tells
    <2>5. /\ got.pid = old.pid /\ got.boot = old.boot /\ got.start = old.start /\ got.leaf = process[p].leaf
      OBVIOUS
    <2>6. calls' \in [Callers -> CallRecords] /\ Reads(c, got, Tail(calls[c].todo))
          /\ \A d \in Callers : d # c => calls'[d] = calls[d]
      <3>1. [old EXCEPT !.leaf = process[p].leaf] = got
        BY <2>2 DEF Identity!Evidences
      <3>2. calls \in [Callers -> CallRecords] /\ calls[c] \in CallRecords
        BY DEF IdentityInv
      <3>3. Tail(calls[c].todo) \in Seq(Identity!Steps)
        BY <1>1, Acts
      <3> HIDE DEF got
      <3>4. Reads(c, got, Tail(calls[c].todo))
        BY <1>3, <3>1, <3>2 DEF CallRecords, Reads
      <3>5. calls'[c] \in CallRecords
        BY <1>3, <2>3, <3>1, <3>2, <3>3 DEF CallRecords
      <3> QED
        BY <1>3, <3>2, <3>4, <3>5
    <2> HIDE DEF got, old
    <2>7. Changed(c) /\ Reads(c, got, Tail(calls[c].todo))
      BY <1>1, <2>6 DEF Changed, IdentityInv
    <2>8. /\ World /\ Program(c)' /\ Knows(c)'
          /\ calls'[c].todo # <<>> => Head(calls'[c].todo) \notin {"cgroup"} \cup Judging \cup Acting
      BY <1>1, <2>7, Shown DEF Readings
    <2>9. Tells(c)'
      <3>1. calls'[c].got = got /\ calls'[c].of = calls[c].of /\ calls'[c].op = calls[c].op /\ calls'[c].ev = calls[c].ev
        BY <2>7 DEF Reads
      <3>2. Exists(calls[c].of)' => /\ got.boot = process'[calls[c].of].boot /\ got.start = process'[calls[c].of].start
                                    /\ got.leaf = process'[calls[c].of].leaf
        BY <1>1, <2>1, <2>4, <2>5, <2>8, <3>1, Acts DEF World, Later
      <3>3. calls[c].op # "launch" /\ got.boot = calls[c].ev.boot /\ got.start = calls[c].ev.start =>
              (Identity!Fd(c) \in {None, calls[c].of})'
        <4>1. Identity!Fd(c)' = Identity!Fd(c)
          BY <1>1, <2>7 DEF Identity!Fd, Reads
        <4> QED
          BY <2>4, <2>5, <3>1, <4>1
      <3> QED
        BY <2>3, <2>4, <2>5, <2>8, <3>1, <3>2, <3>3 DEF Tells
    <2> QED
      BY <2>7, <2>8, <2>9, CallMoves
  <1> QED
    BY <1>2, <1>3 DEF Identity!ReadCgroup

\* The executable of the holder is read, after its leaf.
LEMMA ReadExeStep ==
    ASSUME IdentityInv, Identity!IdentityAssumption, NEW c \in Callers, Identity!ReadExe(c)
    PROVE  IdentityInv'
  <1>1. calls[c].todo # <<>> /\ Head(calls[c].todo) = "exe" /\ UNCHANGED <<Identity!host, fds, saved, misses>>
    BY DEF Identity!ReadExe, Identity!Reading, Identity!At
  <1>2. CASE {p \in Identity!Holding(c) : Identity!Running(p)} = {} /\ Identity!Missing(c, 1)
    <2>1. ~Running(calls[c].of)
      BY <1>1, <1>2, Acts DEF Knows, Identity!Holding, Identity!Holders, Running, Identity!Running, Identity!Exists, Born
    <2>2. misses' \in 0 .. IdentityFaults /\ Identity!Gone \in Failed
      BY <1>1 DEF Failed, IdentityInv
    <2>3. calls' = [calls EXCEPT ![c].got = Identity!Gone, ![c].todo = Identity!Skip(c, 1)]
      BY <1>2 DEF Identity!Missing
    <2>4. <<Head(calls[c].todo), 1>> \in {<<"stat", 3>>, <<"cgroup", 2>>, <<"exe", 1>>}
      BY <1>1
    <2> QED
      <3>1. UNCHANGED <<Identity!host, fds, saved>> /\ calls[c].todo # <<>> /\ 1 \in 1 .. 3
        BY <1>1
      <3> HIDE <1>1
      <3> QED
        BY <2>1, <2>2, <2>3, <2>4, <3>1, Misses
  <1>3. ASSUME NEW p \in Identity!Holding(c), Identity!Running(p),
               calls' = [calls EXCEPT ![c].todo = Tail(@), ![c].got.exe = process[p].exe]
        PROVE  IdentityInv'
    <2> DEFINE old == calls[c].got
               got == [pid |-> old.pid, boot |-> old.boot, start |-> old.start, leaf |-> old.leaf, exe |-> process[p].exe]
    <2>1. p \in Born /\ process[p] \in Identity!Records /\ (Exists(calls[c].of) => p = calls[c].of)
      BY <1>1, HolderIsOf
    <2>2. old \in Identity!Evidences /\ old \notin Failed
      BY <1>1, Acts DEF Tells, Failed, Identity!Evidences, Identity!Gone, Identity!Unreadable, Identity!Blank,
            Identity!Shim, Identity!Replaced, Identity!IdentityAssumption
    <2>3. got \in Identity!Evidences
      BY <2>1, <2>2 DEF Identity!Evidences, Identity!Records
    <2>4. /\ old.pid = calls[c].ev.pid /\ old.start # 0
          /\ Exists(calls[c].of) => /\ old.boot = process[calls[c].of].boot /\ old.start = process[calls[c].of].start
                                    /\ old.leaf = process[calls[c].of].leaf
          /\ calls[c].op # "launch" /\ old.boot = calls[c].ev.boot /\ old.start = calls[c].ev.start =>
                Identity!Fd(c) \in {None, calls[c].of}
      BY <1>1, <2>2, Acts DEF Tells
    <2>5. /\ got.pid = old.pid /\ got.boot = old.boot /\ got.start = old.start /\ got.leaf = old.leaf
          /\ got.exe = process[p].exe
      OBVIOUS
    <2>6. calls' \in [Callers -> CallRecords] /\ Reads(c, got, Tail(calls[c].todo))
          /\ \A d \in Callers : d # c => calls'[d] = calls[d]
      <3>1. [old EXCEPT !.exe = process[p].exe] = got
        BY <2>2 DEF Identity!Evidences
      <3>2. calls \in [Callers -> CallRecords] /\ calls[c] \in CallRecords
        BY DEF IdentityInv
      <3>3. Tail(calls[c].todo) \in Seq(Identity!Steps)
        BY <1>1, Acts
      <3> HIDE DEF got
      <3>4. Reads(c, got, Tail(calls[c].todo))
        BY <1>3, <3>1, <3>2 DEF CallRecords, Reads
      <3>5. calls'[c] \in CallRecords
        BY <1>3, <2>3, <3>1, <3>2, <3>3 DEF CallRecords
      <3> QED
        BY <1>3, <3>2, <3>4, <3>5
    <2>7. calls[c].op # "launch" /\ replacements = 0 /\ Running(calls[c].of) => got = calls[c].ev
      <3>1. Running(calls[c].of) => Exists(calls[c].of)
        BY DEF Running, Exists, Identity!Running, Identity!Exists
      <3>2. calls[c].op # "launch" => Names(calls[c].ev, calls[c].of) /\ calls[c].ev.exe = Identity!Shim
        BY <1>1, Acts DEF Knows
      <3>3. replacements = 0 => process[calls[c].of].exe = Identity!Shim
        BY <1>1, Acts DEF Knows, IsShim
      <3>4. calls[c].ev \in Identity!Evidences
        BY <1>1, Acts DEF CallRecords
      <3> QED
        BY <2>1, <2>4, <3>1, <3>2, <3>3, <3>4 DEF Names, Identity!Evidences
    <2> HIDE DEF got, old
    <2>8. Changed(c) /\ Reads(c, got, Tail(calls[c].todo))
      BY <1>1, <2>6 DEF Changed, IdentityInv
    <2>9. /\ World /\ Program(c)' /\ Knows(c)'
          /\ calls'[c].todo # <<>> => Head(calls'[c].todo) \notin {"cgroup", "exe"} \cup Acting
      BY <1>1, <2>8, Shown DEF Readings
    <2>10. Tells(c)'
      <3>1. calls'[c].got = got /\ calls'[c].of = calls[c].of /\ calls'[c].op = calls[c].op /\ calls'[c].ev = calls[c].ev
        BY <2>8 DEF Reads
      <3>2. Exists(calls[c].of)' => /\ got.boot = process'[calls[c].of].boot /\ got.start = process'[calls[c].of].start
                                    /\ got.leaf = process'[calls[c].of].leaf
        BY <1>1, <2>4, <2>5, <2>9, <3>1, Acts DEF World, Later
      <3>3. calls[c].op # "launch" /\ got.boot = calls[c].ev.boot /\ got.start = calls[c].ev.start =>
              (Identity!Fd(c) \in {None, calls[c].of})'
        <4>1. Identity!Fd(c)' = Identity!Fd(c)
          BY <1>1, <2>8 DEF Identity!Fd, Reads
        <4> QED
          BY <2>4, <2>5, <3>1, <4>1
      <3>4. calls[c].op # "launch" /\ replacements' = 0 /\ Running(calls[c].of)' => got = calls[c].ev
        BY <1>1, <2>7, <2>9, <3>1, Acts DEF World, Later
      <3> QED
        BY <2>3, <2>4, <2>5, <2>9, <3>1, <3>2, <3>3, <3>4 DEF Tells
    <2> QED
      BY <2>8, <2>9, <2>10, CallMoves
  <1> QED
    BY <1>2, <1>3 DEF Identity!ReadExe

\* The capture of the evidence is still to come after another step.
LEMMA ImageStays ==
    ASSUME NEW s, NEW S, s \in Seq(S), s # <<>>, Head(s) # "image", \E i \in 1 .. Len(s) : s[i] = "image"
    PROVE  \E i \in 1 .. Len(Tail(s)) : Tail(s)[i] = "image"
  <1>1. PICK k \in 1 .. Len(s) : s[k] = "image"
    OBVIOUS
  <1>2. k - 1 \in 1 .. Len(Tail(s)) /\ Tail(s)[k - 1] = s[k]
    BY <1>1
  <1> QED
    BY <1>1, <1>2

\* One step that changes the call in nothing but what it has left.
LEMMA Advancing ==
    ASSUME IdentityInv, Identity!IdentityAssumption, NEW c \in Callers, calls[c].todo # <<>>,
           Head(calls[c].todo) \notin Readings \cup {"same", "image", "close", "present"}, Identity!Advance(c), fds' = fds, World,
           calls[c].op = "launch" /\ Head(calls[c].todo) = "live" => Exists(calls[c].of)
    PROVE  IdentityInv'
  <1>1. calls' \in [Callers -> CallRecords] /\ Reads(c, calls[c].got, Tail(calls[c].todo))
        /\ \A d \in Callers : d # c => calls'[d] = calls[d]
    <2>1. calls \in [Callers -> CallRecords] /\ calls[c] \in CallRecords /\ Tail(calls[c].todo) \in Seq(Identity!Steps)
      BY Acts DEF IdentityInv
    <2> QED
      BY <2>1 DEF Identity!Advance, CallRecords, Reads
  <1>2. Changed(c)
    BY <1>1 DEF Changed, IdentityInv
  <1>3. Knows(c)'
    <2>1. calls[c].op = "launch" /\ calls[c].ev.start = 0 =>
             \E i \in 1 .. Len(calls'[c].todo) : calls'[c].todo[i] = "image"
      <3>1. calls[c].op = "launch" /\ calls[c].ev.start = 0 => \E i \in 1 .. Len(calls[c].todo) : calls[c].todo[i] = "image"
        BY Acts DEF Knows
      <3>2. calls[c].todo \in Seq(Identity!Steps)
        BY Acts DEF CallRecords
      <3> QED
        BY <1>1, <3>1, <3>2, ImageStays DEF Reads
    <2>2. calls[c].op = "launch" /\ Identity!At(c, "live") => Exists(calls[c].of)
      BY DEF Identity!At
    <2>3. Knows(c) /\ calls[c].op # None /\ Later /\ fds'[c] = fds[c]
      BY Acts DEF World
    <2> QED
      BY <1>1, <2>1, <2>2, <2>3, KnowsStays DEF Reads
  <1> QED
    BY <1>1, <1>2, <1>3, StepOn DEF Reads

\* What was read is compared with the evidence.
LEMMA SameStep ==
    ASSUME IdentityInv, Identity!IdentityAssumption, NEW c \in Callers, Identity!Same(c), misses' = misses
    PROVE  IdentityInv'
  <1>1. calls[c].todo # <<>> /\ Head(calls[c].todo) = "same" /\ saved' = saved
    BY DEF Identity!Same, Identity!At
  <1>2. CASE Identity!Fail(c)
    BY <1>1, <1>2, CallFails DEF IdentityInv
  <1>3. ASSUME calls[c].got = calls[c].ev, Identity!Advance(c), UNCHANGED <<Identity!host, fds>> PROVE IdentityInv'
    <2>1. World
      BY <1>1, <1>3, WorldStays DEF IdentityInv
    <2>2. calls' \in [Callers -> CallRecords] /\ Reads(c, calls[c].got, Tail(calls[c].todo))
          /\ \A d \in Callers : d # c => calls'[d] = calls[d]
      <3>1. calls \in [Callers -> CallRecords] /\ calls[c] \in CallRecords /\ Tail(calls[c].todo) \in Seq(Identity!Steps)
        BY <1>1, Acts DEF IdentityInv
      <3> QED
        BY <1>3, <3>1 DEF Identity!Advance, CallRecords, Reads
    <2>3. Changed(c)
      BY <1>3, <2>2 DEF Changed, IdentityInv
    <2>4. Knows(c)'
      <3>1. calls[c].op = "launch" /\ calls[c].ev.start = 0 =>
               \E i \in 1 .. Len(calls'[c].todo) : calls'[c].todo[i] = "image"
        <4>1. calls[c].op = "launch" /\ calls[c].ev.start = 0 => \E i \in 1 .. Len(calls[c].todo) : calls[c].todo[i] = "image"
          BY <1>1, Acts DEF Knows
        <4>2. calls[c].todo \in Seq(Identity!Steps)
          BY <1>1, Acts DEF CallRecords
        <4> QED
          BY <1>1, <2>2, <4>1, <4>2, ImageStays, ZenonT(60) DEF Reads
      <3>2. ~Identity!At(c, "live") /\ Knows(c) /\ calls[c].op # None /\ Later /\ fds'[c] = fds[c]
        BY <1>1, <1>3, <2>1, Acts DEF World, Identity!At
      <3> QED
        BY <2>2, <3>1, <3>2, KnowsStays DEF Reads
    <2>5. Program(c)' /\ (calls'[c].todo # <<>> => Head(calls'[c].todo) \notin {"cgroup", "exe"} \cup Judging)
      <3>1. Program(c) /\ calls[c].op # None /\ 1 \in 1 .. Len(calls[c].todo) /\ Head(calls[c].todo) = calls[c].todo[1]
            /\ calls'[c].todo = SubSeq(calls[c].todo, 1 + 1, Len(calls[c].todo)) /\ calls'[c].op = calls[c].op
            /\ calls'[c].probing = calls[c].probing
        BY <1>1, <2>2, Acts DEF Reads
      <3>2. calls'[c].probing => calls[c].probing /\ \A i \in 1 .. 1 : calls[c].todo[i] # "close"
        BY <1>1, <3>1
      <3> QED
        BY <1>1, <3>1, <3>2, GoesOn
    <2>6. Identity!Fd(c) \in {None, calls[c].of}
      <3>1. CASE calls[c].op = "launch"
        BY <1>1, <3>1, Acts DEF Knows, Identity!Fd
      <3>2. CASE calls[c].op # "launch"
        BY <1>1, <1>3, <3>2, Acts DEF Tells, Judging
      <3> QED
        BY <3>1, <3>2
    <2>7. Tells(c)'
      <3>1. Identity!Fd(c)' = Identity!Fd(c) /\ calls'[c].of = calls[c].of
        BY <1>3, <2>2 DEF Identity!Fd, Reads
      <3> QED
        BY <2>5, <2>6, <3>1 DEF Tells
    <2> QED
      BY <2>1, <2>3, <2>4, <2>5, <2>7, CallMoves
  <1> QED
    BY <1>2, <1>3 DEF Identity!Same

\* A launch takes what it read as its evidence.
LEMMA ImageStep ==
    ASSUME IdentityInv, Identity!IdentityAssumption, NEW c \in Callers, Identity!Image(c), misses' = misses
    PROVE  IdentityInv'
  <1>1. calls[c].todo # <<>> /\ Head(calls[c].todo) = "image" /\ saved' = saved
    BY DEF Identity!Image, Identity!At
  <1>2. CASE Identity!Fail(c)
    BY <1>1, <1>2, CallFails DEF IdentityInv
  <1>3. ASSUME calls[c].got \in Identity!Evidences, calls[c].got.exe = Identity!Shim, UNCHANGED <<Identity!host, fds>>,
               calls' = [calls EXCEPT ![c].ev = calls[c].got, ![c].todo = Tail(calls[c].todo)]
        PROVE  IdentityInv'
    <2> DEFINE got == calls[c].got
    <2>1. World
      BY <1>1, <1>3, WorldStays DEF IdentityInv
    <2>2. /\ calls' \in [Callers -> CallRecords] /\ calls'[c].todo = Tail(calls[c].todo)
          /\ calls'[c].ev = got /\ calls'[c].op = calls[c].op /\ calls'[c].of = calls[c].of /\ calls'[c].leaf = calls[c].leaf
          /\ calls'[c].probing = calls[c].probing /\ calls'[c].hit = calls[c].hit /\ calls'[c].verdict = calls[c].verdict
          /\ \A d \in Callers : d # c => calls'[d] = calls[d]
      <3>1. calls \in [Callers -> CallRecords] /\ calls[c] \in CallRecords /\ Tail(calls[c].todo) \in Seq(Identity!Steps)
        BY <1>1, Acts DEF IdentityInv
      <3> QED
        BY <1>3, <3>1 DEF CallRecords
    <2>3. Changed(c)
      BY <1>3, <2>2 DEF Changed, IdentityInv
    <2>4. calls[c].op = "launch"
      BY <1>1, Acts DEF OtherSteps
    <2>5. got \notin Failed
      BY <1>3 DEF Failed, Identity!Gone, Identity!Unreadable, Identity!Blank, Identity!Shim
    <2>6. /\ got.pid = calls[c].ev.pid /\ got.start # 0
          /\ Exists(calls[c].of) => Names(got, calls[c].of)
      BY <1>1, <2>5, Acts DEF Tells, Judging, Knows, Names
    <2>7. calls'[c].todo # <<>> /\ Head(calls'[c].todo) = "live"
      <3>1. Captured(calls[c].todo) /\ calls[c].todo \in Seq(Identity!Steps) /\ 1 \in 1 .. Len(calls[c].todo)
            /\ calls[c].todo[1] = "image"
        BY <1>1, Acts DEF Program
      <3>2. 2 <= Len(calls[c].todo) /\ calls[c].todo[2] = "live"
        BY <3>1 DEF Captured
      <3>3. ASSUME NEW s \in Seq(Identity!Steps), 2 <= Len(s) PROVE Tail(s) # <<>> /\ Head(Tail(s)) = s[2]
        <4>1. Len(s) \in Nat /\ Len(Tail(s)) = Len(s) - 1 /\ Tail(s)[1] = s[2] /\ Tail(s) \in Seq(Identity!Steps)
          BY <3>3
        <4>2. Len(Tail(s)) # 0
          BY <3>3, <4>1
        <4> QED
          BY <3>3, <4>1, <4>2
      <3> QED
        BY <2>2, <3>1, <3>2, <3>3
    <2>8. Knows(c)'
      <3>1. Knows(c) /\ calls[c].of \in Born /\ calls[c].op # None
        BY <1>1, Acts
      <3>2. Later /\ fds'[c] = fds[c] /\ process' = process /\ replacements' = replacements /\ Born' = Born
        BY <1>3, <2>1 DEF World, Identity!host, Born, Identity!Born
      <3>3. Exists(calls[c].of)' => Names(calls[c].ev, calls[c].of)'
        BY <2>2, <2>6, <3>1, <3>2 DEF Later, Names
      <3>4. IsShim(calls[c].of)' /\ calls'[c].ev.pid = process'[calls[c].of].pid
        BY <2>2, <2>6, <3>1, <3>2 DEF Knows, IsShim
      <3>5. calls[c].verdict \in {"absent", "removed"} =>
               calls[c].of \in Born' /\ (replacements' = 0 => ~Running(calls[c].of)')
        BY <2>2, <3>1, <3>2 DEF Knows, Later
      <3>6. {fds'[c].handle, fds'[c].probe} \subseteq {calls[c].of, None}
        BY <2>4, <3>1, <3>2 DEF Knows
      <3>7. Identity!At(c, "live")'
        BY <2>7 DEF Identity!At
      <3> QED
        BY <1>3, <2>2, <2>4, <2>6, <3>1, <3>2, <3>3, <3>4, <3>5, <3>6, <3>7 DEF Knows
    <2>9. calls'[c].probing => (calls[c].probing /\ Head(calls[c].todo) # "close") \/ Head(calls[c].todo) = "present"
      BY <1>1, <2>2
    <2>10. Head(calls[c].todo) \notin Readings \cup {"same"}
      BY <1>1 DEF Readings
    <2> QED
      BY <1>1, <2>1, <2>2, <2>3, <2>8, <2>9, <2>10, StepOn
  <1> QED
    BY <1>2, <1>3 DEF Identity!Image

\* The process is gone when it is not found as it was, unless its executable was
\* replaced.
LEMMA JudgedGone ==
    ASSUME IdentityInv, Identity!IdentityAssumption, NEW c \in Callers, calls[c].todo # <<>>,
           Head(calls[c].todo) \in {"present", "recheck"}, calls[c].got \notin {calls[c].ev, Identity!Unreadable},
           replacements = 0
    PROVE  ~Running(calls[c].of)
  <1>1. calls[c].op # "launch"
    BY Acts DEF LaunchSteps
  <1> QED
    BY <1>1, Acts DEF Tells, Judging

\* The first reading of a probe decides: absent, unknown, or to be probed.
LEMMA DecideStep ==
    ASSUME IdentityInv, Identity!IdentityAssumption, NEW c \in Callers, Identity!Decide(c), misses' = misses
    PROVE  IdentityInv'
  <1>1. calls[c].todo # <<>> /\ Head(calls[c].todo) = "present" /\ UNCHANGED <<Identity!host, saved>>
    BY DEF Identity!Decide, Identity!At
  <1>2. World
    BY <1>1, WorldStays DEF IdentityInv
  <1>3. ASSUME calls[c].got \notin {calls[c].ev, Identity!Unreadable},
               NEW verdict \in {"absent", "removed"}, Identity!End(c, verdict)
        PROVE  IdentityInv'
    <2>1. replacements' = 0 => ~Running(calls[c].of)
      BY <1>1, <1>3, JudgedGone DEF Identity!host
    <2>2. calls'[c].of = calls[c].of
      BY <1>3 DEF Identity!End, IdentityInv
    <2>3. replacements' = 0 => ~Running(calls[c].of)'
      BY <1>1, <1>2, <2>1, <2>2, Acts DEF World, Later
    <2> QED
      BY <1>1, <1>2, <1>3, <2>3, Acts, CallEnds
  <1>4. ASSUME Identity!End(c, "error") PROVE IdentityInv'
    BY <1>1, <1>2, <1>4, Acts, CallEnds
  <1>5. ASSUME fds' = fds, calls' = [calls EXCEPT ![c].probing = TRUE, ![c].todo = Tail(@)]
        PROVE  IdentityInv'
    <2>1. /\ calls' \in [Callers -> CallRecords] /\ calls'[c].todo = Tail(calls[c].todo)
          /\ calls'[c].ev = calls[c].ev /\ calls'[c].op = calls[c].op /\ calls'[c].of = calls[c].of
          /\ calls'[c].probing = TRUE /\ calls'[c].hit = calls[c].hit /\ calls'[c].verdict = calls[c].verdict
          /\ \A d \in Callers : d # c => calls'[d] = calls[d]
      <3>1. calls \in [Callers -> CallRecords] /\ calls[c] \in CallRecords /\ Tail(calls[c].todo) \in Seq(Identity!Steps)
        BY <1>1, Acts DEF IdentityInv
      <3> QED
        BY <1>5, <3>1 DEF CallRecords
    <2>2. Changed(c)
      BY <1>5, <2>1 DEF Changed, IdentityInv
    <2>3. calls[c].op \in {"signal", "remove"}
      BY <1>1, Acts DEF LaunchSteps
    <2>4. Knows(c)'
      <3>1. Knows(c) /\ Later /\ fds'[c] = fds[c] /\ calls[c].op # None
        BY <1>1, <1>2, <1>5, Acts DEF World
      <3>2. Exists(calls[c].of)' => {fds'[c].handle, fds'[c].probe} \subseteq {calls[c].of, None}
        BY <2>1, <3>1 DEF Knows, Later
      <3> QED
        BY <2>1, <2>3, <3>1, <3>2, KnowsOn
    <2>5. Head(calls[c].todo) \notin Readings \cup {"same"}
      BY <1>1 DEF Readings
    <2> QED
      BY <1>1, <1>2, <2>1, <2>2, <2>4, <2>5, StepOn
  <1> QED
    BY <1>3, <1>4, <1>5 DEF Identity!Decide

\* The reading after a probe that failed decides: absent or an error.
LEMMA RecheckStep ==
    ASSUME IdentityInv, Identity!IdentityAssumption, NEW c \in Callers, Identity!Recheck(c), misses' = misses
    PROVE  IdentityInv'
  <1>1. calls[c].todo # <<>> /\ Head(calls[c].todo) = "recheck" /\ UNCHANGED <<Identity!host, saved>>
    BY DEF Identity!Recheck, Identity!At
  <1>2. World
    BY <1>1, WorldStays DEF IdentityInv
  <1>3. ASSUME calls[c].got \notin {calls[c].ev, Identity!Unreadable},
               NEW verdict \in {"absent", "removed"}, Identity!End(c, verdict)
        PROVE  IdentityInv'
    <2>1. replacements' = 0 => ~Running(calls[c].of)
      BY <1>1, <1>3, JudgedGone DEF Identity!host
    <2>2. calls'[c].of = calls[c].of
      BY <1>3 DEF Identity!End, IdentityInv
    <2>3. replacements' = 0 => ~Running(calls[c].of)'
      BY <1>1, <1>2, <2>1, <2>2, Acts DEF World, Later
    <2> QED
      BY <1>1, <1>2, <1>3, <2>3, Acts, CallEnds
  <1>4. ASSUME Identity!End(c, "error") PROVE IdentityInv'
    BY <1>1, <1>2, <1>4, Acts, CallEnds
  <1> QED
    BY <1>3, <1>4 DEF Identity!Recheck

\* A descriptor is opened of the holder of the PID.
LEMMA OpenStep ==
    ASSUME IdentityInv, Identity!IdentityAssumption, NEW c \in Callers, Identity!OpenPidfd(c), misses' = misses
    PROVE  IdentityInv'
  <1>1. calls[c].todo # <<>> /\ Head(calls[c].todo) = "open" /\ saved' = saved
    BY DEF Identity!OpenPidfd, Identity!At
  <1>2. CASE Identity!Fail(c)
    BY <1>1, <1>2, CallFails DEF IdentityInv
  <1>3. ASSUME NEW p \in Identity!Holding(c), Identity!WithFd(c, p), Identity!Advance(c), UNCHANGED Identity!host
        PROVE  IdentityInv'
    <2>1. World
      BY <1>1, <1>3, WorldStays DEF IdentityInv
    <2>2. calls' \in [Callers -> CallRecords] /\ Reads(c, calls[c].got, Tail(calls[c].todo))
          /\ \A d \in Callers : d # c => calls'[d] = calls[d]
      <3>1. calls \in [Callers -> CallRecords] /\ calls[c] \in CallRecords /\ Tail(calls[c].todo) \in Seq(Identity!Steps)
        BY <1>1, Acts DEF IdentityInv
      <3> QED
        BY <1>3, <3>1 DEF Identity!Advance, CallRecords, Reads
    <2>3. p \in Born /\ p \in Identity!Processes /\ (Exists(calls[c].of) => p = calls[c].of)
      BY <1>1, HolderIsOf DEF Born, Identity!Born
    <2>4. /\ fds' \in [Callers -> Descriptors] /\ \A d \in Callers : d # c => fds'[d] = fds[d]
          /\ calls[c].probing => fds'[c].probe = p /\ fds'[c].handle = fds[c].handle
          /\ ~calls[c].probing => fds'[c].handle = p /\ fds'[c].probe = fds[c].probe
      BY <1>3, <2>3 DEF Identity!WithFd, IdentityInv, Descriptors
    <2>5. Changed(c)
      BY <2>2, <2>4 DEF Changed
    <2>6. calls[c].op \in {"signal", "remove"}
      BY <1>1, Acts DEF LaunchSteps
    <2>7. Knows(c)'
      <3>1. Knows(c) /\ Later /\ calls[c].op # None /\ calls[c].of \in Born
        BY <1>1, <2>1, Acts DEF World
      <3>2. calls'[c].of = calls[c].of /\ calls'[c].probing = calls[c].probing
        BY <2>2 DEF Reads
      <3>3. Exists(calls[c].of)' => {fds'[c].handle, fds'[c].probe} \subseteq {calls[c].of, None}
        BY <2>3, <2>4, <3>1, <3>2 DEF Knows, Later
      <3>4. fds'[c].probe # None => calls'[c].probing
        BY <2>4, <3>1, <3>2 DEF Knows
      <3> QED
        BY <2>2, <2>6, <3>1, <3>3, <3>4, KnowsOn DEF Reads
    <2>8. Head(calls[c].todo) \notin Readings \cup {"same"}
      BY <1>1 DEF Readings
    <2> QED
      BY <1>1, <2>1, <2>2, <2>5, <2>7, <2>8, StepOn DEF Reads
  <1> QED
    BY <1>2, <1>3 DEF Identity!OpenPidfd

\* The process of the descriptor is found to exist.
LEMMA BoundStep ==
    ASSUME IdentityInv, Identity!IdentityAssumption, NEW c \in Callers, Identity!Bound(c), misses' = misses
    PROVE  IdentityInv'
  <1>1. calls[c].todo # <<>> /\ Head(calls[c].todo) \in {"bound", "live"} /\ saved' = saved
    BY DEF Identity!Bound, Identity!At
  <1>2. CASE Identity!Fail(c)
    BY <1>1, <1>2, CallFails DEF IdentityInv
  <1>3. ASSUME Exists(Identity!Fd(c)), Identity!Advance(c), UNCHANGED <<Identity!host, fds>> PROVE IdentityInv'
    <2>1. calls[c].op = "launch" => Exists(calls[c].of)
      BY <1>1, <1>3, Acts DEF Knows, Identity!Fd
    <2>2. Head(calls[c].todo) \notin Readings \cup {"same", "image", "close", "present"}
      BY <1>1 DEF Readings
    <2> QED
      BY <1>1, <1>3, <2>1, <2>2, WorldStays, Advancing DEF IdentityInv
  <1> QED
    BY <1>2, <1>3 DEF Identity!Bound, Exists

\* The members of the leaf are listed.
LEMMA MembersStep ==
    ASSUME IdentityInv, Identity!IdentityAssumption, NEW c \in Callers, Identity!Members(c), misses' = misses
    PROVE  IdentityInv'
  <1>1. calls[c].todo # <<>> /\ Head(calls[c].todo) = "members" /\ saved' = saved
    BY DEF Identity!Members, Identity!At
  <1>2. CASE Identity!Fail(c)
    BY <1>1, <1>2, CallFails DEF IdentityInv
  <1>3. ASSUME Identity!Advance(c), UNCHANGED <<Identity!host, fds>> PROVE IdentityInv'
    BY <1>1, <1>3, WorldStays, Advancing DEF IdentityInv, Readings
  <1> QED
    BY <1>2, <1>3 DEF Identity!Members

\* A removal waits for the exit of its process.
LEMMA AwaitExitStep ==
    ASSUME IdentityInv, Identity!IdentityAssumption, NEW c \in Callers, Identity!AwaitExit(c), misses' = misses
    PROVE  IdentityInv'
  <1>1. calls[c].todo # <<>> /\ Head(calls[c].todo) = "exit" /\ UNCHANGED <<Identity!host, fds, saved>> /\ Identity!Advance(c)
    BY DEF Identity!AwaitExit, Identity!At
  <1> QED
    BY <1>1, WorldStays, Advancing DEF IdentityInv, Readings

\* A signal is sent.
LEMMA Hits ==
    ASSUME IdentityInv, Identity!IdentityAssumption, NEW c \in Callers, calls[c].todo # <<>>, Head(calls[c].todo) \in Acting,
           Exists(Identity!Fd(c)), World, fds' = fds, calls' = [calls EXCEPT ![c].hit = Identity!Fd(c), ![c].todo = Tail(@)]
    PROVE  IdentityInv'
  <1>1. Identity!Fd(c) = calls[c].of
    <2>1. Identity!Fd(c) \in {None, calls[c].of}
      BY Acts DEF Tells
    <2>2. ~Exists(None)
      BY DEF Exists, Identity!Exists, Identity!Born, Identity!Processes, Identity!IdentityAssumption
    <2> QED
      BY <2>1, <2>2
  <1>2. /\ calls' \in [Callers -> CallRecords] /\ calls'[c].todo = Tail(calls[c].todo)
        /\ calls'[c].ev = calls[c].ev /\ calls'[c].op = calls[c].op /\ calls'[c].of = calls[c].of
        /\ calls'[c].probing = calls[c].probing /\ calls'[c].hit = calls[c].of /\ calls'[c].verdict = calls[c].verdict
        /\ \A d \in Callers : d # c => calls'[d] = calls[d]
    <2>1. calls \in [Callers -> CallRecords] /\ calls[c] \in CallRecords /\ Tail(calls[c].todo) \in Seq(Identity!Steps)
      BY Acts DEF IdentityInv
    <2>2. calls' = [calls EXCEPT ![c].hit = calls[c].of, ![c].todo = Tail(calls[c].todo)]
      BY <1>1, <2>1 DEF CallRecords
    <2>3. calls[c].of \in Identity!Processes
      BY Acts
    <2> HIDE <1>1
    <2>4. \A k \in CallRecords : \A h \in Identity!Processes, t \in Seq(Identity!Steps) :
             [k EXCEPT !.hit = h, !.todo = t] \in CallRecords
      BY DEF CallRecords
    <2>5. calls'[c] = [calls[c] EXCEPT !.hit = calls[c].of, !.todo = Tail(calls[c].todo)]
          /\ \A d \in Callers : d # c => calls'[d] = calls[d]
      BY <2>1, <2>2
    <2>6. calls'[c] \in CallRecords
      BY <2>1, <2>3, <2>4, <2>5
    <2>7. calls' \in [Callers -> CallRecords]
      BY <2>1, <2>2, <2>6
    <2> QED
      BY <2>1, <2>5, <2>7 DEF CallRecords
  <1>3. Changed(c)
    BY <1>2 DEF Changed, IdentityInv
  <1>4. calls[c].op \in {"signal", "remove"}
    BY Acts DEF LaunchSteps, Acting
  <1>5. Knows(c)'
    <2>1. Knows(c) /\ Later /\ calls[c].op # None /\ fds'[c] = fds[c]
      BY Acts DEF World
    <2>2. Exists(calls[c].of)' => {fds'[c].handle, fds'[c].probe} \subseteq {calls[c].of, None}
      BY <1>2, <2>1 DEF Knows, Later
    <2>3. fds'[c].probe # None => calls'[c].probing
      BY <1>2, <2>1 DEF Knows
    <2> QED
      BY <1>2, <1>4, <2>1, <2>2, <2>3, KnowsOn
  <1> QED
    BY <1>2, <1>3, <1>5, StepOn DEF Readings, Acting

\* A signal is sent through the descriptor.
LEMMA DeliverStep ==
    ASSUME IdentityInv, Identity!IdentityAssumption, NEW c \in Callers, Identity!Deliver(c), misses' = misses
    PROVE  IdentityInv'
  <1>1. calls[c].todo # <<>> /\ Head(calls[c].todo) = "deliver" /\ saved' = saved
    BY DEF Identity!Deliver, Identity!At
  <1>2. CASE Identity!Fail(c)
    BY <1>1, <1>2, CallFails DEF IdentityInv
  <1>3. ASSUME Exists(Identity!Fd(c)), UNCHANGED <<Identity!host, fds>>,
               calls' = [calls EXCEPT ![c].hit = Identity!Fd(c), ![c].todo = Tail(@)]
        PROVE  IdentityInv'
    BY <1>1, <1>3, WorldStays, Hits DEF IdentityInv, Acting
  <1> QED
    BY <1>2, <1>3 DEF Identity!Deliver, Exists

\* A kill is sent through the descriptor.
LEMMA KillStep ==
    ASSUME IdentityInv, Identity!IdentityAssumption, NEW c \in Callers, Identity!Kill(c), misses' = misses
    PROVE  IdentityInv'
  <1>1. calls[c].todo # <<>> /\ Head(calls[c].todo) = "kill" /\ saved' = saved /\ UNCHANGED <<boot, tick, replacements>> /\ fds' = fds
    BY DEF Identity!Kill, Identity!At
  <1>2. ASSUME Exists(Identity!Fd(c)), process' = [process EXCEPT ![Identity!Fd(c)].life = "zombie"],
               calls' = [calls EXCEPT ![c].hit = Identity!Fd(c), ![c].todo = Tail(@)]
        PROVE  IdentityInv'
    <2>1. Identity!Fd(c) \in Born
      BY <1>2 DEF Exists, Identity!Exists, Born
    <2>2. HostInv' /\ Later
      <3> DEFINE p == Identity!Fd(c)
      <3>1. p \in Born /\ Exists(p) /\ process' = [process EXCEPT ![p].life = "zombie"]
        BY <1>2, <2>1
      <3> HIDE DEF p
      <3> QED
        BY <1>1, <3>1, HostEnds DEF IdentityInv
    <2>3. World
      BY <1>1, <2>2, SavedStays DEF World, IdentityInv
    <2> QED
      BY <1>1, <1>2, <2>3, Hits DEF Acting
  <1>3. ASSUME Identity!Advance(c), process' = process PROVE IdentityInv'
    <2>1. UNCHANGED Identity!host
      BY <1>1, <1>3 DEF Identity!host
    <2> QED
      BY <1>1, <1>3, <2>1, WorldStays, Advancing DEF IdentityInv, Readings
  <1> QED
    BY <1>2, <1>3 DEF Identity!Kill, Exists

\* A probe is closed, or a call is done.
LEMMA CloseStep ==
    ASSUME IdentityInv, Identity!IdentityAssumption, NEW c \in Callers, Identity!Close(c), misses' = misses
    PROVE  IdentityInv'
  <1>1. calls[c].todo # <<>> /\ Head(calls[c].todo) = "close" /\ UNCHANGED <<Identity!host, saved>>
    BY DEF Identity!Close, Identity!At
  <1>2. World
    BY <1>1, WorldStays DEF IdentityInv
  <1>3. ASSUME calls[c].probing, Identity!WithFd(c, None), NEW todo, Judged(todo) \/ todo = Tail(calls[c].todo),
               todo = Tail(calls[c].todo) \/ (todo # <<>> => Head(todo) \in Opening),
               calls' = [calls EXCEPT ![c].probing = FALSE, ![c].todo = todo]
        PROVE  IdentityInv'
    <2>1. calls[c].op \in {"signal", "remove"}
      BY <1>1, <1>3, Acts
    <2>2. todo \in Seq(Identity!Steps)
      BY <1>1, <1>3, Acts, JudgedProgram
    <2>3. /\ calls' \in [Callers -> CallRecords] /\ calls'[c].todo = todo
          /\ calls'[c].ev = calls[c].ev /\ calls'[c].op = calls[c].op /\ calls'[c].of = calls[c].of
          /\ calls'[c].probing = FALSE /\ calls'[c].hit = calls[c].hit /\ calls'[c].verdict = calls[c].verdict
          /\ \A d \in Callers : d # c => calls'[d] = calls[d]
      <3>1. calls \in [Callers -> CallRecords] /\ calls[c] \in CallRecords
        BY DEF IdentityInv
      <3> QED
        BY <1>3, <2>2, <3>1 DEF CallRecords
    <2>4. fds'[c].handle = fds[c].handle /\ fds'[c].probe = None /\ fds' \in [Callers -> Descriptors]
          /\ \A d \in Callers : d # c => fds'[d] = fds[d]
      BY <1>3 DEF Identity!WithFd, IdentityInv, Descriptors
    <2>5. Changed(c)
      BY <2>3, <2>4 DEF Changed
    <2>6. Knows(c)'
      <3>1. Knows(c) /\ Later /\ calls[c].op # None
        BY <1>1, <1>2, Acts DEF World
      <3>2. Exists(calls[c].of)' => {fds'[c].handle, fds'[c].probe} \subseteq {calls[c].of, None}
        BY <2>3, <2>4, <3>1 DEF Knows, Later
      <3> QED
        BY <2>1, <2>3, <2>4, <3>1, <3>2, KnowsOn
    <2>7. CASE todo = Tail(calls[c].todo)
      BY <1>1, <1>2, <2>3, <2>5, <2>6, <2>7, StepOn DEF Readings
    <2>8. CASE Judged(todo) /\ (todo # <<>> => Head(todo) \in Opening)
      <3>1. Program(c)'
        BY <2>1, <2>2, <2>3, <2>8, JudgedProgram, Identity!IdentityAssumption DEF Program, Judged, Identity!IdentityAssumption
      <3>2. Tells(c)'
        BY <2>3, <2>8 DEF Tells, Judging, Acting, Opening
      <3> QED
        BY <1>2, <2>5, <2>6, <3>1, <3>2, CallMoves
    <2> QED
      BY <1>3, <2>7, <2>8
  <1>4. Judged(Identity!Present) /\ Head(Identity!Present) \in Opening
    BY SignalPrograms DEF Starts, Judged
  <1>5. ASSUME NEW verdict \in {"error", "done"}, Identity!End(c, verdict) PROVE IdentityInv'
    BY <1>1, <1>2, <1>5, Acts, CallEnds
  <1>6. ASSUME calls[c].probing, Identity!WithFd(c, None),
               calls' = [calls EXCEPT ![c].probing = FALSE, ![c].todo = Tail(@)]
        PROVE  IdentityInv'
    <2>1. calls' = [calls EXCEPT ![c].probing = FALSE, ![c].todo = Tail(calls[c].todo)]
      BY <1>6 DEF IdentityInv, CallRecords
    <2> QED
      BY <1>3, <1>6, <2>1
  <1>7. ASSUME calls[c].probing, Identity!WithFd(c, None),
               calls' = [calls EXCEPT ![c].probing = FALSE, ![c].todo = Identity!Present]
        PROVE  IdentityInv'
    BY <1>3, <1>4, <1>7
  <1> QED
    BY <1>5, <1>6, <1>7 DEF Identity!Close

\* The reference of a launch is kept.
LEMMA SaveStep ==
    ASSUME IdentityInv, Identity!IdentityAssumption, NEW c \in Callers, Identity!Save(c), misses' = misses
    PROVE  IdentityInv'
  <1>1. calls[c].todo # <<>> /\ Head(calls[c].todo) = "save" /\ UNCHANGED <<Identity!host, fds>> /\ Identity!Advance(c)
        /\ saved' = saved \cup {[ev |-> calls[c].ev, of |-> calls[c].of, leaf |-> calls[c].leaf]}
    BY DEF Identity!Save, Identity!At
  <1>2. calls[c].op = "launch"
    BY <1>1, Acts DEF OtherSteps
  <1>3. calls[c].ev.start # 0
    <2>1. SUFFICES ASSUME calls[c].ev.start = 0 PROVE FALSE
      OBVIOUS
    <2>2. PICK j \in 1 .. Len(calls[c].todo) : calls[c].todo[j] = "image"
      BY <1>1, <1>2, <2>1, Acts DEF Knows
    <2>3. calls[c].todo[1] = "save" /\ Captured(calls[c].todo) /\ Len(calls[c].todo) \in Nat
      BY <1>1, Acts DEF Program
    <2>4. 1 \in 1 .. (j - 1)
      BY <2>2, <2>3
    <2> QED
      BY <2>2, <2>3, <2>4 DEF Captured, Readings
  <1>4. Names(calls[c].ev, calls[c].of) /\ calls[c].ev.exe = Identity!Shim /\ calls[c].ev.leaf = calls[c].leaf
        /\ calls[c].of \in Born /\ IsShim(calls[c].of) /\ calls[c].leaf \in Leaves
    BY <1>1, <1>2, <1>3, Acts DEF Knows, Identity!At, Names
  <1>5. SavedInv'
    <2> DEFINE r == [ev |-> calls[c].ev, of |-> calls[c].of, leaf |-> calls[c].leaf]
    <2>1. r \in Identity!References
      BY <1>1, <1>4, Acts DEF Identity!References, CallRecords
    <2>2. r.of \in Born /\ Names(r.ev, r.of) /\ r.ev.exe = Identity!Shim /\ r.ev.leaf = r.leaf /\ IsShim(r.of)
      BY <1>4
    <2>3. UNCHANGED <<process, replacements>> /\ Born' = Born /\ saved' = saved \cup {r}
      BY <1>1 DEF Identity!host, Born, Identity!Born
    <2> HIDE DEF r
    <2>4. \A s \in saved' : s.of \in Born /\ Names(s.ev, s.of) /\ s.ev.exe = Identity!Shim /\ s.ev.leaf = s.leaf /\ IsShim(s.of)
      BY <2>2, <2>3 DEF IdentityInv, SavedInv
    <2> QED
      BY <2>1, <2>3, <2>4 DEF IdentityInv, SavedInv, Names, IsShim
  <1>6. World
    BY <1>1, <1>5, HostStays DEF World, IdentityInv
  <1> QED
    BY <1>1, <1>6, Advancing DEF Readings

\* A system call fails in a way that says nothing.
LEMMA FaultStep ==
    ASSUME IdentityInv, Identity!IdentityAssumption, NEW c \in Callers, Identity!Fault(c)
    PROVE  IdentityInv'
  <1>1. calls[c].todo # <<>> /\ saved' = saved /\ misses' \in 0 .. IdentityFaults
    BY DEF Identity!Fault, IdentityInv, Identity!IdentityAssumption
  <1>2. CASE Identity!Fail(c)
    BY <1>1, <1>2, CallFails
  <1>3. ASSUME Head(calls[c].todo) \in {"kill", "exit"}, Identity!Advance(c), UNCHANGED <<Identity!host, fds>>
        PROVE  IdentityInv'
    BY <1>1, <1>3, WorldStays, Advancing DEF Readings
  <1>4. ASSUME NEW n \in 1 .. 3, <<Head(calls[c].todo), n>> \in {<<"stat", 3>>, <<"cgroup", 2>>, <<"exe", 1>>},
               UNCHANGED <<Identity!host, fds>>,
               calls' = [calls EXCEPT ![c].got = Identity!Unreadable, ![c].todo = Identity!Skip(c, n)]
        PROVE  IdentityInv'
    <2>1. Identity!Unreadable \in Failed /\ Identity!Unreadable # Identity!Gone
      BY DEF Failed, Identity!Unreadable, Identity!Gone, Identity!Blank
    <2>2. UNCHANGED <<Identity!host, fds, saved>>
      BY <1>1, <1>4
    <2> QED
      BY <1>1, <1>4, <2>1, <2>2, Misses
  <1> QED
    BY <1>2, <1>3, <1>4 DEF Identity!Fault

\* Every step of a call.
LEMMA StepStep ==
    ASSUME IdentityInv, Identity!IdentityAssumption, NEW c \in Callers, Identity!Step(c)
    PROVE  IdentityInv'
  <1>1. misses' = misses
    BY DEF Identity!Step, Identity!ReadStat, Identity!ReadCgroup, Identity!ReadExe, Identity!Reading, Identity!Same,
        Identity!Image, Identity!Decide, Identity!Recheck, Identity!OpenPidfd, Identity!Bound, Identity!Members,
        Identity!Deliver, Identity!Kill, Identity!AwaitExit, Identity!Close, Identity!Save
  <1> QED
    BY <1>1, ReadStatStep, ReadCgroupStep, ReadExeStep, SameStep, ImageStep, DecideStep, RecheckStep, OpenStep, BoundStep,
        MembersStep, DeliverStep, KillStep, AwaitExitStep, CloseStep, SaveStep DEF Identity!Step

\* A launch forks its child.
LEMMA LaunchCallStep ==
    ASSUME IdentityInv, Identity!IdentityAssumption, NEW c \in Callers, NEW pid \in Pids, NEW leaf \in Leaves,
           Identity!Launch(c, pid, leaf), misses' = misses
    PROVE  IdentityInv'
  <1>1. PICK p \in Identity!Processes :
           /\ Identity!Birth(p, pid, leaf, Identity!Shim)
           /\ fds' = [fds EXCEPT ![c].handle = p]
           /\ calls' = [calls EXCEPT ![c] = [Identity!Idle EXCEPT !.op = "launch", !.todo = Identity!Capture, !.of = p,
                                                !.leaf = leaf, !.ev.pid = pid]]
    BY DEF Identity!Launch
  <1>2. HostInv' /\ Later /\ p \in Born' /\ p \notin Born /\ process'[p] = Identity!Child(pid, leaf, Identity!Shim)
    BY <1>1, HostBirth DEF IdentityInv
  <1>3. World
    BY <1>2, SavedStays DEF World, IdentityInv, Identity!Launch
  <1>4. /\ calls'[c].op = "launch" /\ calls'[c].todo = Identity!Capture /\ calls'[c].of = p /\ calls'[c].leaf = leaf
        /\ calls'[c].ev.pid = pid /\ calls'[c].ev.start = 0 /\ calls'[c].probing = FALSE /\ calls'[c].hit = None
        /\ calls'[c].verdict = None /\ calls'[c].ev \in Identity!Evidences /\ calls'[c].got = Identity!Blank
        /\ \A d \in Callers : d # c => calls'[d] = calls[d]
    <2>1. Identity!Blank \in Identity!Evidences /\ Identity!Blank.start = 0
      BY BlankTyped
    <2>2. calls'[c] = [Identity!Idle EXCEPT !.op = "launch", !.todo = Identity!Capture, !.of = p, !.leaf = leaf, !.ev.pid = pid]
          /\ \A d \in Callers : d # c => calls'[d] = calls[d]
      BY <1>1 DEF IdentityInv
    <2>3. calls'[c].ev = [Identity!Blank EXCEPT !.pid = pid]
      BY <2>2 DEF Identity!Idle
    <2>4. calls'[c].ev \in Identity!Evidences /\ calls'[c].ev.pid = pid /\ calls'[c].ev.start = 0
      BY <2>1, <2>3 DEF Identity!Evidences
    <2> QED
      BY <2>2, <2>4 DEF Identity!Idle
  <1>5. calls' \in [Callers -> CallRecords]
    <2>1. Identity!Capture \in Seq(Identity!Steps)
      BY LaunchProgram DEF LaunchSteps
    <2>2. calls'[c] \in CallRecords
      <3>1. calls'[c] = [Identity!Idle EXCEPT !.op = "launch", !.todo = Identity!Capture, !.of = p,
                                                !.leaf = leaf, !.ev.pid = pid]
        BY <1>1 DEF IdentityInv
      <3>2. Identity!Blank \in Identity!Evidences
        BY BlankTyped
      <3> QED
        BY <1>4, <2>1, <3>1, <3>2 DEF CallRecords, Identity!Idle
    <2> QED
      BY <1>1, <2>2 DEF IdentityInv
  <1>6. fds'[c].handle = p /\ fds'[c].probe = None /\ fds' \in [Callers -> Descriptors]
        /\ \A d \in Callers : d # c => fds'[d] = fds[d]
    <2>1. fds[c].probe = None
      <3>1. Knows(c) /\ Program(c) /\ calls[c].op = None
        BY DEF IdentityInv, Identity!Launch
      <3>2. ~calls[c].probing
        BY <3>1 DEF Program, ClosesAfter
      <3> QED
        BY <3>1, <3>2 DEF Knows
    <2> QED
      BY <1>1, <2>1 DEF IdentityInv, Descriptors
  <1>7. Changed(c)
    BY <1>4, <1>5, <1>6 DEF Changed
  <1>8. Program(c)'
    <2>1. Identity!Capture \in Seq(Identity!Steps)
      BY LaunchProgram DEF LaunchSteps
    <2> QED
      BY <1>4, <2>1, LaunchProgram DEF Program, Identity!IdentityAssumption
  <1>9. Knows(c)'
    <2>1. process'[p].pid = pid /\ process'[p].leaf = leaf /\ process'[p].exe = Identity!Shim
      BY <1>2 DEF Identity!Child
    <2>2. p # None /\ None \notin {"absent", "removed", "launch"}
      BY DEF Identity!Processes, Identity!IdentityAssumption
    <2>3. \E i \in 1 .. Len(calls'[c].todo) : calls'[c].todo[i] = "image"
      BY <1>4, LaunchProgram
    <2> QED
      BY <1>2, <1>4, <1>6, <2>1, <2>2, <2>3 DEF Knows, IsShim
  <1>10. Tells(c)'
    BY <1>4, LaunchProgram DEF Tells, Judging, Acting
  <1> QED
    BY <1>3, <1>7, <1>8, <1>9, <1>10, CallMoves

\* A signal or a removal begins with a reference that was kept.
LEMMA ActStep ==
    ASSUME IdentityInv, Identity!IdentityAssumption, NEW c \in Callers, NEW r \in saved, NEW op \in {"signal", "remove"},
           NEW todo, Judged(todo), Starts(todo), Identity!Act(c, op, todo, r), misses' = misses
    PROVE  IdentityInv'
  <1>1. calls[c].op = None /\ UNCHANGED <<Identity!host, fds, saved>>
        /\ calls' = [calls EXCEPT ![c] = [Identity!Idle EXCEPT !.op = op, !.todo = todo, !.of = r.of, !.leaf = r.leaf, !.ev = r.ev]]
    BY DEF Identity!Act
  <1>2. World
    BY <1>1, WorldStays DEF IdentityInv
  <1>3. r \in Identity!References /\ r.of \in Born /\ Names(r.ev, r.of) /\ r.ev.exe = Identity!Shim /\ IsShim(r.of)
    BY DEF IdentityInv, SavedInv
  <1>4. todo \in Seq(Identity!Steps) /\ Captured(todo)
    BY JudgedProgram
  <1>5. /\ calls'[c].op = op /\ calls'[c].todo = todo /\ calls'[c].of = r.of /\ calls'[c].ev = r.ev
        /\ calls'[c].probing = FALSE /\ calls'[c].hit = None /\ calls'[c].verdict = None
        /\ \A d \in Callers : d # c => calls'[d] = calls[d]
    BY <1>1 DEF IdentityInv, Identity!Idle
  <1>6. calls' \in [Callers -> CallRecords]
    <2>1. calls'[c] = [Identity!Idle EXCEPT !.op = op, !.todo = todo, !.of = r.of, !.leaf = r.leaf, !.ev = r.ev]
      BY <1>1 DEF IdentityInv
    <2>2. Identity!Blank \in Identity!Evidences
      BY BlankTyped
    <2>3. calls'[c] \in CallRecords
      BY <1>3, <1>4, <2>1, <2>2, ZenonT(60) DEF CallRecords, Identity!Idle, Identity!References
    <2> QED
      BY <1>1, <2>3 DEF IdentityInv
  <1>7. Changed(c)
    BY <1>1, <1>5, <1>6 DEF Changed, IdentityInv
  <1>8. fds[c].handle = None /\ fds[c].probe = None
    <2>1. Knows(c) /\ Program(c) /\ calls[c].todo = <<>>
      BY <1>1 DEF IdentityInv, Program
    <2>2. ~calls[c].probing
      BY <2>1 DEF Program, ClosesAfter
    <2> QED
      BY <1>1, <2>1, <2>2 DEF Knows
  <1>9. Program(c)'
    BY <1>4, <1>5 DEF Program, Judged, Identity!IdentityAssumption
  <1>10. Knows(c)'
    <2>1. UNCHANGED <<process, replacements>> /\ Born' = Born
      BY <1>1 DEF Identity!host, Born, Identity!Born
    <2>2. r.of \in Born' /\ Names(calls[c].ev, calls[c].of)' /\ IsShim(calls[c].of)' /\ r.ev.pid = process'[r.of].pid
      BY <1>3, <1>5, <2>1 DEF Names, IsShim
    <2>3. None \notin {"absent", "removed"} /\ fds'[c].handle = None /\ fds'[c].probe = None
      BY <1>1, <1>8 DEF Identity!IdentityAssumption
    <2> QED
      BY <1>3, <1>5, <2>2, <2>3 DEF Knows
  <1>11. Tells(c)'
    <2>1. Head(todo) = todo[1]
      BY <1>4 DEF Starts
    <2> QED
      BY <1>5, <2>1 DEF Tells, Starts, Opening, Judging, Acting
  <1> QED
    BY <1>2, <1>7, <1>9, <1>10, <1>11, CallMoves

\* What happens on the host while no call moves.
LEMMA HostMoves ==
    ASSUME IdentityInv, Identity!IdentityAssumption, HostInv', Later, UNCHANGED <<saved, calls, fds, misses>>
    PROVE  IdentityInv'
  <1>1. SavedInv'
    BY SavedStays DEF IdentityInv
  <1>2. \A c \in Callers : Program(c)' /\ Knows(c)' /\ Tells(c)'
    BY CallStays DEF IdentityInv
  <1> QED
    BY <1>1, <1>2 DEF IdentityInv

\* The daemon forgets its calls.
LEMMA AllEnd ==
    ASSUME IdentityInv, Identity!IdentityAssumption, HostInv', Later, saved' = saved, misses' \in 0 .. IdentityFaults,
           Identity!NoCalls
    PROVE  IdentityInv'
  <1>1. SavedInv'
    BY SavedStays DEF IdentityInv
  <1>2. \A c \in Callers : calls'[c] = Identity!Idle /\ fds'[c] = [handle |-> None, probe |-> None]
    BY DEF Identity!NoCalls
  <1>3. Identity!Idle.todo = <<>> /\ Identity!Idle.op = None /\ Identity!Idle.hit = None /\ Identity!Idle.probing = FALSE
        /\ Identity!Idle.verdict = None
    BY DEF Identity!Idle
  <1>4. ASSUME NEW c \in Callers PROVE Program(c)' /\ Knows(c)' /\ Tells(c)'
    <2>4. calls'[c].todo = <<>> /\ calls'[c].op = None /\ calls'[c].probing = FALSE
      BY <1>2, <1>3
    <2>1. Program(c)'
      BY <2>4 DEF Program, Ordered, Probed, Captured, Identity!IdentityAssumption
    <2>2. Knows(c)'
      BY <1>2, <1>3 DEF Knows, Identity!IdentityAssumption
    <2>3. Tells(c)'
      BY <1>2, <1>3 DEF Tells
    <2> QED
      BY <2>1, <2>2, <2>3
  <1>5. calls' \in [Callers -> CallRecords] /\ fds' \in [Callers -> Descriptors]
    BY BlankTyped DEF Identity!NoCalls, Descriptors
  <1> QED
    BY <1>1, <1>4, <1>5 DEF IdentityInv

\* No step of the processes and their callers leaves the invariant.
LEMMA IdentityStep ==
    ASSUME IdentityInv, ProcessesAssumption, [Identity!Next]_identityVars
    PROVE  IdentityInv'
  <1>1. Identity!IdentityAssumption
    BY DEF ProcessesAssumption
  <1>2. ASSUME NEW c \in Callers, Identity!Step(c) \/ Identity!Fault(c) PROVE IdentityInv'
    BY <1>1, <1>2, StepStep, FaultStep
  <1>3. ASSUME NEW c \in Callers, NEW pid \in Pids, NEW leaf \in Leaves, Identity!Launch(c, pid, leaf) PROVE IdentityInv'
    BY <1>1, <1>3, LaunchCallStep DEF Identity!Launch
  <1>4. ASSUME NEW c \in Callers, NEW r \in saved, Identity!Signal(c, r) \/ Identity!Remove(c, r) PROVE IdentityInv'
    <2>1. misses' = misses
      BY <1>4 DEF Identity!Signal, Identity!Remove, Identity!Act
    <2>2. Identity!Act(c, "signal", Identity!SignalAction, r) \/ Identity!Act(c, "remove", Identity!RemoveAction, r)
      BY <1>4 DEF Identity!Signal, Identity!Remove
    <2> QED
      BY <1>1, <2>1, <2>2, SignalPrograms, ActStep
  <1>5. ASSUME NEW pid \in Pids, NEW leaf \in Leaves \cup {Identity!Elsewhere}, NEW exe \in {Identity!Shim, "other"},
               Identity!Spawn(pid, leaf, exe)
        PROVE  IdentityInv'
    <2>1. PICK p \in Identity!Processes : Identity!Birth(p, pid, leaf, exe)
      BY <1>5 DEF Identity!Spawn
    <2>2. HostInv' /\ Later
      BY <1>1, <2>1, HostBirth DEF IdentityInv
    <2> QED
      BY <1>1, <1>5, <2>2, HostMoves DEF Identity!Spawn
  <1>6. ASSUME NEW p \in Identity!Processes, Identity!Die(p) \/ Identity!Reap(p) PROVE IdentityInv'
    <2>1. /\ p \in Born /\ Exists(p) /\ UNCHANGED <<boot, tick, replacements, fds, saved, calls, misses>>
          /\ \E life \in {"zombie", "gone"} : process' = [process EXCEPT ![p].life = life]
      BY <1>6 DEF Identity!Die, Identity!Reap, Identity!Running, Identity!Exists, Exists, Born
    <2>2. HostInv' /\ Later
      BY <1>1, <2>1, HostEnds DEF IdentityInv
    <2> QED
      BY <1>1, <2>1, <2>2, HostMoves
  <1>7. CASE Identity!Replace
    BY <1>1, <1>7, HostReplaced, HostMoves DEF IdentityInv, Identity!Replace
  <1>8. CASE Identity!Restart
    <2>1. HostInv' /\ Later /\ misses' \in 0 .. IdentityFaults
      BY <1>1, <1>8, HostStays DEF IdentityInv, Identity!Restart, Identity!IdentityAssumption
    <2> QED
      BY <1>1, <1>8, <2>1, AllEnd DEF Identity!Restart
  <1>9. CASE Identity!Reboot
    <2>1. HostInv' /\ Later /\ misses' = misses
      BY <1>1, <1>9, HostReboots DEF IdentityInv, Identity!Reboot
    <2> QED
      BY <1>1, <1>9, <2>1, AllEnd DEF Identity!Reboot, IdentityInv
  <1>10. CASE UNCHANGED identityVars
    <2>1. HostInv' /\ Later
      BY <1>10, HostStays DEF identityVars, Identity!host, IdentityInv
    <2> QED
      BY <1>1, <1>10, <2>1, HostMoves DEF identityVars
  <1> QED
    BY <1>2, <1>3, <1>4, <1>5, <1>6, <1>7, <1>8, <1>9, <1>10 DEF Identity!Next

\* A step of the suite is one of the processes and their callers, or leaves them alone.
LEMMA SuiteIdentityStep == Next => [Identity!Next]_identityVars
  BY DEF Next

\* The invariant of the identity of a process holds in the suite.
LEMMA IdentityInvariant == Spec => []IdentityInv
  <1>1. ASSUME Init PROVE IdentityInv
    <2>1. Identity!Init /\ Identity!IdentityAssumption
      BY <1>1, ProcessesAssumption DEF Init, ProcessesAssumption
    <2>2. Born = {} /\ saved = {}
      BY <2>1 DEF Identity!Init, Born, Identity!Born
    <2>3. HostInv /\ SavedInv
      <3>1. \A p \in Identity!Processes : process[p] # None <=> p <= 0
        BY <2>1 DEF Identity!Init, Identity!Processes
      <3>2. 0 \in 0 .. MaxBirths /\ tick = 0 /\ boot \in 0 .. MaxReboots /\ replacements \in 0 .. MaxReplacements
        BY <2>1 DEF Identity!Init, Identity!IdentityAssumption
      <3>3. process \in [Identity!Processes -> Identity!Records \cup {None}]
        BY <2>1 DEF Identity!Init
      <3> QED
        BY <2>2, <3>1, <3>2, <3>3 DEF HostInv, SavedInv
    <2>4. \A c \in Callers : calls[c] = Identity!Idle /\ fds[c] = [handle |-> None, probe |-> None]
      BY <2>1 DEF Identity!Init
    <2>5. Identity!Idle.todo = <<>> /\ Identity!Idle.op = None /\ Identity!Idle.hit = None /\ Identity!Idle.probing = FALSE
          /\ Identity!Idle.verdict = None
      BY DEF Identity!Idle
    <2>6. ASSUME NEW c \in Callers PROVE Program(c) /\ Knows(c) /\ Tells(c)
      <3>4. calls[c].todo = <<>> /\ calls[c].op = None /\ calls[c].probing = FALSE
        BY <2>4, <2>5
      <3>1. Program(c)
        BY <2>1, <3>4 DEF Program, Ordered, Probed, Captured, Identity!IdentityAssumption
      <3>2. Knows(c)
        BY <2>1, <2>4, <2>5 DEF Knows, Identity!IdentityAssumption
      <3>3. Tells(c)
        BY <2>4, <2>5 DEF Tells
      <3> QED
        BY <3>1, <3>2, <3>3
    <2>7. calls \in [Callers -> CallRecords] /\ fds \in [Callers -> Descriptors] /\ misses \in 0 .. IdentityFaults
      BY <2>1, BlankTyped DEF Identity!Init, Descriptors, Identity!IdentityAssumption
    <2> QED
      BY <2>3, <2>6, <2>7 DEF IdentityInv
  <1>2. IdentityInv /\ [Next]_vars => IdentityInv'
    BY IdentityStep, SuiteIdentityStep, ProcessesAssumption DEF vars
  <1> QED
    BY <1>1, <1>2, PTL DEF Spec

\* The component counts as the library does.
LEMMA IdentityCardinality == \A S : Identity!Cardinality(S) = Cardinality(S)
  BY DEF Cardinality, Identity!Cardinality, IsFiniteSet, Identity!IsFiniteSet

\* Signal, openVerifiedProcessHandle and verifyLocked (isolation/process.go): however
\* the processes of the host end, are reaped and give their PID to another one
\* between two of its system calls, whatever fails, restarts and boots again, a
\* signal reaches the process whose evidence was kept; evidence is kept only of the
\* child that was forked, and a call that ended holds no descriptor.
THEOREM SignalsReachTheOwner == Spec => []SignalsTheOwner
  <1>1. ASSUME IdentityInv PROVE SignalsTheOwner
    <2>1. HostInv /\ SavedInv /\ \A c \in Callers : calls[c] \in CallRecords /\ Program(c) /\ Knows(c)
      BY <1>1 DEF IdentityInv
    <2>2. ASSUME NEW pid \in Pids PROVE Identity!Cardinality(Identity!Holders(pid)) <= 1
      <3>1. CASE Identity!Holders(pid) = {}
        BY <3>1, FS_EmptySet, IdentityCardinality
      <3>2. CASE Identity!Holders(pid) # {}
        <4>1. PICK p \in Identity!Holders(pid) : TRUE
          BY <3>2
        <4>2. Identity!Holders(pid) = {p}
          BY <2>1, <4>1 DEF HostInv, Identity!Holders, Born, Exists
        <4> QED
          BY <4>2, FS_Singleton, IdentityCardinality
      <3> QED
        BY <3>1, <3>2
    <2>3. boot \in 0 .. MaxReboots /\ tick \in 0 .. MaxBirths /\ replacements \in 0 .. MaxReplacements
          /\ misses \in 0 .. IdentityFaults
      BY <1>1, <2>1, ProcessesAssumption DEF HostInv, IdentityInv, ProcessesAssumption, Identity!IdentityAssumption
    <2>4. \A p \in Identity!Born : process[p] \in Identity!Records
      BY <2>1 DEF HostInv, Identity!Born
    <2>5. fds \in [Callers -> Descriptors] /\ saved \subseteq Identity!References
      BY <1>1 DEF IdentityInv, SavedInv
    <2>6. ASSUME NEW c \in Callers
          PROVE  /\ calls[c].op \in {None, "launch", "signal", "remove"} /\ calls[c].probing \in BOOLEAN
                 /\ \A k \in DOMAIN calls[c].todo : calls[c].todo[k] \in Identity!Steps
                 /\ calls[c].of \in Identity!Processes \cup {None} /\ calls[c].leaf \in Leaves \cup {None}
                 /\ calls[c].ev \in Identity!Evidences
                 /\ calls[c].got \in Identity!Evidences \cup {Identity!Gone, Identity!Unreadable}
                 /\ calls[c].verdict \in {None, "error", "absent", "removed", "done"}
                 /\ calls[c].hit \in Identity!Processes \cup {None}
      BY <2>1 DEF CallRecords
    <2>7. Identity!TypeOK
      BY <2>2, <2>3, <2>4, <2>5, <2>6 DEF Identity!TypeOK, Descriptors
    <2>8. Identity!SignalsTheOwner
      BY <2>1 DEF Knows, Identity!SignalsTheOwner
    <2>9. Identity!SavedNamesTheChild
      BY <2>1 DEF SavedInv, Names, Identity!SavedNamesTheChild
    <2>10. Identity!DescriptorsAreHeld
      BY <2>1 DEF Knows, Identity!DescriptorsAreHeld
    <2> QED
      BY <2>7, <2>8, <2>9, <2>10 DEF SignalsTheOwner
  <1> QED
    BY <1>1, IdentityInvariant, PTL

\* ProcessEvidencePresent and removeLauncherAction: as long as the executable of the
\* shim is not replaced, a process that is reported absent or removed has ended.
THEOREM AbsentHasEnded == Spec => []AbsentIsDead
  <1>1. IdentityInv => AbsentIsDead
    BY DEF IdentityInv, Knows, Running, AbsentIsDead, Identity!AbsentIsDead
  <1> QED
    BY <1>1, IdentityInvariant, PTL

=============================================================================
