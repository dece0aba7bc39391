------------------------ MODULE AttemptRecordProofs ------------------------
(***************************************************************************)
(* Proofs that the durable record of the Attempt follows its workload: the   *)
(* engine takes Coordinator steps only, no workload is forgotten and the      *)
(* record implements AttemptContract, for every set of operations.           *)
(*                                                                         *)
(* The first section is about the deadline of a kill: it counts from the first  *)
(* delivery of the signal, whoever resumes the kill.                           *)
(*                                                                         *)
(* Shape names what a step may do to the workload and to its record; Part 1   *)
(* shows that a step of such a shape keeps the invariant of the two.  Part 2  *)
(* shows that every step of the engine has such a shape, and that what a      *)
(* method under way knows stays true until it acts on it.  Part 3 adds that    *)
(* the stage of an operation claims nothing that did not happen.  Part 4 is    *)
(* about the exchange that brings a client's request to the daemon and its     *)
(* answer back: an operation ID is given one answer.                           *)
(***************************************************************************)
EXTENDS LifecycleProofs, MCAttempt

-----------------------------------------------------------------------------
(* The kill of an Attempt.                                                    *)

\* A kill waits and escalates with a durable deadline only, and its signal was
\* delivered when its checkpoint is due.
KillInv ==
    /\ call.pc = "checkpoint_signal" => sent[call.op].initial # None
    /\ call.pc \in {"wait", "escalate"} => deadline[call.op] # None
    /\ call.pc = "escalate" => now >= deadline[call.op]

GraceInv == EngineTypes /\ KillInv /\ DeadlineAnchored /\ EscalationAfterGrace

-----------------------------------------------------------------------------
(* The register. *)

\* The one Container of the engine, and its operations.
LEMMA Constants ==
    /\ Ctr \in Containers /\ Ctr \notin Sandboxes /\ Ctr \in Targets
    /\ StartOps \subseteq Ops /\ KillOps \subseteq Ops /\ StopOps \subseteq Ops
    /\ None \notin Ops /\ None \notin Nat
    /\ Grace \in Nat /\ MaxTime \in Nat /\ MaxFaults \in Nat /\ HostErrors \in BOOLEAN
  BY EngineAssumption, DistinctIDs DEF Targets

\* A method is under way exactly when the register says where it is.
LEMMA UnderWay ==
    ASSUME EngineTypes
    PROVE  /\ call \in Calls <=> call.pc \in PCs
           /\ call \in Calls => /\ call.op \in Ops /\ call.by \in Callers
                                /\ call.method \in Methods
           /\ call.pc = "idle" => call = Idle
  BY Constants DEF EngineTypes, Calls, Discovered, Idle, PCs, Callers, Methods

\* Go keeps caller, method and operation.
LEMMA GoTyped ==
    ASSUME call \in Calls, NEW pc \in PCs, NEW seen \in Seen \cup {"none"}, Go(pc, seen)
    PROVE  /\ call' \in Calls /\ call'.by = call.by /\ call'.method = call.method
           /\ call'.op = call.op /\ call'.pc = pc /\ call'.seen = seen
           /\ daemon' = daemon /\ known' = known
  BY DEF Go, Calls

\* A call of a method is one.
LEMMA EnterTyped ==
    ASSUME NEW by \in Callers, NEW method \in Methods, NEW o \in Ops, NEW pc \in PCs,
           Enter(by, method, o, pc)
    PROVE  /\ call' \in Calls /\ call'.by = by /\ call'.method = method
           /\ call'.op = o /\ call'.pc = pc /\ call'.seen = "none" /\ known' = known
  BY DEF Enter, Calls, Seen

\* A method returns, or recovery rechecks the Start that failed.
LEMMA ReturnTyped ==
    ASSUME call \in Calls, daemon \in DaemonStates, NEW result, Return(result)
    PROVE  /\ \/ call' = Idle
              \/ /\ call' \in Calls /\ call'.method = call.method /\ call'.op = call.op
                 /\ call'.pc = "recheck" /\ call'.seen = call.seen
           /\ daemon' \in DaemonStates /\ known' = known
  BY DEF Return, Calls, DaemonStates, PCs, Bad

\* What Observe of the runtime answers.
LEMMA SeenTyped ==
    /\ Observations \subseteq Seen
    /\ \A seen \in Observations : ~Bad(seen) => seen = Observed
    /\ Observed = "ended" => proc \in {"exited", "aborted"}
    /\ Observed = "running" => proc \in {"running", "reaped"}
  BY DEF Observations, Observed, Unavailable, Seen, Bad

-----------------------------------------------------------------------------
(* The grace period of a kill. *)

GracePCs == {"checkpoint_signal", "wait", "escalate"}

\* A step that leaves clock, deliveries and deadlines alone, and does not put a
\* method where KillInv speaks of it.
LEMMA QuietStep ==
    ASSUME GraceInv, EngineTypes', UNCHANGED <<sent, deadline, now>>,
           call' = call \/ call'.pc \notin GracePCs
    PROVE  GraceInv'
  BY DEF GraceInv, KillInv, DeadlineAnchored, EscalationAfterGrace, GracePCs

\* A step of a method that changes nothing but the register, the durable record
\* and the condition, and that stays clear of the places KillInv speaks of.
Clear == call'.pc \notin GracePCs /\ UNCHANGED <<sent, deadline, now>>

\* What a step leaves typed.
LEMMA Typed ==
    ASSUME EngineTypes, call' \in {Idle} \cup Calls \cup Discovered,
           daemon' \in DaemonStates, known' \in BOOLEAN, cond' \in Conditions,
           proc' \in ProcStates, exit' \in Outcomes,
           UNCHANGED <<sent, deadline, now, faults>>
    PROVE  EngineTypes'
  BY DEF EngineTypes

\* The places a method may go to.
LEMMA GoClear ==
    ASSUME EngineTypes, call \in Calls, NEW pc \in PCs \ GracePCs,
           NEW seen \in Seen \cup {"none"}, Go(pc, seen)
    PROVE  /\ call' \in Calls /\ call'.pc \notin GracePCs
           /\ daemon' \in DaemonStates /\ known' \in BOOLEAN
  BY GoTyped DEF EngineTypes

\* Behind its return a method waits for no grace.
LEMMA ReturnClear ==
    ASSUME EngineTypes, call \in Calls, NEW result, Return(result)
    PROVE  /\ call' \in {Idle} \cup Calls /\ call'.pc \notin GracePCs
           /\ daemon' \in DaemonStates /\ known' \in BOOLEAN
  BY ReturnTyped DEF EngineTypes, Idle, GracePCs

\* Nor does one that is entered elsewhere.
LEMMA EnterClear ==
    ASSUME EngineTypes, NEW by \in Callers, NEW method \in Methods, NEW o \in Ops,
           NEW pc \in PCs \ GracePCs, Enter(by, method, o, pc)
    PROVE  call' \in Calls /\ call'.pc \notin GracePCs /\ known' \in BOOLEAN
  BY EnterTyped DEF EngineTypes

\* A method at a place is under way.
LEMMA AtUnderWay ==
    ASSUME EngineTypes, NEW methods, NEW pc \in PCs, At(methods, pc)
    PROVE  /\ call \in Calls /\ call.method \in methods /\ call.pc = pc
           /\ call.op \in Ops /\ call.by \in Callers /\ call.seen \in Seen \cup {"none"}
  BY UnderWay DEF At, Calls

\* A step of Start stays clear of the grace of a kill.
LEMMA StartClear ==
    ASSUME EngineTypes, StartStep PROVE EngineTypes' /\ Clear
<1>0. "dispatch" \in PCs /\ "release" \in PCs /\ "releasing" \in PCs
      /\ "checkpoint_release" \in PCs /\ "checkpoint_observe" \in PCs /\ "clear" \in PCs
      /\ "record" \in PCs
  BY DEF PCs
<1>1. {"dispatch", "release", "releasing", "checkpoint_release", "checkpoint_observe",
       "clear", "record"} \subseteq PCs \ GracePCs
  BY DEF PCs, GracePCs
<1>t. /\ cond \in Conditions /\ proc \in ProcStates /\ exit \in Outcomes
      /\ "none" \in Conditions /\ "starting" \in ProcStates
  BY DEF EngineTypes, Conditions, ProcStates
<1>2. CASE StartAttach
  <2>1. call \in Calls
    BY <1>0, <1>2, AtUnderWay DEF StartAttach
  <2>2. UNCHANGED <<cond, proc, exit, sent, deadline, now, faults>>
    BY <1>2 DEF StartAttach, KeepNotes, Persists, ReadsOnly, durable, host
  <2>3. Go("dispatch", "none") \/ Return("unavailable")
    BY <1>2 DEF StartAttach, HostFails
  <2> QED BY <1>1, <1>t, <2>1, <2>2, <2>3, GoClear, ReturnClear, Typed DEF Clear
<1>3. CASE StartObserveBeforeRelease
  <2>1. call \in Calls
    BY <1>0, <1>3, AtUnderWay DEF StartObserveBeforeRelease
  <2>2. UNCHANGED <<cond, proc, exit, sent, deadline, now, faults>>
    BY <1>3 DEF StartObserveBeforeRelease, ReadsOnly, durable, host
  <2>3. PICK seen \in Observations : Return(seen) \/ Go("release", seen)
                                     \/ Go("checkpoint_release", seen)
    BY <1>3 DEF StartObserveBeforeRelease
  <2> QED BY <1>1, <1>t, <2>1, <2>2, <2>3, SeenTyped, GoClear, ReturnClear, Typed DEF Clear
<1>4. CASE ReleaseStartGate
  <2>1. call \in Calls
    BY <1>0, <1>4, AtUnderWay DEF ReleaseStartGate
  <2>2. UNCHANGED <<cond, exit, sent, deadline, now, faults>> /\ proc' \in {proc, "starting"}
    BY <1>4 DEF ReleaseStartGate, durable
  <2>3. Go("releasing", "none") \/ Return("unavailable")
    BY <1>4 DEF ReleaseStartGate, HostFails
  <2> QED BY <1>1, <1>t, <2>1, <2>2, <2>3, GoClear, ReturnClear, Typed DEF Clear
<1>5. CASE GateReleased
  <2>1. call \in Calls
    BY <1>0, <1>5, AtUnderWay DEF GateReleased
  <2>2. UNCHANGED <<cond, proc, exit, sent, deadline, now, faults>>
    BY <1>5 DEF GateReleased, ReadsOnly, durable, host
  <2>3. Observed \in Seen
    BY DEF Observed, Seen
  <2>4. \E seen \in Seen : Go("checkpoint_release", seen) \/ Return(seen)
    BY <1>5, <2>3, SeenTyped DEF GateReleased, Seen
  <2> QED BY <1>1, <1>t, <2>1, <2>2, <2>4, GoClear, ReturnClear, Typed DEF Clear
<1>6. CASE StartCheckpointRelease
  <2>1. call \in Calls
    BY <1>0, <1>6, AtUnderWay DEF StartCheckpointRelease
  <2>2. UNCHANGED <<cond, proc, exit, sent, deadline, now, faults>>
    BY <1>6 DEF StartCheckpointRelease, KeepNotes, Persists, host
  <2>3. Go("dispatch", "none")
    BY <1>6 DEF StartCheckpointRelease
  <2> QED BY <1>1, <1>t, <2>1, <2>2, <2>3, GoClear, Typed DEF Clear
<1>7. CASE StartObserve
  <2>1. call \in Calls
    BY <1>0, <1>7, AtUnderWay DEF StartObserve
  <2>2. UNCHANGED <<cond, proc, exit, sent, deadline, now, faults>>
    BY <1>7 DEF StartObserve, ReadsOnly, durable, host
  <2>3. PICK seen \in Observations : Return(seen) \/ Go("checkpoint_observe", seen)
    BY <1>7 DEF StartObserve
  <2> QED BY <1>1, <1>t, <2>1, <2>2, <2>3, SeenTyped, GoClear, ReturnClear, Typed DEF Clear
<1>8. CASE StartCheckpointObserve
  <2>1. call \in Calls /\ call.seen \in Seen \cup {"none"}
    BY <1>0, <1>8, AtUnderWay DEF StartCheckpointObserve
  <2>2. UNCHANGED <<cond, proc, exit, sent, deadline, now, faults>>
    BY <1>8 DEF StartCheckpointObserve, KeepNotes, Persists, host
  <2>3. Go("clear", call.seen) \/ Return("error")
    BY <1>8 DEF StartCheckpointObserve
  <2> QED BY <1>1, <1>t, <2>1, <2>2, <2>3, GoClear, ReturnClear, Typed DEF Clear
<1>9. CASE StartClearCondition
  <2>1. call \in Calls /\ call.seen \in Seen \cup {"none"}
    BY <1>0, <1>9, AtUnderWay DEF StartClearCondition
  <2>2. UNCHANGED <<proc, exit, sent, deadline, now, faults>> /\ cond' = "none"
    BY <1>9 DEF StartClearCondition, Persists, host
  <2>3. Go("record", call.seen)
    BY <1>9 DEF StartClearCondition
  <2> QED BY <1>1, <1>t, <2>1, <2>2, <2>3, GoClear, Typed DEF Clear
<1>10. CASE StartRecord
  <2>1. call \in Calls
    BY <1>0, <1>10, AtUnderWay DEF StartRecord
  <2>2. UNCHANGED <<cond, proc, exit, sent, deadline, now, faults>>
    BY <1>10 DEF StartRecord, KeepNotes, Persists, host
  <2>3. Return("ok") \/ Return("error")
    BY <1>10 DEF StartRecord
  <2> QED BY <1>1, <1>t, <2>1, <2>2, <2>3, ReturnClear, Typed DEF Clear
<1> QED BY <1>2, <1>3, <1>4, <1>5, <1>6, <1>7, <1>8, <1>9, <1>10 DEF StartStep

\* The parts of GraceInv that speak of one operation survive a step that does
\* not touch its delivery and deadline; a first delivery changes neither.
LEMMA KillSignalKeeps ==
    ASSUME GraceInv, KillSignal PROVE GraceInv'
<1> DEFINE o == call.op
           at == DeliveredAt(o)
<1>0. {"dispatch", "after_error", "checkpoint_signal"} \subseteq PCs
      /\ "after_error" \in PCs \ GracePCs
  BY DEF PCs, GracePCs
<1>1. call \in Calls /\ o \in Ops /\ EngineTypes
  BY <1>0, AtUnderWay DEF KillSignal, GraceInv
<1>2. UNCHANGED <<cond, deadline, proc, exit, now, faults>>
  BY DEF KillSignal, durable
<1>3. /\ sent \in [Ops -> [initial : Times \cup {None}, escalation : Times \cup {None}]]
      /\ now \in Times /\ deadline \in [Ops -> Nat \cup {None}]
      /\ cond \in Conditions /\ proc \in ProcStates /\ exit \in Outcomes
  BY <1>1 DEF EngineTypes
<1>4. at \in Times \cup {None} /\ (sent[o].initial # None => at = sent[o].initial)
  BY <1>1, <1>3 DEF DeliveredAt
<1>5. sent' \in {sent, [sent EXCEPT ![o].initial = at]}
  BY DEF KillSignal
<1>6. /\ sent' \in [Ops -> [initial : Times \cup {None}, escalation : Times \cup {None}]]
      /\ \A q \in Ops : /\ sent'[q].escalation = sent[q].escalation
                        /\ sent[q].initial # None => sent'[q].initial = sent[q].initial
  BY <1>1, <1>3, <1>4, <1>5
<1>7. \/ Go("checkpoint_signal", "none") /\ sent'[o].initial # None
      \/ Go("after_error", "error") \/ Go("after_error", "unavailable")
  <2>1. CASE at # None /\ sent' = [sent EXCEPT ![o].initial = at]
             /\ Go("checkpoint_signal", "none")
    BY <1>1, <1>3, <2>1
  <2> QED BY <2>1 DEF KillSignal
<1>8. /\ call' \in Calls /\ call'.op = o /\ daemon' \in DaemonStates /\ known' \in BOOLEAN
      /\ \/ call'.pc \notin GracePCs
         \/ call'.pc = "checkpoint_signal" /\ sent'[o].initial # None
  <2>1. CASE Go("checkpoint_signal", "none") /\ sent'[o].initial # None
    BY <1>0, <1>1, <2>1, GoTyped DEF EngineTypes
  <2>2. CASE Go("after_error", "error") \/ Go("after_error", "unavailable")
    <3>1. {"error", "unavailable"} \subseteq Seen \cup {"none"}
      BY DEF Seen
    <3> QED BY <1>0, <1>1, <2>2, <3>1, GoTyped DEF EngineTypes
  <2> QED BY <1>7, <2>1, <2>2
<1>9. EngineTypes'
  BY <1>1, <1>2, <1>3, <1>6, <1>8 DEF EngineTypes
<1>10. KillInv'
  BY <1>8 DEF KillInv, GracePCs
<1>11. DeadlineAnchored'
  BY <1>2, <1>6 DEF GraceInv, DeadlineAnchored
<1>12. EscalationAfterGrace'
  <2> SUFFICES ASSUME NEW q \in Ops, sent'[q].escalation # None
               PROVE  deadline'[q] # None /\ sent'[q].escalation >= sent'[q].initial + Grace
    BY DEF EscalationAfterGrace
  <2>1. deadline[q] # None /\ sent[q].escalation >= sent[q].initial + Grace
    BY <1>6 DEF GraceInv, EscalationAfterGrace
  <2>2. sent'[q].initial = sent[q].initial
    BY <1>6, <2>1 DEF GraceInv, DeadlineAnchored
  <2> QED BY <1>2, <1>6, <2>1, <2>2
<1> QED BY <1>9, <1>10, <1>11, <1>12 DEF GraceInv

\* The deadline is anchored at the delivery the wrapper stamped.
LEMMA KillCheckpointSignalKeeps ==
    ASSUME GraceInv, KillCheckpointSignal PROVE GraceInv'
<1> DEFINE o == call.op
<1>0. "checkpoint_signal" \in PCs /\ "wait" \in PCs
  BY DEF PCs
<1>1. call \in Calls /\ o \in Ops /\ call.pc = "checkpoint_signal" /\ EngineTypes
  BY <1>0, AtUnderWay DEF KillCheckpointSignal, GraceInv
<1>2. UNCHANGED <<cond, proc, exit, sent, now, faults>>
      /\ deadline' = [deadline EXCEPT ![o] = sent[o].initial + Grace]
  BY DEF KillCheckpointSignal, Persists, host
<1>3. /\ sent \in [Ops -> [initial : Times \cup {None}, escalation : Times \cup {None}]]
      /\ deadline \in [Ops -> Nat \cup {None}] /\ now \in Times
  BY <1>1 DEF EngineTypes
<1>4. sent[o].initial \in Nat /\ sent[o].initial + Grace \in Nat
  <2>1. sent[o].initial # None
    BY <1>1 DEF GraceInv, KillInv
  <2> QED BY <1>1, <1>3, <2>1, Constants DEF Times
<1>5. /\ deadline' \in [Ops -> Nat \cup {None}]
      /\ deadline'[o] # None /\ deadline'[o] = sent[o].initial + Grace
      /\ \A q \in Ops : q # o => deadline'[q] = deadline[q]
      /\ \A q \in Ops : deadline[q] # None => deadline'[q] # None
  BY <1>1, <1>2, <1>3, <1>4, Constants
<1>6. /\ call' \in {Idle} \cup Calls /\ daemon' \in DaemonStates /\ known' \in BOOLEAN
      /\ call'.pc \notin GracePCs \/ (call'.pc = "wait" /\ call'.op = o)
  <2>1. CASE Go("wait", "none")
    BY <1>0, <1>1, <2>1, GoTyped DEF EngineTypes
  <2>2. CASE Return("ok")
    BY <1>1, <2>2, ReturnClear
  <2> QED BY <2>1, <2>2 DEF KillCheckpointSignal
<1>7. EngineTypes'
  BY <1>1, <1>2, <1>3, <1>5, <1>6 DEF EngineTypes
<1>8. KillInv'
  BY <1>5, <1>6 DEF KillInv, GracePCs
<1>9. DeadlineAnchored'
  <2> SUFFICES ASSUME NEW q \in Ops, deadline'[q] # None
               PROVE  sent'[q].initial # None /\ deadline'[q] = sent'[q].initial + Grace
    BY DEF DeadlineAnchored
  <2>1. CASE q = o
    BY <1>1, <1>2, <1>4, <1>5, <2>1, Constants
  <2>2. CASE q # o
    BY <1>2, <1>5, <2>2 DEF GraceInv, DeadlineAnchored
  <2> QED BY <2>1, <2>2
<1>10. EscalationAfterGrace'
  BY <1>2, <1>5 DEF GraceInv, EscalationAfterGrace
<1> QED BY <1>7, <1>8, <1>9, <1>10 DEF GraceInv

\* The escalation is sent by a method whose deadline has come.
LEMMA KillEscalateKeeps ==
    ASSUME GraceInv, KillEscalate PROVE GraceInv'
<1> DEFINE o == call.op
           delivered == [sent EXCEPT ![o].escalation = IF @ = None THEN now ELSE @]
<1>0. "escalate" \in PCs /\ {"confirm", "after_error"} \subseteq PCs \ GracePCs
      /\ {"error", "unavailable"} \subseteq Seen
  BY DEF PCs, GracePCs, Seen
<1>1. call \in Calls /\ o \in Ops /\ call.pc = "escalate" /\ EngineTypes
  BY <1>0, AtUnderWay DEF KillEscalate, GraceInv
<1>2. UNCHANGED <<cond, deadline, proc, exit, now, faults>> /\ sent' \in {sent, delivered}
  BY DEF KillEscalate, durable
<1>3. /\ sent \in [Ops -> [initial : Times \cup {None}, escalation : Times \cup {None}]]
      /\ now \in Times /\ deadline \in [Ops -> Nat \cup {None}]
      /\ cond \in Conditions /\ proc \in ProcStates /\ exit \in Outcomes
  BY <1>1 DEF EngineTypes
<1>4. /\ sent' \in [Ops -> [initial : Times \cup {None}, escalation : Times \cup {None}]]
      /\ \A q \in Ops : /\ sent'[q].initial = sent[q].initial
                        /\ sent'[q].escalation = sent[q].escalation
                           \/ (q = o /\ sent'[q].escalation = now)
  BY <1>1, <1>2, <1>3
<1>5. /\ call' \in {Idle} \cup Calls /\ daemon' \in DaemonStates /\ known' \in BOOLEAN
      /\ call'.pc \notin GracePCs
  BY <1>0, <1>1, GoClear DEF KillEscalate
<1>6. EngineTypes'
  BY <1>1, <1>2, <1>3, <1>4, <1>5 DEF EngineTypes
<1>7. KillInv'
  BY <1>5 DEF KillInv, GracePCs
<1>8. DeadlineAnchored'
  BY <1>2, <1>4 DEF GraceInv, DeadlineAnchored
<1>9. EscalationAfterGrace'
  <2> SUFFICES ASSUME NEW q \in Ops, sent'[q].escalation # None
               PROVE  deadline'[q] # None /\ sent'[q].escalation >= sent'[q].initial + Grace
    BY DEF EscalationAfterGrace
  <2>1. CASE sent'[q].escalation = sent[q].escalation
    BY <1>2, <1>4, <2>1 DEF GraceInv, EscalationAfterGrace
  <2>2. CASE q = o /\ sent'[q].escalation = now
    <3>1. deadline[o] # None /\ now >= deadline[o]
      BY <1>1 DEF GraceInv, KillInv
    <3>2. deadline[o] = sent[o].initial + Grace
      BY <1>1, <3>1 DEF GraceInv, DeadlineAnchored
    <3> QED BY <1>1, <1>2, <1>4, <2>2, <3>1, <3>2
  <2> QED BY <1>4, <2>1, <2>2
<1> QED BY <1>6, <1>7, <1>8, <1>9 DEF GraceInv

\* A kill is resumed into its wait with the deadline that is durable.
LEMMA KillResumeStageKeeps ==
    ASSUME GraceInv, KillResumeStage PROVE GraceInv'
<1>0. {"dispatch", "wait"} \subseteq PCs /\ "checkpoint_end" \in PCs \ GracePCs
  BY DEF PCs, GracePCs
<1>1. call \in Calls /\ call.op \in Ops /\ EngineTypes
  BY <1>0, AtUnderWay DEF KillResumeStage, GraceInv
<1>2. UNCHANGED <<cond, deadline, proc, exit, sent, now, faults>>
  BY DEF KillResumeStage, ReadsOnly, durable, host
<1>3. \/ deadline[call.op] # None /\ Go("wait", "none")
      \/ \E seen \in Seen : Return(seen) \/ Go("checkpoint_end", seen)
  BY SeenTyped DEF KillResumeStage, Seen
<1>4. CASE deadline[call.op] # None /\ Go("wait", "none")
  <2>1. /\ call' \in Calls /\ call'.pc = "wait" /\ call'.op = call.op
        /\ daemon' \in DaemonStates /\ known' \in BOOLEAN
    BY <1>0, <1>1, <1>4, GoTyped DEF EngineTypes
  <2>2. EngineTypes'
    BY <1>1, <1>2, <2>1, Typed DEF EngineTypes
  <2>3. KillInv'
    BY <1>2, <1>4, <2>1 DEF KillInv
  <2> QED BY <1>2, <2>2, <2>3 DEF GraceInv, DeadlineAnchored, EscalationAfterGrace
<1>5. CASE \E seen \in Seen : Return(seen) \/ Go("checkpoint_end", seen)
  <2>1. /\ call' \in {Idle} \cup Calls /\ call'.pc \notin GracePCs
        /\ daemon' \in DaemonStates /\ known' \in BOOLEAN
    BY <1>0, <1>1, <1>5, GoClear, ReturnClear
  <2>2. EngineTypes'
    BY <1>1, <1>2, <2>1, Typed DEF EngineTypes
  <2> QED BY <1>2, <2>1, <2>2, QuietStep
<1> QED BY <1>3, <1>4, <1>5

\* The poll leaves a live workload alone until the deadline.
LEMMA KillWaitKeeps ==
    ASSUME GraceInv, KillWait PROVE GraceInv'
<1>0. {"wait", "escalate"} \subseteq PCs /\ "checkpoint_end" \in PCs \ GracePCs
  BY DEF PCs, GracePCs
<1>1. call \in Calls /\ call.op \in Ops /\ call.pc = "wait" /\ EngineTypes
  BY <1>0, AtUnderWay DEF KillWait, GraceInv
<1>2. UNCHANGED <<cond, deadline, proc, exit, sent, now, faults>>
  BY DEF KillWait, ReadsOnly, durable, host
<1>3. PICK seen \in Seen : \/ now >= deadline[call.op] /\ Go("escalate", seen)
                           \/ Return(seen) \/ Go("checkpoint_end", seen)
  BY SeenTyped DEF KillWait
<1>4. CASE now >= deadline[call.op] /\ Go("escalate", seen)
  <2>1. /\ call' \in Calls /\ call'.pc = "escalate" /\ call'.op = call.op
        /\ daemon' \in DaemonStates /\ known' \in BOOLEAN
    BY <1>0, <1>1, <1>4, GoTyped DEF EngineTypes
  <2>2. EngineTypes'
    BY <1>1, <1>2, <2>1, Typed DEF EngineTypes
  <2>3. KillInv'
    BY <1>1, <1>2, <1>4, <2>1 DEF GraceInv, KillInv
  <2> QED BY <1>2, <2>2, <2>3 DEF GraceInv, DeadlineAnchored, EscalationAfterGrace
<1>5. CASE Return(seen) \/ Go("checkpoint_end", seen)
  <2>1. /\ call' \in {Idle} \cup Calls /\ call'.pc \notin GracePCs
        /\ daemon' \in DaemonStates /\ known' \in BOOLEAN
    BY <1>0, <1>1, <1>5, GoClear, ReturnClear
  <2>2. EngineTypes'
    BY <1>1, <1>2, <2>1, Typed DEF EngineTypes
  <2> QED BY <1>2, <2>1, <2>2, QuietStep
<1> QED BY <1>3, <1>4, <1>5

\* The steps of Kill keep the grace.
LEMMA KillStepKeeps ==
    ASSUME GraceInv, KillStep PROVE GraceInv'
<1>0. {"after_error", "confirm", "checkpoint_end"} \subseteq PCs
      /\ "checkpoint_end" \in PCs \ GracePCs
  BY DEF PCs, GracePCs
<1>t. /\ EngineTypes /\ cond \in Conditions /\ proc \in ProcStates /\ exit \in Outcomes
  BY DEF GraceInv, EngineTypes
<1>1. CASE KillAfterError
  <2>1. call \in Calls
    BY <1>0, <1>1, <1>t, AtUnderWay DEF KillAfterError
  <2>2. UNCHANGED <<cond, proc, exit, sent, deadline, now, faults>>
    BY <1>1 DEF KillAfterError, ReadsOnly, durable, host
  <2>3. \/ \E seen \in Seen : Go("checkpoint_end", seen)
        \/ \E result \in {"ok", "error", "unavailable"} : Return(result)
    BY <1>1, SeenTyped DEF KillAfterError
  <2> QED BY <1>0, <1>t, <2>1, <2>2, <2>3, GoClear, ReturnClear, Typed, QuietStep
<1>2. CASE KillConfirm
  <2>1. call \in Calls
    BY <1>0, <1>2, <1>t, AtUnderWay DEF KillConfirm
  <2>2. UNCHANGED <<cond, proc, exit, sent, deadline, now, faults>>
    BY <1>2 DEF KillConfirm, ReadsOnly, durable, host
  <2>3. \E seen \in Seen : Go("checkpoint_end", seen) \/ Return(seen)
    BY <1>2, SeenTyped DEF KillConfirm, Seen
  <2> QED BY <1>0, <1>t, <2>1, <2>2, <2>3, GoClear, ReturnClear, Typed, QuietStep
<1> QED BY <1>1, <1>2, KillSignalKeeps, KillCheckpointSignalKeeps, KillResumeStageKeeps,
           KillWaitKeeps, KillEscalateKeeps DEF KillStep

\* The steps that record a natural stop keep it.
LEMMA RecordStepKeeps ==
    ASSUME GraceInv, RecordStep PROVE GraceInv'
<1>0. {"observe_end", "begin_stop", "checkpoint_end", "record_end"} \subseteq PCs \ GracePCs
  BY DEF PCs, GracePCs
<1>t. /\ EngineTypes /\ cond \in Conditions /\ proc \in ProcStates /\ exit \in Outcomes
      /\ known \in BOOLEAN /\ "retryable" \in Conditions
  BY DEF GraceInv, EngineTypes, Conditions
<1>1. CASE TerminalObserve
  <2>1. call \in Calls
    BY <1>0, <1>1, <1>t, AtUnderWay DEF TerminalObserve
  <2>2. UNCHANGED <<proc, exit, sent, deadline, now, faults>> /\ cond' \in {cond, "retryable"}
    BY <1>1 DEF TerminalObserve, Persists, host
  <2>3. \/ Recovered
        \/ \E seen \in Seen \cup {"ok"} : Return(seen)
        \/ Go("begin_stop", "ended")
    BY <1>1, SeenTyped DEF TerminalObserve, Seen
  <2>4. CASE Recovered
    <3>1. call' = Idle /\ daemon' \in DaemonStates /\ known' \in BOOLEAN
          /\ call'.pc \notin GracePCs
      BY <1>t, <2>4 DEF Recovered, DaemonStates, Idle, GracePCs
    <3> QED BY <1>t, <2>2, <3>1, Typed, QuietStep
  <2>5. CASE \E seen \in Seen \cup {"ok"} : Return(seen)
    BY <1>t, <2>1, <2>2, <2>5, ReturnClear, Typed, QuietStep
  <2>6. CASE Go("begin_stop", "ended")
    <3>1. "ended" \in Seen
      BY DEF Seen
    <3> QED BY <1>0, <1>t, <2>1, <2>2, <2>6, <3>1, GoClear, Typed, QuietStep
  <2> QED BY <2>3, <2>4, <2>5, <2>6
<1>2. CASE TerminalBegin
  <2>1. call \in Calls /\ call.seen \in Seen \cup {"none"}
    BY <1>0, <1>2, <1>t, AtUnderWay DEF TerminalBegin
  <2>2. UNCHANGED <<cond, proc, exit, sent, deadline, now, faults>>
    BY <1>2 DEF TerminalBegin, KeepNotes, Persists, host
  <2>3. Go("checkpoint_end", call.seen)
    BY <1>2 DEF TerminalBegin
  <2> QED BY <1>0, <1>t, <2>1, <2>2, <2>3, GoClear, Typed, QuietStep
<1>3. CASE CheckpointEnd
  <2>1. call \in Calls /\ call.seen \in Seen \cup {"none"}
    BY <1>0, <1>3, <1>t, AtUnderWay DEF CheckpointEnd
  <2>2. UNCHANGED <<cond, proc, exit, sent, deadline, now, faults>>
    BY <1>3 DEF CheckpointEnd, KeepNotes, Persists, host
  <2>3. Go("record_end", call.seen)
    BY <1>3 DEF CheckpointEnd
  <2> QED BY <1>0, <1>t, <2>1, <2>2, <2>3, GoClear, Typed, QuietStep
<1>4. CASE RecordEnd
  <2>1. call \in Calls
    BY <1>0, <1>4, <1>t, AtUnderWay DEF RecordEnd
  <2>2. UNCHANGED <<cond, proc, exit, sent, deadline, now, faults>>
    BY <1>4 DEF RecordEnd, KeepNotes, Persists, host
  <2>3. Return("ok")
    BY <1>4 DEF RecordEnd
  <2> QED BY <1>t, <2>1, <2>2, <2>3, ReturnClear, Typed, QuietStep
<1> QED BY <1>1, <1>2, <1>3, <1>4 DEF RecordStep

\* A method that is entered begins at a place KillInv does not speak of.
LEMMA EntryKeeps ==
    ASSUME GraceInv, NEW by \in Callers, NEW method \in Methods, NEW o \in Ops,
           NEW pc \in PCs \ GracePCs, Enter(by, method, o, pc),
           daemon' \in DaemonStates, cond' \in Conditions,
           UNCHANGED <<proc, exit, sent, deadline, now, faults>>
    PROVE  GraceInv'
<1>1. EngineTypes /\ proc \in ProcStates /\ exit \in Outcomes
  BY DEF GraceInv, EngineTypes
<1> QED BY <1>1, EnterClear, Typed, QuietStep

\* A step that leaves the register alone or clears it.
LEMMA ExitKeeps ==
    ASSUME GraceInv, call' = call \/ call' = Idle, daemon' \in DaemonStates,
           known' \in BOOLEAN, cond' \in Conditions,
           UNCHANGED <<proc, exit, sent, deadline, now>>, faults' \in 0 .. MaxFaults
    PROVE  GraceInv'
<1>1. EngineTypes'
  BY DEF GraceInv, EngineTypes
<1>2. call' = call \/ call'.pc \notin GracePCs
  BY DEF Idle, GracePCs
<1> QED BY <1>1, <1>2, QuietStep

\* Clients, watchers and recovery enter with it.
LEMMA EntriesKeep ==
    ASSUME GraceInv, NEW o \in Ops,
           \/ ClientStart(o) \/ ClientKill(o)
           \/ SynchronizeTerminals(o) \/ SynchronizeKillDeadlines(o)
    PROVE  GraceInv'
<1>0. {"dispatch", "observe_end"} \subseteq PCs \ GracePCs /\ {"client", "watch"} \subseteq Callers
      /\ {"start", "kill", "kill_initial", "terminal"} \subseteq Methods
      /\ "stopping" \in DaemonStates
  BY DEF PCs, GracePCs, Callers, Methods, DaemonStates
<1>t. /\ cond \in Conditions /\ daemon \in DaemonStates /\ known \in BOOLEAN
      /\ faults \in 0 .. MaxFaults
  BY DEF GraceInv, EngineTypes
<1>1. UNCHANGED <<cond, proc, exit, sent, deadline, now, faults>>
  BY DEF ClientStart, ClientKill, SynchronizeTerminals, SynchronizeKillDeadlines,
         ReadsOnly, Persists, KeepNotes, durable, host
<1>2. \/ UNCHANGED daemon /\ \E by \in {"client", "watch"}, method \in Methods,
                                pc \in {"dispatch", "observe_end"} : Enter(by, method, o, pc)
      \/ call' = call /\ known' = known /\ daemon' \in {daemon, "stopping"}
  BY <1>0 DEF ClientStart, ClientKill, SynchronizeTerminals, SynchronizeKillDeadlines, engine
<1> QED BY <1>0, <1>t, <1>1, <1>2, EntryKeeps, ExitKeeps

\* Discovery at the start of a daemon keeps it.
LEMMA DiscoverKeeps ==
    ASSUME GraceInv, Discover PROVE GraceInv'
<1>t. /\ EngineTypes /\ cond \in Conditions /\ proc \in ProcStates /\ exit \in Outcomes
      /\ known \in BOOLEAN /\ daemon \in DaemonStates /\ faults \in 0 .. MaxFaults
      /\ "refused" \in DaemonStates
  BY DEF GraceInv, EngineTypes, DaemonStates
<1>1. UNCHANGED <<cond, proc, exit, sent, deadline, now, faults>>
  BY DEF Discover, ReadsOnly, durable, host
<1>2. PICK presence \in Presences : \E seen \in DiscoverRunning(presence) :
          IF seen = "error"
          THEN daemon' = "refused" /\ UNCHANGED <<call, known>>
          ELSE /\ call' = [Idle EXCEPT !.by = "recover", !.pc = "reconcile",
                              !.seen = IF seen \in {"prepared", "starting"} THEN "running" ELSE seen]
               /\ known' = (presence = "present")
               /\ UNCHANGED daemon
  BY DEF Discover
<1>3. PICK seen \in DiscoverRunning(presence) :
          IF seen = "error"
          THEN daemon' = "refused" /\ UNCHANGED <<call, known>>
          ELSE /\ call' = [Idle EXCEPT !.by = "recover", !.pc = "reconcile",
                              !.seen = IF seen \in {"prepared", "starting"} THEN "running" ELSE seen]
               /\ known' = (presence = "present")
               /\ UNCHANGED daemon
  BY <1>2
<1>4. CASE seen = "error"
  BY <1>t, <1>1, <1>3, <1>4, ExitKeeps
<1>5. CASE seen # "error"
  <2>1. seen \in {"prepared", "starting", "running", "ended", "retryable", "clean",
                  "unknown", "absent"}
    BY <1>5, SeenTyped DEF DiscoverRunning, Seen
  <2>2. call' \in Discovered /\ call'.pc \notin GracePCs
    BY <1>3, <1>5, <2>1 DEF Discovered, Idle, GracePCs
  <2>3. known' \in BOOLEAN /\ daemon' \in DaemonStates
    BY <1>t, <1>3, <1>5
  <2> QED BY <1>t, <1>1, <2>2, <2>3, Typed, QuietStep
<1> QED BY <1>4, <1>5

\* The steps of recovery keep it.
LEMMA RecoverStepKeeps ==
    ASSUME GraceInv, RecoverStep PROVE GraceInv'
<1>0. /\ {"dispatch", "observe_end"} \subseteq PCs \ GracePCs
      /\ {"recover", "recover_again"} \subseteq Callers
      /\ {"start", "kill", "kill_initial", "terminal"} \subseteq Methods
      /\ {"refused", "up"} \subseteq DaemonStates /\ {"retryable", "blocked"} \subseteq Conditions
  BY DEF PCs, GracePCs, Callers, Methods, DaemonStates, Conditions
<1>t. /\ EngineTypes /\ cond \in Conditions /\ proc \in ProcStates /\ exit \in Outcomes
      /\ known \in BOOLEAN /\ daemon \in DaemonStates /\ faults \in 0 .. MaxFaults
  BY DEF GraceInv, EngineTypes
<1>e. ASSUME Recovered \/ Refuse
      PROVE  call' = Idle /\ daemon' \in DaemonStates /\ known' \in BOOLEAN
  BY <1>0, <1>t, <1>e DEF Recovered, Refuse
<1>1. CASE ReconcileCondition
  <2>1. UNCHANGED <<proc, exit, sent, deadline, now, faults>> /\ cond' \in Conditions /\ Recovered
    BY <1>0, <1>t, <1>1 DEF ReconcileCondition, Persists, host
  <2> QED BY <1>t, <1>e, <2>1, ExitKeeps
<1>2. ASSUME NEW o \in Ops, ReconcileIssue(o) PROVE GraceInv'
  <2>1. UNCHANGED <<proc, exit, sent, deadline, now, faults>> /\ cond' \in Conditions /\ Recovered
    BY <1>0, <1>2 DEF ReconcileIssue, ProjectRecoveryIssue, Persists, host
  <2> QED BY <1>t, <1>e, <2>1, ExitKeeps
<1>3. ASSUME NEW o \in Ops, ReconcileTerminal(o) \/ ReconcileActive(o) PROVE GraceInv'
  <2>1. UNCHANGED <<cond, proc, exit, sent, deadline, now, faults, daemon>>
    BY <1>3 DEF ReconcileTerminal, ReconcileActive, ReadsOnly, durable, host
  <2>2. Enter("recover", "terminal", o, "observe_end") \/ Enter("recover", "start", o, "dispatch")
    BY <1>3 DEF ReconcileTerminal, ReconcileActive
  <2> QED BY <1>0, <1>t, <2>1, <2>2, EntryKeeps
<1>4. ASSUME NEW o \in Ops, ReconcileActiveKill(o) PROVE GraceInv'
  <2>1. UNCHANGED <<proc, exit, sent, deadline, now, faults>> /\ cond' \in Conditions
    BY <1>0, <1>t, <1>4 DEF ReconcileActiveKill, RecoverKill, Persists, durable, host
  <2>2. \/ UNCHANGED daemon /\ (\/ Enter("recover", "kill_initial", o, "dispatch")
                                \/ Enter("recover", "kill", o, "dispatch"))
        \/ Recovered \/ Refuse
    BY <1>4 DEF ReconcileActiveKill, RecoverKill
  <2> QED BY <1>0, <1>t, <1>e, <2>1, <2>2, EntryKeeps, ExitKeeps
<1>5. CASE RecheckStart
  <2>1. call \in Calls /\ call.op \in Ops
    <3>1. "recheck" \in PCs
      BY DEF PCs
    <3> QED BY <1>5, <1>t, <3>1, UnderWay DEF RecheckStart
  <2>2. UNCHANGED <<proc, exit, sent, deadline, now, faults>> /\ cond' \in Conditions
    BY <1>0, <1>t, <1>5 DEF RecheckStart, ProjectRecoveryIssue, Persists, durable, host
  <2>3. \/ UNCHANGED daemon /\ Enter("recover_again", "start", call.op, "dispatch")
        \/ Recovered \/ Refuse
    BY <1>5 DEF RecheckStart
  <2> QED BY <1>0, <1>t, <1>e, <2>1, <2>2, <2>3, EntryKeeps, ExitKeeps
<1> QED BY <1>1, <1>2, <1>3, <1>4, <1>5, DiscoverKeeps DEF RecoverStep

\* The daemon, the wrapper and the clock.
LEMMA SurroundingsKeep ==
    ASSUME GraceInv, StartDaemon \/ StopDaemon \/ Crash \/ Abandon \/ HostStep \/ Tick
    PROVE  GraceInv'
<1>t. /\ EngineTypes /\ cond \in Conditions /\ proc \in ProcStates /\ exit \in Outcomes
      /\ known \in BOOLEAN /\ daemon \in DaemonStates /\ faults \in 0 .. MaxFaults
      /\ now \in Times /\ MaxFaults \in Nat /\ MaxTime \in Nat
      /\ call \in {Idle} \cup Calls \cup Discovered
  BY Constants DEF GraceInv, EngineTypes
<1>1. CASE StartDaemon \/ StopDaemon \/ Crash \/ Abandon
  <2>1. /\ UNCHANGED <<cond, proc, exit, sent, deadline, now>>
        /\ call' = call \/ call' = Idle
        /\ daemon' \in DaemonStates /\ known' \in BOOLEAN
    BY <1>t, <1>1 DEF StartDaemon, StopDaemon, Crash, Abandon, ReadsOnly, durable, host, DaemonStates
  <2>2. faults' \in 0 .. MaxFaults
    BY <1>t, <1>1 DEF StartDaemon, StopDaemon, Crash, Abandon, ReadsOnly
  <2> QED BY <1>t, <2>1, <2>2, ExitKeeps
<1>2. CASE HostStep
  <2>1. /\ UNCHANGED <<cond, call, daemon, known, sent, deadline, now, faults>>
        /\ proc' \in ProcStates /\ exit' \in Outcomes
    BY <1>t, <1>2 DEF HostStep, durable, engine, ProcStates, Outcomes, TerminalOutcomes
  <2> QED BY <1>t, <2>1, Typed, QuietStep
<1>3. CASE Tick
  <2>1. /\ UNCHANGED <<cond, call, daemon, known, sent, deadline, faults, proc, exit>>
        /\ now' = now + 1 /\ now < MaxTime
    BY <1>3 DEF Tick, durable, engine, host
  <2>2. now' \in Times /\ now' >= now
    BY <1>t, <2>1 DEF Times
  <2>3. EngineTypes'
    BY <1>t, <2>1, <2>2 DEF EngineTypes
  <2>4. KillInv'
    <3>1. call.pc = "escalate" => now' >= deadline[call.op]
      <4> SUFFICES ASSUME call.pc = "escalate" PROVE now' >= deadline[call.op]
        OBVIOUS
      <4>1. "escalate" \in PCs
        BY DEF PCs
      <4>2. call.op \in Ops
        BY <1>t, <4>1, UnderWay
      <4>3. deadline[call.op] \in Nat /\ now >= deadline[call.op]
        BY <1>t, <4>2 DEF GraceInv, KillInv, EngineTypes
      <4> QED BY <1>t, <2>1, <4>3 DEF Times
    <3> QED BY <2>1, <3>1 DEF GraceInv, KillInv
  <2> QED BY <2>1, <2>3, <2>4 DEF GraceInv, DeadlineAnchored, EscalationAfterGrace
<1> QED BY <1>1, <1>2, <1>3

\* No grace runs at first.
LEMMA GraceInit == EngineInit => GraceInv
<1> SUFFICES ASSUME EngineInit PROVE GraceInv
  OBVIOUS
<1>1. EngineTypes
  BY Constants DEF EngineInit, EngineTypes, Conditions, DaemonStates, ProcStates, Outcomes,
     Times
<1>2. \A o \in Ops : sent[o].escalation = None /\ deadline[o] = None
  BY DEF EngineInit
<1> QED BY <1>1, <1>2 DEF EngineInit, GraceInv, KillInv, Idle, DeadlineAnchored, EscalationAfterGrace

\* Every step of the engine keeps the grace.
LEMMA GraceStep == GraceInv /\ [EngineNext]_allVars => GraceInv'
<1> SUFFICES ASSUME GraceInv, [EngineNext]_allVars PROVE GraceInv'
  OBVIOUS
<1>1. CASE MethodStep
  <2>1. CASE StartStep
    BY <2>1, StartClear, QuietStep DEF GraceInv, Clear
  <2> QED BY <1>1, <2>1, KillStepKeeps, RecordStepKeeps DEF MethodStep
<1>2. CASE UNCHANGED allVars
  BY <1>2, QuietStep DEF allVars, durable, engine, host, GraceInv, EngineTypes
<1> QED BY <1>1, <1>2, EntriesKeep, RecoverStepKeeps, SurroundingsKeep DEF EngineNext

\* The grace period of a kill is anchored at the first delivery of its signal,
\* whatever answers are lost, whoever resumes it and however often the daemon
\* crashes (checkpoint.go:79).
THEOREM GraceAnchored == EngineSpec => []DeadlineAnchored
<1>1. GraceInv => DeadlineAnchored
  BY DEF GraceInv
<1> QED BY <1>1, GraceInit, GraceStep, PTL DEF EngineSpec

\* No escalation is delivered before the grace period is over
\* (container.go:308-332).
THEOREM NoEarlyEscalation == EngineSpec => []EscalationAfterGrace
<1>1. GraceInv => EscalationAfterGrace
  BY DEF GraceInv
<1> QED BY <1>1, GraceInit, GraceStep, PTL DEF EngineSpec

-----------------------------------------------------------------------------
(* The workload and its record.                                             *)

\* The wrapper has an outcome exactly when it says that the workload is over.
HostInv ==
    /\ exit # "none"
    /\ proc \in {"gated", "starting", "running", "reaped"} => exit = "pending"
    /\ proc = "exited" => exit \in TerminalOutcomes
    /\ proc = "aborted" => exit \in {"not_applicable", "unknown"}

\* The child was published once.
Published == proc \in {"running", "reaped", "exited", "lost"} /\ exit # "not_applicable"

EndPCs == {"begin_stop", "checkpoint_end", "record_end"}

\* What a method under way knows of its operation and of the host stays true
\* until it acts on it, although neither the wrapper nor the watchers wait.
CallInv ==
    /\ call \in Calls /\ call.method = "start" => call.op \in StartOps /\ Active(call.op)
    /\ call \in Calls /\ call.seen = "ended" => exit # "pending"
    /\ call \in Calls /\ call.seen = "running" => Published
    /\ call.pc \in EndPCs => call.seen = "ended"
    /\ call.pc = "reconcile" /\ call.seen = "absent" => proc = "lost"
    /\ call.pc = "recheck" => call.method = "start"

RunningInv == pair[Ctr].phase = "running" => Published

StartsByClients == \A o \in Ops : Active(o) /\ op[o].type = "start" => o \in StartOps

StopInv ==
    \A o \in Ops : Active(o) /\ op[o].type = "stop" =>
        op[o].fp.outcome = exit /\ exit # "pending"

RecordInv == RunningInv /\ StartsByClients /\ StopInv /\ WorkloadAccounted

AttemptInv == SafetyInv /\ GraceInv /\ HostInv /\ CallInv /\ RecordInv

(* The shapes of a step, as far as the workload and its record go.           *)

Still ==
    /\ UNCHANGED <<pair, proc, exit>>
    /\ \A q \in Ops : /\ op'[q].state = op[q].state /\ op'[q].type = op[q].type
                      /\ op'[q].fp = op[q].fp

\* The gate is consumed for an active Start.
Launches ==
    /\ UNCHANGED <<pair, op, exit>> /\ proc = "gated" /\ proc' = "starting"
    /\ \E o \in StartOps : Active(o)

Admitted(o) ==
    \/ op'[o].type = "start" /\ o \in StartOps
    \/ op'[o].type = "kill"
    \/ op'[o].type = "stop" /\ op'[o].fp.outcome = exit /\ exit # "pending"

\* A new operation, active or terminal at once.
Answers(o) ==
    /\ UNCHANGED <<pair, proc, exit>> /\ Others(o) /\ ~Active(o)
    /\ op'[o].state = "running" => Admitted(o)

\* Running is recorded.
Confirms(o) ==
    /\ UNCHANGED <<proc, exit>> /\ Ends(o) /\ Published
    /\ pair[Ctr].phase = "created" /\ pair'[Ctr].phase = "running"
    /\ pair'[Ctr].outcome = pair[Ctr].outcome

\* An end is recorded.
Concludes(o) ==
    /\ UNCHANGED <<proc, exit>> /\ Ends(o) /\ exit # "pending"
    /\ pair[Ctr].phase \in {"created", "running"} /\ pair'[Ctr].phase = "stopped"
    /\ pair'[Ctr].outcome = exit

\* Recovery gives an intent up because the wrapper is gone.
GivesUp(o) == UNCHANGED <<pair, proc, exit>> /\ Ends(o) /\ proc = "lost"

Shape ==
    \/ Still \/ Launches
    \/ UNCHANGED <<pair, op>> /\ HostStep
    \/ \E o \in Ops : Answers(o) \/ Confirms(o) \/ Concludes(o) \/ GivesUp(o)

\* A step of a known shape keeps the books of the host and of the record.
LEMMA ShapeKeeps ==
    ASSUME AttemptInv, Shape PROVE HostInv' /\ RecordInv'
<1>0. HostInv /\ RunningInv /\ StartsByClients /\ StopInv /\ WorkloadAccounted
      /\ StartOps \subseteq Ops
  BY Constants DEF AttemptInv, RecordInv
<1>1. CASE Still
  BY <1>0, <1>1 DEF Still, HostInv, RecordInv, RunningInv, StartsByClients, StopInv,
        WorkloadAccounted, Published, Active
<1>2. CASE Launches
  BY <1>0, <1>2 DEF Launches, HostInv, RecordInv, RunningInv, StartsByClients, StopInv,
        WorkloadAccounted, Published, Active
<1>3. CASE UNCHANGED <<pair, op>> /\ HostStep
  <2>1. HostInv'
    BY <1>0, <1>3 DEF HostStep, HostInv, TerminalOutcomes
  <2>2. RunningInv'
    BY <1>0, <1>3 DEF HostStep, HostInv, RunningInv, Published, TerminalOutcomes
  <2>3. exit' = exit \/ exit = "pending"
    BY <1>0, <1>3 DEF HostStep, HostInv
  <2>4. StartsByClients' /\ StopInv'
    BY <1>0, <1>3, <2>3 DEF StartsByClients, StopInv, Active
  <2>5. WorkloadAccounted'
    BY <1>0, <1>3 DEF HostStep, WorkloadAccounted, Active
  <2> QED BY <2>1, <2>2, <2>4, <2>5 DEF RecordInv
<1>4. ASSUME NEW o \in Ops, Answers(o) PROVE HostInv' /\ RecordInv'
  <2>1. HostInv' /\ RunningInv'
    BY <1>0, <1>4 DEF Answers, HostInv, RunningInv, Published
  <2>2. \A q \in Ops : Active(q) => op'[q] = op[q]
    BY <1>4 DEF Answers, Others
  <2>3. \A q \in Ops : Active(q)' => (op'[q] = op[q] /\ Active(q)) \/ (q = o /\ Admitted(o))
    BY <1>4 DEF Answers, Others, Active
  <2>4. StartsByClients'
    BY <1>0, <2>3 DEF StartsByClients, Admitted
  <2>5. StopInv'
    BY <1>0, <1>4, <2>3 DEF StopInv, Admitted, Answers
  <2>6. WorkloadAccounted'
    BY <1>0, <1>4, <2>2 DEF WorkloadAccounted, Answers, Active
  <2> QED BY <2>1, <2>4, <2>5, <2>6 DEF RecordInv
<1>5. ASSUME NEW o \in Ops, Confirms(o) \/ Concludes(o) \/ GivesUp(o)
      PROVE  HostInv' /\ RecordInv'
  <2>1. HostInv'
    BY <1>0, <1>5 DEF Confirms, Concludes, GivesUp, HostInv
  <2>2. RunningInv'
    BY <1>0, <1>5 DEF Confirms, Concludes, GivesUp, RunningInv, Published
  <2>3. UNCHANGED exit /\ \A q \in Ops : Active(q)' => op'[q] = op[q] /\ Active(q)
    BY <1>5 DEF Confirms, Concludes, GivesUp, Ends, Others, Active
  <2>4. StartsByClients' /\ StopInv'
    BY <1>0, <2>3 DEF StartsByClients, StopInv
  <2>5. WorkloadAccounted'
    BY <1>0, <1>5 DEF Confirms, Concludes, GivesUp, HostInv, WorkloadAccounted
  <2> QED BY <2>1, <2>2, <2>4, <2>5 DEF RecordInv
<1> QED BY <1>1, <1>2, <1>3, <1>4, <1>5 DEF Shape

-----------------------------------------------------------------------------
(* What a method under way knows. *)

Backed(seen) == (seen = "ended" => exit # "pending") /\ (seen = "running" => Published)

\* An observation is backed by the state of the wrapper.
LEMMA ObservationsBacked ==
    ASSUME HostInv, NEW seen \in Observations
    PROVE  Backed(seen)
  BY DEF HostInv, Observations, Observed, Unavailable, Backed, Published, TerminalOutcomes

\* So is the one a method remembers.
LEMMA CallBacked ==
    ASSUME AttemptInv, call \in Calls
    PROVE  /\ Backed(call.seen)
           /\ call.method = "start" => call.op \in StartOps /\ Active(call.op)
           /\ call.pc \in EndPCs => exit # "pending"
  BY DEF AttemptInv, CallInv, Backed

\* A method goes on with an observation that is backed.
LEMMA GoBacked ==
    ASSUME AttemptInv, call \in Calls, NEW pc \in PCs \ {"recheck"},
           NEW seen \in Seen \cup {"none"}, Go(pc, seen),
           Active(call.op) => op'[call.op].state = "running",
           seen \in {"ended", "running"} => Backed(seen) /\ UNCHANGED <<proc, exit>>,
           pc \in EndPCs => seen = "ended"
    PROVE  CallInv'
<1>1. /\ call' \in Calls /\ call'.method = call.method /\ call'.op = call.op
      /\ call'.pc = pc /\ call'.seen = seen
  BY GoTyped
<1>2. call.method = "start" => call.op \in StartOps /\ Active(call.op)
  BY CallBacked
<1>3. pc # "reconcile" /\ pc # "recheck"
  BY DEF PCs
<1> QED BY <1>1, <1>2, <1>3 DEF CallInv, Backed, Active, Published

\* A call that is over claims nothing.
LEMMA IdleBacked == call' = Idle => CallInv'
  BY DEF CallInv, Idle, Calls, PCs, EndPCs

\* A method returns; a Start that recovery rechecks is still active.
LEMMA ReturnBacked ==
    ASSUME AttemptInv, call \in Calls, NEW result, Return(result),
           Bad(result) => UNCHANGED <<op, proc, exit>>
    PROVE  CallInv'
<1>1. CASE call' = Idle
  BY <1>1, IdleBacked
<1>2. CASE call' # Idle
  <2>1. /\ call' = [call EXCEPT !.pc = "recheck"]
        /\ call.method = "start" /\ UNCHANGED <<op, proc, exit>>
    BY <1>2 DEF Return
  <2>2. /\ call'.method = "start" /\ call'.op = call.op /\ call'.seen = call.seen
        /\ call'.pc = "recheck"
    BY <2>1 DEF Calls
  <2>3. Backed(call.seen) /\ call.op \in StartOps /\ Active(call.op)
    BY <2>1, CallBacked
  <2> QED BY <2>1, <2>2, <2>3 DEF CallInv, Backed, Active, Published, EndPCs
<1> QED BY <1>1, <1>2

\* A method that is entered has seen nothing yet.
LEMMA EnterBacked ==
    ASSUME NEW by \in Callers, NEW method \in Methods, NEW o \in Ops,
           NEW pc \in {"dispatch", "observe_end"}, Enter(by, method, o, pc),
           method = "start" => o \in StartOps /\ Active(o)'
    PROVE  CallInv'
<1>1. pc \in PCs
  BY DEF PCs
<1>2. call'.method = method /\ call'.op = o /\ call'.pc = pc /\ call'.seen = "none"
  BY <1>1, EnterTyped
<1> QED BY <1>2 DEF CallInv, Active, EndPCs

\* Neither the wrapper nor the clock nor a watcher makes what it knows false.
LEMMA WaitingBacked ==
    ASSUME AttemptInv, UNCHANGED <<call, op>>, UNCHANGED <<proc, exit>> \/ HostStep
    PROVE  CallInv'
<1>1. CallInv /\ HostInv
  BY DEF AttemptInv
<1>2. Published => Published'
  BY <1>1 DEF HostStep, HostInv, Published, TerminalOutcomes
<1>3. (exit # "pending" => exit' # "pending") /\ (proc = "lost" => proc' = "lost")
  BY <1>1 DEF HostStep, HostInv
<1> QED BY <1>1, <1>2, <1>3 DEF CallInv, Active

-----------------------------------------------------------------------------
(* Part 2: the steps of the engine. *)

\* A checkpoint is a Coordinator step that leaves every binding as it is.
LEMMA CheckpointStill ==
    ASSUME AttemptInv, NEW o \in Ops, UNCHANGED <<proc, exit>>,
           \/ CheckpointAttach(o) \/ CheckpointRecoveryIssue(o)
           \/ \E stage \in Stages : CheckpointProcess(o, stage)
    PROVE  Next /\ Still
<1>1. Next
  BY DEF Next, OperationNext
<1>2. TypeOK
  BY DEF AttemptInv, SafetyInv
<1>3. PICK stage \in Stages, j \in Journals : CheckpointOperation(o, stage, j)
  BY <1>2, CheckpointKinds
<1>4. op[o] \in StoredOperation
  BY <1>2, <1>3, StoredRecords DEF TypeOK, CheckpointOperation, Active
<1>5. op' = [op EXCEPT ![o] = [op[o] EXCEPT !.stage = stage, !.journal = j]] /\ UNCHANGED pair
  BY <1>3 DEF CheckpointOperation
<1>6. \A q \in Ops : /\ op'[q].state = op[q].state /\ op'[q].type = op[q].type
                     /\ op'[q].fp = op[q].fp
  BY <1>2, <1>4, <1>5 DEF TypeOK, StoredOperation
<1> QED BY <1>1, <1>5, <1>6 DEF Still

\* Nothing durable happened.
LEMMA Nothing ==
    ASSUME UNCHANGED <<vars, proc, exit>>
    PROVE  [Next]_vars /\ Still
  BY DEF vars, Still

Follows == [Next]_vars /\ Shape /\ CallInv'

\* A step that only reads changes nothing durable.
LEMMA ReadingIsNothing == ReadsOnly => UNCHANGED <<vars, proc, exit>>
  BY DEF ReadsOnly, durable, host, vars

\* Every step of Start is a Coordinator step of a known shape and knows where it is.
LEMMA StartFollows ==
    ASSUME AttemptInv, StartStep PROVE Follows
<1>0. /\ EngineTypes /\ HostInv /\ TypeOK
      /\ {"dispatch", "release", "releasing", "checkpoint_release", "checkpoint_observe",
          "clear", "record"} \subseteq PCs \ ({"recheck"} \cup EndPCs)
  BY DEF AttemptInv, GraceInv, SafetyInv, PCs, EndPCs
<1>s. Still => Shape /\ (call.op \in Ops /\ Active(call.op) => op'[call.op].state = "running")
  BY DEF Still, Shape, Active
<1>c. \A seen \in Observations : Backed(seen)
  BY <1>0, ObservationsBacked
<1>1. CASE StartAttach
  <2>1. call \in Calls /\ call.op \in Ops
    BY <1>0, <1>1, AtUnderWay DEF StartAttach
  <2>2. CASE CheckpointAttach(call.op) /\ Go("dispatch", "none") /\ KeepNotes /\ Persists
    <3>1. UNCHANGED <<proc, exit>>
      BY <2>2 DEF Persists, host
    <3>2. Next /\ Still
      BY <2>1, <2>2, <3>1, CheckpointStill
    <3> QED BY <1>0, <1>s, <2>1, <2>2, <3>2, GoBacked DEF Follows
  <2>3. CASE Return("unavailable") /\ ReadsOnly
    BY <1>s, <2>1, <2>3, ReadingIsNothing, Nothing, ReturnBacked DEF Follows, vars
  <2> QED BY <1>1, <2>2, <2>3 DEF StartAttach, HostFails
<1>2. CASE StartObserveBeforeRelease
  <2>1. call \in Calls /\ call.op \in Ops
    BY <1>0, <1>2, AtUnderWay DEF StartObserveBeforeRelease
  <2>2. UNCHANGED <<vars, proc, exit>>
    BY <1>2, ReadingIsNothing DEF StartObserveBeforeRelease
  <2>3. PICK seen \in Observations : Return(seen) \/ Go("release", seen)
                                     \/ Go("checkpoint_release", seen)
    BY <1>2 DEF StartObserveBeforeRelease
  <2>4. CallInv'
    BY <1>0, <1>c, <1>s, <2>1, <2>2, <2>3, SeenTyped, Nothing, GoBacked, ReturnBacked DEF vars
  <2> QED BY <1>s, <2>2, <2>4, Nothing DEF Follows
<1>3. CASE ReleaseStartGate
  <2>1. call \in Calls /\ call.op \in Ops /\ call.method = "start"
    BY <1>0, <1>3, AtUnderWay DEF ReleaseStartGate
  <2>2. UNCHANGED <<vars, exit>>
    BY <1>3 DEF ReleaseStartGate, durable, vars
  <2>3. CASE proc = "gated" /\ proc' = "starting" /\ Go("releasing", "none")
    <3>1. call.op \in StartOps /\ Active(call.op)
      BY <2>1, CallBacked
    <3>2. Launches
      BY <2>2, <2>3, <3>1 DEF Launches, vars
    <3>3. CallInv'
      BY <1>0, <2>1, <2>2, <2>3, GoBacked DEF vars, Active
    <3> QED BY <2>2, <3>2, <3>3 DEF Follows, Shape
  <2>4. CASE UNCHANGED proc /\ (Go("releasing", "none") \/ Return("unavailable"))
    <3>1. CallInv'
      BY <1>0, <2>1, <2>2, <2>4, GoBacked, ReturnBacked DEF vars, Active
    <3> QED BY <1>s, <2>2, <2>4, <3>1, Nothing DEF Follows
  <2> QED BY <1>3, <2>3, <2>4 DEF ReleaseStartGate, HostFails
<1>4. CASE GateReleased
  <2>1. call \in Calls /\ call.op \in Ops
    BY <1>0, <1>4, AtUnderWay DEF GateReleased
  <2>2. UNCHANGED <<vars, proc, exit>>
    BY <1>4, ReadingIsNothing DEF GateReleased
  <2>3. \/ Return("error")
        \/ \E seen \in Observations : Return(seen) \/ Go("checkpoint_release", seen)
    BY <1>4 DEF GateReleased, Observations
  <2>4. CallInv'
    BY <1>0, <1>c, <1>s, <2>1, <2>2, <2>3, SeenTyped, Nothing, GoBacked, ReturnBacked DEF vars
  <2> QED BY <1>s, <2>2, <2>4, Nothing DEF Follows
<1>5. CASE StartCheckpointRelease
  <2>1. call \in Calls /\ call.op \in Ops
    BY <1>0, <1>5, AtUnderWay DEF StartCheckpointRelease
  <2>2. CheckpointProcess(call.op, "release_start_gate") /\ Go("dispatch", "none")
        /\ UNCHANGED <<proc, exit>>
    BY <1>5 DEF StartCheckpointRelease, Persists, host
  <2>3. Next /\ Still
    BY <2>1, <2>2, CheckpointStill DEF Stages
  <2> QED BY <1>0, <1>s, <2>1, <2>2, <2>3, GoBacked DEF Follows
<1>6. CASE StartObserve
  <2>1. call \in Calls /\ call.op \in Ops
    BY <1>0, <1>6, AtUnderWay DEF StartObserve
  <2>2. UNCHANGED <<vars, proc, exit>>
    BY <1>6, ReadingIsNothing DEF StartObserve
  <2>3. PICK seen \in Observations : Return(seen) \/ Go("checkpoint_observe", seen)
    BY <1>6 DEF StartObserve
  <2>4. CallInv'
    BY <1>0, <1>c, <1>s, <2>1, <2>2, <2>3, SeenTyped, Nothing, GoBacked, ReturnBacked DEF vars
  <2> QED BY <1>s, <2>2, <2>4, Nothing DEF Follows
<1>7. CASE StartCheckpointObserve
  <2>1. call \in Calls /\ call.op \in Ops /\ call.seen \in Seen \cup {"none"}
    BY <1>0, <1>7, AtUnderWay DEF StartCheckpointObserve
  <2>2. UNCHANGED <<proc, exit>> /\ Backed(call.seen)
    BY <1>7, <2>1, CallBacked DEF StartCheckpointObserve, Persists, host
  <2>3. CASE CheckpointProcess(call.op, "observe_process") /\ Go("clear", call.seen)
    <3>1. Next /\ Still
      BY <2>1, <2>2, <2>3, CheckpointStill DEF Stages
    <3> QED BY <1>0, <1>s, <2>1, <2>2, <2>3, <3>1, GoBacked DEF Follows
  <2>4. CASE UNCHANGED vars /\ (Go("clear", call.seen) \/ Return("error"))
    <3>1. CallInv'
      BY <1>0, <1>s, <2>1, <2>2, <2>4, Nothing, GoBacked, ReturnBacked DEF vars
    <3> QED BY <1>s, <2>2, <2>4, <3>1, Nothing DEF Follows
  <2> QED BY <1>7, <2>3, <2>4 DEF StartCheckpointObserve
<1>8. CASE StartClearCondition
  <2>1. call \in Calls /\ call.op \in Ops /\ call.seen \in Seen \cup {"none"}
    BY <1>0, <1>8, AtUnderWay DEF StartClearCondition
  <2>2. UNCHANGED <<vars, proc, exit>> /\ Go("record", call.seen)
    BY <1>8 DEF StartClearCondition, Persists, host
  <2>3. CallInv'
    BY <1>0, <1>s, <2>1, <2>2, Nothing, CallBacked, GoBacked
  <2> QED BY <1>s, <2>2, <2>3, Nothing DEF Follows
<1>9. CASE StartRecord
  <2>1. /\ call \in Calls /\ call.op \in Ops /\ Backed(call.seen)
    BY <1>0, <1>9, AtUnderWay, CallBacked DEF StartRecord
  <2>2. UNCHANGED <<proc, exit>> /\ Ctr \in Containers
    BY <1>9, Constants DEF StartRecord, Persists, host
  <2>3. CASE call.seen = "ended" /\ Return("ok")
             /\ RecordContainerStartTerminal(call.op, Ctr, exit, StartFailed)
    <3>1. exit # "pending" /\ exit \in TerminalOutcomes \cup {"not_applicable"}
      BY <1>0, <2>1, <2>3 DEF Backed, HostInv, EngineTypes, Outcomes
    <3>2. StartFailed \in BOOLEAN
      BY DEF StartFailed
    <3>3. Next
      BY <2>1, <2>2, <2>3, <3>1, <3>2 DEF Next, ContainerNext
    <3>4. Ends(call.op)
      BY <1>0, <2>1, <2>3, UpdateShapes DEF RecordContainerStartTerminal
    <3>5. pair[Ctr].phase = "created" /\ pair'[Ctr].phase = "stopped" /\ pair'[Ctr].outcome = exit
      <4>1. pair[Ctr].phase = "created" /\ pair[Ctr] \in StoredPair
            /\ pair' = [pair EXCEPT ![Ctr] = [pair[Ctr] EXCEPT !.phase = "stopped", !.outcome = exit]]
        BY <1>0, <2>2, <2>3, StoredRecords DEF RecordContainerStartTerminal, TypeOK
      <4> QED BY <1>0, <2>2, <4>1 DEF TypeOK, StoredPair
    <3>6. CallInv'
      BY <2>1, <2>3, ReturnBacked DEF Bad
    <3> QED BY <2>1, <2>2, <3>1, <3>3, <3>4, <3>5, <3>6 DEF Follows, Shape, Concludes
  <2>4. CASE call.seen = "running" /\ Return("ok") /\ ConfirmContainerStart(call.op, Ctr)
    <3>1. Published
      BY <2>1, <2>4 DEF Backed
    <3>3. Next
      BY <2>1, <2>2, <2>4 DEF Next, ContainerNext
    <3>4. Ends(call.op)
      BY <1>0, <2>1, <2>4, UpdateShapes DEF ConfirmContainerStart
    <3>5. /\ pair[Ctr].phase = "created" /\ pair'[Ctr].phase = "running"
          /\ pair'[Ctr].outcome = pair[Ctr].outcome
      <4>1. pair[Ctr].phase = "created" /\ pair[Ctr] \in StoredPair
            /\ pair' = [pair EXCEPT ![Ctr] = [pair[Ctr] EXCEPT !.phase = "running"]]
        BY <1>0, <2>2, <2>4, StoredRecords DEF ConfirmContainerStart, TypeOK
      <4> QED BY <1>0, <2>2, <4>1 DEF TypeOK, StoredPair
    <3>6. CallInv'
      BY <2>1, <2>4, ReturnBacked DEF Bad
    <3> QED BY <2>1, <2>2, <3>1, <3>3, <3>4, <3>5, <3>6 DEF Follows, Shape, Confirms
  <2>5. CASE Return("error") /\ UNCHANGED vars
    BY <1>s, <2>1, <2>2, <2>5, Nothing, ReturnBacked DEF Follows, vars
  <2> QED BY <1>9, <2>3, <2>4, <2>5 DEF StartRecord
<1> QED BY <1>1, <1>2, <1>3, <1>4, <1>5, <1>6, <1>7, <1>8, <1>9 DEF StartStep

\* A method works on the host, and goes on with what is backed or returns.
LEMMA WorkFollows ==
    ASSUME AttemptInv, call \in Calls, UNCHANGED <<vars, proc, exit>>,
           NEW result, NEW pc \in PCs \ {"recheck"}, NEW seen \in Seen \cup {"none"},
           Return(result) \/ Go(pc, seen), Backed(seen), pc \in EndPCs => seen = "ended"
    PROVE  Follows
<1>1. call.op \in Ops
  BY DEF Calls
<1>2. CallInv'
  BY <1>1, GoBacked, ReturnBacked DEF vars, Active
<1> QED BY <1>2, Nothing DEF Follows, Shape

\* So is every step of Kill.
LEMMA KillFollows ==
    ASSUME AttemptInv, KillStep PROVE Follows
<1>0. /\ EngineTypes /\ HostInv
      /\ {"dispatch", "after_error", "checkpoint_signal", "wait", "escalate", "confirm",
          "checkpoint_end"} \subseteq PCs \ {"recheck"}
      /\ {"wait", "escalate", "confirm", "after_error", "checkpoint_signal"} \cap EndPCs = {}
      /\ {"none", "ended", "error", "unavailable"} \subseteq Seen \cup {"none"}
  BY DEF AttemptInv, GraceInv, PCs, EndPCs, Seen
<1>b. Backed("none") /\ Backed("error") /\ Backed("unavailable")
  BY DEF Backed
<1>c. \A seen \in Observations : Backed(seen) /\ seen \in Seen
  BY <1>0, ObservationsBacked, SeenTyped
<1>1. CASE KillSignal \/ KillEscalate
  <2>1. call \in Calls
    BY <1>0, <1>1, AtUnderWay DEF KillSignal, KillEscalate
  <2>2. UNCHANGED <<vars, proc, exit>>
    BY <1>1 DEF KillSignal, KillEscalate, durable, vars
  <2>3. \E pc \in {"checkpoint_signal", "confirm", "after_error"},
           seen \in {"none", "error", "unavailable"} : Go(pc, seen)
    BY <1>1 DEF KillSignal, KillEscalate
  <2> QED BY <1>0, <1>b, <2>1, <2>2, <2>3, WorkFollows
<1>2. CASE KillCheckpointSignal
  <2>1. call \in Calls /\ call.op \in Ops
    BY <1>0, <1>2, AtUnderWay DEF KillCheckpointSignal
  <2>2. CheckpointProcess(call.op, "signal_process") /\ UNCHANGED <<proc, exit>>
        /\ (Go("wait", "none") \/ Return("ok"))
    BY <1>2 DEF KillCheckpointSignal, Persists, host
  <2>3. Next /\ Still
    BY <2>1, <2>2, CheckpointStill DEF Stages
  <2>4. CallInv'
    BY <1>0, <2>1, <2>2, <2>3, GoBacked, ReturnBacked DEF Still, Active, Bad
  <2> QED BY <2>3, <2>4 DEF Follows, Shape
<1>3. CASE KillAfterError
  <2>1. call \in Calls
    BY <1>0, <1>3, AtUnderWay DEF KillAfterError
  <2>2. UNCHANGED <<vars, proc, exit>>
    BY <1>3, ReadingIsNothing DEF KillAfterError
  <2>3. \/ "ended" \in Observations /\ Go("checkpoint_end", "ended")
        \/ \E result \in {"ok", "error", "unavailable"} : Return(result)
    BY <1>3 DEF KillAfterError
  <2> QED BY <1>0, <1>b, <1>c, <2>1, <2>2, <2>3, WorkFollows
<1>4. CASE KillResumeStage
  <2>1. call \in Calls
    BY <1>0, <1>4, AtUnderWay DEF KillResumeStage
  <2>2. UNCHANGED <<vars, proc, exit>>
    BY <1>4, ReadingIsNothing DEF KillResumeStage
  <2>3. \/ Go("wait", "none")
        \/ "ended" \in Observations /\ Go("checkpoint_end", "ended")
        \/ \E result \in Observations \cup {"error"} : Return(result)
    BY <1>4 DEF KillResumeStage
  <2> QED BY <1>0, <1>b, <1>c, <2>1, <2>2, <2>3, WorkFollows
<1>5. CASE KillWait \/ KillConfirm
  <2>1. call \in Calls
    BY <1>0, <1>5, AtUnderWay DEF KillWait, KillConfirm
  <2>2. UNCHANGED <<vars, proc, exit>>
    BY <1>5, ReadingIsNothing DEF KillWait, KillConfirm
  <2>3. \/ \E seen \in Observations : \/ Go("escalate", seen) \/ Return(seen)
                                      \/ seen = "ended" /\ Go("checkpoint_end", seen)
        \/ Return("error")
    BY <1>5 DEF KillWait, KillConfirm
  <2> QED BY <1>0, <1>b, <1>c, <2>1, <2>2, <2>3, WorkFollows
<1> QED BY <1>1, <1>2, <1>3, <1>4, <1>5 DEF KillStep

\* The end of a Running Attempt is recorded with the outcome of the wrapper.
LEMMA EndRecorded ==
    ASSUME AttemptInv, call \in Calls, UNCHANGED <<proc, exit>>, exit # "pending",
           RecordStopped(call.op, Ctr) \/ RecordKillStopped(call.op, Ctr, exit)
    PROVE  Next /\ Concludes(call.op)
<1>0. /\ TypeOK /\ EngineTypes /\ HostInv /\ RunningInv /\ StopInv
      /\ call.op \in Ops /\ Ctr \in Containers
  BY Constants DEF AttemptInv, GraceInv, SafetyInv, RecordInv, Calls
<1>1. pair[Ctr].phase = "running" /\ pair[Ctr] \in StoredPair
  BY <1>0, StoredRecords DEF RecordStopped, RecordKillStopped, TypeOK
<1>2. exit \in TerminalOutcomes
  BY <1>0, <1>1 DEF HostInv, RunningInv, Published, EngineTypes, Outcomes
<1>3. Next
  BY <1>0, <1>2 DEF Next, ContainerNext
<1>4. Ends(call.op)
  BY <1>0, UpdateShapes DEF RecordStopped, RecordKillStopped
<1>5. pair' = [pair EXCEPT ![Ctr] = [pair[Ctr] EXCEPT !.phase = "stopped", !.outcome = exit]]
  <2>1. RecordStopped(call.op, Ctr) => op[call.op].fp.outcome = exit
    BY <1>0 DEF RecordStopped, ResolveResume, StopInv
  <2> QED BY <2>1 DEF RecordStopped, RecordKillStopped
<1>6. pair'[Ctr].phase = "stopped" /\ pair'[Ctr].outcome = exit
  BY <1>0, <1>1, <1>5 DEF TypeOK, StoredPair
<1> QED BY <1>1, <1>3, <1>4, <1>6 DEF Concludes

\* A natural stop is opened with the outcome of the wrapper.
LEMMA StopOpened ==
    ASSUME AttemptInv, NEW o \in Ops, UNCHANGED <<proc, exit>>, exit # "pending",
           BeginRecordStopped(o, Ctr, exit)
    PROVE  Next /\ Answers(o) /\ op'[o].state = "running"
<1>0. /\ TypeOK /\ EngineTypes /\ HostInv /\ RunningInv /\ Ctr \in Containers
  BY Constants DEF AttemptInv, GraceInv, SafetyInv, RecordInv
<1>1. exit \in TerminalOutcomes
  BY <1>0 DEF HostInv, RunningInv, Published, EngineTypes, Outcomes, BeginRecordStopped
<1>2. Next
  BY <1>0, <1>1 DEF Next, ContainerNext
<1>3. PutNewActive(o, StopObserved(Ctr, exit)) /\ op[o].state = "unused" /\ UNCHANGED pair
  BY DEF BeginRecordStopped, ResolveNew
<1>4. /\ op'[o].state = "running" /\ op'[o].type = "stop" /\ op'[o].fp.outcome = exit
      /\ Others(o)
  BY <1>0, <1>3 DEF PutNewActive, StopObserved, Binding, NoInput, Others, TypeOK
<1> QED BY <1>2, <1>3, <1>4 DEF Answers, Admitted, Active

\* So is every step that records a natural stop.
LEMMA RecordFollows ==
    ASSUME AttemptInv, RecordStep PROVE Follows
<1>0. /\ EngineTypes /\ HostInv /\ "observe_end" \in PCs
      /\ {"begin_stop", "checkpoint_end", "record_end"} \subseteq PCs \ {"recheck"}
      /\ {"begin_stop", "checkpoint_end", "record_end"} = EndPCs
      /\ {"none", "ended"} \subseteq Seen \cup {"none"}
  BY DEF AttemptInv, GraceInv, PCs, EndPCs, Seen
<1>e. ASSUME call.pc \in EndPCs PROVE call.seen = "ended" /\ Backed("ended") /\ exit # "pending"
  BY <1>0, <1>e, UnderWay DEF AttemptInv, CallInv, Backed
<1>1. CASE TerminalObserve
  <2>1. call \in Calls
    BY <1>0, <1>1, AtUnderWay DEF TerminalObserve
  <2>2. UNCHANGED <<vars, proc, exit>>
    BY <1>1 DEF TerminalObserve, Persists, host
  <2>3. \/ call' = Idle
        \/ "ended" \in Observations /\ Go("begin_stop", "ended")
        \/ \E result \in Observations \cup {"ok", "error"} : Return(result)
    BY <1>1 DEF TerminalObserve, Recovered
  <2>4. CASE call' = Idle
    BY <2>2, <2>4, Nothing, IdleBacked DEF Follows, Shape
  <2>5. CASE "ended" \in Observations /\ Go("begin_stop", "ended")
    BY <1>0, <2>1, <2>2, <2>5, ObservationsBacked, WorkFollows
  <2>6. ASSUME NEW result \in Observations \cup {"ok", "error"}, Return(result) PROVE Follows
    <3>1. CallInv'
      BY <2>1, <2>2, <2>6, ReturnBacked DEF vars
    <3> QED BY <2>2, <3>1, Nothing DEF Follows, Shape
  <2> QED BY <2>3, <2>4, <2>5, <2>6
<1>2. CASE TerminalBegin
  <2>1. call \in Calls /\ call.op \in Ops /\ call.pc \in EndPCs
    BY <1>0, <1>2, AtUnderWay DEF TerminalBegin
  <2>2. /\ call.seen = "ended" /\ Backed("ended") /\ exit # "pending"
        /\ UNCHANGED <<proc, exit>> /\ Go("checkpoint_end", "ended")
    BY <1>2, <1>e, <2>1 DEF TerminalBegin, Persists, host
  <2>3. CASE BeginRecordStopped(call.op, Ctr, exit)
    <3>1. Next /\ Answers(call.op) /\ op'[call.op].state = "running"
      BY <2>1, <2>2, <2>3, StopOpened
    <3>2. CallInv'
      BY <1>0, <2>1, <2>2, <3>1, GoBacked
    <3> QED BY <2>1, <3>1, <3>2 DEF Follows, Shape
  <2>4. CASE UNCHANGED vars
    BY <1>0, <2>1, <2>2, <2>4, WorkFollows
  <2> QED BY <1>2, <2>3, <2>4 DEF TerminalBegin
<1>3. CASE CheckpointEnd
  <2>1. call \in Calls /\ call.op \in Ops /\ call.pc \in EndPCs
    BY <1>0, <1>3, AtUnderWay DEF CheckpointEnd
  <2>2. /\ call.seen = "ended" /\ Backed("ended")
        /\ UNCHANGED <<proc, exit>> /\ Go("record_end", "ended")
    BY <1>3, <1>e, <2>1 DEF CheckpointEnd, Persists, host
  <2>3. CASE CheckpointProcess(call.op, "observe_process")
    <3>1. Next /\ Still
      BY <2>1, <2>2, <2>3, CheckpointStill DEF Stages
    <3>2. CallInv'
      BY <1>0, <2>1, <2>2, <3>1, GoBacked DEF Still, Active
    <3> QED BY <3>1, <3>2 DEF Follows, Shape
  <2>4. CASE UNCHANGED vars
    BY <1>0, <2>1, <2>2, <2>4, WorkFollows
  <2> QED BY <1>3, <2>3, <2>4 DEF CheckpointEnd
<1>4. CASE RecordEnd
  <2>1. call \in Calls /\ call.op \in Ops /\ call.pc \in EndPCs
    BY <1>0, <1>4, AtUnderWay DEF RecordEnd
  <2>2. exit # "pending" /\ UNCHANGED <<proc, exit>> /\ Return("ok")
        /\ (RecordStopped(call.op, Ctr) \/ RecordKillStopped(call.op, Ctr, exit))
    BY <1>4, <1>e, <2>1 DEF RecordEnd, Persists, host
  <2>3. Next /\ Concludes(call.op)
    BY <2>1, <2>2, EndRecorded
  <2>4. CallInv'
    BY <2>1, <2>2, ReturnBacked DEF Bad
  <2> QED BY <2>1, <2>3, <2>4 DEF Follows, Shape
<1> QED BY <1>1, <1>2, <1>3, <1>4 DEF RecordStep

\* An operation that is opened with a request, or recorded terminal at once.
LEMMA RequestAnswered ==
    ASSUME AttemptInv, NEW o \in Ops, UNCHANGED <<proc, exit, pair>>, op[o].state = "unused",
           NEW type \in {"start", "kill"}, type = "start" => o \in StartOps,
           \/ PutNewActive(o, Binding(type, Ctr, NoInput))
           \/ \E state \in {"succeeded", "failed"}, result \in Results :
                 PutNewTerminal(o, Binding(type, Ctr, NoInput), state, result)
    PROVE  /\ Answers(o)
           /\ op'[o].state = "running" => op'[o].type = type
<1>0. TypeOK /\ Binding(type, Ctr, NoInput) \in Bindings
  BY Constants, RequestsTyped DEF AttemptInv, SafetyInv, Types
<1>1. CASE PutNewActive(o, Binding(type, Ctr, NoInput))
  <2>1. Opens(o, type, Ctr)
    BY <1>0, <1>1, UpdateShapes DEF Binding
  <2> QED BY <2>1 DEF Opens, Answers, Admitted, Active
<1>2. CASE \E state \in {"succeeded", "failed"}, result \in Results :
              PutNewTerminal(o, Binding(type, Ctr, NoInput), state, result)
  <2>1. Ends(o)
    BY <1>0, <1>2, UpdateShapes
  <2> QED BY <2>1 DEF Ends, Answers, Active
<1> QED BY <1>1, <1>2

\* A client's request, or a watcher's visit.
LEMMA EntriesFollow ==
    ASSUME AttemptInv, NEW o \in Ops,
           \/ ClientStart(o) \/ ClientKill(o)
           \/ SynchronizeTerminals(o) \/ SynchronizeKillDeadlines(o)
    PROVE  Follows
<1>0. /\ {"client", "watch"} \subseteq Callers /\ Methods = {"start", "kill", "kill_initial", "terminal"}
      /\ Ctr \in Containers /\ {"succeeded", "noop", "failed", "conflict"} \subseteq Results \cup {"succeeded", "failed"}
      /\ {"noop", "conflict"} \subseteq Results
  BY Constants DEF Callers, Methods, Results
<1>1. CASE ClientStart(o)
  <2>1. /\ UNCHANGED <<proc, exit>> /\ o \in StartOps
        /\ \/ op'[o].state = "running" /\ Enter("client", "start", o, "dispatch")
           \/ UNCHANGED call
    BY <1>1 DEF ClientStart, Persists, host, engine
  <2>2. CASE ResolveResume(o, "start", Ctr) /\ UNCHANGED vars
    <3>1. [Next]_vars /\ Still
      BY <2>1, <2>2, Nothing
    <3>2. CallInv'
      BY <1>0, <2>1, <2>2, EnterBacked, WaitingBacked DEF vars, Active
    <3> QED BY <3>1, <3>2 DEF Follows, Shape
  <2>3. CASE BeginContainerStart(o, Ctr) \/ PersistOperationConflict(o, Binding("start", Ctr, NoInput))
    <3>1. Next
      BY <1>0, <2>3 DEF Next, ContainerNext, OperationNext, Requests
    <3>2. Answers(o)
      BY <1>0, <2>1, <2>3, RequestAnswered
         DEF BeginContainerStart, PersistOperationConflict, ResolveNew
    <3>3. CallInv'
      <4>1. CASE op'[o].state = "running" /\ Enter("client", "start", o, "dispatch")
        BY <1>0, <2>1, <4>1, EnterBacked DEF Active
      <4>2. CASE UNCHANGED call
        BY <2>1, <3>2, <4>2, Constants DEF AttemptInv, CallInv, Answers, Others, Active, Published
      <4> QED BY <2>1, <4>1, <4>2
    <3> QED BY <3>1, <3>2, <3>3 DEF Follows, Shape
  <2> QED BY <1>1, <2>2, <2>3 DEF ClientStart
<1>2. CASE ClientKill(o)
  <2>1. /\ UNCHANGED <<proc, exit>>
        /\ Enter("client", "kill", o, "dispatch") \/ UNCHANGED call
    BY <1>2 DEF ClientKill, Persists, host, engine
  <2>2. CASE UNCHANGED vars
    <3>1. [Next]_vars /\ Still
      BY <2>1, <2>2, Nothing
    <3>2. CallInv'
      BY <1>0, <2>1, <2>2, EnterBacked, WaitingBacked DEF vars
    <3> QED BY <3>1, <3>2 DEF Follows, Shape
  <2>3. CASE PlanKill(o, Ctr) \/ PersistOperationConflict(o, Binding("kill", Ctr, NoInput))
    <3>1. Next
      BY <1>0, <2>3 DEF Next, ContainerNext, OperationNext, Requests
    <3>2. Answers(o)
      BY <1>0, <2>1, <2>3, RequestAnswered
         DEF PlanKill, PersistOperationConflict, ResolveNew
    <3>3. CallInv'
      <4>1. CASE Enter("client", "kill", o, "dispatch")
        BY <1>0, <4>1, EnterBacked
      <4>2. CASE UNCHANGED call
        BY <2>1, <3>2, <4>2, Constants DEF AttemptInv, CallInv, Answers, Others, Active, Published
      <4> QED BY <2>1, <4>1, <4>2
    <3> QED BY <3>1, <3>2, <3>3 DEF Follows, Shape
  <2> QED BY <1>2, <2>2, <2>3 DEF ClientKill
<1>3. CASE SynchronizeTerminals(o) \/ SynchronizeKillDeadlines(o)
  <2>1. UNCHANGED <<vars, proc, exit>>
    BY <1>3, ReadingIsNothing DEF SynchronizeTerminals, SynchronizeKillDeadlines
  <2>2. \/ \E method \in {"kill", "kill_initial", "terminal"}, pc \in {"dispatch", "observe_end"} :
              Enter("watch", method, o, pc)
        \/ UNCHANGED call
    BY <1>3 DEF SynchronizeTerminals, SynchronizeKillDeadlines
  <2>3. CallInv'
    BY <1>0, <2>1, <2>2, EnterBacked, WaitingBacked DEF vars
  <2> QED BY <2>1, <2>3, Nothing DEF Follows, Shape
<1> QED BY <1>1, <1>2, <1>3

\* What Discover knows of the wrapper.
LEMMA DiscoverFollows ==
    ASSUME AttemptInv, Discover PROVE Follows
<1>1. UNCHANGED <<vars, proc, exit>>
  BY ReadingIsNothing DEF Discover
<1>p. PICK presence \in Presences : \E seen \in DiscoverRunning(presence) :
          IF seen = "error"
          THEN UNCHANGED call
          ELSE call' = [Idle EXCEPT !.by = "recover", !.pc = "reconcile",
                           !.seen = IF seen \in {"prepared", "starting"} THEN "running" ELSE seen]
  BY DEF Discover
<1>2. PICK seen \in DiscoverRunning(presence) :
          IF seen = "error"
          THEN UNCHANGED call
          ELSE call' = [Idle EXCEPT !.by = "recover", !.pc = "reconcile",
                           !.seen = IF seen \in {"prepared", "starting"} THEN "running" ELSE seen]
  BY <1>p
<1>3. CASE UNCHANGED call
  BY <1>1, <1>3, WaitingBacked, Nothing DEF Follows, Shape, vars
<1>4. CASE seen # "error"
  <2>1. /\ call'.pc = "reconcile" /\ call' \notin Calls
        /\ call'.seen = "absent" => seen = "absent"
    BY <1>2, <1>4 DEF Idle, Calls, PCs
  <2>2. seen = "absent" => proc = "lost"
    BY SeenTyped DEF DiscoverRunning, Presences, Observations, Observed, Unavailable
  <2>3. CallInv'
    BY <1>1, <2>1, <2>2 DEF CallInv, EndPCs
  <2> QED BY <1>1, <2>3, Nothing DEF Follows, Shape
<1> QED BY <1>2, <1>3, <1>4

\* Recovery gives up an intent only when its wrapper is gone.
LEMMA ReconcileIssueFollows ==
    ASSUME AttemptInv, NEW o \in Ops, ReconcileIssue(o) PROVE Follows
<1>1. UNCHANGED <<proc, exit>> /\ CallInv' /\ TypeOK
  BY IdleBacked DEF ReconcileIssue, Recovered, Persists, host, AttemptInv, SafetyInv
<1>2. CASE ProjectRecoveryIssue(o)
  <2>1. [Next]_vars /\ Still
    BY <1>1, <1>2, CheckpointStill, Nothing DEF ProjectRecoveryIssue
  <2> QED BY <1>1, <2>1 DEF Follows, Shape
<1>3. CASE call.seen = "absent" /\ FailActiveOperation(o)
  <2>1. Next
    BY <1>3 DEF Next, OperationNext
  <2>2. proc = "lost"
    BY <1>3 DEF ReconcileIssue, Reconciling, AttemptInv, CallInv
  <2>3. Ends(o) /\ UNCHANGED pair
    BY <1>1, <1>3, UpdateShapes DEF FailActiveOperation
  <2> QED BY <1>1, <2>1, <2>2, <2>3 DEF Follows, Shape, GivesUp
<1> QED BY <1>2, <1>3 DEF ReconcileIssue

\* So is every step of recovery.
LEMMA RecoverFollows ==
    ASSUME AttemptInv, RecoverStep PROVE Follows
<1>0. /\ {"recover", "recover_again"} \subseteq Callers
      /\ {"start", "kill", "kill_initial", "terminal"} \subseteq Methods
      /\ StartsByClients /\ EngineTypes /\ "recheck" \in PCs
  BY DEF Callers, Methods, PCs, AttemptInv, RecordInv, GraceInv
<1>1. CASE ReconcileCondition
  <2>1. UNCHANGED <<vars, proc, exit>> /\ call' = Idle
    BY <1>1 DEF ReconcileCondition, Recovered, Persists, host
  <2> QED BY <2>1, IdleBacked, Nothing DEF Follows, Shape
<1>2. ASSUME NEW o \in Ops, ReconcileTerminal(o) \/ ReconcileActive(o) \/ ReconcileActiveKill(o)
      PROVE  Follows
  <2>1. UNCHANGED <<vars, proc, exit>>
    BY <1>2 DEF ReconcileTerminal, ReconcileActive, ReconcileActiveKill, RecoverKill,
                ReadsOnly, durable, host, vars
  <2>2. \/ call' = Idle
        \/ \E method \in {"kill", "kill_initial", "terminal"}, pc \in {"dispatch", "observe_end"} :
              Enter("recover", method, o, pc)
        \/ Active(o) /\ op[o].type = "start" /\ Enter("recover", "start", o, "dispatch")
    BY <1>2 DEF ReconcileTerminal, ReconcileActive, ReconcileActiveKill, RecoverKill,
                Recovered, Refuse
  <2>3. CASE Active(o) /\ op[o].type = "start" /\ Enter("recover", "start", o, "dispatch")
    <3>1. o \in StartOps /\ Active(o)'
      BY <1>0, <2>1, <2>3 DEF StartsByClients, Active, vars
    <3> QED BY <1>0, <2>1, <2>3, <3>1, EnterBacked, Nothing DEF Follows, Shape
  <2> QED BY <1>0, <2>1, <2>2, <2>3, IdleBacked, EnterBacked, Nothing DEF Follows, Shape
<1>3. CASE RecheckStart
  <2>1. call \in Calls /\ call.op \in StartOps /\ call.op \in Ops /\ Active(call.op)
    <3>1. call \in Calls /\ call.method = "start"
      BY <1>0, <1>3, UnderWay DEF RecheckStart, AttemptInv, CallInv
    <3> QED BY <3>1, CallBacked, Constants
  <2>2. UNCHANGED <<proc, exit>>
    BY <1>3 DEF RecheckStart, Persists, host
  <2>3. \/ ProjectRecoveryIssue(call.op) /\ call' = Idle
        \/ UNCHANGED vars /\ call' = Idle
        \/ UNCHANGED vars /\ Enter("recover_again", "start", call.op, "dispatch")
    BY <1>3 DEF RecheckStart, Recovered, Refuse, durable, vars
  <2>4. CASE ProjectRecoveryIssue(call.op) /\ call' = Idle
    <3>1. [Next]_vars /\ Still
      BY <2>1, <2>2, <2>4, CheckpointStill, Nothing DEF ProjectRecoveryIssue
    <3> QED BY <2>4, <3>1, IdleBacked DEF Follows, Shape
  <2>5. CASE UNCHANGED vars /\ call' = Idle
    BY <2>2, <2>5, IdleBacked, Nothing DEF Follows, Shape
  <2>6. CASE UNCHANGED vars /\ Enter("recover_again", "start", call.op, "dispatch")
    <3>1. op'[call.op].state = "running"
      BY <2>1, <2>6 DEF vars, Active
    <3>2. CallInv'
      BY <1>0, <2>1, <2>6, <3>1, EnterBacked DEF Active
    <3> QED BY <2>2, <2>6, <3>2, Nothing DEF Follows, Shape
  <2> QED BY <2>3, <2>4, <2>5, <2>6
<1> QED BY <1>1, <1>2, <1>3, DiscoverFollows, ReconcileIssueFollows DEF RecoverStep

\* The daemon, the wrapper and the clock.
LEMMA SurroundingsFollow ==
    ASSUME AttemptInv, StartDaemon \/ StopDaemon \/ Crash \/ Abandon \/ HostStep \/ Tick
    PROVE  Follows
<1>1. UNCHANGED vars
  BY DEF StartDaemon, StopDaemon, Crash, Abandon, HostStep, Tick, ReadsOnly, durable, vars
<1>2. CASE HostStep
  <2>1. UNCHANGED <<call, op, pair>>
    BY <1>1, <1>2 DEF HostStep, engine, vars
  <2> QED BY <1>1, <1>2, <2>1, WaitingBacked DEF Follows, Shape
<1>3. CASE StartDaemon \/ StopDaemon \/ Crash \/ Abandon \/ Tick
  <2>1. UNCHANGED <<proc, exit>> /\ (call' = call \/ call' = Idle)
    BY <1>3 DEF StartDaemon, StopDaemon, Crash, Abandon, Tick, ReadsOnly, engine, host
  <2>2. CallInv'
    BY <1>1, <2>1, WaitingBacked, IdleBacked DEF vars
  <2> QED BY <1>1, <2>1, <2>2, Nothing DEF Follows, Shape
<1> QED BY <1>2, <1>3

\* So is every step of the engine.
LEMMA StepFollows == AttemptInv /\ [EngineNext]_allVars => Follows
<1> SUFFICES ASSUME AttemptInv, [EngineNext]_allVars PROVE Follows
  OBVIOUS
<1>1. CASE UNCHANGED allVars
  <2>1. UNCHANGED <<vars, proc, exit, call>>
    BY <1>1 DEF allVars, durable, engine, host, vars
  <2> QED BY <2>1, WaitingBacked, Nothing DEF Follows, Shape, vars
<1> QED BY <1>1, StartFollows, KillFollows, RecordFollows, EntriesFollow, RecoverFollows,
           SurroundingsFollow DEF EngineNext, MethodStep

\* Nothing has happened at first.
LEMMA StartsSafe == EngineInit => AttemptInv
<1> SUFFICES ASSUME EngineInit PROVE AttemptInv
  OBVIOUS
<1>0. /\ Sandboxes = {Box} /\ Containers = {Ctr} /\ Ctr \notin Sandboxes /\ Box \notin Containers
      /\ BoxBy \in Ops /\ MadeBy \in Ops /\ BoxBy # MadeBy /\ None \notin Containers
  BY EngineAssumption, DistinctIDs
<1> DEFINE made(b) == [state |-> "succeeded", type |-> "create", target |-> b.target,
                       fp |-> b.fp, stage |-> "complete", journal |-> "full",
                       result |-> "succeeded"]
<1>1. PICK p \in Specs :
        /\ sandbox = [s \in Sandboxes |->
              [phase |-> "ready", spec |-> p, current |-> Ctr, owner |-> BoxBy]]
        /\ pair = [c \in Containers |->
              [phase |-> "created", sandbox |-> Box, spec |-> p,
               outcome |-> "pending", owner |-> MadeBy]]
        /\ op = [o \in Ops |->
              CASE o = BoxBy  -> made(SandboxCreate(Box, p))
                [] o = MadeBy -> made(ContainerCreate(Ctr, Box, p))
                [] OTHER      -> NoOperation]
  BY DEF EngineInit
<1>2. \A b \in Bindings : made(b) \in OperationRecord /\ made(b).state = "succeeded"
  BY DEF OperationRecord, StoredOperation, Bindings, Types, Stages, Journals, Results
<1>3. SandboxCreate(Box, p) \in Bindings /\ ContainerCreate(Ctr, Box, p) \in Bindings
  BY <1>0, RequestsTyped
<1> HIDE DEF made
<1>4. op \in [Ops -> OperationRecord] /\ \A o \in Ops : ~Active(o)
  BY <1>0, <1>1, <1>2, <1>3 DEF OperationRecord, NoOperation, Active
<1>5. /\ sandbox[Box].phase = "ready" /\ sandbox[Box].current = Ctr
      /\ pair[Ctr].phase = "created" /\ pair[Ctr].sandbox = Box
  BY <1>0, <1>1
<1>6. TypeOK
  BY <1>0, <1>1, <1>4 DEF TypeOK, SandboxRecord, StoredSandbox, SandboxPhases, PairRecord,
        StoredPair, AttemptPhases, Outcomes
<1>7. OperationsInv
  BY <1>0, <1>4, <1>5 DEF OperationsInv, OneActiveOperation, ActiveOperationFits, NoStrandedPhase
<1>8. ResourcesInv
  BY <1>0, <1>5 DEF ResourcesInv, ActiveAttemptExclusive, ReferencesIntact, PairsOf
<1>9. HostInv /\ CallInv
  BY DEF EngineInit, HostInv, CallInv, Idle, Calls, PCs, EndPCs
<1>10. RecordInv
  BY <1>4, <1>5 DEF EngineInit, RecordInv, RunningInv, StartsByClients, StopInv, WorkloadAccounted
<1> QED BY <1>6, <1>7, <1>8, <1>9, <1>10, GraceInit DEF AttemptInv, SafetyInv

\* No step leaves the invariant.
LEMMA StepSafely == AttemptInv /\ [EngineNext]_allVars => AttemptInv'
<1> SUFFICES ASSUME AttemptInv, [EngineNext]_allVars PROVE AttemptInv'
  OBVIOUS
<1>1. [Next]_vars /\ Shape /\ CallInv'
  BY StepFollows DEF Follows
<1>2. SafetyInv'
  BY <1>1, StepSafe DEF AttemptInv
<1>3. GraceInv'
  BY GraceStep DEF AttemptInv
<1> QED BY <1>1, <1>2, <1>3, ShapeKeeps DEF AttemptInv

\* The invariant holds of every reachable state.
LEMMA AlwaysSafe == EngineSpec => []AttemptInv
  BY StartsSafe, StepSafely, PTL DEF EngineSpec

-----------------------------------------------------------------------------
(* The theorems of Parts 1 and 2. *)

\* No workload is forgotten: whatever crashes, abandoned calls and recovery
\* leave behind, a child that may run is recorded as Running or an active
\* Start is still there to record it (container.go:643).
THEOREM NoWorkloadForgotten == EngineSpec => []WorkloadAccounted
<1>1. AttemptInv => WorkloadAccounted
  BY DEF AttemptInv, RecordInv
<1> QED BY <1>1, AlwaysSafe, PTL

\* Registers, stages and clock keep their types.
THEOREM EngineTypeCorrect == EngineSpec => []EngineTypeOK
<1>1. AttemptInv => EngineTypeOK
  BY DEF AttemptInv, SafetyInv, GraceInv, EngineTypeOK
<1> QED BY <1>1, AlwaysSafe, PTL

\* Whatever the engine, its watchers and its recovery do to the durable record
\* is a Coordinator transaction, so that what is proved of the Coordinator
\* holds of every state they reach.
THEOREM CoordinatorOnly == EngineSpec => [][Next]_vars /\ []SafetyInv
<1>1. AttemptInv /\ [EngineNext]_allVars => [Next]_vars
  BY StepFollows DEF Follows
<1>2. AttemptInv => SafetyInv
  BY DEF AttemptInv
<1> QED BY <1>1, <1>2, AlwaysSafe, PTL DEF EngineSpec

\* The record follows the workload: it says Running only of a child that was
\* published and ends with the one outcome the wrapper committed
\* (container.go:640-720, recovery.go).
THEOREM RecordImplementsContract == EngineSpec => RecordFollowsWorkload
<1>1. EngineInit => Contract!ContractInit
  <2> SUFFICES ASSUME EngineInit PROVE Contract!ContractInit
    OBVIOUS
  <2>1. pair[Ctr].phase = "created" /\ pair[Ctr].outcome = "pending"
    BY Constants DEF EngineInit
  <2> QED BY <2>1 DEF EngineInit, Contract!ContractInit, Workload
<1>2. AttemptInv /\ [EngineNext]_allVars => [Contract!ContractNext]_(Contract!contractVars)
  <2> SUFFICES ASSUME AttemptInv, [EngineNext]_allVars
               PROVE  [Contract!ContractNext]_(Contract!contractVars)
    OBVIOUS
  <2>1. Shape /\ HostInv /\ EngineTypes
    BY StepFollows DEF Follows, AttemptInv, GraceInv
  <2>2. CASE UNCHANGED <<pair, proc, exit>>
    BY <2>2 DEF Contract!contractVars, Workload
  <2>3. CASE Launches
    BY <2>3 DEF Launches, Contract!ContractNext, Contract!Launch, Workload
  <2>4. CASE UNCHANGED <<pair, op>> /\ HostStep
    <3>1. CASE proc = "starting" /\ proc' = "running" /\ UNCHANGED exit
      BY <2>4, <3>1 DEF Contract!ContractNext, Contract!Publish, Workload
    <3>2. CASE \/ proc = "starting" /\ proc' = "aborted" /\ exit' \in {"not_applicable", "unknown"}
               \/ proc = "reaped" /\ proc' = "exited" /\ exit' \in TerminalOutcomes
      BY <2>4, <3>2 DEF Contract!ContractNext, Contract!End, Workload, TerminalOutcomes
    <3>3. CASE proc = "running" /\ proc' = "reaped" /\ UNCHANGED exit
      BY <2>4, <3>3 DEF Contract!contractVars, Workload
    <3>4. CASE proc # "lost" /\ proc' = "lost" /\ UNCHANGED exit
      BY <2>1, <2>4, <3>4 DEF Contract!ContractNext, Contract!Lose, Workload, EngineTypes, ProcStates
    <3> QED BY <2>4, <3>1, <3>2, <3>3, <3>4 DEF HostStep
  <2>5. ASSUME NEW o \in Ops, Confirms(o) PROVE Contract!ContractNext
    BY <2>5 DEF Confirms, Published, Contract!ContractNext, Contract!RecordRunning, Workload
  <2>6. ASSUME NEW o \in Ops, Concludes(o) PROVE Contract!ContractNext
    BY <2>6 DEF Concludes, Contract!ContractNext, Contract!RecordEnd, Workload
  <2> QED BY <2>1, <2>2, <2>3, <2>4, <2>5, <2>6 DEF Shape, Still, Answers, GivesUp
<1> QED BY <1>1, <1>2, AlwaysSafe, PTL DEF EngineSpec, RecordFollowsWorkload, Contract!ContractSpec

-----------------------------------------------------------------------------
(* Part 3: the stages of the record. *)

\* What the stage of an operation claims of the host.
Claim(o) ==
    /\ op[o].type = "start" /\ AtLeast(o, "release_start_gate") => proc # "gated"
    /\ op[o].type = "kill" /\ AtLeast(o, "signal_process") =>
          sent[o].initial # None \/ exit # "pending"

ClaimsHold == \A o \in Ops : Active(o) => Claim(o)

\* A Start that is about to claim the release has seen the gate consumed; one
\* that goes on from a stage before the attachment may not claim anything.
GateSeen ==
    call \in Calls /\ call.method = "start" =>
        /\ op[call.op].type = "start"
        /\ call.pc \in {"releasing", "checkpoint_release"} => proc # "gated"
        /\ call.pc = "checkpoint_observe" => proc # "gated" \/ ~AtLeast(call.op, "attach_cgroup")

StagesInv == ClaimsHold /\ GateSeen

\* Which stages an active operation may have stored when it is at least at another.
LEMMA Ranks ==
    ASSUME NEW o \in Ops, Active(o), TypeOK
    PROVE  /\ op[o].stage \in Stages
           /\ AtLeast(o, "release_start_gate") <=>
                op[o].stage \notin {"persist_intent", "check_preconditions", "prepare", "attach_cgroup"}
           /\ AtLeast(o, "signal_process") <=>
                op[o].stage \notin {"persist_intent", "check_preconditions", "prepare",
                                    "attach_cgroup", "release_start_gate"}
           /\ AtLeast(o, "attach_cgroup") <=>
                op[o].stage \notin {"persist_intent", "check_preconditions", "prepare"}
<1>1. op[o].stage \in Stages
  BY StoredRecords DEF TypeOK, Active, StoredOperation
<1> QED BY <1>1 DEF AtLeast, StageRank, Stages

\* A step by which no operation comes to claim anything.
Unclaimed ==
    \A o \in Ops : Active(o)' =>
        \/ Active(o) /\ op'[o].type = op[o].type /\ op'[o].stage = op[o].stage
        \/ op'[o].stage \in {"persist_intent", "check_preconditions", "attach_cgroup"}

\* What has happened on the host stays so.
Onward ==
    /\ proc' = "gated" => proc = "gated"
    /\ exit # "pending" => exit' # "pending"
    /\ \A o \in Ops : sent[o].initial # None => sent'[o].initial # None

\* No step of the engine takes back what has happened on the host.
LEMMA AlwaysOnward ==
    ASSUME AttemptInv, [EngineNext]_allVars PROVE Onward
<1>0. EngineTypes /\ HostInv
  BY DEF AttemptInv, GraceInv
<1>1. (proc' = "gated" => proc = "gated") /\ (exit # "pending" => exit' # "pending")
  <2>1. Shape
    BY StepFollows, SMTT(40) DEF Follows
  <2> QED BY <1>0, <2>1 DEF Shape, Still, Launches, HostStep, HostInv, Answers, Confirms,
                            Concludes, GivesUp
<1>2. \/ UNCHANGED sent \/ KillSignal \/ KillEscalate
  BY DEF EngineNext, allVars, host, ReadsOnly, Persists, MethodStep,
         StartStep, StartAttach, HostFails, StartObserveBeforeRelease, ReleaseStartGate, GateReleased,
         StartCheckpointRelease, StartObserve, StartCheckpointObserve, StartClearCondition,
         StartRecord, KillStep, KillAfterError, KillCheckpointSignal, KillResumeStage, KillWait,
         KillConfirm, RecordStep, TerminalObserve, TerminalBegin, CheckpointEnd, RecordEnd,
         ClientStart, ClientKill, SynchronizeTerminals, SynchronizeKillDeadlines,
         RecoverStep, Discover, ReconcileCondition, RecheckStart, ReconcileIssue,
         ReconcileTerminal, ReconcileActive, ReconcileActiveKill,
         StartDaemon, StopDaemon, Crash, Abandon, HostStep, Tick
<1>3. ASSUME KillSignal \/ KillEscalate, NEW o \in Ops, sent[o].initial # None
      PROVE  sent'[o].initial # None
  <2>1. call.op \in Ops
    BY <1>0, <1>3, AtUnderWay DEF KillSignal, KillEscalate, PCs
  <2>2. /\ sent \in [Ops -> [initial : Times \cup {None}, escalation : Times \cup {None}]]
    BY <1>0 DEF EngineTypes
  <2>3. CASE KillSignal
    BY <1>3, <2>1, <2>2, <2>3 DEF KillSignal, DeliveredAt
  <2>4. CASE KillEscalate
    BY <1>3, <2>1, <2>2, <2>4 DEF KillEscalate
  <2> QED BY <1>3, <2>3, <2>4
<1> QED BY <1>1, <1>2, <1>3 DEF Onward

\* A step after which no operation claims more keeps every claim.
LEMMA UnclaimedKeeps ==
    ASSUME AttemptInv, AttemptInv', ClaimsHold, Unclaimed, Onward PROVE ClaimsHold'
<1> SUFFICES ASSUME NEW o \in Ops, Active(o)' PROVE Claim(o)'
  BY DEF ClaimsHold
<1>0. TypeOK /\ TypeOK'
  BY DEF AttemptInv, SafetyInv
<1>1. CASE Active(o) /\ op'[o].type = op[o].type /\ op'[o].stage = op[o].stage
  BY <1>1 DEF ClaimsHold, Claim, AtLeast, Onward
<1>2. CASE op'[o].stage \in {"persist_intent", "check_preconditions", "attach_cgroup"}
  <2>1. ~AtLeast(o, "release_start_gate")' /\ ~AtLeast(o, "signal_process")'
    BY <1>2 DEF AtLeast, StageRank, Stages
  <2> QED BY <2>1 DEF Claim
<1> QED BY <1>1, <1>2 DEF Unclaimed

\* A checkpoint changes the stage of one operation.
LEMMA CheckpointClaims ==
    ASSUME AttemptInv, NEW o \in Ops,
           NEW stage \in {"check_preconditions", "attach_cgroup", "release_start_gate",
                          "signal_process", "observe_process"},
           \/ stage = "attach_cgroup" /\ CheckpointAttach(o)
           \/ stage = "check_preconditions" /\ CheckpointRecoveryIssue(o)
           \/ CheckpointProcess(o, stage)
    PROVE  /\ Active(o) /\ op'[o].stage = stage /\ op'[o].type = op[o].type /\ Others(o)
           /\ op[o].type = "start" => StartMayAdvance(op[o].stage, stage)
<1>0. TypeOK /\ stage \in Stages
  BY DEF AttemptInv, SafetyInv, Stages
<1>1. CheckpointOperation(o, stage, op[o].journal)
  BY DEF CheckpointAttach, CheckpointRecoveryIssue, CheckpointProcess
<1>2. op[o] \in StoredOperation
  BY <1>0, <1>1, StoredRecords DEF TypeOK, CheckpointOperation, Active
<1>3. op' = [op EXCEPT ![o] = [op[o] EXCEPT !.stage = stage, !.journal = op[o].journal]]
  BY <1>1 DEF CheckpointOperation
<1>4. op'[o].stage = stage /\ op'[o].type = op[o].type /\ Others(o)
  BY <1>0, <1>2, <1>3 DEF TypeOK, StoredOperation, Others
<1> QED BY <1>1, <1>4 DEF CheckpointOperation

\* A stage is claimed once it is true.
LEMMA ClaimKept ==
    ASSUME AttemptInv, AttemptInv', ClaimsHold, Onward, NEW o \in Ops, Others(o),
           Active(o)' => Claim(o)'
    PROVE  ClaimsHold'
<1> SUFFICES ASSUME NEW q \in Ops, q # o, Active(q)' PROVE Claim(q)'
  BY DEF ClaimsHold
<1>1. op'[q] = op[q]
  BY DEF Others
<1> QED BY <1>1 DEF ClaimsHold, Claim, AtLeast, Onward, Active

\* An operation that begins, and one that ends, comes to claim nothing.
LEMMA OpeningUnclaimed ==
    ASSUME AttemptInv, NEW o \in Ops,
           \/ \E b \in Bindings : PutNewActive(o, b)
           \/ Ends(o)
           \/ UNCHANGED op
    PROVE  Unclaimed
<1>0. TypeOK
  BY DEF AttemptInv, SafetyInv
<1>1. ASSUME NEW b \in Bindings, PutNewActive(o, b) PROVE Unclaimed
  <2>1. Others(o) /\ op'[o].stage = "persist_intent"
    BY <1>0, <1>1 DEF PutNewActive, TypeOK, Others
  <2> QED BY <2>1 DEF Others, Unclaimed, Active
<1>2. CASE Ends(o)
  BY <1>2 DEF Ends, Others, Unclaimed, Active
<1>3. CASE UNCHANGED op
  BY <1>3 DEF Unclaimed, Active
<1> QED BY <1>1, <1>2, <1>3

\* A stutter claims nothing.
LEMMA NothingUnclaimed == UNCHANGED vars => Unclaimed
  BY DEF vars, Unclaimed, Active

\* No step outside a Start's own lets it know more.
LEMMA GateSeenKept ==
    ASSUME GateSeen, Onward,
           \/ UNCHANGED <<call, op>>
           \/ call' \notin Calls
           \/ call'.method # "start"
           \/ /\ op'[call'.op].type = "start"
              /\ call'.pc \notin {"releasing", "checkpoint_release", "checkpoint_observe"}
    PROVE  GateSeen'
  BY DEF GateSeen, Onward, AtLeast

\* A method that returns is at an end or, a Start of recovery, asks again.
LEMMA ReturnSees ==
    ASSUME AttemptInv, call \in Calls, GateSeen, Onward, NEW result, Return(result),
           Bad(result) => UNCHANGED op
    PROVE  GateSeen'
<1>1. CASE call' = Idle
  BY <1>1, GateSeenKept DEF Idle, Calls, PCs
<1>2. CASE call' # Idle
  <2>1. call' = [call EXCEPT !.pc = "recheck"] /\ call.method = "start" /\ UNCHANGED op
    BY <1>2 DEF Return
  <2>2. call'.op = call.op /\ call'.pc = "recheck"
    BY <2>1 DEF Calls
  <2>3. op[call.op].type = "start"
    BY <2>1 DEF GateSeen
  <2> QED BY <2>1, <2>2, <2>3, GateSeenKept
<1> QED BY <1>1, <1>2

StagesFollow == ClaimsHold' /\ GateSeen'

\* The start keeps every claim.
LEMMA StartStages ==
    ASSUME AttemptInv, AttemptInv', StagesInv, Onward, StartStep
    PROVE  StagesFollow
<1>0. /\ EngineTypes /\ HostInv /\ TypeOK /\ ClaimsHold /\ GateSeen
      /\ {"dispatch", "release", "releasing", "checkpoint_release", "checkpoint_observe",
          "clear", "record"} \subseteq PCs
      /\ {"none"} \cup Seen \subseteq Seen \cup {"none"} /\ "starting" \in Seen
  BY DEF AttemptInv, GraceInv, SafetyInv, StagesInv, PCs, Seen
<1>m. /\ call \in Calls /\ call.op \in Ops /\ call.method = "start" /\ Active(call.op)
      /\ op[call.op].type = "start" /\ call.seen \in Seen \cup {"none"}
  <2>1. call \in Calls /\ call.method = "start"
    BY <1>0, UnderWay DEF StartStep, StartAttach, StartObserveBeforeRelease, ReleaseStartGate,
       GateReleased, StartCheckpointRelease, StartObserve, StartCheckpointObserve,
       StartClearCondition, StartRecord, At
  <2> QED BY <1>0, <2>1, CallBacked, Constants DEF GateSeen, Calls
<1>o. ASSUME NEW seen \in Observations, ~Bad(seen), proc = "gated" PROVE seen = "prepared"
  BY <1>o, SeenTyped DEF Observed
\* A step that leaves the record alone, and goes somewhere.
<1>u. ASSUME UNCHANGED op,
             \/ \E result : Return(result)
             \/ \E pc \in {"dispatch", "release", "clear", "record"}, seen \in Seen \cup {"none"} :
                   Go(pc, seen)
             \/ \E pc \in {"releasing", "checkpoint_release"}, seen \in Seen \cup {"none"} :
                   Go(pc, seen) /\ proc' # "gated"
             \/ \E seen \in Seen \cup {"none"} :
                   /\ Go("checkpoint_observe", seen)
                   /\ proc' # "gated" \/ ~AtLeast(call.op, "attach_cgroup")
      PROVE  StagesFollow
  <2>1. ClaimsHold'
    BY <1>0, <1>u, UnclaimedKeeps DEF Unclaimed, Active
  <2>2. CASE \E result : Return(result)
    BY <1>0, <1>m, <1>u, <2>1, <2>2, ReturnSees DEF StagesFollow
  <2>3. ASSUME NEW pc \in PCs, NEW seen \in Seen \cup {"none"}, Go(pc, seen)
        PROVE  call'.op = call.op /\ call'.pc = pc /\ op'[call'.op].type = "start"
    BY <1>m, <1>u, <2>3, GoTyped
  <2>4. CASE \E pc \in {"dispatch", "release", "clear", "record"}, seen \in Seen \cup {"none"} :
                Go(pc, seen)
    BY <1>0, <2>1, <2>3, <2>4, GateSeenKept DEF StagesFollow
  <2>5. CASE \E pc \in {"releasing", "checkpoint_release"}, seen \in Seen \cup {"none"} :
                Go(pc, seen) /\ proc' # "gated"
    <3>1. GateSeen'
      BY <1>0, <2>3, <2>5 DEF GateSeen
    <3> QED BY <2>1, <3>1 DEF StagesFollow
  <2>6. CASE \E seen \in Seen \cup {"none"} :
                /\ Go("checkpoint_observe", seen)
                /\ proc' # "gated" \/ ~AtLeast(call.op, "attach_cgroup")
    <3>1. GateSeen'
      BY <1>0, <1>u, <2>3, <2>6 DEF GateSeen, AtLeast
    <3> QED BY <2>1, <3>1 DEF StagesFollow
  <2> QED BY <1>u, <2>2, <2>4, <2>5, <2>6
\* A checkpoint, after which the method goes on to a place that knows nothing.
<1>k. ASSUME NEW stage \in {"attach_cgroup", "release_start_gate", "observe_process"},
             \/ stage = "attach_cgroup" /\ CheckpointAttach(call.op)
             \/ CheckpointProcess(call.op, stage),
             stage # "attach_cgroup" => proc' # "gated",
             NEW pc \in {"dispatch", "clear"}, NEW seen \in Seen \cup {"none"}, Go(pc, seen)
      PROVE  StagesFollow
  <2>1. /\ op'[call.op].stage = stage /\ op'[call.op].type = "start" /\ Others(call.op)
    BY <1>m, <1>k, CheckpointClaims
  <2>2. ClaimsHold'
    <3>1. CASE stage = "attach_cgroup"
      BY <1>0, <1>m, <2>1, <3>1, UnclaimedKeeps DEF Unclaimed, Others, Active
    <3>2. CASE stage # "attach_cgroup"
      BY <1>0, <1>k, <1>m, <2>1, <3>2, ClaimKept DEF Claim
    <3> QED BY <3>1, <3>2
  <2>3. GateSeen'
    BY <1>0, <1>k, <1>m, <2>1, GoTyped, GateSeenKept
  <2> QED BY <2>2, <2>3 DEF StagesFollow
<1>r. ReadsOnly => UNCHANGED <<op, proc>>
  BY DEF ReadsOnly, durable, host
<1>1. CASE StartAttach
  <2>1. CASE CheckpointAttach(call.op) /\ Go("dispatch", "none")
    BY <1>k, <2>1
  <2>2. CASE Return("unavailable") /\ ReadsOnly
    BY <1>r, <1>u, <2>2
  <2> QED BY <1>1, <2>1, <2>2 DEF StartAttach, HostFails
<1>2. CASE StartObserveBeforeRelease
  <2>1. UNCHANGED <<op, proc>>
    BY <1>2, <1>r DEF StartObserveBeforeRelease
  <2>2. PICK seen \in Observations :
          IF Bad(seen) THEN Return(seen)
          ELSE Go(IF seen = "prepared" THEN "release" ELSE "checkpoint_release", seen)
    BY <1>2 DEF StartObserveBeforeRelease
  <2>3. seen \in Seen
    BY SeenTyped
  <2> QED BY <1>o, <1>u, <2>1, <2>2, <2>3
<1>3. CASE ReleaseStartGate
  <2>1. UNCHANGED op
    BY <1>3 DEF ReleaseStartGate, durable
  <2>2. \/ proc' # "gated" /\ Go("releasing", "none")
        \/ Return("unavailable")
    BY <1>3 DEF ReleaseStartGate, HostFails
  <2> QED BY <1>u, <2>1, <2>2
<1>4. CASE GateReleased
  <2>1. UNCHANGED <<op, proc>>
    BY <1>4, <1>r DEF GateReleased
  <2>2. proc # "gated"
    BY <1>0, <1>m, <1>4 DEF GateReleased, At, GateSeen
  <2>3. \/ Return("error")
        \/ \E seen \in Seen : Return(seen) \/ Go("checkpoint_release", seen)
    BY <1>4, SeenTyped DEF GateReleased, Observations
  <2> QED BY <1>u, <2>1, <2>2, <2>3
<1>5. CASE StartCheckpointRelease
  <2>1. proc' # "gated"
    BY <1>0, <1>m, <1>5 DEF StartCheckpointRelease, At, GateSeen, Onward
  <2> QED BY <1>k, <1>5, <2>1 DEF StartCheckpointRelease
<1>6. CASE StartObserve
  <2>1. UNCHANGED <<op, proc>>
    BY <1>6, <1>r DEF StartObserve
  <2>2. PICK seen \in Observations :
          IF Bad(seen) THEN Return(seen) ELSE Go("checkpoint_observe", seen)
    BY <1>6 DEF StartObserve
  <2>3. seen \in Seen
    BY SeenTyped
  <2>4. AtLeast(call.op, "attach_cgroup") => AtLeast(call.op, "release_start_gate")
    BY <1>0, <1>m, <1>6, Ranks DEF StartObserve, Stage
  <2>5. proc # "gated" \/ ~AtLeast(call.op, "attach_cgroup")
    BY <1>0, <1>m, <2>4 DEF ClaimsHold, Claim
  <2> QED BY <1>u, <2>1, <2>2, <2>3, <2>5
<1>7. CASE StartCheckpointObserve
  <2>1. CASE CheckpointProcess(call.op, "observe_process") /\ Go("clear", call.seen)
    <3>1. StartMayAdvance(op[call.op].stage, "observe_process")
      BY <1>m, <2>1, CheckpointClaims
    <3>2. op[call.op].stage \notin {"persist_intent", "check_preconditions", "prepare"}
      BY <3>1 DEF StartMayAdvance, StageRank, Stages
    <3>3. proc # "gated"
      BY <1>0, <1>m, <1>7, <3>2, Ranks DEF StartCheckpointObserve, At, GateSeen
    <3>4. proc' # "gated"
      BY <3>3 DEF Onward
    <3> QED BY <1>k, <1>m, <2>1, <3>4
  <2>2. CASE UNCHANGED vars /\ (Go("clear", call.seen) \/ Return("error"))
    BY <1>m, <1>u, <2>2 DEF vars
  <2> QED BY <1>7, <2>1, <2>2 DEF StartCheckpointObserve
<1>8. CASE StartClearCondition
  BY <1>m, <1>u, <1>8 DEF StartClearCondition, vars
<1>9. CASE StartRecord
  <2>1. CASE UNCHANGED vars /\ Return("error")
    BY <1>u, <2>1 DEF vars
  <2>2. CASE /\ Return("ok")
             /\ \/ RecordContainerStartTerminal(call.op, Ctr, exit, StartFailed)
                \/ ConfirmContainerStart(call.op, Ctr)
    <3>1. Ends(call.op)
      BY <1>0, <1>m, <2>2, UpdateShapes DEF RecordContainerStartTerminal, ConfirmContainerStart
    <3>2. ClaimsHold'
      BY <1>0, <1>m, <3>1, OpeningUnclaimed, UnclaimedKeeps
    <3>3. GateSeen'
      BY <1>0, <1>m, <2>2, ReturnSees DEF Bad
    <3> QED BY <3>2, <3>3 DEF StagesFollow
  <2> QED BY <1>9, <2>1, <2>2 DEF StartRecord
<1> QED BY <1>1, <1>2, <1>3, <1>4, <1>5, <1>6, <1>7, <1>8, <1>9 DEF StartStep

\* The kill keeps every claim.
LEMMA KillStages ==
    ASSUME AttemptInv, AttemptInv', StagesInv, Onward, KillStep
    PROVE  StagesFollow
<1>0. EngineTypes /\ HostInv /\ TypeOK /\ ClaimsHold /\ GateSeen
  BY DEF AttemptInv, GraceInv, SafetyInv, StagesInv
<1>m. call \in Calls /\ call.op \in Ops /\ call.method # "start"
  <2>1. call.pc \in PCs /\ call.method # "start"
    BY DEF KillStep, KillSignal, KillAfterError, KillCheckpointSignal, KillResumeStage, KillWait,
       KillEscalate, KillConfirm, At, PCs
  <2> QED BY <1>0, <2>1, UnderWay
<1>1. call' \notin Calls \/ call'.method # "start"
  <2>1. \/ \E result : Return(result)
        \/ \E pc \in PCs, seen \in Seen \cup {"none"} : Go(pc, seen)
    BY SeenTyped DEF KillStep, KillSignal, KillAfterError, KillCheckpointSignal, KillResumeStage,
       KillWait, KillEscalate, KillConfirm, PCs, Seen
  <2> QED BY <1>m, <2>1, GoTyped DEF Return, Idle, Calls, PCs
<1>2. GateSeen'
  BY <1>0, <1>1, GateSeenKept
<1>3. CASE KillCheckpointSignal
  <2>1. CheckpointProcess(call.op, "signal_process") /\ call.pc = "checkpoint_signal"
    BY <1>3 DEF KillCheckpointSignal, At
  <2>2. op'[call.op].type # "start" /\ Others(call.op)
    BY <1>m, <2>1, CheckpointClaims DEF CheckpointProcess
  <2>3. sent'[call.op].initial # None
    BY <1>m, <2>1 DEF AttemptInv, GraceInv, KillInv, Onward
  <2> QED BY <1>0, <1>2, <1>m, <2>2, <2>3, ClaimKept DEF Claim, StagesFollow
<1>4. CASE UNCHANGED op
  BY <1>0, <1>2, <1>4, UnclaimedKeeps DEF StagesFollow, Unclaimed, Active
<1> QED BY <1>3, <1>4 DEF KillStep, KillSignal, KillAfterError, KillResumeStage, KillWait,
                          KillEscalate, KillConfirm, ReadsOnly, durable

\* The supervision keeps every claim.
LEMMA RecordStages ==
    ASSUME AttemptInv, AttemptInv', StagesInv, Onward, RecordStep
    PROVE  StagesFollow
<1>0. EngineTypes /\ HostInv /\ TypeOK /\ ClaimsHold /\ GateSeen
  BY DEF AttemptInv, GraceInv, SafetyInv, StagesInv
<1>m. call \in Calls /\ call.op \in Ops /\ call.method # "start"
  <2>1. call.pc \in PCs /\ call.method # "start"
    BY DEF RecordStep, TerminalObserve, TerminalBegin, CheckpointEnd, RecordEnd, At, PCs
  <2> QED BY <1>0, <2>1, UnderWay
<1>1. call' \notin Calls \/ call'.method # "start"
  <2>1. \/ \E result : Return(result)
        \/ call' = Idle
        \/ \E pc \in PCs, seen \in Seen \cup {"none"} : Go(pc, seen)
    BY <1>m DEF RecordStep, TerminalObserve, TerminalBegin, CheckpointEnd, RecordEnd, Recovered,
       PCs, Seen, Calls
  <2> QED BY <1>m, <2>1, GoTyped DEF Return, Idle, Calls, PCs
<1>2. GateSeen'
  BY <1>0, <1>1, GateSeenKept
<1>u. Unclaimed => StagesFollow
  BY <1>0, <1>2, UnclaimedKeeps DEF StagesFollow
<1>3. CASE TerminalObserve
  BY <1>3, <1>u, NothingUnclaimed DEF TerminalObserve
<1>4. CASE TerminalBegin
  <2>1. CASE BeginRecordStopped(call.op, Ctr, exit)
    <3>1. PutNewActive(call.op, StopObserved(Ctr, exit))
      BY <2>1 DEF BeginRecordStopped
    <3>2. op'[call.op].stage = "persist_intent" /\ Others(call.op)
      BY <1>0, <1>m, <3>1 DEF PutNewActive, TypeOK, Others
    <3> QED BY <1>u, <3>2 DEF Unclaimed, Others, Active
  <2> QED BY <1>4, <1>u, <2>1, NothingUnclaimed DEF TerminalBegin
<1>5. CASE CheckpointEnd
  <2>1. exit # "pending" /\ proc # "gated"
    BY <1>0, <1>5, <1>m DEF CheckpointEnd, At, AttemptInv, CallInv, EndPCs, HostInv
  <2>2. CASE CheckpointProcess(call.op, "observe_process")
    <3>1. Others(call.op)
      BY <1>m, <2>2, CheckpointClaims
    <3> QED BY <1>0, <1>2, <1>m, <2>1, <3>1, ClaimKept DEF Claim, StagesFollow, Onward
  <2> QED BY <1>5, <1>u, <2>2, NothingUnclaimed DEF CheckpointEnd
<1>6. CASE RecordEnd
  <2>1. Ends(call.op)
    BY <1>0, <1>6, <1>m, UpdateShapes DEF RecordEnd, RecordStopped, RecordKillStopped
  <2> QED BY <1>m, <1>u, <2>1, OpeningUnclaimed
<1> QED BY <1>3, <1>4, <1>5, <1>6 DEF RecordStep

\* A call that begins keeps every claim.
LEMMA EntryStages ==
    ASSUME AttemptInv, AttemptInv', StagesInv, Onward, NEW o \in Ops,
           \/ ClientStart(o) \/ ClientKill(o)
           \/ SynchronizeTerminals(o) \/ SynchronizeKillDeadlines(o)
    PROVE  StagesFollow
<1>0. /\ EngineTypes /\ TypeOK /\ ClaimsHold /\ GateSeen /\ Ctr \in Targets
      /\ {"dispatch", "observe_end"} \subseteq PCs /\ {"client", "watch"} \subseteq Callers
      /\ {"start", "kill", "kill_initial", "terminal"} \subseteq Methods
      /\ \A type \in {"start", "kill"} : Binding(type, Ctr, NoInput) \in Bindings
  BY Constants, RequestsTyped DEF AttemptInv, GraceInv, SafetyInv, StagesInv, PCs, Callers, Methods, Types
<1>e. ASSUME NEW by \in Callers, NEW method \in Methods, NEW pc \in {"dispatch", "observe_end"},
             Enter(by, method, o, pc), method = "start" => op'[o].type = "start"
      PROVE  GateSeen'
  BY <1>0, <1>e, EnterTyped, GateSeenKept
<1>i. ASSUME Quiet, UNCHANGED call PROVE GateSeen'
  BY <1>0, <1>i, UnderWay, GateSeenKept DEF Quiet, Idle, Calls, PCs
<1>u. Unclaimed => ClaimsHold'
  BY <1>0, UnclaimedKeeps
<1>p. ASSUME NEW type \in {"start", "kill"},
             \/ PutNewActive(o, Binding(type, Ctr, NoInput))
             \/ \E state \in {"succeeded", "failed"}, result \in Results :
                   PutNewTerminal(o, Binding(type, Ctr, NoInput), state, result)
             \/ UNCHANGED op
      PROVE  Unclaimed
  <2>1. Binding(type, Ctr, NoInput) \in Bindings
    BY <1>0
  <2>2. ASSUME NEW state \in {"succeeded", "failed"}, NEW result \in Results,
               PutNewTerminal(o, Binding(type, Ctr, NoInput), state, result)
        PROVE  Ends(o)
    BY <1>0, <2>1, <2>2, UpdateShapes
  <2> QED BY <1>p, <2>1, <2>2, OpeningUnclaimed
<1>1. CASE ClientStart(o)
  <2>1. ClaimsHold'
    BY <1>1, <1>p, <1>u DEF ClientStart, BeginContainerStart, PersistOperationConflict, vars, Results
  <2>2. op'[o].state = "running" => op'[o].type = "start"
    <3>1. CASE UNCHANGED vars
      BY <1>1, <3>1 DEF ClientStart, BeginContainerStart, PersistOperationConflict, ResolveResume, vars,
         ResolveNew
    <3>2. CASE BeginContainerStart(o, Ctr) \/ PersistOperationConflict(o, Binding("start", Ctr, NoInput))
      BY <1>0, <3>2, RequestAnswered DEF BeginContainerStart, PersistOperationConflict,
         PutNewActive, PutNewTerminal, Binding, TypeOK
    <3> QED BY <1>1, <3>1, <3>2 DEF ClientStart
  <2>3. GateSeen'
    BY <1>0, <1>1, <1>e, <1>i, <2>2 DEF ClientStart, engine
  <2> QED BY <2>1, <2>3 DEF StagesFollow
<1>2. CASE ClientKill(o)
  <2>1. ClaimsHold'
    BY <1>2, <1>p, <1>u DEF ClientKill, PlanKill, PersistOperationConflict, vars, Results
  <2>2. GateSeen'
    BY <1>0, <1>2, <1>e, <1>i DEF ClientKill, engine
  <2> QED BY <2>1, <2>2 DEF StagesFollow
<1>3. CASE SynchronizeTerminals(o) \/ SynchronizeKillDeadlines(o)
  <2>1. UNCHANGED vars
    BY <1>3, ReadingIsNothing DEF SynchronizeTerminals, SynchronizeKillDeadlines
  <2>2. GateSeen'
    <3>1. \/ \E method \in {"kill", "kill_initial", "terminal"}, pc \in {"dispatch", "observe_end"} :
                Enter("watch", method, o, pc)
          \/ UNCHANGED call
      BY <1>3 DEF SynchronizeTerminals, SynchronizeKillDeadlines
    <3> QED BY <1>0, <1>e, <2>1, <3>1, GateSeenKept DEF vars
  <2> QED BY <1>u, <2>1, <2>2, NothingUnclaimed DEF StagesFollow
<1> QED BY <1>1, <1>2, <1>3

\* Recovery keeps every claim.
LEMMA RecoverStages ==
    ASSUME AttemptInv, AttemptInv', StagesInv, Onward, RecoverStep
    PROVE  StagesFollow
<1>0. /\ EngineTypes /\ TypeOK /\ ClaimsHold /\ GateSeen
      /\ {"dispatch", "observe_end", "recheck"} \subseteq PCs
      /\ {"recover", "recover_again"} \subseteq Callers
      /\ {"start", "kill", "kill_initial", "terminal"} \subseteq Methods
  BY DEF AttemptInv, GraceInv, SafetyInv, StagesInv, PCs, Callers, Methods
<1>u. Unclaimed => ClaimsHold'
  BY <1>0, UnclaimedKeeps
<1>i. call' = Idle => GateSeen'
  BY <1>0, GateSeenKept DEF Idle, Calls, PCs
<1>e. ASSUME NEW by \in Callers, NEW method \in Methods, NEW o \in Ops,
             NEW pc \in {"dispatch", "observe_end"},
             Enter(by, method, o, pc), method = "start" => op'[o].type = "start"
      PROVE  GateSeen'
  BY <1>0, <1>e, EnterTyped, GateSeenKept
<1>p. ASSUME NEW o \in Ops, ProjectRecoveryIssue(o) PROVE Unclaimed
  <2>1. CASE UNCHANGED vars
    BY <2>1, NothingUnclaimed
  <2>2. CASE CheckpointRecoveryIssue(o)
    <3>1. op'[o].stage = "check_preconditions" /\ Others(o)
      BY <2>2, CheckpointClaims
    <3> QED BY <3>1 DEF Unclaimed, Others, Active
  <2> QED BY <1>p, <2>1, <2>2 DEF ProjectRecoveryIssue
<1>1. CASE Discover
  <2>1. UNCHANGED vars
    BY <1>1, ReadingIsNothing DEF Discover
  <2>2. \/ UNCHANGED call
        \/ \E seen : call' = [Idle EXCEPT !.by = "recover", !.pc = "reconcile", !.seen = seen]
    BY <1>1 DEF Discover
  <2>3. UNCHANGED call \/ call' \notin Calls
    BY <2>2 DEF Idle, Calls, PCs
  <2>4. GateSeen'
    BY <1>0, <2>1, <2>3, GateSeenKept DEF vars
  <2> QED BY <1>u, <2>1, <2>4, NothingUnclaimed DEF StagesFollow
<1>2. CASE ReconcileCondition
  BY <1>2, <1>i, <1>u, NothingUnclaimed DEF ReconcileCondition, Recovered, StagesFollow
<1>3. ASSUME NEW o \in Ops, ReconcileIssue(o) PROVE StagesFollow
  <2>1. GateSeen'
    BY <1>3, <1>i DEF ReconcileIssue, Recovered
  <2>2. CASE ProjectRecoveryIssue(o)
    BY <1>p, <1>u, <2>1, <2>2 DEF StagesFollow
  <2>3. CASE FailActiveOperation(o)
    <3>1. Ends(o)
      BY <1>0, <2>3, UpdateShapes DEF FailActiveOperation
    <3> QED BY <1>u, <2>1, <3>1, OpeningUnclaimed DEF StagesFollow
  <2> QED BY <1>3, <2>2, <2>3 DEF ReconcileIssue
<1>4. ASSUME NEW o \in Ops, ReconcileTerminal(o) \/ ReconcileActive(o) \/ ReconcileActiveKill(o)
      PROVE  StagesFollow
  <2>1. UNCHANGED vars
    BY <1>4 DEF ReconcileTerminal, ReconcileActive, ReconcileActiveKill, RecoverKill,
                ReadsOnly, durable, vars
  <2>2. \/ call' = Idle
        \/ \E method \in {"kill", "kill_initial", "terminal"}, pc \in {"dispatch", "observe_end"} :
              Enter("recover", method, o, pc)
        \/ op[o].type = "start" /\ Enter("recover", "start", o, "dispatch")
    BY <1>4 DEF ReconcileTerminal, ReconcileActive, ReconcileActiveKill, RecoverKill,
                Recovered, Refuse
  <2>3. GateSeen'
    BY <1>0, <1>e, <1>i, <2>1, <2>2 DEF vars
  <2> QED BY <1>u, <2>1, <2>3, NothingUnclaimed DEF StagesFollow
<1>5. CASE RecheckStart
  <2>1. call \in Calls /\ call.method = "start" /\ call.op \in Ops
    <3>1. call \in Calls /\ call.method = "start"
      BY <1>0, <1>5, UnderWay DEF RecheckStart, AttemptInv, CallInv
    <3> QED BY <3>1 DEF Calls
  <2>2. \/ ProjectRecoveryIssue(call.op) /\ call' = Idle
        \/ UNCHANGED vars /\ call' = Idle
        \/ UNCHANGED vars /\ Enter("recover_again", "start", call.op, "dispatch")
    BY <1>5 DEF RecheckStart, Recovered, Refuse, durable, vars
  <2>3. Unclaimed
    BY <1>p, <2>1, <2>2, NothingUnclaimed
  <2>4. GateSeen'
    BY <1>0, <1>e, <1>i, <2>1, <2>2 DEF GateSeen, vars
  <2> QED BY <1>u, <2>3, <2>4 DEF StagesFollow
<1> QED BY <1>1, <1>2, <1>3, <1>4, <1>5 DEF RecoverStep

\* Every step keeps every claim.
LEMMA StageStep == AttemptInv /\ StagesInv /\ [EngineNext]_allVars => StagesInv'
<1> SUFFICES ASSUME AttemptInv, StagesInv, [EngineNext]_allVars PROVE StagesFollow
  BY DEF StagesFollow, StagesInv
<1>0. AttemptInv' /\ Onward /\ ClaimsHold /\ GateSeen
  BY StepSafely, AlwaysOnward DEF StagesInv
<1>1. CASE UNCHANGED <<vars, call>> \/ (UNCHANGED vars /\ call' = Idle)
  <2>1. GateSeen'
    BY <1>0, <1>1, GateSeenKept DEF vars, Idle, Calls, PCs
  <2> QED BY <1>0, <1>1, <2>1, NothingUnclaimed, UnclaimedKeeps DEF StagesFollow
<1>2. ASSUME UNCHANGED allVars \/ StartDaemon \/ StopDaemon \/ Crash \/ Abandon \/ HostStep \/ Tick
      PROVE  UNCHANGED <<vars, call>> \/ (UNCHANGED vars /\ call' = Idle)
  BY <1>2 DEF StartDaemon, StopDaemon, Crash, Abandon, HostStep, Tick, ReadsOnly, durable, vars,
     allVars, engine
<1> QED BY <1>0, <1>1, <1>2, StartStages, KillStages, RecordStages, EntryStages, RecoverStages
        DEF EngineNext, MethodStep

\* A durable stage never claims more than happened on the host, however the
\* daemon crashed, a response was lost or recovery resumed: a release that
\* consumed the gate, a delivery that was made, an end that was seen
\* (container.go:200-330, recovery.go:407).
THEOREM StagesAreBacked == EngineSpec => []StagesBacked
<1>1. EngineInit => StagesInv
  <2> SUFFICES ASSUME EngineInit PROVE StagesInv
    OBVIOUS
  <2>1. \A o \in Ops : ~Active(o)
    <3>1. WorkloadAccounted /\ AttemptInv
      BY StartsSafe DEF AttemptInv, RecordInv
    <3> QED BY DEF EngineInit, Active, NoOperation
  <2>2. call \notin Calls
    BY DEF EngineInit, Idle, Calls, PCs
  <2> QED BY <2>1, <2>2 DEF StagesInv, ClaimsHold, GateSeen
<1>2. AttemptInv /\ StagesInv => StagesBacked
  BY DEF AttemptInv, RecordInv, StopInv, StagesInv, ClaimsHold, Claim, StagesBacked
<1> QED BY <1>1, <1>2, StageStep, AlwaysSafe, PTL DEF EngineSpec

-----------------------------------------------------------------------------
(* Part 4: the exchange of a mutation. *)

Phases == {"absent", "creating", "created", "running", "stopped"}
Words == Phases \cup {"none", "any", "conflict", "precondition", "internal", "cleanup"}
Replies == [kind : {"none", "success", "failure", "error"}, what : Words]
SomeVerb == Api!Verbs \cup {"none"}
SomeID == IDs \cup {"none"}

Asked == [at : {"idle", "lost", "waiting"}, verb : SomeVerb, id : SomeID, attempt : 0 .. Retries]
Linked == [at : {"free", "sent", "working", "answered"}, user : Users \cup {"none"},
           verb : SomeVerb, id : SomeID, answer : Replies]
Recorded == [verb : SomeVerb, state : {"none", "active", "succeeded", "failed", "retired"},
             rollback : BOOLEAN, reply : Replies]
Paired == [phase : Phases, bound : BOOLEAN]

\* What an endpoint may call a success, its client takes for one.
Acceptable(verb, answer) == answer.kind = "success" /\ verb # "create" => Api!Accepts(verb, answer.what)

CallPlace(u) ==
    /\ asking[u].at # "idle" => asking[u].verb \in Api!Verbs /\ asking[u].id \in IDs
    /\ asking[u].at = "lost" => asking[u].attempt < Retries

\* An attempt belongs to the call that waits for it, and the one at work holds an
\* operation that is active.
LinkPlace(x) ==
    /\ link[x].at # "free" => link[x].verb \in Api!Verbs /\ link[x].id \in IDs
    /\ link[x].at \in {"free", "sent", "working"} => link[x].answer = Api!NoAnswer
    /\ link[x].user # "none" => link[x].at # "free" /\ asking[link[x].user].at = "waiting"
    /\ link[x].at = "working" =>
          record[link[x].id].state = "active" /\ record[link[x].id].verb = link[x].verb
    /\ Acceptable(link[x].verb, link[x].answer)

\* One attempt of a call has its ear, and one request at a time is at work.
OneLink ==
    \A x, y \in Links :
        \/ link[x].user = link[y].user /\ link[x].user # "none"
        \/ link[x].at = "working" /\ link[y].at = "working"
        => x = y

LinksInv == link \in [Links -> Linked] /\ OneLink /\ \A x \in Links : LinkPlace(x)

\* The terminal answers given for an ID are its reply, which it has exactly while
\* it is terminal.
RecordPlace(i) ==
    /\ record[i].state \in {"succeeded", "failed"} <=> record[i].reply # Api!NoAnswer
    /\ Acceptable(record[i].verb, record[i].reply)
    /\ told[i] # {} => record[i].state \in {"succeeded", "failed", "retired"}
    /\ record[i].state # "retired" => told[i] \subseteq {record[i].reply}
    /\ \A a, b \in told[i] : a = b

RecordsInv ==
    /\ record \in [IDs -> Recorded] /\ told \in [IDs -> SUBSET Replies]
    /\ \A i \in IDs : RecordPlace(i)

AskingInv == asking \in [Users -> Asked] /\ \A u \in Users : CallPlace(u)

ExchangeInv == AskingInv /\ LinksInv /\ RecordsInv /\ phase \in Paired /\ calls \in 0 .. MaxCalls

-----------------------------------------------------------------------------
(* What the actions of the exchange do to its links and records.              *)

\* An attempt that the step does not touch.
LEMMA OtherLink ==
    ASSUME NEW y \in Links, LinkPlace(y), link'[y] = link[y],
           link[y].user # "none" => asking'[link[y].user].at = "waiting",
           link[y].at = "working" => record'[link[y].id].state = "active"
                                     /\ record'[link[y].id].verb = record[link[y].id].verb
    PROVE  LinkPlace(y)'
  BY DEF LinkPlace

\* One attempt moves; a user it has it had before, or nobody's attempt had.
LEMMA LinkMoved ==
    ASSUME LinksInv, NEW x \in Links, link' \in [Links -> Linked],
           \A y \in Links : y # x => link'[y] = link[y] /\ LinkPlace(y)',
           LinkPlace(x)',
           link'[x].user \in {"none", link[x].user} \/ \A y \in Links : link[y].user # link'[x].user,
           link'[x].at = "working" => \A y \in Links : y # x => link[y].at # "working"
    PROVE  LinksInv'
  <1>1. OneLink'
    <2> SUFFICES ASSUME NEW y \in Links, NEW z \in Links, y # z
                 PROVE  /\ ~(link'[y].user = link'[z].user /\ link'[y].user # "none")
                        /\ ~(link'[y].at = "working" /\ link'[z].at = "working")
      BY DEF OneLink
    <2>1. /\ ~(link[y].user = link[z].user /\ link[y].user # "none")
          /\ ~(link[y].at = "working" /\ link[z].at = "working")
      BY DEF LinksInv, OneLink
    <2> QED
      BY <2>1
  <1> QED
    BY <1>1 DEF LinksInv

\* The server answers a request that no other one at work has the record of.
LEMMA Replied ==
    ASSUME LinksInv, NEW x \in Links, link[x].at \in {"sent", "working"}, NEW answer \in Replies,
           Api!Reply(x, answer), Acceptable(link[x].verb, answer), UNCHANGED asking,
           \A y \in Links : y # x /\ link[y].at = "working" =>
               record'[link[y].id].state = "active" /\ record'[link[y].id].verb = record[link[y].id].verb
    PROVE  LinksInv'
  <1> DEFINE new == IF link[x].user = "none" THEN Api!Free ELSE [link[x] EXCEPT !.at = "answered", !.answer = answer]
  <1>1. link[x] \in Linked /\ LinkPlace(x)
    BY DEF LinksInv
  <1>2. Api!Free \in Linked /\ new \in Linked
    BY <1>1 DEF Linked, Api!Free, Api!NoAnswer, Api!Answer, Replies, Words, SomeVerb, SomeID
  <1>3. link' = [link EXCEPT ![x] = new]
    BY DEF Api!Reply
  <1>4. link' \in [Links -> Linked] /\ link'[x] = new
    BY <1>2, <1>3 DEF LinksInv
  <1> HIDE DEF new
  <1>5. ASSUME NEW y \in Links, y # x PROVE link'[y] = link[y] /\ LinkPlace(y)'
    <2>1. link'[y] = link[y]
      BY <1>3, <1>5 DEF LinksInv
    <2>2. LinkPlace(y)
      BY DEF LinksInv
    <2>3. link[y].user # "none" => asking'[link[y].user].at = "waiting"
      BY <2>2 DEF LinkPlace
    <2> QED
      BY <1>5, <2>1, <2>2, <2>3, OtherLink
  <1>6. CASE link[x].user = "none"
    <2>1. new = Api!Free
      BY <1>6 DEF new
    <2>2. LinkPlace(x)'
      BY <1>4, <2>1 DEF LinkPlace, Api!Free, Api!NoAnswer, Api!Answer, Acceptable
    <2> QED
      BY <1>4, <1>5, <2>1, <2>2, LinkMoved DEF Api!Free
  <1>7. CASE link[x].user # "none"
    <2>1. /\ new.at = "answered" /\ new.answer = answer /\ new.user = link[x].user
          /\ new.verb = link[x].verb /\ new.id = link[x].id
      BY <1>1, <1>7 DEF new, Linked
    <2>2. LinkPlace(x)'
      BY <1>1, <1>4, <1>7, <2>1 DEF LinkPlace
    <2> QED
      BY <1>4, <1>5, <2>1, <2>2, LinkMoved
  <1> QED
    BY <1>6, <1>7

\* A step that leaves the records and what was told leaves their invariant.
LEMMA RecordsKept ==
    ASSUME RecordsInv, UNCHANGED <<record, told>>
    PROVE  RecordsInv'
  BY DEF RecordsInv, RecordPlace

\* A record is written: the intent of a new ID, the end of an active one or the
\* tombstone of a terminal one; what is told is the reply it then has.
LEMMA RecordWritten ==
    ASSUME RecordsInv, NEW i \in IDs, NEW r \in Recorded, record' = [record EXCEPT ![i] = r],
           r.state \in {"succeeded", "failed"} <=> r.reply # Api!NoAnswer, Acceptable(r.verb, r.reply),
           \/ told' = told
           \/ r.state \in {"succeeded", "failed"} /\ told' = [told EXCEPT ![i] = @ \cup {r.reply}],
           record[i].state \in {"none", "active"} \/ (r.state = "retired" /\ told' = told)
    PROVE  RecordsInv'
  <1>1. record' \in [IDs -> Recorded] /\ record'[i] = r
    BY DEF RecordsInv
  <1>2. told' \in [IDs -> SUBSET Replies]
    BY DEF RecordsInv, Recorded
  <1>3. ASSUME NEW j \in IDs PROVE RecordPlace(j)'
    <2>1. RecordPlace(j) /\ told[j] \subseteq Replies
      BY DEF RecordsInv
    <2>2. CASE j # i
      <3>1. record'[j] = record[j] /\ told'[j] = told[j]
        BY <2>2 DEF RecordsInv
      <3> QED
        BY <2>1, <3>1 DEF RecordPlace
    <2>3. CASE j = i /\ told' = told
      BY <1>1, <2>1, <2>3 DEF RecordPlace
    <2>4. CASE j = i /\ r.state \in {"succeeded", "failed"} /\ told' = [told EXCEPT ![i] = @ \cup {r.reply}]
      <3>1. told[i] = {}
        BY <2>1, <2>4 DEF RecordPlace
      <3>2. told'[i] = {r.reply}
        BY <2>4, <3>1 DEF RecordsInv
      <3> QED
        BY <1>1, <2>4, <3>2 DEF RecordPlace
    <2> QED
      BY <2>2, <2>3, <2>4
  <1> QED
    BY <1>1, <1>2, <1>3 DEF RecordsInv

\* The stored reply is told again.
LEMMA ToldAgain ==
    ASSUME RecordsInv, NEW i \in IDs, record[i].state \in {"succeeded", "failed"}, UNCHANGED record,
           told' = [told EXCEPT ![i] = @ \cup {record[i].reply}]
    PROVE  RecordsInv'
  <1>1. record[i].reply \in Replies
    BY DEF RecordsInv, Recorded
  <1>2. told' \in [IDs -> SUBSET Replies]
    BY <1>1 DEF RecordsInv
  <1>3. ASSUME NEW j \in IDs PROVE RecordPlace(j)'
    <2>1. RecordPlace(j) /\ told[j] \subseteq Replies
      BY DEF RecordsInv
    <2>2. told'[j] = told[j] \/ (j = i /\ told'[j] = told[j] \cup {record[i].reply})
      BY DEF RecordsInv
    <2> QED
      BY <2>1, <2>2 DEF RecordPlace
  <1> QED
    BY <1>2, <1>3 DEF RecordsInv

\* The end of an active operation leaves a reply that its endpoint may call what it
\* calls it.
SettledTo(i) ==
    /\ \E state \in {"succeeded", "failed"}, reply \in Replies \ {Api!NoAnswer} :
          Acceptable(record[i].verb, reply) /\ record' = [record EXCEPT ![i] = Api!Entry(record[i].verb, state, reply)]
    /\ phase' \in Paired

\* The success of a mutation settles its record.
LEMMA SucceedSettles ==
    ASSUME RecordsInv, NEW i \in IDs, NEW p \in Phases, NEW b \in BOOLEAN, Api!Succeed(i, p, b),
           record[i].verb \in Api!Verbs,
           record[i].verb = "start" => p \in {"running", "stopped"}, record[i].verb = "kill" => p = "stopped"
    PROVE  SettledTo(i)
  <1> DEFINE reply == Api!Success(IF p = "absent" THEN "none" ELSE p)
  <1>1. reply \in Replies \ {Api!NoAnswer}
    BY DEF Api!Success, Api!Answer, Api!NoAnswer, Replies, Phases, Words
  <1>3. Acceptable(record[i].verb, reply)
    BY DEF Acceptable, Api!Accepts, Api!Success, Api!Answer, Api!Verbs
  <1> QED
    BY <1>1, <1>3 DEF Api!Succeed, Api!End, Api!Entry, SettledTo, Paired

\* The failure of a mutation settles its record.
LEMMA FailSettles ==
    ASSUME RecordsInv, NEW i \in IDs, NEW p \in Paired,
           NEW r \in {"conflict", "precondition", "internal", "cleanup"}, Api!Fail(i, r, p)
    PROVE  SettledTo(i)
  <1>1. Api!Failure(r) \in Replies \ {Api!NoAnswer} /\ Acceptable(record[i].verb, Api!Failure(r))
    BY DEF Api!Failure, Api!Answer, Api!NoAnswer, Replies, Words, Acceptable
  <1> QED
    BY <1>1 DEF Api!Fail, Api!End, Api!Entry, SettledTo

\* The repair of an unfinished operation settles its record.
LEMMA SettleSettles ==
    ASSUME ExchangeInv, NEW i \in IDs, Api!Settle(i)
    PROVE  SettledTo(i)
  <1>1. RecordsInv /\ phase \in Paired
    BY DEF ExchangeInv
  <1>2. [phase EXCEPT !.phase = "stopped"] \in Paired /\ [phase |-> "stopped", bound |-> FALSE] \in Paired
    BY <1>1 DEF Paired, Phases
  <1>3. CASE record[i].verb = "create"
    BY <1>1, <1>2, <1>3, SucceedSettles, FailSettles DEF Api!Settle, Api!Verbs, Phases
  <1>4. CASE record[i].verb = "start"
    BY <1>1, <1>2, <1>4, SucceedSettles, FailSettles DEF Api!Settle, Api!Verbs, Phases
  <1>5. CASE record[i].verb \in {"kill", "delete"}
    BY <1>1, <1>5, SucceedSettles DEF Api!Settle, Api!Verbs, Phases
  <1> QED
    BY <1>3, <1>4, <1>5 DEF Api!Settle

\* The records after the end of an active operation.
LEMMA SettledKeeps ==
    ASSUME RecordsInv, NEW i \in IDs, record[i].state = "active", SettledTo(i),
           told' = told \/ told' = [told EXCEPT ![i] = @ \cup {record'[i].reply}]
    PROVE  RecordsInv' /\ \A j \in IDs : j # i => record'[j] = record[j]
  <1>1. PICK state \in {"succeeded", "failed"}, reply \in Replies \ {Api!NoAnswer} :
            Acceptable(record[i].verb, reply) /\ record' = [record EXCEPT ![i] = Api!Entry(record[i].verb, state, reply)]
    BY DEF SettledTo
  <1>2. PICK r \in Recorded : r = Api!Entry(record[i].verb, state, reply)
    BY <1>1 DEF Api!Entry, RecordsInv, Recorded
  <1>3. r.state = state /\ r.reply = reply /\ r.verb = record[i].verb /\ record' = [record EXCEPT ![i] = r]
    BY <1>1, <1>2 DEF Api!Entry
  <1>4. record'[i] = r /\ \A j \in IDs : j # i => record'[j] = record[j]
    BY <1>3 DEF RecordsInv
  <1>5. RecordsInv'
    BY <1>1, <1>3, <1>4, RecordWritten
  <1> QED
    BY <1>4, <1>5


\* A request that the server gets to has a verb and an ID, and one that finds the lock
\* free finds nobody at work.
LEMMA Asks ==
    ASSUME ExchangeInv, NEW x \in Links, link[x].at # "free"
    PROVE  link[x].id \in IDs /\ link[x].verb \in Api!Verbs /\ link[x].user \in Users \cup {"none"}
  BY DEF ExchangeInv, LinksInv, LinkPlace, Linked

\* Where none works, none does.
LEMMA Alone ==
    ASSUME Api!Working = {}
    PROVE  \A y \in Links : link[y].at # "working"
  BY DEF Api!Working

\* The mutations are serialized: one works at a time.
LEMMA WorksAlone ==
    ASSUME LinksInv, NEW x \in Links, link[x].at = "working"
    PROVE  \A y \in Links : y # x => link[y].at # "working"
  BY DEF LinksInv, OneLink

\* A handler that answers what is not a success.
LEMMA OtherAnswers ==
    /\ Api!Error \in Replies /\ \A verb : Acceptable(verb, Api!Error)
    /\ Api!Failure("conflict") \in Replies /\ Api!Failure("conflict") # Api!NoAnswer
    /\ \A verb : Acceptable(verb, Api!Failure("conflict"))
    /\ Api!NoAnswer \in Replies /\ \A verb : Acceptable(verb, Api!NoAnswer)
    /\ \A p \in Phases : Api!Success(p) \in Replies /\ Api!Success(p) # Api!NoAnswer
  BY DEF Api!Error, Api!Failure, Api!Success, Api!NoAnswer, Api!Answer, Replies, Phases, Words, Acceptable

\* A success that is recorded is one the client accepts.
LEMMA SuccessAcceptable ==
    /\ \A p : Acceptable("create", Api!Success(p))
    /\ Acceptable("start", Api!Success("running")) /\ Acceptable("kill", Api!Success("stopped"))
  BY DEF Acceptable, Api!Success, Api!Answer, Api!Accepts

\* The record of a new ID.
LEMMA NewRecord ==
    ASSUME ExchangeInv, NEW x \in Links, link[x].at # "free", record[link[x].id] = Api!Unknown,
           NEW state \in {"active", "succeeded", "failed"}, NEW reply \in Replies,
           state # "active" <=> reply # Api!NoAnswer, Acceptable(link[x].verb, reply), Api!Record(x, state, reply),
           \/ told' = told
           \/ state # "active" /\ told' = [told EXCEPT ![link[x].id] = @ \cup {reply}]
    PROVE  /\ RecordsInv'
           /\ record'[link[x].id].state = state /\ record'[link[x].id].verb = link[x].verb
  <1>1. link[x].id \in IDs /\ link[x].verb \in Api!Verbs
    BY Asks
  <1>2. PICK i \in IDs : i = link[x].id
    BY <1>1
  <1> DEFINE new == Api!Entry(link[x].verb, state, reply)
  <1>3. PICK r \in Recorded : r = new
    BY <1>1 DEF Recorded, SomeVerb, Api!Entry
  <1>4. record' = [record EXCEPT ![i] = r]
    BY <1>2, <1>3 DEF Api!Record
  <1>5. r.state = state /\ r.reply = reply /\ r.verb = link[x].verb
    BY <1>3 DEF Api!Entry
  <1>6. record[i].state = "none"
    BY <1>2 DEF Api!Unknown, Api!Entry
  <1>7. RecordsInv
    BY DEF ExchangeInv
  <1>8. RecordsInv'
    BY <1>2, <1>4, <1>5, <1>6, <1>7, RecordWritten
  <1>9. record'[i] = r
    BY <1>4, <1>7 DEF RecordsInv
  <1> QED
    BY <1>2, <1>5, <1>8, <1>9

\* An attempt is made for a call that waits from now on.
LEMMA Attempted ==
    ASSUME ExchangeInv, NEW v \in Users, NEW x \in Links, NEW verb \in Api!Verbs, NEW i \in IDs,
           Api!Attempt(v, x, verb, i), NEW c \in Asked, asking' = [asking EXCEPT ![v] = c], c.at = "waiting",
           asking[v].at # "waiting", UNCHANGED record
    PROVE  LinksInv'
  <1> DEFINE new == [Api!Free EXCEPT !.at = "sent", !.user = v, !.verb = verb, !.id = i]
  <1>1. LinksInv /\ AskingInv
    BY DEF ExchangeInv
  <1>2. new \in Linked /\ Acceptable(new.verb, new.answer)
    BY OtherAnswers DEF Linked, Api!Free, SomeVerb, SomeID
  <1>3. link' = [link EXCEPT ![x] = new] /\ link[x].at = "free"
    BY DEF Api!Attempt, Api!Free
  <1>4. link' \in [Links -> Linked] /\ link'[x] = new /\ \A y \in Links : y # x => link'[y] = link[y]
    BY <1>1, <1>2, <1>3 DEF LinksInv
  <1>5. asking'[v].at = "waiting" /\ \A u \in Users : u # v => asking'[u] = asking[u]
    BY <1>1 DEF AskingInv
  <1>6. \A y \in Links : LinkPlace(y) /\ link[y].user \in Users \cup {"none"}
    BY <1>1 DEF LinksInv, Linked
  <1>7. \A y \in Links : link[y].user # v \/ v = "none"
    BY <1>6 DEF LinkPlace
  <1>8. ASSUME NEW y \in Links, y # x PROVE link'[y] = link[y] /\ LinkPlace(y)'
    <2>1. link[y].user # "none" => asking'[link[y].user].at = "waiting"
      BY <1>5, <1>6, <1>7 DEF LinkPlace
    <2> QED
      BY <1>4, <1>6, <1>8, <2>1, OtherLink DEF LinkPlace
  <1>9. LinkPlace(x)'
    BY <1>2, <1>4, <1>5 DEF LinkPlace, Api!Free
  <1> QED
    BY <1>1, <1>4, <1>7, <1>8, <1>9, LinkMoved DEF Api!Free

\* An attempt leaves its call, which goes on without it.
LEMMA Left ==
    ASSUME ExchangeInv, NEW x \in Links, NEW c \in Asked, asking' = [asking EXCEPT ![link[x].user] = c],
           NEW new, new \in {Api!Free, [link[x] EXCEPT !.user = "none"]}, link' = [link EXCEPT ![x] = new],
           link[x].at = "answered" => new = Api!Free, UNCHANGED record
    PROVE  LinksInv'
  <1>1. LinksInv /\ AskingInv /\ link[x] \in Linked /\ LinkPlace(x)
    BY DEF ExchangeInv, LinksInv
  <1>2. new \in Linked /\ new.user = "none"
    BY <1>1, OtherAnswers DEF Linked, Api!Free, SomeVerb, SomeID
  <1>3. link' \in [Links -> Linked] /\ link'[x] = new /\ \A y \in Links : y # x => link'[y] = link[y]
    BY <1>1, <1>2 DEF LinksInv
  <1>4. ASSUME NEW y \in Links, y # x PROVE link'[y] = link[y] /\ LinkPlace(y)'
    <2>1. LinkPlace(y) /\ link[y].user \in Users \cup {"none"}
      BY <1>1 DEF LinksInv, Linked
    <2>2. link[y].user # "none" => link[y].user # link[x].user
      BY <1>1, <1>4 DEF LinksInv, OneLink
    <2>3. link[y].user # "none" => asking'[link[y].user].at = "waiting"
      BY <1>1, <2>1, <2>2 DEF LinkPlace, AskingInv
    <2> QED
      BY <1>3, <1>4, <2>1, <2>3, OtherLink DEF LinkPlace
  <1>5. LinkPlace(x)'
    BY <1>1, <1>2, <1>3, OtherAnswers DEF LinkPlace, Api!Free, Linked
  <1>6. link'[x].at = "working" => link[x].at = "working"
    BY <1>1, <1>3 DEF Api!Free, Linked
  <1>7. link'[x].at = "working" => \A y \in Links : y # x => link[y].at # "working"
    BY <1>1, <1>6, WorksAlone
  <1> QED
    BY <1>1, <1>2, <1>3, <1>4, <1>5, <1>7, LinkMoved

\* A request gets to work on its active operation.
LEMMA Works ==
    ASSUME ExchangeInv, NEW x \in Links, link[x].at = "sent", Api!Working = {},
           link' = [link EXCEPT ![x].at = "working"], UNCHANGED asking,
           record'[link[x].id].state = "active", record'[link[x].id].verb = link[x].verb
    PROVE  LinksInv'
  <1>1. LinksInv /\ link[x] \in Linked /\ LinkPlace(x)
    BY DEF ExchangeInv, LinksInv
  <1>2. link' \in [Links -> Linked] /\ \A y \in Links : y # x => link'[y] = link[y]
    BY <1>1 DEF LinksInv, Linked
  <1>3. /\ link'[x].at = "working" /\ link'[x].user = link[x].user /\ link'[x].verb = link[x].verb
        /\ link'[x].id = link[x].id /\ link'[x].answer = link[x].answer
    BY <1>1 DEF LinksInv, Linked
  <1>4. \A y \in Links : link[y].at # "working"
    BY Alone
  <1>5. ASSUME NEW y \in Links, y # x PROVE link'[y] = link[y] /\ LinkPlace(y)'
    BY <1>1, <1>2, <1>4, <1>5, OtherLink DEF LinksInv, LinkPlace
  <1>6. LinkPlace(x)'
    BY <1>1, <1>3 DEF LinkPlace
  <1> QED
    BY <1>1, <1>2, <1>3, <1>4, <1>5, <1>6, LinkMoved

\* A step on the records alone, taken while nobody is at work or on an ID that is not
\* active.
LEMMA Idles ==
    ASSUME LinksInv, UNCHANGED <<link, asking>>,
           \A y \in Links : link[y].at = "working" =>
               record'[link[y].id].state = "active" /\ record'[link[y].id].verb = record[link[y].id].verb
    PROVE  LinksInv'
  BY DEF LinksInv, LinkPlace, OneLink

\* A call of the client moves.
LEMMA CallMoved ==
    ASSUME AskingInv, NEW v, NEW c \in Asked, asking' = [asking EXCEPT ![v] = c],
           c.at # "idle" => c.verb \in Api!Verbs /\ c.id \in IDs, c.at = "lost" => c.attempt < Retries
    PROVE  AskingInv'
  <1>1. \A u \in Users : asking'[u] = asking[u] \/ asking'[u] = c
    BY DEF AskingInv
  <1> QED
    BY <1>1 DEF AskingInv, CallPlace

\* What a call may be after its attempt was lost.
LEMMA LostCall ==
    ASSUME AttemptAssumption, NEW v \in Users, AskingInv, asking[v].at # "idle", NEW c \in Api!AfterLoss(asking[v])
    PROVE  /\ c \in Asked
           /\ c.at # "idle" => c.verb \in Api!Verbs /\ c.id \in IDs
           /\ c.at = "lost" => c.attempt < Retries
  BY DEF AttemptAssumption, Api!ApiAssumption, Api!AfterLoss, Api!Idle, AskingInv, CallPlace, Asked, SomeVerb, SomeID

\* An active operation stays active.
LEMMA Stays ==
    ASSUME ExchangeInv, NEW i \in IDs, record[i].state = "active", Api!Stay(i), UNCHANGED told
    PROVE  RecordsInv' /\ \A j \in IDs : record'[j].state = record[j].state /\ record'[j].verb = record[j].verb
  <1>1. RecordsInv
    BY DEF ExchangeInv
  <1>2. CASE UNCHANGED record
    BY <1>1, <1>2, RecordsKept
  <1>3. CASE record' = [record EXCEPT ![i].rollback = TRUE]
    <2>1. record' \in [IDs -> Recorded]
      BY <1>1, <1>3 DEF RecordsInv, Recorded
    <2>2. \A j \in IDs : /\ record'[j].state = record[j].state /\ record'[j].verb = record[j].verb
                         /\ record'[j].reply = record[j].reply
      BY <1>1, <1>3 DEF RecordsInv, Recorded
    <2> QED
      BY <1>1, <2>1, <2>2 DEF RecordsInv, RecordPlace
  <1> QED
    BY <1>2, <1>3 DEF Api!Stay

\* The invariant of the exchange is inductive.
LEMMA ExchangeStep ==
    ASSUME ExchangeInv, [Api!Next]_apiVars, AttemptAssumption
    PROVE  ExchangeInv'
  <1> USE AttemptAssumption DEF AttemptAssumption, Api!ApiAssumption
  <1> USE DEF ExchangeInv, Api!server
  <1>0. Retries \in Nat /\ 0 \in 0 .. Retries
    <2>1. Retries \in Nat
      OBVIOUS
    <2> QED
      BY <2>1
  <1>1. ASSUME NEW v \in Users, NEW x \in Links, Api!Retry(v, x) PROVE ExchangeInv'
    <2>1. PICK c \in Asked : c = [asking[v] EXCEPT !.at = "waiting", !.attempt = @ + 1]
      BY <1>1 DEF Api!Retry, AskingInv, CallPlace, Asked
    <2>2. asking[v].at = "lost" /\ asking[v].verb \in Api!Verbs /\ asking[v].id \in IDs /\ asking[v] \in Asked
      BY <1>1 DEF Api!Retry, AskingInv, CallPlace
    <2>3. asking' = [asking EXCEPT ![v] = c] /\ c.at = "waiting" /\ c.verb = asking[v].verb /\ c.id = asking[v].id
      BY <1>1, <2>1, <2>2 DEF Api!Retry, AskingInv, Asked
    <2>4. AskingInv'
      BY <2>2, <2>3, CallMoved
    <2>5. LinksInv'
      BY <1>1, <2>2, <2>3, Attempted DEF Api!Retry
    <2> QED
      BY <1>1, <2>4, <2>5, RecordsKept DEF Api!Retry
  <1>2. ASSUME NEW v \in Users, NEW x \in Links, NEW verb \in Api!Verbs, NEW i \in IDs, Api!Ask(v, x, verb, i)
        PROVE  ExchangeInv'
    <2>1. PICK c \in Asked : c = [at |-> "waiting", verb |-> verb, id |-> i, attempt |-> 0]
      BY <1>0 DEF Asked, SomeVerb, SomeID
    <2>2. asking' = [asking EXCEPT ![v] = c] /\ c.at = "waiting" /\ c.verb = verb /\ c.id = i
      BY <1>2, <2>1 DEF Api!Ask
    <2>3. AskingInv'
      BY <2>2, CallMoved
    <2>4. LinksInv'
      BY <1>2, <2>2, Attempted DEF Api!Ask
    <2> QED
      BY <1>2, <2>3, <2>4, RecordsKept DEF Api!Ask
  <1>3. ASSUME NEW x \in Links, Api!Receive(x) PROVE ExchangeInv'
    <2>1. PICK c \in Asked : c = Api!Idle
      BY <1>0 DEF Asked, SomeVerb, SomeID, Api!Idle
    <2>2. AskingInv'
      BY <1>3, <2>1, CallMoved DEF Api!Receive, Api!Idle
    <2>3. LinksInv'
      BY <1>3, <2>1, Left DEF Api!Receive
    <2> QED
      BY <1>3, <2>2, <2>3, RecordsKept DEF Api!Receive
  <1>4. ASSUME NEW x \in Links, Api!Lose(x) PROVE ExchangeInv'
    <2>1. link[x].user \in Users /\ asking[link[x].user].at = "waiting"
      BY <1>4 DEF Api!Lose, LinksInv, Linked, LinkPlace
    <2>2. PICK v \in Users : v = link[x].user
      BY <2>1
    <2>3. PICK c \in Api!AfterLoss(asking[v]) : asking' = [asking EXCEPT ![v] = c]
      BY <1>4, <2>2 DEF Api!Lose
    <2>4. /\ c \in Asked
          /\ c.at # "idle" => c.verb \in Api!Verbs /\ c.id \in IDs
          /\ c.at = "lost" => c.attempt < Retries
      BY <2>1, <2>2, LostCall
    <2>5. AskingInv'
      BY <2>3, <2>4, CallMoved
    <2>6. LinksInv'
      BY <1>4, <2>2, <2>3, <2>4, Left DEF Api!Lose
    <2> QED
      BY <1>4, <2>5, <2>6, RecordsKept DEF Api!Lose
  <1>5. ASSUME NEW x \in Links, Api!Expire(x) PROVE ExchangeInv'
    <2>1. RecordsInv'
      BY <1>5, RecordsKept DEF Api!Expire
    <2>2. LinksInv'
      <3>1. \A y \in Links : link[y].at = "working" => record'[link[y].id].state = "active"
              /\ record'[link[y].id].verb = record[link[y].id].verb
        BY <1>5 DEF Api!Expire, LinksInv, LinkPlace
      <3> QED
        BY <1>5, <3>1, OtherAnswers, Replied DEF Api!Expire
    <2> QED
      BY <1>5, <2>1, <2>2 DEF Api!Expire, AskingInv, CallPlace
  <1>6. ASSUME NEW x \in Links, Api!Handle(x), UNCHANGED Api!server, Api!Reply(x, Api!Error) PROVE ExchangeInv'
    <2>1. RecordsInv'
      BY <1>6, RecordsKept
    <2>2. LinksInv'
      BY <1>6, Alone, OtherAnswers, Replied DEF Api!Handle
    <2> QED
      BY <1>6, <2>1, <2>2 DEF Api!Handle, AskingInv, CallPlace
  <1>7. ASSUME NEW x \in Links, Api!Replay(x) PROVE ExchangeInv'
    <2>1. link[x].id \in IDs /\ record[link[x].id].state \in {"succeeded", "failed"} /\ link[x].at = "sent"
      BY <1>7, Asks DEF Api!Replay, Api!Handle, Api!Terminal
    <2>2. RecordsInv'
      BY <1>7, <2>1, ToldAgain DEF Api!Replay, Api!Tell
    <2>3. record[link[x].id].reply \in Replies /\ Acceptable(link[x].verb, record[link[x].id].reply)
      BY <1>7, <2>1 DEF Api!Replay, RecordsInv, Recorded, RecordPlace
    <2>4. LinksInv'
      BY <1>7, <2>1, <2>3, Alone, Replied DEF Api!Replay, Api!Handle, Api!Tell
    <2> QED
      BY <1>7, <2>2, <2>4 DEF Api!Replay, Api!Handle, AskingInv, CallPlace
  <1>8. ASSUME NEW x \in Links, Api!Resume(x) PROVE ExchangeInv'
    <2>1. LinksInv'
      BY <1>8, Works DEF Api!Resume, Api!Handle
    <2> QED
      BY <1>8, <2>1, RecordsKept DEF Api!Resume, Api!Handle, AskingInv, CallPlace
  <1>9. ASSUME NEW x \in Links, Api!Conflict(x) PROVE ExchangeInv'
    <2>1. CASE Api!Reply(x, Api!Error) /\ UNCHANGED <<record, told>>
      BY <1>6, <1>9, <2>1 DEF Api!Conflict, Api!Fresh
    <2>2. CASE Api!Record(x, "failed", Api!Failure("conflict")) /\ Api!Tell(x, Api!Failure("conflict"))
      <3>1. RecordsInv'
        BY <1>9, <2>2, NewRecord, OtherAnswers DEF Api!Conflict, Api!Fresh, Api!Handle, Api!Tell
      <3>2. LinksInv'
        BY <1>9, <2>2, Alone, OtherAnswers, Replied DEF Api!Conflict, Api!Fresh, Api!Handle, Api!Tell
      <3> QED
        BY <1>9, <3>1, <3>2 DEF Api!Conflict, Api!Fresh, Api!Handle, AskingInv, CallPlace
    <2> QED
      BY <1>9, <2>1, <2>2 DEF Api!Conflict
  <1>10. ASSUME NEW x \in Links, Api!Noop(x) PROVE ExchangeInv'
    <2>1. PICK p \in Phases : p = phase.phase
      BY DEF Paired
    <2>2. Acceptable(link[x].verb, Api!Success(p)) /\ Api!Success(p) \in Replies /\ Api!Success(p) # Api!NoAnswer
      BY <1>10, <2>1, OtherAnswers, SuccessAcceptable DEF Api!Noop
    <2>3. \/ Api!Reply(x, Api!Error) /\ UNCHANGED told
          \/ Api!Reply(x, Api!Success(p)) /\ told' = [told EXCEPT ![link[x].id] = @ \cup {Api!Success(p)}]
      BY <1>10, <2>1 DEF Api!Noop, Api!Created, Api!Tell
    <2>4. link[x].at = "sent" /\ Api!Working = {} /\ record[link[x].id] = Api!Unknown
          /\ Api!Record(x, "succeeded", Api!Success(p)) /\ UNCHANGED <<phase, asking, calls>>
      BY <1>10, <2>1 DEF Api!Noop, Api!Fresh, Api!Handle
    <2>5. RecordsInv'
      BY <2>2, <2>3, <2>4, NewRecord
    <2>6. LinksInv'
      BY <2>2, <2>3, <2>4, Alone, OtherAnswers, Replied
    <2> QED
      BY <2>4, <2>5, <2>6 DEF AskingInv, CallPlace
  <1>11. ASSUME NEW x \in Links, Api!Begin(x) PROVE ExchangeInv'
    <2>1. link[x].verb \in Api!Verbs /\ phase' \in Paired
      BY <1>11, Asks DEF Api!Begin, Api!Fresh, Api!Handle, Paired, Phases
    <2>2. RecordsInv' /\ record'[link[x].id].state = "active" /\ record'[link[x].id].verb = link[x].verb
      BY <1>11, OtherAnswers, NewRecord DEF Api!Begin, Api!Fresh, Api!Handle
    <2>3. LinksInv'
      BY <1>11, <2>2, Works DEF Api!Begin, Api!Fresh, Api!Handle
    <2> QED
      BY <1>11, <2>1, <2>2, <2>3 DEF Api!Begin, Api!Fresh, Api!Handle, AskingInv, CallPlace
  <1>12. ASSUME NEW x \in Links, Api!Finish(x) PROVE ExchangeInv'
    <2>1. link[x].id \in IDs /\ link[x].at = "working" /\ record[link[x].id].state = "active"
          /\ record[link[x].id].verb = link[x].verb /\ UNCHANGED <<asking, calls>>
      BY <1>12, Asks DEF Api!Finish, LinksInv, LinkPlace
    <2>2. PICK i \in IDs : i = link[x].id
      BY <2>1
    <2>3. SettledTo(i)
      BY <1>12, <2>2, SettleSettles DEF Api!Finish
    <2>4. PICK answer \in Replies : Api!Reply(x, answer) /\ Acceptable(link[x].verb, answer)
                                    /\ (told' = told \/ told' = [told EXCEPT ![i] = @ \cup {record'[i].reply}])
      <3>1. record'[i].reply \in Replies /\ Acceptable(link[x].verb, record'[i].reply)
        BY <2>1, <2>2, <2>3 DEF SettledTo, Api!Entry, RecordsInv
      <3> QED
        BY <1>12, <2>2, <3>1, OtherAnswers DEF Api!Finish, Api!Tell
    <2>5. RecordsInv' /\ \A j \in IDs : j # i => record'[j] = record[j]
      BY <2>1, <2>2, <2>3, <2>4, SettledKeeps
    <2>6. LinksInv'
      BY <2>1, <2>4, WorksAlone, Replied
    <2> QED
      BY <2>1, <2>3, <2>5, <2>6 DEF AskingInv, CallPlace, SettledTo
  <1>13. ASSUME NEW x \in Links, Api!Falter(x) PROVE ExchangeInv'
    <2>1. link[x].id \in IDs /\ link[x].at = "working" /\ record[link[x].id].state = "active"
      BY <1>13, Asks DEF Api!Falter, LinksInv, LinkPlace
    <2>2. PICK i \in IDs : i = link[x].id
      BY <2>1
    <2>3. RecordsInv' /\ \A j \in IDs : record'[j].state = record[j].state /\ record'[j].verb = record[j].verb
      BY <1>13, <2>1, <2>2, Stays DEF Api!Falter
    <2>4. LinksInv'
      BY <1>13, <2>1, OtherAnswers, WorksAlone, Replied DEF Api!Falter
    <2> QED
      BY <1>13, <2>3, <2>4 DEF Api!Falter, Api!Stay, AskingInv, CallPlace
  <1>14. ASSUME NEW i \in IDs, Api!Reconcile(i) PROVE ExchangeInv'
    <2>1. record[i].state = "active" /\ UNCHANGED <<asking, link, told, calls>>
      BY <1>14 DEF Api!Reconcile, Api!Active
    <2>2. CASE SettledTo(i)
      <3>1. RecordsInv'
        BY <2>1, <2>2, SettledKeeps
      <3> QED
        BY <1>14, <2>1, <2>2, <3>1, Idles, Alone DEF Api!Reconcile, SettledTo, AskingInv, CallPlace
    <2>3. CASE Api!Stay(i)
      <3>1. RecordsInv'
        BY <2>1, <2>3, Stays
      <3> QED
        BY <1>14, <2>1, <2>3, <3>1, Idles, Alone DEF Api!Reconcile, Api!Stay, AskingInv, CallPlace
    <2>4. CASE record[i].verb \in {"start", "kill"} /\ Api!Fail(i, "cleanup", phase)
      BY <2>2, <2>4, FailSettles
    <2> QED
      BY <1>14, <2>2, <2>3, <2>4, SettleSettles DEF Api!Reconcile
  <1>15. ASSUME NEW i \in IDs, Api!Retire(i) PROVE ExchangeInv'
    <2>1. PICK r \in Recorded : r = Api!Entry(record[i].verb, "retired", Api!NoAnswer)
      BY OtherAnswers DEF RecordsInv, Recorded, Api!Entry
    <2>2. record' = [record EXCEPT ![i] = r] /\ r.state = "retired" /\ r.reply = Api!NoAnswer /\ told' = told
      BY <1>15, <2>1 DEF Api!Retire, Api!Entry
    <2>3. RecordsInv'
      BY <2>2, OtherAnswers, RecordWritten
    <2>4. \A j \in IDs : record[j].state = "active" => record'[j] = record[j]
      BY <1>15, <2>2 DEF Api!Retire, Api!Terminal, RecordsInv
    <2>5. LinksInv'
      BY <1>15, <2>4, Idles DEF Api!Retire, LinksInv, LinkPlace
    <2> QED
      BY <1>15, <2>3, <2>5 DEF Api!Retire, AskingInv, CallPlace
  <1>16. CASE Api!Watch
    <2>1. RecordsInv' /\ phase' \in Paired
      BY <1>16, RecordsKept DEF Api!Watch, Paired, Phases
    <2> QED
      BY <1>16, <2>1 DEF Api!Watch, AskingInv, CallPlace, LinksInv, LinkPlace, OneLink
  <1>17. CASE Api!Crash
    <2>1. Api!Idle \in Asked
      BY <1>0 DEF Asked, SomeVerb, SomeID, Api!Idle
    <2> DEFINE next(u) == IF asking[u].at = "waiting" THEN Api!AfterLoss(asking[u]) ELSE {asking[u]}
    <2>2. \A u \in Users : asking'[u] \in next(u)
      BY <1>17 DEF Api!Crash
    <2>3. DOMAIN asking' = Users /\ asking' = [u \in DOMAIN asking' |-> asking'[u]]
      BY <1>17 DEF Api!Crash
    <2>4. ASSUME NEW u \in Users PROVE asking'[u] \in Asked /\ CallPlace(u)'
      <3>1. CASE asking[u].at = "waiting"
        BY <2>2, <3>1, LostCall DEF CallPlace
      <3>2. CASE asking[u].at # "waiting"
        BY <2>2, <3>2 DEF AskingInv, CallPlace
      <3> QED
        BY <3>1, <3>2
    <2>5. AskingInv'
      BY <2>3, <2>4 DEF AskingInv
    <2>6. Api!Free \in Linked
      BY OtherAnswers DEF Linked, Api!Free, SomeVerb, SomeID
    <2>7. LinksInv'
      BY <1>17, <2>6, OtherAnswers DEF Api!Crash, LinksInv, OneLink, LinkPlace, Api!Free
    <2> QED
      BY <1>17, <2>5, <2>7, RecordsKept DEF Api!Crash
  <1>18. CASE UNCHANGED apiVars
    <2>1. RecordsInv'
      BY <1>18, RecordsKept DEF apiVars
    <2> QED
      BY <1>18, <2>1 DEF apiVars, AskingInv, CallPlace, LinksInv, LinkPlace, OneLink
  <1>19. ASSUME NEW x \in Links, Api!Refuse(x) \/ Api!Reject(x) PROVE ExchangeInv'
    BY <1>6, <1>19 DEF Api!Refuse, Api!Reject, Api!Fresh
  <1> QED
    BY <1>1, <1>2, <1>3, <1>4, <1>5, <1>7, <1>8, <1>9, <1>10, <1>11, <1>12, <1>13, <1>14, <1>15, <1>16, <1>17,
       <1>18, <1>19 DEF Api!Next


\* At most one element, said of a set and of its cardinality.
LEMMA SameCardinality == \A S : Api!Cardinality(S) = Cardinality(S)
  BY DEF Cardinality, Api!Cardinality, IsFiniteSet, Api!IsFiniteSet

\* Nothing has been asked for at first.
LEMMA ExchangeInit == AttemptAssumption /\ Api!Init => ExchangeInv
  <1> SUFFICES ASSUME AttemptAssumption, Api!Init PROVE ExchangeInv
    OBVIOUS
  <1>0. Retries \in Nat /\ MaxCalls \in Nat
    BY DEF AttemptAssumption, Api!ApiAssumption
  <1>1. AskingInv
    BY <1>0 DEF Api!Init, Api!Idle, AskingInv, CallPlace, Asked, SomeVerb, SomeID
  <1>2. Api!Free \in Linked /\ Acceptable("none", Api!NoAnswer)
    BY OtherAnswers DEF Linked, Api!Free, SomeVerb, SomeID
  <1>3. LinksInv
    BY <1>2 DEF Api!Init, Api!Free, LinksInv, LinkPlace, OneLink
  <1>4. Api!Unknown \in Recorded
    BY OtherAnswers DEF Api!Unknown, Api!Entry, Recorded, SomeVerb
  <1>5. RecordsInv
    BY <1>2, <1>4 DEF Api!Init, Api!Unknown, Api!Entry, RecordsInv, RecordPlace
  <1>6. phase \in Paired
    <2>1. [phase : {"created", "running", "stopped"}, bound : {TRUE}] \subseteq Paired
      BY DEF Paired, Phases
    <2>2. {[phase |-> "absent", bound |-> FALSE], [phase |-> "stopped", bound |-> FALSE]} \subseteq Paired
      BY DEF Paired, Phases
    <2> QED
      BY <2>1, <2>2 DEF Api!Init
  <1>7. calls \in 0 .. MaxCalls
    BY <1>0 DEF Api!Init
  <1> QED
    BY <1>1, <1>3, <1>5, <1>6, <1>7 DEF ExchangeInv

\* What is proved of the invariant is what the run checks.
LEMMA ExchangeIsExact == AttemptAssumption /\ ExchangeInv => Api!AnswersAreExact
  <1> SUFFICES ASSUME AttemptAssumption, ExchangeInv PROVE Api!AnswersAreExact
    OBVIOUS
  <1> USE DEF ExchangeInv
  <1>1. Cardinality(Api!Working) <= 1
    <2>1. CASE Api!Working = {}
      BY <2>1, FS_EmptySet
    <2>2. CASE Api!Working # {}
      <3>1. PICK x \in Links : x \in Api!Working
        BY <2>2 DEF Api!Working
      <3>2. Api!Working = {x}
        BY <3>1, WorksAlone DEF Api!Working
      <3> QED
        BY <3>2, FS_Singleton, SMTT(40)
    <2> QED
      BY <2>1, <2>2
  <1>2. Api!OneAnswer
    <2>1. ASSUME NEW i \in IDs PROVE Cardinality(told[i]) <= 1
      <3>1. \A a, b \in told[i] : a = b
        BY DEF RecordsInv, RecordPlace
      <3>2. told[i] = {} \/ \E a \in told[i] : told[i] = {a}
        BY <3>1
      <3>3. CASE told[i] = {}
        BY <3>3, FS_EmptySet
      <3>4. CASE \E a \in told[i] : told[i] = {a}
        <4>1. PICK a \in told[i] : told[i] = {a}
          BY <3>4
        <4>2. Cardinality(told[i]) = 1
          BY <4>1, FS_Singleton
        <4> QED
          BY <4>2
      <3> QED
        BY <3>2, <3>3, <3>4
    <2>2. ASSUME NEW i \in IDs, NEW a \in told[i], record[i].state # "retired" PROVE record[i].reply = a
      BY <2>2 DEF RecordsInv, RecordPlace
    <2> QED
      BY <2>1, <2>2, SameCardinality DEF Api!OneAnswer
  <1>3. Api!SuccessIsAccepted
    BY DEF Api!SuccessIsAccepted, LinksInv, LinkPlace, Acceptable
  <1>4. Api!TypeOK
    <2>1. \A u \in Users : asking[u].at \in {"idle", "lost", "waiting"} /\ asking[u].attempt \in 0 .. Retries
      BY DEF AskingInv, Asked
    <2>2. \A x \in Links : link[x].at \in {"free", "sent", "working", "answered"}
      BY DEF LinksInv, Linked
    <2>3. \A i \in IDs : record[i].state \in Api!Terminal <=> record[i].reply # Api!NoAnswer
      BY DEF RecordsInv, RecordPlace, Api!Terminal
    <2>4. phase.phase \in {"absent", "creating", "created", "running", "stopped"}
      BY DEF Paired, Phases
    <2> QED
      BY <1>1, <2>1, <2>2, <2>3, <2>4, SameCardinality DEF Api!TypeOK
  <1> QED
    BY <1>2, <1>3, <1>4 DEF Api!AnswersAreExact

\* ExchangeInv is inductive: whatever answer is lost, whichever request is repeated and
\* whenever the daemon dies, for any number of users, operation IDs and retries.
THEOREM ExchangeInvariant == AttemptSpec => []ExchangeInv
  <1>1. AttemptInit => ExchangeInv
    BY ExchangeInit, AttemptAssumption DEF AttemptInit
  <1>2. ExchangeInv /\ [AttemptNext]_<<subject, allVars, apiVars>> => ExchangeInv'
    BY ExchangeStep, AttemptAssumption DEF AttemptNext
  <1> QED
    BY <1>1, <1>2, PTL DEF AttemptSpec

\* pkg/client doJSON, server handlers and resolveOperation: an operation ID is given one
\* terminal answer, its record's, and no success that the client library refuses.
THEOREM AnswersExact == AttemptSpec => []AnswersAreExact
  BY ExchangeInvariant, ExchangeIsExact, AttemptAssumption, PTL DEF AnswersAreExact

=============================================================================
