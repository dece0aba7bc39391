----------------------------- MODULE MCLiveness -----------------------------
(***************************************************************************)
(* What must eventually happen to an operation of an Attempt and to its          *)
(* workload: in the engine (AttemptEngine, which contains the Coordinator's rules  *)
(* and the wrapper's contract) and in the init wrapper (ShimWrapper).              *)
(*                                                                         *)
(* Each is taken with its own fairness and on its own.  `subject' says whose       *)
(* behaviour this is; the variables of the other keep their initial values, so       *)
(* that the instance is the sum of the two.                                    *)
(***************************************************************************)
EXTENDS ShimWrapper

CONSTANTS Box, Ctr, BoxBy, MadeBy, StartOps, KillOps, StopOps, Specs

VARIABLES
    subject,
    sandbox, pair, op, cond, deadline, daemon, call, known, proc, exit, sent, now,
    crashes                                                                     \* AttemptEngine

engineVars == <<sandbox, pair, op, cond, deadline, daemon, call, known, proc, exit, sent, now, crashes>>
liveVars == <<subject, shimVars, engineVars>>

EngineOps == {BoxBy, MadeBy} \cup StartOps \cup KillOps \cup StopOps

Engine ==
    INSTANCE AttemptEngine WITH
        Sandboxes <- {Box}, Containers <- {Ctr},
        Ops <- EngineOps,
        HostErrors <- FALSE, Grace <- 1, MaxTime <- 2, MaxFaults <- 2, faults <- crashes

ASSUME LivenessAssumption == Engine!EngineAssumption

LiveInit == subject \in {"engine", "wrapper"} /\ Init /\ Engine!EngineInit

LiveNext ==
    /\ UNCHANGED subject
    /\ \/ subject = "engine" /\ Engine!EngineNext /\ UNCHANGED shimVars
       \/ subject = "wrapper" /\ Next /\ UNCHANGED engineVars

\* The fairness of FairEngineSpec in AttemptEngine and of FairSpec in ShimWrapper.
LiveFairness ==
    /\ WF_engineVars(subject = "engine" /\ Engine!MethodStep)
    /\ WF_engineVars(subject = "engine" /\ Engine!RecoverStep)
    /\ WF_engineVars(subject = "engine" /\ Engine!StartDaemon)
    /\ WF_engineVars(subject = "engine" /\ Engine!StopDaemon)
    /\ WF_engineVars(subject = "engine" /\ Engine!Publishes)
    /\ WF_engineVars(subject = "engine" /\ Engine!Tick)
    /\ \A o \in EngineOps : /\ WF_engineVars(subject = "engine" /\ Engine!SynchronizeTerminals(o))
                             /\ WF_engineVars(subject = "engine" /\ Engine!SynchronizeKillDeadlines(o))
                             /\ WF_engineVars(subject = "engine" /\ Engine!Retry(o))
    /\ \A c \in Connections : WF_shimVars(subject = "wrapper" /\ Serve(c))
    /\ WF_shimVars(subject = "wrapper" /\ Reaper)
    /\ WF_shimVars(subject = "wrapper" /\ Inspect)

LiveSpec == LiveInit /\ [][LiveNext]_liveVars /\ LiveFairness

-----------------------------------------------------------------------------
(* Properties.  RequestsAnswered, EndReported and KeepsContract are those of     *)
(* ShimWrapper.                                                              *)

\* A Start that was accepted settles, through crashes between any two of its
\* steps, with the retry of its client and one restart (engine/container.go).
StartSettles == Engine!StartSettles

\* A kill that was accepted ends, although its client may be gone
\* (engine/watch.go), but for the state that RestartCoversStages is about.
KillSettles == Engine!KillSettles

\* The end of a Running workload is recorded without any client (engine/watch.go),
\* unless a restart has blocked the Attempt or left that same state.
EndIsRecorded == Engine!EndIsRecorded
=============================================================================
