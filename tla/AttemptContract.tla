-------------------------- MODULE AttemptContract --------------------------
(***************************************************************************)
(* What the record of one Attempt promises about its workload, whatever      *)
(* crashes, retries and lost answers lie between them: the workload runs at   *)
(* most once, the record follows it and never leads it, and the outcome that  *)
(* is recorded is the one the wrapper committed, recorded once.               *)
(***************************************************************************)
CONSTANTS Pending, Outcomes

VARIABLES
    workload,    \* waiting, consumed, running, ended or lost
    outcome,     \* what the wrapper committed
    phase,       \* the durable phase: created, running or stopped
    recorded     \* the durable outcome

contractVars == <<workload, outcome, phase, recorded>>

ContractInit ==
    /\ workload = "waiting" /\ outcome = Pending
    /\ phase = "created" /\ recorded = Pending

Launch == workload = "waiting" /\ workload' = "consumed" /\ UNCHANGED outcome

Publish == workload = "consumed" /\ workload' = "running" /\ UNCHANGED outcome

End == /\ workload \in {"consumed", "running"} /\ workload' = "ended"
       /\ outcome' \in Outcomes

Lose == workload # "lost" /\ workload' = "lost" /\ UNCHANGED outcome

\* Running is recorded of a workload that was published, and may already be
\* over by then.
RecordRunning ==
    /\ phase = "created" /\ workload \in {"running", "ended", "lost"}
    /\ phase' = "running" /\ UNCHANGED recorded

RecordEnd ==
    /\ phase \in {"created", "running"} /\ outcome # Pending
    /\ phase' = "stopped" /\ recorded' = outcome

ContractNext ==
    \/ (Launch \/ Publish \/ End \/ Lose) /\ UNCHANGED <<phase, recorded>>
    \/ (RecordRunning \/ RecordEnd) /\ UNCHANGED <<workload, outcome>>

ContractSpec == ContractInit /\ [][ContractNext]_contractVars
=============================================================================
