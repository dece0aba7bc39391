------------------------------ MODULE MCAttempt ------------------------------
(***************************************************************************)
(* One Attempt, driven by the engine through two starts, a kill and a stop      *)
(* (AttemptEngine), and the mutations of its Container on their way from two     *)
(* users of the client library to their records and back (ApiExchange).         *)
(*                                                                         *)
(* They share no state.  `subject' says whose behaviour this is; the variables *)
(* of the other keep their initial values, so that the instance is the sum of    *)
(* the two and not their product.                                             *)
(***************************************************************************)
EXTENDS AttemptEngine

CONSTANTS Users, IDs, Links, Retries, MaxCalls \* of ApiExchange

VARIABLES subject, asking, link, record, phase, told, calls \* of ApiExchange, but for the subject

apiVars == <<asking, link, record, phase, told, calls>>

Api == INSTANCE ApiExchange WITH call <- asking, op <- record, pair <- phase

ASSUME AttemptAssumption == Api!ApiAssumption

AttemptInit ==
    /\ subject \in {"engine", "api"} /\ EngineInit /\ Api!Init
    /\ subject = "api" \/ phase.phase = "absent"

AttemptNext ==
    /\ UNCHANGED subject
    /\ \/ subject = "engine" /\ EngineNext /\ UNCHANGED apiVars
       \/ subject = "api" /\ Api!Next /\ UNCHANGED allVars

AttemptSpec == AttemptInit /\ [][AttemptNext]_<<subject, allVars, apiVars>>

-----------------------------------------------------------------------------
(* Properties.  The others are those of AttemptEngine.                       *)

\* However attempts are lost, repeated, overtaken by others or cut by a crash of the
\* daemon, an operation ID is given one terminal answer, the one its record keeps, and
\* none that the client library refuses (pkg/client doJSON, lifecycle resolveOperation).
AnswersAreExact == Api!AnswersAreExact
=============================================================================
