---- MODULE MCAttemptEngine ----
(* One Attempt, driven by the engine (AttemptEngine) through two starts, a kill and a stop. *)
EXTENDS AttemptEngine, TLC
====
