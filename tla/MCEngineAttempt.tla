-------------------------- MODULE MCEngineAttempt --------------------------
(* Three calls: one to leave an engine behind, and two to follow it.       *)
EXTENDS EngineAttempt
=============================================================================
