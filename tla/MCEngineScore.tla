---------------------------- MODULE MCEngineScore ---------------------------
(* Every kind of position, centipawns and mates of either sign, and two    *)
(* attempts.                                                               *)
EXTENDS EngineScore

MCCode   == {"ENGINE_SCORE_MISSING", "ENGINE_TIMEOUT", "ENGINE_CRASH"}
MCToken  == 1 .. 2
MCWinner == {"white", "black"}
=============================================================================
