---------------------------- MODULE MCTaskQueue ----------------------------
(* TaskQueue on two tasks and two sessions, with every combination of      *)
(* result arguments a caller of complete_task might get wrong.             *)
EXTENDS TaskQueue, TLC

CONSTANTS t1, t2, t3, t4, s1, s2

MCTaskId   == {1, 2}
MCToken    == {t1, t2, t3, t4}
MCSession  == {s1, s2}
MCWinner   == {"white", "black", "nobody"}
MCCode     == {"ENGINE_TIMEOUT"}
MCOutcome  == [evaluation_cp : {Null, 0},
               mate_winner   : {Null, "white", "nobody"},
               mate_moves    : {Null, -1, 0}]

Symmetry == Permutations(MCToken) \cup Permutations(MCSession)
=============================================================================
