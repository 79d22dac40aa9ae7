----------------------------- MODULE MCService -----------------------------
(* Two workers and one or two tasks, with an ordinary result of zero, a    *)
(* mate, and one engine error.                                             *)
EXTENDS Service, TLC

CONSTANTS k1, k2, k3, k4, w1, w2

Zero == [evaluation_cp |-> 0, mate_winner |-> Null, mate_moves |-> Null]
Mate == [evaluation_cp |-> Null, mate_winner |-> "white", mate_moves |-> 0]

TwoTokens   == {k1, k2}
FourTokens  == {k1, k2, k3, k4}
TwoWorkers  == {w1, w2}
OneTask     == {1}
TwoTasks    == {1, 2}
MCWinner    == {"white", "black"}
MCCode      == {"ENGINE_TIMEOUT"}
ZeroOnly    == {Zero}
ZeroAndMate == {Zero, Mate}
MCSession   == Worker \cup TaskId

TwoTokenSymmetry  == Permutations(TwoTokens) \cup Permutations(TwoWorkers)
FourTokenSymmetry == Permutations(FourTokens) \cup Permutations(TwoWorkers)
=============================================================================
