---------------------------- MODULE MCDeployment ----------------------------
(* Two tasks, two workers, and an environment that is edited: the engine   *)
(* is replaced by a newer one, timeouts and lease are lowered together,    *)
(* and some edits are mistakes.                                            *)
EXTENDS Deployment, TLC

CONSTANTS w1, w2, t1, t2

Env(path, search, hard, threads, lease) ==
  [path |-> path, search |-> search, hard |-> hard, threads |-> threads,
   lease |-> lease]

MCWorker    == {w1, w2}
MCTask      == {t1, t2}
MCInstalled == {"engine-15", "engine-16"}
MCSetting   == {Env("engine-15", 1, 2, 1, 4), Env("engine-16", 1, 1, 1, 2),
                Env("engine-15", 2, 1, 1, 2), Env("engine-15", 1, 2, 1, 2),
                Env("engine-17", 1, 1, 2, 2)}
MCUpgrade   == {Env("engine-15", 1, 2, 1, 4), Env("engine-16", 1, 1, 1, 2)}
MCCode      == {"ENGINE_TIMEOUT", "ENGINE_CONFIG_INVALID"}
MCWinner    == {"white", "black"}

Symmetry == Permutations(MCWorker)
=============================================================================
