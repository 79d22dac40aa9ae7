--------------------------- MODULE AttemptPromise ---------------------------
(***************************************************************************)
(* What evaluate_fen of app/stockfish.py promises the worker, without its  *)
(* threads, engines and clean-ups: calls come one after the other, each    *)
(* ends once, with an answer before the hard timeout or with a timeout     *)
(* from then on, and no later than two grace periods after it.  For the    *)
(* Evaluate of Service this is one step; here it takes time.               *)
(***************************************************************************)
EXTENDS Integers

CONSTANTS Calls, Hard, Grace

VARIABLES
  call,     \* the calls made so far
  spent,    \* the ticks since the last one was made
  outcome   \* what each has come to

promiseVars == <<call, spent, outcome>>

Running == call > 0 /\ outcome[call] = "none"

End(result) == /\ outcome' = [outcome EXCEPT ![call] = result]
               /\ UNCHANGED <<call, spent>>

Begin == /\ ~Running /\ call < Calls
         /\ call' = call + 1 /\ spent' = 0 /\ UNCHANGED outcome

Pass == /\ Running /\ spent < Hard + 2 * Grace
        /\ spent' = spent + 1 /\ UNCHANGED <<call, outcome>>

Answer == Running /\ spent <= Hard /\ \E r \in {"value", "error"} : End(r)

TimeOut == Running /\ spent >= Hard /\ End("timeout")

PromiseInit == /\ call = 0 /\ spent = 0
               /\ outcome = [a \in 1 .. Calls |-> "none"]

PromiseNext == Begin \/ Pass \/ Answer \/ TimeOut

PromiseSpec == PromiseInit /\ [][PromiseNext]_promiseVars
=============================================================================
