--------------------------- MODULE EngineAttempt ---------------------------
(***************************************************************************)
(* evaluate_fen of app/stockfish.py, called again and again by a worker.   *)
(* Each call starts an attempt thread with an engine process of its own    *)
(* and waits for it until a deadline.  A call that gives up closes the     *)
(* engine it can see; the attempt thread closes its engine too, sooner or  *)
(* later, and may still do so while the next call is under way.            *)
(*                                                                         *)
(* Time passes only in calls and waits, in ticks.  A wait that is over is  *)
(* acted upon before the next tick, and so is the death of an engine.      *)
(* 10 ms, the least time anything is waited for, is no tick at all.        *)
(***************************************************************************)
EXTENDS Integers, FiniteSets

CONSTANTS
  Calls,    \* bound on the calls of evaluate_fen
  Hard,     \* hard_attempt_timeout_seconds
  Search,   \* search_time_seconds
  Grace,    \* the grace period of _close_engine
  Pause,    \* poll_interval_seconds: between two calls
  Null

ASSUME AttemptAssumption ==
  /\ Calls \in Nat /\ Hard \in Nat \ {0}
  /\ Search \in 1 .. Hard        \* _settings refuses a longer search
  /\ Grace \in Nat \ {0} /\ Pause \in Nat \ {0}
  /\ Null \notin Nat

VARIABLES
  caller,   \* where evaluate_fen is, in which attempt, and for how long
  thread,   \* each attempt's thread: its place, its wait, its deadline
  engine,   \* each attempt's engine process
  holder,   \* has the thread put its engine into holder?
  output,   \* what the thread has put into output
  scored,   \* history: the ticks that were left when the score was known
  outcome   \* what each call has returned or raised

attemptVars == <<caller, thread, engine, holder, output, scored, outcome>>

Attempt == 1 .. Calls

(* SimpleEngine applies the timeout it was opened with to every call. To    *)
(* fork a process takes no tick, so that popen_uci has the one timeout of  *)
(* its handshake.                                                          *)
Patience == Hard

Least(a, b) == IF a <= b THEN a ELSE b
-----------------------------------------------------------------------------
CallerState == [at : {"idle", "join", "quit", "terminate"}, attempt : 0 .. Calls,
                wait : Nat, spent : Nat]

ThreadPlace == {"unborn", "popen", "configure", "analyse",
                "quit", "terminate", "ended"}

ThreadState == [pc : ThreadPlace, wait : Nat, budget : 0 .. Hard, grace : Nat]

Unborn == [pc |-> "unborn", wait |-> 0, budget |-> 0, grace |-> 0]

ThreadAt(a, pc) == thread[a].pc = pc
Alive(a)   == thread[a].pc \notin {"unborn", "ended"}
Up(a)      == engine[a] = "up"
Current    == caller.attempt
InCall(at) == caller.at = at

Move(a, pc, wait) ==
  thread' = [thread EXCEPT ![a].pc = pc, ![a].wait = wait]
Die(a) == engine' = [engine EXCEPT ![a] = IF @ = "up" THEN "dead" ELSE @]

(* Mutant of Kill: the process is told to end, and waited for.             *)
WaitForDeath(a) == ~Up(a) /\ Die(a)

(* terminate, a wait with a timeout, kill.                                 *)
Kill(a) == Die(a)

Quit(a, grace) ==
  thread' = [thread EXCEPT ![a].pc = "quit", ![a].wait = grace, ![a].grace = grace]

(* Mutant of CloseEngine: it waits for quit as long as the library does.   *)
CloseAtLeisure(a) == Quit(a, Patience)

(* Mutant of CloseEngine: the clean-up is not in a finally clause.         *)
CloseIfValue(a) == IF output'[a] = "value" THEN Quit(a, Grace) ELSE Move(a, "ended", 0)

(* _close_engine, as the last thing the thread does: quit, and a grace     *)
(* period that ends no later than the deadline.                            *)
CloseEngine(a) == Quit(a, Least(Grace, thread[a].budget))
-----------------------------------------------------------------------------
(* The attempt thread: _evaluate_engine.                                   *)

(* popen_uci has started the process; the handshake is under way.          *)
Spawned(a) == /\ ThreadAt(a, "popen") /\ engine[a] = "none"
              /\ engine' = [engine EXCEPT ![a] = "up"]
              /\ UNCHANGED <<caller, thread, holder, output, scored, outcome>>

Opened(a) == /\ ThreadAt(a, "popen") /\ Up(a)
             /\ holder' = [holder EXCEPT ![a] = TRUE]
             /\ Move(a, "configure", Patience)
             /\ UNCHANGED <<caller, engine, output, scored, outcome>>

(* popen_uci raised, perhaps for its timeout; it leaves no process behind. *)
OpenFails(a) == /\ ThreadAt(a, "popen")
                /\ Die(a) /\ Move(a, "ended", 0)
                /\ output' = [output EXCEPT ![a] = "error"]
                /\ UNCHANGED <<caller, holder, scored, outcome>>

(* Mutant of Configured: the deadline is not looked at before the search.  *)
ConfiguredAnyway(a) ==
  /\ ThreadAt(a, "configure") /\ Up(a)
  /\ Move(a, "analyse", Patience + Least(Search, thread[a].budget))
  /\ UNCHANGED <<caller, engine, holder, output, scored, outcome>>

Configured(a) ==
  /\ ThreadAt(a, "configure") /\ Up(a)
  /\ IF thread[a].budget > 0
     THEN /\ Move(a, "analyse", Patience + Least(Search, thread[a].budget))
          /\ UNCHANGED output
     ELSE /\ output' = [output EXCEPT ![a] = "error"]
          /\ CloseEngine(a)
  /\ UNCHANGED <<caller, engine, holder, scored, outcome>>

(* A score, or one that _normalise_score refuses.                          *)
Analysed(a) ==
  /\ ThreadAt(a, "analyse") /\ Up(a)
  /\ \/ /\ output' = [output EXCEPT ![a] = "value"]
        /\ scored' = [scored EXCEPT ![a] = thread[a].budget]
     \/ /\ output' = [output EXCEPT ![a] = "error"]
        /\ UNCHANGED scored
  /\ CloseEngine(a)
  /\ UNCHANGED <<caller, engine, holder, outcome>>

(* configure or analyse raised: the engine died, or did not answer.        *)
CallFails(a) == /\ ThreadAt(a, "configure") \/ ThreadAt(a, "analyse")
                /\ output' = [output EXCEPT ![a] = "error"]
                /\ CloseEngine(a)
                /\ UNCHANGED <<caller, engine, holder, scored, outcome>>

(* The process has ended.  quit() may also raise because the library's own *)
(* timeout is over, and close() lets that pass for an end; but not here,   *)
(* where the grace period is what is left of the same timeout.             *)
QuitReturns(a) == /\ ThreadAt(a, "quit")
                  /\ Die(a) /\ Move(a, "ended", 0)
                  /\ UNCHANGED <<caller, holder, output, scored, outcome>>

(* Mutant of QuitHangs: the clean-up ends with its grace period.           *)
QuitForgotten(a) == /\ ThreadAt(a, "quit") /\ thread[a].wait = 0 /\ Up(a)
                    /\ Move(a, "ended", 0)
                    /\ UNCHANGED <<caller, engine, holder, output, scored, outcome>>

QuitHangs(a) == /\ ThreadAt(a, "quit") /\ thread[a].wait = 0 /\ Up(a)
                /\ Move(a, "terminate", thread[a].grace)
                /\ UNCHANGED <<caller, engine, holder, output, scored, outcome>>

(* The process obeys SIGTERM, or is killed when the second wait is over.   *)
Terminated(a) == /\ ThreadAt(a, "terminate")
                 /\ Kill(a) /\ Move(a, "ended", 0)
                 /\ UNCHANGED <<caller, holder, output, scored, outcome>>

EngineDies(a) == /\ Up(a) /\ Die(a)
                 /\ UNCHANGED <<caller, thread, holder, output, scored, outcome>>
-----------------------------------------------------------------------------
(* The caller: evaluate_fen, for a position that is not terminal.          *)

Call ==
  /\ InCall("idle") /\ caller.wait = 0 /\ Current < Calls
  /\ caller' = [at |-> "join", attempt |-> Current + 1, wait |-> Hard, spent |-> 0]
  /\ thread' = [thread EXCEPT ![Current + 1] =
                  [pc |-> "popen", wait |-> Hard, budget |-> Hard, grace |-> 0]]
  /\ UNCHANGED <<engine, holder, output, scored, outcome>>

Return(result) ==
  /\ outcome' = [outcome EXCEPT ![Current] = result]
  /\ caller' = [caller EXCEPT !.at = "idle", !.wait = Pause]

Joined == /\ InCall("join") /\ ThreadAt(Current, "ended")
          /\ Return(IF output[Current] = "value" THEN "value" ELSE "error")
          /\ UNCHANGED <<thread, engine, holder, output, scored>>

(* Mutant of GivesUp: the join takes the search time for the deadline.     *)
GivesUpEarly ==
  /\ InCall("join") /\ caller.spent >= Search /\ ~ThreadAt(Current, "ended")
  /\ IF holder[Current]
     THEN /\ caller' = [caller EXCEPT !.at = "quit", !.wait = Grace]
          /\ UNCHANGED outcome
     ELSE Return("timeout")
  /\ UNCHANGED <<thread, engine, holder, output, scored>>

(* The join has timed out: close the engine if there is one to be seen.    *)
GivesUp ==
  /\ InCall("join") /\ caller.wait = 0 /\ ~ThreadAt(Current, "ended")
  /\ IF holder[Current]
     THEN /\ caller' = [caller EXCEPT !.at = "quit", !.wait = Grace]
          /\ UNCHANGED outcome
     ELSE Return("timeout")
  /\ UNCHANGED <<thread, engine, holder, output, scored>>

(* The process has ended, or quit() raises because the library's timeout   *)
(* is over before the grace period is, and close() lets that pass: then    *)
(* the engine is left to the attempt thread.                               *)
QuitRaises == Grace - caller.wait >= Patience

CallerQuits == /\ InCall("quit")
               /\ Die(Current) \/ (QuitRaises /\ UNCHANGED engine)
               /\ Return("timeout")
               /\ UNCHANGED <<thread, holder, output, scored>>

CallerHangs == /\ InCall("quit") /\ caller.wait = 0 /\ Up(Current)
               /\ caller' = [caller EXCEPT !.at = "terminate", !.wait = Grace]
               /\ UNCHANGED <<thread, engine, holder, output, scored, outcome>>

CallerTerminates == /\ InCall("terminate")
                    /\ Kill(Current) /\ Return("timeout")
                    /\ UNCHANGED <<thread, holder, output, scored>>
-----------------------------------------------------------------------------
(* What may not wait for the next tick.                                    *)
ThreadDue(a) == Alive(a) /\ (thread[a].wait = 0 \/ engine[a] = "dead")

CallerDue == \/ InCall("join") /\ (caller.wait = 0 \/ ThreadAt(Current, "ended"))
             \/ /\ InCall("quit") \/ InCall("terminate")
                /\ caller.wait = 0 \/ ~Up(Current)

Less(n) == IF n > 0 THEN n - 1 ELSE 0

Tick ==
  /\ ~CallerDue /\ \A a \in Attempt : ~ThreadDue(a)
  /\ ~InCall("idle") \/ caller.wait > 0 \/ \E a \in Attempt : Alive(a)
  /\ caller' = [caller EXCEPT !.wait = Less(@),
                              !.spent = IF InCall("idle") THEN @ ELSE @ + 1]
  /\ thread' = [a \in Attempt |-> [thread[a] EXCEPT !.wait = Less(@),
                                                    !.budget = Less(@)]]
  /\ UNCHANGED <<engine, holder, output, scored, outcome>>
-----------------------------------------------------------------------------
AttemptInit ==
  /\ caller = [at |-> "idle", attempt |-> 0, wait |-> 0, spent |-> 0]
  /\ thread = [a \in Attempt |-> Unborn]
  /\ engine = [a \in Attempt |-> "none"]
  /\ holder = [a \in Attempt |-> FALSE]
  /\ output = [a \in Attempt |-> "none"]
  /\ scored = [a \in Attempt |-> Null]
  /\ outcome = [a \in Attempt |-> "none"]

(* What the code does by itself, and what it does because an engine or the *)
(* library has answered.                                                   *)
Caller == Joined \/ GivesUp \/ CallerHangs \/ CallerQuits \/ CallerTerminates
Thread(a) == \/ Opened(a) \/ OpenFails(a) \/ Configured(a) \/ Analysed(a)
             \/ CallFails(a) \/ QuitReturns(a) \/ QuitHangs(a) \/ Terminated(a)

AttemptNext == \/ Call \/ Caller \/ Tick
               \/ \E a \in Attempt : Thread(a) \/ Spawned(a) \/ EngineDies(a)

AttemptSpec == AttemptInit /\ [][AttemptNext]_attemptVars

(* Waits end: nothing is assumed of an engine, except that a killed one is *)
(* dead.                                                                   *)
Unanswered(a) == \/ thread[a].wait = 0 /\ (OpenFails(a) \/ CallFails(a) \/ Terminated(a))
                 \/ QuitHangs(a)
                 \/ engine[a] = "dead" /\ (OpenFails(a) \/ CallFails(a)
                                           \/ QuitReturns(a) \/ Terminated(a))

CallerAlone == \/ Joined \/ GivesUp \/ CallerHangs
               \/ caller.wait = 0 /\ CallerTerminates
               \/ (CallerQuits \/ CallerTerminates) /\ ~Up(Current)

FairAttempts == /\ AttemptSpec
                /\ WF_attemptVars(Tick) /\ WF_attemptVars(CallerAlone)
                /\ \A a \in Attempt : WF_attemptVars(Unanswered(a))
-----------------------------------------------------------------------------
(* Every wait, deadline and outcome is of its kind: what remains of a      *)
(* deadline is floored by max(0.01, ...), and never negative.              *)
AttemptTypeOK ==
  /\ caller \in CallerState
  /\ thread \in [Attempt -> ThreadState]
  /\ engine \in [Attempt -> {"none", "up", "dead"}]
  /\ holder \in [Attempt -> BOOLEAN]
  /\ output \in [Attempt -> {"none", "value", "error"}]
  /\ scored \in [Attempt -> 0 .. Hard \cup {Null}]
  /\ outcome \in [Attempt -> {"none", "value", "error", "timeout"}]

(* What the comment of evaluate_fen says: the hard cap includes start-up,  *)
(* configuration, search, and shutdown.                                    *)
HardCap == ~InCall("idle") => caller.spent <= Hard

(* What the code does keep to: two grace periods more, when the engine     *)
(* ignores both the quit and the SIGTERM of the caller.                    *)
CapWithGrace == ~InCall("idle") => caller.spent <= Hard + 2 * Grace

(* A call that got an answer from its thread leaves no engine behind.      *)
AnsweredIsClosed ==
  \A a \in Attempt : outcome[a] \in {"value", "error"} => ~Up(a)

(* An engine that outlives its call is owned by a thread that has not put  *)
(* it into holder in time, and that will close it without a search.        *)
LateEnginesAreIdle ==
  \A a \in Attempt :
    outcome[a] = "timeout" /\ Up(a) =>
      thread[a].pc \in {"popen", "configure", "quit", "terminate"}

(* No engine is ever left to itself.                                       *)
EnginesAreOwned == \A a \in Attempt : Up(a) => Alive(a)

(* At most one engine of an earlier call still runs beside that of the     *)
(* present one: Threads and Hash are spent twice at most.                  *)
AtMostTwoEngines == Cardinality({a \in Attempt : Up(a)}) <= 2

(* A score known early enough for the clean-up is never lost to the        *)
(* watchdog.                                                               *)
PromptScoresCount ==
  \A a \in Attempt : outcome[a] = "timeout" /\ output[a] = "value"
                       => scored[a] <= 2 * Grace
-----------------------------------------------------------------------------
(* What makes these invariants inductive.                                  *)

(* What the place of a thread says of its engine and of what it has put    *)
(* where the caller looks.                                                 *)
Placed(a) ==
  /\ ThreadAt(a, "unborn") <=> a > Current
  /\ ThreadAt(a, "unborn") => engine[a] = "none" /\ ~holder[a]
  /\ ThreadAt(a, "popen") => ~holder[a] /\ thread[a].wait = thread[a].budget
  /\ thread[a].pc \in {"unborn", "popen", "configure", "analyse"} => output[a] = "none"
  /\ thread[a].pc \in {"configure", "analyse", "quit", "terminate"}
       => holder[a] /\ engine[a] # "none"
  /\ ThreadAt(a, "quit") => thread[a].grace <= Grace

(* Calls are answered one after the other; a call that has timed out has   *)
(* used up its deadline.                                                   *)
Answered(a) ==
  /\ outcome[a] = "none" <=> a > Current \/ (a = Current /\ ~InCall("idle"))
  /\ outcome[a] \in {"value", "error"} => ThreadAt(a, "ended")
  /\ outcome[a] = "timeout" => thread[a].budget = 0

(* How long ago the score was known.                                       *)
ScoreAge(a) == scored[a] - thread[a].budget

Timely(a) ==
  output[a] = "value" =>
    /\ scored[a] \in Nat
    /\ ThreadAt(a, "quit") => ScoreAge(a) <= Grace - thread[a].wait
    /\ ThreadAt(a, "terminate") => ScoreAge(a) <= 2 * Grace - thread[a].wait
    /\ outcome[a] = "timeout" \/ (a = Current /\ (InCall("quit") \/ InCall("terminate")))
         => scored[a] <= 2 * Grace

(* An engine that has outlived its call, or will be started after it, and  *)
(* the ticks that its thread has left.                                     *)
Late(a) == outcome[a] = "timeout" /\ engine[a] # "dead" /\ Alive(a)

Left(a) == IF ThreadAt(a, "popen") THEN Hard
           ELSE IF ThreadAt(a, "configure") THEN thread[a].wait ELSE 0

(* It is gone before another call can time out.                            *)
LateEnds(a) ==
  Late(a) =>
    /\ ~ThreadAt(a, "analyse")
    /\ ~ThreadAt(a, "configure") => thread[a].wait = 0
    /\ ThreadAt(a, "quit") => thread[a].grace = 0
    /\ InCall("idle") => Left(a) + Pause - caller.wait <= Hard
    /\ InCall("join") => Left(a) + Pause <= caller.wait
    /\ InCall("idle") \/ InCall("join")

OneLate == \A a, b \in Attempt : Late(a) /\ Late(b) => a = b

(* The caller's wait and its thread's deadline are the same time.          *)
Calling ==
  /\ InCall("idle") => caller.wait <= Pause
  /\ ~InCall("idle") => Current \in Attempt
  /\ InCall("join") => /\ caller.wait = thread[Current].budget
                       /\ caller.spent + caller.wait = Hard
  /\ InCall("quit") => caller.spent + caller.wait <= Hard + Grace
  /\ InCall("terminate") => caller.spent + caller.wait <= Hard + 2 * Grace
  /\ InCall("quit") \/ InCall("terminate")
       => holder[Current] /\ thread[Current].budget = 0 /\ caller.spent >= Hard

(* A hard timeout so short that a quit() can raise before its grace period *)
(* is over is no such deployment (the defaults are 10 s and 0.25 s).       *)
ShortGrace == Grace < Patience

(* The inductive invariant of the attempts of a worker with a short grace. *)
AttemptIInv ==
  /\ AttemptTypeOK /\ EnginesAreOwned /\ Calling /\ OneLate
  /\ \A a \in Attempt : Placed(a) /\ Answered(a) /\ Timely(a) /\ LateEnds(a)
-----------------------------------------------------------------------------
(* The calls keep the promise of AttemptPromise: each ends once, answered  *)
(* in time or timed out no earlier than the hard timeout, and soon after.  *)
Promise == INSTANCE AttemptPromise WITH call <- caller.attempt, spent <- caller.spent

KeepsPromise == Promise!PromiseSpec

(* A wedged engine does not wedge the worker: evaluate_fen returns.        *)
EveryCallReturns == []<>InCall("idle")

(* A wedged engine does not stay on the host: some clean-up kills it.      *)
EveryEngineEnds == \A a \in Attempt : Up(a) ~> ~Up(a)
=============================================================================
