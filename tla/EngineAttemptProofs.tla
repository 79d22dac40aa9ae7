------------------------ MODULE EngineAttemptProofs ------------------------
(***************************************************************************)
(* What a worker's attempts keep to, for every number of calls, every hard *)
(* timeout and search time, every pause, and every grace period shorter    *)
(* than the hard timeout.                                                  *)
(***************************************************************************)
EXTENDS EngineAttempt, FiniteSetTheorems, TLAPS

Each(a) == /\ Placed(a) /\ Answered(a) /\ Timely(a) /\ LateEnds(a)
           /\ Up(a) => Alive(a)

Whole == AttemptTypeOK /\ Calling /\ OneLate /\ \A a \in Attempt : Each(a)

LEMMA WholeIsIInv == Whole <=> AttemptIInv
BY DEF Whole, AttemptIInv, Each, EnginesAreOwned

LEMMA Times ==
  /\ Hard \in Nat /\ Hard > 0 /\ Search \in Nat /\ Search <= Hard
  /\ Grace \in Nat /\ Grace > 0 /\ Pause \in Nat /\ Pause > 0
  /\ Calls \in Nat /\ \A n \in Nat : n # Null
BY AttemptAssumption

LEMMA AttemptInitially == AttemptInit => Whole
<1> SUFFICES ASSUME AttemptInit PROVE Whole
  OBVIOUS
<1> USE Times DEF AttemptInit, Attempt, Unborn, ThreadAt, Current, InCall
<1>1. AttemptTypeOK
  BY DEF AttemptTypeOK, CallerState, ThreadState, ThreadPlace
<1>2. Calling
  BY DEF Calling
<1>3. \A a \in Attempt : ~Late(a) /\ Each(a)
  BY DEF Late, Each, Placed, Answered, Timely, LateEnds, Up, Alive
<1>4. OneLate
  BY <1>3 DEF OneLate
<1> QED BY <1>1, <1>2, <1>3, <1>4 DEF Whole
-----------------------------------------------------------------------------
(* An attempt that a step leaves alone stays as it was.                    *)
LEMMA Unmoved ==
  ASSUME NEW b \in Attempt, Each(b), UNCHANGED <<caller, outcome>>,
         thread'[b] = thread[b], engine'[b] = engine[b], holder'[b] = holder[b],
         output'[b] = output[b], scored'[b] = scored[b]
  PROVE  Each(b)' /\ Late(b)' = Late(b)
BY DEF Each, Placed, Answered, Timely, ScoreAge, LateEnds, Late, Left, ThreadAt,
       Alive, Up, Current, InCall

(* A step of one thread, or of one engine, concerns its attempt only.      *)
LEMMA OneAttemptMoves ==
  ASSUME Whole, NEW a \in Attempt, UNCHANGED <<caller, outcome>>,
         \A b \in Attempt \ {a} :
           /\ thread'[b] = thread[b] /\ engine'[b] = engine[b]
           /\ holder'[b] = holder[b] /\ output'[b] = output[b]
           /\ scored'[b] = scored[b],
         AttemptTypeOK', Each(a)', Late(a)' => Late(a),
         thread'[a].budget = thread[a].budget, holder[a] => holder'[a]
  PROVE  Whole'
<1>1. \A b \in Attempt \ {a} : Each(b)' /\ Late(b)' = Late(b)
  BY Unmoved DEF Whole
<1>2. \A b \in Attempt : Each(b)' /\ (Late(b)' => Late(b))
  BY <1>1
<1>3. OneLate'
  BY <1>2 DEF Whole, OneLate
<1>4. Calling'
  BY DEF Whole, Calling, InCall, Current
<1> QED BY <1>2, <1>3, <1>4 DEF Whole
-----------------------------------------------------------------------------
(* The steps of a thread, and of its engine.                               *)

LEMMA Moves ==
  ASSUME thread \in [Attempt -> ThreadState], NEW a \in Attempt,
         NEW pc \in ThreadPlace, NEW wait \in Nat, Move(a, pc, wait)
  PROVE  thread' \in [Attempt -> ThreadState]
<1>1. thread[a] \in ThreadState
  OBVIOUS
<1>2. [thread[a] EXCEPT !.pc = pc, !.wait = wait] \in ThreadState
  BY <1>1 DEF ThreadState
<1> QED BY <1>2 DEF Move

LEMMA Quits ==
  ASSUME thread \in [Attempt -> ThreadState], NEW a \in Attempt, NEW grace \in Nat,
         Quit(a, grace)
  PROVE  thread' \in [Attempt -> ThreadState]
<1>1. thread[a] \in ThreadState
  OBVIOUS
<1>2. [thread[a] EXCEPT !.pc = "quit", !.wait = grace, !.grace = grace] \in ThreadState
  BY <1>1 DEF ThreadState, ThreadPlace
<1> QED BY <1>2 DEF Quit

LEMMA Closes ==
  ASSUME thread \in [Attempt -> ThreadState], NEW a \in Attempt, CloseEngine(a)
  PROVE  thread' \in [Attempt -> ThreadState]
<1>1. thread[a] \in ThreadState
  OBVIOUS
<1>2. Least(Grace, thread[a].budget) \in Nat
  BY <1>1, Times DEF ThreadState, Least
<1> QED BY <1>2, Quits DEF CloseEngine

LEMMA SpawnedKeeps ==
  ASSUME Whole, NEW a \in Attempt, Spawned(a) PROVE Whole'
<1> USE Times DEF Spawned, ThreadAt, Up
<1>1. AttemptTypeOK /\ Each(a) /\ Calling
  BY DEF Whole
<1>2. AttemptTypeOK'
  BY <1>1 DEF AttemptTypeOK, ThreadState, ThreadPlace
<1>3. Each(a)'
  <2> USE <1>1 DEF AttemptTypeOK, CallerState, ThreadState, ThreadPlace, Current, InCall
  <2>1. Placed(a)' /\ (Up(a) => Alive(a))'
    BY DEF Each, Placed, Alive
  <2>2. Answered(a)'
    BY DEF Each, Answered
  <2>3. Timely(a)'
    BY DEF Each, Placed, Answered, Timely, ScoreAge, Calling
  <2>4. LateEnds(a)'
    BY DEF Each, Placed, Answered, LateEnds, Late, Left, Alive
  <2> QED BY <2>1, <2>2, <2>3, <2>4 DEF Each
<1>4. Late(a)' => Late(a)
  BY <1>1 DEF Each, Placed, Late, Alive, AttemptTypeOK
<1>5. /\ thread'[a].budget = thread[a].budget /\ (holder[a] => holder'[a])
      /\ UNCHANGED <<caller, outcome>>
      /\ \A b \in Attempt \ {a} :
           /\ thread'[b] = thread[b] /\ engine'[b] = engine[b]
           /\ holder'[b] = holder[b] /\ output'[b] = output[b]
           /\ scored'[b] = scored[b]
  BY <1>1 DEF AttemptTypeOK, ThreadState
<1> QED BY <1>2, <1>3, <1>4, <1>5, OneAttemptMoves

LEMMA OpenedKeeps ==
  ASSUME Whole, NEW a \in Attempt, Opened(a) PROVE Whole'
<1> USE Times DEF Opened, Move, Patience, ThreadAt, Up
<1>1. AttemptTypeOK /\ Each(a) /\ Calling
  BY DEF Whole
<1>2. AttemptTypeOK'
  <2>1. "configure" \in ThreadPlace /\ Patience \in Nat /\ Move(a, "configure", Patience)
    BY DEF ThreadPlace
  <2>2. thread' \in [Attempt -> ThreadState]
    BY <1>1, <2>1, Moves DEF AttemptTypeOK
  <2> QED BY <1>1, <2>2 DEF AttemptTypeOK, ThreadState
<1>3. Each(a)'
  <2> USE <1>1 DEF AttemptTypeOK, CallerState, ThreadState, ThreadPlace, Current, InCall
  <2>1. Placed(a)' /\ (Up(a) => Alive(a))'
    BY DEF Each, Placed, Alive
  <2>2. Answered(a)'
    BY DEF Each, Answered
  <2>3. Timely(a)'
    BY DEF Each, Placed, Answered, Timely, ScoreAge, Calling
  <2>4. LateEnds(a)'
    BY DEF Each, Placed, Answered, LateEnds, Late, Left, Alive
  <2> QED BY <2>1, <2>2, <2>3, <2>4 DEF Each
<1>4. Late(a)' => Late(a)
  BY <1>1 DEF Each, Placed, Late, Alive, AttemptTypeOK
<1>5. /\ thread'[a].budget = thread[a].budget /\ (holder[a] => holder'[a])
      /\ UNCHANGED <<caller, outcome>>
      /\ \A b \in Attempt \ {a} :
           /\ thread'[b] = thread[b] /\ engine'[b] = engine[b]
           /\ holder'[b] = holder[b] /\ output'[b] = output[b]
           /\ scored'[b] = scored[b]
  BY <1>1 DEF AttemptTypeOK, ThreadState
<1> QED BY <1>2, <1>3, <1>4, <1>5, OneAttemptMoves

LEMMA OpenFailsKeeps ==
  ASSUME Whole, NEW a \in Attempt, OpenFails(a) PROVE Whole'
<1> USE Times DEF OpenFails, Move, Die, ThreadAt, Up
<1>1. AttemptTypeOK /\ Each(a) /\ Calling
  BY DEF Whole
<1>2. AttemptTypeOK'
  <2>1. "ended" \in ThreadPlace /\ Move(a, "ended", 0)
    BY DEF ThreadPlace
  <2>2. thread' \in [Attempt -> ThreadState]
    BY <1>1, <2>1, Moves DEF AttemptTypeOK
  <2> QED BY <1>1, <2>2 DEF AttemptTypeOK, ThreadState
<1>3. Each(a)'
  <2> USE <1>1 DEF AttemptTypeOK, CallerState, ThreadState, ThreadPlace, Current, InCall
  <2>1. Placed(a)' /\ (Up(a) => Alive(a))'
    BY DEF Each, Placed, Alive
  <2>2. Answered(a)'
    BY DEF Each, Answered
  <2>3. Timely(a)'
    BY DEF Each, Placed, Answered, Timely, ScoreAge, Calling
  <2>4. LateEnds(a)'
    BY DEF Each, Placed, Answered, LateEnds, Late, Left, Alive
  <2> QED BY <2>1, <2>2, <2>3, <2>4 DEF Each
<1>4. Late(a)' => Late(a)
  BY <1>1 DEF Each, Placed, Late, Alive, AttemptTypeOK
<1>5. /\ thread'[a].budget = thread[a].budget /\ (holder[a] => holder'[a])
      /\ UNCHANGED <<caller, outcome>>
      /\ \A b \in Attempt \ {a} :
           /\ thread'[b] = thread[b] /\ engine'[b] = engine[b]
           /\ holder'[b] = holder[b] /\ output'[b] = output[b]
           /\ scored'[b] = scored[b]
  BY <1>1 DEF AttemptTypeOK, ThreadState
<1> QED BY <1>2, <1>3, <1>4, <1>5, OneAttemptMoves

LEMMA ConfiguredKeeps ==
  ASSUME Whole, NEW a \in Attempt, Configured(a) PROVE Whole'
<1> USE Times DEF Configured, Move, CloseEngine, Quit, Least, Patience, ThreadAt, Up
<1>1. AttemptTypeOK /\ Each(a) /\ Calling
  BY DEF Whole
<1>2. AttemptTypeOK'
  <2>1. /\ "analyse" \in ThreadPlace
        /\ Patience + Least(Search, thread[a].budget) \in Nat
    BY <1>1 DEF ThreadPlace, AttemptTypeOK, ThreadState
  <2>2. thread' \in [Attempt -> ThreadState]
    <3> HIDE DEF Move, CloseEngine
    <3> QED BY <1>1, <2>1, Moves, Closes DEF AttemptTypeOK
  <2> QED BY <1>1, <2>2 DEF AttemptTypeOK, ThreadState
<1>3. Each(a)'
  <2> USE <1>1 DEF AttemptTypeOK, CallerState, ThreadState, ThreadPlace, Current, InCall
  <2>1. Placed(a)' /\ (Up(a) => Alive(a))'
    BY DEF Each, Placed, Alive
  <2>2. Answered(a)'
    BY DEF Each, Answered
  <2>3. Timely(a)'
    BY DEF Each, Placed, Answered, Timely, ScoreAge, Calling
  <2>4. LateEnds(a)'
    BY DEF Each, Placed, Answered, LateEnds, Late, Left, Alive
  <2> QED BY <2>1, <2>2, <2>3, <2>4 DEF Each
<1>4. Late(a)' => Late(a)
  BY <1>1 DEF Each, Placed, Late, Alive, AttemptTypeOK
<1>5. /\ thread'[a].budget = thread[a].budget /\ (holder[a] => holder'[a])
      /\ UNCHANGED <<caller, outcome>>
      /\ \A b \in Attempt \ {a} :
           /\ thread'[b] = thread[b] /\ engine'[b] = engine[b]
           /\ holder'[b] = holder[b] /\ output'[b] = output[b]
           /\ scored'[b] = scored[b]
  BY <1>1 DEF AttemptTypeOK, ThreadState
<1> QED BY <1>2, <1>3, <1>4, <1>5, OneAttemptMoves

LEMMA AnalysedKeeps ==
  ASSUME Whole, NEW a \in Attempt, Analysed(a) PROVE Whole'
<1> USE Times DEF Analysed, CloseEngine, Quit, Least, ThreadAt, Up
<1>1. AttemptTypeOK /\ Each(a) /\ Calling
  BY DEF Whole
<1>2. AttemptTypeOK'
  <2>2. thread' \in [Attempt -> ThreadState]
    <3> HIDE DEF CloseEngine
    <3> QED BY <1>1, Closes DEF AttemptTypeOK
  <2> QED BY <1>1, <2>2 DEF AttemptTypeOK, ThreadState
<1>3. Each(a)'
  <2> USE <1>1 DEF AttemptTypeOK, CallerState, ThreadState, ThreadPlace, Current, InCall
  <2>1. Placed(a)' /\ (Up(a) => Alive(a))'
    BY DEF Each, Placed, Alive
  <2>2. Answered(a)'
    BY DEF Each, Answered
  <2>3. Timely(a)'
    BY DEF Each, Placed, Answered, Timely, ScoreAge, Calling
  <2>4. LateEnds(a)'
    BY DEF Each, Placed, Answered, LateEnds, Late, Left, Alive
  <2> QED BY <2>1, <2>2, <2>3, <2>4 DEF Each
<1>4. Late(a)' => Late(a)
  BY <1>1 DEF Each, Placed, Late, Alive, AttemptTypeOK
<1>5. /\ thread'[a].budget = thread[a].budget /\ (holder[a] => holder'[a])
      /\ UNCHANGED <<caller, outcome>>
      /\ \A b \in Attempt \ {a} :
           /\ thread'[b] = thread[b] /\ engine'[b] = engine[b]
           /\ holder'[b] = holder[b] /\ output'[b] = output[b]
           /\ scored'[b] = scored[b]
  BY <1>1 DEF AttemptTypeOK, ThreadState
<1> QED BY <1>2, <1>3, <1>4, <1>5, OneAttemptMoves

LEMMA CallFailsKeeps ==
  ASSUME Whole, NEW a \in Attempt, CallFails(a) PROVE Whole'
<1> USE Times DEF CallFails, CloseEngine, Quit, Least, ThreadAt, Up
<1>1. AttemptTypeOK /\ Each(a) /\ Calling
  BY DEF Whole
<1>2. AttemptTypeOK'
  <2>2. thread' \in [Attempt -> ThreadState]
    <3> HIDE DEF CloseEngine
    <3> QED BY <1>1, Closes DEF AttemptTypeOK
  <2> QED BY <1>1, <2>2 DEF AttemptTypeOK, ThreadState
<1>3. Each(a)'
  <2> USE <1>1 DEF AttemptTypeOK, CallerState, ThreadState, ThreadPlace, Current, InCall
  <2>1. Placed(a)' /\ (Up(a) => Alive(a))'
    BY DEF Each, Placed, Alive
  <2>2. Answered(a)'
    BY DEF Each, Answered
  <2>3. Timely(a)'
    BY DEF Each, Placed, Answered, Timely, ScoreAge, Calling
  <2>4. LateEnds(a)'
    BY DEF Each, Placed, Answered, LateEnds, Late, Left, Alive
  <2> QED BY <2>1, <2>2, <2>3, <2>4 DEF Each
<1>4. Late(a)' => Late(a)
  BY <1>1 DEF Each, Placed, Late, Alive, AttemptTypeOK
<1>5. /\ thread'[a].budget = thread[a].budget /\ (holder[a] => holder'[a])
      /\ UNCHANGED <<caller, outcome>>
      /\ \A b \in Attempt \ {a} :
           /\ thread'[b] = thread[b] /\ engine'[b] = engine[b]
           /\ holder'[b] = holder[b] /\ output'[b] = output[b]
           /\ scored'[b] = scored[b]
  BY <1>1 DEF AttemptTypeOK, ThreadState
<1> QED BY <1>2, <1>3, <1>4, <1>5, OneAttemptMoves

LEMMA QuitReturnsKeeps ==
  ASSUME Whole, NEW a \in Attempt, QuitReturns(a) PROVE Whole'
<1> USE Times DEF QuitReturns, Move, Die, ThreadAt, Up
<1>1. AttemptTypeOK /\ Each(a) /\ Calling
  BY DEF Whole
<1>2. AttemptTypeOK'
  <2>1. "ended" \in ThreadPlace /\ Move(a, "ended", 0)
    BY DEF ThreadPlace
  <2>2. thread' \in [Attempt -> ThreadState]
    BY <1>1, <2>1, Moves DEF AttemptTypeOK
  <2> QED BY <1>1, <2>2 DEF AttemptTypeOK, ThreadState
<1>3. Each(a)'
  <2> USE <1>1 DEF AttemptTypeOK, CallerState, ThreadState, ThreadPlace, Current, InCall
  <2>1. Placed(a)' /\ (Up(a) => Alive(a))'
    BY DEF Each, Placed, Alive
  <2>2. Answered(a)'
    BY DEF Each, Answered
  <2>3. Timely(a)'
    BY DEF Each, Placed, Answered, Timely, ScoreAge, Calling
  <2>4. LateEnds(a)'
    BY DEF Each, Placed, Answered, LateEnds, Late, Left, Alive
  <2> QED BY <2>1, <2>2, <2>3, <2>4 DEF Each
<1>4. Late(a)' => Late(a)
  BY <1>1 DEF Each, Placed, Late, Alive, AttemptTypeOK
<1>5. /\ thread'[a].budget = thread[a].budget /\ (holder[a] => holder'[a])
      /\ UNCHANGED <<caller, outcome>>
      /\ \A b \in Attempt \ {a} :
           /\ thread'[b] = thread[b] /\ engine'[b] = engine[b]
           /\ holder'[b] = holder[b] /\ output'[b] = output[b]
           /\ scored'[b] = scored[b]
  BY <1>1 DEF AttemptTypeOK, ThreadState
<1> QED BY <1>2, <1>3, <1>4, <1>5, OneAttemptMoves

LEMMA QuitHangsKeeps ==
  ASSUME Whole, NEW a \in Attempt, QuitHangs(a) PROVE Whole'
<1> USE Times DEF QuitHangs, Move, ThreadAt, Up
<1>1. AttemptTypeOK /\ Each(a) /\ Calling
  BY DEF Whole
<1>2. AttemptTypeOK'
  <2>1. "terminate" \in ThreadPlace /\ thread[a].grace \in Nat
    BY <1>1 DEF ThreadPlace, AttemptTypeOK, ThreadState
  <2>2. thread' \in [Attempt -> ThreadState]
    <3> HIDE DEF Move
    <3> QED BY <1>1, <2>1, Moves DEF AttemptTypeOK
  <2> QED BY <1>1, <2>2 DEF AttemptTypeOK, ThreadState
<1>3. Each(a)'
  <2> USE <1>1 DEF AttemptTypeOK, CallerState, ThreadState, ThreadPlace, Current, InCall
  <2>1. Placed(a)' /\ (Up(a) => Alive(a))'
    BY DEF Each, Placed, Alive
  <2>2. Answered(a)'
    BY DEF Each, Answered
  <2>3. Timely(a)'
    BY DEF Each, Placed, Answered, Timely, ScoreAge, Calling
  <2>4. LateEnds(a)'
    BY DEF Each, Placed, Answered, LateEnds, Late, Left, Alive
  <2> QED BY <2>1, <2>2, <2>3, <2>4 DEF Each
<1>4. Late(a)' => Late(a)
  BY <1>1 DEF Each, Placed, Late, Alive, AttemptTypeOK
<1>5. /\ thread'[a].budget = thread[a].budget /\ (holder[a] => holder'[a])
      /\ UNCHANGED <<caller, outcome>>
      /\ \A b \in Attempt \ {a} :
           /\ thread'[b] = thread[b] /\ engine'[b] = engine[b]
           /\ holder'[b] = holder[b] /\ output'[b] = output[b]
           /\ scored'[b] = scored[b]
  BY <1>1 DEF AttemptTypeOK, ThreadState
<1> QED BY <1>2, <1>3, <1>4, <1>5, OneAttemptMoves

LEMMA TerminatedKeeps ==
  ASSUME Whole, NEW a \in Attempt, Terminated(a) PROVE Whole'
<1> USE Times DEF Terminated, Kill, Move, Die, ThreadAt, Up
<1>1. AttemptTypeOK /\ Each(a) /\ Calling
  BY DEF Whole
<1>2. AttemptTypeOK'
  <2>1. "ended" \in ThreadPlace /\ Move(a, "ended", 0)
    BY DEF ThreadPlace
  <2>2. thread' \in [Attempt -> ThreadState]
    BY <1>1, <2>1, Moves DEF AttemptTypeOK
  <2> QED BY <1>1, <2>2 DEF AttemptTypeOK, ThreadState
<1>3. Each(a)'
  <2> USE <1>1 DEF AttemptTypeOK, CallerState, ThreadState, ThreadPlace, Current, InCall
  <2>1. Placed(a)' /\ (Up(a) => Alive(a))'
    BY DEF Each, Placed, Alive
  <2>2. Answered(a)'
    BY DEF Each, Answered
  <2>3. Timely(a)'
    BY DEF Each, Placed, Answered, Timely, ScoreAge, Calling
  <2>4. LateEnds(a)'
    BY DEF Each, Placed, Answered, LateEnds, Late, Left, Alive
  <2> QED BY <2>1, <2>2, <2>3, <2>4 DEF Each
<1>4. Late(a)' => Late(a)
  BY <1>1 DEF Each, Placed, Late, Alive, AttemptTypeOK
<1>5. /\ thread'[a].budget = thread[a].budget /\ (holder[a] => holder'[a])
      /\ UNCHANGED <<caller, outcome>>
      /\ \A b \in Attempt \ {a} :
           /\ thread'[b] = thread[b] /\ engine'[b] = engine[b]
           /\ holder'[b] = holder[b] /\ output'[b] = output[b]
           /\ scored'[b] = scored[b]
  BY <1>1 DEF AttemptTypeOK, ThreadState
<1> QED BY <1>2, <1>3, <1>4, <1>5, OneAttemptMoves

LEMMA EngineDiesKeeps ==
  ASSUME Whole, NEW a \in Attempt, EngineDies(a) PROVE Whole'
<1> USE Times DEF EngineDies, Die, ThreadAt, Up
<1>1. AttemptTypeOK /\ Each(a) /\ Calling
  BY DEF Whole
<1>2. AttemptTypeOK'
  BY <1>1 DEF AttemptTypeOK, ThreadState, ThreadPlace
<1>3. Each(a)'
  <2> USE <1>1 DEF AttemptTypeOK, CallerState, ThreadState, ThreadPlace, Current, InCall
  <2>1. Placed(a)' /\ (Up(a) => Alive(a))'
    BY DEF Each, Placed, Alive
  <2>2. Answered(a)'
    BY DEF Each, Answered
  <2>3. Timely(a)'
    BY DEF Each, Placed, Answered, Timely, ScoreAge, Calling
  <2>4. LateEnds(a)'
    BY DEF Each, Placed, Answered, LateEnds, Late, Left, Alive
  <2> QED BY <2>1, <2>2, <2>3, <2>4 DEF Each
<1>4. Late(a)' => Late(a)
  BY <1>1 DEF Each, Placed, Late, Alive, AttemptTypeOK
<1>5. /\ thread'[a].budget = thread[a].budget /\ (holder[a] => holder'[a])
      /\ UNCHANGED <<caller, outcome>>
      /\ \A b \in Attempt \ {a} :
           /\ thread'[b] = thread[b] /\ engine'[b] = engine[b]
           /\ holder'[b] = holder[b] /\ output'[b] = output[b]
           /\ scored'[b] = scored[b]
  BY <1>1 DEF AttemptTypeOK, ThreadState
<1> QED BY <1>2, <1>3, <1>4, <1>5, OneAttemptMoves

-----------------------------------------------------------------------------
(* The steps of the caller, and of time.                                   *)

LEMMA Typed ==
  ASSUME AttemptTypeOK
  PROVE  /\ caller \in CallerState /\ thread \in [Attempt -> ThreadState]
         /\ caller.attempt \in Int /\ caller.wait \in Nat /\ caller.spent \in Nat
         /\ \A a \in Attempt : /\ thread[a].wait \in Nat /\ thread[a].budget \in Nat
                               /\ thread[a].grace \in Nat /\ thread[a].pc \in ThreadPlace
                               /\ engine[a] \in {"none", "up", "dead"}
<1>1. caller \in CallerState /\ thread \in [Attempt -> ThreadState]
  BY DEF AttemptTypeOK
<1>2. caller.attempt \in Int /\ caller.wait \in Nat /\ caller.spent \in Nat
  BY <1>1, Times DEF CallerState
<1>3. ASSUME NEW a \in Attempt
      PROVE  /\ thread[a].wait \in Nat /\ thread[a].budget \in Nat
             /\ thread[a].grace \in Nat /\ thread[a].pc \in ThreadPlace
  <2>1. thread[a] \in ThreadState
    BY <1>1
  <2> QED BY <2>1, Times DEF ThreadState
<1> QED BY <1>1, <1>2, <1>3 DEF AttemptTypeOK

LEMMA CallKeeps ==
  ASSUME Whole, Call PROVE Whole'
<1> USE Times DEF ThreadAt, Up, InCall, Current, Attempt
<1>1. AttemptTypeOK /\ Calling /\ OneLate /\ \A a \in Attempt : Each(a)
  BY DEF Whole
<1>2. /\ caller \in CallerState /\ thread \in [Attempt -> ThreadState]
      /\ caller.attempt \in Int /\ caller.wait \in Nat /\ caller.spent \in Nat
      /\ \A a \in Attempt : /\ thread[a].wait \in Nat /\ thread[a].budget \in Nat
                            /\ thread[a].grace \in Nat /\ thread[a].pc \in ThreadPlace
                            /\ engine[a] \in {"none", "up", "dead"}
  BY <1>1, Typed
<1>3. /\ caller.at = "idle" /\ caller.wait = 0 /\ caller.attempt < Calls
      /\ caller' = [at |-> "join", attempt |-> caller.attempt + 1,
                    wait |-> Hard, spent |-> 0]
      /\ caller.attempt + 1 \in Attempt
      /\ thread'[caller.attempt + 1] =
           [pc |-> "popen", wait |-> Hard, budget |-> Hard, grace |-> 0]
      /\ \A a \in Attempt : a # caller.attempt + 1 => thread'[a] = thread[a]
      /\ UNCHANGED <<engine, holder, output, scored, outcome>>
  BY <1>2 DEF Call, CallerState
<1>4. AttemptTypeOK'
  <2>1. [pc |-> "popen", wait |-> Hard, budget |-> Hard, grace |-> 0] \in ThreadState
    BY DEF ThreadState, ThreadPlace
  <2>2. thread' \in [Attempt -> ThreadState]
    BY <1>2, <2>1 DEF Call
  <2> QED BY <1>1, <1>2, <1>3, <2>2 DEF AttemptTypeOK, CallerState
<1>5. ASSUME NEW a \in Attempt PROVE Each(a)'
  <2>0. Each(a) /\ Calling
    BY <1>1
  <2>1. Placed(a)' /\ (Up(a) => Alive(a))'
    BY <2>0, <1>2, <1>3 DEF Each, Placed, Alive
  <2>2. Answered(a)'
    BY <2>0, <1>2, <1>3 DEF Each, Placed, Answered, Calling
  <2>3. Timely(a)'
    BY <2>0, <1>2, <1>3 DEF Each, Placed, Answered, Timely, ScoreAge, Calling, ThreadPlace
  <2>4. LateEnds(a)'
    BY <2>0, <1>2, <1>3 DEF Each, Placed, Answered, LateEnds, Late, Left, Alive, Calling, ThreadPlace
  <2> QED BY <2>1, <2>2, <2>3, <2>4 DEF Each
<1>6. Calling'
  BY <1>1, <1>2, <1>3 DEF Calling, Each, Placed
<1>7. OneLate'
  <2>1. ASSUME NEW a \in Attempt, Late(a)' PROVE Late(a)
    <3> USE <1>1, <1>2, <1>3, <2>1
    <3> QED BY DEF Late, Alive, Each, Placed, Answered, Calling, ThreadPlace
  <2> QED BY <2>1, <1>1 DEF OneLate
<1> QED BY <1>4, <1>5, <1>6, <1>7 DEF Whole

LEMMA JoinedKeeps ==
  ASSUME Whole, Joined PROVE Whole'
<1> USE Times DEF ThreadAt, Up, InCall, Current, Attempt
<1>1. AttemptTypeOK /\ Calling /\ OneLate /\ \A a \in Attempt : Each(a)
  BY DEF Whole
<1>2. /\ caller \in CallerState /\ thread \in [Attempt -> ThreadState]
      /\ caller.attempt \in Int /\ caller.wait \in Nat /\ caller.spent \in Nat
      /\ \A a \in Attempt : /\ thread[a].wait \in Nat /\ thread[a].budget \in Nat
                            /\ thread[a].grace \in Nat /\ thread[a].pc \in ThreadPlace
                            /\ engine[a] \in {"none", "up", "dead"}
  BY <1>1, Typed
<1>3. /\ caller.at = "join" /\ caller.attempt \in Attempt
      /\ thread[caller.attempt].pc = "ended"
      /\ caller'.at = "idle" /\ caller'.wait = Pause
      /\ caller'.attempt = caller.attempt /\ caller'.spent = caller.spent
      /\ outcome'[caller.attempt] \in {"value", "error"}
      /\ \A a \in Attempt : a # caller.attempt => outcome'[a] = outcome[a]
      /\ UNCHANGED <<thread, engine, holder, output, scored>>
  BY <1>1, <1>2 DEF Joined, Return, AttemptTypeOK, CallerState, Calling
<1>4. AttemptTypeOK'
  BY <1>1, <1>2, <1>3 DEF AttemptTypeOK, CallerState, Joined, Return
<1>5. ASSUME NEW a \in Attempt PROVE Each(a)'
  <2>0. Each(a) /\ Calling
    BY <1>1
  <2>1. Placed(a)' /\ (Up(a) => Alive(a))'
    BY <2>0, <1>2, <1>3 DEF Each, Placed, Alive
  <2>2. Answered(a)'
    BY <2>0, <1>2, <1>3 DEF Each, Placed, Answered, Calling
  <2>3. Timely(a)'
    BY <2>0, <1>2, <1>3 DEF Each, Placed, Answered, Timely, ScoreAge, Calling, ThreadPlace
  <2>4. LateEnds(a)'
    BY <2>0, <1>2, <1>3 DEF Each, Placed, Answered, LateEnds, Late, Left, Alive, Calling, ThreadPlace
  <2> QED BY <2>1, <2>2, <2>3, <2>4 DEF Each
<1>6. Calling'
  BY <1>1, <1>2, <1>3 DEF Calling, Each, Placed
<1>7. OneLate'
  <2>1. ASSUME NEW a \in Attempt, Late(a)' PROVE Late(a)
    <3> USE <1>1, <1>2, <1>3, <2>1
    <3> QED BY DEF Late, Alive, Each, Placed, Answered, Calling, ThreadPlace
  <2> QED BY <2>1, <1>1 DEF OneLate
<1> QED BY <1>4, <1>5, <1>6, <1>7 DEF Whole

LEMMA GivesUpKeeps ==
  ASSUME Whole, GivesUp PROVE Whole'
<1> USE Times DEF ThreadAt, Up, InCall, Current, Attempt
<1>1. AttemptTypeOK /\ Calling /\ OneLate /\ \A a \in Attempt : Each(a)
  BY DEF Whole
<1>2. /\ caller \in CallerState /\ thread \in [Attempt -> ThreadState]
      /\ caller.attempt \in Int /\ caller.wait \in Nat /\ caller.spent \in Nat
      /\ \A a \in Attempt : /\ thread[a].wait \in Nat /\ thread[a].budget \in Nat
                            /\ thread[a].grace \in Nat /\ thread[a].pc \in ThreadPlace
                            /\ engine[a] \in {"none", "up", "dead"}
  BY <1>1, Typed
<1>3. /\ caller.at = "join" /\ caller.wait = 0 /\ caller.attempt \in Attempt
      /\ thread[caller.attempt].pc # "ended"
      /\ caller'.attempt = caller.attempt /\ caller'.spent = caller.spent
      /\ IF holder[caller.attempt]
         THEN caller'.at = "quit" /\ caller'.wait = Grace /\ outcome' = outcome
         ELSE /\ caller'.at = "idle" /\ caller'.wait = Pause
              /\ outcome'[caller.attempt] = "timeout"
              /\ \A a \in Attempt : a # caller.attempt => outcome'[a] = outcome[a]
      /\ UNCHANGED <<thread, engine, holder, output, scored>>
  <2>1. /\ caller.at = "join" /\ caller.attempt \in Attempt
        /\ outcome \in [Attempt -> {"none", "value", "error", "timeout"}]
    BY <1>1 DEF GivesUp, AttemptTypeOK, Calling
  <2>2. CASE holder[caller.attempt]
    BY <2>1, <2>2, <1>2 DEF GivesUp, CallerState
  <2>3. CASE ~holder[caller.attempt]
    BY <2>1, <2>3, <1>2 DEF GivesUp, Return, CallerState
  <2> QED BY <2>2, <2>3
<1>4. AttemptTypeOK'
  BY <1>1, <1>2, <1>3 DEF AttemptTypeOK, CallerState, GivesUp, Return
<1>5. ASSUME NEW a \in Attempt PROVE Each(a)'
  <2>0. Each(a) /\ Calling
    BY <1>1
  <2>1. Placed(a)' /\ (Up(a) => Alive(a))'
    BY <2>0, <1>2, <1>3 DEF Each, Placed, Alive
  <2>2. Answered(a)'
    BY <2>0, <1>2, <1>3 DEF Each, Placed, Answered, Calling
  <2>3. Timely(a)'
    BY <2>0, <1>2, <1>3 DEF Each, Placed, Answered, Timely, ScoreAge, Calling, ThreadPlace
  <2>4. LateEnds(a)'
    BY <2>0, <1>2, <1>3 DEF Each, Placed, Answered, LateEnds, Late, Left, Alive, Calling, ThreadPlace
  <2> QED BY <2>1, <2>2, <2>3, <2>4 DEF Each
<1>6. Calling'
  BY <1>1, <1>2, <1>3 DEF Calling, Each, Placed
<1>7. OneLate'
  <2>1. ASSUME NEW a \in Attempt, Late(a)' PROVE Late(a) \/ (a = caller.attempt /\ \A b \in Attempt : ~Late(b))
    <3> USE <1>1, <1>2, <1>3, <2>1
    <3> QED BY DEF Late, Alive, Each, Placed, Answered, Calling, ThreadPlace, LateEnds, Left
  <2> QED BY <2>1, <1>1 DEF OneLate
<1> QED BY <1>4, <1>5, <1>6, <1>7 DEF Whole

LEMMA CallerQuitsKeeps ==
  ASSUME ShortGrace, Whole, CallerQuits PROVE Whole'
<1> USE Times DEF ThreadAt, Up, InCall, Current, Attempt
<1>1. AttemptTypeOK /\ Calling /\ OneLate /\ \A a \in Attempt : Each(a)
  BY DEF Whole
<1>2. /\ caller \in CallerState /\ thread \in [Attempt -> ThreadState]
      /\ caller.attempt \in Int /\ caller.wait \in Nat /\ caller.spent \in Nat
      /\ \A a \in Attempt : /\ thread[a].wait \in Nat /\ thread[a].budget \in Nat
                            /\ thread[a].grace \in Nat /\ thread[a].pc \in ThreadPlace
                            /\ engine[a] \in {"none", "up", "dead"}
  BY <1>1, Typed
<1>0. Die(Current)
  BY <1>2 DEF CallerQuits, QuitRaises, ShortGrace, Patience
<1>3. /\ caller.at = "quit" /\ caller.attempt \in Attempt
      /\ caller'.at = "idle" /\ caller'.wait = Pause
      /\ caller'.attempt = caller.attempt /\ caller'.spent = caller.spent
      /\ outcome'[caller.attempt] = "timeout" /\ engine'[caller.attempt] # "up"
      /\ engine[caller.attempt] # "none" => engine'[caller.attempt] = "dead"
      /\ \A a \in Attempt : a # caller.attempt =>
           outcome'[a] = outcome[a] /\ engine'[a] = engine[a]
      /\ UNCHANGED <<thread, holder, output, scored>>
  BY <1>0, <1>1, <1>2 DEF CallerQuits, Die, Return, AttemptTypeOK, CallerState, Calling
<1>4. AttemptTypeOK'
  BY <1>0, <1>1, <1>2, <1>3 DEF AttemptTypeOK, CallerState, CallerQuits, Die, Return
<1>5. ASSUME NEW a \in Attempt PROVE Each(a)'
  <2>0. Each(a) /\ Calling
    BY <1>1
  <2>1. Placed(a)' /\ (Up(a) => Alive(a))'
    BY <2>0, <1>2, <1>3 DEF Each, Placed, Alive
  <2>2. Answered(a)'
    BY <2>0, <1>2, <1>3 DEF Each, Placed, Answered, Calling
  <2>3. Timely(a)'
    BY <2>0, <1>2, <1>3 DEF Each, Placed, Answered, Timely, ScoreAge, Calling, ThreadPlace
  <2>4. LateEnds(a)'
    BY <2>0, <1>2, <1>3 DEF Each, Placed, Answered, LateEnds, Late, Left, Alive, Calling, ThreadPlace
  <2> QED BY <2>1, <2>2, <2>3, <2>4 DEF Each
<1>6. Calling'
  BY <1>1, <1>2, <1>3 DEF Calling, Each, Placed
<1>7. OneLate'
  <2>1. ASSUME NEW a \in Attempt, Late(a)' PROVE Late(a)
    <3> USE <1>1, <1>2, <1>3, <2>1
    <3> QED BY DEF Late, Alive, Each, Placed, Answered, Calling, ThreadPlace
  <2> QED BY <2>1, <1>1 DEF OneLate
<1> QED BY <1>4, <1>5, <1>6, <1>7 DEF Whole

LEMMA CallerHangsKeeps ==
  ASSUME Whole, CallerHangs PROVE Whole'
<1> USE Times DEF ThreadAt, Up, InCall, Current, Attempt
<1>1. AttemptTypeOK /\ Calling /\ OneLate /\ \A a \in Attempt : Each(a)
  BY DEF Whole
<1>2. /\ caller \in CallerState /\ thread \in [Attempt -> ThreadState]
      /\ caller.attempt \in Int /\ caller.wait \in Nat /\ caller.spent \in Nat
      /\ \A a \in Attempt : /\ thread[a].wait \in Nat /\ thread[a].budget \in Nat
                            /\ thread[a].grace \in Nat /\ thread[a].pc \in ThreadPlace
                            /\ engine[a] \in {"none", "up", "dead"}
  BY <1>1, Typed
<1>3. /\ caller.at = "quit" /\ caller.attempt \in Attempt /\ caller.wait = 0
      /\ caller'.at = "terminate" /\ caller'.wait = Grace
      /\ caller'.attempt = caller.attempt /\ caller'.spent = caller.spent
      /\ UNCHANGED <<thread, engine, holder, output, scored, outcome>>
  BY <1>1, <1>2 DEF CallerHangs, CallerState, Calling
<1>4. AttemptTypeOK'
  BY <1>1, <1>2, <1>3 DEF AttemptTypeOK, CallerState, CallerHangs
<1>5. ASSUME NEW a \in Attempt PROVE Each(a)'
  <2>0. Each(a) /\ Calling
    BY <1>1
  <2>1. Placed(a)' /\ (Up(a) => Alive(a))'
    BY <2>0, <1>2, <1>3 DEF Each, Placed, Alive
  <2>2. Answered(a)'
    BY <2>0, <1>2, <1>3 DEF Each, Placed, Answered, Calling
  <2>3. Timely(a)'
    BY <2>0, <1>2, <1>3 DEF Each, Placed, Answered, Timely, ScoreAge, Calling, ThreadPlace
  <2>4. LateEnds(a)'
    BY <2>0, <1>2, <1>3 DEF Each, Placed, Answered, LateEnds, Late, Left, Alive, Calling, ThreadPlace
  <2> QED BY <2>1, <2>2, <2>3, <2>4 DEF Each
<1>6. Calling'
  BY <1>1, <1>2, <1>3 DEF Calling, Each, Placed
<1>7. OneLate'
  <2>1. ASSUME NEW a \in Attempt, Late(a)' PROVE Late(a)
    <3> USE <1>1, <1>2, <1>3, <2>1
    <3> QED BY DEF Late, Alive, Each, Placed, Answered, Calling, ThreadPlace
  <2> QED BY <2>1, <1>1 DEF OneLate
<1> QED BY <1>4, <1>5, <1>6, <1>7 DEF Whole

LEMMA CallerTerminatesKeeps ==
  ASSUME Whole, CallerTerminates PROVE Whole'
<1> USE Times DEF ThreadAt, Up, InCall, Current, Attempt
<1>1. AttemptTypeOK /\ Calling /\ OneLate /\ \A a \in Attempt : Each(a)
  BY DEF Whole
<1>2. /\ caller \in CallerState /\ thread \in [Attempt -> ThreadState]
      /\ caller.attempt \in Int /\ caller.wait \in Nat /\ caller.spent \in Nat
      /\ \A a \in Attempt : /\ thread[a].wait \in Nat /\ thread[a].budget \in Nat
                            /\ thread[a].grace \in Nat /\ thread[a].pc \in ThreadPlace
                            /\ engine[a] \in {"none", "up", "dead"}
  BY <1>1, Typed
<1>3. /\ caller.at = "terminate" /\ caller.attempt \in Attempt
      /\ caller'.at = "idle" /\ caller'.wait = Pause
      /\ caller'.attempt = caller.attempt /\ caller'.spent = caller.spent
      /\ outcome'[caller.attempt] = "timeout" /\ engine'[caller.attempt] # "up"
      /\ engine[caller.attempt] # "none" => engine'[caller.attempt] = "dead"
      /\ \A a \in Attempt : a # caller.attempt =>
           outcome'[a] = outcome[a] /\ engine'[a] = engine[a]
      /\ UNCHANGED <<thread, holder, output, scored>>
  BY <1>1, <1>2 DEF CallerTerminates, Kill, Die, Return, AttemptTypeOK, CallerState, Calling
<1>4. AttemptTypeOK'
  BY <1>1, <1>2, <1>3 DEF AttemptTypeOK, CallerState, CallerTerminates, Kill, Die, Return
<1>5. ASSUME NEW a \in Attempt PROVE Each(a)'
  <2>0. Each(a) /\ Calling
    BY <1>1
  <2>1. Placed(a)' /\ (Up(a) => Alive(a))'
    BY <2>0, <1>2, <1>3 DEF Each, Placed, Alive
  <2>2. Answered(a)'
    BY <2>0, <1>2, <1>3 DEF Each, Placed, Answered, Calling
  <2>3. Timely(a)'
    BY <2>0, <1>2, <1>3 DEF Each, Placed, Answered, Timely, ScoreAge, Calling, ThreadPlace
  <2>4. LateEnds(a)'
    BY <2>0, <1>2, <1>3 DEF Each, Placed, Answered, LateEnds, Late, Left, Alive, Calling, ThreadPlace
  <2> QED BY <2>1, <2>2, <2>3, <2>4 DEF Each
<1>6. Calling'
  BY <1>1, <1>2, <1>3 DEF Calling, Each, Placed
<1>7. OneLate'
  <2>1. ASSUME NEW a \in Attempt, Late(a)' PROVE Late(a)
    <3> USE <1>1, <1>2, <1>3, <2>1
    <3> QED BY DEF Late, Alive, Each, Placed, Answered, Calling, ThreadPlace
  <2> QED BY <2>1, <1>1 DEF OneLate
<1> QED BY <1>4, <1>5, <1>6, <1>7 DEF Whole

LEMMA TickKeeps ==
  ASSUME Whole, Tick PROVE Whole'
<1> USE Times DEF ThreadAt, Up, InCall, Current, Attempt
<1>1. AttemptTypeOK /\ Calling /\ OneLate /\ \A a \in Attempt : Each(a)
  BY DEF Whole
<1>2. /\ caller \in CallerState /\ thread \in [Attempt -> ThreadState]
      /\ caller.attempt \in Int /\ caller.wait \in Nat /\ caller.spent \in Nat
      /\ \A a \in Attempt : /\ thread[a].wait \in Nat /\ thread[a].budget \in Nat
                            /\ thread[a].grace \in Nat /\ thread[a].pc \in ThreadPlace
                            /\ engine[a] \in {"none", "up", "dead"}
  BY <1>1, Typed
<1>3. /\ caller'.at = caller.at /\ caller'.attempt = caller.attempt
      /\ caller'.wait = IF caller.wait > 0 THEN caller.wait - 1 ELSE 0
      /\ caller'.spent = IF caller.at = "idle" THEN caller.spent ELSE caller.spent + 1
      /\ caller.at # "idle" => caller.wait > 0
      /\ \A a \in Attempt :
           /\ thread'[a].pc = thread[a].pc /\ thread'[a].grace = thread[a].grace
           /\ thread'[a].wait = IF thread[a].wait > 0 THEN thread[a].wait - 1 ELSE 0
           /\ thread'[a].budget = IF thread[a].budget > 0
                                 THEN thread[a].budget - 1 ELSE 0
           /\ Alive(a) => thread[a].wait > 0
      /\ UNCHANGED <<engine, holder, output, scored, outcome>>
  <2>1. /\ caller.at \in {"idle", "join", "quit", "terminate"}
        /\ ~CallerDue /\ \A a \in Attempt : ~ThreadDue(a)
    BY <1>2 DEF Tick, CallerState
  <2>2. caller.at # "idle" => caller.wait > 0
    BY <2>1, <1>2 DEF CallerDue
  <2>3. \A a \in Attempt : Alive(a) => thread[a].wait > 0
    BY <2>1, <1>2 DEF ThreadDue
  <2>4. \A a \in Attempt :
          /\ thread'[a].pc = thread[a].pc /\ thread'[a].grace = thread[a].grace
          /\ thread'[a].wait = IF thread[a].wait > 0 THEN thread[a].wait - 1 ELSE 0
          /\ thread'[a].budget = IF thread[a].budget > 0
                                 THEN thread[a].budget - 1 ELSE 0
    BY <1>2 DEF Tick, Less, ThreadState
  <2> QED BY <1>2, <2>2, <2>3, <2>4 DEF Tick, Less, CallerState
<1>4. AttemptTypeOK'
  <2>1. \A n \in Nat : Less(n) \in Nat /\ Less(n) <= n
    BY DEF Less
  <2>2. ASSUME NEW a \in Attempt
        PROVE  [thread[a] EXCEPT !.wait = Less(@), !.budget = Less(@)] \in ThreadState
    <3>1. thread[a] \in ThreadState
      BY <1>2
    <3>2. ASSUME NEW w \in Nat, NEW b \in 0 .. Hard
          PROVE  [thread[a] EXCEPT !.wait = w, !.budget = b] \in ThreadState
      BY <3>1 DEF ThreadState
    <3>3. Less(thread[a].wait) \in Nat /\ Less(thread[a].budget) \in 0 .. Hard
      BY <3>1 DEF ThreadState, Less
    <3> QED BY <3>2, <3>3
  <2>3. thread' \in [Attempt -> ThreadState]
    BY <2>2 DEF Tick
  <2>4. caller' \in CallerState
    <3>1. ASSUME NEW w \in Nat, NEW n \in Nat
          PROVE  [caller EXCEPT !.wait = w, !.spent = n] \in CallerState
      BY <1>2 DEF CallerState
    <3>2. /\ Less(caller.wait) \in Nat
          /\ caller.spent \in Nat /\ caller.spent + 1 \in Nat
      <4>1. caller.wait \in Nat /\ caller.spent \in Nat
        BY <1>2
      <4> QED BY <4>1, <2>1
    <3> QED BY <3>1, <3>2 DEF Tick
  <2> QED BY <1>1, <1>3, <2>3, <2>4 DEF AttemptTypeOK
<1>5. ASSUME NEW a \in Attempt PROVE Each(a)'
  <2>0. Each(a) /\ Calling
    BY <1>1
  <2>a. /\ caller.attempt \in Int /\ caller.wait \in Nat /\ caller.spent \in Nat
        /\ thread[a].wait \in Nat /\ thread[a].budget \in Nat
        /\ thread[a].pc \in ThreadPlace /\ caller.at \in {"idle", "join", "quit", "terminate"}
    BY <1>2 DEF CallerState
  <2>b. /\ caller'.at = caller.at /\ caller'.attempt = caller.attempt
        /\ caller'.wait = IF caller.wait > 0 THEN caller.wait - 1 ELSE 0
        /\ caller.at # "idle" => caller.wait > 0
        /\ thread'[a].pc = thread[a].pc /\ thread'[a].grace = thread[a].grace
        /\ thread'[a].wait = IF thread[a].wait > 0 THEN thread[a].wait - 1 ELSE 0
        /\ thread'[a].budget = IF thread[a].budget > 0 THEN thread[a].budget - 1 ELSE 0
        /\ Alive(a) => thread[a].wait > 0
        /\ UNCHANGED <<engine, holder, output, scored, outcome>>
    BY <1>3
  <2>1. Placed(a)' /\ (Up(a) => Alive(a))'
    BY <2>0, <2>a, <2>b DEF Each, Placed, Alive
  <2>2. Answered(a)'
    BY <2>0, <2>a, <2>b DEF Each, Placed, Answered, Calling
  <2>3. Timely(a)'
    BY <2>0, <2>a, <2>b DEF Each, Placed, Answered, Timely, ScoreAge, Calling, ThreadPlace, Alive
  <2>4. LateEnds(a)'
    BY <2>0, <2>a, <2>b DEF Each, Placed, Answered, LateEnds, Late, Left, Alive, Calling, ThreadPlace
  <2> QED BY <2>1, <2>2, <2>3, <2>4 DEF Each
<1>6. Calling'
  <2>1. /\ caller'.at = caller.at /\ caller'.attempt = caller.attempt
        /\ caller'.wait = IF caller.wait > 0 THEN caller.wait - 1 ELSE 0
        /\ caller'.spent = IF caller.at = "idle" THEN caller.spent ELSE caller.spent + 1
        /\ caller.at # "idle" => caller.wait > 0
        /\ caller.wait \in Nat /\ caller.spent \in Nat /\ holder' = holder
    BY <1>2, <1>3
  <2>2. CASE caller.at = "idle"
    BY <2>1, <2>2, <1>1 DEF Calling
  <2>3. CASE caller.at # "idle"
    <3>1. /\ caller.attempt \in Attempt
          /\ thread[caller.attempt].budget \in Nat
          /\ thread'[caller.attempt].budget =
               IF thread[caller.attempt].budget > 0
               THEN thread[caller.attempt].budget - 1 ELSE 0
      BY <1>1, <1>2, <1>3, <2>3 DEF Calling
    <3> QED BY <2>1, <2>3, <3>1, <1>1 DEF Calling
  <2> QED BY <2>2, <2>3
<1>7. OneLate'
  <2>1. ASSUME NEW a \in Attempt, Late(a)' PROVE Late(a)
    <3> USE <1>1, <1>2, <1>3, <2>1
    <3> QED BY DEF Late, Alive
  <2> QED BY <2>1, <1>1 DEF OneLate
<1> QED BY <1>4, <1>5, <1>6, <1>7 DEF Whole
-----------------------------------------------------------------------------
LEMMA StutterKeeps == Whole /\ UNCHANGED attemptVars => Whole'
<1> SUFFICES ASSUME Whole, UNCHANGED attemptVars PROVE Whole'
  OBVIOUS
<1> USE DEF attemptVars
<1>1. \A b \in Attempt : Each(b)' /\ Late(b)' = Late(b)
  BY Unmoved DEF Whole
<1>2. AttemptTypeOK' /\ Calling'
  BY DEF Whole, AttemptTypeOK, Calling, InCall, Current
<1>3. OneLate'
  BY <1>1 DEF Whole, OneLate
<1> QED BY <1>1, <1>2, <1>3 DEF Whole

LEMMA NextKeeps ==
  ASSUME ShortGrace PROVE Whole /\ [AttemptNext]_attemptVars => Whole'
<1> SUFFICES ASSUME Whole, [AttemptNext]_attemptVars PROVE Whole'
  OBVIOUS
<1>1. CASE UNCHANGED attemptVars
  BY <1>1, StutterKeeps
<1>2. CASE Call \/ Caller \/ Tick
  BY <1>2, CallKeeps, JoinedKeeps, GivesUpKeeps, CallerHangsKeeps, CallerQuitsKeeps,
     CallerTerminatesKeeps, TickKeeps DEF Caller
<1>3. ASSUME NEW a \in Attempt, Thread(a) \/ Spawned(a) \/ EngineDies(a) PROVE Whole'
  BY <1>3, SpawnedKeeps, OpenedKeeps, OpenFailsKeeps, ConfiguredKeeps, AnalysedKeeps,
     CallFailsKeeps, QuitReturnsKeeps, QuitHangsKeeps, TerminatedKeeps,
     EngineDiesKeeps DEF Thread
<1> QED BY <1>1, <1>2, <1>3 DEF AttemptNext

(* The inductive invariant holds of every sequence of attempts: whatever   *)
(* an engine does, dies of or never does, at any tick.                     *)
THEOREM AttemptInvariant ==
  ASSUME ShortGrace PROVE AttemptSpec => []AttemptIInv
<1>1. Whole /\ [AttemptNext]_attemptVars => Whole'
  BY NextKeeps
<1>2. AttemptSpec => []Whole
  BY AttemptInitially, <1>1, PTL DEF AttemptSpec
<1> QED BY <1>2, WholeIsIInv, PTL

LEMMA Consequences ==
  Whole => /\ AttemptTypeOK /\ CapWithGrace /\ AnsweredIsClosed
           /\ LateEnginesAreIdle /\ EnginesAreOwned /\ PromptScoresCount
<1> SUFFICES ASSUME Whole
             PROVE  /\ AttemptTypeOK /\ CapWithGrace /\ AnsweredIsClosed
                    /\ LateEnginesAreIdle /\ EnginesAreOwned /\ PromptScoresCount
  OBVIOUS
<1>1. AttemptTypeOK /\ Calling /\ \A a \in Attempt : Each(a)
  BY DEF Whole
<1>2. CapWithGrace
  <2>1. /\ caller.wait \in Nat /\ caller.spent \in Nat
        /\ caller.at \in {"idle", "join", "quit", "terminate"}
    BY <1>1, Typed DEF CallerState
  <2> QED BY <1>1, <2>1, Times DEF CapWithGrace, Calling, InCall
<1>3. EnginesAreOwned /\ AnsweredIsClosed
  BY <1>1 DEF EnginesAreOwned, AnsweredIsClosed, Each, Answered, Alive, ThreadAt
<1>4. LateEnginesAreIdle
  <2> SUFFICES ASSUME NEW a \in Attempt, outcome[a] = "timeout", Up(a)
               PROVE  thread[a].pc \in {"popen", "configure", "quit", "terminate"}
    BY DEF LateEnginesAreIdle
  <2>1. Late(a) /\ thread[a].pc \in ThreadPlace
    BY <1>1, Typed DEF Late, Each, Up
  <2> QED BY <1>1, <2>1 DEF Each, LateEnds, Late, Alive, ThreadAt, ThreadPlace
<1>5. PromptScoresCount
  BY <1>1 DEF PromptScoresCount, Each, Timely
<1> QED BY <1>1, <1>2, <1>3, <1>4, <1>5

(* The engines that are up are the late one, if any, and the present one.  *)
LEMMA TwoEngines == Whole => AtMostTwoEngines
<1> SUFFICES ASSUME Whole PROVE AtMostTwoEngines
  OBVIOUS
<1> DEFINE up == {a \in Attempt : Up(a)}
<1>1. \A a \in Attempt : Up(a) => a = Current \/ Late(a)
  <2> SUFFICES ASSUME NEW a \in Attempt, Up(a), a # Current PROVE Late(a)
    OBVIOUS
  <2>1. /\ Each(a) /\ Alive(a) /\ a \in Int /\ Current \in Int
        /\ outcome[a] \in {"none", "value", "error", "timeout"}
    BY Typed DEF Whole, Each, Attempt, Current, AttemptTypeOK
  <2>2. ~(a > Current)
    BY <2>1 DEF Each, Placed, Alive, ThreadAt
  <2>3. outcome[a] = "timeout"
    BY <2>1, <2>2 DEF Each, Answered, Alive, ThreadAt
  <2> QED BY <2>1, <2>3 DEF Late, Up
<1>2. \A a, b \in Attempt : Late(a) /\ Late(b) => a = b
  BY DEF Whole, OneLate
<1>3. \E c : \A a \in up : a \in {Current, c}
  <2>1. CASE \E c \in Attempt : Late(c)
    BY <2>1, <1>1, <1>2
  <2>2. CASE ~\E c \in Attempt : Late(c)
    BY <2>2, <1>1
  <2> QED BY <2>1, <2>2
<1>4. PICK c : up \subseteq {Current, c}
  BY <1>3
<1>5. IsFiniteSet({Current, c}) /\ Cardinality({Current, c}) <= 2
  <2>1. IsFiniteSet({Current}) /\ Cardinality({Current}) = 1
    BY FS_Singleton
  <2>2. /\ IsFiniteSet({Current} \cup {c})
        /\ Cardinality({Current} \cup {c}) =
             IF c \in {Current} THEN 1 ELSE 1 + 1
    BY <2>1, FS_AddElement
  <2>3. {Current} \cup {c} = {Current, c}
    OBVIOUS
  <2> QED BY <2>2, <2>3
<1>6. /\ IsFiniteSet(up) /\ Cardinality(up) <= Cardinality({Current, c})
  BY <1>4, <1>5, FS_Subset
<1>7. Cardinality(up) \in Nat /\ Cardinality({Current, c}) \in Nat
  BY <1>5, <1>6, FS_CardinalityType
<1>8. Cardinality(up) <= 2
  BY <1>5, <1>6, <1>7
<1> QED BY <1>8 DEF AtMostTwoEngines
-----------------------------------------------------------------------------
LEMMA WholeAlways == ASSUME ShortGrace PROVE AttemptSpec => []Whole
BY AttemptInvariant, WholeIsIInv, PTL

(* evaluate_fen: what remains of a deadline is never negative, and every   *)
(* wait, outcome and place is of its kind.                                 *)
THEOREM AttemptTypes ==
  ASSUME ShortGrace PROVE AttemptSpec => []AttemptTypeOK
BY WholeAlways, Consequences, PTL

(* However an engine hangs, a call is over two grace periods after its     *)
(* hard timeout.                                                           *)
THEOREM CallsAreCapped ==
  ASSUME ShortGrace PROVE AttemptSpec => []CapWithGrace
BY WholeAlways, Consequences, PTL

(* A call that was answered by its thread has left no engine behind.       *)
THEOREM AnsweredLeaveNothing ==
  ASSUME ShortGrace PROVE AttemptSpec => []AnsweredIsClosed
BY WholeAlways, Consequences, PTL

(* An engine that outlives its call is never searching.                    *)
THEOREM LateEnginesIdle ==
  ASSUME ShortGrace PROVE AttemptSpec => []LateEnginesAreIdle
BY WholeAlways, Consequences, PTL

(* Every engine process has a thread that will close it.                   *)
THEOREM EnginesOwned ==
  ASSUME ShortGrace PROVE AttemptSpec => []EnginesAreOwned
BY WholeAlways, Consequences, PTL

(* A score known two grace periods before the deadline is never discarded. *)
THEOREM PromptScores ==
  ASSUME ShortGrace PROVE AttemptSpec => []PromptScoresCount
BY WholeAlways, Consequences, PTL

(* A worker never has more than two engine processes, however many calls   *)
(* have timed out one after the other.                                     *)
THEOREM TwoEnginesAtMost ==
  ASSUME ShortGrace PROVE AttemptSpec => []AtMostTwoEngines
BY WholeAlways, TwoEngines, PTL
-----------------------------------------------------------------------------
(* The refinement.                                                         *)

LEMMA RunningIsInCall ==
  ASSUME Whole
  PROVE  /\ Promise!Running <=> ~InCall("idle")
         /\ ~InCall("idle") => Current \in Attempt
         /\ caller \in CallerState
<1>1. /\ caller \in CallerState /\ Calls \in Nat /\ Calling
      /\ \A a \in Attempt : Answered(a)
  BY Times DEF Whole, AttemptTypeOK, Each
<1>2. ~InCall("idle") => Current \in Attempt
  BY <1>1 DEF Calling
<1>3. Current \in 0 .. Calls
  BY <1>1 DEF CallerState, Current
<1>4. Current \in Attempt => (outcome[Current] = "none" <=> ~InCall("idle"))
  BY <1>1, <1>3 DEF Answered
<1>5. Current > 0 <=> Current \in Attempt
  BY <1>1, <1>3 DEF Attempt
<1> QED BY <1>1, <1>2, <1>4, <1>5 DEF Promise!Running, Current

LEMMA CallBegins ==
  ASSUME Whole, Call PROVE Promise!Begin
BY RunningIsInCall DEF Call, Current, Promise!Begin

LEMMA TickPasses ==
  ASSUME Whole, Tick PROVE Promise!Pass \/ UNCHANGED Promise!promiseVars
<1>1. /\ caller' = [caller EXCEPT !.wait = Less(@),
                                 !.spent = IF InCall("idle") THEN @ ELSE @ + 1]
      /\ UNCHANGED outcome /\ ~CallerDue
  BY DEF Tick
<1>2. caller \in CallerState
  BY RunningIsInCall
<1>3. caller'.attempt = caller.attempt
  BY <1>1, <1>2 DEF CallerState
<1>4. caller'.spent = IF InCall("idle") THEN caller.spent ELSE caller.spent + 1
  BY <1>1, <1>2 DEF CallerState
<1>5. CASE InCall("idle")
  BY <1>1, <1>3, <1>4, <1>5 DEF Promise!promiseVars
<1>6. CASE ~InCall("idle")
  <2>1. caller.wait \in Nat /\ caller.spent \in Nat /\ caller.wait > 0
    BY <1>1, <1>2, <1>6 DEF CallerDue, CallerState, InCall
  <2>2. caller.spent < Hard + 2 * Grace
    BY <1>2, <1>6, <2>1, Times DEF Whole, Calling, InCall, CallerState
  <2> QED BY <1>1, <1>3, <1>4, <1>6, <2>2, RunningIsInCall DEF Promise!Pass
<1> QED BY <1>5, <1>6

(* What Return does, in the terms of AttemptPromise.                       *)
LEMMA ReturnEnds ==
  ASSUME Whole, NEW result, Return(result) PROVE Promise!End(result)
<1>1. caller \in CallerState
  BY RunningIsInCall
<1> QED BY <1>1 DEF Return, Current, CallerState, Promise!End

LEMMA JoinedAnswers ==
  ASSUME Whole, Joined PROVE Promise!Answer
<1>1. caller \in CallerState /\ InCall("join") /\ ~InCall("idle")
  BY RunningIsInCall DEF Joined, InCall
<1>2. caller.spent <= Hard
  BY <1>1, Times DEF Whole, Calling, CallerState
<1>3. PICK r \in {"value", "error"} : Return(r)
  BY DEF Joined
<1>4. Promise!End(r)
  BY <1>3, ReturnEnds
<1> QED BY <1>1, <1>2, <1>4, RunningIsInCall DEF Promise!Answer

LEMMA TimesOut ==
  ASSUME Whole, ~InCall("idle"), Return("timeout"), caller.spent >= Hard
  PROVE  Promise!TimeOut
BY RunningIsInCall, ReturnEnds DEF Promise!TimeOut

LEMMA CallerSteps ==
  ASSUME Whole, Caller
  PROVE  Promise!PromiseNext \/ UNCHANGED Promise!promiseVars
<1>1. caller \in CallerState /\ Calling
  BY RunningIsInCall DEF Whole
<1>2. CASE Joined
  BY <1>2, JoinedAnswers DEF Promise!PromiseNext
<1>3. CASE GivesUp
  <2>1. CASE holder[Current]
    BY <1>1, <1>3, <2>1 DEF GivesUp, CallerState, Promise!promiseVars
  <2>2. CASE ~holder[Current]
    <3>1. caller.spent >= Hard /\ ~InCall("idle")
      BY <1>1, <1>3, Times DEF GivesUp, Calling, InCall, CallerState
    <3> QED BY <1>3, <2>2, <3>1, TimesOut DEF GivesUp, Promise!PromiseNext
  <2> QED BY <2>1, <2>2
<1>4. CASE CallerHangs
  BY <1>1, <1>4 DEF CallerHangs, CallerState, Promise!promiseVars
<1>5. CASE CallerQuits \/ CallerTerminates
  <2>1. caller.spent >= Hard /\ ~InCall("idle") /\ Return("timeout")
    BY <1>1, <1>5 DEF CallerQuits, CallerTerminates, Calling, InCall
  <2> QED BY <2>1, TimesOut DEF Promise!PromiseNext
<1> QED BY <1>2, <1>3, <1>4, <1>5 DEF Caller

LEMMA ThreadStutters ==
  ASSUME NEW a \in Attempt, Thread(a) \/ Spawned(a) \/ EngineDies(a)
  PROVE  UNCHANGED Promise!promiseVars
BY DEF Thread, Opened, OpenFails, Configured, Analysed, CallFails, QuitReturns,
       QuitHangs, Terminated, Spawned, EngineDies, Promise!promiseVars

(* evaluate_fen implements AttemptPromise: whatever engines, clean-ups and *)
(* late threads do, each call ends once, and when it is promised to.       *)
THEOREM AttemptsKeepPromise ==
  ASSUME ShortGrace PROVE AttemptSpec => KeepsPromise
<1>1. AttemptInit => Promise!PromiseInit
  BY DEF AttemptInit, Promise!PromiseInit, Attempt
<1>2. Whole /\ [AttemptNext]_attemptVars => [Promise!PromiseNext]_(Promise!promiseVars)
  <2> SUFFICES ASSUME Whole, [AttemptNext]_attemptVars
               PROVE  Promise!PromiseNext \/ UNCHANGED Promise!promiseVars
    OBVIOUS
  <2>1. CASE Call
    BY <2>1, CallBegins DEF Promise!PromiseNext
  <2>2. CASE Caller
    BY <2>2, CallerSteps
  <2>3. CASE Tick
    BY <2>3, TickPasses DEF Promise!PromiseNext
  <2>4. CASE \E a \in Attempt : Thread(a) \/ Spawned(a) \/ EngineDies(a)
    BY <2>4, ThreadStutters
  <2>5. CASE UNCHANGED attemptVars
    BY <2>5 DEF attemptVars, Promise!promiseVars
  <2> QED BY <2>1, <2>2, <2>3, <2>4, <2>5 DEF AttemptNext
<1> QED
  BY <1>1, <1>2, WholeAlways, PTL DEF AttemptSpec, KeepsPromise, Promise!PromiseSpec
=============================================================================
