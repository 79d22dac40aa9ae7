-------------------------- MODULE EngineScoreProofs --------------------------
(***************************************************************************)
(* That an evaluation reaches the client as the engine, or the rules of    *)
(* chess, had it: for every position, every score however large, every     *)
(* distance of a mate, any number of attempts, and whichever of them are   *)
(* lost on the way.                                                        *)
(***************************************************************************)
EXTENDS EngineScore, TaskRowProofs

LEMMA ScoreConstants ==
  /\ MaxScore \in Nat /\ MaxMate \in Nat
  /\ MissingScore \in EngineCode /\ EngineTimeout \in EngineCode
  /\ Null \notin Arguments /\ Null \notin Failure
  /\ Null \notin Int /\ Null \notin Winner /\ {"white", "black"} \subseteq Winner
  /\ Null # "white" /\ Null # "black" /\ LeaseExpired \notin EngineCode
  /\ EngineCode \subseteq ErrorCode
BY ScoreAssumption, RowAssumption DEF ErrorCode, Failure

(* The three kinds of verdict, and that complete_task takes every result.  *)
LEMMA Kinds ==
  ASSUME NEW v \in {Null} \cup Failure \cup Outcome
  PROVE  /\ ~Refused(v)
         /\ v \in Failure => /\ v \notin Outcome /\ v # Null /\ "error" \in DOMAIN v
                            /\ v.error \in EngineCode
         /\ v \in Outcome => /\ v \notin Failure /\ v # Null /\ "error" \notin DOMAIN v
                            /\ v \in Arguments /\ ValidOutcome(v)
<1>1. v \in Outcome => v \in Arguments /\ ValidOutcome(v) /\ v # Null
  BY ScoreConstants DEF Outcome
<1>2. v \in Arguments => "error" \notin DOMAIN v
  BY DEF Arguments
<1>3. v \in Failure => "error" \in DOMAIN v /\ v.error \in EngineCode /\ v # Null
  BY ScoreConstants DEF Failure
<1> QED BY <1>1, <1>2, <1>3 DEF Refused

-----------------------------------------------------------------------------
(* The values of evaluate_fen are arguments that complete_task accepts.    *)

LEMMA EvaluationOK ==
  ASSUME NEW n \in Int
  PROVE  /\ Evaluation(n) \in Arguments /\ ValidOutcome(Evaluation(n))
         /\ Evaluation(n).evaluation_cp = n
         /\ Evaluation(n).mate_winner = Null /\ Evaluation(n).mate_moves = Null
BY ScoreConstants DEF Evaluation, Arguments, ValidOutcome

LEMMA MateOK ==
  ASSUME NEW winner \in {"white", "black"}, NEW moves \in Nat
  PROVE  /\ Mate(winner, moves) \in Arguments /\ ValidOutcome(Mate(winner, moves))
         /\ Mate(winner, moves).evaluation_cp = Null
         /\ Mate(winner, moves).mate_winner = winner
         /\ Mate(winner, moves).mate_moves = moves
BY ScoreConstants DEF Mate, Arguments, ValidOutcome

(* What a client reads of a task that was completed with an outcome.       *)
LEMMA PayloadOf ==
  ASSUME NEW r \in Row, NEW o \in Arguments
  PROVE  LET told == Payload(CompletedRow(r, o))
             none == o.mate_winner = Null /\ o.mate_moves = Null
         IN  /\ told.evaluation = IF none THEN o.evaluation_cp ELSE Null
             /\ told.mate = IF none THEN Null ELSE <<o.mate_winner, o.mate_moves>>
<1> DEFINE q == CompletedRow(r, o)
<1>1. /\ q.status = "completed" /\ q.evaluation_cp = o.evaluation_cp
      /\ q.mate_winner = o.mate_winner /\ q.mate_moves = o.mate_moves
  BY DEF CompletedRow, Row
<1> QED BY <1>1 DEF Payload, NoMate

(* A client is told the same of whichever row an outcome completes.        *)
LEMMA ToldAlike ==
  ASSUME NEW p, NEW i, NEW r \in Row, NEW o \in Arguments,
         Truth(p, i, Payload(CompletedRow(NewRow(0), o)))
  PROVE  Truth(p, i, Payload(CompletedRow(r, o)))
<1>1. NewRow(0) \in Row
  BY NewRowOK
<1> QED BY <1>1, PayloadOf DEF Truth

LEMMA EvaluationTold ==
  ASSUME NEW r \in Row, NEW n \in Int
  PROVE  /\ Payload(CompletedRow(r, Evaluation(n))).evaluation = n
         /\ Payload(CompletedRow(r, Evaluation(n))).mate = Null
BY EvaluationOK, PayloadOf

LEMMA MateTold ==
  ASSUME NEW r \in Row, NEW winner \in {"white", "black"}, NEW moves \in Nat
  PROVE  /\ Payload(CompletedRow(r, Mate(winner, moves))).evaluation = Null
         /\ Payload(CompletedRow(r, Mate(winner, moves))).mate = <<winner, moves>>
<1>1. /\ Mate(winner, moves) \in Arguments
      /\ Mate(winner, moves).mate_winner = winner
      /\ Mate(winner, moves).mate_moves = moves
      /\ winner # Null
  BY MateOK, ScoreConstants
<1> QED BY <1>1, PayloadOf
-----------------------------------------------------------------------------
(* Terminal positions.                                                     *)

LEMMA Colours ==
  ASSUME NEW p \in Position
  PROVE  /\ p.turn \in {"white", "black"} /\ Other(p.turn) \in {"white", "black"}
         /\ p.check \in BOOLEAN /\ p.moves \in BOOLEAN
         /\ p.material \in BOOLEAN /\ p.clock \in BOOLEAN
BY DEF Position, Colour, Other

LEMMA TerminalIsKnown ==
  ASSUME NEW p \in Position
  PROVE  /\ Mated(p) => TerminalResult(p) = Mate(Other(p.turn), 0)
         /\ Drawn(p) => TerminalResult(p) = Evaluation(0)
         /\ ~Mated(p) /\ ~Drawn(p) => TerminalResult(p) = Null
BY Colours DEF TerminalResult, Mated, Drawn, IsCheckmate, IsStalemate

(* What _terminal_result knows is what the rules say of the position.      *)
LEMMA TerminalOK ==
  ASSUME NEW p \in Position, NEW r \in Row, NEW i, TerminalResult(p) # Null
  PROVE  /\ TerminalResult(p) \in Arguments /\ ValidOutcome(TerminalResult(p))
         /\ Truth(p, i, Payload(CompletedRow(r, TerminalResult(p))))
<1>1. Other(p.turn) \in {"white", "black"}
  BY Colours
<1>2. CASE Mated(p)
  <2>1. TerminalResult(p) = Mate(Other(p.turn), 0)
    BY <1>2, TerminalIsKnown
  <2>2. /\ Payload(CompletedRow(r, Mate(Other(p.turn), 0))).evaluation = Null
        /\ Payload(CompletedRow(r, Mate(Other(p.turn), 0))).mate = <<Other(p.turn), 0>>
    BY <1>1, MateTold
  <2>3. /\ Mate(Other(p.turn), 0) \in Arguments
        /\ ValidOutcome(Mate(Other(p.turn), 0))
    BY <1>1, MateOK
  <2>4. Truth(p, i, Payload(CompletedRow(r, TerminalResult(p))))
    BY <1>2, <2>1, <2>2 DEF Truth, Drawn
  <2> QED BY <2>1, <2>3, <2>4
<1>3. CASE Drawn(p) /\ ~Mated(p)
  BY <1>3, TerminalIsKnown, EvaluationOK, EvaluationTold DEF Truth
<1> QED BY <1>2, <1>3, TerminalIsKnown

LEMMA TerminalIsNull ==
  ASSUME NEW p \in Position, TerminalResult(p) = Null
  PROVE  ~Mated(p) /\ ~Drawn(p)
BY Colours, TerminalIsKnown, MateOK, EvaluationOK, ScoreConstants
-----------------------------------------------------------------------------
(* The scores of an engine.                                                *)

LEMMA ScoreNumbers ==
  ASSUME NEW i \in Report, i # Null
  PROVE  /\ i.score.kind \in {"cp", "mate"} /\ i.score.n \in Int
         /\ i.score.kind = "mate" => i.score.n \in -MaxMate .. MaxMate
         /\ i.bound \in BOOLEAN
<1>1. i.score \in Score /\ i.bound \in BOOLEAN
  BY DEF Report
<1>2. CASE i.score \in [kind : {"cp"}, n : -MaxScore .. MaxScore]
  BY <1>1, <1>2, ScoreConstants
<1>3. CASE i.score \in [kind : {"mate"}, n : -MaxMate .. MaxMate]
  BY <1>1, <1>3, ScoreConstants
<1> QED BY <1>1, <1>2, <1>3 DEF Score

LEMMA PovOK ==
  ASSUME NEW p \in Position, NEW i \in Report, i # Null
  PROVE  /\ Pov(i.score, p.turn).kind = i.score.kind
         /\ Pov(i.score, p.turn).n = IF p.turn = "white" THEN i.score.n
                                                          ELSE 0 - i.score.n
<1>1. i.score \in Score /\ i.score.n \in Int
  BY ScoreNumbers DEF Report
<1>2. CASE i.score \in [kind : {"cp"}, n : -MaxScore .. MaxScore]
  BY <1>1, <1>2 DEF Pov
<1>3. CASE i.score \in [kind : {"mate"}, n : -MaxMate .. MaxMate]
  BY <1>1, <1>3 DEF Pov
<1> QED BY <1>1, <1>2, <1>3 DEF Score

(* _normalise_score refuses what is no score or only a bound, and turns    *)
(* the rest into what it says of White.                                    *)
LEMMA NormaliseOK ==
  ASSUME NEW p \in Position, NEW r \in Row, NEW i \in Reports(p),
         ~Mated(p), ~Drawn(p)
  PROVE  LET v == NormaliseScore(i, p.turn)
         IN  \/ v = Missing /\ (i # Null => i.bound)
             \/ /\ v \in Arguments /\ ValidOutcome(v)
                /\ Truth(p, i, Payload(CompletedRow(r, v)))
<1> DEFINE v == NormaliseScore(i, p.turn)
<1>1. i \in Report
  BY DEF Reports
<1>2. CASE i = Null \/ i.bound
  BY <1>2 DEF NormaliseScore, IsBound
<1>3. CASE i # Null /\ ~i.bound
  <2> DEFINE n == Pov(i.score, p.turn).n
  <2>1. /\ p.turn \in {"white", "black"}
        /\ i.score.kind \in {"cp", "mate"} /\ i.score.n \in Int
    BY <1>1, <1>3, Colours, ScoreNumbers
  <2>2. /\ n = IF p.turn = "white" THEN i.score.n ELSE 0 - i.score.n
        /\ n \in Int
        /\ Pov(i.score, p.turn).kind = i.score.kind
    BY <1>1, <1>3, <2>1, PovOK
  <2>3. CASE i.score.kind = "cp"
    <3>1. v = Evaluation(n)
      BY <1>3, <2>2, <2>3 DEF NormaliseScore, IsBound
    <3>2. /\ Payload(CompletedRow(r, v)).evaluation = n
          /\ Payload(CompletedRow(r, v)).mate = Null
      BY <2>2, <3>1, EvaluationTold
    <3> QED BY <1>3, <2>2, <2>3, <3>1, <3>2, EvaluationOK DEF Truth
  <2>4. CASE i.score.kind = "mate"
    <3>1. i.score.n # 0 /\ i.score.n \in -MaxMate .. MaxMate
      BY <1>1, <1>3, <2>4, ScoreNumbers DEF Reports, Mated, IsCheckmate
    <3> DEFINE winner == IF n > 0 THEN "white" ELSE "black"
               moves == Distance(n)
    <3>2. /\ winner \in {"white", "black"} /\ moves \in 1 .. MaxMate
          /\ moves \in Nat /\ ~(moves < 0)
      BY <2>1, <2>2, <3>1, ScoreConstants DEF Distance
    <3>3. v = Mate(winner, moves)
      BY <1>3, <2>2, <2>4, <3>2 DEF NormaliseScore, IsBound, MateResult
    <3>4. /\ Payload(CompletedRow(r, v)).evaluation = Null
          /\ Payload(CompletedRow(r, v)).mate = <<winner, moves>>
      BY <3>2, <3>3, MateTold
    <3>5. \/ i.score.n = moves /\ winner = p.turn
          \/ i.score.n = 0 - moves /\ winner = Other(p.turn)
      BY <2>1, <2>2, <3>1 DEF Distance, Other
    <3>6. \E m \in 1 .. MaxMate :
            \/ i.score.n = m /\ Payload(CompletedRow(r, v)).mate = <<p.turn, m>>
            \/ i.score.n = 0 - m /\ Payload(CompletedRow(r, v)).mate = <<Other(p.turn), m>>
      BY <3>2, <3>4, <3>5
    <3> QED BY <1>3, <2>4, <3>2, <3>3, <3>4, <3>6, MateOK DEF Truth
  <2> QED BY <2>1, <2>3, <2>4
<1> QED BY <1>2, <1>3
-----------------------------------------------------------------------------
(* The inductive invariant.                                                *)

LEMMA ScoreInitially == ScoreInit => ScoreIInv
<1> SUFFICES ASSUME ScoreInit PROVE ScoreIInv
  OBVIOUS
<1>1. /\ row \in Row /\ SatisfiesChecks(row) /\ row.status = "queued"
      /\ row.attempts = 0 /\ 0 < MaxAttempts /\ MaxAttempts \in Nat
  BY NewRowOK, RowAssumption DEF ScoreInit, Queued
<1>2. ScoreTypeOK
  BY <1>1 DEF ScoreInit, ScoreTypeOK, Report
<1>3. TrueAnswer /\ FailureHasCause
  BY <1>1 DEF TrueAnswer, FailureHasCause
<1>4. Candid
  BY ScoreConstants, Kinds DEF ScoreInit, Candid
<1>5. InOrder
  BY <1>1 DEF ScoreInit, InOrder, Attempt
<1> QED BY <1>2, <1>3, <1>4, <1>5 DEF ScoreIInv

(* The numbers of the attempts, and the kinds of their verdicts.           *)
LEMMA Attempts ==
  ASSUME ScoreIInv
  PROVE  /\ MaxAttempts \in Nat \ {0} /\ Attempt \subseteq Nat /\ Attempt \subseteq Token
         /\ row \in Row /\ SatisfiesChecks(row) /\ row.attempts \in Nat
         /\ held \subseteq Attempt
         /\ \A a \in Attempt : /\ verdict[a] \in {Null} \cup Failure \cup Outcome
                               /\ ~Refused(verdict[a])
<1>1. /\ row \in Row /\ SatisfiesChecks(row) /\ held \subseteq Attempt
      /\ \A a \in Attempt : verdict[a] \in {Null} \cup Failure \cup Outcome
  BY DEF ScoreIInv, ScoreTypeOK
<1>2. row.attempts \in Nat
  BY <1>1 DEF Row
<1>3. \A a \in Attempt : ~Refused(verdict[a])
  BY <1>1, Kinds
<1> QED BY <1>1, <1>2, <1>3, RowAssumption, AttemptAssumption DEF Attempt

LEMMA ClaimKeeps == ASSUME ScoreIInv, Claim PROVE ScoreIInv'
<1> DEFINE a == row.attempts + 1
<1>1. /\ row.status = "queued" /\ row' = Claimed(row, a)
      /\ fate' = [fate EXCEPT ![a] = "running"]
      /\ held' \in {held, held \cup {a}} /\ UNCHANGED <<position, verdict, report>>
  BY DEF Claim
<1>2. row \in Row /\ SatisfiesChecks(row) /\ Queued(row) /\ row.attempts < MaxAttempts
  BY <1>1, Attempts, RowAssumption DEF ScoreIInv, InOrder, Queued
<1>3. a \in Attempt /\ a \in Token /\ row.attempts \in Nat
  BY <1>2, Attempts DEF Attempt
<1>4. /\ row' \in Row /\ SatisfiesChecks(row') /\ row'.status = "running"
      /\ row'.attempts = a /\ row'.lease_token = a
  BY <1>1, <1>2, <1>3, ClaimedOK DEF Running
<1>5. fate \in [Attempt -> {"none", "running", "stored", "expired"}]
  BY DEF ScoreIInv, ScoreTypeOK
<1>6. fate'[a] = "running" /\ \A b \in Attempt \ {a} : fate'[b] = fate[b]
  BY <1>1, <1>3, <1>5
<1>7. ScoreTypeOK'
  BY <1>1, <1>3, <1>4, <1>5 DEF ScoreIInv, ScoreTypeOK
<1>8. TrueAnswer' /\ FailureHasCause'
  BY <1>4 DEF TrueAnswer, FailureHasCause
<1>9. Candid'
  BY <1>1 DEF ScoreIInv, Candid, FailsRightly
<1>10. InOrder'
  <2>1. ASSUME NEW b \in Attempt
        PROVE  /\ (fate'[b] = "none") = (b > row'.attempts)
               /\ fate'[b] = "running" => b = row'.attempts
               /\ b \in held' => fate'[b] \in {"running", "expired"}
               /\ fate'[b] = "stored" => verdict'[b] # Null /\ verdict'[b] \notin Outcome
    <3>1. /\ (fate[b] = "none") = (b > row.attempts) /\ fate[b] # "running"
          /\ b \in held => fate[b] \in {"running", "expired"}
          /\ fate[b] = "stored" => verdict[b] # Null /\ verdict[b] \notin Outcome
          /\ b \in Nat
      BY <1>1, Attempts DEF ScoreIInv, InOrder
    <3>2. CASE b = a
      BY <1>3, <1>4, <1>6, <3>2
    <3>3. CASE b # a
      BY <1>1, <1>3, <1>4, <1>6, <3>1, <3>3
    <3> QED BY <3>2, <3>3
  <2> HIDE DEF a
  <2> QED BY <1>3, <1>4, <1>6, <2>1 DEF InOrder
<1> QED BY <1>7, <1>8, <1>9, <1>10 DEF ScoreIInv

(* What an evaluation may come to: a result that is true, or an error that *)
(* may be.                                                                 *)
MayBe(v, i) ==
  /\ v \in Failure => /\ ~Mated(position) /\ ~Drawn(position)
                      /\ i # Null /\ ~i.bound => v.error = EngineTimeout
  /\ v \in Outcome => Truth(position, i, Payload(CompletedRow(NewRow(0), v)))

LEMMA EvaluationCandid ==
  ASSUME ScoreIInv, NEW a \in Attempt, Evaluate(a)
  PROVE  \E v \in Failure \cup Outcome, i \in Report :
           /\ verdict' = [verdict EXCEPT ![a] = v]
           /\ report' = [report EXCEPT ![a] = i] /\ MayBe(v, i)
<1> DEFINE told == TerminalResult(position)
<1>1. /\ position \in Position /\ report \in [Attempt -> Report] /\ report[a] = Null
      /\ Null \in Report /\ NewRow(0) \in Row
  BY NewRowOK DEF ScoreIInv, ScoreTypeOK, Candid, Evaluate, Report
<1>2. report = [report EXCEPT ![a] = Null]
  BY <1>1
<1>3. ASSUME NEW code \in EngineCode
      PROVE  /\ [error |-> code] \in Failure /\ [error |-> code] \notin Outcome
             /\ [error |-> code].error = code
  <2>1. [error |-> code] \in Failure
    BY DEF Failure
  <2> QED BY <2>1, Kinds
<1>4. CASE told # Null
  <2>1. verdict' = [verdict EXCEPT ![a] = told] /\ report' = report
    BY <1>4 DEF Evaluate
  <2>2. told \in Outcome /\ Truth(position, Null, Payload(CompletedRow(NewRow(0), told)))
    BY <1>1, <1>4, TerminalOK DEF Outcome
  <2>3. told \notin Failure
    BY <2>2, Kinds
  <2> HIDE DEF told
  <2> QED BY <1>1, <1>2, <2>1, <2>2, <2>3 DEF MayBe
<1>5. CASE told = Null
  <2>1. ~Mated(position) /\ ~Drawn(position)
    BY <1>1, <1>5, TerminalIsNull
  <2>2. ASSUME NEW i \in Reports(position), report' = [report EXCEPT ![a] = i],
               verdict' = [verdict EXCEPT ![a] = NormaliseScore(i, position.turn)]
        PROVE  \E v \in Failure \cup Outcome, j \in Report :
                 /\ verdict' = [verdict EXCEPT ![a] = v]
                 /\ report' = [report EXCEPT ![a] = j] /\ MayBe(v, j)
    <3> DEFINE v == NormaliseScore(i, position.turn)
    <3>1. \/ v = Missing /\ (i # Null => i.bound)
          \/ /\ v \in Arguments /\ ValidOutcome(v)
             /\ Truth(position, i, Payload(CompletedRow(NewRow(0), v)))
      BY <1>1, <2>1, NormaliseOK
    <3> HIDE DEF v
    <3>2. Missing \in Failure /\ Missing \notin Outcome
      BY <1>3, ScoreConstants DEF Missing
    <3>3. v \in Failure \cup Outcome /\ MayBe(v, i)
      <4>1. CASE v = Missing /\ (i # Null => i.bound)
        BY <2>1, <3>2, <4>1 DEF MayBe
      <4>2. CASE /\ v \in Arguments /\ ValidOutcome(v)
                 /\ Truth(position, i, Payload(CompletedRow(NewRow(0), v)))
        <5>1. v \in Outcome
          BY <4>2 DEF Outcome
        <5>2. v \notin Failure
          BY <5>1, Kinds
        <5> QED BY <4>2, <5>1, <5>2 DEF MayBe
      <4> QED BY <3>1, <4>1, <4>2
    <3> QED BY <2>2, <3>3 DEF Reports, v
  <2>3. ASSUME NEW i \in Report, report' = [report EXCEPT ![a] = i],
               NEW code \in EngineCode, code = EngineTimeout \/ i = Null,
               verdict' = [verdict EXCEPT ![a] = [error |-> code]]
        PROVE  \E v \in Failure \cup Outcome, j \in Report :
                 /\ verdict' = [verdict EXCEPT ![a] = v]
                 /\ report' = [report EXCEPT ![a] = j] /\ MayBe(v, j)
    <3>1. MayBe([error |-> code], i)
      BY <1>3, <2>1, <2>3 DEF MayBe
    <3> QED BY <1>3, <2>3, <3>1
  <2>4. CASE \E i \in Reports(position) :
               /\ report' = [report EXCEPT ![a] = i]
               /\ verdict' \in {[verdict EXCEPT ![a] = v] :
                     v \in {NormaliseScore(i, position.turn),
                            [error |-> EngineTimeout]}}
    BY <2>2, <2>3, <2>4, ScoreConstants DEF Reports
  <2>5. CASE \E code \in EngineCode \ {MissingScore} :
               verdict' = [verdict EXCEPT ![a] = [error |-> code]] /\ UNCHANGED report
    BY <1>1, <1>2, <2>3, <2>5
  <2> QED BY <1>5, <2>4, <2>5 DEF Evaluate
<1> QED BY <1>4, <1>5

LEMMA EvaluateKeeps ==
  ASSUME ScoreIInv, NEW a \in Attempt, Evaluate(a) PROVE ScoreIInv'
<1>1. PICK v \in Failure \cup Outcome, i \in Report :
        /\ verdict' = [verdict EXCEPT ![a] = v] /\ report' = [report EXCEPT ![a] = i]
        /\ MayBe(v, i)
  BY EvaluationCandid
<1>2. /\ a \in held /\ UNCHANGED <<position, row, held, fate>>
  BY DEF Evaluate
<1>3. /\ verdict \in [Attempt -> {Null} \cup Failure \cup Outcome]
      /\ report \in [Attempt -> Report]
  BY DEF ScoreIInv, ScoreTypeOK
<1>4. /\ verdict'[a] = v /\ report'[a] = i
      /\ \A b \in Attempt \ {a} : verdict'[b] = verdict[b] /\ report'[b] = report[b]
  BY <1>1, <1>3
<1>5. fate[a] \in {"running", "expired"} /\ (row.status # "running" => fate[a] = "expired")
  BY <1>2 DEF ScoreIInv, InOrder
<1>6. ScoreTypeOK'
  BY <1>1, <1>2, <1>3 DEF ScoreIInv, ScoreTypeOK
<1>7. TrueAnswer'
  <2>1. row.status = "completed" => row.attempts \in Attempt \ {a}
    BY <1>5 DEF ScoreIInv, InOrder
  <2> QED BY <1>2, <1>4, <2>1 DEF ScoreIInv, TrueAnswer
<1>8. v # Null /\ ~Refused(v)
  BY Kinds
<1>9. FailureHasCause'
  <2> SUFFICES ASSUME row.status = "failed" PROVE FailureHasCause'
    BY <1>2 DEF FailureHasCause
  <2>1. FailureHasCause /\ MaxAttempts \in Attempt
    BY Attempts DEF ScoreIInv, Attempt
  <2>2. fate[a] = "expired"
    BY <1>5
  <2>3. ASSUME NEW b \in Attempt
        PROVE  \/ fate[b] = "stored" /\ FailsRightly(b)'
               \/ fate[b] = "expired" /\ ~Refused(verdict'[b])
    <3>1. CASE b = a
      BY <1>4, <1>8, <2>2, <3>1
    <3>2. CASE b # a
      BY <1>2, <1>4, <2>1, <3>2 DEF FailureHasCause, FailsRightly
    <3> QED BY <3>1, <3>2
  <2>4. fate[MaxAttempts] = "stored" => verdict'[MaxAttempts] = verdict[MaxAttempts]
    BY <1>4, <2>1, <2>2
  <2> QED BY <1>2, <2>1, <2>3, <2>4 DEF FailureHasCause
<1>10. Candid'
  <2>1. ASSUME NEW b \in Attempt
        PROVE  /\ verdict'[b] = Null => report'[b] = Null
               /\ verdict'[b] \in Failure => FailsRightly(b)'
               /\ verdict'[b] \in Outcome =>
                    Truth(position', report'[b],
                          Payload(CompletedRow(NewRow(0), verdict'[b])))
    <3>1. CASE b = a
      BY <1>1, <1>2, <1>4, <1>8, <3>1 DEF MayBe, FailsRightly
    <3>2. CASE b # a
      BY <1>2, <1>4, <3>2 DEF ScoreIInv, Candid, FailsRightly
    <3> QED BY <3>1, <3>2
  <2> QED BY <2>1 DEF Candid
<1>11. InOrder'
  BY <1>2, <1>4, <1>5 DEF ScoreIInv, InOrder
<1> QED BY <1>6, <1>7, <1>9, <1>10, <1>11 DEF ScoreIInv

(* A running task has its last attempt under way, and all before it have   *)
(* gone wrong.                                                             *)
LEMMA OthersWentWrong ==
  ASSUME ScoreIInv, row.status = "running", NEW b \in Attempt, b # row.attempts
  PROVE  /\ fate[b] # "running"
         /\ fate[b] = "stored" => FailsRightly(b) /\ verdict[b] \notin Outcome
         /\ row.attempts = MaxAttempts =>
              \/ fate[b] = "stored" /\ FailsRightly(b)
              \/ fate[b] = "expired" /\ ~Refused(verdict[b])
<1>1. /\ fate[b] \in {"none", "running", "stored", "expired"}
      /\ (fate[b] = "none") = (b > row.attempts) /\ fate[b] # "running"
      /\ b \in Nat /\ (row.attempts = MaxAttempts => ~(b > row.attempts))
  BY Attempts DEF ScoreIInv, ScoreTypeOK, InOrder, Attempt
<1>2. fate[b] = "stored" => verdict[b] \in Failure /\ verdict[b] \notin Outcome
  BY Attempts DEF ScoreIInv, InOrder
<1>3. verdict[b] \in Failure => FailsRightly(b)
  BY DEF ScoreIInv, Candid
<1> QED BY <1>1, <1>2, <1>3, Attempts

(* An attempt that goes wrong, by its own account or by its lease.         *)
LEMMA GivenUpKeeps ==
  ASSUME ScoreIInv, NEW a \in Attempt, a = row.attempts, Running(row),
         NEW code \in ErrorCode, row' = GivenUp(row, code),
         NEW end \in {"stored", "expired"}, fate' = [fate EXCEPT ![a] = end],
         held' \subseteq held, end = "stored" => a \notin held',
         UNCHANGED <<position, verdict, report>>,
         IF end = "stored" THEN verdict[a] \in Failure /\ code = verdict[a].error
                           ELSE code = LeaseExpired
  PROVE  ScoreIInv'
<1>1. row \in Row /\ SatisfiesChecks(row) /\ row.status = "running"
  BY Attempts DEF Running
<1>2. /\ row' \in Row /\ SatisfiesChecks(row') /\ row'.attempts = a
      /\ \/ row'.status = "queued" /\ row'.attempts < MaxAttempts
         \/ row'.status = "failed" /\ a = MaxAttempts
  BY <1>1, GivenUpOK DEF Queued
<1>3. row'.status = "failed" => row'.error_code = code
  BY <1>1 DEF GivenUp, Requeued, FailedRow, ClearAttempt, Row
<1>4. fate \in [Attempt -> {"none", "running", "stored", "expired"}]
  BY DEF ScoreIInv, ScoreTypeOK
<1>5. fate'[a] = end /\ \A b \in Attempt \ {a} : fate'[b] = fate[b]
  BY <1>4
<1>6. ScoreTypeOK'
  BY <1>2, <1>4 DEF ScoreIInv, ScoreTypeOK
<1>7. end = "stored" => FailsRightly(a) /\ verdict[a] \notin Outcome /\ verdict[a] # Null
  BY Attempts, Kinds DEF ScoreIInv, Candid
<1>8. TrueAnswer'
  BY <1>2 DEF TrueAnswer
<1>9. FailureHasCause'
  <2> SUFFICES ASSUME row'.status = "failed" PROVE FailureHasCause'
    BY DEF FailureHasCause
  <2>1. a = MaxAttempts /\ row'.error_code = code
    BY <1>2, <1>3
  <2>2. ASSUME NEW b \in Attempt
        PROVE  \/ fate'[b] = "stored" /\ FailsRightly(b)
               \/ fate'[b] = "expired" /\ ~Refused(verdict[b])
    BY <1>1, <1>5, <1>7, <2>1, OthersWentWrong, Attempts
  <2>3. FailureHasCause' <=>
          /\ \A b \in Attempt :
               \/ fate'[b] = "stored" /\ FailsRightly(b)
               \/ fate'[b] = "expired" /\ ~Refused(verdict[b])
          /\ IF code = LeaseExpired THEN fate'[a] = "expired"
             ELSE fate'[a] = "stored" /\ code = verdict[a].error
    BY <2>1 DEF FailureHasCause, FailsRightly
  <2>4. end = "stored" => code # LeaseExpired
    BY Attempts, Kinds, ScoreConstants
  <2> QED BY <1>5, <2>2, <2>3, <2>4
<1>10. Candid'
  BY DEF ScoreIInv, Candid, FailsRightly
<1>11. InOrder'
  <2>1. ASSUME NEW b \in Attempt
        PROVE  /\ (fate'[b] = "none") = (b > row'.attempts)
               /\ fate'[b] # "running"
               /\ b \in held' => fate'[b] = "expired"
               /\ fate'[b] = "stored" => verdict[b] # Null /\ verdict[b] \notin Outcome
    <3>1. /\ (fate[b] = "none") = (b > row.attempts)
          /\ b \in held => fate[b] \in {"running", "expired"}
          /\ fate[b] = "stored" => verdict[b] # Null
          /\ b \in Nat
      BY Attempts DEF ScoreIInv, InOrder
    <3>2. CASE b = a
      BY <1>2, <1>5, <1>7, <3>1, <3>2
    <3>3. CASE b # a
      BY <1>1, <1>2, <1>5, <3>1, <3>3, OthersWentWrong
    <3> QED BY <3>2, <3>3
  <2> QED BY <1>2, <2>1 DEF InOrder
<1> QED BY <1>6, <1>8, <1>9, <1>10, <1>11 DEF ScoreIInv

(* A step that only takes attempts out of hand.                            *)
LEMMA DroppedKeeps ==
  ASSUME ScoreIInv, held' \subseteq held, UNCHANGED <<position, row, verdict, report, fate>>
  PROVE  ScoreIInv'
BY DEF ScoreIInv, ScoreTypeOK, TrueAnswer, FailureHasCause, FailsRightly, Candid, InOrder

LEMMA LostKeeps == ASSUME ScoreIInv, NEW a \in Attempt, Lost(a) PROVE ScoreIInv'
BY DroppedKeeps DEF Lost

LEMMA PersistKeeps == ASSUME ScoreIInv, NEW a \in Attempt, Persist(a) PROVE ScoreIInv'
<1>1. /\ verdict[a] # Null /\ held' = held \ {a} /\ held' \subseteq held
      /\ UNCHANGED <<position, verdict, report>>
      /\ verdict[a] \in Failure \cup Outcome /\ ~Refused(verdict[a])
  BY Attempts DEF Persist
<1>2. CASE ~AttemptGuard(row, a)
  <2>1. UNCHANGED <<row, fate>>
    BY <1>2 DEF Persist
  <2> QED BY <1>1, <2>1, DroppedKeeps
<1>3. CASE AttemptGuard(row, a)
  <2>1. /\ Running(row) /\ row.status = "running" /\ a = row.attempts
        /\ row \in Row /\ SatisfiesChecks(row)
    BY <1>3, Attempts DEF AttemptGuard, HasLeaseLeft, Running, ScoreIInv, InOrder
  <2>2. fate' = [fate EXCEPT ![a] = "stored"]
    BY <1>1, <1>3 DEF Persist
  <2>3. CASE verdict[a] \in Failure
    <3>1. row' = GivenUp(row, verdict[a].error) /\ verdict[a].error \in ErrorCode
      BY <1>1, <1>3, <2>3, Kinds, ScoreConstants DEF Persist
    <3> QED BY <1>1, <2>1, <2>2, <2>3, <3>1, GivenUpKeeps
  <2>4. CASE verdict[a] \in Outcome
    <3>1. /\ row' = CompletedRow(row, verdict[a])
          /\ verdict[a] \in Arguments /\ ValidOutcome(verdict[a])
      BY <1>1, <1>3, <2>4, Kinds DEF Persist
    <3>2. /\ row' \in Row /\ SatisfiesChecks(row') /\ row'.status = "completed"
          /\ row'.attempts = a
      BY <2>1, <3>1, CompletedRowOK
    <3>3. fate \in [Attempt -> {"none", "running", "stored", "expired"}]
      BY DEF ScoreIInv, ScoreTypeOK
    <3>4. fate'[a] = "stored" /\ \A b \in Attempt \ {a} : fate'[b] = fate[b]
      BY <2>2, <3>3
    <3>5. ScoreTypeOK'
      BY <1>1, <2>2, <3>2, <3>3 DEF ScoreIInv, ScoreTypeOK
    <3>6. Truth(position, report[a], Payload(row'))
      <4>1. Truth(position, report[a], Payload(CompletedRow(NewRow(0), verdict[a])))
        BY <2>4 DEF ScoreIInv, Candid
      <4> QED BY <2>1, <3>1, <4>1, ToldAlike
    <3>7. TrueAnswer' /\ FailureHasCause'
      BY <1>1, <3>2, <3>6 DEF TrueAnswer, FailureHasCause
    <3>8. Candid'
      BY <1>1 DEF ScoreIInv, Candid, FailsRightly
    <3>9. InOrder'
      <4>1. ASSUME NEW b \in Attempt
            PROVE  /\ (fate'[b] = "none") = (b > row'.attempts)
                   /\ fate'[b] # "running"
                   /\ b \in held' => fate'[b] = "expired"
                   /\ fate'[b] = "stored" => verdict[b] # Null
                   /\ fate'[b] = "stored" /\ verdict[b] \in Outcome => b = a
        <5>1. /\ (fate[b] = "none") = (b > row.attempts)
              /\ b \in held => fate[b] \in {"running", "expired"}
              /\ fate[b] = "stored" => verdict[b] # Null
              /\ b \in Nat
          BY Attempts DEF ScoreIInv, InOrder
        <5>2. CASE b = a
          BY <1>1, <3>2, <3>4, <5>1, <5>2
        <5>3. CASE b # a
          BY <1>1, <2>1, <3>2, <3>4, <5>1, <5>3, OthersWentWrong
        <5> QED BY <5>2, <5>3
      <4> QED BY <1>1, <3>2, <3>4, <4>1 DEF InOrder
    <3> QED BY <3>5, <3>7, <3>8, <3>9 DEF ScoreIInv
  <2> QED BY <1>1, <2>3, <2>4
<1> QED BY <1>2, <1>3

LEMMA RecoverKeeps == ASSUME ScoreIInv, Recover PROVE ScoreIInv'
<1>1. /\ Running(row) /\ row' = GivenUp(row, LeaseExpired)
      /\ fate' = [fate EXCEPT ![row.attempts] = "expired"]
      /\ UNCHANGED <<position, held, verdict, report>>
  BY DEF Recover, Expired, HasLease
<1>2. row.attempts \in Attempt /\ LeaseExpired \in ErrorCode
  BY <1>1 DEF ScoreIInv, InOrder, Running, ErrorCode
<1> QED BY <1>1, <1>2, GivenUpKeeps

LEMMA TickKeeps == ASSUME ScoreIInv, Tick PROVE ScoreIInv'
<1>1. /\ row.status = "running" /\ row' = Aged(row)
      /\ UNCHANGED <<position, held, verdict, report, fate>>
  BY DEF Tick, HasLeaseLeft, Running
<1>2. /\ row' \in Row /\ SatisfiesChecks(row') /\ row'.status = row.status
      /\ row'.attempts = row.attempts /\ row'.lease_token = row.lease_token
  BY <1>1, Attempts, AgedRowOK
<1>3. ScoreTypeOK'
  BY <1>1, <1>2 DEF ScoreIInv, ScoreTypeOK
<1>4. TrueAnswer' /\ FailureHasCause'
  BY <1>1, <1>2 DEF TrueAnswer, FailureHasCause
<1>5. Candid' /\ InOrder'
  BY <1>1, <1>2 DEF ScoreIInv, Candid, FailsRightly, InOrder
<1> QED BY <1>3, <1>4, <1>5 DEF ScoreIInv

(* The invariant of a task on its way from the engine to its client.       *)
THEOREM ScoreInvariant == ScoreSpec => []ScoreIInv
<1>1. ScoreIInv /\ [ScoreNext]_scoreVars => ScoreIInv'
  <2> SUFFICES ASSUME ScoreIInv, [ScoreNext]_scoreVars PROVE ScoreIInv'
    OBVIOUS
  <2>1. CASE UNCHANGED scoreVars
    BY <2>1, DroppedKeeps DEF scoreVars
  <2> QED BY <2>1, ClaimKeeps, TickKeeps, RecoverKeeps, EvaluateKeeps, PersistKeeps,
             LostKeeps DEF ScoreNext
<1> QED BY <1>1, ScoreInitially, PTL DEF ScoreSpec

(* What complete_task is given is always one result, never both kinds and  *)
(* never a negative distance: the table takes every row.                   *)
THEOREM ScoresAreStorable == ScoreSpec => []ScoreTypeOK
<1>1. ScoreIInv => ScoreTypeOK
  BY DEF ScoreIInv
<1> QED BY <1>1, ScoreInvariant, PTL

(* A poll of a completed task tells what the rules of chess or the engine  *)
(* of its last attempt said of the position, seen from White, whatever     *)
(* came of the attempts before and whoever still has them in hand.         *)
THEOREM AnswersAreTrue == ScoreSpec => []TrueAnswer
<1>1. ScoreIInv => TrueAnswer
  BY DEF ScoreIInv
<1> QED BY <1>1, ScoreInvariant, PTL

(* A task fails only once each of its attempts has gone wrong: its lease   *)
(* was over, or its evaluation had an error that may be, and so neither a  *)
(* position the rules decide nor, but for the watchdog, a sure score.      *)
THEOREM FailuresHaveCauses == ScoreSpec => []FailureHasCause
<1>1. ScoreIInv => FailureHasCause
  BY DEF ScoreIInv
<1> QED BY <1>1, ScoreInvariant, PTL
=============================================================================
