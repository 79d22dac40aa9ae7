---------------------------- MODULE EngineScore ----------------------------
(***************************************************************************)
(* How an evaluation gets from the engine to the client: one task, from    *)
(* its position through app/stockfish.py (terminal positions, scores),     *)
(* app/worker.py (the arguments it persists), the row and its constraints, *)
(* to what a poll of app/api.py shows.  An engine speaks of the side to    *)
(* move, the service of White.  Attempts get lost on the way: the reply of *)
(* a claim, a worker, a call to the database, or the lease of an attempt   *)
(* that some worker still has in hand while the next one is evaluated.     *)
(*                                                                         *)
(* python-chess and the engine are external: what a board knows of itself, *)
(* and which reports an engine makes of it.  How an attempt fails without  *)
(* a report is EngineAttempt's business; here it is an error code.         *)
(***************************************************************************)
EXTENDS TaskRow

CONSTANTS
  MaxScore,      \* bound on centipawns, either way
  MaxMate,       \* bound on the distance of a mate
  MissingScore,  \* the code of a report that is no usable score
  EngineTimeout  \* the code of an attempt the watchdog has given up

ASSUME ScoreAssumption ==
  /\ MaxScore \in Nat /\ MaxMate \in Nat
  /\ MissingScore \in EngineCode /\ EngineTimeout \in EngineCode
  /\ MissingScore # EngineTimeout
  /\ LeaseExpired \notin EngineCode
  /\ Null \notin Arguments /\ Null \notin [error : EngineCode]

(* Attempt a of a task is claimed with token a: uuid4() does not return    *)
(* the same token twice.                                                   *)
Attempt == 1 .. MaxAttempts
ASSUME AttemptAssumption == Attempt \subseteq Token

VARIABLES
  position,  \* what python-chess says of the position of the task
  row,       \* the row of the task
  held,      \* the attempts that a worker has in hand
  verdict,   \* what the evaluation of each attempt came to, or Null
  report,    \* history: what the engine of each attempt reported, if it did
  fate       \* history: how the row's lease for each attempt ended

scoreVars == <<position, row, held, verdict, report, fate>>

Colour == {"white", "black"}
Other(c) == IF c = "white" THEN "black" ELSE "white"
-----------------------------------------------------------------------------
(* The board: who is to move, in check or not, able to move or not; is     *)
(* there the material for a mate, has the halfmove clock reached 150?      *)
Position == {p \in [turn : Colour, check : BOOLEAN, moves : BOOLEAN,
                    material : BOOLEAN, clock : BOOLEAN] :
               p.check /\ ~p.moves => p.material}

IsCheckmate(p) == p.check /\ ~p.moves
IsStalemate(p) == ~p.check /\ ~p.moves

(* A PovScore, seen from the side to move.                                 *)
Score == [kind : {"cp"}, n : -MaxScore .. MaxScore] \cup
         [kind : {"mate"}, n : -MaxMate .. MaxMate]

Report == [score : Score, bound : BOOLEAN] \cup {Null}

(* A mate in zero is what an engine says of a side that has been mated.    *)
Reports(p) ==
  {i \in Report : i # Null /\ i.score.kind = "mate" =>
                    (i.score.n = 0) = IsCheckmate(p)}
-----------------------------------------------------------------------------
(* The values of evaluate_fen, as _persist_success hands them on.          *)

Evaluation(n) == [evaluation_cp |-> n, mate_winner |-> Null, mate_moves |-> Null]

Mate(winner, moves) ==
  [evaluation_cp |-> Null, mate_winner |-> winner, mate_moves |-> moves]
Missing == [error |-> MissingScore]

(* MateResult.__post_init__ raises, and _normalise_score turns that into   *)
(* a missing score.                                                        *)
MateResult(winner, moves) == IF moves < 0 THEN Missing ELSE Mate(winner, moves)

(* Mutant of TerminalResult: the engine is asked about every position.     *)
DrawsOnly(p) == IF IsStalemate(p) \/ ~p.material \/ (p.clock /\ p.moves)
                THEN Evaluation(0) ELSE Null

(* _terminal_result; in standard chess there are no variant outcomes.      *)
TerminalResult(p) ==
  CASE IsCheckmate(p) -> Mate(Other(p.turn), 0)
    [] ~IsCheckmate(p) /\ (IsStalemate(p) \/ ~p.material \/ (p.clock /\ p.moves))
         -> Evaluation(0)
    [] OTHER -> Null

IsBound(i) == i.bound

(* score.pov(chess.WHITE).  The mates of distance zero have mate() = 0     *)
(* whoever gives them.                                                     *)
Pov(score, turn) == IF turn = "white" THEN score ELSE [score EXCEPT !.n = -@]

(* Mutant of Distance: the sign of the mate is kept.                       *)
Signed(n) == n

Distance(n) == IF n < 0 THEN -n ELSE n

NormaliseScore(i, turn) ==
  IF i = Null THEN Missing
  ELSE IF IsBound(i) THEN Missing
  ELSE LET white == Pov(i.score, turn)
       IN  IF white.kind = "mate"
           THEN MateResult(IF white.n > 0 THEN "white" ELSE "black",
                           Distance(white.n))
           ELSE Evaluation(white.n)
-----------------------------------------------------------------------------
(* claim_one, whose reply may be lost after the commit: then no worker     *)
(* has the attempt in hand.                                                *)
Claim ==
  LET a == row.attempts + 1
  IN  /\ row.status = "queued"
      /\ row' = Claimed(row, a) /\ fate' = [fate EXCEPT ![a] = "running"]
      /\ held' \in {held, held \cup {a}}
      /\ UNCHANGED <<position, verdict, report>>

(* evaluate_fen, with or without a report of the engine.  The watchdog     *)
(* discards the report of a call that it has given up.                     *)
Evaluate(a) ==
  LET told == TerminalResult(position)
  IN  /\ a \in held /\ verdict[a] = Null
      /\ \/ /\ told # Null
            /\ verdict' = [verdict EXCEPT ![a] = told] /\ UNCHANGED report
         \/ /\ told = Null
            /\ \E i \in Reports(position) :
                 /\ report' = [report EXCEPT ![a] = i]
                 /\ verdict' \in {[verdict EXCEPT ![a] = v] :
                       v \in {NormaliseScore(i, position.turn),
                              [error |-> EngineTimeout]}}
         \/ /\ told = Null
            /\ \E code \in EngineCode \ {MissingScore} :
                 verdict' = [verdict EXCEPT ![a] = [error |-> code]]
            /\ UNCHANGED report
      /\ UNCHANGED <<position, row, held, fate>>

(* complete_task raises for arguments that are no result.                  *)
Refused(v) == v # Null /\ "error" \notin DOMAIN v /\ ~ValidOutcome(v)

(* _persist_success or _persist_failure.  A result that is stale or refused *)
(* leaves the row alone.                                                   *)
Persist(a) ==
  LET stored == AttemptGuard(row, a) /\ ~Refused(verdict[a])
  IN  /\ a \in held /\ verdict[a] # Null
      /\ row' = IF ~stored THEN row
                ELSE IF "error" \in DOMAIN verdict[a]
                     THEN GivenUp(row, verdict[a].error)
                     ELSE CompletedRow(row, verdict[a])
      /\ fate' = IF stored THEN [fate EXCEPT ![a] = "stored"] ELSE fate
      /\ held' = held \ {a}
      /\ UNCHANGED <<position, verdict, report>>

(* The worker dies, or the call that persists raises and never commits.    *)
(* (One that commits before it raises is Persist.)                         *)
Lost(a) == /\ a \in held /\ held' = held \ {a}
           /\ UNCHANGED <<position, row, verdict, report, fate>>

Tick == /\ HasLeaseLeft(row) /\ row' = Aged(row)
        /\ UNCHANGED <<position, held, verdict, report, fate>>

(* recover_expired, of any worker.                                         *)
Recover == /\ Expired(row) /\ row' = GivenUp(row, LeaseExpired)
           /\ fate' = [fate EXCEPT ![row.attempts] = "expired"]
           /\ UNCHANGED <<position, held, verdict, report>>

ScoreInit == /\ position \in Position /\ row = NewRow(0) /\ held = {}
             /\ verdict = [a \in Attempt |-> Null]
             /\ report = [a \in Attempt |-> Null]
             /\ fate = [a \in Attempt |-> "none"]

ScoreNext == \/ Claim \/ Tick \/ Recover
             \/ \E a \in Attempt : Evaluate(a) \/ Persist(a) \/ Lost(a)

ScoreSpec == ScoreInit /\ [][ScoreNext]_scoreVars
-----------------------------------------------------------------------------
(* The row is one the table takes, and the verdicts are those Service      *)
(* knows: arguments complete_task accepts, or an error with a code.        *)
Failure == [error : EngineCode]
Outcome == {o \in Arguments : ValidOutcome(o)}

ScoreTypeOK ==
  /\ position \in Position
  /\ row \in Row /\ SatisfiesChecks(row)
  /\ held \subseteq Attempt
  /\ verdict \in [Attempt -> {Null} \cup Failure \cup Outcome]
  /\ report \in [Attempt -> Report]
  /\ fate \in [Attempt -> {"none", "running", "stored", "expired"}]

(* What is so, in the words of the rules of chess and of UCI.              *)
Mated(p) == p.check /\ ~p.moves
Drawn(p) == ~Mated(p) /\ (~p.moves \/ ~p.material \/ p.clock)

Truth(p, i, told) ==
  CASE Mated(p) -> told.evaluation = Null /\ told.mate = <<Other(p.turn), 0>>
    [] Drawn(p) -> told.evaluation = 0 /\ told.mate = Null
    [] OTHER ->
         /\ i # Null /\ ~i.bound
         /\ i.score.kind = "cp" =>
              /\ told.mate = Null
              /\ told.evaluation = IF p.turn = "white" THEN i.score.n
                                                       ELSE 0 - i.score.n
         /\ i.score.kind = "mate" =>
              /\ told.evaluation = Null
              /\ \E m \in 1 .. MaxMate :
                   \/ i.score.n = m /\ told.mate = <<p.turn, m>>
                   \/ i.score.n = 0 - m /\ told.mate = <<Other(p.turn), m>>

(* A client that polls a completed task reads what holds in the position,  *)
(* or what the engine reported of it, from White's view: with either side  *)
(* to move, for a mate given or taken, for a mate that is already on the   *)
(* board, and for an evaluation of zero.                                   *)
TrueAnswer ==
  row.status = "completed" =>
    Truth(position, report[row.attempts], Payload(row))

(* An error that an evaluation may have: not in a position the rules       *)
(* decide, and with a score the engine is sure of only if the watchdog     *)
(* had given up the call.                                                  *)
FailsRightly(a) ==
  /\ verdict[a] \in Failure
  /\ ~Mated(position) /\ ~Drawn(position)
  /\ report[a] # Null /\ ~report[a].bound => verdict[a].error = EngineTimeout

(* A failed task has had all its attempts, and each has gone wrong: either *)
(* its evaluation did, for a reason that may be, or its lease was over,    *)
(* but never because complete_task would not take what it was given.  The  *)
(* task names what became of the last.  So a score that the engine is sure *)
(* of is lost only to the watchdog or to the lease, and the task of a      *)
(* position the rules decide fails only if every lease was over.           *)
FailureHasCause ==
  row.status = "failed" =>
    /\ \A a \in Attempt :
         \/ fate[a] = "stored" /\ FailsRightly(a)
         \/ fate[a] = "expired" /\ ~Refused(verdict[a])
    /\ IF row.error_code = LeaseExpired
       THEN fate[MaxAttempts] = "expired"
       ELSE /\ fate[MaxAttempts] = "stored"
            /\ row.error_code = verdict[MaxAttempts].error
-----------------------------------------------------------------------------
(* What the two invariants above need to be inductive: every verdict would *)
(* publish what is true, or is an error that may be.                       *)
Candid ==
  \A a \in Attempt :
    /\ verdict[a] = Null => report[a] = Null
    /\ verdict[a] \in Failure => FailsRightly(a)
    /\ verdict[a] \in Outcome =>
         Truth(position, report[a], Payload(CompletedRow(NewRow(0), verdict[a])))

(* The attempts are claimed in order, all but the last have ended, and one *)
(* whose result is stored is out of hand; it was the last if it had a      *)
(* result.                                                                 *)
InOrder ==
  /\ row.status = "queued" => row.attempts < MaxAttempts
  /\ row.status = "running" => /\ row.attempts \in Attempt
                               /\ row.lease_token = row.attempts
                               /\ fate[row.attempts] = "running"
  /\ row.status = "completed" => row.attempts \in Attempt /\ fate[row.attempts] = "stored"
  /\ row.status = "failed" => row.attempts = MaxAttempts
  /\ \A a \in Attempt :
       /\ (fate[a] = "none") = (a > row.attempts)
       /\ fate[a] = "running" => row.status = "running" /\ a = row.attempts
       /\ a \in held => fate[a] \in {"running", "expired"}
       /\ fate[a] = "stored" => verdict[a] # Null
       /\ fate[a] = "stored" /\ verdict[a] \in Outcome => row.status = "completed" /\ a = row.attempts

ScoreIInv == ScoreTypeOK /\ TrueAnswer /\ FailureHasCause /\ Candid /\ InOrder
=============================================================================
