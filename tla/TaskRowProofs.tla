---------------------------- MODULE TaskRowProofs ----------------------------
(***************************************************************************)
(* Facts about the values of TaskRow, for any tokens, error codes, lease   *)
(* and number of attempts.  The proofs of the modules that keep rows cite  *)
(* them.                                                                   *)
(***************************************************************************)
EXTENDS TaskRow, TLAPS
-----------------------------------------------------------------------------
(* The row operators: what each writes is a row, satisfies the constraints *)
(* of the table, and differs from its argument only as stated.             *)

LEMMA NewRowOK ==
  ASSUME NEW stamp \in Nat
  PROVE  /\ NewRow(stamp) \in Row
         /\ SatisfiesChecks(NewRow(stamp))
         /\ Queued(NewRow(stamp))
         /\ NewRow(stamp).attempts = 0
         /\ NewRow(stamp).error_code = Null
<1> USE RowAssumption
<1>1. NewRow(stamp) \in Row
  BY DEF NewRow, Row, Status
<1>2. SatisfiesChecks(NewRow(stamp))
  BY DEF NewRow, SatisfiesChecks, Status, MateConstraint, NoMate, NoResult,
         NotLeased, Leased
<1>3. Queued(NewRow(stamp))
  BY <1>1 DEF NewRow, Queued
<1> QED
  BY <1>1, <1>2, <1>3 DEF NewRow

LEMMA ClaimedOK ==
  ASSUME NEW r \in Row, SatisfiesChecks(r), Queued(r),
         r.attempts < MaxAttempts, NEW token \in Token
  PROVE  /\ Claimed(r, token) \in Row
         /\ SatisfiesChecks(Claimed(r, token))
         /\ Running(Claimed(r, token))
         /\ Claimed(r, token).attempts = r.attempts + 1
         /\ Claimed(r, token).lease_token = token
         /\ Claimed(r, token).lease = LeaseTicks
         /\ Claimed(r, token).error_code = Null
<1> USE RowAssumption
<1>1. Claimed(r, token) \in Row
  <2> DEFINE q == ClearAttempt(r)
  <2>1. q \in Row
    BY DEF ClearAttempt, Row
  <2>2. q.attempts \in Nat
    BY <2>1 DEF Row
  <2>3. /\ LeaseTicks \in Nat \cup {Null}
        /\ "running" \in Status
        /\ token \in Token \cup {Null}
        /\ q.attempts + 1 \in Nat
    BY <2>2 DEF Status
  <2> HIDE DEF q
  <2>4. [q EXCEPT !.status = "running", !.attempts = q.attempts + 1,
                  !.lease_token = token, !.lease = LeaseTicks] \in Row
    BY ONLY <2>1, <2>3 DEF Row
  <2> QED
    BY <2>4 DEF Claimed, q
<1>2. SatisfiesChecks(Claimed(r, token))
  BY DEF Claimed, ClearAttempt, Row, SatisfiesChecks, Status, MateConstraint, NoMate,
         NoResult, NotLeased, Leased
<1>3. /\ Running(Claimed(r, token))
      /\ Claimed(r, token).attempts = r.attempts + 1
      /\ Claimed(r, token).lease_token = token
      /\ Claimed(r, token).lease = LeaseTicks
      /\ Claimed(r, token).error_code = Null
  BY <1>1 DEF Claimed, ClearAttempt, Row, Running
<1> QED
  BY <1>1, <1>2, <1>3

LEMMA GivenUpOK ==
  ASSUME NEW r \in Row, SatisfiesChecks(r), Running(r), NEW code \in ErrorCode
  PROVE  /\ GivenUp(r, code) \in Row
         /\ SatisfiesChecks(GivenUp(r, code))
         /\ ~Running(GivenUp(r, code))
         /\ GivenUp(r, code).attempts = r.attempts
         /\ \/ /\ Queued(GivenUp(r, code)) /\ r.attempts < MaxAttempts
               /\ GivenUp(r, code).error_code = Null
            \/ /\ GivenUp(r, code).status = "failed"
               /\ r.attempts = MaxAttempts
<1> USE RowAssumption
<1>1. CASE r.attempts < MaxAttempts
  <2> DEFINE n == Requeued(r)
  <2>1. n \in Row /\ n.status = "queued" /\ n.attempts = r.attempts
        /\ n.error_code = Null
    BY DEF Requeued, ClearAttempt, Row, Status
  <2>2. SatisfiesChecks(n)
    BY <1>1 DEF Requeued, ClearAttempt, Row, SatisfiesChecks, Status,
                MateConstraint, NoMate, NoResult, NotLeased, Leased
  <2>3. GivenUp(r, code) = n
    BY <1>1 DEF GivenUp
  <2> QED
    BY <1>1, <2>1, <2>2, <2>3 DEF Queued, Running
<1>2. CASE ~(r.attempts < MaxAttempts)
  <2> DEFINE n == FailedRow(r, code)
  <2>1. n \in Row /\ n.status = "failed" /\ n.attempts = r.attempts
    BY DEF FailedRow, ClearAttempt, Row, Status, ErrorCode
  <2>2. SatisfiesChecks(n)
    BY <1>2 DEF FailedRow, ClearAttempt, Row, SatisfiesChecks, Status,
                MateConstraint, NoMate, NoResult, NotLeased, Leased
  <2>3. GivenUp(r, code) = n
    BY <1>2 DEF GivenUp
  <2>4. r.attempts = MaxAttempts
    BY <1>2 DEF SatisfiesChecks, Row
  <2> QED
    BY <2>1, <2>2, <2>3, <2>4 DEF Running
<1> QED
  BY <1>1, <1>2

LEMMA CompletedRowOK ==
  ASSUME NEW r \in Row, SatisfiesChecks(r), Running(r),
         NEW o \in Arguments, ValidOutcome(o)
  PROVE  /\ CompletedRow(r, o) \in Row
         /\ SatisfiesChecks(CompletedRow(r, o))
         /\ CompletedRow(r, o).status = "completed"
         /\ CompletedRow(r, o).attempts = r.attempts
<1> USE RowAssumption
<1>1. CompletedRow(r, o) \in Row
  BY DEF CompletedRow, Row, Status, Arguments
<1>2. SatisfiesChecks(CompletedRow(r, o))
  BY DEF CompletedRow, Row, Arguments, ValidOutcome, SatisfiesChecks, Status,
         MateConstraint, NoMate, NoResult, NotLeased, Leased
<1> QED
  BY <1>1, <1>2 DEF CompletedRow, Row

(* A tick changes nothing of a row but its lease.                          *)
LEMMA AgedRowOK ==
  ASSUME NEW r \in Row, SatisfiesChecks(r)
  PROVE  /\ Aged(r) \in Row
         /\ SatisfiesChecks(Aged(r))
         /\ Aged(r).status = r.status
         /\ Aged(r).attempts = r.attempts
         /\ Aged(r).lease_token = r.lease_token
         /\ Aged(r).error_code = r.error_code
         /\ Aged(r).evaluation_cp = r.evaluation_cp
         /\ Aged(r).mate_winner = r.mate_winner
         /\ Aged(r).mate_moves = r.mate_moves
         /\ VerdictOf(Aged(r)) = VerdictOf(r)
         /\ Aged(r).lease = IF HasLeaseLeft(r) THEN r.lease - 1 ELSE r.lease
         /\ ~Running(r) => Aged(r) = r
         /\ Expired(r) => Aged(r) = r
         /\ \A c : GivenUp(Aged(r), c) = GivenUp(r, c)
<1> USE RowAssumption
<1>1. CASE HasLeaseLeft(r)
  <2>1. r.lease \in Nat \ {0}
    BY <1>1 DEF HasLeaseLeft, Row
  <2> DEFINE n == [r EXCEPT !.lease = r.lease - 1]
  <2>2. Aged(r) = n /\ n \in Row /\ n.lease # Null
    BY <1>1, <2>1 DEF Aged, Row
  <2>3. SatisfiesChecks(n)
    BY <1>1, <2>1, <2>2 DEF HasLeaseLeft, Running, Row, SatisfiesChecks, Status,
            MateConstraint, NoMate, NoResult, NotLeased, Leased
  <2>4. ASSUME NEW c PROVE GivenUp(n, c) = GivenUp(r, c)
    BY DEF GivenUp, Requeued, FailedRow, ClearAttempt, Row
  <2>5. Running(r) /\ ~Expired(r)
    BY <1>1, <2>1 DEF HasLeaseLeft, Expired, HasLease
  <2> QED
    BY <1>1, <2>2, <2>3, <2>4, <2>5 DEF Row, VerdictOf
<1>2. CASE ~HasLeaseLeft(r)
  BY <1>2 DEF Aged
<1> QED
  BY <1>1, <1>2
-----------------------------------------------------------------------------
(* A row as TaskLifecycle sees it: it has a verdict once it is finished.   *)
LEMMA RowVerdict ==
  ASSUME NEW r \in Row, SatisfiesChecks(r),
         r.status \in {"queued", "running"} => r.error_code = Null
  PROVE  /\ r.status \in {"queued", "running"} => VerdictOf(r) = NoVerdict
         /\ r.status \in {"completed", "failed"} => VerdictOf(r) \in Verdicts
<1>0. r # Null
  BY RowAssumption
<1>1. VerdictOf(r) \in
        [evaluation_cp : Int \cup {Null}, mate_winner : Winner \cup {Null},
         mate_moves : Int \cup {Null}, error_code : ErrorCode \cup {Null}]
  BY <1>0 DEF VerdictOf, Row
<1>2. /\ VerdictOf(r).evaluation_cp = r.evaluation_cp
      /\ VerdictOf(r).mate_winner = r.mate_winner
      /\ VerdictOf(r).error_code = r.error_code
  BY <1>0 DEF VerdictOf
<1>3. CASE r.status \in {"queued", "running"}
  <2>1. NoResult(r) /\ r.error_code = Null
    BY <1>3 DEF SatisfiesChecks
  <2> QED
    BY <1>0, <1>3, <2>1 DEF VerdictOf, NoVerdict, NoResult, NoMate
<1>4. CASE r.status \in {"completed", "failed"}
  <2>1. \/ r.evaluation_cp # Null \/ r.mate_winner # Null
        \/ r.error_code # Null
    BY <1>4 DEF SatisfiesChecks
  <2>2. VerdictOf(r) # NoVerdict
    BY <1>2, <2>1 DEF NoVerdict
  <2> QED
    BY <1>1, <1>4, <2>2 DEF Verdicts
<1> QED
  BY <1>3, <1>4 DEF Row, Status
=============================================================================
