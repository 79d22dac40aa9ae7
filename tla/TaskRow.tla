------------------------------ MODULE TaskRow ------------------------------
(***************************************************************************)
(* One row of the tasks table: its columns, the CHECK constraints the      *)
(* database enforces, and the row values that the queue operations of      *)
(* app/tasks.py write.  There is no state here: TaskQueue holds the rows.  *)
(*                                                                         *)
(* Abstractions.  lease_expires_at is kept as the number of clock ticks    *)
(* left before it passes (0: it has passed), so that the database clock    *)
(* itself needs no counter.  finished_at is only whether it is set.        *)
(* error_code stands for the pair error_code, error_message, which every   *)
(* write sets or clears together.  fen, evaluation_config, engine_version  *)
(* and started_at never influence a queue operation and are left out.      *)
(***************************************************************************)
EXTENDS Integers

CONSTANTS
  Token,         \* the lease tokens uuid4() can return
  EngineCode,    \* the error codes a worker may report
  Winner,        \* {"white", "black"} and whatever else a caller may pass
  LeaseTicks,    \* lease_seconds, in clock ticks
  MaxAttempts,   \* MAX_ATTEMPTS, also the bound in ck_tasks_attempts
  Null           \* SQL NULL, Python None

LeaseExpired == "LEASE_EXPIRED"
ErrorCode == EngineCode \cup {LeaseExpired}

Status == {"queued", "running", "completed", "failed"}

Row == [status        : Status,
        attempts      : Nat,
        created_at    : Nat,
        lease_token   : Token \cup {Null},
        lease         : Nat \cup {Null},
        evaluation_cp : Int \cup {Null},
        mate_winner   : Winner \cup {Null},
        mate_moves    : Int \cup {Null},
        error_code    : ErrorCode \cup {Null},
        finished_at   : BOOLEAN]

(* The arguments of complete_task that carry a result. *)
Arguments == [evaluation_cp : Int \cup {Null},
              mate_winner   : Winner \cup {Null},
              mate_moves    : Int \cup {Null}]

ASSUME RowAssumption ==
  /\ LeaseTicks \in Nat \ {0}      \* claim_one raises for lease_seconds <= 0
  /\ MaxAttempts \in Nat \ {0}     \* recover_expired raises for max_attempts < 1
  /\ {"white", "black"} \subseteq Winner
  /\ Null \notin Row /\ Null \notin Token /\ Null \notin Int
  /\ Null \notin Winner /\ Null \notin ErrorCode
-----------------------------------------------------------------------------
(* The CHECK constraints of the table, one conjunct each.                  *)

Leased(r)    == r.lease_token # Null /\ r.lease # Null
NotLeased(r) == r.lease_token = Null /\ r.lease = Null
NoMate(r)    == r.mate_winner = Null /\ r.mate_moves = Null
NoResult(r)  == r.evaluation_cp = Null /\ NoMate(r)

MateConstraint(r) ==
  \/ NoMate(r)
  \/ /\ r.mate_winner \in {"white", "black"}
     /\ r.mate_moves # Null /\ r.mate_moves >= 0

SatisfiesChecks(r) ==
  /\ r.status \in Status                                       \* ck_tasks_status
  /\ r.attempts \in 0 .. MaxAttempts                         \* ck_tasks_attempts
  /\ MateConstraint(r)                                    \* ck_tasks_mate_result
  /\ r.evaluation_cp # Null => NoMate(r)             \* ck_tasks_result_exclusive
  /\ IF r.status = "running" THEN Leased(r) ELSE NotLeased(r)    \* running_lease
  /\ r.status # "completed" => NoResult(r)          \* ck_tasks_nonterminal_no_result
  /\ r.status = "failed" => r.error_code # Null           \* ck_tasks_failed_error
  /\ r.finished_at => r.status \in {"completed", "failed"}  \* nonterminal_finished
  /\ r.status = "completed" =>                     \* ck_tasks_completed_has_result
        r.evaluation_cp # Null \/ r.mate_winner # Null
  /\ r.status \in {"completed", "failed"} =>            \* ck_tasks_terminal_fields
        r.finished_at /\ NotLeased(r)
-----------------------------------------------------------------------------
(* What the operations of app/tasks.py write.                              *)

(* Operators whose comment begins with "Mutant" are bugs this code might   *)
(* have had.  They are not part of the model: replacing the definition     *)
(* that follows by one of them makes a property of a run fail.             *)

NewRow(stamp) ==
  [status |-> "queued", attempts |-> 0, created_at |-> stamp,
   lease_token |-> Null, lease |-> Null, evaluation_cp |-> Null,
   mate_winner |-> Null, mate_moves |-> Null, error_code |-> Null,
   finished_at |-> FALSE]

ClearAttempt(r) ==
  [r EXCEPT !.lease_token = Null, !.lease = Null, !.evaluation_cp = Null,
            !.mate_winner = Null, !.mate_moves = Null, !.error_code = Null,
            !.finished_at = FALSE]

Claimed(r, token) ==
  [ClearAttempt(r) EXCEPT !.status = "running", !.attempts = @ + 1,
                          !.lease_token = token, !.lease = LeaseTicks]

(* Mutant of Requeued: a task starts afresh, with every attempt left.      *)
RequeuedAfresh(r) ==
  [ClearAttempt(r) EXCEPT !.status = "queued", !.attempts = 0]

Requeued(r) == [ClearAttempt(r) EXCEPT !.status = "queued"]

FailedRow(r, code) ==
  [ClearAttempt(r) EXCEPT !.status = "failed", !.error_code = code,
                          !.finished_at = TRUE]

(* Mutant of GivenUp: one retry too many.                                  *)
GivenUpLate(r, code) ==
  IF r.attempts <= MaxAttempts THEN Requeued(r) ELSE FailedRow(r, code)

(* Mutant of GivenUp: the error is stored before the branch.               *)
GivenUpWithError(r, code) ==
  IF r.attempts < MaxAttempts THEN [Requeued(r) EXCEPT !.error_code = code]
                              ELSE FailedRow(r, code)

(* Mutant of GivenUp: the first failure is published at once.              *)
GivenUpAtOnce(r, code) == FailedRow(r, code)

(* The shared tail of recover_expired and fail_or_retry.                   *)
GivenUp(r, code) ==
  IF r.attempts < MaxAttempts THEN Requeued(r) ELSE FailedRow(r, code)

(* Mutant of ValidOutcome: the sign of mate_moves is not checked.          *)
SomeOutcome(o) ==
  LET mate == o.mate_winner # Null \/ o.mate_moves # Null
  IN  /\ (o.evaluation_cp # Null) # mate
      /\ mate => o.mate_winner \in {"white", "black"} /\ o.mate_moves # Null

(* complete_task raises ValueError, before it touches the database, unless *)
(* its arguments are exactly one ordinary or one mate result.              *)
ValidOutcome(o) ==
  LET mate == o.mate_winner # Null \/ o.mate_moves # Null
  IN  /\ (o.evaluation_cp # Null) # mate
      /\ mate => /\ o.mate_winner \in {"white", "black"}
                 /\ o.mate_moves # Null /\ o.mate_moves >= 0

CompletedRow(r, o) ==
  [r EXCEPT !.status = "completed", !.evaluation_cp = o.evaluation_cp,
            !.mate_winner = o.mate_winner, !.mate_moves = o.mate_moves,
            !.error_code = Null, !.lease_token = Null, !.lease = Null,
            !.finished_at = TRUE]
-----------------------------------------------------------------------------
(* What a client is told: app/api.py _task_payload.                        *)

(* Mutant of Payload: a zero evaluation is taken for a missing one.        *)
TruthyPayload(r) ==
  [status     |-> r.status,
   evaluation |-> IF r.status = "completed" /\ NoMate(r) /\ r.evaluation_cp # 0
                  THEN r.evaluation_cp ELSE Null,
   mate       |-> IF r.status = "completed" /\ ~NoMate(r)
                  THEN <<r.mate_winner, r.mate_moves>> ELSE Null,
   error      |-> IF r.status = "failed" THEN r.error_code ELSE Null]

Payload(r) ==
  [status     |-> r.status,
   evaluation |-> IF r.status = "completed" /\ NoMate(r)
                  THEN r.evaluation_cp ELSE Null,
   mate       |-> IF r.status = "completed" /\ ~NoMate(r)
                  THEN <<r.mate_winner, r.mate_moves>> ELSE Null,
   error      |-> IF r.status = "failed" THEN r.error_code ELSE Null]
-----------------------------------------------------------------------------
(* The WHERE clauses.  A row that is not there satisfies none of them.     *)

Queued(r)  == r # Null /\ r.status = "queued"
Running(r) == r # Null /\ r.status = "running"
Final(r)   == r # Null /\ r.status \in {"completed", "failed"}

HasLeaseLeft(r) == Running(r) /\ r.lease # Null /\ r.lease > 0

HasLease(r) == Running(r) /\ r.lease # Null
Expired(r)  == HasLease(r) /\ r.lease <= 0

(* Mutant of AttemptGuard: the token is not compared.                      *)
TokenlessGuard(r, token) == HasLeaseLeft(r)

(* Mutant of AttemptGuard: the row is found by its id alone.               *)
IdGuard(r, token) == r # Null

AttemptGuard(r, token) == HasLeaseLeft(r) /\ r.lease_token = token

(* One tick of the database clock, seen by a row.                          *)
Aged(r) == IF HasLeaseLeft(r) THEN [r EXCEPT !.lease = @ - 1] ELSE r
-----------------------------------------------------------------------------
(* A row as TaskLifecycle sees it, for the modules that implement it.      *)
PhaseOf(r)    == IF r = Null THEN "absent" ELSE r.status
AttemptsOf(r) == IF r = Null THEN 0 ELSE r.attempts

NoVerdict == [evaluation_cp |-> Null, mate_winner |-> Null,
              mate_moves |-> Null, error_code |-> Null]

VerdictOf(r) ==
  IF r = Null THEN NoVerdict
  ELSE [evaluation_cp |-> r.evaluation_cp, mate_winner |-> r.mate_winner,
        mate_moves |-> r.mate_moves, error_code |-> r.error_code]

Verdicts == [evaluation_cp : Int \cup {Null}, mate_winner : Winner \cup {Null},
             mate_moves : Int \cup {Null}, error_code : ErrorCode \cup {Null}]
            \ {NoVerdict}
=============================================================================
