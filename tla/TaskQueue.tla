----------------------------- MODULE TaskQueue -----------------------------
(***************************************************************************)
(* The durable task queue: the tasks table in PostgreSQL and the           *)
(* operations of app/tasks.py on it, called by any number of independent   *)
(* database sessions.  The clients of this module are as bad as they can   *)
(* be: any session may call any operation, with any lease token, at any    *)
(* time, and may disconnect inside a transaction.  Service restricts them  *)
(* to what the API handlers and the worker loop do.                        *)
(*                                                                         *)
(* A transaction is two steps.  The first executes its statements: it      *)
(* reads the committed rows, evaluates the WHERE clauses and takes the row *)
(* locks; what it writes stays in txn, where no other session sees it.     *)
(* The second commits or rolls back.  Ticks and other sessions come        *)
(* between the two.                                                        *)
(***************************************************************************)
EXTENDS TaskRow, FiniteSets

CONSTANTS
  TaskId,     \* the task ids uuid4() returns, as numbers: ORDER BY id
  Session,    \* database sessions
  Outcome,    \* result arguments a client may pass to complete_task
  MaxStamp    \* bound on created_at: how many instants inserts may tell apart

ASSUME QueueAssumption ==
  /\ TaskId \subseteq Int
  /\ Outcome \subseteq Arguments
  /\ MaxStamp \in Nat

VARIABLES
  rows,      \* the committed table: a row, or Null where there is none
  txn,       \* the open transaction of each session
  issued     \* history: the tokens of the committed claims of each task

queueVars == <<rows, txn, issued>>
-----------------------------------------------------------------------------
Op == {"none", "insert", "claim", "recover", "complete", "fail"}

Transaction == [op     : Op,
                token  : Token \cup {Null},
                writes : [TaskId -> Row \cup {Null}]]

NoWrites == [t \in TaskId |-> Null]
NoTxn    == [op |-> "none", token |-> Null, writes |-> NoWrites]

Idle(s)      == txn[s].op = "none"
Writes(s, t) == txn[s].writes[t] # Null
Locked(t)    == \E s \in Session : Writes(s, t)

Begin(s, op, token, writes) ==
  /\ Idle(s)
  /\ txn' = [txn EXCEPT ![s] = [op |-> op, token |-> token, writes |-> writes]]
  /\ UNCHANGED <<rows, issued>>

(* uuid4() repeats no token that was ever stored or is about to be.        *)
PendingTokens == {txn[s].token : s \in {x \in Session : txn[x].op = "claim"}}

(* Mutant of FreshTokens: a token is drawn once per worker, not per claim. *)
ReusableTokens == Token \ PendingTokens
FreshTokens   == Token \ (PendingTokens \cup UNION {issued[t] : t \in TaskId})
-----------------------------------------------------------------------------
(* create_task: the new row is flushed; its caller commits.  created_at is *)
(* CURRENT_TIMESTAMP, no earlier than that of any insert begun before.     *)
InsertBegin(s, t) ==
  /\ rows[t] = Null /\ ~Locked(t)
  /\ \E stamp \in 0 .. MaxStamp :
       /\ \A u \in TaskId :
            /\ rows[u] # Null => rows[u].created_at <= stamp
            /\ \A x \in Session :
                 Writes(x, u) => txn[x].writes[u].created_at <= stamp
       /\ Begin(s, "insert", Null, [NoWrites EXCEPT ![t] = NewRow(stamp)])

(* claim_one: ORDER BY created_at, id LIMIT 1 FOR UPDATE SKIP LOCKED.      *)
Older(t, u) == \/ rows[t].created_at < rows[u].created_at
               \/ rows[t].created_at = rows[u].created_at /\ t < u

(* Mutant of Available: SELECT without FOR UPDATE SKIP LOCKED.             *)
UnlockedChoice == {t \in TaskId : Queued(rows[t])}

Available == {t \in TaskId : Queued(rows[t]) /\ ~Locked(t)}

ClaimBegin(s) ==
  \E t \in Available, token \in FreshTokens :
    /\ \A u \in Available \ {t} : Older(t, u)
    /\ Begin(s, "claim", token,
             [NoWrites EXCEPT ![t] = Claimed(rows[t], token)])

(* recover_expired: every expired row that nobody has locked, in one       *)
(* transaction.                                                            *)

(* Mutant of Recoverable: the lease is not compared with the clock.        *)
EveryRunning == {t \in TaskId : HasLease(rows[t]) /\ ~Locked(t)}

Recoverable == {t \in TaskId : Expired(rows[t]) /\ ~Locked(t)}

RecoverBegin(s) ==
  Begin(s, "recover", Null,
        [t \in TaskId |-> IF t \in Recoverable
                          THEN GivenUp(rows[t], LeaseExpired) ELSE Null])

(* An update guarded by the attempt's token and lease.  It waits for the   *)
(* lock of a row it matches, and writes nothing if it matches none.        *)
GuardedUpdate(s, op, t, token, row) ==
  \/ /\ AttemptGuard(rows[t], token) /\ ~Locked(t)
     /\ Begin(s, op, token, [NoWrites EXCEPT ![t] = row])
  \/ /\ ~AttemptGuard(rows[t], token)
     /\ Begin(s, op, token, NoWrites)

(* complete_task: invalid arguments raise before any statement is sent.    *)
CompleteBegin(s, t, token, outcome) ==
  /\ ValidOutcome(outcome)
  /\ GuardedUpdate(s, "complete", t, token, CompletedRow(rows[t], outcome))

(* fail_or_retry, under any of its names.                                  *)
FailBegin(s, t, token, code) ==
  GuardedUpdate(s, "fail", t, token, GivenUp(rows[t], code))
-----------------------------------------------------------------------------
(* COMMIT: what the session wrote becomes the table, and its locks go.     *)
Commit(s) ==
  /\ ~Idle(s)
  /\ rows' = [t \in TaskId |-> IF Writes(s, t) THEN txn[s].writes[t]
                                               ELSE rows[t]]
  /\ issued' = [t \in TaskId |-> IF txn[s].op = "claim" /\ Writes(s, t)
                                 THEN issued[t] \cup {txn[s].token}
                                 ELSE issued[t]]
  /\ txn' = [txn EXCEPT ![s] = NoTxn]

(* ROLLBACK: an error, a lost connection, or the death of either process.  *)
Abort(s) ==
  /\ ~Idle(s)
  /\ txn' = [txn EXCEPT ![s] = NoTxn]
  /\ UNCHANGED <<rows, issued>>

(* The database clock advances: every lease, stored or about to be stored, *)
(* comes one tick closer to its end.                                       *)
Tick ==
  /\ \/ \E t \in TaskId : HasLeaseLeft(rows[t])
     \/ \E s \in Session, t \in TaskId : HasLeaseLeft(txn[s].writes[t])
  /\ rows' = [t \in TaskId |-> Aged(rows[t])]
  /\ txn' = [s \in Session |->
               [op |-> txn[s].op, token |-> txn[s].token,
                writes |-> [t \in TaskId |-> Aged(txn[s].writes[t])]]]
  /\ UNCHANGED issued
-----------------------------------------------------------------------------
QueueInit == /\ rows = [t \in TaskId |-> Null]
             /\ txn = [s \in Session |-> NoTxn]
             /\ issued = [t \in TaskId |-> {}]

Operation(s) ==
  \/ \E t \in TaskId : InsertBegin(s, t)
  \/ ClaimBegin(s)
  \/ RecoverBegin(s)
  \/ \E t \in TaskId, token \in Token, o \in Outcome : CompleteBegin(s, t, token, o)
  \/ \E t \in TaskId, token \in Token, c \in EngineCode : FailBegin(s, t, token, c)
  \/ Commit(s)
  \/ Abort(s)

QueueNext == \/ \E s \in Session : Operation(s)
             \/ Tick

QueueSpec == QueueInit /\ [][QueueNext]_queueVars
-----------------------------------------------------------------------------
QueueTypeOK == /\ rows \in [TaskId -> Row \cup {Null}]
               /\ txn \in [Session -> Transaction]
               /\ issued \in [TaskId -> SUBSET Token]

(* No operation ever makes the database reject its write: each row stored, *)
(* and each row an open transaction is about to store, satisfies every     *)
(* CHECK constraint of app/models.py.  A violation would surface as an     *)
(* IntegrityError in a worker that treats it as a database outage.         *)
ConstraintsHold ==
  \A t \in TaskId :
    /\ rows[t] # Null => SatisfiesChecks(rows[t])
    /\ \A s \in Session : Writes(s, t) => SatisfiesChecks(txn[s].writes[t])

(* No two sessions ever hold a write on the same task: FOR UPDATE SKIP     *)
(* LOCKED lets two workers claim at once without claiming the same task.   *)
RowLocks ==
  \A t \in TaskId, s1, s2 \in Session :
    Writes(s1, t) /\ Writes(s2, t) => s1 = s2

(* No lost update: whatever happens between the statements of a            *)
(* transaction and its commit, what it is about to write is still a        *)
(* correct successor of the row it will replace.                           *)
CorrectWrite(op, token, old, new) ==
  CASE op = "none"     -> FALSE
    [] op = "insert"   -> old = Null /\ Queued(new) /\ new.attempts = 0
    [] op = "claim"    -> /\ Queued(old) /\ Running(new)
                          /\ new.attempts = old.attempts + 1
                          /\ new.lease_token = token
    [] op = "recover"  -> Expired(old) /\ new = GivenUp(old, LeaseExpired)
    [] op = "complete" -> /\ Running(old) /\ old.lease_token = token
                          /\ new.status = "completed"
                          /\ new.attempts = old.attempts
    [] op = "fail"     -> /\ Running(old) /\ old.lease_token = token
                          /\ \E c \in EngineCode : new = GivenUp(old, c)

NoLostUpdate ==
  \A s \in Session, t \in TaskId :
    Writes(s, t) =>
      CorrectWrite(txn[s].op, txn[s].token, rows[t], txn[s].writes[t])

(* The attempts column counts the claims that were committed, each under a *)
(* token of its own: no crash, rollback or recovery loses one or counts    *)
(* one twice.  A task is back in the queue only with an attempt left, and  *)
(* fails only with none left.                                              *)
AttemptBudget ==
  \A t \in TaskId :
    IF rows[t] = Null THEN issued[t] = {}
    ELSE /\ Cardinality(issued[t]) = rows[t].attempts
         /\ Queued(rows[t]) => rows[t].attempts < MaxAttempts
         /\ rows[t].status = "failed" => rows[t].attempts = MaxAttempts

(* Fencing: a token that has stopped guarding its task never guards it     *)
(* again, so a worker that lost an attempt can never touch a later one.    *)
Guards(token, r) == Running(r) /\ r.lease_token = token

FencingStep ==
  \A t \in TaskId : \A token \in issued[t] :
    ~Guards(token, rows[t]) => ~Guards(token, rows'[t])

StaleForever == [][FencingStep]_queueVars

(* Once a task has completed or failed its row never changes again,        *)
(* whatever a delayed worker sends: a client may stop polling (README).    *)
FinalStep == \A t \in TaskId : Final(rows[t]) => rows'[t] = rows[t]

FinalIsForever == [][FinalStep]_queueVars

(* While its lease lasts, only the holder of its token ends an attempt;    *)
(* anybody else has to wait for the lease to run out.                      *)
ExclusiveStep ==
  \A t \in TaskId :
    Running(rows[t]) /\ ~Guards(rows[t].lease_token, rows'[t])
      => \/ Expired(rows[t])
         \/ \E s \in Session : /\ txn[s].op \in {"complete", "fail"}
                               /\ txn[s].token = rows[t].lease_token
                               /\ Writes(s, t)

LeaseIsExclusive == [][ExclusiveStep]_queueVars

(* Every task wears out: whatever the sessions do, each change of its row  *)
(* uses up a tick of a lease, a lease or an attempt, and none gives back   *)
(* what an earlier one used.  So a task goes through at most               *)
(* MaxAttempts * (LeaseTicks + 2) + 1 changes after its insert, and no mix *)
(* of retries, recoveries and late reports keeps it going round for ever.  *)
Remaining(r) ==
  IF Final(r) THEN 0
  ELSE (MaxAttempts - r.attempts) * (LeaseTicks + 2) + 1
       + (IF Running(r) THEN r.lease + 1 ELSE 0)

WearStep ==
  \A t \in TaskId : rows[t] # Null /\ rows'[t] # rows[t] =>
    Remaining(rows'[t]) \in 0 .. (Remaining(rows[t]) - 1)

TasksWearOut == [][WearStep]_queueVars
-----------------------------------------------------------------------------
(* What the invariants above need to be inductive.                         *)

IdleIsEmpty ==
  \A s \in Session : Idle(s) => txn[s] = NoTxn

(* Only a failed task carries an error, so a retried attempt starts clean. *)
CleanRows ==
  \A t \in TaskId :
    /\ Queued(rows[t]) \/ Running(rows[t]) => rows[t].error_code = Null
    /\ \A s \in Session : Writes(s, t) =>
         LET new == txn[s].writes[t]
         IN  Queued(new) \/ Running(new) => new.error_code = Null

(* A claim about to commit uses a token that nobody else ever used.        *)
FreshPending ==
  \A s \in Session : txn[s].op = "claim" =>
    /\ txn[s].token \in Token
    /\ \A t \in TaskId : txn[s].token \notin issued[t]
    /\ \A x \in Session : txn[x].op = "claim" /\ txn[x].token = txn[s].token
                            => x = s

FiniteHistory == \A t \in TaskId : IsFiniteSet(issued[t])

(* The inductive invariant of the queue: the invariants and their support. *)
QueueIInv == /\ QueueTypeOK /\ ConstraintsHold /\ RowLocks /\ NoLostUpdate
             /\ AttemptBudget /\ IdleIsEmpty /\ CleanRows /\ FreshPending
             /\ FiniteHistory
-----------------------------------------------------------------------------
(* The queue implements the life cycle of TaskLifecycle.                   *)
Lifecycle == INSTANCE TaskLifecycle WITH
  Verdict  <- Verdicts,
  phase    <- [t \in TaskId |-> PhaseOf(rows[t])],
  attempts <- [t \in TaskId |-> AttemptsOf(rows[t])],
  verdict  <- [t \in TaskId |-> VerdictOf(rows[t])]

LifecycleSpec == Lifecycle!Spec
=============================================================================
