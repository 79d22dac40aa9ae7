-------------------------- MODULE TaskQueueProofs --------------------------
(***************************************************************************)
(* Proofs about TaskQueue, for any sets of tasks, sessions and tokens, any *)
(* lease, any budget of attempts and any result arguments.                 *)
(***************************************************************************)
EXTENDS TaskQueue, TaskRowProofs, FiniteSetTheorems, TLAPS
-----------------------------------------------------------------------------
(* The inductive invariant.                                                *)

LEMMA EmptyTxn ==
  /\ NoTxn \in Transaction /\ NoTxn.op = "none"
  /\ \A t \in TaskId : NoTxn.writes[t] = Null
BY DEF NoTxn, NoWrites, Transaction, Op

(* What an open transaction may replace a row with.                        *)
LEMMA WriteFacts ==
  ASSUME QueueIInv, NEW s \in Session, NEW t \in TaskId, Writes(s, t)
  PROVE  LET old == rows[t]  new == txn[s].writes[t]
         IN  /\ new \in Row /\ SatisfiesChecks(new)
             /\ \/ old = Null /\ Queued(new) /\ new.attempts = 0
                   /\ txn[s].op = "insert"
                \/ /\ old \in Row /\ Queued(old) /\ Running(new)
                   /\ new.attempts = old.attempts + 1
                   /\ new.lease_token = txn[s].token /\ txn[s].op = "claim"
                \/ /\ old \in Row /\ Running(old) /\ new.attempts = old.attempts
                   /\ \/ Queued(new) /\ new.attempts < MaxAttempts
                      \/ new.status = "failed" /\ new.attempts = MaxAttempts
                      \/ new.status = "completed"
                   /\ \/ txn[s].op = "recover" /\ Expired(old)
                      \/ /\ txn[s].op \in {"complete", "fail"}
                         /\ old.lease_token = txn[s].token
<1> DEFINE old == rows[t]  new == txn[s].writes[t]
<1>1. /\ new \in Row /\ SatisfiesChecks(new)
      /\ old \in Row \cup {Null}
      /\ old # Null => SatisfiesChecks(old)
      /\ txn[s].op \in Op
  BY DEF QueueIInv, QueueTypeOK, ConstraintsHold, Writes, Transaction
<1>2. CorrectWrite(txn[s].op, txn[s].token, old, new)
  BY DEF QueueIInv, NoLostUpdate
<1>3. ASSUME Running(old), NEW c \in ErrorCode, new = GivenUp(old, c)
      PROVE  /\ old \in Row /\ new.attempts = old.attempts
             /\ \/ Queued(new) /\ new.attempts < MaxAttempts
                \/ new.status = "failed" /\ new.attempts = MaxAttempts
  BY <1>1, <1>3, GivenUpOK DEF Running
<1>4. Queued(old) \/ Running(old) \/ Expired(old) => old \in Row
  BY <1>1 DEF Queued, Running, Expired, HasLease
<1>5. CASE txn[s].op = "insert"
  BY <1>1, <1>2, <1>5 DEF CorrectWrite
<1>6. CASE txn[s].op = "claim"
  BY <1>1, <1>2, <1>4, <1>6 DEF CorrectWrite
<1>7. CASE txn[s].op = "recover"
  <2>1. Expired(old) /\ Running(old) /\ new = GivenUp(old, LeaseExpired)
    BY <1>2, <1>7 DEF CorrectWrite, Expired, HasLease
  <2>2. LeaseExpired \in ErrorCode
    BY DEF ErrorCode
  <2> QED
    BY <1>1, <1>3, <1>7, <2>1, <2>2
<1>8. CASE txn[s].op = "complete"
  BY <1>1, <1>2, <1>4, <1>8 DEF CorrectWrite
<1>9. CASE txn[s].op = "fail"
  <2>1. PICK c \in EngineCode : new = GivenUp(old, c)
    BY <1>2, <1>9 DEF CorrectWrite
  <2>2. Running(old) /\ old.lease_token = txn[s].token
    BY <1>2, <1>9 DEF CorrectWrite
  <2>3. c \in ErrorCode
    BY DEF ErrorCode
  <2> QED
    BY <1>1, <1>3, <1>9, <2>1, <2>2, <2>3
<1>10. txn[s].op # "none"
  BY <1>2 DEF CorrectWrite
<1> QED
  BY <1>1, <1>5, <1>6, <1>7, <1>8, <1>9, <1>10 DEF Op

LEMMA InitIInv == QueueInit => QueueIInv
<1> SUFFICES ASSUME QueueInit PROVE QueueIInv
  OBVIOUS
<1>1. /\ \A t \in TaskId : rows[t] = Null /\ issued[t] = {}
      /\ \A s \in Session : txn[s] = NoTxn
  BY DEF QueueInit
<1>2. QueueTypeOK
  BY EmptyTxn DEF QueueInit, QueueTypeOK
<1>3. \A s \in Session, t \in TaskId : ~Writes(s, t)
  BY <1>1, EmptyTxn DEF Writes
<1>4. \A t \in TaskId : ~Queued(rows[t]) /\ ~Running(rows[t])
  BY <1>1 DEF Queued, Running
<1> QED
  BY <1>1, <1>2, <1>3, <1>4, EmptyTxn, FS_EmptySet
     DEF QueueIInv, ConstraintsHold, RowLocks, NoLostUpdate, AttemptBudget,
         IdleIsEmpty, CleanRows, FreshPending, FiniteHistory

(* Opening a transaction keeps the invariant when it locks what it writes  *)
(* and each of its writes is a correct successor of the row it replaces.   *)
LEMMA BeginIInv ==
  ASSUME QueueIInv, NEW s \in Session, NEW op \in Op \ {"none"},
         NEW token \in Token \cup {Null},
         NEW writes \in [TaskId -> Row \cup {Null}],
         Begin(s, op, token, writes),
         op = "claim" => token \in FreshTokens,
         \A t \in TaskId : writes[t] # Null =>
           /\ ~Locked(t)
           /\ SatisfiesChecks(writes[t])
           /\ CorrectWrite(op, token, rows[t], writes[t])
           /\ Queued(writes[t]) \/ Running(writes[t])
                => writes[t].error_code = Null
  PROVE  QueueIInv'
<1> DEFINE new == [op |-> op, token |-> token, writes |-> writes]
<1>1. /\ Idle(s) /\ rows' = rows /\ issued' = issued
      /\ txn \in [Session -> Transaction]
      /\ txn' = [txn EXCEPT ![s] = new]
  BY DEF Begin, QueueIInv, QueueTypeOK
<1>2. new \in Transaction /\ new.op = op /\ new.token = token
      /\ new.writes = writes
  BY DEF Transaction
<1>3. txn'[s] = new /\ \A x \in Session \ {s} : txn'[x] = txn[x]
  BY <1>1
<1> HIDE DEF new
<1>4. QueueTypeOK'
  BY <1>1, <1>2 DEF QueueIInv, QueueTypeOK
<1>5. \A x \in Session \ {s}, t \in TaskId : Writes(x, t)' <=> Writes(x, t)
  BY <1>3 DEF Writes
<1>6. \A t \in TaskId : Writes(s, t)' <=> writes[t] # Null
  BY <1>2, <1>3 DEF Writes
<1>7. ConstraintsHold'
  BY <1>1, <1>2, <1>3, <1>5, <1>6 DEF QueueIInv, ConstraintsHold
<1>8. RowLocks'
  BY <1>5, <1>6 DEF QueueIInv, RowLocks, Locked
<1>9. NoLostUpdate'
  BY <1>1, <1>2, <1>3, <1>5, <1>6 DEF QueueIInv, NoLostUpdate
<1>10. AttemptBudget' /\ FiniteHistory'
  BY <1>1 DEF QueueIInv, AttemptBudget, FiniteHistory
<1>11. IdleIsEmpty'
  BY <1>2, <1>3 DEF QueueIInv, IdleIsEmpty, Idle
<1>12. CleanRows'
  BY <1>1, <1>2, <1>3, <1>5, <1>6 DEF QueueIInv, CleanRows
<1>13. FreshPending'
  <2>1. CASE op = "claim"
    <3>1. /\ token \in Token /\ \A t \in TaskId : token \notin issued[t]
          /\ \A x \in Session : txn[x].op = "claim" => txn[x].token # token
      BY <2>1 DEF FreshTokens, PendingTokens
    <3> QED
      BY <1>1, <1>2, <1>3, <3>1 DEF QueueIInv, FreshPending
  <2>2. CASE op # "claim"
    BY <1>1, <1>2, <1>3, <2>2 DEF QueueIInv, FreshPending
  <2> QED
    BY <2>1, <2>2
<1> QED
  BY <1>4, <1>7, <1>8, <1>9, <1>10, <1>11, <1>12, <1>13 DEF QueueIInv

(* The five operations open a transaction as BeginIInv asks.               *)
LEMMA NoWritesOK == NoWrites \in [TaskId -> Row \cup {Null}]
BY DEF NoWrites

LEMMA InsertIInv ==
  ASSUME QueueIInv, NEW s \in Session, NEW t \in TaskId, InsertBegin(s, t)
  PROVE  QueueIInv'
<1>1. PICK stamp \in 0 .. MaxStamp :
        Begin(s, "insert", Null, [NoWrites EXCEPT ![t] = NewRow(stamp)])
  BY DEF InsertBegin
<1> DEFINE new == NewRow(stamp)  writes == [NoWrites EXCEPT ![t] = new]
<1>2. /\ new \in Row /\ SatisfiesChecks(new) /\ Queued(new)
      /\ new.attempts = 0 /\ new.error_code = Null
  BY NewRowOK
<1> HIDE DEF new
<1>3. writes \in [TaskId -> Row \cup {Null}]
  BY <1>2, NoWritesOK
<1>4. \A u \in TaskId : writes[u] # Null => u = t /\ writes[u] = new
  BY NoWritesOK DEF NoWrites
<1>5. CorrectWrite("insert", Null, rows[t], new) /\ ~Locked(t)
  BY <1>2 DEF InsertBegin, CorrectWrite
<1>6. Begin(s, "insert", Null, writes) /\ "insert" \in Op \ {"none"}
  BY <1>1 DEF new, Op
<1> HIDE DEF writes
<1> QED
  BY BeginIInv, <1>2, <1>3, <1>4, <1>5, <1>6

LEMMA ClaimIInv ==
  ASSUME QueueIInv, NEW s \in Session, ClaimBegin(s)
  PROVE  QueueIInv'
<1>1. PICK t \in Available, token \in FreshTokens :
        Begin(s, "claim", token, [NoWrites EXCEPT ![t] = Claimed(rows[t], token)])
  BY DEF ClaimBegin
<1> DEFINE new == Claimed(rows[t], token)
           writes == [NoWrites EXCEPT ![t] = new]
<1>2. /\ t \in TaskId /\ Queued(rows[t]) /\ ~Locked(t) /\ token \in Token
  BY DEF Available, FreshTokens
<1>3. rows[t] \in Row /\ SatisfiesChecks(rows[t])
  BY <1>2 DEF QueueIInv, QueueTypeOK, ConstraintsHold, Queued
<1>4. rows[t].attempts < MaxAttempts
  BY <1>2 DEF QueueIInv, AttemptBudget, Queued
<1>5. /\ new \in Row /\ SatisfiesChecks(new) /\ Running(new)
      /\ new.attempts = rows[t].attempts + 1 /\ new.lease_token = token
      /\ new.error_code = Null
  BY <1>2, <1>3, <1>4, ClaimedOK
<1> HIDE DEF new
<1>6. writes \in [TaskId -> Row \cup {Null}]
  BY <1>2, <1>5, NoWritesOK
<1>7. \A u \in TaskId : writes[u] # Null => u = t /\ writes[u] = new
  BY NoWritesOK DEF NoWrites
<1>8. CorrectWrite("claim", token, rows[t], new)
  BY <1>2, <1>5 DEF CorrectWrite
<1>9. Begin(s, "claim", token, writes) /\ "claim" \in Op \ {"none"}
  BY <1>1 DEF new, Op
<1> HIDE DEF writes
<1> QED
  BY BeginIInv, <1>2, <1>5, <1>6, <1>7, <1>8, <1>9

LEMMA RecoverIInv ==
  ASSUME QueueIInv, NEW s \in Session, RecoverBegin(s)
  PROVE  QueueIInv'
<1> DEFINE writes == [t \in TaskId |-> IF t \in Recoverable
                                       THEN GivenUp(rows[t], LeaseExpired) ELSE Null]
<1>1. Begin(s, "recover", Null, writes) /\ "recover" \in Op \ {"none"}
  BY DEF RecoverBegin, Op
<1>2. ASSUME NEW t \in Recoverable
      PROVE  /\ ~Locked(t) /\ Expired(rows[t])
             /\ GivenUp(rows[t], LeaseExpired) \in Row
             /\ SatisfiesChecks(GivenUp(rows[t], LeaseExpired))
             /\ LET new == GivenUp(rows[t], LeaseExpired)
                IN  Queued(new) \/ Running(new) => new.error_code = Null
  <2>1. t \in TaskId /\ ~Locked(t) /\ Expired(rows[t]) /\ Running(rows[t])
    BY DEF Recoverable, Expired, HasLease
  <2>2. rows[t] \in Row /\ SatisfiesChecks(rows[t])
    BY <2>1 DEF QueueIInv, QueueTypeOK, ConstraintsHold, Running
  <2>3. LeaseExpired \in ErrorCode
    BY DEF ErrorCode
  <2> QED
    BY <2>1, <2>2, <2>3, GivenUpOK DEF Queued
<1>3. writes \in [TaskId -> Row \cup {Null}]
  BY <1>2
<1>4. \A t \in TaskId : writes[t] # Null =>
         t \in Recoverable /\ writes[t] = GivenUp(rows[t], LeaseExpired)
  OBVIOUS
<1>5. \A t \in Recoverable :
        CorrectWrite("recover", Null, rows[t], GivenUp(rows[t], LeaseExpired))
  BY <1>2 DEF CorrectWrite
<1> HIDE DEF writes
<1> QED
  BY BeginIInv, <1>1, <1>2, <1>3, <1>4, <1>5

(* Both guarded updates, whatever they write over the row they match.      *)
LEMMA GuardedIInv ==
  ASSUME QueueIInv, NEW s \in Session, NEW t \in TaskId, NEW token \in Token,
         NEW op \in {"complete", "fail"}, NEW row,
         GuardedUpdate(s, op, t, token, row),
         AttemptGuard(rows[t], token) =>
           /\ row \in Row /\ SatisfiesChecks(row)
           /\ CorrectWrite(op, token, rows[t], row)
           /\ Queued(row) \/ Running(row) => row.error_code = Null
  PROVE  QueueIInv'
<1>1. op \in Op \ {"none"} /\ op # "claim"
  BY DEF Op
<1>2. CASE AttemptGuard(rows[t], token) /\ ~Locked(t)
           /\ Begin(s, op, token, [NoWrites EXCEPT ![t] = row])
  <2> DEFINE writes == [NoWrites EXCEPT ![t] = row]
  <2>1. writes \in [TaskId -> Row \cup {Null}]
    BY <1>2, NoWritesOK
  <2>2. \A u \in TaskId : writes[u] # Null => u = t /\ writes[u] = row
    BY NoWritesOK DEF NoWrites
  <2>3. Begin(s, op, token, writes)
    BY <1>2
  <2> HIDE DEF writes
  <2> QED
    BY BeginIInv, <1>1, <1>2, <2>1, <2>2, <2>3
<1>3. CASE Begin(s, op, token, NoWrites)
  <2>1. \A u \in TaskId : NoWrites[u] = Null
    BY DEF NoWrites
  <2> QED
    BY BeginIInv, NoWritesOK, <1>1, <1>3, <2>1
<1> QED
  BY <1>2, <1>3 DEF GuardedUpdate

LEMMA GuardedRow ==
  ASSUME QueueIInv, NEW t \in TaskId, NEW token, AttemptGuard(rows[t], token)
  PROVE  /\ rows[t] \in Row /\ SatisfiesChecks(rows[t]) /\ Running(rows[t])
         /\ rows[t].lease_token = token
BY DEF AttemptGuard, HasLeaseLeft, Running, QueueIInv, QueueTypeOK,
       ConstraintsHold

LEMMA CompleteIInv ==
  ASSUME QueueIInv, NEW s \in Session, NEW t \in TaskId, NEW token \in Token,
         NEW o \in Outcome, CompleteBegin(s, t, token, o)
  PROVE  QueueIInv'
<1> DEFINE row == CompletedRow(rows[t], o)
<1>1. ValidOutcome(o) /\ o \in Arguments
      /\ GuardedUpdate(s, "complete", t, token, row)
  BY QueueAssumption DEF CompleteBegin
<1>2. ASSUME AttemptGuard(rows[t], token)
      PROVE  /\ row \in Row /\ SatisfiesChecks(row)
             /\ CorrectWrite("complete", token, rows[t], row)
             /\ ~Queued(row) /\ ~Running(row)
  <2>1. /\ row \in Row /\ SatisfiesChecks(row) /\ row.status = "completed"
        /\ row.attempts = rows[t].attempts
    BY <1>1, <1>2, GuardedRow, CompletedRowOK
  <2> HIDE DEF row
  <2> QED
    BY <1>2, <2>1, GuardedRow DEF CorrectWrite, Queued, Running
<1> HIDE DEF row
<1> QED
  BY <1>1, <1>2, GuardedIInv

LEMMA FailIInv ==
  ASSUME QueueIInv, NEW s \in Session, NEW t \in TaskId, NEW token \in Token,
         NEW code \in EngineCode, FailBegin(s, t, token, code)
  PROVE  QueueIInv'
<1> DEFINE row == GivenUp(rows[t], code)
<1>1. GuardedUpdate(s, "fail", t, token, row) /\ code \in ErrorCode
  BY DEF FailBegin, ErrorCode
<1>2. ASSUME AttemptGuard(rows[t], token)
      PROVE  /\ row \in Row /\ SatisfiesChecks(row)
             /\ CorrectWrite("fail", token, rows[t], row)
             /\ Queued(row) \/ Running(row) => row.error_code = Null
  <2>1. /\ row \in Row /\ SatisfiesChecks(row) /\ ~Running(row)
        /\ Queued(row) => row.error_code = Null
    BY <1>1, <1>2, GuardedRow, GivenUpOK DEF Queued
  <2>2. CorrectWrite("fail", token, rows[t], row)
    BY <1>2, GuardedRow DEF CorrectWrite
  <2> QED
    BY <2>1, <2>2
<1> HIDE DEF row
<1> QED
  BY <1>1, <1>2, GuardedIInv

LEMMA AbortIInv ==
  ASSUME QueueIInv, NEW s \in Session, Abort(s)
  PROVE  QueueIInv'
<1>1. /\ rows' = rows /\ issued' = issued /\ txn'[s] = NoTxn
      /\ \A x \in Session \ {s} : txn'[x] = txn[x]
      /\ QueueTypeOK'
  BY EmptyTxn DEF Abort, QueueIInv, QueueTypeOK
<1>2. \A x \in Session, t \in TaskId : Writes(x, t)' => x # s /\ Writes(x, t)
  BY <1>1, EmptyTxn DEF Writes
<1>3. ConstraintsHold' /\ RowLocks' /\ NoLostUpdate'
  BY <1>1, <1>2 DEF QueueIInv, ConstraintsHold, RowLocks, NoLostUpdate
<1>4. AttemptBudget' /\ FiniteHistory'
  BY <1>1 DEF QueueIInv, AttemptBudget, FiniteHistory
<1>5. IdleIsEmpty' /\ CleanRows' /\ FreshPending'
  BY <1>1, <1>2, EmptyTxn DEF QueueIInv, IdleIsEmpty, Idle, CleanRows, FreshPending
<1> QED
  BY <1>1, <1>3, <1>4, <1>5 DEF QueueIInv

LEMMA CommitIInv ==
  ASSUME QueueIInv, NEW s \in Session, Commit(s)
  PROVE  QueueIInv'
<1>1. /\ txn'[s] = NoTxn /\ \A x \in Session \ {s} : txn'[x] = txn[x]
      /\ txn' \in [Session -> Transaction]
  BY EmptyTxn DEF Commit, QueueIInv, QueueTypeOK
<1>2. \A t \in TaskId :
        rows'[t] = IF Writes(s, t) THEN txn[s].writes[t] ELSE rows[t]
  BY DEF Commit
<1>3. \A t \in TaskId :
        issued'[t] = IF txn[s].op = "claim" /\ Writes(s, t)
                     THEN issued[t] \cup {txn[s].token} ELSE issued[t]
  BY DEF Commit
<1>4. txn[s].op = "claim" =>
        txn[s].token \in Token /\ \A t \in TaskId : txn[s].token \notin issued[t]
  BY DEF QueueIInv, FreshPending
<1>5. \A x \in Session, t \in TaskId :
        Writes(x, t)' => x # s /\ Writes(x, t) /\ ~Writes(s, t)
  BY <1>1, EmptyTxn DEF QueueIInv, RowLocks, Writes
<1>6. QueueTypeOK'
  <2>1. \A t \in TaskId : rows'[t] \in Row \cup {Null} /\ issued'[t] \in SUBSET Token
    BY <1>2, <1>3, <1>4, WriteFacts DEF QueueIInv, QueueTypeOK
  <2> QED
    BY <1>1, <2>1 DEF Commit, QueueTypeOK
<1>7. ConstraintsHold'
  BY <1>1, <1>2, <1>5 DEF QueueIInv, ConstraintsHold
<1>8. RowLocks'
  BY <1>5 DEF QueueIInv, RowLocks
<1>9. NoLostUpdate'
  BY <1>1, <1>2, <1>5 DEF QueueIInv, NoLostUpdate
<1>10. FiniteHistory'
  <2>1. ASSUME NEW t \in TaskId PROVE IsFiniteSet(issued'[t])
    <3>1. IsFiniteSet(issued[t])
      BY DEF QueueIInv, FiniteHistory
    <3>2. IsFiniteSet(issued[t] \cup {txn[s].token})
      BY <3>1, FS_AddElement
    <3> QED
      BY <1>3, <3>1, <3>2
  <2> QED
    BY <2>1 DEF FiniteHistory
<1>11. AttemptBudget'
  <2> SUFFICES ASSUME NEW t \in TaskId
               PROVE  IF rows'[t] = Null THEN issued'[t] = {}
                      ELSE /\ Cardinality(issued'[t]) = rows'[t].attempts
                           /\ Queued(rows'[t]) => rows'[t].attempts < MaxAttempts
                           /\ rows'[t].status = "failed"
                                => rows'[t].attempts = MaxAttempts
    BY DEF AttemptBudget
  <2>1. IF rows[t] = Null THEN issued[t] = {}
        ELSE /\ Cardinality(issued[t]) = rows[t].attempts
             /\ Queued(rows[t]) => rows[t].attempts < MaxAttempts
             /\ rows[t].status = "failed" => rows[t].attempts = MaxAttempts
    BY DEF QueueIInv, AttemptBudget
  <2>2. CASE ~Writes(s, t)
    BY <1>2, <1>3, <2>1, <2>2
  <2>3. CASE Writes(s, t)
    <3> DEFINE old == rows[t]  new == txn[s].writes[t]
    <3>1. rows'[t] = new /\ new \in Row /\ new # Null
      BY <1>2, <2>3, WriteFacts DEF Writes
    <3>2. CASE txn[s].op = "claim"
      <4>1. /\ old \in Row /\ Queued(old) /\ Running(new)
            /\ new.attempts = old.attempts + 1
        BY <2>3, <3>2, WriteFacts
      <4>2. issued'[t] = issued[t] \cup {txn[s].token}
        BY <1>3, <2>3, <3>2
      <4>3. Cardinality(issued'[t]) = Cardinality(issued[t]) + 1
        BY <1>4, <3>2, <4>2, FS_AddElement DEF QueueIInv, FiniteHistory
      <4>4. Cardinality(issued[t]) = old.attempts
        BY <2>1, <4>1 DEF Queued
      <4> QED
        BY <3>1, <4>1, <4>3, <4>4 DEF Queued, Running
    <3>3. CASE txn[s].op = "insert"
      <4>1. old = Null /\ Queued(new) /\ new.attempts = 0
        BY <2>3, <3>3, WriteFacts
      <4>2. issued'[t] = {}
        BY <1>3, <2>1, <3>3, <4>1
      <4>3. 0 < MaxAttempts
        BY RowAssumption
      <4> QED
        BY <3>1, <4>1, <4>2, <4>3, FS_EmptySet DEF Queued
    <3>4. CASE txn[s].op \notin {"claim", "insert"}
      <4>1. /\ old \in Row /\ Running(old) /\ new.attempts = old.attempts
            /\ \/ Queued(new) /\ new.attempts < MaxAttempts
               \/ new.status = "failed" /\ new.attempts = MaxAttempts
               \/ new.status = "completed"
        BY <2>3, <3>4, WriteFacts
      <4>2. issued'[t] = issued[t]
        BY <1>3, <3>4
      <4> QED
        BY <2>1, <3>1, <4>1, <4>2 DEF Queued, Running
    <3> QED
      BY <3>2, <3>3, <3>4
  <2> QED
    BY <2>2, <2>3
<1>12. IdleIsEmpty'
  BY <1>1, EmptyTxn DEF QueueIInv, IdleIsEmpty, Idle
<1>13. CleanRows'
  BY <1>1, <1>2, <1>5 DEF QueueIInv, CleanRows
<1>14. FreshPending'
  <2> SUFFICES ASSUME NEW x \in Session, txn'[x].op = "claim"
               PROVE  /\ txn'[x].token \in Token
                      /\ \A t \in TaskId : txn'[x].token \notin issued'[t]
                      /\ \A y \in Session :
                           txn'[y].op = "claim" /\ txn'[y].token = txn'[x].token
                             => y = x
    BY DEF FreshPending
  <2>1. x # s /\ txn'[x] = txn[x]
    BY <1>1, EmptyTxn
  <2>2. /\ txn[x].token \in Token
        /\ \A t \in TaskId : txn[x].token \notin issued[t]
        /\ txn[s].op = "claim" => txn[s].token # txn[x].token
    BY <2>1 DEF QueueIInv, FreshPending
  <2>3. \A y \in Session : txn'[y].op = "claim" => y # s /\ txn'[y] = txn[y]
    BY <1>1, EmptyTxn
  <2> QED
    BY <1>3, <2>1, <2>2, <2>3 DEF QueueIInv, FreshPending
<1> QED
  BY <1>6, <1>7, <1>8, <1>9, <1>10, <1>11, <1>12, <1>13, <1>14 DEF QueueIInv

(* A tick disturbs no write: the two rows age in step.                     *)
LEMMA AgedWrite ==
  ASSUME NEW op \in Op, NEW token, NEW old, NEW new, NEW old2, NEW new2,
         CorrectWrite(op, token, old, new), new # Null,
         old2 = Null <=> old = Null,
         old # Null => /\ old2.attempts = old.attempts
                       /\ old2.lease_token = old.lease_token
                       /\ \A c : GivenUp(old2, c) = GivenUp(old, c),
         Queued(old2) <=> Queued(old), Running(old2) <=> Running(old),
         Expired(old) => old2 = old,
         new2.attempts = new.attempts, new2.lease_token = new.lease_token,
         new2.status = new.status,
         Queued(new2) <=> Queued(new), Running(new2) <=> Running(new),
         op \in {"recover", "fail"} => new2 = new
  PROVE  CorrectWrite(op, token, old2, new2)
<1>1. op \in {"insert", "claim", "complete", "fail", "recover"}
  BY DEF CorrectWrite, Op
<1>2. CASE op = "insert"
  BY <1>2 DEF CorrectWrite
<1>3. CASE op = "claim"
  BY <1>3 DEF CorrectWrite, Queued
<1>4. CASE op = "complete"
  BY <1>4 DEF CorrectWrite, Running
<1>5. CASE op = "fail"
  BY <1>5 DEF CorrectWrite, Running
<1>6. CASE op = "recover"
  BY <1>6 DEF CorrectWrite
<1> QED
  BY <1>1, <1>2, <1>3, <1>4, <1>5, <1>6

LEMMA TickIInv ==
  ASSUME QueueIInv, Tick
  PROVE  QueueIInv'
<1> DEFINE aged(s) == [t \in TaskId |-> Aged(txn[s].writes[t])]
           later(s) == [op |-> txn[s].op, token |-> txn[s].token,
                        writes |-> aged(s)]
<1>0. /\ rows' = [t \in TaskId |-> Aged(rows[t])] /\ issued' = issued
      /\ txn' = [s \in Session |-> later(s)]
  BY DEF Tick
<1>1. /\ rows' = [t \in TaskId |-> Aged(rows[t])] /\ issued' = issued
      /\ \A s \in Session : /\ txn'[s].op = txn[s].op
                            /\ txn'[s].token = txn[s].token
                            /\ txn'[s].writes = aged(s)
                            /\ txn'[s] = later(s)
  BY <1>0
<1>2. Aged(Null) = Null
  BY DEF Aged, HasLeaseLeft, Running
<1>3. ASSUME NEW r \in Row \cup {Null}, r # Null => SatisfiesChecks(r)
      PROVE  /\ Aged(r) = Null <=> r = Null
             /\ Aged(r) \in Row \cup {Null}
             /\ r # Null =>
                  /\ SatisfiesChecks(Aged(r))
                  /\ Aged(r).status = r.status
                  /\ Aged(r).attempts = r.attempts
                  /\ Aged(r).lease_token = r.lease_token
                  /\ Aged(r).error_code = r.error_code
             /\ Queued(Aged(r)) <=> Queued(r)
             /\ Running(Aged(r)) <=> Running(r)
             /\ Expired(r) => Aged(r) = r
             /\ ~Running(r) => Aged(r) = r
             /\ r # Null => \A c : GivenUp(Aged(r), c) = GivenUp(r, c)
  <2>1. CASE r = Null
    BY <1>2, <2>1 DEF Queued, Running, Expired, HasLease
  <2>2. CASE r # Null
    <3>1. r \in Row
      BY <2>2
    <3>2. Aged(r) \in Row /\ Aged(r) # Null
      BY <1>3, <2>2, <3>1, AgedRowOK, RowAssumption
    <3> QED
      BY <1>3, <2>2, <3>1, <3>2, AgedRowOK DEF Queued, Running
  <2> QED
    BY <2>1, <2>2
<1>4. ASSUME NEW t \in TaskId
      PROVE  /\ rows[t] \in Row \cup {Null}
             /\ rows[t] # Null => SatisfiesChecks(rows[t])
             /\ rows'[t] = Aged(rows[t])
  BY <1>1 DEF QueueIInv, QueueTypeOK, ConstraintsHold
<1>5. ASSUME NEW s \in Session, NEW t \in TaskId
      PROVE  /\ txn[s].writes[t] \in Row \cup {Null}
             /\ txn[s].writes[t] # Null => SatisfiesChecks(txn[s].writes[t])
             /\ txn'[s].writes[t] = Aged(txn[s].writes[t])
             /\ Writes(s, t)' <=> Writes(s, t)
  <2>1. /\ txn[s].writes[t] \in Row \cup {Null}
        /\ txn[s].writes[t] # Null => SatisfiesChecks(txn[s].writes[t])
    BY DEF QueueIInv, QueueTypeOK, ConstraintsHold, Writes, Transaction
  <2>2. txn'[s].writes[t] = Aged(txn[s].writes[t])
    <3>1. txn'[s].writes = aged(s)
      BY <1>1
    <3> QED
      BY <3>1
  <2>3. Aged(txn[s].writes[t]) = Null <=> txn[s].writes[t] = Null
    BY <1>3, <2>1
  <2> HIDE DEF aged, later
  <2> QED
    BY <2>1, <2>2, <2>3 DEF Writes
<1>6. QueueTypeOK'
  <2>1. rows' \in [TaskId -> Row \cup {Null}]
    BY <1>1, <1>3, <1>4
  <2>2. txn' \in [Session -> Transaction]
    <3>1. ASSUME NEW s \in Session
          PROVE  later(s) \in Transaction
      <4>1. txn[s].op \in Op /\ txn[s].token \in Token \cup {Null}
        BY DEF QueueIInv, QueueTypeOK, Transaction
      <4>2. aged(s) \in [TaskId -> Row \cup {Null}]
        BY <1>3, <1>5
      <4> QED
        BY <4>1, <4>2 DEF Transaction
    <3> QED
      BY <1>0, <3>1
  <2> QED
    BY <1>1, <2>1, <2>2 DEF QueueIInv, QueueTypeOK
<1>7. ConstraintsHold'
  BY <1>3, <1>4, <1>5 DEF ConstraintsHold, Writes
<1>8. RowLocks'
  BY <1>5 DEF QueueIInv, RowLocks
<1>9. NoLostUpdate'
  <2> SUFFICES ASSUME NEW s \in Session, NEW t \in TaskId, Writes(s, t)
               PROVE  CorrectWrite(txn[s].op, txn[s].token, Aged(rows[t]),
                                   Aged(txn[s].writes[t]))
    BY <1>1, <1>4, <1>5 DEF NoLostUpdate
  <2> DEFINE old == rows[t]  new == txn[s].writes[t]
             op == txn[s].op  token == txn[s].token
  <2>1. CorrectWrite(op, token, old, new) /\ new # Null
    BY DEF QueueIInv, NoLostUpdate, Writes
  <2>2. /\ Aged(old) = Null <=> old = Null
        /\ old # Null => /\ Aged(old).attempts = old.attempts
                         /\ Aged(old).lease_token = old.lease_token
                         /\ \A c : GivenUp(Aged(old), c) = GivenUp(old, c)
        /\ Queued(Aged(old)) <=> Queued(old)
        /\ Running(Aged(old)) <=> Running(old)
        /\ Expired(old) => Aged(old) = old
    BY <1>3, <1>4
  <2>3. /\ Aged(new).attempts = new.attempts
        /\ Aged(new).lease_token = new.lease_token
        /\ Aged(new).status = new.status
        /\ Queued(Aged(new)) <=> Queued(new)
        /\ Running(Aged(new)) <=> Running(new)
        /\ ~Running(new) => Aged(new) = new
    BY <1>3, <1>5, <2>1
  <2>4. op \in {"recover", "fail"} => ~Running(new)
    BY WriteFacts DEF Running, Queued
  <2>5. op \in Op
    BY DEF QueueIInv, QueueTypeOK, Transaction
  <2> QED
    BY AgedWrite, <2>1, <2>2, <2>3, <2>4, <2>5
<1>10. AttemptBudget' /\ FiniteHistory'
  <2>1. \A t \in TaskId : rows[t] # Null =>
          /\ rows'[t] # Null /\ rows'[t].attempts = rows[t].attempts
          /\ rows'[t].status = rows[t].status
          /\ Queued(rows[t])' <=> Queued(rows[t])
    BY <1>3, <1>4
  <2>2. \A t \in TaskId : rows[t] = Null => rows'[t] = Null
    BY <1>2, <1>4
  <2> QED
    BY <1>1, <2>1, <2>2 DEF QueueIInv, AttemptBudget, FiniteHistory
<1>11. IdleIsEmpty'
  <2> SUFFICES ASSUME NEW s \in Session, Idle(s)' PROVE txn'[s] = NoTxn
    BY DEF IdleIsEmpty
  <2>1. txn[s] = NoTxn
    BY <1>1 DEF QueueIInv, IdleIsEmpty, Idle
  <2> QED
    BY <1>1, <1>2, <2>1 DEF NoTxn, NoWrites
<1>12. CleanRows'
  <2>1. \A t \in TaskId : Queued(rows'[t]) \/ Running(rows'[t]) =>
          /\ Queued(rows[t]) \/ Running(rows[t])
          /\ rows'[t].error_code = rows[t].error_code
    BY <1>3, <1>4 DEF Queued, Running
  <2>2. \A s \in Session, t \in TaskId : Writes(s, t) =>
          LET new == txn[s].writes[t]  new2 == txn'[s].writes[t]
          IN  Queued(new2) \/ Running(new2) =>
                (Queued(new) \/ Running(new)) /\ new2.error_code = new.error_code
    BY <1>3, <1>5 DEF Queued, Running
  <2> QED
    BY <1>5, <2>1, <2>2 DEF QueueIInv, CleanRows
<1>13. FreshPending'
  <2>1. /\ issued' = issued
        /\ \A s \in Session : txn'[s].op = txn[s].op /\ txn'[s].token = txn[s].token
    BY <1>1
  <2>2. FreshPending
    BY DEF QueueIInv
  <2> QED
    BY ONLY <2>1, <2>2 DEF FreshPending
<1> QED
  BY <1>6, <1>7, <1>8, <1>9, <1>10, <1>11, <1>12, <1>13 DEF QueueIInv

LEMMA NextIInv ==
  ASSUME QueueIInv, [QueueNext]_queueVars
  PROVE  QueueIInv'
<1>1. CASE UNCHANGED queueVars
  BY <1>1 DEF queueVars, QueueIInv, QueueTypeOK, ConstraintsHold, RowLocks,
     NoLostUpdate, AttemptBudget, IdleIsEmpty, CleanRows, FreshPending,
     FiniteHistory, Writes, Idle
<1>2. ASSUME NEW s \in Session, Operation(s) PROVE QueueIInv'
  BY <1>2, InsertIInv, ClaimIInv, RecoverIInv, CompleteIInv, FailIInv,
     CommitIInv, AbortIInv DEF Operation
<1> QED
  BY <1>1, <1>2, TickIInv DEF QueueNext

(* The invariant of the queue: every reachable state satisfies it.         *)
THEOREM QueueInvariant == QueueSpec => []QueueIInv
BY InitIInv, NextIInv, PTL DEF QueueSpec

(* Every reachable state of the queue is well typed.                       *)
THEOREM QueueTypeCorrect == QueueSpec => []QueueTypeOK
<1>1. QueueIInv => QueueTypeOK
  BY DEF QueueIInv
<1> QED
  BY <1>1, QueueInvariant, PTL

(* No operation of app/tasks.py ever writes, or is about to write, a row   *)
(* that a CHECK constraint of app/models.py rejects.                       *)
THEOREM WritesSatisfyChecks == QueueSpec => []ConstraintsHold
<1>1. QueueIInv => ConstraintsHold
  BY DEF QueueIInv
<1> QED
  BY <1>1, QueueInvariant, PTL

(* Concurrent transactions never write the same task: the row locks of     *)
(* PostgreSQL, as the statements of app/tasks.py take them.                *)
THEOREM LocksAreExclusive == QueueSpec => []RowLocks
<1>1. QueueIInv => RowLocks
  BY DEF QueueIInv
<1> QED
  BY <1>1, QueueInvariant, PTL

(* What a transaction of app/tasks.py is about to write still follows the  *)
(* row it replaces when it commits.                                        *)
THEOREM TransactionsAreIsolated == QueueSpec => []NoLostUpdate
<1>1. QueueIInv => NoLostUpdate
  BY DEF QueueIInv
<1> QED
  BY <1>1, QueueInvariant, PTL

(* Every committed claim is counted once, and only attempts decide whether *)
(* a task is retried or fails.                                             *)
THEOREM AttemptsAreBudgeted == QueueSpec => []AttemptBudget
<1>1. QueueIInv => AttemptBudget
  BY DEF QueueIInv
<1> QED
  BY <1>1, QueueInvariant, PTL
-----------------------------------------------------------------------------
(* What a step may do to a row.                                            *)

(* A step leaves a task alone, ages its row, or commits a write to it.     *)
LEMMA RowStep ==
  ASSUME QueueIInv, [QueueNext]_queueVars, NEW t \in TaskId
  PROVE  \/ rows'[t] = rows[t] /\ issued'[t] = issued[t]
         \/ rows'[t] = Aged(rows[t]) /\ issued'[t] = issued[t]
         \/ \E s \in Session :
              /\ Writes(s, t) /\ rows'[t] = txn[s].writes[t]
              /\ issued'[t] = IF txn[s].op = "claim"
                              THEN issued[t] \cup {txn[s].token} ELSE issued[t]
<1>1. CASE UNCHANGED queueVars
  BY <1>1 DEF queueVars
<1>2. CASE Tick
  BY <1>2 DEF Tick
<1>3. ASSUME NEW s \in Session, Operation(s), ~Commit(s)
      PROVE  rows' = rows /\ issued' = issued
  BY <1>3 DEF Operation, InsertBegin, ClaimBegin, RecoverBegin, CompleteBegin,
              FailBegin, GuardedUpdate, Begin, Abort
<1>4. ASSUME NEW s \in Session, Commit(s)
      PROVE  /\ rows'[t] = IF Writes(s, t) THEN txn[s].writes[t] ELSE rows[t]
             /\ issued'[t] = IF txn[s].op = "claim" /\ Writes(s, t)
                             THEN issued[t] \cup {txn[s].token} ELSE issued[t]
  BY <1>4 DEF Commit
<1> QED
  BY <1>1, <1>2, <1>3, <1>4 DEF QueueNext

(* Ageing keeps everything of a row that another session may depend on.    *)
LEMMA AgedStep ==
  ASSUME QueueIInv, NEW t \in TaskId
  PROVE  /\ rows[t] = Null => Aged(rows[t]) = Null
         /\ rows[t] # Null =>
              /\ rows[t] \in Row /\ SatisfiesChecks(rows[t])
              /\ Aged(rows[t]) \in Row
              /\ Aged(rows[t]).status = rows[t].status
              /\ Aged(rows[t]).attempts = rows[t].attempts
              /\ Aged(rows[t]).lease_token = rows[t].lease_token
              /\ VerdictOf(Aged(rows[t])) = VerdictOf(rows[t])
         /\ Running(Aged(rows[t])) <=> Running(rows[t])
         /\ ~Running(rows[t]) => Aged(rows[t]) = rows[t]
<1>1. CASE rows[t] = Null
  BY <1>1 DEF Aged, HasLeaseLeft, Running
<1>2. CASE rows[t] # Null
  <2>1. rows[t] \in Row /\ SatisfiesChecks(rows[t])
    BY <1>2 DEF QueueIInv, QueueTypeOK, ConstraintsHold
  <2> QED
    BY <1>2, <2>1, AgedRowOK, RowAssumption DEF Running
<1> QED
  BY <1>1, <1>2

(* A finished task never changes again, whatever any session sends.        *)
THEOREM ResultsAreFinal == QueueSpec => FinalIsForever
<1>1. ASSUME QueueIInv, [QueueNext]_queueVars, NEW t \in TaskId, Final(rows[t])
      PROVE  rows'[t] = rows[t]
  <2>1. ~Running(rows[t]) /\ ~Queued(rows[t]) /\ rows[t] # Null
    BY <1>1 DEF Final, Running, Queued
  <2>2. \A s \in Session : ~Writes(s, t)
    BY <1>1, <2>1, WriteFacts
  <2> QED
    BY <1>1, <2>1, <2>2, RowStep, AgedStep
<1>2. QueueIInv /\ [QueueNext]_queueVars => [FinalStep]_queueVars
  BY <1>1 DEF FinalStep
<1> QED
  BY <1>2, QueueInvariant, PTL DEF QueueSpec, FinalIsForever

(* An attempt whose lease lasts is ended by the holder of its token only.  *)
THEOREM AttemptsAreExclusive == QueueSpec => LeaseIsExclusive
<1>1. ASSUME QueueIInv, [QueueNext]_queueVars, NEW t \in TaskId,
             Running(rows[t]),
             ~(Running(rows'[t]) /\ rows'[t].lease_token = rows[t].lease_token)
      PROVE  \/ Expired(rows[t])
             \/ \E s \in Session : /\ txn[s].op \in {"complete", "fail"}
                                   /\ txn[s].token = rows[t].lease_token
                                   /\ Writes(s, t)
  <2>1. rows'[t] # rows[t] /\ rows'[t] # Aged(rows[t])
    BY <1>1, AgedStep DEF Running
  <2>2. PICK s \in Session : Writes(s, t)
    BY <1>1, <2>1, RowStep
  <2> QED
    BY <1>1, <2>2, WriteFacts DEF Running, Queued
<1>2. QueueIInv /\ [QueueNext]_queueVars => [ExclusiveStep]_queueVars
  BY <1>1 DEF ExclusiveStep, Guards
<1> QED
  BY <1>2, QueueInvariant, PTL DEF QueueSpec, LeaseIsExclusive

(* A token that has stopped guarding its task never guards it again.       *)
THEOREM TokensFence == QueueSpec => StaleForever
<1>1. ASSUME QueueIInv, [QueueNext]_queueVars, NEW t \in TaskId,
             NEW token \in issued[t],
             ~(Running(rows[t]) /\ rows[t].lease_token = token)
      PROVE  ~(Running(rows'[t]) /\ rows'[t].lease_token = token)
  <2>1. CASE rows'[t] = rows[t]
    BY <1>1, <2>1
  <2>2. CASE rows'[t] = Aged(rows[t])
    BY <1>1, <2>2, AgedStep DEF Running
  <2>3. ASSUME NEW s \in Session, Writes(s, t), rows'[t] = txn[s].writes[t]
        PROVE  ~(Running(rows'[t]) /\ rows'[t].lease_token = token)
    <3>1. txn[s].op = "claim" => txn[s].token # token
      BY <1>1, <2>3 DEF QueueIInv, FreshPending
    <3> QED
      BY <1>1, <2>3, <3>1, WriteFacts DEF Running, Queued
  <2> QED
    BY <1>1, <2>1, <2>2, <2>3, RowStep
<1>2. QueueIInv /\ [QueueNext]_queueVars => [FencingStep]_queueVars
  BY <1>1 DEF FencingStep, Guards
<1> QED
  BY <1>2, QueueInvariant, PTL DEF QueueSpec, StaleForever
-----------------------------------------------------------------------------
(* Every task wears out.                                                   *)

(* No lease, stored or about to be stored, is longer than claim_one sets.  *)
LeaseIsShort(r) == Running(r) => r.lease \in 0 .. LeaseTicks

LeaseBound ==
  \A t \in TaskId : /\ LeaseIsShort(rows[t])
                    /\ \A s \in Session : LeaseIsShort(txn[s].writes[t])

LEMMA NullIsShort == LeaseIsShort(Null)
BY DEF LeaseIsShort, Running

(* A tick makes no lease longer.                                           *)
LEMMA AgedIsShort ==
  ASSUME NEW r \in Row \cup {Null}, r # Null => SatisfiesChecks(r),
         LeaseIsShort(r)
  PROVE  LeaseIsShort(Aged(r))
<1>1. CASE HasLeaseLeft(r)
  <2>1. /\ r \in Row /\ Running(r) /\ r.lease > 0 /\ r.lease \in 0 .. LeaseTicks
    BY <1>1 DEF HasLeaseLeft, Running, LeaseIsShort
  <2>2. Aged(r).lease = r.lease - 1
    BY <1>1, <2>1, AgedRowOK DEF Running
  <2> QED
    BY <2>1, <2>2, RowAssumption DEF LeaseIsShort
<1>2. CASE ~HasLeaseLeft(r)
  BY <1>2 DEF Aged
<1> QED
  BY <1>1, <1>2

LEMMA InitLeaseBound == QueueInit => LeaseBound
BY NullIsShort, EmptyTxn DEF QueueInit, LeaseBound

(* What a session writes when it opens a transaction.                      *)
LEMMA BeginLeaseBound ==
  ASSUME QueueIInv, LeaseBound, NEW s \in Session, NEW op, NEW token, NEW writes,
         Begin(s, op, token, writes),
         \A t \in TaskId : LeaseIsShort(writes[t])
  PROVE  LeaseBound'
<1>1. /\ rows' = rows /\ txn \in [Session -> Transaction]
      /\ txn' = [txn EXCEPT ![s] = [op |-> op, token |-> token, writes |-> writes]]
  BY DEF Begin, QueueIInv, QueueTypeOK
<1>2. txn'[s].writes = writes /\ \A x \in Session \ {s} : txn'[x] = txn[x]
  BY <1>1
<1> QED
  BY <1>1, <1>2 DEF LeaseBound, LeaseIsShort

LEMMA GuardedLeaseBound ==
  ASSUME QueueIInv, LeaseBound, NEW s \in Session, NEW t \in TaskId, NEW token,
         NEW op, NEW row, GuardedUpdate(s, op, t, token, row),
         AttemptGuard(rows[t], token) => LeaseIsShort(row)
  PROVE  LeaseBound'
<1>1. \A u \in TaskId : LeaseIsShort(NoWrites[u])
  BY NullIsShort DEF NoWrites
<1>2. LeaseIsShort(row) =>
        \A u \in TaskId : LeaseIsShort([NoWrites EXCEPT ![t] = row][u])
  BY NullIsShort DEF NoWrites
<1>3. CASE AttemptGuard(rows[t], token)
           /\ Begin(s, op, token, [NoWrites EXCEPT ![t] = row])
  <2> DEFINE writes == [NoWrites EXCEPT ![t] = row]
  <2>1. Begin(s, op, token, writes) /\ \A u \in TaskId : LeaseIsShort(writes[u])
    BY <1>2, <1>3
  <2> HIDE DEF writes
  <2> QED
    BY <2>1, BeginLeaseBound
<1>4. CASE Begin(s, op, token, NoWrites)
  BY <1>1, <1>4, BeginLeaseBound
<1> QED
  BY <1>3, <1>4 DEF GuardedUpdate

LEMMA NextLeaseBound ==
  ASSUME QueueIInv, LeaseBound, [QueueNext]_queueVars
  PROVE  LeaseBound'
<1>1. ASSUME NEW s \in Session, NEW t \in TaskId, InsertBegin(s, t)
      PROVE  LeaseBound'
  <2>1. PICK stamp \in 0 .. MaxStamp :
          Begin(s, "insert", Null, [NoWrites EXCEPT ![t] = NewRow(stamp)])
    BY <1>1 DEF InsertBegin
  <2> DEFINE writes == [NoWrites EXCEPT ![t] = NewRow(stamp)]
  <2>2. LeaseIsShort(NewRow(stamp))
    BY NewRowOK DEF LeaseIsShort, Running, Queued
  <2>3. \A u \in TaskId : LeaseIsShort(writes[u])
    BY <2>2, NullIsShort DEF NoWrites
  <2>4. Begin(s, "insert", Null, writes)
    BY <2>1
  <2> HIDE DEF writes
  <2> QED
    BY <2>3, <2>4, BeginLeaseBound
<1>2. ASSUME NEW s \in Session, ClaimBegin(s)
      PROVE  LeaseBound'
  <2>1. PICK t \in Available, token \in FreshTokens :
          Begin(s, "claim", token, [NoWrites EXCEPT ![t] = Claimed(rows[t], token)])
    BY <1>2 DEF ClaimBegin
  <2> DEFINE writes == [NoWrites EXCEPT ![t] = Claimed(rows[t], token)]
  <2>2. t \in TaskId /\ Queued(rows[t]) /\ token \in Token
    BY DEF Available, FreshTokens
  <2>3. rows[t] \in Row /\ SatisfiesChecks(rows[t]) /\ rows[t].attempts < MaxAttempts
    BY <2>2 DEF QueueIInv, QueueTypeOK, ConstraintsHold, AttemptBudget, Queued
  <2>4. LeaseIsShort(Claimed(rows[t], token))
    BY <2>2, <2>3, ClaimedOK, RowAssumption DEF LeaseIsShort
  <2>5. \A u \in TaskId : LeaseIsShort(writes[u])
    BY <2>2, <2>4, NullIsShort DEF NoWrites
  <2>6. Begin(s, "claim", token, writes)
    BY <2>1
  <2> HIDE DEF writes
  <2> QED
    BY <2>5, <2>6, BeginLeaseBound
<1>3. ASSUME NEW s \in Session, RecoverBegin(s)
      PROVE  LeaseBound'
  <2> DEFINE writes == [t \in TaskId |-> IF t \in Recoverable
                                         THEN GivenUp(rows[t], LeaseExpired) ELSE Null]
  <2>1. ASSUME NEW t \in Recoverable PROVE LeaseIsShort(GivenUp(rows[t], LeaseExpired))
    <3>1. t \in TaskId /\ Running(rows[t])
      BY DEF Recoverable, Expired, HasLease
    <3>2. rows[t] \in Row /\ SatisfiesChecks(rows[t]) /\ LeaseExpired \in ErrorCode
      BY <3>1 DEF QueueIInv, QueueTypeOK, ConstraintsHold, Running, ErrorCode
    <3> QED
      BY <3>1, <3>2, GivenUpOK DEF LeaseIsShort
  <2>2. \A t \in TaskId : LeaseIsShort(writes[t])
    BY <2>1, NullIsShort
  <2>3. Begin(s, "recover", Null, writes)
    BY <1>3 DEF RecoverBegin
  <2> HIDE DEF writes
  <2> QED
    BY <2>2, <2>3, BeginLeaseBound
<1>4. ASSUME NEW s \in Session, NEW t \in TaskId, NEW token \in Token,
             NEW o \in Outcome, CompleteBegin(s, t, token, o)
      PROVE  LeaseBound'
  <2>1. AttemptGuard(rows[t], token) => LeaseIsShort(CompletedRow(rows[t], o))
    BY <1>4, GuardedRow, CompletedRowOK, QueueAssumption
       DEF CompleteBegin, LeaseIsShort, Running
  <2> QED
    BY <1>4, <2>1, GuardedLeaseBound DEF CompleteBegin
<1>5. ASSUME NEW s \in Session, NEW t \in TaskId, NEW token \in Token,
             NEW c \in EngineCode, FailBegin(s, t, token, c)
      PROVE  LeaseBound'
  <2>1. AttemptGuard(rows[t], token) => LeaseIsShort(GivenUp(rows[t], c))
    BY GuardedRow, GivenUpOK DEF LeaseIsShort, ErrorCode
  <2> QED
    BY <1>5, <2>1, GuardedLeaseBound DEF FailBegin
<1>6. ASSUME NEW s \in Session, Commit(s) PROVE LeaseBound'
  <2>1. /\ \A t \in TaskId :
             rows'[t] = IF Writes(s, t) THEN txn[s].writes[t] ELSE rows[t]
        /\ txn'[s] = NoTxn /\ \A x \in Session \ {s} : txn'[x] = txn[x]
    BY <1>6, EmptyTxn DEF Commit, QueueIInv, QueueTypeOK
  <2> QED
    BY <2>1, NullIsShort, EmptyTxn DEF LeaseBound, LeaseIsShort
<1>7. ASSUME NEW s \in Session, Abort(s) PROVE LeaseBound'
  <2>1. /\ rows' = rows
        /\ txn'[s] = NoTxn /\ \A x \in Session \ {s} : txn'[x] = txn[x]
    BY <1>7, EmptyTxn DEF Abort, QueueIInv, QueueTypeOK
  <2> QED
    BY <2>1, NullIsShort, EmptyTxn DEF LeaseBound, LeaseIsShort
<1>8. CASE Tick
  <2>1. \A t \in TaskId : LeaseIsShort(Aged(rows[t]))
    BY AgedIsShort DEF QueueIInv, QueueTypeOK, ConstraintsHold, LeaseBound
  <2>2. ASSUME NEW s \in Session, NEW t \in TaskId
        PROVE  LeaseIsShort(Aged(txn[s].writes[t]))
    <3>1. /\ txn[s].writes[t] \in Row \cup {Null}
          /\ txn[s].writes[t] # Null => SatisfiesChecks(txn[s].writes[t])
          /\ LeaseIsShort(txn[s].writes[t])
      BY DEF QueueIInv, QueueTypeOK, ConstraintsHold, Writes, Transaction, LeaseBound
    <3> QED
      BY <3>1, AgedIsShort
  <2>3. /\ \A t \in TaskId : rows'[t] = Aged(rows[t])
        /\ \A s \in Session, t \in TaskId :
             txn'[s].writes[t] = Aged(txn[s].writes[t])
    BY <1>8 DEF Tick
  <2> QED
    BY <2>1, <2>2, <2>3 DEF LeaseBound, LeaseIsShort
<1>9. CASE UNCHANGED queueVars
  BY <1>9 DEF queueVars, LeaseBound, LeaseIsShort
<1> QED
  BY <1>1, <1>2, <1>3, <1>4, <1>5, <1>6, <1>7, <1>8, <1>9 DEF QueueNext, Operation

(* No running task ever has more lease left than claim_one gave it.        *)
THEOREM LeasesAreBounded == QueueSpec => []LeaseBound
<1>1. QueueIInv /\ LeaseBound /\ [QueueNext]_queueVars => LeaseBound'
  BY NextLeaseBound
<1> QED
  BY <1>1, InitLeaseBound, QueueInvariant, PTL DEF QueueSpec

(* An attempt weighs more than the lease it may hold.                      *)
LEMMA AttemptWeighs ==
  ASSUME NEW left \in Nat, NEW lease \in Nat
  PROVE  /\ (left + 1) * (lease + 2) = left * (lease + 2) + lease + 2
         /\ left * (lease + 2) \in Nat
<1> DEFINE weight == lease + 2
<1>1. weight \in Nat
  OBVIOUS
<1> HIDE DEF weight
<1>2. (left + 1) * weight = left * weight + weight /\ left * weight \in Nat
  BY <1>1
<1> QED
  BY <1>2 DEF weight

(* Every change of a row brings its task nearer to its end.                *)
THEOREM TasksAreBounded == QueueSpec => TasksWearOut
<1>1. ASSUME QueueIInv, LeaseBound, [QueueNext]_queueVars, NEW t \in TaskId,
             rows[t] # Null, rows'[t] # rows[t]
      PROVE  Remaining(rows'[t]) \in 0 .. (Remaining(rows[t]) - 1)
  <2> DEFINE old == rows[t]  new == rows'[t]
             weight(r) == (MaxAttempts - r.attempts) * (LeaseTicks + 2)
             left(r) == MaxAttempts - r.attempts
  <2>1. /\ LeaseTicks \in Nat /\ MaxAttempts \in Nat
    BY RowAssumption
  <2>2. old \in Row /\ SatisfiesChecks(old)
    BY <1>1 DEF QueueIInv, QueueTypeOK, ConstraintsHold
  <2>3. ASSUME NEW r \in Row, SatisfiesChecks(r), ~Final(r)
        PROVE  /\ left(r) \in Nat /\ weight(r) \in Nat
               /\ ~Running(r) => Remaining(r) = weight(r) + 1
               /\ Running(r) => Remaining(r) = weight(r) + r.lease + 2
               /\ Running(r) => r.lease \in Nat
    <3>1. left(r) \in Nat
      BY <2>1, <2>3 DEF SatisfiesChecks, Row
    <3> HIDE DEF left
    <3>2. left(r) * (LeaseTicks + 2) \in Nat
      BY <2>1, <3>1, AttemptWeighs
    <3>3. weight(r) \in Nat
      BY <3>2 DEF left
    <3>4. Running(r) => r.lease \in Nat
      BY <2>3 DEF SatisfiesChecks, Leased, Running, Row
    <3> HIDE DEF weight
    <3>5. Remaining(r) = weight(r) + 1 + (IF Running(r) THEN r.lease + 1 ELSE 0)
      BY <2>3 DEF Remaining, weight
    <3> QED
      BY <3>1, <3>3, <3>4, <3>5
  <2>4. CASE new = Aged(old)
    <3>1. HasLeaseLeft(old) /\ Running(old) /\ ~Final(old) /\ old.lease > 0
      BY <1>1, <2>4 DEF Aged, HasLeaseLeft, Running, Final
    <3>2. /\ new \in Row /\ SatisfiesChecks(new) /\ Running(new) /\ ~Final(new)
          /\ weight(new) = weight(old) /\ new.lease = old.lease - 1
      BY <2>2, <2>4, <3>1, AgedRowOK, RowAssumption DEF Running, Final
    <3> HIDE DEF weight, left
    <3>3. /\ Remaining(old) = weight(old) + old.lease + 2
          /\ Remaining(new) = weight(old) + new.lease + 2
          /\ weight(old) \in Nat /\ old.lease \in Nat /\ new.lease \in Nat
      BY <2>2, <2>3, <3>1, <3>2
    <3> HIDE DEF old, new
    <3> QED
      BY <3>1, <3>2, <3>3 DEF old, new
  <2>5. ASSUME NEW s \in Session, Writes(s, t), new = txn[s].writes[t]
        PROVE  Remaining(new) \in 0 .. (Remaining(old) - 1)
    <3>1. /\ new \in Row /\ SatisfiesChecks(new) /\ LeaseIsShort(new)
          /\ \/ /\ Queued(old) /\ Running(new)
                /\ new.attempts = old.attempts + 1
             \/ /\ Running(old) /\ new.attempts = old.attempts
                /\ Queued(new) \/ new.status \in {"failed", "completed"}
      BY <1>1, <2>5, WriteFacts DEF LeaseBound
    <3>2. CASE Queued(old) /\ Running(new) /\ new.attempts = old.attempts + 1
      <4>1. ~Final(old) /\ ~Final(new) /\ ~Running(old)
        BY <3>2 DEF Queued, Running, Final
      <4>2. left(old) = left(new) + 1 /\ left(new) \in Nat
        BY <2>1, <2>2, <2>3, <3>1, <3>2, <4>1 DEF Row
      <4>3. /\ weight(old) = left(old) * (LeaseTicks + 2)
            /\ weight(new) = left(new) * (LeaseTicks + 2)
        OBVIOUS
      <4> HIDE DEF weight, left
      <4>4. weight(old) = weight(new) + LeaseTicks + 2
        BY <2>1, <4>2, <4>3, AttemptWeighs
      <4>5. /\ Remaining(old) = weight(old) + 1
            /\ Remaining(new) = weight(new) + new.lease + 2
            /\ weight(old) \in Nat /\ weight(new) \in Nat
            /\ new.lease \in 0 .. LeaseTicks
        BY <2>2, <2>3, <3>1, <3>2, <4>1 DEF LeaseIsShort
      <4> HIDE DEF old, new
      <4> QED
        BY <2>1, <4>4, <4>5
    <3>3. CASE Running(old) /\ new.attempts = old.attempts /\ Queued(new)
      <4>1. ~Final(old) /\ ~Final(new) /\ ~Running(new) /\ weight(new) = weight(old)
        BY <3>3 DEF Queued, Running, Final
      <4> HIDE DEF weight, left
      <4>2. /\ Remaining(old) = weight(old) + old.lease + 2
            /\ Remaining(new) = weight(old) + 1
            /\ weight(old) \in Nat /\ old.lease \in Nat
        BY <2>2, <2>3, <3>1, <3>3, <4>1
      <4> HIDE DEF old, new
      <4> QED
        BY <4>2
    <3>4. CASE Running(old) /\ new.status \in {"failed", "completed"}
      <4>1. Final(new) /\ ~Final(old)
        BY <2>5, <3>4 DEF Running, Final, Writes
      <4> HIDE DEF weight, left
      <4>2. /\ Remaining(old) = weight(old) + old.lease + 2
            /\ weight(old) \in Nat /\ old.lease \in Nat
        BY <2>2, <2>3, <3>4, <4>1
      <4>3. Remaining(new) = 0
        BY <4>1 DEF Remaining
      <4> HIDE DEF old, new
      <4> QED
        BY <4>2, <4>3
    <3> QED
      BY <3>1, <3>2, <3>3, <3>4
  <2> QED
    BY <1>1, <2>4, <2>5, RowStep
<1>2. QueueIInv /\ LeaseBound /\ [QueueNext]_queueVars => [WearStep]_queueVars
  BY <1>1 DEF WearStep
<1> QED
  BY <1>2, QueueInvariant, LeasesAreBounded, PTL DEF QueueSpec, TasksWearOut
-----------------------------------------------------------------------------
(* The queue implements the life cycle.                                    *)

(* The queue implements TaskLifecycle: every step of it attempts, gives    *)
(* back, fails or completes tasks only as the life cycle allows.           *)
THEOREM QueueImplementsLifecycle == QueueSpec => LifecycleSpec
<1>1. QueueInit => Lifecycle!Init
  BY DEF QueueInit, Lifecycle!Init, PhaseOf, AttemptsOf, VerdictOf
<1>2. ASSUME QueueIInv, [QueueNext]_queueVars, NEW t \in TaskId
      PROVE  \/ Lifecycle!Steady(t)   \/ Lifecycle!Submit(t)
             \/ Lifecycle!Attempt(t)  \/ Lifecycle!GiveBack(t)
             \/ Lifecycle!Fail(t)     \/ Lifecycle!Complete(t)
  <2> USE DEF PhaseOf, AttemptsOf, Lifecycle!Steady, Lifecycle!Submit, Lifecycle!Attempt,
              Lifecycle!GiveBack, Lifecycle!Fail, Lifecycle!Complete
  <2>1. CASE rows'[t] = rows[t]
    BY <2>1
  <2>2. CASE rows'[t] = Aged(rows[t])
    <3>1. CASE rows[t] = Null
      BY <1>2, <2>2, <3>1, AgedStep
    <3>2. CASE rows[t] # Null
      <4>1. /\ rows'[t] # Null /\ rows'[t].status = rows[t].status
            /\ rows'[t].attempts = rows[t].attempts
            /\ VerdictOf(rows'[t]) = VerdictOf(rows[t])
        BY <1>2, <2>2, <3>2, AgedStep, RowAssumption
      <4> QED
        BY <3>2, <4>1
    <3> QED
      BY <3>1, <3>2
  <2>3. ASSUME NEW s \in Session, Writes(s, t), rows'[t] = txn[s].writes[t]
        PROVE  \/ Lifecycle!Submit(t)   \/ Lifecycle!Attempt(t)
               \/ Lifecycle!GiveBack(t) \/ Lifecycle!Fail(t)
               \/ Lifecycle!Complete(t)
    <3> DEFINE old == rows[t]  new == txn[s].writes[t]
    <3>1. /\ new \in Row /\ SatisfiesChecks(new) /\ new # Null
          /\ new.status \in {"queued", "running"} => new.error_code = Null
      BY <1>2, <2>3, WriteFacts DEF Writes, QueueIInv, CleanRows, Queued, Running
    <3>2. old # Null =>
            /\ old \in Row /\ SatisfiesChecks(old)
            /\ old.status \in {"queued", "running"} => old.error_code = Null
            /\ Queued(old) => old.attempts < MaxAttempts
      BY <1>2 DEF QueueIInv, QueueTypeOK, ConstraintsHold, CleanRows,
                  AttemptBudget, Queued, Running
    <3>3. /\ new.status \in {"queued", "running"} => VerdictOf(new) = NoVerdict
          /\ new.status \in {"completed", "failed"} => VerdictOf(new) \in Verdicts
      BY <3>1, RowVerdict
    <3>4. CASE old = Null /\ Queued(new) /\ new.attempts = 0
      BY <2>3, <3>1, <3>3, <3>4 DEF Queued
    <3>5. CASE /\ Queued(old) /\ Running(new)
               /\ new.attempts = old.attempts + 1
      BY <2>3, <3>1, <3>2, <3>3, <3>5 DEF Queued, Running
    <3>6. CASE Running(old) /\ new.attempts = old.attempts /\ Queued(new)
               /\ new.attempts < MaxAttempts
      BY <2>3, <3>1, <3>2, <3>3, <3>6 DEF Queued, Running
    <3>7. CASE Running(old) /\ new.attempts = old.attempts
               /\ new.status = "failed" /\ new.attempts = MaxAttempts
      BY <2>3, <3>1, <3>2, <3>3, <3>7 DEF Running
    <3>8. CASE Running(old) /\ new.attempts = old.attempts
               /\ new.status = "completed"
      BY <2>3, <3>1, <3>2, <3>3, <3>8 DEF Running
    <3> QED
      BY <1>2, <2>3, <3>4, <3>5, <3>6, <3>7, <3>8, WriteFacts
  <2> QED
    BY <1>2, <2>1, <2>2, <2>3, RowStep
<1>3. QueueIInv /\ [QueueNext]_queueVars => [Lifecycle!Next]_Lifecycle!lifecycle
  BY <1>2 DEF Lifecycle!Next
<1> QED
  BY <1>1, <1>3, QueueInvariant, PTL DEF QueueSpec, LifecycleSpec, Lifecycle!Spec
=============================================================================
