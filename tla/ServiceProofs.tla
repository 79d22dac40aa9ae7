--------------------------- MODULE ServiceProofs ---------------------------
(***************************************************************************)
(* Proofs about Service, for any workers, tasks and number of faults.  The *)
(* service is shown to be a client of the queue, so that what is proved of *)
(* TaskQueue holds of it; then come the facts that are about the service.  *)
(***************************************************************************)
EXTENDS Service, TaskQueueProofs

-----------------------------------------------------------------------------
(* Every step of the service is a step of the queue, or none of it.        *)

LEMMA Sessions == /\ \A t \in TaskId : t \in Session /\ t \notin Worker
                  /\ \A w \in Worker : w \in Session /\ w \notin TaskId
BY ServiceAssumption

LEMMA HeldType ==
  ASSUME ServiceTypeOK, NEW w \in Worker, worker[w].held # Null
  PROVE  /\ worker[w].held.id \in TaskId /\ worker[w].held.token \in Token
         /\ worker[w].held.attempts \in Nat
         /\ Holds(w, worker[w].held.id)
<1>1. worker[w].held \in Holding
  BY DEF ServiceTypeOK, WorkerState
<1> QED
  BY <1>1 DEF Holding, Holds

LEMMA BrokenIsQueueStep ==
  ASSUME NEW s \in Session, BrokenTransaction(s)
  PROVE  [QueueNext]_queueVars
BY DEF BrokenTransaction, QueueNext, Operation

LEMMA StepIsQueueStep ==
  ASSUME ServiceTypeOK, BusyWorkers, [ServiceNext]_serviceVars
  PROVE  [QueueNext]_queueVars
<1>1. CASE UNCHANGED serviceVars
  BY <1>1 DEF serviceVars, queueVars
<1>2. ASSUME NEW t \in TaskId, Submit(t) \/ Accept(t) \/ Refuse(t)
      PROVE  [QueueNext]_queueVars
  BY <1>2, Sessions, BrokenIsQueueStep
     DEF Submit, Accept, Refuse, QueueNext, Operation
<1>3. ASSUME NEW w \in Worker,
             Process(w) \/ Raise(w) \/ Stop(w) \/ Crash(w)
      PROVE  [QueueNext]_queueVars
  <2>1. w \in Session
    BY Sessions
  <2>2. CASE \/ NothingToClaim(w) \/ Evaluate(w) \/ Wake(w) \/ Start(w)
             \/ Stop(w)
    BY <2>2 DEF NothingToClaim, Evaluate, Wake, Start, Stop, queueVars
  <2>3. CASE Recover(w) \/ ClaimTask(w)
    BY <2>1, <2>3 DEF Recover, ClaimTask, QueueNext, Operation
  <2>4. CASE Recovered(w) \/ TaskClaimed(w) \/ Persisted(w)
    BY <2>1, <2>4 DEF Recovered, TaskClaimed, Persisted, QueueNext, Operation
  <2>5. CASE Raise(w) \/ Crash(w)
    BY <2>1, <2>5, BrokenIsQueueStep DEF Raise, Crash
  <2>6. CASE Persist(w)
    <3> DEFINE h == worker[w].held  v == worker[w].verdict
    <3>1. h.id \in TaskId /\ h.token \in Token
      BY <2>6, HeldType DEF Persist, BusyWorkers
    <3>2. CASE v \in Result /\ CompleteBegin(w, h.id, h.token, v)
      BY <2>1, <3>1, <3>2 DEF Result, QueueNext, Operation
    <3>3. CASE v \in Failure /\ FailBegin(w, h.id, h.token, v.error)
      <4>1. v.error \in EngineCode
        BY <3>3 DEF Failure
      <4> QED
        BY <2>1, <3>1, <3>3, <4>1 DEF QueueNext, Operation
    <3> QED
      BY <2>6, <3>2, <3>3 DEF Persist
  <2> QED
    BY <1>3, <2>2, <2>3, <2>4, <2>5, <2>6 DEF Process
<1>4. CASE Clock
  BY <1>4 DEF Clock, QueueNext
<1> QED
  BY <1>1, <1>2, <1>3, <1>4 DEF ServiceNext
-----------------------------------------------------------------------------
(* What any step of the queue leaves of a task, for those who hold it.     *)
LEMMA RowHistory ==
  ASSUME QueueIInv, [QueueNext]_queueVars, NEW t \in TaskId
  PROVE  /\ rows[t] # Null => /\ rows'[t] # Null
                              /\ rows[t].attempts \in Nat
                              /\ rows'[t].attempts \in Nat
                              /\ rows[t].attempts <= rows'[t].attempts
         /\ issued[t] \subseteq issued'[t]
         /\ \A token \in issued[t] :
              Guards(token, rows'[t]) => /\ Guards(token, rows[t])
                                         /\ rows'[t].attempts = rows[t].attempts
         /\ Final(rows'[t]) => \/ rows'[t] = rows[t]
                               \/ \E s \in Session : /\ Writes(s, t)
                                                     /\ rows'[t] = txn[s].writes[t]
<1>1. CASE rows'[t] = rows[t] /\ issued'[t] = issued[t]
  <2>1. rows[t] # Null => rows[t] \in Row
    BY DEF QueueIInv, QueueTypeOK
  <2> QED
    BY <1>1, <2>1 DEF Row
<1>2. CASE rows'[t] = Aged(rows[t]) /\ issued'[t] = issued[t]
  <2>1. rows[t] # Null => Aged(rows[t]) # Null
    BY AgedStep, RowAssumption
  <2>2. Final(Aged(rows[t])) => Aged(rows[t]) = rows[t]
    BY AgedStep DEF Final, Running
  <2>3. rows[t] # Null => rows[t].attempts \in Nat
    BY DEF QueueIInv, QueueTypeOK, Row
  <2>4. \A token \in issued[t] : Guards(token, Aged(rows[t])) =>
          Guards(token, rows[t]) /\ Aged(rows[t]).attempts = rows[t].attempts
    BY AgedStep DEF Guards, Running
  <2> QED
    BY <1>2, <2>1, <2>2, <2>3, <2>4, AgedStep
<1>3. ASSUME NEW s \in Session, Writes(s, t), rows'[t] = txn[s].writes[t],
             issued'[t] = IF txn[s].op = "claim"
                          THEN issued[t] \cup {txn[s].token} ELSE issued[t]
      PROVE  /\ rows[t] # Null => /\ rows'[t] # Null
                                  /\ rows[t].attempts \in Nat
                                  /\ rows'[t].attempts \in Nat
                                  /\ rows[t].attempts <= rows'[t].attempts
             /\ \A token \in issued[t] : ~Guards(token, rows'[t])
  <2>1. rows[t] # Null => rows[t].attempts \in Nat
    BY DEF QueueIInv, QueueTypeOK, Row
  <2>2. rows'[t] # Null /\ rows'[t].attempts \in Nat
    BY <1>3, WriteFacts DEF Writes, Row
  <2>3. txn[s].op = "claim" => \A token \in issued[t] : txn[s].token # token
    BY DEF QueueIInv, FreshPending
  <2>4. \A token \in issued[t] : ~Guards(token, rows'[t])
    BY <1>3, <2>3, WriteFacts DEF Guards, Running, Queued
  <2>5. rows[t] # Null => rows[t].attempts <= rows'[t].attempts
    BY <1>3, <2>1, <2>2, WriteFacts
  <2> QED
    BY <2>1, <2>2, <2>4, <2>5
<1> QED
  BY <1>1, <1>2, <1>3, RowStep

(* The other sessions keep their transactions.                             *)
LEMMA OtherTxn ==
  ASSUME QueueIInv, NEW s \in Session, Operation(s) \/ BrokenTransaction(s)
  PROVE  \A x \in Session \ {s} : txn'[x] = txn[x]
<1>1. txn \in [Session -> Transaction]
  BY DEF QueueIInv, QueueTypeOK
<1>2. CASE Commit(s) \/ Abort(s)
  BY <1>1, <1>2 DEF Commit, Abort
<1>3. ASSUME NEW op, NEW token, NEW writes, Begin(s, op, token, writes)
      PROVE  \A x \in Session \ {s} : txn'[x] = txn[x]
  BY <1>1, <1>3 DEF Begin
<1>4. CASE \E t \in TaskId : InsertBegin(s, t)
  BY <1>3, <1>4 DEF InsertBegin
<1>5. CASE ClaimBegin(s) \/ RecoverBegin(s)
  BY <1>3, <1>5 DEF ClaimBegin, RecoverBegin
<1>6. CASE \E t \in TaskId, token \in Token, o \in Outcome :
             CompleteBegin(s, t, token, o)
  BY <1>3, <1>6 DEF CompleteBegin, GuardedUpdate
<1>7. CASE \E t \in TaskId, token \in Token, c \in EngineCode :
             FailBegin(s, t, token, c)
  BY <1>3, <1>7 DEF FailBegin, GuardedUpdate
<1>8. CASE UNCHANGED queueVars
  BY <1>8 DEF queueVars
<1> QED
  BY <1>2, <1>4, <1>5, <1>6, <1>7, <1>8 DEF Operation, BrokenTransaction

(* A session whose transaction has ended writes nothing.                   *)
LEMMA EndedTxn ==
  ASSUME QueueIInv, NEW s \in Session, Commit(s) \/ Abort(s)
  PROVE  /\ txn'[s] = NoTxn /\ \A t \in TaskId : ~Writes(s, t)'
         /\ \A x \in Session \ {s} : txn'[x] = txn[x]
BY EmptyTxn, OtherTxn DEF Commit, Abort, Writes, Operation, QueueIInv, QueueTypeOK
-----------------------------------------------------------------------------
(* What a finished row tells.                                              *)

LEMMA ToldCompleted ==
  ASSUME NEW r \in Row, NEW o \in Result
  PROVE  Told(Payload(CompletedRow(r, o)), o)
<1> DEFINE n == CompletedRow(r, o)
<1>1. o \in Arguments /\ ValidOutcome(o)
  BY QueueAssumption DEF Result
<1>2. /\ n.status = "completed" /\ n.evaluation_cp = o.evaluation_cp
      /\ n.mate_winner = o.mate_winner /\ n.mate_moves = o.mate_moves
  BY DEF CompletedRow, Row
<1>3. o \notin Failure
  <2>1. DOMAIN o = {"evaluation_cp", "mate_winner", "mate_moves"}
    BY <1>1 DEF Arguments
  <2>2. \A f \in Failure : DOMAIN f = {"error"}
    BY DEF Failure
  <2>3. "evaluation_cp" \in DOMAIN o /\ "evaluation_cp" \notin {"error"}
    BY <2>1
  <2> QED
    BY <2>2, <2>3
<1> HIDE DEF n
<1>4. CASE o.evaluation_cp # Null
  <2>1. o.mate_winner = Null /\ o.mate_moves = Null
    BY <1>1, <1>4 DEF ValidOutcome
  <2> QED
    BY <1>2, <1>3, <2>1 DEF Told, Payload, NoMate, n
<1>5. CASE o.evaluation_cp = Null
  <2>1. o.mate_winner # Null
    BY <1>1, <1>5, RowAssumption DEF ValidOutcome
  <2> QED
    BY <1>2, <1>3, <1>5, <2>1 DEF Told, Payload, NoMate, n
<1> QED
  BY <1>4, <1>5

LEMMA ToldFailed ==
  ASSUME NEW r \in Row, NEW v \in Failure
  PROVE  Told(Payload(FailedRow(r, v.error)), v)
<1> DEFINE n == FailedRow(r, v.error)
<1>1. n.status = "failed" /\ n.error_code = v.error
  BY DEF FailedRow, ClearAttempt, Row
<1> QED
  BY <1>1 DEF Told, Payload
-----------------------------------------------------------------------------
(* The parts of the invariant that most steps keep for the same reason.    *)

(* What is known of an attempt in hand stays true while it is in hand.     *)
LEMMA HeldKept ==
  ASSUME ServiceIInv, [QueueNext]_queueVars, NEW w \in Worker, NEW t \in TaskId,
         Holds(w, t)
  PROVE  /\ rows'[t] # Null
         /\ worker[w].held.token \in issued'[t]
         /\ worker[w].held.attempts \in 1 .. rows'[t].attempts
         /\ worker[w].held.attempts \in 1 .. rows[t].attempts
         /\ Guards(worker[w].held.token, rows'[t])
              => worker[w].held.attempts = rows'[t].attempts
<1>1. /\ rows[t] # Null
      /\ worker[w].held.token \in issued[t]
      /\ worker[w].held.attempts \in 1 .. rows[t].attempts
  BY DEF ServiceIInv, HeldClaims
<1>2. Guards(worker[w].held.token, rows[t])
        => worker[w].held.attempts = rows[t].attempts
  BY DEF ServiceIInv, SnapshotAgrees
<1> QED
  BY <1>1, <1>2, RowHistory DEF ServiceIInv

LEMMA ClaimsKept ==
  ASSUME ServiceIInv, [QueueNext]_queueVars,
         \A w \in Worker : worker'[w].held \in {worker[w].held, Null}
  PROVE  HeldClaims' /\ SnapshotAgrees' /\ OneWorkerPerAttempt'
<1>1. \A w \in Worker, t \in TaskId :
        Holds(w, t)' => Holds(w, t) /\ worker'[w].held = worker[w].held
  BY DEF Holds
<1>2. HeldClaims'
  BY <1>1, HeldKept DEF HeldClaims
<1>3. SnapshotAgrees'
  BY <1>1, HeldKept DEF SnapshotAgrees, Guards
<1>4. OneWorkerPerAttempt'
  BY <1>1 DEF ServiceIInv, OneWorkerPerAttempt
<1> QED
  BY <1>2, <1>3, <1>4

(* Finished rows stay honest: they are kept, or an honest write commits.   *)
LEMMA HonestKept ==
  ASSUME ServiceIInv, [QueueNext]_queueVars,
         \A t \in TaskId : evals[t] \subseteq evals'[t]
  PROVE  /\ HonestAnswer'
         /\ \A r : \A t \in TaskId : HonestRow(t, r) => HonestRow(t, r)'
<1>1. ASSUME NEW t \in TaskId, NEW r, HonestRow(t, r)
      PROVE  HonestRow(t, r)'
  BY <1>1 DEF HonestRow
<1>2. ASSUME NEW t \in TaskId, Final(rows'[t])
      PROVE  HonestRow(t, rows'[t])
  BY <1>2, RowHistory DEF ServiceIInv, HonestAnswer, PendingHonest
<1> QED
  BY <1>1, <1>2 DEF HonestAnswer, HonestRow

(* An acknowledged task stays in the table.                                *)
LEMMA DurableKept ==
  ASSUME ServiceIInv, [QueueNext]_queueVars,
         \A t \in TaskId : request'[t] = "accepted" =>
                             request[t] = "accepted" \/ rows'[t] # Null
  PROVE  AcceptedIsDurable'
<1>0. QueueIInv'
  BY NextIInv DEF ServiceIInv
<1>1. ASSUME NEW t \in TaskId, request'[t] = "accepted" PROVE rows'[t] # Null
  <2>1. CASE request[t] = "accepted"
    <3>1. rows[t] # Null
      BY <2>1 DEF ServiceIInv, AcceptedIsDurable, Answer
    <3> QED
      BY <3>1, RowHistory DEF ServiceIInv
  <2> QED
    BY <1>1, <2>1
<1>2. ASSUME NEW t \in TaskId, rows'[t] # Null
      PROVE  Payload(rows'[t]).status # "not found"
  <2>1. rows'[t].status \in Status
    BY <1>0, <1>2 DEF QueueIInv, QueueTypeOK, Row
  <2> QED
    BY <2>1 DEF Payload, Status
<1> QED
  BY <1>1, <1>2 DEF AcceptedIsDurable, Answer

(* What has been evaluated stays claimed.                                  *)
LEMMA EvaluatedKept ==
  ASSUME ServiceIInv, [QueueNext]_queueVars, NEW t \in TaskId, NEW e \in evals[t]
  PROVE  /\ rows'[t] # Null /\ e.attempt <= rows'[t].attempts
         /\ rows[t] # Null /\ e.attempt <= rows[t].attempts /\ e.attempt \in Nat
<1>1. /\ rows[t] # Null /\ e.attempt <= rows[t].attempts /\ e.attempt \in Nat
  BY DEF ServiceIInv, EvaluatedClaims, ServiceTypeOK
<1> QED
  BY <1>1, RowHistory DEF ServiceIInv

(* A step that claims nothing and evaluates nothing keeps the invariant    *)
(* if it keeps the bookkeeping, and adds no write but an honest one.       *)
LEMMA FrameIInv ==
  ASSUME ServiceIInv, [QueueNext]_queueVars,
         ServiceTypeOK', BusyWorkers', OpenInserts', ClaimsOnly', evals' = evals,
         \A w \in Worker : \/ /\ worker'[w].held = worker[w].held
                              /\ At(w, "evaluate")' <=> At(w, "evaluate")
                           \/ worker'[w].held = Null,
         \A t \in TaskId : request'[t] = "accepted" =>
                             request[t] = "accepted" \/ rows'[t] # Null,
         \A s \in Session, t \in TaskId :
           Writes(s, t)' /\ Final(txn'[s].writes[t]) =>
             \/ Writes(s, t) /\ txn'[s].writes[t] = txn[s].writes[t]
             \/ HonestRow(t, txn'[s].writes[t])
  PROVE  ServiceIInv'
<1>1. QueueIInv'
  BY NextIInv DEF ServiceIInv
<1>2. HeldClaims' /\ SnapshotAgrees' /\ OneWorkerPerAttempt'
  BY ClaimsKept
<1>3. OneEvaluationPerAttempt'
  BY DEF ServiceIInv, OneEvaluationPerAttempt
<1>4. HonestAnswer'
  BY HonestKept
<1>5. AcceptedIsDurable'
  BY DurableKept
<1>6. EvaluatedClaims'
  <2>1. ASSUME NEW t \in TaskId, NEW e \in evals[t], NEW w \in Worker,
               Holds(w, t)', At(w, "evaluate")'
        PROVE  worker'[w].held.attempts # e.attempt
    <3>1. Holds(w, t) /\ At(w, "evaluate") /\ worker'[w].held = worker[w].held
      BY <2>1 DEF Holds
    <3> QED
      BY <3>1 DEF ServiceIInv, EvaluatedClaims
  <2> QED
    BY <2>1, EvaluatedKept DEF EvaluatedClaims
<1>7. PendingHonest'
  <2> SUFFICES ASSUME NEW s \in Session, NEW t \in TaskId, Writes(s, t)',
                      Final(txn'[s].writes[t])
               PROVE  HonestRow(t, txn'[s].writes[t])
    BY DEF PendingHonest, HonestRow
  <2> QED
    BY DEF ServiceIInv, PendingHonest
<1> QED
  BY <1>1, <1>2, <1>3, <1>4, <1>5, <1>6, <1>7 DEF ServiceIInv
-----------------------------------------------------------------------------
(* The steps, one by one.                                                  *)

LEMMA ServiceInitIInv == ServiceInit => ServiceIInv
<1> SUFFICES ASSUME ServiceInit PROVE ServiceIInv
  OBVIOUS
<1>1. QueueIInv
  BY InitIInv DEF ServiceInit
<1>2. Down \in WorkerState /\ Down.held = Null /\ Down.pc = "down"
  BY DEF Down, WorkerState, Place
<1>3. ServiceTypeOK
  BY <1>1, <1>2, ServiceAssumption DEF ServiceInit, ServiceTypeOK, QueueIInv
<1>4. /\ \A w \in Worker : worker[w].held = Null /\ worker[w].pc = "down"
      /\ \A t \in TaskId : /\ rows[t] = Null /\ request[t] = "none"
                           /\ evals[t] = {}
      /\ \A s \in Session : txn[s] = NoTxn
  BY <1>2 DEF ServiceInit, QueueInit
<1>5. /\ \A w \in Worker, t \in TaskId : ~Holds(w, t)
      /\ \A s \in Session, t \in TaskId : ~Writes(s, t)
      /\ \A t \in TaskId : ~Final(rows[t])
  BY <1>4, EmptyTxn DEF Holds, Writes, Final
<1>6. SnapshotAgrees /\ OneWorkerPerAttempt /\ HeldClaims
  BY <1>5 DEF SnapshotAgrees, OneWorkerPerAttempt, HeldClaims
<1>7. OneEvaluationPerAttempt /\ EvaluatedClaims
  BY <1>4 DEF OneEvaluationPerAttempt, EvaluatedClaims
<1>8. AcceptedIsDurable /\ HonestAnswer /\ PendingHonest /\ OpenInserts
  BY <1>4, <1>5 DEF AcceptedIsDurable, HonestAnswer, PendingHonest, OpenInserts
<1>9. BusyWorkers /\ ClaimsOnly
  BY <1>4 DEF BusyWorkers, ClaimsOnly, At
<1> QED
  BY <1>1, <1>3, <1>6, <1>7, <1>8, <1>9 DEF ServiceIInv

(* A step that leaves the workers and what they evaluated alone.           *)
LEMMA WorkersKept ==
  ASSUME ServiceIInv, [QueueNext]_queueVars, worker' = worker, evals' = evals,
         request' \in [TaskId -> {"none", "open", "accepted", "refused"}],
         faults' \in 0 .. MaxFaults
  PROVE  ServiceTypeOK' /\ BusyWorkers'
<1>1. QueueIInv'
  BY NextIInv DEF ServiceIInv
<1> QED
  BY <1>1 DEF ServiceIInv, QueueIInv, ServiceTypeOK, BusyWorkers, At

(* A step of a worker that ends in a place where it holds nothing.         *)
LEMMA WorkerFree ==
  ASSUME ServiceIInv, [QueueNext]_queueVars, NEW w \in Worker,
         NEW after \in WorkerState, worker' = [worker EXCEPT ![w] = after],
         after.held = Null, after.pc \notin {"evaluate", "persist"},
         evals' = evals, request' = request, faults' \in 0 .. MaxFaults
  PROVE  /\ ServiceTypeOK' /\ BusyWorkers'
         /\ \A x \in Worker : \/ /\ worker'[x].held = worker[x].held
                                 /\ At(x, "evaluate")' <=> At(x, "evaluate")
                              \/ worker'[x].held = Null
<1>1. QueueIInv'
  BY NextIInv DEF ServiceIInv
<1>2. /\ worker \in [Worker -> WorkerState]
      /\ worker' \in [Worker -> WorkerState]
      /\ worker'[w] = after
      /\ \A x \in Worker \ {w} : worker'[x] = worker[x]
  BY DEF ServiceIInv, ServiceTypeOK
<1>3. ServiceTypeOK'
  BY <1>1, <1>2 DEF ServiceIInv, QueueIInv, ServiceTypeOK
<1>4. BusyWorkers'
  BY <1>2 DEF ServiceIInv, BusyWorkers, At
<1> QED
  BY <1>2, <1>3, <1>4 DEF At

(* A step that ends a transaction of s, or none: nothing new is written.   *)
LEMMA EndKept ==
  ASSUME ServiceIInv, NEW s \in Session,
         BrokenTransaction(s) \/ UNCHANGED queueVars
  PROVE  /\ \A x \in Session \ {s} : txn'[x] = txn[x]
         /\ \A x \in Session, t \in TaskId :
              Writes(x, t)' => Writes(x, t) /\ txn'[x].writes[t] = txn[x].writes[t]
<1>1. CASE Commit(s) \/ Abort(s)
  BY <1>1, EndedTxn DEF ServiceIInv, Writes
<1>2. CASE UNCHANGED queueVars
  BY <1>2 DEF queueVars, Writes
<1> QED
  BY <1>1, <1>2 DEF BrokenTransaction

(* The inserts of the requests that are open belong to the requests.       *)
LEMMA InsertsKept ==
  ASSUME ServiceIInv, request' = request,
         \A t \in TaskId : txn'[t] = txn[t]
  PROVE  OpenInserts'
BY DEF ServiceIInv, OpenInserts, Writes

(* A worker is still at most claiming, if its transaction is.              *)
LEMMA ClaimsOnlyKept ==
  ASSUME ServiceIInv,
         \A w \in Worker :
           worker'[w].pc = "claim" => \/ txn'[w].op \in {"none", "claim"}
                                     \/ /\ worker[w].pc = "claim"
                                        /\ txn'[w].op = txn[w].op
  PROVE  ClaimsOnly'
BY DEF ServiceIInv, ClaimsOnly, At, Idle

LEMMA SubmitIInv ==
  ASSUME ServiceIInv, [QueueNext]_queueVars, NEW t \in TaskId, Submit(t)
  PROVE  ServiceIInv'
<1>1. PICK stamp \in 0 .. MaxStamp :
        Begin(t, "insert", Null, [NoWrites EXCEPT ![t] = NewRow(stamp)])
  BY DEF Submit, InsertBegin
<1> DEFINE writes == [NoWrites EXCEPT ![t] = NewRow(stamp)]
<1>2. /\ txn'[t] = [op |-> "insert", token |-> Null, writes |-> writes]
      /\ \A x \in Session \ {t} : txn'[x] = txn[x]
  BY <1>1, Sessions DEF Begin, ServiceIInv, QueueIInv, QueueTypeOK
<1>3. NewRow(stamp) \in Row /\ Queued(NewRow(stamp))
  BY NewRowOK
<1>4. /\ writes[t] = NewRow(stamp) /\ NewRow(stamp) # Null
      /\ \A u \in TaskId : writes[u] # Null => u = t
  BY <1>3, NoWritesOK, RowAssumption DEF NoWrites
<1> HIDE DEF writes
<1>5. /\ worker' = worker /\ evals' = evals /\ faults' = faults
      /\ request' = [request EXCEPT ![t] = "open"]
      /\ request \in [TaskId -> {"none", "open", "accepted", "refused"}]
      /\ faults \in 0 .. MaxFaults
  BY DEF Submit, ServiceIInv, ServiceTypeOK
<1>6. ServiceTypeOK' /\ BusyWorkers'
  BY <1>5, WorkersKept
<1>7. OpenInserts'
  <2>1. ASSUME NEW u \in TaskId, request'[u] = "open"
        PROVE  txn'[u].op = "insert" /\ Writes(u, u)'
    <3>1. CASE u = t
      BY <1>2, <1>4, <3>1 DEF Writes
    <3>2. CASE u # t
      <4>1. txn'[u] = txn[u] /\ request[u] = "open"
        BY <1>2, <1>5, <2>1, <3>2, Sessions
      <4> QED
        BY <4>1 DEF ServiceIInv, OpenInserts, Writes
    <3> QED
      BY <3>1, <3>2
  <2> QED
    BY <2>1 DEF OpenInserts
<1>8. \A s \in Session, u \in TaskId :
        Writes(s, u)' /\ Final(txn'[s].writes[u]) =>
          Writes(s, u) /\ txn'[s].writes[u] = txn[s].writes[u]
  <2>1. \A u \in TaskId : Writes(t, u)' => ~Final(txn'[t].writes[u])
    BY <1>2, <1>3, <1>4 DEF Writes, Final, Queued
  <2> QED
    BY <1>2, <2>1 DEF Writes
<1>9. ClaimsOnly'
  BY <1>2, <1>5, Sessions, ClaimsOnlyKept
<1> QED
  BY <1>5, <1>6, <1>7, <1>8, <1>9, FrameIInv DEF At

LEMMA AnswerIInv ==
  ASSUME ServiceIInv, [QueueNext]_queueVars, NEW t \in TaskId,
         Accept(t) \/ Refuse(t)
  PROVE  ServiceIInv'
<1>1. BrokenTransaction(t) /\ t \in Session
  BY Sessions DEF Accept, Refuse, BrokenTransaction
<1>2. /\ \A x \in Session \ {t} : txn'[x] = txn[x]
      /\ \A x \in Session, u \in TaskId :
           Writes(x, u)' => Writes(x, u) /\ txn'[x].writes[u] = txn[x].writes[u]
  BY <1>1, EndKept
<1>3. PICK a \in {"accepted", "refused"} :
        /\ request' = [request EXCEPT ![t] = a]
        /\ a = "accepted" => request[t] = "open" /\ Commit(t)
  BY DEF Accept, Refuse
<1>4. /\ worker' = worker /\ evals' = evals
      /\ request \in [TaskId -> {"none", "open", "accepted", "refused"}]
      /\ faults' \in 0 .. MaxFaults
  BY ServiceAssumption DEF Accept, Refuse, Fault, ServiceIInv, ServiceTypeOK
<1>5. request' \in [TaskId -> {"none", "open", "accepted", "refused"}]
  BY <1>3, <1>4
<1>6. ServiceTypeOK' /\ BusyWorkers'
  BY <1>4, <1>5, WorkersKept
<1>7. OpenInserts'
  <2>1. ASSUME NEW u \in TaskId, request'[u] = "open"
        PROVE  txn'[u].op = "insert" /\ Writes(u, u)'
    <3>1. u # t /\ request[u] = "open"
      BY <1>3, <1>4, <2>1
    <3>2. txn'[u] = txn[u]
      BY <1>2, <3>1, Sessions
    <3> QED
      BY <3>1, <3>2 DEF ServiceIInv, OpenInserts, Writes
  <2> QED
    BY <2>1 DEF OpenInserts
<1>8. ASSUME NEW u \in TaskId, request'[u] = "accepted"
      PROVE  request[u] = "accepted" \/ rows'[u] # Null
  <2>1. CASE u = t /\ a = "accepted"
    <3>1. Writes(t, t) /\ Commit(t)
      BY <1>3, <2>1 DEF ServiceIInv, OpenInserts
    <3>2. rows'[t] = txn[t].writes[t]
      BY <3>1 DEF Commit
    <3> QED
      BY <2>1, <3>1, <3>2 DEF Writes
  <2>2. CASE ~(u = t /\ a = "accepted")
    BY <1>3, <1>4, <1>8, <2>2
  <2> QED
    BY <2>1, <2>2
<1>9. ClaimsOnly'
  BY <1>2, <1>4, Sessions, ClaimsOnlyKept
<1> QED
  BY <1>2, <1>4, <1>6, <1>7, <1>8, <1>9, FrameIInv DEF At

(* Steps of a worker that end a transaction of its own, or open none, and  *)
(* leave it with nothing in hand.                                          *)
LEMMA FreeIInv ==
  ASSUME ServiceIInv, [QueueNext]_queueVars, NEW w \in Worker,
         BrokenTransaction(w) \/ UNCHANGED queueVars,
         NEW after \in WorkerState, worker' = [worker EXCEPT ![w] = after],
         after.held = Null, after.pc \notin {"evaluate", "persist"},
         after.pc = "claim" => Commit(w),
         evals' = evals, request' = request, faults' \in 0 .. MaxFaults
  PROVE  ServiceIInv'
<1>1. w \in Session /\ \A t \in TaskId : t \in Session \ {w}
  BY Sessions
<1>2. /\ \A t \in TaskId : txn'[t] = txn[t]
      /\ \A x \in Session, t \in TaskId :
           Writes(x, t)' => Writes(x, t) /\ txn'[x].writes[t] = txn[x].writes[t]
  BY <1>1, EndKept
<1>3. OpenInserts'
  BY <1>2, InsertsKept
<1>4. ClaimsOnly'
  <2>1. after.pc = "claim" => txn'[w].op = "none"
    BY <1>1, EndedTxn DEF NoTxn, ServiceIInv
  <2>2. /\ worker'[w].pc = after.pc
        /\ \A x \in Worker \ {w} : /\ worker'[x].pc = worker[x].pc
                                   /\ txn'[x].op = txn[x].op
    BY <1>1, EndKept, Sessions DEF ServiceIInv, ServiceTypeOK
  <2> QED
    BY <2>1, <2>2, ClaimsOnlyKept
<1> QED
  BY <1>2, <1>3, <1>4, WorkerFree, FrameIInv

LEMMA FreeSteps ==
  ASSUME ServiceIInv, [QueueNext]_queueVars, NEW w \in Worker,
         \/ Recovered(w) \/ NothingToClaim(w) \/ Persisted(w) \/ Raise(w)
         \/ Wake(w) \/ Crash(w) \/ Start(w)
  PROVE  ServiceIInv'
<1>1. /\ worker[w] \in WorkerState /\ faults \in 0 .. MaxFaults
      /\ worker[w].held # Null <=> At(w, "evaluate") \/ At(w, "persist")
  BY DEF ServiceIInv, ServiceTypeOK, BusyWorkers
<1>2. /\ BrokenTransaction(w) \/ UNCHANGED queueVars
      /\ evals' = evals /\ request' = request /\ faults' \in 0 .. MaxFaults
  <2>1. BrokenTransaction(w) \/ UNCHANGED queueVars
    BY DEF Recovered, NothingToClaim, Persisted, Raise, Wake, Crash, Start,
           BrokenTransaction, queueVars
  <2>2. evals' = evals /\ request' = request
    BY DEF Recovered, NothingToClaim, Persisted, Raise, Wake, Crash, Start
  <2>3. faults' = faults \/ Fault
    BY DEF Recovered, NothingToClaim, Persisted, Raise, Wake, Crash, Start
  <2>4. faults' \in 0 .. MaxFaults
    BY <1>1, <2>3, ServiceAssumption DEF Fault
  <2> QED
    BY <2>1, <2>2, <2>4
<1>3. ASSUME NEW pc \in Place \ {"evaluate", "persist"}, NEW blocked \in BOOLEAN
      PROVE  LET after == [worker[w] EXCEPT !.pc = pc, !.held = Null,
                                            !.verdict = Null, !.blocked = blocked]
             IN  after \in WorkerState /\ after.held = Null /\ after.pc = pc
  BY <1>1 DEF WorkerState
<1>4. ASSUME NEW pc \in Place \ {"evaluate", "persist"}, NEW blocked \in BOOLEAN,
             worker[w].held = Null
      PROVE  LET after == [worker[w] EXCEPT !.pc = pc, !.blocked = blocked]
             IN  after \in WorkerState /\ after.held = Null /\ after.pc = pc
  BY <1>1, <1>4 DEF WorkerState
<1>5. CASE Persisted(w) \/ NothingToClaim(w) \/ Raise(w)
  <2>1. PICK blocked \in BOOLEAN : Rest(w, blocked)
    BY <1>1, <1>5 DEF Persisted, NothingToClaim, Raise, WorkerState
  <2> DEFINE after == [worker[w] EXCEPT !.pc = "sleep", !.held = Null,
                                        !.verdict = Null, !.blocked = blocked]
  <2>2. worker' = [worker EXCEPT ![w] = after]
    BY <2>1 DEF Rest
  <2>3. after \in WorkerState /\ after.held = Null /\ after.pc = "sleep"
    <3>1. "sleep" \in Place \ {"evaluate", "persist"}
      BY DEF Place
    <3> QED
      BY <1>3, <3>1
  <2> HIDE DEF after
  <2> QED
    BY <1>2, <2>2, <2>3, FreeIInv
<1>6. CASE Recovered(w) \/ Start(w) \/ (Wake(w) /\ ~worker[w].stop)
  <2>1. worker[w].held = Null
    BY <1>1, <1>6 DEF Recovered, Start, Wake, At
  <2>2. PICK pc \in {"claim", "recover", "probe"}, blocked \in BOOLEAN :
          worker' = [worker EXCEPT ![w] =
                       [worker[w] EXCEPT !.pc = pc, !.blocked = blocked]]
    <3>1. CASE Recovered(w) /\ At(w, "probe")
      BY <3>1 DEF Recovered, At
    <3>2. ASSUME NEW pc \in {"claim", "recover", "probe"}, GoTo(w, pc)
          PROVE  worker' = [worker EXCEPT ![w] =
                   [worker[w] EXCEPT !.pc = pc, !.blocked = worker[w].blocked]]
      BY <1>1, <3>2 DEF GoTo, WorkerState
    <3>3. worker[w].blocked \in BOOLEAN
      BY <1>1 DEF WorkerState
    <3>4. CASE Recovered(w) /\ ~At(w, "probe")
      BY <3>2, <3>3, <3>4 DEF Recovered
    <3>5. CASE Start(w)
      BY <3>2, <3>3, <3>5 DEF Start, FirstPlace
    <3>6. CASE Wake(w) /\ ~worker[w].stop
      BY <3>2, <3>3, <3>6 DEF Wake, FirstPlace
    <3> QED
      BY <1>6, <3>1, <3>4, <3>5, <3>6
  <2> DEFINE after == [worker[w] EXCEPT !.pc = pc, !.blocked = blocked]
  <2>3. after \in WorkerState /\ after.held = Null
        /\ after.pc \notin {"evaluate", "persist"}
    BY <1>4, <2>1 DEF Place
  <2>4. worker' = [worker EXCEPT ![w] = after]
    BY <2>2
  <2>5. after.pc = "claim" => Commit(w)
    <3>1. /\ after.pc = worker'[w].pc
          /\ worker \in [Worker -> WorkerState]
      BY <2>4 DEF ServiceIInv, ServiceTypeOK
    <3>2. CASE Start(w) \/ (Wake(w) /\ ~worker[w].stop)
      <4>1. \E place \in {"recover", "probe"} : GoTo(w, place)
        BY <3>2 DEF Start, Wake, FirstPlace
      <4>2. worker'[w].pc \in {"recover", "probe"}
        BY <3>1, <4>1 DEF GoTo, WorkerState
      <4> QED
        BY <3>1, <4>2
    <3> QED
      BY <1>6, <3>2 DEF Recovered
  <2> HIDE DEF after
  <2> QED
    BY <1>2, <2>3, <2>4, <2>5, FreeIInv
<1>7. CASE Crash(w) \/ (Wake(w) /\ worker[w].stop)
  <2>1. worker' = [worker EXCEPT ![w] = Down]
    BY <1>7 DEF Crash, Wake
  <2>2. Down \in WorkerState /\ Down.held = Null /\ Down.pc = "down"
    BY DEF Down, WorkerState, Place
  <2> QED
    BY <1>2, <2>1, <2>2, FreeIInv
<1> QED
  BY <1>5, <1>6, <1>7

(* Steps of a worker that open a transaction, to write what is honest.     *)
LEMMA OpenIInv ==
  ASSUME ServiceIInv, [QueueNext]_queueVars, NEW w \in Worker,
         NEW op, NEW token, NEW writes, Begin(w, op, token, writes),
         UNCHANGED <<worker, request, evals, faults>>,
         At(w, "claim") => op = "claim",
         \A t \in TaskId : Final(writes[t]) => HonestRow(t, writes[t])
  PROVE  ServiceIInv'
<1>1. w \in Session /\ \A t \in TaskId : t \in Session \ {w}
  BY Sessions
<1>2. /\ txn'[w] = [op |-> op, token |-> token, writes |-> writes]
      /\ \A x \in Session \ {w} : txn'[x] = txn[x]
  BY <1>1 DEF Begin, ServiceIInv, QueueIInv, QueueTypeOK
<1>3. ServiceTypeOK' /\ BusyWorkers'
  BY WorkersKept DEF ServiceIInv, ServiceTypeOK
<1>4. OpenInserts'
  BY <1>1, <1>2, InsertsKept
<1>5. \A s \in Session, t \in TaskId :
        Writes(s, t)' /\ Final(txn'[s].writes[t]) =>
          \/ Writes(s, t) /\ txn'[s].writes[t] = txn[s].writes[t]
          \/ HonestRow(t, txn'[s].writes[t])
  BY <1>2 DEF Writes
<1>6. ClaimsOnly'
  BY <1>1, <1>2, Sessions, ClaimsOnlyKept DEF At
<1> QED
  BY <1>3, <1>4, <1>5, <1>6, FrameIInv DEF At

LEMMA RecoverStep ==
  ASSUME ServiceIInv, [QueueNext]_queueVars, NEW w \in Worker, Recover(w)
  PROVE  ServiceIInv'
<1> DEFINE writes == [t \in TaskId |-> IF t \in Recoverable
                                       THEN GivenUp(rows[t], LeaseExpired) ELSE Null]
<1>1. Begin(w, "recover", Null, writes)
      /\ UNCHANGED <<worker, request, evals, faults>>
  BY DEF Recover, RecoverBegin
<1>0. ~At(w, "claim")
  BY DEF Recover, At
<1>2. ASSUME NEW t \in TaskId, Final(writes[t])
      PROVE  HonestRow(t, writes[t])
  <2>1. t \in Recoverable /\ writes[t] = GivenUp(rows[t], LeaseExpired)
    BY <1>2 DEF Final
  <2>2. /\ rows[t] \in Row /\ SatisfiesChecks(rows[t]) /\ Running(rows[t])
    BY <2>1 DEF Recoverable, Expired, HasLease, Running, ServiceIInv, QueueIInv,
                QueueTypeOK, ConstraintsHold
  <2> DEFINE n == GivenUp(rows[t], LeaseExpired)
  <2>3. ~(rows[t].attempts < MaxAttempts) /\ n = FailedRow(rows[t], LeaseExpired)
        /\ n.attempts = MaxAttempts
    <3>1. LeaseExpired \in ErrorCode
      BY DEF ErrorCode
    <3>2. n.attempts = MaxAttempts /\ n.attempts = rows[t].attempts
      BY <1>2, <2>1, <2>2, <3>1, GivenUpOK DEF Final, Queued
    <3>3. MaxAttempts \in Nat
      BY RowAssumption
    <3> QED
      BY <3>2, <3>3 DEF GivenUp
  <2>4. n.status = "failed" /\ n.error_code = LeaseExpired
    BY <2>2, <2>3 DEF FailedRow, ClearAttempt, Row
  <2> QED
    BY <2>1, <2>3, <2>4 DEF HonestRow
<1> HIDE DEF writes
<1> QED
  BY <1>0, <1>1, <1>2, OpenIInv

LEMMA ClaimStep ==
  ASSUME ServiceIInv, [QueueNext]_queueVars, NEW w \in Worker, ClaimTask(w)
  PROVE  ServiceIInv'
<1>1. PICK t \in Available, token \in FreshTokens :
        Begin(w, "claim", token, [NoWrites EXCEPT ![t] = Claimed(rows[t], token)])
  BY DEF ClaimTask, ClaimBegin
<1> DEFINE writes == [NoWrites EXCEPT ![t] = Claimed(rows[t], token)]
<1>2. Claimed(rows[t], token).status = "running"
  <2>1. rows[t] \in Row
    BY DEF Available, Queued, ServiceIInv, QueueIInv, QueueTypeOK
  <2> QED
    BY <2>1 DEF Claimed, ClearAttempt, Row
<1>3. \A u \in TaskId : ~Final(writes[u])
  BY <1>2, NoWritesOK DEF NoWrites, Final
<1>4. UNCHANGED <<worker, request, evals, faults>>
  BY DEF ClaimTask
<1> HIDE DEF writes
<1> QED
  BY <1>1, <1>3, <1>4, OpenIInv DEF writes

LEMMA PersistStep ==
  ASSUME ServiceIInv, [QueueNext]_queueVars, NEW w \in Worker, Persist(w)
  PROVE  ServiceIInv'
<1> DEFINE h == worker[w].held  v == worker[w].verdict  t == h.id
           e == [attempt |-> h.attempts, verdict |-> v]
<1>1. /\ t \in TaskId /\ Holds(w, t) /\ e \in evals[t]
      /\ ~At(w, "claim")
      /\ UNCHANGED <<worker, request, evals, faults>>
  BY HeldType DEF Persist, ServiceIInv, BusyWorkers, At
<1>2. ASSUME AttemptGuard(rows[t], h.token)
      PROVE  /\ rows[t] \in Row /\ SatisfiesChecks(rows[t]) /\ Running(rows[t])
             /\ h.attempts = rows[t].attempts
  <2>1. /\ rows[t] \in Row /\ SatisfiesChecks(rows[t]) /\ Running(rows[t])
        /\ rows[t].lease_token = h.token
    BY <1>1, <1>2, GuardedRow DEF ServiceIInv
  <2> QED
    BY <1>1, <2>1 DEF ServiceIInv, SnapshotAgrees, Guards
<1>3. ASSUME NEW op, NEW row, GuardedUpdate(w, op, t, h.token, row),
             AttemptGuard(rows[t], h.token) /\ Final(row) => HonestRow(t, row)
      PROVE  ServiceIInv'
  <2>1. CASE AttemptGuard(rows[t], h.token)
             /\ Begin(w, op, h.token, [NoWrites EXCEPT ![t] = row])
    <3> DEFINE writes == [NoWrites EXCEPT ![t] = row]
    <3>1. \A u \in TaskId : Final(writes[u]) => u = t /\ writes[u] = row
      BY NoWritesOK DEF NoWrites, Final
    <3>2. Begin(w, op, h.token, writes)
      BY <2>1
    <3> HIDE DEF writes
    <3>3. \A u \in TaskId : Final(writes[u]) => HonestRow(u, writes[u])
      BY <1>3, <2>1, <3>1
    <3> HIDE DEF h, v, e
    <3> QED
      BY <1>1, <3>2, <3>3, OpenIInv
  <2>2. CASE Begin(w, op, h.token, NoWrites)
    <3>1. \A u \in TaskId : ~Final(NoWrites[u])
      BY DEF NoWrites, Final
    <3> QED
      BY <1>1, <2>2, <3>1, OpenIInv
  <2> QED
    BY <1>3, <2>1, <2>2 DEF GuardedUpdate
<1>4. CASE v \in Result /\ CompleteBegin(w, t, h.token, v)
  <2> DEFINE row == CompletedRow(rows[t], v)
  <2>1. ASSUME AttemptGuard(rows[t], h.token)
        PROVE  HonestRow(t, row)
    <3>1. Told(Payload(row), v)
      BY <1>2, <1>4, <2>1, ToldCompleted
    <3>2. row.attempts = h.attempts
      BY <1>2, <2>1 DEF CompletedRow, Row
    <3> QED
      BY <1>1, <3>1, <3>2 DEF HonestRow
  <2>2. GuardedUpdate(w, "complete", t, h.token, row)
    BY <1>4 DEF CompleteBegin
  <2> HIDE DEF row
  <2> QED
    BY <1>3, <2>1, <2>2
<1>5. CASE v \in Failure /\ FailBegin(w, t, h.token, v.error)
  <2> DEFINE row == GivenUp(rows[t], v.error)
  <2>1. ASSUME AttemptGuard(rows[t], h.token), Final(row)
        PROVE  HonestRow(t, row)
    <3>1. row = FailedRow(rows[t], v.error)
      <4>1. CASE rows[t].attempts < MaxAttempts
        <5>1. row.status = "queued"
          BY <1>2, <2>1, <4>1 DEF GivenUp, Requeued, ClearAttempt, Row
        <5> QED
          BY <2>1, <5>1 DEF Final
      <4>2. CASE ~(rows[t].attempts < MaxAttempts)
        BY <4>2 DEF GivenUp
      <4> QED
        BY <4>1, <4>2
    <3>2. Told(Payload(row), v)
      BY <1>2, <1>5, <2>1, <3>1, ToldFailed
    <3>3. row.attempts = h.attempts
      BY <1>2, <2>1, <3>1 DEF FailedRow, ClearAttempt, Row
    <3> QED
      BY <1>1, <3>2, <3>3 DEF HonestRow
  <2>2. GuardedUpdate(w, "fail", t, h.token, row)
    BY <1>5 DEF FailBegin
  <2> HIDE DEF row
  <2> QED
    BY <1>3, <2>1, <2>2
<1> QED
  BY <1>4, <1>5 DEF Persist

LEMMA ClockStep ==
  ASSUME ServiceIInv, [QueueNext]_queueVars, Clock
  PROVE  ServiceIInv'
<1>1. /\ UNCHANGED <<worker, request, evals, faults>>
      /\ txn' = [s \in Session |->
                   [op |-> txn[s].op, token |-> txn[s].token,
                    writes |-> [t \in TaskId |-> Aged(txn[s].writes[t])]]]
  BY DEF Clock, Tick
<1>2. ASSUME NEW s \in Session, NEW t \in TaskId
      PROVE  /\ txn'[s].op = txn[s].op
             /\ Writes(s, t)' <=> Writes(s, t)
             /\ Final(txn'[s].writes[t]) => txn'[s].writes[t] = txn[s].writes[t]
  <2> DEFINE r == txn[s].writes[t]
  <2>1. txn'[s].op = txn[s].op /\ txn'[s].writes[t] = Aged(r)
    BY <1>1
  <2>2. CASE r = Null
    <3>1. Aged(r) = r
      BY <2>2 DEF Aged, HasLeaseLeft, Running
    <3> QED
      BY <2>1, <3>1 DEF Writes
  <2>3. CASE r # Null
    <3>1. r \in Row /\ SatisfiesChecks(r)
      BY <2>3 DEF ServiceIInv, QueueIInv, QueueTypeOK, Transaction, Writes,
                  ConstraintsHold
    <3>2. Aged(r) \in Row /\ Aged(r).status = r.status /\ (~Running(r) => Aged(r) = r)
      BY <3>1, AgedRowOK
    <3>3. Aged(r) # Null
      BY <3>2, RowAssumption
    <3> QED
      BY <2>1, <2>3, <3>2, <3>3 DEF Writes, Final, Running
  <2> QED
    BY <2>2, <2>3
<1>3. ServiceTypeOK' /\ BusyWorkers'
  BY <1>1, WorkersKept DEF ServiceIInv, ServiceTypeOK
<1>4. OpenInserts'
  BY <1>1, <1>2, Sessions DEF ServiceIInv, OpenInserts
<1>5. ClaimsOnly'
  BY <1>1, <1>2, Sessions, ClaimsOnlyKept
<1> QED
  BY <1>1, <1>2, <1>3, <1>4, <1>5, FrameIInv DEF At

LEMMA StopStep ==
  ASSUME ServiceIInv, [QueueNext]_queueVars, NEW w \in Worker, Stop(w)
  PROVE  ServiceIInv'
<1>1. /\ worker' = [worker EXCEPT ![w].stop = TRUE]
      /\ UNCHANGED <<rows, txn, issued, request, evals>>
      /\ faults' \in 0 .. MaxFaults
  BY ServiceAssumption DEF Stop, Fault, ServiceIInv, ServiceTypeOK
<1>2. /\ worker \in [Worker -> WorkerState]
      /\ worker' \in [Worker -> WorkerState]
      /\ \A x \in Worker : /\ worker'[x].pc = worker[x].pc
                           /\ worker'[x].held = worker[x].held
                           /\ worker'[x].verdict = worker[x].verdict
  BY <1>1 DEF ServiceIInv, ServiceTypeOK, WorkerState
<1>3. ServiceTypeOK'
  BY <1>1, <1>2 DEF ServiceIInv, ServiceTypeOK, QueueTypeOK
<1>4. BusyWorkers'
  BY <1>1, <1>2 DEF ServiceIInv, BusyWorkers, At
<1>5. OpenInserts'
  BY <1>1, InsertsKept
<1>6. ClaimsOnly'
  BY <1>1, <1>2, ClaimsOnlyKept
<1> QED
  BY <1>1, <1>2, <1>3, <1>4, <1>5, <1>6, FrameIInv DEF At, Writes

LEMMA TaskClaimedStep ==
  ASSUME ServiceIInv, [QueueNext]_queueVars, NEW w \in Worker, TaskClaimed(w)
  PROVE  ServiceIInv'
<1>1. PICK t \in TaskId :
        /\ Writes(w, t)
        /\ worker' = [worker EXCEPT ![w].pc = "evaluate", ![w].held = Snapshot(w, t)]
  BY DEF TaskClaimed
<1>2. /\ w \in Session /\ Commit(w) /\ At(w, "claim")
      /\ request' = request /\ evals' = evals /\ faults' = faults
  BY Sessions DEF TaskClaimed
<1>3. QueueIInv /\ QueueIInv' /\ ServiceTypeOK
  BY NextIInv DEF ServiceIInv
<1> DEFINE old == rows[t]  new == txn[w].writes[t]
(* What is claimed is what the claim has just committed.                   *)
<1>4. /\ txn[w].op = "claim" /\ txn[w].token \in Token
      /\ Queued(old) /\ Running(new) /\ new.lease_token = txn[w].token
      /\ new.attempts = old.attempts + 1
      /\ old.attempts \in Nat /\ new \in Row
  <2>1. txn[w].op = "claim"
    BY <1>1, <1>2, EmptyTxn
       DEF ServiceIInv, ClaimsOnly, QueueIInv, IdleIsEmpty, Writes
  <2>2. CorrectWrite("claim", txn[w].token, old, new)
    BY <1>1, <1>2, <1>3, <2>1 DEF QueueIInv, NoLostUpdate
  <2>3. txn[w].token \in Token
    BY <1>2, <1>3, <2>1 DEF QueueIInv, FreshPending
  <2>4. Queued(old) /\ old.attempts \in Nat
    BY <1>3, <2>2 DEF CorrectWrite, Queued, QueueIInv, QueueTypeOK, Row
  <2>5. new \in Row
    BY <1>1, <1>2, <1>3 DEF Writes, QueueIInv, QueueTypeOK, Transaction
  <2> QED
    BY <2>1, <2>2, <2>3, <2>4, <2>5 DEF CorrectWrite
<1>5. rows'[t] = new /\ issued'[t] = issued[t] \cup {txn[w].token}
  BY <1>1, <1>2, <1>4 DEF Commit
<1> DEFINE h == Snapshot(w, t)
<1>6. /\ h.id = t /\ h.token = txn[w].token /\ h.attempts = new.attempts
      /\ h \in Holding /\ h # Null
  <2>1. h = [id |-> t, token |-> txn[w].token, attempts |-> new.attempts]
    BY DEF Snapshot
  <2>2. h \in Holding
    BY <1>4, <2>1 DEF Holding, Row
  <2> QED
    BY <2>1, <2>2, ServiceAssumption DEF Holding
<1> HIDE DEF h
<1>7. /\ worker \in [Worker -> WorkerState]
      /\ worker'[w] = [worker[w] EXCEPT !.pc = "evaluate", !.held = h]
      /\ worker'[w].pc = "evaluate" /\ worker'[w].held = h
      /\ worker'[w].verdict = worker[w].verdict
      /\ \A x \in Worker \ {w} : worker'[x] = worker[x]
  BY <1>1, <1>3 DEF ServiceTypeOK, WorkerState, h
<1>8. /\ \A u \in TaskId : Holds(w, u)' <=> u = t
      /\ \A x \in Worker \ {w}, u \in TaskId : Holds(x, u)' <=> Holds(x, u)
  BY <1>6, <1>7 DEF Holds
<1>9. ServiceTypeOK'
  <2>1. worker' \in [Worker -> WorkerState]
    <3>1. [worker[w] EXCEPT !.pc = "evaluate", !.held = h] \in WorkerState
      BY <1>6, <1>7 DEF WorkerState, Place
    <3> QED
      BY <1>1, <1>7, <3>1
  <2> QED
    BY <1>2, <1>3, <2>1 DEF ServiceTypeOK, QueueIInv
<1>10. BusyWorkers'
  BY <1>2, <1>6, <1>7 DEF ServiceIInv, BusyWorkers, At
<1>11. HeldClaims'
  <2>1. /\ rows'[t] # Null /\ h.token \in issued'[t]
        /\ h.attempts \in 1 .. rows'[t].attempts
    BY <1>4, <1>5, <1>6, RowAssumption
  <2> QED
    BY <1>7, <1>8, <2>1, HeldKept DEF HeldClaims
<1>12. SnapshotAgrees'
  <2>1. h.attempts = rows'[t].attempts
    BY <1>5, <1>6
  <2>2. ASSUME NEW x \in Worker, NEW u \in TaskId, Holds(x, u)',
               Guards(worker'[x].held.token, rows'[u])
        PROVE  worker'[x].held.attempts = rows'[u].attempts
    <3>1. CASE x = w
      BY <1>7, <1>8, <2>1, <2>2, <3>1
    <3>2. CASE x # w
      <4>1. worker'[x] = worker[x] /\ Holds(x, u)
        BY <1>7, <1>8, <2>2, <3>2
      <4> QED
        BY <2>2, <4>1, HeldKept
    <3> QED
      BY <3>1, <3>2
  <2> QED
    BY <2>2 DEF SnapshotAgrees, Guards
(* Every older attempt has an older number.                                *)
<1>13. OneWorkerPerAttempt'
  <2>1. ASSUME NEW x \in Worker \ {w}, Holds(x, t)
        PROVE  worker[x].held.attempts # h.attempts
    <3>1. worker[x].held.attempts \in 1 .. old.attempts
      BY <2>1, HeldKept
    <3> QED
      BY <1>4, <1>6, <3>1
  <2>2. ASSUME NEW x \in Worker, NEW y \in Worker, NEW u \in TaskId,
               Holds(x, u)', Holds(y, u)', x # y
        PROVE  worker'[x].held.attempts # worker'[y].held.attempts
    <3>1. CASE x = w
      BY <1>7, <1>8, <2>1, <2>2, <3>1
    <3>2. CASE y = w
      BY <1>7, <1>8, <2>1, <2>2, <3>2
    <3>3. CASE x # w /\ y # w
      BY <1>7, <1>8, <2>2, <3>3 DEF ServiceIInv, OneWorkerPerAttempt
    <3> QED
      BY <3>1, <3>2, <3>3
  <2> QED
    BY <2>2 DEF OneWorkerPerAttempt
<1>14. OneEvaluationPerAttempt'
  BY <1>2 DEF ServiceIInv, OneEvaluationPerAttempt
<1>15. EvaluatedClaims'
  <2>1. ASSUME NEW e \in evals[t] PROVE h.attempts # e.attempt
    <3>1. e.attempt \in Nat /\ e.attempt <= old.attempts
      BY EvaluatedKept
    <3> QED
      BY <1>4, <1>6, <3>1
  <2>2. ASSUME NEW u \in TaskId, NEW e \in evals[u], NEW x \in Worker,
               Holds(x, u)', At(x, "evaluate")'
        PROVE  worker'[x].held.attempts # e.attempt
    <3>1. CASE x = w
      BY <1>7, <1>8, <2>1, <2>2, <3>1
    <3>2. CASE x # w
      BY <1>7, <1>8, <2>2, <3>2 DEF ServiceIInv, EvaluatedClaims, At
    <3> QED
      BY <3>1, <3>2
  <2> QED
    BY <1>2, <2>2, EvaluatedKept DEF EvaluatedClaims
<1>16. HonestAnswer' /\ AcceptedIsDurable'
  BY <1>2, HonestKept, DurableKept
<1>17. /\ \A x \in Session \ {w} : txn'[x] = txn[x]
       /\ txn'[w].op = "none"
       /\ \A x \in Session, u \in TaskId :
            Writes(x, u)' => Writes(x, u) /\ txn'[x].writes[u] = txn[x].writes[u]
  BY <1>2, <1>3, EndKept, EndedTxn DEF BrokenTransaction, NoTxn
<1>18. OpenInserts'
  BY <1>2, <1>17, Sessions, InsertsKept
<1>19. PendingHonest'
  BY <1>2, <1>17 DEF ServiceIInv, PendingHonest, HonestRow
<1>20. ClaimsOnly'
  BY <1>7, <1>17, Sessions, ClaimsOnlyKept
<1> QED
  BY <1>3, <1>9, <1>10, <1>11, <1>12, <1>13, <1>14, <1>15, <1>16, <1>18, <1>19,
     <1>20 DEF ServiceIInv

LEMMA EvaluateStep ==
  ASSUME ServiceIInv, NEW w \in Worker, Evaluate(w)
  PROVE  ServiceIInv'
<1> DEFINE h == worker[w].held  t == h.id
<1>1. /\ t \in TaskId /\ Holds(w, t) /\ At(w, "evaluate")
      /\ UNCHANGED <<rows, txn, issued, request, faults>>
  BY HeldType DEF Evaluate, ServiceIInv, BusyWorkers
<1>2. PICK v \in Verdict :
        /\ worker' = [worker EXCEPT ![w].pc = "persist", ![w].verdict = v]
        /\ evals' = [evals EXCEPT ![t] =
                       @ \cup {[attempt |-> h.attempts, verdict |-> v]}]
  BY DEF Evaluate
<1> DEFINE e == [attempt |-> h.attempts, verdict |-> v]
<1>3. QueueIInv /\ ServiceTypeOK /\ [QueueNext]_queueVars /\ QueueIInv'
  <2>1. [QueueNext]_queueVars
    BY <1>1 DEF queueVars
  <2> QED
    BY <2>1, NextIInv DEF ServiceIInv
<1>4. /\ rows[t] # Null /\ h.attempts \in 1 .. MaxAttempts
  <2>1. rows[t] # Null /\ h.attempts \in 1 .. rows[t].attempts
    BY <1>1 DEF ServiceIInv, HeldClaims
  <2>2. rows[t].attempts \in 0 .. MaxAttempts
    BY <1>1, <1>3, <2>1 DEF QueueIInv, ConstraintsHold, SatisfiesChecks
  <2> QED
    BY <2>1, <2>2, RowAssumption
<1>5. /\ worker \in [Worker -> WorkerState]
      /\ worker'[w] = [worker[w] EXCEPT !.pc = "persist", !.verdict = v]
      /\ worker'[w].pc = "persist" /\ worker'[w].verdict = v
      /\ \A x \in Worker : worker'[x].held = worker[x].held
      /\ \A x \in Worker \ {w} : worker'[x] = worker[x]
  BY <1>2, <1>3 DEF ServiceTypeOK, WorkerState
<1>6. /\ evals'[t] = evals[t] \cup {e}
      /\ \A u \in TaskId \ {t} : evals'[u] = evals[u]
  BY <1>1, <1>2, <1>3 DEF ServiceTypeOK
<1>7. \A x \in Worker, u \in TaskId : Holds(x, u)' <=> Holds(x, u)
  BY <1>5 DEF Holds
<1>8. ServiceTypeOK'
  <2>1. worker' \in [Worker -> WorkerState]
    <3>1. [worker[w] EXCEPT !.pc = "persist", !.verdict = v] \in WorkerState
      BY <1>5 DEF WorkerState, Place
    <3> QED
      BY <1>2, <1>5, <3>1
  <2>2. evals' \in [TaskId -> SUBSET [attempt : 1 .. MaxAttempts, verdict : Verdict]]
    BY <1>1, <1>2, <1>3, <1>4 DEF ServiceTypeOK
  <2> QED
    BY <1>1, <1>3, <2>1, <2>2 DEF ServiceTypeOK, QueueIInv
<1>9. BusyWorkers'
  <2>1. ASSUME NEW x \in Worker, At(x, "persist")'
        PROVE  [attempt |-> worker'[x].held.attempts, verdict |-> worker'[x].verdict]
                 \in evals'[worker'[x].held.id]
    <3>1. CASE x = w
      BY <1>1, <1>5, <1>6, <3>1
    <3>2. CASE x # w
      <4>1. At(x, "persist") /\ worker'[x] = worker[x]
        BY <1>5, <2>1, <3>2 DEF At
      <4>2. worker[x].held.id \in TaskId
        BY <1>3, <4>1, HeldType DEF ServiceIInv, BusyWorkers
      <4> QED
        BY <1>6, <4>1, <4>2 DEF ServiceIInv, BusyWorkers
    <3> QED
      BY <3>1, <3>2
  <2>2. ASSUME NEW x \in Worker
        PROVE  worker'[x].held # Null <=> At(x, "evaluate")' \/ At(x, "persist")'
    <3>1. worker[x].held # Null <=> At(x, "evaluate") \/ At(x, "persist")
      BY DEF ServiceIInv, BusyWorkers
    <3>2. At(w, "evaluate")
      BY <1>1
    <3> HIDE DEF h, t, e
    <3> QED
      BY <1>5, <3>1, <3>2 DEF At
  <2> QED
    BY <2>1, <2>2 DEF BusyWorkers
<1>10. HeldClaims' /\ SnapshotAgrees' /\ OneWorkerPerAttempt'
  BY <1>3, <1>5, ClaimsKept
<1>11. OneEvaluationPerAttempt'
  <2>1. \A f \in evals[t] : f.attempt # h.attempts
    BY <1>1 DEF ServiceIInv, EvaluatedClaims
  <2>2. \A f, g \in evals'[t] : f.attempt = g.attempt => f = g
    BY <1>1, <1>6, <2>1 DEF ServiceIInv, OneEvaluationPerAttempt
  <2> HIDE DEF h, t, e
  <2> QED
    BY <1>6, <2>2 DEF ServiceIInv, OneEvaluationPerAttempt
<1>12. EvaluatedClaims'
  <2> SUFFICES ASSUME NEW u \in TaskId, NEW f \in evals'[u]
               PROVE  /\ rows[u] # Null /\ f.attempt <= rows[u].attempts
                      /\ \A x \in Worker :
                           Holds(x, u)' /\ At(x, "evaluate")'
                             => worker'[x].held.attempts # f.attempt
    BY <1>1 DEF EvaluatedClaims
  <2>1. \A x \in Worker, y \in TaskId : Holds(x, y)' /\ At(x, "evaluate")'
          => x # w /\ Holds(x, y) /\ At(x, "evaluate")
             /\ worker'[x].held = worker[x].held
    BY <1>5, <1>7 DEF At
  <2>2. CASE f \in evals[u]
    BY <2>1, <2>2 DEF ServiceIInv, EvaluatedClaims
  <2>3. CASE u = t /\ f = e
    <3>1. \A x \in Worker : x # w /\ Holds(x, t)
            => worker[x].held.attempts # h.attempts
      BY <1>1 DEF ServiceIInv, OneWorkerPerAttempt
    <3>2. rows[t] # Null /\ h.attempts <= rows[t].attempts
      BY <1>1 DEF ServiceIInv, HeldClaims
    <3> QED
      BY <2>1, <2>3, <3>1, <3>2
  <2> QED
    BY <1>6, <2>2, <2>3
<1>13. HonestAnswer' /\ AcceptedIsDurable'
       /\ \A r : \A u \in TaskId : HonestRow(u, r) => HonestRow(u, r)'
  <2>1. \A u \in TaskId : evals[u] \subseteq evals'[u]
    BY <1>6
  <2> QED
    BY <1>1, <1>3, <2>1, HonestKept, DurableKept
<1>14. OpenInserts' /\ PendingHonest'
  BY <1>1, <1>13, InsertsKept DEF ServiceIInv, PendingHonest, Writes
<1>15. ClaimsOnly'
  BY <1>1, <1>5, ClaimsOnlyKept
<1> QED
  BY <1>3, <1>8, <1>9, <1>10, <1>11, <1>12, <1>13, <1>14, <1>15 DEF ServiceIInv

(* Every step of the service preserves the invariant.                      *)
LEMMA ServiceNextIInv ==
  ASSUME ServiceIInv, [ServiceNext]_serviceVars
  PROVE  ServiceIInv'
<1>0. [QueueNext]_queueVars
  BY StepIsQueueStep DEF ServiceIInv
<1>1. ASSUME NEW t \in TaskId, Submit(t) \/ Accept(t) \/ Refuse(t)
      PROVE  ServiceIInv'
  BY <1>0, <1>1, SubmitIInv, AnswerIInv
<1>2. ASSUME NEW w \in Worker, Process(w) \/ Raise(w) \/ Stop(w) \/ Crash(w)
      PROVE  ServiceIInv'
  <2>1. CASE Recover(w)
    BY <1>0, <2>1, RecoverStep
  <2>2. CASE ClaimTask(w)
    BY <1>0, <2>2, ClaimStep
  <2>3. CASE TaskClaimed(w)
    BY <1>0, <2>3, TaskClaimedStep
  <2>4. CASE Evaluate(w)
    BY <2>4, EvaluateStep
  <2>5. CASE Persist(w)
    BY <1>0, <2>5, PersistStep
  <2>6. CASE Stop(w)
    BY <1>0, <2>6, StopStep
  <2>7. CASE \/ Recovered(w) \/ NothingToClaim(w) \/ Persisted(w) \/ Raise(w)
             \/ Wake(w) \/ Crash(w) \/ Start(w)
    BY <1>0, <2>7, FreeSteps
  <2> QED
    BY <1>2, <2>1, <2>2, <2>3, <2>4, <2>5, <2>6, <2>7 DEF Process
<1>3. CASE Clock
  BY <1>0, <1>3, ClockStep
<1>4. CASE UNCHANGED serviceVars
  <2>1. /\ UNCHANGED <<worker, request, evals, faults>> /\ txn' = txn
        /\ rows' = rows
    BY <1>4 DEF serviceVars
  <2>2. ServiceTypeOK' /\ BusyWorkers'
    BY <1>0, <2>1, WorkersKept DEF ServiceIInv, ServiceTypeOK
  <2>3. OpenInserts' /\ ClaimsOnly'
    BY <2>1, InsertsKept, ClaimsOnlyKept
  <2> QED
    BY <1>0, <2>1, <2>2, <2>3, FrameIInv DEF At, Writes
<1> QED
  BY <1>1, <1>2, <1>3, <1>4 DEF ServiceNext
-----------------------------------------------------------------------------
(* A worker that remembers an outage.                                      *)

LEMMA OthersStay ==
  ASSUME ServiceIInv, NEW w \in Worker,
         \/ Process(w) \/ Raise(w) \/ Stop(w) \/ Crash(w)
  PROVE  \A x \in Worker \ {w} : worker'[x] = worker[x] /\ txn'[x] = txn[x]
<1> SUFFICES ASSUME NEW x \in Worker \ {w}
             PROVE  worker'[x] = worker[x] /\ txn'[x] = txn[x]
  OBVIOUS
<1>1. /\ QueueIInv /\ w \in Session /\ x \in Session \ {w}
      /\ worker \in [Worker -> WorkerState]
  BY Sessions DEF ServiceIInv, ServiceTypeOK
<1>2. worker'[x] = worker[x]
  BY <1>1 DEF Process, Recover, Recovered, ClaimTask, NothingToClaim, TaskClaimed,
              Evaluate, Persist, Persisted, Wake, Start, Raise, Stop, Crash, Rest, GoTo
<1>3. CASE Operation(w) \/ BrokenTransaction(w)
  BY <1>1, <1>2, <1>3, OtherTxn
<1>4. CASE UNCHANGED txn
  BY <1>2, <1>4
<1>5. Operation(w) \/ BrokenTransaction(w) \/ UNCHANGED txn
  <2>1. CASE Persist(w)
    <3> DEFINE h == worker[w].held  v == worker[w].verdict
    <3>1. h.id \in TaskId /\ h.token \in Token
      BY <2>1, HeldType DEF Persist, ServiceIInv, BusyWorkers
    <3>2. v \in Failure => v.error \in EngineCode
      BY DEF Failure
    <3>3. v \in Result => v \in Outcome
      BY DEF Result
    <3> HIDE DEF h, v
    <3> QED
      BY <2>1, <3>1, <3>2, <3>3 DEF Persist, Operation, h, v
  <2>2. CASE ~Persist(w)
    BY <2>2 DEF Process, Recover, Recovered, ClaimTask, NothingToClaim, TaskClaimed,
                Evaluate, Persisted, Wake, Start, Raise, Stop, Crash, Operation
  <2> QED
    BY <2>1, <2>2
<1> QED
  BY <1>3, <1>4, <1>5

(* Before it has recovered, whatever it does, it claims nothing.           *)
LEMMA BlockedKept ==
  ASSUME ServiceIInv, BlockedWorkers, [ServiceNext]_serviceVars
  PROVE  BlockedWorkers' /\ BlockedStep
<1> SUFFICES ASSUME NEW x \in Worker
             PROVE  /\ worker'[x].blocked =>
                         \/ At(x, "sleep")' /\ Idle(x)'
                         \/ At(x, "probe")' /\ txn'[x].op \in {"none", "recover"}
                    /\ worker[x].blocked => txn'[x].op # "claim"
                    /\ worker[x].blocked /\ ~worker'[x].blocked =>
                         \/ txn[x].op = "recover" /\ txn'[x].op = "none"
                         \/ worker'[x].pc = "down"
  BY DEF BlockedWorkers, BlockedStep, At, Idle
<1>1. /\ worker[x].blocked => \/ At(x, "sleep") /\ Idle(x)
                              \/ At(x, "probe") /\ txn[x].op \in {"none", "recover"}
      /\ worker \in [Worker -> WorkerState] /\ worker[x] \in WorkerState
      /\ x \in Session /\ QueueIInv /\ txn \in [Session -> Transaction]
  BY Sessions DEF BlockedWorkers, ServiceIInv, ServiceTypeOK, QueueIInv, QueueTypeOK
<1>2. CASE worker'[x] = worker[x] /\ txn'[x].op = txn[x].op
  BY <1>1, <1>2 DEF At, Idle
<1>3. ASSUME NEW t \in TaskId, Submit(t) \/ Accept(t) \/ Refuse(t)
      PROVE  worker'[x] = worker[x] /\ txn'[x].op = txn[x].op
  <2>1. BrokenTransaction(t) \/ Operation(t)
    BY <1>3 DEF Submit, Accept, Refuse, BrokenTransaction, Operation
  <2>2. worker' = worker
    BY <1>3 DEF Submit, Accept, Refuse
  <2> QED
    BY <1>1, <2>1, <2>2, OtherTxn, Sessions
<1>4. CASE Clock
  BY <1>1, <1>2, <1>4 DEF Clock, Tick
<1>5. CASE Process(x) \/ Raise(x) \/ Stop(x) \/ Crash(x)
  <2>0. Commit(x) \/ Abort(x) => txn'[x] = NoTxn /\ NoTxn.op = "none"
    BY <1>1, EndedTxn DEF NoTxn
  <2>1. CASE Recover(x)
    BY <1>1, <2>1 DEF Recover, RecoverBegin, Begin, Idle, At
  <2>2. CASE Recovered(x)
    <3>1. txn'[x].op = "none" /\ txn[x].op # "none"
      BY <2>0, <2>2 DEF Recovered, Commit, Idle
    <3>2. CASE At(x, "recover")
      BY <1>1, <2>2, <3>1, <3>2 DEF Recovered, GoTo, At, WorkerState
    <3>3. CASE At(x, "probe")
      BY <1>1, <2>2, <3>1, <3>3 DEF Recovered, At, WorkerState, GoTo
    <3> QED
      BY <2>2, <3>2, <3>3 DEF Recovered
  <2>3. CASE ClaimTask(x) \/ Persist(x)
    <3>1. worker' = worker /\ ~worker[x].blocked
      BY <1>1, <2>3 DEF ClaimTask, Persist, At
    <3> QED
      BY <3>1
  <2>4. CASE NothingToClaim(x)
    <3>1. ~worker[x].blocked
      BY <1>1, <2>4 DEF NothingToClaim, At
    <3>2. worker'[x].blocked = worker[x].blocked
      BY <1>1, <2>4 DEF NothingToClaim, Rest, WorkerState
    <3> QED
      BY <3>1, <3>2
  <2>5. CASE TaskClaimed(x) \/ Evaluate(x)
    <3>1. ~worker[x].blocked
      BY <1>1, <2>5 DEF TaskClaimed, Evaluate, At
    <3>2. worker'[x].blocked = worker[x].blocked
      BY <1>1, <2>5 DEF TaskClaimed, Evaluate, WorkerState
    <3> QED
      BY <3>1, <3>2
  <2>6. CASE Persisted(x)
    <3>1. ~worker[x].blocked
      BY <1>1, <2>6 DEF Persisted, At
    <3>2. worker'[x].blocked = worker[x].blocked
      BY <1>1, <2>6 DEF Persisted, Rest, WorkerState
    <3> QED
      BY <3>1, <3>2
  <2>7. CASE Raise(x)
    <3>1. /\ worker'[x].pc = "sleep"
          /\ worker'[x].blocked = (worker[x].blocked \/ At(x, "persist"))
      BY <1>1, <2>7 DEF Raise, Rest, WorkerState
    <3>2. txn'[x].op = "none"
      <4>1. CASE Idle(x) /\ UNCHANGED queueVars
        BY <4>1 DEF Idle, queueVars
      <4> QED
        BY <2>0, <2>7, <4>1 DEF Raise, BrokenTransaction
    <3> QED
      BY <3>1, <3>2 DEF At, Idle
  <2>8. CASE Wake(x)
    <3>1. UNCHANGED txn
      BY <2>8 DEF Wake
    <3>2. CASE worker[x].stop
      BY <1>1, <2>8, <3>1, <3>2 DEF Wake, At, Idle, Down
    <3>3. CASE ~worker[x].stop
      BY <1>1, <2>8, <3>1, <3>3 DEF Wake, At, Idle, GoTo, FirstPlace, WorkerState
    <3> QED
      BY <3>2, <3>3
  <2>9. CASE Start(x)
    <3>1. ~worker[x].blocked
      BY <1>1, <2>9 DEF Start, At
    <3>2. worker'[x].blocked = worker[x].blocked
      BY <1>1, <2>9 DEF Start, GoTo, WorkerState
    <3> QED
      BY <3>1, <3>2
  <2>10. CASE Stop(x)
    <3>1. /\ worker'[x].pc = worker[x].pc
          /\ worker'[x].blocked = worker[x].blocked /\ txn' = txn
      BY <1>1, <2>10 DEF Stop, WorkerState
    <3> QED
      BY <1>1, <3>1 DEF At, Idle
  <2>11. CASE Crash(x)
    <3>1. worker'[x].pc = "down" /\ ~worker'[x].blocked
      BY <1>1, <2>11 DEF Crash, Down
    <3>2. worker[x].blocked => txn'[x].op # "claim"
      <4>1. CASE UNCHANGED queueVars
        BY <1>1, <4>1 DEF queueVars, Idle
      <4> QED
        BY <2>0, <2>11, <4>1 DEF Crash, BrokenTransaction
    <3> QED
      BY <3>1, <3>2
  <2> QED
    BY <1>5, <2>1, <2>2, <2>3, <2>4, <2>5, <2>6, <2>7, <2>8, <2>9, <2>10, <2>11
       DEF Process
<1>6. ASSUME NEW w \in Worker, w # x,
             Process(w) \/ Raise(w) \/ Stop(w) \/ Crash(w)
      PROVE  worker'[x] = worker[x] /\ txn'[x].op = txn[x].op
  BY <1>6, OthersStay
<1>7. CASE UNCHANGED serviceVars
  BY <1>2, <1>7 DEF serviceVars
<1> QED
  BY <1>2, <1>3, <1>4, <1>5, <1>6, <1>7 DEF ServiceNext
-----------------------------------------------------------------------------
(* The inductive invariant of the service, and what it is for.             *)

(* ServiceIInv holds in every state of the service: the invariants below,  *)
(* and the bookkeeping of workers, requests and evaluations they rest on.  *)
THEOREM ServiceInvariant == ServiceSpec => []ServiceIInv
<1> QED
  BY ServiceInitIInv, ServiceNextIInv, PTL DEF ServiceSpec

(* The API handlers and the worker loop use the queue only through the     *)
(* operations of app/tasks.py: all that is proved of it holds of them.     *)
THEOREM ServiceImplementsQueue == ServiceSpec => ServiceUsesQueue
<1>1. ServiceInit => QueueInit
  BY DEF ServiceInit
<1>2. ServiceIInv /\ [ServiceNext]_serviceVars => [QueueNext]_queueVars
  BY StepIsQueueStep DEF ServiceIInv
<1> QED
  BY <1>1, <1>2, ServiceInvariant, PTL DEF ServiceSpec, ServiceUsesQueue, QueueSpec

(* What the service owes a client that polls: whatever the handlers, the   *)
(* workers and their failures do, a task lives as TaskLifecycle says, and  *)
(* wears out.  The steps of the service are steps of the queue, so both    *)
(* follow from what is proved of any sessions that share it.               *)
THEOREM ServiceTasksComeToRest == ServiceSpec => LifecycleSpec /\ TasksWearOut
BY ServiceImplementsQueue, QueueImplementsLifecycle, TasksAreBounded
   DEF ServiceUsesQueue

(* The variables of the service keep their types: a worker has a place in  *)
(* process_once, and an evaluation the number of a claim it belongs to.    *)
THEOREM ServiceTypeCorrect == ServiceSpec => []ServiceTypeOK
<1>1. ServiceIInv => ServiceTypeOK
  BY DEF ServiceIInv
<1> QED
  BY <1>1, ServiceInvariant, PTL

(* worker.py decides between retry_task and fail_task on a task object it  *)
(* read before the evaluation; while its token still guards the row, the   *)
(* attempts it decides on are the attempts that are stored.                *)
THEOREM SnapshotsAgree == ServiceSpec => []SnapshotAgrees
<1>1. ServiceIInv => SnapshotAgrees
  BY DEF ServiceIInv
<1> QED
  BY <1>1, ServiceInvariant, PTL

(* Two workers with the same task in hand are on different attempts of it. *)
THEOREM AttemptsAreNotShared == ServiceSpec => []OneWorkerPerAttempt
<1>1. ServiceIInv => OneWorkerPerAttempt
  BY DEF ServiceIInv
<1> QED
  BY <1>1, ServiceInvariant, PTL

(* No attempt is ever evaluated twice, whatever fails in between.          *)
THEOREM EvaluationsAreNotRepeated == ServiceSpec => []OneEvaluationPerAttempt
<1>1. ServiceIInv => OneEvaluationPerAttempt
  BY DEF ServiceIInv
<1> QED
  BY <1>1, ServiceInvariant, PTL

(* A task that was answered with 202 is found by every later poll.         *)
THEOREM AcceptedTasksAreDurable == ServiceSpec => []AcceptedIsDurable
<1>1. ServiceIInv => AcceptedIsDurable
  BY DEF ServiceIInv
<1> QED
  BY <1>1, ServiceInvariant, PTL

(* A poll of a finished task reports what its last attempt's evaluation    *)
(* returned, or that its last lease expired.                               *)
THEOREM AnswersAreHonest == ServiceSpec => []HonestAnswer
<1>1. ServiceIInv => HonestAnswer
  BY DEF ServiceIInv
<1> QED
  BY <1>1, ServiceInvariant, PTL

(* A worker whose persist failed claims nothing before a recovery of its   *)
(* own is committed.                                                       *)
THEOREM BlockedWorkersClaimNothing == ServiceSpec => NoClaimWhileBlocked
<1>1. ServiceInit => BlockedWorkers
  BY DEF ServiceInit, BlockedWorkers, Down
<1>2. ServiceIInv /\ BlockedWorkers /\ [ServiceNext]_serviceVars
        => BlockedWorkers' /\ [BlockedStep]_serviceVars
  BY BlockedKept
<1> QED
  BY <1>1, <1>2, ServiceInvariant, PTL DEF ServiceSpec, NoClaimWhileBlocked
=============================================================================
