------------------------------ MODULE Service ------------------------------
(***************************************************************************)
(* The service around the queue: the API handlers of app/api.py that       *)
(* insert and show tasks, and the worker processes of app/worker.py that   *)
(* poll for them.  TaskQueue lets its clients do anything; here they do    *)
(* what this code does, with what this code can go wrong.                  *)
(*                                                                         *)
(* A worker runs process_once again and again: recover, claim, evaluate    *)
(* outside any transaction, persist.  A step that talks to the database is *)
(* two actions, the statements and the commit.  It may instead raise:      *)
(* before the commit (nothing happened), or after it (the reply was lost,  *)
(* and the worker does not know).  Workers crash, are told to stop, and    *)
(* are restarted by the container runtime.                                 *)
(*                                                                         *)
(* One handler of each task's POST is the session named by the task's id.  *)
(***************************************************************************)
EXTENDS TaskQueue

CONSTANTS
  Worker,      \* the worker processes
  MaxFaults    \* bound on crashes, stops and lost connections

ASSUME ServiceAssumption ==
  /\ Session = Worker \cup TaskId
  /\ Worker \cap TaskId = {}
  /\ MaxFaults \in Nat
  /\ Null \notin [id : TaskId, token : Token, attempts : Nat]

VARIABLES
  worker,    \* each worker's place in process_once, and its locals
  request,   \* each task's POST: not sent, in its transaction, or answered
  evals,     \* history: what the evaluations of each task returned
  faults     \* how many faults there have been

serviceVars == <<rows, txn, issued, worker, request, evals, faults>>

-----------------------------------------------------------------------------
(* The task object a claim returns is a snapshot: it is never read again.  *)
Holding == [id : TaskId, token : Token, attempts : Nat]

(* What evaluate_fen gives: a number or a MateResult, or an EngineError.   *)
Result  == {o \in Outcome : ValidOutcome(o)}
Failure == [error : EngineCode]
Verdict == Result \cup Failure

Place == {"down", "probe", "recover", "claim", "evaluate", "persist", "sleep"}

(* Where process_once calls the database.                                  *)
DatabasePlace == {"probe", "recover", "claim", "persist"}

WorkerState == [pc : Place, held : Holding \cup {Null},
                verdict : Verdict \cup {Null},
                blocked : BOOLEAN, stop : BOOLEAN]

Down == [pc |-> "down", held |-> Null, verdict |-> Null,
         blocked |-> FALSE, stop |-> FALSE]

At(w, pc) == worker[w].pc = pc

GoTo(w, pc) == worker' = [worker EXCEPT ![w].pc = pc]

(* The end of a process_once, by return or by exception: locals are gone.  *)
Rest(w, blocked) ==
  worker' = [worker EXCEPT ![w].pc = "sleep", ![w].held = Null,
                           ![w].verdict = Null, ![w].blocked = blocked]

Fault == faults < MaxFaults /\ faults' = faults + 1
-----------------------------------------------------------------------------
(* submit_task: create_task, then commit, then the answer.                 *)

(* Mutant of Submit: the answer is sent once the row has been flushed.     *)
SubmitEager(t) == /\ request[t] = "none" /\ InsertBegin(t, t)
                  /\ request' = [request EXCEPT ![t] = "accepted"]
                  /\ UNCHANGED <<worker, evals, faults>>

(* Mutant of Submit: the row is inserted outside any transaction.          *)
SubmitAutocommit(t) == /\ request[t] = "none" /\ rows[t] = Null
                       /\ rows' = [rows EXCEPT ![t] = NewRow(0)]
                       /\ request' = [request EXCEPT ![t] = "accepted"]
                       /\ UNCHANGED <<txn, issued, worker, evals, faults>>

Submit(t) == /\ request[t] = "none" /\ InsertBegin(t, t)
             /\ request' = [request EXCEPT ![t] = "open"]
             /\ UNCHANGED <<worker, evals, faults>>

Accept(t) == /\ request[t] = "open" /\ Commit(t)
             /\ request' = [request EXCEPT ![t] = "accepted"]
             /\ UNCHANGED <<worker, evals, faults>>

(* A transaction that raised, or whose process died: it was rolled back,   *)
(* or it was committed and the reply was lost.                             *)
BrokenTransaction(s) == \/ Idle(s) /\ UNCHANGED queueVars
                        \/ Abort(s)
                        \/ Commit(s)

(* Any exception before the answer is a 503; a crash is no answer at all.  *)
Refuse(t) == /\ request[t] \in {"none", "open"} /\ Fault
             /\ BrokenTransaction(t)
             /\ request' = [request EXCEPT ![t] = "refused"]
             /\ UNCHANGED <<worker, evals>>
-----------------------------------------------------------------------------
(* process_once.                                                           *)

Recover(w) == /\ At(w, "probe") \/ At(w, "recover")
              /\ RecoverBegin(w)
              /\ UNCHANGED <<worker, request, evals, faults>>

(* A worker that could not persist first proves the database reachable.    *)
Recovered(w) ==
  /\ \/ At(w, "recover") /\ GoTo(w, "claim")
     \/ /\ At(w, "probe")
        /\ worker' = [worker EXCEPT ![w].pc = "recover", ![w].blocked = FALSE]
  /\ Commit(w)
  /\ UNCHANGED <<request, evals, faults>>

ClaimTask(w) == /\ At(w, "claim") /\ ClaimBegin(w)
                /\ UNCHANGED <<worker, request, evals, faults>>

NothingToClaim(w) == /\ At(w, "claim") /\ Idle(w) /\ Available = {}
                     /\ Rest(w, worker[w].blocked)
                     /\ UNCHANGED <<rows, txn, issued, request, evals, faults>>

(* Mutant of Snapshot: the row as it was selected, not as it was claimed.  *)
SelectedRow(w, t) == [id |-> t, token |-> txn[w].token,
                      attempts |-> txn[w].writes[t].attempts - 1]

Snapshot(w, t) == [id |-> t, token |-> txn[w].token,
                   attempts |-> txn[w].writes[t].attempts]

TaskClaimed(w) ==
  /\ At(w, "claim")
  /\ \E t \in TaskId :
       /\ Writes(w, t)
       /\ worker' = [worker EXCEPT ![w].pc = "evaluate",
                                   ![w].held = Snapshot(w, t)]
  /\ Commit(w)
  /\ UNCHANGED <<request, evals, faults>>

Evaluate(w) ==
  /\ At(w, "evaluate")
  /\ \E v \in Verdict :
       /\ worker' = [worker EXCEPT ![w].pc = "persist", ![w].verdict = v]
       /\ evals' = [evals EXCEPT ![worker[w].held.id] =
                      @ \cup {[attempt |-> worker[w].held.attempts, verdict |-> v]}]
  /\ UNCHANGED <<rows, txn, issued, request, faults>>

(* _persist_success or _persist_failure.                                   *)
Persist(w) ==
  /\ At(w, "persist")
  /\ LET h == worker[w].held  v == worker[w].verdict
     IN  \/ v \in Result     /\ CompleteBegin(w, h.id, h.token, v)
         \/ v \in Failure    /\ FailBegin(w, h.id, h.token, v.error)
  /\ UNCHANGED <<worker, request, evals, faults>>

(* Mutant of Persisted: a stale result is sent again until it is accepted. *)
PersistedAtLast(w) ==
  /\ At(w, "persist") /\ Commit(w)
  /\ IF \E t \in TaskId : Writes(w, t) THEN Rest(w, worker[w].blocked)
                                       ELSE UNCHANGED worker
  /\ UNCHANGED <<request, evals, faults>>

(* A stale attempt has written nothing; its result is discarded.           *)
Persisted(w) == /\ At(w, "persist") /\ Commit(w)
                /\ Rest(w, worker[w].blocked)
                /\ UNCHANGED <<request, evals, faults>>

(* Mutant of Raise: a result that was not persisted is computed again.     *)
RaiseAndRetry(w) ==
  /\ worker[w].pc \in DatabasePlace /\ Fault /\ BrokenTransaction(w)
  /\ IF At(w, "persist") THEN GoTo(w, "evaluate") ELSE Rest(w, worker[w].blocked)
  /\ UNCHANGED <<request, evals>>

(* A database call raised: process_once does too, and run_forever logs it. *)
Raise(w) ==
  /\ worker[w].pc \in DatabasePlace /\ Fault /\ BrokenTransaction(w)
  /\ Rest(w, worker[w].blocked \/ At(w, "persist"))
  /\ UNCHANGED <<request, evals>>
-----------------------------------------------------------------------------
(* run_forever, and the process around it.                                 *)

(* Mutant of FirstPlace: process_once does not begin by recovering.        *)
ClaimFirst(blocked) == IF blocked THEN "probe" ELSE "claim"

(* Mutant of FirstPlace: the memory of an outage is not looked at.         *)
RecoverOnly(blocked) == "recover"

FirstPlace(blocked) == IF blocked THEN "probe" ELSE "recover"

Wake(w) == /\ At(w, "sleep")
           /\ IF worker[w].stop
              THEN worker' = [worker EXCEPT ![w] = Down]
              ELSE GoTo(w, FirstPlace(worker[w].blocked))
           /\ UNCHANGED <<rows, txn, issued, request, evals, faults>>

(* SIGTERM: noticed where the loop looks, never inside process_once.       *)
Stop(w) == /\ ~At(w, "down") /\ ~worker[w].stop /\ Fault
           /\ worker' = [worker EXCEPT ![w].stop = TRUE]
           /\ UNCHANGED <<rows, txn, issued, request, evals>>

Crash(w) == /\ ~At(w, "down") /\ Fault /\ BrokenTransaction(w)
            /\ worker' = [worker EXCEPT ![w] = Down]
            /\ UNCHANGED <<request, evals>>

Start(w) == /\ At(w, "down")
            /\ GoTo(w, FirstPlace(FALSE))
            /\ UNCHANGED <<rows, txn, issued, request, evals, faults>>

Clock == Tick /\ UNCHANGED <<worker, request, evals, faults>>
-----------------------------------------------------------------------------
ServiceInit == /\ QueueInit
               /\ worker = [w \in Worker |-> Down]
               /\ request = [t \in TaskId |-> "none"]
               /\ evals = [t \in TaskId |-> {}]
               /\ faults = 0

Process(w) == \/ Recover(w) \/ Recovered(w) \/ ClaimTask(w) \/ NothingToClaim(w)
              \/ TaskClaimed(w) \/ Evaluate(w) \/ Persist(w) \/ Persisted(w)
              \/ Wake(w) \/ Start(w)

ServiceNext ==
  \/ \E t \in TaskId : Submit(t) \/ Accept(t) \/ Refuse(t)
  \/ \E w \in Worker : Process(w) \/ Raise(w) \/ Stop(w) \/ Crash(w)
  \/ Clock

ServiceSpec == ServiceInit /\ [][ServiceNext]_serviceVars

(* A running process takes its next step, a stopped one is restarted, the  *)
(* database answers, and the clock does not stand still.                   *)
Fairness == /\ \A w \in Worker : WF_serviceVars(Process(w))
            /\ \A t \in TaskId : WF_serviceVars(Accept(t))
            /\ WF_serviceVars(Clock)

FairService == ServiceSpec /\ Fairness
-----------------------------------------------------------------------------
ServiceTypeOK ==
  /\ QueueTypeOK
  /\ worker \in [Worker -> WorkerState]
  /\ request \in [TaskId -> {"none", "open", "accepted", "refused"}]
  /\ evals \in [TaskId -> SUBSET [attempt : 1 .. MaxAttempts, verdict : Verdict]]
  /\ faults \in 0 .. MaxFaults

Holds(w, t) == worker[w].held # Null /\ worker[w].held.id = t

(* The snapshot a worker decides on stays right for as long as its token   *)
(* guards the task: retry_task or fail_task, chosen by worker.py from the  *)
(* snapshot's attempts, is what tasks.py then does.                        *)
SnapshotAgrees ==
  \A w \in Worker, t \in TaskId :
    Holds(w, t) /\ Guards(worker[w].held.token, rows[t])
      => worker[w].held.attempts = rows[t].attempts

(* Workers that compete for a task, one of them perhaps long overtaken,    *)
(* are on different attempts of it.                                        *)
OneWorkerPerAttempt ==
  \A w, x \in Worker, t \in TaskId :
    Holds(w, t) /\ Holds(x, t) /\ w # x
      => worker[w].held.attempts # worker[x].held.attempts

(* An attempt is evaluated at most once: no crash, outage or lost reply    *)
(* makes a worker run the engine again without a new claim.                *)
OneEvaluationPerAttempt ==
  \A t \in TaskId : \A e, f \in evals[t] : e.attempt = f.attempt => e = f

(* What a poll of the task is answered: app/api.py poll_task.              *)
Answer(t) == IF rows[t] = Null THEN [status |-> "not found"] ELSE Payload(rows[t])

(* A task whose submission was acknowledged is never unknown to a poll:    *)
(* README promises 202 only after the row has been committed.              *)
AcceptedIsDurable ==
  \A t \in TaskId : request[t] = "accepted" => Answer(t).status # "not found"

(* A finished task reports what the evaluation of its last attempt gave:   *)
(* never nothing, never an earlier attempt's result, never another task's. *)
(* LEASE_EXPIRED is the one report that needs no evaluation; it takes all  *)
(* the attempts.                                                           *)
Told(a, v) == IF v \in Failure
              THEN a = [status |-> "failed", evaluation |-> Null,
                        mate |-> Null, error |-> v.error]
              ELSE a = [status |-> "completed", evaluation |-> v.evaluation_cp,
                        mate |-> IF v.mate_winner = Null THEN Null
                                 ELSE <<v.mate_winner, v.mate_moves>>,
                        error |-> Null]

HonestRow(t, r) ==
  \/ \E e \in evals[t] : e.attempt = r.attempts /\ Told(Payload(r), e.verdict)
  \/ r.status = "failed" /\ r.error_code = LeaseExpired /\ r.attempts = MaxAttempts

HonestAnswer == \A t \in TaskId : Final(rows[t]) => HonestRow(t, rows[t])

(* While the last persist of a worker failed, it claims nothing: not until *)
(* a recovery of its own has been committed.                               *)
BlockedStep ==
  \A w \in Worker :
    worker[w].blocked => /\ txn'[w].op # "claim"
                         /\ ~worker'[w].blocked =>
                              \/ txn[w].op = "recover" /\ txn'[w].op = "none"
                              \/ worker'[w].pc = "down"

NoClaimWhileBlocked == [][BlockedStep]_serviceVars

(* The service is a client of the queue: everything proved of TaskQueue    *)
(* holds here.                                                             *)
ServiceUsesQueue == QueueSpec
-----------------------------------------------------------------------------
(* What the invariants above need to be inductive.                         *)

(* A worker has an attempt in hand exactly while it evaluates or persists, *)
(* and persists what it evaluated.                                         *)
BusyWorkers ==
  \A w \in Worker :
    /\ worker[w].held # Null <=> At(w, "evaluate") \/ At(w, "persist")
    /\ At(w, "persist") =>
         [attempt |-> worker[w].held.attempts, verdict |-> worker[w].verdict]
           \in evals[worker[w].held.id]

(* A worker that is claiming has no other transaction open.                *)
ClaimsOnly == \A w \in Worker :
                At(w, "claim") => Idle(w) \/ txn[w].op = "claim"

(* An attempt in hand was claimed, and counted.                            *)
HeldClaims ==
  \A w \in Worker, t \in TaskId :
    Holds(w, t) => /\ rows[t] # Null
                   /\ worker[w].held.token \in issued[t]
                   /\ worker[w].held.attempts \in 1 .. rows[t].attempts

(* What has been evaluated was claimed, and not by a worker still at it.   *)
EvaluatedClaims ==
  \A t \in TaskId : \A e \in evals[t] :
    /\ rows[t] # Null /\ e.attempt <= rows[t].attempts
    /\ \A w \in Worker : Holds(w, t) /\ At(w, "evaluate")
                            => worker[w].held.attempts # e.attempt

OpenInserts == \A t \in TaskId :
                 request[t] = "open" => txn[t].op = "insert" /\ Writes(t, t)

PendingHonest == \A s \in Session, t \in TaskId :
                   Writes(s, t) /\ Final(txn[s].writes[t])
                     => HonestRow(t, txn[s].writes[t])

(* A worker that remembers an outage sleeps, or probes.                    *)
BlockedWorkers ==
  \A w \in Worker :
    worker[w].blocked => \/ At(w, "sleep") /\ Idle(w)
                         \/ At(w, "probe") /\ txn[w].op \in {"none", "recover"}

(* The inductive invariant of the service.                                 *)
ServiceIInv == /\ QueueIInv /\ ServiceTypeOK
               /\ SnapshotAgrees /\ OneWorkerPerAttempt
               /\ OneEvaluationPerAttempt /\ AcceptedIsDurable /\ HonestAnswer
               /\ BusyWorkers /\ HeldClaims /\ EvaluatedClaims
               /\ OpenInserts /\ PendingHonest /\ ClaimsOnly
-----------------------------------------------------------------------------
(* Every task in the table ends, whatever fails on the way and whatever    *)
(* becomes of the workers that had it.                                     *)
EveryTaskEnds == \A t \in TaskId : rows[t] # Null ~> Final(rows[t])

(* Every worker polls again and again: none is stuck in a call, behind a   *)
(* lock, or with an attempt it has lost.                                   *)
EveryWorkerPolls == \A w \in Worker : []<>(At(w, "recover"))
=============================================================================
