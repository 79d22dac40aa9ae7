# Verification of the chess evaluation service

This directory is a TLA+ development about the service in this repository: an
HTTP API that accepts chess positions, a table in PostgreSQL that is the queue,
and worker processes that evaluate the positions with Stockfish. TLC checks the
modules on small instances, TLAPS proves the main results for every instance.

## The system

| Component | State it keeps | Operations | Interacts with |
|---|---|---|---|
| task row (`app/models.py`, migration 0001) | one row of `tasks`, under ten CHECK constraints | none of its own | written by the queue, read by the API |
| durable queue (`app/tasks.py`) | the table; row locks and uncommitted rows of open transactions | `create_task`, `claim_one`, `recover_expired`, `complete_task`, `fail_or_retry`, `get_task` | called by the API and by every worker, each in a database session of its own |
| HTTP API (`app/api.py`) | nothing between requests | `POST /tasks`, `GET /tasks/{id}`, body limit | `create_task` + commit; `get_task` |
| worker (`app/worker.py`) | `_db_blocked`, the stop event, the task in hand | `process_once`: recover, claim, evaluate, persist; `run_forever`; signal handlers | queue, engine adapter; restarted by the container runtime |
| engine adapter (`app/stockfish.py`) | per attempt: a thread, a child process, a deadline | `evaluate_fen`, `engine_identity` | called by the worker outside any transaction |
| request body limit (`app/api.py`) | per request: the chunks received so far | read to the end, refuse, replay | between the ASGI server and the API |
| scores (`app/stockfish.py`) | none | `_terminal_result`, `_normalise_score` | from the engine's report to the worker's arguments |
| position checks (`app/fen.py`, `app/schemas.py`) | none | parse and validate a FEN | called by the API; the worker parses what they let through |
| settings (`app/config.py`, start-up checks of `app/worker.py`, `_settings` of `app/stockfish.py`) | environment, read once per process | `get_settings`, `evaluation_config`, three sets of checks | API snapshots them into each task, worker reads lease and polling |
| database sessions (`app/db.py`) | connection pool | `get_session`, `SessionFactory` | API, worker |
| deployment (`compose.yaml`) | containers | migrate once, then api and worker, `restart: unless-stopped` | sends SIGTERM, restarts |

What is hard here:

* **Concurrency.** Any number of workers and API processes share the table.
  A transaction evaluates its WHERE clauses at one moment and commits at a later
  one; the database clock moves in between, and so do other sessions.
* **Leases.** A worker that was slow, paused or partitioned comes back with the
  result of an attempt that has been recovered, and perhaps claimed again.
* **Failure.** A call to the database can fail before it did anything, or after
  it did everything. A worker can die between any two of its steps. A worker
  that could not persist must stop claiming, and must start again.
* **Bounded retries.** Two attempts, counted in the row, compared in two places
  and bounded by a CHECK constraint.
* **Timeouts.** The engine attempt is a thread watched by another one, with a
  clean-up thread of its own.
* **Settings that meet late.** A task brings the settings of the API process that
  accepted it, a worker those of its own start; an edit may lie in between.
* **Streams.** A body arrives in chunks, with a length that may be declared wrong,
  from a client that may leave.
* **Perspective.** Engines speak of the side to move, mates have a sign, zero is an
  evaluation and NULL is none, and three layers translate.

What makes each component correct:

* queue: at most one holder per attempt, no lost update, at most `MAX_ATTEMPTS`
  attempts, finished tasks final, no write the CHECK constraints refuse;
* API: 202 only for a task that will be found, and an answer that tells what an
  evaluation said;
* worker: no attempt shared or repeated, decisions on a task object that is not
  out of date where it counts, no claim during an outage, every task ends;
* engine adapter: an outcome soon after the hard cap at the latest, no engine
  without an owner, no pile of engines, no good score thrown away without need;
* body limit: never more of a body kept than the limit, the whole body once or none,
  no refusal without cause;
* scores: what a client reads is what the engine said, from White's view, and a task
  fails only if each of its attempts has, for a reason that can be named;
* position checks: exactly the FENs, stored in one form that reads back;
* settings: a lease that lasts for every result that is in time if nothing else goes
  wrong, engines run with what was in force at submission, and no combination that
  retries for ever.

`PROJECT.json` lists the hazards at their lines and the property that covers each.

## Modules

| Module | Models | Role |
|---|---|---|
| `TaskRow` | columns, CHECK constraints, the values each operation writes, the WHERE clauses | pure operators |
| `TaskQueue` (EXTENDS `TaskRow`) | `app/tasks.py` under arbitrary clients | state machine |
| `TaskLifecycle` | what the queue promises of a task; `TaskQueue` and `Deployment` implement it | abstract specification |
| `Service` (EXTENDS `TaskQueue`) | `app/api.py` handlers and `app/worker.py` on the queue | composition |
| `EngineAttempt` | the watchdog of `app/stockfish.py` | state machine with a clock |
| `AttemptPromise` | what `evaluate_fen` promises the worker | abstract specification |
| `EngineScore` (EXTENDS `TaskRow`) | scores and terminal positions, from the engine to the client | state machine around pure operators |
| `Deployment` (EXTENDS `TaskRow`) | settings, start-up checks, restarts with an edited environment | composition, with a clock |
| `BodyLimit` | `RequestBodyLimitMiddleware` of `app/api.py` | state machine |
| `FenCheck` | `app/fen.py`, called by `TaskCreate` | pure operators against a reference definition |
| `TaskRowProofs`, `TaskQueueProofs`, `ServiceProofs`, `EngineAttemptProofs`, `EngineScoreProofs`, `DeploymentProofs`, `BodyLimitProofs`, `FenCheckProofs` | | theorems |
| `MCTaskQueue`, `MCService`, `MCEngineAttempt`, `MCEngineScore`, `MCDeployment`, `MCBodyLimit`, `MCFenCheck` | | instances for TLC |

### TaskRow

A row is a record of the columns that influence a queue operation. The lease is
the number of clock ticks *left*, so that the database clock needs no counter:
`lease_expires_at > clock_timestamp()` is `lease > 0`. `SatisfiesChecks` has one
conjunct per CHECK constraint of `app/models.py`. `Claimed`, `Requeued`,
`FailedRow`, `GivenUp`, `CompletedRow` are the assignments of `claim_one`,
`recover_expired`, `fail_or_retry` and `complete_task`, `ClearAttempt` the
helper they share. `AttemptGuard` is `_attempt_guard`, `Payload` is
`_task_payload`: what a poll shows of a row.

Operators whose comment begins with "Mutant of" are plausible bugs, kept beside
what they would replace. They are not part of the model; they show that each
property can fail.

### TaskQueue

`rows` is the committed table. `txn[s]` is the open transaction of session `s`:
its operation and the rows it has written and locked. `issued` is a history
variable: the tokens of the claims that were committed for each task.

Every operation is two steps, its statements (`InsertBegin`, `ClaimBegin`,
`RecoverBegin`, `CompleteBegin`, `FailBegin`) and `Commit` or `Abort`. Between the
two the clock may tick (`Tick`) and other sessions act. `FOR UPDATE SKIP LOCKED`
leaves locked rows out of `Available` and `Recoverable`; the guarded updates of
`complete_task` and `fail_or_retry` wait for a lock on a row they match. This is
READ COMMITTED: a statement that waited looks at the row again. `created_at` is
the start of the insert's transaction, so that ties and late commits are
possible; `id` breaks ties.

The clients here may do anything: any session calls any operation, with any
token and any result arguments, and disconnects at any point. What is proved of
this module does therefore not depend on how the worker is written.

### Service

One session per worker, and one per task for the handler of its POST.

* `request[t]`: `none`, `open` (inserted, not committed), `accepted` (202),
  `refused` (503, or no answer).
* `worker[w]`: its place in `process_once`, the snapshot of the task it claimed
  (`held`), the verdict of its evaluation, `_db_blocked` and the stop event.
* `evals[t]`: a history of what was evaluated, by attempt.
* `faults`: how much has gone wrong so far.

| Code | Action |
|---|---|
| `submit_task`: insert; commit and 202; any exception | `Submit`; `Accept`; `Refuse` |
| `_recover`, also as the probe while `_db_blocked` | `Recover`, `Recovered` |
| `_claim`: nothing there; a task | `NothingToClaim`; `ClaimTask`, `TaskClaimed` |
| `evaluator(fen, config)` | `Evaluate` |
| `_persist_success`, `_persist_failure` | `Persist`, `Persisted` |
| an exception of any database call | `Raise` |
| the loop of `run_forever`; SIGTERM | `Wake`; `Stop` |
| death of the process; `restart: unless-stopped` | `Crash`; `Start` |
| `poll_task` | no action: it only reads; `Answer` is what it returns |

`BrokenTransaction` is the heart of the fault model. A call that raises, or a
process that dies, was rolled back, or was committed without the caller's
knowledge, or had not begun.

### EngineAttempt

Time is discrete and passes only in calls and waits: `Tick` takes one from every
wait and from every thread's `budget`, the ticks before its deadline. What is
due (a wait that is over, an engine that has died) is acted upon before the next
tick. `max(0.01, ...)` is a floor of zero ticks.

* `caller`: `evaluate_fen`, or the pause between two polls (`idle`); which
  attempt it is at; `spent`, the ticks since the call began.
* `thread[a]`: `_evaluate_engine` of attempt `a`; it outlives its call when the
  join has timed out. `engine[a]` is its process, `holder[a]` and `output[a]` the
  two dictionaries they share.
* `scored[a]`: history, the budget left when the score was known.

| Code | Action |
|---|---|
| `evaluate_fen` up to `thread.start()` | `Call` |
| `popen_uci`: process started; returns; raises | `Spawned`; `Opened`; `OpenFails` |
| `configure`, and the look at the deadline after it | `Configured`, `CallFails` |
| `analyse`, `_normalise_score` | `Analysed`, `CallFails` |
| `_close_engine` in the thread: quit; its grace is over; terminate, wait, kill | `QuitReturns`; `QuitHangs`; `Terminated` |
| `thread.join` returns; times out | `Joined`; `GivesUp` |
| `_close_engine` in the caller | `CallerQuits`; `CallerHangs`; `CallerTerminates` |

What is outside `src/` is modelled from its use: `SimpleEngine` raises when the
timeout it was opened with is over, a `quit` that has not returned within the
grace period is still waiting for the process, `kill` works. `_close_engine` lets a
`quit` that raises pass for one that returned (`QuitRaises`): with a hard timeout
below the caller's grace period of 0.25 s the caller then leaves without having
killed the engine. The thread's own grace period ends with the deadline and is never
longer than the library's timeout, which was what was left of the deadline when the
engine was started. A position that is
terminal never gets here: `evaluate_fen` answers it without an engine.

`AttemptPromise` is what is left when threads, engines and clean-ups are taken
away: a counter of calls, the time of the present one, and the outcome of each.
`KeepsPromise` says that EngineAttempt implements it, with
`call <- caller.attempt` and `spent <- caller.spent`; for the `Evaluate` of Service
a whole call is one step, with one of the same outcomes.

### EngineScore

One task, from `position` (what python-chess says of the board: who moves, check,
moves, material, the clock of 75 moves) over `report[a]` (what the engine of attempt
`a` said, as a PovScore of the side to move) and `verdict[a]` (what its worker is
about to persist) to `row` and, through `Payload`, to the client. `held` are the
attempts that a worker has in hand, and `fate[a]` is a history: how the row's lease
for the attempt ended. Attempts overlap, since a worker may still be at one whose
lease is over while the next is claimed; attempt `a` has the token `a`.

| Code | Action |
|---|---|
| `claim_one`; the same, with its reply lost | `Claim` |
| `evaluate_fen` without its clock: a terminal result; a report that `NormaliseScore` turns into a value or a `MissingScore`, or that the watchdog discards; a failure without a report | `Evaluate` |
| `_persist_success`, `_persist_failure`: stored; stale; refused by `complete_task` | `Persist` |
| the worker dies; the call that persists raises and has not committed | `Lost` |
| `recover_expired`; the clock | `Recover`; `Tick` |

An engine may report anything except a mate in zero for a side that is not mated.

### Deployment

* `api`, `worker[w].settings`: the settings each process has read when it started.
  `ApiStart` and `WorkerStart` pick any environment of `Setting`: the operator may
  have edited it. Both apply `ValidSettings`; a worker also applies
  `WorkerAccepts` and asks the engine for its identity, which may fail.
* `config[t]`, `version[t]`: the columns `evaluation_config` (written by `Submit`
  from the API's settings) and `engine_version` (written with the result, from the
  worker's).
* `worker[w].held`, `.spent`, `.recovered`: the task in hand, the ticks it has taken,
  and whether the worker has recovered since its last claim. `process_once` up to the
  evaluation is two transactions and two actions: `Recover`, then `Claim` with the
  worker's own lease; other workers, a tick or a restart may come between them.
  `Succeeds` and `Fails` are the evaluation with `Given(w)`, the task's settings, and
  the persist; `AdapterAccepts` is `_settings`.
* Any call may raise, any number of times. A recovery whose reply is lost is made
  again by the next poll. `ClaimRaises` is a claim that was rolled back, or that was
  committed without the worker's knowledge: a task is then running with nobody at it.
  `PersistRaises` leaves the task running until its lease is over.
* `used`, `disturbed`: history; what the engine of a result was run with, and the
  tasks whose lease a stop of their worker, an edit, or a call that failed has touched.

Each transaction is one step here and the claim order is open: TaskQueue and Service
have the rest. The clock of an attempt (`spent`) starts with its lease, at the
`CURRENT_TIMESTAMP` of the claim. Until it is persisted it takes at most its hard
timeout and `Overrun`: the two grace periods of EngineAttempt's `CapWithGrace`, and the
calls to the database before and after the evaluation. A call that takes longer counts
as one that fails. `Tick` waits for an attempt that has used up both.

### BodyLimit

* `client`, `sent`, `pending`: the client, everything it has sent (history), and what
  the server still buffers. `Send`, `Finish`, `Leave`.
* `place`, `declared`, `body`: where `__call__` is, the content-length (a number, or
  none that can be read), `b"".join(chunks)`.
* `seen`, `answer`: what the application has received, and who has answered.

| Code | Action |
|---|---|
| the header check | `CheckHeader` |
| one round of the loop: a part of the body; a disconnect | `Receive`; `ReceiveDisconnect` |
| the application calls `replay_once` or `disconnected_receive` | `ApplicationReceives` |
| the application responds | `ApplicationAnswers` |

`receive()` may report any part of what has arrived, so that chunks as the client
sent them and chunks as the middleware sees them differ.

### FenCheck

A text is a record of fields, each a sequence of characters. `CharWidth` is the body of
the loop over a rank and `RankWidth` the loop; loops are recursive functions, so that
they can be reasoned about. `ValidateFields` is all checks in their order, `Accepts`
adds the length and what python-chess's parser refuses beyond them, `Normalised` is
what is stored.
`valid` stands for `Board.is_valid()` and is a choice. `IsFen` and `Meaning`, which
the properties compare with, are written from what a FEN is: every square once,
numbers in their decimal spelling, White's castling rights before Black's.

## What the runs check

`queue` — two sessions, two tasks, four tokens, a lease of two ticks, every
combination of result arguments that `complete_task` distinguishes (invalid ones
too). Two sessions are what a lock conflict or a lost update takes; two tasks are
what the claim order and a recovery of several rows take; four tokens are the
claims two tasks can have in all, so that no behaviour is cut short; two ticks
let a lease be full, running out, and expired, during an open transaction or
between two.

* `ConstraintsHold`: nothing stored or about to be stored violates a CHECK.
* `RowLocks`, `NoLostUpdate`: one writer per task, and what it evaluated before
  its commit is still right at its commit, although ticks and other sessions came
  between.
* `AttemptBudget`: `attempts` counts the committed claims exactly.
* `FinalIsForever`, `StaleForever`, `LeaseIsExclusive`: what a step may never do.
* `LifecycleSpec`: TaskQueue implements TaskLifecycle.
* `TasksWearOut`: every change of a row makes `Remaining` smaller, a number made of the
  attempts and the lease that are left. A requeue that gave an attempt back, or a
  lease that something other than a claim renewed, would break it.

`service_faults` — two workers, one task, a lease of two ticks, an ordinary
result of zero, a mate in zero (so that "falsy" and NULL differ), one engine
error, and any two faults at any two points. One task is enough for what two
workers can do to each other. `SnapshotAgrees`, `OneEvaluationPerAttempt`,
`AcceptedIsDurable`, `HonestAnswer`, `NoClaimWhileBlocked`; `ServiceUsesQueue` shows
that the handlers and the worker are clients of TaskQueue.

`service_tasks` — two workers, two tasks, one fault and a lease of one tick: a
worker moves from one task to the other while its last result is under way.
`OneWorkerPerAttempt`, and `HonestAnswer` again, where a result could end up on the
other task.

`service_live` — fairness added: every task in the table ends (`EveryTaskEnds`),
every worker polls again and again (`EveryWorkerPolls`). No symmetry, because TLC's
symmetry is not sound for liveness. (That every attempt ends, and every outage of a
worker, follows from these two.)

`attempt` — three calls, a deadline of four ticks, a search of two, a grace
period and a pause of one, engines that answer, die or wedge at any tick. The
proportions are those of the defaults (10 s, 1 s, 0.25 s, 0.5 s) as far as they
matter: grace and pause are shorter than the deadline, the search too. Three
calls are what `AtMostTwoEngines` takes: one that leaves an engine behind, one
that may fail quickly, one more.

* `LateEnginesAreIdle`: when the watchdog gives up while the thread is still
  starting the engine, the caller sees nothing to close; the thread closes the
  engine, and does not search with it.
* `AtMostTwoEngines`: hence engines do not pile up, whatever they do. It rests on
  the pause: `run_forever` waits after every poll, also after a failed one.
* `AnsweredIsClosed`: a call that was answered leaves no process.
* `PromptScoresCount`: a score is discarded for a timeout only if it was known
  within two grace periods of the deadline. (It is discarded then: the thread is
  still closing the engine when the join times out.)
* `KeepsPromise`: the refinement of AttemptPromise, by which a call is also over two
  grace periods after the hard cap (`CapWithGrace`).
* `EveryCallReturns`, `EveryEngineEnds`: whatever engines do.

`attempt_cap` — a disagreement: the comment of `evaluate_fen` says that the hard
cap includes the shutdown. The join lasts until the deadline, and the caller's
`_close_engine` begins after it, with a grace period that does not depend on the
deadline (the thread's own does). The run finds a call that is still under way
after the cap; `CapWithGrace` is the bound the code keeps.

`score` — every position (both sides, in check or not, with moves or not, and so on),
centipawns and mates from -2 to 2, bounded or not, two attempts, a lease of one tick,
a missing score, a timeout and a crash. Larger numbers are
treated like 1 and 2: the code only negates, compares with zero and takes absolute
values. `TrueAnswer` compares what a poll shows with the position and the engine's
report, stated without the code's operators. `FailureHasCause` says what a failed task
went through: every attempt's evaluation failed or its lease was over. An evaluation
fails neither in a position the rules decide nor, unless the watchdog had given it up,
with a score the engine is sure of; and no attempt is lost because `complete_task` would
not take the arguments the worker spreads a result over. What the run does not say is
that a score is never lost: two attempts whose lease is over fail any task.
That the row satisfies its constraints, and that `complete_task` accepts what the
worker sends, is proved (`ScoresAreStorable`).

`deployment` — two tasks, two workers, three starts of any process, calls that fail
at any point, and five environments: two sound ones that differ in engine, timeout
and lease, and three with mistakes (a search longer than the attempt; a lease no longer
than the timeout; two threads and an engine that is not installed). Three starts are an
API, a worker, and one of them again, or the other worker, after an edit. An attempt may
take one tick longer than the hard timeout, so that one sound lease covers it and the
other does not.

* `PromptKeepsLease`: an attempt that no stop, no edit and no failing call has touched
  has its lease until its claim is older than its hard timeout, so that what is
  persisted by then can be stored. It is where the strict comparison of lease and hard
  timeout counts.
* `ExpiryHasCause`: such a task can still lose its lease, but only to the clean-up of
  a timeout and the calls around the evaluation, where the lease leaves those no time.
  No check of the code compares the lease with more than the hard timeout; the defaults
  (10 s, 30 s, 0.25 s) leave room. A task that was touched may lose its lease whatever
  its length: a persist that raises, or the lost reply of a claim, is enough.
* `InvalidIsForeign`: `ENGINE_CONFIG_INVALID` tells of an environment in which no
  worker would have started.
* `EveryTaskSettles`: whatever a task carries, it ends while a worker is up.
* `DeploymentLifecycle`: whatever settings meet, the tasks live as TaskLifecycle says.

`deployment_lease`, `deployment_version` — two disagreements, found with nothing
but the two sound environments. The start-up checks compare lease and hard timeout
within one process, but the timeout that counts is the task's and the lease the
worker's. And the engine identity stored with a result is that of the worker's own
engine path, whereas the result comes from the engine at the task's path.

`body` — a limit of three bytes, up to five sent in chunks of zero to three, two
values of a byte (so that a swapped or repeated chunk shows), declared lengths
below, at and above the limit, none, and a negative one; the application reads
twice. `BufferBounded`, `WholeBody`, `RefusalsAreJust`, and `EveryRequestEnds`: a
request that its client ended, left or overfilled is answered. `Limit` is the constant
`REQUEST_LIMIT_BYTES`: `MAX_REQUEST_BODY_BYTES` is validated by `Settings` and passed on
by `compose.yaml`, and read by nothing.

`fen` — a board of two ranks of two squares and texts that deviate from a good one in
one or two related fields: every rank of up to three characters, every castling field
of up to three characters and every order of the four letters, every pair of clocks of
up to two characters, en passant with either side to move, five to seven fields.
`ExactlyFens` compares what is accepted with what a FEN is; `StoredIsCanonical` says
that texts of one meaning are stored alike and that what is stored is read as itself.
Each check of the code looks at one field, or at two that vary together here; the loop
over a rank does not depend on its length.

### Fairness, and why the code justifies it

`Process(w)` is weakly fair: a running process goes on, `process_once` catches
what the evaluator raises, `run_forever` catches what `process_once` raises and
waits a bounded interval, an evaluation has a deadline, and the container
runtime restarts a process that ended (`restart: unless-stopped`). `Accept(t)` is
weakly fair because the handler goes on to its commit. `Clock` is weakly fair
because clocks run. Faults are not fair, and there are finitely many: an outage
that never ends leaves every task where it is, rightly. No fairness is assumed
between workers beyond that: none has to win a particular race.

`FairAttempts` assumes that time goes on (`Tick`), that the caller goes on when a
wait of its own is over or what it waits for has happened (`CallerAlone`), and
that an attempt thread goes on when a timeout of the library is over or its engine
is dead (`Unanswered`). It does not assume that an engine ever answers, quits or
dies by itself.

`FairDeployment` is the same: time passes, a worker that is up goes on with its poll (its
recovery, then its claim), and an attempt ends, in a result, an error, or a persist that
raises. Calls may fail without bound here, so that outages have to end by fairness: a
worker that gets to its claim in poll after poll has, some time, one that does not raise.
Operators and clients owe nothing; a worker need not stay up, which is why
`EveryTaskSettles` ends with "or no worker is up".

`FairBody` lets the middleware go on when the server has something for it, and the
application answer; a handler of this API does. The client is not fair.

### Bounds

`Calls` bounds the calls of `evaluate_fen`, `Restarts` the starts of processes,
`MaxSent` and `MaxReceives` a request, `MaxScore` and `MaxMate` what an engine
reports, `MaxDigits` the spelling of a number. `MaxFaults` bounds `faults`, `MaxStamp`
the instants that `created_at` can distinguish. Leases are bounded by their length,
attempts by the code, tokens by the number of claims there can be. Nothing else is
bounded.

## What is proved

For any sessions, workers, tasks, tokens, lease, number of attempts and number of
faults, from the assumptions named in the modules (`RowAssumption`: the lease and
the number of attempts are positive, NULL is no value; `QueueAssumption`: ids are
ordered; `ServiceAssumption`: workers and requests are distinct sessions).

`TaskQueueProofs` first shows (in `TaskRowProofs`) for each value the operations write, that
it is a row and satisfies the constraints; then that each operation, a commit, a rollback
and a tick preserve `QueueIInv`. The invariants are not inductive alone:

* `NoLostUpdate` is what makes a commit correct: it says, while the transaction
  is open, what the row under its lock looks like. It needs `RowLocks` (nobody
  else may change that row) and survives a tick because the row and the
  uncommitted row age together, and because neither an expired lease nor a token
  ever comes back.
* `AttemptBudget` counts tokens, so a claim's token must be new when it commits,
  not only when it was drawn: `FreshPending`.
* a requeued row is compared with the one it replaces, so it must carry no old
  error: `CleanRows`.

`ResultsAreFinal`, `AttemptsAreExclusive`, `TokensFence` and
`QueueImplementsLifecycle` are about steps, and follow from the invariant.

`TasksAreBounded` (`TasksWearOut`) is the half of termination that needs no fairness.
An attempt weighs `LeaseTicks + 2`: its claim, the ticks of its lease, and its end.
`Remaining` is that weight for each attempt not yet claimed, one for a task that is
not over, and what is left of the running lease. For it to fall at a claim no lease
may be longer than `LeaseTicks`, stored or about to be stored: `LeaseBound`
(`LeasesAreBounded`), inductive beside `QueueIInv`. A task's row is hence changed at
most `MaxAttempts * (LeaseTicks + 2) + 1` times after its insert, ticks of its lease
included, by any clients at all.

`ServiceProofs` shows that each step of the service is a step of the queue, or
none; everything above then holds of the service. `ServiceIInv` adds what the
service's own properties need:

* `HeldClaims`: what a worker has in hand was claimed, under a committed token
  and with a number no higher than the row's. A new claim's number is higher than
  all of them, hence `OneWorkerPerAttempt`. A token that guards cannot have seen
  a later claim, hence `SnapshotAgrees`.
* `EvaluatedClaims`: a number that has been evaluated is not in the hands of a
  worker still evaluating, hence `OneEvaluationPerAttempt`.
* `PendingHonest`: what a transaction is about to publish is already true, hence
  `HonestAnswer`, commit or no commit, reply or no reply.
* `BlockedWorkers`, kept apart from `ServiceIInv`: a worker that remembers an
  outage sleeps or probes.

`ServiceTasksComeToRest` carries `LifecycleSpec` and `TasksWearOut` over to the service: no
crash, restart or lost connection adds to what a task can cost.

`LocksAreExclusive` (`RowLocks`) needs nothing but the locks themselves.

`EngineAttemptProofs`: for any number of calls and any deadline, search, grace period
and pause (`AttemptAssumption`: all positive, and the search no longer than the
deadline, which `_settings` checks). The theorems suppose `ShortGrace`, a hard timeout
longer than the grace period: no check asks for it, and with a shorter one an engine may
outlive its call while it searches (`QuitRaises`: with a hard timeout of one tick and
a grace period of two, TLC refutes `LateEnginesAreIdle`). `AttemptIInv` adds to the types:

* `Calling`: the caller's wait and its thread's remaining deadline are the same
  number, and what is spent and what is left add up to the deadline; hence
  `CapWithGrace`, which with the order of outcomes gives the refinement
  (`AttemptsKeepPromise`).
* `Placed`: what each place of a thread says of its engine and of the holder; an
  engine is started after its thread and ended before it, hence `EnginesAreOwned`.
* `LateEnds` and `OneLate`: an engine that outlives its call has a definite number of
  ticks left, and they are used up before the next call can time out, because the
  pause comes between. So there is at most one, hence `AtMostTwoEngines`.
* `Timely`: how old a score is in each place of the clean-up, hence
  `PromptScoresCount`.

`DeploymentProofs`: for any environments, tasks, workers, starts and overrun.
`InGoodHands` is the argument for `PromptKeepsLease` and `ExpiryHasCause`: an attempt
that no stop, no edit and no failing call has disturbed is held by the worker whose
lease it has, under that worker's own settings; time spent and lease left add up to the lease, and no more than
the hard timeout and the overrun is spent. As the lease is longer than the hard
timeout, it is not over before that is; it can be over before the overrun is only if
it is no longer than both together. The invariant also holds `Reproducible`: the
engine of a stored result was run with the task's own settings. `VersionsHold` is what
is left of the claim that `deployment_version` refutes: of an undisturbed task, the stored identity is that of the engine that ran, because, again
by `InGoodHands`, the worker's path is the task's. `DeploymentImplementsLifecycle` is
the refinement of TaskLifecycle: it needs that the attempts of a queued task are fewer
than `MaxAttempts` (in `Shape`), and `RowVerdict` of `TaskRowProofs`, by which a final
row has one verdict, kept for ever.

`EngineScoreProofs`: for any bounds on scores and mates, any lease and any number of
attempts. `Candid` says that the verdict of every attempt would publish what is true, or
is an error that may be; `TrueAnswer` follows when it is persisted. `InOrder` says that
attempts are claimed in their order, that all but the last have ended, and how: that an
attempt whose result is stored is the last, and that one in hand is the present one or
has lost its lease; hence `FailureHasCause`. For both, no verdict is ever one that
`complete_task` refuses (`ScoresAreStorable`).

`BodyLimitProofs`: for any limit, chunks and declared lengths. `Accounted` says that
what was sent is what has been received followed by what is pending, `Replayed` that
the application has seen nothing, or the body first and disconnects after it.

`FenCheckProofs`: for a board of any size, any pieces and digits and any texts, from
`FenAssumption` (digits have different values from 0 to 9, pieces are no digits, and a
number of an accepted length has at most `MaxDigits` digits).

* `AcceptsTheFens`: the code accepts exactly the FENs. The loop that adds up widths
  and refuses characters ends with `Size` exactly when the rank gives `Size` squares
  (`RanksAreChecked`): a refused character is wider than a rank, and no later one
  makes up for it. A number that matches the pattern is the shortest spelling of its
  value, and every shortest spelling matches (`NumbersAreChecked`): prefixes of
  numerals of one length can be compared, and a leading zero can be dropped. A
  castling field of distinct letters that the parser reads is an ordering of White's
  rights followed by one of Black's (`CastlingIsChecked`).
* `NormalForm`: what is stored says the same as the text, is accepted, and is stored
  as itself. An accepted rank is among those `SpellRank` chooses from, and an accepted
  number is the one spelling of its value (`UnsignedIsUnique`), so that the choices
  exist.
* `OnlyFensAreAccepted` and `StoredTextsAreCanonical` follow with `FenIInv`.

Induction is done in a first-order form: the numbers up to which a fact holds are a
set that has 0 and, with each number, the next (`SetInduction`, `BoundedInduction`,
proved from the least number of a set, `LeastNumber`); `Recursion` shows that a
recursive function has a solution, `SameSteps` that it has no other.

Only model-checked: the liveness properties (`EveryTaskEnds`, `EveryWorkerPolls`,
`EveryCallReturns`, `EveryEngineEnds`, `EveryRequestEnds`,
`EveryTaskSettles`), because TLAPS here has no support for ENABLED, on which fairness rests.

## What is not modelled

`PROJECT.json` lists every component. Left out: python-chess (external in `FenCheck`
and `EngineScore`), the response models of `app/schemas.py` (no endpoint uses them),
logging, the SQLite dialect of the unit tests, connection pooling, URL rewriting,
alembic's own machinery, health checks and the order of start-up, the cache-control
header of polls, the hash, skill and polling settings (checked like the threads, and
with no further effect on the state).

## How the modules grew

The queue and what it promises came first, then the service on top of it, since
every other part hands its results through them; then the adapter's watchdog with
its promise, the scores that pass through it, the settings that join the two, and the
two checks a request meets before it is a task. Each theorem was model-checked, with
its inductive invariant, before it was proved. The runs keep one property per question:
type invariants and inductive invariants are proved, and no longer checked by a run of
their own.
