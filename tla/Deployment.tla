----------------------------- MODULE Deployment -----------------------------
(***************************************************************************)
(* The processes and their environment.  The API and the workers read the  *)
(* same environment (app/config.py), each when it starts, and it may have  *)
(* been edited in between.  A task carries the evaluation settings of the  *)
(* API that accepted it; a worker brings the lease and the name of the     *)
(* engine.  Three places check settings: Settings, validate_startup_config *)
(* of app/worker.py and _settings of app/stockfish.py.                     *)
(*                                                                         *)
(* The queue is the one of TaskRow, each transaction one step here and the *)
(* order of tasks left open: TaskQueue and Service model them.  A worker   *)
(* has one attempt at a time, so its name can be the token of its lease.   *)
(* The clock of an attempt starts with its lease, at the claim's           *)
(* CURRENT_TIMESTAMP.  Until it is persisted it takes at most its hard     *)
(* timeout, which evaluate_fen sees to, and Overrun: the clean-up          *)
(* (CapWithGrace of EngineAttempt) and the calls to the database on either *)
(* side of the evaluation.  A call that takes longer counts as one that    *)
(* fails; any call may, before or after its commit, any number of times.   *)
(***************************************************************************)
EXTENDS TaskRow

CONSTANTS
  Task,        \* the tasks clients submit
  Setting,     \* the environments that operators set up
  Installed,   \* the paths at which there is an engine
  Overrun,     \* what an attempt may take beyond its hard timeout
  Restarts,    \* bound on the starts of API and workers
  ConfigInvalid   \* ENGINE_CONFIG_INVALID

ASSUME DeploymentAssumption ==
  /\ \A s \in Setting : DOMAIN s = {"path", "search", "hard", "threads", "lease"}
  /\ \A s \in Setting : {s.search, s.hard, s.threads, s.lease} \subseteq Int
  /\ Null \notin Setting /\ Null \notin Task
  /\ ConfigInvalid \in EngineCode /\ LeaseExpired \notin EngineCode
  /\ Restarts \in Nat /\ Overrun \in Nat

VARIABLES
  api,       \* the settings of the API process; Null while it is down
  worker,    \* each worker's settings, task, time since it claimed it, and
             \* whether it has recovered since its last claim
  row,       \* the row of each task
  config,    \* its column evaluation_config
  version,   \* its column engine_version
  used,      \* history: what the engine of a completed task was run with
  disturbed, \* history: the tasks whose lease a stop, an edit or a call that
             \* failed has touched
  starts     \* how often a process has started

deploymentVars ==
  <<api, worker, row, config, version, used, disturbed, starts>>

Worker == Token

(* Settings.evaluation_config().  What it leaves out is lease_seconds.     *)
EvaluationConfig(s) ==
  [path |-> s.path, search |-> s.search, hard |-> s.hard, threads |-> s.threads]

Down == [settings |-> Null, held |-> Null, spent |-> 0, recovered |-> FALSE]

Up(w)   == worker[w].settings # Null
Free(w) == Up(w) /\ worker[w].held = Null
Busy(w) == worker[w].held # Null
-----------------------------------------------------------------------------
(* The three checks.                                                       *)

(* Mutant of LeaseBudget: the comparison of validate_lease_budget is < .   *)
LeaseBudgetOrEqual(s) == s.hard <= s.lease

LeaseBudget(s) == s.hard < s.lease

(* Settings: the fields, and validate_lease_budget.                        *)
ValidSettings(s) == /\ s.search > 0 /\ s.hard > 0 /\ s.threads >= 1 /\ s.lease > 0
                    /\ LeaseBudget(s)

(* Mutant of WorkerAccepts: the search may take longer than the attempt.   *)
AcceptsLongSearch(s) == /\ ValidSettings(s) /\ LeaseBudget(s)
                        /\ s.threads = 1 /\ s.path \in Installed

(* validate_startup_config, of valid Settings.                             *)
WorkerAccepts(s) == /\ ValidSettings(s) /\ LeaseBudget(s)
                    /\ s.search <= s.hard /\ s.threads = 1
                    /\ s.path \in Installed

(* _settings, before every attempt.                                        *)
AdapterAccepts(c) == /\ c.search > 0 /\ c.hard > 0 /\ c.threads >= 1
                     /\ c.search <= c.hard
-----------------------------------------------------------------------------
Start == starts < Restarts /\ starts' = starts + 1

(* Importing app.db reads the settings: an API with invalid ones is down.  *)
ApiStart(s) == /\ Start
               /\ api' = IF ValidSettings(s) THEN s ELSE Null
               /\ UNCHANGED <<worker, row, config, version, used, disturbed>>

(* POST: the row, with a snapshot of the settings.                         *)
Submit(t) == /\ api # Null /\ row[t] = Null
             /\ row' = [row EXCEPT ![t] = NewRow(0)]
             /\ config' = [config EXCEPT ![t] = EvaluationConfig(api)]
             /\ UNCHANGED <<api, worker, version, used, disturbed, starts>>

(* run_forever, up to its loop: the engine at the path tells its identity, *)
(* or fails to, and the process ends.                                      *)
WorkerStart(w, s) ==
  /\ Start /\ ~Up(w)
  /\ \E identified \in BOOLEAN :
       worker' = [worker EXCEPT ![w].settings =
                    IF WorkerAccepts(s) /\ identified THEN s ELSE Null]
  /\ UNCHANGED <<api, row, config, version, used, disturbed>>

(* It is killed, and its attempt with it.                                  *)
WorkerStops(w) ==
  /\ Up(w) /\ worker' = [worker EXCEPT ![w] = Down]
  /\ disturbed' = disturbed \cup ({worker[w].held} \ {Null})
  /\ UNCHANGED <<api, row, config, version, used, starts>>

(* Mutant of Recovered: the task waits for the worker that holds it.       *)
LeftAlone == row

Recovered == [t \in Task |-> IF Expired(row[t]) THEN GivenUp(row[t], LeaseExpired)
                                                ELSE row[t]]

(* process_once up to the evaluation, in two transactions: it recovers the *)
(* expired tasks, and then claims one, if there is one, with its own lease.*)
(* If the reply to the first is lost, the next poll begins with it again.  *)
Recover(w) ==
  /\ Free(w) /\ ~worker[w].recovered
  /\ row' = Recovered
  /\ version' = [t \in Task |-> IF Expired(row[t]) THEN Null ELSE version[t]]
  /\ worker' \in {worker, [worker EXCEPT ![w].recovered = TRUE]}
  /\ UNCHANGED <<api, config, used, disturbed, starts>>

Claim(w) ==
  /\ Free(w) /\ worker[w].recovered
  /\ \/ /\ \A t \in Task : ~Queued(row[t])
        /\ worker' = [worker EXCEPT ![w].recovered = FALSE]
        /\ UNCHANGED <<row, version, disturbed>>
     \/ \E t \in Task :
          /\ Queued(row[t])
          /\ row' = [row EXCEPT ![t] =
                       [Claimed(@, w) EXCEPT !.lease = worker[w].settings.lease]]
          /\ version' = [version EXCEPT ![t] = Null]
          /\ worker' = [worker EXCEPT ![w].held = t, ![w].spent = 0,
                                      ![w].recovered = FALSE]
          /\ disturbed' = IF config[t] = EvaluationConfig(worker[w].settings)
                          THEN disturbed ELSE disturbed \cup {t}
  /\ UNCHANGED <<api, config, used, starts>>

(* The claim raises: it was rolled back, or its reply was lost and a task  *)
(* is under way that no worker knows of.                                   *)
ClaimRaises(w) ==
  /\ Free(w) /\ worker[w].recovered
  /\ worker' = [worker EXCEPT ![w].recovered = FALSE]
  /\ \/ UNCHANGED <<row, version, disturbed>>
     \/ \E t \in Task :
          /\ Queued(row[t])
          /\ row' = [row EXCEPT ![t] =
                       [Claimed(@, w) EXCEPT !.lease = worker[w].settings.lease]]
          /\ version' = [version EXCEPT ![t] = Null]
          /\ disturbed' = disturbed \cup {t}
  /\ UNCHANGED <<api, config, used, starts>>

(* What evaluate_fen is given.                                             *)
Given(w) == config[worker[w].held]

Writes(w, written, engine) ==
  LET t == worker[w].held
      mine == AttemptGuard(row[t], w)
  IN  /\ row' = IF mine THEN [row EXCEPT ![t] = written] ELSE row
      /\ version' = IF mine
                    THEN [version EXCEPT ![t] = IF written.status = "completed"
                                                THEN worker[w].settings.path ELSE Null]
                    ELSE version
      /\ used' = IF mine THEN [used EXCEPT ![t] = engine] ELSE used
      /\ worker' = [worker EXCEPT ![w].held = Null, ![w].spent = 0]
      /\ UNCHANGED <<api, config, disturbed, starts>>

Zero == [evaluation_cp |-> 0, mate_winner |-> Null, mate_moves |-> Null]

(* The attempt ends and is persisted, unless its lease is over.  Only an   *)
(* engine that is there, run with settings the adapter accepts, has a      *)
(* result; a terminal position has one without an engine.                  *)
Succeeds(w) ==
  /\ Busy(w)
  /\ \/ Writes(w, CompletedRow(row[worker[w].held], Zero), Null)
     \/ /\ AdapterAccepts(Given(w)) /\ Given(w).path \in Installed
        /\ Writes(w, CompletedRow(row[worker[w].held], Zero), Given(w))

Fails(w) ==
  /\ Busy(w)
  /\ \E code \in EngineCode :
       /\ ~AdapterAccepts(Given(w)) <=> code = ConfigInvalid
       /\ Writes(w, GivenUp(row[worker[w].held], code), Null)

(* The call that persists raises and has not committed, or does so only    *)
(* after the lease.  (One that commits before it raises is Succeeds or     *)
(* Fails.)  The task stays as it is until its lease is over.               *)
PersistRaises(w) ==
  /\ Busy(w) /\ worker' = [worker EXCEPT ![w].held = Null, ![w].spent = 0]
  /\ disturbed' = disturbed \cup {worker[w].held}
  /\ UNCHANGED <<api, row, config, version, used, starts>>

(* An attempt outlasts its hard timeout by no more than Overrun.           *)
Due(w) == Busy(w) /\ worker[w].spent >= Given(w).hard + Overrun

Tick ==
  /\ \A w \in Worker : ~Due(w)
  /\ \E t \in Task : HasLeaseLeft(row[t])
  /\ row' = [t \in Task |-> Aged(row[t])]
  /\ worker' = [w \in Worker |-> [worker[w] EXCEPT !.spent = IF Busy(w) THEN @ + 1 ELSE @]]
  /\ UNCHANGED <<api, config, version, used, disturbed, starts>>
-----------------------------------------------------------------------------
DeploymentInit == /\ api = Null /\ worker = [w \in Worker |-> Down]
                  /\ row = [t \in Task |-> Null] /\ config = [t \in Task |-> Null]
                  /\ version = [t \in Task |-> Null] /\ used = [t \in Task |-> Null]
                  /\ disturbed = {} /\ starts = 0

DeploymentNext ==
  \/ \E s \in Setting : ApiStart(s) \/ \E w \in Worker : WorkerStart(w, s)
  \/ \E t \in Task : Submit(t)
  \/ \E w \in Worker : \/ WorkerStops(w) \/ Recover(w) \/ Claim(w) \/ ClaimRaises(w)
                       \/ Succeeds(w) \/ Fails(w) \/ PersistRaises(w)
  \/ Tick

DeploymentSpec == DeploymentInit /\ [][DeploymentNext]_deploymentVars

(* A worker that is up polls, an attempt ends, and time passes.  A worker  *)
(* that gets to its claim in poll after poll has one that does not raise:  *)
(* outages end.  Nothing is assumed of operators and clients.              *)
FairDeployment ==
  /\ DeploymentSpec /\ WF_deploymentVars(Tick)
  /\ \A w \in Worker :
       /\ WF_deploymentVars(Recover(w)) /\ SF_deploymentVars(Claim(w))
       /\ WF_deploymentVars(Succeeds(w) \/ Fails(w) \/ PersistRaises(w))
-----------------------------------------------------------------------------
Config == {EvaluationConfig(s) : s \in Setting}

ASSUME ConfigAssumption == Null \notin Config

(* Every column is of its kind, and a worker that runs passed its checks.  *)
DeploymentTypeOK ==
  /\ api \in Setting \cup {Null}
  /\ \A w \in Worker :
       /\ worker[w].settings \in {s \in Setting : WorkerAccepts(s)} \cup {Null}
       /\ worker[w].held \in Task \cup {Null}
       /\ worker[w].spent \in Nat /\ worker[w].recovered \in BOOLEAN
  /\ \A t \in Task : /\ row[t] = Null \/ (row[t] \in Row /\ SatisfiesChecks(row[t]))
                     /\ config[t] \in Config \cup {Null}
                     /\ used[t] \in Config \cup {Null}

(* An attempt that no stop, no edit and no failing call has touched has    *)
(* its lease until its claim is older than its hard timeout: whatever the  *)
(* engine does, the two lease checks let what is persisted by then be      *)
(* stored.                                                                 *)
PromptKeepsLease ==
  \A w \in Worker :
    Busy(w) /\ worker[w].held \notin disturbed /\ worker[w].spent <= Given(w).hard
      => AttemptGuard(row[worker[w].held], w)

(* A task that only workers of its own settings have served, none of which *)
(* was stopped on it or had a call about it fail, loses its lease only     *)
(* where that is longer than the hard timeout, as it must be, but leaves   *)
(* no room for the clean-up and the calls around the evaluation.           *)
Tight(c) == \E s \in Setting : /\ EvaluationConfig(s) = c
                              /\ s.hard < s.lease /\ s.lease <= s.hard + Overrun

ExpiryHasCause ==
  \A t \in Task \ disturbed :
    row[t] # Null /\ (row[t].error_code = LeaseExpired \/ Expired(row[t]))
      => Tight(config[t])

(* ENGINE_CONFIG_INVALID is told only of tasks that were accepted by an    *)
(* API in an environment in which no worker would have started.            *)
InvalidIsForeign ==
  \A t \in Task :
    row[t] # Null /\ row[t].error_code = ConfigInvalid =>
      \A s \in Setting : EvaluationConfig(s) = config[t] => ~WorkerAccepts(s)

(* What the docstring of Settings says: a result is reproducible even      *)
(* after the defaults have changed.  The engine was run with what was in   *)
(* force when the task was accepted, whoever ran it.                       *)
Reproducible ==
  \A t \in Task : used[t] # Null => row[t].status = "completed" /\ used[t] = config[t]

(* While a worker is up every task comes to an end, whatever settings it   *)
(* carries: one that needs longer than the lease is not tried for ever.    *)
EveryTaskSettles ==
  \A t \in Task : row[t] # Null ~> Final(row[t]) \/ \A w \in Worker : ~Up(w)

(* What the messages of validate_lease_budget and validate_startup_config  *)
(* say: the hard timeout is shorter than the task lease.                   *)
LeaseCoversAttempt ==
  \A w \in Worker : Busy(w) => Given(w).hard < worker[w].settings.lease

(* What the docstring of engine_identity says: the identity it returns is  *)
(* the metadata of the result, that of the engine which computed it.       *)
VersionIsOfEngine ==
  \A t \in Task : used[t] # Null => version[t] = used[t].path

(* What is left of it: of a task that no stop, no edit and no failing call *)
(* has touched, the identity a worker read when it started is that of the  *)
(* engine it ran.                                                          *)
VersionHolds ==
  \A t \in Task \ disturbed : used[t] # Null => version[t] = used[t].path
-----------------------------------------------------------------------------
(* What makes the invariants inductive.                                    *)
WorkerState == [settings : Setting \cup {Null}, held : Task \cup {Null}, spent : Nat,
                recovered : BOOLEAN]

Shape ==
  /\ DeploymentTypeOK
  /\ worker \in [Worker -> WorkerState] /\ disturbed \subseteq Task
  /\ row \in [Task -> Row \cup {Null}] /\ config \in [Task -> Config \cup {Null}]
  /\ used \in [Task -> Config \cup {Null}]
  /\ \A w \in Worker : Busy(w) => Up(w) /\ row[worker[w].held] # Null
  /\ \A t \in Task : /\ row[t] # Null => config[t] # Null
                     /\ row[t] = Null => used[t] = Null
                     /\ Queued(row[t]) => row[t].attempts < MaxAttempts

(* An attempt that nothing has disturbed, and that has its lease, is in    *)
(* the hands of the worker whose lease it is; what it has spent and what   *)
(* is left of the lease add up to that lease.                              *)
InGoodHands ==
  \A t \in Task \ disturbed : HasLeaseLeft(row[t]) =>
    LET w == row[t].lease_token
    IN  /\ worker[w].held = t
        /\ config[t] = EvaluationConfig(worker[w].settings)
        /\ worker[w].spent + row[t].lease = worker[w].settings.lease
        /\ worker[w].spent <= worker[w].settings.hard + Overrun

(* The inductive invariant of a deployment.                                *)
DeploymentIInv == /\ Shape /\ InGoodHands /\ PromptKeepsLease /\ ExpiryHasCause
                  /\ InvalidIsForeign /\ Reproducible
-----------------------------------------------------------------------------
(* Whatever the environments, the tasks live as TaskLifecycle says.        *)
Lifecycle == INSTANCE TaskLifecycle WITH
  TaskId   <- Task,
  Verdict  <- Verdicts,
  phase    <- [t \in Task |-> PhaseOf(row[t])],
  attempts <- [t \in Task |-> AttemptsOf(row[t])],
  verdict  <- [t \in Task |-> VerdictOf(row[t])]

DeploymentLifecycle == Lifecycle!Spec
=============================================================================
