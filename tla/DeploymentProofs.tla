-------------------------- MODULE DeploymentProofs --------------------------
(***************************************************************************)
(* What holds of API, workers and tasks whatever environments operators    *)
(* set up, in whatever order processes are started with them, and for any  *)
(* number of tasks and workers.                                            *)
(***************************************************************************)
EXTENDS Deployment, TaskRowProofs

(* The invariant again, task by task.                                      *)
InHand(t) ==
  LET w == row[t].lease_token
  IN  /\ worker[w].held = t
      /\ config[t] = EvaluationConfig(worker[w].settings)
      /\ worker[w].spent + row[t].lease = worker[w].settings.lease
      /\ worker[w].spent <= worker[w].settings.hard + Overrun

(* And worker by worker: an attempt in time has its lease.                 *)
InTime(w) == Busy(w) /\ worker[w].held \notin disturbed
                     /\ worker[w].spent <= Given(w).hard
               => AttemptGuard(row[worker[w].held], w)

Typed(t) == /\ row[t] \in Row \cup {Null}
            /\ config[t] \in Config \cup {Null} /\ used[t] \in Config \cup {Null}
            /\ row[t] # Null => SatisfiesChecks(row[t]) /\ config[t] # Null
            /\ row[t] = Null => used[t] = Null
            /\ Queued(row[t]) => row[t].attempts < MaxAttempts

Undisturbed(t) ==
  /\ row[t] # Null /\ (row[t].error_code = LeaseExpired \/ Expired(row[t]))
       => Tight(config[t])
  /\ HasLeaseLeft(row[t]) => InHand(t)

Foreign(t) == \A s \in Setting : EvaluationConfig(s) = config[t] => ~WorkerAccepts(s)

Fine(t) == /\ Typed(t)
           /\ t \notin disturbed => Undisturbed(t)
           /\ row[t] # Null /\ row[t].error_code = ConfigInvalid => Foreign(t)
           /\ used[t] # Null => row[t].status = "completed" /\ used[t] = config[t]

Base ==
  /\ api \in Setting \cup {Null}
  /\ worker \in [Worker -> WorkerState] /\ disturbed \subseteq Task
  /\ row \in [Task -> Row \cup {Null}] /\ config \in [Task -> Config \cup {Null}]
  /\ used \in [Task -> Config \cup {Null}]
  /\ \A w \in Worker : /\ Up(w) => WorkerAccepts(worker[w].settings)
                       /\ Busy(w) => Up(w) /\ row[worker[w].held] # Null

Whole == Base /\ (\A t \in Task : Fine(t)) /\ (\A w \in Worker : InTime(w))

LEMMA Nulls ==
  /\ Null \notin Setting /\ Null \notin Task /\ Null \notin Row /\ Null \notin Token
  /\ Null \notin Int /\ Null \notin ErrorCode /\ ConfigInvalid \in EngineCode
  /\ LeaseExpired \notin EngineCode /\ EngineCode \subseteq ErrorCode
  /\ LeaseExpired \in ErrorCode
BY DeploymentAssumption, RowAssumption DEF ErrorCode

LEMMA WholeIsIInv == Whole <=> DeploymentIInv
<1>1. ASSUME Whole PROVE DeploymentIInv
  <2>1. Shape
    BY <1>1, Nulls DEF Whole, Base, Fine, Typed, Shape, DeploymentTypeOK, WorkerState, Up
  <2>2. InGoodHands /\ ExpiryHasCause
    BY <1>1 DEF Whole, Fine, Undisturbed, InHand, InGoodHands, ExpiryHasCause
  <2>3. InvalidIsForeign /\ Reproducible /\ PromptKeepsLease
    BY <1>1 DEF Whole, Fine, Foreign, InvalidIsForeign, Reproducible, InTime,
                PromptKeepsLease
  <2> QED BY <2>1, <2>2, <2>3 DEF DeploymentIInv
<1>2. ASSUME DeploymentIInv PROVE Whole
  <2>1. Base
    BY <1>2 DEF DeploymentIInv, Shape, DeploymentTypeOK, Base, Up
  <2>2. ASSUME NEW t \in Task PROVE Fine(t)
    <3>1. Typed(t)
      BY <1>2 DEF DeploymentIInv, Shape, DeploymentTypeOK, Typed
    <3>2. t \notin disturbed => Undisturbed(t)
      BY <1>2 DEF DeploymentIInv, InGoodHands, ExpiryHasCause, Undisturbed, InHand
    <3> QED
      BY <1>2, <3>1, <3>2
         DEF DeploymentIInv, InvalidIsForeign, Reproducible, Fine, Foreign
  <2>3. \A w \in Worker : InTime(w)
    BY <1>2 DEF DeploymentIInv, PromptKeepsLease, InTime
  <2> QED BY <2>1, <2>2, <2>3 DEF Whole
<1> QED BY <1>1, <1>2
-----------------------------------------------------------------------------
(* Settings.                                                               *)

LEMMA SettingNumbers ==
  ASSUME NEW s \in Setting
  PROVE  s.search \in Int /\ s.hard \in Int /\ s.threads \in Int /\ s.lease \in Int
BY DeploymentAssumption

LEMMA ConfigOf ==
  ASSUME NEW s
  PROVE  /\ EvaluationConfig(s).hard = s.hard /\ EvaluationConfig(s).search = s.search
         /\ EvaluationConfig(s).threads = s.threads
BY DEF EvaluationConfig

(* What a worker starts with, the adapter takes, and the lease outlasts.   *)
LEMMA AcceptedSettings ==
  ASSUME NEW s \in Setting, WorkerAccepts(s)
  PROVE  /\ s.hard \in Nat \ {0} /\ s.lease \in Nat \ {0} /\ s.hard < s.lease
         /\ AdapterAccepts(EvaluationConfig(s))
BY SettingNumbers, ConfigOf DEF WorkerAccepts, ValidSettings, LeaseBudget, AdapterAccepts

(* The holder of a lease is a worker.                                      *)
LEMMA Leaseholder ==
  ASSUME NEW r \in Row, SatisfiesChecks(r), Running(r)
  PROVE  r.lease_token \in Worker /\ r.lease \in Nat
BY Nulls DEF SatisfiesChecks, Leased, Running, Row, Worker

(* A task that a step does not concern.                                    *)
LEMMA Unmoved ==
  ASSUME NEW t \in Task, Fine(t), row'[t] = row[t], config'[t] = config[t],
         used'[t] = used[t],
         \/ t \in disturbed'
         \/ /\ t \notin disturbed
            /\ HasLeaseLeft(row[t]) =>
                 worker'[row[t].lease_token] = worker[row[t].lease_token]
  PROVE  Fine(t)'
<1>1. t \notin disturbed' => Undisturbed(t)'
  BY DEF Fine, Undisturbed, InHand, HasLeaseLeft, Expired, HasLease, Running, Tight
<1> QED
  BY <1>1 DEF Fine, Typed, Foreign, Queued

(* A worker that a step does not concern.                                  *)
LEMMA Untouched ==
  ASSUME Whole, NEW w \in Worker, worker'[w] = worker[w], config' = config,
         disturbed \subseteq disturbed',
         AttemptGuard(row[worker[w].held], w) /\ Busy(w)
           => row'[worker[w].held] = row[worker[w].held]
  PROVE  InTime(w)'
BY DEF Whole, InTime, Busy, Given
-----------------------------------------------------------------------------
(* The steps, and that each of them preserves the invariant.               *)

LEMMA InitiallyWhole == DeploymentInit => Whole
<1> SUFFICES ASSUME DeploymentInit PROVE Whole
  OBVIOUS
<1>1. Base
  BY Nulls DEF DeploymentInit, Base, WorkerState, Down, Up, Busy
<1>2. \A t \in Task : Fine(t)
  BY DEF DeploymentInit, Fine, Typed, Undisturbed, Queued, Running, Expired, HasLease,
         HasLeaseLeft
<1>3. \A w \in Worker : InTime(w)
  BY DEF DeploymentInit, InTime, Busy, Down
<1> QED BY <1>1, <1>2, <1>3 DEF Whole

LEMMA ApiStartKeeps ==
  ASSUME Whole, NEW s \in Setting, ApiStart(s) PROVE Whole'
<1>1. UNCHANGED <<worker, row, config, used, disturbed>> /\ api' \in Setting \cup {Null}
  BY DEF ApiStart
<1>2. Base'
  BY <1>1 DEF Whole, Base, Up, Busy
<1>3. \A t \in Task : Fine(t)'
  BY <1>1, Unmoved DEF Whole
<1>4. \A w \in Worker : InTime(w)'
  BY <1>1, Untouched
<1> QED BY <1>2, <1>3, <1>4 DEF Whole

LEMMA WorkerStartKeeps ==
  ASSUME Whole, NEW w \in Worker, NEW s \in Setting, WorkerStart(w, s) PROVE Whole'
<1>1. UNCHANGED <<api, row, config, used, disturbed>>
  BY DEF WorkerStart
<1>2. PICK new \in {x \in Setting : WorkerAccepts(x)} \cup {Null} :
        worker' = [worker EXCEPT ![w].settings = new]
  BY DEF WorkerStart
<1>3. /\ worker \in [Worker -> WorkerState] /\ ~Up(w) /\ ~Busy(w)
  BY DEF Whole, Base, WorkerStart
<1>4. /\ worker' \in [Worker -> WorkerState]
      /\ worker'[w].settings = new /\ worker'[w].held = worker[w].held
      /\ \A v \in Worker \ {w} : worker'[v] = worker[v]
  BY <1>2, <1>3 DEF WorkerState
<1>5. Base'
  <2>1. \A v \in Worker : /\ Up(v)' => WorkerAccepts(worker'[v].settings)
                          /\ Busy(v)' => Up(v)' /\ row'[worker'[v].held] # Null
    BY <1>1, <1>3, <1>4 DEF Whole, Base, Up, Busy
  <2> QED BY <1>1, <1>4, <2>1 DEF Whole, Base
<1>6. ASSUME NEW t \in Task PROVE Fine(t)'
  <2>1. Fine(t)
    BY DEF Whole
  <2>2. CASE t \in disturbed
    BY <1>1, <2>1, <2>2, Unmoved
  <2>3. CASE t \notin disturbed
    <3>1. HasLeaseLeft(row[t]) => row[t].lease_token \in Worker /\ row[t].lease_token # w
      BY <1>3, <2>1, <2>3, Leaseholder, Nulls
         DEF Fine, Typed, Undisturbed, InHand, HasLeaseLeft, Running, Busy
    <3> QED BY <1>1, <1>4, <2>1, <2>3, <3>1, Unmoved
  <2> QED BY <2>2, <2>3
<1>7. ASSUME NEW v \in Worker PROVE InTime(v)'
  <2>1. CASE v = w
    BY <1>3, <1>4, <2>1 DEF InTime, Busy
  <2>2. CASE v # w
    BY <1>1, <1>4, <2>2, Untouched
  <2> QED BY <2>1, <2>2
<1> QED BY <1>5, <1>6, <1>7 DEF Whole

LEMMA SubmitKeeps ==
  ASSUME Whole, NEW t \in Task, Submit(t) PROVE Whole'
<1> DEFINE new == NewRow(0)
<1>1. /\ new \in Row /\ SatisfiesChecks(new) /\ Queued(new) /\ new.attempts < MaxAttempts
      /\ new.error_code = Null /\ new # Null /\ new.status = "queued"
  BY NewRowOK, RowAssumption, Nulls DEF Queued
<1> HIDE DEF new
<1>2. /\ row' = [row EXCEPT ![t] = new] /\ row[t] = Null
      /\ config' = [config EXCEPT ![t] = EvaluationConfig(api)]
      /\ EvaluationConfig(api) \in Config
      /\ UNCHANGED <<api, worker, used, disturbed>>
  BY DEF Submit, Whole, Base, Config, new
<1>3. Fine(t)'
  <2>1. row'[t] = new /\ config'[t] = EvaluationConfig(api) /\ used'[t] = Null
    BY <1>2 DEF Whole, Base, Fine, Typed
  <2>2. EvaluationConfig(api) # Null
    BY <1>2, ConfigAssumption
  <2>3. Typed(t)'
    BY <1>1, <1>2, <2>1, <2>2 DEF Typed, Queued
  <2>4. Undisturbed(t)'
    BY <1>1, <2>1, Nulls DEF Undisturbed, Running, Expired, HasLease, HasLeaseLeft
  <2> QED BY <1>1, <2>1, <2>3, <2>4, Nulls DEF Fine
<1>4. ASSUME NEW x \in Task, x # t PROVE Fine(x)'
  BY <1>2, <1>4, Unmoved DEF Whole, Base
<1>5. Base'
  <2>1. /\ row' \in [Task -> Row \cup {Null}] /\ config' \in [Task -> Config \cup {Null}]
        /\ \A x \in Task : row[x] # Null => row'[x] # Null
    BY <1>1, <1>2 DEF Whole, Base
  <2>2. \A w \in Worker : worker[w].held \in Task \cup {Null}
    BY DEF Whole, Base, WorkerState
  <2> QED BY <1>2, <2>1, <2>2 DEF Whole, Base, Up, Busy
<1>6. ASSUME NEW w \in Worker PROVE InTime(w)'
  <2>1. Busy(w) => worker[w].held \in Task /\ worker[w].held # t
    BY <1>2 DEF Whole, Base, Busy, WorkerState
  <2>2. Busy(w) => /\ row'[worker[w].held] = row[worker[w].held]
                   /\ config'[worker[w].held] = config[worker[w].held]
    BY <1>2, <2>1 DEF Whole, Base
  <2> QED BY <1>2, <2>2 DEF Whole, InTime, Busy, Given
<1> QED BY <1>3, <1>4, <1>5, <1>6 DEF Whole

(* A worker that drops what it has in hand, and marks it.                  *)
LEMMA LetGoKeeps ==
  ASSUME Whole, NEW w \in Worker, NEW gone \in WorkerState, gone.held = Null,
         gone.settings \in {Null, worker[w].settings},
         worker' = [worker EXCEPT ![w] = gone],
         disturbed' = disturbed \cup ({worker[w].held} \ {Null}),
         UNCHANGED <<api, row, config, used>>
  PROVE  Whole'
<1>1. worker \in [Worker -> WorkerState]
  BY DEF Whole, Base
<1>2. /\ worker' \in [Worker -> WorkerState] /\ worker'[w] = gone
      /\ \A v \in Worker \ {w} : worker'[v] = worker[v]
      /\ disturbed' \subseteq Task
  BY <1>1 DEF WorkerState, Whole, Base
<1>3. Base'
  <2>1. \A v \in Worker : /\ Up(v)' => WorkerAccepts(worker'[v].settings)
                          /\ Busy(v)' => Up(v)' /\ row'[worker'[v].held] # Null
    BY <1>2 DEF Whole, Base, Up, Busy
  <2> QED BY <1>1, <1>2, <2>1 DEF Whole, Base
<1>4. ASSUME NEW t \in Task PROVE Fine(t)'
  <2>1. Fine(t)
    BY DEF Whole
  <2>2. CASE t \in disturbed'
    BY <1>1, <2>1, <2>2, Unmoved
  <2>3. CASE t \notin disturbed'
    <3>1. t \notin disturbed /\ worker[w].held # t
      BY <1>1, <2>3, Nulls
    <3>2. HasLeaseLeft(row[t]) => row[t].lease_token \in Worker /\ row[t].lease_token # w
      BY <2>1, <3>1, Leaseholder
         DEF Fine, Typed, Undisturbed, InHand, HasLeaseLeft, Running
    <3> QED BY <1>1, <1>2, <2>1, <3>1, <3>2, Unmoved
  <2> QED BY <2>2, <2>3
<1>5. ASSUME NEW v \in Worker PROVE InTime(v)'
  <2>1. CASE v = w
    BY <1>2, <2>1 DEF InTime, Busy
  <2>2. CASE v # w
    BY <1>1, <1>2, <2>2, Untouched
  <2> QED BY <2>1, <2>2
<1> QED BY <1>3, <1>4, <1>5 DEF Whole

LEMMA WorkerStopsKeeps ==
  ASSUME Whole, NEW w \in Worker, WorkerStops(w) PROVE Whole'
<1>1. Down \in WorkerState /\ Down.held = Null /\ Down.settings = Null
  BY DEF Down, WorkerState
<1> QED BY <1>1, LetGoKeeps DEF WorkerStops

LEMMA PersistRaisesKeeps ==
  ASSUME Whole, NEW w \in Worker, PersistRaises(w) PROVE Whole'
<1> DEFINE gone == [worker[w] EXCEPT !.held = Null, !.spent = 0]
<1>1. worker \in [Worker -> WorkerState] /\ worker[w].held # Null
  BY DEF PersistRaises, Busy, Whole, Base
<1>2. /\ gone \in WorkerState /\ gone.held = Null
      /\ gone.settings = worker[w].settings
  BY <1>1 DEF WorkerState
<1>3. worker' = [worker EXCEPT ![w] = gone]
  BY <1>1 DEF PersistRaises
<1>4. /\ disturbed' = disturbed \cup ({worker[w].held} \ {Null})
      /\ UNCHANGED <<api, row, config, used>>
  BY <1>1 DEF PersistRaises
<1> HIDE DEF gone
<1> QED BY <1>2, <1>3, <1>4, LetGoKeeps
-----------------------------------------------------------------------------
(* A poll: its recovery, and its claim.                                    *)

(* Recovery changes nothing but the tasks whose lease is over: disturbed   *)
(* ones, and those whose settings leave the lease no room.                 *)
LEMMA RecoveredOK ==
  ASSUME Whole, NEW t \in Task
  PROVE  LET q == Recovered[t]
         IN  \/ q = row[t]
             \/ /\ t \in disturbed \/ Tight(config[t])
                /\ row[t] \in Row /\ Running(row[t]) /\ ~HasLeaseLeft(row[t])
                /\ q \in Row /\ SatisfiesChecks(q) /\ ~Running(q)
                /\ Queued(q) => q.attempts < MaxAttempts
                /\ q.error_code # ConfigInvalid /\ q.status # "completed"
<1> DEFINE q == Recovered[t]
<1>1. Fine(t) /\ (q = IF Expired(row[t]) THEN GivenUp(row[t], LeaseExpired) ELSE row[t])
  BY DEF Whole, Recovered
<1> HIDE DEF q
<1>2. CASE Expired(row[t])
  <2>1. /\ row[t] \in Row /\ SatisfiesChecks(row[t]) /\ Running(row[t])
        /\ t \in disturbed \/ Tight(config[t])
    BY <1>1, <1>2 DEF Fine, Typed, Undisturbed, Expired, HasLease, Running
  <2>4. ~HasLeaseLeft(row[t])
    BY <1>2, <2>1, Nulls DEF Expired, HasLease, HasLeaseLeft, Row
  <2>2. /\ q \in Row /\ SatisfiesChecks(q) /\ ~Running(q) /\ q.attempts = row[t].attempts
        /\ \/ Queued(q) /\ row[t].attempts < MaxAttempts /\ q.error_code = Null
           \/ q.status = "failed"
    BY <1>1, <1>2, <2>1, GivenUpOK, Nulls
  <2>3. q.status = "failed" => q.error_code = LeaseExpired
    BY <1>1, <1>2, <2>1 DEF GivenUp, Requeued, FailedRow, ClearAttempt, Row
  <2> QED BY <2>1, <2>2, <2>3, <2>4, Nulls DEF Queued, q
<1>3. CASE ~Expired(row[t])
  BY <1>1, <1>3 DEF q
<1> QED BY <1>2, <1>3

(* The row of a claim: the lease is that of the worker.                    *)
LEMMA ClaimedFor ==
  ASSUME NEW r \in Row, SatisfiesChecks(r), Queued(r), r.attempts < MaxAttempts,
         NEW w \in Worker, NEW n \in Nat \ {0}
  PROVE  LET q == [Claimed(r, w) EXCEPT !.lease = n]
         IN  /\ q \in Row /\ SatisfiesChecks(q) /\ Running(q) /\ ~Queued(q)
             /\ q.lease_token = w /\ q.lease = n /\ q.error_code = Null
             /\ ~Expired(q) /\ q.status = "running" /\ q # Null
<1> DEFINE c == Claimed(r, w)
           q == [c EXCEPT !.lease = n]
<1>1. /\ c \in Row /\ SatisfiesChecks(c) /\ Running(c)
      /\ c.lease_token = w /\ c.error_code = Null
  BY ClaimedOK DEF Worker
<1> HIDE DEF c
<1>2. /\ q \in Row /\ q.lease = n /\ q.status = "running" /\ q.lease_token = w
      /\ q.error_code = Null /\ q # Null /\ n # Null
  BY <1>1, Nulls DEF Row, Running
<1>3. SatisfiesChecks(q)
  BY <1>1, <1>2 DEF Row, Running, SatisfiesChecks, MateConstraint, NoMate, NoResult,
                    NotLeased, Leased
<1>4. Running(q) /\ ~Queued(q) /\ ~Expired(q)
  BY <1>2 DEF Running, Queued, Expired
<1> QED BY <1>2, <1>3, <1>4 DEF c

(* A task that was recovered, or not.                                      *)
LEMMA RecoveredFine ==
  ASSUME Whole, NEW t \in Task, row'[t] = Recovered[t],
         UNCHANGED <<config, used>>, disturbed \subseteq disturbed',
         t \notin disturbed' /\ HasLeaseLeft(row[t]) =>
           worker'[row[t].lease_token] = worker[row[t].lease_token]
  PROVE  Fine(t)'
<1>1. Fine(t) /\ config'[t] = config[t] /\ used'[t] = used[t]
  BY DEF Whole
<1>2. CASE row'[t] = row[t]
  BY <1>1, <1>2, Unmoved
<1>3. CASE row'[t] # row[t]
  <2>1. /\ t \in disturbed' \/ Tight(config'[t])
        /\ row[t] \in Row /\ Running(row[t]) /\ row[t] # Null
        /\ row'[t] \in Row /\ SatisfiesChecks(row'[t]) /\ ~Running(row'[t])
        /\ Queued(row'[t]) => row'[t].attempts < MaxAttempts
        /\ row'[t].error_code # ConfigInvalid
    BY <1>1, <1>3, RecoveredOK, Nulls
  <2>2. Typed(t)'
    BY <1>1, <2>1, Nulls DEF Fine, Typed, Queued
  <2>3. used[t] = Null
    BY <1>1, <2>1 DEF Fine, Running
  <2>4. t \notin disturbed' => Undisturbed(t)'
    BY <2>1 DEF Undisturbed, HasLeaseLeft, Tight
  <2> QED BY <1>1, <2>1, <2>2, <2>3, <2>4 DEF Fine
<1> QED BY <1>2, <1>3

(* Nor does recovery touch the attempt of a worker that has its lease.     *)
LEMMA RecoveredLeavesAlone ==
  ASSUME Whole, NEW t \in Task, HasLeaseLeft(row[t])
  PROVE  Recovered[t] = row[t]
BY RecoveredOK

LEMMA RecoveredRows ==
  ASSUME Whole, NEW t \in Task
  PROVE  /\ Recovered[t] \in Row \cup {Null}
         /\ Recovered[t] # Null <=> row[t] # Null
<1>1. Typed(t)
  BY DEF Whole, Fine
<1> QED BY <1>1, RecoveredOK, Nulls DEF Typed

(* A worker with no task in hand holds no lease that anything depends on.  *)
LEMMA FreeHoldsNothing ==
  ASSUME Whole, NEW w \in Worker, Free(w), NEW t \in Task, t \notin disturbed,
         HasLeaseLeft(row[t])
  PROVE  row[t].lease_token \in Worker /\ row[t].lease_token # w
BY Leaseholder, Nulls
   DEF Whole, Fine, Typed, Undisturbed, InHand, HasLeaseLeft, Running, Free

(* A free worker that moves on, and no other worker does.                  *)
LEMMA OneMoves ==
  ASSUME Whole, NEW w \in Worker, Free(w), UNCHANGED config,
         disturbed \subseteq disturbed',
         \A v \in Worker \ {w} : worker'[v] = worker[v],
         \A t \in Task : HasLeaseLeft(row[t]) => row'[t] = row[t],
         NEW v \in Worker, v # w
  PROVE  InTime(v)'
<1>1. Busy(v) => worker[v].held \in Task
  BY DEF Busy, Whole, Base, WorkerState
<1> QED BY <1>1, Untouched DEF AttemptGuard

LEMMA RecoverKeeps ==
  ASSUME Whole, NEW w \in Worker, Recover(w) PROVE Whole'
<1>1. /\ Free(w) /\ Up(w) /\ ~Busy(w) /\ UNCHANGED <<api, config, used, disturbed>>
      /\ worker \in [Worker -> WorkerState] /\ row' = Recovered
      /\ worker' = worker \/ worker' = [worker EXCEPT ![w].recovered = TRUE]
  BY DEF Recover, Free, Busy, Whole, Base
<1>2. /\ worker' \in [Worker -> WorkerState]
      /\ worker'[w].settings = worker[w].settings /\ worker'[w].held = Null
      /\ \A v \in Worker \ {w} : worker'[v] = worker[v]
  BY <1>1 DEF WorkerState, Free
<1>3. ASSUME NEW t \in Task PROVE Fine(t)'
  <2>1. t \notin disturbed' /\ HasLeaseLeft(row[t]) =>
          worker'[row[t].lease_token] = worker[row[t].lease_token]
    BY <1>1, <1>2, FreeHoldsNothing
  <2> QED BY <1>1, <2>1, RecoveredFine
<1>4. row' \in [Task -> Row \cup {Null}]
  BY <1>1, RecoveredRows DEF Recovered
<1>5. ASSUME NEW v \in Worker
      PROVE  /\ Up(v)' => WorkerAccepts(worker'[v].settings)
             /\ Busy(v)' => Up(v)' /\ row'[worker'[v].held] # Null
  <2>1. CASE v = w
    BY <1>1, <1>2, <2>1 DEF Whole, Base, Up, Busy
  <2>2. CASE v # w
    <3>1. worker[v].held \in Task \cup {Null} /\ worker'[v] = worker[v]
      BY <1>1, <1>2, <2>2 DEF WorkerState
    <3> QED BY <1>1, <3>1, RecoveredRows DEF Whole, Base, Up, Busy
  <2> QED BY <2>1, <2>2
<1>6. Base'
  BY <1>1, <1>2, <1>4, <1>5 DEF Whole, Base
<1>7. ASSUME NEW v \in Worker PROVE InTime(v)'
  <2>1. CASE v = w
    BY <1>2, <2>1 DEF InTime, Busy
  <2>2. CASE v # w
    BY <1>1, <1>2, <2>2, OneMoves, RecoveredLeavesAlone
  <2> QED BY <2>1, <2>2
<1> QED BY <1>3, <1>6, <1>7 DEF Whole

(* A claim that finds no task.                                             *)
LEMMA NoClaimKeeps ==
  ASSUME Whole, NEW w \in Worker, Free(w), UNCHANGED <<api, config, used, row, disturbed>>,
         worker' = [worker EXCEPT ![w].recovered = FALSE]
  PROVE  Whole'
<1>0. worker \in [Worker -> WorkerState]
  BY DEF Whole, Base
<1>1. /\ worker' \in [Worker -> WorkerState]
      /\ worker'[w].settings = worker[w].settings /\ worker'[w].held = Null
      /\ \A v \in Worker \ {w} : worker'[v] = worker[v]
  BY <1>0 DEF WorkerState, Free
<1>2. ASSUME NEW t \in Task PROVE Fine(t)'
  <2>1. t \notin disturbed /\ HasLeaseLeft(row[t]) =>
          worker'[row[t].lease_token] = worker[row[t].lease_token]
    BY <1>1, FreeHoldsNothing
  <2> QED BY <2>1, Unmoved DEF Whole
<1>3. ASSUME NEW v \in Worker
      PROVE  /\ Up(v)' => WorkerAccepts(worker'[v].settings)
             /\ Busy(v)' => Up(v)' /\ row'[worker'[v].held] # Null
  BY <1>1 DEF Whole, Base, Up, Busy
<1>4. Base'
  BY <1>1, <1>3 DEF Whole, Base
<1>5. ASSUME NEW v \in Worker PROVE InTime(v)'
  <2>1. CASE v = w
    BY <1>1, <2>1 DEF InTime, Busy
  <2>2. CASE v # w
    BY <1>1, <2>2, OneMoves
  <2> QED BY <2>1, <2>2
<1> QED BY <1>2, <1>4, <1>5 DEF Whole

(* A claim that is committed, whether its reply reaches the worker or is   *)
(* lost.                                                                   *)
LEMMA ClaimedKeeps ==
  ASSUME Whole, NEW w \in Worker, Free(w), UNCHANGED <<api, config, used>>,
         NEW t \in Task, Queued(row[t]),
         row' = [row EXCEPT ![t] =
                   [Claimed(@, w) EXCEPT !.lease = worker[w].settings.lease]],
         worker' \in [Worker -> WorkerState],
         \A v \in Worker \ {w} : worker'[v] = worker[v],
         worker'[w].settings = worker[w].settings,
         disturbed \subseteq disturbed', disturbed' \subseteq disturbed \cup {t},
         \/ /\ worker'[w].held = t /\ worker'[w].spent = 0
            /\ t \notin disturbed' => config[t] = EvaluationConfig(worker[w].settings)
         \/ worker'[w].held = Null /\ t \in disturbed'
  PROVE  Whole'
<1>0. Up(w) /\ worker \in [Worker -> WorkerState] /\ disturbed \subseteq Task
  BY DEF Free, Whole, Base
<1> DEFINE mine == worker[w].settings
           q == [Claimed(row[t], w) EXCEPT !.lease = mine.lease]
<1>1. /\ mine \in Setting /\ mine.lease \in Nat \ {0} /\ mine.hard \in Nat \ {0}
  BY <1>0, AcceptedSettings DEF Whole, Base, Up, WorkerState
<1>2. /\ row[t] \in Row /\ SatisfiesChecks(row[t]) /\ row[t].attempts < MaxAttempts
  BY DEF Whole, Fine, Typed, Queued
<1>3. /\ q \in Row /\ SatisfiesChecks(q) /\ Running(q) /\ ~Queued(q)
      /\ q.lease_token = w /\ q.lease = mine.lease /\ q.error_code = Null
      /\ ~Expired(q) /\ q.status = "running" /\ q # Null
  BY <1>1, <1>2, ClaimedFor
<1>4. /\ row'[t] = q /\ \A x \in Task \ {t} : row'[x] = row[x]
      /\ row' \in [Task -> Row \cup {Null}]
  BY <1>3 DEF Whole, Base
<1> HIDE DEF q
<1>5. /\ worker' \in [Worker -> WorkerState]
      /\ worker'[w].settings = mine
      /\ \A v \in Worker \ {w} : worker'[v] = worker[v]
  OBVIOUS
<1>6. ASSUME NEW x \in Task, x # t PROVE Fine(x)'
  <2>1. row'[x] = row[x] /\ (x \in disturbed' <=> x \in disturbed) /\ Fine(x)
    BY <1>4, <1>6 DEF Whole
  <2>2. x \notin disturbed /\ HasLeaseLeft(row[x]) =>
          row[x].lease_token \in Worker /\ row[x].lease_token # w
    BY FreeHoldsNothing
  <2> QED BY <1>5, <2>1, <2>2, Unmoved
<1>7. Fine(t)'
  <2>1. Typed(t) /\ used[t] = Null
    BY DEF Whole, Fine, Queued
  <2>2. Typed(t)'
    BY <1>2, <1>3, <1>4, <2>1, Nulls DEF Typed
  <2>3. t \notin disturbed' => Undisturbed(t)'
    <3>1. t \notin disturbed' => /\ config[t] = EvaluationConfig(mine)
                                 /\ worker'[w].held = t /\ worker'[w].spent = 0
      OBVIOUS
    <3>2. /\ row'[t].lease_token = w /\ row'[t].lease = mine.lease
          /\ worker'[w].settings = mine /\ config'[t] = config[t]
          /\ mine.lease \in Nat /\ mine.hard \in Nat /\ Overrun \in Nat
      BY <1>1, <1>3, <1>4, <1>5, DeploymentAssumption
    <3> HIDE DEF mine
    <3>3. t \notin disturbed' => InHand(t)'
      BY <3>1, <3>2 DEF InHand
    <3> QED BY <1>3, <1>4, <3>3, Nulls DEF Undisturbed
  <2> QED BY <1>3, <1>4, <2>1, <2>2, <2>3, Nulls DEF Fine
<1>8. Base'
  <2>1. disturbed' \subseteq Task
    BY <1>0
  <2>2. \A x \in Task : row[x] # Null => row'[x] # Null
    BY <1>3, <1>4
  <2>3. ASSUME NEW v \in Worker
        PROVE  /\ Up(v)' => WorkerAccepts(worker'[v].settings)
               /\ Busy(v)' => Up(v)' /\ row'[worker'[v].held] # Null
    <3>1. CASE v = w
      BY <1>0, <1>3, <1>4, <1>5, <3>1 DEF Whole, Base, Up, Busy
    <3>2. CASE v # w
      <4>1. worker[v].held \in Task \cup {Null} /\ worker'[v] = worker[v]
        BY <1>0, <1>5, <3>2 DEF WorkerState
      <4> QED BY <2>2, <4>1 DEF Whole, Base, Up, Busy
    <3> QED BY <3>1, <3>2
  <2> QED BY <1>4, <1>5, <2>1, <2>3 DEF Whole, Base
<1>9. ASSUME NEW v \in Worker PROVE InTime(v)'
  <2>1. CASE v = w
    <3>1. HasLeaseLeft(q)
      BY <1>1, <1>3, Nulls DEF HasLeaseLeft
    <3> QED BY <1>3, <1>4, <1>5, <2>1, <3>1 DEF InTime, AttemptGuard, Busy
  <2>2. CASE v # w
    <3>1. \A x \in Task : HasLeaseLeft(row[x]) => row'[x] = row[x]
      BY <1>4 DEF HasLeaseLeft, Running, Queued
    <3> QED BY <1>5, <2>2, <3>1, OneMoves
  <2> QED BY <2>1, <2>2
<1> QED BY <1>6, <1>7, <1>8, <1>9 DEF Whole

LEMMA ClaimKeeps ==
  ASSUME Whole, NEW w \in Worker, Claim(w) PROVE Whole'
<1>1. /\ Free(w) /\ UNCHANGED <<api, config, used>>
      /\ worker \in [Worker -> WorkerState]
  BY DEF Claim, Whole, Base
<1>2. CASE /\ UNCHANGED <<row, disturbed>>
           /\ worker' = [worker EXCEPT ![w].recovered = FALSE]
  BY <1>1, <1>2, NoClaimKeeps
<1>3. ASSUME NEW t \in Task, Queued(row[t]),
             row' = [row EXCEPT ![t] =
                       [Claimed(@, w) EXCEPT !.lease = worker[w].settings.lease]],
             worker' = [worker EXCEPT ![w].held = t, ![w].spent = 0,
                                      ![w].recovered = FALSE],
             disturbed' = IF config[t] = EvaluationConfig(worker[w].settings)
                          THEN disturbed ELSE disturbed \cup {t}
      PROVE  Whole'
  <2>1. /\ worker' \in [Worker -> WorkerState]
        /\ \A v \in Worker \ {w} : worker'[v] = worker[v]
        /\ worker'[w].settings = worker[w].settings
        /\ worker'[w].held = t /\ worker'[w].spent = 0
    BY <1>1, <1>3 DEF WorkerState
  <2>2. /\ disturbed \subseteq disturbed' /\ disturbed' \subseteq disturbed \cup {t}
        /\ t \notin disturbed' => config[t] = EvaluationConfig(worker[w].settings)
    BY <1>3
  <2> QED BY <1>1, <1>3, <2>1, <2>2, ClaimedKeeps
<1> QED BY <1>2, <1>3 DEF Claim

LEMMA ClaimRaisesKeeps ==
  ASSUME Whole, NEW w \in Worker, ClaimRaises(w) PROVE Whole'
<1>1. /\ Free(w) /\ UNCHANGED <<api, config, used>>
      /\ worker \in [Worker -> WorkerState]
      /\ worker' = [worker EXCEPT ![w].recovered = FALSE]
  BY DEF ClaimRaises, Whole, Base
<1>2. CASE UNCHANGED <<row, disturbed>>
  BY <1>1, <1>2, NoClaimKeeps
<1>3. ASSUME NEW t \in Task, Queued(row[t]),
             row' = [row EXCEPT ![t] =
                       [Claimed(@, w) EXCEPT !.lease = worker[w].settings.lease]],
             disturbed' = disturbed \cup {t}
      PROVE  Whole'
  <2>1. /\ worker' \in [Worker -> WorkerState]
        /\ \A v \in Worker \ {w} : worker'[v] = worker[v]
        /\ worker'[w].settings = worker[w].settings /\ worker'[w].held = Null
    BY <1>1 DEF WorkerState, Free
  <2> QED BY <1>1, <1>3, <2>1, ClaimedKeeps
<1> QED BY <1>2, <1>3 DEF ClaimRaises
-----------------------------------------------------------------------------
(* The end of an attempt.                                                  *)

(* It touches no task but its own, and that one only with its lease.       *)
LEMMA WritesKeep ==
  ASSUME Whole, NEW w \in Worker, Busy(w), NEW written, NEW ran,
         Writes(w, written, ran),
         LET t == worker[w].held
         IN  row[t] \in Row /\ SatisfiesChecks(row[t]) /\ Running(row[t]) =>
               /\ written \in Row /\ SatisfiesChecks(written) /\ ~Running(written)
               /\ Queued(written) => written.attempts < MaxAttempts
               /\ written.error_code # LeaseExpired
               /\ written.error_code = ConfigInvalid => Foreign(t)
               /\ ran # Null => written.status = "completed" /\ ran = config[t]
  PROVE  Whole'
<1> DEFINE t == worker[w].held
           mine == AttemptGuard(row[t], w)
<1>1. /\ t \in Task /\ Up(w) /\ row[t] # Null /\ worker \in [Worker -> WorkerState]
  BY DEF Whole, Base, Busy, WorkerState
<1>2. /\ row' = IF mine THEN [row EXCEPT ![t] = written] ELSE row
      /\ used' = IF mine THEN [used EXCEPT ![t] = ran] ELSE used
      /\ worker' = [worker EXCEPT ![w].held = Null, ![w].spent = 0]
      /\ UNCHANGED <<api, config, disturbed>>
  BY DEF Writes
<1>3. Fine(t) /\ row[t] \in Row /\ SatisfiesChecks(row[t]) /\ config[t] \in Config
  BY <1>1 DEF Whole, Fine, Typed
<1>4. mine => Running(row[t]) /\ row[t].lease_token = w
  BY DEF AttemptGuard, HasLeaseLeft
<1>5. mine => /\ written \in Row /\ SatisfiesChecks(written) /\ ~Running(written)
              /\ Queued(written) => written.attempts < MaxAttempts
              /\ written.error_code # LeaseExpired
              /\ written.error_code = ConfigInvalid => Foreign(t)
              /\ ran # Null => written.status = "completed" /\ ran = config[t]
  BY <1>3, <1>4
<1>6. /\ worker' \in [Worker -> WorkerState] /\ worker'[w].held = Null
      /\ worker'[w].settings = worker[w].settings
      /\ \A v \in Worker \ {w} : worker'[v] = worker[v]
  BY <1>1, <1>2 DEF WorkerState
<1> HIDE DEF t, mine
<1>7. ASSUME NEW x \in Task, ~(x = t /\ mine) PROVE Fine(x)'
  <2>1. row'[x] = row[x] /\ used'[x] = used[x] /\ config'[x] = config[x] /\ Fine(x)
    BY <1>2, <1>7 DEF Whole, Base
  <2>2. ASSUME x \notin disturbed, HasLeaseLeft(row[x])
        PROVE  row[x].lease_token \in Worker /\ row[x].lease_token # w
    <3>1. /\ row[x] \in Row /\ SatisfiesChecks(row[x]) /\ Undisturbed(x)
          /\ row[x].lease_token \in Worker
      BY <2>1, <2>2, Leaseholder DEF Fine, Typed, HasLeaseLeft, Running
    <3>2. CASE x # t
      BY <2>2, <3>1, <3>2 DEF Undisturbed, InHand, t
    <3>3. CASE x = t
      BY <1>7, <2>2, <3>1, <3>3 DEF AttemptGuard, mine
    <3> QED BY <3>2, <3>3
  <2> QED BY <1>2, <1>6, <2>1, <2>2, Unmoved
<1>8. ASSUME NEW x \in Task, x = t, mine PROVE Fine(x)'
  <2>1. /\ row'[x] = written /\ used'[x] = ran /\ config'[x] = config[x]
        /\ disturbed' = disturbed
    BY <1>1, <1>2, <1>8 DEF Whole, Base
  <2>2. config[x] \in Config /\ config[x] # Null /\ written # Null
    BY <1>3, <1>5, <1>8, ConfigAssumption, Nulls
  <2>3. Typed(x)'
    BY <1>5, <1>8, <2>1, <2>2 DEF Typed
  <2>4. Undisturbed(x)'
    BY <1>5, <1>8, <2>1, <2>2 DEF Undisturbed, Expired, HasLease, HasLeaseLeft
  <2>5. Foreign(x)' <=> Foreign(x)
    BY <2>1 DEF Foreign
  <2> QED BY <1>5, <1>8, <2>1, <2>3, <2>4, <2>5 DEF Fine
<1>9. Base'
  <2>1. ran \in Config \cup {Null} \/ ~mine
    BY <1>3, <1>5
  <2>2. /\ row' \in [Task -> Row \cup {Null}] /\ used' \in [Task -> Config \cup {Null}]
        /\ \A x \in Task : row[x] # Null => row'[x] # Null
    <3>1. mine => written # Null /\ written \in Row
      BY <1>5, Nulls
    <3> QED BY <1>1, <1>2, <2>1, <3>1 DEF Whole, Base
  <2>3. ASSUME NEW v \in Worker
        PROVE  /\ Up(v)' => WorkerAccepts(worker'[v].settings)
               /\ Busy(v)' => Up(v)' /\ row'[worker'[v].held] # Null
    <3>1. CASE v = w
      BY <1>6, <3>1 DEF Whole, Base, Up, Busy
    <3>2. CASE v # w
      <4>1. worker[v].held \in Task \cup {Null} /\ worker'[v] = worker[v]
        BY <1>6, <3>2 DEF Whole, Base, WorkerState
      <4> QED BY <2>2, <4>1 DEF Whole, Base, Up, Busy
    <3> QED BY <3>1, <3>2
  <2> QED BY <1>2, <1>6, <2>2, <2>3 DEF Whole, Base
<1>10. ASSUME NEW v \in Worker PROVE InTime(v)'
  <2>1. CASE v = w
    BY <1>6, <2>1 DEF InTime, Busy
  <2>2. CASE v # w
    <3>1. mine /\ AttemptGuard(row[worker[v].held], v) => worker[v].held # t
      BY <1>4, <2>2 DEF AttemptGuard
    <3>2. Busy(v) => worker[v].held \in Task
      BY <1>1 DEF Busy, WorkerState
    <3>3. AttemptGuard(row[worker[v].held], v) /\ Busy(v)
            => row'[worker[v].held] = row[worker[v].held]
      BY <1>2, <3>1, <3>2 DEF Whole, Base
    <3> QED BY <1>2, <1>6, <2>2, <3>3, Untouched
  <2> QED BY <2>1, <2>2
<1> QED BY <1>7, <1>8, <1>9, <1>10 DEF Whole

LEMMA SucceedsKeeps ==
  ASSUME Whole, NEW w \in Worker, Succeeds(w) PROVE Whole'
<1> DEFINE t == worker[w].held
           written == CompletedRow(row[t], Zero)
<1>1. PICK ran \in {Null, Given(w)} : Writes(w, written, ran)
  BY DEF Succeeds
<1>2. Zero \in Arguments /\ ValidOutcome(Zero)
  BY Nulls DEF Zero, Arguments, ValidOutcome
<1>3. ASSUME row[t] \in Row, SatisfiesChecks(row[t]), Running(row[t])
      PROVE  /\ written \in Row /\ SatisfiesChecks(written) /\ ~Running(written)
             /\ ~Queued(written) /\ written.status = "completed"
             /\ written.error_code = Null
  <2>1. written \in Row /\ SatisfiesChecks(written) /\ written.status = "completed"
    BY <1>2, <1>3, CompletedRowOK
  <2>2. written.error_code = Null
    BY <1>3 DEF CompletedRow, Row
  <2> QED BY <2>1, <2>2 DEF Running, Queued
<1>4. Busy(w) /\ (ran # Null => ran = config[t])
  BY <1>1 DEF Given, Succeeds
<1> HIDE DEF written
<1> QED BY <1>1, <1>3, <1>4, WritesKeep, Nulls

LEMMA FailsKeeps ==
  ASSUME Whole, NEW w \in Worker, Fails(w) PROVE Whole'
<1> DEFINE t == worker[w].held
<1>1. PICK code \in EngineCode :
        /\ ~AdapterAccepts(Given(w)) <=> code = ConfigInvalid
        /\ Writes(w, GivenUp(row[t], code), Null)
  BY DEF Fails
<1> DEFINE written == GivenUp(row[t], code)
<1>2. ASSUME row[t] \in Row, SatisfiesChecks(row[t]), Running(row[t])
      PROVE  /\ written \in Row /\ SatisfiesChecks(written) /\ ~Running(written)
             /\ Queued(written) => written.attempts < MaxAttempts
             /\ written.error_code \in {Null, code}
  <2>1. /\ written \in Row /\ SatisfiesChecks(written) /\ ~Running(written)
        /\ Queued(written) => written.attempts < MaxAttempts
    BY <1>2, Nulls, GivenUpOK DEF Queued
  <2>2. written.error_code \in {Null, code}
    BY <1>2 DEF GivenUp, Requeued, FailedRow, ClearAttempt, Row
  <2> QED BY <2>1, <2>2
<1>3. code = ConfigInvalid => Foreign(t)
  BY <1>1, AcceptedSettings DEF Given, Foreign
<1>4. /\ code # LeaseExpired /\ Null # LeaseExpired /\ Null # ConfigInvalid
      /\ Busy(w) /\ Writes(w, written, Null)
  BY <1>1, Nulls DEF Fails
<1> HIDE DEF written
<1> QED BY <1>2, <1>3, <1>4, WritesKeep
-----------------------------------------------------------------------------
(* A tick.  No attempt is due, so that each has another tick to spend.     *)
LEMMA TickKeeps ==
  ASSUME Whole, Tick PROVE Whole'
<1>1. /\ \A w \in Worker : ~Due(w)
      /\ row' = [t \in Task |-> Aged(row[t])]
      /\ worker' = [w \in Worker |->
                      [worker[w] EXCEPT !.spent = IF Busy(w) THEN @ + 1 ELSE @]]
      /\ UNCHANGED <<api, config, used, disturbed>>
      /\ worker \in [Worker -> WorkerState]
  BY DEF Tick, Whole, Base
<1>2. ASSUME NEW w \in Worker
      PROVE  /\ worker'[w] \in WorkerState
             /\ worker'[w].settings = worker[w].settings
             /\ worker'[w].held = worker[w].held
             /\ worker'[w].spent = IF Busy(w) THEN worker[w].spent + 1
                                              ELSE worker[w].spent
             /\ worker[w].spent \in Nat
  <2>1. worker[w] \in WorkerState
    BY <1>1
  <2>2. worker'[w] = [worker[w] EXCEPT !.spent = IF Busy(w) THEN @ + 1 ELSE @]
    BY <1>1
  <2> HIDE DEF Busy
  <2> QED BY <2>1, <2>2 DEF WorkerState
<1>3. ASSUME NEW t \in Task
      PROVE  /\ row[t] = Null => row'[t] = Null
             /\ row[t] # Null =>
                  /\ row[t] \in Row /\ row'[t] \in Row /\ SatisfiesChecks(row'[t])
                  /\ row'[t].status = row[t].status
                  /\ row'[t].attempts = row[t].attempts
                  /\ row'[t].lease_token = row[t].lease_token
                  /\ row'[t].error_code = row[t].error_code
                  /\ row'[t].lease = IF HasLeaseLeft(row[t]) THEN row[t].lease - 1
                                                            ELSE row[t].lease
  <2>1. Typed(t) /\ row'[t] = Aged(row[t])
    BY <1>1 DEF Whole, Fine
  <2>2. CASE row[t] = Null
    BY <2>1, <2>2 DEF Aged, HasLeaseLeft, Running
  <2>3. CASE row[t] # Null
    BY <2>1, <2>3, AgedRowOK DEF Typed
  <2> QED BY <2>2, <2>3
<1>4. Base'
  <2>1. row' \in [Task -> Row \cup {Null}] /\ worker' \in [Worker -> WorkerState]
    BY <1>1, <1>2, <1>3
  <2>2. ASSUME NEW w \in Worker
        PROVE  /\ Up(w)' => WorkerAccepts(worker'[w].settings)
               /\ Busy(w)' => Up(w)' /\ row'[worker'[w].held] # Null
    <3>1. worker[w].held \in Task \cup {Null}
      BY <1>1 DEF WorkerState
    <3> QED BY <1>2, <1>3, <3>1, Nulls DEF Whole, Base, Up, Busy
  <2> QED BY <1>1, <2>1, <2>2 DEF Whole, Base
<1>5. ASSUME NEW t \in Task PROVE Fine(t)'
  <2>1. Fine(t) /\ config'[t] = config[t] /\ used'[t] = used[t]
    BY <1>1 DEF Whole
  <2>2. CASE row[t] = Null
    <3>1. row'[t] = Null
      BY <1>3, <2>2
    <3> QED BY <1>1, <2>1, <2>2, <3>1
          DEF Fine, Typed, Undisturbed, Queued, Running, Expired, HasLease, HasLeaseLeft
  <2>3. CASE row[t] # Null
    <3>1. /\ row[t] \in Row /\ row'[t] \in Row /\ SatisfiesChecks(row'[t])
          /\ SatisfiesChecks(row[t]) /\ row'[t] # Null
          /\ row'[t].status = row[t].status /\ row'[t].attempts = row[t].attempts
          /\ row'[t].lease_token = row[t].lease_token
          /\ row'[t].error_code = row[t].error_code
      BY <1>3, <2>1, <2>3, Nulls DEF Fine, Typed
    <3>2. Typed(t)'
      BY <2>1, <2>3, <3>1 DEF Fine, Typed, Queued
    <3>3. ASSUME t \notin disturbed, HasLeaseLeft(row[t])
          PROVE  /\ HasLeaseLeft(row'[t]) => InHand(t)'
                 /\ Expired(row'[t]) => Tight(config[t])
      <4> DEFINE w == row[t].lease_token
                 s == worker[w].settings
      <4>1. /\ w \in Worker /\ row[t].lease \in Nat /\ InHand(t)
        BY <2>1, <3>1, <3>3, Leaseholder DEF Fine, Undisturbed, HasLeaseLeft
      <4>2. Busy(w) /\ Up(w) /\ s \in Setting /\ WorkerAccepts(s)
        BY <1>1, <4>1, Nulls DEF InHand, Busy, Up, Whole, Base, WorkerState
      <4>3. /\ s.hard \in Nat /\ s.lease \in Nat /\ s.hard < s.lease
            /\ Overrun \in Nat
        BY <4>2, AcceptedSettings, DeploymentAssumption
      <4>4. Given(w) = EvaluationConfig(s) /\ EvaluationConfig(s).hard = s.hard
        BY <4>1, ConfigOf DEF InHand, Given
      <4>5. worker[w].spent \in Nat /\ worker[w].spent < s.hard + Overrun
        <5>1. ~(worker[w].spent >= Given(w).hard + Overrun) /\ worker[w].spent \in Nat
          BY <1>1, <1>2, <4>1, <4>2 DEF Due
        <5> QED BY <4>3, <4>4, <5>1
      <4>6. row[t].lease = s.lease - worker[w].spent
        BY <4>1, <4>3, <4>5 DEF InHand
      <4>7. /\ row'[t].lease = row[t].lease - 1
            /\ worker'[w].spent = worker[w].spent + 1 /\ worker'[w].settings = s
            /\ worker'[w].held = t
        BY <1>2, <1>3, <2>3, <3>3, <4>1, <4>2 DEF InHand
      <4>8. config'[t] = EvaluationConfig(s) /\ row'[t].lease_token = w
        BY <2>1, <3>1, <4>1 DEF InHand
      <4> HIDE DEF w, s
      <4>9. Expired(row'[t]) => Tight(config[t])
        <5>1. Expired(row'[t]) => s.lease <= s.hard + Overrun
          BY <4>1, <4>3, <4>5, <4>6, <4>7 DEF Expired
        <5> QED BY <2>1, <4>2, <4>3, <4>8, <5>1 DEF Tight
      <4>10. InHand(t)'
        BY <4>1, <4>3, <4>5, <4>6, <4>7, <4>8 DEF InHand
      <4> QED BY <4>9, <4>10
    <3>4. t \notin disturbed => Undisturbed(t)'
      <4>1. CASE HasLeaseLeft(row[t])
        BY <2>1, <2>3, <3>1, <3>3, <4>1 DEF Fine, Undisturbed, Tight
      <4>2. CASE ~HasLeaseLeft(row[t])
        <5>1. row'[t] = row[t]
          BY <1>1, <4>2 DEF Aged
        <5> QED BY <1>1, <2>1, <4>2, <5>1
              DEF Fine, Undisturbed, Tight, HasLeaseLeft, Expired, HasLease, Running
      <4> QED BY <4>1, <4>2
    <3>5. Foreign(t)' <=> Foreign(t)
      BY <2>1 DEF Foreign
    <3> QED BY <1>1, <2>1, <2>3, <3>1, <3>2, <3>4, <3>5 DEF Fine
  <2> QED BY <2>2, <2>3
<1>6. ASSUME NEW w \in Worker PROVE InTime(w)'
  <2> DEFINE t == worker[w].held
             s == worker[w].settings
  <2> HIDE DEF s
  <2>0. /\ worker'[w].held = t /\ config' = config /\ disturbed' = disturbed
        /\ Busy(w)' <=> Busy(w)
    BY <1>1, <1>2 DEF Busy
  <2> SUFFICES ASSUME Busy(w), t \notin disturbed, worker'[w].spent <= config[t].hard
               PROVE  AttemptGuard(row'[t], w)
    BY <2>0 DEF InTime, Given
  <2> USE DEF s
  <2>1. /\ t \in Task /\ s \in Setting /\ WorkerAccepts(s) /\ row[t] # Null
        /\ worker'[w].spent = worker[w].spent + 1 /\ worker[w].spent \in Nat
    BY <1>1, <1>2 DEF Busy, Up, Whole, Base, WorkerState
  <2>2. config[t] \in Config
    BY <2>1 DEF Whole, Fine, Typed
  <2>3. config[t].hard \in Int
    BY <2>2, SettingNumbers, ConfigOf DEF Config
  <2>4. AttemptGuard(row[t], w)
    BY <2>1, <2>3 DEF Whole, InTime, Given
  <2>5. InHand(t) /\ row[t].lease_token = w /\ row[t] \in Row
    BY <2>1, <2>4 DEF Whole, Fine, Typed, Undisturbed, AttemptGuard
  <2>6. /\ config[t] = EvaluationConfig(s) /\ config[t].hard = s.hard
        /\ worker[w].spent + row[t].lease = s.lease
    BY <2>5, ConfigOf DEF InHand
  <2>7. /\ s.hard \in Nat /\ s.lease \in Nat /\ s.hard < s.lease
        /\ row[t].lease \in Nat
    BY <1>3, <2>1, <2>4, <2>5, AcceptedSettings, Leaseholder
       DEF AttemptGuard, HasLeaseLeft, Whole, Fine, Typed
  <2>8. /\ row'[t].lease = row[t].lease - 1 /\ row'[t].lease_token = w
        /\ row'[t].status = "running" /\ row'[t] \in Row
    BY <1>3, <2>1, <2>4, <2>5 DEF AttemptGuard, HasLeaseLeft, Running
  <2> HIDE DEF t, s
  <2>9. row'[t].lease > 0 /\ row'[t].lease \in Int
    BY <2>1, <2>6, <2>7, <2>8
  <2> QED BY <2>8, <2>9, Nulls DEF AttemptGuard, HasLeaseLeft, Running
<1> QED BY <1>4, <1>5, <1>6 DEF Whole
-----------------------------------------------------------------------------
LEMMA WholeAlways == DeploymentSpec => []Whole
<1>1. Whole /\ [DeploymentNext]_deploymentVars => Whole'
  <2> SUFFICES ASSUME Whole, [DeploymentNext]_deploymentVars PROVE Whole'
    OBVIOUS
  <2>1. CASE UNCHANGED deploymentVars
    BY <2>1 DEF deploymentVars, Whole, Base, Fine, Typed, Undisturbed, InHand,
                Foreign, Up, Busy, InTime, Given
  <2> QED BY <2>1, ApiStartKeeps, WorkerStartKeeps, SubmitKeeps, WorkerStopsKeeps,
             RecoverKeeps, ClaimKeeps, ClaimRaisesKeeps, SucceedsKeeps, FailsKeeps,
             PersistRaisesKeeps, TickKeeps
          DEF DeploymentNext
<1> QED BY <1>1, InitiallyWhole, PTL DEF DeploymentSpec

(* The invariant of a deployment.                                          *)
THEOREM DeploymentInvariant == DeploymentSpec => []DeploymentIInv
BY WholeAlways, WholeIsIInv, PTL

(* Every worker that runs has passed its checks, whatever the environment  *)
(* is edited to, and every column is of its kind.                          *)
THEOREM DeploymentTypes == DeploymentSpec => []DeploymentTypeOK
<1>1. DeploymentIInv => DeploymentTypeOK
  BY DEF DeploymentIInv, Shape
<1> QED BY <1>1, DeploymentInvariant, PTL

(* The lease budget of the two checks is enough for a result that is       *)
(* persisted in time: an attempt that no stop, no edit and no failing call *)
(* has touched has its lease until its claim is older than the hard        *)
(* timeout.                                                                *)
THEOREM PromptAttemptsKeepLeases == DeploymentSpec => []PromptKeepsLease
<1>1. DeploymentIInv => PromptKeepsLease
  BY DEF DeploymentIInv
<1> QED BY <1>1, DeploymentInvariant, PTL

(* A lease is lost only on a task on which a worker was stopped or a call  *)
(* failed, that other settings were meant for, or whose lease leaves no    *)
(* room for the clean-up and the calls around the evaluation.              *)
THEOREM ExpiriesHaveCauses == DeploymentSpec => []ExpiryHasCause
<1>1. DeploymentIInv => ExpiryHasCause
  BY DEF DeploymentIInv
<1> QED BY <1>1, DeploymentInvariant, PTL

(* Settings the adapter refuses are never those of a worker's own start.   *)
THEOREM InvalidSettingsAreForeign == DeploymentSpec => []InvalidIsForeign
<1>1. DeploymentIInv => InvalidIsForeign
  BY DEF DeploymentIInv
<1> QED BY <1>1, DeploymentInvariant, PTL

(* A result was computed with the settings that were in force when its     *)
(* task was accepted, whichever worker computed it, and when.              *)
THEOREM ResultsAreReproducible == DeploymentSpec => []Reproducible
<1>1. DeploymentIInv => Reproducible
  BY DEF DeploymentIInv
<1> QED BY <1>1, DeploymentInvariant, PTL
-----------------------------------------------------------------------------
(* The version of a result.                                                *)

(* A completed task that nothing has disturbed was in the hands of a       *)
(* worker with the settings it carries, and so with its engine.            *)
LEMMA WritesVersion ==
  ASSUME Whole, VersionHolds, NEW w \in Worker, Busy(w), NEW written, NEW ran,
         Writes(w, written, ran), DOMAIN version = Task,
         AttemptGuard(row[worker[w].held], w) /\ ran # Null =>
           written.status = "completed" /\ ran = Given(w)
  PROVE  VersionHolds'
<1> DEFINE t == worker[w].held
           mine == AttemptGuard(row[t], w)
<1>1. /\ t \in Task /\ config' = config /\ disturbed' = disturbed
      /\ used \in [Task -> Config \cup {Null}] /\ Fine(t)
  BY DEF Whole, Base, Busy, WorkerState, Writes
<1>2. ASSUME NEW x \in Task, x \notin disturbed, used'[x] # Null, ~(x = t /\ mine)
      PROVE  version'[x] = used'[x].path
  <2>1. used'[x] = used[x] /\ version'[x] = version[x]
    BY <1>1, <1>2 DEF Writes
  <2> QED BY <1>2, <2>1 DEF VersionHolds
<1>3. ASSUME t \notin disturbed, used'[t] # Null, mine
      PROVE  version'[t] = used'[t].path
  <2>1. used'[t] = ran /\ ran = config[t] /\ written.status = "completed"
    BY <1>1, <1>3 DEF Writes, Given
  <2>2. version'[t] = worker[w].settings.path
    BY <1>1, <1>3, <2>1 DEF Writes
  <2>3. config[t] = EvaluationConfig(worker[w].settings)
    BY <1>1, <1>3 DEF AttemptGuard, Fine, Undisturbed, InHand
  <2> QED BY <2>1, <2>2, <2>3 DEF EvaluationConfig
<1> QED BY <1>1, <1>2, <1>3 DEF VersionHolds

(* Of a task that is not completed no engine has computed anything yet.    *)
LEMMA UnusedYet ==
  ASSUME Whole, NEW t \in Task, row[t] = Null \/ Queued(row[t]) \/ Running(row[t])
  PROVE  used[t] = Null
BY DEF Whole, Fine, Typed, Queued, Running

LEMMA VersionStep ==
  ASSUME Whole, VersionHolds, DOMAIN version = Task,
         [DeploymentNext]_deploymentVars
  PROVE  VersionHolds' /\ DOMAIN version' = Task
<1>1. ASSUME UNCHANGED <<used, version>>, disturbed \subseteq disturbed'
      PROVE  VersionHolds' /\ DOMAIN version' = Task
  BY <1>1 DEF VersionHolds
<1>2. CASE UNCHANGED deploymentVars
  BY <1>1, <1>2 DEF deploymentVars
<1>3. ASSUME NEW s \in Setting, ApiStart(s) \/ \E w \in Worker : WorkerStart(w, s)
      PROVE  VersionHolds' /\ DOMAIN version' = Task
  BY <1>1, <1>3 DEF ApiStart, WorkerStart
<1>4. ASSUME NEW t \in Task, Submit(t) PROVE VersionHolds' /\ DOMAIN version' = Task
  BY <1>1, <1>4 DEF Submit
<1>5. ASSUME NEW w \in Worker, WorkerStops(w) \/ PersistRaises(w)
      PROVE  VersionHolds' /\ DOMAIN version' = Task
  BY <1>1, <1>5 DEF WorkerStops, PersistRaises
<1>6. ASSUME NEW w \in Worker, Recover(w) PROVE VersionHolds' /\ DOMAIN version' = Task
  <2>1. \A t \in Task : Expired(row[t]) => used[t] = Null
    BY UnusedYet DEF Expired, HasLease
  <2>2. /\ version' = [t \in Task |-> IF Expired(row[t]) THEN Null ELSE version[t]]
        /\ used' = used /\ disturbed' = disturbed
    BY <1>6 DEF Recover
  <2> QED BY <2>1, <2>2 DEF VersionHolds
<1>7. ASSUME NEW w \in Worker, Claim(w) \/ ClaimRaises(w)
      PROVE  VersionHolds' /\ DOMAIN version' = Task
  <2>1. CASE UNCHANGED <<version, disturbed>>
    BY <1>1, <1>7, <2>1 DEF Claim, ClaimRaises
  <2>2. ASSUME NEW t \in Task, Queued(row[t]), version' = [version EXCEPT ![t] = Null],
               disturbed \subseteq disturbed'
        PROVE  VersionHolds' /\ DOMAIN version' = Task
    <3>1. used[t] = Null /\ used' = used
      BY <1>7, <2>2, UnusedYet DEF Claim, ClaimRaises
    <3> QED BY <2>2, <3>1 DEF VersionHolds
  <2> QED BY <1>7, <2>1, <2>2 DEF Claim, ClaimRaises
<1>8. ASSUME NEW w \in Worker, Succeeds(w) PROVE VersionHolds' /\ DOMAIN version' = Task
  <2> DEFINE written == CompletedRow(row[worker[w].held], Zero)
  <2>1. PICK ran \in {Null, Given(w)} : Writes(w, written, ran)
    BY <1>8 DEF Succeeds
  <2>2. Busy(w) /\ DOMAIN version' = Task
    BY <1>8, <2>1 DEF Succeeds, Writes
  <2>3. AttemptGuard(row[worker[w].held], w) => written.status = "completed"
    <3>1. worker[w].held \in Task
      BY <2>2 DEF Busy, Whole, Base, WorkerState
    <3>2. AttemptGuard(row[worker[w].held], w) => row[worker[w].held] \in Row
      BY <3>1 DEF AttemptGuard, HasLeaseLeft, Running, Whole, Fine, Typed
    <3> QED BY <3>2 DEF CompletedRow, Row
  <2> HIDE DEF written
  <2> QED BY <2>1, <2>2, <2>3, WritesVersion
<1>9. ASSUME NEW w \in Worker, Fails(w) PROVE VersionHolds' /\ DOMAIN version' = Task
  <2>1. PICK code \in EngineCode : Writes(w, GivenUp(row[worker[w].held], code), Null)
    BY <1>9 DEF Fails
  <2>2. Busy(w) /\ DOMAIN version' = Task
    BY <1>9, <2>1 DEF Fails, Writes
  <2> QED BY <2>1, <2>2, WritesVersion
<1>10. CASE Tick
  BY <1>1, <1>10 DEF Tick
<1> QED BY <1>2, <1>3, <1>4, <1>5, <1>6, <1>7, <1>8, <1>9, <1>10 DEF DeploymentNext

(* The engine_version of a result is that of the engine that computed it,  *)
(* as long as its task was not stopped on, not carried across an edit and  *)
(* not left behind by a failing call: the identity a worker reads once,    *)
(* when it starts, is enough for these.                                    *)
THEOREM VersionsHold == DeploymentSpec => []VersionHolds
<1> DEFINE Versioned == VersionHolds /\ DOMAIN version = Task
<1>1. DeploymentInit => Versioned
  BY DEF DeploymentInit, VersionHolds
<1>2. Whole /\ Versioned /\ [DeploymentNext]_deploymentVars => Versioned'
  BY VersionStep
<1>3. Versioned => VersionHolds
  OBVIOUS
<1> HIDE DEF Versioned
<1> QED BY <1>3, <1>1, <1>2, WholeAlways, PTL DEF DeploymentSpec
-----------------------------------------------------------------------------
(* The life of a task.                                                     *)

LEMMA GivenUpLives ==
  ASSUME Whole, NEW t \in Task, Running(row[t]), NEW code \in ErrorCode,
         row'[t] = GivenUp(row[t], code)
  PROVE  Lifecycle!GiveBack(t) \/ Lifecycle!Fail(t)
<1> DEFINE old == row[t]  new == row'[t]
<1>1. old \in Row /\ SatisfiesChecks(old) /\ old # Null
  BY DEF Whole, Fine, Typed, Running
<1>2. /\ new \in Row /\ SatisfiesChecks(new) /\ new.attempts = old.attempts /\ new # Null
      /\ \/ /\ Queued(new) /\ old.attempts < MaxAttempts /\ new.error_code = Null
         \/ /\ new.status = "failed" /\ old.attempts = MaxAttempts
  BY <1>1, GivenUpOK, Nulls
<1> HIDE DEF new
<1>3. /\ new.status = "queued" => VerdictOf(new) = NoVerdict
      /\ new.status = "failed" => VerdictOf(new) \in Verdicts
  BY <1>2, RowVerdict DEF Queued
<1> QED BY <1>1, <1>2, <1>3
        DEF new, Queued, Running, PhaseOf, AttemptsOf, Lifecycle!GiveBack, Lifecycle!Fail

LEMMA ClaimedLives ==
  ASSUME Whole, NEW t \in Task, Queued(row[t]), NEW w \in Worker, NEW n \in Nat \ {0},
         row'[t] = [Claimed(row[t], w) EXCEPT !.lease = n]
  PROVE  Lifecycle!Attempt(t)
<1> DEFINE old == row[t]  new == row'[t]
<1>1. old \in Row /\ SatisfiesChecks(old) /\ old # Null /\ old.attempts < MaxAttempts
  BY DEF Whole, Fine, Typed, Queued
<1>2. /\ new \in Row /\ SatisfiesChecks(new) /\ new.status = "running"
      /\ new.error_code = Null /\ new # Null
  BY <1>1, ClaimedFor
<1>3. new.attempts = old.attempts + 1
  <2>1. Claimed(old, w) \in Row /\ Claimed(old, w).attempts = old.attempts + 1
    BY <1>1, ClaimedOK DEF Worker
  <2> QED BY <2>1 DEF Row
<1> HIDE DEF new
<1>4. VerdictOf(new) = NoVerdict
  BY <1>2, RowVerdict
<1> QED BY <1>1, <1>2, <1>3, <1>4
        DEF new, Queued, PhaseOf, AttemptsOf, Lifecycle!Attempt

LEMMA CompletedLives ==
  ASSUME Whole, NEW t \in Task, Running(row[t]), row'[t] = CompletedRow(row[t], Zero)
  PROVE  Lifecycle!Complete(t)
<1> DEFINE old == row[t]  new == row'[t]
<1>1. old \in Row /\ SatisfiesChecks(old) /\ old # Null
  BY DEF Whole, Fine, Typed, Running
<1>2. Zero \in Arguments /\ ValidOutcome(Zero)
  BY Nulls DEF Zero, Arguments, ValidOutcome
<1>3. /\ new \in Row /\ SatisfiesChecks(new) /\ new.status = "completed"
      /\ new.attempts = old.attempts /\ new # Null
  BY <1>1, <1>2, CompletedRowOK, Nulls
<1> HIDE DEF new
<1>4. VerdictOf(new) \in Verdicts
  BY <1>3, RowVerdict
<1> QED BY <1>1, <1>3, <1>4 DEF new, Running, PhaseOf, AttemptsOf, Lifecycle!Complete

LEMMA SubmittedLives ==
  ASSUME NEW t \in Task, row[t] = Null, row'[t] = NewRow(0)
  PROVE  Lifecycle!Submit(t)
<1> DEFINE new == row'[t]
<1>1. /\ new \in Row /\ SatisfiesChecks(new) /\ Queued(new) /\ new.attempts = 0
      /\ new.error_code = Null /\ new # Null
  BY NewRowOK, Nulls
<1> HIDE DEF new
<1>2. VerdictOf(new) = NoVerdict
  BY <1>1, RowVerdict DEF Queued
<1> QED BY <1>1, <1>2 DEF new, Queued, PhaseOf, AttemptsOf, Lifecycle!Submit

LEMMA AgedLives ==
  ASSUME Whole, NEW t \in Task, row'[t] = Aged(row[t])
  PROVE  Lifecycle!Steady(t)
<1>1. CASE row[t] = Null
  BY <1>1 DEF Aged, HasLeaseLeft, Running, Lifecycle!Steady
<1>2. CASE row[t] # Null
  <2>1. row[t] \in Row /\ SatisfiesChecks(row[t])
    BY <1>2 DEF Whole, Fine, Typed
  <2>2. /\ row'[t] # Null /\ row'[t].status = row[t].status
        /\ row'[t].attempts = row[t].attempts /\ VerdictOf(row'[t]) = VerdictOf(row[t])
    BY <2>1, AgedRowOK, Nulls
  <2> QED BY <1>2, <2>2 DEF PhaseOf, AttemptsOf, Lifecycle!Steady
<1> QED BY <1>1, <1>2

(* Whatever environments the processes were started with, and whichever    *)
(* of them are stopped, a task lives as TaskLifecycle says: it is given at *)
(* most MaxAttempts attempts, and what it says in the end is never changed.*)
THEOREM DeploymentImplementsLifecycle == DeploymentSpec => DeploymentLifecycle
<1>1. DeploymentInit => Lifecycle!Init
  BY DEF DeploymentInit, Lifecycle!Init, PhaseOf, AttemptsOf, VerdictOf
<1>2. ASSUME Whole, [DeploymentNext]_deploymentVars, NEW t \in Task
      PROVE  \/ Lifecycle!Steady(t)   \/ Lifecycle!Submit(t)
             \/ Lifecycle!Attempt(t)  \/ Lifecycle!GiveBack(t)
             \/ Lifecycle!Fail(t)     \/ Lifecycle!Complete(t)
  <2>0. CASE row'[t] = row[t]
    BY <2>0 DEF Lifecycle!Steady
  <2>1. CASE UNCHANGED deploymentVars
    BY <2>0, <2>1 DEF deploymentVars
  <2>2. ASSUME NEW s \in Setting, ApiStart(s) \/ \E w \in Worker : WorkerStart(w, s)
        PROVE  row'[t] = row[t]
    BY <2>2 DEF ApiStart, WorkerStart
  <2>3. ASSUME NEW x \in Task, Submit(x)
        PROVE  row'[t] = row[t] \/ Lifecycle!Submit(t)
    BY <1>2, <2>3, SubmittedLives DEF Submit, Whole, Base
  <2>4. ASSUME NEW w \in Worker, WorkerStops(w) \/ PersistRaises(w)
        PROVE  row'[t] = row[t]
    BY <2>4 DEF WorkerStops, PersistRaises
  <2>5. ASSUME NEW w \in Worker, Recover(w)
        PROVE  row'[t] = row[t] \/ Lifecycle!GiveBack(t) \/ Lifecycle!Fail(t)
    BY <1>2, <2>5, GivenUpLives, Nulls DEF Recover, Recovered, Expired, HasLease
  <2>6. ASSUME NEW w \in Worker, Claim(w) \/ ClaimRaises(w)
        PROVE  row'[t] = row[t] \/ Lifecycle!Attempt(t)
    <3> DEFINE mine == worker[w].settings
    <3>1. mine \in Setting /\ mine.lease \in Nat \ {0}
      BY <1>2, <2>6, AcceptedSettings
         DEF Claim, ClaimRaises, Free, Whole, Base, Up, WorkerState
    <3>2. CASE row' = row
      BY <3>2
    <3>3. ASSUME NEW x \in Task, Queued(row[x]),
                 row' = [row EXCEPT ![x] = [Claimed(@, w) EXCEPT !.lease = mine.lease]]
          PROVE  row'[t] = row[t] \/ Lifecycle!Attempt(t)
      BY <1>2, <3>1, <3>3, ClaimedLives DEF Whole, Base
    <3> QED BY <2>6, <3>2, <3>3 DEF Claim, ClaimRaises
  <2>7. ASSUME NEW w \in Worker, NEW written, NEW ran, Busy(w), Writes(w, written, ran)
        PROVE  \/ row'[t] = row[t]
               \/ t = worker[w].held /\ Running(row[t]) /\ row'[t] = written
    BY <1>2, <2>7 DEF Writes, AttemptGuard, HasLeaseLeft, Whole, Base
  <2>8. ASSUME NEW w \in Worker, Succeeds(w)
        PROVE  row'[t] = row[t] \/ Lifecycle!Complete(t)
    BY <1>2, <2>7, <2>8, CompletedLives DEF Succeeds
  <2>9. ASSUME NEW w \in Worker, Fails(w)
        PROVE  row'[t] = row[t] \/ Lifecycle!GiveBack(t) \/ Lifecycle!Fail(t)
    BY <1>2, <2>7, <2>9, GivenUpLives, Nulls DEF Fails
  <2>10. CASE Tick
    BY <1>2, <2>10, AgedLives DEF Tick
  <2> QED BY <1>2, <2>0, <2>1, <2>2, <2>3, <2>4, <2>5, <2>6, <2>8, <2>9, <2>10
          DEF DeploymentNext
<1>3. Whole /\ [DeploymentNext]_deploymentVars => [Lifecycle!Next]_Lifecycle!lifecycle
  BY <1>2 DEF Lifecycle!Next
<1> QED BY <1>1, <1>3, WholeAlways, PTL
        DEF DeploymentSpec, DeploymentLifecycle, Lifecycle!Spec
=============================================================================
