--------------------------- MODULE TaskLifecycle ---------------------------
(***************************************************************************)
(* What the durable queue promises of a task, with no rows, leases, tokens *)
(* or transactions: a submitted task is attempted at most MaxAttempts      *)
(* times, an attempt either gives the task back to the queue or ends it,   *)
(* only a task whose attempts are used up may fail, and what a finished    *)
(* task says is never changed.                                             *)
(***************************************************************************)
EXTENDS Integers

CONSTANTS TaskId, MaxAttempts, Verdict, NoVerdict

VARIABLES phase,     \* where each task is in its life
          attempts,  \* how many attempts each task has been given
          verdict    \* what each finished task reports

lifecycle == <<phase, attempts, verdict>>

Phase == {"absent", "queued", "running", "completed", "failed"}

Init == /\ phase = [t \in TaskId |-> "absent"]
        /\ attempts = [t \in TaskId |-> 0]
        /\ verdict = [t \in TaskId |-> NoVerdict]

Steady(t) == /\ phase'[t] = phase[t]
             /\ attempts'[t] = attempts[t]
             /\ verdict'[t] = verdict[t]

Submit(t) == /\ phase[t] = "absent" /\ phase'[t] = "queued"
             /\ attempts'[t] = 0
             /\ verdict'[t] = NoVerdict

Attempt(t) == /\ phase[t] = "queued" /\ phase'[t] = "running"
              /\ attempts[t] < MaxAttempts /\ attempts'[t] = attempts[t] + 1
              /\ verdict'[t] = NoVerdict

GiveBack(t) == /\ phase[t] = "running" /\ phase'[t] = "queued"
               /\ attempts[t] < MaxAttempts /\ attempts'[t] = attempts[t]
               /\ verdict'[t] = NoVerdict

Fail(t) == /\ phase[t] = "running" /\ phase'[t] = "failed"
           /\ attempts[t] = MaxAttempts /\ attempts'[t] = attempts[t]
           /\ verdict'[t] \in Verdict

Complete(t) == /\ phase[t] = "running" /\ phase'[t] = "completed"
               /\ attempts'[t] = attempts[t]
               /\ verdict'[t] \in Verdict

(* One recovery may move many tasks at once, so a step moves any number.   *)
Next == \A t \in TaskId : \/ Steady(t)   \/ Submit(t) \/ Attempt(t)
                          \/ GiveBack(t) \/ Fail(t)   \/ Complete(t)

Spec == Init /\ [][Next]_lifecycle
=============================================================================
