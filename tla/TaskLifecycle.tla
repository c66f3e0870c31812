--------------------------- MODULE TaskLifecycle ---------------------------
(***************************************************************************)
(* What the task service promises to everybody who reads a task: the state *)
(* matrix of docs/architecture/platform/task-execution.md and of           *)
(* ADR-0006, without sessions, leases, workers or messages.                *)
(*                                                                         *)
(* state[t]    the state of the task record                                *)
(* current[t]  the number of the last attempt that was claimed             *)
(* sent[t]     the highest attempt number a queue message was written for  *)
(* open[t]     the attempts whose record still says "running"              *)
(***************************************************************************)
EXTENDS Naturals

CONSTANTS Tasks, MaxAttempt

VARIABLES state, current, sent, open

lifecycleVars == <<state, current, sent, open>>

Immutable == {"succeeded", "timed_out", "cancelled"}
Resumable == {"paused", "failed"}
Settled == Immutable \cup Resumable
TaskStates == {"queued", "running"} \cup Settled

LifecycleInit ==
  /\ state = [t \in Tasks |-> "queued"]
  /\ current = [t \in Tasks |-> 0]
  /\ sent = [t \in Tasks |-> 1]
  /\ open = [t \in Tasks |-> {}]

(* A worker takes the one attempt that was announced and not yet claimed.  *)
Claim(t) ==
  /\ state[t] = "queued"
  /\ open[t] = {}
  /\ sent[t] = current[t] + 1
  /\ state' = [state EXCEPT ![t] = "running"]
  /\ current' = [current EXCEPT ![t] = sent[t]]
  /\ open' = [open EXCEPT ![t] = {sent[t]}]
  /\ UNCHANGED sent

(* A running task gets its outcome; its attempt closes with it, or later.  *)
Settle(t) ==
  /\ state[t] = "running"
  /\ open[t] = {current[t]}
  /\ \E s \in Settled : state' = [state EXCEPT ![t] = s]
  /\ \/ open' = [open EXCEPT ![t] = {}]
     \/ UNCHANGED open
  /\ UNCHANGED <<current, sent>>

(* The attempt left open by Settle closes; the task keeps its outcome.     *)
Close(t) ==
  /\ state[t] \in Settled
  /\ open[t] = {current[t]}
  /\ open' = [open EXCEPT ![t] = {}]
  /\ UNCHANGED <<state, current, sent>>

(* Only a paused or failed task with no open attempt is queued again, and  *)
(* always together with the message of its next attempt.                   *)
Resume(t) ==
  /\ state[t] \in Resumable
  /\ open[t] = {}
  /\ current[t] < MaxAttempt
  /\ state' = [state EXCEPT ![t] = "queued"]
  /\ sent' = [sent EXCEPT ![t] = current[t] + 1]
  /\ UNCHANGED <<current, open>>

(* A task that runs nothing is given up.                                   *)
Abandon(t) ==
  /\ state[t] \in {"queued"} \cup Resumable
  /\ open[t] = {}
  /\ state' = [state EXCEPT ![t] = "cancelled"]
  /\ UNCHANGED <<current, sent, open>>

LifecycleNext ==
  \E t \in Tasks : Claim(t) \/ Settle(t) \/ Close(t) \/ Resume(t) \/ Abandon(t)

LifecycleSpec == LifecycleInit /\ [][LifecycleNext]_lifecycleVars
=============================================================================
