--------------------------- MODULE TaskExecution ---------------------------
(***************************************************************************)
(* The execution protocol of persistent tasks: worker threads claim the    *)
(* queue message of an attempt, run the task, and settle the task and the  *)
(* attempt records, while other threads hold older or newer deliveries of  *)
(* the same message and API requests cancel, terminate and resume.         *)
(*                                                                         *)
(* The database is SQLite in WAL mode and the driver opens a transaction   *)
(* only at the first write, so every SELECT of a service method is a step  *)
(* of its own, working on whatever was committed by then; the UPDATEs of a *)
(* method and their commit are one step, because the file has one writer.  *)
(* A thread keeps what it read in seen[p] and compares it with the rows    *)
(* only through the WHERE clauses of those UPDATEs.                        *)
(*                                                                         *)
(* The queue is seen from here through lease[t][n], the file of the message *)
(* of attempt n: its holder, the highest attempt_count, its leased_at.     *)
(* The timestamps leased_at/heartbeat_at are the ticks of that message.    *)
(***************************************************************************)
EXTENDS Naturals

CONSTANTS
  Tasks,        \* task records
  Kinds,        \* the kinds the tasks are chosen from
  Procs,        \* threads that consume task queues
  Callers,      \* API requests in flight
  Workers,      \* worker_id values
  WorkerOf,     \* the worker_id a thread leases with; threads may share one
  NoWorker,     \* the worker_id of no record
  MaxAttempt,   \* bound: attempts of a task
  MaxBeat       \* bound: leases and refreshes of the message of an attempt

ASSUME KindsAssumption == Kinds \subseteq
  {"training", "evaluation", "conversion", "dataset", "workspace"}
ASSUME WorkerOfAssumption == WorkerOf \in [Procs -> Workers] /\ NoWorker \notin Workers
ASSUME BoundsAssumption ==
  MaxAttempt \in Nat \ {0} /\ MaxBeat \in [1 .. MaxAttempt -> Nat]

VARIABLES
  kind,      \* kind[t]: task_kind
  state,     \* state[t]: TaskRecord.state
  current,   \* current[t]: TaskRecord.current_attempt_no
  sent,      \* sent[t]: highest attempt number with an outbox message
  attempt,   \* attempt[t][n]: the TaskAttempt row, or NoAttempt
  lease,     \* lease[t][n]: the leases of the message of attempt n
  pc,        \* pc[p]: next step of thread p
  job,       \* job[p]: the QueueMessage thread p holds
  seen,      \* seen[p]: the rows thread p read
  out,       \* out[p]: the outcome p is settling, and whether this is the ack
  hb,        \* hb[p]: a heartbeat at rest, about to refresh the file, or the row
  call       \* call[c]: an API request and the rows it read

records == <<kind, state, current, sent, attempt>>
threads == <<pc, job, seen, out, hb>>
vars == <<kind, state, current, sent, attempt, lease, pc, job, seen, out, hb, call>>

AttemptNos == 1 .. MaxAttempt
Outcomes == {"succeeded", "failed", "paused", "timed_out", "cancelled"}
Immutable == {"succeeded", "timed_out", "cancelled"}
TaskStates == {"queued", "running"} \cup Outcomes

(* Dataset jobs settle the task with a fenced state command and leave the  *)
(* attempt to the queue ack; the other kinds settle both in the finalizer. *)
CommandKinds == {"dataset", "workspace"}

(* What the execution of each kind may report here.  A conversion succeeds *)
(* only through its publication protocol, which is not part of this module. *)
Reports(k) ==
  CASE k = "training"   -> {"succeeded", "failed", "paused", "cancelled"}
    [] k = "conversion" -> {"failed", "timed_out"}
    [] OTHER            -> {"succeeded", "failed"}

Attempts == [state: {"none", "running"} \cup Outcomes, worker: Workers \cup {NoWorker},
             count: Nat, beat: Nat]
NoAttempt == [state |-> "none", worker |-> NoWorker, count |-> 0, beat |-> 0]
NoAttempts == [n \in AttemptNos |-> NoAttempt]

Seen == [state: TaskStates, current: Nat, attempts: [AttemptNos -> Attempts]]
NoSeen == [state |-> "queued", current |-> 0, attempts |-> NoAttempts]
NoOut == [outcome |-> "failed", ack |-> FALSE]

ClaimSteps == {"readTask", "readAttempts", "claim"}
FinalSteps == {"finReadAttempt", "finReadTask", "finCommit"}
CommandSteps == {"cmdReadTask", "cmdReadAttempt", "cmdCommit"}
Steps == {"idle", "execute", "stop"} \cup ClaimSteps \cup FinalSteps \cup CommandSteps

Init ==
  /\ kind \in [Tasks -> Kinds]
  /\ state = [t \in Tasks |-> "queued"]
  /\ current = [t \in Tasks |-> 0]
  /\ sent = [t \in Tasks |-> 1]
  /\ attempt = [t \in Tasks |-> NoAttempts]
  /\ lease = [t \in Tasks |-> [n \in AttemptNos |-> [holder |-> {}, count |-> 0, beat |-> 0]]]
  /\ pc = [p \in Procs |-> "idle"]
  /\ \E t \in Tasks : job = [p \in Procs |-> [task |-> t, no |-> 1, count |-> 0, beat |-> 0]]
  /\ seen = [p \in Procs |-> NoSeen]
  /\ out = [p \in Procs |-> NoOut]
  /\ hb = [p \in Procs |-> "rest"]
  /\ \E t \in Tasks : call = [c \in Callers |-> [step |-> "none", task |-> t, seen |-> NoSeen]]

(***************************************************************************)
(* Thread p returns to its polling loop, or its process is gone.           *)
(***************************************************************************)
Rest(p) ==
  /\ pc' = [pc EXCEPT ![p] = "idle"]
  /\ job' = [job EXCEPT ![p] = [@ EXCEPT !.no = 1, !.count = 0, !.beat = 0]]
  /\ seen' = [seen EXCEPT ![p] = NoSeen]
  /\ out' = [out EXCEPT ![p] = NoOut]
  /\ hb' = [hb EXCEPT ![p] = "rest"]

GoTo(p, s) == pc' = [pc EXCEPT ![p] = s]

(***************************************************************************)
(* Delivery.  claim_next hands out the message of an announced attempt     *)
(* with a new leased_at and an attempt_count at most one above the highest *)
(* delivered before: the next one for a lease that expired, while its      *)
(* holder may still be alive, a lower one when a repeated enqueue or a     *)
(* late refresh put an older copy of the file in its place.                *)
(***************************************************************************)
Deliver(p, t, n, c) ==
  LET b == lease[t][n].beat + 1  k == lease[t][n].count IN
  /\ pc[p] = "idle"
  /\ n <= sent[t]
  /\ b <= MaxBeat[n]
  /\ lease' = [lease EXCEPT ![t][n] =
       [holder |-> {p}, count |-> IF c > k THEN c ELSE k, beat |-> b]]
  /\ job' = [job EXCEPT ![p] = [task |-> t, no |-> n, count |-> c, beat |-> b]]
  /\ GoTo(p, "readTask")
  /\ UNCHANGED <<records, seen, out, hb, call>>

DeliverMessage(p) ==
  \E t \in Tasks, n \in AttemptNos : \E c \in 1 .. lease[t][n].count + 1 : Deliver(p, t, n, c)

(* metadata.lease_recovery_count of a delivery: a message keeps its        *)
(* attempt_count only through recover_expired_leases, which marks it.  One *)
(* that a crash left unmarked is refused, and that step looks like Crash.  *)
Recovered(p) == job[p].count > 1

ReadTask(p, t) == [seen[p] EXCEPT !.state = state[t], !.current = current[t]]

ClaimReadTask(p) ==
  /\ pc[p] = "readTask"
  /\ seen' = [seen EXCEPT ![p] = ReadTask(p, job[p].task)]
  /\ GoTo(p, "readAttempts")
  /\ UNCHANGED <<records, lease, job, out, hb, call>>

ClaimReadAttempts(p) ==
  /\ pc[p] = "readAttempts"
  /\ seen' = [seen EXCEPT ![p].attempts = attempt[job[p].task]]
  /\ GoTo(p, "claim")
  /\ UNCHANGED <<records, lease, job, out, hb, call>>

(* The attempt is new and the next one of a queued task; the UPDATE must   *)
(* still find the task queued at the number that was read.                 *)
CanClaimFirst(p) ==
  LET t == job[p].task  n == job[p].no  s == seen[p] IN
  /\ s.attempts[n] = NoAttempt
  /\ s.state = "queued"
  /\ \A m \in AttemptNos : s.attempts[m] # NoAttempt => m <= s.current
  /\ s.current \in AttemptNos => s.attempts[s.current] # NoAttempt
  /\ n = s.current + 1
  /\ state[t] = "queued" /\ current[t] = s.current
  /\ attempt[t][n] = NoAttempt

ClaimFirst(p) ==
  LET t == job[p].task  n == job[p].no IN
  /\ pc[p] = "claim"
  /\ CanClaimFirst(p)
  /\ state' = [state EXCEPT ![t] = "running"]
  /\ current' = [current EXCEPT ![t] = n]
  /\ attempt' = [attempt EXCEPT ![t][n] =
       [state |-> "running", worker |-> WorkerOf[p], count |-> job[p].count, beat |-> job[p].beat]]
  /\ seen' = [seen EXCEPT ![p] = NoSeen]
  /\ GoTo(p, "execute")
  /\ UNCHANGED <<kind, sent, lease, job, out, hb, call>>

(* Variants of CanReclaim that must fail: the UPDATE trusts the row that   *)
(* was read; every delivery may take over, not only a recovered later one. *)
ReclaimsStaleRow(p) ==
  LET n == job[p].no  s == seen[p]  a == s.attempts[n] IN
  n >= s.current /\ a.state = "running" /\ Recovered(p) /\ job[p].count > a.count

ReclaimsAnyDelivery(p) ==
  LET t == job[p].task  n == job[p].no  s == seen[p]  a == s.attempts[n] IN
  /\ n >= s.current /\ a.state = "running"
  /\ attempt[t][n].state = "running"
  /\ attempt[t][n].worker = a.worker /\ attempt[t][n].beat = a.beat

(* The row read is running, belongs to an older delivery of the same       *)
(* message, and has not been touched since.                                *)
CanReclaim(p) ==
  LET t == job[p].task  n == job[p].no  s == seen[p]  a == s.attempts[n] IN
  /\ n >= s.current
  /\ a.state = "running" /\ Recovered(p) /\ job[p].count > a.count
  /\ attempt[t][n].state = "running"
  /\ attempt[t][n].worker = a.worker /\ attempt[t][n].beat = a.beat

(* The attempt is taken over by this delivery; if the task is over already *)
(* it is closed with state s instead, and not executed again.              *)
TakeOver(p, over, s) ==
  LET t == job[p].task  n == job[p].no IN
  /\ pc[p] = "claim"
  /\ CanReclaim(p)
  /\ attempt' = [attempt EXCEPT ![t][n] =
       [state |-> IF over THEN s ELSE "running",
        worker |-> WorkerOf[p], count |-> job[p].count, beat |-> job[p].beat]]
  /\ IF over
       THEN Rest(p)
       ELSE /\ GoTo(p, "execute")
            /\ seen' = [seen EXCEPT ![p] = NoSeen]
            /\ UNCHANGED <<job, out, hb>>
  /\ UNCHANGED <<kind, state, current, sent, lease, call>>

(* Variants of Reclaim that must fail: every task that does not say running *)
(* counts as over; an abandoned attempt is always closed as failed.        *)
ReclaimUnlessRunning(p) == TakeOver(p, seen[p].state # "running", seen[p].state)
ReclaimAsFailed(p) == TakeOver(p, seen[p].state \in Outcomes \ {"paused"}, "failed")

Reclaim(p) ==
  TakeOver(p, seen[p].state \in {"succeeded", "failed", "timed_out", "cancelled"}, seen[p].state)

(* Everything else is suppressed or rejected and acknowledged as such.     *)
ClaimRefused(p) ==
  /\ pc[p] = "claim"
  /\ ~CanClaimFirst(p) /\ ~CanReclaim(p)
  /\ Rest(p)
  /\ UNCHANGED <<records, lease, call>>

(***************************************************************************)
(* Heartbeat.  refresh_lease finds the lease file still its own, rewrites  *)
(* it with a new leased_at, then writes that to the running row of the     *)
(* same worker_id.  Training runs it in a thread beside the execution, the *)
(* other kinds between two steps of it.                                    *)
(***************************************************************************)
HeartbeatCheck(p) ==
  LET t == job[p].task  n == job[p].no IN
  /\ \/ pc[p] = "execute"
     \/ kind[t] = "training" /\ pc[p] \in FinalSteps \cup {"stop"} /\ ~out[p].ack
  /\ hb[p] = "rest"
  /\ lease[t][n].holder = {p} /\ lease[t][n].beat < MaxBeat[n]
  /\ hb' = [hb EXCEPT ![p] = "refresh"]
  /\ UNCHANGED <<records, lease, pc, job, seen, out, call>>

HeartbeatRefresh(p) ==
  LET t == job[p].task  n == job[p].no  b == lease[t][n].beat + 1 IN
  /\ hb[p] = "refresh"
  /\ b <= MaxBeat[n]
  /\ lease' = [lease EXCEPT ![t][n] = [@ EXCEPT !.holder = {p}, !.beat = b]]
  /\ job' = [job EXCEPT ![p].beat = b]
  /\ hb' = [hb EXCEPT ![p] = "write"]
  /\ UNCHANGED <<records, pc, seen, out, call>>

HeartbeatWrite(p) ==
  LET t == job[p].task  n == job[p].no IN
  /\ hb[p] = "write"
  /\ attempt' = IF attempt[t][n].state = "running" /\ attempt[t][n].worker = WorkerOf[p]
                  THEN [attempt EXCEPT ![t][n].beat = job[p].beat]
                  ELSE attempt
  /\ hb' = [hb EXCEPT ![p] = "rest"]
  /\ UNCHANGED <<kind, state, current, sent, lease, pc, job, seen, out, call>>

(* Execution proceeds past a refresh that runs inline only when it is done. *)
Inline(p) == kind[job[p].task] # "training" => hb[p] = "rest"

(***************************************************************************)
(* finalize_task_execution_attempt: read the attempt, read the task, then  *)
(* close both in one transaction.  It runs for the outcome of the task     *)
(* (without a heartbeat fence) and again when the queue message is         *)
(* acknowledged (with one).                                                *)
(***************************************************************************)
Finalize(p, o, a) ==
  /\ out' = [out EXCEPT ![p] = [outcome |-> o, ack |-> a]]
  /\ GoTo(p, "finReadAttempt")

(* The execution ends; the dataset workers report through the ack alone    *)
(* when their state command is not reached.                                *)
SettleOutcome(p) ==
  /\ pc[p] = "execute"
  /\ Inline(p)
  /\ \E o \in Reports(kind[job[p].task]) : Finalize(p, o, kind[job[p].task] \in CommandKinds)
  /\ UNCHANGED <<records, lease, job, seen, hb, call>>

FinReadAttempt(p) ==
  /\ pc[p] = "finReadAttempt"
  /\ seen' = [seen EXCEPT ![p].attempts[job[p].no] = attempt[job[p].task][job[p].no]]
  /\ GoTo(p, "finReadTask")
  /\ UNCHANGED <<records, lease, job, out, hb, call>>

FinReadTask(p) ==
  /\ pc[p] = "finReadTask"
  /\ seen' = [seen EXCEPT ![p] = ReadTask(p, job[p].task)]
  /\ GoTo(p, "finCommit")
  /\ UNCHANGED <<records, lease, job, out, hb, call>>

(* A variant that must fail: any delivery leased by the worker_id will do. *)
OwnsByWorker(p, withBeat) ==
  LET a == seen[p].attempts[job[p].no] IN
  a.worker = WorkerOf[p] /\ (withBeat => a.beat = job[p].beat)

(* _validate_attempt_lease_fence on the row that was read.                 *)
OwnsLease(p, withBeat) ==
  LET a == seen[p].attempts[job[p].no] IN
  /\ a.worker = WorkerOf[p] /\ a.count = job[p].count
  /\ withBeat => a.beat = job[p].beat

SeenCurrent(p) == seen[p].current = job[p].no

(* The row is as it was read and still running.                            *)
AttemptUntouched(p) ==
  LET a == seen[p].attempts[job[p].no]  b == attempt[job[p].task][job[p].no] IN
  b.state = "running" /\ b.worker = a.worker /\ b.beat = a.beat

AlreadyFinal(p) ==
  LET a == seen[p].attempts[job[p].no] IN
  /\ a.state # "running"
  /\ a.state = out[p].outcome /\ SeenCurrent(p) /\ seen[p].state = a.state
  /\ OwnsLease(p, FALSE)

CanFinish(p) ==
  /\ seen[p].attempts[job[p].no].state = "running"
  /\ OwnsLease(p, out[p].ack)
  /\ AttemptUntouched(p)

(* A variant that must fail: the attempt is closed before the task is.     *)
ClosesAttemptFirst(p) == CanFinish(p) /\ SeenCurrent(p)

(* The task already has this outcome: only the attempt is left to close.   *)
ClosesAttempt(p) == CanFinish(p) /\ SeenCurrent(p) /\ seen[p].state = out[p].outcome

ClosesBoth(p) ==
  /\ CanFinish(p) /\ SeenCurrent(p)
  /\ seen[p].state = "running"
  /\ state[job[p].task] = "running" /\ current[job[p].task] = job[p].no

(* A variant that must fail: the task is settled without its attempt.      *)
LeaveAttempt(p) == UNCHANGED attempt

CloseAttempt(p) ==
  attempt' = [attempt EXCEPT ![job[p].task][job[p].no] =
    [seen[p].attempts[job[p].no] EXCEPT !.state = out[p].outcome]]

(* After the outcome the lease heartbeat is stopped and the message is     *)
(* acknowledged; after the ack the thread polls again.                     *)
FinDone(p) ==
  IF out[p].ack
    THEN Rest(p)
    ELSE /\ GoTo(p, "stop")
         /\ seen' = [seen EXCEPT ![p] = NoSeen]
         /\ UNCHANGED <<job, out, hb>>

FinCommit(p) ==
  /\ pc[p] = "finCommit"
  /\ \/ AlreadyFinal(p) /\ UNCHANGED <<state, attempt>>
     \/ ClosesAttempt(p) /\ CloseAttempt(p) /\ UNCHANGED state
     \/ /\ ClosesBoth(p) /\ CloseAttempt(p)
        /\ state' = [state EXCEPT ![job[p].task] = out[p].outcome]
  /\ FinDone(p)
  /\ UNCHANGED <<kind, current, sent, lease, call>>

(* A refused outcome is reported as a failure, by the service and then by  *)
(* the ack of the queue; a refused ack ends the worker process.            *)
FinRefused(p) ==
  /\ pc[p] = "finCommit"
  /\ ~AlreadyFinal(p) /\ ~ClosesAttempt(p) /\ ~ClosesBoth(p)
  /\ \/ out[p].ack /\ Rest(p)
     \/ /\ ~out[p].ack /\ out[p].outcome # "failed"
        /\ Finalize(p, "failed", FALSE)
        /\ seen' = [seen EXCEPT ![p] = NoSeen]
        /\ UNCHANGED <<job, hb>>
     \/ /\ ~out[p].ack
        /\ GoTo(p, "stop")
        /\ out' = [out EXCEPT ![p].outcome = "failed"]
        /\ seen' = [seen EXCEPT ![p] = NoSeen]
        /\ UNCHANGED <<job, hb>>
  /\ UNCHANGED <<records, lease, call>>

(* lease.stop() joins the heartbeat thread before the ack.                 *)
StopHeartbeat(p) ==
  /\ pc[p] = "stop"
  /\ hb[p] = "rest"
  /\ Finalize(p, out[p].outcome, TRUE)
  /\ UNCHANGED <<records, lease, job, seen, hb, call>>

(***************************************************************************)
(* execute_task_state_command with a fence, as the dataset jobs use it:    *)
(* the fence is validated on the rows read, the UPDATE compares the task   *)
(* alone, and the attempt stays running until the ack.                     *)
(***************************************************************************)
StartCommand(p) ==
  /\ pc[p] = "execute"
  /\ kind[job[p].task] \in CommandKinds
  /\ Inline(p)
  /\ \E o \in {"succeeded", "failed"} : out' = [out EXCEPT ![p].outcome = o]
  /\ GoTo(p, "cmdReadTask")
  /\ UNCHANGED <<records, lease, job, seen, hb, call>>

CommandReadTask(p) ==
  /\ pc[p] = "cmdReadTask"
  /\ seen' = [seen EXCEPT ![p] = ReadTask(p, job[p].task)]
  /\ GoTo(p, "cmdReadAttempt")
  /\ UNCHANGED <<records, lease, job, out, hb, call>>

CommandReadAttempt(p) ==
  /\ pc[p] = "cmdReadAttempt"
  /\ seen' = [seen EXCEPT ![p].attempts[job[p].no] = attempt[job[p].task][job[p].no]]
  /\ GoTo(p, "cmdCommit")
  /\ UNCHANGED <<records, lease, job, out, hb, call>>

(* A variant that must fail: the UPDATE does not compare the task again.   *)
CommandsStaleTask(p) ==
  /\ seen[p].state = "running" /\ SeenCurrent(p)
  /\ seen[p].attempts[job[p].no].state = "running" /\ OwnsLease(p, FALSE)

CanCommand(p) ==
  /\ seen[p].state = "running" /\ SeenCurrent(p)
  /\ seen[p].attempts[job[p].no].state = "running" /\ OwnsLease(p, FALSE)
  /\ state[job[p].task] = "running" /\ current[job[p].task] = job[p].no

CommandCommit(p) ==
  /\ pc[p] = "cmdCommit"
  /\ CanCommand(p)
  /\ state' = [state EXCEPT ![job[p].task] = out[p].outcome]
  /\ Finalize(p, out[p].outcome, TRUE)
  /\ seen' = [seen EXCEPT ![p] = NoSeen]
  /\ UNCHANGED <<kind, current, sent, attempt, lease, job, hb, call>>

(* A refused success is retried as a failure or goes straight to the ack,  *)
(* which reports the cancellation if the task was cancelled meanwhile.     *)
CommandRefused(p) ==
  /\ pc[p] = "cmdCommit"
  /\ ~CanCommand(p)
  /\ \/ /\ out[p].outcome = "succeeded"
        /\ out' = [out EXCEPT ![p].outcome = "failed"]
        /\ GoTo(p, "cmdReadTask")
     \/ Finalize(p, "failed", TRUE)
     \/ state[job[p].task] = "cancelled" /\ Finalize(p, "cancelled", TRUE)
  /\ seen' = [seen EXCEPT ![p] = NoSeen]
  /\ UNCHANGED <<records, lease, job, hb, call>>

(***************************************************************************)
(* API requests.  Each keeps the rows it read in call[c].seen.             *)
(***************************************************************************)
Ask(c, s, t) ==
  call' = [call EXCEPT ![c] =
    [step |-> s, task |-> t,
     seen |-> [state |-> state[t], current |-> current[t], attempts |-> NoAttempts]]]

Answered(c) == call' = [call EXCEPT ![c] = [@ EXCEPT !.step = "none", !.seen = NoSeen]]

(* cancel_task: a finished task and a dataset job that started are refused. *)
CancelReadTask(c) ==
  \E t \in Tasks :
    /\ call[c].step = "none"
    /\ state[t] \in {"queued", "running", "paused"}
    /\ ~(kind[t] = "dataset" /\ state[t] = "running")
    /\ Ask(c, IF state[t] = "running" THEN "cancelReadAttempt" ELSE "cancel", t)
    /\ UNCHANGED <<records, lease, threads>>

CancelReadAttempt(c) ==
  LET t == call[c].task  n == call[c].seen.current IN
  /\ call[c].step = "cancelReadAttempt"
  /\ IF n \in AttemptNos /\ attempt[t][n].state = "running"
       THEN call' = [call EXCEPT ![c] =
              [step |-> "cancel", task |-> t, seen |-> [@.seen EXCEPT !.attempts[n] = attempt[t][n]]]]
       ELSE Answered(c)
  /\ UNCHANGED <<records, lease, threads>>

TaskUntouched(c) ==
  state[call[c].task] = call[c].seen.state /\ current[call[c].task] = call[c].seen.current

(* A variant that must fail: the task is not compared with what was read.  *)
CancelsStaleTask(c) ==
  LET s == call[c].seen IN
  s.state = "running" => attempt[call[c].task][s.current].state = "running"

(* The attempt is closed by its id alone, whoever owns it by then.         *)
CanCancel(c) ==
  LET t == call[c].task  s == call[c].seen IN
  /\ TaskUntouched(c)
  /\ s.state = "running" => attempt[t][s.current].state = "running"

Cancel(c) ==
  LET t == call[c].task  n == call[c].seen.current IN
  /\ call[c].step = "cancel"
  /\ CanCancel(c)
  /\ state' = [state EXCEPT ![t] = "cancelled"]
  /\ attempt' = IF call[c].seen.state = "running"
                  THEN [attempt EXCEPT ![t][n] = [call[c].seen.attempts[n] EXCEPT !.state = "cancelled"]]
                  ELSE attempt
  /\ Answered(c)
  /\ UNCHANGED <<kind, current, sent, lease, threads>>

(* request_training_terminate of a task that does not run; a running one   *)
(* only gets a control flag.                                               *)
TerminateReadTask(c) ==
  \E t \in Tasks :
    /\ call[c].step = "none"
    /\ kind[t] = "training" /\ state[t] \in {"queued", "paused"}
    /\ call' = [call EXCEPT ![c] = [@ EXCEPT !.step = "terminateReadTask", !.task = t]]
    /\ UNCHANGED <<records, lease, threads>>

(* execute_task_state_event_command reads the task again and expects what  *)
(* it finds then.                                                          *)
TerminateReadAgain(c) ==
  /\ call[c].step = "terminateReadTask"
  /\ Ask(c, "terminate", call[c].task)
  /\ UNCHANGED <<records, lease, threads>>

CanTerminate(c) == TaskUntouched(c) /\ call[c].seen.state \notin Immutable

Terminate(c) ==
  /\ call[c].step = "terminate"
  /\ CanTerminate(c)
  /\ state' = [state EXCEPT ![call[c].task] = "cancelled"]
  /\ Answered(c)
  /\ UNCHANGED <<kind, current, sent, attempt, lease, threads>>

(* resume_training_task: back to queued, with the outbox message of the    *)
(* next attempt in the same transaction.                                   *)
ResumeReadTask(c) ==
  \E t \in Tasks :
    /\ call[c].step = "none"
    /\ kind[t] = "training" /\ state[t] \in {"paused", "failed"}
    /\ current[t] < MaxAttempt
    /\ Ask(c, "resume", t)
    /\ UNCHANGED <<records, lease, threads>>

Resume(c) ==
  LET t == call[c].task IN
  /\ call[c].step = "resume"
  /\ TaskUntouched(c)
  /\ state' = [state EXCEPT ![t] = "queued"]
  /\ sent' = [sent EXCEPT ![t] = call[c].seen.current + 1]
  /\ Answered(c)
  /\ UNCHANGED <<kind, current, attempt, lease, threads>>

CallRefused(c) ==
  /\ \/ call[c].step = "cancel" /\ ~CanCancel(c)
     \/ call[c].step = "terminate" /\ ~CanTerminate(c)
     \/ call[c].step = "resume" /\ ~TaskUntouched(c)
  /\ Answered(c)
  /\ UNCHANGED <<records, lease, threads>>

(* The worker process dies, or the thread gives up a lease it lost.        *)
Crash(p) ==
  /\ pc[p] # "idle"
  /\ Rest(p)
  /\ UNCHANGED <<records, lease, call>>

ClaimNext(p) ==
  \/ DeliverMessage(p) \/ ClaimReadTask(p) \/ ClaimReadAttempts(p)
  \/ ClaimFirst(p) \/ Reclaim(p) \/ ClaimRefused(p)

FinalizeNext(p) ==
  \/ SettleOutcome(p) \/ FinReadAttempt(p) \/ FinReadTask(p)
  \/ FinCommit(p) \/ FinRefused(p) \/ StopHeartbeat(p)

CommandNext(p) ==
  \/ StartCommand(p) \/ CommandReadTask(p) \/ CommandReadAttempt(p)
  \/ CommandCommit(p) \/ CommandRefused(p)

CallNext(c) ==
  \/ CancelReadTask(c) \/ CancelReadAttempt(c) \/ Cancel(c)
  \/ TerminateReadTask(c) \/ TerminateReadAgain(c) \/ Terminate(c)
  \/ ResumeReadTask(c) \/ Resume(c) \/ CallRefused(c)

ThreadNext(p) ==
  \/ ClaimNext(p) \/ FinalizeNext(p) \/ CommandNext(p)
  \/ HeartbeatCheck(p) \/ HeartbeatRefresh(p) \/ HeartbeatWrite(p) \/ Crash(p)

Next == (\E p \in Procs : ThreadNext(p)) \/ (\E c \in Callers : CallNext(c))

Spec == Init /\ [][Next]_vars

----------------------------------------------------------------------------
(* Type correctness of every variable.                                     *)
Jobs == [task: Tasks, no: AttemptNos, count: Nat, beat: Nat]
Leases == [holder: SUBSET Procs, count: Nat, beat: Nat]
CallSteps == {"none", "cancelReadAttempt", "cancel", "terminateReadTask", "terminate", "resume"}

TypeOK ==
  /\ kind \in [Tasks -> Kinds]
  /\ state \in [Tasks -> TaskStates]
  /\ current \in [Tasks -> 0 .. MaxAttempt]
  /\ sent \in [Tasks -> AttemptNos]
  /\ attempt \in [Tasks -> [AttemptNos -> Attempts]]
  /\ lease \in [Tasks -> [AttemptNos -> Leases]]
  /\ pc \in [Procs -> Steps]
  /\ job \in [Procs -> Jobs]
  /\ seen \in [Procs -> Seen]
  /\ out \in [Procs -> [outcome: Outcomes, ack: BOOLEAN]]
  /\ hb \in [Procs -> {"rest", "refresh", "write"}]
  /\ call \in [Callers -> [step: CallSteps, task: Tasks, seen: Seen]]

(* The attempt rows of a task are numbered 1 to current_attempt_no without *)
(* a gap, and only the last one can still be running.                      *)
AttemptsInOrder ==
  \A t \in Tasks, n \in AttemptNos :
    /\ attempt[t][n].state # "none" <=> n <= current[t]
    /\ attempt[t][n].state = "running" => n = current[t]

(* A task that says running has the running row of its current attempt, so *)
(* a recovered delivery can take it over: no path leaves it ownerless.     *)
RunningTaskHasRunningAttempt ==
  \A t \in Tasks : state[t] = "running" =>
    current[t] \in AttemptNos /\ attempt[t][current[t]].state = "running"

(* A queued task has the message of its next attempt in the outbox and no  *)
(* attempt still running: it was neither queued twice nor queued unsent.   *)
QueuedTaskHasMessage ==
  \A t \in Tasks : state[t] = "queued" =>
    /\ sent[t] = current[t] + 1
    /\ \A n \in AttemptNos : attempt[t][n].state # "running"

(* An attempt that is closed agrees with its task as long as the task was  *)
(* not resumed or given up afterwards; a running attempt of a settled task *)
(* exists only where the protocol leaves the closing to the ack or to the  *)
(* next claim: dataset jobs, and a training terminated while it started.   *)
TerminalAgreement ==
  \A t \in Tasks : LET a == attempt[t][current[t]] IN
    current[t] \in AttemptNos /\ state[t] \in Outcomes =>
      \/ a.state = state[t]
      \/ state[t] = "cancelled" /\ a.state \in {"paused", "failed"}
      \/ a.state = "running" /\ (kind[t] \in CommandKinds \/ state[t] = "cancelled")

(* Past the claim and before it reports.                                   *)
Executing(p) == pc[p] = "execute" \/ pc[p] \in CommandSteps

(* Of the threads that execute an attempt at most one is its recorded      *)
(* owner: no two executions would both pass the lease fence.               *)
OneOwner ==
  \A p, q \in Procs :
    /\ Executing(p) /\ Executing(q)
    /\ job[p].task = job[q].task /\ job[p].no = job[q].no /\ job[p].count = job[q].count
    => p = q

(* What is final stays: a succeeded, timed out or cancelled task and a     *)
(* closed attempt row are never written again, whatever late deliveries,   *)
(* acks, heartbeats and requests still hold.                               *)
FinalStatesKept ==
  [][\A t \in Tasks :
       /\ state[t] \in Immutable => state'[t] = state[t]
       /\ \A n \in AttemptNos :
            attempt[t][n].state \in Outcomes => attempt'[t][n] = attempt[t][n]]_vars

(* A finalizer that closes an attempt is the thread the row names: a lease *)
(* taken over between its reads and its commit stops it.                   *)
FinalizedByOwner ==
  [][\A p \in Procs :
       LET a == attempt[job[p].task][job[p].no] IN
       pc[p] = "finCommit" /\ pc'[p] # "finCommit" /\ attempt' # attempt =>
         a.worker = WorkerOf[p] /\ a.count = job[p].count]_vars

(* The task service, seen as the state matrix alone.                       *)
Lifecycle == INSTANCE TaskLifecycle WITH
  open <- [t \in Tasks |-> {n \in AttemptNos : attempt[t][n].state = "running"}]
ImplementsLifecycle == Lifecycle!LifecycleSpec

(* ADR-0006 says that cancelling closes the running attempt in the same    *)
(* transaction, so that no task is final while its attempt still runs.     *)
CancelledHasNoRunningAttempt ==
  \A t \in Tasks, n \in AttemptNos :
    state[t] = "cancelled" => attempt[t][n].state # "running"

(* The task system document says an executor that lost its lease cannot    *)
(* write a terminal state.                                                 *)
CommandByOwner ==
  [][\A p \in Procs :
       LET a == attempt[job[p].task][job[p].no] IN
       pc[p] = "cmdCommit" /\ state' # state =>
         a.worker = WorkerOf[p] /\ a.count = job[p].count]_vars
=============================================================================
