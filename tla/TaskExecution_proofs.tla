------------------------ MODULE TaskExecution_proofs ------------------------
(***************************************************************************)
(* Proofs about TaskExecution for every number of tasks, threads, requests *)
(* and attempts.                                                           *)
(***************************************************************************)
EXTENDS TaskExecution, TLAPS

NoneRunning(t) == \A n \in AttemptNos : attempt[t][n].state # "running"

(* What a request still relies on when it commits.                         *)
CallOK ==
  \A c \in Callers :
    /\ call[c].step \in {"cancelReadAttempt", "cancel"} =>
         call[c].seen.state \in {"queued", "running", "paused"}
    /\ call[c].step \in {"terminateReadTask", "terminate"} => kind[call[c].task] = "training"
    /\ call[c].step = "resume" =>
         /\ kind[call[c].task] = "training"
         /\ call[c].seen.state \in {"paused", "failed"}
         /\ call[c].seen.current < MaxAttempt

(* A state command settles only the kinds that leave the attempt open, and *)
(* only as succeeded or failed.                                            *)
CommandOK ==
  \A p \in Procs : pc[p] \in CommandSteps =>
    kind[job[p].task] \in CommandKinds /\ out[p].outcome \in {"succeeded", "failed"}

(* The rows of a task.  Besides the three invariants: a message is sent    *)
(* for the current attempt or the next one, and for the next one only      *)
(* until the task is claimed or given up; a task that may be resumed has   *)
(* no attempt left open.                                                   *)
RowOK(t) ==
  /\ sent[t] \in {current[t], current[t] + 1}
  /\ sent[t] = current[t] + 1 => state[t] \in {"queued", "cancelled"}
  /\ state[t] = "paused" \/ (state[t] = "failed" /\ kind[t] \notin CommandKinds) => NoneRunning(t)
  /\ \A n \in AttemptNos : /\ attempt[t][n].state # "none" <=> n <= current[t]
                           /\ attempt[t][n].state = "running" => n = current[t]
  /\ state[t] = "running" =>
       current[t] \in AttemptNos /\ attempt[t][current[t]].state = "running"
  /\ state[t] = "queued" => sent[t] = current[t] + 1 /\ NoneRunning(t)

(* What a thread read of the task is old, never wrong: an attempt that was *)
(* settled when read does not run again, and the next attempt of a task    *)
(* that was not queued does not exist.                                     *)
SeenAt(p) ==
  LET t == job[p].task  n == job[p].no  s == seen[p] IN
  /\ pc[p] # "idle" => n <= sent[t]
  /\ pc[p] \in {"readAttempts", "claim", "finCommit"} =>
       /\ s.current <= current[t]
       /\ s.current = current[t] /\ s.state \in Outcomes => state[t] # "running"
  /\ pc[p] \in {"readAttempts", "claim"} =>
       /\ n <= s.current + 1
       /\ n = s.current + 1 /\ s.state \in Outcomes =>
            state[t] = "cancelled" /\ current[t] = s.current

SeenOK == \A p \in Procs : SeenAt(p)

IInv ==
  /\ TypeOK
  /\ CallOK
  /\ CommandOK
  /\ SeenOK
  /\ \A t \in Tasks : RowOK(t)

----------------------------------------------------------------------------
(* Types of the parts the actions are made of.                             *)
LEMMA NoSeenType == NoSeen \in Seen
BY DEF NoSeen, Seen, TaskStates, NoAttempts, NoAttempt, Attempts, Outcomes

LEMMA ReadTaskType ==
  ASSUME TypeOK, NEW p \in Procs, NEW t \in Tasks
  PROVE  ReadTask(p, t) \in Seen
<1>1. seen[p] \in Seen /\ state[t] \in TaskStates /\ current[t] \in Nat
  BY BoundsAssumption DEF TypeOK
<1> QED
  BY <1>1 DEF ReadTask, Seen

LEMMA SeeAttemptType ==
  ASSUME TypeOK, NEW s \in Seen, NEW n \in AttemptNos, NEW a \in Attempts
  PROVE  [s EXCEPT !.attempts[n] = a] \in Seen
BY DEF Seen

LEMMA GoToType ==
  ASSUME TypeOK, NEW p \in Procs, NEW s \in Steps, GoTo(p, s)
  PROVE  pc' \in [Procs -> Steps]
BY DEF TypeOK, GoTo

LEMMA RestType ==
  ASSUME TypeOK, NEW p \in Procs, Rest(p)
  PROVE  /\ pc' \in [Procs -> Steps]
         /\ job' \in [Procs -> Jobs]
         /\ seen' \in [Procs -> Seen]
         /\ out' \in [Procs -> [outcome: Outcomes, ack: BOOLEAN]]
         /\ hb' \in [Procs -> {"rest", "refresh", "write"}]
<1>1. pc' \in [Procs -> Steps]
  BY DEF Rest, TypeOK, Steps
<1>a. job[p] \in Jobs /\ 1 \in AttemptNos
  BY BoundsAssumption DEF TypeOK, AttemptNos
<1>0. [job[p] EXCEPT !.no = 1, !.count = 0, !.beat = 0] \in Jobs
  BY <1>a DEF Jobs
<1>2. job' \in [Procs -> Jobs]
  BY <1>0 DEF Rest, TypeOK
<1>3. seen' \in [Procs -> Seen]
  BY NoSeenType DEF Rest, TypeOK
<1>4. out' \in [Procs -> [outcome: Outcomes, ack: BOOLEAN]]
  BY DEF Rest, TypeOK, NoOut, Outcomes
<1>5. hb' \in [Procs -> {"rest", "refresh", "write"}]
  BY DEF Rest, TypeOK
<1> QED
  BY <1>1, <1>2, <1>3, <1>4, <1>5

LEMMA FinalizeType ==
  ASSUME TypeOK, NEW p \in Procs, NEW o \in Outcomes, NEW a \in BOOLEAN, Finalize(p, o, a)
  PROVE  /\ pc' \in [Procs -> Steps]
         /\ out' \in [Procs -> [outcome: Outcomes, ack: BOOLEAN]]
BY DEF Finalize, GoTo, TypeOK, Steps, FinalSteps

LEMMA AskType ==
  ASSUME TypeOK, NEW c \in Callers, NEW s \in CallSteps, NEW t \in Tasks, Ask(c, s, t)
  PROVE  call' \in [Callers -> [step: CallSteps, task: Tasks, seen: Seen]]
<1>1. NoAttempts \in [AttemptNos -> Attempts]
  BY DEF NoAttempts, NoAttempt, Attempts
<1>2. [state |-> state[t], current |-> current[t], attempts |-> NoAttempts] \in Seen
  BY <1>1, BoundsAssumption DEF TypeOK, Seen
<1> QED
  BY <1>2 DEF Ask, TypeOK

LEMMA AnsweredType ==
  ASSUME TypeOK, NEW c \in Callers, Answered(c)
  PROVE  call' \in [Callers -> [step: CallSteps, task: Tasks, seen: Seen]]
BY NoSeenType DEF Answered, TypeOK, CallSteps

(* The type invariant, kept together with what requests rely on.           *)
LEMMA TypeStep == TypeOK /\ CallOK /\ [Next]_vars => TypeOK'
<1> SUFFICES ASSUME TypeOK, CallOK, [Next]_vars PROVE TypeOK'
  OBVIOUS
<1> USE DEF TypeOK
<1>0. \A p \in Procs : /\ job[p] \in Jobs /\ seen[p] \in Seen
                       /\ job[p].task \in Tasks /\ job[p].no \in AttemptNos
                       /\ job[p].count \in Nat /\ job[p].beat \in Nat
                       /\ out[p].outcome \in Outcomes /\ out[p].ack \in BOOLEAN
  BY DEF Jobs
<1>a. \A c \in Callers : call[c].task \in Tasks /\ call[c].seen \in Seen
  OBVIOUS
<1>b. \A p \in Procs : WorkerOf[p] \in Workers
  BY WorkerOfAssumption
<1>1. ASSUME NEW p \in Procs, DeliverMessage(p) PROVE TypeOK'
  <2> PICK t \in Tasks, n \in AttemptNos : \E k \in 1 .. lease[t][n].count + 1 : Deliver(p, t, n, k)
    BY <1>1 DEF DeliverMessage
  <2> PICK k \in 1 .. lease[t][n].count + 1 : Deliver(p, t, n, k)
    OBVIOUS
  <2>1. lease[t][n].count \in Nat /\ lease[t][n].beat \in Nat
    BY DEF Leases
  <2>2. pc' \in [Procs -> Steps]
    BY GoToType DEF Deliver, Steps, ClaimSteps
  <2>3. job' \in [Procs -> Jobs]
    BY <2>1 DEF Deliver, Jobs
  <2>4. lease' \in [Tasks -> [AttemptNos -> Leases]]
    BY <2>1 DEF Deliver, Leases
  <2> QED
    BY <2>2, <2>3, <2>4 DEF Deliver, records
<1>2. ASSUME NEW p \in Procs, ClaimReadTask(p) PROVE TypeOK'
  <2>1. pc' \in [Procs -> Steps]
    BY <1>2, GoToType DEF ClaimReadTask, Steps, ClaimSteps
  <2>2. seen' \in [Procs -> Seen]
    BY <1>2, <1>0, ReadTaskType DEF ClaimReadTask
  <2> QED
    BY <1>2, <2>1, <2>2 DEF ClaimReadTask, records
<1>3. ASSUME NEW p \in Procs, ClaimReadAttempts(p) PROVE TypeOK'
  <2>1. pc' \in [Procs -> Steps]
    BY <1>3, GoToType DEF ClaimReadAttempts, Steps, ClaimSteps
  <2>2. seen' \in [Procs -> Seen]
    BY <1>3, <1>0 DEF ClaimReadAttempts, Seen
  <2> QED
    BY <1>3, <2>1, <2>2 DEF ClaimReadAttempts, records
<1>4. ASSUME NEW p \in Procs, ClaimFirst(p) PROVE TypeOK'
  <2>1. [state |-> "running", worker |-> WorkerOf[p], count |-> job[p].count, beat |-> job[p].beat]
         \in Attempts
    BY <1>0, <1>b DEF Attempts
  <2>2. attempt' \in [Tasks -> [AttemptNos -> Attempts]]
    BY <1>4, <1>0, <2>1 DEF ClaimFirst
  <2>3. pc' \in [Procs -> Steps]
    BY <1>4, GoToType DEF ClaimFirst, Steps
  <2>4. seen' \in [Procs -> Seen]
    BY <1>4, NoSeenType DEF ClaimFirst
  <2>5. state' \in [Tasks -> TaskStates] /\ current' \in [Tasks -> 0 .. MaxAttempt]
    BY <1>4, <1>0, BoundsAssumption DEF ClaimFirst, TaskStates, AttemptNos
  <2> QED
    BY <1>4, <2>1, <2>2, <2>3, <2>4, <2>5 DEF ClaimFirst
<1>5. ASSUME NEW p \in Procs, Reclaim(p) PROVE TypeOK'
  <2>1. \A s \in {"running"} \cup Outcomes :
         [state |-> s, worker |-> WorkerOf[p], count |-> job[p].count, beat |-> job[p].beat] \in Attempts
    BY <1>0, <1>b DEF Attempts
  <2>2. attempt' \in [Tasks -> [AttemptNos -> Attempts]]
    BY <1>5, <1>0, <2>1 DEF Reclaim, TakeOver, Outcomes
  <2>3. /\ pc' \in [Procs -> Steps] /\ job' \in [Procs -> Jobs]
       /\ seen' \in [Procs -> Seen] /\ out' \in [Procs -> [outcome: Outcomes, ack: BOOLEAN]]
       /\ hb' \in [Procs -> {"rest", "refresh", "write"}]
    BY <1>5, RestType, NoSeenType, GoToType DEF Reclaim, TakeOver, Steps
  <2> QED
    BY <1>5, <2>1, <2>2, <2>3 DEF Reclaim, TakeOver
<1>6. ASSUME NEW p \in Procs, ClaimRefused(p) PROVE TypeOK'
  <2>1. /\ pc' \in [Procs -> Steps] /\ job' \in [Procs -> Jobs]
       /\ seen' \in [Procs -> Seen] /\ out' \in [Procs -> [outcome: Outcomes, ack: BOOLEAN]]
       /\ hb' \in [Procs -> {"rest", "refresh", "write"}]
    BY <1>6, RestType DEF ClaimRefused
  <2> QED
    BY <1>6, <2>1 DEF ClaimRefused, records
<1>7. ASSUME NEW p \in Procs, SettleOutcome(p) PROVE TypeOK'
  <2>1. \A k \in Kinds : Reports(k) \subseteq Outcomes
    BY DEF Reports, Outcomes
  <2>2. PICK o \in Reports(kind[job[p].task]) : Finalize(p, o, kind[job[p].task] \in CommandKinds)
    BY <1>7 DEF SettleOutcome
  <2>3. o \in Outcomes /\ (kind[job[p].task] \in CommandKinds) \in BOOLEAN
    BY <1>0, <2>1, <2>2
  <2>4. pc' \in [Procs -> Steps] /\ out' \in [Procs -> [outcome: Outcomes, ack: BOOLEAN]]
    BY <2>2, <2>3 DEF Finalize, GoTo, Steps, FinalSteps
  <2> QED
    BY <1>7, <2>4 DEF SettleOutcome, records
<1>8. ASSUME NEW p \in Procs, FinReadAttempt(p) PROVE TypeOK'
  <2>1. pc' \in [Procs -> Steps]
    BY <1>8, GoToType DEF FinReadAttempt, Steps, FinalSteps
  <2>2. seen' \in [Procs -> Seen]
    BY <1>8, <1>0, SeeAttemptType DEF FinReadAttempt
  <2> QED
    BY <1>8, <2>1, <2>2 DEF FinReadAttempt, records
<1>9. ASSUME NEW p \in Procs, FinReadTask(p) PROVE TypeOK'
  <2>1. pc' \in [Procs -> Steps]
    BY <1>9, GoToType DEF FinReadTask, Steps, FinalSteps
  <2>2. seen' \in [Procs -> Seen]
    BY <1>9, <1>0, ReadTaskType DEF FinReadTask
  <2> QED
    BY <1>9, <2>1, <2>2 DEF FinReadTask, records
<1>10. ASSUME NEW p \in Procs, FinCommit(p) PROVE TypeOK'
  <2>1. seen[p].attempts[job[p].no] \in Attempts
    BY <1>0 DEF Seen
  <2>2. [seen[p].attempts[job[p].no] EXCEPT !.state = out[p].outcome] \in Attempts
    BY <1>0, <2>1 DEF Attempts
  <2>3. CloseAttempt(p) => attempt' \in [Tasks -> [AttemptNos -> Attempts]]
    BY <1>0, <2>2 DEF CloseAttempt
  <2>4. state' \in [Tasks -> TaskStates] /\ attempt' \in [Tasks -> [AttemptNos -> Attempts]]
    BY <1>10, <1>0, <2>3 DEF FinCommit, TaskStates
  <2>5. FinDone(p)
    BY <1>10 DEF FinCommit
  <2>6. /\ pc' \in [Procs -> Steps] /\ job' \in [Procs -> Jobs]
       /\ seen' \in [Procs -> Seen] /\ out' \in [Procs -> [outcome: Outcomes, ack: BOOLEAN]]
       /\ hb' \in [Procs -> {"rest", "refresh", "write"}]
    BY <2>5, RestType, NoSeenType, GoToType DEF FinDone, Steps
  <2> QED
    BY <1>10, <2>1, <2>2, <2>3, <2>4, <2>5, <2>6 DEF FinCommit
<1>11. ASSUME NEW p \in Procs, FinRefused(p) PROVE TypeOK'
  <2>1. \/ Rest(p)
       \/ /\ Finalize(p, "failed", FALSE)
          /\ seen' = [seen EXCEPT ![p] = NoSeen]
          /\ UNCHANGED <<job, hb>>
       \/ /\ GoTo(p, "stop")
          /\ out' = [out EXCEPT ![p].outcome = "failed"]
          /\ seen' = [seen EXCEPT ![p] = NoSeen]
          /\ UNCHANGED <<job, hb>>
    BY <1>11 DEF FinRefused
  <2>2. [out[p] EXCEPT !.outcome = "failed"] \in [outcome: Outcomes, ack: BOOLEAN] /\ "failed" \in Outcomes
    BY <1>0 DEF Outcomes
  <2>3. pc' \in [Procs -> Steps]
    BY <2>1, <2>2, RestType, GoToType, FinalizeType DEF Steps
  <2>4. job' \in [Procs -> Jobs] /\ hb' \in [Procs -> {"rest", "refresh", "write"}]
    BY <2>1, RestType
  <2>5. seen' \in [Procs -> Seen]
    BY <2>1, RestType, NoSeenType
  <2>6. out' \in [Procs -> [outcome: Outcomes, ack: BOOLEAN]]
    BY <2>1, <2>2, RestType, FinalizeType
  <2> QED
    BY <1>11, <2>1, <2>2, <2>3, <2>4, <2>5, <2>6 DEF FinRefused, records
<1>12. ASSUME NEW p \in Procs, StopHeartbeat(p) PROVE TypeOK'
  <2>1. pc' \in [Procs -> Steps] /\ out' \in [Procs -> [outcome: Outcomes, ack: BOOLEAN]]
    BY <1>12, <1>0, FinalizeType DEF StopHeartbeat
  <2> QED
    BY <1>12, <2>1 DEF StopHeartbeat, records
<1>13. ASSUME NEW p \in Procs, StartCommand(p) PROVE TypeOK'
  <2>1. pc' \in [Procs -> Steps]
    BY <1>13, GoToType DEF StartCommand, Steps, CommandSteps
  <2>2. \A o \in Outcomes : [out[p] EXCEPT !.outcome = o] \in [outcome: Outcomes, ack: BOOLEAN]
    BY SMTT(30), <1>0
  <2>3. PICK o \in Outcomes : out' = [out EXCEPT ![p] = [out[p] EXCEPT !.outcome = o]]
    BY <1>13 DEF StartCommand, Outcomes
  <2>4. out' \in [Procs -> [outcome: Outcomes, ack: BOOLEAN]]
    BY <2>2, <2>3
  <2> QED
    BY <1>13, <2>1, <2>4 DEF StartCommand, records
<1>14. ASSUME NEW p \in Procs, CommandReadTask(p) PROVE TypeOK'
  <2>1. pc' \in [Procs -> Steps]
    BY <1>14, GoToType DEF CommandReadTask, Steps, CommandSteps
  <2>2. seen' \in [Procs -> Seen]
    BY <1>14, <1>0, ReadTaskType DEF CommandReadTask
  <2> QED
    BY <1>14, <2>1, <2>2 DEF CommandReadTask, records
<1>15. ASSUME NEW p \in Procs, CommandReadAttempt(p) PROVE TypeOK'
  <2>1. pc' \in [Procs -> Steps]
    BY <1>15, GoToType DEF CommandReadAttempt, Steps, CommandSteps
  <2>2. seen' \in [Procs -> Seen]
    BY <1>15, <1>0, SeeAttemptType DEF CommandReadAttempt
  <2> QED
    BY <1>15, <2>1, <2>2 DEF CommandReadAttempt, records
<1>16. ASSUME NEW p \in Procs, CommandCommit(p) PROVE TypeOK'
  <2>1. pc' \in [Procs -> Steps] /\ out' \in [Procs -> [outcome: Outcomes, ack: BOOLEAN]]
    BY <1>16, <1>0, FinalizeType DEF CommandCommit
  <2>2. seen' \in [Procs -> Seen]
    BY <1>16, NoSeenType DEF CommandCommit
  <2>3. state' \in [Tasks -> TaskStates]
    BY <1>16, <1>0 DEF CommandCommit, TaskStates
  <2> QED
    BY <1>16, <2>1, <2>2, <2>3 DEF CommandCommit
<1>17. ASSUME NEW p \in Procs, CommandRefused(p) PROVE TypeOK'
  <2>1. {"failed", "cancelled"} \subseteq Outcomes
    BY DEF Outcomes
  <2>2. [out[p] EXCEPT !.outcome = "failed"] \in [outcome: Outcomes, ack: BOOLEAN]
    BY <1>0, <2>1
  <2>3. pc' \in [Procs -> Steps]
    BY <1>17, <2>1, FinalizeType, GoToType DEF CommandRefused, Steps, CommandSteps
  <2>4. out' \in [Procs -> [outcome: Outcomes, ack: BOOLEAN]]
    BY <1>17, <2>1, <2>2, FinalizeType DEF CommandRefused
  <2>5. seen' \in [Procs -> Seen]
    BY <1>17, NoSeenType DEF CommandRefused
  <2> QED
    BY <1>17, <2>1, <2>2, <2>3, <2>4, <2>5 DEF CommandRefused, records
<1>31. ASSUME NEW p \in Procs, HeartbeatCheck(p) PROVE TypeOK'
  BY <1>31 DEF HeartbeatCheck, records
<1>18. ASSUME NEW p \in Procs, HeartbeatRefresh(p) PROVE TypeOK'
  <2>1. lease[job[p].task][job[p].no].beat + 1 \in Nat
    BY <1>0 DEF Leases
  <2>0. lease[job[p].task][job[p].no] \in Leases
    BY <1>0
  <2>2. [lease[job[p].task][job[p].no] EXCEPT !.holder = {p},
           !.beat = lease[job[p].task][job[p].no].beat + 1] \in Leases
    BY <2>0, <2>1 DEF Leases
  <2>3. lease' \in [Tasks -> [AttemptNos -> Leases]]
    BY <1>18, <1>0, <2>2 DEF HeartbeatRefresh
  <2>4. [job[p] EXCEPT !.beat = lease[job[p].task][job[p].no].beat + 1] \in Jobs
    BY <1>0, <2>1 DEF Jobs
  <2>5. job' \in [Procs -> Jobs]
    BY <1>18, <1>0, <2>4 DEF HeartbeatRefresh
  <2>6. hb' \in [Procs -> {"rest", "refresh", "write"}]
    BY <1>18 DEF HeartbeatRefresh
  <2> QED
    BY <1>18, <2>1, <2>2, <2>3, <2>4, <2>5, <2>6 DEF HeartbeatRefresh, records
<1>19. ASSUME NEW p \in Procs, HeartbeatWrite(p) PROVE TypeOK'
  <2>0. attempt[job[p].task][job[p].no] \in Attempts
    BY <1>0
  <2>1. [attempt[job[p].task][job[p].no] EXCEPT !.beat = job[p].beat] \in Attempts
    BY <1>0, <2>0 DEF Attempts
  <2>2. attempt' \in [Tasks -> [AttemptNos -> Attempts]]
    BY <1>19, <1>0, <2>1 DEF HeartbeatWrite
  <2>3. hb' \in [Procs -> {"rest", "refresh", "write"}]
    BY <1>19 DEF HeartbeatWrite
  <2> QED
    BY <1>19, <2>1, <2>2, <2>3 DEF HeartbeatWrite
<1>20. ASSUME NEW p \in Procs, Crash(p) PROVE TypeOK'
  <2>1. /\ pc' \in [Procs -> Steps] /\ job' \in [Procs -> Jobs]
       /\ seen' \in [Procs -> Seen] /\ out' \in [Procs -> [outcome: Outcomes, ack: BOOLEAN]]
       /\ hb' \in [Procs -> {"rest", "refresh", "write"}]
    BY <1>20, RestType DEF Crash
  <2> QED
    BY <1>20, <2>1 DEF Crash, records
<1>21. ASSUME NEW c \in Callers, CancelReadTask(c) PROVE TypeOK'
  <2>1. call' \in [Callers -> [step: CallSteps, task: Tasks, seen: Seen]]
    BY <1>21, <1>a, AskType DEF CancelReadTask, CallSteps
  <2> QED
    BY <1>21, <2>1 DEF CancelReadTask, records, threads
<1>22. ASSUME NEW c \in Callers, CancelReadAttempt(c) PROVE TypeOK'
  <2>1. \A n \in AttemptNos : attempt[call[c].task][n] \in Attempts
    BY <1>a
  <2>2. \A n \in AttemptNos : [call[c].seen EXCEPT !.attempts[n] = attempt[call[c].task][n]] \in Seen
    BY <1>a, <2>1, SeeAttemptType
  <2>3. CASE /\ call[c].seen.current \in AttemptNos
             /\ attempt[call[c].task][call[c].seen.current].state = "running"
    <3> DEFINE n == call[c].seen.current
               r == [step |-> "cancel", task |-> call[c].task,
                     seen |-> [call[c].seen EXCEPT !.attempts[n] = attempt[call[c].task][n]]]
    <3>1. r \in [step: CallSteps, task: Tasks, seen: Seen]
      BY <1>a, <2>2, <2>3 DEF CallSteps
    <3>2. call' = [call EXCEPT ![c] = r]
      BY <1>22, <2>3 DEF CancelReadAttempt
    <3> QED
      BY <1>22, <3>1, <3>2 DEF CancelReadAttempt, records, threads
  <2>4. CASE Answered(c)
    BY <1>22, <2>4, AnsweredType DEF CancelReadAttempt, records, threads
  <2> QED
    BY <1>22, <2>3, <2>4 DEF CancelReadAttempt
<1>23. ASSUME NEW c \in Callers, Cancel(c) PROVE TypeOK'
  <2>1. \A n \in AttemptNos : call[c].seen.attempts[n] \in Attempts
    BY <1>a DEF Seen
  <2>2. \A n \in AttemptNos : [call[c].seen.attempts[n] EXCEPT !.state = "cancelled"] \in Attempts
    BY <2>1 DEF Attempts, Outcomes
  <2>3. attempt' \in [Tasks -> [AttemptNos -> Attempts]]
    BY ZenonT(30), <1>23, <1>a, <2>2 DEF Cancel
  <2>4. call' \in [Callers -> [step: CallSteps, task: Tasks, seen: Seen]]
    BY <1>23, AnsweredType DEF Cancel
  <2>5. state' \in [Tasks -> TaskStates]
    BY <1>23 DEF Cancel, TaskStates, Outcomes
  <2> QED
    BY <1>23, <2>1, <2>2, <2>3, <2>4, <2>5 DEF Cancel, threads
<1>24. ASSUME NEW c \in Callers, TerminateReadTask(c) PROVE TypeOK'
  <2>1. \A t \in Tasks : [call[c] EXCEPT !.step = "terminateReadTask", !.task = t]
         \in [step: CallSteps, task: Tasks, seen: Seen]
    BY DEF CallSteps
  <2>2. call' \in [Callers -> [step: CallSteps, task: Tasks, seen: Seen]]
    BY <1>24, <2>1 DEF TerminateReadTask
  <2> QED
    BY <1>24, <2>1, <2>2 DEF TerminateReadTask, records, threads
<1>25. ASSUME NEW c \in Callers, TerminateReadAgain(c) PROVE TypeOK'
  <2>1. call' \in [Callers -> [step: CallSteps, task: Tasks, seen: Seen]]
    BY <1>25, <1>a, AskType DEF TerminateReadAgain, CallSteps
  <2> QED
    BY <1>25, <2>1 DEF TerminateReadAgain, records, threads
<1>26. ASSUME NEW c \in Callers, Terminate(c) PROVE TypeOK'
  <2>1. call' \in [Callers -> [step: CallSteps, task: Tasks, seen: Seen]]
    BY <1>26, AnsweredType DEF Terminate
  <2>2. state' \in [Tasks -> TaskStates]
    BY <1>26 DEF Terminate, TaskStates, Outcomes
  <2> QED
    BY <1>26, <2>1, <2>2 DEF Terminate, threads
<1>27. ASSUME NEW c \in Callers, ResumeReadTask(c) PROVE TypeOK'
  <2>1. call' \in [Callers -> [step: CallSteps, task: Tasks, seen: Seen]]
    BY <1>27, <1>a, AskType DEF ResumeReadTask, CallSteps
  <2> QED
    BY <1>27, <2>1 DEF ResumeReadTask, records, threads
<1>28. ASSUME NEW c \in Callers, Resume(c) PROVE TypeOK'
  <2>1. call' \in [Callers -> [step: CallSteps, task: Tasks, seen: Seen]]
    BY <1>28, AnsweredType DEF Resume
  <2>2. state' \in [Tasks -> TaskStates]
    BY <1>28 DEF Resume, TaskStates
  <2>3. call[c].seen.current + 1 \in AttemptNos
    BY <1>28, <1>a, BoundsAssumption DEF Resume, CallOK, Seen, AttemptNos
  <2>4. sent' \in [Tasks -> AttemptNos]
    BY <1>28, <2>3 DEF Resume
  <2> QED
    BY <1>28, <2>1, <2>2, <2>3, <2>4 DEF Resume, threads
<1>29. ASSUME NEW c \in Callers, CallRefused(c) PROVE TypeOK'
  <2>1. call' \in [Callers -> [step: CallSteps, task: Tasks, seen: Seen]]
    BY <1>29, AnsweredType DEF CallRefused
  <2> QED
    BY <1>29, <2>1 DEF CallRefused, records, threads
<1>30. CASE UNCHANGED vars
  BY <1>30 DEF vars
<1> QED
  BY <1>1, <1>2, <1>3, <1>4, <1>5, <1>6, <1>7, <1>8, <1>9, <1>10, <1>11, <1>12, <1>13, <1>14, <1>15, <1>16, <1>17, <1>18, <1>19, <1>20, <1>21, <1>22, <1>23, <1>24, <1>25, <1>26, <1>27, <1>28, <1>29, <1>30, <1>31 DEF Next, ThreadNext, ClaimNext, FinalizeNext, CommandNext, CallNext
----------------------------------------------------------------------------
(* Which steps write rows, and what they write.                            *)
SameRow(t) ==
  /\ state'[t] = state[t] /\ current'[t] = current[t] /\ sent'[t] = sent[t]
  /\ \A m \in AttemptNos : attempt'[t][m].state = attempt[t][m].state

(* Row t moves to task state s, number k and sent number h; attempt n to a. *)
MovesRow(t, s, k, h, n, a) ==
  /\ state'[t] = s /\ current'[t] = k /\ sent'[t] = h
  /\ \A m \in AttemptNos :
       attempt'[t][m].state = IF m = n THEN a ELSE attempt[t][m].state
  /\ \A u \in Tasks : u # t => SameRow(u)

LEMMA ThreadFrame ==
  ASSUME NEW p \in Procs, ThreadNext(p)
  PROVE  UNCHANGED <<kind, sent, call>>
BY DEF ThreadNext, ClaimNext, FinalizeNext, CommandNext, records, DeliverMessage, Deliver,
  ClaimReadTask, ClaimReadAttempts, ClaimFirst, Reclaim, TakeOver, ClaimRefused, SettleOutcome,
  FinReadAttempt, FinReadTask, FinCommit, FinRefused, StopHeartbeat, StartCommand,
  CommandReadTask, CommandReadAttempt, CommandCommit, CommandRefused, HeartbeatCheck, HeartbeatRefresh,
  HeartbeatWrite, Crash

LEMMA CallFrame ==
  ASSUME NEW c \in Callers, CallNext(c)
  PROVE  UNCHANGED <<kind, current, lease, threads>>
BY DEF CallNext, records, CancelReadTask, CancelReadAttempt, Cancel, TerminateReadTask,
  TerminateReadAgain, Terminate, ResumeReadTask, Resume, CallRefused

(* The threads that write neither a state nor a number.                    *)
LEMMA QuietThread ==
  ASSUME TypeOK, NEW p \in Procs, ThreadNext(p), NEW t \in Tasks,
         ~ClaimFirst(p), ~Reclaim(p), ~FinCommit(p), ~CommandCommit(p)
  PROVE  SameRow(t)
<1>1. CASE HeartbeatWrite(p)
  <2>1. job[p].task \in Tasks /\ job[p].no \in AttemptNos
    BY DEF TypeOK, Jobs
  <2>2. \A m \in AttemptNos : attempt'[t][m].state = attempt[t][m].state
    BY <1>1, <2>1 DEF HeartbeatWrite, TypeOK, Attempts
  <2> QED
    BY <1>1, <2>2 DEF HeartbeatWrite, SameRow
<1>2. CASE ~HeartbeatWrite(p)
  <2>1. UNCHANGED records
    BY <1>2 DEF ThreadNext, ClaimNext, FinalizeNext, CommandNext, DeliverMessage, Deliver,
      ClaimReadTask, ClaimReadAttempts, ClaimRefused, SettleOutcome, FinReadAttempt, FinReadTask,
      FinRefused, StopHeartbeat, StartCommand, CommandReadTask, CommandReadAttempt,
      CommandRefused, HeartbeatCheck, HeartbeatRefresh, Crash
  <2> QED
    BY <2>1 DEF records, SameRow
<1> QED
  BY <1>1, <1>2

LEMMA ClaimFirstMoves ==
  ASSUME TypeOK, NEW p \in Procs, ClaimFirst(p)
  PROVE  LET t == job[p].task  n == job[p].no IN
         /\ n = current[t] + 1 /\ state[t] = "queued"
         /\ MovesRow(t, "running", n, sent[t], n, "running")
<1>1. job[p].task \in Tasks /\ job[p].no \in AttemptNos
  BY DEF TypeOK, Jobs
<1> QED
  BY <1>1 DEF ClaimFirst, CanClaimFirst, MovesRow, SameRow, TypeOK

LEMMA ReclaimMoves ==
  ASSUME TypeOK, NEW p \in Procs, Reclaim(p)
  PROVE  LET t == job[p].task  n == job[p].no  s == seen[p].state
             over == s \in {"succeeded", "failed", "timed_out", "cancelled"} IN
         /\ attempt[t][n].state = "running"
         /\ MovesRow(t, state[t], current[t], sent[t], n, IF over THEN s ELSE "running")
<1>1. job[p].task \in Tasks /\ job[p].no \in AttemptNos
  BY DEF TypeOK, Jobs
<1> QED
  BY <1>1 DEF Reclaim, TakeOver, CanReclaim, MovesRow, SameRow, TypeOK

LEMMA FinCommitMoves ==
  ASSUME TypeOK, NEW p \in Procs, FinCommit(p)
  PROVE  LET t == job[p].task  n == job[p].no  o == out[p].outcome IN
         \/ UNCHANGED <<state, current, sent, attempt>>
         \/ /\ ClosesAttempt(p)
            /\ MovesRow(t, state[t], current[t], sent[t], n, o)
         \/ /\ ClosesBoth(p)
            /\ MovesRow(t, o, current[t], sent[t], n, o)
<1>1. job[p].task \in Tasks /\ job[p].no \in AttemptNos
  BY DEF TypeOK, Jobs
<1>2. seen[p].attempts[job[p].no] \in Attempts
  BY <1>1 DEF TypeOK, Seen
<1>3. CASE AlreadyFinal(p) /\ UNCHANGED <<state, attempt>>
  BY <1>3 DEF FinCommit
<1>4. CASE ClosesAttempt(p) /\ CloseAttempt(p) /\ UNCHANGED state
  BY <1>1, <1>2, <1>4 DEF FinCommit, CloseAttempt, MovesRow, SameRow, TypeOK, Attempts
<1>5. CASE /\ ClosesBoth(p) /\ CloseAttempt(p)
           /\ state' = [state EXCEPT ![job[p].task] = out[p].outcome]
  BY <1>1, <1>2, <1>5 DEF FinCommit, CloseAttempt, MovesRow, SameRow, TypeOK, Attempts
<1> QED
  BY <1>3, <1>4, <1>5 DEF FinCommit

LEMMA CommandCommitMoves ==
  ASSUME TypeOK, NEW p \in Procs, CommandCommit(p)
  PROVE  LET t == job[p].task IN
         /\ state[t] = "running"
         /\ MovesRow(t, out[p].outcome, current[t], sent[t], 0, "none")
<1>1. job[p].task \in Tasks /\ 0 \notin AttemptNos
  BY DEF TypeOK, Jobs, AttemptNos
<1> QED
  BY <1>1 DEF CommandCommit, CanCommand, MovesRow, SameRow, TypeOK
LEMMA QuietCall ==
  ASSUME NEW c \in Callers, CallNext(c), NEW t \in Tasks, ~Cancel(c), ~Terminate(c), ~Resume(c)
  PROVE  SameRow(t)
BY DEF CallNext, CancelReadTask, CancelReadAttempt, TerminateReadTask, TerminateReadAgain,
  ResumeReadTask, CallRefused, records, SameRow

(* A request that gives a task up closes the attempt it found running.     *)
LEMMA CancelMoves ==
  ASSUME TypeOK, CallOK, NEW c \in Callers, Cancel(c),
         \A t \in Tasks : RowOK(t)
  PROVE  LET t == call[c].task IN
         /\ state[t] \in {"queued", "running", "paused"}
         /\ \/ /\ state[t] = "running"
               /\ MovesRow(t, "cancelled", current[t], sent[t], current[t], "cancelled")
            \/ /\ state[t] # "running"
               /\ MovesRow(t, "cancelled", current[t], sent[t], 0, "none")
<1> DEFINE t == call[c].task
           n == call[c].seen.current
<1>1. t \in Tasks /\ call[c].seen \in Seen /\ 0 \notin AttemptNos
  BY DEF TypeOK, AttemptNos
<1>2. /\ state[t] = call[c].seen.state /\ current[t] = n
      /\ state[t] \in {"queued", "running", "paused"}
  BY DEF Cancel, CanCancel, TaskUntouched, CallOK
<1>3. CASE state[t] = "running"
  <2>1. n \in AttemptNos
    BY <1>1, <1>2, <1>3 DEF RowOK
  <2>2. call[c].seen.attempts[n] \in Attempts
    BY <1>1, <2>1 DEF Seen
  <2> QED
    BY <1>1, <1>2, <1>3, <2>1, <2>2 DEF Cancel, MovesRow, SameRow, TypeOK, Attempts
<1>4. CASE state[t] # "running"
  BY <1>1, <1>2, <1>4 DEF Cancel, MovesRow, SameRow, TypeOK
<1> QED
  BY <1>2, <1>3, <1>4

LEMMA TerminateMoves ==
  ASSUME TypeOK, NEW c \in Callers, Terminate(c)
  PROVE  LET t == call[c].task IN
         /\ state[t] \notin Immutable
         /\ MovesRow(t, "cancelled", current[t], sent[t], 0, "none")
<1>1. call[c].task \in Tasks /\ 0 \notin AttemptNos
  BY DEF TypeOK, AttemptNos
<1> QED
  BY <1>1 DEF Terminate, CanTerminate, TaskUntouched, MovesRow, SameRow, TypeOK

LEMMA ResumeMoves ==
  ASSUME TypeOK, CallOK, NEW c \in Callers, Resume(c)
  PROVE  LET t == call[c].task IN
         /\ state[t] \in {"paused", "failed"} /\ kind[t] = "training"
         /\ current[t] < MaxAttempt
         /\ MovesRow(t, "queued", current[t], current[t] + 1, 0, "none")
<1>1. call[c].task \in Tasks /\ 0 \notin AttemptNos
  BY DEF TypeOK, AttemptNos
<1> QED
  BY <1>1 DEF Resume, TaskUntouched, CallOK, MovesRow, SameRow, TypeOK

----------------------------------------------------------------------------
(* The rows of every task stay consistent.                                 *)
LEMMA MovedRowOK ==
  ASSUME TypeOK, TypeOK', kind' = kind, NEW u \in Tasks,
         NEW s, NEW k, NEW h, NEW n, NEW a, MovesRow(u, s, k, h, n, a),
         RowOK(u)', NEW t \in Tasks, RowOK(t)
  PROVE  RowOK(t)'
BY DEF MovesRow, SameRow, RowOK, NoneRunning

LEMMA RowStep == IInv /\ TypeOK' /\ [Next]_vars => \A t \in Tasks : RowOK(t)'
<1> SUFFICES ASSUME IInv, TypeOK', [Next]_vars, NEW t \in Tasks PROVE RowOK(t)'
  OBVIOUS
<1> USE DEF IInv
<1>0. kind' = kind
  BY ThreadFrame, CallFrame DEF Next, vars
<1>s. SameRow(t) => RowOK(t)'
  BY <1>0 DEF SameRow, RowOK, NoneRunning
<1>1. ASSUME NEW p \in Procs, ClaimFirst(p) PROVE RowOK(t)'
  <2>0. job[p].task \in Tasks /\ job[p].no \in AttemptNos
    BY DEF TypeOK, Jobs
  <2> PICK u \in Tasks : u = job[p].task
    BY <2>0
  <2> PICK n \in AttemptNos : n = job[p].no
    BY <2>0
  <2>1. u \in Tasks /\ n \in AttemptNos /\ current[u] \in Nat
    BY BoundsAssumption DEF TypeOK
  <2>2. RowOK(u)
    BY <2>1
  <2>3. /\ n = current[u] + 1 /\ state[u] = "queued"
        /\ MovesRow(u, "running", n, sent[u], n, "running")
    BY <1>1, ClaimFirstMoves
  <2>4. RowOK(u)'
    BY <1>0, <2>1, <2>2, <2>3 DEF MovesRow, RowOK, NoneRunning, AttemptNos
  <2> QED
    BY <1>0, <2>1, <2>3, <2>4, MovedRowOK
<1>2. ASSUME NEW p \in Procs, Reclaim(p) PROVE RowOK(t)'
  <2>0. job[p].task \in Tasks /\ job[p].no \in AttemptNos
    BY DEF TypeOK, Jobs
  <2> PICK u \in Tasks : u = job[p].task
    BY <2>0
  <2> PICK n \in AttemptNos : n = job[p].no
    BY <2>0
  <2> DEFINE s == seen[p].state
             over == s \in {"succeeded", "failed", "timed_out", "cancelled"}
  <2>1. u \in Tasks /\ n \in AttemptNos /\ current[u] \in Nat /\ seen[p].current \in Nat
    BY BoundsAssumption DEF TypeOK, Seen
  <2>2. RowOK(u)
    BY <2>1
  <2>3. /\ attempt[u][n].state = "running"
        /\ MovesRow(u, state[u], current[u], sent[u], n, IF over THEN s ELSE "running")
    BY <1>2, ReclaimMoves
  <2>4. n = current[u]
    BY <2>1, <2>2, <2>3 DEF RowOK
  <2>5. ASSUME over PROVE state[u] # "running"
    <3>1. /\ seen[p].current <= n /\ pc[p] = "claim"
          /\ s \in Outcomes
      BY <1>2, <2>5 DEF Reclaim, TakeOver, CanReclaim, Outcomes
    <3>2. CASE seen[p].current = n
      BY <2>4, <3>1, <3>2 DEF SeenOK, SeenAt
    <3>3. CASE seen[p].current # n
      <4>1. n <= seen[p].current + 1
        BY <3>1 DEF SeenOK, SeenAt
      <4>2. n = seen[p].current + 1
        BY <2>1, <3>1, <3>3, <4>1 DEF AttemptNos
      <4> QED
        BY <2>1, <2>4, <3>1, <4>2 DEF SeenOK, SeenAt
    <3> QED
      BY <3>2, <3>3
  <2>6. over => s # "none" /\ s # "running"
    OBVIOUS
  <2>7. RowOK(u)'
    BY SMTT(30), <1>0, <2>1, <2>2, <2>3, <2>4, <2>5, <2>6 DEF MovesRow, RowOK, NoneRunning
  <2> QED
    BY <1>0, <2>1, <2>3, <2>7, MovedRowOK
<1>3. ASSUME NEW p \in Procs, FinCommit(p) PROVE RowOK(t)'
  <2>0. job[p].task \in Tasks /\ job[p].no \in AttemptNos
    BY DEF TypeOK, Jobs
  <2> PICK u \in Tasks : u = job[p].task
    BY <2>0
  <2> PICK n \in AttemptNos : n = job[p].no
    BY <2>0
  <2> DEFINE o == out[p].outcome
  <2>1. /\ u \in Tasks /\ n \in AttemptNos /\ current[u] \in Nat
        /\ o \in {"succeeded", "failed", "paused", "timed_out", "cancelled"}
    BY BoundsAssumption DEF TypeOK, Outcomes
  <2>2. RowOK(u)
    BY <2>1
  <2>3. CASE UNCHANGED <<state, current, sent, attempt>>
    BY <2>3, <1>s DEF SameRow
  <2>4. CASE ClosesAttempt(p) /\ MovesRow(u, state[u], current[u], sent[u], n, o)
    <3>1. attempt[u][n].state = "running" /\ seen[p].current = n /\ seen[p].state \in Outcomes
      BY <2>1, <2>4 DEF ClosesAttempt, CanFinish, AttemptUntouched, SeenCurrent, Outcomes
    <3>2. n = current[u]
      BY <2>1, <2>2, <3>1 DEF RowOK
    <3>3. state[u] # "running"
      BY <1>3, <3>1, <3>2 DEF SeenOK, SeenAt, FinCommit
    <3>4. RowOK(u)'
      BY SMTT(30), <1>0, <2>1, <2>2, <2>4, <3>1, <3>2, <3>3 DEF MovesRow, RowOK, NoneRunning
    <3> QED
      BY <1>0, <2>1, <2>4, <3>4, MovedRowOK
  <2>5. CASE ClosesBoth(p) /\ MovesRow(u, o, current[u], sent[u], n, o)
    <3>1. attempt[u][n].state = "running" /\ state[u] = "running" /\ current[u] = n
      BY <2>5 DEF ClosesBoth, CanFinish, AttemptUntouched
    <3>2. RowOK(u)'
      BY <1>0, <2>1, <2>2, <2>5, <3>1 DEF MovesRow, RowOK, NoneRunning
    <3> QED
      BY <1>0, <2>1, <2>5, <3>2, MovedRowOK
  <2> QED
    BY <1>3, <2>3, <2>4, <2>5, FinCommitMoves
<1>4. ASSUME NEW p \in Procs, CommandCommit(p) PROVE RowOK(t)'
  <2>0. job[p].task \in Tasks /\ job[p].no \in AttemptNos
    BY DEF TypeOK, Jobs
  <2> PICK u \in Tasks : u = job[p].task
    BY <2>0
  <2>1. u \in Tasks /\ current[u] \in Nat /\ 0 \notin AttemptNos
    BY BoundsAssumption DEF TypeOK, AttemptNos
  <2>2. RowOK(u)
    BY <2>1
  <2>3. kind[u] \in CommandKinds /\ out[p].outcome \in {"succeeded", "failed"}
    BY <1>4 DEF CommandOK, CommandSteps, CommandCommit
  <2>4. state[u] = "running" /\ MovesRow(u, out[p].outcome, current[u], sent[u], 0, "none")
    BY <1>4, CommandCommitMoves
  <2>5. RowOK(u)'
    BY <1>0, <2>1, <2>2, <2>3, <2>4 DEF MovesRow, RowOK, NoneRunning
  <2> QED
    BY <1>0, <2>1, <2>4, <2>5, MovedRowOK
<1>5. ASSUME NEW c \in Callers, Cancel(c) PROVE RowOK(t)'
  <2> PICK u \in Tasks : u = call[c].task
    BY DEF TypeOK
  <2>1. u \in Tasks /\ current[u] \in Nat /\ 0 \notin AttemptNos
    BY BoundsAssumption DEF TypeOK, AttemptNos
  <2>2. RowOK(u)
    BY <2>1
  <2>3. CASE state[u] = "running" /\ MovesRow(u, "cancelled", current[u], sent[u], current[u], "cancelled")
    <3>1. RowOK(u)'
      BY <1>0, <2>1, <2>2, <2>3 DEF MovesRow, RowOK, NoneRunning
    <3> QED
      BY <1>0, <2>1, <2>3, <3>1, MovedRowOK
  <2>4. CASE MovesRow(u, "cancelled", current[u], sent[u], 0, "none")
    <3>1. RowOK(u)'
      BY <1>0, <2>1, <2>2, <2>4 DEF MovesRow, RowOK, NoneRunning
    <3> QED
      BY <1>0, <2>1, <2>4, <3>1, MovedRowOK
  <2> QED
    BY <1>5, <2>3, <2>4, CancelMoves
<1>6. ASSUME NEW c \in Callers, Terminate(c) PROVE RowOK(t)'
  <2> PICK u \in Tasks : u = call[c].task
    BY DEF TypeOK
  <2>1. u \in Tasks /\ current[u] \in Nat /\ 0 \notin AttemptNos
    BY BoundsAssumption DEF TypeOK, AttemptNos
  <2>2. RowOK(u)
    BY <2>1
  <2>3. MovesRow(u, "cancelled", current[u], sent[u], 0, "none")
    BY <1>6, TerminateMoves
  <2>4. RowOK(u)'
    BY <1>0, <2>1, <2>2, <2>3 DEF MovesRow, RowOK, NoneRunning
  <2> QED
    BY <1>0, <2>1, <2>3, <2>4, MovedRowOK
<1>7. ASSUME NEW c \in Callers, Resume(c) PROVE RowOK(t)'
  <2> PICK u \in Tasks : u = call[c].task
    BY DEF TypeOK
  <2>1. u \in Tasks /\ current[u] \in Nat /\ 0 \notin AttemptNos
    BY BoundsAssumption DEF TypeOK, AttemptNos
  <2>2. RowOK(u) /\ "training" \notin CommandKinds
    BY <2>1 DEF CommandKinds
  <2>3. /\ state[u] \in {"paused", "failed"} /\ kind[u] = "training"
        /\ MovesRow(u, "queued", current[u], current[u] + 1, 0, "none")
    BY <1>7, ResumeMoves
  <2>4. RowOK(u)'
    BY <1>0, <2>1, <2>2, <2>3 DEF MovesRow, RowOK, NoneRunning
  <2> QED
    BY <1>0, <2>1, <2>3, <2>4, MovedRowOK
<1>8. CASE UNCHANGED vars
  BY <1>8, <1>s DEF vars, SameRow
<1> QED
  BY <1>s, <1>1, <1>2, <1>3, <1>4, <1>5, <1>6, <1>7, <1>8, QuietThread, QuietCall DEF Next
----------------------------------------------------------------------------
(* Rows only move forward, so what was read stays a lower bound.           *)
RowForward(t) ==
  /\ sent[t] <= sent'[t] /\ current[t] <= current'[t]
  /\ state'[t] = "running" /\ current'[t] = current[t] => state[t] = "running"
  /\ state[t] = "cancelled" => state'[t] = "cancelled" /\ current'[t] = current[t]

LEMMA RowsForward ==
  ASSUME IInv, [Next]_vars, NEW t \in Tasks
  PROVE  RowForward(t)
<1> USE DEF IInv
<1>0. current[t] \in Nat /\ sent[t] \in Nat /\ RowOK(t)
  BY BoundsAssumption DEF TypeOK, AttemptNos
<1>s. SameRow(t) => RowForward(t)
  BY <1>0 DEF SameRow, RowForward
<1>1. ASSUME NEW p \in Procs, ClaimFirst(p) PROVE RowForward(t)
  BY <1>0, <1>1, <1>s, ClaimFirstMoves DEF MovesRow, RowForward, TypeOK, Jobs
<1>2. ASSUME NEW p \in Procs, Reclaim(p) PROVE RowForward(t)
  BY <1>0, <1>2, <1>s, ReclaimMoves DEF MovesRow, RowForward, TypeOK, Jobs
<1>3. ASSUME NEW p \in Procs, FinCommit(p) PROVE RowForward(t)
  <2>1. CASE UNCHANGED <<state, current, sent, attempt>>
    BY <2>1, <1>s DEF SameRow
  <2>2. CASE /\ ClosesAttempt(p)
             /\ MovesRow(job[p].task, state[job[p].task], current[job[p].task],
                         sent[job[p].task], job[p].no, out[p].outcome)
    BY <1>0, <1>s, <2>2 DEF MovesRow, RowForward, TypeOK, Jobs
  <2>3. CASE /\ ClosesBoth(p)
             /\ MovesRow(job[p].task, out[p].outcome, current[job[p].task],
                         sent[job[p].task], job[p].no, out[p].outcome)
    BY <1>0, <1>s, <2>3 DEF ClosesBoth, MovesRow, RowForward, TypeOK, Jobs
  <2> QED
    BY <1>3, <2>1, <2>2, <2>3, FinCommitMoves
<1>4. ASSUME NEW p \in Procs, CommandCommit(p) PROVE RowForward(t)
  BY <1>0, <1>4, <1>s, CommandCommitMoves DEF MovesRow, RowForward, TypeOK, Jobs
<1>5. ASSUME NEW c \in Callers, Cancel(c) PROVE RowForward(t)
  <2>1. /\ state[call[c].task] \in {"queued", "running", "paused"}
        /\ \E n, a : MovesRow(call[c].task, "cancelled", current[call[c].task],
                             sent[call[c].task], n, a)
    BY <1>5, CancelMoves
  <2> QED
    BY <1>0, <1>s, <2>1 DEF MovesRow, RowForward
<1>6. ASSUME NEW c \in Callers, Terminate(c) PROVE RowForward(t)
  BY <1>0, <1>6, <1>s, TerminateMoves DEF MovesRow, RowForward, TypeOK, Immutable
<1>7. ASSUME NEW c \in Callers, Resume(c) PROVE RowForward(t)
  BY <1>0, <1>7, <1>s, ResumeMoves DEF MovesRow, RowForward, TypeOK, RowOK
<1>8. CASE UNCHANGED vars
  BY <1>8, <1>s DEF vars, SameRow
<1> QED
  BY <1>s, <1>1, <1>2, <1>3, <1>4, <1>5, <1>6, <1>7, <1>8, QuietThread, QuietCall DEF Next

LEMMA OtherThread ==
  ASSUME TypeOK, NEW p \in Procs, ThreadNext(p), NEW q \in Procs, q # p
  PROVE  pc'[q] = pc[q] /\ job'[q] = job[q] /\ seen'[q] = seen[q] /\ out'[q] = out[q]
<1> USE DEF TypeOK, GoTo, Rest, Finalize
<1>1. CASE ClaimNext(p)
  BY <1>1 DEF ClaimNext, DeliverMessage, Deliver, ClaimReadTask, ClaimReadAttempts, ClaimFirst,
    Reclaim, TakeOver, ClaimRefused
<1>2. CASE FinalizeNext(p)
  BY <1>2 DEF FinalizeNext, SettleOutcome, FinReadAttempt, FinReadTask, FinCommit, FinDone,
    FinRefused, StopHeartbeat
<1>3. CASE CommandNext(p)
  BY <1>3 DEF CommandNext, StartCommand, CommandReadTask, CommandReadAttempt, CommandCommit,
    CommandRefused
<1>4. CASE HeartbeatCheck(p) \/ HeartbeatRefresh(p) \/ HeartbeatWrite(p) \/ Crash(p)
  BY <1>4 DEF HeartbeatCheck, HeartbeatRefresh, HeartbeatWrite, Crash
<1> QED
  BY <1>1, <1>2, <1>3, <1>4 DEF ThreadNext

(* A step of its own that reads nothing: what the thread read is dropped   *)
(* or kept, and the message it holds stays the same.                       *)
LEMMA OwnStep ==
  ASSUME TypeOK, NEW p \in Procs, ThreadNext(p),
         ~DeliverMessage(p), ~ClaimReadTask(p), ~ClaimReadAttempts(p), ~FinReadTask(p)
  PROVE  \/ pc'[p] = "idle"
         \/ /\ job'[p].task = job[p].task /\ job'[p].no = job[p].no
            /\ pc[p] # "idle"
            /\ \/ pc'[p] \notin {"idle", "readAttempts", "claim", "finCommit"}
               \/ pc'[p] = pc[p] /\ seen'[p] = seen[p]
<1> USE DEF TypeOK, GoTo, Rest, Finalize
<1>1. CASE ClaimNext(p)
  BY <1>1 DEF ClaimNext, ClaimFirst, Reclaim, TakeOver, ClaimRefused
<1>2. CASE FinalizeNext(p)
  BY <1>2 DEF FinalizeNext, SettleOutcome, FinReadAttempt, FinCommit, FinDone, FinRefused,
    StopHeartbeat
<1>3. CASE CommandNext(p)
  BY <1>3 DEF CommandNext, StartCommand, CommandReadTask, CommandReadAttempt, CommandCommit,
    CommandRefused
<1>4. CASE HeartbeatRefresh(p)
  <2>1. job[p] \in Jobs
    OBVIOUS
  <2>2. pc' = pc /\ seen' = seen /\ job'[p].task = job[p].task /\ job'[p].no = job[p].no
    BY <1>4, <2>1 DEF HeartbeatRefresh, Jobs
  <2> QED
    BY <2>2, <1>4
<1>7. CASE HeartbeatCheck(p)
  BY <1>7 DEF HeartbeatCheck, FinalSteps
<1>5. CASE HeartbeatWrite(p)
  BY <1>5 DEF HeartbeatWrite
<1>6. CASE Crash(p)
  BY <1>6 DEF Crash
<1> QED
  BY <1>1, <1>2, <1>3, <1>4, <1>5, <1>6, <1>7 DEF ThreadNext

LEMMA SeenStep ==
  ASSUME IInv, TypeOK', [Next]_vars, NEW q \in Procs
  PROVE  SeenAt(q)'
<1> USE DEF IInv
<1> DEFINE t == job[q].task
           n == job[q].no
<1>0. /\ t \in Tasks /\ n \in Nat /\ SeenAt(q) /\ RowForward(t) /\ RowOK(t)
      /\ current[t] \in Nat /\ sent[t] \in Nat /\ current'[t] \in Nat /\ sent'[t] \in Nat
      /\ seen[q].current \in Nat
  <2>1. job[q] \in Jobs /\ seen[q] \in Seen /\ t \in Tasks
    BY DEF TypeOK, Jobs
  <2>2. n \in Nat /\ seen[q].current \in Nat
    BY <2>1 DEF Jobs, Seen, AttemptNos
  <2>3. /\ current[t] \in Nat /\ sent[t] \in Nat /\ current'[t] \in Nat /\ sent'[t] \in Nat
    BY <2>1, BoundsAssumption DEF TypeOK, AttemptNos
  <2> QED
    BY <2>1, <2>2, <2>3, RowsForward DEF SeenOK
<1>1. CASE pc'[q] = pc[q] /\ job'[q] = job[q] /\ seen'[q] = seen[q]
  BY <1>0, <1>1 DEF SeenAt, RowForward
<1>2. ASSUME ThreadNext(q) PROVE SeenAt(q)'
  <2>1. CASE DeliverMessage(q)
    <3> PICK u \in Tasks, m \in AttemptNos : \E k \in 1 .. lease[u][m].count + 1 : Deliver(q, u, m, k)
      BY <2>1 DEF DeliverMessage
    <3> PICK k \in 1 .. lease[u][m].count + 1 : Deliver(q, u, m, k)
      OBVIOUS
    <3>1. job'[q].task = u /\ job'[q].no = m /\ m <= sent'[u] /\ pc'[q] = "readTask"
      BY DEF Deliver, GoTo, records, TypeOK
    <3> QED
      BY <3>1 DEF SeenAt
  <2>2. CASE ClaimReadTask(q)
    <3>1. /\ job' = job /\ UNCHANGED records /\ pc'[q] = "readAttempts" /\ pc[q] # "idle"
          /\ seen'[q].state = state[t] /\ seen'[q].current = current[t]
      BY <2>2, <1>0 DEF ClaimReadTask, GoTo, ReadTask, TypeOK, Seen
    <3> QED
      BY <1>0, <3>1 DEF SeenAt, RowOK, records, Outcomes
  <2>3. CASE ClaimReadAttempts(q)
    <3>1. /\ job' = job /\ UNCHANGED records /\ pc'[q] = "claim" /\ pc[q] = "readAttempts"
          /\ seen'[q].state = seen[q].state /\ seen'[q].current = seen[q].current
      BY <2>3, <1>0 DEF ClaimReadAttempts, GoTo, TypeOK, Seen
    <3> QED
      BY <1>0, <3>1 DEF SeenAt, records
  <2>4. CASE FinReadTask(q)
    <3>1. /\ job' = job /\ UNCHANGED records /\ pc'[q] = "finCommit" /\ pc[q] # "idle"
          /\ seen'[q].state = state[t] /\ seen'[q].current = current[t]
      BY <2>4, <1>0 DEF FinReadTask, GoTo, ReadTask, TypeOK, Seen
    <3> QED
      BY <1>0, <3>1 DEF SeenAt, records, Outcomes
  <2>5. CASE pc'[q] = "idle"
    BY <2>5 DEF SeenAt
  <2>6. CASE /\ job'[q].task = job[q].task /\ job'[q].no = job[q].no
             /\ pc[q] # "idle"
             /\ \/ pc'[q] \notin {"idle", "readAttempts", "claim", "finCommit"}
                \/ pc'[q] = pc[q] /\ seen'[q] = seen[q]
    BY <1>0, <2>6 DEF SeenAt, RowForward
  <2> QED
    BY <1>2, <2>1, <2>2, <2>3, <2>4, <2>5, <2>6, OwnStep
<1>3. ASSUME NEW p \in Procs, ThreadNext(p), p # q PROVE SeenAt(q)'
  BY <1>1, <1>3, OtherThread
<1>4. ASSUME NEW c \in Callers, CallNext(c) PROVE SeenAt(q)'
  BY <1>1, <1>4, CallFrame DEF threads
<1>5. CASE UNCHANGED vars
  BY <1>1, <1>5 DEF vars
<1> QED
  BY <1>2, <1>3, <1>4, <1>5 DEF Next
----------------------------------------------------------------------------
LEMMA CallStep == IInv /\ [Next]_vars => CallOK'
<1> SUFFICES ASSUME IInv, [Next]_vars, NEW d \in Callers
             PROVE  LET r == call'[d] IN
                    /\ r.step \in {"cancelReadAttempt", "cancel"} =>
                         r.seen.state \in {"queued", "running", "paused"}
                    /\ r.step \in {"terminateReadTask", "terminate"} => kind'[r.task] = "training"
                    /\ r.step = "resume" =>
                         /\ kind'[r.task] = "training"
                         /\ r.seen.state \in {"paused", "failed"}
                         /\ r.seen.current < MaxAttempt
  BY DEF CallOK
<1> USE DEF IInv, CallOK
<1>0. kind' = kind
  BY ThreadFrame, CallFrame DEF Next, vars
<1>1. CASE call'[d] = call[d]
  BY <1>0, <1>1
<1>2. ASSUME NEW c \in Callers, CallNext(c) PROVE call'[d] = call[d] \/ c = d
  BY <1>2 DEF CallNext, CancelReadTask, CancelReadAttempt, Cancel, TerminateReadTask,
    TerminateReadAgain, Terminate, ResumeReadTask, Resume, CallRefused, Ask, Answered, TypeOK
<1>3. CASE CancelReadTask(d)
  BY <1>0, <1>3 DEF CancelReadTask, Ask, TypeOK
<1>4. CASE CancelReadAttempt(d)
  <2>1. call[d].seen \in Seen
    BY DEF TypeOK
  <2>2. CASE Answered(d)
    BY <2>2 DEF Answered, TypeOK
  <2>3. CASE call' = [call EXCEPT ![d] =
               [step |-> "cancel", task |-> call[d].task,
                seen |-> [@.seen EXCEPT !.attempts[call[d].seen.current] =
                            attempt[call[d].task][call[d].seen.current]]]]
    <3>1. call'[d].step = "cancel" /\ call'[d].seen.state = call[d].seen.state
      BY <2>1, <2>3 DEF TypeOK, Seen
    <3>2. call[d].seen.state \in {"queued", "running", "paused"}
      BY <1>4 DEF CancelReadAttempt
    <3> QED
      BY <3>1, <3>2
  <2> QED
    BY <1>4, <2>2, <2>3 DEF CancelReadAttempt
<1>5. CASE Cancel(d) \/ Terminate(d) \/ Resume(d) \/ CallRefused(d)
  <2>0. Answered(d)
    BY <1>5 DEF Cancel, Terminate, Resume, CallRefused
  <2>1. call'[d].step = "none"
    BY <2>0 DEF Answered, TypeOK
  <2> QED
    BY <2>1
<1>6. CASE TerminateReadTask(d)
  BY <1>0, <1>6 DEF TerminateReadTask, TypeOK
<1>7. CASE TerminateReadAgain(d)
  BY <1>0, <1>7 DEF TerminateReadAgain, Ask, TypeOK
<1>8. CASE ResumeReadTask(d)
  BY <1>0, <1>8 DEF ResumeReadTask, Ask, TypeOK
<1> QED
  BY <1>1, <1>2, <1>3, <1>4, <1>5, <1>6, <1>7, <1>8, ThreadFrame DEF Next, CallNext, vars
LEMMA CommandStep == IInv /\ [Next]_vars => CommandOK'
<1> SUFFICES ASSUME IInv, [Next]_vars, NEW q \in Procs, pc'[q] \in CommandSteps
             PROVE  kind'[job'[q].task] \in CommandKinds /\ out'[q].outcome \in {"succeeded", "failed"}
  BY DEF CommandOK
<1> USE DEF IInv
<1>0. kind' = kind
  BY ThreadFrame, CallFrame DEF Next, vars
<1>1. CASE pc'[q] = pc[q] /\ job'[q].task = job[q].task /\ out'[q] = out[q]
  BY <1>0, <1>1 DEF CommandOK
<1>2. ASSUME NEW p \in Procs, ThreadNext(p), p # q
      PROVE  pc'[q] = pc[q] /\ job'[q].task = job[q].task /\ out'[q] = out[q]
  BY <1>2, OtherThread
<1>3. ASSUME NEW c \in Callers, CallNext(c)
      PROVE  pc'[q] = pc[q] /\ job'[q].task = job[q].task /\ out'[q] = out[q]
  BY <1>3, CallFrame DEF threads
<1>4. CASE ThreadNext(q)
  <2> USE DEF TypeOK, GoTo, Rest, Finalize, CommandSteps
  <2>1. ~ClaimNext(q) /\ ~Crash(q)
    BY DEF ClaimNext, DeliverMessage, Deliver, ClaimReadTask, ClaimReadAttempts, ClaimFirst,
      Reclaim, TakeOver, ClaimRefused, Crash
  <2>2. ~FinalizeNext(q)
    BY DEF FinalizeNext, SettleOutcome, FinReadAttempt, FinReadTask, FinCommit, FinDone,
      FinRefused, StopHeartbeat
  <2>3. CASE StartCommand(q)
    BY <1>0, <2>3 DEF StartCommand
  <2>4. CASE CommandReadTask(q) \/ CommandReadAttempt(q)
    BY <1>0, <2>4 DEF CommandReadTask, CommandReadAttempt, CommandOK
  <2>5. CASE CommandCommit(q)
    BY <2>5 DEF CommandCommit
  <2>6. CASE CommandRefused(q)
    BY <1>0, <2>6 DEF CommandRefused, CommandOK
  <2>7. CASE HeartbeatRefresh(q)
    <3>1. job[q] \in Jobs
      OBVIOUS
    <3>2. pc'[q] = pc[q] /\ job'[q].task = job[q].task /\ out'[q] = out[q]
      BY <2>7, <3>1 DEF HeartbeatRefresh, Jobs
    <3> QED
      BY <1>1, <3>2
  <2>8. CASE HeartbeatCheck(q) \/ HeartbeatWrite(q)
    BY <1>1, <2>8 DEF HeartbeatCheck, HeartbeatWrite
  <2> QED
    BY <1>4, <2>1, <2>2, <2>3, <2>4, <2>5, <2>6, <2>7, <2>8 DEF ThreadNext, CommandNext
<1>5. CASE UNCHANGED vars
  BY <1>1, <1>5 DEF vars
<1> QED
  BY <1>1, <1>2, <1>3, <1>4, <1>5 DEF Next

LEMMA InitIInv == Init => IInv
<1> SUFFICES ASSUME Init PROVE IInv
  OBVIOUS
<1> USE BoundsAssumption DEF Init
<1>1. TypeOK
  <2>1. NoAttempts \in [AttemptNos -> Attempts] /\ 1 \in AttemptNos
    BY DEF NoAttempts, NoAttempt, Attempts, AttemptNos
  <2>2. state \in [Tasks -> TaskStates] /\ pc \in [Procs -> Steps]
    BY DEF TaskStates, Steps
  <2>3. out \in [Procs -> [outcome: Outcomes, ack: BOOLEAN]] /\ hb \in [Procs -> {"rest", "refresh", "write"}]
    BY DEF NoOut, Outcomes
  <2>4. lease \in [Tasks -> [AttemptNos -> Leases]]
    BY DEF Leases
  <2>5. job \in [Procs -> Jobs]
    BY <2>1 DEF Jobs
  <2>6. call \in [Callers -> [step: CallSteps, task: Tasks, seen: Seen]]
    BY NoSeenType DEF CallSteps
  <2>7. seen \in [Procs -> Seen]
    BY NoSeenType
  <2>8. kind \in [Tasks -> Kinds] /\ current \in [Tasks -> 0 .. MaxAttempt]
        /\ sent \in [Tasks -> AttemptNos] /\ attempt \in [Tasks -> [AttemptNos -> Attempts]]
    BY <2>1
  <2> QED
    BY <2>2, <2>3, <2>4, <2>5, <2>6, <2>7, <2>8 DEF TypeOK
<1>2. CallOK
  BY DEF CallOK
<1>3. CommandOK
  BY DEF CommandOK, CommandSteps
<1>4. SeenOK
  BY DEF SeenOK, SeenAt
<1>5. \A t \in Tasks : RowOK(t)
  <2> SUFFICES ASSUME NEW t \in Tasks PROVE RowOK(t)
    OBVIOUS
  <2>1. state[t] = "queued" /\ current[t] = 0 /\ sent[t] = 1
    OBVIOUS
  <2>2. \A n \in AttemptNos : attempt[t][n].state = "none" /\ n \in Nat /\ n >= 1
    BY DEF NoAttempts, NoAttempt, AttemptNos
  <2> HIDE DEF Init
  <2>3. NoneRunning(t)
    BY <2>2 DEF NoneRunning
  <2> QED
    BY <2>1, <2>2, <2>3 DEF RowOK
<1> QED
  BY <1>1, <1>2, <1>3, <1>4, <1>5 DEF IInv

(* Every step of every thread and request keeps IInv.                      *)
LEMMA IInvStep == IInv /\ [Next]_vars => IInv'
<1> SUFFICES ASSUME IInv, [Next]_vars PROVE IInv'
  OBVIOUS
<1>1. TypeOK'
  BY TypeStep DEF IInv
<1>2. CallOK' /\ CommandOK'
  BY CallStep, CommandStep
<1>3. SeenOK'
  BY <1>1, SeenStep DEF SeenOK
<1>4. \A t \in Tasks : RowOK(t)'
  BY <1>1, RowStep
<1> QED
  BY <1>1, <1>2, <1>3, <1>4 DEF IInv

(* The records, and what threads and requests know of them, are consistent *)
(* in every reachable state.                                               *)
THEOREM Inductive == Spec => []IInv
BY InitIInv, IInvStep, PTL DEF Spec

(* Every variable keeps its type, whatever threads and requests interleave. *)
THEOREM TypeCorrect == Spec => []TypeOK
<1>1. IInv => TypeOK
  BY DEF IInv
<1> QED
  BY <1>1, Inductive, PTL

(* Attempt rows stay numbered without a gap and only the last may run.     *)
THEOREM AttemptsStayInOrder == Spec => []AttemptsInOrder
<1>1. IInv => AttemptsInOrder
  BY DEF IInv, RowOK, AttemptsInOrder
<1> QED
  BY <1>1, Inductive, PTL

(* No interleaving leaves a running task without a running attempt that a  *)
(* recovered delivery could take over.                                     *)
THEOREM RunningTaskIsOwned == Spec => []RunningTaskHasRunningAttempt
<1>1. IInv => RunningTaskHasRunningAttempt
  BY DEF IInv, RowOK, RunningTaskHasRunningAttempt
<1> QED
  BY <1>1, Inductive, PTL

(* A queued task always has the outbox message of its next attempt, and no *)
(* attempt of it is still running.                                         *)
THEOREM QueuedTaskIsSent == Spec => []QueuedTaskHasMessage
<1>1. IInv => QueuedTaskHasMessage
  BY DEF IInv, RowOK, NoneRunning, QueuedTaskHasMessage
<1> QED
  BY <1>1, Inductive, PTL

----------------------------------------------------------------------------
(* Final states are kept: a row is written only while it is not final.     *)
LEMMA ClosedRowKept ==
  ASSUME IInv, [Next]_vars, NEW t \in Tasks, NEW n \in AttemptNos,
         attempt[t][n].state \in Outcomes
  PROVE  attempt'[t][n] = attempt[t][n]
<1> USE DEF IInv
<1>0. attempt[t][n].state # "running" /\ attempt[t][n].state # "none"
  BY DEF Outcomes
<1>1. ASSUME NEW p \in Procs, ThreadNext(p) PROVE attempt'[t][n] = attempt[t][n]
  <2>0. job[p].task \in Tasks /\ job[p].no \in AttemptNos
    BY DEF TypeOK, Jobs
  <2>1. CASE ClaimFirst(p)
    BY <1>0, <2>0, <2>1 DEF ClaimFirst, CanClaimFirst, NoAttempt, TypeOK
  <2>2. CASE Reclaim(p)
    BY <1>0, <2>0, <2>2 DEF Reclaim, TakeOver, CanReclaim, TypeOK
  <2>3. CASE FinCommit(p)
    <3>1. \/ attempt' = attempt
          \/ attempt[job[p].task][job[p].no].state = "running" /\ CloseAttempt(p)
      BY <2>3 DEF FinCommit, ClosesAttempt, ClosesBoth, CanFinish, AttemptUntouched
    <3>2. CASE attempt[job[p].task][job[p].no].state = "running" /\ CloseAttempt(p)
      BY <1>0, <2>0, <3>2 DEF CloseAttempt, TypeOK
    <3> QED
      BY <3>1, <3>2
  <2>4. CASE HeartbeatWrite(p)
    BY <1>0, <2>0, <2>4 DEF HeartbeatWrite, TypeOK
  <2>5. CASE ~ClaimFirst(p) /\ ~Reclaim(p) /\ ~FinCommit(p) /\ ~HeartbeatWrite(p)
    <3>1. attempt' = attempt
      BY <1>1, <2>5 DEF ThreadNext, ClaimNext, FinalizeNext, CommandNext, DeliverMessage, Deliver,
        ClaimReadTask, ClaimReadAttempts, ClaimRefused, SettleOutcome, FinReadAttempt, FinReadTask,
        FinRefused, StopHeartbeat, StartCommand, CommandReadTask, CommandReadAttempt,
        CommandCommit, CommandRefused, HeartbeatCheck, HeartbeatRefresh, Crash, records
    <3> QED
      BY <3>1
  <2> QED
    BY <2>1, <2>2, <2>3, <2>4, <2>5
<1>2. ASSUME NEW c \in Callers, CallNext(c) PROVE attempt'[t][n] = attempt[t][n]
  <2>1. CASE Cancel(c)
    BY <1>0, <2>1 DEF Cancel, CanCancel, TypeOK
  <2>2. CASE ~Cancel(c)
    <3>1. attempt' = attempt
      BY <1>2, <2>2 DEF CallNext, CancelReadTask, CancelReadAttempt, TerminateReadTask,
        TerminateReadAgain, Terminate, ResumeReadTask, Resume, CallRefused, records
    <3> QED
      BY <3>1
  <2> QED
    BY <2>1, <2>2
<1>3. CASE UNCHANGED vars
  BY <1>3 DEF vars
<1> QED
  BY <1>1, <1>2, <1>3 DEF Next

LEMMA FinalTaskKept ==
  ASSUME IInv, [Next]_vars, NEW t \in Tasks, state[t] \in Immutable
  PROVE  state'[t] = state[t]
<1> USE DEF IInv
<1>0. state[t] \notin {"queued", "running", "paused", "failed"}
  BY DEF Immutable
<1>1. ASSUME NEW p \in Procs, ThreadNext(p) PROVE state'[t] = state[t]
  <2>0. job[p].task \in Tasks
    BY DEF TypeOK, Jobs
  <2>1. CASE ClaimFirst(p)
    BY <1>0, <2>0, <2>1 DEF ClaimFirst, CanClaimFirst, TypeOK
  <2>2. CASE Reclaim(p)
    BY <2>2 DEF Reclaim, TakeOver
  <2>3. CASE FinCommit(p)
    BY <1>0, <2>0, <2>3 DEF FinCommit, ClosesBoth, TypeOK
  <2>4. CASE CommandCommit(p)
    BY <1>0, <2>0, <2>4 DEF CommandCommit, CanCommand, TypeOK
  <2> QED
    BY <1>1, <2>1, <2>2, <2>3, <2>4, QuietThread DEF SameRow
<1>2. ASSUME NEW c \in Callers, CallNext(c) PROVE state'[t] = state[t]
  <2>1. CASE Cancel(c)
    BY <1>0, <2>1 DEF Cancel, CanCancel, TaskUntouched, CallOK, TypeOK
  <2>2. CASE Terminate(c)
    BY <2>2 DEF Terminate, CanTerminate, TaskUntouched, TypeOK
  <2>3. CASE Resume(c)
    BY <1>0, <2>3 DEF Resume, TaskUntouched, CallOK, TypeOK
  <2> QED
    BY <1>2, <2>1, <2>2, <2>3, QuietCall DEF SameRow
<1>3. CASE UNCHANGED vars
  BY <1>3 DEF vars
<1> QED
  BY <1>1, <1>2, <1>3 DEF Next

(* Final task states and closed attempt rows are never written again, by   *)
(* no late delivery, ack, heartbeat or request.                            *)
THEOREM FinalStatesAreKept == Spec => FinalStatesKept
<1>1. IInv /\ [Next]_vars =>
        [\A t \in Tasks :
           /\ state[t] \in Immutable => state'[t] = state[t]
           /\ \A n \in AttemptNos :
                attempt[t][n].state \in Outcomes => attempt'[t][n] = attempt[t][n]]_vars
  BY ClosedRowKept, FinalTaskKept
<1> QED
  BY <1>1, Inductive, PTL DEF Spec, FinalStatesKept

----------------------------------------------------------------------------
(* The task service implements the state matrix.                           *)
OpenOf(t) == {n \in AttemptNos : attempt[t][n].state = "running"}
OpenMap == [t \in Tasks |-> OpenOf(t)]

LEMMA MovedMap ==
  ASSUME TypeOK, TypeOK', NEW u \in Tasks, NEW s, NEW k, NEW h, NEW n, NEW a,
         MovesRow(u, s, k, h, n, a)
  PROVE  /\ state' = [state EXCEPT ![u] = s]
         /\ current' = [current EXCEPT ![u] = k]
         /\ sent' = [sent EXCEPT ![u] = h]
         /\ OpenMap' = [OpenMap EXCEPT ![u] =
              IF a = "running" THEN OpenOf(u) \cup ({n} \cap AttemptNos) ELSE OpenOf(u) \ {n}]
<1>1. /\ state' = [state EXCEPT ![u] = s]
      /\ current' = [current EXCEPT ![u] = k]
      /\ sent' = [sent EXCEPT ![u] = h]
  BY DEF MovesRow, SameRow, TypeOK
<1>2. ASSUME NEW t \in Tasks, t # u PROVE OpenOf(t)' = OpenOf(t)
  BY <1>2 DEF MovesRow, SameRow, OpenOf
<1>3. OpenOf(u)' = IF a = "running" THEN OpenOf(u) \cup ({n} \cap AttemptNos) ELSE OpenOf(u) \ {n}
  BY DEF MovesRow, OpenOf
<1>4. OpenMap' = [t \in Tasks |-> OpenOf(t)']
  BY DEF OpenMap
<1> QED
  BY <1>1, <1>2, <1>3, <1>4 DEF OpenMap

LEMMA StateMap ==
  ASSUME NEW u \in Tasks, NEW s, NEW k, NEW h, MovesRow(u, s, k, h, 0, "none")
  PROVE  OpenMap' = OpenMap
<1>1. \A t \in Tasks : OpenOf(t)' = OpenOf(t)
  BY BoundsAssumption DEF MovesRow, SameRow, OpenOf, AttemptNos
<1> QED
  BY <1>1 DEF OpenMap

LEMMA SameMap ==
  ASSUME TypeOK, TypeOK', \A t \in Tasks : SameRow(t)
  PROVE  UNCHANGED <<state, current, sent, OpenMap>>
<1>1. UNCHANGED <<state, current, sent>>
  BY DEF SameRow, TypeOK
<1>2. \A t \in Tasks : OpenOf(t)' = OpenOf(t)
  BY DEF SameRow, OpenOf
<1>3. OpenMap' = [t \in Tasks |-> OpenOf(t)']
  BY DEF OpenMap
<1> QED
  BY <1>1, <1>2, <1>3 DEF OpenMap

(* An attempt that runs is the last one, and the only one.                 *)
LEMMA OneOpen ==
  ASSUME IInv, NEW u \in Tasks, NEW n \in AttemptNos, attempt[u][n].state = "running"
  PROVE  /\ n = current[u] /\ OpenOf(u) = {n}
         /\ state[u] # "queued" /\ state[u] # "paused"
<1>1. RowOK(u)
  BY DEF IInv
<1> QED
  BY <1>1 DEF RowOK, NoneRunning, OpenOf

LEMMA SettledWhenSeen ==
  ASSUME IInv, NEW p \in Procs, NEW u \in Tasks, NEW n \in AttemptNos,
         u = job[p].task, n = job[p].no,
         attempt[u][n].state = "running", Reclaim(p) \/ (FinCommit(p) /\ ClosesAttempt(p)),
         seen[p].state \in Outcomes
  PROVE  state[u] \in Outcomes
<1>1. /\ n = current[u] /\ state[u] # "queued" /\ current[u] \in Nat /\ seen[p].current \in Nat
      /\ state[u] \in {"queued", "running"} \cup Outcomes /\ SeenAt(p)
  BY OneOpen, BoundsAssumption DEF IInv, TypeOK, TaskStates, SeenOK, Seen
<1>2. state[u] # "running"
  <2>1. CASE Reclaim(p)
    <3>1. seen[p].current <= n /\ pc[p] = "claim"
      BY <2>1 DEF Reclaim, TakeOver, CanReclaim
    <3>2. CASE seen[p].current = n
      BY <1>1, <3>1, <3>2 DEF SeenAt
    <3>3. CASE seen[p].current # n
      <4>1. n = seen[p].current + 1
        BY <1>1, <3>1, <3>3 DEF SeenAt, AttemptNos
      <4> QED
        BY <1>1, <3>1, <4>1 DEF SeenAt
    <3> QED
      BY <3>2, <3>3
  <2>2. CASE FinCommit(p) /\ ClosesAttempt(p)
    BY <1>1, <2>2 DEF SeenAt, FinCommit, ClosesAttempt, SeenCurrent
  <2> QED
    BY <2>1, <2>2
<1> QED
  BY <1>1, <1>2

MappedNext == Lifecycle!LifecycleNext
MappedVars == <<state, current, sent, OpenMap>>

LEMMA MappedInit == Init => Lifecycle!LifecycleInit
<1> SUFFICES ASSUME Init PROVE Lifecycle!LifecycleInit
  OBVIOUS
<1>1. \A t \in Tasks : {n \in AttemptNos : attempt[t][n].state = "running"} = {}
  BY DEF Init, NoAttempts, NoAttempt
<1> QED
  BY <1>1 DEF Init, Lifecycle!LifecycleInit

LEMMA MappedThread ==
  ASSUME IInv, TypeOK', NEW p \in Procs, ThreadNext(p)
  PROVE  MappedNext \/ UNCHANGED MappedVars
<1>0. job[p].task \in Tasks /\ job[p].no \in AttemptNos /\ out[p].outcome \in Outcomes /\ TypeOK
  BY DEF IInv, TypeOK, Jobs
<1> PICK u \in Tasks : u = job[p].task
  BY <1>0
<1> PICK n \in AttemptNos : n = job[p].no
  BY <1>0
<1>a. OpenMap[u] = OpenOf(u) /\ OpenMap \in [Tasks -> SUBSET AttemptNos]
  BY DEF OpenMap, OpenOf
<1>b. Lifecycle!Settled = Outcomes /\ RowOK(u) /\ current[u] \in Nat
  BY <1>0, BoundsAssumption DEF Lifecycle!Settled, Lifecycle!Immutable, Lifecycle!Resumable,
    Outcomes, IInv, TypeOK
<1>1. CASE ClaimFirst(p)
  <2>1. /\ n = current[u] + 1 /\ state[u] = "queued"
        /\ MovesRow(u, "running", n, sent[u], n, "running")
    BY <1>0, <1>1, ClaimFirstMoves
  <2>2. OpenOf(u) = {} /\ sent[u] = current[u] + 1
    BY <1>b, <2>1 DEF RowOK, NoneRunning, OpenOf
  <2>3. /\ state' = [state EXCEPT ![u] = "running"] /\ current' = [current EXCEPT ![u] = sent[u]]
        /\ OpenMap' = [OpenMap EXCEPT ![u] = {sent[u]}] /\ sent' = sent
    BY <1>0, <2>1, <2>2, MovedMap DEF TypeOK
  <2>4. Lifecycle!Claim(u)
    BY <1>a, <2>1, <2>2, <2>3 DEF Lifecycle!Claim, OpenMap, OpenOf
  <2> QED
    BY <2>4 DEF MappedNext, Lifecycle!LifecycleNext
<1>2. ASSUME attempt[u][n].state = "running", state[u] \in Outcomes, NEW o \in Outcomes,
             MovesRow(u, state[u], current[u], sent[u], n, o)
      PROVE  MappedNext
  <2>1. OpenOf(u) = {current[u]} /\ n = current[u]
    BY <1>2, OneOpen
  <2>2. o # "running"
    BY DEF Outcomes
  <2>3. /\ state' = state /\ current' = current /\ sent' = sent
        /\ OpenMap' = [OpenMap EXCEPT ![u] = {}]
    BY <1>0, <1>2, <2>1, <2>2, MovedMap DEF TypeOK
  <2>4. Lifecycle!Close(u)
    BY <1>2, <1>a, <1>b, <2>1, <2>3 DEF Lifecycle!Close, OpenMap, OpenOf
  <2> QED
    BY <2>4 DEF MappedNext, Lifecycle!LifecycleNext
<1>3. CASE Reclaim(p)
  <2> DEFINE s == seen[p].state
             over == s \in {"succeeded", "failed", "timed_out", "cancelled"}
  <2>1. /\ attempt[u][n].state = "running"
        /\ MovesRow(u, state[u], current[u], sent[u], n, IF over THEN s ELSE "running")
    BY <1>0, <1>3, ReclaimMoves
  <2>2. CASE over
    <3>1. s \in Outcomes
      BY <2>2 DEF Outcomes
    <3>2. state[u] \in Outcomes
      BY <1>3, <2>1, <3>1, SettledWhenSeen
    <3> QED
      BY <1>2, <2>1, <2>2, <3>1, <3>2
  <2>3. CASE ~over
    <3>1. \A t \in Tasks : SameRow(t)
      BY <2>1, <2>3 DEF MovesRow, SameRow
    <3> QED
      BY <1>0, <3>1, SameMap DEF MappedVars
  <2> QED
    BY <2>2, <2>3
<1>4. CASE FinCommit(p)
  <2> DEFINE o == out[p].outcome
  <2>1. CASE UNCHANGED <<state, current, sent, attempt>>
    <3>1. \A t \in Tasks : SameRow(t)
      BY <2>1 DEF SameRow
    <3> QED
      BY <1>0, <3>1, SameMap DEF MappedVars
  <2>2. CASE ClosesAttempt(p) /\ MovesRow(u, state[u], current[u], sent[u], n, o)
    <3>1. attempt[u][n].state = "running" /\ seen[p].state \in Outcomes
      BY <1>0, <2>2 DEF ClosesAttempt, CanFinish, AttemptUntouched
    <3>2. state[u] \in Outcomes
      BY <1>4, <2>2, <3>1, SettledWhenSeen
    <3> QED
      BY <1>0, <1>2, <2>2, <3>1, <3>2
  <2>3. CASE ClosesBoth(p) /\ MovesRow(u, o, current[u], sent[u], n, o)
    <3>1. attempt[u][n].state = "running" /\ state[u] = "running"
      BY <2>3 DEF ClosesBoth, CanFinish, AttemptUntouched
    <3>2. OpenOf(u) = {current[u]} /\ n = current[u]
      BY <3>1, OneOpen
    <3>3. o # "running"
      BY <1>0 DEF Outcomes
    <3>4. /\ state' = [state EXCEPT ![u] = o] /\ current' = current /\ sent' = sent
          /\ OpenMap' = [OpenMap EXCEPT ![u] = {}]
      BY <1>0, <2>3, <3>2, <3>3, MovedMap DEF TypeOK
    <3>5. Lifecycle!Settle(u)
      BY <1>0, <1>a, <1>b, <3>1, <3>2, <3>4 DEF Lifecycle!Settle, OpenMap, OpenOf
    <3> QED
      BY <3>5 DEF MappedNext, Lifecycle!LifecycleNext
  <2> QED
    BY <1>0, <1>4, <2>1, <2>2, <2>3, FinCommitMoves
<1>5. CASE CommandCommit(p)
  <2> DEFINE o == out[p].outcome
  <2>1. state[u] = "running" /\ MovesRow(u, o, current[u], sent[u], 0, "none")
    BY <1>0, <1>5, CommandCommitMoves
  <2>2. current[u] \in AttemptNos /\ attempt[u][current[u]].state = "running" /\ 0 \notin AttemptNos
    BY <1>b, <2>1 DEF RowOK, AttemptNos
  <2>3. OpenOf(u) = {current[u]}
    BY <2>2, OneOpen
  <2>4. /\ state' = [state EXCEPT ![u] = o] /\ current' = current /\ sent' = sent
        /\ OpenMap' = OpenMap
    BY <1>0, <1>a, <2>1, <2>2, <2>3, MovedMap, StateMap DEF TypeOK
  <2>5. Lifecycle!Settle(u)
    BY <1>0, <1>a, <1>b, <2>1, <2>3, <2>4 DEF Lifecycle!Settle, OpenMap, OpenOf
  <2> QED
    BY <2>5 DEF MappedNext, Lifecycle!LifecycleNext
<1>6. CASE ~ClaimFirst(p) /\ ~Reclaim(p) /\ ~FinCommit(p) /\ ~CommandCommit(p)
  <2>1. \A t \in Tasks : SameRow(t)
    BY <1>0, <1>6, QuietThread
  <2> QED
    BY <1>0, <2>1, SameMap DEF MappedVars
<1> QED
  BY <1>1, <1>3, <1>4, <1>5, <1>6

LEMMA MappedCall ==
  ASSUME IInv, TypeOK', NEW c \in Callers, CallNext(c)
  PROVE  MappedNext \/ UNCHANGED MappedVars
<1>0. call[c].task \in Tasks /\ TypeOK /\ CallOK /\ \A t \in Tasks : RowOK(t)
  BY DEF IInv, TypeOK
<1> PICK u \in Tasks : u = call[c].task
  BY <1>0
<1>a. OpenMap[u] = OpenOf(u) /\ OpenMap \in [Tasks -> SUBSET AttemptNos]
  BY DEF OpenMap, OpenOf
<1>b. /\ Lifecycle!Settled = Outcomes /\ Lifecycle!Resumable = {"paused", "failed"}
      /\ "cancelled" \in Outcomes /\ RowOK(u) /\ current[u] \in Nat /\ 0 \notin AttemptNos
      /\ state[u] \in TaskStates
  BY <1>0, BoundsAssumption DEF Lifecycle!Settled, Lifecycle!Immutable, Lifecycle!Resumable,
    Outcomes, TypeOK, AttemptNos
<1>1. ASSUME state[u] = "running", NEW n, n \in {0, current[u]},
             NEW a, a # "running",
             MovesRow(u, "cancelled", current[u], sent[u], n, a)
      PROVE  MappedNext
  <2>1. current[u] \in AttemptNos /\ attempt[u][current[u]].state = "running"
    BY <1>b, <1>1 DEF RowOK
  <2>2. OpenOf(u) = {current[u]}
    BY <2>1, OneOpen
  <2>3. /\ state' = [state EXCEPT ![u] = "cancelled"] /\ current' = current /\ sent' = sent
        /\ OpenMap' = [OpenMap EXCEPT ![u] = OpenOf(u) \ {n}]
    BY <1>0, <1>1, MovedMap DEF TypeOK
  <2>4. OpenOf(u) \ {n} = {} \/ OpenMap' = OpenMap
    BY <1>1, <1>a, <1>b, <2>1, <2>2, <2>3
  <2>5. Lifecycle!Settle(u)
    BY <1>1, <1>a, <1>b, <2>2, <2>3, <2>4 DEF Lifecycle!Settle, OpenMap, OpenOf
  <2> QED
    BY <2>5 DEF MappedNext, Lifecycle!LifecycleNext
<1>2. ASSUME state[u] \in {"queued", "paused", "failed"}, NoneRunning(u),
             MovesRow(u, "cancelled", current[u], sent[u], 0, "none")
      PROVE  MappedNext
  <2>1. OpenOf(u) = {}
    BY <1>2 DEF NoneRunning, OpenOf
  <2>2. /\ state' = [state EXCEPT ![u] = "cancelled"] /\ current' = current /\ sent' = sent
        /\ OpenMap' = OpenMap
    BY <1>0, <1>2, <1>a, <2>1, MovedMap, StateMap DEF TypeOK
  <2>3. Lifecycle!Abandon(u)
    BY <1>2, <1>a, <1>b, <2>1, <2>2 DEF Lifecycle!Abandon, OpenMap, OpenOf
  <2> QED
    BY <2>3 DEF MappedNext, Lifecycle!LifecycleNext
<1>3. CASE Cancel(c)
  <2>1. state[u] \in {"queued", "paused"} => NoneRunning(u)
    BY <1>b DEF RowOK
  <2>2. CASE state[u] = "running"
             /\ MovesRow(u, "cancelled", current[u], sent[u], current[u], "cancelled")
    BY <1>1, <2>2
  <2>3. CASE state[u] # "running" /\ MovesRow(u, "cancelled", current[u], sent[u], 0, "none")
    BY <1>0, <1>2, <1>3, <2>1, <2>3, CancelMoves
  <2> QED
    BY <1>0, <1>3, <2>2, <2>3, CancelMoves
<1>4. CASE Terminate(c)
  <2>1. state[u] \notin Immutable /\ MovesRow(u, "cancelled", current[u], sent[u], 0, "none")
    BY <1>0, <1>4, TerminateMoves
  <2>2. kind[u] = "training"
    BY <1>0, <1>4 DEF Terminate, CallOK
  <2>3. CASE state[u] = "running"
    BY <1>1, <2>1, <2>3
  <2>4. CASE state[u] # "running"
    <3>1. state[u] \in {"queued", "paused", "failed"}
      BY <1>b, <2>1, <2>4 DEF TaskStates, Outcomes, Immutable
    <3>2. NoneRunning(u)
      BY <1>b, <2>2, <3>1 DEF RowOK, CommandKinds
    <3> QED
      BY <1>2, <2>1, <3>1, <3>2
  <2> QED
    BY <2>3, <2>4
<1>5. CASE Resume(c)
  <2>1. /\ state[u] \in {"paused", "failed"} /\ kind[u] = "training" /\ current[u] < MaxAttempt
        /\ MovesRow(u, "queued", current[u], current[u] + 1, 0, "none")
    BY <1>0, <1>5, ResumeMoves
  <2>2. OpenOf(u) = {}
    BY <1>b, <2>1 DEF RowOK, CommandKinds, NoneRunning, OpenOf
  <2>3. /\ state' = [state EXCEPT ![u] = "queued"] /\ current' = current
        /\ sent' = [sent EXCEPT ![u] = current[u] + 1] /\ OpenMap' = OpenMap
    BY <1>0, <1>a, <2>1, <2>2, MovedMap, StateMap DEF TypeOK
  <2>4. Lifecycle!Resume(u)
    BY <1>a, <1>b, <2>1, <2>2, <2>3 DEF Lifecycle!Resume, OpenMap, OpenOf
  <2> QED
    BY <2>4 DEF MappedNext, Lifecycle!LifecycleNext
<1>6. CASE ~Cancel(c) /\ ~Terminate(c) /\ ~Resume(c)
  <2>1. \A t \in Tasks : SameRow(t)
    BY <1>6, QuietCall
  <2> QED
    BY <1>0, <2>1, SameMap DEF MappedVars
<1> QED
  BY <1>3, <1>4, <1>5, <1>6

(* Every run of the execution protocol is a run of the state matrix: no    *)
(* interleaving of deliveries, acks, crashes and requests leaves it.       *)
THEOREM Refinement == Spec => ImplementsLifecycle
<1>1. Init => Lifecycle!LifecycleInit
  BY MappedInit
<1>2. IInv /\ IInv' /\ [Next]_vars => [Lifecycle!LifecycleNext]_(Lifecycle!lifecycleVars)
  <2> SUFFICES ASSUME IInv, IInv', [Next]_vars
               PROVE  [Lifecycle!LifecycleNext]_(Lifecycle!lifecycleVars)
    OBVIOUS
  <2>1. CASE UNCHANGED vars
    BY <2>1 DEF vars, Lifecycle!lifecycleVars
  <2>2. CASE Next
    <3>1. MappedNext \/ UNCHANGED MappedVars
      BY <2>2, MappedThread, MappedCall DEF IInv, Next
    <3> QED
      BY <3>1 DEF MappedNext, MappedVars, Lifecycle!lifecycleVars, OpenMap, OpenOf
  <2> QED
    BY <2>1, <2>2
<1> QED
  BY <1>1, <1>2, Inductive, PTL DEF Spec, ImplementsLifecycle, Lifecycle!LifecycleSpec
=============================================================================
