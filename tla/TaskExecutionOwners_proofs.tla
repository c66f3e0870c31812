--------------------- MODULE TaskExecutionOwners_proofs ---------------------
(***************************************************************************)
(* Who owns an attempt, and how task and attempt agree: proofs about       *)
(* TaskExecution that need more than the order of its rows.  An UPDATE of  *)
(* an attempt compares worker_id and heartbeat_at with the row that was    *)
(* read; BeatInv is why equal ticks then mean the same row.                *)
(***************************************************************************)
EXTENDS TaskExecution_proofs

Holds(p, t, n) == pc[p] # "idle" /\ job[p].task = t /\ job[p].no = n
Row(p) == attempt[job[p].task][job[p].no]

(* p has a tick that it may still write to the row.                        *)
Pending(p) == pc[p] \in ClaimSteps \/ hb[p] = "write"

(* Ticks come from the message: rows and threads have no later one than    *)
(* the message gave out, and no two threads the same.                      *)
TicksGiven ==
  /\ \A t \in Tasks, n \in AttemptNos :
       attempt[t][n].state = "running" => attempt[t][n].beat <= lease[t][n].beat
  /\ \A p \in Procs : pc[p] # "idle" => job[p].beat <= lease[job[p].task][job[p].no].beat
  /\ \A p, q \in Procs, t \in Tasks, n \in AttemptNos :
       Holds(p, t, n) /\ Holds(q, t, n) /\ job[p].beat = job[q].beat => p = q

(* A thread at rest has read nothing, and refreshes nothing before it has  *)
(* claimed.                                                                *)
Resting ==
  \A p \in Procs :
    /\ pc[p] = "idle" => seen[p] = NoSeen
    /\ pc[p] \in {"idle"} \cup ClaimSteps => hb[p] = "rest"

(* A tick is written once: a running row does not have it before.          *)
WrittenOnce ==
  \A p \in Procs : Pending(p) /\ Row(p).state = "running" => Row(p).beat # job[p].beat

(* A running row a that was read is the row there is if its tick still is, *)
(* and no pending tick will make it look so again.                         *)
TickKept(a, t, n) ==
  a.state = "running" =>
    /\ a.beat <= lease[t][n].beat
    /\ attempt[t][n].state = "running" /\ attempt[t][n].beat = a.beat => attempt[t][n] = a
    /\ \A p \in Procs : Pending(p) /\ Holds(p, t, n) => job[p].beat # a.beat

ReadTicks(q) == \A n \in AttemptNos : TickKept(seen[q].attempts[n], job[q].task, n)

BeatInv ==
  /\ TicksGiven /\ Resting /\ WrittenOnce
  /\ \A q \in Procs : ReadTicks(q)

----------------------------------------------------------------------------
(* The steps, seen from ticks and rows.                                    *)

(* The message of attempt n gives p a new tick.                            *)
NewTick(p, t, n) ==
  /\ attempt' = attempt
  /\ lease'[t][n].beat = lease[t][n].beat + 1
  /\ \A u \in Tasks, m \in AttemptNos : u # t \/ m # n => lease'[u][m] = lease[u][m]
  /\ job'[p].task = t /\ job'[p].no = n /\ job'[p].beat = lease[t][n].beat + 1
  /\ seen'[p] = seen[p]
  /\ pc'[p] # "idle"
  /\ \/ pc[p] = "idle" /\ pc'[p] = "readTask" /\ hb'[p] = hb[p]
     \/ pc'[p] = pc[p] /\ hb[p] = "refresh" /\ Holds(p, t, n) /\ job'[p].count = job[p].count
  /\ \A q \in Procs \ {p} :
       pc'[q] = pc[q] /\ job'[q] = job[q] /\ seen'[q] = seen[q] /\ hb'[q] = hb[q]

(* p becomes the owner of the attempt, as its first one or after another.  *)
Takes(p) ==
  LET b == seen[p].attempts[job[p].no] IN
  /\ pc[p] = "claim" /\ pc'[p] = "execute" /\ hb'[p] = hb[p] /\ job'[p] = job[p]
  /\ \/ Row(p).state = "none"
     \/ /\ Row(p).state = "running" /\ b.state = "running"
        /\ Row(p).beat = b.beat /\ job[p].count > b.count
  /\ attempt'[job[p].task][job[p].no] =
       [state |-> "running", worker |-> WorkerOf[p], count |-> job[p].count, beat |-> job[p].beat]

Beats(p) ==
  /\ hb[p] = "write" /\ hb'[p] = "rest" /\ pc'[p] = pc[p] /\ job'[p] = job[p]
  /\ attempt'[job[p].task][job[p].no] = [Row(p) EXCEPT !.beat = job[p].beat]

RowEffect(t, n) ==
  \/ attempt'[t][n] = attempt[t][n]
  \/ attempt[t][n].state = "running" /\ attempt'[t][n].state \in Outcomes
  \/ \E p \in Procs : Holds(p, t, n) /\ (Takes(p) \/ Beats(p))

(* q keeps its message; what it knows of a row it knew before, forgets, or *)
(* has just read.                                                          *)
Keeps(q) ==
  /\ pc[q] # "idle" /\ pc'[q] # "idle" /\ job'[q] = job[q]
  /\ pc'[q] \in ClaimSteps => pc[q] \in ClaimSteps /\ hb'[q] = hb[q]
  /\ hb'[q] = "write" => hb[q] = "write"
  /\ \A n \in AttemptNos :
       LET a == seen'[q].attempts[n]  t == job[q].task IN
       \/ a = seen[q].attempts[n]
       \/ a = NoAttempt
       \/ a = attempt[t][n] /\ attempt'[t][n] = attempt[t][n]

Leaves(q) == pc'[q] = "idle" /\ seen'[q] = NoSeen /\ hb'[q] = "rest"

Executes(q) == Executing(q)' => Executing(q) \/ Takes(q)

Calm ==
  /\ lease' = lease
  /\ \A q \in Procs : (Keeps(q) \/ Leaves(q)) /\ Executes(q)
  /\ \A t \in Tasks, n \in AttemptNos : RowEffect(t, n)

LEMMA OtherBeat ==
  ASSUME TypeOK, NEW p \in Procs, ThreadNext(p), NEW q \in Procs, q # p
  PROVE  hb'[q] = hb[q]
<1> USE DEF TypeOK, Rest
<1>1. CASE ClaimNext(p)
  BY <1>1 DEF ClaimNext, DeliverMessage, Deliver, ClaimReadTask, ClaimReadAttempts, ClaimFirst,
    Reclaim, TakeOver, ClaimRefused
<1>2. CASE FinalizeNext(p)
  BY <1>2 DEF FinalizeNext, SettleOutcome, FinReadAttempt, FinReadTask, FinCommit, FinDone,
    FinRefused, StopHeartbeat
<1>3. CASE CommandNext(p)
  BY <1>3 DEF CommandNext, StartCommand, CommandReadTask, CommandReadAttempt, CommandCommit,
    CommandRefused
<1>4. CASE HeartbeatCheck(p) \/ HeartbeatRefresh(p) \/ HeartbeatWrite(p) \/ Crash(p)
  BY <1>4 DEF HeartbeatCheck, HeartbeatRefresh, HeartbeatWrite, Crash
<1> QED
  BY <1>1, <1>2, <1>3, <1>4 DEF ThreadNext

LEMMA RestLeaves ==
  ASSUME TypeOK, NEW p \in Procs, Rest(p)
  PROVE  Leaves(p) /\ Executes(p)
BY DEF Rest, Leaves, Executes, Executing, CommandSteps, TypeOK

LEMMA ThreadTypes ==
  ASSUME TypeOK, NEW p \in Procs
  PROVE  /\ job[p] \in Jobs /\ job[p].task \in Tasks /\ job[p].no \in AttemptNos
         /\ job[p].count \in Nat /\ job[p].beat \in Nat
         /\ seen[p] \in Seen /\ out[p].outcome \in Outcomes
         /\ \A n \in AttemptNos : seen[p].attempts[n] \in Attempts
         /\ \A n \in AttemptNos : attempt[job[p].task][n] \in Attempts
         /\ \A n \in AttemptNos : lease[job[p].task][n] \in Leases
<1>1. job[p] \in Jobs /\ seen[p] \in Seen /\ out[p].outcome \in Outcomes
  BY DEF TypeOK
<1> QED
  BY <1>1 DEF TypeOK, Jobs, Seen

(* Deliveries and refreshes are the steps that give out a tick.            *)
LEMMA DeliverTick ==
  ASSUME TypeOK, NEW p \in Procs, DeliverMessage(p)
  PROVE  \E t \in Tasks, n \in AttemptNos : NewTick(p, t, n) /\ pc'[p] = "readTask"
<1> PICK t \in Tasks, n \in AttemptNos, c \in Nat : Deliver(p, t, n, c)
  <2> PICK t \in Tasks, n \in AttemptNos : \E c \in 1 .. lease[t][n].count + 1 : Deliver(p, t, n, c)
    BY DEF DeliverMessage
  <2>1. lease[t][n].count + 1 \in Nat
    BY DEF TypeOK, Leases
  <2> QED
    BY <2>1
<1>1. /\ attempt' = attempt /\ seen' = seen /\ hb' = hb
      /\ pc[p] = "idle" /\ pc' = [pc EXCEPT ![p] = "readTask"]
  BY DEF Deliver, GoTo, records
<1> DEFINE j == [task |-> t, no |-> n, count |-> c, beat |-> lease[t][n].beat + 1]
           r == [holder |-> {p}, count |-> IF c > lease[t][n].count THEN c ELSE lease[t][n].count,
                 beat |-> lease[t][n].beat + 1]
<1>2. job' = [job EXCEPT ![p] = j] /\ j.task = t /\ j.no = n /\ j.beat = lease[t][n].beat + 1
  BY DEF Deliver
<1>3. lease' = [lease EXCEPT ![t][n] = r] /\ r.beat = lease[t][n].beat + 1
  BY DEF Deliver
<1> HIDE DEF j, r
<1> QED
  BY <1>1, <1>2, <1>3 DEF NewTick, TypeOK

LEMMA RefreshTick ==
  ASSUME TypeOK, Resting, NEW p \in Procs, HeartbeatRefresh(p)
  PROVE  /\ \E t \in Tasks, n \in AttemptNos : NewTick(p, t, n)
         /\ pc' = pc
<1>0. /\ job[p].task \in Tasks /\ job[p].no \in AttemptNos /\ job[p] \in Jobs
      /\ lease[job[p].task][job[p].no] \in Leases
  BY ThreadTypes
<1> PICK t \in Tasks : t = job[p].task  BY <1>0
<1> PICK n \in AttemptNos : n = job[p].no  BY <1>0
<1>1. /\ attempt' = attempt /\ seen' = seen /\ pc' = pc
      /\ hb[p] = "refresh" /\ hb' = [hb EXCEPT ![p] = "write"]
  BY DEF HeartbeatRefresh, records
<1> DEFINE j == [job[p] EXCEPT !.beat = lease[t][n].beat + 1]
           r == [lease[t][n] EXCEPT !.holder = {p}, !.beat = lease[t][n].beat + 1]
<1>2. job' = [job EXCEPT ![p] = j]
  BY DEF HeartbeatRefresh
<1>3. j.task = t /\ j.no = n /\ j.beat = lease[t][n].beat + 1 /\ j.count = job[p].count
  BY <1>0 DEF Jobs
<1>4. lease' = [lease EXCEPT ![t][n] = r]
  BY DEF HeartbeatRefresh
<1>5. r.beat = lease[t][n].beat + 1
  BY <1>0 DEF Leases
<1>6. pc[p] # "idle"
  BY <1>1 DEF Resting
<1> HIDE DEF j, r
<1> QED
  BY SMTT(30), <1>1, <1>2, <1>3, <1>4, <1>5, <1>6 DEF NewTick, Holds, TypeOK

LEMMA CalmThread ==
  ASSUME TypeOK, Resting, NEW p \in Procs, ThreadNext(p), lease' = lease,
         Keeps(p) \/ Leaves(p), Executes(p),
         \A t \in Tasks, n \in AttemptNos : RowEffect(t, n)
  PROVE  Calm
<1>1. ASSUME NEW q \in Procs, q # p PROVE (Keeps(q) \/ Leaves(q)) /\ Executes(q)
  <2>1. pc'[q] = pc[q] /\ job'[q] = job[q] /\ seen'[q] = seen[q] /\ hb'[q] = hb[q]
    BY <1>1, OtherThread, OtherBeat
  <2>2. CASE pc[q] = "idle"
    BY <2>1, <2>2 DEF Resting, Leaves, Executes, Executing
  <2>3. CASE pc[q] # "idle"
    BY <2>1, <2>3 DEF Keeps, Executes, Executing
  <2> QED
    BY <2>2, <2>3
<1> QED
  BY <1>1 DEF Calm

(* The steps that write no attempt.                                        *)
LEMMA ReadsCalm ==
  ASSUME TypeOK, Resting, NEW p \in Procs, ThreadNext(p),
         \/ ClaimReadTask(p) \/ ClaimReadAttempts(p) \/ FinReadAttempt(p) \/ FinReadTask(p)
         \/ CommandReadTask(p) \/ CommandReadAttempt(p)
  PROVE  Calm
<1>0. seen[p] \in Seen /\ job[p].no \in AttemptNos
  BY ThreadTypes
<1>1. lease' = lease /\ attempt' = attempt /\ job' = job /\ hb' = hb
  BY DEF ClaimReadTask, ClaimReadAttempts, FinReadAttempt, FinReadTask, CommandReadTask,
    CommandReadAttempt, records
<1>2. /\ pc[p] # "idle" /\ pc'[p] # "idle"
      /\ pc'[p] \in ClaimSteps => pc[p] \in ClaimSteps
      /\ Executes(p)
  BY DEF ClaimReadTask, ClaimReadAttempts, FinReadAttempt, FinReadTask, CommandReadTask,
    CommandReadAttempt, GoTo, TypeOK, ClaimSteps, Executes, Executing, CommandSteps
<1>3. ASSUME NEW n \in AttemptNos
      PROVE  \/ seen'[p].attempts[n] = seen[p].attempts[n]
             \/ seen'[p].attempts[n] = attempt[job[p].task][n]
  <2>1. CASE ClaimReadTask(p) \/ FinReadTask(p) \/ CommandReadTask(p)
    <3>1. seen' = [seen EXCEPT ![p] = ReadTask(p, job[p].task)]
      BY <2>1 DEF ClaimReadTask, FinReadTask, CommandReadTask
    <3>2. ReadTask(p, job[p].task).attempts = seen[p].attempts
      BY <1>0 DEF ReadTask, Seen
    <3> QED
      BY <3>1, <3>2 DEF TypeOK
  <2>2. CASE ClaimReadAttempts(p)
    BY <1>0, <2>2 DEF ClaimReadAttempts, TypeOK, Seen
  <2>3. CASE FinReadAttempt(p) \/ CommandReadAttempt(p)
    <3> DEFINE s == [seen[p] EXCEPT !.attempts[job[p].no] = attempt[job[p].task][job[p].no]]
    <3>1. seen' = [seen EXCEPT ![p] = s]
      BY <2>3 DEF FinReadAttempt, CommandReadAttempt
    <3>2. s.attempts = [seen[p].attempts EXCEPT ![job[p].no] = attempt[job[p].task][job[p].no]]
      BY <1>0 DEF Seen
    <3>3. seen'[p].attempts = s.attempts
      BY <3>1 DEF TypeOK
    <3> HIDE DEF s
    <3>4. seen[p].attempts \in [AttemptNos -> Attempts]
      BY <1>0 DEF Seen
    <3> QED
      BY <1>0, <3>2, <3>3, <3>4
  <2> QED
    BY <2>1, <2>2, <2>3
<1>4. Keeps(p)
  BY <1>1, <1>2, <1>3 DEF Keeps
<1> QED
  BY <1>1, <1>2, <1>4, CalmThread DEF RowEffect

LEMMA TalksCalm ==
  ASSUME TypeOK, Resting, NEW p \in Procs, ThreadNext(p),
         \/ ClaimRefused(p) \/ SettleOutcome(p) \/ FinRefused(p) \/ StopHeartbeat(p)
         \/ StartCommand(p) \/ CommandCommit(p) \/ CommandRefused(p) \/ HeartbeatCheck(p) \/ Crash(p)
  PROVE  Calm
<1>1. lease' = lease /\ attempt' = attempt
  BY DEF ClaimRefused, SettleOutcome, FinRefused, StopHeartbeat, StartCommand, CommandCommit,
    CommandRefused, HeartbeatCheck, Crash, records
<1>2. CASE Rest(p)
  BY <1>1, <1>2, RestLeaves, CalmThread DEF RowEffect
<1>3. CASE ~Rest(p)
  <2>1. pc'[p] \notin {"idle"} \cup ClaimSteps
    BY <1>3 DEF ClaimRefused, SettleOutcome, FinRefused, StopHeartbeat, StartCommand, CommandCommit,
      CommandRefused, HeartbeatCheck, Crash, GoTo, Finalize, TypeOK, ClaimSteps, FinalSteps
  <2>2. pc[p] # "idle" /\ Executes(p)
    BY <1>3 DEF ClaimRefused, SettleOutcome, FinRefused, StopHeartbeat, StartCommand, CommandCommit,
      CommandRefused, HeartbeatCheck, Crash, GoTo, Finalize, TypeOK, FinalSteps, Executes, Executing,
      CommandSteps
  <2>3. job' = job /\ (hb'[p] = "write" => hb[p] = "write")
    BY <1>3 DEF ClaimRefused, SettleOutcome, FinRefused, StopHeartbeat, StartCommand, CommandCommit,
      CommandRefused, HeartbeatCheck, Crash, TypeOK
  <2>4. seen'[p] \in {seen[p], NoSeen}
    BY <1>3 DEF ClaimRefused, SettleOutcome, FinRefused, StopHeartbeat, StartCommand, CommandCommit,
      CommandRefused, HeartbeatCheck, Crash, TypeOK
  <2>5. Keeps(p)
    BY <2>1, <2>2, <2>3, <2>4 DEF Keeps, NoSeen, NoAttempts
  <2> QED
    BY <1>1, <2>2, <2>5, CalmThread DEF RowEffect
<1> QED
  BY <1>2, <1>3

(* The steps that write one.                                               *)
LEMMA OneRow ==
  ASSUME TypeOK, NEW t \in Tasks, NEW n \in AttemptNos, NEW r,
         attempt' = [attempt EXCEPT ![t][n] = r], RowEffect(t, n)
  PROVE  \A u \in Tasks, m \in AttemptNos : RowEffect(u, m)
<1> SUFFICES ASSUME NEW u \in Tasks, NEW m \in AttemptNos, u # t \/ m # n PROVE RowEffect(u, m)
  OBVIOUS
<1>1. attempt'[u][m] = attempt[u][m]
  BY DEF TypeOK
<1> QED
  BY <1>1 DEF RowEffect

LEMMA ClaimFirstCalm ==
  ASSUME TypeOK, Resting, NEW p \in Procs, ThreadNext(p), ClaimFirst(p)
  PROVE  Calm
<1>0. job[p].task \in Tasks /\ job[p].no \in AttemptNos
  BY ThreadTypes
<1> PICK t \in Tasks : t = job[p].task  BY <1>0
<1> PICK n \in AttemptNos : n = job[p].no  BY <1>0
<1> DEFINE r == [state |-> "running", worker |-> WorkerOf[p], count |-> job[p].count,
                 beat |-> job[p].beat]
<1>1. attempt' = [attempt EXCEPT ![t][n] = r]
  BY DEF ClaimFirst
<1>2. /\ lease' = lease /\ job' = job /\ hb' = hb /\ pc[p] = "claim" /\ pc'[p] = "execute"
      /\ seen'[p] = NoSeen /\ attempt[t][n].state = "none"
  BY DEF ClaimFirst, CanClaimFirst, GoTo, TypeOK, NoAttempt
<1>3. attempt'[t][n] = r
  BY <1>1 DEF TypeOK
<1>4. Takes(p)
  BY <1>2, <1>3 DEF Takes, Row
<1>5. Keeps(p) /\ Executes(p) /\ Holds(p, t, n)
  BY <1>2, <1>4 DEF Keeps, Executes, NoSeen, NoAttempts, ClaimSteps, Holds
<1>6. RowEffect(t, n)
  BY <1>4, <1>5 DEF RowEffect
<1> HIDE DEF r
<1> QED
  BY <1>1, <1>2, <1>5, <1>6, OneRow, CalmThread

LEMMA ReclaimCalm ==
  ASSUME TypeOK, Resting, NEW p \in Procs, ThreadNext(p), Reclaim(p)
  PROVE  Calm
<1>0. job[p].task \in Tasks /\ job[p].no \in AttemptNos
  BY ThreadTypes
<1> PICK t \in Tasks : t = job[p].task  BY <1>0
<1> PICK n \in AttemptNos : n = job[p].no  BY <1>0
<1> DEFINE s == seen[p].state
           over == s \in {"succeeded", "failed", "timed_out", "cancelled"}
           r == [state |-> IF over THEN s ELSE "running", worker |-> WorkerOf[p],
                 count |-> job[p].count, beat |-> job[p].beat]
           b == seen[p].attempts[n]
<1>1. attempt' = [attempt EXCEPT ![t][n] = r]
  BY DEF Reclaim, TakeOver
<1>2. /\ lease' = lease /\ pc[p] = "claim"
      /\ attempt[t][n].state = "running" /\ b.state = "running"
      /\ attempt[t][n].beat = b.beat /\ job[p].count > b.count
  BY DEF Reclaim, TakeOver, CanReclaim
<1>3. attempt'[t][n] = r
  BY <1>1 DEF TypeOK
<1>4. CASE over
  <2>1. Rest(p)
    BY <1>4 DEF Reclaim, TakeOver
  <2>2. RowEffect(t, n)
    BY <1>2, <1>3, <1>4 DEF RowEffect, Outcomes
  <2> HIDE DEF r
  <2> QED
    BY <1>1, <1>2, <2>1, <2>2, RestLeaves, OneRow, CalmThread
<1>5. CASE ~over
  <2>1. job' = job /\ hb' = hb /\ pc'[p] = "execute" /\ seen'[p] = NoSeen
    BY <1>5 DEF Reclaim, TakeOver, GoTo, TypeOK
  <2>2. Takes(p)
    BY <1>2, <1>3, <1>5, <2>1 DEF Takes, Row
  <2>3. Keeps(p) /\ Executes(p) /\ Holds(p, t, n)
    BY <1>2, <2>1, <2>2 DEF Keeps, Executes, NoSeen, NoAttempts, ClaimSteps, Holds
  <2>4. RowEffect(t, n)
    BY <2>2, <2>3 DEF RowEffect
  <2> HIDE DEF r
  <2> QED
    BY <1>1, <1>2, <2>3, <2>4, OneRow, CalmThread
<1> QED
  BY <1>4, <1>5

LEMMA FinCommitCalm ==
  ASSUME TypeOK, Resting, NEW p \in Procs, ThreadNext(p), FinCommit(p)
  PROVE  Calm
<1>0. /\ job[p].task \in Tasks /\ job[p].no \in AttemptNos /\ out[p].outcome \in Outcomes
      /\ seen[p].attempts[job[p].no] \in Attempts
  BY ThreadTypes
<1> PICK t \in Tasks : t = job[p].task  BY <1>0
<1> PICK n \in AttemptNos : n = job[p].no  BY <1>0
<1> DEFINE r == [seen[p].attempts[n] EXCEPT !.state = out[p].outcome]
<1>1. lease' = lease /\ pc[p] = "finCommit" /\ FinDone(p)
  BY DEF FinCommit
<1>2. (Keeps(p) \/ Leaves(p)) /\ Executes(p)
  <2>1. CASE Rest(p)
    BY <2>1, RestLeaves
  <2>2. CASE ~Rest(p)
    <3>1. pc'[p] = "stop" /\ seen'[p] = NoSeen /\ job' = job /\ hb' = hb
      BY <1>1, <2>2 DEF FinDone, GoTo, TypeOK
    <3> QED
      BY <1>1, <3>1 DEF Keeps, Executes, Executing, NoSeen, NoAttempts, ClaimSteps, CommandSteps
  <2> QED
    BY <2>1, <2>2
<1>3. CASE attempt' = attempt
  BY <1>1, <1>2, <1>3, CalmThread DEF RowEffect
<1>4. CASE CanFinish(p) /\ CloseAttempt(p)
  <2>1. attempt' = [attempt EXCEPT ![t][n] = r] /\ attempt[t][n].state = "running"
    BY <1>4 DEF CloseAttempt, CanFinish, AttemptUntouched
  <2>2. attempt'[t][n] = r
    BY <2>1 DEF TypeOK
  <2>3. r.state \in Outcomes
    BY <1>0 DEF Attempts
  <2>4. RowEffect(t, n)
    BY <2>1, <2>2, <2>3 DEF RowEffect
  <2> HIDE DEF r
  <2> QED
    BY <1>1, <1>2, <2>1, <2>4, OneRow, CalmThread
<1> QED
  BY <1>3, <1>4 DEF FinCommit, ClosesAttempt, ClosesBoth

LEMMA BeatCalm ==
  ASSUME TypeOK, Resting, NEW p \in Procs, ThreadNext(p), HeartbeatWrite(p)
  PROVE  Calm
<1>0. /\ job[p].task \in Tasks /\ job[p].no \in AttemptNos
      /\ attempt[job[p].task][job[p].no] \in Attempts
  BY ThreadTypes
<1> PICK t \in Tasks : t = job[p].task  BY <1>0
<1> PICK n \in AttemptNos : n = job[p].no  BY <1>0
<1> DEFINE r == [attempt[t][n] EXCEPT !.beat = job[p].beat]
<1>1. /\ lease' = lease /\ pc' = pc /\ job' = job /\ seen' = seen
      /\ hb[p] = "write" /\ hb'[p] = "rest" /\ pc[p] \notin {"idle"} \cup ClaimSteps
  BY DEF HeartbeatWrite, TypeOK, Resting
<1>2. Keeps(p) /\ Executes(p) /\ Holds(p, t, n)
  BY <1>1 DEF Keeps, Executes, Executing, Holds
<1>3. CASE attempt' = attempt
  BY <1>1, <1>2, <1>3, CalmThread DEF RowEffect
<1>4. CASE attempt' # attempt
  <2>1. attempt' = [attempt EXCEPT ![t][n] = r]
    BY <1>4 DEF HeartbeatWrite
  <2>2. attempt'[t][n] = r
    BY <2>1 DEF TypeOK
  <2>3. Beats(p)
    BY <1>1, <2>2 DEF Beats, Row
  <2>4. RowEffect(t, n)
    BY <1>2, <2>3 DEF RowEffect
  <2> HIDE DEF r
  <2> QED
    BY <1>1, <1>2, <2>1, <2>4, OneRow, CalmThread
<1> QED
  BY <1>3, <1>4

LEMMA CallCalm ==
  ASSUME TypeOK, Resting, CallOK, NEW c \in Callers, CallNext(c), \A t \in Tasks : RowOK(t)
  PROVE  Calm
<1>1. lease' = lease /\ pc' = pc /\ job' = job /\ seen' = seen /\ hb' = hb
  BY CallFrame DEF threads
<1>2. \A q \in Procs : (Keeps(q) \/ Leaves(q)) /\ Executes(q)
  BY <1>1 DEF Keeps, Leaves, Executes, Executing, Resting
<1>3. CASE attempt' = attempt
  BY <1>1, <1>2, <1>3 DEF Calm, RowEffect
<1>4. CASE attempt' # attempt
  <2>1. Cancel(c)
    BY <1>4 DEF CallNext, CancelReadTask, CancelReadAttempt, Terminate, TerminateReadTask,
      TerminateReadAgain, ResumeReadTask, Resume, CallRefused, records
  <2> DEFINE t == call[c].task
             n == call[c].seen.current
             r == [call[c].seen.attempts[n] EXCEPT !.state = "cancelled"]
  <2>2. /\ attempt' = [attempt EXCEPT ![t][n] = r] /\ t \in Tasks /\ call[c].seen \in Seen
        /\ state[t] = "running" /\ current[t] = n
    BY <1>4, <2>1 DEF Cancel, CanCancel, TaskUntouched, TypeOK
  <2>3. n \in AttemptNos /\ attempt[t][n].state = "running"
    BY <2>2 DEF RowOK
  <2>4. attempt'[t][n] = r
    BY <2>2, <2>3 DEF TypeOK
  <2>5. r.state = "cancelled"
    BY <2>2, <2>3 DEF Seen, Attempts
  <2>6. RowEffect(t, n)
    BY <2>3, <2>4, <2>5 DEF RowEffect, Outcomes
  <2>7. \A u \in Tasks, m \in AttemptNos : RowEffect(u, m)
    <3> HIDE DEF t, n, r
    <3> QED
      BY <2>2, <2>3, <2>6, OneRow
  <2> QED
    BY <1>1, <1>2, <2>7 DEF Calm
<1> QED
  BY <1>3, <1>4

(* A step gives out a tick or leaves them all alone.                       *)
LEMMA Moves ==
  ASSUME IInv, Resting, [Next]_vars
  PROVE  \/ Calm
         \/ \E p \in Procs, t \in Tasks, n \in AttemptNos : NewTick(p, t, n)
<1>0. TypeOK /\ CallOK /\ \A t \in Tasks : RowOK(t)
  BY DEF IInv
<1>1. ASSUME NEW p \in Procs, ThreadNext(p)
      PROVE  Calm \/ \E t \in Tasks, n \in AttemptNos : NewTick(p, t, n)
  <2>1. CASE DeliverMessage(p)
    BY <1>0, <2>1, DeliverTick
  <2>2. CASE HeartbeatRefresh(p)
    BY <1>0, <2>2, RefreshTick
  <2> QED
    BY <1>0, <1>1, <2>1, <2>2, ReadsCalm, TalksCalm, ClaimFirstCalm, ReclaimCalm, FinCommitCalm,
      BeatCalm DEF ThreadNext, ClaimNext, FinalizeNext, CommandNext
<1>2. ASSUME NEW c \in Callers, CallNext(c) PROVE Calm
  BY <1>0, <1>2, CallCalm
<1>3. CASE UNCHANGED vars
  BY <1>3 DEF vars, Calm, Keeps, Leaves, Executes, Executing, RowEffect, Resting
<1> QED
  BY <1>1, <1>2, <1>3 DEF Next

----------------------------------------------------------------------------
(* Ticks stay told apart.                                                  *)
LEMMA TickTypes ==
  ASSUME TypeOK
  PROVE  /\ \A p \in Procs : /\ job[p].task \in Tasks /\ job[p].no \in AttemptNos
                             /\ job[p].beat \in Nat /\ job[p].count \in Nat
                             /\ \A n \in AttemptNos : seen[p].attempts[n] \in Attempts
         /\ \A t \in Tasks, n \in AttemptNos : /\ attempt[t][n] \in Attempts
                                               /\ attempt[t][n].beat \in Nat
                                               /\ attempt[t][n].count \in Nat
                                               /\ lease[t][n].beat \in Nat
<1>1. \A t \in Tasks, n \in AttemptNos : attempt[t][n] \in Attempts /\ lease[t][n] \in Leases
  BY DEF TypeOK
<1> QED
  BY <1>1, ThreadTypes DEF Attempts, Leases

LEMMA TickStep ==
  ASSUME TypeOK, BeatInv, NEW p \in Procs, NEW t \in Tasks, NEW n \in AttemptNos, NewTick(p, t, n)
  PROVE  BeatInv'
<1> DEFINE b == lease[t][n].beat
<1>0. /\ b \in Nat /\ job'[p].beat = b + 1 /\ attempt' = attempt /\ lease'[t][n].beat = b + 1
      /\ job'[p].task = t /\ job'[p].no = n /\ pc'[p] # "idle" /\ seen'[p] = seen[p]
  BY TickTypes DEF NewTick
<1>1. ASSUME NEW u \in Tasks, NEW m \in AttemptNos
      PROVE  lease[u][m].beat \in Nat /\ lease[u][m].beat <= lease'[u][m].beat
             /\ lease'[u][m].beat \in Nat
  BY <1>0, TickTypes DEF NewTick
<1>2. ASSUME NEW q \in Procs, q # p
      PROVE  pc'[q] = pc[q] /\ job'[q] = job[q] /\ seen'[q] = seen[q] /\ hb'[q] = hb[q]
  BY <1>2 DEF NewTick
<1>3. TicksGiven'
  <2>1. \A u \in Tasks, m \in AttemptNos :
          attempt'[u][m].state = "running" => attempt'[u][m].beat <= lease'[u][m].beat
    BY <1>0, <1>1, TickTypes DEF BeatInv, TicksGiven
  <2>2. ASSUME NEW q \in Procs, pc'[q] # "idle"
        PROVE  job'[q].beat <= lease'[job'[q].task][job'[q].no].beat
    <3>1. CASE q = p
      BY <1>0, <3>1
    <3>2. CASE q # p
      <4>1. job[q].beat <= lease[job[q].task][job[q].no].beat
        BY <1>2, <2>2, <3>2 DEF BeatInv, TicksGiven
      <4> QED
        BY <1>1, <1>2, <3>2, <4>1, TickTypes
    <3> QED
      BY <3>1, <3>2
  <2>3. ASSUME NEW q \in Procs, q # p, Holds(q, t, n)' PROVE job'[q].beat # job'[p].beat
    <3>1. job[q].beat <= b
      BY <1>2, <2>3 DEF BeatInv, TicksGiven, Holds
    <3> QED
      BY <1>0, <1>2, <2>3, <3>1, TickTypes
  <2>4. ASSUME NEW q \in Procs, NEW r \in Procs, NEW u \in Tasks, NEW m \in AttemptNos,
               Holds(q, u, m)', Holds(r, u, m)', job'[q].beat = job'[r].beat
        PROVE  q = r
    <3>1. CASE q # p /\ r # p
      BY <1>2, <2>4, <3>1 DEF BeatInv, TicksGiven, Holds
    <3>2. CASE q = p \/ r = p
      BY <1>0, <2>3, <2>4, <3>2 DEF Holds
    <3> QED
      BY <3>1, <3>2
  <2> QED
    BY <2>1, <2>2, <2>4 DEF TicksGiven
<1>4. Resting'
  <2>1. ASSUME NEW q \in Procs
        PROVE  /\ pc'[q] = "idle" => seen'[q] = NoSeen
               /\ pc'[q] \in {"idle"} \cup ClaimSteps => hb'[q] = "rest"
    <3>1. CASE q = p
      BY <1>0, <3>1 DEF NewTick, BeatInv, Resting
    <3>2. CASE q # p
      BY <1>2, <3>2 DEF BeatInv, Resting
    <3> QED
      BY <3>1, <3>2
  <2> QED
    BY <2>1 DEF Resting
<1>5. WrittenOnce'
  <2>1. ASSUME NEW q \in Procs, Pending(q)', Row(q)'.state = "running"
        PROVE  Row(q)'.beat # job'[q].beat
    <3>1. CASE q = p
      <4>1. attempt[t][n].beat <= b /\ Row(q)' = attempt[t][n]
        BY <1>0, <2>1, <3>1 DEF Row, BeatInv, TicksGiven
      <4> QED
        BY <1>0, <3>1, <4>1, TickTypes
    <3>2. CASE q # p
      BY <1>0, <1>2, <2>1, <3>2 DEF Pending, Row, BeatInv, WrittenOnce
    <3> QED
      BY <3>1, <3>2
  <2> QED
    BY <2>1 DEF WrittenOnce
<1>6. ASSUME NEW q \in Procs PROVE ReadTicks(q)'
  <2>1. ASSUME NEW m \in AttemptNos, seen'[q].attempts[m].state = "running"
        PROVE  TickKept(seen[q].attempts[m], job[q].task, m)'
    <3>1. seen'[q] = seen[q] /\ job'[q].task = job[q].task
      <4>1. CASE q = p
        <5>1. pc[p] # "idle"
          BY <1>0, <2>1, <4>1 DEF BeatInv, Resting, NoSeen, NoAttempts, NoAttempt
        <5> QED
          BY <1>0, <4>1, <5>1 DEF NewTick, Holds
      <4> QED
        BY <1>2, <4>1
    <3> PICK a \in Attempts, u \in Tasks : a = seen[q].attempts[m] /\ u = job[q].task
      BY TickTypes
    <3>2. TickKept(a, u, m) /\ a.beat \in Nat /\ a.state = "running"
      BY <2>1, <3>1 DEF BeatInv, ReadTicks, Attempts
    <3>3. ASSUME NEW r \in Procs, Pending(r)', Holds(r, u, m)' PROVE job'[r].beat # a.beat
      <4>1. CASE r = p
        <5>1. u = t /\ m = n
          BY <1>0, <3>3, <4>1 DEF Holds
        <5> QED
          BY <1>0, <3>2, <4>1, <5>1 DEF TickKept
      <4>2. CASE r # p
        BY <1>2, <3>2, <3>3, <4>2 DEF Pending, Holds, TickKept
      <4> QED
        BY <4>1, <4>2
    <3>4. a.beat <= lease'[u][m].beat
      BY <1>1, <3>2 DEF TickKept
    <3>5. TickKept(a, u, m)'
      BY <1>0, <3>2, <3>3, <3>4 DEF TickKept
    <3> QED
      BY <3>1, <3>5
  <2> QED
    BY <2>1 DEF ReadTicks, TickKept
<1> QED
  BY <1>3, <1>4, <1>5, <1>6 DEF BeatInv

(* What a row may have become, and the tick it then has.                   *)
LEMMA RowTick ==
  ASSUME TypeOK, BeatInv, Calm, NEW t \in Tasks, NEW n \in AttemptNos,
         attempt'[t][n].state = "running"
  PROVE  \/ attempt'[t][n] = attempt[t][n]
         \/ \E p \in Procs : /\ Holds(p, t, n) /\ Pending(p) /\ ~Pending(p)'
                             /\ attempt'[t][n].beat = job[p].beat
<1>1. RowEffect(t, n) /\ attempt[t][n] \in Attempts
  BY TickTypes DEF Calm
<1>2. ASSUME NEW p \in Procs, Holds(p, t, n), Takes(p) \/ Beats(p)
      PROVE  Pending(p) /\ ~Pending(p)' /\ attempt'[t][n].beat = job[p].beat
  <2>1. CASE Takes(p)
    BY <1>2, <2>1 DEF Takes, Holds, Pending, ClaimSteps, BeatInv, Resting
  <2>2. CASE Beats(p)
    BY <1>1, <1>2, <2>2 DEF Beats, Holds, Row, Pending, BeatInv, Resting, Attempts
  <2> QED
    BY <1>2, <2>1, <2>2
<1> QED
  BY <1>1, <1>2 DEF RowEffect, Outcomes

LEMMA CalmStep ==
  ASSUME TypeOK, BeatInv, Calm PROVE BeatInv'
<1>0. lease' = lease /\ \A q \in Procs : Keeps(q) \/ Leaves(q)
  BY DEF Calm
<1>1. ASSUME NEW q \in Procs, pc'[q] # "idle"
      PROVE  /\ Keeps(q) /\ job'[q] = job[q] /\ pc[q] # "idle"
             /\ Pending(q)' => Pending(q)
  BY <1>0, <1>1 DEF Keeps, Leaves, Pending
<1>2. ASSUME NEW q \in Procs, Pending(q)' PROVE pc'[q] # "idle"
  BY <1>0, <1>2 DEF Leaves, Keeps, Pending, ClaimSteps
<1>3. TicksGiven'
  <2>1. ASSUME NEW t \in Tasks, NEW n \in AttemptNos, attempt'[t][n].state = "running"
        PROVE  attempt'[t][n].beat <= lease'[t][n].beat
    BY <1>0, <2>1, RowTick DEF BeatInv, TicksGiven, Holds
  <2>2. \A p \in Procs : pc'[p] # "idle" => job'[p].beat <= lease'[job'[p].task][job'[p].no].beat
    BY <1>0, <1>1 DEF BeatInv, TicksGiven
  <2>3. \A p, q \in Procs, t \in Tasks, n \in AttemptNos :
          Holds(p, t, n)' /\ Holds(q, t, n)' /\ job'[p].beat = job'[q].beat => p = q
    BY <1>1 DEF BeatInv, TicksGiven, Holds
  <2> QED
    BY <2>1, <2>2, <2>3 DEF TicksGiven
<1>4. Resting'
  <2>1. ASSUME NEW q \in Procs
        PROVE  /\ pc'[q] = "idle" => seen'[q] = NoSeen
               /\ pc'[q] \in {"idle"} \cup ClaimSteps => hb'[q] = "rest"
    <3>1. CASE Leaves(q)
      BY <3>1 DEF Leaves
    <3>2. CASE Keeps(q)
      BY <3>2 DEF Keeps, BeatInv, Resting
    <3> QED
      BY <1>0, <3>1, <3>2
  <2> QED
    BY <2>1 DEF Resting
<1>5. WrittenOnce'
  <2>1. ASSUME NEW q \in Procs, Pending(q)', Row(q)'.state = "running"
        PROVE  Row(q)'.beat # job'[q].beat
    <3> DEFINE t == job[q].task
               n == job[q].no
    <3>1. /\ job'[q] = job[q] /\ Pending(q) /\ Holds(q, t, n) /\ t \in Tasks /\ n \in AttemptNos
          /\ Row(q)' = attempt'[t][n]
      BY <1>1, <1>2, <2>1, TickTypes DEF Holds, Row
    <3>2. CASE attempt'[t][n] = attempt[t][n]
      BY <2>1, <3>1, <3>2 DEF BeatInv, WrittenOnce, Row
    <3>3. ASSUME NEW p \in Procs, Holds(p, t, n), ~Pending(p)', attempt'[t][n].beat = job[p].beat
          PROVE  Row(q)'.beat # job'[q].beat
      BY <2>1, <3>1, <3>3 DEF BeatInv, TicksGiven
    <3> QED
      BY <2>1, <3>1, <3>2, <3>3, RowTick
  <2> QED
    BY <2>1 DEF WrittenOnce
<1>6. ASSUME NEW q \in Procs PROVE ReadTicks(q)'
  <2>1. ASSUME NEW n \in AttemptNos, seen'[q].attempts[n].state = "running"
        PROVE  TickKept(seen[q].attempts[n], job[q].task, n)'
    <3>1. Keeps(q) /\ job'[q] = job[q]
      BY <1>0, <2>1 DEF Leaves, Keeps, NoSeen, NoAttempts, NoAttempt
    <3> PICK t \in Tasks : t = job[q].task
      BY TickTypes
    <3> DEFINE b == seen'[q].attempts[n]
    <3>2. b = seen[q].attempts[n] \/ (b = attempt[t][n] /\ attempt'[t][n] = attempt[t][n])
      BY <2>1, <3>1 DEF Keeps, NoAttempt
    <3> PICK a \in Attempts : a = b
      BY <3>2, TickTypes
    <3>3. \A p \in Procs : Pending(p)' /\ Holds(p, t, n)' =>
            Pending(p) /\ Holds(p, t, n) /\ job'[p] = job[p]
      BY <1>1, <1>2 DEF Holds
    <3>4. TickKept(a, t, n) /\ a.state = "running"
      <4>1. CASE a = seen[q].attempts[n]
        BY <2>1, <4>1 DEF BeatInv, ReadTicks
      <4>2. CASE a = attempt[t][n] /\ attempt'[t][n] = attempt[t][n]
        BY <2>1, <4>2 DEF BeatInv, TicksGiven, WrittenOnce, Row, Holds, TickKept
      <4> QED
        BY <3>2, <4>1, <4>2
    <3>5. ASSUME attempt'[t][n].state = "running", attempt'[t][n].beat = a.beat
          PROVE  attempt'[t][n] = a
      BY <3>4, <3>5, RowTick DEF TickKept
    <3>6. TickKept(a, t, n)'
      BY <1>0, <3>3, <3>4, <3>5 DEF TickKept
    <3> QED
      BY <3>1, <3>6
  <2> QED
    BY <2>1 DEF ReadTicks, TickKept
<1> QED
  BY <1>3, <1>4, <1>5, <1>6 DEF BeatInv

----------------------------------------------------------------------------
(* Whoever executes an attempt found a row to own; while the row runs, no  *)
(* executing thread has a later delivery than the recorded one.            *)
OwnedRow(q) ==
  Executing(q) =>
    /\ Row(q).state # "none"
    /\ Row(q).state = "running" => job[q].count <= Row(q).count

OwnInv == OneOwner /\ \A q \in Procs : OwnedRow(q)

(* A row that is taken over is the one that was read.                      *)
LEMMA TakesRead ==
  ASSUME TypeOK, BeatInv, NEW p \in Procs, Takes(p), Row(p).state # "none"
  PROVE  Row(p).state = "running" /\ job[p].count > Row(p).count
<1>1. TickKept(seen[p].attempts[job[p].no], job[p].task, job[p].no)
  BY TickTypes DEF BeatInv, ReadTicks
<1> QED
  BY <1>1 DEF Takes, TickKept, Row

LEMMA OwnTick ==
  ASSUME TypeOK, OwnInv, NEW p \in Procs, NEW t \in Tasks, NEW n \in AttemptNos, NewTick(p, t, n)
  PROVE  OwnInv'
<1>1. ASSUME NEW q \in Procs, Executing(q)'
      PROVE  /\ Executing(q) /\ job'[q].task = job[q].task /\ job'[q].no = job[q].no
             /\ job'[q].count = job[q].count /\ Row(q)' = Row(q)
  <2>1. CASE q = p
    BY <1>1, <2>1 DEF NewTick, Executing, CommandSteps, Holds, Row
  <2>2. CASE q # p
    BY <1>1, <2>2 DEF NewTick, Executing, Row
  <2> QED
    BY <2>1, <2>2
<1>2. \A q \in Procs : OwnedRow(q)'
  BY <1>1 DEF OwnInv, OwnedRow
<1>3. OneOwner'
  <2> SUFFICES ASSUME NEW q \in Procs, NEW r \in Procs, Executing(q)', Executing(r)',
                      job'[q].task = job'[r].task, job'[q].no = job'[r].no,
                      job'[q].count = job'[r].count
               PROVE  q = r
    BY DEF OneOwner
  <2> QED
    BY <1>1 DEF OwnInv, OneOwner
<1> QED
  BY <1>2, <1>3 DEF OwnInv

LEMMA OwnCalm ==
  ASSUME TypeOK, BeatInv, OwnInv, Calm PROVE OwnInv'
<1>1. ASSUME NEW q \in Procs, Executing(q)'
      PROVE  /\ job'[q] = job[q] /\ pc[q] # "idle"
             /\ Executing(q) \/ Takes(q)
  BY <1>1 DEF Calm, Executes, Keeps, Leaves, Executing, CommandSteps
<1>2. ASSUME NEW q \in Procs, NEW p \in Procs, Executing(q), Takes(p),
             job[p].task = job[q].task, job[p].no = job[q].no
      PROVE  job[q].count < job[p].count
  <2>1. Row(p) = Row(q) /\ Row(q).count \in Nat /\ job[q].count \in Nat /\ job[p].count \in Nat
    BY <1>2, TickTypes DEF Row
  <2>2. Row(p).state = "running" /\ job[p].count > Row(p).count
    BY <1>2, <2>1, TakesRead DEF OwnInv, OwnedRow
  <2> QED
    BY <1>2, <2>1, <2>2 DEF OwnInv, OwnedRow
<1>3. ASSUME NEW q \in Procs, Executing(q)'
      PROVE  /\ Row(q)'.state # "none"
             /\ Row(q)'.state = "running" => job'[q].count <= Row(q)'.count
  <2> PICK t \in Tasks, n \in AttemptNos : t = job[q].task /\ n = job[q].no
    BY TickTypes
  <2>0. job'[q] = job[q] /\ Row(q)' = attempt'[t][n] /\ Row(q) = attempt[t][n] /\ job[q].count \in Nat
    BY <1>1, <1>3, TickTypes DEF Row
  <2>1. CASE Takes(q)
    BY <2>0, <2>1 DEF Takes
  <2>2. CASE Executing(q)
    <3>0. /\ Row(q).state # "none" /\ Row(q) \in Attempts
          /\ Row(q).state = "running" => job[q].count <= Row(q).count
      BY <2>0, <2>2, TickTypes DEF OwnInv, OwnedRow
    <3>1. RowEffect(t, n)
      BY DEF Calm
    <3>2. CASE attempt'[t][n] = attempt[t][n]
      BY <2>0, <3>0, <3>2
    <3>3. CASE attempt'[t][n].state \in Outcomes
      BY <2>0, <3>3 DEF Outcomes
    <3>4. ASSUME NEW p \in Procs, Holds(p, t, n), Takes(p)
          PROVE  attempt'[t][n].state = "running" /\ job[q].count <= attempt'[t][n].count
      <4>1. attempt'[t][n].state = "running" /\ attempt'[t][n].count = job[p].count
        BY <3>4 DEF Takes, Holds
      <4>2. job[q].count < job[p].count /\ job[p].count \in Nat
        BY <1>2, <2>2, <3>4, TickTypes DEF Holds
      <4> QED
        BY <2>0, <4>1, <4>2
    <3>5. ASSUME NEW p \in Procs, Holds(p, t, n), Beats(p)
          PROVE  attempt'[t][n].state = attempt[t][n].state /\ attempt'[t][n].count = attempt[t][n].count
      BY <2>0, <3>0, <3>5 DEF Beats, Holds, Row, Attempts
    <3> QED
      BY <2>0, <3>0, <3>1, <3>2, <3>3, <3>4, <3>5 DEF RowEffect
  <2> QED
    BY <1>1, <1>3, <2>1, <2>2
<1>4. OneOwner'
  <2> SUFFICES ASSUME NEW q \in Procs, NEW r \in Procs, Executing(q)', Executing(r)',
                      job'[q].task = job'[r].task, job'[q].no = job'[r].no,
                      job'[q].count = job'[r].count
               PROVE  q = r
    BY DEF OneOwner
  <2>1. /\ job[q].task = job[r].task /\ job[q].no = job[r].no /\ job[q].count = job[r].count
        /\ pc[q] # "idle" /\ pc[r] # "idle" /\ job[q].count \in Nat
        /\ job[q].task \in Tasks /\ job[q].no \in AttemptNos
    BY <1>1, TickTypes
  <2>2. CASE Executing(q) /\ Executing(r)
    BY <2>1, <2>2 DEF OwnInv, OneOwner
  <2>3. CASE Takes(q) /\ Takes(r)
    <3>1. job[q].beat = job[r].beat
      BY <2>1, <2>3 DEF Takes
    <3> QED
      BY <2>1, <3>1 DEF BeatInv, TicksGiven, Holds
  <2>4. ~(Executing(q) /\ Takes(r)) /\ ~(Executing(r) /\ Takes(q))
    BY <1>2, <2>1
  <2> QED
    BY <1>1, <2>2, <2>3, <2>4
<1> QED
  BY <1>3, <1>4 DEF OwnInv, OwnedRow

----------------------------------------------------------------------------
(* How a settled task and its last attempt agree.  Besides what            *)
(* TerminalAgreement says of settled tasks: a task that was queued again   *)
(* left a paused or failed attempt behind.                                 *)
Agrees(t) ==
  LET a == attempt[t][current[t]].state IN
  current[t] \in AttemptNos =>
    /\ state[t] \in Outcomes =>
         \/ a = state[t]
         \/ state[t] = "cancelled" /\ a \in {"paused", "failed"}
         \/ a = "running" /\ (kind[t] \in CommandKinds \/ state[t] = "cancelled")
    /\ state[t] = "queued" => a \in {"paused", "failed"}

(* The task that was read: a final state stays, a failed command cannot be *)
(* resumed, and a pause leaves no attempt running at its number.           *)
SeenAgrees(p) ==
  LET t == job[p].task  s == seen[p] IN
  /\ s.current <= current[t]
  /\ s.state \in Immutable => state[t] = s.state
  /\ s.state = "failed" /\ kind[t] \in CommandKinds => state[t] = "failed"
  /\ s.state = "paused" /\ s.current = current[t] => NoneRunning(t)

AgreeInv == (\A t \in Tasks : Agrees(t)) /\ (\A p \in Procs : SeenAgrees(p))

(* The outcome a row is closed with is that of its task, or what a         *)
(* cancelled task had before.                                              *)
LEMMA ClosesAlike ==
  ASSUME IInv, AgreeInv, NEW p \in Procs, NEW t \in Tasks, NEW n \in AttemptNos,
         t = job[p].task, n = job[p].no, attempt[t][n].state = "running",
         state[t] \in Outcomes, seen[p].state \in Outcomes,
         seen[p].state = "paused" => seen[p].current = n
  PROVE  \/ seen[p].state = state[t]
         \/ state[t] = "cancelled" /\ seen[p].state \in {"paused", "failed"}
<1>1. n = current[t]
  BY OneOpen
<1>2. kind[t] \in CommandKinds \/ state[t] = "cancelled"
  BY <1>1 DEF AgreeInv, Agrees, Outcomes
<1>3. SeenAgrees(p)
  BY DEF AgreeInv
<1>4. seen[p].state # "paused"
  BY <1>1, <1>3 DEF SeenAgrees, NoneRunning
<1> QED
  BY <1>2, <1>3, <1>4 DEF SeenAgrees, Outcomes, Immutable

LEMMA SameAgrees ==
  ASSUME kind' = kind, NEW t \in Tasks, SameRow(t), Agrees(t)
  PROVE  Agrees(t)'
BY DEF SameRow, Agrees

LEMMA MovedAgrees ==
  ASSUME kind' = kind, NEW u \in Tasks, NEW s, NEW k, NEW h, NEW n, NEW a,
         MovesRow(u, s, k, h, n, a), Agrees(u)', NEW t \in Tasks, Agrees(t)
  PROVE  Agrees(t)'
BY SameAgrees DEF MovesRow

LEMMA AgreesStep == IInv /\ AgreeInv /\ [Next]_vars => \A t \in Tasks : Agrees(t)'
<1> SUFFICES ASSUME IInv, AgreeInv, [Next]_vars, NEW t \in Tasks PROVE Agrees(t)'
  OBVIOUS
<1> USE DEF IInv
<1>0. kind' = kind /\ Agrees(t)
  BY ThreadFrame, CallFrame DEF Next, vars, AgreeInv
<1>s. SameRow(t) => Agrees(t)'
  BY <1>0, SameAgrees
<1>c. \A u \in Tasks : current[u] \in Nat /\ RowOK(u) /\ Agrees(u)
  BY BoundsAssumption DEF TypeOK, AgreeInv
<1>1. ASSUME NEW p \in Procs, ClaimFirst(p) PROVE Agrees(t)'
  <2> PICK u \in Tasks, n \in AttemptNos : u = job[p].task /\ n = job[p].no
    BY ThreadTypes
  <2>1. MovesRow(u, "running", n, sent[u], n, "running")
    BY <1>1, ClaimFirstMoves
  <2>2. Agrees(u)'
    BY <2>1 DEF MovesRow, Agrees, Outcomes
  <2> QED
    BY <1>0, <2>1, <2>2, MovedAgrees
<1>2. ASSUME NEW p \in Procs, Reclaim(p) PROVE Agrees(t)'
  <2> PICK u \in Tasks, n \in AttemptNos : u = job[p].task /\ n = job[p].no
    BY ThreadTypes
  <2> DEFINE s == seen[p].state
             over == s \in {"succeeded", "failed", "timed_out", "cancelled"}
  <2>1. /\ attempt[u][n].state = "running"
        /\ MovesRow(u, state[u], current[u], sent[u], n, IF over THEN s ELSE "running")
    BY <1>2, ReclaimMoves
  <2>2. n = current[u] /\ state[u] # "queued"
    BY <2>1, OneOpen
  <2>3. CASE over
    <3>1. s \in Outcomes /\ s # "paused"
      BY <2>3 DEF Outcomes
    <3>2. state[u] \in Outcomes
      BY <1>2, <2>1, <3>1, SettledWhenSeen
    <3>3. \/ s = state[u]
          \/ state[u] = "cancelled" /\ s \in {"paused", "failed"}
      BY <2>1, <3>1, <3>2, ClosesAlike
    <3>4. Agrees(u)'
      BY <1>0, <2>1, <2>2, <2>3, <3>3 DEF MovesRow, Agrees
    <3> QED
      BY <1>0, <2>1, <3>4, MovedAgrees
  <2>4. CASE ~over
    <3>1. SameRow(t)
      BY <2>1, <2>4 DEF MovesRow, SameRow
    <3> QED
      BY <3>1, <1>s
  <2> QED
    BY <2>3, <2>4
<1>3. ASSUME NEW p \in Procs, FinCommit(p) PROVE Agrees(t)'
  <2> PICK u \in Tasks, n \in AttemptNos : u = job[p].task /\ n = job[p].no
    BY ThreadTypes
  <2> DEFINE o == out[p].outcome
  <2>0. o \in Outcomes
    BY ThreadTypes
  <2>1. CASE UNCHANGED <<state, current, sent, attempt>>
    BY <2>1, <1>s DEF SameRow
  <2>2. CASE ClosesAttempt(p) /\ MovesRow(u, state[u], current[u], sent[u], n, o)
    <3>1. /\ attempt[u][n].state = "running" /\ seen[p].state = o /\ seen[p].current = n
      BY <2>2 DEF ClosesAttempt, CanFinish, AttemptUntouched, SeenCurrent
    <3>2. state[u] \in Outcomes /\ n = current[u] /\ state[u] # "queued"
      BY <1>3, <2>0, <2>2, <3>1, SettledWhenSeen, OneOpen
    <3>3. \/ o = state[u]
          \/ state[u] = "cancelled" /\ o \in {"paused", "failed"}
      BY <2>0, <3>1, <3>2, ClosesAlike
    <3>4. Agrees(u)'
      BY <1>0, <2>2, <3>2, <3>3 DEF MovesRow, Agrees
    <3> QED
      BY <1>0, <2>2, <3>4, MovedAgrees
  <2>3. CASE ClosesBoth(p) /\ MovesRow(u, o, current[u], sent[u], n, o)
    <3>1. current[u] = n /\ o # "queued"
      BY <2>0, <2>3 DEF ClosesBoth, Outcomes
    <3>2. Agrees(u)'
      BY <1>0, <2>3, <3>1 DEF MovesRow, Agrees
    <3> QED
      BY <1>0, <2>3, <3>2, MovedAgrees
  <2> QED
    BY <1>3, <2>1, <2>2, <2>3, FinCommitMoves
<1>4. ASSUME NEW p \in Procs, CommandCommit(p) PROVE Agrees(t)'
  <2> PICK u \in Tasks : u = job[p].task
    BY ThreadTypes
  <2>1. kind[u] \in CommandKinds /\ out[p].outcome \in {"succeeded", "failed"}
    BY <1>4 DEF CommandOK, CommandSteps, CommandCommit
  <2>2. state[u] = "running" /\ MovesRow(u, out[p].outcome, current[u], sent[u], 0, "none")
    BY <1>4, CommandCommitMoves
  <2>3. Agrees(u)'
    BY <1>0, <1>c, <2>1, <2>2 DEF MovesRow, Agrees, RowOK, AttemptNos
  <2> QED
    BY <1>0, <2>2, <2>3, MovedAgrees
<1>5. ASSUME NEW c \in Callers, Cancel(c) PROVE Agrees(t)'
  <2> PICK u \in Tasks : u = call[c].task
    BY DEF TypeOK
  <2>1. \/ /\ state[u] = "running"
           /\ MovesRow(u, "cancelled", current[u], sent[u], current[u], "cancelled")
        \/ /\ state[u] \in {"queued", "paused"}
           /\ MovesRow(u, "cancelled", current[u], sent[u], 0, "none")
    BY <1>5, CancelMoves
  <2>2. Agrees(u)'
    <3>1. CASE state[u] = "running"
      BY <1>0, <2>1, <3>1 DEF MovesRow, Agrees
    <3>2. CASE state[u] \in {"queued", "paused"}
      BY SMTT(30), <1>0, <1>c, <2>1, <3>2 DEF MovesRow, Agrees, RowOK, NoneRunning, AttemptNos, Outcomes
    <3> QED
      BY <2>1, <3>1, <3>2
  <2> QED
    BY <1>0, <2>1, <2>2, MovedAgrees
<1>6. ASSUME NEW c \in Callers, Terminate(c) PROVE Agrees(t)'
  <2> PICK u \in Tasks : u = call[c].task
    BY DEF TypeOK
  <2>1. state[u] \notin Immutable /\ MovesRow(u, "cancelled", current[u], sent[u], 0, "none")
    BY <1>6, TerminateMoves
  <2>2. state[u] \in {"queued", "running", "paused", "failed"}
    BY <2>1 DEF TypeOK, TaskStates, Outcomes, Immutable
  <2>3. Agrees(u)'
    BY <1>0, <1>c, <2>1, <2>2 DEF MovesRow, Agrees, RowOK, AttemptNos, Outcomes
  <2> QED
    BY <1>0, <2>1, <2>3, MovedAgrees
<1>7. ASSUME NEW c \in Callers, Resume(c) PROVE Agrees(t)'
  <2> PICK u \in Tasks : u = call[c].task
    BY DEF TypeOK
  <2>1. /\ state[u] \in {"paused", "failed"} /\ kind[u] = "training"
        /\ MovesRow(u, "queued", current[u], current[u] + 1, 0, "none")
    BY <1>7, ResumeMoves
  <2>2. kind[u] \notin CommandKinds
    BY <2>1 DEF CommandKinds
  <2>3. NoneRunning(u)
    BY <1>c, <2>1, <2>2 DEF RowOK
  <2>4. Agrees(u)'
    BY <1>0, <1>c, <2>1, <2>3 DEF MovesRow, Agrees, NoneRunning, AttemptNos, Outcomes
  <2> QED
    BY <1>0, <2>1, <2>4, MovedAgrees
<1>8. CASE UNCHANGED vars
  BY <1>8, <1>s DEF vars, SameRow
<1> QED
  BY <1>s, <1>1, <1>2, <1>3, <1>4, <1>5, <1>6, <1>7, <1>8, QuietThread, QuietCall DEF Next

(* What a thread knows of its task afterwards.                             *)
SeesNothing(q) == seen'[q].state = "queued" /\ seen'[q].current = 0

SeesAsBefore(q) ==
  /\ job'[q].task = job[q].task
  /\ seen'[q].state = seen[q].state /\ seen'[q].current = seen[q].current

SeesNow(q) ==
  /\ job'[q].task = job[q].task /\ UNCHANGED records
  /\ seen'[q].state = state[job[q].task] /\ seen'[q].current = current[job[q].task]

LEMMA SeesMoves ==
  ASSUME TypeOK, Resting, [Next]_vars, NEW q \in Procs
  PROVE  SeesNothing(q) \/ SeesAsBefore(q) \/ SeesNow(q)
<1>0. job[q] \in Jobs /\ seen[q] \in Seen
  BY ThreadTypes
<1>1. CASE job'[q].task = job[q].task /\ seen'[q] = seen[q]
  BY <1>1 DEF SeesAsBefore
<1>2. CASE seen'[q] = NoSeen
  BY <1>2 DEF SeesNothing, NoSeen
<1>3. ASSUME ThreadNext(q), job'[q].task # job[q].task \/ seen'[q] # seen[q], seen'[q] # NoSeen
      PROVE  SeesAsBefore(q) \/ SeesNow(q)
  <2>1. CASE ClaimReadTask(q) \/ FinReadTask(q) \/ CommandReadTask(q)
    <3>1. /\ seen' = [seen EXCEPT ![q] = ReadTask(q, job[q].task)] /\ job' = job
          /\ UNCHANGED records
      BY <2>1 DEF ClaimReadTask, FinReadTask, CommandReadTask
    <3>2. /\ ReadTask(q, job[q].task).state = state[job[q].task]
          /\ ReadTask(q, job[q].task).current = current[job[q].task]
      BY <1>0 DEF ReadTask, Seen
    <3> QED
      BY <3>1, <3>2 DEF TypeOK, SeesNow
  <2>2. CASE ClaimReadAttempts(q)
    BY <1>0, <2>2 DEF ClaimReadAttempts, TypeOK, Seen, SeesAsBefore
  <2>3. CASE FinReadAttempt(q) \/ CommandReadAttempt(q)
    <3> DEFINE s == [seen[q] EXCEPT !.attempts[job[q].no] = attempt[job[q].task][job[q].no]]
    <3>1. seen' = [seen EXCEPT ![q] = s] /\ job' = job
      BY <2>3 DEF FinReadAttempt, CommandReadAttempt
    <3>2. s.state = seen[q].state /\ s.current = seen[q].current
      BY <1>0 DEF Seen
    <3> HIDE DEF s
    <3> QED
      BY <3>1, <3>2 DEF TypeOK, SeesAsBefore
  <2>4. CASE DeliverMessage(q)
    BY <1>3, <2>4, DeliverTick DEF NewTick, Resting, DeliverMessage, Deliver
  <2>5. CASE HeartbeatRefresh(q)
    BY <1>0, <1>3, <2>5 DEF HeartbeatRefresh, Jobs, TypeOK
  <2>6. CASE \/ ClaimFirst(q) \/ Reclaim(q) \/ ClaimRefused(q) \/ SettleOutcome(q) \/ FinCommit(q)
             \/ FinRefused(q) \/ StopHeartbeat(q) \/ StartCommand(q) \/ CommandCommit(q)
             \/ CommandRefused(q) \/ HeartbeatCheck(q) \/ HeartbeatWrite(q) \/ Crash(q)
    <3>1. seen'[q] = NoSeen \/ (seen' = seen /\ job' = job)
      BY <2>6 DEF ClaimFirst, Reclaim, TakeOver, ClaimRefused, SettleOutcome, FinCommit, FinDone,
        FinRefused, StopHeartbeat, StartCommand, CommandCommit, CommandRefused, HeartbeatCheck,
        HeartbeatWrite, Crash, Rest, TypeOK
    <3> QED
      BY <1>3, <3>1
  <2> QED
    BY <1>3, <2>1, <2>2, <2>3, <2>4, <2>5, <2>6 DEF ThreadNext, ClaimNext, FinalizeNext, CommandNext
<1>4. ASSUME NEW p \in Procs, ThreadNext(p), p # q
      PROVE  job'[q] = job[q] /\ seen'[q] = seen[q]
  BY <1>4, OtherThread
<1>5. ASSUME NEW c \in Callers, CallNext(c) PROVE job'[q] = job[q] /\ seen'[q] = seen[q]
  BY <1>5, CallFrame DEF threads
<1>6. CASE UNCHANGED vars
  BY <1>1, <1>6 DEF vars
<1> QED
  BY <1>1, <1>2, <1>3, <1>4, <1>5, <1>6 DEF Next

(* A pause stays, at the same number; so does a failed command.            *)
LEMMA RowsSettle ==
  ASSUME IInv, [Next]_vars, NEW t \in Tasks
  PROVE  /\ NoneRunning(t) /\ current'[t] = current[t] => NoneRunning(t)'
         /\ state[t] = "failed" /\ kind[t] \in CommandKinds => state'[t] = "failed"
<1> USE DEF IInv
<1>0. TypeOK /\ CallOK /\ (\A u \in Tasks : RowOK(u)) /\ current[t] \in Nat
  BY BoundsAssumption DEF TypeOK
<1> DEFINE Holding == /\ NoneRunning(t) /\ current'[t] = current[t] => NoneRunning(t)'
                      /\ state[t] = "failed" /\ kind[t] \in CommandKinds => state'[t] = "failed"
<1>s. SameRow(t) => Holding
  BY DEF SameRow, NoneRunning
<1>1. ASSUME NEW p \in Procs, ClaimFirst(p) PROVE Holding
  <2> PICK u \in Tasks, n \in AttemptNos : u = job[p].task /\ n = job[p].no
    BY ThreadTypes
  <2>1. /\ n = current[u] + 1 /\ state[u] = "queued"
        /\ MovesRow(u, "running", n, sent[u], n, "running")
    BY <1>1, ClaimFirstMoves
  <2> QED
    BY <1>0, <1>s, <2>1 DEF MovesRow
<1>2. ASSUME NEW p \in Procs, Reclaim(p) PROVE Holding
  <2> PICK u \in Tasks, n \in AttemptNos : u = job[p].task /\ n = job[p].no
    BY ThreadTypes
  <2>1. /\ attempt[u][n].state = "running"
        /\ \E a : MovesRow(u, state[u], current[u], sent[u], n, a)
    BY <1>2, ReclaimMoves
  <2> QED
    BY <1>s, <2>1 DEF MovesRow, NoneRunning
<1>3. ASSUME NEW p \in Procs, FinCommit(p) PROVE Holding
  <2> PICK u \in Tasks, n \in AttemptNos : u = job[p].task /\ n = job[p].no
    BY ThreadTypes
  <2>1. CASE UNCHANGED <<state, current, sent, attempt>>
    BY <2>1, <1>s DEF SameRow
  <2>2. CASE /\ attempt[u][n].state = "running"
             /\ \E s \in {state[u], out[p].outcome} :
                  /\ MovesRow(u, s, current[u], sent[u], n, out[p].outcome)
                  /\ s # state[u] => state[u] = "running"
    BY <1>s, <2>2 DEF MovesRow, NoneRunning
  <2> QED
    BY <1>3, <2>1, <2>2, FinCommitMoves DEF ClosesAttempt, ClosesBoth, CanFinish, AttemptUntouched
<1>4. ASSUME NEW p \in Procs, CommandCommit(p) PROVE Holding
  <2> PICK u \in Tasks : u = job[p].task
    BY ThreadTypes
  <2>1. state[u] = "running" /\ MovesRow(u, out[p].outcome, current[u], sent[u], 0, "none")
    BY <1>4, CommandCommitMoves
  <2> QED
    BY <1>s, <2>1, BoundsAssumption DEF MovesRow, NoneRunning, AttemptNos
<1>5. ASSUME NEW c \in Callers, Cancel(c) PROVE Holding
  <2> PICK u \in Tasks : u = call[c].task
    BY DEF TypeOK
  <2>1. /\ state[u] \in {"queued", "running", "paused"}
        /\ \E n, a : a # "running" /\ MovesRow(u, "cancelled", current[u], sent[u], n, a)
    BY <1>5, CancelMoves
  <2> QED
    BY <1>s, <2>1 DEF MovesRow, NoneRunning
<1>6. ASSUME NEW c \in Callers, Terminate(c) PROVE Holding
  <2> PICK u \in Tasks : u = call[c].task
    BY DEF TypeOK
  <2>1. kind[u] = "training" /\ MovesRow(u, "cancelled", current[u], sent[u], 0, "none")
    BY <1>6, TerminateMoves DEF CallOK, Terminate
  <2> QED
    BY <1>s, <2>1, BoundsAssumption DEF MovesRow, NoneRunning, AttemptNos, CommandKinds
<1>7. ASSUME NEW c \in Callers, Resume(c) PROVE Holding
  <2> PICK u \in Tasks : u = call[c].task
    BY DEF TypeOK
  <2>1. kind[u] = "training" /\ MovesRow(u, "queued", current[u], current[u] + 1, 0, "none")
    BY <1>7, ResumeMoves
  <2> QED
    BY <1>s, <2>1, BoundsAssumption DEF MovesRow, NoneRunning, AttemptNos, CommandKinds
<1>8. CASE UNCHANGED vars
  BY <1>8, <1>s DEF vars, SameRow
<1>9. Holding
  BY <1>s, <1>1, <1>2, <1>3, <1>4, <1>5, <1>6, <1>7, <1>8, QuietThread, QuietCall DEF Next
<1> QED
  BY <1>9

LEMMA SeenAgreesStep ==
  ASSUME IInv, Resting, AgreeInv, [Next]_vars, NEW q \in Procs
  PROVE  SeenAgrees(q)'
<1>0. TypeOK /\ kind' = kind
  BY ThreadFrame, CallFrame DEF Next, vars, IInv
<1>1. job[q].task \in Tasks /\ seen[q].current \in Nat
  BY <1>0, ThreadTypes DEF Seen
<1>2. TypeOK'
  BY TypeStep DEF IInv
<1>3. job'[q].task \in Tasks /\ current'[job'[q].task] \in Nat
  <2>1. job'[q] \in Jobs
    BY <1>2 DEF TypeOK
  <2>2. job'[q].task \in Tasks
    BY <2>1 DEF Jobs
  <2> QED
    BY <1>2, <2>2, BoundsAssumption DEF TypeOK
<1>4. CASE SeesNothing(q)
  BY <1>3, <1>4 DEF SeesNothing, SeenAgrees, Immutable
<1>5. CASE SeesAsBefore(q)
  <2> PICK t \in Tasks : t = job[q].task
    BY <1>1
  <2>1. RowForward(t) /\ SeenAgrees(q) /\ current[t] \in Nat /\ current'[t] \in Nat
    BY <1>0, <1>3, <1>5, RowsForward, BoundsAssumption DEF AgreeInv, TypeOK, SeesAsBefore
  <2>2. seen[q].current <= current'[t] /\ (seen[q].current = current'[t] => current'[t] = current[t])
    BY <1>1, <2>1 DEF SeenAgrees, RowForward
  <2>3. seen[q].state \in Immutable => state'[t] = seen[q].state
    BY <2>1, FinalTaskKept DEF SeenAgrees
  <2>4. seen[q].state = "failed" /\ kind[t] \in CommandKinds => state'[t] = "failed"
    BY <2>1, RowsSettle DEF SeenAgrees
  <2>5. seen[q].state = "paused" /\ seen[q].current = current'[t] => NoneRunning(t)'
    BY <2>1, <2>2, RowsSettle DEF SeenAgrees
  <2>6. job'[q].task = t /\ seen'[q].state = seen[q].state /\ seen'[q].current = seen[q].current
    BY <1>5 DEF SeesAsBefore
  <2> QED
    BY <1>0, <2>2, <2>3, <2>4, <2>5, <2>6 DEF SeenAgrees, NoneRunning
<1>6. CASE SeesNow(q)
  <2> PICK t \in Tasks : t = job[q].task
    BY <1>1
  <2>1. RowOK(t) /\ current[t] \in Nat
    BY <1>0, BoundsAssumption DEF IInv, TypeOK
  <2>2. /\ job'[q].task = t /\ seen'[q].state = state[t] /\ seen'[q].current = current[t]
        /\ state' = state /\ current' = current /\ attempt' = attempt
    BY <1>6 DEF SeesNow, records
  <2> QED
    BY <2>1, <2>2 DEF SeenAgrees, RowOK, NoneRunning
<1> QED
  BY <1>0, <1>4, <1>5, <1>6, SeesMoves

----------------------------------------------------------------------------
(* The invariant of this module.                                           *)
OInv == IInv /\ BeatInv /\ OwnInv /\ AgreeInv

LEMMA InitOInv == Init => OInv
<1> SUFFICES ASSUME Init PROVE OInv
  OBVIOUS
<1>1. IInv
  BY InitIInv
<1>2. /\ \A p \in Procs : pc[p] = "idle" /\ seen[p] = NoSeen /\ hb[p] = "rest"
      /\ \A t \in Tasks : state[t] = "queued" /\ current[t] = 0
      /\ \A p \in Procs : job[p].task \in Tasks
      /\ \A t \in Tasks, n \in AttemptNos : attempt[t][n].state = "none"
  BY DEF Init, NoAttempts, NoAttempt
<1> USE <1>2
<1>3. BeatInv
  <2>1. TicksGiven /\ Resting /\ WrittenOnce
    BY DEF TicksGiven, Resting, WrittenOnce, Holds, Pending, ClaimSteps
  <2>2. \A q \in Procs : ReadTicks(q)
    BY DEF ReadTicks, TickKept, NoSeen, NoAttempts, NoAttempt
  <2> QED
    BY <2>1, <2>2 DEF BeatInv
<1>4. OwnInv
  BY DEF OwnInv, OneOwner, OwnedRow, Executing, CommandSteps
<1>5. AgreeInv
  BY DEF AgreeInv, Agrees, SeenAgrees, AttemptNos, NoSeen, Immutable
<1> QED
  BY <1>1, <1>3, <1>4, <1>5 DEF OInv

(* Ticks, owners and settled tasks stay as said above, in every reachable  *)
(* state, whatever threads share a worker_id.                              *)
THEOREM OwnersInductive == Spec => []OInv
<1>1. OInv /\ [Next]_vars => OInv'
  <2> SUFFICES ASSUME OInv, [Next]_vars PROVE OInv'
    OBVIOUS
  <2> USE DEF OInv
  <2>1. IInv'
    BY IInvStep
  <2>2. TypeOK /\ Resting
    BY DEF IInv, BeatInv
  <2>3. BeatInv' /\ OwnInv'
    <3>1. CASE Calm
      BY <2>2, <3>1, CalmStep, OwnCalm
    <3>2. CASE \E p \in Procs, t \in Tasks, n \in AttemptNos : NewTick(p, t, n)
      BY <2>2, <3>2, TickStep, OwnTick
    <3> QED
      BY <2>2, <3>1, <3>2, Moves
  <2>4. AgreeInv'
    BY <2>2, AgreesStep, SeenAgreesStep DEF AgreeInv
  <2> QED
    BY <2>1, <2>3, <2>4
<1> QED
  BY InitOInv, <1>1, PTL DEF Spec

(* Of the threads that execute an attempt at most one has the delivery its *)
(* row names, however often it was taken over.                             *)
THEOREM OwnersAreOne == Spec => []OneOwner
<1>1. OInv => OneOwner
  BY DEF OInv, OwnInv
<1> QED
  BY <1>1, OwnersInductive, PTL

(* A closed attempt agrees with its settled task; a running one is left    *)
(* only to the ack of a dataset job and under a cancellation.              *)
THEOREM SettledTogether == Spec => []TerminalAgreement
<1>1. OInv => TerminalAgreement
  BY DEF OInv, AgreeInv, Agrees, TerminalAgreement
<1> QED
  BY <1>1, OwnersInductive, PTL

(* The finalizer compares the row that was read with its own delivery, and *)
(* the row there is with the one that was read by worker_id and tick.      *)
LEMMA FinisherOwns ==
  ASSUME TypeOK, BeatInv, [Next]_vars, NEW p \in Procs,
         pc[p] = "finCommit", pc'[p] # "finCommit", attempt' # attempt
  PROVE  Row(p).worker = WorkerOf[p] /\ Row(p).count = job[p].count
<1>1. ThreadNext(p)
  BY OtherThread, CallFrame DEF Next, vars, threads
<1>2. FinCommit(p)
  <2>1. ~ClaimNext(p) /\ ~CommandNext(p)
    BY DEF ClaimNext, DeliverMessage, Deliver, ClaimReadTask, ClaimReadAttempts, ClaimFirst,
      Reclaim, TakeOver, ClaimRefused, CommandNext, StartCommand, CommandReadTask,
      CommandReadAttempt, CommandCommit, CommandRefused
  <2>2. ~HeartbeatCheck(p) /\ ~HeartbeatRefresh(p) /\ ~HeartbeatWrite(p) /\ ~Crash(p)
    BY DEF HeartbeatCheck, HeartbeatRefresh, HeartbeatWrite, Crash, records
  <2>3. FinalizeNext(p) => FinCommit(p)
    BY DEF FinalizeNext, SettleOutcome, FinReadAttempt, FinReadTask, FinRefused, StopHeartbeat,
      records
  <2> QED
    BY <1>1, <2>1, <2>2, <2>3 DEF ThreadNext
<1>3. CanFinish(p)
  BY <1>2 DEF FinCommit, ClosesAttempt, ClosesBoth
<1>4. TickKept(seen[p].attempts[job[p].no], job[p].task, job[p].no)
  BY TickTypes DEF BeatInv, ReadTicks
<1>5. Row(p) = seen[p].attempts[job[p].no]
  BY <1>3, <1>4 DEF CanFinish, AttemptUntouched, TickKept, Row
<1> QED
  BY <1>3, <1>5 DEF CanFinish, OwnsLease

(* Only the thread that the row names closes an attempt with its outcome.  *)
THEOREM OwnersFinalize == Spec => FinalizedByOwner
<1>1. OInv /\ [Next]_vars =>
        [\A p \in Procs :
           LET a == attempt[job[p].task][job[p].no] IN
           pc[p] = "finCommit" /\ pc'[p] # "finCommit" /\ attempt' # attempt =>
             a.worker = WorkerOf[p] /\ a.count = job[p].count]_vars
  BY FinisherOwns DEF OInv, IInv, Row
<1> QED
  BY <1>1, OwnersInductive, PTL DEF Spec, FinalizedByOwner
=============================================================================
