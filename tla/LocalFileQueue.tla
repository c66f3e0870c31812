--------------------------- MODULE LocalFileQueue ---------------------------
(***************************************************************************)
(* The file queue behind every background task.  A message is one JSON     *)
(* file that moves between the directories pending, leased, completed and  *)
(* failed of its queue; a rename is atomic, and a rewrite is a rename of a *)
(* temporary file, so each file operation is a step of its own.            *)
(*                                                                         *)
(* A backend object belongs to one process; its _claim_lock is held by     *)
(* claim_next and recover_expired_leases alone.  enqueue, refresh_lease,   *)
(* complete and fail take no lock: they look at the file and then write.   *)
(* Any file operation may fail and leave the files as they are.            *)
(*                                                                         *)
(* Time is a tick per lease of a message: stamp is leased_at (0: none) and *)
(* the leases up to tick expired[m] have timed out.                        *)
(***************************************************************************)
EXTENDS Naturals

CONSTANTS
  Messages,     \* deterministic message ids of one queue
  Threads,      \* threads that consume the queue
  Backends,     \* LocalFileQueueBackend objects, one per process
  BackendOf,    \* the backend of a thread
  Nobody,       \* owner of a free lock; no message
  NoFile,       \* the directory does not hold the message
  Apart,        \* which calls on one message do not overlap (see MayRecover)
  MaxStamp,     \* bound: leases and refreshes of a message
  MaxSends      \* bound: enqueues of a message, retries included

ASSUME BackendOfAssumption == BackendOf \in [Threads -> Backends]
ASSUME NobodyAssumption == Nobody \notin Threads \cup Messages
ASSUME ApartAssumption == Apart \subseteq {"holders", "claims", "sender"}
ASSUME MaxAssumption == MaxStamp \in Nat \ {0} /\ MaxSends \in Nat \ {0}

VARIABLES
  file,      \* file[m][d]: the document of message m in directory d, or NoFile
  clock,     \* clock[m]: the last leased_at given to message m
  expired,   \* expired[m]: the leases up to this tick have timed out
  given,     \* given[m]: the highest attempt_count handed out (history)
  lock,      \* lock[b]: the thread that holds _claim_lock of backend b
  pc,        \* pc[p]: next step of thread p
  todo,      \* todo[p]: the files of the glob that p has not visited
  at,        \* at[p]: the message p is working on, or Nobody
  view,      \* view[p]: the document p read, or the QueueMessage it holds
  sender,    \* the outbox dispatcher: its message and the next step of enqueue
  sends      \* sends[m]: enqueues of m so far

works == <<lock, pc, todo, at, view>>
vars == <<file, clock, expired, given, lock, pc, todo, at, view, sender, sends>>

Dirs == {"pending", "leased", "completed", "failed"}
Docs == [count: Nat, stamp: Nat, recovered: BOOLEAN]
Fresh == [count |-> 0, stamp |-> 0, recovered |-> FALSE]

ASSUME NoFileAssumption == NoFile \notin Docs

In(d) == {m \in Messages : file[m][d] # NoFile}
Put(m, d, doc) == file' = [file EXCEPT ![m][d] = doc]
Move(m, d, e) == file' = [file EXCEPT ![m] = [@ EXCEPT ![d] = NoFile, ![e] = file[m][d]]]

Resting == [msg |-> Nobody, step |-> "rest"]

RecoverSteps == {"recover", "recExists", "recUnlink", "recMove", "recWrite"}
ClaimSteps == {"claim", "claimRead", "claimBack", "claimWrite"}
HoldSteps == {"hold", "refWrite", "finWrite", "finMove"}
Steps == {"idle", "poll"} \cup RecoverSteps \cup ClaimSteps \cup HoldSteps

Init ==
  /\ file = [m \in Messages |-> [d \in Dirs |-> NoFile]]
  /\ clock = [m \in Messages |-> 0]
  /\ expired = [m \in Messages |-> 0]
  /\ given = [m \in Messages |-> 0]
  /\ lock = [b \in Backends |-> Nobody]
  /\ pc = [p \in Threads |-> "idle"]
  /\ todo = [p \in Threads |-> {}]
  /\ at = [p \in Threads |-> Nobody]
  /\ view = [p \in Threads |-> Fresh]
  /\ sender = Resting
  /\ sends = [m \in Messages |-> 0]

GoTo(p, s) == pc' = [pc EXCEPT ![p] = s]
Expired(m, doc) == doc.stamp <= expired[m]

(***************************************************************************)
(* The operations without a lock, and what they may overlap on the same    *)
(* message. In Apart: "holders", the check and write of a holder overlap   *)
(* no recovery; "claims", they overlap no claim; "sender", an enqueue      *)
(* overlaps nothing that moves the message back to pending, which is a     *)
(* recovery or a claim that cannot read the file it took.                  *)
(***************************************************************************)
Recovering(m) == \E p \in Threads : pc[p] \in RecoverSteps \ {"recover"} /\ at[p] = m
Claiming(m) == \E p \in Threads : pc[p] \in ClaimSteps \ {"claim"} /\ at[p] = m
RollingBack(m) == \E p \in Threads : pc[p] = "claimBack" /\ at[p] = m
Writing(m) == \E p \in Threads : pc[p] \in HoldSteps \ {"hold"} /\ at[p] = m
Sending(m) == sender.msg = m

MayRollBack(m) == "sender" \in Apart => ~Sending(m)
MayRecover(m) == ("holders" \in Apart => ~Writing(m)) /\ MayRollBack(m)

MayCheck(m) ==
  /\ "holders" \in Apart => ~Recovering(m)
  /\ "claims" \in Apart => ~Claiming(m)

(***************************************************************************)
(* enqueue with a deterministic id: get_task looks in one directory after  *)
(* the other, and only if the message is in none of them it is written to  *)
(* pending, over whatever is there by then.                                *)
(***************************************************************************)
EnqueueStart(m) ==
  /\ sender.step = "rest"
  /\ sends[m] < MaxSends
  /\ "sender" \in Apart => ~Recovering(m) /\ ~RollingBack(m)
  /\ sender' = [msg |-> m, step |-> "pending"]
  /\ sends' = [sends EXCEPT ![m] = @ + 1]
  /\ UNCHANGED <<file, clock, expired, given, works>>

(* A variant that must fail: the directories are searched backwards.       *)
LooksBackwards(d) ==
  CASE d = "pending" -> "failed" [] d = "failed" -> "completed"
    [] d = "completed" -> "leased" [] d = "leased" -> "write"

NextLook(d) ==
  CASE d = "pending" -> "leased" [] d = "leased" -> "completed"
    [] d = "completed" -> "failed" [] d = "failed" -> "write"

EnqueueLook ==
  LET d == sender.step IN
  /\ d \in Dirs
  /\ sender' = IF file[sender.msg][d] = NoFile
                 THEN [sender EXCEPT !.step = NextLook(d)]
                 ELSE Resting
  /\ UNCHANGED <<file, clock, expired, given, works, sends>>

EnqueueWrite ==
  /\ sender.step = "write"
  /\ Put(sender.msg, "pending", Fresh)
  /\ sender' = Resting
  /\ UNCHANGED <<clock, expired, given, works, sends>>

(* The dispatcher's read or write fails, or its process dies; the outbox   *)
(* sends the message again.                                                *)
SenderCrash ==
  /\ sender.step # "rest"
  /\ sender' = Resting
  /\ UNCHANGED <<file, clock, expired, given, works, sends>>

(***************************************************************************)
(* _claim_lock of the backend of thread p.                                 *)
(***************************************************************************)
(* A variant that must fail: the lock is not waited for.                   *)
NoLock(p) == lock' = [lock EXCEPT ![BackendOf[p]] = p]

Acquire(p) ==
  LET b == BackendOf[p] IN lock[b] = Nobody /\ lock' = [lock EXCEPT ![b] = p]

Release(p) == lock' = [lock EXCEPT ![BackendOf[p]] = Nobody]

(* p is back in its polling loop: the call returned, raised or was given up. *)
Rest(p) ==
  /\ GoTo(p, "idle")
  /\ todo' = [todo EXCEPT ![p] = {}]
  /\ at' = [at EXCEPT ![p] = Nobody]
  /\ view' = [view EXCEPT ![p] = Fresh]

Return(p) == Rest(p) /\ Release(p) /\ UNCHANGED file

(***************************************************************************)
(* recover_expired_leases, which claim_next calls first.                   *)
(***************************************************************************)
RecoverStart(p) ==
  /\ pc[p] = "idle"
  /\ Acquire(p)
  /\ todo' = [todo EXCEPT ![p] = In("leased")]
  /\ GoTo(p, "recover")
  /\ UNCHANGED <<file, at, view>>

Pass(p, m) == todo' = [todo EXCEPT ![p] = @ \ {m}]
Visit(p, m) == at' = [at EXCEPT ![p] = m] /\ Pass(p, m)

(* A vanished file and a lease in force are passed over; a file that was    *)
(* claimed but not stamped is passed over within its grace period.          *)
RecoverSkip(p) ==
  \E m \in todo[p] :
    /\ pc[p] = "recover"
    /\ LET doc == file[m]["leased"] IN
         doc # NoFile => ~Expired(m, doc) \/ doc.stamp = 0
    /\ Pass(p, m)
    /\ UNCHANGED <<file, lock, pc, at, view>>

RecoverRead(p) ==
  \E m \in todo[p] :
    /\ pc[p] = "recover"
    /\ file[m]["leased"] # NoFile /\ Expired(m, file[m]["leased"])
    /\ MayRecover(m)
    /\ Visit(p, m)
    /\ view' = [view EXCEPT ![p] = file[m]["leased"]]
    /\ GoTo(p, "recExists")
    /\ UNCHANGED <<file, lock>>

RecoverExists(p) ==
  /\ pc[p] = "recExists"
  /\ GoTo(p, IF file[at[p]]["pending"] # NoFile THEN "recUnlink" ELSE "recMove")
  /\ UNCHANGED <<file, lock, todo, at, view>>

RecoverUnlink(p) ==
  /\ pc[p] = "recUnlink"
  /\ Put(at[p], "leased", NoFile)
  /\ GoTo(p, "recover")
  /\ UNCHANGED <<lock, todo, at, view>>

(* A variant that must fail: the lease is dropped first, its message is    *)
(* put back after.                                                         *)
DropsLease(p) ==
  /\ pc[p] = "recMove"
  /\ Put(at[p], "leased", NoFile) /\ GoTo(p, "recWrite")
  /\ UNCHANGED <<lock, todo, at, view>>

RecoverMove(p) ==
  /\ pc[p] = "recMove" /\ file[at[p]]["leased"] # NoFile
  /\ Move(at[p], "leased", "pending")
  /\ GoTo(p, "recWrite")
  /\ UNCHANGED <<lock, todo, at, view>>

(* Variants that must fail: the recovery starts the count again; it counts *)
(* as an attempt.                                                          *)
ForgetsCount(doc) == [count |-> 0, stamp |-> 0, recovered |-> TRUE]
CountsRecovery(doc) == [count |-> doc.count + 1, stamp |-> 0, recovered |-> TRUE]

RecoveredTask(doc) == [count |-> doc.count, stamp |-> 0, recovered |-> TRUE]

RecoverWrite(p) ==
  /\ pc[p] = "recWrite"
  /\ Put(at[p], "pending", RecoveredTask(view[p]))
  /\ GoTo(p, "recover")
  /\ UNCHANGED <<lock, todo, at, view>>

RecoverEnd(p) ==
  /\ pc[p] = "recover" /\ todo[p] = {}
  /\ Release(p)
  /\ GoTo(p, "poll")
  /\ at' = [at EXCEPT ![p] = Nobody]
  /\ view' = [view EXCEPT ![p] = Fresh]
  /\ UNCHANGED <<file, todo>>

(***************************************************************************)
(* claim_next after the recovery: the rename takes the message, then the   *)
(* lease is written over the document that was renamed.  A file that is    *)
(* gone, or in use on Windows, is passed over.                             *)
(***************************************************************************)
ClaimStart(p) ==
  /\ pc[p] = "poll"
  /\ Acquire(p)
  /\ todo' = [todo EXCEPT ![p] = {m \in In("pending") : clock[m] < MaxStamp}]
  /\ GoTo(p, "claim")
  /\ UNCHANGED <<file, at, view>>

ClaimMove(p) ==
  \E m \in todo[p] :
    /\ pc[p] = "claim"
    /\ \/ /\ file[m]["pending"] # NoFile
          /\ Visit(p, m)
          /\ Move(m, "pending", "leased")
          /\ GoTo(p, "claimRead")
       \/ Pass(p, m) /\ UNCHANGED <<file, pc, at>>
    /\ UNCHANGED <<lock, view>>

(* A variant that must fail: the document is not missed.                   *)
ReadsNothing(p) ==
  /\ pc[p] = "claimRead"
  /\ view' = [view EXCEPT ![p] = file[at[p]]["leased"]]
  /\ GoTo(p, "claimWrite")
  /\ UNCHANGED <<file, lock, todo, at>>

ClaimRead(p) ==
  /\ pc[p] = "claimRead" /\ file[at[p]]["leased"] # NoFile
  /\ view' = [view EXCEPT ![p] = file[at[p]]["leased"]]
  /\ GoTo(p, "claimWrite")
  /\ UNCHANGED <<file, lock, todo, at>>

(* The read fails, whether the file is there or not: the claim is rolled   *)
(* back, which may fail as well, and then raises.                          *)
ClaimReadFails(p) ==
  /\ pc[p] = "claimRead"
  /\ MayRollBack(at[p])
  /\ GoTo(p, "claimBack")
  /\ UNCHANGED <<file, lock, todo, at, view>>

ClaimRollBack(p) ==
  /\ pc[p] = "claimBack"
  /\ \/ file[at[p]]["leased"] # NoFile /\ Move(at[p], "leased", "pending")
     \/ UNCHANGED file
  /\ Rest(p) /\ Release(p)

(* p writes view[p] with the next leased_at.                               *)
Stamp(p, doc) ==
  LET m == at[p]  new == [doc EXCEPT !.stamp = clock[m] + 1] IN
  /\ clock[m] < MaxStamp
  /\ clock' = [clock EXCEPT ![m] = @ + 1]
  /\ view' = [view EXCEPT ![p] = new]
  /\ Put(m, "leased", new)

ClaimWrite(p) ==
  LET c == view[p].count + 1 IN
  /\ pc[p] = "claimWrite"
  /\ Stamp(p, [view[p] EXCEPT !.count = c])
  /\ given' = [given EXCEPT ![at[p]] = IF c > @ THEN c ELSE @]
  /\ todo' = [todo EXCEPT ![p] = {}]
  /\ Release(p)
  /\ GoTo(p, "hold")
  /\ UNCHANGED <<expired, at, sender, sends>>

ClaimEnd(p) ==
  /\ pc[p] = "claim" /\ todo[p] = {}
  /\ Return(p)

(* A file operation under the lock fails and raises out of claim_next, at  *)
(* recMove because the file is gone, for example.                          *)
Raise(p) ==
  /\ pc[p] \in (RecoverSteps \cup ClaimSteps) \ {"claimRead", "claimBack"}
  /\ Return(p)

(***************************************************************************)
(* The holder of a lease refreshes it, completes or fails the message, or  *)
(* gives it up (defer_recovery).                                           *)
(***************************************************************************)
(* A variant that must fail: any leased file of the message will do.       *)
HasFile(p) == file[at[p]]["leased"] # NoFile

(* _assert_current_lease; the stamp stands for worker_id, leased_at and    *)
(* attempt_count, which a lease writes together.                           *)
IsCurrent(p) ==
  LET doc == file[at[p]]["leased"] IN
  doc # NoFile /\ doc.stamp = view[p].stamp /\ doc.count = view[p].count

Check(p) ==
  /\ pc[p] = "hold"
  /\ IF IsCurrent(p)
       THEN /\ MayCheck(at[p])
            /\ \/ GoTo(p, "finWrite")
               \/ clock[at[p]] < MaxStamp /\ GoTo(p, "refWrite")
            /\ UNCHANGED <<todo, at, view>>
       ELSE Rest(p)
  /\ UNCHANGED <<file, lock>>

RefreshWrite(p) ==
  /\ pc[p] = "refWrite"
  /\ Stamp(p, view[p])
  /\ GoTo(p, "hold")
  /\ UNCHANGED <<expired, given, lock, todo, at, sender, sends>>

FinishWrite(p) ==
  /\ pc[p] = "finWrite"
  /\ Put(at[p], "leased", view[p])
  /\ GoTo(p, "finMove")
  /\ UNCHANGED <<lock, todo, at, view>>

(* complete and fail differ in the target directory alone.                 *)
FinishMove(p) ==
  /\ pc[p] = "finMove" /\ file[at[p]]["leased"] # NoFile
  /\ \E d \in {"completed", "failed"} : Move(at[p], "leased", d)
  /\ Rest(p)
  /\ UNCHANGED lock

(* A write or the rename fails; the caller has its QueueMessage still and  *)
(* may call again, or give up.                                             *)
HolderFails(p) ==
  /\ pc[p] \in HoldSteps \ {"hold"}
  /\ GoTo(p, "hold")
  /\ UNCHANGED <<file, lock, todo, at, view>>

GiveUp(p) ==
  /\ pc[p] = "hold"
  /\ Rest(p)
  /\ UNCHANGED <<file, lock>>

(* The process of backend b dies between two file operations.              *)
Crash(b) ==
  LET dead == {p \in Threads : BackendOf[p] = b} IN
  /\ \E p \in dead : pc[p] # "idle"
  /\ lock' = [lock EXCEPT ![b] = Nobody]
  /\ pc' = [p \in Threads |-> IF p \in dead THEN "idle" ELSE pc[p]]
  /\ todo' = [p \in Threads |-> IF p \in dead THEN {} ELSE todo[p]]
  /\ at' = [p \in Threads |-> IF p \in dead THEN Nobody ELSE at[p]]
  /\ view' = [p \in Threads |-> IF p \in dead THEN Fresh ELSE view[p]]
  /\ UNCHANGED <<file, clock, expired, given, sender, sends>>

(* The next lease of m times out, whether its holder still runs or not.    *)
Expire(m) ==
  /\ expired[m] < clock[m]
  /\ expired' = [expired EXCEPT ![m] = @ + 1]
  /\ UNCHANGED <<file, clock, given, works, sender, sends>>

Recover(p) ==
  \/ RecoverStart(p) \/ RecoverSkip(p) \/ RecoverRead(p) \/ RecoverExists(p)
  \/ RecoverUnlink(p) \/ RecoverMove(p) \/ RecoverWrite(p) \/ RecoverEnd(p)

Claim(p) ==
  \/ ClaimStart(p) \/ ClaimMove(p) \/ ClaimRead(p) \/ ClaimReadFails(p) \/ ClaimRollBack(p)
  \/ ClaimEnd(p) \/ Raise(p)

Finish(p) == Check(p) \/ FinishWrite(p) \/ FinishMove(p) \/ HolderFails(p) \/ GiveUp(p)

ThreadNext(p) ==
  \/ /\ Recover(p) \/ Claim(p) \/ Finish(p)
     /\ UNCHANGED <<clock, expired, given, sender, sends>>
  \/ ClaimWrite(p) \/ RefreshWrite(p)

Next ==
  \/ \E p \in Threads : ThreadNext(p)
  \/ \E b \in Backends : Crash(b)
  \/ \E m \in Messages : EnqueueStart(m) \/ Expire(m)
  \/ EnqueueLook \/ EnqueueWrite \/ SenderCrash

Spec == Init /\ [][Next]_vars

----------------------------------------------------------------------------
(* Type correctness of every variable.                                     *)
TypeOK ==
  /\ file \in [Messages -> [Dirs -> Docs \cup {NoFile}]]
  /\ clock \in [Messages -> Nat] /\ expired \in [Messages -> Nat]
  /\ given \in [Messages -> Nat]
  /\ lock \in [Backends -> Threads \cup {Nobody}]
  /\ pc \in [Threads -> Steps]
  /\ todo \in [Threads -> SUBSET Messages]
  /\ at \in [Threads -> Messages \cup {Nobody}]
  /\ view \in [Threads -> Docs]
  /\ sender \in [msg: Messages \cup {Nobody}, step: Dirs \cup {"rest", "write"}]
  /\ sends \in [Messages -> 0 .. MaxSends]

(* A message that was stored in some directory stays stored, whatever      *)
(* step of recovery, claim or completion a crash or a stall cuts short.    *)
NothingLost ==
  [][\A m \in Messages :
       (\E d \in Dirs : file[m][d] # NoFile) => \E d \in Dirs : file'[m][d] # NoFile]_vars

(* The four directories never hold a message twice, if its holder and its  *)
(* sender do not overlap the calls that Apart names: claims, completions,  *)
(* failures and crashes may fall anywhere between the steps of an enqueue, *)
(* and a repeated one finds the message all the same.                      *)
OneCopy ==
  \A m \in Messages, d, e \in Dirs :
    file[m][d] # NoFile /\ file[m][e] # NoFile => d = e

(* Under the same condition a lease in force stands as its holder wrote    *)
(* it: no recovery, claim or enqueue takes the message away, so there are  *)
(* never two live holders.                                                 *)
LiveLeaseStands ==
  \A p \in Threads :
    pc[p] \in HoldSteps /\ ~Expired(at[p], view[p]) => file[at[p]]["leased"] = view[p]

(* Under the same condition a refresh, a completion or a failure writes to *)
(* the lease it belongs to, never over that of a later claim.              *)
FinishedByHolder ==
  [][\A p \in Threads :
       pc[p] \in HoldSteps /\ pc'[p] # pc[p] /\ file' # file =>
         file[at[p]]["leased"] = view[p]]_vars

(* Under the same condition every delivery has the attempt_count after the *)
(* highest before it, through recoveries, rolled-back claims and crashes:  *)
(* the fence of TaskAttempt relies on it.                                  *)
DeliveredInOrder ==
  [][\A p \in Threads :
       pc[p] = "claimWrite" /\ pc'[p] = "hold" => view'[p].count = given[at[p]] + 1]_vars

(* No document claims more deliveries than took place, even when stalled   *)
(* threads write old documents back: attempt_count grows by one at most.   *)
CountsWithinReach ==
  \A m \in Messages, d \in Dirs : file[m][d] # NoFile => file[m][d].count <= given[m]

(* The task execution document lets the new owner of a recovered lease     *)
(* continue the attempt, which the claim decides by lease_recovery_count.  *)
RedeliveryIsMarked ==
  \A p \in Threads : pc[p] \in HoldSteps /\ view[p].count > 1 => view[p].recovered
=============================================================================
