--------------------------- MODULE TrainingControl ---------------------------
(***************************************************************************)
(* Pause, save and terminate requests of a training.  They are flags of    *)
(* one dictionary, metadata["training_control"] of the task row, which the *)
(* requests of the API and the callbacks of the executing worker both read *)
(* and later write back whole.  The UPDATE compares the state and the      *)
(* attempt of the task, after the fence of a worker, and never the flags.  *)
(* What a claim, a finalizer or a resume does to the other columns is in   *)
(* TaskExecution; here each of them is one step.                           *)
(***************************************************************************)
EXTENDS Naturals

CONSTANTS
    Executors,      \* worker threads; a former owner may still be running
    Calls,          \* requests of the API
    MaxAttempts,    \* bound: attempts of the task
    MaxDeliveries,  \* bound: deliveries of the message of one attempt
    MaxEpochs       \* max_epochs of the training

VARIABLES
    task,   \* the row: state, current attempt, requested flags, resume_pending
    owner,  \* the delivery that holds the current attempt
    run,    \* the execution of each thread
    call    \* the request in progress of each caller

vars == <<task, owner, run, call>>

Flags == {"save", "pause", "terminate"}
Idle  == [pc |-> "idle", no |-> 0, delivery |-> 0, epoch |-> 0, seen |-> {}]
Quiet == [pc |-> "idle", kind |-> "save", no |-> 0, seen |-> {}]

Init == /\ task  = [state |-> "queued", no |-> 0, flags |-> {}, resume |-> FALSE]
        /\ owner = 0
        /\ run   = [e \in Executors |-> Idle]
        /\ call  = [c \in Calls |-> Quiet]

(***************************************************************************)
(* The worker.  A write of a thread that lost the lease is refused, and    *)
(* the thread gives up.                                                    *)
(***************************************************************************)
Owns(e) == /\ task.state = "running"
           /\ run[e].no = task.no
           /\ run[e].delivery = owner

GoTo(e, pc) == run' = [run EXCEPT ![e].pc = pc]

Begins(e, n, d) == run' = [run EXCEPT ![e] = [Idle EXCEPT !.pc = "begin",
                                                         !.no = n, !.delivery = d]]

Claim(e) == /\ run[e].pc = "idle"
            /\ task.state = "queued"
            /\ task.no < MaxAttempts
            /\ task'  = [task EXCEPT !.state = "running", !.no = @ + 1]
            /\ owner' = 1
            /\ Begins(e, task.no + 1, 1)
            /\ UNCHANGED call

Recover(e) == /\ run[e].pc = "idle"
              /\ task.state = "running"
              /\ owner < MaxDeliveries
              /\ owner' = owner + 1
              /\ Begins(e, task.no, owner + 1)
              /\ UNCHANGED <<task, call>>

\* Every write of the flags starts from an earlier read of the row.
ReadFlags(e, from, to) == /\ run[e].pc = from
                          /\ run' = [run EXCEPT ![e].pc = to, ![e].seen = task.flags]
                          /\ UNCHANGED <<task, owner, call>>

WriteFlags(e, flags) == /\ Owns(e)
                        /\ task' = [task EXCEPT !.flags = flags]
                        /\ UNCHANGED <<owner, call>>

\* The started event clears all requests and resume_pending.
Start(e) == \/ ReadFlags(e, "begin", "starting")
            \/ /\ run[e].pc = "starting"
               /\ Owns(e)
               /\ task' = [task EXCEPT !.flags = {}, !.resume = FALSE]
               /\ GoTo(e, "batch")
               /\ UNCHANGED <<owner, call>>

Decision(flags) == CASE "terminate" \in flags -> "terminate"
                     [] "pause" \in flags     -> "pause"
                     [] "save" \in flags      -> "save"
                     [] OTHER                 -> "batch"

\* The probe at the safe point of a batch.
Observe(e) == /\ run[e].pc = "batch"
              /\ task.flags # {}
              /\ GoTo(e, Decision(task.flags))
              /\ UNCHANGED <<task, owner, call>>

\* The end of an epoch: metric files, progress with the flags, a forced probe.
EndEpoch(e) == \/ run[e].epoch < MaxEpochs /\ ReadFlags(e, "batch", "epoch")
               \/ run[e].pc = "epoch" /\ WriteFlags(e, run[e].seen) /\ GoTo(e, "boundary")
               \/ /\ run[e].pc = "boundary"
                  /\ run' = [run EXCEPT ![e].pc = Decision(task.flags), ![e].epoch = @ + 1]
                  /\ UNCHANGED <<task, owner, call>>

\* The savepoint of a save, pause or terminate: checkpoint files, then the flags.
AfterSave(pc) == CASE pc = "saving save"  -> "batch"
                   [] pc = "saving pause" -> "paused"
                   [] OTHER               -> "cancelled"

SavePoint(e) == \/ ReadFlags(e, "save", "saving save")
                \/ ReadFlags(e, "pause", "saving pause")
                \/ ReadFlags(e, "terminate", "saving terminate")
                \/ /\ run[e].pc \in {"saving save", "saving pause", "saving terminate"}
                   /\ WriteFlags(e, run[e].seen \ {"save"})
                   /\ GoTo(e, AfterSave(run[e].pc))

\* The finalizer; only a pause clears the flags with it.
Settle(e, outcome) == /\ Owns(e)
                      /\ task' = [task EXCEPT !.state = outcome,
                                     !.flags = IF outcome = "paused" THEN {} ELSE @]
                      /\ run'  = [run EXCEPT ![e] = Idle]
                      /\ UNCHANGED <<owner, call>>

Finish(e) == \/ run[e].pc \in {"paused", "cancelled"} /\ Settle(e, run[e].pc)
             \/ run[e].pc = "batch" /\ run[e].epoch = MaxEpochs /\ Settle(e, "succeeded")
             \/ run[e].pc # "idle" /\ Settle(e, "failed")

\* The process ends, or a write of a former owner is refused.
Stop(e) == /\ run[e].pc # "idle"
           /\ run' = [run EXCEPT ![e] = Idle]
           /\ UNCHANGED <<task, owner, call>>

(***************************************************************************)
(* The API.                                                                *)
(***************************************************************************)
Ask(c, kind) == /\ call[c].pc = "idle"
                /\ task.state = "running"
                /\ kind \notin task.flags
                /\ call' = [call EXCEPT ![c] = [pc |-> "asked", kind |-> kind,
                                                no |-> task.no, seen |-> task.flags]]
                /\ UNCHANGED <<task, owner, run>>

Requested(kind, seen) == CASE kind = "save"  -> (seen \ {"pause", "terminate"}) \cup {"save"}
                           [] kind = "pause" -> (seen \ {"terminate"}) \cup {"save", "pause"}
                           [] OTHER          -> {"terminate"}

Register(c) == /\ call[c].pc = "asked"
               /\ call' = [call EXCEPT ![c] = Quiet]
               /\ task' = IF task.state = "running" /\ task.no = call[c].no
                          THEN [task EXCEPT !.flags = Requested(call[c].kind, call[c].seen)]
                          ELSE task
               /\ UNCHANGED <<owner, run>>

Cancel == /\ task.state \in {"queued", "paused"}
          /\ task' = [task EXCEPT !.state = "cancelled", !.flags = {}, !.resume = FALSE]
          /\ UNCHANGED <<owner, run, call>>

Resume == /\ task.state \in {"paused", "failed"}
          /\ task' = [task EXCEPT !.state = "queued", !.flags = {}, !.resume = TRUE]
          /\ UNCHANGED <<owner, run, call>>

Worker(e) == \/ Claim(e) \/ Recover(e) \/ Start(e) \/ Observe(e) \/ EndEpoch(e)
             \/ SavePoint(e) \/ Finish(e) \/ Stop(e)

Caller(c) == Register(c) \/ \E kind \in Flags : Ask(c, kind)

Next == \/ \E e \in Executors : Worker(e)
        \/ \E c \in Calls : Caller(c)
        \/ Cancel \/ Resume

Spec == Init /\ [][Next]_vars

(***************************************************************************)
(* What the documents say.                                                 *)
(***************************************************************************)
\* A pause or terminate request that is registered when a recovered delivery begins,
\* and that this execution has read, is not taken back by the execution while the task
\* is running.  (TrainingControlProbe: after a recovery the probe is rebuilt from the
\* persisted request, so a pause request is not lost.)
RequestSurvivesRecovery ==
    [][\A e \in Executors : \A r \in {"pause", "terminate"} :
           /\ run[e].delivery > 1 /\ run'[e] # run[e]
           /\ r \in run[e].seen /\ r \in task.flags
           /\ task'.state = "running"
           => r \in task'.flags]_vars

==============================================================================
