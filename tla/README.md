# TLA+ specifications of amvision's background execution

amvision is a platform for machine vision: a FastAPI service, background workers, model
processes, workflows, and shared-memory transports between them. These modules specify the
parts of it that keep persistent work correct while threads race, leases time out and
processes die. They are written from the code under `src/backend`; line numbers are in
`PROJECT.json` under `map`.

## 1. Inventory

| Component | State | Operations | What is hard | What makes it correct |
|---|---|---|---|---|
| Task service and task repository (`application/tasks/task_service.py`, `persistence/task_repository.py`) | `task_records`, `task_attempts`, events in SQLite | claim, reclaim, finalize, heartbeat, fenced state command, cancel, terminate, resume, progress, publication | every SELECT is a point in time of its own; only UPDATE ... WHERE fences; former owners keep running | final states stay, attempts in order, one owner, task and attempt agree |
| Claiming queue backend and training lease heartbeat (`workers/task_execution_claim.py`, `workers/training/training_lease_heartbeat.py`) | the held message, its fence | turn a delivery into a claim, refresh file then row, finalize then ack | the heartbeat runs beside the execution, the ack repeats the finalizer | late acks change nothing |
| Local file queue (`infrastructure/queue/local_file.py`) | one JSON file per message in pending, leased, completed, failed | enqueue, claim, recover, refresh, complete, fail, clean up | several file operations per call, a lock in some calls only, crashes in between | nothing lost, one copy, live lease stands, attempt_count grows |
| Queue outbox (`application/tasks/queue_outbox.py`, `persistence/queue_outbox_repository.py`) | `queue_outbox` rows with a batch lease | dispatch, mark, release with back-off | enqueue and mark are two steps; two dispatchers | every message is sent, once as far as the queue can tell |
| Conversion publication (`application/conversions/publication.py`) | reservation, staged files, result | reserve, publish, register, abort, reconcile | file system and database cannot commit together | published exactly when registered, cancellation loses to a reservation |
| Training control (`yolo_detection_training_service.py` and siblings) | flags in the task metadata | pause, save, terminate, progress | both sides merge the same metadata | a request is honoured or refused |
| Worker manager, supervisor, profile lock (`workers/`) | processes, restart budget, lock file | start, poll, restart, stop | one failing consumer ends the process | work resumes, one process per profile |
| Local buffers (`application/local_buffers`, `infrastructure/local_buffers`) | arenas, extents, leases, generations | allocate, publish, borrow, release, reclaim | owners die with references out | no block twice, none lost, no stale read |
| Local message IPC (`infrastructure/ipc/local_message`) | mailbox descriptors, event ring, response pages | claim, call, respond, ack, sweep | shared memory, deadlines, slot reuse, owners that restart over live clients | a response reaches its request or nobody, slots and pages come back |
| Deployment runtime, inference daemon (`application/runtime/deployment`, `inference_daemon`) | model processes and their health | start, warm up, infer, restart, stop | events of a former process | state follows the current process |
| Workflow runtime (`application/workflows`) | runs, workers, previews, sessions | submit, run, cancel, recover | workers and timers | each run ends once |
| Process supervision, event bus, integrations, API, storage, models and nodes, frontend | see `PROJECT.json` | | | |

How they interact. An API request stores a task and, in the same transaction, an outbox row.
The dispatcher of the API process enqueues it as a file. Consumer threads of a worker process
poll: they recover expired leases, claim a file, and turn that delivery into a claim of the
task's attempt in the database. While the task runs the lease in the file and the heartbeat in
the row are refreshed in that order. At the end the task and attempt rows are settled, and the
file is moved to completed or failed after the same finalizer ran a second time as the
acknowledgement. Everything that was interrupted comes back through an expired lease.

The full list of components, and of what is left out and why, is in `PROJECT.json`
(`components`); the places where the code is hard to test are under `hazards`.

## 2. Modules

| Module | Role |
|---|---|
| `TaskLifecycle` | Abstract specification: a task, its current attempt, which attempts are open and which were announced. No workers, no leases, no reads. |
| `TaskExecution` | The execution protocol of the task service and its workers, read by read and transaction by transaction. Implements `TaskLifecycle`. |
| `TaskExecution_proofs` | Its inductive invariant, the theorems that follow, the refinement of `TaskLifecycle`. |
| `TaskExecutionOwners_proofs` | On top of it: deliveries and owners, and the agreement of task and attempt. |
| `LocalFileQueue` | The file queue, file operation by file operation. |
| `LocalFileQueue_proofs` | Proofs of its safety properties, with and without overlapping operations. |
| `QueueOutbox` | The outbox table and its dispatchers, with time as an order; liveness. |
| `QueueOutbox_proofs` | Its inductive invariant and the proofs of its safety properties. |
| `Publication` | Abstract specification: what publishing converted files promises. |
| `ConversionPublication` | How one conversion attempt publishes: helper, descriptor, reservation, rename, registration, recovery, reconciler. Implements `Publication`. |
| `ConversionPublication_proofs` | Proofs of its safety properties and of that refinement. |
| `TrainingControl` | Save, pause and terminate requests of a training against the writes of its worker. |
| `LocalMessageMailbox` | The shared-memory mailbox: clients, the owner, its sweep, its restart; liveness. |
| `LocalMessageMailbox_proofs` | Proofs of its safety properties. |
| `BuddyAllocator` | The allocator of the image arena as operators on a value. |
| `BuddyAllocator_proofs` | What those operators compute, for every geometry: the tree of free blocks that the extents in use determine. |
| `BufferArena` | Descriptors, guards and views of the image arena and the broker that owns it, over `BuddyAllocator`; liveness. |
| `BufferArena_proofs` | Its inductive invariant, over guards, descriptors and tree, and the proofs of its safety properties. |
| `MC...` | Constants and symmetry for TLC. |

### TaskExecution

Variables. `state`, `current` and `attempt` are the columns of the task row and its attempt
rows; `sent` is the highest attempt with an outbox message; `lease[t][n]` is what the queue
knows of the message of attempt n. Each thread has a program counter, the message it holds
(`job`), the rows it read (`seen`), the outcome it reports (`out`) and its heartbeat (`hb`).
Each API request is a `call` with the rows it read.

Atomicity. SQLite runs in WAL mode and the Python driver begins a transaction at the first
write, so a service method's SELECTs each see whatever is committed at that moment; they are
separate actions (`ClaimReadTask`, `ClaimReadAttempts`, `FinReadAttempt`, `FinReadTask`,
`CommandReadTask`, `CommandReadAttempt`, `CancelReadTask`, ...). From the first UPDATE to the
commit there is one writer, so the writes of a method are one action, whose guard holds both
what the method checks on the rows it read and what the WHERE clauses check on the rows there are.

| Action | Code |
|---|---|
| `Deliver` | `TaskAttemptClaimingQueueBackend.claim_next` gets a message. Its count is any of 1 to one above the highest before; `CountsWithinReach` of the queue module is why no higher one occurs. |
| `ClaimFirst`, `Reclaim`, `ClaimRefused` | `claim_task_execution`, `_try_reclaim_recovered_attempt`. A refused claim is acknowledged, whatever its reason, without a change of the records. |
| `HeartbeatCheck`, `HeartbeatRefresh`, `HeartbeatWrite` | `refresh_lease` of the file, then of the row. For training in a thread of its own, which also runs while the outcome is being settled and is joined by `StopHeartbeat`. |
| `SettleOutcome`, `Fin...` | `finalize_task_execution_attempt`, for the outcome (no heartbeat fence) and again from the ack (with it). |
| `StartCommand`, `Command...` | `execute_task_state_command` with a fence: how dataset jobs settle their task. |
| `Cancel...`, `Terminate...`, `Resume...` | `cancel_task`, `request_training_terminate` through `execute_task_state_event_command`, `resume_training_task` through `resume_task_with_outbox`. |
| `Crash` | The worker process ends, or a thread gives up after losing its lease. |

What is abstract: the business result, error texts and event rows; the wall clock
(`leased_at`/`heartbeat_at` are the ticks of the message they belong to, equal ticks being equal
timestamps); the queue, of which only what reaches the records is kept. A message that was
redelivered without the mark of a recovery is refused by the claim and changes no record.

### LocalFileQueue

A document is `[count, stamp, recovered]`: `attempt_count`, the tick of `leased_at` (0 when it
is not set) and whether `lease_recovery_count` is positive. `file[m]` says which directory holds
which document of message m. A rename and a rewrite (temporary file, then rename) are one step
each; so is an existence test, a read, and each entry of the directory scan. `Acquire` and
`Release` are the `_claim_lock` of a backend object, which spans a whole recovery and a whole
claim loop and is taken by nothing else. `Expire` lets any lease time out, whether or not its
holder is alive; the grace period for a claimed but not yet stamped file is a free choice between
skipping it and recovering it. `Crash(b)` ends all threads of a process between any two steps.

A claim takes the file by a rename (`ClaimMove`), reads it (`ClaimRead`) and writes its lease (`ClaimWrite`).
When the read fails (`ClaimReadFails`: the file is gone, in use or torn), the file is renamed back to pending
and the call raises (`ClaimRollBack`). Any other file operation under the lock may fail as well and raises out
of the recovery or the claim with the files as they are (`Raise`); a holder whose write or rename fails has
its message still and may try again (`HolderFails`).

`Apart` names which calls on one message do not overlap, and is what a reader should keep in mind with the
properties that depend on it. `"holders"`: no recovery falls into the check-then-write of refresh, complete
and fail. `"claims"`: no claim does, from its rename to the write of its lease. `"sender"`: nothing moves the
message back to pending, neither a recovery nor a claim that rolls back, between the first look and the write
of an enqueue. The code enforces none of them. They are plausible because leases are much longer (86400 s by
default for the queue, 30 s for the batch of an outbox dispatcher) than these few file operations, and reads
of a file that was just renamed rarely fail. `queue_leases` checks what the queue promises under the three;
`queue_stalls` checks what remains without any. With `Apart` of two of the three, the model checker finds
`OneCopy` (without `"sender"`) or `FinishedByHolder` (without `"claims"`) violated; section 6 says how.

### QueueOutbox

`state` and `owner` are columns of a row; `line` holds the rows that are not dispatched in the
order of `available_at`, of which the first `due` are available; `expired` are the leased rows
whose lease has run out. A claim is two steps, the SELECT of candidates (`ClaimSelect`) and the
UPDATE of each, which asks for eligibility again (`ClaimUpdate`): another dispatcher may commit in
between. The code compares with the time the round began, the model with the time of the UPDATE, which
admits a few more claims than the code. Then each message of the batch is enqueued (`Enqueue`, `EnqueueFails`) and, in another
transaction, marked (`Mark`) or released (`Release`, `ReleaseFails`). `Abandon` is a database error
that ends the round. A retry is placed by `available_at = batch start + delay`, with the delay
positive: so it stands anywhere behind the rows that were due when the batch began (`before`,
`Placement`). `InLine` is the ORDER BY of the claim, `Without` the line a row has left. `queued` is what the file queue holds, which is idempotent by `message_id` and
specified in `LocalFileQueue`.

### ConversionPublication

Contents of files and publication tokens are the number of the delivery that made them, so that
a file of another run can be told apart. The staging directory, the marker (`publication.json`) and
the final directory belong to the attempt and are shared by all deliveries of it. Reads and writes of
the row are separate steps, as in `TaskExecution`; so are each write of the marker, the rename and the
cleanup. `me[p]` is what an executor has in its variables. A first execution handles its errors itself
(`Handle`, `Settle`, `Abort`, `Command`); a recovery leaves them to the worker (`Fail`). A delivery
happens when the lease of the former one ran out, whether its executor is dead or stalls; the shipped
settings make leases (86400 s) outlast the run of a helper (7200 s or 10800 s), so `LeaseRanOut` waits
for the deadline while an executor is in the helper, and nothing is assumed elsewhere.

`Publication` knows the outcome, the content under the final name and the content the builds were
registered for: files appear at once, success registers exactly what is there, and files are withdrawn
only after an end without success. In the mapping `outcome` is the task state and `registered` is `built`.

Three things this module shows without a run of their own. A recovery whose deadline passes at the
pre-rename check raises without an abort and leaves `publication_state = reserved` on an ended task,
which ADR-0006 (line 104) excludes. A late `Describe` of a stalled executor writes `prepared` over the
marker of a publication that is under way, after which recoveries put the message off for ever:
`RecoverableFacts` therefore speaks of executors that die and not of those that stall. And with two stalled
executors the refinement itself fails (`MaxStalls = 2`, `MaxLease = 3`, two executors, for who wants to see it):
a stalled first executor writes its descriptor late, a third delivery reads it and goes on from it in memory,
the second writes its own descriptor again and has its content verified and renamed, and the third registers
what it read. With at most one stalled executor, the case of `MaxStalls = 1`, the refinement is proved.

### TrainingControl

`task` has the state, the number of the current attempt, the requested flags and `resume_pending`.
Every writer of the flags reads the whole dictionary and later writes all of it back: `Ask`/`Register`
for a request of the API, `Start`, `EndEpoch` and `SavePoint` for the worker. The UPDATE compares state
and attempt and never the flags. `Observe` is the probe at the safe point of a batch.

### LocalMessageMailbox

`slot[s]` is a descriptor, `guard[s]` its byte-range lock, `page[k]` the slot, generation and epoch an
overflow page serves. What the owner does to a slot under its guard is one step. A client writes a
request in two (`Write`, `Publish`), because the state is the last word of the header, the client may
die in between, and `InitSlot` of a starting owner takes no guards. `handlers` are requests handed to
a thread of the server, which accepts it, if it is prepared (`Accept` gives it its real deadline), and then
answers once (`Answer`). Or the request is lost (`Drop`): the deadline is past or the guard stays busy when it
is accepted or answered, `update_processing_deadline` or the answer raises, `poll_prepare` does not catch that
and the loop of the supervisor only logs it. A plain request that is lost ends by its deadline; a prepared one
that was not accepted stays in processing with the largest deadline there is. `Stuck` names these slots, with
those of clients that died between header and state word: nothing but a cancellation or the next start frees
them, and `SlotsComeBack` is about all others.
Deadlines are `ahead`, `past` or `never`, and pass at any moment. Prepared calls use a slot for two
phases (`Reopen`, `EnterAgain`). Random tokens are the numbers of the calls.

### BufferArena and BuddyAllocator

`BuddyAllocator` gives `allocate`, `free` and `restore_extent` as functions on a value of free blocks,
reserve and used extents; the choice of the lowest block, the splitting and the merging are those of the
code, and `Length[k]` is `1 << k`. `BufferArena` keeps that value in `alloc` and, in `desc`, the descriptors that survive the broker.
The broker is one thread: a request is one step, except that a reclaim is the publication of REVOKING
(`Revoke`) and the attempt to take all guards (`Finalize`), with `pending` the descriptors of the call
in progress. A process takes a guard first (`GuardToRead`, `GuardToWrite`) and then checks what its
locator says (`View`, `Turned`); check and publication exclude each other by the publication guard.
The grace period after which a lease is called quarantined is a free choice. A lease is allocated with a
deadline or, as is the default of client, supervisor and broker, without one (`deadline`: `none`, `ahead`,
`past`); a transfer gives it one.

A publication is two writes, FREE with the body and then the state, and the broker may die between them:
`CutShort` for a lease in use that is revoked, transferred or resized, which then
reads as free, and `CutFirst` for one that was to begin, of which only a generation is left. All other deaths
are `Crash`. (A state word alone, and FREE, are one write and cannot be cut.) The next `Start` does not find a lease
that was cut short. `cut` remembers that it happened; the properties about views that are open hold until it
does, and the one about the table also after it. `alloc` of a dead broker is what it had in memory.

## 3. Runs

| Run | Instance | Shows |
|---|---|---|
| `task_resume` | 1 training, 2 threads with one worker_id, 1 request, 2 attempts, 2 leases or refreshes of the first and 1 of the second message | types, `AttemptsInOrder`, `QueuedTaskHasMessage`, `OneOwner`, `FinalStatesKept`, and that every step is a step of `TaskLifecycle` or none |
| `task_kinds` | 1 task of any of 5 kinds, 2 threads, 1 request, 1 attempt, 3 leases or refreshes | `RunningTaskHasRunningAttempt`, `TerminalAgreement`, `FinalStatesKept`, `FinalizedByOwner` |
| `task_terminate` | 1 training, 1 lease | ADR-0006's rule for cancelled tasks is violated (section 6) |
| `task_command` | 1 dataset job, 2 leases | the terminal write by a former owner (section 6) |
| `queue_leases` | 2 messages, 2 threads of one process, 2 leases or refreshes and 2 enqueues of each; checks and writes of holders overlap no claim or recovery, an enqueue no recovery or rolled-back claim | `OneCopy`, `LiveLeaseStands`, `NothingLost`, `FinishedByHolder`, `DeliveredInOrder` |
| `queue_stalls` | 1 message, 3 leases or refreshes, 2 enqueues, anything overlaps | `TypeOK`, `CountsWithinReach`, `NothingLost` |
| `queue_redelivery` | 1 message, 2 leases | an unmarked redelivery (section 6) |
| `queue_outbox` | 2 dispatchers with batches of 1 and 2, 1 message the queue accepts, 1 it refuses every time, 1 stop or death | `DispatchedIsQueued`, `DispatchedStays`, `LeaseInForceStands`, and under fairness `EventuallyDispatched` |
| `conversion_publication` | 2 executors, 4 deliveries, 1 of them while a former executor lives, 1 cancellation, 1 deadline, the reconciler | `PublishedHasFiles`, `CancelledHasNoFiles`, `RecoverableFacts`, and that it implements `Publication` |
| `mailbox` | 2 clients, 1 slot, 1 page, 2 calls (plain or prepared), 2 lives of the owner | `OwnAnswer`, `PagesInUse`, `ResponseStands`, and under fairness `SlotsComeBack` |
| `local_buffers` | 2 owners, 1 reader, 2 units of 2 sizes, 2 tokens (leases or transfers), 2 lives of the broker | `ViewsApart`, `RestartRebuilds`, `NoFalseShortage`, and under fairness `ExtentsComeBack` |
| `training_control` | 2 threads, 1 caller, 2 attempts, 2 deliveries each, 1 epoch | the request that a recovered execution erases (section 6) |

Bounds. A race over one task needs the thread that has the attempt, one that takes it over and
one request; all three exist in every task run, and both threads share a worker_id, the harder
case for fences on the worker_id. Tasks do not share rows, so one task is enough for
properties of a task. Three beats allow a lease, a refresh and a takeover, or two takeovers; the
second attempt of `task_resume` needs one. Two messages in `queue_leases` let one thread sit in a
recovery or claim loop of one message while the other is being finished; two leases allow the
former and the new holder, or a lease and its refresh. `queue_stalls` needs a third, for a stalled
refresh between two other leases. `queue_outbox` needs two dispatchers, since a lease is lost to another
one only; batches of one and two let a lease run out behind the message being sent, and let the refused
message stand before and behind the good one. In `conversion_publication` four deliveries allow a crash,
a crash of the recovery, a crash of that one's recovery and a last one that settles. In `mailbox` one slot
makes every second call reuse it, and one page is enough for a leak; two slots or two pages add
only independent copies, since a guard, an identity and a page belong to one slot. In `local_buffers`
two leases are enough for one place to be given away while somebody still looks at it, and two sizes
for a split and a merge (liveness is checked on the whole instance, which keeps it small; more levels and the huge
reserve are left to the proofs, which hold for every geometry); two tokens mean that a transfer uses up the second lease, so that a third
owner of one lease never occurs. Deadlock checking is off where the bounds stop the
instance; it is on in `queue_outbox`, whose dispatchers poll for ever.
Threads are symmetric (they share backend and worker_id), and so are messages and the executors of a
conversion; no symmetry is used where liveness is checked.

Properties. `TypeOK` apart, each takes several steps of several actors to violate, and each is
listed with a mutant: a plausible bug of the code (an UPDATE that trusts the row that was read,
a reclaim that does not compare attempt_count, a fence on worker_id alone, an attempt not closed
with its task, a directory scan in the other order, a lock not waited for, a recovery that drops
the lease before it writes, that forgets or increments the count, a batch claim by id alone, a refused
message put back where it was, a marker without its token, a reconciler that does not ask whether the
task ended, a page kept at the reset of its slot, an answer matched by epoch alone, a reclaim that asks
the writer's guard only, a free without merging) under which TLC finds it violated.

### Fairness

`TaskExecution`, `LocalFileQueue`, `ConversionPublication` and `TrainingControl` are checked for safety
only. The other three state what the code's own loops give:

* `QueueOutbox`. Time passes (`Clock`). A service that went down is started, and the thread of its
  dispatcher, an endless loop that polls every 0.2 s and survives exceptions, takes its next step (weak
  fairness, `Running`). Errors are transient (`Transient`, strong fairness, because each failure takes the
  message away until the next lease): a message that is sent again and again is enqueued once and then marked
  once; nothing of the kind is assumed of the enqueue of a refused message. Finally `LeaseOutlasts`: from
  some time on a lease of 30 s does not run out while its batch of at most 32 small files is in hand.
  Without it two slow dispatchers could take the row from each other for ever.
* `LocalMessageMailbox`. Time passes, the server polls and sweeps every slot, a handler ends, an owner
  that closes or starts gets done and one that is down is started, and a client that holds a guard goes
  on or dies (the system releases its lock). Nothing is asked of clients otherwise.
* `BufferArena`. The deadline of a lease that has one passes, a view is not held for ever, a broker that died
  is started by its supervisor, sweeps (every 0.5 s) and ends the reclaim calls it begins. Nothing is asked of
  owners. A lease without a deadline never runs out: when its owner dies, it stays until the broker does, and
  `ExtentsComeBack` says so (`Kept`).

## 4. Proofs

`TaskExecution_proofs` proves, for any number of tasks, threads, requests, workers, attempts
and leases (assumptions: `KindsAssumption`, `WorkerOfAssumption`, `BoundsAssumption` of
`TaskExecution`):

* `Inductive`: `Spec => []IInv`.
* `TypeCorrect`, `AttemptsStayInOrder`, `RunningTaskIsOwned`, `QueuedTaskIsSent`: the invariants
  of the same subject, from `IInv`.
* `FinalStatesAreKept`: the action property, from the invariant: an UPDATE of the attempt demands
  a running row, and no write of the task starts from an immutable state.
* `Refinement`: `Spec => ImplementsLifecycle`. Initial states map to initial states; each action
  is shown to be one action of `TaskLifecycle` or to leave its variables unchanged.

The argument. The invariants about the records are not inductive: an UPDATE writes on the strength
of what a thread read earlier, and of how task and attempt were left by commands that close only one
of them. `IInv` therefore adds four parts. `RowOK(t)`: a message was sent for the current attempt or
the next one, for the next one only until the task is claimed or given up, and a task that may be
resumed has no attempt open. `SeenAt(p)`: what a thread read is old, never wrong; the number it read
is at most the current one, a task that was settled when read is not running at the same number, and
the next attempt of a task that was not queued is never claimed. `CallOK` and `CommandOK`: which
states a request or a command set out from, and for which kinds. `RowForward` and `MovesRow` name the
few ways a row may change, so that each action is shown to be one of them once and `SeenOK` is
preserved because rows only move forward.

`TaskExecutionOwners_proofs` proves, from the same assumptions and also for threads that share a worker_id:

* `OwnersInductive`: `Spec => []OInv`, with `OInv` the `IInv` above and three parts more.
* `OwnersAreOne` (`OneOwner`), `OwnersFinalize` (`FinalizedByOwner`), `SettledTogether` (`TerminalAgreement`).

The argument. An UPDATE of an attempt compares worker_id and heartbeat_at with the row that was read, and two
threads may share the worker_id; so everything rests on ticks. `BeatInv`: a message gives each tick to one
thread, a thread writes it once to a running row, and therefore a running row that still has the tick it had
when it was read is the very row that was read. `OwnInv`: the delivery in a running row is never older than that
of a thread that executes it, because a claim only replaces a row by a later delivery; a thread that is behind
can no longer finish. `AgreeInv`: a task that is queued again has left a paused or failed attempt, a closed
attempt is of a task that was settled with it, and what a thread read of a settled task stays true. Of the
rows each step makes, one of the few shapes of `MovesRow` is shown first, as in the module below it.

`QueueOutbox_proofs` proves, for any number of messages and dispatchers, any batch sizes and any
number of stops and deaths, without a use of the fairness (assumptions of `QueueOutbox`:
`PoisonAssumption`, `OwnerAssumption`, `BoundsAssumption`; only `Types` needs them, the last two):

* `DispatchedRowsAreQueued`: `DispatchedIsQueued`. By itself it is not inductive, since `Mark` looks at the
  row and not at the queue. `IInv` adds `SentBeforeMarked`: the message a dispatcher is about to mark has
  been written. Nothing is ever taken out of the queue, and every step that goes on to another message
  leaves the mark behind (`NextMessageMoves`, `OthersStay`), so `StepKeeps` needs two facts of each action.
* `DispatchedRowsStay`: `DispatchedStays`. Claim, mark and release each start from a state they ask for, and
  an announcement from no row at all.
* `LeasesStand`: `LeaseInForceStands`. `OwnerWritten` names the only steps that write an owner: a claim, which
  takes a leased row only when it expired, and an answer of the dispatcher that owns the row.
* `Types`: `TypeOK`. `TypeInv` says place by place what `TypeOK` says of sets: the rows that are not dispatched
  stand in the line once each, and the leased ones among its first `due` (`Placed`). `RowLeaves` and `RowEnters`
  say how that survives a row taken out and a row put in. A release is both at once, so the row that comes back
  must push `due` on when it stands before it, which is what the three cases of `Release` give; a claim leases
  only rows that were due; and its batch is empty only if it leased nothing, because what it leased is in the
  line (`InLineIs`). What `RemoveAt`, `InsertAt` and the recursion of `InLine` return is proved first.

`LocalFileQueue_proofs` proves, for any number of messages, leases and enqueues (assumptions of `LocalFileQueue`,
with `NoFileAssumption`: the mark of an empty place is no document):

* for any number of processes and threads, whatever overlaps: `TypeCorrect` (`TypeOK`), `CountsInReach`
  (`CountsWithinReach`). `BaseInv` adds to the types who holds the lock, and that no document and no variable of
  a thread has a count above `given`: a stalled thread may write an old document back, never a new count.
* with one backend object (`OneBackend`, the hypothesis): `NothingIsLost`. `OneInv` says that a recovery which
  found a pending copy still finds it when it unlinks the lease: claims wait for the lock, and nothing else
  takes a pending file away. A second process has a lock of its own; the profile lock of the workers admits one.
* with one backend object and `Apart` of all three kinds (`Orderly`, the hypothesis, the one `queue_leases` runs
  under): `OneCopyOnly`, `LeasesStand`, `HoldersFinish`, `DeliveriesInOrder`. `OrderInv`: a stamp belongs to one
  holder and is found on its lease alone, a recovery works on a lease that expired, a file that is claimed or
  waits in pending may carry an expired lease of a holder that is not between check and write, and a sender that
  went through some directories finds the message in none of them. Without the hypothesis these properties are
  false (section 6); where it comes from is said in section 2.

`ConversionPublication_proofs` proves, for any number of executors, deliveries and stalls (`BoundsAssumption`):

* `TypeCorrect`; `PublishedFiles` (`PublishedHasFiles`) and `CancelledFiles` (`CancelledHasNoFiles`), from
  `FilesInv`: files under the final name imply a reservation, a reservation and a cancellation compare the same
  row, and only the reconciler of an ended task takes files away.
* `Refinement`: `MaxStalls <= 1 => (Spec => ImplementsPublication)`. A registration must be of the content that is
  there. `DeliveryInv` and `FewInv` are a ledger: every executor at work has a lease of its own and there are at
  most `stalls + 1`; `MarkerInv`, `AloneInv`, `PairInv` and `ContentInv` say what staging, marker and final
  directory hold while the one or two of them go on. Beyond the bound it is false (section 2).
* `Recoverable` (`RecoverableFacts`), from `LedgerInv` and `SoloInv`: what row and marker say of each other as long
  as no executor stalls, through any number of crashes.

`LocalMessageMailbox_proofs` proves, for any finite number of slots, any clients and pages, calls and lives of the
owner: `TypeCorrect`, `OwnAnswers` (`OwnAnswer`), `PagesServe` (`PagesInUse`), `AnswersStand` (`ResponseStands`).
`GuardInv`: while a client holds a guard its slot is free or being written by it, except that an owner which starts
may have reset it. `HandlerInv`: so a request that is being written has no handler yet, and one that is processed
has a single one. `AnswerInv`: an answer in a slot is therefore that of the call and phase of its header, and the
identity a client compares leaves no other. `PageInv`: pages are given to a response only and freed with it.

`BufferArena_proofs` proves, for any geometry, any processes, leases and lives of the broker
(`ArenaAssumption`, `GeometryAssumption`):

* `GuardsHold`: `Spec => [](~cut => GInv)`, whatever place the allocator chooses: until a death cuts the
  publication of a lease in use. A locator is never of a generation to come; a token has one holder, and while a
  lease is written only the holder of its token has a locator of it among the owners; an open view is on the lease
  its locator names, in a state that fits it, so that a reclaim which finds all guards free ends no view; one writer
  has a descriptor, and no reader beside it.
* `ArenaHolds`: `Spec => []IInv`, without that condition. `IInv` is `BInv`, the part of those facts about types and
  places that a torn publication leaves true, and `AInv`, what the table and the tree say of each other: a
  descriptor in use has an extent of its own, those extents are legal together, the tree in memory is `TreeOf` of
  them, and a reclaim call in progress works on leases. A death leaves the descriptors as they are, or takes one
  lease from the table, and a start builds the tree again from what it finds.
* `TypesHold` (`TypeOK`), `RestartsRebuild` (`RestartRebuilds`) and `RequestsFindRoom` (`NoFalseShortage`) from
  these; of the first two, one clause each speaks of runs without a cut: that an open view is on an extent its
  descriptor holds, and that the next start rebuilds the tree of the broker that died.
* `ViewsStayApart` (`ViewsApart`): without a cut an open view is on the extent of a lease, and different leases have
  disjoint extents. The condition is needed: without it TLC finds a violation (section 6).

`BuddyAllocator_proofs` carries that argument (`GeometryAssumption`: any number of orders and of largest blocks,
with and without a reserve). The free blocks are always the widest aligned holes between the extents in use,
`TreeOf(U)` for a set `U` of extents that overlap nowhere (`Legal`). So the tree depends on those extents alone,
not on the order in which they came and went, and each operation is shown to lead from the tree of one set to
that of another: `TakenTree` (the extent is new and overlaps none), `FreedTree` (with the merges that follow),
`RestoredTree`, `RebuiltTree` (a start, in whatever order it finds the extents), and `RoomIsFound` (an allocation
is refused only where there is no hole). Below them are the arithmetic of aligned blocks, down to six facts
(`BlockAbove` to `TwoHalves`) that the rest uses instead of it, and the choices the code makes: the lowest block
of the smallest order that fits, the pieces a split leaves, the largest order a free block merges up to.

Recursion in the proofs. The installed provers cannot use an induction theorem that takes a predicate as its
parameter. What is defined by recursion here (`Length`, the fold of `Rebuilt`, `InLine`) is therefore reasoned about
with sets: were there an argument at which the claim fails, there would be a least one (`LeastNumber`, from the
well-foundedness of the numbers), and the argument before it gives the contradiction. For this `BuddyAllocator`
defines `Length` and `QueueOutbox` defines `InLine` as recursive functions rather than with an operator whose
definition the prover does not see.

What is model-checked only, and why. Liveness (`EventuallyDispatched`, `SlotsComeBack`, `ExtentsComeBack`) is
outside what the prover can do. `TrainingControl` has the one run that shows a violation. Every safety property
of a passing run, invariant or action property, is proved, those of the queue and of the publication under the
hypotheses named above; `ViewsApart` and a clause of `TypeOK` and of `RestartRebuilds` have their condition in the formula.

## 5. Plan

Done: `TaskLifecycle`, `TaskExecution`, `QueueOutbox`, `LocalFileQueue`, `ConversionPublication` with
`Publication`, `LocalMessageMailbox`, `BuddyAllocator` and `BufferArena`, each with its proofs, and
`TrainingControl`. Left, in this order:

1. `TaskPipeline`: outbox, queue and task in small, and under fairness of the dispatcher, the consumers
   and the clock that an announced attempt is eventually claimed and settled.
2. The event ring with its overwritten entries, and the frame channels of the image arena.
3. Worker manager with supervisor and profile lock, deployment supervisor, workflow runs.

## 6. Where code and documents differ

* `task_terminate`. Terminating a queued training reads the task twice; the second read accepts
  a task that was claimed in between, and cancels it without its attempt. ADR-0006 (line 54) says
  cancelling closes the running attempt in the same transaction. The attempt is closed later, by
  the ack or by a recovered delivery; `TerminalAgreement` states the weaker rule that does hold.
* `task_command`. The fence of a state command is checked on rows read before the UPDATE, which
  compares the task alone. A takeover in between lets the former owner write the terminal state;
  `task-system.md` (line 38) excludes this. Outcomes that go through the finalizer are not affected
  (`FinalizedByOwner`).
* `queue_redelivery`. A recovery that stops between its rename and its rewrite delivers the message
  without `lease_recovery_count`; the claim then takes it for a duplicate and consumes it, although
  `task-execution.md` (line 119) lets the new lease continue the attempt.
* `training_control`. An execution clears all control requests with its started event, on the strength of
  the dictionary it read when it began. A pause that was registered after the claim, or while the attempt
  waited for its recovery, is taken back while the training runs, although `task-execution.md` (line 35)
  says that the probe is rebuilt from the persisted request after a recovery, so that no pause is lost.
  Epoch progress and savepoints can undo a request in another way (they write back what they read before
  the request), and so can one request another; that is modelled, and no property states it.

The models show three more, which have no run of their own; each is found when the condition of the property is dropped.

* A claim that cannot read the file it has just renamed to leased renames it back to pending. A repeated enqueue that
  looked into pending before and into leased after finds the message nowhere and writes it a second time, over the
  copy that is there or beside the one a claim has taken by then, although the docstring of `enqueue`
  (`local_file.py`, line 78) says that a repeated delivery returns the existing message. (`OneCopy` and the other
  properties of `queue_leases` without `"sender"` in `Apart`.)
* When the rewrite of a recovery fails, the file in pending still has the lease of the former holder. The next claim
  renames it and writes its own lease afterwards; in between the former holder passes the lease check, and its late
  refresh or completion overwrites the later lease, although the comment in `local_file.py` (line 266) says that the
  rename alone gives sole ownership. (`FinishedByHolder` without `"claims"` in `Apart`.)
* A publication of a descriptor says FREE between its two writes. A broker that dies there while it publishes a lease
  in use loses that lease: the next one gives its extent to another lease while a process of the former life may still
  write to it. The docstring of `_recover_previous_epoch` (`mmap_buffer_arena.py`, line 1156) and ADR-0008 (line 76)
  exclude this. (`ViewsExclusive` as an invariant of `LocalBuffers.cfg`, in place of `ViewsApart`.)

## 7. Not modelled

Model numerics, nodes, API parsing, frontend, SDKs, storage formats: no protocol of their own.
Deletion and clean-up of finished tasks and messages. Two processes on one queue: the worker
profile lock admits one per profile, and several hazards in `PROJECT.json` say what would happen
with two. The event ring, frame channels and the pool's own records of leases. The conversion and training services of the other model families,
which repeat the flow that is modelled. Worker manager, process supervision, deployment runtime and
workflow runs are not modelled yet; what they do to the stores above is the crash and start of a process.

## 8. Running

`tlc -config TaskExecutionResume.cfg MCTaskExecution.tla`, and likewise for the other runs of
`PROJECT.json`; `tlapm M.tla` for `TaskExecution_proofs`, `TaskExecutionOwners_proofs`, `QueueOutbox_proofs`,
`LocalFileQueue_proofs`, `ConversionPublication_proofs`, `LocalMessageMailbox_proofs`, `BuddyAllocator_proofs` and
`BufferArena_proofs`.
Each run takes from a few seconds to two or three minutes on two cores, each module of proofs from half a
minute to ten minutes.
