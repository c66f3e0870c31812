----------------------- MODULE ConversionPublication -----------------------
(***************************************************************************)
(* How one conversion attempt publishes its files: a helper process fills  *)
(* a staging directory, a descriptor with the digests is written beside it *)
(* (the marker), the task row takes a reservation with a token, the files  *)
(* get their final name by one rename, and one transaction registers them  *)
(* and ends task and attempt. An executor may die or stall at any step;    *)
(* its message is then delivered again and a recovery reads the row, the   *)
(* marker and the directory to go on. A stalled executor goes on as well.  *)
(*                                                                         *)
(* Reads of the row are steps before the UPDATEs that rest on them, as in  *)
(* TaskExecution. Contents and tokens are the number of the delivery that  *)
(* made them. The staging directory, the marker and the final directory    *)
(* belong to the attempt and are shared by its executors.                  *)
(***************************************************************************)
EXTENDS Naturals

CONSTANTS
  Procs,      \* threads that execute the conversion
  MaxLease,   \* bound: deliveries of the message
  MaxStalls   \* bound: deliveries while an executor of an earlier one lives

ASSUME BoundsAssumption == MaxLease \in Nat \ {0} /\ MaxStalls \in Nat

VARIABLES
  task,       \* TaskRecord.state
  attempt,    \* the attempt row: the delivery that owns it, and whether it runs
  pub,        \* publication_state and publication_token of the task row
  built,      \* content the ModelBuild rows were registered for, 0 for none
  marker,     \* publication.json: its state, token and digest
  staged,     \* content of the staging directory, 0 for none
  control,    \* whether the helper's control directory exists
  final,      \* content of the final builds directory, 0 for none
  message,    \* the queue message: deliveries, stalls, and whether it is settled
  deadline,   \* whether the deadline of the attempt has passed
  pc,         \* pc[p]: next step of p
  me,         \* me[p]: what p holds in its variables
  recon       \* the reconciler: the repair it has decided on, or "idle"

row == <<task, attempt, pub, built>>
disk == <<marker, staged, control, final>>
vars == <<task, attempt, pub, built, marker, staged, control, final,
          message, deadline, pc, me, recon>>

Leases == 1 .. MaxLease
Torn == MaxLease + 1          \* a staging directory that is being filled
Ended == {"failed", "timed_out", "cancelled"}
Pending == {"publishing", "published_pending_registration"}
NoMarker == [state |-> "absent", token |-> 0, image |-> 0]

\* lease: the delivery p executes. flow: a first execution or a recovery.
\* known, token: the publication p read or began. image, digest: contents it
\* runs or recovers, and described.
\* moved: whether the recovery found the final directory. out: how p will end.
NoJob == [lease |-> 0, flow |-> "run", known |-> "none", token |-> 0,
          image |-> 0, digest |-> 0, moved |-> FALSE, out |-> "failed"]

Init ==
  /\ task = "running"
  /\ attempt = [owner |-> 0, state |-> "running"]
  /\ pub = [state |-> "none", token |-> 0]
  /\ built = 0
  /\ marker = NoMarker /\ staged = 0 /\ control = FALSE /\ final = 0
  /\ message = [count |-> 0, stalls |-> 0, done |-> FALSE]
  /\ deadline = FALSE
  /\ pc = [p \in Procs |-> "idle"]
  /\ me = [p \in Procs |-> NoJob]
  /\ recon = "idle"

GoTo(p, step) == pc' = [pc EXCEPT ![p] = step]
GoWith(p, step, job) == GoTo(p, step) /\ me' = [me EXCEPT ![p] = job]
Rest(p) == GoWith(p, "idle", NoJob)

\* The fence of p as it reads task and attempt rows.
Fenced(p) ==
  /\ task = "running"
  /\ attempt = [owner |-> me[p].lease, state |-> "running"]

Holds(p, state) == pub = [state |-> state, token |-> me[p].token]

\* An exception with outcome o. The first execution handles it, a recovery
\* leaves it to the worker.
Raise(p, o) ==
  GoWith(p,
         IF me[p].flow = "recover" THEN "fail"
         ELSE IF me[p].token # 0 THEN "handle" ELSE "command",
         [me[p] EXCEPT !.out = o])

FailWith(p, o) == GoWith(p, "fail", [me[p] EXCEPT !.out = o])

-----------------------------------------------------------------------------
\* A lease outlasts the run of the helper, which the deadline bounds; the
\* shipped settings give 86400 s against 7200 s or 10800 s. Both are set apart,
\* so a dead or stalled executor may also lose its message before the deadline.
LeaseRanOut ==
  deadline \/ \A p \in Procs : pc[p] \notin {"start", "run", "running"}

Stalled == \E p \in Procs : pc[p] # "idle"

\* A delivery: the first one, or one whose former lease ran out. The claim
\* takes the attempt over; a settled task has its message acknowledged.
Deliver(p) ==
  /\ pc[p] = "idle" /\ ~message.done /\ message.count < MaxLease
  /\ message.count > 0 => LeaseRanOut
  /\ IF task = "running" /\ attempt.state = "running"
       THEN LET n == message.count + 1
                stalls == message.stalls + IF Stalled THEN 1 ELSE 0
            IN  /\ stalls <= MaxStalls
                /\ message' = [message EXCEPT !.count = n, !.stalls = stalls]
                /\ attempt' = [attempt EXCEPT !.owner = n]
                /\ GoWith(p, "start", [NoJob EXCEPT !.lease = n])
       ELSE /\ message' = [message EXCEPT !.done = TRUE]
            /\ UNCHANGED <<attempt, pc, me>>
  /\ UNCHANGED <<task, pub, built, disk, deadline, recon>>

\* process_conversion_task: the row is read, the fence checked, and a marked
\* redelivery is a recovery.
Start(p) ==
  /\ pc[p] = "start"
  /\ IF Fenced(p)
       THEN GoWith(p, IF me[p].lease > 1 THEN "seek" ELSE "run",
                   [me[p] EXCEPT !.known = pub.state, !.token = pub.token])
       ELSE FailWith(p, "failed")
  /\ UNCHANGED <<row, disk, message, deadline, recon>>

\* The helper takes the control directory for itself; one left by a process
\* that died refuses every later run of the attempt.
RunStart(p) ==
  /\ pc[p] = "run"
  /\ IF control \/ deadline
       THEN /\ Raise(p, IF deadline THEN "timed_out" ELSE "failed")
            /\ UNCHANGED <<control, staged>>
       ELSE /\ control' = TRUE
            /\ staged' = Torn
            /\ GoTo(p, "running") /\ UNCHANGED me
  /\ UNCHANGED <<row, marker, final, message, deadline, recon>>

RunEnd(p) ==
  /\ pc[p] = "running"
  /\ control' = FALSE
  /\ \/ /\ staged = Torn
        /\ staged' = me[p].lease
        /\ GoWith(p, "persist", [me[p] EXCEPT !.image = me[p].lease])
     \/ /\ \E o \in Ended : (o = "cancelled" => task = "cancelled") /\ Raise(p, o)
        /\ UNCHANGED staged
  /\ UNCHANGED <<row, marker, final, message, deadline, recon>>

\* persist_prepared_conversion_publication looks at the directories and takes
\* the digests, with a cancel probe, ...
Persist(p) ==
  /\ pc[p] = "persist"
  /\ IF staged = 0 \/ final # 0 \/ task = "cancelled" \/ deadline
       THEN Raise(p, IF task = "cancelled" THEN "cancelled"
                     ELSE IF deadline THEN "timed_out" ELSE "failed")
       ELSE GoWith(p, "describe", [me[p] EXCEPT !.digest = staged])
  /\ UNCHANGED <<row, disk, message, deadline, recon>>

\* ... and writes the marker over the one it finds, keeping its token.
Describe(p) ==
  /\ pc[p] = "describe"
  /\ marker' = [marker EXCEPT !.state = "prepared", !.image = me[p].digest]
  /\ GoTo(p, "begin")
  /\ UNCHANGED <<row, staged, control, final, message, deadline, me, recon>>

-----------------------------------------------------------------------------
\* Only the current owner may begin.
MayBegin(p) == Fenced(p)

\* begin_conversion_publication reads and checks the fence, ...
BeginRead(p) ==
  /\ pc[p] = "begin"
  /\ LET job == [me[p] EXCEPT !.token = me[p].lease]
     IN  IF MayBegin(p) /\ pub.state = "none"
           THEN GoWith(p, "reserve", job)
           ELSE GoWith(p, IF job.flow = "recover" THEN "fail" ELSE "handle",
                       [job EXCEPT !.out = "failed"])
  /\ UNCHANGED <<row, disk, message, deadline, recon>>

\* ... and its UPDATE compares task state and publication state.
Reserve(p) ==
  /\ pc[p] = "reserve"
  /\ IF task = "running" /\ pub.state = "none"
       THEN /\ pub' = [state |-> "reserved", token |-> me[p].token]
            /\ IF me[p].moved THEN GoTo(p, "publish") /\ UNCHANGED me
               ELSE IF me[p].flow = "recover" /\ deadline
                 THEN GoWith(p, "abort", [me[p] EXCEPT !.out = "timed_out"])
               ELSE GoTo(p, "verify") /\ UNCHANGED me
       ELSE Raise(p, "failed") /\ UNCHANGED pub
  /\ UNCHANGED <<task, attempt, built, disk, message, deadline, recon>>

\* publish_prepared_conversion: directories, marker and digests agree.
Verify(p) ==
  /\ pc[p] = "verify"
  /\ IF /\ staged # 0 /\ final = 0
        /\ \/ marker.state = "prepared"
           \/ marker.state = "publishing" /\ marker.token = me[p].token
        /\ marker.image = staged
       THEN GoTo(p, "mark") /\ UNCHANGED me
       ELSE Raise(p, "failed")
  /\ UNCHANGED <<row, disk, message, deadline, recon>>

\* A variant that must fail: the marker does not say whose reservation it is.
MarkWithoutToken(p) ==
  /\ pc[p] = "mark"
  /\ marker' = [marker EXCEPT !.state = "publishing"]
  /\ GoTo(p, "check")
  /\ UNCHANGED <<row, staged, control, final, message, deadline, me, recon>>

MarkPublishing(p) ==
  /\ pc[p] = "mark"
  /\ marker' = [marker EXCEPT !.state = "publishing", !.token = me[p].token]
  /\ GoTo(p, "check")
  /\ UNCHANGED <<row, staged, control, final, message, deadline, me, recon>>

\* pre_rename_check: the deadline, the fence and the reservation.
PreRenameCheck(p) ==
  /\ pc[p] = "check"
  /\ IF deadline THEN Raise(p, "timed_out")
     ELSE IF Fenced(p) /\ Holds(p, "reserved") THEN GoTo(p, "rename") /\ UNCHANGED me
     ELSE Raise(p, "failed")
  /\ UNCHANGED <<row, disk, message, deadline, recon>>

\* os.rename refuses a missing source and an existing target.
Rename(p) ==
  /\ pc[p] = "rename"
  /\ IF staged # 0 /\ final = 0
       THEN /\ final' = staged
            /\ staged' = 0
            /\ GoTo(p, "note") /\ UNCHANGED me
       ELSE Raise(p, "failed") /\ UNCHANGED <<staged, final>>
  /\ UNCHANGED <<row, marker, control, message, deadline, recon>>

\* The marker follows; a failed write is ignored.
NotePublished(p) ==
  /\ pc[p] = "note"
  /\ \/ marker' = [marker EXCEPT !.state = "published_pending_registration"]
     \/ UNCHANGED marker
  /\ GoTo(p, "publish")
  /\ UNCHANGED <<row, staged, control, final, message, deadline, me, recon>>

-----------------------------------------------------------------------------
\* transition_conversion_publication compares token, task state and
\* publication state, and accepts a transition that was made already.
MayMove(p, target) ==
  Holds(p, target) \/ (task = "running" /\ Holds(p, "reserved"))

MovePublication(p, target) == pub' = [pub EXCEPT !.state = target]

Publish(p) ==
  /\ pc[p] = "publish"
  /\ IF MayMove(p, "published")
       THEN MovePublication(p, "published") /\ GoTo(p, "confirm") /\ UNCHANGED me
       ELSE Raise(p, "failed") /\ UNCHANGED pub
  /\ UNCHANGED <<task, attempt, built, disk, message, deadline, recon>>

\* complete_conversion_publication: the fence and the publication are read
\* and the business records staged, which may fail; ...
CompleteRead(p) ==
  /\ pc[p] = "confirm"
  /\ \/ /\ Fenced(p) /\ Holds(p, "published")
        /\ GoTo(p, "complete") /\ UNCHANGED me
     \/ Raise(p, "failed")
  /\ UNCHANGED <<row, disk, message, deadline, recon>>

\* A variant that must fail: the transaction trusts the fence read before.
MayCompleteStale(p) == Holds(p, "published")

\* ... one transaction then compares task, publication and the attempt's
\* owner, and writes them all.
MayComplete(p) ==
  Fenced(p) /\ Holds(p, "published")

Complete(p) ==
  /\ pc[p] = "complete"
  /\ IF MayComplete(p)
       THEN /\ task' = "succeeded"
            /\ attempt' = [attempt EXCEPT !.state = "closed"]
            /\ pub' = [pub EXCEPT !.state = "registered"]
            /\ built' = me[p].image
            /\ GoTo(p, "register") /\ UNCHANGED me
       ELSE Raise(p, "failed") /\ UNCHANGED row
  /\ UNCHANGED <<disk, message, deadline, recon>>

\* mark_conversion_publication_registered; a failed write is ignored.
MarkRegistered(p) ==
  /\ pc[p] = "register"
  /\ \/ marker' = [marker EXCEPT !.state = "registered"]
     \/ UNCHANGED marker
  /\ GoTo(p, "ack")
  /\ UNCHANGED <<row, staged, control, final, message, deadline, me, recon>>

Ack(p) ==
  /\ pc[p] = "ack"
  /\ message' = [message EXCEPT !.done = TRUE]
  /\ Rest(p)
  /\ UNCHANGED <<row, disk, deadline, recon>>

-----------------------------------------------------------------------------
\* The recovery reads marker and final directory against the row it knows.
MarkerAgrees(known, token) ==
  /\ marker.state \in IF known = "none" THEN {"prepared"}
                      ELSE {"prepared", "registered"} \union Pending
  /\ \/ known = "none" \/ marker.token = token
     \/ known = "reserved" /\ marker.state = "prepared"
  /\ IF final # 0 THEN final = marker.image
     ELSE known \notin {"published", "registered"}

Unpublished(p) == me[p].known = "reserved" /\ final = 0

\* Nothing to go on with: a new run, if the fenced start event is accepted.
RunAnew(p) ==
  IF Fenced(p) THEN GoWith(p, "run", [me[p] EXCEPT !.flow = "run", !.token = 0])
  ELSE FailWith(p, "failed")

\* Facts that contradict each other are kept and the message is left.
Defer(p) == Rest(p)

Resume(p) ==
  LET moved == final # 0
      job == [me[p] EXCEPT !.flow = "recover", !.image = marker.image, !.moved = moved]
      late == [job EXCEPT !.out = "timed_out"]
  IN  IF me[p].known = "none"
        THEN IF deadline THEN GoWith(p, "fail", late) ELSE GoWith(p, "begin", job)
      ELSE IF ~moved
        THEN IF deadline THEN GoWith(p, "abort", late) ELSE GoWith(p, "verify", job)
      ELSE GoWith(p, IF me[p].known = "reserved" THEN "publish" ELSE "confirm", job)

Seek(p) ==
  /\ pc[p] = "seek"
  /\ IF me[p].known = "aborted" THEN RunAnew(p)
     ELSE IF MarkerAgrees(me[p].known, me[p].token) THEN Resume(p)
     ELSE IF Unpublished(p)
       THEN GoWith(p, "abort", [me[p] EXCEPT !.flow = "recover", !.out = "failed"])
     ELSE IF marker = NoMarker /\ me[p].known = "none" THEN RunAnew(p)
     ELSE Defer(p)
  /\ UNCHANGED <<row, disk, message, deadline, recon>>

-----------------------------------------------------------------------------
\* The first execution handles its error by what it finds of its publication.
Handle(p) ==
  /\ pc[p] = "handle"
  /\ IF pub.token # me[p].token \/ pub.state = "aborted"
       THEN GoTo(p, "command") /\ UNCHANGED me
     ELSE IF pub.state = "reserved"
       THEN GoTo(p, IF final # 0 THEN "settle" ELSE "abort") /\ UNCHANGED me
     ELSE Defer(p)
  /\ UNCHANGED <<row, disk, message, deadline, recon>>

\* Files are there: the row follows them and the registration is left to a
\* recovery.
Settle(p) ==
  /\ pc[p] = "settle"
  /\ IF MayMove(p, "published")
       THEN MovePublication(p, "published") /\ Defer(p)
       ELSE FailWith(p, "failed") /\ UNCHANGED pub
  /\ UNCHANGED <<task, attempt, built, disk, message, deadline, recon>>

Abort(p) ==
  /\ pc[p] = "abort"
  /\ IF MayMove(p, "aborted")
       THEN MovePublication(p, "aborted") /\ GoTo(p, "clean") /\ UNCHANGED me
       ELSE FailWith(p, "failed") /\ UNCHANGED pub
  /\ UNCHANGED <<task, attempt, built, disk, message, deadline, recon>>

\* cleanup_aborted_conversion_staging refuses when the final directory is
\* there; a failed write of the marker is ignored.
Clean(p) ==
  /\ pc[p] = "clean"
  /\ IF final # 0
       THEN FailWith(p, "failed") /\ UNCHANGED marker
       ELSE /\ GoTo(p, "remove") /\ UNCHANGED me
            /\ \/ marker # NoMarker
                  /\ marker' = [marker EXCEPT !.state = "aborted", !.token = me[p].token]
               \/ UNCHANGED marker
  /\ UNCHANGED <<row, staged, control, final, message, deadline, recon>>

Remove(p) ==
  /\ pc[p] = "remove"
  /\ staged' = 0
  /\ GoTo(p, IF me[p].flow = "recover" THEN "fail" ELSE "command")
  /\ UNCHANGED <<row, marker, control, final, message, deadline, me, recon>>

\* A variant that must fail: every ended task is taken for a stopped one.
EndedMeanwhile == task # "running"

StoppedMeanwhile == task \in {"cancelled", "timed_out"}

\* The fenced command ends the task; the attempt follows with the ack.
Command(p) ==
  /\ pc[p] = "command"
  /\ IF StoppedMeanwhile THEN FailWith(p, task) /\ UNCHANGED task
     ELSE IF Fenced(p) THEN task' = me[p].out /\ GoTo(p, "fail") /\ UNCHANGED me
     ELSE FailWith(p, "failed") /\ UNCHANGED task
  /\ UNCHANGED <<attempt, pub, built, disk, message, deadline, recon>>

\* The worker reports the failure: finalize_task_execution_attempt, then ack.
\* A refused one ends the worker process.
MayFail(p) == attempt.owner = me[p].lease /\ task \in {"running", me[p].out}

Fail(p) ==
  /\ pc[p] = "fail"
  /\ IF MayFail(p)
       THEN /\ task' = me[p].out
            /\ attempt' = [attempt EXCEPT !.state = "closed"]
            /\ GoTo(p, "ack") /\ UNCHANGED me
       ELSE Rest(p) /\ UNCHANGED <<task, attempt>>
  /\ UNCHANGED <<pub, built, disk, message, deadline, recon>>

-----------------------------------------------------------------------------
\* The process dies, with its helper; the control directory is left.
Crash(p) ==
  /\ pc[p] # "idle"
  /\ Rest(p)
  /\ UNCHANGED <<row, disk, message, deadline, recon>>

\* A variant that must fail: a reserved publication is cancelled.
MayCancelReserved == task = "running" /\ attempt.state = "running"

\* cancel_task closes task and attempt at once, before the reservation only.
MayCancel == task = "running" /\ attempt.state = "running" /\ pub.state = "none"

Cancel ==
  /\ MayCancel
  /\ task' = "cancelled"
  /\ attempt' = [attempt EXCEPT !.state = "closed"]
  /\ UNCHANGED <<pub, built, disk, message, deadline, pc, me, recon>>

Expire ==
  /\ ~deadline /\ deadline' = TRUE
  /\ UNCHANGED <<row, disk, message, pc, me, recon>>

\* A variant that must fail: an old publication without builds is an orphan.
IsOldOrphan == task # "succeeded"

\* Only files of an ended conversion are orphans.
IsSafeOrphan == task \in Ended

\* The reconciler of a starting worker reads marker, task and builds, ...
ReconLook ==
  /\ recon = "idle" /\ marker.state \in Pending
  /\ \/ built # 0 /\ recon' = "registered"
     \/ built = 0 /\ IsSafeOrphan /\ recon' = "delete"
  /\ UNCHANGED <<row, disk, message, deadline, pc, me>>

\* ... deletes the files of an orphan, and writes the marker.
ReconDelete ==
  /\ recon = "delete"
  /\ final' = 0
  /\ recon' = "orphan_reclaimed"
  /\ UNCHANGED <<row, marker, staged, control, message, deadline, pc, me>>

ReconNote ==
  /\ recon \in {"registered", "orphan_reclaimed"}
  /\ marker' = [marker EXCEPT !.state = recon]
  /\ recon' = "idle"
  /\ UNCHANGED <<row, staged, control, final, message, deadline, pc, me>>

ExecNext(p) ==
  \/ Deliver(p) \/ Start(p) \/ RunStart(p) \/ RunEnd(p) \/ Persist(p) \/ Describe(p)
  \/ BeginRead(p) \/ Reserve(p) \/ Verify(p) \/ MarkPublishing(p)
  \/ PreRenameCheck(p) \/ Rename(p) \/ NotePublished(p) \/ Publish(p)
  \/ CompleteRead(p) \/ Complete(p) \/ MarkRegistered(p) \/ Ack(p)

FailNext(p) ==
  \/ Seek(p) \/ Handle(p) \/ Settle(p) \/ Abort(p) \/ Clean(p) \/ Remove(p)
  \/ Command(p) \/ Fail(p) \/ Crash(p)

Next ==
  \/ \E p \in Procs : ExecNext(p) \/ FailNext(p)
  \/ Cancel \/ Expire \/ ReconLook \/ ReconDelete \/ ReconNote

Spec == Init /\ [][Next]_vars

-----------------------------------------------------------------------------
Steps == {"idle", "start", "run", "running", "persist", "describe", "begin", "reserve",
          "verify", "mark", "check", "rename", "note", "publish", "confirm",
          "complete", "register", "ack", "seek", "handle", "settle", "abort",
          "clean", "remove", "command", "fail"}
PubStates == {"none", "reserved", "published", "registered", "aborted"}
MarkerStates == {"absent", "prepared", "aborted", "registered", "orphan_reclaimed"}
                  \union Pending
Images == 1 .. Torn
Jobs == [lease: 0 .. MaxLease, flow: {"run", "recover"}, known: PubStates,
         token: 0 .. MaxLease, image: 0 .. Torn, digest: 0 .. Torn,
         moved: BOOLEAN, out: Ended]

\* Types of the variables.
TypeOK ==
  /\ task \in {"running", "succeeded"} \union Ended
  /\ attempt \in [owner: 0 .. MaxLease, state: {"running", "closed"}]
  /\ pub \in [state: PubStates, token: 0 .. MaxLease]
  /\ built \in 0 .. Torn
  /\ marker \in [state: MarkerStates, token: 0 .. MaxLease, image: 0 .. Torn]
  /\ staged \in 0 .. Torn /\ final \in 0 .. Torn
  /\ control \in BOOLEAN /\ deadline \in BOOLEAN
  /\ message \in [count: 0 .. MaxLease, stalls: 0 .. MaxStalls, done: BOOLEAN]
  /\ pc \in [Procs -> Steps] /\ me \in [Procs -> Jobs]
  /\ recon \in {"idle", "registered", "delete", "orphan_reclaimed"}

\* A row that says published has its files, until the task ended without them.
PublishedHasFiles ==
  pub.state \in {"published", "registered"} /\ task \in {"running", "succeeded"}
    => final # 0

\* A cancelled conversion reserved and published nothing, however late an
\* executor finds out: the cancellation and the reservation exclude each other.
CancelledHasNoFiles == task = "cancelled" => pub.state = "none" /\ final = 0

\* Executors that die, at whatever step, leave facts the next delivery can go
\* on from: it never finds them so contradictory that it puts the message off.
\* One that stalls instead may: its late descriptor loses the publishing state.
RecoverableFacts ==
  message.stalls = 0 /\ task = "running" /\ (\A p \in Procs : pc[p] = "idle") =>
    \/ pub.state = "aborted"
    \/ pub.state = "none" /\ marker = NoMarker
    \/ pub.state = "reserved" /\ final = 0
    \/ MarkerAgrees(pub.state, pub.token)

\* The publication as its users see it.
Users == INSTANCE Publication WITH outcome <- task, registered <- built
ImplementsPublication == Users!PubSpec
=============================================================================
