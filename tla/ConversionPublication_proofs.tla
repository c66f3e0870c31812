-------------------- MODULE ConversionPublication_proofs --------------------
(***************************************************************************)
(* Proofs about the publication of a conversion: the types, the agreement  *)
(* of row and files, the facts a recovery finds after crashes, and the     *)
(* refinement of Publication. The argument has four layers.                *)
(*                                                                         *)
(*   FilesInv     row and final directory: files imply a reservation, a    *)
(*                published row implies files until the task has ended.    *)
(*   DeliveryInv, FewInv                                                   *)
(*                the ledger of deliveries: one lease per executor at work *)
(*                and at most stalls + 1 of them.                          *)
(*   MarkerInv, AloneInv, PairInv, ContentInv                              *)
(*                whose content staging, marker and final directory hold   *)
(*                while the executor that owns the attempt goes on.        *)
(*   LedgerInv, SoloInv                                                    *)
(*                what row and marker say of each other when no executor   *)
(*                has stalled.                                             *)
(*                                                                         *)
(* A step of an executor is first reduced to its shape (Path: where it     *)
(* goes and what it keeps in its variables) and its effects (Effects: what *)
(* it may write), and the invariants are proved from these.                *)
(***************************************************************************)
EXTENDS ConversionPublication, TLAPS

-----------------------------------------------------------------------------
(* Types.                                                                   *)

RowType ==
  /\ task \in {"running", "succeeded"} \union Ended
  /\ attempt \in [owner: 0 .. MaxLease, state: {"running", "closed"}]
  /\ pub \in [state: PubStates, token: 0 .. MaxLease]
  /\ built \in 0 .. Torn
DiskType ==
  /\ marker \in [state: MarkerStates, token: 0 .. MaxLease, image: 0 .. Torn]
  /\ staged \in 0 .. Torn /\ final \in 0 .. Torn
  /\ control \in BOOLEAN
RestType ==
  /\ deadline \in BOOLEAN
  /\ message \in [count: 0 .. MaxLease, stalls: 0 .. MaxStalls, done: BOOLEAN]
  /\ recon \in {"idle", "registered", "delete", "orphan_reclaimed"}
TableType == pc \in [Procs -> Steps] /\ me \in [Procs -> Jobs]

LEMMA Parts == TypeOK <=> RowType /\ DiskType /\ RestType /\ TableType
  BY DEF TypeOK, RowType, DiskType, RestType, TableType

LEMMA Numbers ==
  0 \in 0 .. MaxLease /\ 0 \in 0 .. MaxStalls /\ 0 .. MaxLease \subseteq 0 .. Torn /\ Torn \in 0 .. Torn
  BY BoundsAssumption DEF Torn
LEMMA NoJobIsJob == NoJob \in Jobs
  BY Numbers DEF NoJob, Jobs, PubStates, Ended
LEMMA TypeInit == Init => TypeOK
  <1> SUFFICES ASSUME Init PROVE TypeOK OBVIOUS
  <1>1. RowType BY Numbers DEF Init, RowType, PubStates
  <1>2. DiskType BY Numbers DEF Init, DiskType, NoMarker, MarkerStates
  <1>3. RestType BY Numbers DEF Init, RestType
  <1>4. TableType BY NoJobIsJob DEF Init, TableType, Steps
  <1> QED BY <1>1, <1>2, <1>3, <1>4, Parts

Moved(p) == \E s \in Steps, j \in Jobs : GoWith(p, s, j)

LEMMA MovedType == ASSUME TableType, NEW p \in Procs, Moved(p) PROVE  TableType'
  BY DEF Moved, GoWith, GoTo, TableType
LEMMA StaysMoved ==
  ASSUME TableType, NEW p \in Procs, NEW s \in Steps, GoTo(p, s), me' = me PROVE Moved(p)
  <1>1. GoWith(p, s, me[p])  BY DEF GoWith, TableType
  <1>2. me[p] \in Jobs  BY DEF TableType
  <1> QED  BY <1>1, <1>2 DEF Moved
LEMMA OutJob ==
  ASSUME TableType, NEW p \in Procs, NEW o \in Ended PROVE [me[p] EXCEPT !.out = o] \in Jobs
  BY DEF TableType, Jobs
LEMMA RaiseMoved == ASSUME TableType, NEW p \in Procs, NEW o \in Ended, Raise(p, o) PROVE Moved(p)
  <1> DEFINE s == IF me[p].flow = "recover" THEN "fail"
                  ELSE IF me[p].token # 0 THEN "handle" ELSE "command"
  <1>1. s \in Steps  BY DEF Steps
  <1>2. GoWith(p, s, [me[p] EXCEPT !.out = o])  BY DEF Raise
  <1> QED  BY <1>1, <1>2, OutJob DEF Moved
LEMMA FailMoved == ASSUME TableType, NEW p \in Procs, NEW o \in Ended, FailWith(p, o) PROVE Moved(p)
  BY OutJob DEF FailWith, Moved, Steps
LEMMA RestMoved == ASSUME NEW p \in Procs, Rest(p) PROVE Moved(p)
  BY NoJobIsJob DEF Rest, Moved, Steps

LEMMA RunAnewMoved == ASSUME TypeOK, NEW p \in Procs, RunAnew(p) PROVE Moved(p)
  <1>0. TableType BY Parts
  <1>1. [me[p] EXCEPT !.flow = "run", !.token = 0] \in Jobs
    BY <1>0, Numbers DEF TableType, Jobs
  <1> QED BY <1>0, <1>1, FailMoved DEF RunAnew, Moved, Steps, Ended

LEMMA ResumeMoved == ASSUME TypeOK, NEW p \in Procs, Resume(p) PROVE Moved(p)
  <1>0. TableType /\ DiskType BY Parts
  <1> DEFINE job == [me[p] EXCEPT !.flow = "recover", !.image = marker.image, !.moved = (final # 0)]
  <1>1. job \in Jobs
    BY ZenonT(30), <1>0 DEF TableType, Jobs, DiskType
  <1>2. [job EXCEPT !.out = "timed_out"] \in Jobs
    BY <1>1 DEF Jobs, Ended
  <1>3. \E s \in Steps : GoWith(p, s, job) \/ GoWith(p, s, [job EXCEPT !.out = "timed_out"])
    BY DEF Resume, Steps
  <1> QED BY <1>1, <1>2, <1>3 DEF Moved

LEMMA StartMoved == ASSUME TypeOK, NEW p \in Procs, Start(p) PROVE Moved(p)
  <1>0. TableType /\ RowType BY Parts
  <1>1. [me[p] EXCEPT !.known = pub.state, !.token = pub.token] \in Jobs
    BY <1>0 DEF TableType, Jobs, RowType
  <1> QED BY <1>0, <1>1, FailMoved DEF Start, Moved, Steps, Ended

LEMMA DeliverMoved == ASSUME TypeOK, NEW p \in Procs, Deliver(p) PROVE Moved(p) \/ UNCHANGED <<pc, me>>
  <1>0. TableType /\ RestType BY Parts
  <1>1. message.count + 1 \in 0 .. MaxLease
    BY <1>0, BoundsAssumption DEF RestType, Deliver
  <1>2. [NoJob EXCEPT !.lease = message.count + 1] \in Jobs
    BY <1>1, NoJobIsJob DEF Jobs, NoJob
  <1> QED BY <1>0, <1>2 DEF Deliver, Moved, Steps

LEMMA RunMoved == ASSUME TypeOK, NEW p \in Procs, RunStart(p) \/ RunEnd(p) PROVE Moved(p)
  <1>0. TableType BY Parts
  <1>1. ASSUME RunStart(p) PROVE Moved(p)
    <2>1. (IF deadline THEN "timed_out" ELSE "failed") \in Ended  BY DEF Ended
    <2>2. CASE control \/ deadline
      BY <1>0, <1>1, <2>1, <2>2, RaiseMoved DEF RunStart
    <2>3. CASE ~(control \/ deadline)
      BY <1>0, <1>1, <2>3, StaysMoved DEF RunStart, Steps
    <2> QED BY <2>2, <2>3
  <1>2. ASSUME RunEnd(p) PROVE Moved(p)
    <2>1. [me[p] EXCEPT !.image = me[p].lease] \in Jobs
      BY <1>0, Numbers DEF TableType, Jobs
    <2> QED BY <1>0, <1>2, <2>1, RaiseMoved DEF RunEnd, Moved, Steps
  <1> QED BY <1>1, <1>2

LEMMA PersistMoved == ASSUME TypeOK, NEW p \in Procs, Persist(p) \/ Describe(p) PROVE Moved(p)
  <1>0. TableType /\ DiskType BY Parts
  <1>1. [me[p] EXCEPT !.digest = staged] \in Jobs
    BY <1>0 DEF TableType, Jobs, DiskType
  <1>2. (IF task = "cancelled" THEN "cancelled" ELSE IF deadline THEN "timed_out" ELSE "failed") \in Ended
    BY DEF Ended
  <1>3. ASSUME Persist(p) PROVE Moved(p)
    <2>1. CASE GoWith(p, "describe", [me[p] EXCEPT !.digest = staged])
       BY <1>1, <2>1 DEF Moved, Steps
    <2> QED BY <1>0, <1>2, <1>3, <2>1, RaiseMoved DEF Persist
  <1>4. ASSUME Describe(p) PROVE Moved(p)
     BY <1>0, <1>4, StaysMoved DEF Describe, Steps
  <1> QED BY <1>3, <1>4

LEMMA BeginMoved == ASSUME TypeOK, NEW p \in Procs, BeginRead(p) PROVE Moved(p)
  <1>0. TableType BY Parts
  <1> DEFINE job == [me[p] EXCEPT !.token = me[p].lease]
  <1>1. job \in Jobs /\ [job EXCEPT !.out = "failed"] \in Jobs
    BY <1>0 DEF TableType, Jobs, Ended
  <1>2. (IF job.flow = "recover" THEN "fail" ELSE "handle") \in Steps BY DEF Steps
  <1>3. "reserve" \in Steps BY DEF Steps
  <1> HIDE DEF job
  <1>4. \E s \in Steps : GoWith(p, s, job) \/ GoWith(p, s, [job EXCEPT !.out = "failed"])
    BY <1>2, <1>3 DEF BeginRead, job
  <1> QED BY <1>1, <1>4 DEF Moved

LEMMA ReserveMoved == ASSUME TypeOK, NEW p \in Procs, Reserve(p) PROVE Moved(p)
  <1>0. TableType BY Parts
  <1>1. [me[p] EXCEPT !.out = "timed_out"] \in Jobs  BY <1>0, OutJob DEF Ended
  <1>2. {"publish", "abort", "verify"} \subseteq Steps /\ "failed" \in Ended  BY
      DEF Steps, Ended
  <1> QED BY <1>0, <1>1, <1>2, StaysMoved, RaiseMoved DEF Reserve, Moved

LEMMA PublishMoved ==
  ASSUME TypeOK, NEW p \in Procs,
         \/ Verify(p) \/ MarkPublishing(p) \/ PreRenameCheck(p) \/ Rename(p) \/ NotePublished(p)
         \/ Publish(p) \/ CompleteRead(p) \/ Complete(p) \/ MarkRegistered(p) \/ Ack(p)
  PROVE  Moved(p)
  <1>0. TableType BY Parts
  <1>1. "failed" \in Ended /\ "timed_out" \in Ended BY DEF Ended
  <1>2. {"mark", "check", "rename", "note", "publish", "confirm", "complete", "register", "ack"}
          \subseteq Steps
    BY DEF Steps
  <1>3. \/ \E o \in Ended : Raise(p, o)
        \/ \E s \in Steps : GoTo(p, s) /\ me' = me
        \/ Rest(p)
    BY <1>1, <1>2 DEF Verify, MarkPublishing, PreRenameCheck, Rename, NotePublished,
         Publish, CompleteRead, Complete, MarkRegistered, Ack
  <1> QED BY <1>0, <1>3, RaiseMoved, StaysMoved, RestMoved

LEMMA FailMoves ==
  ASSUME TypeOK, NEW p \in Procs,
         \/ Handle(p) \/ Settle(p) \/ Abort(p) \/ Clean(p) \/ Remove(p)
         \/ Command(p) \/ Fail(p) \/ Crash(p)
  PROVE  Moved(p)
  <1>0. TableType BY Parts
  <1>1. "failed" \in Ended /\ (StoppedMeanwhile => task \in Ended)  BY DEF Ended,
      StoppedMeanwhile
  <1>2. {"command", "settle", "abort", "clean", "remove", "fail", "ack"} \subseteq Steps
    BY DEF Steps
  <1>3. \/ \E o \in Ended : FailWith(p, o)
        \/ \E s \in Steps : GoTo(p, s) /\ me' = me
        \/ Rest(p)
    BY <1>1, <1>2 DEF Handle, Settle, Abort, Clean, Remove, Command, Fail, Crash, Defer
  <1> QED BY <1>0, <1>3, FailMoved, StaysMoved, RestMoved

LEMMA SeekMoved == ASSUME TypeOK, NEW p \in Procs, Seek(p) PROVE Moved(p)
  <1>0. TableType BY Parts
  <1> DEFINE job == [me[p] EXCEPT !.flow = "recover", !.out = "failed"]
  <1>1. job \in Jobs  BY <1>0 DEF TableType, Jobs, Ended
  <1>2. "abort" \in Steps BY DEF Steps
  <1>3. RunAnew(p) \/ Resume(p) \/ GoWith(p, "abort", job) \/ Rest(p)
    BY DEF Seek, Defer
  <1> QED BY <1>1, <1>2, <1>3, RunAnewMoved, ResumeMoved, RestMoved DEF Moved

LEMMA ExecTables == 
  ASSUME TypeOK, NEW p \in Procs, ExecNext(p) \/ FailNext(p) PROVE TableType'
  <1>0. TableType BY Parts
  <1>1. Moved(p) \/ UNCHANGED <<pc, me>>
   BY DeliverMoved, StartMoved, RunMoved, PersistMoved, BeginMoved, ReserveMoved,
       PublishMoved, FailMoves, SeekMoved DEF ExecNext, FailNext
  <1> QED BY <1>0, <1>1, MovedType DEF TableType

LEMMA ExecRow ==
  ASSUME TypeOK, NEW p \in Procs, ExecNext(p) \/ FailNext(p) PROVE RowType'
  <1>0. RowType /\ me[p] \in Jobs BY Parts DEF TableType
  <1>1. ASSUME Deliver(p) PROVE RowType'
    <2>1. message.count + 1 \in 0 .. MaxLease
      BY Parts, BoundsAssumption, <1>1 DEF RestType, Deliver
    <2> QED BY <1>0, <1>1, <2>1 DEF Deliver, RowType
  <1>2. CASE UNCHANGED row
    BY <1>0, <1>2 DEF RowType, row
  <1>3. ASSUME Reserve(p) PROVE RowType'
    BY <1>0, <1>3 DEF Reserve, RowType, Jobs, PubStates
  <1>4. ASSUME Publish(p) \/ Settle(p) \/ Abort(p) PROVE RowType'
    BY <1>0, <1>4 DEF Publish, Settle, Abort, MovePublication, RowType, PubStates
  <1>5. ASSUME Complete(p) PROVE RowType'
    BY <1>0, <1>5 DEF Complete, RowType, PubStates, Jobs, row
  <1>6. ASSUME Command(p) \/ Fail(p) PROVE RowType'
    BY <1>0, <1>6 DEF Command, Fail, RowType, Jobs
  <1> QED BY <1>1, <1>2, <1>3, <1>4, <1>5, <1>6 DEF ExecNext, FailNext, Start,
      RunStart, RunEnd,
        Persist, Describe, BeginRead, Verify, MarkPublishing, PreRenameCheck, Rename, NotePublished,
        CompleteRead, MarkRegistered, Ack, Seek, Handle, Clean, Remove, Crash

LEMMA ExecDisk ==
  ASSUME TypeOK, NEW p \in Procs, ExecNext(p) \/ FailNext(p) PROVE DiskType'
  <1>0. DiskType /\ me[p] \in Jobs BY Parts DEF TableType
  <1>2. CASE UNCHANGED disk
    BY <1>0, <1>2 DEF DiskType, disk
  <1>3. ASSUME RunStart(p) \/ RunEnd(p) PROVE DiskType'
    BY <1>0, <1>3, Numbers DEF RunStart, RunEnd, DiskType, Jobs
  <1>4. ASSUME Describe(p) \/ MarkPublishing(p) \/ NotePublished(p) \/ MarkRegistered(p) \/ Clean(p)
        PROVE DiskType'
    BY ZenonT(30), <1>0, <1>4 DEF Describe, MarkPublishing, NotePublished, MarkRegistered, Clean,
        DiskType, MarkerStates, Pending, Jobs
  <1>5. ASSUME Rename(p) \/ Remove(p) PROVE DiskType'
    BY <1>0, <1>5, Numbers DEF Rename, Remove, DiskType
  <1> QED BY <1>2, <1>3, <1>4, <1>5 DEF ExecNext, FailNext, Deliver, Start, 
        Persist, BeginRead, Reserve, Verify, PreRenameCheck, Publish, 
        CompleteRead, Complete, Ack, Seek, Handle, Settle, Abort, Command, Fail, Crash

LEMMA ExecRest ==
  ASSUME TypeOK, NEW p \in Procs, ExecNext(p) \/ FailNext(p) PROVE RestType'
  <1>0. RestType BY Parts
  <1>2. CASE UNCHANGED <<message, deadline, recon>>
    BY <1>0, <1>2 DEF RestType
  <1>3. ASSUME Deliver(p) PROVE RestType'
    <2> DEFINE s == message.stalls + IF Stalled THEN 1 ELSE 0
    <2>1. message.count + 1 \in 0 .. MaxLease /\ s \in Nat
      BY <1>0, <1>3, BoundsAssumption DEF Deliver, RestType
    <2>2. s <= MaxStalls => s \in 0 .. MaxStalls
      BY <2>1, BoundsAssumption
    <2>3. \/ message' = [message EXCEPT !.done = TRUE]
          \/ s <= MaxStalls /\ message' = [message EXCEPT !.count = message.count + 1, !.stalls = s]
      BY <1>3 DEF Deliver
    <2>4. message' \in [count: 0 .. MaxLease, stalls: 0 .. MaxStalls, done: BOOLEAN]
      <3> HIDE DEF s
      <3> QED BY <1>0, <2>1, <2>2, <2>3 DEF RestType
    <2> QED BY <1>0, <1>3, <2>4 DEF Deliver, RestType
  <1>4. ASSUME Ack(p) PROVE RestType'
    BY <1>0, <1>4 DEF Ack, RestType
  <1> QED BY <1>2, <1>3, <1>4 DEF ExecNext, FailNext, Start, RunStart, RunEnd,
        Persist, Describe, BeginRead, Reserve, Verify, MarkPublishing, PreRenameCheck, Rename, NotePublished,
        Publish, CompleteRead, Complete, MarkRegistered, Seek, Handle, Settle, Abort, Clean, Remove, Command, Fail, Crash

LEMMA TypeNext == TypeOK /\ [Next]_vars => TypeOK'
  <1> SUFFICES ASSUME TypeOK, [Next]_vars PROVE TypeOK' OBVIOUS
  <1>0. RowType /\ DiskType /\ RestType /\ TableType BY Parts
  <1>1. ASSUME NEW p \in Procs, ExecNext(p) \/ FailNext(p) PROVE TypeOK'
    <2>1. RowType' /\ DiskType' /\ RestType' /\ TableType'
      BY <1>1, ExecRow, ExecDisk, ExecRest, ExecTables
    <2> QED BY <2>1 DEF TypeOK, RowType, DiskType, RestType, TableType
  <1>2. ASSUME Cancel \/ Expire \/ ReconLook \/ ReconDelete \/ ReconNote PROVE TypeOK'
    <2>1. RowType' BY <1>0, <1>2 DEF Cancel, Expire, ReconLook, ReconDelete, ReconNote,
        RowType, row, Ended
    <2>2. DiskType' BY <1>0, <1>2, Numbers DEF Cancel, Expire, ReconLook, ReconDelete,
        ReconNote, DiskType, disk, MarkerStates
    <2>3. RestType' BY <1>0, <1>2 DEF Cancel, Expire, ReconLook, ReconDelete,
        ReconNote, RestType
    <2>4. TableType' BY <1>0, <1>2 DEF Cancel, Expire, ReconLook, ReconDelete,
        ReconNote, TableType
    <2> QED BY <2>1, <2>2, <2>3, <2>4 DEF TypeOK, RowType, DiskType, RestType, TableType
  <1>3. CASE UNCHANGED vars
    BY <1>3 DEF vars, TypeOK
  <1> QED BY <1>1, <1>2, <1>3 DEF Next

\* The rows, files and variables of executors keep their types.
THEOREM TypeCorrect == Spec => []TypeOK
  BY TypeInit, TypeNext, PTL DEF Spec

-----------------------------------------------------------------------------
(* Row and files.                                                           *)

Placing == {"note", "publish", "confirm", "complete", "settle"}

FilesOf(p) ==
  /\ pc[p] = "rename" => pub.state # "none"
  /\ me[p].out = "cancelled" => task = "cancelled"
  /\ pc[p] \in Placing \/ me[p].moved => final # 0 \/ task \in Ended

FilesHere ==
  /\ final # 0 => pub.state # "none"
  /\ recon = "delete" => task \in Ended
  /\ task = "succeeded" => final # 0
  /\ PublishedHasFiles
  /\ CancelledHasNoFiles

FilesInv == FilesHere /\ \A p \in Procs : FilesOf(p)

Forward ==
  /\ pub.state # "none" => pub'.state # "none"
  /\ task # "running" => task' = task
  /\ final # 0 => final' # 0 \/ task' \in Ended

Quiet == UNCHANGED <<row, final, recon>>

LEMMA QuietForward == ASSUME FilesInv, Quiet PROVE Forward /\ FilesHere'
  BY DEF FilesInv, FilesHere, Forward, Quiet, row, PublishedHasFiles,
      CancelledHasNoFiles

LEMMA Lands ==
  ASSUME TableType, NEW p \in Procs, NEW s, NEW j, GoWith(p, s, j)
  PROVE  pc'[p] = s /\ me'[p] = j
  BY DEF GoWith, GoTo, TableType

LEMMA FilesDeliver ==
  ASSUME TypeOK, FilesInv, NEW p \in Procs, Deliver(p) PROVE Forward /\ FilesHere' /\ FilesOf(p)'
  <1>0. TableType  BY Parts
  <1>1. Forward /\ FilesHere'
    BY DEF Deliver, FilesInv, FilesHere, Forward, disk, PublishedHasFiles,
        CancelledHasNoFiles
  <1>2. FilesOf(p)'
    BY <1>0 DEF Deliver, FilesInv, FilesOf, GoWith, GoTo, NoJob, TableType, Placing,
        disk
  <1> QED BY <1>1, <1>2


LEMMA RaiseGoes ==
  ASSUME TableType, NEW p \in Procs, NEW o \in Ended, Raise(p, o)
  PROVE  pc'[p] \in {"fail", "handle", "command"} /\ me'[p] = [me[p] EXCEPT !.out = o]
  BY DEF Raise, GoWith, GoTo, TableType

\* A step of p that leads to no file and promises none.
Tame(p) ==
  /\ pc'[p] \notin Placing \cup {"rename"}
  /\ me'[p].moved \in {me[p].moved, FALSE}
  /\ me'[p].out \in {me[p].out, "failed", "timed_out"} \/ task' = "cancelled"

LEMMA TameFiles ==
  ASSUME FilesInv, Forward, NEW p \in Procs, Tame(p) PROVE FilesOf(p)'
  BY DEF FilesInv, FilesOf, Forward, Ended, Placing, Tame

LEMMA TameRaise ==
  ASSUME TableType, NEW p \in Procs, NEW o \in Ended, o = "cancelled" => task' = "cancelled",
         Raise(p, o) \/ FailWith(p, o)
  PROVE  Tame(p)
  <1>1. me[p] \in Jobs  BY DEF TableType
  <1>2. pc'[p] \in {"fail", "handle", "command"} /\ me'[p] = [me[p] EXCEPT !.out = o]
    BY RaiseGoes, Lands DEF FailWith
  <1> QED  BY <1>1, <1>2 DEF Jobs, Tame, Ended, Placing

LEMMA TameGo ==
  ASSUME TableType, NEW p \in Procs, NEW s \in Steps \ (Placing \cup {"rename"}), GoTo(p, s), me' = me
  PROVE  Tame(p)
  BY DEF TableType, GoTo, Tame

LEMMA TameRest == ASSUME TableType, NEW p \in Procs, Rest(p) PROVE Tame(p)
  <1>1. pc'[p] = "idle" /\ me'[p] = NoJob  BY Lands DEF Rest
  <1> QED  BY <1>1 DEF Tame, NoJob, Placing

LEMMA FilesStart ==
  ASSUME TypeOK, FilesInv, NEW p \in Procs, Start(p) PROVE Forward /\ FilesHere' /\ FilesOf(p)'
  <1>0. TableType /\ me[p] \in Jobs BY Parts DEF TableType
  <1>1. Forward /\ FilesHere'
    BY QuietForward DEF Start, disk, Quiet
  <1>2. \/ \E s \in {"seek", "run"} : GoWith(p, s, [me[p] EXCEPT !.known = pub.state, !.token = pub.token])
        \/ GoWith(p, "fail", [me[p] EXCEPT !.out = "failed"])
    <2> DEFINE step == IF me[p].lease > 1 THEN "seek" ELSE "run"
    <2>1. step \in {"seek", "run"}  OBVIOUS
    <2>2. \/ GoWith(p, step, [me[p] EXCEPT !.known = pub.state, !.token = pub.token])
          \/ GoWith(p, "fail", [me[p] EXCEPT !.out = "failed"])
      BY DEF Start, FailWith
    <2> HIDE DEF step
    <2> QED  BY <2>1, <2>2
  <1> DEFINE read == [me[p] EXCEPT !.known = pub.state, !.token = pub.token]
  <1> DEFINE late == [me[p] EXCEPT !.out = "failed"]
  <1>3. /\ read.out = me[p].out /\ read.moved = me[p].moved
        /\ late.out = "failed" /\ late.moved = me[p].moved
    BY <1>0 DEF Jobs
  <1>4. pc'[p] \in {"seek", "run", "fail"} /\ me'[p].out \in {me[p].out, "failed"} /\ me'[p].moved = me[p].moved
    <2>1. \/ \E s \in {"seek", "run"} : GoWith(p, s, read)
          \/ GoWith(p, "fail", late)
      BY <1>2
    <2> HIDE DEF read, late
    <2> QED  BY <1>0, <1>3, <2>1, Lands
  <1> QED BY <1>0, <1>1, <1>4, TameFiles DEF Placing, Tame

LEMMA FilesRun ==
  ASSUME TypeOK, FilesInv, NEW p \in Procs, RunStart(p) \/ RunEnd(p) \/ Persist(p) \/ Describe(p) \/ BeginRead(p) \/ Verify(p) \/ MarkPublishing(p)
       PROVE Forward /\ FilesHere' /\ FilesOf(p)'
  <1>0. TableType /\ me[p] \in Jobs BY Parts DEF TableType
  <1>1. Forward /\ FilesHere'
    BY QuietForward DEF RunStart, RunEnd, Persist, Describe, BeginRead, Verify,
        MarkPublishing, disk, Quiet
  <1>2. /\ pc'[p] \in {"fail", "handle", "command", "running", "persist", "describe", "begin", "reserve", "mark", "check"}
        /\ me'[p].out \in {me[p].out, "failed", "timed_out"} \/ task' = "cancelled"
        /\ me'[p].moved = me[p].moved
    <2>1. ASSUME NEW o \in Ended, Raise(p, o), o = "cancelled" => task = "cancelled", task' = task 
        PROVE /\ pc'[p] \in {"fail", "handle", "command"}
              /\ me'[p].out \in {me[p].out, "failed", "timed_out"} \/ task' = "cancelled"
              /\ me'[p].moved = me[p].moved
      BY <1>0, <2>1, RaiseGoes DEF Jobs, Ended
    <2>2. CASE RunStart(p) 
       BY <1>0, <2>1, <2>2 DEF RunStart, GoTo, TableType, Ended, row
    <2>3. CASE RunEnd(p) 
       BY <1>0, <2>1, <2>3 DEF RunEnd, GoWith, GoTo, TableType, Jobs, row
    <2>4. CASE Persist(p) 
       BY <1>0, <2>1, <2>4 DEF Persist, GoWith, GoTo, TableType, Ended, Jobs, row
    <2>5. CASE Describe(p) \/ MarkPublishing(p)
       BY <1>0, <2>5 DEF Describe, MarkPublishing, GoTo, TableType
    <2>6. CASE BeginRead(p)
       <3> DEFINE job == [me[p] EXCEPT !.token = me[p].lease]
       <3>1. \/ GoWith(p, "reserve", job)
             \/ \E s \in {"fail", "handle"} : GoWith(p, s, [job EXCEPT !.out = "failed"])
         BY <2>6 DEF BeginRead
       <3>2. /\ job.out = me[p].out /\ job.moved = me[p].moved
             /\ [job EXCEPT !.out = "failed"].out = "failed"
             /\ [job EXCEPT !.out = "failed"].moved = me[p].moved
         BY <1>0 DEF Jobs
       <3> HIDE DEF job
       <3> QED BY <1>0, <3>1, <3>2, Lands
    <2>7. CASE Verify(p)
       BY <1>0, <2>1, <2>7 DEF Verify, GoTo, TableType, Ended, row
    <2> QED BY <2>2, <2>3, <2>4, <2>5, <2>6, <2>7
  <1> QED BY <1>1, <1>2, TameFiles DEF Placing, Tame

LEMMA FilesTake ==
  ASSUME TypeOK, FilesInv, NEW p \in Procs,
         \/ PreRenameCheck(p) \/ NotePublished(p) \/ CompleteRead(p) \/ MarkRegistered(p) \/ Ack(p)
         \/ Handle(p) \/ Clean(p) \/ Remove(p) \/ Crash(p)
  PROVE  Forward /\ FilesHere' /\ FilesOf(p)'
  <1>0. TableType /\ me[p] \in Jobs BY Parts DEF TableType
  <1>1. Forward /\ FilesHere'
    BY QuietForward DEF PreRenameCheck, NotePublished, CompleteRead, MarkRegistered,
        Ack,
         Handle, Clean, Remove, Crash, disk, Quiet
  <1>2. {"failed", "timed_out"} \subseteq Ended \ {"cancelled"} /\ {"ack", "command", "abort", "remove", "fail"} \subseteq Steps \ (Placing \cup {"rename"})
    BY DEF Ended, Steps, Placing
  <1>3. CASE MarkRegistered(p) \/ Ack(p) \/ Clean(p) \/ Remove(p) \/ Crash(p)
    <2>1. \/ FailWith(p, "failed") \/ Rest(p)
          \/ \E s \in {"ack", "command", "remove", "fail"} : GoTo(p, s) /\ me' = me
      BY <1>3 DEF MarkRegistered, Ack, Clean, Remove, Crash
    <2>2. CASE FailWith(p, "failed") \/ Rest(p)
      BY <1>0, <1>1, <1>2, <2>2, TameRest, TameRaise, TameFiles
    <2>3. CASE \E s \in {"ack", "command", "remove", "fail"} : GoTo(p, s) /\ me' = me
      BY <1>0, <1>1, <1>2, <2>3, TameGo, TameFiles
    <2> QED  BY <2>1, <2>2, <2>3
  <1>4. CASE PreRenameCheck(p)
    <2>1. \/ Tame(p)
          \/ pub.state = "reserved" /\ pc'[p] = "rename" /\ me' = me /\ UNCHANGED <<row, final>>
      BY <1>0, <1>2, <1>4, TameRaise DEF PreRenameCheck, Holds, GoTo, TableType, disk
    <2> QED  BY <1>1, <2>1, TameFiles DEF FilesInv, FilesOf, Placing, row
  <1>5. CASE NotePublished(p) \/ CompleteRead(p)
    <2>1. \/ Tame(p)
          \/ pc[p] \in Placing /\ pc'[p] \in Placing /\ me' = me /\ UNCHANGED <<row, final>>
      BY <1>0, <1>2, <1>5, TameRaise DEF NotePublished, CompleteRead, GoTo, TableType,
          disk, Placing
    <2> QED  BY <1>1, <2>1, TameFiles DEF FilesInv, FilesOf, Placing, row
  <1>6. CASE Handle(p)
    <2>1. \/ Tame(p)
          \/ final # 0 /\ pc'[p] = "settle" /\ me' = me /\ UNCHANGED <<row, final>>
      BY <1>0, <1>2, <1>6, TameGo, TameRest DEF Handle, Defer, GoTo, TableType, disk
    <2> QED  BY <1>1, <2>1, TameFiles DEF FilesInv, FilesOf, Placing, row
  <1> QED  BY <1>3, <1>4, <1>5, <1>6

LEMMA FilesPublish ==
  ASSUME TypeOK, FilesInv, NEW p \in Procs,
         Publish(p) \/ Settle(p) \/ Abort(p)
  PROVE  Forward /\ FilesHere' /\ FilesOf(p)'
  <1>0. TableType /\ RowType /\ me[p] \in Jobs BY Parts DEF TableType
  <1> DEFINE target == IF pc[p] = "abort" THEN "aborted" ELSE "published"
  <1>2. {"failed", "timed_out"} \subseteq Ended \ {"cancelled"} /\ {"clean", "idle"} \subseteq Steps \ (Placing \cup {"rename"})
    BY DEF Ended, Steps, Placing
  <1>1. \/ UNCHANGED pub
        \/ pub.state # "none" /\ pub' = [pub EXCEPT !.state = target]
    BY DEF Publish, Settle, Abort, MayMove, MovePublication, Holds
  <1>3. pc[p] # "abort" => final # 0 \/ task \in Ended
    BY DEF Publish, Settle, Abort, FilesInv, FilesOf, Placing
  <1>4. UNCHANGED <<task, final, recon>>
    BY DEF Publish, Settle, Abort, disk
  <1>5. \/ UNCHANGED pub
        \/ pub.state # "none" /\ pub'.state = target
    <2> HIDE DEF target
    <2> QED  BY <1>0, <1>1 DEF RowType
  <1>6. Forward /\ FilesHere'
    BY <1>3, <1>4, <1>5 DEF FilesInv, FilesHere, Forward, PublishedHasFiles,
        CancelledHasNoFiles, Ended
  <1>7. \/ Tame(p)
        \/ pc[p] \in Placing /\ pc'[p] \in Placing /\ me' = me
    BY <1>0, <1>2, TameGo, TameRest, TameRaise DEF Publish, Settle, Abort, Defer, GoTo,
        TableType, Placing
  <1> QED  BY <1>4, <1>6, <1>7, TameFiles DEF FilesInv, FilesOf, Placing

LEMMA FilesReserve ==
  ASSUME TypeOK, FilesInv, NEW p \in Procs, Reserve(p)
  PROVE  Forward /\ FilesHere' /\ FilesOf(p)'
  <1>0. TableType /\ me[p] \in Jobs BY Parts DEF TableType
  <1>1. \/ UNCHANGED pub
        \/ task = "running" /\ pub' = [state |-> "reserved", token |-> me[p].token]
    BY DEF Reserve
  <1>2. UNCHANGED <<task, final, recon>>
    BY DEF Reserve, disk
  <1>3. Forward /\ FilesHere'
    BY <1>1, <1>2 DEF FilesInv, FilesHere, Forward, PublishedHasFiles,
        CancelledHasNoFiles, Ended
  <1>4. \/ Tame(p)
        \/ me[p].moved /\ pc'[p] = "publish" /\ me' = me
    <2>1. CASE Raise(p, "failed")
      BY <1>0, <2>1, TameRaise DEF Ended
    <2>2. CASE GoWith(p, "abort", [me[p] EXCEPT !.out = "timed_out"])
      <3> DEFINE job == [me[p] EXCEPT !.out = "timed_out"]
      <3>1. job.out = "timed_out" /\ job.moved = me[p].moved  BY <1>0 DEF Jobs
      <3> HIDE DEF job
      <3>2. pc'[p] = "abort" /\ me'[p] = job  BY <1>0, <2>2, Lands DEF job
      <3> QED  BY <3>1, <3>2 DEF Tame, Placing
    <2>3. CASE GoTo(p, "verify") /\ me' = me
      BY <1>0, <2>3, TameGo DEF Steps, Placing
    <2>4. CASE me[p].moved /\ GoTo(p, "publish") /\ me' = me
      BY <1>0, <2>4 DEF GoTo, TableType
    <2> QED  BY <2>1, <2>2, <2>3, <2>4 DEF Reserve
  <1> QED  BY <1>2, <1>3, <1>4, TameFiles DEF FilesInv, FilesOf, Placing

LEMMA FilesRename ==
  ASSUME TypeOK, FilesInv, NEW p \in Procs, Rename(p) PROVE Forward /\ FilesHere' /\ FilesOf(p)'
  <1>0. TableType /\ me[p] \in Jobs BY Parts DEF TableType
  <1>1. \/ final' # 0 /\ pc'[p] = "note" /\ me' = me
        \/ Tame(p) /\ UNCHANGED final
    BY <1>0, TameRaise DEF Rename, GoTo, TableType, Ended
  <1>2. UNCHANGED row /\ UNCHANGED recon /\ pub.state # "none"
    BY DEF Rename, FilesInv, FilesOf
  <1>3. Forward /\ FilesHere'
    BY <1>1, <1>2 DEF FilesInv, FilesHere, Forward, PublishedHasFiles,
        CancelledHasNoFiles, row
  <1> QED  BY <1>1, <1>2, <1>3, TameFiles DEF FilesInv, FilesOf, Placing, row

LEMMA FilesComplete ==
  ASSUME TypeOK, FilesInv, NEW p \in Procs, Complete(p) PROVE Forward /\ FilesHere' /\ FilesOf(p)'
  <1>0. TableType /\ RowType BY Parts
  <1>1. CASE Raise(p, "failed") /\ UNCHANGED row
    <2>1. Tame(p)  BY <1>0, <1>1, TameRaise DEF Ended
    <2>2. Quiet  BY <1>1 DEF Complete, Quiet, disk
    <2> QED  BY <2>1, <2>2, QuietForward, TameFiles
  <1>2. CASE MayComplete(p) /\ task' = "succeeded" /\ GoTo(p, "register") /\ me' = me
             /\ pub' = [pub EXCEPT !.state = "registered"]
    <2>0. task = "running"  BY <1>2 DEF MayComplete, Fenced
    <2>4. final # 0  BY <2>0 DEF Complete, FilesInv, FilesOf, Placing, Ended
    <2>5. pub'.state = "registered"  BY <1>0, <1>2 DEF RowType
    <2>6. final' = final /\ recon' = recon  BY DEF Complete, disk
    <2>1. task = "running" /\ final # 0 /\ final' = final /\ recon' = recon /\ pub'.state = "registered"
      BY <2>0, <2>4, <2>5, <2>6
    <2>2. Forward /\ FilesHere'
      BY <1>2, <2>1 DEF FilesInv, FilesHere, Forward, PublishedHasFiles,
          CancelledHasNoFiles, Ended
    <2>3. Tame(p)
      BY <1>0, <1>2, TameGo DEF Steps, Placing
    <2> QED  BY <2>2, <2>3, TameFiles
  <1> QED  BY <1>1, <1>2 DEF Complete

LEMMA FilesEnd ==
  ASSUME TypeOK, FilesInv, NEW p \in Procs, Command(p) \/ Fail(p)
  PROVE  Forward /\ FilesHere' /\ FilesOf(p)'
  <1>0. TableType /\ me[p] \in Jobs BY Parts DEF TableType
  <1>1. \/ UNCHANGED task
        \/ /\ task' = me[p].out /\ me[p].out \in Ended
           /\ task = "running" /\ me[p].out # "cancelled"
    BY <1>0 DEF Command, Fail, MayFail, Fenced, FilesInv, FilesOf, Jobs
  <1>2. UNCHANGED <<pub, final, recon>>
    BY DEF Command, Fail, disk
  <1>3. Forward /\ FilesHere'
    BY <1>1, <1>2 DEF FilesInv, FilesHere, Forward, PublishedHasFiles,
        CancelledHasNoFiles, Ended
  <1>4. {"fail", "ack"} \subseteq Steps \ (Placing \cup {"rename"}) /\ "failed" \in Ended
    BY DEF Steps, Placing, Ended
  <1>5. Tame(p)
    BY <1>0, <1>4, TameGo, TameRest, TameRaise DEF Command, Fail, StoppedMeanwhile,
        Ended
  <1> QED  BY <1>3, <1>5, TameFiles

LEMMA FilesSeek ==
  ASSUME TypeOK, FilesInv, NEW p \in Procs, Seek(p) PROVE Forward /\ FilesHere' /\ FilesOf(p)'
  <1>0. TableType /\ me[p] \in Jobs BY Parts DEF TableType
  <1>1. Forward /\ FilesHere' /\ UNCHANGED <<row, final>>
    BY QuietForward DEF Seek, Quiet, disk
  <1>2. CASE RunAnew(p)
    <2> DEFINE job == [me[p] EXCEPT !.flow = "run", !.token = 0]
    <2>1. job.out = me[p].out /\ job.moved = me[p].moved  BY <1>0 DEF Jobs
    <2>2. GoWith(p, "run", job) \/ FailWith(p, "failed")  BY <1>2 DEF RunAnew
    <2> HIDE DEF job
    <2>3. Tame(p)
      <3>1. CASE GoWith(p, "run", job)
        <4>1. pc'[p] = "run" /\ me'[p] = job  BY <1>0, <3>1, Lands
        <4> QED  BY <2>1, <4>1 DEF Tame, Placing
      <3>2. CASE FailWith(p, "failed")
        BY <1>0, <3>2, TameRaise DEF Ended
      <3> QED  BY <2>2, <3>1, <3>2
    <2> QED  BY <1>1, <2>3, TameFiles
  <1>3. CASE Resume(p)
    <2> DEFINE job == [me[p] EXCEPT !.flow = "recover", !.image = marker.image, !.moved = (final # 0)]
    <2> DEFINE late == [job EXCEPT !.out = "timed_out"]
    <2>1. /\ job.out = me[p].out /\ job.moved = (final # 0)
          /\ late.out = "timed_out" /\ late.moved = (final # 0)
      BY <1>0 DEF Jobs
    <2>2. \/ \E s \in {"fail", "abort"} : GoWith(p, s, late)
          \/ \E s \in {"begin", "verify"} : GoWith(p, s, job)
          \/ final # 0 /\ \E s \in {"publish", "confirm"} : GoWith(p, s, job)
      BY <1>3 DEF Resume
    <2> HIDE DEF job, late
    <2>3. /\ me'[p].moved = (final # 0)
          /\ me'[p].out \in {me[p].out, "timed_out"}
          /\ \/ pc'[p] \in {"fail", "abort", "begin", "verify"}
             \/ final # 0 /\ pc'[p] \in {"publish", "confirm"}
      <3>1. ASSUME NEW s, GoWith(p, s, late) \/ GoWith(p, s, job)
            PROVE  pc'[p] = s /\ (me'[p] = late \/ me'[p] = job)
        BY <1>0, <3>1, Lands
      <3> QED  BY <2>1, <2>2, <3>1
    <2> QED  BY <1>1, <2>3 DEF FilesInv, FilesOf, Placing, row, Ended
  <1>4. CASE GoWith(p, "abort", [me[p] EXCEPT !.flow = "recover", !.out = "failed"]) \/ Rest(p)
    <2> DEFINE job == [me[p] EXCEPT !.flow = "recover", !.out = "failed"]
    <2>1. job.out = "failed" /\ job.moved = me[p].moved  BY <1>0 DEF Jobs
    <2>2. GoWith(p, "abort", job) \/ Rest(p)  BY <1>4
    <2> HIDE DEF job
    <2>3. Tame(p)
      <3>1. CASE GoWith(p, "abort", job)
        <4>1. pc'[p] = "abort" /\ me'[p] = job  BY <1>0, <3>1, Lands
        <4> QED  BY <2>1, <4>1 DEF Tame, Placing
      <3>2. CASE Rest(p)
        BY <1>0, <3>2, TameRest
      <3> QED  BY <2>2, <3>1, <3>2
    <2> QED  BY <1>1, <2>3, TameFiles
  <1> QED  BY <1>2, <1>3, <1>4 DEF Seek, Defer

LEMMA Others ==
  ASSUME TypeOK, NEW p \in Procs, ExecNext(p) \/ FailNext(p), NEW q \in Procs \ {p}
  PROVE  pc'[q] = pc[q] /\ me'[q] = me[q]
  <1>1. Moved(p) \/ UNCHANGED <<pc, me>>
   BY DeliverMoved, StartMoved, RunMoved, PersistMoved, BeginMoved, ReserveMoved,
       PublishMoved, FailMoves, SeekMoved DEF ExecNext, FailNext
  <1>2. TableType  BY Parts
  <1> QED  BY <1>1, <1>2 DEF Moved, GoWith, GoTo, TableType

LEMMA FilesExec ==
  ASSUME TypeOK, FilesInv, NEW p \in Procs, ExecNext(p) \/ FailNext(p) PROVE FilesInv'
  <1>1. Forward /\ FilesHere' /\ FilesOf(p)'
    BY FilesDeliver, FilesStart, FilesRun, FilesTake, FilesPublish, FilesReserve,
        FilesRename, FilesComplete, FilesEnd, FilesSeek DEF ExecNext, FailNext
  <1>2. ASSUME NEW q \in Procs \ {p} PROVE FilesOf(q)'
    BY <1>1, Others DEF FilesInv, FilesOf, Forward, Ended
  <1> QED  BY <1>1, <1>2 DEF FilesInv

LEMMA FilesNext == TypeOK /\ FilesInv /\ [Next]_vars => FilesInv'
  <1> SUFFICES ASSUME TypeOK, FilesInv, [Next]_vars PROVE FilesInv' OBVIOUS
  <1>1. CASE \E p \in Procs : ExecNext(p) \/ FailNext(p)
    BY <1>1, FilesExec
  <1>2. CASE Cancel \/ ReconDelete
    <2>1. Forward /\ FilesHere'
      BY <1>2 DEF Cancel, MayCancel, ReconDelete, FilesInv, FilesHere, Forward, row,
          disk, Ended, PublishedHasFiles, CancelledHasNoFiles
    <2>2. UNCHANGED <<pc, me>>  BY <1>2 DEF Cancel, ReconDelete
    <2> QED  BY <1>2, <2>1, <2>2 DEF FilesInv, FilesOf, Forward, Ended, Cancel,
        ReconDelete, row
  <1>3. CASE Expire \/ ReconLook \/ ReconNote \/ UNCHANGED vars
    BY <1>3 DEF Expire, ReconLook, ReconNote, IsSafeOrphan, vars, row, disk, FilesInv,
        FilesHere, FilesOf, PublishedHasFiles, CancelledHasNoFiles
  <1> QED  BY <1>1, <1>2, <1>3 DEF Next

LEMMA FilesInit == Init => FilesInv
  BY DEF Init, FilesInv, FilesHere, FilesOf, NoJob, Placing, PublishedHasFiles,
      CancelledHasNoFiles

\* A row that says published or registered has its files under their final
\* name until the task has ended without them (transition_conversion_publication
\* and complete_conversion_publication against the reconciler), for any number
\* of executors, deliveries and stalls.
THEOREM PublishedFiles == Spec => []PublishedHasFiles
  <1>1. FilesInv => PublishedHasFiles  BY DEF FilesInv, FilesHere
  <1> QED  BY <1>1, FilesInit, FilesNext, TypeCorrect, PTL DEF Spec

\* A cancelled conversion has reserved and published nothing: cancel_task and
\* begin_conversion_publication exclude each other, for any number of executors
\* that find out late.
THEOREM CancelledFiles == Spec => []CancelledHasNoFiles
  <1>1. FilesInv => CancelledHasNoFiles  BY DEF FilesInv, FilesHere
  <1> QED  BY <1>1, FilesInit, FilesNext, TypeCorrect, PTL DEF Spec

-----------------------------------------------------------------------------
(* The shape of a step: where an executor goes, what it keeps.              *)

Live(p) == pc[p] # "idle"
Current(p) == me[p].lease = attempt.owner

Helping == {"run", "running", "persist", "describe"}
Looking == {"start", "seek"}
Checked == {"mark", "check", "rename"}
Reading == {"verify", "note", "publish", "confirm", "complete"} \cup Checked
Carrying == {"begin", "reserve"} \cup Reading
Aside == {"ack", "handle", "settle", "abort", "remove", "command", "fail"}

Owns(p) == me'[p].lease = me[p].lease /\ me'[p].known \in {me[p].known, pub.state}
Same(p) == Owns(p) /\ me'[p].image = me[p].image

Leaves(p) ==
  \/ pc'[p] = "idle" /\ me'[p] = NoJob
  \/ pc'[p] \in Aside /\ Owns(p)
  \/ pc'[p] \in {"clean", "register"} /\ Owns(p) /\ pub'.state # "none"
Finds(p) ==
  /\ pc[p] = "start" /\ pc'[p] = "seek" /\ Same(p) 
  /\ me'[p].known = pub.state /\ me'[p].token = pub.token
Launches(p) ==
  /\ pc'[p] = "run" /\ Same(p) /\ Fenced(p)
  /\ \/ pc[p] = "start" /\ ~(me[p].lease > 1)
     \/ pc[p] = "seek" /\ (me[p].known = "aborted" \/ marker = NoMarker)
Helps(p) ==
  \/ pc[p] = "run" /\ pc'[p] = "running" /\ Same(p)
  \/ /\ pc[p] = "running" /\ pc'[p] = "persist"
     /\ me'[p].lease = me[p].lease /\ me'[p].known = me[p].known
     /\ me'[p].image = me[p].lease /\ staged' = me[p].lease
  \/ pc[p] = "persist" /\ pc'[p] = "describe" /\ Same(p) /\ final = 0
  \/ pc[p] = "describe" /\ pc'[p] = "begin" /\ Same(p)
Resumes(p) ==
  /\ pc[p] = "seek" /\ pc'[p] \in {"begin", "verify", "publish", "confirm"}
  /\ MarkerAgrees(me[p].known, me[p].token)
  /\ me'[p].lease = me[p].lease /\ me'[p].known = me[p].known
  /\ me'[p].token = me[p].token /\ me'[p].image = marker.image
  /\ pc'[p] # "begin" => me[p].known # "none"
Reserves(p) ==
  \/ pc[p] = "begin" /\ pc'[p] = "reserve" /\ Same(p)
  \/ /\ pc[p] = "reserve" /\ pc'[p] \in {"verify", "publish"} /\ me'[p] = me[p]
     /\ pub' = [state |-> "reserved", token |-> me[p].token]
Carries(p) ==
  /\ pc[p] \in Reading /\ pc'[p] \in Reading \ {"verify"} /\ me'[p] = me[p]
  /\ pc'[p] = "mark" => pc[p] = "verify" /\ marker.image = staged
  /\ pc'[p] = "check" => pc[p] = "mark"
  /\ pc'[p] = "rename" => pc[p] = "check"
Path(p) ==
  Leaves(p) \/ Finds(p) \/ Launches(p) \/ Helps(p) \/ Resumes(p) \/ Reserves(p) \/ Carries(p)

LEMMA Turns ==
  ASSUME TableType, NEW p \in Procs, NEW o \in Ended, Raise(p, o) \/ FailWith(p, o) PROVE Leaves(p)
  <1>1. pc'[p] \in {"fail", "handle", "command"} /\ me'[p] = [me[p] EXCEPT !.out = o]
    BY RaiseGoes, Lands DEF FailWith
  <1>2. me[p] \in Jobs  BY DEF TableType
  <1> QED  BY <1>1, <1>2 DEF Leaves, Aside, Same, Owns, Jobs

LEMMA Rests ==
  ASSUME TableType, NEW p \in Procs, Rest(p) PROVE Leaves(p)
  BY Lands DEF Rest, Leaves

LEMMA Goes ==
  ASSUME TableType, NEW p \in Procs, NEW s, GoTo(p, s) PROVE pc'[p] = s
  BY DEF GoTo, TableType

LEMMA StartPath ==
  ASSUME TypeOK, NEW p \in Procs, Start(p) PROVE Path(p)
  <1>0. TableType /\ me[p] \in Jobs /\ "failed" \in Ended BY Parts DEF TableType, Ended
  <1> DEFINE read == [me[p] EXCEPT !.known = pub.state, !.token = pub.token]
  <1>1. /\ read.lease = me[p].lease /\ read.image = me[p].image
        /\ read.known = pub.state /\ read.token = pub.token
    BY <1>0 DEF Jobs
  <1>2. \/ FailWith(p, "failed")
        \/ Fenced(p) /\ me[p].lease > 1 /\ GoWith(p, "seek", read)
        \/ Fenced(p) /\ ~(me[p].lease > 1) /\ GoWith(p, "run", read)
    BY DEF Start
  <1> HIDE DEF read
  <1>3. \/ Leaves(p)
        \/ pc'[p] = "seek" /\ me'[p] = read
        \/ Fenced(p) /\ ~(me[p].lease > 1) /\ pc'[p] = "run" /\ me'[p] = read
    BY <1>0, <1>2, Lands, Turns
  <1> QED  BY <1>1, <1>3 DEF Path, Finds, Launches, Same, Owns, Start

LEMMA HelpPath ==
  ASSUME TypeOK, NEW p \in Procs, RunStart(p) \/ RunEnd(p) \/ Persist(p) \/ Describe(p) PROVE Path(p)
  <1>0. TableType /\ me[p] \in Jobs BY Parts DEF TableType
  <1>1. CASE RunStart(p)
    <2>1. \/ \E o \in Ended : Raise(p, o)
          \/ GoTo(p, "running") /\ me' = me
      BY <1>1 DEF RunStart, Ended
    <2> QED  BY <1>0, <1>1, <2>1, Turns, Goes DEF RunStart, Path, Helps, Same, Owns
  <1>2. CASE RunEnd(p)
    <2> DEFINE job == [me[p] EXCEPT !.image = me[p].lease]
    <2>1. job.lease = me[p].lease /\ job.image = me[p].lease /\ job.known = me[p].known
      BY <1>0 DEF Jobs
    <2>2. \/ \E o \in Ended : Raise(p, o)
          \/ GoWith(p, "persist", job) /\ staged' = me[p].lease
      BY <1>2 DEF RunEnd
    <2> HIDE DEF job
    <2>3. Leaves(p) \/ (pc'[p] = "persist" /\ me'[p] = job /\ staged' = me[p].lease)
      BY <1>0, <2>2, Turns, Lands
    <2> QED  BY <1>2, <2>1, <2>3 DEF RunEnd, Path, Helps
  <1>3. CASE Persist(p)
    <2> DEFINE job == [me[p] EXCEPT !.digest = staged]
    <2>1. job.lease = me[p].lease /\ job.image = me[p].image /\ job.known = me[p].known
      BY <1>0 DEF Jobs
    <2>2. \/ \E o \in Ended : Raise(p, o)
          \/ GoWith(p, "describe", job) /\ final = 0
      BY <1>3 DEF Persist, Ended
    <2> HIDE DEF job
    <2>3. Leaves(p) \/ (pc'[p] = "describe" /\ me'[p] = job /\ final = 0)
      BY <1>0, <2>2, Turns, Lands
    <2> QED  BY <1>3, <2>1, <2>3 DEF Persist, Path, Helps, Same, Owns
  <1>4. CASE Describe(p)
    BY <1>0, <1>4, Goes DEF Describe, Path, Helps, Same, Owns
  <1> QED  BY <1>1, <1>2, <1>3, <1>4

LEMMA ReservePath ==
  ASSUME TypeOK, NEW p \in Procs, BeginRead(p) \/ Reserve(p) PROVE Path(p)
  <1>0. TableType /\ me[p] \in Jobs BY Parts DEF TableType
  <1>1. CASE BeginRead(p)
    <2> DEFINE job == [me[p] EXCEPT !.token = me[p].lease]
    <2> DEFINE late == [job EXCEPT !.out = "failed"]
    <2>1. /\ job.lease = me[p].lease /\ job.image = me[p].image /\ job.known = me[p].known
          /\ late.lease = me[p].lease /\ late.image = me[p].image /\ late.known = me[p].known
      BY <1>0 DEF Jobs
    <2>2. \/ GoWith(p, "reserve", job)
          \/ GoWith(p, "fail", late) \/ GoWith(p, "handle", late)
      BY <1>1 DEF BeginRead
    <2> HIDE DEF job, late
    <2>3. \/ pc'[p] = "reserve" /\ me'[p] = job
          \/ pc'[p] \in {"fail", "handle"} /\ me'[p] = late
      BY <1>0, <2>2, Lands
    <2> QED  BY <1>1, <2>1, <2>3 DEF BeginRead, Path, Reserves, Leaves, Aside, Same,
        Owns
  <1>2. CASE Reserve(p)
    <2> DEFINE job == [me[p] EXCEPT !.out = "timed_out"]
    <2>1. job.lease = me[p].lease /\ job.image = me[p].image /\ job.known = me[p].known
      BY <1>0 DEF Jobs
    <2>2. \/ Raise(p, "failed")
          \/ GoWith(p, "abort", job)
          \/ /\ \E s \in {"verify", "publish"} : GoTo(p, s) /\ me' = me
             /\ pub' = [state |-> "reserved", token |-> me[p].token]
      BY <1>2 DEF Reserve
    <2>3. \/ Leaves(p)
          \/ /\ pc'[p] \in {"verify", "publish"} /\ me' = me
             /\ pub' = [state |-> "reserved", token |-> me[p].token]
      <3>1. CASE Raise(p, "failed")  BY <1>0, <3>1, Turns DEF Ended
      <3>2. CASE GoWith(p, "abort", job)
        <4> HIDE DEF job
        <4>1. pc'[p] = "abort" /\ me'[p] = job  BY <1>0, <3>2, Lands
        <4> QED  BY <2>1, <4>1 DEF Leaves, Aside, Same, Owns
      <3> QED  BY <1>0, <2>2, <3>1, <3>2, Goes
    <2> QED  BY <1>2, <2>3 DEF Reserve, Path, Reserves
  <1> QED  BY <1>1, <1>2

LEMMA CarryPath ==
  ASSUME TypeOK, NEW p \in Procs,
         \/ Verify(p) \/ MarkPublishing(p) \/ PreRenameCheck(p) \/ Rename(p) \/ NotePublished(p)
         \/ Publish(p) \/ CompleteRead(p)
  PROVE  Path(p)
  <1>0. TableType /\ "failed" \in Ended /\ "timed_out" \in Ended BY Parts DEF Ended
  <1>1. \/ Leaves(p)
        \/ /\ me' = me
           /\ \/ pc[p] = "verify" /\ pc'[p] = "mark" /\ marker.image = staged
              \/ pc[p] = "mark" /\ pc'[p] = "check"
              \/ pc[p] = "check" /\ pc'[p] = "rename"
              \/ pc[p] = "rename" /\ pc'[p] = "note"
              \/ pc[p] = "note" /\ pc'[p] = "publish"
              \/ pc[p] = "publish" /\ pc'[p] = "confirm"
              \/ pc[p] = "confirm" /\ pc'[p] = "complete"
    BY <1>0, Turns, Goes DEF Verify, MarkPublishing, PreRenameCheck, Rename,
        NotePublished, Publish, CompleteRead
  <1>2. ASSUME me' = me PROVE me'[p] = me[p]  BY <1>2
  <1> QED  BY <1>1, <1>2 DEF Path, Carries, Reading, Checked

LEMMA AsidePath ==
  ASSUME TypeOK, NEW p \in Procs,
         \/ MarkRegistered(p) \/ Ack(p) \/ Handle(p) \/ Settle(p)
         \/ Clean(p) \/ Remove(p) \/ Command(p) \/ Fail(p) \/ Crash(p)
  PROVE  Path(p)
  <1>0. TableType /\ "failed" \in Ended /\ (StoppedMeanwhile => task \in Ended) BY Parts DEF Ended,
      StoppedMeanwhile
  <1>1. \/ \E o \in Ended : Raise(p, o) \/ FailWith(p, o)
        \/ Rest(p)
        \/ \E s \in Aside : GoTo(p, s) /\ me' = me
    BY <1>0 DEF MarkRegistered, Ack, Handle, Settle, Clean, Remove, Command, Fail,
        Crash, Defer, Aside
  <1>2. ASSUME NEW s \in Aside, GoTo(p, s), me' = me PROVE Leaves(p)
    BY <1>0, <1>2, Goes DEF Leaves, Same, Owns
  <1> QED  BY <1>0, <1>1, <1>2, Turns, Rests DEF Path

LEMMA EndPath ==
  ASSUME TypeOK, NEW p \in Procs, Complete(p) \/ Abort(p) PROVE Path(p)
  <1>0. TableType /\ RowType /\ "failed" \in Ended BY Parts DEF Ended
  <1>1. \/ Raise(p, "failed") \/ FailWith(p, "failed")
        \/ /\ (GoTo(p, "register") \/ GoTo(p, "clean")) /\ me' = me
           /\ \E s \in {"registered", "aborted"} : pub' = [pub EXCEPT !.state = s]
    BY DEF Complete, Abort, MovePublication
  <1>2. ASSUME NEW s \in {"registered", "aborted"}, pub' = [pub EXCEPT !.state = s] PROVE pub'.state # "none"
    BY <1>0, <1>2 DEF RowType
  <1>3. ASSUME me' = me PROVE Owns(p)  BY <1>3 DEF Owns
  <1> QED  BY <1>0, <1>1, <1>2, <1>3, Turns, Goes DEF Path, Leaves

LEMMA SeekPath ==
  ASSUME TypeOK, NEW p \in Procs, Seek(p) PROVE Path(p)
  <1>0. TableType /\ me[p] \in Jobs /\ "failed" \in Ended BY Parts DEF TableType, Ended
  <1>1. CASE RunAnew(p) /\ (me[p].known = "aborted" \/ marker = NoMarker)
    <2> DEFINE job == [me[p] EXCEPT !.flow = "run", !.token = 0]
    <2>1. job.lease = me[p].lease /\ job.image = me[p].image /\ job.known = me[p].known
      BY <1>0 DEF Jobs
    <2>2. (Fenced(p) /\ GoWith(p, "run", job)) \/ FailWith(p, "failed")
      BY <1>1 DEF RunAnew
    <2> HIDE DEF job
    <2>3. (Fenced(p) /\ pc'[p] = "run" /\ me'[p] = job) \/ Leaves(p)
      BY <1>0, <2>2, Turns, Lands
    <2> QED  BY <1>1, <2>1, <2>3 DEF Path, Launches, Same, Owns, Seek
  <1>2. CASE Resume(p) /\ MarkerAgrees(me[p].known, me[p].token)
    <2> DEFINE job == [me[p] EXCEPT !.flow = "recover", !.image = marker.image, !.moved = (final # 0)]
    <2> DEFINE late == [job EXCEPT !.out = "timed_out"]
    <2>1. /\ job.lease = me[p].lease /\ job.image = marker.image /\ job.known = me[p].known /\ job.token = me[p].token
          /\ late.lease = me[p].lease /\ late.known = me[p].known
      BY <1>0 DEF Jobs
    <2>2. \/ \E s \in {"fail", "abort"} : GoWith(p, s, late)
          \/ GoWith(p, "begin", job)
          \/ me[p].known # "none" /\ \E s \in {"verify", "publish", "confirm"} : GoWith(p, s, job)
      BY <1>2 DEF Resume
    <2> HIDE DEF job, late
    <2>3. \/ pc'[p] \in {"fail", "abort"} /\ me'[p] = late
          \/ pc'[p] = "begin" /\ me'[p] = job
          \/ me[p].known # "none" /\ pc'[p] \in {"verify", "publish", "confirm"} /\ me'[p] = job
      <3>1. ASSUME NEW s PROVE (GoWith(p, s, late) => pc'[p] = s /\ me'[p] = late) /\ (GoWith(p, s, job) => pc'[p] = s /\ me'[p] = job)
        BY <1>0, Lands
      <3> QED  BY <2>2, <3>1
    <2> QED  BY <1>2, <2>1, <2>3 DEF Path, Resumes, Leaves, Aside, Same, Owns, Seek
  <1>3. CASE GoWith(p, "abort", [me[p] EXCEPT !.flow = "recover", !.out = "failed"])
    <2> DEFINE job == [me[p] EXCEPT !.flow = "recover", !.out = "failed"]
    <2>1. job.lease = me[p].lease /\ job.image = me[p].image /\ job.known = me[p].known
      BY <1>0 DEF Jobs
    <2> HIDE DEF job
    <2>3. pc'[p] = "abort" /\ me'[p] = job
      BY <1>0, <1>3, Lands DEF job
    <2> QED  BY <2>1, <2>3 DEF Path, Leaves, Aside, Same, Owns
  <1> QED  BY <1>0, <1>1, <1>2, <1>3, Rests DEF Seek, Defer, Path

LEMMA Paths ==
  ASSUME TypeOK, NEW p \in Procs, ExecNext(p) \/ FailNext(p), Live(p) PROVE Path(p)
  <1>1. ~Deliver(p)  BY DEF Deliver, Live
  <1> QED  BY <1>1, StartPath, HelpPath, ReservePath, CarryPath, AsidePath, EndPath,
      SeekPath DEF ExecNext, FailNext

-----------------------------------------------------------------------------
(* What the step of an executor at work may write, and the ledger of deliveries. *)

Effects(p) ==
  /\ attempt'.owner = attempt.owner /\ message'.count = message.count /\ message'.stalls = message.stalls
  /\ deadline' = deadline /\ recon' = recon
  /\ pub.state = "aborted" => pub'.state = "aborted"
  /\ marker' # marker => pc[p] \in {"describe", "mark", "note", "register", "clean"}
  /\ marker # NoMarker => marker' # NoMarker
  /\ marker'.image # marker.image => pc[p] = "describe"
  /\ \/ staged' \in {0, staged}
     \/ pc[p] = "run" /\ ~deadline
     \/ pc[p] = "running" /\ staged = Torn
  /\ \/ final' = final
     \/ pc[p] = "rename" /\ final' = staged

LEMMA EffectsRow ==
  ASSUME TypeOK, NEW p \in Procs, ExecNext(p) \/ FailNext(p), Live(p)
  PROVE  /\ attempt'.owner = attempt.owner /\ message'.count = message.count /\ message'.stalls = message.stalls
         /\ deadline' = deadline /\ recon' = recon
         /\ pub.state = "aborted" => pub'.state = "aborted"
  <1>0. RowType /\ RestType  BY Parts
  <1>1. ~Deliver(p)  BY DEF Deliver, Live
  <1>2. attempt' \in {attempt, [attempt EXCEPT !.state = "closed"]}
    BY <1>1 DEF ExecNext, FailNext, Start, RunStart, RunEnd, Persist, Describe,
        BeginRead, Reserve,
         Verify, MarkPublishing, PreRenameCheck, Rename, NotePublished, Publish, CompleteRead, Complete, MarkRegistered,
         Ack, Seek, Handle, Settle, Abort, Clean, Remove, Command, Fail, Crash, row
  <1>3. message' \in {message, [message EXCEPT !.done = TRUE]} /\ UNCHANGED <<deadline, recon>>
    BY <1>1 DEF ExecNext, FailNext, Start, RunStart, RunEnd, Persist, Describe,
        BeginRead, Reserve,
         Verify, MarkPublishing, PreRenameCheck, Rename, NotePublished, Publish, CompleteRead, Complete, MarkRegistered,
         Ack, Seek, Handle, Settle, Abort, Clean, Remove, Command, Fail, Crash
  <1>4. pub.state = "aborted" => pub'.state = "aborted"
    <2>1. CASE UNCHANGED pub  BY <2>1
    <2>2. CASE Reserve(p) BY <2>2 DEF Reserve
    <2>3. CASE Publish(p) \/ Settle(p) \/ Complete(p)
      BY <2>3 DEF Publish, Settle, Complete, MayMove, MayComplete, Holds, row
    <2>4. CASE Abort(p)
      BY <1>0, <2>4 DEF Abort, MovePublication, RowType
    <2> QED BY <1>1, <2>1, <2>2, <2>3, <2>4 DEF ExecNext, FailNext, Start, RunStart,
        RunEnd, Persist, Describe, BeginRead,
         Verify, MarkPublishing, PreRenameCheck, Rename, NotePublished, CompleteRead, MarkRegistered,
         Ack, Seek, Handle, Clean, Remove, Command, Fail, Crash, row
  <1>5. attempt'.owner = attempt.owner /\ message'.count = message.count /\ message'.stalls = message.stalls
    BY <1>0, <1>2, <1>3 DEF RowType, RestType
  <1> QED  BY <1>3, <1>4, <1>5

LEMMA EffectsDisk ==
  ASSUME TypeOK, NEW p \in Procs, ExecNext(p) \/ FailNext(p), Live(p)
  PROVE
  /\ marker' # marker => pc[p] \in {"describe", "mark", "note", "register", "clean"}
  /\ marker # NoMarker => marker' # NoMarker
  /\ marker'.image # marker.image => pc[p] = "describe"
  /\ \/ staged' \in {0, staged}
     \/ pc[p] = "run" /\ ~deadline
     \/ pc[p] = "running" /\ staged = Torn
  /\ \/ final' = final
     \/ pc[p] = "rename" /\ final' = staged
  <1>0. DiskType  BY Parts
  <1>1. CASE UNCHANGED disk  BY <1>1 DEF disk
  <1>2. CASE Deliver(p)  BY <1>2 DEF Deliver, Live
  <1>3. CASE RunStart(p) \/ RunEnd(p) \/ Rename(p) \/ Remove(p)
    BY <1>3 DEF RunStart, RunEnd, Rename, Remove
  <1>4. CASE Describe(p) \/ MarkPublishing(p) \/ NotePublished(p) \/ MarkRegistered(p) \/ Clean(p)
    <2>1. pc[p] \in {"describe", "mark", "note", "register", "clean"} /\ UNCHANGED <<staged, final>>
      BY <1>4 DEF Describe, MarkPublishing, NotePublished, MarkRegistered, Clean
    <2>2. marker' # marker => marker'.state # "absent"
      BY <1>0, <1>4 DEF DiskType, Describe, MarkPublishing, NotePublished,
          MarkRegistered, Clean
    <2>3. marker'.image # marker.image => pc[p] = "describe"
      BY <1>0, <1>4 DEF DiskType, Describe, MarkPublishing, NotePublished,
          MarkRegistered, Clean
    <2> QED  BY <2>1, <2>2, <2>3 DEF NoMarker
  <1> QED  BY <1>1, <1>2, <1>3, <1>4 DEF ExecNext, FailNext, Start, Persist, BeginRead,
      Reserve,
         Verify, PreRenameCheck, Publish, CompleteRead, Complete,
         Ack, Seek, Handle, Settle, Abort, Command, Fail, Crash

LEMMA EffectsOf ==
  ASSUME TypeOK, NEW p \in Procs, ExecNext(p) \/ FailNext(p), Live(p) PROVE Effects(p)
  BY EffectsRow, EffectsDisk DEF Effects

-----------------------------------------------------------------------------
DeliveryInv ==
  /\ message.count = attempt.owner
  /\ \A p \in Procs : Live(p) => me[p].lease \in 1 .. message.count
  /\ \A p, q \in Procs : Live(p) /\ Live(q) /\ me[p].lease = me[q].lease => p = q
  /\ \A p \in Procs : pc[p] \in {"start", "run", "running"} /\ ~Current(p) => deadline

FewInv ==
  /\ message.stalls = 0 => \A p, q \in Procs : Live(p) /\ Live(q) => p = q
  /\ message.stalls <= 1 => \A p, q, r \in Procs : Live(p) /\ Live(q) /\ Live(r) => p = q \/ q = r \/ p = r

\* The delivery that starts an execution.
Starts(p) ==
  /\ ~Live(p) /\ pc'[p] = "start"
  /\ me'[p].lease = message.count + 1 /\ me'[p].known = "none"
  /\ message'.count = message.count + 1 /\ attempt'.owner = message.count + 1
  /\ message.count > 0 => LeaseRanOut
  /\ message'.stalls = message.stalls + IF Stalled THEN 1 ELSE 0
  /\ UNCHANGED <<task, pub, built, disk, deadline, recon>>

\* The delivery of a settled task.
Settles(p) ==
  /\ ~Live(p)
  /\ attempt' = attempt /\ message'.count = message.count /\ message'.stalls = message.stalls
  /\ UNCHANGED <<task, pub, built, disk, deadline, recon, pc, me>>

LEMMA DeliverPath ==
  ASSUME TypeOK, NEW p \in Procs, Deliver(p) PROVE Starts(p) \/ Settles(p)
  <1>0. TableType /\ RowType /\ RestType  BY Parts
  <1> DEFINE n == message.count + 1
             s == message.stalls + IF Stalled THEN 1 ELSE 0
             job == [NoJob EXCEPT !.lease = n]
  <1>1. job.lease = n /\ job.known = "none"  BY DEF NoJob
  <1>2. CASE /\ message' = [message EXCEPT !.count = n, !.stalls = s]
             /\ attempt' = [attempt EXCEPT !.owner = n]
             /\ GoWith(p, "start", job)
    <2> HIDE DEF job, n, s
    <2>1. pc'[p] = "start" /\ me'[p] = job  BY <1>0, <1>2, Lands
    <2>2. message'.count = n /\ message'.stalls = s /\ attempt'.owner = n
      BY <1>0, <1>2 DEF RowType, RestType
    <2>3. ~Live(p) /\ (message.count > 0 => LeaseRanOut) /\ UNCHANGED <<task, pub, built, disk, deadline, recon>>
      BY DEF Deliver, Live
    <2> QED  BY <1>1, <2>1, <2>2, <2>3 DEF Starts, n, s
  <1>3. CASE message' = [message EXCEPT !.done = TRUE] /\ UNCHANGED <<attempt, pc, me>>
    <2>1. message'.count = message.count /\ message'.stalls = message.stalls
      BY <1>0, <1>3 DEF RestType
    <2> QED  BY <1>3, <2>1 DEF Deliver, Settles, Live
  <1> QED  BY <1>2, <1>3 DEF Deliver

\* What the other processes and the reconciler do to the ledger of deliveries.
LEMMA PathLease ==
  ASSUME NEW p \in Procs, Path(p)
  PROVE  /\ Live(p)' => me'[p].lease = me[p].lease
         /\ pc'[p] \in {"start", "run", "running"} =>
              pc[p] = "run" \/ (Fenced(p) /\ me'[p].lease = me[p].lease)
  BY DEF Path, Leaves, Finds, Launches, Helps, Resumes, Reserves, Carries, Owns, Same,
      Live, Reading, Checked, Aside

\* A step of an executor that is at work.
Works(p) == Live(p) /\ Path(p) /\ Effects(p)

\* Everyone but the executors, on the deliveries.
Outside ==
  /\ UNCHANGED <<pc, me, message>>
  /\ attempt'.owner = attempt.owner
  /\ deadline => deadline'

LEMMA OthersLease ==
  ASSUME TypeOK, NEW p \in Procs, ExecNext(p) \/ FailNext(p)
  PROVE  /\ Starts(p) \/ Settles(p) \/ Works(p)
         /\ \A q \in Procs \ {p} : pc'[q] = pc[q] /\ me'[q] = me[q]
  <1>1. Deliver(p) \/ Live(p)
    BY DEF ExecNext, FailNext, Live, Start, RunStart, RunEnd, Persist, Describe,
        BeginRead, Reserve,
         Verify, MarkPublishing, PreRenameCheck, Rename, NotePublished, Publish, CompleteRead, Complete, MarkRegistered,
         Ack, Seek, Handle, Settle, Abort, Clean, Remove, Command, Fail, Crash
  <1> QED  BY <1>1, DeliverPath, Paths, EffectsOf, Others DEF Works

LEMMA DeliveryStarts ==
  ASSUME TypeOK, DeliveryInv, NEW p \in Procs, Starts(p),
         \A q \in Procs \ {p} : pc'[q] = pc[q] /\ me'[q] = me[q]
  PROVE  DeliveryInv'
  <1>0. message.count \in Nat  BY Parts, BoundsAssumption DEF RestType
  <1>1. (message.count = attempt.owner)'  BY DEF Starts
  <1>2. ASSUME NEW q \in Procs, Live(q)' PROVE me'[q].lease \in 1 .. message'.count /\ (q # p => me'[q].lease \in 1 .. message.count)
    <2>1. CASE q = p  BY <1>0, <2>1 DEF Starts
    <2>2. CASE q # p
      <3>1. Live(q)  BY <1>2, <2>2 DEF Live
      <3>2. me[q].lease \in 1 .. message.count  BY <3>1 DEF DeliveryInv
      <3> QED  BY <1>0, <2>2, <3>2 DEF Starts
    <2> QED  BY <2>1, <2>2
  <1>3. ASSUME NEW q \in Procs, NEW r \in Procs, Live(q)', Live(r)', me'[q].lease = me'[r].lease PROVE q = r
    <2>1. CASE q # p /\ r # p
      <3>1. Live(q) /\ Live(r) /\ me[q].lease = me[r].lease  BY <1>3, <2>1 DEF Live
      <3> QED  BY <3>1 DEF DeliveryInv
    <2>2. CASE q = p \/ r = p
      <3>1. me'[p].lease = message.count + 1  BY DEF Starts
      <3>2. q = p /\ r = p
        BY <1>0, <1>2, <1>3, <2>2, <3>1
      <3> QED  BY <3>2
    <2> QED  BY <2>1, <2>2
  <1>4. ASSUME NEW q \in Procs, pc'[q] \in {"start", "run", "running"}, ~Current(q)' PROVE deadline'
    <2>1. q # p  BY <1>4 DEF Starts, Current
    <2>2. pc[q] \in {"start", "run", "running"} /\ Live(q)  BY <1>4, <2>1 DEF Live
    <2>3. message.count > 0  BY <1>0, <2>2 DEF DeliveryInv
    <2> QED  BY <2>2, <2>3 DEF Starts, LeaseRanOut
  <1> QED  BY <1>1, <1>2, <1>3, <1>4 DEF DeliveryInv

LEMMA DeliveryWorks ==
  ASSUME DeliveryInv, NEW p \in Procs, Works(p),
         \A q \in Procs \ {p} : pc'[q] = pc[q] /\ me'[q] = me[q]
  PROVE  DeliveryInv'
  <1>1. ASSUME NEW q \in Procs, Live(q)' PROVE Live(q) /\ me'[q].lease = me[q].lease
    BY <1>1, PathLease DEF Works, Live
  <1>2. message'.count = message.count /\ attempt'.owner = attempt.owner /\ deadline' = deadline
    BY DEF Works, Effects
  <1>3. ASSUME NEW q \in Procs, pc'[q] \in {"start", "run", "running"}, ~Current(q)' PROVE deadline'
    <2>1. me'[q].lease = me[q].lease  BY <1>1, <1>3 DEF Live
    <2>2. ~Current(q)  BY <1>2, <1>3, <2>1 DEF Current
    <2>3. CASE q = p
      <3>1. pc[p] = "run" \/ Fenced(p)  BY <1>3, <2>3, PathLease DEF Works
      <3> QED  BY <1>2, <2>2, <2>3, <3>1 DEF DeliveryInv, Fenced, Current
    <2>4. CASE q # p  BY <1>2, <1>3, <2>2, <2>4 DEF DeliveryInv
    <2> QED  BY <2>3, <2>4
  <1> QED  BY <1>1, <1>2, <1>3 DEF DeliveryInv

LEMMA DeliveryNext == TypeOK /\ DeliveryInv /\ [Next]_vars => DeliveryInv'
  <1> SUFFICES ASSUME TypeOK, DeliveryInv, [Next]_vars PROVE DeliveryInv' OBVIOUS
  <1>1. CASE \E p \in Procs : ExecNext(p) \/ FailNext(p)
    <2>1. PICK p \in Procs : ExecNext(p) \/ FailNext(p)  BY <1>1
    <2>2. CASE Settles(p)
      BY <2>2 DEF Settles, DeliveryInv, Live, Current
    <2> QED  BY <2>1, <2>2, OthersLease, DeliveryStarts, DeliveryWorks
  <1>2. CASE ~\E p \in Procs : ExecNext(p) \/ FailNext(p)
    <2>1. Outside
      BY <1>2, Parts DEF RowType, Next, Cancel, Expire, ReconLook, ReconDelete,
          ReconNote, vars, row, Outside
    <2> QED  BY <2>1 DEF Outside, DeliveryInv, Live, Current
  <1> QED  BY <1>1, <1>2

LEMMA FewNext == TypeOK /\ FewInv /\ [Next]_vars => FewInv'
  <1> SUFFICES ASSUME TypeOK, FewInv, [Next]_vars PROVE FewInv' OBVIOUS
  <1>0. message.stalls \in Nat  BY Parts, BoundsAssumption DEF RestType
  <1>1. CASE \E p \in Procs : Starts(p) /\ \A q \in Procs \ {p} : pc'[q] = pc[q]
    <2>1. PICK p \in Procs : Starts(p) /\ \A q \in Procs \ {p} : pc'[q] = pc[q]  BY <1>1
    <2>2. ASSUME NEW q \in Procs, Live(q)' PROVE q = p \/ (Live(q) /\ Stalled)
      BY <2>1, <2>2 DEF Live, Stalled
    <2>3. CASE Stalled
      <3>1. message'.stalls = message.stalls + 1  BY <2>1, <2>3 DEF Starts
      <3>2. message'.stalls <= 1 => message.stalls = 0  BY <1>0, <3>1
      <3> QED  BY <1>0, <2>2, <3>1, <3>2 DEF FewInv
    <2>4. CASE ~Stalled
      BY <2>2, <2>4 DEF FewInv
    <2> QED  BY <2>3, <2>4
  <1>2. CASE message'.stalls = message.stalls /\ \A q \in Procs : Live(q)' => Live(q)
    BY <1>2 DEF FewInv
  <1>3. CASE \E p \in Procs : ExecNext(p) \/ FailNext(p)
    <2>1. PICK p \in Procs : ExecNext(p) \/ FailNext(p)  BY <1>3
    <2>2. CASE Settles(p)
      BY <1>2, <2>2 DEF Settles, Live
    <2>3. CASE Works(p)
      BY <1>2, <2>1, <2>3, OthersLease DEF Works, Effects, Live
    <2> QED  BY <1>1, <2>1, <2>2, <2>3, OthersLease
  <1>4. CASE ~\E p \in Procs : ExecNext(p) \/ FailNext(p)
    BY <1>2, <1>4 DEF Next, Cancel, Expire, ReconLook, ReconDelete, ReconNote, vars,
        Live
  <1> QED  BY <1>3, <1>4

-----------------------------------------------------------------------------
(* The marker, and an executor alone.                                       *)

Blank == marker = NoMarker \/ pub.state = "aborted"
Agree == staged \in {0, marker.image}

MarkerInv ==
  /\ message.count = 0 => marker = NoMarker
  /\ recon # "idle" => marker # NoMarker
  /\ \A p \in Procs : me[p].known = "aborted" => pub.state = "aborted"
  /\ \A p \in Procs : pc[p] = "start" /\ me[p].lease = 1 /\ Current(p) => marker = NoMarker

AloneInv ==
  message.stalls = 0 =>
    /\ \A p \in Procs : pc[p] \in Helping => Blank
    /\ \A p \in Procs : pc[p] \in Checked => Agree

PairInv ==
  message.stalls <= 1 =>
    /\ \A p, q \in Procs : pc[p] \in Looking /\ pc[q] \in Helping => Blank
    /\ \A p, q \in Procs : pc[p] \in Looking /\ pc[q] \in Checked => Agree

Still(p) == \A q \in Procs \ {p} : pc'[q] = pc[q] /\ me'[q] = me[q]

\* A step of the reconciler, the user or the clock.
Apart ==
  /\ UNCHANGED <<pc, me, message, staged>>
  /\ attempt'.owner = attempt.owner
  /\ pub' = pub /\ marker'.image = marker.image
  /\ final' \in {0, final}
  /\ marker # NoMarker => marker' # NoMarker
  /\ marker' # marker => recon # "idle"
  /\ recon' # "idle" => recon # "idle" \/ marker # NoMarker

LEMMA ApartStep ==
  ASSUME TypeOK, [Next]_vars, ~\E p \in Procs : ExecNext(p) \/ FailNext(p) PROVE Apart
  <1>0. RowType /\ DiskType /\ RestType  BY Parts
  <1>1. CASE Cancel \/ Expire \/ UNCHANGED vars
    BY <1>0, <1>1 DEF Cancel, Expire, vars, row, disk, Apart, RowType
  <1>2. CASE ReconLook
    BY <1>2 DEF ReconLook, Apart, row, disk, NoMarker, Pending
  <1>3. CASE ReconDelete
    BY <1>3 DEF ReconDelete, Apart, row
  <1>4. CASE ReconNote
    <2>1. marker'.state # "absent" /\ marker'.image = marker.image
      BY <1>0, <1>4 DEF ReconNote, DiskType, MarkerStates
    <2> QED  BY <1>4, <2>1 DEF ReconNote, Apart, row, NoMarker
  <1> QED  BY <1>1, <1>2, <1>3, <1>4 DEF Next

\* Every step is one of these.
LEMMA EveryStep ==
  ASSUME TypeOK, [Next]_vars
  PROVE  \/ Apart
         \/ \E p \in Procs : (Starts(p) \/ Settles(p) \/ Works(p)) /\ Still(p)
  BY ApartStep, OthersLease DEF Still

LEMMA MarkerNext == TypeOK /\ DeliveryInv /\ MarkerInv /\ [Next]_vars => MarkerInv'
  <1> SUFFICES ASSUME TypeOK, DeliveryInv, MarkerInv, [Next]_vars PROVE MarkerInv' OBVIOUS
  <1>0. message.count \in Nat  BY Parts, BoundsAssumption DEF RestType
  <1>1. CASE Apart
    BY <1>1 DEF MarkerInv, Apart, Current
  <1>2. ASSUME NEW p \in Procs, Starts(p), Still(p) PROVE MarkerInv'
    <2>1. marker' = marker /\ pub' = pub /\ recon' = recon  BY <1>2 DEF Starts, disk
    <2>2. message'.count # 0  BY <1>0, <1>2 DEF Starts
    <2>3. ASSUME NEW q \in Procs, me'[q].known = "aborted" PROVE pub'.state = "aborted"
      BY <1>2, <2>1, <2>3 DEF Starts, Still, MarkerInv
    <2>4. ASSUME NEW q \in Procs, pc'[q] = "start", me'[q].lease = 1, Current(q)' PROVE marker' = NoMarker
      <3>1. message.count + 1 = 1  BY <1>2, <2>4 DEF Starts, Current
      <3>2. message.count = 0  BY <1>0, <3>1
      <3> QED  BY <2>1, <3>2 DEF MarkerInv
    <2> QED  BY <2>1, <2>2, <2>3, <2>4 DEF MarkerInv
  <1>3. ASSUME NEW p \in Procs, Settles(p) PROVE MarkerInv'
    BY <1>3 DEF Settles, disk, MarkerInv, Current
  <1>4. ASSUME NEW p \in Procs, Works(p), Still(p) PROVE MarkerInv'
    <2>1. message.count # 0  BY <1>0, <1>4 DEF Works, DeliveryInv
    <2>2. me'[p].known \in {me[p].known, pub.state, "none"}
      BY <1>4 DEF Works, Path, Leaves, Finds, Launches, Helps, Resumes, Reserves,
          Carries, Owns, Same, NoJob
    <2>3. ASSUME NEW q \in Procs, me'[q].known = "aborted" PROVE pub'.state = "aborted"
      BY <1>4, <2>2, <2>3 DEF Works, Effects, Still, MarkerInv
    <2>4. ASSUME NEW q \in Procs, pc'[q] = "start", me'[q].lease = 1, Current(q)' PROVE marker' = NoMarker
      <3>1. q # p
        BY <1>4, <2>4 DEF Works, Path, Leaves, Finds, Launches, Helps, Resumes,
            Reserves, Carries, Reading, Checked, Aside
      <3>2. Live(q) /\ me[q].lease = 1 /\ attempt.owner = 1
        BY <1>4, <2>4, <3>1 DEF Works, Effects, Still, Current, Live
      <3>3. me[p].lease \in 1 .. 1 /\ Live(p)  BY <1>4, <3>2 DEF Works, DeliveryInv
      <3>4. me[p].lease = me[q].lease  BY <3>2, <3>3
      <3> QED  BY <3>1, <3>2, <3>3, <3>4 DEF DeliveryInv
    <2> QED  BY <1>4, <2>1, <2>3, <2>4 DEF Works, Effects, MarkerInv
  <1> QED  BY <1>1, <1>2, <1>3, <1>4, EveryStep

LEMMA AloneNext ==
  TypeOK /\ DeliveryInv /\ FewInv /\ MarkerInv /\ AloneInv /\ [Next]_vars => AloneInv'
  <1> SUFFICES ASSUME TypeOK, DeliveryInv, FewInv, MarkerInv, AloneInv, [Next]_vars, message'.stalls = 0
               PROVE  /\ \A p \in Procs : pc'[p] \in Helping => Blank'
                      /\ \A p \in Procs : pc'[p] \in Checked => Agree'
    BY DEF AloneInv
  <1>0. message.stalls \in Nat /\ message.count \in Nat  BY Parts, BoundsAssumption
      DEF RestType
  <1>1. CASE Apart
    BY <1>1 DEF Apart, MarkerInv, AloneInv, Blank, Agree
  <1>2. ASSUME NEW p \in Procs, Starts(p), Still(p)
        PROVE  \A q \in Procs : pc'[q] \notin Helping /\ pc'[q] \notin Checked
    <2>1. ~Stalled  BY <1>0, <1>2 DEF Starts
    <2> QED  BY <1>2, <2>1 DEF Starts, Still, Stalled, Helping, Checked
  <1>3. ASSUME NEW p \in Procs, Settles(p) PROVE AloneInv'
    BY <1>3 DEF Settles, disk, AloneInv, Blank, Agree
  <1>4. ASSUME NEW p \in Procs, Works(p), Still(p)
        PROVE  /\ \A q \in Procs : pc'[q] \in Helping => Blank'
               /\ \A q \in Procs : pc'[q] \in Checked => Agree'
    <2>1. message.stalls = 0  BY <1>4 DEF Works, Effects
    <2>2. ASSUME NEW q \in Procs, pc'[q] # "idle" PROVE q = p
      BY <1>4, <2>1, <2>2 DEF Still, FewInv, Live, Works
    <2>3. ASSUME pc'[p] \in Helping PROVE Blank'
      <3>1. /\ pc[p] \in {"run", "running", "persist", "start", "seek"}
            /\ \/ pc[p] \in Helping
               \/ me[p].known = "aborted" \/ marker = NoMarker
               \/ pc[p] = "start" /\ Fenced(p) /\ ~(me[p].lease > 1)
        BY <1>4, <2>3 DEF Works, Path, Leaves, Finds, Launches, Helps, Resumes,
            Reserves, Carries, Reading, Checked, Aside, Helping
      <3>2. CASE pc[p] = "start" /\ Fenced(p) /\ ~(me[p].lease > 1)
        <4>1. me[p].lease = 1  BY <1>0, <1>4, <3>2 DEF Works, DeliveryInv
        <4> QED  BY <1>4, <3>1, <3>2, <4>1 DEF MarkerInv, Fenced, Current, Works,
            Effects, Blank
      <3>3. CASE pc[p] \in Helping \/ me[p].known = "aborted" \/ marker = NoMarker
        <4>1. Blank  BY <2>1, <3>3 DEF AloneInv, MarkerInv, Blank
        <4> QED  BY <1>4, <3>1, <4>1 DEF Blank, Works, Effects
      <3> QED  BY <3>1, <3>2, <3>3
    <2>4. ASSUME pc'[p] \in Checked PROVE Agree'
      <3>1. pc[p] \in {"verify", "mark", "check"} /\ (pc[p] = "verify" => marker.image = staged)
        BY <1>4, <2>4 DEF Works, Path, Leaves, Finds, Launches, Helps, Resumes,
            Reserves, Carries, Reading, Checked, Aside
      <3>2. Agree  BY <2>1, <3>1 DEF AloneInv, Agree, Checked
      <3> QED  BY <1>4, <3>1, <3>2 DEF Agree, Works, Effects
    <2> QED  BY <2>2, <2>3, <2>4 DEF Helping, Checked
  <1> QED  BY <1>1, <1>2, <1>3, <1>4, EveryStep DEF AloneInv

-----------------------------------------------------------------------------
(* Two executors, and the content that gets registered.                     *)

LEMMA Shapes ==
  ASSUME NEW p \in Procs, Works(p)
  PROVE  /\ pc'[p] \in Looking => pc[p] = "start"
         /\ pc'[p] \in Helping =>
              /\ pc[p] \in {"run", "running", "persist", "start", "seek"}
              /\ \/ pc[p] \in Helping
                 \/ Fenced(p) /\ pc[p] \in Looking /\ (me[p].known = "aborted" \/ marker = NoMarker)
                 \/ Fenced(p) /\ pc[p] = "start" /\ ~(me[p].lease > 1)
         /\ pc'[p] \in Checked =>
              /\ pc[p] \in {"verify", "mark", "check"}
              /\ pc[p] = "verify" => marker.image = staged
  BY DEF Works, Path, Leaves, Finds, Launches, Helps, Resumes, Reserves, Carries,
      Reading, Checked, Aside, Helping, Looking

LEMMA PairNext ==
  TypeOK /\ DeliveryInv /\ FewInv /\ MarkerInv /\ AloneInv /\ PairInv /\ [Next]_vars => PairInv'
  <1> SUFFICES ASSUME TypeOK, DeliveryInv, FewInv, MarkerInv, AloneInv, PairInv, [Next]_vars,
                      message'.stalls <= 1, NEW a \in Procs, NEW b \in Procs, pc'[a] \in Looking
               PROVE  (pc'[b] \in Helping => Blank') /\ (pc'[b] \in Checked => Agree')
    BY DEF PairInv
  <1>0. message.stalls \in Nat /\ message.count \in Nat  BY Parts, BoundsAssumption
      DEF RestType
  <1>1. CASE Apart
    BY <1>1 DEF Apart, MarkerInv, PairInv, Blank, Agree
  <1>2. CASE \E p \in Procs : Starts(p) /\ Still(p)
    <2>1. PICK p \in Procs : Starts(p) /\ Still(p)  BY <1>2
    <2>2. CASE b = p  BY <2>1, <2>2 DEF Starts, Helping, Checked
    <2>3. CASE b # p /\ pc[b] \in Helping \cup Checked
      <3>1. Stalled  BY <2>3 DEF Stalled, Helping, Checked
      <3>2. message.stalls = 0  BY <1>0, <2>1, <3>1 DEF Starts
      <3> QED  BY <2>1, <2>3, <3>2 DEF AloneInv, Starts, Still, disk, Blank, Agree
    <2> QED  BY <2>1, <2>2, <2>3 DEF Still
  <1>3. CASE \E p \in Procs : Settles(p)
    BY <1>3 DEF Settles, disk, PairInv, Blank, Agree
  <1>4. CASE \E p \in Procs : Works(p) /\ Still(p)
    <2>1. PICK p \in Procs : Works(p) /\ Still(p)  BY <1>4
    <2>2. message.stalls <= 1  BY <2>1 DEF Works, Effects
    <2>3. ASSUME pc'[b] \in Helping \cup Checked, a # p, b # p PROVE FALSE
      BY <2>1, <2>2, <2>3 DEF FewInv, Still, Works, Live, Looking, Helping, Checked
    <2>4. ASSUME pc'[b] \in Helping PROVE Blank'
      <3>1. CASE b = p
        <4>1. a # p /\ pc[a] \in Looking
          BY <2>1, <2>4, <3>1 DEF Still, Looking, Helping
        <4>2. CASE Fenced(p) /\ pc[p] = "start" /\ ~(me[p].lease > 1)
          <5>1. me[p].lease = 1 /\ message.count = 1
            BY <1>0, <2>1, <4>2 DEF Works, DeliveryInv, Fenced
          <5>2. me[a].lease = 1 /\ Live(a)  BY <4>1, <5>1 DEF DeliveryInv, Live, Looking
          <5> QED  BY <2>1, <4>1, <5>1, <5>2 DEF DeliveryInv, Works
        <4>3. CASE Blank /\ pc[p] \in {"run", "running", "persist", "start", "seek"}
          BY <2>1, <4>3 DEF Blank, Works, Effects
        <4>4. pc[p] \in Helping => Blank
          BY <2>2, <4>1 DEF PairInv
        <4> QED  BY <2>1, <2>4, <3>1, <4>2, <4>3, <4>4, Shapes DEF Blank, MarkerInv
      <3>2. CASE a = p /\ b # p
        <4>1. pc[p] = "start" /\ pc[b] \in Helping  BY <2>1, <2>4, <3>2, Shapes
            DEF Still
        <4>2. Blank  BY <2>2, <4>1 DEF PairInv, Looking
        <4> QED  BY <2>1, <4>1, <4>2 DEF Blank, Works, Effects
      <3> QED  BY <2>3, <2>4, <3>1, <3>2
    <2>5. ASSUME pc'[b] \in Checked PROVE Agree'
      <3>1. CASE b = p
        <4>1. a # p /\ pc[a] \in Looking
          BY <2>1, <2>5, <3>1 DEF Still, Looking, Checked
        <4>2. pc[p] \in {"verify", "mark", "check"} /\ (pc[p] = "verify" => marker.image = staged)
          BY <2>1, <2>5, <3>1, Shapes
        <4>3. Agree  BY <2>2, <4>1, <4>2 DEF PairInv, Agree, Checked
        <4> QED  BY <2>1, <4>2, <4>3 DEF Agree, Works, Effects
      <3>2. CASE a = p /\ b # p
        <4>1. pc[p] = "start" /\ pc[b] \in Checked  BY <2>1, <2>5, <3>2, Shapes
            DEF Still
        <4>2. Agree  BY <2>2, <4>1 DEF PairInv, Looking
        <4> QED  BY <2>1, <4>1, <4>2 DEF Agree, Works, Effects
      <3> QED  BY <2>3, <2>5, <3>1, <3>2
    <2> QED  BY <2>4, <2>5
  <1> QED  BY <1>1, <1>2, <1>3, <1>4, EveryStep

-----------------------------------------------------------------------------
OwnFiles(p) == me[p].image = me[p].lease /\ staged \in {0, me[p].lease}
Described(p) ==
  /\ me[p].image = marker.image /\ final \in {0, marker.image}
  /\ \A q \in Procs : pc[q] \notin Helping
  /\ \A q \in Procs : pc[q] \in Checked => Agree

FilledBy(p) == pc[p] \in {"persist", "describe"} => OwnFiles(p)
FoundBy(p) == pc[p] = "describe" => final \in {0, me[p].lease}
CarriedBy(p) ==
  pc[p] \in Carrying /\ pub.state # "aborted" /\ message.stalls <= 1 =>
    (OwnFiles(p) /\ final \in {0, me[p].lease}) \/ Described(p)

ContentInv ==
  \A p \in Procs : Current(p) => FilledBy(p) /\ FoundBy(p) /\ CarriedBy(p)

LEMMA SameOwner ==
  ASSUME DeliveryInv, NEW p \in Procs, Works(p), Still(p), NEW q \in Procs, Live(q)', Current(q)'
  PROVE  /\ Live(q) /\ Current(q) /\ me'[q].lease = me[q].lease
         /\ q # p => ~Current(p)
  <1>1. Live(q) /\ me'[q].lease = me[q].lease
    BY PathLease DEF Works, Still, Live
  <1>2. Current(q)  BY <1>1 DEF Works, Effects, Current
  <1> QED  BY <1>1, <1>2 DEF DeliveryInv, Works, Current

\* The files of the owner are touched by no former owner.
LEMMA Guarded ==
  ASSUME TypeOK, DeliveryInv, NEW p \in Procs, Works(p),
         \/ pc[p] \notin {"run", "running"}
         \/ ~Current(p) /\ \E q \in Procs : Live(q) /\ staged \in {0, me[q].lease}
  PROVE  staged' \in {0, staged}
  <1>1. ASSUME NEW q \in Procs, Live(q), staged \in {0, me[q].lease} PROVE staged # Torn
    <2>1. me[q].lease \in 0 .. MaxLease  BY Parts DEF TableType, Jobs
    <2> QED  BY <1>1, <2>1, BoundsAssumption DEF Torn
  <1>2. pc[p] \in {"run", "running"} /\ ~Current(p) => deadline
    BY DEF DeliveryInv
  <1> QED  BY <1>1, <1>2 DEF Works, Effects

LEMMA ContentOwn ==
  ASSUME TypeOK, DeliveryInv, PairInv, ContentInv, NEW p \in Procs, Works(p), Still(p), Current(p)', Live(p)'
  PROVE  FilledBy(p)' /\ FoundBy(p)' /\ CarriedBy(p)'
  <1>0. Current(p) /\ me'[p].lease = me[p].lease  BY SameOwner
  <1>1. ASSUME pc'[p] = "persist" PROVE OwnFiles(p)'
    <2>1. me'[p].image = me[p].lease /\ staged' = me[p].lease
      BY <1>1 DEF Works, Path, Leaves, Finds, Launches, Helps, Resumes, Reserves,
          Carries, Reading, Checked, Aside
    <2> QED  BY <1>0, <2>1 DEF OwnFiles
  <1>2. ASSUME pc'[p] = "describe" PROVE OwnFiles(p)' /\ final' = 0
    <2>1. pc[p] = "persist" /\ Same(p) /\ final = 0
      BY <1>2 DEF Works, Path, Leaves, Finds, Launches, Helps, Resumes, Reserves,
          Carries, Reading, Checked, Aside
    <2>2. OwnFiles(p)  BY <1>0, <2>1 DEF ContentInv, FilledBy
    <2>3. staged' \in {0, staged}  BY <2>1, Guarded
    <2> QED  BY <1>0, <2>1, <2>2, <2>3 DEF OwnFiles, Same, Works, Effects
  <1>3. ASSUME pc'[p] \in Carrying, pub'.state # "aborted", message'.stalls <= 1
        PROVE  (OwnFiles(p) /\ final \in {0, me[p].lease})' \/ Described(p)'
    <2>1. /\ pc[p] \in {"describe", "seek"} \cup Carrying
          /\ pc[p] # "seek" => me'[p].image = me[p].image
          /\ pc[p] = "seek" => Resumes(p)
      BY <1>3 DEF Works, Path, Leaves, Finds, Launches, Helps, Resumes, Reserves,
          Carries, Reading, Checked, Aside, Carrying, Same
    <2>2. staged' \in {0, staged}
      BY <2>1, Guarded DEF Carrying, Reading, Checked
    <2>3. pub.state # "aborted" /\ message.stalls <= 1  BY <1>3 DEF Works, Effects
    <2>4. CASE pc[p] \in {"describe"} \cup Carrying /\ OwnFiles(p) /\ final \in {0, me[p].lease}
      BY <1>0, <2>1, <2>2, <2>4 DEF OwnFiles, Works, Effects, Carrying, Reading, Checked
    <2>5. CASE pc[p] \in Carrying /\ Described(p)
      <3>1. \A q \in Procs : pc'[q] \notin Helping
        BY <1>3, <2>5 DEF Described, Still, Carrying, Reading, Checked, Helping
      <3>2. marker'.image = marker.image
        BY <2>5 DEF Works, Effects, Carrying, Reading, Checked
      <3>3. final' \in {0, marker.image}
        BY <2>5 DEF Works, Effects, Described, Agree, Checked
      <3>4. ASSUME NEW q \in Procs, pc'[q] \in Checked PROVE Agree'
        <4>1. pc[q] \in Checked \/ marker.image = staged
          BY <3>4, Shapes DEF Still, Checked
        <4> QED  BY <2>2, <2>5, <3>2, <4>1 DEF Described, Agree
      <3> QED  BY <2>1, <2>5, <3>1, <3>2, <3>3, <3>4 DEF Described, Carrying, Reading,
          Checked
    <2>6. CASE pc[p] = "seek"
      <3>1. Resumes(p) /\ MarkerAgrees(me[p].known, me[p].token)  BY <2>1, <2>6
          DEF Resumes
      <3>2. marker # NoMarker /\ final \in {0, marker.image}
        BY <3>1 DEF MarkerAgrees, NoMarker, Pending
      <3>3. \A q \in Procs : pc[q] \notin Helping
        BY <2>3, <2>6, <3>2 DEF PairInv, Blank, Looking
      <3>4. \A q \in Procs : pc[q] \in Checked => Agree
        BY <2>3, <2>6 DEF PairInv, Looking
      <3>5. marker' = marker /\ final' = final  BY <2>6 DEF Works, Effects
      <3>6. \A q \in Procs : pc'[q] \notin Helping
        BY <1>3, <3>3 DEF Still, Carrying, Reading, Checked, Helping
      <3>7. ASSUME NEW q \in Procs, pc'[q] \in Checked PROVE Agree'
        <4>1. q # p  BY <2>6, <3>7, Shapes
        <4> QED  BY <2>2, <3>4, <3>5, <3>7, <4>1 DEF Still, Agree
      <3> QED  BY <3>1, <3>2, <3>5, <3>6, <3>7 DEF Described, Resumes
    <2>7. pc[p] = "describe" => OwnFiles(p) /\ final \in {0, me[p].lease}
      BY <1>0 DEF ContentInv, FilledBy, FoundBy
    <2>8. pc[p] \in Carrying => (OwnFiles(p) /\ final \in {0, me[p].lease}) \/ Described(p)
      BY <1>0, <2>3 DEF ContentInv, CarriedBy
    <2> QED  BY <2>1, <2>4, <2>5, <2>6, <2>7, <2>8
  <1> QED  BY <1>1, <1>2, <1>3 DEF FilledBy, FoundBy, CarriedBy

LEMMA ContentOther ==
  ASSUME TypeOK, DeliveryInv, ContentInv, NEW p \in Procs, Works(p), Still(p),
         NEW q \in Procs \ {p}, Current(q)', Live(q)'
  PROVE  FilledBy(q)' /\ FoundBy(q)' /\ CarriedBy(q)'
  <1>0. Current(q) /\ Live(q) /\ ~Current(p) /\ pc'[q] = pc[q] /\ me'[q] = me[q]
    BY SameOwner DEF Still
  <1>1. ASSUME staged \in {0, me[q].lease}
        PROVE  staged' \in {0, me[q].lease} /\ final' \in {final, 0, me[q].lease}
    <2>1. staged' \in {0, staged}  BY <1>0, <1>1, Guarded
    <2> QED  BY <1>1, <2>1 DEF Works, Effects
  <1>2. FilledBy(q)' /\ FoundBy(q)'
    BY <1>0, <1>1 DEF ContentInv, FilledBy, FoundBy, OwnFiles
  <1>3. ASSUME pc'[q] \in Carrying, pub'.state # "aborted", message'.stalls <= 1
        PROVE  (OwnFiles(q) /\ final \in {0, me[q].lease})' \/ Described(q)'
    <2>1. pub.state # "aborted" /\ message.stalls <= 1  BY <1>3 DEF Works, Effects
    <2>2. CASE OwnFiles(q) /\ final \in {0, me[q].lease}
      BY <1>0, <1>1, <2>2 DEF OwnFiles
    <2>3. CASE Described(q)
      <3>1. pc[p] \notin Helping  BY <2>3 DEF Described
      <3>2. staged' \in {0, staged}  BY <3>1, Guarded DEF Helping
      <3>3. marker'.image = marker.image  BY <3>1 DEF Works, Effects, Helping
      <3>4. final' \in {0, marker.image}
        BY <2>3 DEF Works, Effects, Described, Agree, Checked
      <3>5. pc'[p] \notin Helping
        BY <1>0, <3>1, Shapes DEF Fenced, Current
      <3>6. \A r \in Procs : pc'[r] \notin Helping
        BY <2>3, <3>5 DEF Described, Still
      <3>7. ASSUME NEW r \in Procs, pc'[r] \in Checked PROVE Agree'
        <4>1. pc[r] \in Checked \/ marker.image = staged
          BY <3>7, Shapes DEF Still, Checked
        <4> QED  BY <2>3, <3>2, <3>3, <4>1 DEF Described, Agree
      <3> QED  BY <1>0, <2>3, <3>3, <3>4, <3>6, <3>7 DEF Described
    <2> QED  BY <1>0, <1>3, <2>1, <2>2, <2>3 DEF ContentInv, CarriedBy
  <1> QED  BY <1>2, <1>3 DEF CarriedBy

LEMMA ContentNext == TypeOK /\ DeliveryInv /\ PairInv /\ ContentInv /\ [Next]_vars => ContentInv'
  <1> SUFFICES ASSUME TypeOK, DeliveryInv, PairInv, ContentInv, [Next]_vars, NEW q \in Procs, Current(q)'
               PROVE  FilledBy(q)' /\ FoundBy(q)' /\ CarriedBy(q)'
    BY DEF ContentInv
  <1>0. message.count \in Nat  BY Parts, BoundsAssumption DEF RestType
  <1>1. CASE ~Live(q)'
    BY <1>1 DEF Live, FilledBy, FoundBy, CarriedBy, Carrying, Reading, Checked
  <1>2. CASE Apart
    BY <1>2 DEF Apart, ContentInv, FilledBy, FoundBy, CarriedBy, OwnFiles, Described,
        Agree, Current
  <1>3. ASSUME NEW p \in Procs, Starts(p), Still(p), Live(q)' PROVE FilledBy(q)' /\ FoundBy(q)' /\ CarriedBy(q)'
    <2>1. q = p
      <3>1. ASSUME q # p PROVE FALSE
        <4>1. Live(q) /\ me[q].lease = message.count + 1
          BY <1>3, <3>1 DEF Starts, Still, Live, Current
        <4> QED  BY <1>0, <4>1 DEF DeliveryInv
      <3> QED  BY <3>1
    <2> QED  BY <1>3, <2>1 DEF Starts, FilledBy, FoundBy, CarriedBy, Carrying, Reading,
        Checked
  <1>4. ASSUME NEW p \in Procs, Settles(p) PROVE FilledBy(q)' /\ FoundBy(q)' /\ CarriedBy(q)'
    BY <1>4 DEF Settles, disk, ContentInv, FilledBy, FoundBy, CarriedBy, OwnFiles,
        Described, Agree, Current
  <1> QED  BY <1>1, <1>2, <1>3, <1>4, EveryStep, ContentOwn, ContentOther

-----------------------------------------------------------------------------
(* The refinement of Publication.                                           *)

Inv == TypeOK /\ FilesInv /\ DeliveryInv /\ FewInv /\ MarkerInv /\ AloneInv /\ PairInv /\ ContentInv

LEMMA InvInit == Init => Inv
  <1> SUFFICES ASSUME Init PROVE Inv OBVIOUS
  <1>1. TypeOK /\ FilesInv  BY TypeInit, FilesInit
  <1>2. \A p \in Procs : pc[p] = "idle" /\ me[p] = NoJob /\ me[p].known = "none"
    BY DEF Init, NoJob
  <1>3. DeliveryInv /\ FewInv  BY <1>2 DEF Init, DeliveryInv, FewInv, Live
  <1>4. MarkerInv /\ AloneInv /\ PairInv
    BY <1>2 DEF Init, MarkerInv, AloneInv, PairInv, Helping, Checked, Looking
  <1>5. ContentInv
    BY <1>2 DEF ContentInv, FilledBy, FoundBy, CarriedBy, Carrying, Reading, Checked
  <1> QED  BY <1>1, <1>3, <1>4, <1>5 DEF Inv

LEMMA InvNext == Inv /\ [Next]_vars => Inv'
  BY TypeNext, FilesNext, DeliveryNext, FewNext, MarkerNext, AloneNext, PairNext,
      ContentNext DEF Inv

\* The invariant the refinement rests on: types, files, deliveries, and the
\* content of staging, marker and final directory.
THEOREM InvHolds == Spec => []Inv
  BY InvInit, InvNext, PTL DEF Spec

-----------------------------------------------------------------------------
Stutters == UNCHANGED <<task, final, built>>

LEMMA RefineExec ==
  ASSUME Inv, MaxStalls <= 1, NEW p \in Procs, ExecNext(p) \/ FailNext(p)
  PROVE  Stutters \/ Users!PubNext
  <1>0. TypeOK /\ FilesInv /\ ContentInv /\ RowType /\ DiskType /\ TableType
    BY Parts DEF Inv
  <1>1. CASE Rename(p)
    <2>1. staged \in Images \/ staged = 0
      BY <1>0, BoundsAssumption DEF DiskType, Images, Torn
    <2>2. Stutters \/ Users!Appear
      BY <1>0, <1>1, <2>1 DEF Rename, Stutters, row, Users!Appear, FilesInv, FilesHere
    <2> QED  BY <2>2 DEF Users!PubNext
  <1>2. CASE Complete(p)
    <2>1. message.stalls <= 1
      BY <1>0, Parts, BoundsAssumption DEF RestType
    <2>2. ASSUME MayComplete(p) PROVE final # 0 /\ me[p].image = final
      <3>1. Current(p) /\ pub.state # "aborted" /\ pc[p] \in Carrying /\ task = "running"
        BY <1>2, <2>2 DEF MayComplete, Fenced, Holds, Complete, Current, Carrying,
            Reading
      <3>2. final # 0
        BY <1>0, <1>2, <3>1 DEF Complete, FilesInv, FilesOf, Placing, Ended
      <3>3. (OwnFiles(p) /\ final \in {0, me[p].lease}) \/ Described(p)
        BY <1>0, <2>1, <3>1 DEF ContentInv, CarriedBy
      <3> QED  BY <3>2, <3>3 DEF OwnFiles, Described
    <2>3. Stutters \/ Users!Succeed
      BY <1>2, <2>2 DEF Complete, MayComplete, Fenced, Stutters, row, disk,
          Users!Succeed
    <2> QED  BY <2>3 DEF Users!PubNext
  <1>3. CASE Command(p) \/ Fail(p)
    <2>1. me[p].out \in Ended  BY <1>0 DEF TableType, Jobs
    <2>2. Stutters \/ Users!End
      BY <1>3, <2>1 DEF Command, Fail, MayFail, Fenced, Stutters, disk, Users!End, Ended
    <2> QED  BY <2>2 DEF Users!PubNext
  <1>4. CASE ~(Rename(p) \/ Complete(p) \/ Command(p) \/ Fail(p))
    <2>1. Stutters
      BY <1>4 DEF ExecNext, FailNext, Deliver, Start, RunStart, RunEnd, Persist,
          Describe, BeginRead, Reserve,
         Verify, MarkPublishing, PreRenameCheck, NotePublished, Publish, CompleteRead, MarkRegistered,
         Ack, Seek, Handle, Settle, Abort, Clean, Remove, Crash, row, disk, Stutters
    <2> QED  BY <2>1
  <1> QED  BY <1>1, <1>2, <1>3, <1>4

LEMMA RefineNext == ASSUME Inv, MaxStalls <= 1, [Next]_vars PROVE [Users!PubNext]_(Users!pubvars)
  <1>1. CASE Cancel
    BY <1>1 DEF Cancel, MayCancel, disk, Users!PubNext, Users!End
  <1>2. CASE ReconDelete
    BY <1>2 DEF Inv, FilesInv, FilesHere, ReconDelete, row, Users!PubNext,
        Users!Withdraw, Ended
  <1>3. CASE Expire \/ ReconLook \/ ReconNote \/ UNCHANGED vars
    BY <1>3 DEF Expire, ReconLook, ReconNote, vars, row, disk, Users!pubvars
  <1> QED  BY <1>1, <1>2, <1>3, RefineExec DEF Next, Stutters, Users!pubvars

LEMMA RefineInit == Init => Users!Open
  BY DEF Init, Users!Open

\* The executors, the user and the reconciler implement Publication: files come
\* complete and at once, the conversion succeeds only together with the
\* registration of exactly the files that are there (complete_conversion_publication),
\* and files are withdrawn only after it ended without. At most one executor may
\* stall; with two and a third delivery TLC finds a registration of the content
\* that a marker read earlier described (_recover_published_conversion), so the
\* bound is a hypothesis of the code and no artefact of the proof.
THEOREM Refinement == MaxStalls <= 1 => (Spec => ImplementsPublication)
  <1> SUFFICES ASSUME MaxStalls <= 1 PROVE Spec => ImplementsPublication  OBVIOUS
  <1>1. Inv /\ [Next]_vars => [Users!PubNext]_(Users!pubvars)
    BY RefineNext
  <1> QED  BY <1>1, RefineInit, InvHolds, PTL DEF Spec, ImplementsPublication,
      Users!PubSpec

-----------------------------------------------------------------------------
(* Recovery after crashes.                                                  *)

\* What the row says of its own past.
LedgerInv ==
  /\ built # 0 => task = "succeeded"
  /\ recon # "idle" => task # "running"
  /\ pub.state = "registered" => task = "succeeded"
  /\ \A p \in Procs : me[p].known # "none" => pub.state # "none"
  /\ \A p \in Procs : pc[p] \in Reading \cup {"clean", "register"} => pub.state # "none"

Traced ==
  /\ marker.token = pub.token
  /\ marker.state \in {"prepared", "registered"} \cup Pending
  /\ final = marker.image

SoloOf(p) ==
  /\ pc[p] = "seek" => pub = [state |-> me[p].known, token |-> me[p].token]
  /\ pc[p] \in Reading => me[p].token = pub.token
  /\ pc[p] \in {"check", "rename"} => marker.token = me[p].token /\ marker.state = "publishing"

SoloFacts ==
  /\ pub.state = "none" => marker = NoMarker \/ marker.state = "prepared"
  /\ pub.state \in {"reserved", "published"} /\ final # 0 => Traced

SoloInv ==
  message.stalls = 0 /\ task = "running" => SoloFacts /\ \A p \in Procs : SoloOf(p)

\* A step of p on the row.
LEMMA RowStep ==
  ASSUME TypeOK, LedgerInv, NEW p \in Procs, ExecNext(p) \/ FailNext(p)
  PROVE  /\ pub.state # "none" => pub'.state # "none"
         /\ built' # 0 => task' = "succeeded"
         /\ task' = "running" => task = "running"
         /\ pub'.state = "registered" => task' = "succeeded"
         /\ task = "succeeded" => task' = "succeeded"
  <1>0. RowType /\ me[p] \in Jobs  BY Parts DEF TableType
  <1>1. CASE UNCHANGED row  BY <1>1 DEF row, LedgerInv
  <1>2. CASE Deliver(p)  BY <1>2 DEF Deliver, LedgerInv
  <1>3. CASE Reserve(p)  BY <1>3 DEF Reserve, LedgerInv
  <1>4. CASE Publish(p) \/ Settle(p) \/ Abort(p)
    <2>1. pub' = pub \/ pub'.state \in {"published", "aborted"}
      BY <1>0, <1>4 DEF Publish, Settle, Abort, MovePublication, RowType
    <2> QED  BY <1>4, <2>1 DEF Publish, Settle, Abort, LedgerInv
  <1>5. CASE Complete(p)
    <2>1. UNCHANGED row \/ (task' = "succeeded" /\ pub' = [pub EXCEPT !.state = "registered"])
      BY <1>5 DEF Complete
    <2>2. UNCHANGED row \/ (task' = "succeeded" /\ pub'.state = "registered")
      BY <1>0, <2>1 DEF RowType
    <2> QED  BY <1>1, <2>2
  <1>6. CASE Command(p) \/ Fail(p)
    <2>1. UNCHANGED task \/ (task = "running" /\ task' \in Ended) 
      BY <1>0, <1>6 DEF Command, Fail, MayFail, Fenced, Jobs
    <2> QED  BY <1>6, <2>1 DEF Command, Fail, LedgerInv, Ended
  <1> QED  BY <1>1, <1>2, <1>3, <1>4, <1>5, <1>6 DEF ExecNext, FailNext, Start,
      RunStart, RunEnd,
        Persist, Describe, BeginRead, Verify, MarkPublishing, PreRenameCheck, Rename, NotePublished,
        CompleteRead, MarkRegistered, Ack, Seek, Handle, Clean, Remove, Crash

LEMMA LedgerNext == TypeOK /\ LedgerInv /\ [Next]_vars => LedgerInv'
  <1> SUFFICES ASSUME TypeOK, LedgerInv, [Next]_vars PROVE LedgerInv' OBVIOUS
  <1>1. ASSUME NEW p \in Procs, ExecNext(p) \/ FailNext(p) PROVE LedgerInv'
    <2>1. /\ pub.state # "none" => pub'.state # "none"
          /\ built' # 0 => task' = "succeeded"
          /\ task' = "running" => task = "running"
          /\ pub'.state = "registered" => task' = "succeeded"
      BY <1>1, RowStep
    <2>2. recon' = recon
      BY <1>1, OthersLease DEF Starts, Settles, Works, Effects
    <2>3. /\ me'[p].known # "none" => me[p].known # "none" \/ pub.state # "none"
          /\ pc'[p] \in Reading \cup {"clean", "register"} => pub'.state # "none"
      <3>1. CASE Starts(p)  BY <3>1 DEF Starts, Reading, Checked
      <3>2. CASE Settles(p)  BY <2>1, <3>2 DEF Settles, LedgerInv
      <3>3. CASE Works(p)
        <4>1. me'[p].known \in {me[p].known, pub.state, "none"}
          BY <3>3 DEF Works, Path, Leaves, Finds, Launches, Helps, Resumes, Reserves,
              Carries, Owns, Same, NoJob
        <4>2. \/ pc'[p] \notin Reading \cup {"clean", "register"}
              \/ pub'.state # "none"
              \/ pc[p] \in Reading
              \/ me[p].known # "none"
          BY <3>3 DEF Works, Path, Leaves, Finds, Launches, Helps, Resumes, Reserves,
              Carries, Reading, Checked, Aside
        <4> QED  BY <2>1, <4>1, <4>2 DEF LedgerInv
      <3> QED  BY <1>1, <3>1, <3>2, <3>3, OthersLease
    <2>4. ASSUME NEW q \in Procs
          PROVE  /\ me'[q].known # "none" => pub'.state # "none"
                 /\ pc'[q] \in Reading \cup {"clean", "register"} => pub'.state # "none"
      <3>1. CASE q = p  BY <2>1, <2>3, <3>1 DEF LedgerInv
      <3>2. CASE q # p
        <4>1. pc'[q] = pc[q] /\ me'[q] = me[q]  BY <1>1, <3>2, OthersLease
        <4> QED  BY <2>1, <4>1 DEF LedgerInv
      <3> QED  BY <3>1, <3>2
    <2> QED  BY <2>1, <2>2, <2>4 DEF LedgerInv
  <1>2. CASE Cancel \/ Expire \/ ReconDelete \/ ReconNote \/ UNCHANGED vars
    BY <1>2 DEF Cancel, MayCancel, Expire, ReconDelete, ReconNote, vars, row, disk,
        LedgerInv
  <1>3. CASE ReconLook
    BY <1>3 DEF ReconLook, IsSafeOrphan, row, LedgerInv, Ended
  <1> QED  BY <1>1, <1>2, <1>3 DEF Next

-----------------------------------------------------------------------------
LEMMA SoloStarts ==
  ASSUME TypeOK, SoloInv, NEW p \in Procs, Starts(p), Still(p) PROVE SoloInv'
  <1>1. SUFFICES ASSUME message'.stalls = 0, task' = "running" PROVE SoloFacts' /\ \A q \in Procs : SoloOf(q)'
    BY DEF SoloInv
  <1>2. message.stalls \in Nat  BY Parts, BoundsAssumption DEF RestType
  <1>3. message.stalls = 0 /\ ~Stalled  BY <1>1, <1>2 DEF Starts
  <1>4. SoloFacts  BY <1>1, <1>3 DEF SoloInv, Starts
  <1>5. SoloFacts'  BY <1>4 DEF SoloFacts, Traced, Starts, disk
  <1>6. \A q \in Procs : pc'[q] \in {"idle", "start"}
    BY <1>3 DEF Stalled, Starts, Still
  <1> QED  BY <1>5, <1>6 DEF SoloOf, Reading, Checked

LEMMA SoloFactsWork ==
  ASSUME NEW p \in Procs, TypeOK, FilesInv, LedgerInv, AloneInv, SoloFacts, SoloOf(p), message.stalls = 0,
         ExecNext(p) \/ FailNext(p), Works(p), task' = "running"
  PROVE  SoloFacts'
  <1>0. RowType /\ DiskType /\ me[p] \in Jobs  BY Parts DEF TableType
  <1>1. CASE UNCHANGED <<pub, marker, final>>
    BY <1>1 DEF SoloFacts, Traced
  <1>2. CASE Reserve(p)
    <2>1. UNCHANGED <<marker, final>> /\ (pub' = pub \/ pub.state = "none")
      BY <1>2 DEF Reserve, disk
    <2>2. pub.state = "none" => final = 0  BY DEF FilesInv, FilesHere
    <2>3. pub' = pub \/ pub'.state = "reserved"  BY <1>2 DEF Reserve
    <2> QED  BY <1>1, <2>1, <2>2, <2>3 DEF SoloFacts
  <1>3. CASE Describe(p)
    <2>1. Blank  BY <1>3 DEF AloneInv, Describe, Helping
    <2>2. marker'.state = "prepared" /\ UNCHANGED <<pub, final>>
      BY <1>0, <1>3 DEF Describe, DiskType, row
    <2>3. marker = NoMarker /\ pub.state \in {"reserved", "published"} => final = 0
      BY DEF SoloFacts, Traced, NoMarker, Pending
    <2> QED  BY <2>1, <2>2, <2>3 DEF SoloFacts, Blank
  <1>4. CASE MarkPublishing(p)
    <2>1. /\ marker'.state = "publishing" /\ marker'.token = me[p].token /\ marker'.image = marker.image
          /\ UNCHANGED <<pub, final>>
      BY <1>0, <1>4 DEF MarkPublishing, DiskType, row
    <2>2. me[p].token = pub.token /\ pub.state # "none"
      BY <1>4 DEF MarkPublishing, SoloOf, LedgerInv, Reading, Checked
    <2> QED  BY <2>1, <2>2 DEF SoloFacts, Traced, Pending
  <1>5. CASE NotePublished(p) \/ MarkRegistered(p)
    <2>1. /\ marker' = marker \/ marker'.state \in {"published_pending_registration", "registered"}
          /\ marker'.token = marker.token /\ marker'.image = marker.image
          /\ UNCHANGED <<pub, final>>
      BY <1>0, <1>5 DEF NotePublished, MarkRegistered, DiskType, row
    <2>2. pub.state # "none"
      BY <1>5 DEF NotePublished, MarkRegistered, LedgerInv, Reading
    <2> QED  BY <2>1, <2>2 DEF SoloFacts, Traced, Pending
  <1>6. CASE Clean(p)
    <2>1. pub.state # "none" /\ UNCHANGED <<pub, final>>
      BY <1>6 DEF Clean, LedgerInv, row
    <2>2. final = 0 \/ marker' = marker
      BY <1>6 DEF Clean
    <2> QED  BY <2>1, <2>2 DEF SoloFacts, Traced
  <1>7. CASE Rename(p)
    <2>1. UNCHANGED <<pub, marker>>  BY <1>7 DEF Rename, row
    <2>2. final' # final => final' = staged /\ staged # 0 /\ Agree
      BY <1>7 DEF Rename, AloneInv, Checked
    <2>3. marker.token = pub.token /\ marker.state = "publishing"
      BY <1>7 DEF Rename, SoloOf, Reading, Checked
    <2> QED  BY <2>1, <2>2, <2>3 DEF SoloFacts, Traced, Agree, Pending
  <1>8. CASE Publish(p) \/ Settle(p) \/ Abort(p)
    <2>1. /\ pub' = pub \/ (pub'.state \in {"published", "aborted"} /\ pub'.token = pub.token)
          /\ UNCHANGED <<marker, final>>
      BY <1>0, <1>8 DEF Publish, Settle, Abort, MovePublication, RowType, disk
    <2>2. pub'.state = "published" => pub.state \in {"reserved", "published"}
      <3>1. CASE Publish(p) \/ Settle(p)
        BY <1>0, <3>1 DEF Publish, Settle, MayMove, Holds
      <3>2. CASE Abort(p)
        BY <1>0, <3>2 DEF Abort, MovePublication, RowType
      <3> QED  BY <1>8, <3>1, <3>2
    <2> QED  BY <2>1, <2>2 DEF SoloFacts, Traced
  <1>9. CASE Complete(p)
    BY <1>1, <1>9 DEF Complete, row, disk
  <1>10. CASE ~(Reserve(p) \/ Describe(p) \/ MarkPublishing(p) \/ NotePublished(p) \/ MarkRegistered(p)
                \/ Clean(p) \/ Rename(p) \/ Publish(p) \/ Settle(p) \/ Abort(p) \/ Complete(p) \/ Deliver(p))
    BY <1>1, <1>10 DEF ExecNext, FailNext, Start, RunStart, RunEnd, Persist, BeginRead,
         Verify, PreRenameCheck, CompleteRead, Ack, Seek, Handle, Remove, Command, Fail, Crash, row, disk
  <1>11. ~Deliver(p)  BY DEF Works, Deliver, Live
  <1> QED  BY <1>2, <1>3, <1>4, <1>5, <1>6, <1>7, <1>8, <1>9, <1>10, <1>11

LEMMA SoloOfWork ==
  ASSUME NEW p \in Procs, TypeOK, SoloOf(p), ExecNext(p) \/ FailNext(p), Works(p)
  PROVE  SoloOf(p)'
  <1>0. RowType /\ DiskType /\ TableType  BY Parts
  <1>1. ASSUME pc'[p] = "seek" PROVE pub' = [state |-> me'[p].known, token |-> me'[p].token]
    <2>1. Finds(p)
      BY <1>1 DEF Works, Path, Leaves, Launches, Helps, Resumes, Reserves, Carries,
          Reading, Checked, Aside
    <2>2. pub' = pub
      BY <2>1 DEF Finds, ExecNext, FailNext, Deliver, Start, RunStart, RunEnd, Persist,
          Describe, BeginRead, Reserve,
         Verify, MarkPublishing, PreRenameCheck, Rename, NotePublished, Publish, CompleteRead, Complete, MarkRegistered,
         Ack, Seek, Handle, Settle, Abort, Clean, Remove, Command, Fail, Crash, row
    <2> QED  BY <1>0, <2>1, <2>2 DEF Finds, RowType
  <1>2. ASSUME pc'[p] \in Reading PROVE me'[p].token = pub'.token
    <2>1. Resumes(p) \/ Reserves(p) \/ Carries(p)
      BY <1>2 DEF Works, Path, Leaves, Finds, Launches, Helps, Reading, Checked, Aside
    <2>2. CASE Resumes(p)
      <3>1. pub' = pub
        BY <2>2 DEF Resumes, ExecNext, FailNext, Deliver, Start, RunStart, RunEnd,
            Persist, Describe, BeginRead, Reserve,
           Verify, MarkPublishing, PreRenameCheck, Rename, NotePublished, Publish, CompleteRead, Complete, MarkRegistered,
           Ack, Seek, Handle, Settle, Abort, Clean, Remove, Command, Fail, Crash, row
      <3> QED  BY <2>2, <3>1 DEF Resumes, SoloOf
    <2>3. CASE Reserves(p)
      BY <1>2, <2>3 DEF Reserves, Reading, Checked
    <2>4. CASE Carries(p)
      <3>1. pub' = pub \/ \E s \in PubStates : pub' = [pub EXCEPT !.state = s]
        BY <2>4 DEF Carries, Reading, Checked, ExecNext, FailNext, Deliver, Start,
            RunStart, RunEnd, Persist, Describe, BeginRead, Reserve,
           Verify, MarkPublishing, PreRenameCheck, Rename, NotePublished, Publish, CompleteRead, Complete, MarkRegistered,
           Ack, Seek, Handle, Settle, Abort, Clean, Remove, Command, Fail, Crash, row, MovePublication, PubStates
      <3>2. pub'.token = pub.token  BY <1>0, <3>1 DEF RowType
      <3> QED  BY <2>4, <3>2 DEF Carries, SoloOf
    <2> QED  BY <2>1, <2>2, <2>3, <2>4
  <1>3. ASSUME pc'[p] \in {"check", "rename"} PROVE marker'.token = me'[p].token /\ marker'.state = "publishing"
    <2>1. /\ me'[p] = me[p]
          /\ pc[p] = "mark" \/ (pc[p] = "check" /\ marker' = marker)
      BY <1>3 DEF Works, Effects, Path, Leaves, Finds, Launches, Helps, Resumes,
          Reserves, Carries, Reading, Checked, Aside
    <2>2. CASE pc[p] = "mark"
      <3>1. marker' = [marker EXCEPT !.state = "publishing", !.token = me[p].token] \/ Crash(p)
        BY <2>2 DEF ExecNext, FailNext, Deliver, Start, RunStart, RunEnd, Persist,
            Describe, BeginRead, Reserve,
           Verify, MarkPublishing, PreRenameCheck, Rename, NotePublished, Publish, CompleteRead, Complete, MarkRegistered,
           Ack, Seek, Handle, Settle, Abort, Clean, Remove, Command, Fail
      <3>2. ~Crash(p)
        <4>1. ASSUME Crash(p) PROVE pc'[p] = "idle"  BY <1>0, <4>1, Lands DEF Crash,
            Rest
        <4> QED  BY <1>3, <4>1
      <3> QED  BY <1>0, <2>1, <3>1, <3>2 DEF DiskType
    <2>3. CASE pc[p] = "check" /\ marker' = marker
      BY <2>1, <2>3 DEF SoloOf
    <2> QED  BY <2>1, <2>2, <2>3
  <1> QED  BY <1>1, <1>2, <1>3 DEF SoloOf

LEMMA SoloWorks ==
  ASSUME NEW p \in Procs, TypeOK, FilesInv, LedgerInv, FewInv, AloneInv, SoloInv,
         ExecNext(p) \/ FailNext(p), Works(p), Still(p)
  PROVE  SoloInv'
  <1>1. SUFFICES ASSUME message'.stalls = 0, task' = "running"
                 PROVE  SoloFacts' /\ \A q \in Procs : SoloOf(q)'
    BY DEF SoloInv
  <1>2. message.stalls = 0 /\ task = "running"
    BY <1>1, RowStep DEF Works, Effects
  <1>3. SoloFacts /\ \A q \in Procs : SoloOf(q)
    BY <1>2 DEF SoloInv
  <1>4. SoloFacts'  BY <1>1, <1>2, <1>3, SoloFactsWork
  <1>5. SoloOf(p)'  BY <1>3, SoloOfWork
  <1>6. ASSUME NEW q \in Procs \ {p} PROVE SoloOf(q)'
    <2>1. pc[q] = "idle"  BY <1>2, <1>6 DEF FewInv, Works, Live
    <2> QED  BY <1>6, <2>1 DEF Still, SoloOf, Reading, Checked
  <1> QED  BY <1>4, <1>5, <1>6

LEMMA SoloNext ==
  TypeOK /\ FilesInv /\ LedgerInv /\ FewInv /\ AloneInv /\ SoloInv /\ [Next]_vars => SoloInv'
  <1> SUFFICES ASSUME TypeOK, FilesInv, LedgerInv, FewInv, AloneInv, SoloInv, [Next]_vars PROVE SoloInv'
    OBVIOUS
  <1>1. ASSUME NEW p \in Procs, ExecNext(p) \/ FailNext(p) PROVE SoloInv'
    <2>1. (Starts(p) \/ Settles(p) \/ Works(p)) /\ Still(p)  BY <1>1, OthersLease
        DEF Still
    <2>2. CASE Settles(p)
      BY <2>2 DEF Settles, disk, SoloInv, SoloFacts, SoloOf, Traced
    <2> QED  BY <1>1, <2>1, <2>2, SoloStarts, SoloWorks
  <1>2. CASE Cancel
    BY <1>2 DEF Cancel, SoloInv
  <1>3. CASE Expire \/ ReconLook \/ UNCHANGED vars
    BY <1>3 DEF Expire, ReconLook, vars, row, disk, SoloInv, SoloFacts, SoloOf, Traced
  <1>4. CASE ReconDelete \/ ReconNote
    BY <1>4 DEF ReconDelete, ReconNote, row, LedgerInv, SoloInv
  <1> QED  BY <1>1, <1>2, <1>3, <1>4 DEF Next

LEMMA SoloInit == Init => LedgerInv /\ SoloInv
  BY DEF Init, LedgerInv, SoloInv, SoloFacts, SoloOf, Traced, NoJob, NoMarker, Reading,
      Checked

LEMMA SoloRecovers ==
  ASSUME TypeOK, FilesInv, LedgerInv, SoloInv PROVE RecoverableFacts
  <1> SUFFICES ASSUME message.stalls = 0, task = "running" PROVE
       \/ pub.state = "aborted"
       \/ pub.state = "none" /\ marker = NoMarker
       \/ pub.state = "reserved" /\ final = 0
       \/ MarkerAgrees(pub.state, pub.token)
    BY DEF RecoverableFacts
  <1>1. SoloFacts  BY DEF SoloInv
  <1>2. pub.state \in {"none", "reserved", "published", "aborted"}
    BY Parts DEF RowType, PubStates, LedgerInv
  <1>3. CASE pub.state = "none"
    BY <1>1, <1>3 DEF SoloFacts, MarkerAgrees, FilesInv, FilesHere
  <1>4. CASE pub.state \in {"reserved", "published"} /\ final # 0
    BY <1>1, <1>4 DEF SoloFacts, Traced, MarkerAgrees
  <1>5. CASE pub.state = "published" /\ final = 0
    BY <1>5 DEF FilesInv, FilesHere, PublishedHasFiles
  <1> QED  BY <1>2, <1>3, <1>4, <1>5

\* Executors that die at whatever step, each gone before the next delivery,
\* leave row, marker and directory in one of the states a recovery goes on from
\* (_recover_published_conversion), for any number of deliveries.
THEOREM Recoverable == Spec => []RecoverableFacts
  <1>1. Inv => TypeOK /\ FilesInv /\ FewInv /\ AloneInv  BY DEF Inv
  <1> QED  BY <1>1, InvHolds, LedgerNext, SoloNext, SoloInit, SoloRecovers, PTL DEF Spec
=============================================================================
