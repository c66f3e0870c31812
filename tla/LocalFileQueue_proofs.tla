----------------------- MODULE LocalFileQueue_proofs -----------------------
(***************************************************************************)
(* Proofs about the file queue. Every step is first reduced to what it     *)
(* does to one thread's row and to one file (Turns, Puts, Moves); the      *)
(* invariants are proved from these.                                       *)
(* BaseInv (types, the lock, the counts) holds for any number of           *)
(* processes. OneInv adds what a single process guarantees: a recovery     *)
(* that found a pending copy still finds it when it unlinks the lease.     *)
(* OrderInv adds, for a process whose holders and sender overlap nothing   *)
(* that Apart may name: a stamp belongs to one holder and is found on the  *)
(* lease it wrote alone, a recovery works on an expired lease, a claim has *)
(* taken a file whose old holder, if it is still there, has expired, and   *)
(* the sender finds the message in no directory it has left behind.        *)
(***************************************************************************)
EXTENDS LocalFileQueue, TLAPS

\* Types, with what a step has at hand.
FileType == file \in [Messages -> [Dirs -> Docs \cup {NoFile}]]
CountType ==
  /\ clock \in [Messages -> Nat] /\ expired \in [Messages -> Nat]
  /\ given \in [Messages -> Nat]
RowType ==
  /\ pc \in [Threads -> Steps] /\ at \in [Threads -> Messages \cup {Nobody}]
  /\ view \in [Threads -> Docs] /\ todo \in [Threads -> SUBSET Messages]
LockType == lock \in [Backends -> Threads \cup {Nobody}]
SenderType ==
  /\ sender \in [msg: Messages \cup {Nobody}, step: Dirs \cup {"rest", "write"}]
  /\ sender.step # "rest" => sender.msg \in Messages
  /\ sends \in [Messages -> 0 .. MaxSends]

Leasing == {"recExists", "recUnlink", "recMove"}
Working == Leasing \cup {"recWrite", "claimRead", "claimBack", "claimWrite"} \cup HoldSteps

AtInv ==
  \A p \in Threads :
    /\ pc[p] \in Working => at[p] \in Messages
    /\ pc[p] \in {"idle", "poll", "claim"} => at[p] = Nobody
    /\ pc[p] \in {"idle", "poll", "claim", "claimRead"} => view[p] = Fresh

Shape == FileType /\ CountType /\ RowType /\ LockType /\ SenderType /\ AtInv

LEMMA Apartness ==
  /\ "pending" # "leased" /\ "leased" # "completed" /\ "leased" # "failed"
  /\ Nobody \notin Messages /\ Nobody \notin Threads /\ Fresh \in Docs /\ NoFile \notin Docs
  /\ Fresh # NoFile
  /\ \A p \in Threads : BackendOf[p] \in Backends
  <1>1. Fresh \in Docs  BY DEF Fresh, Docs
  <1>2. Fresh # NoFile  BY <1>1, NoFileAssumption
  <1>3. \A p \in Threads : BackendOf[p] \in Backends  BY BackendOfAssumption
  <1>4. Nobody \notin Messages /\ Nobody \notin Threads  BY NobodyAssumption
  <1> QED  BY <1>1, <1>2, <1>3, <1>4, NoFileAssumption

LEMMA DocTypes ==
  ASSUME FileType, NEW m \in Messages, NEW d \in Dirs
  PROVE  /\ file[m][d] \in Docs \cup {NoFile}
         /\ file[m][d] # NoFile => file[m][d] \in Docs
  BY DEF FileType

LEMMA InitShape == Init => Shape
  <1> SUFFICES ASSUME Init PROVE Shape OBVIOUS
  <1>1. FileType /\ CountType /\ LockType  BY Apartness DEF Init, FileType, CountType, LockType
  <1>2. RowType  BY Apartness DEF Init, RowType, Steps
  <1>3. SenderType
    <2>1. 0 \in 0 .. MaxSends  BY MaxAssumption
    <2> QED  BY <2>1 DEF Init, SenderType, Resting
  <1>4. AtInv  BY DEF Init, AtInv, Working, Leasing, HoldSteps
  <1> QED  BY <1>1, <1>2, <1>3, <1>4 DEF Shape

-----------------------------------------------------------------------------
\* What a step does to the files: one document is written, one file is moved.
Puts(m, d, doc) ==
  /\ file'[m][d] = doc
  /\ \A n \in Messages, e \in Dirs : <<n, e>> # <<m, d>> => file'[n][e] = file[n][e]

Moves(m, d, e) ==
  /\ file'[m][d] = NoFile /\ file'[m][e] = file[m][d]
  /\ \A n \in Messages, f \in Dirs :
       <<n, f>> # <<m, d>> /\ <<n, f>> # <<m, e>> => file'[n][f] = file[n][f]

LEMMA Putting ==
  ASSUME FileType, NEW m \in Messages, NEW d \in Dirs, NEW doc \in Docs \cup {NoFile}, Put(m, d, doc)
  PROVE  FileType' /\ Puts(m, d, doc)
  BY DEF FileType, Put, Puts

LEMMA Moving ==
  ASSUME FileType, NEW m \in Messages, NEW d \in Dirs, NEW e \in Dirs, d # e, Move(m, d, e)
  PROVE  FileType' /\ Moves(m, d, e)
  BY DEF FileType, Move, Moves

\* A step of thread p to a step, with its message and its document.
Turns(p, s, a, v) ==
  /\ pc'[p] = s /\ at'[p] = a /\ view'[p] = v
  /\ \A q \in Threads \ {p} : pc'[q] = pc[q] /\ at'[q] = at[q] /\ view'[q] = view[q]
  /\ RowType'

LEMMA Turning ==
  ASSUME RowType, NEW p \in Threads, NEW s \in Steps, NEW a \in Messages \cup {Nobody}, NEW v \in Docs,
         pc' = [pc EXCEPT ![p] = s],
         at' = [at EXCEPT ![p] = a] \/ (at' = at /\ a = at[p]),
         view' = [view EXCEPT ![p] = v] \/ (view' = view /\ v = view[p]),
         todo' \in [Threads -> SUBSET Messages]
  PROVE  Turns(p, s, a, v)
  BY DEF RowType, Turns

LEMMA RestTurns ==
  ASSUME RowType, NEW p \in Threads, Rest(p)
  PROVE  Turns(p, "idle", Nobody, Fresh)
  <1>1. "idle" \in Steps /\ Fresh \in Docs  BY Apartness DEF Steps
  <1>2. /\ pc' = [pc EXCEPT ![p] = "idle"] /\ at' = [at EXCEPT ![p] = Nobody]
        /\ view' = [view EXCEPT ![p] = Fresh]
        /\ todo' \in [Threads -> SUBSET Messages]
    BY DEF Rest, GoTo, RowType
  <1> QED  BY <1>1, <1>2, Turning

LEMMA TypedRow ==
  ASSUME Shape, NEW p \in Threads
  PROVE  /\ RowType /\ FileType /\ pc[p] \in Steps /\ at[p] \in Messages \cup {Nobody} /\ view[p] \in Docs
         /\ todo[p] \subseteq Messages
         /\ pc[p] \in Working => at[p] \in Messages
  BY DEF Shape, RowType, AtInv

-----------------------------------------------------------------------------
\* The steps of a thread, by what they do.
Locks(p) ==
  /\ lock[BackendOf[p]] = Nobody /\ lock' = [lock EXCEPT ![BackendOf[p]] = p]
  /\ file' = file
  /\ \/ pc[p] = "idle" /\ Turns(p, "recover", at[p], view[p])
     \/ pc[p] = "poll" /\ Turns(p, "claim", at[p], view[p])

Passes == UNCHANGED <<file, lock, pc, at, view>> /\ RowType'

Reads(p) ==
  /\ pc[p] = "recover" /\ file' = file /\ lock' = lock
  /\ \E m \in Messages :
       /\ file[m]["leased"] # NoFile /\ Expired(m, file[m]["leased"]) /\ MayRecover(m)
       /\ Turns(p, "recExists", m, file[m]["leased"])

Looks(p) ==
  /\ pc[p] = "recExists" /\ file' = file /\ lock' = lock
  /\ \/ file[at[p]]["pending"] # NoFile /\ Turns(p, "recUnlink", at[p], view[p])
     \/ file[at[p]]["pending"] = NoFile /\ Turns(p, "recMove", at[p], view[p])

Unlinks(p) ==
  /\ pc[p] = "recUnlink" /\ lock' = lock
  /\ Puts(at[p], "leased", NoFile) /\ Turns(p, "recover", at[p], view[p])

Requeues(p) ==
  /\ pc[p] = "recMove" /\ lock' = lock /\ file[at[p]]["leased"] # NoFile
  /\ Moves(at[p], "leased", "pending") /\ Turns(p, "recWrite", at[p], view[p])

Rewrites(p) ==
  /\ pc[p] = "recWrite" /\ lock' = lock
  /\ Puts(at[p], "pending", RecoveredTask(view[p])) /\ Turns(p, "recover", at[p], view[p])

Leaves(p) ==
  /\ file' = file /\ lock' = [lock EXCEPT ![BackendOf[p]] = Nobody]
  /\ \/ pc[p] \in (RecoverSteps \cup ClaimSteps) \ {"claimRead"} /\ Turns(p, "idle", Nobody, Fresh)
     \/ pc[p] = "recover" /\ Turns(p, "poll", Nobody, Fresh)

Takes(p) ==
  /\ pc[p] = "claim" /\ lock' = lock
  /\ \E m \in Messages :
       /\ file[m]["pending"] # NoFile
       /\ Moves(m, "pending", "leased") /\ Turns(p, "claimRead", m, view[p])

Opens(p) ==
  /\ pc[p] = "claimRead" /\ file' = file /\ lock' = lock
  /\ file[at[p]]["leased"] # NoFile
  /\ Turns(p, "claimWrite", at[p], file[at[p]]["leased"])

Misses(p) ==
  /\ pc[p] = "claimRead" /\ file' = file /\ lock' = lock /\ MayRollBack(at[p])
  /\ Turns(p, "claimBack", at[p], view[p])

Returns(p) ==
  /\ pc[p] = "claimBack" /\ lock' = [lock EXCEPT ![BackendOf[p]] = Nobody]
  /\ file[at[p]]["leased"] # NoFile
  /\ Moves(at[p], "leased", "pending") /\ Turns(p, "idle", Nobody, Fresh)

Checks(p) ==
  /\ pc[p] = "hold" /\ IsCurrent(p) /\ MayCheck(at[p])
  /\ file' = file /\ lock' = lock
  /\ Turns(p, "finWrite", at[p], view[p]) \/ Turns(p, "refWrite", at[p], view[p])

Finishes(p) ==
  /\ pc[p] = "finWrite" /\ lock' = lock
  /\ Puts(at[p], "leased", view[p]) /\ Turns(p, "finMove", at[p], view[p])

Settles(p) ==
  /\ pc[p] = "finMove" /\ lock' = lock /\ file[at[p]]["leased"] # NoFile
  /\ \E d \in {"completed", "failed"} : Moves(at[p], "leased", d)
  /\ Turns(p, "idle", Nobody, Fresh)

Rests(p) ==
  /\ pc[p] = "hold" /\ file' = file /\ lock' = lock
  /\ Turns(p, "idle", Nobody, Fresh)

Retries(p) ==
  /\ pc[p] \in HoldSteps \ {"hold"} /\ file' = file /\ lock' = lock
  /\ Turns(p, "hold", at[p], view[p])

Plain(p) ==
  /\ \/ Locks(p) \/ Passes \/ Reads(p) \/ Looks(p) \/ Unlinks(p) \/ Requeues(p) \/ Rewrites(p)
     \/ Leaves(p) \/ Takes(p) \/ Opens(p) \/ Misses(p) \/ Returns(p)
     \/ Checks(p) \/ Finishes(p) \/ Settles(p) \/ Rests(p) \/ Retries(p)
  /\ UNCHANGED <<clock, expired, given, sender, sends>>

\* The steps that give a lease its next tick.
Ticks(p, new) ==
  LET m == at[p] IN
  /\ new \in Docs /\ new.stamp = clock[m] + 1
  /\ clock' = [clock EXCEPT ![m] = clock[m] + 1]
  /\ Puts(m, "leased", new) /\ Turns(p, "hold", m, new)
  /\ UNCHANGED <<expired, sender, sends>>

Leases(p) ==
  /\ pc[p] = "claimWrite" /\ lock' = [lock EXCEPT ![BackendOf[p]] = Nobody]
  /\ given' = [given EXCEPT ![at[p]] = IF view[p].count + 1 > given[at[p]]
                                         THEN view[p].count + 1 ELSE given[at[p]]]
  /\ \E new : Ticks(p, new) /\ new.count = view[p].count + 1

Refreshes(p) ==
  /\ pc[p] = "refWrite" /\ lock' = lock /\ given' = given
  /\ \E new : Ticks(p, new) /\ new.count = view[p].count

ThreadStep(p) == Plain(p) \/ Leases(p) \/ Refreshes(p)

LEMMA Acquiring ==
  ASSUME LockType, NEW p \in Threads, Acquire(p)
  PROVE  lock[BackendOf[p]] = Nobody /\ lock' = [lock EXCEPT ![BackendOf[p]] = p] /\ LockType'
  BY Apartness DEF Acquire, LockType

LEMMA Releasing ==
  ASSUME LockType, NEW p \in Threads, Release(p)
  PROVE  lock' = [lock EXCEPT ![BackendOf[p]] = Nobody] /\ LockType'
  BY Apartness DEF Release, LockType

Kept == FileType' /\ LockType'

LEMMA Still ==
  ASSUME Shape, file' = file PROVE FileType'
  BY DEF Shape, FileType

LEMMA StillLock ==
  ASSUME Shape, lock' = lock PROVE LockType'
  BY DEF Shape, LockType

LEMMA ReturnLeaves ==
  ASSUME Shape, NEW p \in Threads, Return(p), pc[p] \in (RecoverSteps \cup ClaimSteps) \ {"claimRead"}
  PROVE  Leaves(p) /\ Kept
  <1>1. RowType /\ LockType  BY DEF Shape
  <1>2. Rest(p) /\ Release(p) /\ file' = file  BY DEF Return
  <1> QED  BY <1>1, <1>2, RestTurns, Releasing, Still DEF Leaves, Kept

LEMMA RecoveryRows ==
  ASSUME Shape, NEW p \in Threads, Recover(p)
  PROVE  Kept /\ \/ Locks(p) \/ Passes \/ Reads(p) \/ Looks(p) \/ Unlinks(p) \/ Requeues(p)
                 \/ Rewrites(p) \/ Leaves(p)
  <1>0. /\ RowType /\ FileType /\ LockType /\ at[p] \in Messages \cup {Nobody} /\ view[p] \in Docs
        /\ pc[p] \in Working => at[p] \in Messages
    BY TypedRow DEF Shape
  <1>1. CASE RecoverStart(p)
    <2>1. pc[p] = "idle" /\ Acquire(p) /\ file' = file  BY <1>1 DEF RecoverStart
    <2>2. /\ pc' = [pc EXCEPT ![p] = "recover"] /\ at' = at /\ view' = view
          /\ todo' \in [Threads -> SUBSET Messages] /\ "recover" \in Steps
      BY <1>0, <1>1 DEF RecoverStart, GoTo, RowType, In, Steps, RecoverSteps
    <2>3. Turns(p, "recover", at[p], view[p])  BY <1>0, <2>2, Turning
    <2> QED  BY <1>0, <2>1, <2>3, Acquiring, Still DEF Locks, Kept
  <1>2. CASE RecoverSkip(p)
    <2>1. UNCHANGED <<file, lock, pc, at, view>>  BY <1>2 DEF RecoverSkip
    <2>2. todo' \in [Threads -> SUBSET Messages]  BY <1>0, <1>2 DEF RecoverSkip, Pass, RowType
    <2> QED  BY <1>0, <2>1, <2>2, Still, StillLock DEF Passes, RowType, Kept
  <1>3. CASE RecoverRead(p)
    <2>1. PICK m \in todo[p] :
            /\ pc[p] = "recover" /\ file[m]["leased"] # NoFile
            /\ Expired(m, file[m]["leased"]) /\ MayRecover(m) /\ Visit(p, m)
            /\ view' = [view EXCEPT ![p] = file[m]["leased"]]
            /\ GoTo(p, "recExists") /\ file' = file /\ lock' = lock
      BY <1>3 DEF RecoverRead
    <2>2. m \in Messages  BY TypedRow
    <2>3. file[m]["leased"] \in Docs  BY <1>0, <2>1, <2>2, DocTypes DEF Dirs
    <2>4. /\ pc' = [pc EXCEPT ![p] = "recExists"] /\ at' = [at EXCEPT ![p] = m]
          /\ todo' \in [Threads -> SUBSET Messages] /\ "recExists" \in Steps
      BY <1>0, <2>1 DEF GoTo, Visit, Pass, RowType, Steps, RecoverSteps
    <2>5. Turns(p, "recExists", m, file[m]["leased"])  BY <1>0, <2>1, <2>2, <2>3, <2>4, Turning
    <2> QED  BY <2>1, <2>2, <2>5, Still, StillLock DEF Reads, Kept
  <1>4. CASE RecoverExists(p)
    <2>1. /\ pc[p] = "recExists" /\ file' = file /\ lock' = lock /\ at' = at /\ view' = view
          /\ todo' \in [Threads -> SUBSET Messages] /\ "recUnlink" \in Steps /\ "recMove" \in Steps
          /\ pc' = [pc EXCEPT ![p] = IF file[at[p]]["pending"] # NoFile THEN "recUnlink" ELSE "recMove"]
      BY <1>0, <1>4 DEF RecoverExists, GoTo, RowType, Steps, RecoverSteps
    <2>2. CASE file[at[p]]["pending"] # NoFile
      <3>1. Turns(p, "recUnlink", at[p], view[p])  BY <1>0, <2>1, <2>2, Turning
      <3> QED  BY <2>1, <2>2, <3>1, Still, StillLock DEF Looks, Kept
    <2>3. CASE file[at[p]]["pending"] = NoFile
      <3>1. Turns(p, "recMove", at[p], view[p])  BY <1>0, <2>1, <2>3, Turning
      <3> QED  BY <2>1, <2>3, <3>1, Still, StillLock DEF Looks, Kept
    <2> QED  BY <2>2, <2>3
  <1>5. CASE RecoverUnlink(p)
    <2>1. /\ pc[p] = "recUnlink" /\ lock' = lock /\ Put(at[p], "leased", NoFile) /\ at' = at /\ view' = view
          /\ todo' \in [Threads -> SUBSET Messages] /\ "recover" \in Steps
          /\ pc' = [pc EXCEPT ![p] = "recover"]
      BY <1>0, <1>5 DEF RecoverUnlink, GoTo, RowType, Steps, RecoverSteps
    <2>2. Turns(p, "recover", at[p], view[p])  BY <1>0, <2>1, Turning
    <2>3. FileType' /\ Puts(at[p], "leased", NoFile)
      BY <1>0, <2>1, Putting DEF Dirs, Working, Leasing
    <2> QED  BY <2>1, <2>2, <2>3, StillLock DEF Unlinks, Kept
  <1>6. CASE RecoverMove(p)
    <2>1. /\ pc[p] = "recMove" /\ lock' = lock /\ Move(at[p], "leased", "pending") /\ at' = at /\ view' = view
          /\ todo' \in [Threads -> SUBSET Messages] /\ "recWrite" \in Steps
          /\ pc' = [pc EXCEPT ![p] = "recWrite"] /\ file[at[p]]["leased"] # NoFile
      BY <1>0, <1>6 DEF RecoverMove, GoTo, RowType, Steps, RecoverSteps
    <2>2. Turns(p, "recWrite", at[p], view[p])  BY <1>0, <2>1, Turning
    <2>3. FileType' /\ Moves(at[p], "leased", "pending")
      BY <1>0, <2>1, Moving, Apartness DEF Dirs, Working, Leasing
    <2> QED  BY <2>1, <2>2, <2>3, StillLock DEF Requeues, Kept
  <1>7. CASE RecoverWrite(p)
    <2>1. /\ pc[p] = "recWrite" /\ lock' = lock /\ Put(at[p], "pending", RecoveredTask(view[p]))
          /\ at' = at /\ view' = view
          /\ todo' \in [Threads -> SUBSET Messages] /\ "recover" \in Steps
          /\ pc' = [pc EXCEPT ![p] = "recover"]
      BY <1>0, <1>7 DEF RecoverWrite, GoTo, RowType, Steps, RecoverSteps
    <2>2. Turns(p, "recover", at[p], view[p])  BY <1>0, <2>1, Turning
    <2>3. RecoveredTask(view[p]) \in Docs  BY <1>0 DEF RecoveredTask, Docs
    <2>4. FileType' /\ Puts(at[p], "pending", RecoveredTask(view[p]))
      BY <1>0, <2>1, <2>3, Putting DEF Dirs, Working
    <2> QED  BY <2>1, <2>2, <2>4, StillLock DEF Rewrites, Kept
  <1>8. CASE RecoverEnd(p)
    <2>1. /\ pc[p] = "recover" /\ Release(p) /\ file' = file
          /\ pc' = [pc EXCEPT ![p] = "poll"] /\ at' = [at EXCEPT ![p] = Nobody]
          /\ view' = [view EXCEPT ![p] = Fresh]
          /\ todo' \in [Threads -> SUBSET Messages] /\ "poll" \in Steps
      BY <1>0, <1>8 DEF RecoverEnd, GoTo, RowType, Steps
    <2>2. Turns(p, "poll", Nobody, Fresh)  BY <1>0, <2>1, Turning, Apartness
    <2> QED  BY <1>0, <2>1, <2>2, Releasing, Still DEF Leaves, Kept
  <1> QED  BY <1>1, <1>2, <1>3, <1>4, <1>5, <1>6, <1>7, <1>8 DEF Recover

LEMMA ClaimRows ==
  ASSUME Shape, NEW p \in Threads, Claim(p)
  PROVE  Kept /\ (Locks(p) \/ Passes \/ Leaves(p) \/ Takes(p) \/ Opens(p) \/ Misses(p) \/ Returns(p))
  <1>0. /\ RowType /\ FileType /\ LockType /\ at[p] \in Messages \cup {Nobody} /\ view[p] \in Docs
        /\ pc[p] \in Working => at[p] \in Messages
    BY TypedRow DEF Shape
  <1>1. CASE ClaimStart(p)
    <2>1. pc[p] = "poll" /\ Acquire(p) /\ file' = file  BY <1>1 DEF ClaimStart
    <2>2. /\ pc' = [pc EXCEPT ![p] = "claim"] /\ at' = at /\ view' = view
          /\ todo' \in [Threads -> SUBSET Messages] /\ "claim" \in Steps
      BY <1>0, <1>1 DEF ClaimStart, GoTo, RowType, In, Steps, ClaimSteps
    <2>3. Turns(p, "claim", at[p], view[p])  BY <1>0, <2>2, Turning
    <2> QED  BY <1>0, <2>1, <2>3, Acquiring, Still DEF Locks, Kept
  <1>2. CASE ClaimMove(p)
    <2>1. PICK m \in todo[p] :
            /\ pc[p] = "claim" /\ lock' = lock /\ view' = view
            /\ \/ /\ file[m]["pending"] # NoFile
                  /\ Visit(p, m) /\ Move(m, "pending", "leased") /\ GoTo(p, "claimRead")
               \/ Pass(p, m) /\ UNCHANGED <<file, pc, at>>
      BY <1>2 DEF ClaimMove
    <2>2. m \in Messages  BY TypedRow
    <2>3. CASE /\ file[m]["pending"] # NoFile
               /\ Visit(p, m) /\ Move(m, "pending", "leased") /\ GoTo(p, "claimRead")
      <3>1. /\ pc' = [pc EXCEPT ![p] = "claimRead"] /\ at' = [at EXCEPT ![p] = m]
            /\ todo' \in [Threads -> SUBSET Messages] /\ "claimRead" \in Steps
        BY <1>0, <2>3 DEF GoTo, Visit, Pass, RowType, Steps, ClaimSteps
      <3>2. Turns(p, "claimRead", m, view[p])  BY <1>0, <2>1, <2>2, <3>1, Turning
      <3>3. FileType' /\ Moves(m, "pending", "leased")
        BY <1>0, <2>2, <2>3, Moving, Apartness DEF Dirs
      <3> QED  BY <2>1, <2>2, <2>3, <3>2, <3>3, StillLock DEF Takes, Kept
    <2>4. CASE Pass(p, m) /\ UNCHANGED <<file, pc, at>>
      <3>1. todo' \in [Threads -> SUBSET Messages]  BY <1>0, <2>4 DEF Pass, RowType
      <3> QED  BY <1>0, <2>1, <2>4, <3>1, Still, StillLock DEF Passes, RowType, Kept
    <2> QED  BY <2>1, <2>3, <2>4
  <1>3. CASE ClaimRead(p)
    <2>1. /\ pc[p] = "claimRead" /\ file' = file /\ lock' = lock /\ at' = at
          /\ view' = [view EXCEPT ![p] = file[at[p]]["leased"]] /\ file[at[p]]["leased"] # NoFile
          /\ todo' \in [Threads -> SUBSET Messages] /\ "claimWrite" \in Steps
          /\ pc' = [pc EXCEPT ![p] = "claimWrite"]
      BY <1>0, <1>3 DEF ClaimRead, GoTo, RowType, Steps, ClaimSteps
    <2>2. at[p] \in Messages  BY <1>0, <2>1 DEF Working, ClaimSteps
    <2>3. file[at[p]]["leased"] \in Docs  BY <1>0, <2>1, <2>2, DocTypes DEF Dirs
    <2>4. Turns(p, "claimWrite", at[p], file[at[p]]["leased"])  BY <1>0, <2>1, <2>3, Turning
    <2> QED  BY <2>1, <2>4, Still, StillLock DEF Opens, Kept
  <1>4. CASE ClaimReadFails(p)
    <2>1. /\ pc[p] = "claimRead" /\ MayRollBack(at[p]) /\ file' = file /\ lock' = lock /\ at' = at
          /\ view' = view /\ todo' \in [Threads -> SUBSET Messages] /\ "claimBack" \in Steps
          /\ pc' = [pc EXCEPT ![p] = "claimBack"]
      BY <1>0, <1>4 DEF ClaimReadFails, GoTo, RowType, Steps, ClaimSteps
    <2>2. Turns(p, "claimBack", at[p], view[p])  BY <1>0, <2>1, Turning
    <2> QED  BY <2>1, <2>2, Still, StillLock DEF Misses, Kept
  <1>5. CASE ClaimRollBack(p)
    <2>1. pc[p] = "claimBack" /\ Rest(p) /\ Release(p)  BY <1>5 DEF ClaimRollBack
    <2>2. CASE file' = file
      <3>1. Return(p) /\ pc[p] \in (RecoverSteps \cup ClaimSteps) \ {"claimRead"}
        BY <2>1, <2>2 DEF Return, ClaimSteps
      <3> QED  BY <3>1, ReturnLeaves
    <2>3. CASE file[at[p]]["leased"] # NoFile /\ Move(at[p], "leased", "pending")
      <3>1. at[p] \in Messages  BY <1>0, <2>1 DEF Working, ClaimSteps
      <3>2. FileType' /\ Moves(at[p], "leased", "pending")
        BY <1>0, <2>3, <3>1, Moving, Apartness DEF Dirs
      <3> QED  BY <1>0, <2>1, <2>3, <3>2, RestTurns, Releasing DEF Returns, Kept
    <2> QED  BY <1>5, <2>2, <2>3 DEF ClaimRollBack
  <1>6. CASE ClaimEnd(p) \/ Raise(p)
    <2>1. Return(p) /\ pc[p] \in (RecoverSteps \cup ClaimSteps) \ {"claimRead"}
      BY <1>6 DEF ClaimEnd, Raise, ClaimSteps
    <2> QED  BY <2>1, ReturnLeaves
  <1> QED  BY <1>1, <1>2, <1>3, <1>4, <1>5, <1>6 DEF Claim

LEMMA FinishRows ==
  ASSUME Shape, NEW p \in Threads, Finish(p)
  PROVE  Kept /\ (Checks(p) \/ Finishes(p) \/ Settles(p) \/ Rests(p) \/ Retries(p))
  <1>0. /\ RowType /\ FileType /\ LockType /\ at[p] \in Messages \cup {Nobody} /\ view[p] \in Docs
        /\ pc[p] \in Working => at[p] \in Messages
    BY TypedRow DEF Shape
  <1>1. ASSUME pc[p] = "hold", Rest(p), file' = file, lock' = lock
        PROVE  Kept /\ Rests(p)
    BY <1>0, <1>1, RestTurns, Still, StillLock DEF Rests, Kept
  <1>2. CASE Check(p)
    <2>1. CASE IsCurrent(p)
      <3>1. /\ pc[p] = "hold" /\ file' = file /\ lock' = lock /\ at' = at /\ view' = view
            /\ todo' \in [Threads -> SUBSET Messages]
            /\ "finWrite" \in Steps /\ "refWrite" \in Steps
            /\ MayCheck(at[p])
            /\ \/ pc' = [pc EXCEPT ![p] = "finWrite"]
               \/ pc' = [pc EXCEPT ![p] = "refWrite"]
        BY <1>0, <1>2, <2>1 DEF Check, GoTo, RowType, Steps, HoldSteps
      <3>2. Turns(p, "finWrite", at[p], view[p]) \/ Turns(p, "refWrite", at[p], view[p])
        BY <1>0, <3>1, Turning
      <3> QED  BY <2>1, <3>1, <3>2, Still, StillLock DEF Checks, Kept
    <2>2. CASE ~IsCurrent(p)  BY <1>1, <1>2, <2>2 DEF Check
    <2> QED  BY <2>1, <2>2
  <1>3. CASE FinishWrite(p)
    <2>1. /\ pc[p] = "finWrite" /\ lock' = lock /\ Put(at[p], "leased", view[p])
          /\ at' = at /\ view' = view
          /\ todo' \in [Threads -> SUBSET Messages] /\ "finMove" \in Steps
          /\ pc' = [pc EXCEPT ![p] = "finMove"]
      BY <1>0, <1>3 DEF FinishWrite, GoTo, RowType, Steps, HoldSteps
    <2>2. Turns(p, "finMove", at[p], view[p])  BY <1>0, <2>1, Turning
    <2>3. FileType' /\ Puts(at[p], "leased", view[p])
      BY <1>0, <2>1, Putting DEF Dirs, Working, HoldSteps
    <2> QED  BY <2>1, <2>2, <2>3, StillLock DEF Finishes, Kept
  <1>4. CASE FinishMove(p)
    <2>1. PICK d \in {"completed", "failed"} : Move(at[p], "leased", d)
      BY <1>4 DEF FinishMove
    <2>2. pc[p] = "finMove" /\ file[at[p]]["leased"] # NoFile /\ Rest(p) /\ lock' = lock
      BY <1>4 DEF FinishMove
    <2>3. at[p] \in Messages  BY <1>0, <2>2 DEF Working, HoldSteps
    <2>4. FileType' /\ Moves(at[p], "leased", d)
      BY <1>0, <2>1, <2>3, Moving, Apartness DEF Dirs
    <2> QED  BY <1>0, <2>2, <2>4, RestTurns, StillLock DEF Settles, Kept
  <1>5. CASE HolderFails(p)
    <2>1. /\ pc[p] \in HoldSteps \ {"hold"} /\ file' = file /\ lock' = lock /\ at' = at /\ view' = view
          /\ todo' \in [Threads -> SUBSET Messages] /\ "hold" \in Steps
          /\ pc' = [pc EXCEPT ![p] = "hold"]
      BY <1>0, <1>5 DEF HolderFails, GoTo, RowType, Steps, HoldSteps
    <2>2. Turns(p, "hold", at[p], view[p])  BY <1>0, <2>1, Turning
    <2> QED  BY <2>1, <2>2, Still, StillLock DEF Retries, Kept
  <1>6. CASE GiveUp(p)  BY <1>1, <1>6 DEF GiveUp
  <1> QED  BY <1>2, <1>3, <1>4, <1>5, <1>6 DEF Finish

LEMMA Stamping ==
  ASSUME Shape, NEW p \in Threads, at[p] \in Messages, NEW doc \in Docs, Stamp(p, doc),
         pc' = [pc EXCEPT ![p] = "hold"], at' = at, todo' \in [Threads -> SUBSET Messages],
         UNCHANGED <<expired, sender, sends>>
  PROVE  /\ FileType' /\ clock' \in [Messages -> Nat] /\ clock[at[p]] < MaxStamp
         /\ \E new : Ticks(p, new) /\ new.count = doc.count
  <1>0. RowType /\ FileType /\ clock \in [Messages -> Nat] /\ "hold" \in Steps
    BY DEF Shape, CountType, Steps, HoldSteps
  <1> DEFINE m == at[p]
             new == [doc EXCEPT !.stamp = clock[m] + 1]
  <1>1. clock[m] + 1 \in Nat  BY <1>0
  <1>2. new \in Docs /\ new.stamp = clock[m] + 1 /\ new.count = doc.count  BY <1>1 DEF Docs
  <1>3. /\ clock[m] < MaxStamp /\ clock' = [clock EXCEPT ![m] = clock[m] + 1]
        /\ view' = [view EXCEPT ![p] = new] /\ Put(m, "leased", new)
    BY DEF Stamp
  <1> HIDE DEF new
  <1>4. FileType' /\ Puts(m, "leased", new)  BY <1>0, <1>2, <1>3, Putting DEF Dirs
  <1>5. Turns(p, "hold", m, new)  BY <1>0, <1>2, <1>3, Turning
  <1>6. Ticks(p, new)  BY <1>2, <1>3, <1>4, <1>5 DEF Ticks
  <1>7. clock' \in [Messages -> Nat]  BY <1>0, <1>1, <1>3
  <1> QED  BY <1>2, <1>3, <1>4, <1>6, <1>7

LEMMA ClaimWriteStep ==
  ASSUME Shape, NEW p \in Threads, ClaimWrite(p)
  PROVE  Kept /\ Leases(p) /\ CountType'
  <1>0. /\ RowType /\ LockType /\ CountType /\ view[p] \in Docs /\ pc[p] = "claimWrite" /\ at[p] \in Messages
    BY TypedRow DEF Shape, ClaimWrite, Working
  <1> DEFINE c == view[p].count + 1
             doc == [view[p] EXCEPT !.count = c]
  <1>1. c \in Nat /\ doc \in Docs /\ doc.count = c  BY <1>0 DEF Docs
  <1>2. /\ Stamp(p, doc) /\ Release(p) /\ at' = at
        /\ pc' = [pc EXCEPT ![p] = "hold"] /\ UNCHANGED <<expired, sender, sends>>
        /\ given' = [given EXCEPT ![at[p]] = IF c > given[at[p]] THEN c ELSE given[at[p]]]
    BY DEF ClaimWrite, GoTo
  <1>3. todo' \in [Threads -> SUBSET Messages]  BY <1>0 DEF ClaimWrite, RowType
  <1> HIDE DEF doc
  <1>4. /\ FileType' /\ clock' \in [Messages -> Nat]
        /\ \E new : Ticks(p, new) /\ new.count = c
    BY ZenonT(30), <1>0, <1>1, <1>2, <1>3, Stamping
  <1>5. given' \in [Messages -> Nat]  BY <1>0, <1>1, <1>2 DEF CountType
  <1>6. CountType'  BY <1>0, <1>2, <1>4, <1>5 DEF CountType
  <1>7. LockType' /\ lock' = [lock EXCEPT ![BackendOf[p]] = Nobody]  BY <1>0, <1>2, Releasing
  <1>8. Leases(p)  BY <1>0, <1>2, <1>4, <1>7 DEF Leases
  <1> QED  BY <1>4, <1>6, <1>7, <1>8 DEF Kept

LEMMA RefreshWriteStep ==
  ASSUME Shape, NEW p \in Threads, RefreshWrite(p)
  PROVE  Kept /\ Refreshes(p) /\ CountType'
  <1>0. /\ RowType /\ LockType /\ CountType /\ view[p] \in Docs /\ pc[p] = "refWrite" /\ at[p] \in Messages
    BY TypedRow DEF Shape, RefreshWrite, Working, HoldSteps
  <1>1. /\ Stamp(p, view[p]) /\ at' = at /\ todo' = todo /\ lock' = lock /\ given' = given
        /\ pc' = [pc EXCEPT ![p] = "hold"] /\ UNCHANGED <<expired, sender, sends>>
    BY DEF RefreshWrite, GoTo
  <1>2. todo' \in [Threads -> SUBSET Messages]  BY <1>0, <1>1 DEF RowType
  <1>3. /\ FileType' /\ clock' \in [Messages -> Nat]
        /\ \E new : Ticks(p, new) /\ new.count = view[p].count
    BY <1>0, <1>1, <1>2, Stamping
  <1>4. CountType'  BY <1>0, <1>1, <1>3 DEF CountType
  <1>5. Refreshes(p)  BY <1>0, <1>1, <1>3 DEF Refreshes
  <1> QED  BY <1>1, <1>3, <1>4, <1>5, StillLock DEF Kept

\* A thread keeps what AtInv says of it.
LEMMA AtStep ==
  ASSUME Shape, NEW p \in Threads, ThreadStep(p) PROVE AtInv'
  <1>0. /\ AtInv /\ FileType /\ RowType /\ at[p] \in Messages \cup {Nobody}
        /\ pc[p] \in Working => at[p] \in Messages
    BY TypedRow DEF Shape
  <1> DEFINE Good(s, a, v) ==
        /\ s \in Working => a \in Messages
        /\ s \in {"idle", "poll", "claim"} => a = Nobody
        /\ s \in {"idle", "poll", "claim", "claimRead"} => v = Fresh
  <1>1. ASSUME NEW s, NEW a, NEW v, Turns(p, s, a, v), Good(s, a, v) PROVE AtInv'
    BY <1>0, <1>1 DEF AtInv, Turns
  <1>2. Good(pc[p], at[p], view[p])  BY <1>0 DEF AtInv
  <1>3. CASE Locks(p)
    <2>1. Good("claim", at[p], view[p]) \/ pc[p] # "poll"  BY <1>2 DEF Working, Leasing, HoldSteps
    <2>2. Good("recover", at[p], view[p])  BY DEF Working, Leasing, HoldSteps
    <2> QED  BY <1>1, <1>3, <2>1, <2>2 DEF Locks
  <1>4. CASE Passes  BY <1>0, <1>4 DEF Passes, AtInv
  <1>5. CASE Reads(p)
    <2>1. PICK m \in Messages : Turns(p, "recExists", m, file[m]["leased"])  BY <1>5 DEF Reads
    <2>2. Good("recExists", m, file[m]["leased"])  OBVIOUS
    <2> QED  BY <1>1, <2>1, <2>2
  <1>6. CASE \/ Looks(p) \/ Unlinks(p) \/ Requeues(p) \/ Rewrites(p) \/ Misses(p)
             \/ Checks(p) \/ Finishes(p) \/ Retries(p)
    <2>1. PICK s \in {"recUnlink", "recMove", "recover", "recWrite", "claimBack", "finWrite", "refWrite",
                      "finMove", "hold"} :
            Turns(p, s, at[p], view[p])
      BY <1>6 DEF Looks, Unlinks, Requeues, Rewrites, Misses, Checks, Finishes, Retries
    <2>2. at[p] \in Messages
      BY <1>0, <1>6
      DEF Looks, Unlinks, Requeues, Rewrites, Misses, Checks, Finishes, Retries,
          Working, Leasing, ClaimSteps, HoldSteps
    <2>3. Good(s, at[p], view[p])  BY <2>2
    <2> QED  BY <1>1, <2>1, <2>3
  <1>7. CASE Leaves(p) \/ Returns(p) \/ Settles(p) \/ Rests(p)
    <2>1. PICK s \in {"idle", "poll"} : Turns(p, s, Nobody, Fresh)
      BY <1>7 DEF Leaves, Returns, Settles, Rests
    <2>2. Good(s, Nobody, Fresh)  BY DEF Working, Leasing, HoldSteps
    <2> QED  BY <1>1, <2>1, <2>2
  <1>8. CASE Takes(p)
    <2>1. PICK m \in Messages : Turns(p, "claimRead", m, view[p])  BY <1>8 DEF Takes
    <2>2. Good("claimRead", m, view[p])  BY <1>2, <1>8 DEF Takes
    <2> QED  BY <1>1, <2>1, <2>2
  <1>9. CASE Opens(p)
    <2>1. at[p] \in Messages /\ Turns(p, "claimWrite", at[p], file[at[p]]["leased"])
      BY <1>0, <1>9 DEF Opens, Working
    <2>2. Good("claimWrite", at[p], file[at[p]]["leased"])  BY <2>1
    <2> QED  BY <1>1, <2>1, <2>2
  <1>10. CASE Leases(p) \/ Refreshes(p)
    <2>1. PICK new : Ticks(p, new)  BY <1>10 DEF Leases, Refreshes
    <2>2. at[p] \in Messages /\ Turns(p, "hold", at[p], new)
      BY <1>0, <1>10, <2>1 DEF Leases, Refreshes, Ticks, Working, HoldSteps
    <2>3. Good("hold", at[p], new)  BY <2>2
    <2> QED  BY <1>1, <2>2, <2>3
  <1> QED  BY <1>3, <1>4, <1>5, <1>6, <1>7, <1>8, <1>9, <1>10 DEF ThreadStep, Plain

LEMMA TurnsRow ==
  ASSUME NEW p, ThreadStep(p) PROVE RowType'
  BY DEF ThreadStep, Plain, Locks, Passes, Reads, Looks, Unlinks, Requeues, Rewrites, Leaves, Takes,
         Opens, Misses, Returns, Checks, Finishes, Settles, Rests, Retries, Leases, Refreshes, Ticks, Turns

LEMMA ThreadSteps ==
  ASSUME Shape, NEW p \in Threads, ThreadNext(p) PROVE ThreadStep(p) /\ Shape'
  <1>0. CountType /\ SenderType  BY DEF Shape
  <1>1. ThreadStep(p) /\ Kept /\ CountType' /\ UNCHANGED <<sender, sends>>
    <2>1. CASE (Recover(p) \/ Claim(p) \/ Finish(p)) /\ UNCHANGED <<clock, expired, given, sender, sends>>
      <3>1. CountType'  BY <1>0, <2>1 DEF CountType
      <3>2. Plain(p) /\ Kept  BY <2>1, RecoveryRows, ClaimRows, FinishRows DEF Plain
      <3> QED  BY <2>1, <3>1, <3>2 DEF ThreadStep
    <2>2. CASE ClaimWrite(p)
      BY <2>2, ClaimWriteStep DEF ThreadStep, ClaimWrite
    <2>3. CASE RefreshWrite(p)
      BY <2>3, RefreshWriteStep DEF ThreadStep, RefreshWrite
    <2> QED  BY <2>1, <2>2, <2>3 DEF ThreadNext
  <1>2. AtInv' /\ RowType'  BY <1>1, AtStep, TurnsRow
  <1>3. SenderType'  BY <1>0, <1>1 DEF SenderType
  <1> QED  BY <1>1, <1>2, <1>3 DEF Shape, Kept

-----------------------------------------------------------------------------
\* The steps of the others.
Aside == UNCHANGED <<clock, given, lock, pc, at, view>>

\* The process of a backend dies.
Dies(b) ==
  /\ UNCHANGED <<file, clock, expired, given, sender, sends>>
  /\ lock' = [lock EXCEPT ![b] = Nobody]
  /\ \A p \in Threads :
       IF BackendOf[p] = b THEN pc'[p] = "idle" /\ at'[p] = Nobody /\ view'[p] = Fresh
                           ELSE pc'[p] = pc[p] /\ at'[p] = at[p] /\ view'[p] = view[p]

\* The sender goes on, or gives up.
Sends ==
  /\ Aside /\ UNCHANGED <<file, expired>>
  /\ \/ /\ sender.step = "rest" /\ sender'.step = "pending"
        /\ "sender" \in Apart => ~Recovering(sender'.msg) /\ ~RollingBack(sender'.msg)
     \/ /\ sender.step \in Dirs /\ sender'.msg = sender.msg /\ sender'.step = NextLook(sender.step)
        /\ file[sender.msg][sender.step] = NoFile
     \/ sender' = Resting

Stores ==
  /\ Aside /\ expired' = expired
  /\ sender.step = "write" /\ sender' = Resting
  /\ Puts(sender.msg, "pending", Fresh)

Times(m) ==
  /\ Aside /\ UNCHANGED <<file, sender, sends>>
  /\ expired[m] < clock[m] /\ expired' = [expired EXCEPT ![m] = expired[m] + 1]

OtherStep ==
  (\E b \in Backends : Dies(b)) \/ Sends \/ Stores \/ (\E m \in Messages : Times(m))

LEMMA AsideShape ==
  ASSUME Shape, Aside, todo' = todo, FileType', SenderType', expired' \in [Messages -> Nat]
  PROVE  Shape'
  BY DEF Shape, Aside, CountType, RowType, LockType, AtInv

LEMMA CrashStep ==
  ASSUME Shape, NEW b \in Backends, Crash(b) PROVE Dies(b) /\ Shape'
  <1>0. RowType /\ AtInv /\ LockType  BY DEF Shape
  <1> DEFINE dead == {p \in Threads : BackendOf[p] = b}
  <1>1. /\ UNCHANGED <<file, clock, expired, given, sender, sends>>
        /\ lock' = [lock EXCEPT ![b] = Nobody]
        /\ pc' = [p \in Threads |-> IF p \in dead THEN "idle" ELSE pc[p]]
        /\ todo' = [p \in Threads |-> IF p \in dead THEN {} ELSE todo[p]]
        /\ at' = [p \in Threads |-> IF p \in dead THEN Nobody ELSE at[p]]
        /\ view' = [p \in Threads |-> IF p \in dead THEN Fresh ELSE view[p]]
    BY DEF Crash
  <1>2. Dies(b)  BY <1>1 DEF Dies
  <1>3. RowType'  BY <1>0, <1>1, Apartness DEF RowType, Steps
  <1>4. AtInv'  BY <1>0, <1>2 DEF AtInv, Dies, Working, Leasing, HoldSteps
  <1>5. LockType'  BY <1>0, <1>1 DEF LockType
  <1>6. FileType' /\ CountType' /\ SenderType'
    BY <1>1 DEF Shape, FileType, CountType, SenderType
  <1> QED  BY <1>2, <1>3, <1>4, <1>5, <1>6 DEF Shape

LEMMA SenderKept ==
  ASSUME SenderType, sends' = sends,
         sender' \in [msg: Messages \cup {Nobody}, step: Dirs \cup {"rest", "write"}],
         sender'.step # "rest" => sender'.msg \in Messages
  PROVE  SenderType'
  BY DEF SenderType

LEMMA SenderSteps ==
  ASSUME Shape, (\E m \in Messages : EnqueueStart(m)) \/ EnqueueLook \/ SenderCrash
  PROVE  Sends /\ Shape'
  <1>0. SenderType /\ FileType /\ expired \in [Messages -> Nat]  BY DEF Shape, CountType
  <1>r. Resting \in [msg: Messages \cup {Nobody}, step: Dirs \cup {"rest", "write"}] /\ Resting.step = "rest"
    BY DEF Resting
  <1>1. Aside /\ UNCHANGED <<file, expired>> /\ todo' = todo
    BY DEF EnqueueStart, EnqueueLook, SenderCrash, works, Aside
  <1>2. ASSUME NEW m \in Messages, EnqueueStart(m) PROVE Sends /\ SenderType'
    <2>1. /\ sender.step = "rest" /\ sender' = [msg |-> m, step |-> "pending"]
          /\ "sender" \in Apart => ~Recovering(m) /\ ~RollingBack(m)
          /\ sends[m] < MaxSends /\ sends' = [sends EXCEPT ![m] = sends[m] + 1]
      BY <1>2 DEF EnqueueStart
    <2>2. sends' \in [Messages -> 0 .. MaxSends]
      BY <1>0, <2>1, MaxAssumption DEF SenderType
    <2>3. SenderType'  BY <2>1, <2>2 DEF SenderType, Dirs
    <2> QED  BY <1>1, <2>1, <2>3 DEF Sends
  <1>3. ASSUME EnqueueLook PROVE Sends /\ SenderType'
    <2>1. /\ sender.step \in Dirs /\ sends' = sends
          /\ sender' = IF file[sender.msg][sender.step] = NoFile
                         THEN [sender EXCEPT !.step = NextLook(sender.step)] ELSE Resting
      BY <1>3 DEF EnqueueLook
    <2>2. sender.msg \in Messages /\ NextLook(sender.step) \in Dirs \cup {"write"}
      BY <1>0, <2>1 DEF SenderType, Dirs, NextLook
    <2>3. CASE file[sender.msg][sender.step] = NoFile
      <3>1. sender' = [sender EXCEPT !.step = NextLook(sender.step)]  BY <2>1, <2>3
      <3>2. sender'.msg = sender.msg /\ sender'.step = NextLook(sender.step)
            /\ sender' \in [msg: Messages \cup {Nobody}, step: Dirs \cup {"rest", "write"}]
        BY <1>0, <2>2, <3>1 DEF SenderType
      <3>3. SenderType'  BY <1>0, <2>1, <2>2, <3>2, SenderKept
      <3> QED  BY <1>1, <2>1, <2>3, <3>2, <3>3 DEF Sends
    <2>4. CASE file[sender.msg][sender.step] # NoFile
      <3>1. sender' = Resting  BY <2>1, <2>4
      <3>2. SenderType'  BY <1>0, <1>r, <2>1, <3>1, SenderKept
      <3> QED  BY <1>1, <3>1, <3>2 DEF Sends
    <2> QED  BY <2>3, <2>4
  <1>4. ASSUME SenderCrash PROVE Sends /\ SenderType'
    <2>1. sender' = Resting /\ sends' = sends  BY <1>4 DEF SenderCrash
    <2>2. SenderType'  BY <1>0, <1>r, <2>1, SenderKept
    <2> QED  BY <1>1, <2>1, <2>2 DEF Sends
  <1>5. FileType' /\ expired' \in [Messages -> Nat]  BY <1>0, <1>1 DEF FileType
  <1> QED  BY <1>1, <1>2, <1>3, <1>4, <1>5, AsideShape

LEMMA StoreStep ==
  ASSUME Shape, EnqueueWrite PROVE Stores /\ Shape'
  <1>0. SenderType /\ FileType /\ expired \in [Messages -> Nat]  BY DEF Shape, CountType
  <1>1. /\ sender.step = "write" /\ Put(sender.msg, "pending", Fresh) /\ sender' = Resting
        /\ Aside /\ expired' = expired /\ todo' = todo /\ sends' = sends
    BY DEF EnqueueWrite, works, Aside
  <1>2. sender.msg \in Messages  BY <1>0, <1>1 DEF SenderType
  <1>3. FileType' /\ Puts(sender.msg, "pending", Fresh)
    BY <1>0, <1>1, <1>2, Putting, Apartness DEF Dirs
  <1>4. SenderType'  BY <1>0, <1>1 DEF SenderType, Resting
  <1> QED  BY <1>0, <1>1, <1>3, <1>4, AsideShape DEF Stores

LEMMA ExpireStep ==
  ASSUME Shape, NEW m \in Messages, Expire(m) PROVE Times(m) /\ Shape'
  <1>0. SenderType /\ FileType /\ expired \in [Messages -> Nat]  BY DEF Shape, CountType
  <1>1. /\ expired[m] < clock[m] /\ expired' = [expired EXCEPT ![m] = expired[m] + 1]
        /\ Aside /\ UNCHANGED <<file, sender, sends>> /\ todo' = todo
    BY DEF Expire, works, Aside
  <1>2. expired' \in [Messages -> Nat]  BY <1>0, <1>1
  <1>3. FileType' /\ SenderType'  BY <1>0, <1>1 DEF FileType, SenderType
  <1> QED  BY <1>1, <1>2, <1>3, AsideShape DEF Times

Acts == (\E p \in Threads : ThreadStep(p)) \/ OtherStep

LEMMA NextActs ==
  ASSUME Shape, Next PROVE Acts /\ Shape'
  BY ThreadSteps, CrashStep, SenderSteps, StoreStep, ExpireStep DEF Next, Acts, OtherStep

LEMMA ShapeStep == Shape /\ [Next]_vars => Shape'
  <1> SUFFICES ASSUME Shape, [Next]_vars PROVE Shape' OBVIOUS
  <1>1. CASE Next  BY <1>1, NextActs
  <1>2. CASE UNCHANGED vars
    BY <1>2 DEF Shape, FileType, CountType, RowType, LockType, SenderType, AtInv, vars
  <1> QED  BY <1>1, <1>2

LEMMA ShapeTypes == Shape => TypeOK
  BY DEF Shape, FileType, CountType, RowType, LockType, SenderType, TypeOK

(* Every variable of the file queue keeps its type, for any processes,     *)
(* threads and messages.                                                   *)
THEOREM TypeCorrect == Spec => []TypeOK
  <1>1. Spec => []Shape  BY InitShape, ShapeStep, PTL DEF Spec
  <1> QED  BY <1>1, ShapeTypes, PTL

-----------------------------------------------------------------------------
\* What becomes of the files of one message.
Writes(p) ==
  \/ Unlinks(p) \/ Requeues(p) \/ Rewrites(p) \/ Returns(p) \/ Finishes(p) \/ Settles(p)
  \/ Leases(p) \/ Refreshes(p)

TakesOne(p, m) ==
  /\ pc[p] = "claim" /\ file[m]["pending"] # NoFile /\ lock' = lock
  /\ Moves(m, "pending", "leased") /\ Turns(p, "claimRead", m, view[p])
  /\ UNCHANGED <<clock, expired, given, sender, sends>>

Fate(m) ==
  \/ \A d \in Dirs : file'[m][d] = file[m][d]
  \/ \E p \in Threads : at[p] = m /\ Writes(p)
  \/ \E p \in Threads : TakesOne(p, m)
  \/ sender.msg = m /\ Stores

LEMMA PutElsewhere ==
  ASSUME NEW n, NEW m \in Messages, m # n, NEW d, NEW doc, Puts(n, d, doc)
  PROVE  Fate(m)
  BY DEF Puts, Fate

LEMMA MoveElsewhere ==
  ASSUME NEW n, NEW m \in Messages, m # n, NEW d, NEW e, Moves(n, d, e)
  PROVE  Fate(m)
  BY DEF Moves, Fate

LEMMA Fates ==
  ASSUME Shape, Acts, NEW m \in Messages PROVE Fate(m)
  <1>0. CASE file' = file  BY <1>0 DEF Fate
  <1>1. ASSUME NEW p \in Threads, Writes(p) PROVE Fate(m)
    <2>1. CASE at[p] = m  BY <1>1, <2>1 DEF Fate
    <2>2. CASE at[p] # m
      BY <1>1, <2>2, PutElsewhere, MoveElsewhere
      DEF Writes, Unlinks, Requeues, Rewrites, Returns, Finishes, Settles, Leases, Refreshes, Ticks
    <2> QED  BY <2>1, <2>2
  <1>2. ASSUME NEW p \in Threads, Takes(p), UNCHANGED <<clock, expired, given, sender, sends>> PROVE Fate(m)
    <2>1. PICK n \in Messages :
            file[n]["pending"] # NoFile /\ Moves(n, "pending", "leased") /\ Turns(p, "claimRead", n, view[p])
      BY <1>2 DEF Takes
    <2>2. CASE n = m  BY <1>2, <2>1, <2>2 DEF Fate, Takes, TakesOne
    <2>3. CASE n # m  BY <2>1, <2>3, MoveElsewhere
    <2> QED  BY <2>2, <2>3
  <1>3. CASE Stores
    <2>1. CASE sender.msg = m  BY <1>3, <2>1 DEF Fate
    <2>2. CASE sender.msg # m  BY <1>3, <2>2, PutElsewhere DEF Stores
    <2> QED  BY <2>1, <2>2
  <1>4. ASSUME NEW p \in Threads, ThreadStep(p) PROVE Fate(m)
    BY <1>0, <1>1, <1>2, <1>4
    DEF ThreadStep, Plain, Writes, Locks, Passes, Reads, Looks, Leaves, Opens, Misses, Checks, Rests, Retries
  <1>5. CASE OtherStep  BY <1>0, <1>3, <1>5 DEF OtherStep, Dies, Sends, Times
  <1> QED  BY <1>4, <1>5 DEF Acts

-----------------------------------------------------------------------------
\* The lock of a backend.
Locked == RecoverSteps \cup ClaimSteps

LockInv == \A p \in Threads : pc[p] \in Locked => lock[BackendOf[p]] = p

LEMMA LockStep ==
  ASSUME Shape, LockInv, Acts PROVE LockInv'
  <1>0. LockType  BY DEF Shape
  <1>1. ASSUME NEW p \in Threads, ThreadStep(p) PROVE LockInv'
    <2> DEFINE b == BackendOf[p]
    <2>0. b \in Backends  BY Apartness
    <2>1. ASSUME lock' = lock, NEW s, NEW a, NEW v, Turns(p, s, a, v), s \in Locked => pc[p] \in Locked
          PROVE  LockInv'
      BY <2>1 DEF Turns, LockInv
    <2>2. CASE Locks(p)
      <3>1. \A q \in Threads \ {p} : pc'[q] = pc[q]  BY <2>2 DEF Locks, Turns
      <3> QED  BY <1>0, <2>0, <2>2, <3>1, Apartness DEF Locks, LockInv, LockType
    <2>3. CASE lock' = [lock EXCEPT ![b] = Nobody] /\ pc[p] \in Locked /\ pc'[p] \notin Locked
                /\ \A q \in Threads \ {p} : pc'[q] = pc[q]
      BY <1>0, <2>0, <2>3, Apartness DEF LockInv, LockType
    <2>4. CASE Passes  BY <2>4 DEF Passes, LockInv
    <2>5. CASE \/ Reads(p) \/ Looks(p) \/ Unlinks(p) \/ Requeues(p) \/ Rewrites(p)
               \/ Takes(p) \/ Opens(p) \/ Misses(p)
      <3>1. pc[p] \in Locked /\ lock' = lock
        BY <2>5
        DEF Reads, Looks, Unlinks, Requeues, Rewrites, Takes, Opens, Misses, Locked, RecoverSteps, ClaimSteps
      <3>2. \E s, a, v : Turns(p, s, a, v)
        BY <2>5 DEF Reads, Looks, Unlinks, Requeues, Rewrites, Takes, Opens, Misses
      <3> QED  BY <2>1, <3>1, <3>2
    <2>6. CASE Checks(p) \/ Finishes(p) \/ Settles(p) \/ Rests(p) \/ Retries(p) \/ Refreshes(p)
      <3>1. lock' = lock /\ \E s, a, v : Turns(p, s, a, v) /\ s \notin Locked
        BY <2>6 DEF Checks, Finishes, Settles, Rests, Retries, Refreshes, Ticks, Locked, RecoverSteps, ClaimSteps
      <3> QED  BY <2>1, <3>1
    <2>7. CASE Leaves(p) \/ Returns(p) \/ Leases(p)
      <3>1. lock' = [lock EXCEPT ![b] = Nobody] /\ pc[p] \in Locked
        BY <2>7 DEF Leaves, Returns, Leases, Locked, RecoverSteps, ClaimSteps
      <3>2. pc'[p] \notin Locked /\ \A q \in Threads \ {p} : pc'[q] = pc[q]
        BY <2>7 DEF Leaves, Returns, Leases, Ticks, Turns, Locked, RecoverSteps, ClaimSteps
      <3> QED  BY <2>3, <3>1, <3>2
    <2> QED  BY <1>1, <2>2, <2>4, <2>5, <2>6, <2>7 DEF ThreadStep, Plain
  <1>2. ASSUME NEW b \in Backends, Dies(b) PROVE LockInv'
    BY <1>0, <1>2, Apartness DEF Dies, LockInv, LockType, Locked, RecoverSteps, ClaimSteps
  <1>3. CASE Sends \/ Stores \/ \E m \in Messages : Times(m)
    BY <1>3 DEF Sends, Stores, Times, Aside, LockInv
  <1> QED  BY <1>1, <1>2, <1>3 DEF Acts, OtherStep

\* Two threads of one backend do not both hold its lock.
LEMMA OneLocked ==
  ASSUME LockInv, NEW p \in Threads, NEW q \in Threads, BackendOf[p] = BackendOf[q],
         pc[p] \in Locked, pc[q] \in Locked
  PROVE  p = q
  BY DEF LockInv

-----------------------------------------------------------------------------
\* Counts.
CountInv ==
  /\ CountsWithinReach
  /\ \A p \in Threads : at[p] \in Messages => view[p].count <= given[at[p]]

LEMMA GivenGrows ==
  ASSUME Shape, Acts, NEW m \in Messages
  PROVE  given[m] \in Nat /\ given'[m] \in Nat /\ given[m] <= given'[m]
  <1>0. given \in [Messages -> Nat]  BY DEF Shape, CountType
  <1>1. ASSUME NEW p \in Threads, Leases(p) PROVE given'[m] \in Nat /\ given[m] <= given'[m]
    <2>1. view[p].count + 1 \in Nat  BY TypedRow DEF Docs
    <2>2. at[p] \in Messages  BY <1>1, TypedRow DEF Leases, Working
    <2> DEFINE c == view[p].count + 1
    <2>3. given' = [given EXCEPT ![at[p]] = IF c > given[at[p]] THEN c ELSE given[at[p]]]
      BY <1>1 DEF Leases
    <2> HIDE DEF c
    <2>4. c \in Nat  BY <2>1 DEF c
    <2> QED  BY <1>0, <2>2, <2>3, <2>4
  <1>2. CASE given' = given  BY <1>0, <1>2
  <1> QED  BY <1>0, <1>1, <1>2 DEF Acts, ThreadStep, Plain, Refreshes, OtherStep, Dies, Sends, Stores, Times, Aside

LEMMA CountStep ==
  ASSUME Shape, CountInv, Acts, Shape' PROVE CountInv'
  <1>0. /\ FileType /\ RowType /\ FileType' /\ RowType'  BY DEF Shape
  <1>a. ASSUME NEW m \in Messages PROVE given[m] \in Nat /\ given'[m] \in Nat /\ given[m] <= given'[m]
    BY GivenGrows
  <1>b. ASSUME NEW p \in Threads, at[p] \in Messages
        PROVE  view[p].count \in Nat /\ view[p].count <= given[at[p]] /\ view[p].count <= given'[at[p]]
    BY <1>0, <1>a, <1>b DEF CountInv, RowType, Docs
  <1>c. ASSUME NEW m \in Messages, NEW d \in Dirs, file[m][d] # NoFile
        PROVE  file[m][d].count \in Nat /\ file[m][d].count <= given[m] /\ file[m][d].count <= given'[m]
    BY <1>0, <1>a, <1>c, DocTypes DEF CountInv, CountsWithinReach, Docs
  <1>d. ASSUME NEW p \in Threads, Leases(p)
        PROVE  view[p].count + 1 <= given'[at[p]] /\ at[p] \in Messages
    <2>1. at[p] \in Messages  BY <1>d, TypedRow DEF Leases, Working
    <2>2. view[p].count \in Nat /\ given[at[p]] \in Nat  BY <1>a, <1>b, <2>1
    <2>3. given \in [Messages -> Nat]  BY DEF Shape, CountType
    <2> DEFINE c == view[p].count + 1
    <2>4. given' = [given EXCEPT ![at[p]] = IF c > given[at[p]] THEN c ELSE given[at[p]]]
      BY <1>d DEF Leases
    <2>5. c \in Nat  BY <2>2
    <2> HIDE DEF c
    <2>6. c <= given'[at[p]]  BY <2>1, <2>2, <2>3, <2>4, <2>5
    <2> QED  BY <2>1, <2>6 DEF c
  <1>1. ASSUME NEW m \in Messages, NEW d \in Dirs, file'[m][d] # NoFile
        PROVE  file'[m][d].count <= given'[m]
    <2>1. ASSUME NEW n \in Messages, NEW e \in Dirs, NEW doc, Puts(n, e, doc),
                 doc # NoFile => doc.count <= given'[n]
          PROVE  file'[m][d].count <= given'[m]
      BY <1>c, <1>1, <2>1 DEF Puts
    <2>2. ASSUME NEW n \in Messages, NEW e \in Dirs, NEW f \in Dirs, Moves(n, e, f)
          PROVE  file'[m][d].count <= given'[m]
      BY <1>c, <1>1, <2>2 DEF Moves
    <2>3. CASE \A e \in Dirs : file'[m][e] = file[m][e]  BY <1>c, <1>1, <2>3
    <2>4. ASSUME NEW p \in Threads, at[p] = m, Writes(p) PROVE file'[m][d].count <= given'[m]
      <3>1. view[p].count <= given'[m]  BY <1>b, <2>4
      <3>2. RecoveredTask(view[p]).count = view[p].count  BY DEF RecoveredTask
      <3>3. "leased" \in Dirs /\ "pending" \in Dirs /\ "completed" \in Dirs /\ "failed" \in Dirs
        BY DEF Dirs
      <3>4. CASE Unlinks(p)  BY <2>1, <2>4, <3>3, <3>4 DEF Unlinks
      <3>5. CASE Requeues(p) \/ Returns(p)  BY <2>2, <2>4, <3>3, <3>5 DEF Requeues, Returns
      <3>6. CASE Rewrites(p)  BY <2>1, <2>4, <3>1, <3>2, <3>3, <3>6 DEF Rewrites
      <3>7. CASE Finishes(p)  BY <2>1, <2>4, <3>1, <3>3, <3>7 DEF Finishes
      <3>8. CASE Settles(p)  BY <2>2, <2>4, <3>3, <3>8 DEF Settles
      <3>9. CASE Leases(p)
        <4>1. PICK new : Ticks(p, new) /\ new.count = view[p].count + 1  BY <3>9 DEF Leases
        <4>2. new.count <= given'[m]  BY <1>d, <2>4, <3>9, <4>1
        <4> QED  BY <2>1, <2>4, <3>3, <4>1, <4>2 DEF Ticks
      <3>10. CASE Refreshes(p)
        <4>1. PICK new : Ticks(p, new) /\ new.count = view[p].count  BY <3>10 DEF Refreshes
        <4> QED  BY <2>1, <2>4, <3>1, <3>3, <4>1 DEF Ticks
      <3> QED  BY <2>4, <3>4, <3>5, <3>6, <3>7, <3>8, <3>9, <3>10 DEF Writes
    <2>5. ASSUME NEW p \in Threads, TakesOne(p, m) PROVE file'[m][d].count <= given'[m]
      BY <2>2, <2>5 DEF TakesOne, Dirs
    <2>6. CASE sender.msg = m /\ Stores
      <3>1. Fresh.count <= given'[m]  BY <1>a DEF Fresh
      <3> QED  BY <2>1, <2>6, <3>1 DEF Stores, Dirs
    <2> QED  BY <2>3, <2>4, <2>5, <2>6, Fates DEF Fate
  <1>2. ASSUME NEW q \in Threads, at'[q] \in Messages PROVE view'[q].count <= given'[at'[q]]
    <2>0. Fresh.count <= given'[at'[q]]  BY <1>a, <1>2 DEF Fresh
    <2>1. CASE at'[q] = at[q] /\ view'[q] = view[q]  BY <1>b, <1>2, <2>1
    <2>2. CASE view'[q] = Fresh  BY <2>0, <2>2
    <2>3. CASE at'[q] = Nobody  BY <1>2, <2>3, Apartness
    <2>4. ASSUME NEW p \in Threads, ThreadStep(p) PROVE view'[q].count <= given'[at'[q]]
      <3>1. CASE q # p
        BY <2>1, <2>4, <3>1
        DEF ThreadStep, Plain, Locks, Passes, Reads, Looks, Unlinks, Requeues, Rewrites, Leaves, Takes,
            Opens, Misses, Returns, Checks, Finishes, Settles, Rests, Retries, Leases, Refreshes, Ticks, Turns
      <3>2. CASE q = p /\ (Locks(p) \/ Passes \/ Looks(p) \/ Unlinks(p) \/ Requeues(p) \/ Rewrites(p)
                           \/ Misses(p) \/ Checks(p) \/ Finishes(p) \/ Retries(p))
        BY <2>1, <3>2
        DEF Locks, Passes, Looks, Unlinks, Requeues, Rewrites, Misses, Checks, Finishes, Retries, Turns
      <3>3. CASE q = p /\ Reads(p)
        <4>1. PICK m \in Messages : file[m]["leased"] # NoFile /\ at'[p] = m /\ view'[p] = file[m]["leased"]
          BY <3>3 DEF Reads, Turns
        <4> QED  BY <1>c, <3>3, <4>1 DEF Dirs
      <3>4. CASE q = p /\ (Leaves(p) \/ Returns(p) \/ Settles(p) \/ Rests(p))
        BY <2>2, <3>4 DEF Leaves, Returns, Settles, Rests, Turns
      <3>5. CASE q = p /\ Takes(p)
        <4>1. view[p] = Fresh  BY <3>5 DEF Takes, Shape, AtInv
        <4> QED  BY <2>2, <3>5, <4>1 DEF Takes, Turns
      <3>6. CASE q = p /\ Opens(p)
        <4>1. at[p] \in Messages /\ at'[p] = at[p] /\ view'[p] = file[at[p]]["leased"]
              /\ file[at[p]]["leased"] # NoFile
          BY <3>6, TypedRow DEF Opens, Turns, Working
        <4> QED  BY <1>c, <3>6, <4>1 DEF Dirs
      <3>7. CASE q = p /\ Leases(p)
        <4>1. at'[p] = at[p] /\ view'[p].count = view[p].count + 1
          BY <3>7 DEF Leases, Ticks, Turns
        <4> QED  BY <1>d, <3>7, <4>1
      <3>8. CASE q = p /\ Refreshes(p)
        <4>1. at'[p] = at[p] /\ view'[p].count = view[p].count /\ given' = given
          BY <3>8 DEF Refreshes, Ticks, Turns
        <4> QED  BY <1>2, <1>b, <3>8, <4>1
      <3> QED  BY <2>4, <3>1, <3>2, <3>3, <3>4, <3>5, <3>6, <3>7, <3>8 DEF ThreadStep, Plain
    <2>5. CASE OtherStep
      <3>1. ASSUME NEW b \in Backends, Dies(b) PROVE view'[q].count <= given'[at'[q]]
        BY <2>1, <2>2, <3>1 DEF Dies
      <3>2. CASE Sends \/ Stores \/ \E m \in Messages : Times(m)
        BY <2>1, <3>2 DEF Sends, Stores, Times, Aside
      <3> QED  BY <2>5, <3>1, <3>2 DEF OtherStep
    <2> QED  BY <2>4, <2>5 DEF Acts
  <1> QED  BY <1>1, <1>2 DEF CountInv, CountsWithinReach

\* What holds of every set of backends.
BaseInv == Shape /\ LockInv /\ CountInv

LEMMA InitBase == Init => BaseInv
  <1> SUFFICES ASSUME Init PROVE BaseInv OBVIOUS
  <1>1. Shape  BY InitShape
  <1>2. LockInv  BY DEF Init, LockInv, Locked, RecoverSteps, ClaimSteps
  <1>3. CountInv  BY Apartness DEF Init, CountInv, CountsWithinReach
  <1> QED  BY <1>1, <1>2, <1>3 DEF BaseInv

LEMMA BaseStep == BaseInv /\ [Next]_vars => BaseInv'
  <1> SUFFICES ASSUME BaseInv, [Next]_vars PROVE BaseInv' OBVIOUS
  <1>1. CASE Next
    <2>1. Acts /\ Shape'  BY <1>1, NextActs DEF BaseInv
    <2> QED  BY <2>1, LockStep, CountStep DEF BaseInv
  <1>2. CASE UNCHANGED vars
    <2>1. Shape'  BY ShapeStep DEF BaseInv
    <2> QED  BY <1>2, <2>1 DEF BaseInv, LockInv, CountInv, CountsWithinReach, vars
  <1> QED  BY <1>1, <1>2

(* No document claims more deliveries than took place, for any number of   *)
(* processes and with stalled threads that write old documents back:       *)
(* claim_next alone raises attempt_count, by one.                          *)
THEOREM CountsInReach == Spec => []CountsWithinReach
  <1>1. Spec => []BaseInv  BY InitBase, BaseStep, PTL DEF Spec
  <1>2. BaseInv => CountsWithinReach  BY DEF BaseInv, CountInv
  <1> QED  BY <1>1, <1>2, PTL

-----------------------------------------------------------------------------
\* One process consumes the queue.
OneBackend == \A b, c \in Backends : b = c

UnlinkInv == \A p \in Threads : pc[p] = "recUnlink" => file[at[p]]["pending"] # NoFile

LEMMA UnlinkStep ==
  ASSUME OneBackend, BaseInv, UnlinkInv, Acts, Shape' PROVE UnlinkInv'
  <1>0. Shape /\ LockInv  BY DEF BaseInv
  <1> SUFFICES ASSUME NEW p \in Threads, pc'[p] = "recUnlink"
               PROVE  file'[at'[p]]["pending"] # NoFile
    BY DEF UnlinkInv
  <1>1. CASE pc[p] = "recUnlink" /\ at'[p] = at[p]
    <2> DEFINE m == at[p]
    <2>0. m \in Messages /\ file[m]["pending"] # NoFile /\ pc[p] \in Locked
      BY <1>0, <1>1, TypedRow DEF UnlinkInv, Working, Leasing, Locked, RecoverSteps
    <2>1. ASSUME \A d \in Dirs : file'[m][d] = file[m][d] PROVE file'[m]["pending"] # NoFile
      BY <2>0, <2>1 DEF Dirs
    <2>2. ASSUME NEW q \in Threads, at[q] = m, Writes(q) PROVE file'[m]["pending"] # NoFile
      <3>1. RecoveredTask(view[q]) # NoFile
        <4>1. view[q] \in Docs  BY <1>0, TypedRow
        <4>2. RecoveredTask(view[q]) \in Docs  BY <4>1 DEF RecoveredTask, Docs
        <4> QED  BY <4>2, Apartness
      <3> QED  BY <2>0, <2>2, <3>1, Apartness
        DEF Writes, Unlinks, Requeues, Rewrites, Returns, Finishes, Settles, Leases, Refreshes, Ticks, Puts, Moves, Dirs
    <2>3. ASSUME NEW q \in Threads, TakesOne(q, m) PROVE FALSE
      <3>1. pc[q] \in Locked /\ pc[q] # pc[p]  BY <1>1, <2>3 DEF TakesOne, Locked, ClaimSteps
      <3>2. BackendOf[p] = BackendOf[q]  BY Apartness DEF OneBackend
      <3> QED  BY <1>0, <2>0, <3>1, <3>2, OneLocked
    <2>4. ASSUME sender.msg = m, Stores PROVE file'[m]["pending"] # NoFile
      BY <2>4, Apartness DEF Stores, Puts
    <2> QED  BY <1>0, <1>1, <2>0, <2>1, <2>2, <2>3, <2>4, Fates DEF Fate, Dirs
  <1>2. CASE Looks(p) /\ pc'[p] = "recUnlink"
    BY <1>2 DEF Looks, Turns
  <1>3. ASSUME NEW q \in Threads, ThreadStep(q) PROVE (pc[p] = "recUnlink" /\ at'[p] = at[p]) \/ Looks(p)
    <2>1. CASE q # p
      BY <1>3, <2>1
      DEF ThreadStep, Plain, Locks, Passes, Reads, Looks, Unlinks, Requeues, Rewrites, Leaves, Takes,
          Opens, Misses, Returns, Checks, Finishes, Settles, Rests, Retries, Leases, Refreshes, Ticks, Turns
    <2>2. CASE q = p
      BY <1>3, <2>2
      DEF ThreadStep, Plain, Locks, Passes, Reads, Looks, Unlinks, Requeues, Rewrites, Leaves, Takes,
          Opens, Misses, Returns, Checks, Finishes, Settles, Rests, Retries, Leases, Refreshes, Ticks, Turns
    <2> QED  BY <2>1, <2>2
  <1>4. CASE OtherStep
    BY <1>1, <1>4 DEF OtherStep, Dies, Sends, Stores, Times, Aside
  <1> QED  BY <1>1, <1>2, <1>3, <1>4 DEF Acts

Stored(m) == \E d \in Dirs : file[m][d] # NoFile

LEMMA StoredStep ==
  ASSUME BaseInv, UnlinkInv, Acts, Shape', NEW m \in Messages, Stored(m) PROVE Stored(m)'
  <1>0. Shape /\ "pending" \in Dirs /\ "leased" \in Dirs /\ "completed" \in Dirs /\ "failed" \in Dirs
    BY DEF BaseInv, Dirs
  <1>1. CASE \A d \in Dirs : file'[m][d] = file[m][d]  BY <1>1 DEF Stored
  <1>2. ASSUME NEW d \in Dirs, NEW doc, Puts(m, d, doc), doc # NoFile PROVE Stored(m)'
    BY <1>2 DEF Puts, Stored
  <1>3. ASSUME NEW d \in Dirs, NEW e \in Dirs, Moves(m, d, e), file[m][d] # NoFile PROVE Stored(m)'
    BY <1>3 DEF Moves, Stored
  <1>4. ASSUME NEW p \in Threads, at[p] = m, Writes(p) PROVE Stored(m)'
    <2>1. view[p] \in Docs  BY <1>0, TypedRow
    <2>2. view[p] # NoFile  BY <2>1, Apartness
    <2>3. RecoveredTask(view[p]) # NoFile
      <3>1. RecoveredTask(view[p]) \in Docs  BY <2>1 DEF RecoveredTask, Docs
      <3> QED  BY <3>1, Apartness
    <2>4. CASE Unlinks(p)
      <3>1. file'[m]["pending"] = file[m]["pending"] /\ file[m]["pending"] # NoFile
        BY <1>0, <1>4, <2>4, Apartness DEF Unlinks, Puts, UnlinkInv
      <3> QED  BY <1>0, <3>1 DEF Stored
    <2>5. CASE Requeues(p) \/ Returns(p)  BY <1>0, <1>3, <1>4, <2>5 DEF Requeues, Returns
    <2>6. CASE Rewrites(p)  BY <1>0, <1>2, <1>4, <2>3, <2>6 DEF Rewrites
    <2>7. CASE Finishes(p)  BY <1>0, <1>2, <1>4, <2>2, <2>7 DEF Finishes
    <2>8. CASE Settles(p)  BY <1>0, <1>3, <1>4, <2>8 DEF Settles
    <2>9. CASE Leases(p) \/ Refreshes(p)
      <3>1. PICK new : Ticks(p, new)  BY <2>9 DEF Leases, Refreshes
      <3>2. new # NoFile  BY <3>1, Apartness DEF Ticks
      <3> QED  BY <1>0, <1>2, <1>4, <3>1, <3>2 DEF Ticks
    <2> QED  BY <1>4, <2>4, <2>5, <2>6, <2>7, <2>8, <2>9 DEF Writes
  <1>5. ASSUME NEW p \in Threads, TakesOne(p, m) PROVE Stored(m)'  BY <1>0, <1>3, <1>5 DEF TakesOne
  <1>6. CASE sender.msg = m /\ Stores  BY <1>0, <1>2, <1>6, Apartness DEF Stores
  <1> QED  BY <1>0, <1>1, <1>4, <1>5, <1>6, Fates DEF Fate

OneInv == BaseInv /\ UnlinkInv

LEMMA InitOne == Init => OneInv
  BY InitBase DEF OneInv, UnlinkInv, Init

LEMMA OneStep == OneBackend /\ OneInv /\ [Next]_vars => OneInv'
  <1> SUFFICES ASSUME OneBackend, OneInv, [Next]_vars PROVE OneInv' OBVIOUS
  <1>1. BaseInv'  BY BaseStep DEF OneInv
  <1>2. CASE Next
    <2>1. Acts /\ Shape'  BY <1>2, NextActs DEF OneInv, BaseInv
    <2> QED  BY <1>1, <2>1, UnlinkStep DEF OneInv
  <1>3. CASE UNCHANGED vars  BY <1>1, <1>3 DEF OneInv, UnlinkInv, vars
  <1> QED  BY <1>2, <1>3

(* With one process, no step of enqueue, claim_next,                       *)
(* recover_expired_leases, complete or fail takes the last file of a       *)
(* message away, wherever a crash cuts it short and whatever holders and   *)
(* senders do meanwhile.                                                   *)
THEOREM NothingIsLost == OneBackend => (Spec => NothingLost)
  <1> SUFFICES ASSUME OneBackend PROVE Spec => NothingLost  OBVIOUS
  <1>1. OneInv /\ [Next]_vars => OneInv'  BY OneStep
  <1>2. OneInv /\ [Next]_vars =>
          [\A m \in Messages :
             (\E d \in Dirs : file[m][d] # NoFile) => \E d \in Dirs : file'[m][d] # NoFile]_vars
    <2> SUFFICES ASSUME OneInv, Next, NEW m \in Messages, Stored(m) PROVE Stored(m)'
      BY DEF Stored
    <2>1. Acts /\ Shape'  BY NextActs DEF OneInv, BaseInv
    <2> QED  BY <2>1, StoredStep DEF OneInv
  <1> QED  BY <1>1, <1>2, InitOne, PTL DEF Spec, NothingLost

-----------------------------------------------------------------------------
\* One process, whose recoveries and claims overlap no check and write of a holder of the same
\* message, and whose recoveries and rolled-back claims overlap no enqueue of it.
Orderly == OneBackend /\ Apart = {"holders", "claims", "sender"}

WritingSteps == {"refWrite", "finWrite", "finMove"}
Renewing == {"recExists", "recMove", "recWrite"}
Claimants == {"claimRead", "claimBack", "claimWrite"}

OneCopyOf(m) == \A d, e \in Dirs : file[m][d] # NoFile /\ file[m][e] # NoFile => d = e

\* Every lease has a stamp of its own, the highest so far.
StampInv ==
  /\ \A m \in Messages, d \in Dirs : file[m][d] # NoFile => file[m][d].stamp <= clock[m]
  /\ \A p \in Threads : at[p] \in Messages => view[p].stamp <= clock[at[p]]
  /\ \A p \in Threads : pc[p] \in HoldSteps => view[p].stamp >= 1
  /\ \A p, q \in Threads :
       pc[p] \in HoldSteps /\ pc[q] \in HoldSteps /\ at[p] = at[q] /\ view[p].stamp = view[q].stamp
         => p = q

\* A recovery works on an expired lease nobody else is at.
RecInv ==
  \A p \in Threads :
    /\ pc[p] \in {"recExists", "recMove"} => file[at[p]]["leased"] = view[p] /\ view[p] # NoFile
    /\ pc[p] = "recWrite" => file[at[p]]["pending"] = view[p]
    /\ pc[p] \in Renewing => Expired(at[p], view[p]) /\ MayRecover(at[p])
    /\ pc[p] # "recUnlink"

\* A holder's stamp is found on the document it wrote alone, in pending only after it expired.
HolderInv ==
  \A p \in Threads : pc[p] \in HoldSteps =>
    LET f == file[at[p]] IN
    /\ pc[p] \in WritingSteps => f["leased"] = view[p]
    /\ f["leased"] # NoFile /\ f["leased"].stamp = view[p].stamp => f["leased"] = view[p]
    /\ f["pending"] # NoFile /\ f["pending"].stamp = view[p].stamp =>
         f["pending"] = view[p] /\ Expired(at[p], view[p])

\* A claim has taken a file whose old holder, if it is still there, has expired and writes nothing.
OldHolders(m) ==
  \A q \in Threads :
    pc[q] \in HoldSteps /\ at[q] = m /\ file[m]["leased"].stamp = view[q].stamp =>
      pc[q] = "hold" /\ Expired(m, view[q])

ClaimInv ==
  \A p \in Threads : pc[p] \in Claimants =>
    /\ file[at[p]]["leased"] # NoFile
    /\ pc[p] = "claimWrite" => file[at[p]]["leased"] = view[p]
    /\ pc[p] = "claimBack" => ~Sending(at[p])
    /\ OldHolders(at[p])

\* The message is in no directory the sender has left behind.
SendInv ==
  LET f == file[sender.msg] IN
  /\ sender.step \in {"leased", "completed", "failed", "write"} => f["pending"] = NoFile
  /\ sender.step \in {"completed", "failed", "write"} => f["leased"] = NoFile
  /\ sender.step \in {"failed", "write"} => f["completed"] = NoFile
  /\ sender.step = "write" => f["failed"] = NoFile

GivenInv ==
  \A m \in Messages :
    /\ \A d \in Dirs : file[m][d] # NoFile => file[m][d].count = given[m]
    /\ ~Stored(m) => given[m] = 0

OrderInv ==
  /\ OneInv /\ OneCopy /\ LiveLeaseStands
  /\ StampInv /\ RecInv /\ HolderInv /\ ClaimInv /\ SendInv /\ GivenInv

-----------------------------------------------------------------------------
\* Who may be at one message at a time.
LEMMA Alone ==
  ASSUME OneBackend, LockInv, NEW p \in Threads, NEW q \in Threads, pc[p] \in Locked, pc[q] \in Locked
  PROVE  p = q
  BY OneLocked, Apartness DEF OneBackend

LEMMA OneWriter ==
  ASSUME OrderInv, NEW p \in Threads, NEW q \in Threads, at[p] = at[q],
         pc[p] \in WritingSteps, pc[q] \in WritingSteps
  PROVE  p = q
  <1>1. pc[p] \in HoldSteps /\ pc[q] \in HoldSteps  BY DEF WritingSteps, HoldSteps
  <1>2. view[p] = view[q]  BY <1>1 DEF OrderInv, HolderInv
  <1> QED  BY <1>1, <1>2 DEF OrderInv, StampInv

LEMMA NoWriterRecovered ==
  ASSUME Orderly, OrderInv, NEW p \in Threads, NEW q \in Threads, at[p] = at[q],
         pc[p] \in WritingSteps, pc[q] \in Renewing
  PROVE  FALSE
  BY DEF Orderly, OrderInv, RecInv, MayRecover, Writing, WritingSteps, HoldSteps

LEMMA NoWriterClaimed ==
  ASSUME OrderInv, NEW p \in Threads, NEW q \in Threads, at[p] = at[q],
         pc[p] \in WritingSteps, pc[q] \in Claimants
  PROVE  FALSE
  <1>1. pc[p] \in HoldSteps  BY DEF WritingSteps, HoldSteps
  <1>2. file[at[p]]["leased"] = view[p]  BY <1>1 DEF OrderInv, HolderInv
  <1>3. OldHolders(at[p])  BY DEF OrderInv, ClaimInv
  <1> QED  BY <1>1, <1>2, <1>3 DEF OldHolders, WritingSteps

LEMMA NoSenderRecovered ==
  ASSUME Orderly, OrderInv, NEW q \in Threads, pc[q] \in Renewing, sender.msg = at[q]
  PROVE  FALSE
  BY DEF Orderly, OrderInv, RecInv, MayRecover, MayRollBack, Sending

LEMMA WriterLeased ==
  ASSUME OrderInv, NEW p \in Threads, pc[p] \in WritingSteps
  PROVE  /\ at[p] \in Messages /\ pc[p] \in HoldSteps
         /\ file[at[p]]["leased"] = view[p] /\ file[at[p]]["leased"] # NoFile
         /\ file[at[p]]["pending"] = NoFile
  <1>0. Shape /\ HolderInv /\ OneCopy  BY DEF OrderInv, OneInv, BaseInv
  <1>1. pc[p] \in HoldSteps /\ pc[p] \in Working  BY DEF WritingSteps, HoldSteps, Working
  <1>2. at[p] \in Messages /\ view[p] \in Docs  BY <1>0, <1>1, TypedRow
  <1>3. file[at[p]]["leased"] = view[p]  BY <1>0, <1>1 DEF HolderInv
  <1>4. view[p] # NoFile  BY <1>2, Apartness
  <1>5. file[at[p]]["pending"] = NoFile
    BY <1>0, <1>2, <1>3, <1>4, Apartness DEF OneCopy, Dirs
  <1> QED  BY <1>1, <1>2, <1>3, <1>4, <1>5

-----------------------------------------------------------------------------
\* What becomes of the files of one message in an orderly queue.
Lives == (\E p \in Threads : ThreadStep(p)) \/ Sends \/ Stores \/ \E m \in Messages : Times(m)

Same(p) == pc'[p] = pc[p] /\ at'[p] = at[p] /\ view'[p] = view[p]

Turned(p) == \A q \in Threads \ {p} : Same(q)

OrderFate(m) ==
  \/ \A d \in Dirs : file'[m][d] = file[m][d]
  \/ \E p \in Threads :
       /\ at[p] = m /\ Turned(p)
       /\ \/ Requeues(p) \/ Rewrites(p) \/ Returns(p) \/ Settles(p) \/ Leases(p) \/ Refreshes(p)
  \/ \E p \in Threads : TakesOne(p, m) /\ Turned(p)
  \/ sender.msg = m /\ Stores

LEMMA TurnsTurned ==
  ASSUME NEW p \in Threads, NEW s, NEW a, NEW v, Turns(p, s, a, v) PROVE Turned(p)
  BY DEF Turns, Turned, Same

LEMMA StepTurned ==
  ASSUME NEW p \in Threads, ThreadStep(p) PROVE Turned(p)
  BY DEF ThreadStep, Plain, Locks, Passes, Reads, Looks, Unlinks, Requeues, Rewrites, Leaves, Takes,
         Opens, Misses, Returns, Checks, Finishes, Settles, Rests, Retries, Leases, Refreshes, Ticks, Turns, Turned, Same

LEMMA OrderFates ==
  ASSUME OrderInv, Acts, NEW m \in Messages PROVE OrderFate(m)
  <1>0. Shape  BY DEF OrderInv, OneInv, BaseInv
  <1>1. ASSUME NEW p \in Threads, at[p] = m, Writes(p) PROVE OrderFate(m)
    <2>1. Turned(p)
      BY <1>1
      DEF Writes, Unlinks, Requeues, Rewrites, Returns, Finishes, Settles, Leases, Refreshes, Ticks, Turns, Turned, Same
    <2>2. CASE Unlinks(p)  BY <2>2 DEF Unlinks, OrderInv, RecInv
    <2>3. CASE Finishes(p)
      <3>1. pc[p] \in WritingSteps /\ Puts(m, "leased", view[p])  BY <1>1, <2>3 DEF Finishes, WritingSteps
      <3>2. file[m]["leased"] = view[p]  BY <1>1, <3>1, WriterLeased
      <3>3. \A d \in Dirs : file'[m][d] = file[m][d]  BY <3>1, <3>2 DEF Puts
      <3> QED  BY <3>3 DEF OrderFate
    <2>4. CASE Requeues(p) \/ Rewrites(p) \/ Returns(p) \/ Settles(p) \/ Leases(p) \/ Refreshes(p)
      BY <1>1, <2>1, <2>4 DEF OrderFate
    <2> QED  BY <1>1, <2>2, <2>3, <2>4 DEF Writes
  <1>2. ASSUME NEW p \in Threads, TakesOne(p, m) PROVE OrderFate(m)
    BY <1>2, TurnsTurned DEF OrderFate, TakesOne
  <1> QED  BY <1>0, <1>1, <1>2, Fates DEF Fate, OrderFate

\* How a thread came to its step.
LEMMA HolderRow ==
  ASSUME Lives, NEW p \in Threads, pc'[p] \in HoldSteps
  PROVE  \/ (Leases(p) \/ Refreshes(p)) /\ Turned(p)
         \/ /\ pc[p] \in HoldSteps /\ at'[p] = at[p] /\ view'[p] = view[p]
            /\ \/ Same(p) \/ (Checks(p) /\ Turned(p)) \/ (pc[p] = "finWrite" /\ pc'[p] = "finMove")
               \/ pc[p] \in WritingSteps /\ pc'[p] = "hold"
  <1>1. ASSUME NEW q \in Threads, ThreadStep(q), q # p PROVE Same(p)
    BY <1>1, StepTurned DEF Turned
  <1>2. CASE ThreadStep(p)
    <2>1. Turned(p)  BY <1>2, StepTurned
    <2>2. CASE Locks(p) \/ Reads(p) \/ Looks(p) \/ Unlinks(p) \/ Requeues(p) \/ Rewrites(p)
               \/ Leaves(p) \/ Takes(p) \/ Opens(p) \/ Misses(p) \/ Returns(p) \/ Settles(p) \/ Rests(p)
      BY <2>2 DEF Locks, Reads, Looks, Unlinks, Requeues, Rewrites, Leaves, Takes, Opens, Misses, Returns,
                  Settles, Rests, Turns, HoldSteps
    <2>3. CASE Passes  BY <2>3 DEF Passes, Same
    <2>4. CASE Checks(p)  BY <2>1, <2>4 DEF Checks, Turns, HoldSteps
    <2>5. CASE Finishes(p)  BY <2>5 DEF Finishes, Turns, HoldSteps
    <2>6. CASE Retries(p)  BY <2>6 DEF Retries, Turns, HoldSteps, WritingSteps
    <2> QED  BY <1>2, <2>1, <2>2, <2>3, <2>4, <2>5, <2>6 DEF ThreadStep, Plain
  <1>3. CASE Sends \/ Stores \/ \E m \in Messages : Times(m)
    BY <1>3 DEF Sends, Stores, Times, Aside, Same
  <1> QED  BY <1>1, <1>2, <1>3 DEF Lives, Same

LEMMA RecoverRow ==
  ASSUME Lives, NEW p \in Threads, pc'[p] \in Renewing \cup {"recUnlink"}
  PROVE  Same(p) \/ ((Reads(p) \/ Looks(p) \/ Requeues(p)) /\ Turned(p) /\ UNCHANGED <<sender, expired>>)
  <1>1. ASSUME NEW q \in Threads, ThreadStep(q), q # p PROVE Same(p)
    BY <1>1, StepTurned DEF Turned
  <1>2. CASE ThreadStep(p)
    <2>1. Turned(p)  BY <1>2, StepTurned
    <2>2. CASE Locks(p) \/ Unlinks(p) \/ Rewrites(p) \/ Leaves(p) \/ Takes(p) \/ Opens(p) \/ Misses(p)
               \/ Returns(p) \/ Checks(p) \/ Finishes(p) \/ Settles(p) \/ Rests(p) \/ Retries(p)
               \/ Leases(p) \/ Refreshes(p)
      BY <2>2 DEF Locks, Unlinks, Rewrites, Leaves, Takes, Opens, Misses, Returns, Checks, Finishes, Settles, Rests, Retries,
                  Leases, Refreshes, Ticks, Turns, Renewing, HoldSteps
    <2>3. CASE Passes  BY <2>3 DEF Passes, Same
    <2> QED  BY <1>2, <2>1, <2>2, <2>3 DEF ThreadStep, Plain
  <1>3. CASE Sends \/ Stores \/ \E m \in Messages : Times(m)
    BY <1>3 DEF Sends, Stores, Times, Aside, Same
  <1> QED  BY <1>1, <1>2, <1>3 DEF Lives

LEMMA ClaimRow ==
  ASSUME Lives, NEW p \in Threads, pc'[p] \in Claimants
  PROVE  \/ Same(p)
         \/ /\ Opens(p) \/ Misses(p) \/ \E m \in Messages : TakesOne(p, m)
            /\ Turned(p) /\ UNCHANGED <<sender, expired>>
  <1>1. ASSUME NEW q \in Threads, ThreadStep(q), q # p PROVE Same(p)
    BY <1>1, StepTurned DEF Turned
  <1>2. CASE ThreadStep(p)
    <2>1. Turned(p)  BY <1>2, StepTurned
    <2>2. CASE Locks(p) \/ Reads(p) \/ Looks(p) \/ Unlinks(p) \/ Requeues(p) \/ Rewrites(p) \/ Leaves(p)
               \/ Returns(p) \/ Checks(p) \/ Finishes(p) \/ Settles(p) \/ Rests(p) \/ Retries(p)
               \/ Leases(p) \/ Refreshes(p)
      BY <2>2 DEF Locks, Reads, Looks, Unlinks, Requeues, Rewrites, Leaves, Returns, Checks, Finishes,
                  Settles, Rests, Retries, Leases, Refreshes, Ticks, Turns, Claimants
    <2>3. CASE Passes  BY <2>3 DEF Passes, Same
    <2>4. CASE Takes(p) /\ UNCHANGED <<clock, expired, given, sender, sends>>
      BY <2>1, <2>4 DEF Takes, TakesOne
    <2> QED  BY <1>2, <2>1, <2>2, <2>3, <2>4 DEF ThreadStep, Plain
  <1>3. CASE Sends \/ Stores \/ \E m \in Messages : Times(m)
    BY <1>3 DEF Sends, Stores, Times, Aside, Same
  <1> QED  BY <1>1, <1>2, <1>3 DEF Lives

\* A crash of the one process ends every thread.
LEMMA CrashEnds ==
  ASSUME OneBackend, NEW b \in Backends, Dies(b)
  PROVE  /\ \A p \in Threads : pc'[p] = "idle" /\ at'[p] = Nobody
         /\ UNCHANGED <<file, clock, expired, given, sender>>
  <1>1. \A p \in Threads : BackendOf[p] = b  BY Apartness DEF OneBackend
  <1> QED  BY <1>1 DEF Dies

-----------------------------------------------------------------------------
\* The facts at hand, and what only grows.
LEMMA StampTypes ==
  ASSUME OrderInv
  PROVE  /\ \A m \in Messages : clock[m] \in Nat /\ expired[m] \in Nat /\ given[m] \in Nat
         /\ \A m \in Messages, d \in Dirs : file[m][d] # NoFile =>
              /\ file[m][d] \in Docs /\ file[m][d].stamp \in Nat /\ file[m][d].stamp <= clock[m]
              /\ file[m][d].count \in Nat
         /\ \A p \in Threads : view[p] \in Docs /\ view[p].stamp \in Nat
         /\ \A p \in Threads : at[p] \in Messages => view[p].stamp <= clock[at[p]]
         /\ \A p \in Threads : pc[p] \in HoldSteps => view[p].stamp >= 1
         /\ \A p \in Threads : pc[p] \in Working => at[p] \in Messages
         /\ Shape /\ LockInv /\ FileType
  <1>1. Shape /\ LockInv  BY DEF OrderInv, OneInv, BaseInv
  <1>2. FileType /\ CountType /\ RowType  BY <1>1 DEF Shape
  <1>3. \A m \in Messages, d \in Dirs : file[m][d] # NoFile => file[m][d] \in Docs  BY <1>2, DocTypes
  <1>4. \A doc \in Docs : doc.stamp \in Nat /\ doc.count \in Nat  BY DEF Docs
  <1>5. \A p \in Threads : view[p] \in Docs  BY <1>2 DEF RowType
  <1>6. \A m \in Messages : clock[m] \in Nat /\ expired[m] \in Nat /\ given[m] \in Nat
    BY <1>2 DEF CountType
  <1>7. \A p \in Threads : pc[p] \in Working => at[p] \in Messages  BY <1>1 DEF Shape, AtInv
  <1> QED  BY <1>1, <1>2, <1>3, <1>4, <1>5, <1>6, <1>7 DEF OrderInv, StampInv

LEMMA TicksGrow ==
  ASSUME OrderInv, Acts, Shape', NEW m \in Messages
  PROVE  /\ clock'[m] \in Nat /\ clock[m] <= clock'[m] /\ expired'[m] \in Nat /\ expired[m] <= expired'[m]
         /\ \A p \in Threads : (Leases(p) \/ Refreshes(p)) /\ at[p] = m => clock'[m] = clock[m] + 1
  <1>0. Shape /\ clock \in [Messages -> Nat] /\ expired \in [Messages -> Nat]
        /\ clock' \in [Messages -> Nat] /\ expired' \in [Messages -> Nat]
    BY StampTypes DEF Shape, CountType
  <1>1. ASSUME NEW p \in Threads, Leases(p) \/ Refreshes(p)
        PROVE  /\ clock[m] <= clock'[m] /\ expired' = expired
               /\ at[p] = m => clock'[m] = clock[m] + 1
    <2>1. clock' = [clock EXCEPT ![at[p]] = clock[at[p]] + 1] /\ expired' = expired
      BY <1>1 DEF Leases, Refreshes, Ticks
    <2>2. at[p] \in Messages  BY <1>0, <1>1, TypedRow DEF Leases, Refreshes, Working, HoldSteps
    <2> QED  BY <1>0, <2>1, <2>2
  <1>2. ASSUME NEW n \in Messages, Times(n) PROVE clock' = clock /\ expired[m] <= expired'[m]
    BY <1>0, <1>2 DEF Times, Aside
  <1>3. CASE clock' = clock /\ expired' = expired
    <2>1. ASSUME NEW p \in Threads, Leases(p) \/ Refreshes(p), at[p] = m PROVE clock'[m] = clock[m] + 1
      BY <1>1, <2>1
    <2> QED  BY <1>0, <1>3, <2>1
  <1>4. \/ clock' = clock /\ expired' = expired
        \/ \E p \in Threads : Leases(p) \/ Refreshes(p)
        \/ \E n \in Messages : Times(n)
    BY DEF Acts, ThreadStep, Plain, OtherStep, Dies, Sends, Stores, Aside
  <1>5. CASE \E p \in Threads : Leases(p) \/ Refreshes(p)
    <2>1. clock[m] <= clock'[m] /\ expired' = expired  BY <1>1, <1>5
    <2> QED  BY <1>0, <1>1, <2>1
  <1>6. CASE \E n \in Messages : Times(n)
    <2>1. clock' = clock /\ expired[m] <= expired'[m]  BY <1>2, <1>6
    <2>2. ASSUME NEW p \in Threads, Leases(p) \/ Refreshes(p), at[p] = m PROVE clock'[m] = clock[m] + 1
      BY <1>1, <2>2
    <2> QED  BY <1>0, <2>1, <2>2
  <1> QED  BY <1>3, <1>4, <1>5, <1>6

\* What a step that gives a stamp does.
LEMMA Stamped ==
  ASSUME OrderInv, NEW p \in Threads, Leases(p) \/ Refreshes(p)
  PROVE  /\ at[p] \in Messages /\ at'[p] = at[p] /\ pc'[p] = "hold" /\ file[at[p]]["leased"] = view[p]
         /\ view'[p] \in Docs /\ view'[p].stamp = clock[at[p]] + 1
         /\ Puts(at[p], "leased", view'[p]) /\ file'[at[p]]["leased"] = view'[p]
         /\ file[at[p]]["leased"] # NoFile /\ sender' = sender
         /\ pc[p] = "claimWrite" \/ pc[p] = "refWrite"
         /\ Leases(p) => pc[p] = "claimWrite" /\ view'[p].count = view[p].count + 1
         /\ Refreshes(p) => pc[p] = "refWrite" /\ view'[p].count = view[p].count /\ given' = given
  <1>1. PICK new : Ticks(p, new) /\ new.count = IF Leases(p) THEN view[p].count + 1 ELSE view[p].count
    BY DEF Leases, Refreshes
  <1>2. pc[p] = "claimWrite" \/ pc[p] = "refWrite"  BY DEF Leases, Refreshes
  <1>3. at[p] \in Messages  BY <1>2, StampTypes DEF Working, HoldSteps
  <1>4. file[at[p]]["leased"] = view[p] /\ file[at[p]]["leased"] # NoFile
    <2>1. CASE pc[p] = "claimWrite"  BY <2>1 DEF OrderInv, ClaimInv, Claimants
    <2>2. CASE pc[p] = "refWrite"  BY <2>2, WriterLeased DEF WritingSteps
    <2> QED  BY <1>2, <2>1, <2>2
  <1>5. /\ at'[p] = at[p] /\ pc'[p] = "hold" /\ view'[p] = new /\ new \in Docs
        /\ new.stamp = clock[at[p]] + 1 /\ Puts(at[p], "leased", new) /\ sender' = sender
    BY <1>1 DEF Ticks, Turns
  <1>6. Leases(p) => pc[p] = "claimWrite"  BY DEF Leases
  <1>7. Refreshes(p) => pc[p] = "refWrite" /\ given' = given  BY DEF Refreshes
  <1> QED  BY <1>1, <1>2, <1>3, <1>4, <1>5, <1>6, <1>7 DEF Puts

-----------------------------------------------------------------------------
\* One step at a time.
LEMMA OneCopyStep ==
  ASSUME Orderly, OrderInv, Acts, NEW m \in Messages PROVE OneCopyOf(m)'
  <1>0. /\ OneCopyOf(m) /\ "pending" \in Dirs /\ "leased" \in Dirs /\ "completed" \in Dirs /\ "failed" \in Dirs
    BY DEF OrderInv, OneCopy, OneCopyOf, Dirs
  <1>1. ASSUME NEW d \in Dirs, NEW doc, Puts(m, d, doc), file[m][d] # NoFile PROVE OneCopyOf(m)'
    BY <1>0, <1>1 DEF Puts, OneCopyOf
  <1>2. ASSUME NEW d \in Dirs, NEW e \in Dirs, Moves(m, d, e), file[m][d] # NoFile PROVE OneCopyOf(m)'
    BY <1>0, <1>2 DEF Moves, OneCopyOf
  <1>3. CASE \A d \in Dirs : file'[m][d] = file[m][d]  BY <1>0, <1>3 DEF OneCopyOf
  <1>4. ASSUME NEW p \in Threads, at[p] = m,
               Requeues(p) \/ Rewrites(p) \/ Returns(p) \/ Settles(p) \/ Leases(p) \/ Refreshes(p)
        PROVE  OneCopyOf(m)'
    <2>1. CASE Requeues(p) \/ Returns(p)  BY <1>0, <1>2, <1>4, <2>1 DEF Requeues, Returns
    <2>2. CASE Rewrites(p)
      <3>1. file[m]["pending"] = view[p] /\ view[p] # NoFile
        BY <1>4, <2>2, StampTypes, Apartness DEF Rewrites, OrderInv, RecInv
      <3> QED  BY <1>0, <1>1, <1>4, <2>2, <3>1 DEF Rewrites
    <2>3. CASE Settles(p)  BY <1>0, <1>2, <1>4, <2>3 DEF Settles
    <2>4. CASE Leases(p) \/ Refreshes(p)
      <3>1. Puts(m, "leased", view'[p]) /\ file[m]["leased"] # NoFile  BY <1>4, <2>4, Stamped
      <3> QED  BY <1>0, <1>1, <3>1
    <2> QED  BY <1>4, <2>1, <2>2, <2>3, <2>4
  <1>5. ASSUME NEW p \in Threads, TakesOne(p, m) PROVE OneCopyOf(m)'
    BY <1>0, <1>2, <1>5 DEF TakesOne
  <1>6. CASE sender.msg = m /\ Stores
    <2>1. \A d \in Dirs : file[m][d] = NoFile  BY <1>6 DEF Stores, OrderInv, SendInv, Dirs
    <2> QED  BY <1>0, <1>6, <2>1 DEF Stores, Puts, OneCopyOf
  <1> QED  BY <1>3, <1>4, <1>5, <1>6, OrderFates DEF OrderFate

LEMMA SendStep ==
  ASSUME Orderly, OrderInv, Acts, Shape' PROVE SendInv'
  <1>0. Shape /\ SenderType /\ SendInv  BY StampTypes DEF OrderInv, Shape
  <1>1. CASE sender' = Resting  BY <1>1 DEF Resting, SendInv
  <1>2. CASE Sends
    <2>1. CASE sender'.step = "pending"  BY <2>1 DEF SendInv
    <2>2. CASE /\ sender.step \in Dirs /\ sender'.msg = sender.msg /\ sender'.step = NextLook(sender.step)
               /\ file[sender.msg][sender.step] = NoFile /\ file' = file
      BY <1>0, <2>2 DEF SendInv, NextLook, Dirs
    <2> QED  BY <1>1, <1>2, <2>1, <2>2 DEF Sends
  <1>3. ASSUME sender' = sender, sender.step # "rest" PROVE SendInv'
    <2> DEFINE m == sender.msg
    <2>0. m \in Messages /\ sender.step \in Dirs \cup {"write"}  BY <1>0, <1>3 DEF SenderType
    <2>1. CASE \A d \in Dirs : file'[m][d] = file[m][d]  BY <1>0, <1>3, <2>1 DEF SendInv, Dirs
    <2>2. ASSUME NEW p \in Threads, at[p] = m,
                 Requeues(p) \/ Rewrites(p) \/ Returns(p) \/ Settles(p) \/ Leases(p) \/ Refreshes(p)
          PROVE  SendInv'
      <3>1. CASE Requeues(p) \/ Rewrites(p)
        <4>1. pc[p] \in Renewing  BY <3>1 DEF Requeues, Rewrites, Renewing
        <4> QED  BY <2>2, <4>1, NoSenderRecovered
      <3>2. CASE Settles(p)
        <4>1. file[m]["leased"] # NoFile  BY <2>2, <3>2 DEF Settles
        <4>2. file'[m]["pending"] = file[m]["pending"]
          BY <2>0, <2>2, <3>2, Apartness DEF Settles, Moves, Dirs
        <4> QED  BY <1>0, <1>3, <4>1, <4>2 DEF SendInv
      <3>3. CASE Leases(p) \/ Refreshes(p)
        <4>1. Puts(m, "leased", view'[p]) /\ file[m]["leased"] # NoFile  BY <2>2, <3>3, Stamped
        <4>2. file'[m]["pending"] = file[m]["pending"]  BY <2>0, <4>1, Apartness DEF Puts, Dirs
        <4> QED  BY <1>0, <1>3, <4>1, <4>2 DEF SendInv
      <3>4. CASE Returns(p)
        <4>1. pc[p] = "claimBack" /\ pc[p] \in Claimants  BY <3>4 DEF Returns, Claimants
        <4> QED  BY <2>2, <4>1 DEF OrderInv, ClaimInv, Sending
      <3> QED  BY <2>2, <3>1, <3>2, <3>3, <3>4
    <2>3. ASSUME NEW p \in Threads, TakesOne(p, m) PROVE SendInv'
      <3>1. sender.step = "pending"  BY <1>0, <2>0, <2>3 DEF TakesOne, SendInv, Dirs
      <3> QED  BY <1>3, <3>1 DEF SendInv
    <2>4. CASE Stores  BY <1>1, <2>4 DEF Stores
    <2> QED  BY <2>0, <2>1, <2>2, <2>3, <2>4, OrderFates DEF OrderFate
  <1>4. CASE sender' = sender /\ sender.step = "rest"  BY <1>4 DEF SendInv
  <1>5. Sends \/ sender' = Resting \/ sender' = sender
    BY DEF Acts, ThreadStep, Plain, Leases, Refreshes, Ticks, OtherStep, Dies, Stores, Times
  <1> QED  BY <1>1, <1>2, <1>3, <1>4, <1>5

LEMMA GivenStep ==
  ASSUME Orderly, OrderInv, Acts, Shape' PROVE GivenInv'
  <1> SUFFICES ASSUME NEW m \in Messages
               PROVE  /\ \A d \in Dirs : file'[m][d] # NoFile => file'[m][d].count = given'[m]
                      /\ ~Stored(m)' => given'[m] = 0
    BY DEF GivenInv
  <1>0. /\ Shape /\ BaseInv /\ UnlinkInv /\ GivenInv /\ given \in [Messages -> Nat]
    BY StampTypes DEF OrderInv, OneInv, Shape, CountType
  <1>a. \A d \in Dirs : file[m][d] # NoFile => file[m][d].count = given[m]  BY <1>0 DEF GivenInv
  <1>b. ASSUME NEW p \in Threads, Leases(p), at[p] = m
        PROVE  given'[m] = view[p].count + 1 /\ view[p].count = given[m] /\ given[m] \in Nat
    <2>1. file[m]["leased"] = view[p] /\ file[m]["leased"] # NoFile  BY <1>b, Stamped
    <2>2. view[p].count = given[m]  BY <1>a, <2>1 DEF Dirs
    <2>3. given[m] \in Nat  BY <1>0
    <2>4. given' = [given EXCEPT ![m] = IF view[p].count + 1 > given[m] THEN view[p].count + 1 ELSE given[m]]
      BY <1>b DEF Leases
    <2> QED  BY <1>0, <2>2, <2>3, <2>4
  <1>c. ASSUME ~(\E p \in Threads : Leases(p) /\ at[p] = m) PROVE given'[m] = given[m]
    <2>1. ASSUME NEW p \in Threads, Leases(p) PROVE given'[m] = given[m]
      <3>1. at[p] \in Messages /\ at[p] # m  BY <1>c, <2>1, Stamped
      <3>2. given' = [given EXCEPT ![at[p]] = IF view[p].count + 1 > given[at[p]]
                                         THEN view[p].count + 1 ELSE given[at[p]]]
        BY <2>1 DEF Leases
      <3> QED  BY <1>0, <3>1, <3>2
    <2>2. given' = given \/ \E p \in Threads : Leases(p)
      BY DEF Acts, ThreadStep, Plain, Refreshes, OtherStep, Dies, Sends, Stores, Times, Aside
    <2> QED  BY <2>1, <2>2
  <1>1. ~Stored(m)' => given'[m] = 0
    <2> SUFFICES ASSUME ~Stored(m)' PROVE given'[m] = 0  OBVIOUS
    <2>1. ~Stored(m)  BY <1>0, StoredStep
    <2>2. ~(\E p \in Threads : Leases(p) /\ at[p] = m)
      <3> SUFFICES ASSUME NEW p \in Threads, Leases(p), at[p] = m PROVE FALSE  OBVIOUS
      <3>1. file[m]["leased"] # NoFile  BY Stamped
      <3> QED  BY <2>1, <3>1 DEF Stored, Dirs
    <2> QED  BY <1>0, <1>c, <2>1, <2>2 DEF GivenInv
  <1>2. ASSUME NEW d \in Dirs, file'[m][d] # NoFile PROVE file'[m][d].count = given'[m]
    <2>0. "pending" \in Dirs /\ "leased" \in Dirs /\ "completed" \in Dirs /\ "failed" \in Dirs  BY DEF Dirs
    <2>1. ASSUME NEW p \in Threads, Leases(p), at[p] = m PROVE file'[m][d].count = given'[m]
      <3>1. Puts(m, "leased", view'[p]) /\ view'[p].count = view[p].count + 1 /\ file[m]["leased"] # NoFile
        BY <2>1, Stamped
      <3>2. CASE d = "leased"  BY <1>b, <2>1, <3>1, <3>2 DEF Puts
      <3>3. CASE d # "leased"
        <4>1. file'[m][d] = file[m][d]  BY <3>1, <3>3 DEF Puts
        <4>2. file[m][d] = NoFile  BY <2>0, <3>1, <3>3 DEF OrderInv, OneCopy
        <4> QED  BY <1>2, <4>1, <4>2
      <3> QED  BY <3>2, <3>3
    <2>2. ASSUME ~(\E p \in Threads : Leases(p) /\ at[p] = m) PROVE file'[m][d].count = given'[m]
      <3>0. given'[m] = given[m]  BY <1>c, <2>2
      <3>1. ASSUME NEW e \in Dirs, NEW doc, Puts(m, e, doc), doc.count = given[m]
            PROVE  file'[m][d].count = given'[m]
        BY <1>a, <1>2, <3>0, <3>1 DEF Puts
      <3>2. ASSUME NEW e \in Dirs, NEW f \in Dirs, Moves(m, e, f) PROVE file'[m][d].count = given'[m]
        BY <1>a, <1>2, <3>0, <3>2 DEF Moves
      <3>3. CASE \A e \in Dirs : file'[m][e] = file[m][e]  BY <1>a, <1>2, <3>0, <3>3
      <3>4. ASSUME NEW p \in Threads, at[p] = m,
                   Requeues(p) \/ Rewrites(p) \/ Returns(p) \/ Settles(p) \/ Refreshes(p)
            PROVE  file'[m][d].count = given'[m]
        <4>1. CASE Requeues(p) \/ Returns(p)  BY <2>0, <3>2, <3>4, <4>1 DEF Requeues, Returns
        <4>2. CASE Rewrites(p)
          <5>1. file[m]["pending"] = view[p] /\ view[p] # NoFile
            BY <3>4, <4>2, StampTypes, Apartness DEF Rewrites, OrderInv, RecInv
          <5>2. RecoveredTask(view[p]).count = given[m]  BY <1>a, <2>0, <5>1 DEF RecoveredTask
          <5> QED  BY <2>0, <3>1, <3>4, <4>2, <5>2 DEF Rewrites
        <4>3. CASE Settles(p)  BY <2>0, <3>2, <3>4, <4>3 DEF Settles
        <4>4. CASE Refreshes(p)
          <5>1. /\ Puts(m, "leased", view'[p]) /\ view'[p].count = view[p].count
                /\ file[m]["leased"] = view[p] /\ file[m]["leased"] # NoFile
            BY <3>4, <4>4, Stamped
          <5>2. view'[p].count = given[m]  BY <1>a, <2>0, <5>1
          <5> QED  BY <2>0, <3>1, <5>1, <5>2
        <4> QED  BY <3>4, <4>1, <4>2, <4>3, <4>4
      <3>5. ASSUME NEW p \in Threads, TakesOne(p, m) PROVE file'[m][d].count = given'[m]
        BY <2>0, <3>2, <3>5 DEF TakesOne
      <3>6. CASE sender.msg = m /\ Stores
        <4>1. \A e \in Dirs : file[m][e] = NoFile  BY <3>6 DEF Stores, OrderInv, SendInv, Dirs
        <4>2. Fresh.count = given[m]  BY <1>0, <4>1 DEF GivenInv, Stored, Fresh
        <4> QED  BY <2>0, <3>1, <3>6, <4>2 DEF Stores
      <3> QED  BY <2>2, <3>3, <3>4, <3>5, <3>6, OrderFates DEF OrderFate
    <2> QED  BY <2>1, <2>2
  <1> QED  BY <1>1, <1>2

LEMMA StampStep ==
  ASSUME Orderly, OrderInv, Lives, Acts, Shape' PROVE StampInv'
  <1>0. Shape /\ RowType'  BY StampTypes DEF Shape
  <1>1. ASSUME NEW m \in Messages, NEW d \in Dirs, file'[m][d] # NoFile
        PROVE  file'[m][d].stamp <= clock'[m]
    <2>0. /\ clock[m] \in Nat /\ clock'[m] \in Nat /\ clock[m] <= clock'[m]
          /\ "pending" \in Dirs /\ "leased" \in Dirs /\ "completed" \in Dirs /\ "failed" \in Dirs
      BY TicksGrow, StampTypes DEF Dirs
    <2>a. \A e \in Dirs : file[m][e] # NoFile => file[m][e].stamp <= clock'[m]
      BY <2>0, StampTypes
    <2>1. ASSUME NEW e \in Dirs, NEW doc, Puts(m, e, doc), doc.stamp <= clock'[m]
          PROVE  file'[m][d].stamp <= clock'[m]
      BY <1>1, <2>a, <2>1 DEF Puts
    <2>2. ASSUME NEW e \in Dirs, NEW f \in Dirs, Moves(m, e, f) PROVE file'[m][d].stamp <= clock'[m]
      BY <1>1, <2>a, <2>2 DEF Moves
    <2>3. CASE \A e \in Dirs : file'[m][e] = file[m][e]  BY <1>1, <2>a, <2>3
    <2>4. ASSUME NEW p \in Threads, at[p] = m,
                 Requeues(p) \/ Rewrites(p) \/ Returns(p) \/ Settles(p) \/ Leases(p) \/ Refreshes(p)
          PROVE  file'[m][d].stamp <= clock'[m]
      <3>1. CASE Requeues(p) \/ Returns(p)  BY <2>0, <2>2, <2>4, <3>1 DEF Requeues, Returns
      <3>2. CASE Rewrites(p)
        <4>1. RecoveredTask(view[p]).stamp = 0  BY DEF RecoveredTask
        <4> QED  BY <2>0, <2>1, <2>4, <3>2, <4>1 DEF Rewrites
      <3>3. CASE Settles(p)  BY <2>0, <2>2, <2>4, <3>3 DEF Settles
      <3>4. CASE Leases(p) \/ Refreshes(p)
        <4>1. Puts(m, "leased", view'[p]) /\ view'[p].stamp = clock[m] + 1  BY <2>4, <3>4, Stamped
        <4>2. clock'[m] = clock[m] + 1  BY <2>4, <3>4, TicksGrow
        <4> QED  BY <2>0, <2>1, <4>1, <4>2
      <3> QED  BY <2>4, <3>1, <3>2, <3>3, <3>4
    <2>5. ASSUME NEW p \in Threads, TakesOne(p, m) PROVE file'[m][d].stamp <= clock'[m]
      BY <2>0, <2>2, <2>5 DEF TakesOne
    <2>6. CASE sender.msg = m /\ Stores
      <3>1. Fresh.stamp <= clock'[m]  BY <2>0 DEF Fresh
      <3> QED  BY <2>0, <2>1, <2>6, <3>1 DEF Stores
    <2> QED  BY <2>3, <2>4, <2>5, <2>6, OrderFates DEF OrderFate
  <1>2. ASSUME NEW q \in Threads, at'[q] \in Messages PROVE view'[q].stamp <= clock'[at'[q]]
    <2>0. clock[at'[q]] \in Nat /\ clock'[at'[q]] \in Nat /\ clock[at'[q]] <= clock'[at'[q]]
      BY <1>2, TicksGrow, StampTypes
    <2>1. CASE at'[q] = at[q] /\ view'[q] = view[q]
      <3>1. view[q].stamp \in Nat /\ view[q].stamp <= clock[at[q]]  BY <1>2, <2>1, StampTypes
      <3> QED  BY <2>0, <2>1, <3>1
    <2>2. CASE view'[q] = Fresh  BY <2>0, <2>2 DEF Fresh
    <2>3. CASE at'[q] = Nobody  BY <1>2, <2>3, Apartness
    <2>4. ASSUME ThreadStep(q) PROVE view'[q].stamp <= clock'[at'[q]]
      <3>1. CASE Locks(q) \/ Passes \/ Looks(q) \/ Unlinks(q) \/ Requeues(q) \/ Rewrites(q)
                 \/ Misses(q) \/ Checks(q) \/ Finishes(q) \/ Retries(q)
        BY <2>1, <3>1
        DEF Locks, Passes, Looks, Unlinks, Requeues, Rewrites, Misses, Checks, Finishes, Retries, Turns
      <3>2. CASE Reads(q)
        <4>1. PICK m \in Messages : file[m]["leased"] # NoFile /\ at'[q] = m /\ view'[q] = file[m]["leased"]
          BY <3>2 DEF Reads, Turns
        <4>2. view'[q].stamp \in Nat /\ view'[q].stamp <= clock[m]  BY <4>1, StampTypes DEF Dirs
        <4> QED  BY <2>0, <4>1, <4>2
      <3>3. CASE Leaves(q) \/ Returns(q) \/ Settles(q) \/ Rests(q)
        BY <2>2, <3>3 DEF Leaves, Returns, Settles, Rests, Turns
      <3>4. CASE Takes(q)
        <4>1. view[q] = Fresh  BY <1>0, <3>4 DEF Takes, Shape, AtInv
        <4> QED  BY <2>2, <3>4, <4>1 DEF Takes, Turns
      <3>5. CASE Opens(q)
        <4>1. /\ at'[q] = at[q] /\ view'[q] = file[at[q]]["leased"] /\ file[at[q]]["leased"] # NoFile
          BY <3>5 DEF Opens, Turns
        <4>2. view'[q].stamp \in Nat /\ view'[q].stamp <= clock[at[q]]
          BY <1>2, <4>1, StampTypes DEF Dirs
        <4> QED  BY <2>0, <4>1, <4>2
      <3>6. CASE Leases(q) \/ Refreshes(q)
        <4>1. at'[q] = at[q] /\ view'[q].stamp = clock[at[q]] + 1 /\ at[q] \in Messages
          BY <3>6, Stamped
        <4>2. clock'[at[q]] = clock[at[q]] + 1  BY <3>6, <4>1, TicksGrow
        <4> QED  BY <2>0, <4>1, <4>2
      <3> QED  BY <2>4, <3>1, <3>2, <3>3, <3>4, <3>5, <3>6 DEF ThreadStep, Plain
    <2>5. ASSUME NEW p \in Threads, p # q, ThreadStep(p) PROVE at'[q] = at[q] /\ view'[q] = view[q]
      BY <2>5, StepTurned DEF Turned, Same
    <2>6. CASE Sends \/ Stores \/ \E m \in Messages : Times(m)
      BY <2>1, <2>6 DEF Sends, Stores, Times, Aside
    <2> QED  BY <2>1, <2>4, <2>5, <2>6 DEF Lives
  <1>3. ASSUME NEW p \in Threads, pc'[p] \in HoldSteps PROVE view'[p].stamp >= 1
    <2>1. CASE Leases(p) \/ Refreshes(p)
      <3>1. view'[p].stamp = clock[at[p]] + 1 /\ clock[at[p]] \in Nat  BY <2>1, Stamped, StampTypes
      <3> QED  BY <3>1
    <2>2. CASE pc[p] \in HoldSteps /\ view'[p] = view[p]  BY <2>2, StampTypes
    <2> QED  BY <1>3, <2>1, <2>2, HolderRow
  <1>4. ASSUME NEW p \in Threads, NEW q \in Threads, pc'[p] \in HoldSteps, pc'[q] \in HoldSteps,
               at'[p] = at'[q], view'[p].stamp = view'[q].stamp, p # q
        PROVE  FALSE
    <2>1. ASSUME NEW r \in Threads, NEW u \in Threads, r # u, Leases(r) \/ Refreshes(r), Turned(r),
                 at'[r] = at'[u], pc'[u] \in HoldSteps, view'[r].stamp = view'[u].stamp
          PROVE  FALSE
      <3>1. Same(u)  BY <2>1 DEF Turned
      <3>2. /\ at[u] = at[r] /\ at[r] \in Messages /\ view[u].stamp = clock[at[r]] + 1
        BY <2>1, <3>1, Stamped DEF Same
      <3>3. clock[at[r]] \in Nat /\ view[u].stamp \in Nat /\ view[u].stamp <= clock[at[r]]
        BY <3>2, StampTypes
      <3> QED  BY <3>2, <3>3
    <2>2. CASE (Leases(p) \/ Refreshes(p)) /\ Turned(p)  BY <1>4, <2>1, <2>2
    <2>3. CASE (Leases(q) \/ Refreshes(q)) /\ Turned(q)  BY <1>4, <2>1, <2>3
    <2>4. CASE /\ pc[p] \in HoldSteps /\ at'[p] = at[p] /\ view'[p] = view[p]
               /\ pc[q] \in HoldSteps /\ at'[q] = at[q] /\ view'[q] = view[q]
      BY <1>4, <2>4 DEF OrderInv, StampInv
    <2> QED  BY <1>4, <2>2, <2>3, <2>4, HolderRow
  <1> QED  BY <1>1, <1>2, <1>3, <1>4 DEF StampInv

\* No holder and no sender comes to a message that is being recovered.
LEMMA MayStays ==
  ASSUME Orderly, OrderInv, Lives, NEW p \in Threads, NEW m \in Messages, MayRecover(m),
         \/ pc[p] \in Renewing /\ at[p] = m
         \/ Turned(p) /\ sender' = sender /\ pc'[p] \in Renewing
  PROVE  MayRecover(m)'
  <1>0. ~Writing(m) /\ ~Sending(m) /\ "holders" \in Apart /\ "sender" \in Apart
    BY DEF Orderly, MayRecover, MayRollBack
  <1>a. pc[p] \in Renewing /\ at[p] = m => Recovering(m)
    BY DEF Renewing, Recovering, RecoverSteps
  <1>1. ~Writing(m)'
    <2> SUFFICES ASSUME NEW r \in Threads, pc'[r] \in HoldSteps \ {"hold"}, at'[r] = m PROVE FALSE
      BY DEF Writing
    <2>1. CASE Same(r)  BY <1>0, <2>1 DEF Same, Writing
    <2>2. CASE pc[r] = "finWrite" /\ at'[r] = at[r]  BY <1>0, <2>2 DEF Writing, HoldSteps
    <2>3. CASE Checks(r) /\ Turned(r) /\ at'[r] = at[r]
      <3>1. ~Recovering(m)  BY <1>0, <2>3 DEF Checks, MayCheck
      <3>2. pc'[p] \in Renewing /\ Turned(p)  BY <1>a, <3>1
      <3>3. r # p  BY <3>2 DEF Renewing, HoldSteps
      <3>4. Same(r)  BY <3>2, <3>3 DEF Turned
      <3> QED  BY <2>1, <3>4
    <2>4. ~(Leases(r) \/ Refreshes(r))  BY Stamped
    <2>5. pc'[r] # "hold"  OBVIOUS
    <2> QED  BY <2>1, <2>2, <2>3, <2>4, <2>5, HolderRow
  <1>2. ~Sending(m)'
    <2> SUFFICES ASSUME sender'.msg = m PROVE FALSE  BY DEF Sending
    <2>1. CASE sender'.msg = sender.msg  BY <1>0, <2>1 DEF Sending
    <2>2. CASE sender' = Resting  BY <2>2, Apartness DEF Resting
    <2>3. ASSUME Sends, ~Recovering(sender'.msg) PROVE FALSE
      <3>1. sender' = sender  BY <1>a, <2>3
      <3> QED  BY <2>1, <3>1
    <2>4. sender' = sender \/ Sends \/ sender' = Resting
      BY DEF Lives, ThreadStep, Plain, Leases, Refreshes, Ticks, Stores, Times
    <2> QED  BY <1>0, <2>1, <2>2, <2>3, <2>4 DEF Sends
  <1> QED  BY <1>1, <1>2 DEF MayRecover, MayRollBack

\* No sender comes to a message whose claim is being rolled back.
LEMMA RollStays ==
  ASSUME Orderly, Lives, NEW p \in Threads, pc[p] = "claimBack", ~Sending(at[p]), at[p] \in Messages
  PROVE  sender'.msg # at[p]
  <1> SUFFICES ASSUME sender'.msg = at[p] PROVE FALSE  OBVIOUS
  <1>1. CASE sender'.msg = sender.msg  BY <1>1 DEF Sending
  <1>2. CASE sender' = Resting  BY <1>2, Apartness DEF Resting
  <1>3. CASE Sends /\ sender' # Resting /\ sender'.msg # sender.msg
    <2>1. ~RollingBack(sender'.msg)  BY <1>1, <1>2, <1>3 DEF Sends, Orderly
    <2> QED  BY <2>1 DEF RollingBack
  <1>4. sender' = sender \/ Sends \/ sender' = Resting
    BY DEF Lives, ThreadStep, Plain, Leases, Refreshes, Ticks, Stores, Times
  <1> QED  BY <1>1, <1>2, <1>3, <1>4

\* A message under recovery is touched by its recovery alone.
LEMMA RecoveryAlone ==
  ASSUME Orderly, OrderInv, Acts, NEW p \in Threads, pc[p] \in Renewing, Same(p)
  PROVE  at[p] \in Messages /\ \A d \in Dirs : file'[at[p]][d] = file[at[p]][d]
  <1> DEFINE m == at[p]
  <1>0. m \in Messages /\ pc[p] \in Locked /\ LockInv /\ OneBackend
    BY StampTypes DEF Renewing, Working, Leasing, Locked, RecoverSteps, Orderly
  <1>1. ASSUME NEW q \in Threads, at[q] = m,
               Requeues(q) \/ Rewrites(q) \/ Returns(q) \/ Settles(q) \/ Leases(q) \/ Refreshes(q)
        PROVE  FALSE
    <2>1. CASE Requeues(q) \/ Rewrites(q) \/ Returns(q) \/ Leases(q)
      <3>1. pc[q] \in Locked /\ pc'[q] # pc[q]
        BY <2>1, Stamped DEF Requeues, Rewrites, Returns, Turns, Locked, RecoverSteps, ClaimSteps
      <3>2. q = p  BY <1>0, <3>1, Alone
      <3> QED  BY <3>1, <3>2 DEF Same
    <2>2. CASE Settles(q) \/ Refreshes(q)
      <3>1. pc[q] \in WritingSteps  BY <2>2 DEF Settles, Refreshes, WritingSteps
      <3> QED  BY <1>1, <3>1, NoWriterRecovered
    <2> QED  BY <1>1, <2>1, <2>2
  <1>2. ASSUME NEW q \in Threads, TakesOne(q, m) PROVE FALSE
    <2>1. pc[q] \in Locked /\ pc'[q] # pc[q]
      BY <1>2 DEF TakesOne, Turns, Locked, ClaimSteps
    <2>2. q = p  BY <1>0, <2>1, Alone
    <2> QED  BY <2>1, <2>2 DEF Same
  <1>3. CASE sender.msg = m /\ Stores  BY <1>3, NoSenderRecovered
  <1> QED  BY <1>0, <1>1, <1>2, <1>3, OrderFates DEF OrderFate

LEMMA RecStep ==
  ASSUME Orderly, OrderInv, Lives, Acts, Shape' PROVE RecInv'
  <1> SUFFICES ASSUME NEW p \in Threads
               PROVE  /\ pc'[p] \in {"recExists", "recMove"} =>
                           file'[at'[p]]["leased"] = view'[p] /\ view'[p] # NoFile
                      /\ pc'[p] = "recWrite" => file'[at'[p]]["pending"] = view'[p]
                      /\ pc'[p] \in Renewing => Expired(at[p], view[p])' /\ MayRecover(at[p])'
                      /\ pc'[p] # "recUnlink"
    BY DEF RecInv
  <1>m. ASSUME NEW m \in Messages, at'[p] = m, MayRecover(m)' PROVE MayRecover(at[p])'
    BY <1>m DEF MayRecover, MayRollBack, Writing, Sending
  <1>1. CASE pc'[p] \notin Renewing \cup {"recUnlink"}  BY <1>1 DEF Renewing
  <1>2. CASE Same(p) /\ pc'[p] \in Renewing
    <2>1. /\ at[p] \in Messages /\ \A d \in Dirs : file'[at[p]][d] = file[at[p]][d]
      BY <1>2, RecoveryAlone DEF Same
    <2>2. PICK m \in Messages : m = at[p]  BY <2>1
    <2>m. MayRecover(m)'  BY <1>2, <2>2, MayStays DEF Same, OrderInv, RecInv
    <2>3. view[p].stamp \in Nat /\ expired[at[p]] \in Nat /\ expired'[at[p]] \in Nat
          /\ expired[at[p]] <= expired'[at[p]]
      BY <2>1, TicksGrow, StampTypes
    <2>4. view[p].stamp <= expired[at[p]]  BY <1>2 DEF Same, OrderInv, RecInv, Expired
    <2>5. view'[p].stamp <= expired'[at'[p]]  BY <1>2, <2>3, <2>4 DEF Same
    <2>6. Expired(at[p], view[p])'  BY <2>5 DEF Expired
    <2>7. MayRecover(at[p])'  BY <1>2, <1>m, <2>2, <2>m DEF Same
    <2>8. /\ file'[at[p]]["leased"] = file[at[p]]["leased"]
          /\ file'[at[p]]["pending"] = file[at[p]]["pending"]
      BY <2>1 DEF Dirs
    <2>9. /\ pc'[p] \in {"recExists", "recMove"} => file'[at'[p]]["leased"] = view'[p] /\ view'[p] # NoFile
          /\ pc'[p] = "recWrite" => file'[at'[p]]["pending"] = view'[p]
          /\ pc'[p] # "recUnlink"
      BY <1>2, <2>8 DEF Same, OrderInv, RecInv
    <2> QED  BY <2>6, <2>7, <2>9
  <1>3. CASE Same(p) /\ pc'[p] = "recUnlink"  BY <1>3 DEF Same, OrderInv, RecInv
  <1>4. CASE Reads(p) /\ Turned(p) /\ UNCHANGED <<sender, expired>>
    <2>1. PICK m \in Messages :
            /\ file[m]["leased"] # NoFile /\ Expired(m, file[m]["leased"]) /\ MayRecover(m)
            /\ pc'[p] = "recExists" /\ at'[p] = m /\ view'[p] = file[m]["leased"] /\ file' = file
      BY <1>4 DEF Reads, Turns
    <2>2. MayRecover(m)'  BY <1>4, <2>1, MayStays DEF Renewing
    <2>3. MayRecover(at[p])'  BY <1>m, <2>1, <2>2
    <2>4. Expired(at[p], view[p])'  BY <1>4, <2>1 DEF Expired
    <2> QED  BY <2>1, <2>3, <2>4
  <1>5. CASE (Looks(p) \/ Requeues(p)) /\ Turned(p) /\ UNCHANGED <<sender, expired>>
    <2>0. pc[p] \in Renewing /\ at'[p] = at[p] /\ view'[p] = view[p]
      BY <1>5 DEF Looks, Requeues, Turns, Renewing
    <2>1. /\ at[p] \in Messages /\ file[at[p]]["leased"] = view[p] /\ view[p] # NoFile
          /\ Expired(at[p], view[p]) /\ MayRecover(at[p])
      BY <1>5, <2>0, StampTypes
      DEF Looks, Requeues, OrderInv, RecInv, Renewing, Working, Leasing
    <2>m. PICK m \in Messages : m = at[p]  BY <2>1
    <2>2. MayRecover(m)'  BY <1>5, <2>0, <2>1, <2>m, MayStays
    <2>3. MayRecover(at[p])'  BY <1>m, <2>0, <2>2, <2>m
    <2>4. Expired(at[p], view[p])'  BY <1>5, <2>0, <2>1 DEF Expired
    <2>5. CASE Looks(p)
      <3>1. file[at[p]]["pending"] = NoFile
        BY <2>1, Apartness DEF OrderInv, OneCopy, Dirs
      <3>2. pc'[p] = "recMove" /\ file' = file  BY <2>5, <3>1 DEF Looks, Turns
      <3> QED  BY <2>0, <2>1, <2>3, <2>4, <3>2
    <2>6. CASE Requeues(p)
      <3>1. pc'[p] = "recWrite" /\ file'[at[p]]["pending"] = file[at[p]]["leased"]
        BY <2>6 DEF Requeues, Turns, Moves
      <3> QED  BY <2>0, <2>1, <2>3, <2>4, <3>1
    <2> QED  BY <1>5, <2>5, <2>6
  <1> QED  BY <1>1, <1>2, <1>3, <1>4, <1>5, RecoverRow

\* What a step of another does to the lease of a holder that stays.
LEMMA HolderFiles ==
  ASSUME Orderly, OrderInv, Lives, Acts, NEW p \in Threads, NEW m \in Messages, at[p] = m,
         pc[p] \in HoldSteps, at'[p] = at[p], view'[p] = view[p], pc'[p] \in HoldSteps,
         ~(Leases(p) \/ Refreshes(p))
  PROVE  /\ \/ file'[m]["leased"] = file[m]["leased"]
            \/ /\ pc[p] = "hold" /\ Same(p) /\ (Expired(m, view[p]) \/ file[m]["leased"] # view[p])
               /\ \/ file'[m]["leased"] = NoFile \/ file'[m]["leased"].stamp # view[p].stamp
                  \/ file'[m]["leased"] = view[p]
         /\ \/ file'[m]["pending"] = file[m]["pending"]
            \/ file'[m]["pending"] = NoFile
            \/ file'[m]["pending"].stamp # view[p].stamp
            \/ file'[m]["pending"] = view[p] /\ Expired(m, view[p])
  <1> DEFINE
        Lease == \/ file'[m]["leased"] = file[m]["leased"]
                 \/ /\ pc[p] = "hold" /\ Same(p) /\ (Expired(m, view[p]) \/ file[m]["leased"] # view[p])
                    /\ \/ file'[m]["leased"] = NoFile \/ file'[m]["leased"].stamp # view[p].stamp
                       \/ file'[m]["leased"] = view[p]
        Back == \/ file'[m]["pending"] = file[m]["pending"]
                \/ file'[m]["pending"] = NoFile
                \/ file'[m]["pending"].stamp # view[p].stamp
                \/ file'[m]["pending"] = view[p] /\ Expired(m, view[p])
  <1>0. /\ "pending" \in Dirs /\ "leased" \in Dirs /\ "completed" \in Dirs /\ "failed" \in Dirs
        /\ view[p].stamp \in Nat /\ view[p].stamp >= 1 /\ view[p].stamp <= clock[m] /\ clock[m] \in Nat
        /\ LockInv /\ OneBackend
    BY StampTypes DEF Dirs, Orderly
  <1>1. CASE \A d \in Dirs : file'[m][d] = file[m][d]  BY <1>0, <1>1
  <1>2. ASSUME NEW q \in Threads, at[q] = m, Turned(q),
               Requeues(q) \/ Rewrites(q) \/ Returns(q) \/ Settles(q) \/ Leases(q) \/ Refreshes(q)
        PROVE  Lease /\ Back
    <2>0. q # p
      BY <1>2 DEF Requeues, Rewrites, Returns, Settles, Turns, HoldSteps
    <2>1. Same(p)  BY <1>2, <2>0 DEF Turned
    <2>2. pc[p] = "hold" \/ pc[p] \in WritingSteps  BY DEF HoldSteps, WritingSteps
    <2>3. CASE Requeues(q)
      <3>1. pc[q] \in Renewing /\ pc[q] = "recMove"  BY <2>3 DEF Requeues, Renewing
      <3>2. pc[p] = "hold"  BY <1>2, <2>2, <3>1, NoWriterRecovered
      <3>3. file[m]["leased"] = view[q] /\ Expired(m, view[q])
        BY <1>2, <3>1 DEF OrderInv, RecInv
      <3>4. file'[m]["leased"] = NoFile /\ file'[m]["pending"] = file[m]["leased"]
            /\ file[m]["leased"] # NoFile
        BY <1>2, <2>3 DEF Requeues, Moves
      <3>5. file[m]["leased"].stamp = view[p].stamp => file[m]["leased"] = view[p]
        BY <3>4 DEF OrderInv, HolderInv
      <3> QED  BY <2>1, <3>2, <3>3, <3>4, <3>5
    <2>4. CASE Rewrites(q)
      <3>1. file'[m]["pending"] = RecoveredTask(view[q]) /\ file'[m]["leased"] = file[m]["leased"]
        BY <1>0, <1>2, <2>4, Apartness DEF Rewrites, Puts
      <3>2. file'[m]["pending"].stamp = 0  BY <3>1 DEF RecoveredTask
      <3>3. file'[m]["pending"].stamp # view[p].stamp  BY <1>0, <3>2
      <3> QED  BY <3>1, <3>3
    <2>5. CASE Settles(q)
      <3>1. pc[q] \in WritingSteps  BY <2>5 DEF Settles, WritingSteps
      <3>2. pc[p] = "hold"  BY <1>2, <2>0, <2>2, <3>1, OneWriter
      <3>3. file[m]["leased"] = view[q] /\ pc[q] \in HoldSteps  BY <1>2, <3>1, WriterLeased
      <3>4. view[q] # view[p]  BY <1>2, <2>0, <3>3 DEF OrderInv, StampInv
      <3>5. file'[m]["leased"] = NoFile /\ file'[m]["pending"] = file[m]["pending"]
        BY <1>0, <1>2, <2>5, Apartness DEF Settles, Moves
      <3> QED  BY <2>1, <3>2, <3>3, <3>4, <3>5
    <2>6. CASE Leases(q) \/ Refreshes(q)
      <3>1. /\ Puts(m, "leased", view'[q]) /\ view'[q].stamp = clock[m] + 1
            /\ file'[m]["leased"] = view'[q] /\ file[m]["leased"] = view[q] /\ file[m]["leased"] # NoFile
            /\ pc[q] = "claimWrite" \/ pc[q] = "refWrite"
        BY <1>2, <2>6, Stamped
      <3>2. file'[m]["leased"].stamp # view[p].stamp  BY <1>0, <3>1
      <3>3. file'[m]["pending"] = file[m]["pending"]  BY <1>0, <3>1, Apartness DEF Puts
      <3>4. pc[p] \notin WritingSteps
        BY <1>2, <2>0, <3>1, OneWriter, NoWriterClaimed DEF WritingSteps, Claimants
      <3>5. Expired(m, view[p]) \/ file[m]["leased"] # view[p]
        <4>1. CASE pc[q] = "claimWrite"
          <5>1. OldHolders(m)  BY <1>2, <4>1 DEF OrderInv, ClaimInv, Claimants
          <5> QED  BY <5>1 DEF OldHolders
        <4>2. CASE pc[q] = "refWrite"
          <5>1. pc[q] \in HoldSteps  BY <4>2 DEF HoldSteps
          <5> QED  BY <1>2, <2>0, <3>1, <5>1 DEF OrderInv, StampInv
        <4> QED  BY <3>1, <4>1, <4>2
      <3> QED  BY <2>1, <2>2, <3>2, <3>3, <3>4, <3>5
    <2>7. CASE Returns(q)
      <3>1. pc[q] \in Claimants  BY <2>7 DEF Returns, Claimants
      <3>2. pc[p] = "hold"  BY <1>2, <2>2, <3>1, NoWriterClaimed
      <3>3. OldHolders(m)  BY <1>2, <3>1 DEF OrderInv, ClaimInv
      <3>4. file'[m]["leased"] = NoFile /\ file'[m]["pending"] = file[m]["leased"]
            /\ file[m]["leased"] # NoFile
        BY <1>2, <2>7 DEF Returns, Moves
      <3>5. file[m]["leased"].stamp = view[p].stamp => file[m]["leased"] = view[p] /\ Expired(m, view[p])
        BY <3>3, <3>4 DEF OrderInv, HolderInv, OldHolders
      <3> QED  BY <2>1, <3>2, <3>4, <3>5
    <2> QED  BY <1>2, <2>3, <2>4, <2>5, <2>6, <2>7
  <1>3. ASSUME NEW q \in Threads, TakesOne(q, m), Turned(q) PROVE Lease /\ Back
    <2>0. q # p  BY <1>3 DEF TakesOne, HoldSteps
    <2>1. /\ file[m]["pending"] # NoFile /\ pc[q] \in Locked /\ pc[q] = "claim"
          /\ file'[m]["pending"] = NoFile /\ file'[m]["leased"] = file[m]["pending"]
      BY <1>3 DEF TakesOne, Moves, Locked, ClaimSteps
    <2>2. file[m]["leased"] = NoFile  BY <1>0, <2>1, Apartness DEF OrderInv, OneCopy
    <2>3. pc[p] = "hold"  BY <2>1, WriterLeased DEF HoldSteps, WritingSteps
    <2>4. file[m]["leased"] # view[p]
      <3>1. view[p] \in Docs  BY StampTypes
      <3> QED  BY <2>2, <3>1, Apartness
    <2>5. file[m]["pending"].stamp = view[p].stamp => file[m]["pending"] = view[p]
      BY <2>1 DEF OrderInv, HolderInv
    <2>6. Same(p)  BY <1>3, <2>0 DEF Turned
    <2> QED  BY <2>1, <2>3, <2>4, <2>5, <2>6
  <1>4. ASSUME sender.msg = m, Stores PROVE Lease /\ Back
    <2>1. file'[m]["pending"] = Fresh /\ file'[m]["leased"] = file[m]["leased"]
      BY <1>0, <1>4, Apartness DEF Stores, Puts
    <2>2. file'[m]["pending"].stamp # view[p].stamp  BY <1>0, <2>1 DEF Fresh
    <2> QED  BY <2>1, <2>2
  <1> QED  BY <1>1, <1>2, <1>3, <1>4, OrderFates DEF OrderFate

LEMMA HolderStep ==
  ASSUME Orderly, OrderInv, Lives, Acts, Shape' PROVE HolderInv'
  <1> SUFFICES ASSUME NEW p \in Threads, pc'[p] \in HoldSteps
               PROVE  LET f == file'[at'[p]] IN
                      /\ pc'[p] \in WritingSteps => f["leased"] = view'[p]
                      /\ f["leased"] # NoFile /\ f["leased"].stamp = view'[p].stamp => f["leased"] = view'[p]
                      /\ f["pending"] # NoFile /\ f["pending"].stamp = view'[p].stamp =>
                           f["pending"] = view'[p] /\ view'[p].stamp <= expired'[at'[p]]
    BY DEF HolderInv, Expired
  <1>1. CASE Leases(p) \/ Refreshes(p)
    <2> DEFINE m == at[p]
    <2>1. /\ m \in Messages /\ at'[p] = m /\ pc'[p] = "hold" /\ file'[m]["leased"] = view'[p]
          /\ view'[p].stamp = clock[m] + 1 /\ Puts(m, "leased", view'[p])
      BY <1>1, Stamped
    <2>2. file'[m]["pending"] = file[m]["pending"]  BY <2>1, Apartness DEF Puts, Dirs
    <2>3. file[m]["pending"] # NoFile => file[m]["pending"].stamp # view'[p].stamp
      <3> SUFFICES ASSUME file[m]["pending"] # NoFile PROVE file[m]["pending"].stamp # view'[p].stamp
        OBVIOUS
      <3>1. /\ file[m]["pending"].stamp \in Nat /\ file[m]["pending"].stamp <= clock[m]
            /\ clock[m] \in Nat
        BY <2>1, StampTypes DEF Dirs
      <3> QED  BY <2>1, <3>1
    <2> QED  BY <2>1, <2>2, <2>3 DEF WritingSteps
  <1>2. ASSUME ~(Leases(p) \/ Refreshes(p)),
               pc[p] \in HoldSteps, at'[p] = at[p], view'[p] = view[p],
               \/ Same(p) \/ (Checks(p) /\ Turned(p)) \/ (pc[p] = "finWrite" /\ pc'[p] = "finMove")
               \/ pc[p] \in WritingSteps /\ pc'[p] = "hold"
        PROVE  LET f == file'[at'[p]] IN
               /\ pc'[p] \in WritingSteps => f["leased"] = view'[p]
               /\ f["leased"] # NoFile /\ f["leased"].stamp = view'[p].stamp => f["leased"] = view'[p]
               /\ f["pending"] # NoFile /\ f["pending"].stamp = view'[p].stamp =>
                    f["pending"] = view'[p] /\ view'[p].stamp <= expired'[at'[p]]
    <2> DEFINE m == at[p]
    <2>0. m \in Messages  BY <1>2, StampTypes DEF Working
    <2>a. /\ pc[p] \in WritingSteps => file[m]["leased"] = view[p]
          /\ file[m]["leased"] # NoFile /\ file[m]["leased"].stamp = view[p].stamp
               => file[m]["leased"] = view[p]
          /\ file[m]["pending"] # NoFile /\ file[m]["pending"].stamp = view[p].stamp =>
               file[m]["pending"] = view[p] /\ Expired(m, view[p])
      BY <1>2 DEF OrderInv, HolderInv
    <2>b. /\ \/ file'[m]["leased"] = file[m]["leased"]
             \/ /\ pc[p] = "hold" /\ Same(p)
                /\ \/ file'[m]["leased"] = NoFile \/ file'[m]["leased"].stamp # view[p].stamp
                   \/ file'[m]["leased"] = view[p]
          /\ \/ file'[m]["pending"] = file[m]["pending"]
             \/ file'[m]["pending"] = NoFile
             \/ file'[m]["pending"].stamp # view[p].stamp
             \/ file'[m]["pending"] = view[p] /\ Expired(m, view[p])
      BY <1>2, <2>0, HolderFiles
    <2>e. Expired(m, view[p]) => view[p].stamp <= expired'[m]
      <3>1. /\ view[p].stamp \in Nat /\ expired[m] \in Nat /\ expired'[m] \in Nat
            /\ expired[m] <= expired'[m]
        BY <2>0, TicksGrow, StampTypes
      <3> QED  BY <3>1 DEF Expired
    <2>1. pc'[p] \in WritingSteps => file'[m]["leased"] = view[p]
      <3> SUFFICES ASSUME pc'[p] \in WritingSteps PROVE file'[m]["leased"] = view[p]  OBVIOUS
      <3>1. CASE Same(p)  BY <2>a, <2>b, <3>1 DEF Same, WritingSteps
      <3>2. CASE Checks(p)
        <4>1. file[m]["leased"] = view[p]  BY <2>a, <3>2 DEF Checks, IsCurrent
        <4> QED  BY <3>2, <4>1 DEF Checks
      <3>3. CASE pc[p] = "finWrite" /\ pc'[p] = "finMove"
        BY <2>a, <2>b, <3>3 DEF WritingSteps
      <3>4. pc'[p] # "hold"  BY DEF WritingSteps
      <3> QED  BY <1>2, <3>1, <3>2, <3>3, <3>4
    <2>2. file'[m]["leased"] # NoFile /\ file'[m]["leased"].stamp = view[p].stamp
            => file'[m]["leased"] = view[p]
      BY <2>a, <2>b
    <2>3. file'[m]["pending"] # NoFile /\ file'[m]["pending"].stamp = view[p].stamp =>
            file'[m]["pending"] = view[p] /\ view[p].stamp <= expired'[m]
      BY <2>a, <2>b, <2>e
    <2> QED  BY <1>2, <2>1, <2>2, <2>3
  <1> QED  BY <1>1, <1>2, HolderRow

LEMMA LiveStep ==
  ASSUME Orderly, OrderInv, Lives, Acts, Shape' PROVE LiveLeaseStands'
  <1> SUFFICES ASSUME NEW p \in Threads, pc'[p] \in HoldSteps, ~(view'[p].stamp <= expired'[at'[p]])
               PROVE  file'[at'[p]]["leased"] = view'[p]
    BY DEF LiveLeaseStands, Expired
  <1>1. CASE Leases(p) \/ Refreshes(p)  BY <1>1, Stamped
  <1>2. CASE /\ ~(Leases(p) \/ Refreshes(p))
             /\ pc[p] \in HoldSteps /\ at'[p] = at[p] /\ view'[p] = view[p]
    <2>1. at[p] \in Messages  BY <1>2, StampTypes DEF Working
    <2>2. ~Expired(at[p], view[p])
      <3>1. /\ view[p].stamp \in Nat /\ expired[at[p]] \in Nat /\ expired'[at[p]] \in Nat
            /\ expired[at[p]] <= expired'[at[p]]
        BY <2>1, TicksGrow, StampTypes
      <3>2. ~(view[p].stamp <= expired[at[p]])  BY <1>2, <3>1
      <3> QED  BY <3>2 DEF Expired
    <2>3. file[at[p]]["leased"] = view[p]  BY <1>2, <2>2 DEF OrderInv, LiveLeaseStands
    <2>4. file'[at[p]]["leased"] = file[at[p]]["leased"]
      BY <1>2, <2>1, <2>2, <2>3, HolderFiles
    <2> QED  BY <1>2, <2>3, <2>4
  <1> QED  BY <1>1, <1>2, HolderRow

LEMMA ClaimStep ==
  ASSUME Orderly, OrderInv, Lives, Acts, Shape' PROVE ClaimInv'
  <1> DEFINE
        Old(m) == \A q \in Threads :
          pc'[q] \in HoldSteps /\ at'[q] = m /\ file'[m]["leased"].stamp = view'[q].stamp =>
            pc'[q] = "hold" /\ view'[q].stamp <= expired'[m]
  <1> SUFFICES ASSUME NEW p \in Threads, pc'[p] \in Claimants
               PROVE  /\ file'[at'[p]]["leased"] # NoFile
                      /\ pc'[p] = "claimWrite" => file'[at'[p]]["leased"] = view'[p]
                      /\ pc'[p] = "claimBack" => sender'.msg # at'[p]
                      /\ Old(at'[p])
    BY DEF ClaimInv, OldHolders, Expired, Sending
  <1> DEFINE
        Good == /\ file'[at'[p]]["leased"] # NoFile
                /\ pc'[p] = "claimWrite" => file'[at'[p]]["leased"] = view'[p]
                /\ pc'[p] = "claimBack" => sender'.msg # at'[p]
                /\ Old(at'[p])
  <1>0. LockInv /\ OneBackend  BY StampTypes DEF Orderly
  <1>a. ASSUME NEW q \in Threads, pc'[q] \in HoldSteps, Turned(p) PROVE Same(q)
    <2>1. q # p  BY <1>a DEF Claimants, HoldSteps
    <2> QED  BY <1>a, <2>1 DEF Turned
  <1>1. ASSUME NEW m \in Messages, TakesOne(p, m), Turned(p), expired' = expired PROVE Good
    <2>1. /\ file[m]["pending"] # NoFile
          /\ file'[m]["leased"] = file[m]["pending"] /\ at'[p] = m /\ pc'[p] = "claimRead"
      BY <1>1 DEF TakesOne, Moves, Turns
    <2>2. ASSUME NEW q \in Threads, pc'[q] \in HoldSteps, at'[q] = m,
                 file[m]["pending"].stamp = view'[q].stamp
          PROVE  pc'[q] = "hold" /\ view'[q].stamp <= expired'[m]
      <3>1. /\ pc[q] \in HoldSteps /\ at[q] = m /\ pc'[q] = pc[q] /\ view'[q] = view[q]
        BY <1>1, <1>a, <2>2 DEF Same
      <3>2. Expired(m, view[q])  BY <2>1, <2>2, <3>1 DEF OrderInv, HolderInv
      <3>3. pc[q] \notin WritingSteps  BY <2>1, <3>1, WriterLeased
      <3>4. pc[q] = "hold"  BY <3>1, <3>3 DEF HoldSteps, WritingSteps
      <3> QED  BY <1>1, <3>1, <3>2, <3>4 DEF Expired
    <2> QED  BY <2>1, <2>2
  <1>2. CASE (Opens(p) \/ Misses(p)) /\ Turned(p) /\ UNCHANGED <<sender, expired>>
    <2>1. /\ pc[p] \in Claimants /\ file' = file /\ at'[p] = at[p]
          /\ pc'[p] = "claimWrite" => view'[p] = file[at[p]]["leased"]
          /\ pc'[p] = "claimBack" => MayRollBack(at[p])
      BY <1>2 DEF Opens, Misses, Turns, Claimants
    <2>2. file[at[p]]["leased"] # NoFile /\ OldHolders(at[p])  BY <2>1 DEF OrderInv, ClaimInv
    <2>3. pc'[p] = "claimBack" => sender'.msg # at[p]
      BY <1>2, <2>1 DEF MayRollBack, Sending, Orderly
    <2>4. Old(at[p])  BY <1>2, <1>a, <2>1, <2>2 DEF Same, OldHolders, Expired
    <2> QED  BY <2>1, <2>2, <2>3, <2>4
  <1>3. CASE Same(p)
    <2> DEFINE m == at[p]
    <2>0. /\ pc[p] \in Claimants /\ pc[p] \in Locked /\ m \in Messages /\ at'[p] = m
          /\ file[m]["leased"] # NoFile
          /\ pc[p] = "claimWrite" => file[m]["leased"] = view[p]
          /\ pc[p] = "claimBack" => ~Sending(m)
          /\ OldHolders(m)
      <3>1. pc[p] \in Claimants /\ at'[p] = m  BY <1>3 DEF Same
      <3>2. pc[p] \in Locked /\ pc[p] \in Working
        BY <3>1 DEF Claimants, Locked, ClaimSteps, Working
      <3> QED  BY <3>1, <3>2, StampTypes DEF OrderInv, ClaimInv
    <2>1. ASSUME NEW q \in Threads, at[q] = m,
                 Requeues(q) \/ Rewrites(q) \/ Returns(q) \/ Settles(q) \/ Leases(q) \/ Refreshes(q)
          PROVE  FALSE
      <3>1. CASE Requeues(q) \/ Rewrites(q) \/ Returns(q) \/ Leases(q)
        <4>1. pc[q] \in Locked /\ pc'[q] # pc[q]
          BY <3>1, Stamped DEF Requeues, Rewrites, Returns, Turns, Locked, RecoverSteps, ClaimSteps
        <4>2. q = p  BY <1>0, <2>0, <4>1, Alone
        <4> QED  BY <1>3, <4>1, <4>2 DEF Same
      <3>2. CASE Settles(q) \/ Refreshes(q)
        <4>1. pc[q] \in WritingSteps  BY <3>2 DEF Settles, Refreshes, WritingSteps
        <4> QED  BY <2>0, <2>1, <4>1, NoWriterClaimed
      <3> QED  BY <2>1, <3>1, <3>2
    <2>2. file'[m]["leased"] = file[m]["leased"]
      <3>1. ASSUME NEW q \in Threads, TakesOne(q, m) PROVE FALSE
        <4>1. pc[q] \in Locked /\ pc'[q] # pc[q]
          BY <3>1 DEF TakesOne, Turns, Locked, ClaimSteps
        <4>2. q = p  BY <1>0, <2>0, <4>1, Alone
        <4> QED  BY <1>3, <4>1, <4>2 DEF Same
      <3>2. CASE sender.msg = m /\ Stores
        BY <2>0, <3>2, Apartness DEF Stores, Puts, Dirs
      <3>3. CASE \A d \in Dirs : file'[m][d] = file[m][d]  BY <3>3 DEF Dirs
      <3> QED  BY <2>0, <2>1, <3>1, <3>2, <3>3, OrderFates DEF OrderFate
    <2>3. ASSUME NEW q \in Threads, pc'[q] \in HoldSteps, at'[q] = m,
                 file[m]["leased"].stamp = view'[q].stamp
          PROVE  pc'[q] = "hold" /\ view'[q].stamp <= expired'[m]
      <3>1. ~(Leases(q) \/ Refreshes(q))  BY <2>1, <2>3, Stamped
      <3>2. /\ pc[q] \in HoldSteps /\ at[q] = m /\ view'[q] = view[q]
            /\ \/ Same(q) \/ Checks(q) \/ (pc[q] = "finWrite" /\ pc'[q] = "finMove")
               \/ pc[q] \in WritingSteps /\ pc'[q] = "hold"
        BY <2>3, <3>1, HolderRow
      <3>3. pc[q] = "hold" /\ Expired(m, view[q])  BY <2>0, <2>3, <3>2 DEF OldHolders
      <3>4. view'[q].stamp <= expired'[m]
        <4>1. /\ view[q].stamp \in Nat /\ expired[m] \in Nat /\ expired'[m] \in Nat
              /\ expired[m] <= expired'[m]
          BY <2>0, TicksGrow, StampTypes
        <4> QED  BY <3>2, <3>3, <4>1 DEF Expired
      <3>5. ~Checks(q)
        <4>1. Claiming(m)  BY <2>0 DEF Claiming, Claimants, ClaimSteps
        <4> QED  BY <3>2, <4>1 DEF Checks, MayCheck, Orderly
      <3> QED  BY <3>2, <3>3, <3>4, <3>5 DEF Same, WritingSteps
    <2>4. pc'[p] = "claimBack" => sender'.msg # m
      BY <1>3, <2>0, RollStays DEF Same
    <2> QED  BY <1>3, <2>0, <2>2, <2>3, <2>4 DEF Same
  <1> QED  BY <1>1, <1>2, <1>3, ClaimRow

-----------------------------------------------------------------------------
LEMMA InitOrder == Init => OrderInv
  <1> SUFFICES ASSUME Init PROVE OrderInv OBVIOUS
  <1>1. OneInv  BY InitOne
  <1>2. /\ \A m \in Messages, d \in Dirs : file[m][d] = NoFile
        /\ \A m \in Messages : clock[m] = 0 /\ given[m] = 0
        /\ \A p \in Threads : pc[p] = "idle" /\ at[p] = Nobody
        /\ sender.step = "rest"
    BY DEF Init, Resting
  <1>3. OneCopy  BY <1>2 DEF OneCopy
  <1>4. LiveLeaseStands /\ HolderInv  BY <1>2 DEF LiveLeaseStands, HolderInv, HoldSteps
  <1>5. StampInv  BY <1>2, Apartness DEF StampInv, HoldSteps
  <1>6. RecInv /\ ClaimInv  BY <1>2 DEF RecInv, ClaimInv, Renewing, Claimants
  <1>7. SendInv  BY <1>2 DEF SendInv
  <1>8. GivenInv  BY <1>2 DEF GivenInv
  <1> QED  BY <1>1, <1>3, <1>4, <1>5, <1>6, <1>7, <1>8 DEF OrderInv

LEMMA OrderStep == Orderly /\ OrderInv /\ [Next]_vars => OrderInv'
  <1> SUFFICES ASSUME Orderly, OrderInv, [Next]_vars PROVE OrderInv' OBVIOUS
  <1>1. OneInv'  BY OneStep DEF OrderInv, Orderly
  <1>2. CASE UNCHANGED vars
    BY <1>1, <1>2 DEF OrderInv, OneCopy, LiveLeaseStands, StampInv, RecInv, HolderInv, ClaimInv, SendInv,
      OldHolders, GivenInv, Stored, Expired, MayRecover, MayRollBack, Writing, Sending, vars
  <1>3. CASE Next
    <2>1. Acts /\ Shape'  BY <1>3, NextActs, StampTypes
    <2>2. OneCopy'  BY <2>1, OneCopyStep DEF OneCopy, OneCopyOf
    <2>3. SendInv' /\ GivenInv'  BY <2>1, SendStep, GivenStep
    <2>4. CASE Lives
      BY <1>1, <2>1, <2>2, <2>3, <2>4, StampStep, RecStep, HolderStep, ClaimStep, LiveStep DEF OrderInv
    <2>5. ASSUME NEW b \in Backends, Dies(b) PROVE OrderInv'
      <3>1. /\ \A p \in Threads : pc'[p] = "idle" /\ at'[p] = Nobody
            /\ UNCHANGED <<file, clock, expired, given, sender>>
        BY <2>5, CrashEnds DEF Orderly
      <3>2. LiveLeaseStands' /\ HolderInv'  BY <3>1 DEF LiveLeaseStands, HolderInv, HoldSteps
      <3>3. StampInv'  BY <3>1, Apartness DEF StampInv, HoldSteps, OrderInv
      <3>4. RecInv' /\ ClaimInv'  BY <3>1 DEF RecInv, ClaimInv, Renewing, Claimants
      <3> QED  BY <1>1, <2>2, <2>3, <3>2, <3>3, <3>4 DEF OrderInv
    <2> QED  BY <2>1, <2>4, <2>5 DEF Acts, Lives, OtherStep
  <1> QED  BY <1>2, <1>3

LEMMA OrderHolds == Orderly => (Spec => []OrderInv)
  <1> SUFFICES ASSUME Orderly PROVE Spec => []OrderInv  OBVIOUS
  <1>1. OrderInv /\ [Next]_vars => OrderInv'  BY OrderStep
  <1> QED  BY <1>1, InitOrder, PTL DEF Spec

(* In an orderly queue a message is in one directory at most: what enqueue *)
(* writes is the only copy, although claims, completions, failed           *)
(* recoveries and crashes fall between its steps.                          *)
THEOREM OneCopyOnly == Orderly => (Spec => []OneCopy)
  <1>1. OrderInv => OneCopy  BY DEF OrderInv
  <1> QED  BY <1>1, OrderHolds, PTL

(* In an orderly queue a lease in force stands as its holder wrote it, so  *)
(* a message has one live holder.                                          *)
THEOREM LeasesStand == Orderly => (Spec => []LiveLeaseStands)
  <1>1. OrderInv => LiveLeaseStands  BY DEF OrderInv
  <1> QED  BY <1>1, OrderHolds, PTL

(* In an orderly queue refresh_lease, complete and fail write to the lease *)
(* they checked, never over that of a later claim.                         *)
THEOREM HoldersFinish == Orderly => (Spec => FinishedByHolder)
  <1> SUFFICES ASSUME Orderly PROVE Spec => FinishedByHolder  OBVIOUS
  <1>1. OrderInv /\ [Next]_vars => OrderInv'  BY OrderStep
  <1>2. OrderInv /\ [Next]_vars =>
          [\A p \in Threads :
             pc[p] \in HoldSteps /\ pc'[p] # pc[p] /\ file' # file =>
               file[at[p]]["leased"] = view[p]]_vars
    <2> SUFFICES ASSUME OrderInv, Next, NEW p \in Threads,
                        pc[p] \in HoldSteps, pc'[p] # pc[p], file' # file
                 PROVE  file[at[p]]["leased"] = view[p]
      OBVIOUS
    <2>1. Acts  BY NextActs, StampTypes
    <2>2. ASSUME NEW q \in Threads, ThreadStep(q) PROVE ThreadStep(p)
      BY <2>2, StepTurned DEF Turned, Same
    <2>3. ThreadStep(p)
      BY <2>1, <2>2 DEF Acts, OtherStep, Dies, Sends, Stores, Times, Aside
    <2>4. pc[p] \in WritingSteps
      BY <2>3
      DEF ThreadStep, Plain, Locks, Passes, Reads, Looks, Unlinks, Requeues, Rewrites, Leaves, Takes,
          Opens, Misses, Returns, Checks, Finishes, Settles, Rests, Retries, Leases, Refreshes, HoldSteps, WritingSteps
    <2> QED  BY <2>4, WriterLeased
  <1> QED  BY <1>1, <1>2, InitOrder, PTL DEF Spec, FinishedByHolder

(* In an orderly queue each claim hands out the attempt_count that follows *)
(* the highest one handed out before, through recoveries and crashes.      *)
THEOREM DeliveriesInOrder == Orderly => (Spec => DeliveredInOrder)
  <1> SUFFICES ASSUME Orderly PROVE Spec => DeliveredInOrder  OBVIOUS
  <1>1. OrderInv /\ [Next]_vars => OrderInv'  BY OrderStep
  <1>2. OrderInv /\ [Next]_vars =>
          [\A p \in Threads :
             pc[p] = "claimWrite" /\ pc'[p] = "hold" => view'[p].count = given[at[p]] + 1]_vars
    <2> SUFFICES ASSUME OrderInv, Next, NEW p \in Threads, pc[p] = "claimWrite", pc'[p] = "hold"
                 PROVE  view'[p].count = given[at[p]] + 1
      OBVIOUS
    <2>1. Acts  BY NextActs, StampTypes
    <2>2. ASSUME NEW q \in Threads, ThreadStep(q) PROVE ThreadStep(p)
      BY <2>2, StepTurned DEF Turned, Same
    <2>3. ThreadStep(p)
      BY <2>1, <2>2 DEF Acts, OtherStep, Dies, Sends, Stores, Times, Aside
    <2>4. Leases(p)
      BY <2>3
      DEF ThreadStep, Plain, Locks, Passes, Reads, Looks, Unlinks, Requeues, Rewrites, Leaves, Takes,
          Opens, Misses, Returns, Checks, Finishes, Settles, Rests, Retries, Refreshes, Turns, HoldSteps
    <2>5. /\ at[p] \in Messages /\ view'[p].count = view[p].count + 1
          /\ file[at[p]]["leased"] = view[p] /\ file[at[p]]["leased"] # NoFile
      BY <2>4, Stamped
    <2>6. view[p].count = given[at[p]]  BY <2>5 DEF OrderInv, GivenInv, Dirs
    <2> QED  BY <2>5, <2>6
  <1> QED  BY <1>1, <1>2, InitOrder, PTL DEF Spec, DeliveredInOrder
=============================================================================
