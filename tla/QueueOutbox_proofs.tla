------------------------- MODULE QueueOutbox_proofs -------------------------
(***************************************************************************)
(* Safety of the outbox for any number of messages and dispatchers, any    *)
(* batch sizes and any number of stops and deaths: a dispatched row has    *)
(* its message in the queue, no late answer takes it back, a lease in      *)
(* force is ended by its holder alone, and every variable keeps its type.  *)
(* For the last, the first part proves what RemoveAt, InsertAt and the     *)
(* recursion of InLine return, by the least number of a set.               *)
(***************************************************************************)
EXTENDS QueueOutbox, SequenceTheorems, WellFoundedInduction, TLAPS

RowStates == {"absent", "pending", "leased", "dispatched"}
Steps == {"down", "idle", "claim", "send", "mark", "release"}

Shape == pc \in [Dispatchers -> Steps] /\ state \in [Messages -> RowStates]

(* The message a dispatcher is about to mark has been written.              *)
SentBeforeMarked == \A d \in Dispatchers : pc[d] = "mark" => Head(batch[d]) \in queued

IInv == Shape /\ SentBeforeMarked /\ DispatchedIsQueued

-----------------------------------------------------------------------------
(* The initial states.                                                     *)
LEMMA InitInv == Init => IInv
  <1> SUFFICES ASSUME Init PROVE IInv  OBVIOUS
  <1>1. Shape  BY DEF Init, Shape, Steps, RowStates
  <1>2. SentBeforeMarked  BY DEF Init, SentBeforeMarked
  <1>3. DispatchedIsQueued  BY DEF Init, DispatchedIsQueued
  <1> QED  BY <1>1, <1>2, <1>3 DEF IInv

(* What a step has to respect: a row becomes dispatched only with its       *)
(* message in the queue, and a dispatcher comes to its mark only likewise.  *)
LEMMA StepKeeps ==
  ASSUME IInv,
         state' \in [Messages -> RowStates], pc' \in [Dispatchers -> Steps],
         queued \subseteq queued',
         \A m \in Messages : state'[m] = "dispatched" => state[m] = "dispatched" \/ m \in queued,
         \A d \in Dispatchers : pc'[d] = "mark" =>
           \/ pc[d] = "mark" /\ batch'[d] = batch[d]
           \/ Head(batch'[d]) \in queued'
  PROVE  IInv'
  <1>1. Shape'  BY DEF Shape
  <1>2. SentBeforeMarked'  BY DEF IInv, SentBeforeMarked
  <1>3. DispatchedIsQueued'  BY DEF IInv, DispatchedIsQueued
  <1> QED  BY <1>1, <1>2, <1>3 DEF IInv

(* A dispatcher that goes on with its batch, or gives it up, is not at its  *)
(* mark, and nobody else moves.                                            *)
LEMMA OthersStay ==
  ASSUME NEW d \in Dispatchers, NEW s \in Steps \ {"mark"}, NEW b,
         Shape, pc' = [pc EXCEPT ![d] = s], batch' = [batch EXCEPT ![d] = b]
  PROVE  /\ pc' \in [Dispatchers -> Steps]
         /\ \A e \in Dispatchers : pc'[e] = "mark" => pc[e] = "mark" /\ batch'[e] = batch[e]
  BY DEF Shape

(* NextMessage ends the work on a message, whatever comes next.             *)
LEMMA NextMessageMoves ==
  ASSUME NEW d \in Dispatchers, NEW retried, Shape, NextMessage(d, retried)
  PROVE  /\ pc' \in [Dispatchers -> Steps]
         /\ \A e \in Dispatchers : pc'[e] = "mark" => pc[e] = "mark" /\ batch'[e] = batch[e]
  <1> DEFINE s == IF Len(batch[d]) = 1 THEN "idle" ELSE "send"
  <1>1. s \in Steps \ {"mark"}  BY DEF Steps
  <1>2. pc' = [pc EXCEPT ![d] = s] /\ batch' = [batch EXCEPT ![d] = Tail(batch[d])]
    BY DEF NextMessage
  <1> QED  BY <1>1, <1>2, OthersStay

-----------------------------------------------------------------------------
(* One step of the work on a message.                                      *)
LEMMA HandleInv ==
  ASSUME IInv, NEW d \in Dispatchers, NEW m \in Messages, Handle(d, m)
  PROVE  IInv'
  <1> USE DEF IInv
  <1>1. CASE Enqueue(d, m)
    <2>1. Head(batch[d]) = m /\ m \in queued' /\ queued \subseteq queued'
      BY <1>1 DEF Enqueue, Sends
    <2>2. pc' = [pc EXCEPT ![d] = "mark"] /\ batch' = batch /\ state' = state
      BY <1>1 DEF Enqueue, rows
    <2>3. pc' \in [Dispatchers -> Steps]  BY <2>2 DEF Shape, Steps
    <2>4. ASSUME NEW e \in Dispatchers, pc'[e] = "mark"
          PROVE  (pc[e] = "mark" /\ batch'[e] = batch[e]) \/ Head(batch'[e]) \in queued'
      BY <2>1, <2>2, <2>4 DEF Shape
    <2> QED  BY <2>1, <2>2, <2>3, <2>4, StepKeeps DEF Shape
  <1>2. CASE EnqueueFails(d, m)
    <2>1. pc' = [pc EXCEPT ![d] = "release"] /\ batch' = batch /\ state' = state
            /\ queued' = queued
      BY <1>2 DEF EnqueueFails, rows
    <2>2. pc' \in [Dispatchers -> Steps]  BY <2>1 DEF Shape, Steps
    <2>3. \A e \in Dispatchers : pc'[e] = "mark" => pc[e] = "mark" /\ batch'[e] = batch[e]
      BY <2>1 DEF Shape
    <2> QED  BY <2>1, <2>2, <2>3, StepKeeps DEF Shape
  <1>3. CASE Mark(d, m)
    <2>1. m \in queued  BY <1>3 DEF Mark, SentBeforeMarked
    <2>2. state' = state \/ state' = [state EXCEPT ![m] = "dispatched"]
      BY <1>3 DEF Mark, rows
    <2>3. queued' = queued /\ NextMessage(d, {})  BY <1>3 DEF Mark
    <2>4. state' \in [Messages -> RowStates]  BY <2>2 DEF Shape, RowStates
    <2>5. \A k \in Messages : state'[k] = "dispatched" => state[k] = "dispatched" \/ k \in queued
      BY <2>1, <2>2 DEF Shape
    <2> QED  BY <2>3, <2>4, <2>5, NextMessageMoves, StepKeeps
  <1>4. CASE Release(d, m)
    <2>1. state' = state \/ state' = [state EXCEPT ![m] = "pending"]
      BY <1>4 DEF Release, rows
    <2>2. queued' = queued /\ \E retried : NextMessage(d, retried)  BY <1>4 DEF Release
    <2>3. state' \in [Messages -> RowStates]  BY <2>1 DEF Shape, RowStates
    <2>4. \A k \in Messages : state'[k] = "dispatched" => state[k] = "dispatched"
      BY <2>1 DEF Shape
    <2> QED  BY <2>2, <2>3, <2>4, NextMessageMoves, StepKeeps
  <1> QED  BY <1>1, <1>2, <1>3, <1>4 DEF Handle

(* The claim and the end of a round.                                       *)
LEMMA RoundInv ==
  ASSUME IInv, NEW d \in Dispatchers,
         ClaimSelect(d) \/ ClaimUpdate(d) \/ Abandon(d) \/ ReleaseFails(d)
  PROVE  IInv'
  <1> USE DEF IInv
  <1>1. CASE ClaimSelect(d)
    <2>1. /\ pc' = [pc EXCEPT ![d] = "claim"] /\ state' = state /\ queued' = queued
          /\ batch' = [batch EXCEPT ![d] = Candidates(Batch[d])]
      BY <1>1 DEF ClaimSelect, rows
    <2> QED  BY <2>1, OthersStay, StepKeeps DEF Shape, Steps
  <1>2. CASE ClaimUpdate(d)
    <2> DEFINE s == IF Claimable(d) = {} THEN "idle" ELSE "send"
    <2>1. /\ pc' = [pc EXCEPT ![d] = s] /\ queued' = queued
          /\ batch' = [batch EXCEPT ![d] = InLine(Claimable(d))]
      BY <1>2 DEF ClaimUpdate
    <2>2. state' = [m \in Messages |-> IF m \in Claimable(d) THEN "leased" ELSE state[m]]
      BY <1>2 DEF ClaimUpdate
    <2>3. s \in Steps \ {"mark"}  BY DEF Steps
    <2>4. state' \in [Messages -> RowStates]  BY <2>2 DEF Shape, RowStates
    <2>5. \A m \in Messages : state'[m] = "dispatched" => state[m] = "dispatched"
      BY <2>2
    <2> HIDE DEF s
    <2> QED  BY <2>1, <2>3, <2>4, <2>5, OthersStay, StepKeeps
  <1>3. CASE Abandon(d)
    <2>1. /\ pc' = [pc EXCEPT ![d] = "idle"] /\ state' = state /\ queued' = queued
          /\ batch' = [batch EXCEPT ![d] = <<>>]
      BY <1>3 DEF Abandon, rows
    <2> QED  BY <2>1, OthersStay, StepKeeps DEF Shape, Steps
  <1>4. CASE ReleaseFails(d)
    <2>1. state' = state /\ queued' = queued /\ NextMessage(d, {})
      BY <1>4 DEF ReleaseFails, rows
    <2> QED  BY <2>1, NextMessageMoves, StepKeeps DEF Shape
  <1> QED  BY <1>1, <1>2, <1>3, <1>4

(* The life of a service.                                                  *)
LEMMA LifecycleInv ==
  ASSUME IInv, NEW d \in Dispatchers, Lifecycle(d)
  PROVE  IInv'
  <1> USE DEF IInv
  <1>1. CASE Stop(d)
    BY <1>1, StepKeeps DEF Stop, rows, Shape
  <1>2. CASE Exit(d) \/ Start(d)
    <2>1. PICK s \in {"down", "idle"} : pc' = [pc EXCEPT ![d] = s]
      BY <1>2 DEF Exit, Start
    <2>2. batch' = batch /\ state' = state /\ queued' = queued
      BY <1>2 DEF Exit, Start, rows
    <2>3. pc' \in [Dispatchers -> Steps]  BY <2>1 DEF Shape, Steps
    <2>4. \A e \in Dispatchers : pc'[e] = "mark" => pc[e] = "mark"  BY <2>1 DEF Shape
    <2> QED  BY <2>2, <2>3, <2>4, StepKeeps DEF Shape
  <1>3. CASE Crash(d)
    <2>1. /\ pc' = [pc EXCEPT ![d] = "down"] /\ state' = state /\ queued' = queued
          /\ batch' = [batch EXCEPT ![d] = <<>>]
      BY <1>3 DEF Crash, rows
    <2> QED  BY <2>1, OthersStay, StepKeeps DEF Shape, Steps
  <1> QED  BY <1>1, <1>2, <1>3 DEF Lifecycle

(* Announcements and the clock.                                            *)
LEMMA ClockInv ==
  ASSUME IInv, Tick \/ \E m \in Messages : Announce(m) \/ Expire(m)
  PROVE  IInv'
  <1> USE DEF IInv
  <1>1. CASE Tick
    BY <1>1, StepKeeps DEF Tick, Shape
  <1>2. ASSUME NEW m \in Messages, Announce(m) PROVE IInv'
    <2>1. state' = [state EXCEPT ![m] = "pending"]  BY <1>2 DEF Announce
    <2>2. state' \in [Messages -> RowStates]  BY <2>1 DEF Shape, RowStates
    <2>3. \A k \in Messages : state'[k] = "dispatched" => state[k] = "dispatched"
      BY <2>1 DEF Shape
    <2> QED  BY <1>2, <2>2, <2>3, StepKeeps DEF Announce, Shape
  <1>3. ASSUME NEW m \in Messages, Expire(m) PROVE IInv'
    BY <1>3, StepKeeps DEF Expire, Shape
  <1> QED  BY <1>1, <1>2, <1>3

LEMMA NextInv == IInv /\ [Next]_vars => IInv'
  <1> SUFFICES ASSUME IInv, [Next]_vars PROVE IInv'  OBVIOUS
  <1>1. CASE UNCHANGED vars
    BY <1>1 DEF vars, IInv, Shape, SentBeforeMarked, DispatchedIsQueued
  <1>2. ASSUME NEW d \in Dispatchers, Dispatch(d) PROVE IInv'
    BY <1>2, HandleInv, RoundInv DEF Dispatch
  <1>3. ASSUME NEW d \in Dispatchers, Lifecycle(d) PROVE IInv'
    BY <1>3, LifecycleInv
  <1>4. CASE Tick \/ \E m \in Messages : Announce(m) \/ Expire(m)
    BY <1>4, ClockInv
  <1> QED  BY <1>1, <1>2, <1>3, <1>4 DEF Next

-----------------------------------------------------------------------------
(* The inductive invariant holds in every reachable state.                 *)
THEOREM Inductive == Spec => []IInv
  BY InitInv, NextInv, PTL DEF Spec

(* However many dispatchers send a message, fail to, or die on the way, a   *)
(* row says dispatched only when the queue has its message (dispatch_once). *)
THEOREM DispatchedRowsAreQueued == Spec => []DispatchedIsQueued
  <1>1. IInv => DispatchedIsQueued  BY DEF IInv
  <1> QED  BY <1>1, Inductive, PTL

(* No claim, mark or release writes a dispatched row again: each asks for   *)
(* the state it may start from (claim_available_messages, mark_dispatched,  *)
(* release_for_retry).                                                     *)
THEOREM DispatchedRowsStay == Spec => DispatchedStays
  <1> DEFINE Kept == \A m \in Messages : state[m] = "dispatched" => state'[m] = "dispatched"
  <1>1. ASSUME IInv, [Next]_vars PROVE Kept
    <2> USE <1>1 DEF IInv
    <2>1. CASE state' = state
      BY <2>1
    <2>2. ASSUME NEW m \in Messages, Announce(m) PROVE Kept
      BY <2>2 DEF Announce, Shape
    <2>3. ASSUME NEW d \in Dispatchers, ClaimUpdate(d) PROVE Kept
      <3>1. \A m \in Claimable(d) : state[m] # "dispatched"  BY DEF Claimable, Eligible
      <3>2. state' = [m \in Messages |-> IF m \in Claimable(d) THEN "leased" ELSE state[m]]
        BY <2>3 DEF ClaimUpdate
      <3> QED  BY <3>1, <3>2
    <2>4. ASSUME NEW d \in Dispatchers, NEW m \in Messages, Mark(d, m) PROVE Kept
      BY <2>4 DEF Mark, rows, Shape
    <2>5. ASSUME NEW d \in Dispatchers, NEW m \in Messages, Release(d, m) PROVE Kept
      <3>1. CASE CanRelease(d, m)
        <4>1. state[m] = "leased"  BY <3>1 DEF CanRelease, Owns
        <4>2. state' = [state EXCEPT ![m] = "pending"]  BY <2>5, <3>1 DEF Release
        <4> QED  BY <4>1, <4>2 DEF Shape
      <3>2. CASE ~CanRelease(d, m)
        BY <2>5, <3>2 DEF Release, rows
      <3> QED  BY <3>1, <3>2
    <2>6. ASSUME NEW d \in Dispatchers,
                 ClaimSelect(d) \/ Abandon(d) \/ ReleaseFails(d) \/ Lifecycle(d)
          PROVE  state' = state
      BY <2>6 DEF ClaimSelect, Abandon, ReleaseFails, Lifecycle, Stop, Exit, Crash, Start, rows
    <2>7. ASSUME NEW d \in Dispatchers, NEW m \in Messages, Enqueue(d, m) \/ EnqueueFails(d, m)
          PROVE  state' = state
      BY <2>7 DEF Enqueue, EnqueueFails, rows
    <2>8. ASSUME Tick \/ (\E m \in Messages : Expire(m)) \/ UNCHANGED vars
          PROVE  state' = state
      BY <2>8 DEF Tick, Expire, vars
    <2> QED  BY <2>1, <2>2, <2>3, <2>4, <2>5, <2>6, <2>7, <2>8 DEF Next, Dispatch, Handle
  <1>2. Kept => [Kept]_vars  OBVIOUS
  <1> QED  BY <1>1, Inductive, PTL DEF Spec, DispatchedStays
-----------------------------------------------------------------------------
OwnerShape == owner \in [Messages -> Dispatchers \cup {NoOwner}]

(* The steps on a row that give it another owner, or none.                 *)
LEMMA OwnerWritten ==
  ASSUME OwnerShape, [Next]_vars
  PROVE  \/ owner' = owner
         \/ \E d \in Dispatchers : ClaimUpdate(d)
         \/ \E d \in Dispatchers, m \in Messages :
              /\ Mark(d, m) \/ Release(d, m)
              /\ Owns(d, m)
              /\ owner' = [owner EXCEPT ![m] = NoOwner]
  <1>1. CASE Tick \/ (\E m \in Messages : Announce(m) \/ Expire(m)) \/ UNCHANGED vars
    BY <1>1 DEF Tick, Announce, Expire, vars
  <1>2. ASSUME NEW d \in Dispatchers,
               ClaimSelect(d) \/ Abandon(d) \/ ReleaseFails(d) \/ Lifecycle(d)
        PROVE  owner' = owner
    BY <1>2 DEF ClaimSelect, Abandon, ReleaseFails, Lifecycle, Stop, Exit, Crash, Start, rows
  <1>3. ASSUME NEW d \in Dispatchers, NEW m \in Messages, Enqueue(d, m) \/ EnqueueFails(d, m)
        PROVE  owner' = owner
    BY <1>3 DEF Enqueue, EnqueueFails, rows
  <1>4. ASSUME NEW d \in Dispatchers, NEW m \in Messages, Mark(d, m)
        PROVE  owner' = owner \/ (Owns(d, m) /\ owner' = [owner EXCEPT ![m] = NoOwner])
    BY <1>4 DEF Mark, rows
  <1>5. ASSUME NEW d \in Dispatchers, NEW m \in Messages, Release(d, m)
        PROVE  owner' = owner \/ (Owns(d, m) /\ owner' = [owner EXCEPT ![m] = NoOwner])
    BY <1>5 DEF Release, CanRelease, rows
  <1> QED  BY <1>1, <1>2, <1>3, <1>4, <1>5 DEF Next, Dispatch, Handle

LEMMA OwnersTyped == Spec => []OwnerShape
  <1>1. Init => OwnerShape  BY DEF Init, OwnerShape
  <1>2. OwnerShape /\ [Next]_vars => OwnerShape'
    <2> SUFFICES ASSUME OwnerShape, [Next]_vars PROVE OwnerShape'  OBVIOUS
    <2>1. CASE owner' = owner
      BY <2>1 DEF OwnerShape
    <2>2. ASSUME NEW d \in Dispatchers, ClaimUpdate(d) PROVE OwnerShape'
      BY <2>2 DEF ClaimUpdate, OwnerShape
    <2>3. ASSUME NEW m \in Messages, owner' = [owner EXCEPT ![m] = NoOwner] PROVE OwnerShape'
      BY <2>3 DEF OwnerShape
    <2> QED  BY <2>1, <2>2, <2>3, OwnerWritten
  <1> QED  BY <1>1, <1>2, PTL DEF Spec

(* A lease in force is ended by its holder, at the message it is working    *)
(* on, and by nobody else: the UPDATE of a claim asks for eligibility again *)
(* and those of an answer for the owner.                                    *)
THEOREM LeasesStand == Spec => LeaseInForceStands
  <1> DEFINE Held(m) == state[m] = "leased" /\ m \notin expired /\ owner'[m] # owner[m]
             Ended(m) == /\ state'[m] # "leased"
                         /\ pc[owner[m]] \in {"mark", "release"} /\ Head(batch[owner[m]]) = m
             Stands == \A m \in Messages : Held(m) => Ended(m)
  <1>1. ASSUME IInv, OwnerShape, [Next]_vars PROVE Stands
    <2> SUFFICES ASSUME NEW m \in Messages, Held(m) PROVE Ended(m)  OBVIOUS
    <2>1. ASSUME NEW d \in Dispatchers, ClaimUpdate(d) PROVE FALSE
      <3>1. m \notin Claimable(d)  BY DEF Claimable, Eligible
      <3> QED  BY <2>1, <3>1 DEF ClaimUpdate
    <2>2. PICK d \in Dispatchers, k \in Messages :
            /\ Mark(d, k) \/ Release(d, k)
            /\ Owns(d, k)
            /\ owner' = [owner EXCEPT ![k] = NoOwner]
      BY <1>1, <2>1, OwnerWritten
    <2>3. k = m  BY <1>1, <2>2 DEF OwnerShape
    <2>4. owner[m] = d  BY <2>2, <2>3 DEF Owns
    <2>5. CASE Mark(d, m)
      <3>1. pc[d] = "mark" /\ Head(batch[d]) = m  BY <2>5 DEF Mark
      <3>2. state' = [state EXCEPT ![m] = "dispatched"]
        BY <2>2, <2>3, <2>5 DEF Mark
      <3> QED  BY <1>1, <2>4, <3>1, <3>2 DEF IInv, Shape
    <2>6. CASE Release(d, m)
      <3>1. pc[d] = "release" /\ Head(batch[d]) = m  BY <2>6 DEF Release
      <3>2. state' = [state EXCEPT ![m] = "pending"]
        BY <2>2, <2>3, <2>6 DEF Release, CanRelease
      <3> QED  BY <1>1, <2>4, <3>1, <3>2 DEF IInv, Shape
    <2> QED  BY <2>2, <2>3, <2>5, <2>6
  <1>2. Stands => [Stands]_vars  OBVIOUS
  <1> QED  BY <1>1, Inductive, OwnersTyped, PTL DEF Spec, LeaseInForceStands

-----------------------------------------------------------------------------
(* Sequences.                                                              *)
Less == {ss \in Nat \X Nat : ss[1] < ss[2]}

(* A set of natural numbers that is not empty has a least element.          *)
LEMMA LeastNumber ==
  ASSUME NEW S \in SUBSET Nat, S # {}
  PROVE  \E n \in S : \A m \in S : n <= m
  <1>1. IsWellFoundedOn(Less, Nat)  BY NatLessThanWellFounded DEF OpToRel, Less
  <1>2. PICK n \in S : \A m \in S : ~(<<m, n>> \in Less)  BY <1>1, WFMin
  <1>3. \A m \in S : n <= m
    <2> TAKE m \in S
    <2>1. <<m, n>> \notin Less /\ m \in Nat /\ n \in Nat  BY <1>2
    <2>2. ~(m < n)  BY <2>1 DEF Less
    <2> QED  BY <2>1, <2>2
  <1> QED  BY <1>3

(* The part of a sequence between two places.                              *)
LEMMA SubSeqIs ==
  ASSUME NEW S, NEW s \in Seq(S), NEW m \in Nat \ {0}, NEW n \in Nat, n <= Len(s)
  PROVE  /\ SubSeq(s, m, n) \in Seq(S)
         /\ Len(SubSeq(s, m, n)) = IF m <= n THEN n - m + 1 ELSE 0
         /\ \A i \in 1 .. n - m + 1 : SubSeq(s, m, n)[i] = s[m + i - 1]
  <1>1. \A i \in m .. n : s[i] \in S  BY ElementOfSeq, LenProperties
  <1> QED  BY <1>1, SubSeqProperties

(* r is a sequence of m elements, a, followed by one of n, b.               *)
Joined(S, r, a, m, b, n) ==
  /\ r \in Seq(S) /\ Len(r) = m + n
  /\ \A j \in 1 .. m + n : r[j] = IF j <= m THEN a[j] ELSE b[j - m]

(* Two sequences of known lengths in a row.                                *)
LEMMA ConcatIs ==
  ASSUME NEW S, NEW a, NEW m, NEW b, NEW n,
         a \in Seq(S), b \in Seq(S), m \in Nat, n \in Nat, Len(a) = m, Len(b) = n
  PROVE  Joined(S, a \o b, a, m, b, n)
  <1>1. /\ a \o b \in Seq(S) /\ Len(a \o b) = Len(a) + Len(b)
        /\ \A j \in 1 .. Len(a) + Len(b) :
             (a \o b)[j] = IF j <= Len(a) THEN a[j] ELSE b[j - Len(a)]
    BY ConcatProperties
  <1> DEFINE ab == a \o b
  <1>2. /\ ab \in Seq(S) /\ Len(ab) = Len(a) + Len(b)
        /\ \A j \in 1 .. Len(a) + Len(b) : ab[j] = IF j <= Len(a) THEN a[j] ELSE b[j - Len(a)]
    BY <1>1
  <1> HIDE DEF ab
  <1>3. Joined(S, ab, a, m, b, n)
    BY <1>2 DEF Joined
  <1> QED  BY <1>3 DEF ab

(* A sequence without the element at one place.                            *)
LEMMA RemoveAtIs ==
  ASSUME NEW S, NEW s \in Seq(S), NEW i \in 1 .. Len(s)
  PROVE  /\ RemoveAt(s, i) \in Seq(S) /\ Len(RemoveAt(s, i)) = Len(s) - 1
         /\ \A j \in 1 .. Len(s) - 1 :
              RemoveAt(s, i)[j] = IF j < i THEN s[j] ELSE s[j + 1]
  <1> DEFINE a == SubSeq(s, 1, i - 1)
             b == SubSeq(s, i + 1, Len(s))
             r == a \o b
  <1>0. Len(s) \in Nat  BY LenProperties
  <1>1. a \in Seq(S) /\ Len(a) = i - 1 /\ \A j \in 1 .. i - 1 : a[j] = s[j]
    <2>1. i - 1 \in Nat /\ i - 1 <= Len(s)  BY <1>0
    <2>2. /\ a \in Seq(S) /\ Len(a) = IF 1 <= i - 1 THEN (i - 1) - 1 + 1 ELSE 0
          /\ \A j \in 1 .. (i - 1) - 1 + 1 : a[j] = s[1 + j - 1]
      BY <2>1, SubSeqIs
    <2> HIDE DEF a
    <2>3. \A j \in 1 .. i - 1 : 1 + j - 1 = j  OBVIOUS
    <2> QED  BY <2>1, <2>2, <2>3
  <1>2. b \in Seq(S) /\ Len(b) = Len(s) - i /\ \A j \in 1 .. Len(s) - i : b[j] = s[i + j]
    <2>1. i + 1 \in Nat \ {0}  OBVIOUS
    <2>2. /\ b \in Seq(S) /\ Len(b) = IF i + 1 <= Len(s) THEN Len(s) - (i + 1) + 1 ELSE 0
          /\ \A j \in 1 .. Len(s) - (i + 1) + 1 : b[j] = s[i + 1 + j - 1]
      BY <1>0, <2>1, SubSeqIs
    <2> HIDE DEF b
    <2>3. \A j \in 1 .. Len(s) - i : i + 1 + j - 1 = i + j  BY <1>0
    <2> QED  BY <1>0, <2>2, <2>3
  <1>3. RemoveAt(s, i) = r  BY DEF RemoveAt
  <1> HIDE DEF a, b
  <1>4. /\ r \in Seq(S) /\ Len(r) = (i - 1) + (Len(s) - i)
        /\ \A j \in 1 .. (i - 1) + (Len(s) - i) : r[j] = IF j <= i - 1 THEN a[j] ELSE b[j - (i - 1)]
    <2> DEFINE m == i - 1
               n == Len(s) - i
    <2>1. m \in Nat /\ n \in Nat /\ Len(a) = m /\ Len(b) = n /\ a \in Seq(S) /\ b \in Seq(S)
      BY <1>0, <1>1, <1>2
    <2> HIDE DEF m, n
    <2>2. Joined(S, a \o b, a, m, b, n)  BY <2>1, ConcatIs
    <2>3. Joined(S, r, a, m, b, n)  BY <2>2
    <2> HIDE DEF r
    <2> QED  BY <2>3 DEF m, n, Joined
  <1> HIDE DEF r
  <1>5. (i - 1) + (Len(s) - i) = Len(s) - 1  BY <1>0
  <1>6. ASSUME NEW j \in 1 .. Len(s) - 1
        PROVE  r[j] = IF j < i THEN s[j] ELSE s[j + 1]
    <2>0. r[j] = IF j <= i - 1 THEN a[j] ELSE b[j - (i - 1)]  BY <1>4, <1>5
    <2>1. CASE j < i  BY <1>0, <1>1, <2>0, <2>1
    <2>2. CASE ~(j < i)
      <3>1. j - (i - 1) \in 1 .. Len(s) - i /\ i + (j - (i - 1)) = j + 1  BY <1>0, <2>2
      <3>2. b[j - (i - 1)] = s[i + (j - (i - 1))]  BY <1>2, <3>1
      <3>3. ~(j <= i - 1)  BY <1>0, <2>2
      <3> QED  BY <2>0, <2>2, <3>1, <3>2, <3>3
    <2> QED  BY <2>1, <2>2
  <1> QED  BY <1>3, <1>4, <1>5, <1>6

(* r is the sequence s with e put in at place i.                            *)
Inserted(S, r, s, i, e) ==
  /\ r \in Seq(S) /\ Len(r) = Len(s) + 1
  /\ \A j \in 1 .. Len(s) + 1 :
       r[j] = IF j < i THEN s[j] ELSE IF j = i THEN e ELSE s[j - 1]

(* A sequence with one more element, at one place.                         *)
LEMMA InsertAtIs ==
  ASSUME NEW S, NEW s, NEW i, NEW e, s \in Seq(S), i \in 1 .. Len(s) + 1, e \in S
  PROVE  Inserted(S, InsertAt(s, i, e), s, i, e)
  <1> DEFINE a == SubSeq(s, 1, i - 1)
             b == SubSeq(s, i, Len(s))
             c == <<e>>
             ac == a \o c
             r == ac \o b
  <1>0. Len(s) \in Nat  BY LenProperties
  <1>1. a \in Seq(S) /\ Len(a) = i - 1 /\ \A j \in 1 .. i - 1 : a[j] = s[j]
    <2>1. i - 1 \in Nat /\ i - 1 <= Len(s)  BY <1>0
    <2>2. /\ a \in Seq(S) /\ Len(a) = IF 1 <= i - 1 THEN (i - 1) - 1 + 1 ELSE 0
          /\ \A j \in 1 .. (i - 1) - 1 + 1 : a[j] = s[1 + j - 1]
      BY <2>1, SubSeqIs
    <2> HIDE DEF a
    <2>3. \A j \in 1 .. i - 1 : 1 + j - 1 = j  OBVIOUS
    <2> QED  BY <2>1, <2>2, <2>3
  <1>2. /\ b \in Seq(S) /\ Len(b) = Len(s) - i + 1
        /\ \A j \in 1 .. Len(s) - i + 1 : b[j] = s[i + j - 1]
    <2>1. i \in Nat \ {0}  BY <1>0
    <2>2. /\ b \in Seq(S) /\ Len(b) = IF i <= Len(s) THEN Len(s) - i + 1 ELSE 0
          /\ \A j \in 1 .. Len(s) - i + 1 : b[j] = s[i + j - 1]
      BY <1>0, <2>1, SubSeqIs
    <2> HIDE DEF b
    <2> QED  BY <1>0, <2>2
  <1>3. InsertAt(s, i, e) = r  BY DEF InsertAt
  <1>4. c \in Seq(S) /\ Len(c) = 1 /\ c[1] = e  OBVIOUS
  <1>a. i - 1 \in Nat /\ i \in Nat /\ Len(s) - i + 1 \in Nat  BY <1>0
  <1> HIDE DEF a, b, c
  <1>5. /\ ac \in Seq(S) /\ Len(ac) = (i - 1) + 1
        /\ \A j \in 1 .. (i - 1) + 1 : ac[j] = IF j <= i - 1 THEN a[j] ELSE c[j - (i - 1)]
    <2> DEFINE m == i - 1
    <2>1. m \in Nat /\ Len(a) = m /\ a \in Seq(S)  BY <1>1, <1>a
    <2> HIDE DEF m
    <2>2. Joined(S, a \o c, a, m, c, 1)  BY <1>4, <2>1, ConcatIs
    <2>3. Joined(S, ac, a, m, c, 1)  BY <2>2
    <2> HIDE DEF ac
    <2> QED  BY <2>3 DEF m, Joined
  <1> HIDE DEF ac
  <1>6. /\ Len(ac) = i
        /\ \A j \in 1 .. i : ac[j] = IF j < i THEN s[j] ELSE e
    <2>0. (i - 1) + 1 = i /\ i - (i - 1) = 1  BY <1>a
    <2>1. ASSUME NEW j \in 1 .. i PROVE ac[j] = IF j < i THEN s[j] ELSE e
      <3>0. ac[j] = IF j <= i - 1 THEN a[j] ELSE c[j - (i - 1)]  BY <1>5, <2>0
      <3>1. CASE j < i
        <4>1. j \in 1 .. i - 1 /\ j <= i - 1  BY <1>a, <3>1
        <4> QED  BY <1>1, <3>0, <3>1, <4>1
      <3>2. CASE j = i
        <4>1. ~(i <= i - 1)  BY <1>a
        <4> QED  BY <1>4, <2>0, <3>0, <3>2, <4>1
      <3>3. j < i \/ j = i  BY <1>a
      <3> QED  BY <3>1, <3>2, <3>3
    <2> QED  BY <1>5, <2>0, <2>1
  <1>7. /\ r \in Seq(S) /\ Len(r) = i + (Len(s) - i + 1)
        /\ \A j \in 1 .. i + (Len(s) - i + 1) : r[j] = IF j <= i THEN ac[j] ELSE b[j - i]
    <2> DEFINE n == Len(s) - i + 1
    <2>1. n \in Nat /\ Len(b) = n /\ b \in Seq(S) /\ Len(ac) = i /\ ac \in Seq(S) /\ i \in Nat
      BY <1>2, <1>5, <1>6, <1>a
    <2> HIDE DEF n
    <2>2. Joined(S, ac \o b, ac, i, b, n)  BY <2>1, ConcatIs
    <2>3. Joined(S, r, ac, i, b, n)  BY <2>2
    <2> HIDE DEF r
    <2> QED  BY <2>3 DEF n, Joined
  <1> HIDE DEF r
  <1>8. i + (Len(s) - i + 1) = Len(s) + 1  BY <1>0
  <1>9. ASSUME NEW j \in 1 .. Len(s) + 1
        PROVE  r[j] = IF j < i THEN s[j] ELSE IF j = i THEN e ELSE s[j - 1]
    <2>0. r[j] = IF j <= i THEN ac[j] ELSE b[j - i]  BY <1>7, <1>8
    <2>1. CASE j <= i  BY <1>a, <1>6, <2>0, <2>1
    <2>2. CASE ~(j <= i)
      <3>1. j - i \in 1 .. Len(s) - i + 1 /\ i + (j - i) - 1 = j - 1  BY <1>0, <2>2
      <3>2. b[j - i] = s[i + (j - i) - 1]  BY <1>2, <3>1
      <3>3. ~(j < i) /\ j # i  BY <1>a, <2>2
      <3> QED  BY <2>0, <2>2, <3>1, <3>2, <3>3
    <2> QED  BY <2>1, <2>2
  <1> QED  BY <1>3, <1>7, <1>8, <1>9 DEF Inserted

-----------------------------------------------------------------------------
(* The rows of a set in the order of the line, by the number of places seen. *)
FirstOf(l, chosen, N, first) ==
  first = [n \in 0 .. N |->
             IF n = 0 THEN <<>>
             ELSE IF l[n] \in chosen THEN Append(first[n - 1], l[n]) ELSE first[n - 1]]

(* The recursion of InLine has a solution for every length.                *)
LEMMA FirstExists ==
  \A l, chosen : \A n \in Nat : \E g : FirstOf(l, chosen, n, g)
  <1> TAKE l, chosen
  <1> DEFINE Bad == {n \in Nat : ~ \E g : FirstOf(l, chosen, n, g)}
  <1>1. SUFFICES ASSUME Bad # {} PROVE FALSE  OBVIOUS
  <1>2. PICK n \in Bad : \A m \in Bad : n <= m  BY <1>1, LeastNumber
  <1>3. CASE n = 0
    <2> DEFINE g == [k \in 0 .. 0 |-> <<>>]
    <2>1. g = [k \in 0 .. 0 |->
             IF k = 0 THEN <<>>
             ELSE IF l[k] \in chosen THEN Append(g[k - 1], l[k]) ELSE g[k - 1]]
      OBVIOUS
    <2> QED  BY <1>2, <1>3, <2>1 DEF FirstOf
  <1>4. CASE n # 0
    <2>1. n - 1 \in Nat /\ n - 1 \notin Bad  BY <1>2, <1>4
    <2>2. PICK g : FirstOf(l, chosen, n - 1, g)  BY <2>1
    <2> DEFINE last == IF l[n] \in chosen THEN Append(g[n - 1], l[n]) ELSE g[n - 1]
               h == [k \in 0 .. n |-> IF k = n THEN last ELSE g[k]]
               r == [k \in 0 .. n |->
                       IF k = 0 THEN <<>>
                       ELSE IF l[k] \in chosen THEN Append(h[k - 1], l[k]) ELSE h[k - 1]]
    <2>3. ASSUME NEW k \in 0 .. n PROVE h[k] = r[k]
      <3>1. CASE k = n
        <4>1. n - 1 \in 0 .. n /\ n - 1 # n  BY <1>4, <2>1
        <4>2. h[n - 1] = g[n - 1]  BY <4>1
        <4>3. h[n] = last  BY <1>4, <2>1
        <4>4. r[n] = IF l[n] \in chosen THEN Append(h[n - 1], l[n]) ELSE h[n - 1]
          <5> HIDE DEF h
          <5> QED  BY <1>4, <2>1
        <4> HIDE DEF h, r
        <4> QED  BY <3>1, <4>2, <4>3, <4>4
      <3>2. CASE k # n /\ k = 0
        <4>1. h[0] = g[0]  BY <1>4, <2>1, <3>2
        <4>2. r[0] = <<>>  BY <1>4, <2>1
        <4>3. g[0] = <<>>  BY <2>1, <2>2 DEF FirstOf
        <4> HIDE DEF h, r
        <4> QED  BY <3>2, <4>1, <4>2, <4>3
      <3>3. CASE k # n /\ k # 0
        <4>1. k \in 0 .. n - 1 /\ k - 1 \in 0 .. n /\ k - 1 # n  BY <2>1, <3>3
        <4>2. h[k] = g[k] /\ h[k - 1] = g[k - 1]  BY <3>3, <4>1
        <4>3. g[k] = IF l[k] \in chosen THEN Append(g[k - 1], l[k]) ELSE g[k - 1]
          BY <2>2, <3>3, <4>1 DEF FirstOf
        <4>4. r[k] = IF l[k] \in chosen THEN Append(h[k - 1], l[k]) ELSE h[k - 1]
          <5> HIDE DEF h
          <5> QED  BY <3>3
        <4> HIDE DEF h, r
        <4> QED  BY <4>2, <4>3, <4>4
      <3> QED  BY <3>1, <3>2, <3>3
    <2>4. h = [k \in 0 .. n |-> h[k]]  OBVIOUS
    <2>5. r = [k \in 0 .. n |-> r[k]]
      <3> HIDE DEF h
      <3> QED  OBVIOUS
    <2>6. h = r
      <3> HIDE DEF h, r
      <3> QED  BY <2>3, <2>4, <2>5
    <2>7. FirstOf(l, chosen, n, h)
      <3> HIDE DEF h
      <3> QED  BY <2>6 DEF FirstOf
    <2> QED  BY <1>2, <2>7
  <1> QED  BY <1>3, <1>4

(* What InLine returns: elements of the line that were chosen, and none     *)
(* only when none was.                                                     *)
LEMMA InLineIs ==
  ASSUME NEW chosen, line \in Seq(Messages)
  PROVE  /\ InLine(chosen) \in Seq(Messages)
         /\ InLine(chosen) = <<>> <=> \A i \in 1 .. Len(line) : line[i] \notin chosen
  <1> DEFINE N == Len(line)
             f == CHOOSE g : FirstOf(line, chosen, N, g)
             Right(n) == /\ f[n] \in Seq(Messages)
                         /\ f[n] = <<>> <=> \A i \in 1 .. n : line[i] \notin chosen
             Bad == {n \in 0 .. N : ~ Right(n)}
  <1>0. N \in Nat  BY LenProperties
  <1>1. FirstOf(line, chosen, N, f)  BY <1>0, FirstExists
  <1>2. InLine(chosen) = f[N]  BY DEF InLine, FirstOf
  <1> HIDE DEF f
  <1>3. \A n \in 0 .. N : f[n] = IF n = 0 THEN <<>>
          ELSE IF line[n] \in chosen THEN Append(f[n - 1], line[n]) ELSE f[n - 1]
    BY <1>1 DEF FirstOf
  <1>4. Bad = {}
    <2> SUFFICES ASSUME Bad # {} PROVE FALSE  OBVIOUS
    <2>1. Bad \in SUBSET Nat  BY <1>0
    <2>2. PICK n \in Bad : \A m \in Bad : n <= m
      <3> HIDE DEF Bad
      <3> QED  BY <2>1, LeastNumber
    <2>3. n # 0
      <3>1. f[0] = <<>>  BY <1>0, <1>3
      <3>2. <<>> \in Seq(Messages)  BY EmptySeq
      <3>3. Right(0)  BY <3>1, <3>2
      <3> HIDE DEF Right
      <3> QED  BY <3>3
    <2>4. n \in 1 .. N /\ n - 1 \in 0 .. N /\ n - 1 \notin Bad
      <3>1. n \in 0 .. N  OBVIOUS
      <3> HIDE DEF Bad
      <3> QED  BY <1>0, <2>2, <2>3, <3>1
    <2>5. Right(n - 1)  BY <2>4
    <2>6. line[n] \in Messages  BY <2>4, ElementOfSeq
    <2>7. \A i \in 1 .. n : i \in 1 .. n - 1 \/ i = n  BY <1>0, <2>4
    <2>8. \A i \in 1 .. n - 1 : i \in 1 .. n  BY <1>0, <2>4
    <2>9. n \in 1 .. n  BY <2>4
    <2>10. CASE line[n] \in chosen
      <3>1. f[n] = Append(f[n - 1], line[n])  BY <1>3, <2>3, <2>10
      <3>2. Append(f[n - 1], line[n]) \in Seq(Messages) /\ Append(f[n - 1], line[n]) # <<>>
        BY <2>5, <2>6, AppendProperties
      <3> QED  BY <2>9, <2>10, <3>1, <3>2
    <2>11. CASE line[n] \notin chosen
      <3>1. f[n] = f[n - 1]  BY <1>3, <2>3, <2>11
      <3> QED  BY <2>5, <2>7, <2>8, <2>11, <3>1
    <2> QED  BY <2>10, <2>11
  <1>5. N \in 0 .. N  BY <1>0
  <1>6. Right(N)
    <2> HIDE DEF Right
    <2> QED  BY <1>4, <1>5
  <1> QED  BY <1>2, <1>6

-----------------------------------------------------------------------------
(* The rows that are not dispatched stand in the line l once each, and the  *)
(* leased ones among its first n.                                          *)
Placed(l, s, n) ==
  /\ l \in Seq(Messages) /\ n \in 0 .. Len(l)
  /\ \A i, j \in 1 .. Len(l) : l[i] = l[j] => i = j
  /\ \A i \in 1 .. Len(l) : s[l[i]] \in {"pending", "leased"}
  /\ \A m \in Messages : s[m] \in {"pending", "leased"} => \E i \in 1 .. Len(l) : l[i] = m
  /\ \A i \in 1 .. Len(l) : s[l[i]] = "leased" => i <= n

(* A row leaves the line, from a place that was due.                        *)
LEMMA RowLeaves ==
  ASSUME NEW l, NEW s \in [Messages -> RowStates], NEW n, Placed(l, s, n),
         NEW p \in 1 .. Len(l), p <= n, NEW w \in {"absent", "dispatched"}
  PROVE  Placed(RemoveAt(l, p), [s EXCEPT ![l[p]] = w], n - 1)
  <1> DEFINE r == RemoveAt(l, p)
             t == [s EXCEPT ![l[p]] = w]
             from(j) == IF j < p THEN j ELSE j + 1
  <1>0. /\ l \in Seq(Messages) /\ Len(l) \in Nat /\ n \in 0 .. Len(l) /\ p \in Nat
        /\ \A i \in 1 .. Len(l) : l[i] \in Messages
    <2>1. l \in Seq(Messages) /\ n \in 0 .. Len(l)  BY DEF Placed
    <2> QED  BY <2>1, LenProperties, ElementOfSeq
  <1>1. /\ r \in Seq(Messages) /\ Len(r) = Len(l) - 1
        /\ \A j \in 1 .. Len(l) - 1 : r[j] = IF j < p THEN l[j] ELSE l[j + 1]
    BY <1>0, RemoveAtIs
  <1> HIDE DEF r
  <1>2. \A j \in 1 .. Len(l) - 1 : from(j) \in 1 .. Len(l) /\ from(j) # p /\ r[j] = l[from(j)]
    BY <1>0, <1>1
  <1>3. \A j \in 1 .. Len(l) - 1 : l[from(j)] # l[p] /\ t[r[j]] = s[l[from(j)]]
    <2>1. \A j \in 1 .. Len(l) - 1 : l[from(j)] # l[p] /\ l[from(j)] \in Messages
      BY <1>0, <1>2 DEF Placed
    <2> HIDE DEF from
    <2> QED  BY <1>2, <2>1
  <1>4. n - 1 \in 0 .. Len(l) - 1  BY <1>0
  <1>5. \A i, j \in 1 .. Len(l) - 1 : r[i] = r[j] => i = j
    <2> SUFFICES ASSUME NEW i \in 1 .. Len(l) - 1, NEW j \in 1 .. Len(l) - 1, r[i] = r[j]
                 PROVE  i = j
      OBVIOUS
    <2>1. from(i) = from(j)
      <3> HIDE DEF from
      <3> QED  BY <1>2 DEF Placed
    <2> QED  BY <1>0, <2>1
  <1>6. \A j \in 1 .. Len(l) - 1 : t[r[j]] \in {"pending", "leased"}
    <2> HIDE DEF from, t
    <2> QED  BY <1>2, <1>3 DEF Placed
  <1>7. ASSUME NEW m \in Messages, t[m] \in {"pending", "leased"}
        PROVE  \E j \in 1 .. Len(l) - 1 : r[j] = m
    <2>1. m # l[p] /\ s[m] = t[m]  BY <1>7
    <2>2. PICK i \in 1 .. Len(l) : l[i] = m
      <3> HIDE DEF t
      <3> QED  BY <1>7, <2>1 DEF Placed
    <2>3. i # p  BY <2>1, <2>2
    <2>4. CASE i < p
      <3>1. i \in 1 .. Len(l) - 1  BY <1>0, <2>4
      <3> QED  BY <1>1, <2>2, <2>4, <3>1
    <2>5. CASE ~(i < p)
      <3>1. i - 1 \in 1 .. Len(l) - 1 /\ ~(i - 1 < p) /\ (i - 1) + 1 = i  BY <1>0, <2>3, <2>5
      <3>2. r[i - 1] = l[(i - 1) + 1]  BY <1>1, <3>1
      <3> QED  BY <2>2, <3>1, <3>2
    <2> QED  BY <2>4, <2>5
  <1>8. ASSUME NEW j \in 1 .. Len(l) - 1, t[r[j]] = "leased"
        PROVE  j <= n - 1
    <2>1. from(j) <= n
      <3> HIDE DEF from, t
      <3> QED  BY <1>2, <1>3, <1>8 DEF Placed
    <2>2. CASE j < p  BY <1>0, <2>2
    <2>3. CASE ~(j < p)  BY <1>0, <2>1, <2>3
    <2> QED  BY <2>2, <2>3
  <1> HIDE DEF t
  <1>9. Placed(r, t, n - 1)
    BY <1>1, <1>4, <1>5, <1>6, <1>7, <1>8 DEF Placed
  <1> QED  BY <1>9 DEF r, t

(* A row comes into the line; n moves on when it comes before the n-th, and *)
(* may when the row itself is due.                                         *)
LEMMA RowEnters ==
  ASSUME NEW l, NEW s \in [Messages -> RowStates], NEW n, Placed(l, s, n),
         NEW m \in Messages, s[m] \notin {"pending", "leased"},
         NEW p \in 1 .. Len(l) + 1, NEW k \in n .. Len(l) + 1, p <= n => k = n + 1
  PROVE  Placed(InsertAt(l, p, m), [s EXCEPT ![m] = "pending"], k)
  <1> DEFINE r == InsertAt(l, p, m)
             t == [s EXCEPT ![m] = "pending"]
             to(i) == IF i < p THEN i ELSE i + 1
             N == Len(l) + 1
  <1>0. /\ l \in Seq(Messages) /\ Len(l) \in Nat /\ n \in 0 .. Len(l) /\ p \in Nat /\ k \in Nat
        /\ \A i \in 1 .. Len(l) : l[i] \in Messages /\ l[i] # m
    <2>1. l \in Seq(Messages) /\ n \in 0 .. Len(l)  BY DEF Placed
    <2>2. Len(l) \in Nat /\ \A i \in 1 .. Len(l) : l[i] \in Messages
      BY <2>1, LenProperties, ElementOfSeq
    <2>3. \A i \in 1 .. Len(l) : l[i] # m  BY DEF Placed
    <2> QED  BY <2>1, <2>2, <2>3
  <1>1. /\ r \in Seq(Messages) /\ Len(r) = N
        /\ \A j \in 1 .. N : r[j] = IF j < p THEN l[j] ELSE IF j = p THEN m ELSE l[j - 1]
    <2>1. Inserted(Messages, InsertAt(l, p, m), l, p, m)  BY <1>0, InsertAtIs
    <2>2. Inserted(Messages, r, l, p, m)  BY <2>1
    <2> HIDE DEF r
    <2> QED  BY <2>2 DEF Inserted
  <1> HIDE DEF r
  <1>2. \A i \in 1 .. Len(l) : to(i) \in 1 .. N /\ to(i) # p /\ r[to(i)] = l[i]
    <2> SUFFICES ASSUME NEW i \in 1 .. Len(l)
                 PROVE  to(i) \in 1 .. N /\ to(i) # p /\ r[to(i)] = l[i]
      OBVIOUS
    <2>1. CASE i < p  BY <1>0, <1>1, <2>1
    <2>2. CASE ~(i < p)
      <3>1. i + 1 \in 1 .. N /\ ~(i + 1 < p) /\ i + 1 # p /\ (i + 1) - 1 = i  BY <1>0, <2>2
      <3>2. r[i + 1] = l[(i + 1) - 1]  BY <1>1, <3>1
      <3> QED  BY <2>2, <3>1, <3>2
    <2> QED  BY <2>1, <2>2
  <1>3. p \in 1 .. N /\ r[p] = m  BY <1>0, <1>1
  <1>4. \A j \in 1 .. N : j # p => \E i \in 1 .. Len(l) : j = to(i)
    <2> SUFFICES ASSUME NEW j \in 1 .. N, j # p PROVE \E i \in 1 .. Len(l) : j = to(i)  OBVIOUS
    <2>1. CASE j < p
      <3>1. j \in 1 .. Len(l) /\ to(j) = j  BY <1>0, <2>1
      <3> HIDE DEF to
      <3> QED  BY <3>1
    <2>2. CASE ~(j < p)
      <3>1. j - 1 \in 1 .. Len(l) /\ to(j - 1) = j  BY <1>0, <2>2
      <3> HIDE DEF to
      <3> QED  BY <3>1
    <2> QED  BY <2>1, <2>2
  <1>5. t[m] = "pending" /\ \A i \in 1 .. Len(l) : t[l[i]] = s[l[i]]  BY <1>0
  <1>6. k \in 0 .. N  BY <1>0
  <1>7. ASSUME NEW i \in 1 .. N, NEW j \in 1 .. N, r[i] = r[j] PROVE i = j
    <2>1. CASE i = p \/ j = p
      <3> HIDE DEF to
      <3> QED  BY <1>0, <1>2, <1>3, <1>4, <1>7, <2>1
    <2>2. CASE i # p /\ j # p
      <3> HIDE DEF to
      <3>1. PICK a \in 1 .. Len(l) : i = to(a)  BY <1>4, <2>2
      <3>2. PICK b \in 1 .. Len(l) : j = to(b)  BY <1>4, <2>2
      <3>3. l[a] = l[b]  BY <1>2, <1>7, <3>1, <3>2
      <3>4. a = b  BY <3>3 DEF Placed
      <3> QED  BY <3>1, <3>2, <3>4
    <2> QED  BY <2>1, <2>2
  <1>8. ASSUME NEW j \in 1 .. N PROVE t[r[j]] \in {"pending", "leased"}
    <2> HIDE DEF to, t
    <2>1. CASE j = p  BY <1>3, <1>5, <2>1
    <2>2. CASE j # p
      <3>1. PICK i \in 1 .. Len(l) : j = to(i)  BY <1>4, <2>2
      <3>2. s[l[i]] \in {"pending", "leased"}  BY DEF Placed
      <3> QED  BY <1>2, <1>5, <3>1, <3>2
    <2> QED  BY <2>1, <2>2
  <1>9. ASSUME NEW x \in Messages, t[x] \in {"pending", "leased"}
        PROVE  \E j \in 1 .. N : r[j] = x
    <2>1. CASE x = m  BY <1>3, <2>1
    <2>2. CASE x # m
      <3>1. s[x] \in {"pending", "leased"}  BY <1>9, <2>2
      <3>2. PICK i \in 1 .. Len(l) : l[i] = x  BY <3>1 DEF Placed
      <3> HIDE DEF to
      <3> QED  BY <1>2, <3>2
    <2> QED  BY <2>1, <2>2
  <1>10. ASSUME NEW j \in 1 .. N, t[r[j]] = "leased" PROVE j <= k
    <2>1. j # p
      <3> HIDE DEF t
      <3> QED  BY <1>3, <1>5, <1>10
    <2>2. PICK i \in 1 .. Len(l) : j = to(i)
      <3> HIDE DEF to
      <3> QED  BY <1>4, <2>1
    <2>3. i <= n
      <3>1. s[l[i]] = "leased"
        <4> HIDE DEF to, t
        <4> QED  BY <1>2, <1>5, <1>10, <2>2
      <3> QED  BY <3>1 DEF Placed
    <2>4. CASE i < p  BY <1>0, <2>2, <2>3, <2>4
    <2>5. CASE ~(i < p)  BY <1>0, <2>2, <2>3, <2>5
    <2> QED  BY <2>4, <2>5
  <1> HIDE DEF t
  <1>11. Placed(r, t, k)
    BY <1>1, <1>6, <1>7, <1>8, <1>9, <1>10 DEF Placed
  <1> QED  BY <1>11 DEF r, t

-----------------------------------------------------------------------------
(* The rows: an owner exactly where there is a lease, and leases that       *)
(* expired only where there is one.                                        *)
RowInv ==
  /\ state \in [Messages -> RowStates]
  /\ owner \in [Messages -> Dispatchers \cup {NoOwner}]
  /\ \A m \in Messages : (owner[m] # NoOwner) <=> (state[m] = "leased")
  /\ expired \subseteq {m \in Messages : state[m] = "leased"}

LineInv == Placed(line, state, due)

(* The dispatchers: one that has a batch in hand is at work on it.          *)
WorkInv ==
  /\ queued \subseteq Messages
  /\ pc \in [Dispatchers -> Steps]
  /\ batch \in [Dispatchers -> Seq(Messages)]
  /\ before \in [Dispatchers -> SUBSET Messages]
  /\ \A d \in Dispatchers : (batch[d] = <<>>) <=> (pc[d] \in {"down", "idle"})
  /\ stopping \subseteq {d \in Dispatchers : pc[d] # "down"}
  /\ downs \in 0 .. MaxDown

TypeInv == RowInv /\ LineInv /\ WorkInv

(* The initial states.                                                     *)
LEMMA TypeInit == Init => TypeInv
  <1> SUFFICES ASSUME Init PROVE TypeInv  OBVIOUS
  <1>1. RowInv  BY OwnerAssumption DEF Init, RowInv, RowStates
  <1>2. LineInv
    <2>1. line \in Seq(Messages) /\ Len(line) = 0  BY EmptySeq DEF Init
    <2> QED  BY <2>1 DEF Init, LineInv, Placed
  <1>3. WorkInv
    <2>1. <<>> \in Seq(Messages)  BY EmptySeq
    <2> QED  BY <2>1, BoundsAssumption DEF Init, WorkInv, Steps
  <1> QED  BY <1>1, <1>2, <1>3 DEF TypeInv

(* What one dispatcher does to its own work.                               *)
LEMMA WorkStep ==
  ASSUME WorkInv, NEW d \in Dispatchers, NEW s \in Steps, NEW b \in Seq(Messages),
         b = <<>> <=> s \in {"down", "idle"},
         pc' = [pc EXCEPT ![d] = s], batch' = [batch EXCEPT ![d] = b],
         before' \in [Dispatchers -> SUBSET Messages],
         queued' \subseteq Messages, downs' \in 0 .. MaxDown,
         stopping' \subseteq stopping \cup {d},
         s = "down" => d \notin stopping'
  PROVE  WorkInv'
  <1>1. pc' \in [Dispatchers -> Steps] /\ batch' \in [Dispatchers -> Seq(Messages)]
    BY DEF WorkInv
  <1>2. \A e \in Dispatchers : (batch'[e] = <<>>) <=> (pc'[e] \in {"down", "idle"})
    BY DEF WorkInv
  <1>3. stopping' \subseteq {e \in Dispatchers : pc'[e] # "down"}
    BY DEF WorkInv
  <1> QED  BY <1>1, <1>2, <1>3 DEF WorkInv

(* The same, where the batch is left as it was.                            *)
LEMMA WorkMoves ==
  ASSUME WorkInv, NEW d \in Dispatchers, NEW s \in Steps,
         pc[d] \in {"down", "idle"} <=> s \in {"down", "idle"},
         pc' = [pc EXCEPT ![d] = s], batch' = batch, before' = before,
         queued' \subseteq Messages, downs' \in 0 .. MaxDown,
         stopping' \subseteq stopping \cup {d},
         s = "down" => d \notin stopping'
  PROVE  WorkInv'
  <1>1. batch' = [batch EXCEPT ![d] = batch[d]] /\ batch[d] \in Seq(Messages)
    BY DEF WorkInv
  <1>2. batch[d] = <<>> <=> s \in {"down", "idle"}  BY DEF WorkInv
  <1>3. before' \in [Dispatchers -> SUBSET Messages]  BY DEF WorkInv
  <1> QED  BY <1>1, <1>2, <1>3, WorkStep

(* NextMessage leaves the message it is done with.                          *)
LEMMA NextMessageWork ==
  ASSUME WorkInv, NEW d \in Dispatchers, NEW retried, pc[d] \notin {"down", "idle"},
         NextMessage(d, retried), UNCHANGED <<queued, stopping, downs>>
  PROVE  WorkInv'
  <1> DEFINE s == IF Len(batch[d]) = 1 THEN "idle" ELSE "send"
             b == Tail(batch[d])
  <1>1. pc' = [pc EXCEPT ![d] = s] /\ batch' = [batch EXCEPT ![d] = b]
    BY DEF NextMessage
  <1>2. batch[d] \in Seq(Messages) /\ batch[d] # <<>>  BY DEF WorkInv
  <1>3. b \in Seq(Messages) /\ Len(b) = Len(batch[d]) - 1 /\ Len(batch[d]) \in Nat
    BY <1>2, HeadTailProperties, LenProperties
  <1>4. b = <<>> <=> Len(b) = 0  BY <1>3, EmptySeq
  <1> HIDE DEF b
  <1>5. s \in Steps /\ (b = <<>> <=> s \in {"down", "idle"}) /\ s # "down"
    BY <1>3, <1>4 DEF Steps
  <1>6. before' \in [Dispatchers -> SUBSET Messages]
    <2>1. \A e \in Dispatchers : before[e] \in SUBSET Messages  BY DEF WorkInv
    <2>2. before' = [e \in Dispatchers |->
            IF e = d /\ Len(batch[d]) = 1 THEN {} ELSE before[e] \ retried]
      BY DEF NextMessage
    <2> QED  BY <2>1, <2>2
  <1>7. queued' \subseteq Messages /\ downs' \in 0 .. MaxDown /\ stopping' = stopping
    BY DEF WorkInv
  <1> HIDE DEF s
  <1> QED  BY <1>1, <1>3, <1>5, <1>6, <1>7, WorkStep

(* Rows and line are untouched.                                            *)
LEMMA RowsKept == RowInv /\ LineInv /\ UNCHANGED rows => RowInv' /\ LineInv'
  BY DEF RowInv, LineInv, Placed, rows

(* The place of a leased row, and the line without it.                      *)
LEMMA WithoutLeased ==
  ASSUME RowInv, LineInv, NEW m \in Messages, state[m] = "leased",
         NEW w \in {"absent", "dispatched"}
  PROVE  /\ Placed(Without(m), [state EXCEPT ![m] = w], due - 1)
         /\ due \in 1 .. Len(line) /\ Len(Without(m)) = Len(line) - 1
  <1> DEFINE at == {i \in 1 .. Len(line) : line[i] = m}
             p == CHOOSE i \in at : TRUE
  <1>0. at # {}  BY DEF LineInv, Placed
  <1>1. p \in 1 .. Len(line) /\ line[p] = m  BY <1>0
  <1>2. Without(m) = RemoveAt(line, p)  BY <1>0 DEF Without
  <1> HIDE DEF at, p
  <1>3. p <= due /\ due \in 0 .. Len(line) /\ line \in Seq(Messages)
    BY <1>1 DEF LineInv, Placed
  <1>4. due \in 1 .. Len(line)  BY <1>1, <1>3
  <1>5. Len(RemoveAt(line, p)) = Len(line) - 1  BY <1>1, <1>3, RemoveAtIs
  <1>6. Placed(RemoveAt(line, p), [state EXCEPT ![line[p]] = w], due - 1)
    BY <1>1, <1>3, RowLeaves DEF RowInv, LineInv
  <1> QED  BY <1>1, <1>2, <1>4, <1>5, <1>6

-----------------------------------------------------------------------------
(* Announcements and the clock keep the types.                             *)
LEMMA ClockTypes ==
  ASSUME TypeInv, Tick \/ \E m \in Messages : Announce(m) \/ Expire(m)
  PROVE  TypeInv'
  <1> USE DEF TypeInv
  <1>0. line \in Seq(Messages) /\ Len(line) \in Nat /\ due \in 0 .. Len(line)
    <2>1. line \in Seq(Messages) /\ due \in 0 .. Len(line)  BY DEF LineInv, Placed
    <2> QED  BY <2>1, LenProperties
  <1>1. CASE Tick
    <2>1. RowInv'  BY <1>1 DEF Tick, RowInv
    <2>2. WorkInv'  BY <1>1 DEF Tick, WorkInv
    <2>3. due' \in 0 .. Len(line) /\ \A i \in 1 .. Len(line) : i <= due => i <= due'
      BY <1>0, <1>1 DEF Tick
    <2>4. LineInv'  BY <1>0, <1>1, <2>3 DEF Tick, LineInv, Placed
    <2> QED  BY <2>1, <2>2, <2>4
  <1>2. ASSUME NEW m \in Messages, Announce(m) PROVE TypeInv'
    <2>1. state[m] = "absent" /\ state' = [state EXCEPT ![m] = "pending"]
      BY <1>2 DEF Announce
    <2>2. RowInv'
      <3>1. state' \in [Messages -> RowStates]  BY <2>1 DEF RowInv, RowStates
      <3>2. \A k \in Messages : (state'[k] = "leased") <=> (state[k] = "leased")
        BY <2>1 DEF RowInv
      <3> QED  BY <1>2, <3>1, <3>2 DEF Announce, RowInv
    <2>3. WorkInv'  BY <1>2 DEF Announce, WorkInv
    <2>4. LineInv'
      <3>1. due + 1 \in 1 .. Len(line) + 1 /\ due + 1 \in due .. Len(line) + 1  BY <1>0
      <3>2. Placed(InsertAt(line, due + 1, m), [state EXCEPT ![m] = "pending"], due + 1)
        BY <2>1, <3>1, RowEnters DEF RowInv, LineInv
      <3> QED  BY <1>2, <3>2 DEF Announce, LineInv
    <2> QED  BY <2>2, <2>3, <2>4
  <1>3. ASSUME NEW m \in Messages, Expire(m) PROVE TypeInv'
    <2>1. RowInv'  BY <1>3 DEF Expire, RowInv
    <2>2. LineInv' /\ WorkInv'  BY <1>3 DEF Expire, LineInv, Placed, WorkInv
    <2> QED  BY <2>1, <2>2
  <1> QED  BY <1>1, <1>2, <1>3

(* The life of a service keeps the types.                                  *)
LEMMA LifecycleTypes ==
  ASSUME TypeInv, NEW d \in Dispatchers, Lifecycle(d)
  PROVE  TypeInv'
  <1> USE DEF TypeInv
  <1>0. UNCHANGED rows /\ queued' = queued  BY DEF Lifecycle, Stop, Exit, Crash, Start
  <1>1. RowInv' /\ LineInv'  BY <1>0, RowsKept
  <1>2. queued' \subseteq Messages /\ downs \in 0 .. MaxDown  BY <1>0 DEF WorkInv
  <1>3. ASSUME downs < MaxDown PROVE downs + 1 \in 0 .. MaxDown
    BY <1>2, <1>3, BoundsAssumption
  <1>4. CASE Stop(d)
    BY <1>1, <1>3, <1>4 DEF Stop, WorkInv, rows
  <1>5. CASE Exit(d)
    <2>1. pc' = [pc EXCEPT ![d] = "down"] /\ batch' = batch /\ before' = before
            /\ downs' = downs /\ stopping' = stopping \ {d} /\ pc[d] = "idle"
      BY <1>5 DEF Exit
    <2> QED  BY <1>1, <1>2, <2>1, WorkMoves DEF Steps
  <1>6. CASE Start(d)
    <2>1. pc' = [pc EXCEPT ![d] = "idle"] /\ batch' = batch /\ before' = before
            /\ downs' = downs /\ stopping' = stopping /\ pc[d] = "down"
      BY <1>6 DEF Start
    <2> QED  BY <1>1, <1>2, <2>1, WorkMoves DEF Steps
  <1>7. CASE Crash(d)
    <2>1. pc' = [pc EXCEPT ![d] = "down"] /\ batch' = [batch EXCEPT ![d] = <<>>]
            /\ before' = [before EXCEPT ![d] = {}] /\ stopping' = stopping \ {d}
            /\ downs' \in 0 .. MaxDown
      BY <1>3, <1>7 DEF Crash
    <2>2. before' \in [Dispatchers -> SUBSET Messages]  BY <2>1 DEF WorkInv
    <2>3. <<>> \in Seq(Messages)  BY EmptySeq
    <2> QED  BY <1>1, <1>2, <2>1, <2>2, <2>3, WorkStep DEF Steps
  <1> QED  BY <1>4, <1>5, <1>6, <1>7 DEF Lifecycle

-----------------------------------------------------------------------------
(* A claim that read its rows: they are rows of the line.                   *)
LEMMA SelectTypes ==
  ASSUME TypeInv, NEW d \in Dispatchers, ClaimSelect(d)
  PROVE  TypeInv'
  <1> USE DEF TypeInv
  <1> DEFINE e == InLine({m \in Messages : Eligible(m)})
             n == IF Len(e) < Batch[d] THEN Len(e) ELSE Batch[d]
             b == Candidates(Batch[d])
  <1>1. RowInv' /\ LineInv'  BY RowsKept DEF ClaimSelect
  <1>2. e \in Seq(Messages)
    <2>1. line \in Seq(Messages)  BY DEF LineInv, Placed
    <2> QED  BY <2>1, InLineIs
  <1>3. b = SubSeq(e, 1, n)  BY DEF Candidates
  <1>4. b # <<>> /\ batch' = [batch EXCEPT ![d] = b] /\ pc' = [pc EXCEPT ![d] = "claim"]
          /\ before' = [before EXCEPT ![d] = Due]
          /\ UNCHANGED <<queued, stopping, downs>>
    BY DEF ClaimSelect
  <1> HIDE DEF e, b
  <1>5. Len(e) \in Nat /\ n \in Nat /\ n <= Len(e)
    <2>1. Len(e) \in Nat /\ Batch[d] \in Nat  BY <1>2, LenProperties, BoundsAssumption
    <2> QED  BY <2>1
  <1> HIDE DEF n
  <1>6. b \in Seq(Messages)  BY <1>2, <1>3, <1>5, SubSeqIs
  <1>7. Due \subseteq Messages
    <2>1. line \in Seq(Messages) /\ due \in 0 .. Len(line)  BY DEF LineInv, Placed
    <2>2. Len(line) \in Nat /\ \A i \in 1 .. Len(line) : line[i] \in Messages
      BY <2>1, LenProperties, ElementOfSeq
    <2> QED  BY <2>1, <2>2 DEF Due
  <1>8. before' \in [Dispatchers -> SUBSET Messages]  BY <1>4, <1>7 DEF WorkInv
  <1>9. queued' \subseteq Messages /\ downs' \in 0 .. MaxDown /\ stopping' = stopping
    BY <1>4 DEF WorkInv
  <1>10. WorkInv'  BY <1>4, <1>6, <1>8, <1>9, WorkStep DEF Steps
  <1> QED  BY <1>1, <1>10

(* A claim that leases them: what it leases was due, and the batch is empty *)
(* only when nothing was leased.                                           *)
LEMMA ClaimTypes ==
  ASSUME TypeInv, NEW d \in Dispatchers, ClaimUpdate(d)
  PROVE  TypeInv'
  <1> USE DEF TypeInv
  <1> DEFINE c == Claimable(d)
             s == IF c = {} THEN "idle" ELSE "send"
             b == InLine(c)
  <1>1. /\ pc[d] = "claim"
        /\ state' = [m \in Messages |-> IF m \in c THEN "leased" ELSE state[m]]
        /\ owner' = [m \in Messages |-> IF m \in c THEN d ELSE owner[m]]
        /\ expired' = expired \ c
        /\ batch' = [batch EXCEPT ![d] = b]
        /\ pc' = [pc EXCEPT ![d] = s]
        /\ before' = [before EXCEPT ![d] = IF c = {} THEN {} ELSE @]
        /\ UNCHANGED <<line, due, queued, stopping, downs>>
    BY DEF ClaimUpdate
  <1>2. line \in Seq(Messages) /\ due \in 0 .. Len(line) /\ Len(line) \in Nat
    <2>1. line \in Seq(Messages) /\ due \in 0 .. Len(line)  BY DEF LineInv, Placed
    <2> QED  BY <2>1, LenProperties
  <1>3. c \subseteq Messages /\ \A m \in c : Eligible(m)
    <2>1. batch[d] \in Seq(Messages)  BY DEF WorkInv
    <2>2. \A i \in DOMAIN batch[d] : batch[d][i] \in Messages
      BY <2>1, LenProperties, ElementOfSeq
    <2> QED  BY <2>2 DEF Claimable, ToSet
  <1>4. \A m \in c : state[m] \in {"pending", "leased"}  BY <1>3 DEF Eligible
  <1>5. \A i \in 1 .. Len(line) : line[i] \in c => i <= due
    <2> SUFFICES ASSUME NEW i \in 1 .. Len(line), line[i] \in c PROVE i <= due  OBVIOUS
    <2>1. CASE state[line[i]] = "leased"  BY <2>1 DEF LineInv, Placed
    <2>2. CASE line[i] \in Due
      <3>1. PICK j \in 1 .. due : line[i] = line[j]  BY <2>2 DEF Due
      <3>2. j \in 1 .. Len(line)  BY <1>2
      <3>3. i = j  BY <3>1, <3>2 DEF LineInv, Placed
      <3> QED  BY <3>3
    <2> QED  BY <1>3, <2>1, <2>2 DEF Eligible
  <1>6. b \in Seq(Messages) /\ (b = <<>> <=> c = {})
    <2>1. b \in Seq(Messages) /\ (b = <<>> <=> \A i \in 1 .. Len(line) : line[i] \notin c)
      BY <1>2, InLineIs
    <2>2. c = {} <=> \A i \in 1 .. Len(line) : line[i] \notin c
      <3>1. \A m \in c : \E i \in 1 .. Len(line) : line[i] = m
        BY <1>3, <1>4 DEF LineInv, Placed
      <3> HIDE DEF c
      <3> QED  BY <3>1
    <2> QED  BY <2>1, <2>2
  <1> HIDE DEF c, b
  <1>7. RowInv'
    <2>1. state' \in [Messages -> RowStates]  BY <1>1 DEF RowInv, RowStates
    <2>2. owner' \in [Messages -> Dispatchers \cup {NoOwner}]  BY <1>1 DEF RowInv
    <2>3. \A m \in Messages : (owner'[m] # NoOwner) <=> (state'[m] = "leased")
      BY <1>1, OwnerAssumption DEF RowInv
    <2>4. expired' \subseteq {m \in Messages : state'[m] = "leased"}
      BY <1>1 DEF RowInv
    <2> QED  BY <2>1, <2>2, <2>3, <2>4 DEF RowInv
  <1>8. LineInv'
    <2>1. \A i \in 1 .. Len(line) : line[i] \in Messages  BY <1>2, ElementOfSeq
    <2>2. \A i \in 1 .. Len(line) :
            state'[line[i]] = IF line[i] \in c THEN "leased" ELSE state[line[i]]
      BY <1>1, <2>1
    <2>3. \A m \in Messages : state'[m] \in {"pending", "leased"} =>
            state[m] \in {"pending", "leased"}
      BY <1>1, <1>4
    <2>4. Placed(line, state', due)
      BY <1>5, <2>2, <2>3 DEF LineInv, Placed
    <2> QED  BY <1>1, <2>4 DEF LineInv
  <1>9. WorkInv'
    <2>1. s \in Steps /\ (b = <<>> <=> s \in {"down", "idle"}) /\ s # "down"
      BY <1>6 DEF Steps
    <2>2. before' \in [Dispatchers -> SUBSET Messages]  BY <1>1 DEF WorkInv
    <2>3. queued' \subseteq Messages /\ downs' \in 0 .. MaxDown /\ stopping' = stopping
      BY <1>1 DEF WorkInv
    <2> HIDE DEF s
    <2> QED  BY <1>1, <1>6, <2>1, <2>2, <2>3, WorkStep
  <1> QED  BY <1>7, <1>8, <1>9

(* A round that ends early, and a release that fails.                       *)
LEMMA EndTypes ==
  ASSUME TypeInv, NEW d \in Dispatchers, Abandon(d) \/ ReleaseFails(d)
  PROVE  TypeInv'
  <1> USE DEF TypeInv
  <1>1. RowInv' /\ LineInv'  BY RowsKept DEF Abandon, ReleaseFails
  <1>2. CASE Abandon(d)
    <2>1. pc' = [pc EXCEPT ![d] = "idle"] /\ batch' = [batch EXCEPT ![d] = <<>>]
            /\ before' = [before EXCEPT ![d] = {}] /\ UNCHANGED <<queued, stopping, downs>>
      BY <1>2 DEF Abandon
    <2>2. before' \in [Dispatchers -> SUBSET Messages]  BY <2>1 DEF WorkInv
    <2>3. queued' \subseteq Messages /\ downs' \in 0 .. MaxDown /\ stopping' = stopping
      BY <2>1 DEF WorkInv
    <2>4. <<>> \in Seq(Messages)  BY EmptySeq
    <2>5. WorkInv'  BY <2>1, <2>2, <2>3, <2>4, WorkStep DEF Steps
    <2> QED  BY <1>1, <2>5
  <1>3. CASE ReleaseFails(d)
    <2>1. pc[d] \notin {"down", "idle"} /\ NextMessage(d, {})
            /\ UNCHANGED <<queued, stopping, downs>>
      BY <1>3 DEF ReleaseFails
    <2>2. WorkInv'  BY <2>1, NextMessageWork
    <2> QED  BY <1>1, <2>2
  <1> QED  BY <1>2, <1>3

-----------------------------------------------------------------------------
(* The message a dispatcher is at work on is written, or refused.           *)
LEMMA SendTypes ==
  ASSUME TypeInv, NEW d \in Dispatchers, NEW m \in Messages,
         Enqueue(d, m) \/ EnqueueFails(d, m)
  PROVE  TypeInv'
  <1> USE DEF TypeInv
  <1>1. RowInv' /\ LineInv'  BY RowsKept DEF Enqueue, EnqueueFails
  <1>2. pc[d] = "send" /\ batch' = batch /\ before' = before /\ stopping' = stopping
          /\ downs' \in 0 .. MaxDown /\ queued' \subseteq Messages
    BY DEF Enqueue, EnqueueFails, Sends, WorkInv
  <1>3. PICK s \in {"mark", "release"} : pc' = [pc EXCEPT ![d] = s]
    BY DEF Enqueue, EnqueueFails
  <1>4. WorkInv'  BY <1>2, <1>3, WorkMoves DEF Steps
  <1> QED  BY <1>1, <1>4

(* A row loses its lease: it is written w, and has no owner.                *)
LEMMA LeaseEnds ==
  ASSUME RowInv, NEW m \in Messages, NEW w \in RowStates \ {"leased"},
         state' = [state EXCEPT ![m] = w], owner' = [owner EXCEPT ![m] = NoOwner],
         expired' = expired \ {m}
  PROVE  RowInv'
  BY DEF RowInv, RowStates

(* mark_dispatched takes the row out of the line.                          *)
LEMMA MarkTypes ==
  ASSUME TypeInv, NEW d \in Dispatchers, NEW m \in Messages, Mark(d, m)
  PROVE  TypeInv'
  <1> USE DEF TypeInv
  <1>1. WorkInv'  BY NextMessageWork DEF Mark
  <1>2. CASE Owns(d, m)
    <2>1. /\ state' = [state EXCEPT ![m] = "dispatched"]
          /\ owner' = [owner EXCEPT ![m] = NoOwner]
          /\ expired' = expired \ {m} /\ line' = Without(m) /\ due' = due - 1
      BY <1>2 DEF Mark
    <2>2. RowInv'  BY <2>1, LeaseEnds DEF RowStates
    <2>3. state[m] = "leased"  BY <1>2 DEF Owns
    <2>4. LineInv'  BY <2>1, <2>3, WithoutLeased DEF LineInv
    <2> QED  BY <1>1, <2>2, <2>4
  <1>3. CASE ~Owns(d, m)
    <2>1. RowInv' /\ LineInv'  BY <1>3, RowsKept DEF Mark
    <2> QED  BY <1>1, <2>1
  <1> QED  BY <1>2, <1>3

(* release_for_retry puts the row at another place of the line.             *)
LEMMA ReleaseTypes ==
  ASSUME TypeInv, NEW d \in Dispatchers, NEW m \in Messages, Release(d, m)
  PROVE  TypeInv'
  <1> USE DEF TypeInv
  <1>0. pc[d] \notin {"down", "idle"} /\ UNCHANGED <<queued, stopping, downs>>
    BY DEF Release
  <1>1. CASE CanRelease(d, m)
    <2>1. PICK i \in Placement(d, m) :
            /\ line' = InsertAt(Without(m), i, m)
            /\ due' \in IF i < due THEN {due}
                        ELSE IF i = due THEN {due - 1, due} ELSE {due - 1}
            /\ state' = [state EXCEPT ![m] = "pending"]
            /\ owner' = [owner EXCEPT ![m] = NoOwner]
            /\ expired' = expired \ {m}
            /\ NextMessage(d, {m})
      BY <1>1 DEF Release
    <2>2. RowInv'  BY <2>1, LeaseEnds DEF RowStates
    <2>3. WorkInv'  BY <1>0, <2>1, NextMessageWork
    <2>4. state[m] = "leased"  BY <1>1 DEF CanRelease, Owns
    <2> DEFINE rest == Without(m)
               out == [state EXCEPT ![m] = "absent"]
    <2>5. /\ Placed(rest, out, due - 1) /\ due \in 1 .. Len(line)
          /\ Len(rest) = Len(line) - 1
      BY <2>4, WithoutLeased
    <2>6. i \in 1 .. Len(rest) + 1  BY DEF Placement
    <2>7. out \in [Messages -> RowStates] /\ out[m] \notin {"pending", "leased"}
            /\ [out EXCEPT ![m] = "pending"] = [state EXCEPT ![m] = "pending"]
      BY DEF RowInv, RowStates
    <2> HIDE DEF rest, out
    <2>8. Len(line) \in Nat
      <3>1. line \in Seq(Messages)  BY DEF LineInv, Placed
      <3> QED  BY <3>1, LenProperties
    <2>9. due' \in due - 1 .. Len(rest) + 1 /\ (i <= due - 1 => due' = (due - 1) + 1)
      BY <2>1, <2>5, <2>6, <2>8
    <2>10. Placed(InsertAt(rest, i, m), [out EXCEPT ![m] = "pending"], due')
      BY <2>5, <2>6, <2>7, <2>9, RowEnters
    <2>11. LineInv'  BY <2>1, <2>7, <2>10 DEF LineInv, rest
    <2> QED  BY <2>2, <2>3, <2>11
  <1>2. CASE ~CanRelease(d, m)
    <2>1. UNCHANGED rows /\ NextMessage(d, {})  BY <1>2 DEF Release
    <2>2. RowInv' /\ LineInv'  BY <2>1, RowsKept
    <2>3. WorkInv'  BY <1>0, <2>1, NextMessageWork
    <2> QED  BY <2>2, <2>3
  <1> QED  BY <1>1, <1>2

(* Every step keeps the types.                                             *)
LEMMA TypeStep == TypeInv /\ [Next]_vars => TypeInv'
  <1> SUFFICES ASSUME TypeInv, [Next]_vars PROVE TypeInv'  OBVIOUS
  <1>1. CASE UNCHANGED vars
    BY <1>1 DEF vars, TypeInv, RowInv, LineInv, Placed, WorkInv
  <1>2. ASSUME NEW d \in Dispatchers, Dispatch(d) PROVE TypeInv'
    BY <1>2, SelectTypes, ClaimTypes, EndTypes, SendTypes, MarkTypes, ReleaseTypes
    DEF Dispatch, Handle
  <1>3. ASSUME NEW d \in Dispatchers, Lifecycle(d) PROVE TypeInv'
    BY <1>3, LifecycleTypes
  <1>4. CASE Tick \/ \E m \in Messages : Announce(m) \/ Expire(m)
    BY <1>4, ClockTypes
  <1> QED  BY <1>1, <1>2, <1>3, <1>4 DEF Next

(* TypeOK says of the line what the invariant says place by place.          *)
LEMMA TypesFollow == TypeInv => TypeOK
  <1> SUFFICES ASSUME TypeInv PROVE TypeOK  OBVIOUS
  <1> USE DEF TypeInv
  <1>1. line \in Seq(Messages) /\ due \in 0 .. Len(line)  BY DEF LineInv, Placed
  <1>2. Len(line) \in Nat /\ DOMAIN line = 1 .. Len(line)
          /\ \A i \in 1 .. Len(line) : line[i] \in Messages
    BY <1>1, LenProperties, ElementOfSeq
  <1>3. ToSet(line) = {m \in Messages : state[m] \in {"pending", "leased"}}
    <2>1. \A i \in 1 .. Len(line) : state[line[i]] \in {"pending", "leased"}
      BY DEF LineInv, Placed
    <2>2. \A m \in Messages : state[m] \in {"pending", "leased"} =>
            \E i \in 1 .. Len(line) : line[i] = m
      BY DEF LineInv, Placed
    <2>3. ToSet(line) = {line[i] : i \in 1 .. Len(line)}  BY <1>2 DEF ToSet
    <2> QED  BY <1>2, <2>1, <2>2, <2>3
  <1>4. {m \in Messages : state[m] = "leased"} \subseteq Due
    <2> SUFFICES ASSUME NEW m \in Messages, state[m] = "leased" PROVE m \in Due  OBVIOUS
    <2>1. PICK i \in 1 .. Len(line) : line[i] = m  BY DEF LineInv, Placed
    <2>2. i <= due  BY <2>1 DEF LineInv, Placed
    <2>3. i \in 1 .. due  BY <1>1, <1>2, <2>2
    <2> QED  BY <2>1, <2>3 DEF Due
  <1>5. \A d \in Dispatchers : ToSet(batch[d]) \subseteq Messages /\ before[d] \subseteq Messages
    <2> SUFFICES ASSUME NEW d \in Dispatchers
                 PROVE  ToSet(batch[d]) \subseteq Messages /\ before[d] \subseteq Messages
      OBVIOUS
    <2>1. batch[d] \in Seq(Messages) /\ before[d] \subseteq Messages  BY DEF WorkInv
    <2>2. \A i \in DOMAIN batch[d] : batch[d][i] \in Messages
      BY <2>1, LenProperties, ElementOfSeq
    <2> QED  BY <2>1, <2>2 DEF ToSet
  <1> QED  BY <1>1, <1>2, <1>3, <1>4, <1>5 DEF RowInv, WorkInv, RowStates, Steps, TypeOK

(* However rows are announced, leased, taken over, marked and put back, the *)
(* rows that are not dispatched stand in the line by available_at once      *)
(* each, an owner is written exactly where there is a lease, a leased row   *)
(* is one that was due, and a dispatcher at work has a batch in hand.       *)
THEOREM Types == Spec => []TypeOK
  <1>1. Spec => []TypeInv  BY TypeInit, TypeStep, PTL DEF Spec
  <1> QED  BY <1>1, TypesFollow, PTL
=============================================================================
