---------------------------- MODULE QueueOutbox ----------------------------
(***************************************************************************)
(* The transactional outbox: a business transaction announces a message as *)
(* a row of the outbox table, and dispatchers claim batches of rows under  *)
(* a lease of 30 seconds, write each message into the file queue outside   *)
(* of any transaction, and mark the row in a transaction of its own, or    *)
(* release it for a later retry.                                           *)
(*                                                                         *)
(* Time is kept as order. line holds the rows that are not dispatched, by  *)
(* available_at; the first due of them are those whose available_at has    *)
(* passed. expired holds the leased rows whose lease_expires_at has        *)
(* passed. A retry is placed behind every row that was due when its batch  *)
(* began, because available_at is that moment plus a positive delay.       *)
(***************************************************************************)
EXTENDS Naturals, Sequences, SequencesExt

CONSTANTS
  Messages,     \* messages that may be announced
  Poison,       \* messages the queue refuses every time
  Dispatchers,  \* dispatcher threads, one per service process
  NoOwner,      \* lease_owner of a row that is not leased
  Batch,        \* the batch_size of a dispatcher
  MaxDown       \* bound: how often a service stops or dies

ASSUME PoisonAssumption == Poison \subseteq Messages
ASSUME OwnerAssumption == NoOwner \notin Dispatchers
ASSUME BoundsAssumption == Batch \in [Dispatchers -> Nat \ {0}] /\ MaxDown \in Nat

VARIABLES
  state,    \* state[m]: the state of the row of m
  owner,    \* owner[m]: its lease_owner
  expired,  \* leased rows whose lease_expires_at has passed
  line,     \* rows not yet dispatched, by available_at
  due,      \* how many of line have an available_at that has passed
  queued,   \* messages the file queue holds, in whatever directory
  pc,       \* pc[d]: next step of dispatcher d
  batch,    \* batch[d]: candidates, then the claimed messages still to send
  before,   \* before[d]: during a batch, the rows due when it began, unless retried since
  stopping, \* dispatchers whose stop event is set
  downs     \* stops and deaths so far

rows == <<state, owner, expired, line, due>>
vars == <<state, owner, expired, line, due, queued, pc, batch, before, stopping, downs>>

Init ==
  /\ state = [m \in Messages |-> "absent"]
  /\ owner = [m \in Messages |-> NoOwner]
  /\ expired = {}
  /\ line = <<>> /\ due = 0
  /\ queued = {}
  /\ pc = [d \in Dispatchers |-> "idle"]
  /\ batch = [d \in Dispatchers |-> <<>>]
  /\ before = [d \in Dispatchers |-> {}]
  /\ stopping = {}
  /\ downs = 0

Due == {line[i] : i \in 1 .. due}

\* _eligible_expression: pending and available, or leased and expired.
Eligible(m) ==
  \/ state[m] = "pending" /\ m \in Due
  \/ state[m] = "leased" /\ m \in expired

Owns(d, m) == state[m] = "leased" /\ owner[m] = d

-----------------------------------------------------------------------------
\* A transaction announces m; its available_at is the present.
Announce(m) ==
  /\ state[m] = "absent"
  /\ state' = [state EXCEPT ![m] = "pending"]
  /\ line' = InsertAt(line, due + 1, m)
  /\ due' = due + 1
  /\ UNCHANGED <<owner, expired, queued, pc, batch, before, stopping, downs>>

\* The clock passes the available_at of the next row.
Tick ==
  /\ due < Len(line)
  /\ due' = due + 1
  /\ UNCHANGED <<state, owner, expired, line, queued, pc, batch, before, stopping, downs>>

\* The clock passes lease_expires_at, while the holder sends its batch or is gone.
Expire(m) ==
  /\ state[m] = "leased" /\ m \notin expired
  /\ expired' = expired \cup {m}
  /\ UNCHANGED <<state, owner, line, due, queued, pc, batch, before, stopping, downs>>

-----------------------------------------------------------------------------
\* ORDER BY available_at: the rows of a set in the order of the line.
InLine(chosen) ==
  LET first[n \in 0 .. Len(line)] ==
        IF n = 0 THEN <<>>
        ELSE IF line[n] \in chosen THEN Append(first[n - 1], line[n]) ELSE first[n - 1]
  IN  first[Len(line)]

\* The line without the row of m; a row is in it once or, when dispatched, not.
Without(m) ==
  LET at == {i \in 1 .. Len(line) : line[i] = m}
  IN  IF at = {} THEN line ELSE RemoveAt(line, CHOOSE i \in at : TRUE)

\* claim_available_messages selects the ids of the first eligible rows.
Candidates(limit) ==
  LET eligible == InLine({m \in Messages : Eligible(m)})
  IN  SubSeq(eligible, 1, IF Len(eligible) < limit THEN Len(eligible) ELSE limit)

ClaimSelect(d) ==
  /\ pc[d] = "idle" /\ d \notin stopping
  /\ Candidates(Batch[d]) # <<>>
  /\ batch' = [batch EXCEPT ![d] = Candidates(Batch[d])]
  /\ before' = [before EXCEPT ![d] = Due]
  /\ pc' = [pc EXCEPT ![d] = "claim"]
  /\ UNCHANGED <<rows, queued, stopping, downs>>

\* An UPDATE that asks for the id alone.
ClaimableById(d) == {m \in ToSet(batch[d]) : state[m] \in {"pending", "leased"}}

\* Each id is leased by an UPDATE that asks for eligibility again; the rows
\* it changed are read back in order, and the transaction commits.
Claimable(d) == {m \in ToSet(batch[d]) : Eligible(m)}

ClaimUpdate(d) ==
  LET claimed == Claimable(d)
  IN  /\ pc[d] = "claim"
      /\ state' = [m \in Messages |-> IF m \in claimed THEN "leased" ELSE state[m]]
      /\ owner' = [m \in Messages |-> IF m \in claimed THEN d ELSE owner[m]]
      /\ expired' = expired \ claimed
      /\ batch' = [batch EXCEPT ![d] = InLine(claimed)]
      /\ pc' = [pc EXCEPT ![d] = IF claimed = {} THEN "idle" ELSE "send"]
      /\ before' = [before EXCEPT ![d] = IF claimed = {} THEN {} ELSE @]
      /\ UNCHANGED <<line, due, queued, stopping, downs>>

\* An exception of the database, in the claim or while a row is marked, ends
\* the round; what the batch still held is left to the expiry of its leases.
Abandon(d) ==
  /\ pc[d] \in {"claim", "mark"}
  /\ batch' = [batch EXCEPT ![d] = <<>>]
  /\ before' = [before EXCEPT ![d] = {}]
  /\ pc' = [pc EXCEPT ![d] = "idle"]
  /\ UNCHANGED <<rows, queued, stopping, downs>>

-----------------------------------------------------------------------------
Sends(d, m) == pc[d] = "send" /\ Head(batch[d]) = m

\* Enqueue is idempotent by message_id.
Enqueue(d, m) ==
  /\ Sends(d, m) /\ m \notin Poison
  /\ queued' = queued \cup {m}
  /\ pc' = [pc EXCEPT ![d] = "mark"]
  /\ UNCHANGED <<rows, batch, before, stopping, downs>>

\* The error of the queue is lost and the row marked all the same.
EnqueueIgnored(d, m) ==
  /\ Sends(d, m)
  /\ pc' = [pc EXCEPT ![d] = "mark"]
  /\ UNCHANGED <<rows, queued, batch, before, stopping, downs>>

EnqueueFails(d, m) ==
  /\ Sends(d, m)
  /\ pc' = [pc EXCEPT ![d] = "release"]
  /\ UNCHANGED <<rows, queued, batch, before, stopping, downs>>

\* The loop over the batch goes on; retried is the message whose place changed.
NextMessage(d, retried) ==
  /\ batch' = [batch EXCEPT ![d] = Tail(batch[d])]
  /\ before' = [e \in Dispatchers |->
       IF e = d /\ Len(batch[d]) = 1 THEN {} ELSE before[e] \ retried]
  /\ pc' = [pc EXCEPT ![d] = IF Len(batch[d]) = 1 THEN "idle" ELSE "send"]

\* mark_dispatched, where the row still is leased by d.
Mark(d, m) ==
  /\ pc[d] = "mark" /\ Head(batch[d]) = m
  /\ IF Owns(d, m)
       THEN /\ state' = [state EXCEPT ![m] = "dispatched"]
            /\ owner' = [owner EXCEPT ![m] = NoOwner]
            /\ expired' = expired \ {m}
            /\ line' = Without(m)
            /\ due' = due - 1
       ELSE UNCHANGED rows
  /\ NextMessage(d, {})
  /\ UNCHANGED <<queued, stopping, downs>>

\* The retry keeps its old available_at.
PlacementInPlace(d, m) == {i \in 1 .. Len(line) : line[i] = m}

\* Where a retry may come to stand in the line without it.
Placement(d, m) ==
  LET rest == Without(m)
  IN  {i \in 1 .. Len(rest) + 1 : \A k \in i .. Len(rest) : rest[k] \notin before[d] \ {m}}

\* A release that compares neither state nor owner.
CanReleaseAny(d, m) == TRUE

CanRelease(d, m) == Owns(d, m)

\* release_for_retry. The batch may have taken longer than the delay: the new
\* available_at may have passed already.
Release(d, m) ==
  /\ pc[d] = "release" /\ Head(batch[d]) = m
  /\ IF CanRelease(d, m)
       THEN \E i \in Placement(d, m) :
              /\ line' = InsertAt(Without(m), i, m)
              /\ due' \in IF i < due THEN {due}
                          ELSE IF i = due THEN {due - 1, due} ELSE {due - 1}
              /\ state' = [state EXCEPT ![m] = "pending"]
              /\ owner' = [owner EXCEPT ![m] = NoOwner]
              /\ expired' = expired \ {m}
              /\ NextMessage(d, {m})
       ELSE UNCHANGED rows /\ NextMessage(d, {})
  /\ UNCHANGED <<queued, stopping, downs>>

\* The release itself fails: it is logged, and the lease runs out.
ReleaseFails(d) ==
  /\ pc[d] = "release"
  /\ NextMessage(d, {})
  /\ UNCHANGED <<rows, queued, stopping, downs>>

-----------------------------------------------------------------------------
\* stop() sets the event; the batch in hand is finished all the same.
Stop(d) ==
  /\ pc[d] # "down" /\ d \notin stopping /\ downs < MaxDown
  /\ stopping' = stopping \cup {d}
  /\ downs' = downs + 1
  /\ UNCHANGED <<rows, queued, pc, batch, before>>

\* The thread leaves its loop and stop() confirms that it ended.
Exit(d) ==
  /\ pc[d] = "idle" /\ d \in stopping
  /\ pc' = [pc EXCEPT ![d] = "down"]
  /\ stopping' = stopping \ {d}
  /\ UNCHANGED <<rows, queued, batch, before, downs>>

\* The process dies at any step.
Crash(d) ==
  /\ pc[d] # "down" /\ downs < MaxDown
  /\ downs' = downs + 1
  /\ pc' = [pc EXCEPT ![d] = "down"]
  /\ batch' = [batch EXCEPT ![d] = <<>>]
  /\ before' = [before EXCEPT ![d] = {}]
  /\ stopping' = stopping \ {d}
  /\ UNCHANGED <<rows, queued>>

Start(d) ==
  /\ pc[d] = "down"
  /\ pc' = [pc EXCEPT ![d] = "idle"]
  /\ UNCHANGED <<rows, queued, batch, before, stopping, downs>>

-----------------------------------------------------------------------------
Handle(d, m) == Enqueue(d, m) \/ EnqueueFails(d, m) \/ Mark(d, m) \/ Release(d, m)

Lifecycle(d) == Stop(d) \/ Exit(d) \/ Crash(d) \/ Start(d)

Dispatch(d) ==
  \/ ClaimSelect(d) \/ ClaimUpdate(d) \/ Abandon(d) \/ ReleaseFails(d)
  \/ \E m \in Messages : Handle(d, m)

Next ==
  \/ \E m \in Messages : Announce(m) \/ Expire(m)
  \/ Tick
  \/ \E d \in Dispatchers : Dispatch(d) \/ Lifecycle(d)

(***************************************************************************)
(* The clock passes every available_at and every lease_expires_at, a       *)
(* service that went down is started, and its thread takes its next step   *)
(* (_run never ends by itself and polls every 0.2 s).                      *)
(* Errors are transient: the claims do not always fail, nor do the write   *)
(* and the mark of a message, nor the release of one that is refused.      *)
(* In the end a lease of 30 seconds outlasts the batch it was taken for:   *)
(* at most 32 files. Nothing is assumed of the queue for Poison.           *)
(***************************************************************************)
Clock == \A m \in Messages :
  /\ []<>(state[m] = "pending" => m \in Due)
  /\ WF_vars(Expire(m))

Running == \A d \in Dispatchers :
  /\ WF_vars(Start(d)) /\ WF_vars(Exit(d))
  /\ WF_vars(Dispatch(d))

Transient ==
  /\ SF_vars(\E d \in Dispatchers : ClaimUpdate(d))
  /\ \A m \in Messages \ Poison :
       /\ SF_vars(\E d \in Dispatchers : Enqueue(d, m))
       /\ SF_vars(\E d \in Dispatchers : Mark(d, m))
  /\ \A m \in Poison : SF_vars(\E d \in Dispatchers : Release(d, m))

InHand(m) ==
  \E d \in Dispatchers : Owns(d, m) /\ pc[d] # "claim" /\ m \in ToSet(batch[d])

LeaseOutlasts == <>[][\A m \in Messages : InHand(m) => expired' \cap {m} = {}]_vars

Spec == Init /\ [][Next]_vars /\ Clock /\ Running /\ Transient /\ LeaseOutlasts

-----------------------------------------------------------------------------
(* Every variable keeps its type; the line holds the rows that are         *)
(* announced and not dispatched, and a leased row is one that was due.     *)
TypeOK ==
  /\ state \in [Messages -> {"absent", "pending", "leased", "dispatched"}]
  /\ owner \in [Messages -> Dispatchers \cup {NoOwner}]
  /\ \A m \in Messages : (owner[m] # NoOwner) <=> (state[m] = "leased")
  /\ expired \subseteq {m \in Messages : state[m] = "leased"}
  /\ ToSet(line) = {m \in Messages : state[m] \in {"pending", "leased"}}
  /\ Len(line) \in Nat /\ due \in 0 .. Len(line)
  /\ {m \in Messages : state[m] = "leased"} \subseteq Due
  /\ queued \subseteq Messages
  /\ pc \in [Dispatchers -> {"down", "idle", "claim", "send", "mark", "release"}]
  /\ \A d \in Dispatchers :
       /\ ToSet(batch[d]) \subseteq Messages
       /\ (batch[d] = <<>>) <=> (pc[d] \in {"down", "idle"})
       /\ before[d] \subseteq Messages
  /\ stopping \subseteq {d \in Dispatchers : pc[d] # "down"}
  /\ downs \in 0 .. MaxDown

(* A row that says dispatched belongs to a message the queue holds, however *)
(* many dispatchers sent it, failed to, or died on the way.                *)
DispatchedIsQueued == \A m \in Messages : state[m] = "dispatched" => m \in queued

(* Late answers of a former holder change nothing: a dispatched row is     *)
(* never pending or leased again.                                          *)
DispatchedStays ==
  [][\A m \in Messages : state[m] = "dispatched" => state'[m] = "dispatched"]_vars

(* A lease in force is ended by its holder alone, when it marks or releases *)
(* that message; nobody else takes it over before it expires.              *)
LeaseInForceStands ==
  [][\A m \in Messages :
       state[m] = "leased" /\ m \notin expired /\ owner'[m] # owner[m] =>
         /\ state'[m] # "leased"
         /\ pc[owner[m]] \in {"mark", "release"} /\ Head(batch[owner[m]]) = m]_vars

(* Every message the queue would accept is dispatched in the end, although *)
(* processes die, errors interrupt batches, leases run out while a batch   *)
(* is sent, and messages that fail every time come back for ever.          *)
EventuallyDispatched ==
  \A m \in Messages \ Poison : (state[m] = "pending") ~> (state[m] = "dispatched")
=============================================================================
