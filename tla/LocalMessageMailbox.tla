------------------------ MODULE LocalMessageMailbox ------------------------
(***************************************************************************)
(* The mailbox of one channel: a file that clients and the one server that *)
(* owns it map into memory. A slot (descriptor) carries one call: a client *)
(* takes a free slot and writes its request, the server claims it, a       *)
(* handler answers in the slot or in pages of a shared pool, the client    *)
(* copies the answer and acknowledges, and the sweep of the server frees   *)
(* the slot. The server also ends what is cancelled, late or forgotten.    *)
(* A prepared call uses its slot twice: the server gives the first phase   *)
(* its deadline, the client turns the answer into the second request.      *)
(*                                                                         *)
(* A slot has a guard, a byte-range lock that dies with its holder. What   *)
(* the server does under it is one step. A client writes the header and    *)
(* then, as the last word, the state: these are steps, because a starting  *)
(* server resets the slots without their guards, and a client may die.     *)
(* Tokens are random in the code and the number of the call here.          *)
(***************************************************************************)
EXTENDS Naturals, FiniteSets

CONSTANTS
  Clients, NoClient,
  Slots,       \* descriptors of the profile
  Pages,       \* overflow pages of the profile
  MaxCalls,    \* bound: calls that are begun
  MaxEpoch     \* bound: times the server starts

ASSUME BoundsAssumption ==
  /\ NoClient \notin Clients
  /\ IsFiniteSet(Slots) /\ Slots = 1 .. Cardinality(Slots) /\ Slots # {}
  /\ MaxCalls \in Nat /\ MaxEpoch \in Nat \ {0}

VARIABLES
  epoch,       \* owner_epoch of the common header
  closed,      \* FILE_FLAG_CLOSED of the common header
  server,      \* life of the owner process
  slot,        \* slot[s]: the descriptor header
  page,        \* page[k]: the slot, generation and epoch it serves
  guard,       \* guard[s]: the client that holds it
  handlers,    \* requests claimed by a handler that has not finished
  pc, me, got, \* pc[c]: step of client c; me[c]: its identity; got[c]: its copy
  calls        \* calls begun

header == <<epoch, closed>>
clients == <<pc, me, got, calls>>
vars == <<header, server, slot, page, guard, handlers, clients>>

None == [token |-> 0, phase |-> 0]
NoPage == [slot |-> 0, gen |-> 0, epoch |-> 0]
NoCall == [slot |-> 0, gen |-> 0, epoch |-> 0, token |-> 0, phase |-> 0]

\* _reset_descriptor_locked writes zero over all but generation and epoch: both
\* deadlines are past. answer is None for an error.
FreeSlot(g) ==
  [state |-> "free", gen |-> g, epoch |-> epoch, token |-> 0, phase |-> 0,
   deadline |-> "past", cancel |-> FALSE, acked |-> FALSE,
   answer |-> None, ack |-> "past", paged |-> FALSE]

Init ==
  /\ epoch = 1 /\ closed = FALSE
  /\ server = [state |-> "up", next |-> 1]
  /\ slot = [s \in Slots |-> FreeSlot(0)]
  /\ page = [k \in Pages |-> NoPage]
  /\ guard = [s \in Slots |-> NoClient]
  /\ handlers = {}
  /\ pc = [c \in Clients |-> "idle"]
  /\ me = [c \in Clients |-> NoCall]
  /\ got = [c \in Clients |-> None]
  /\ calls = 0

Unguarded(s) == guard[s] = NoClient

EpochMatches(i) == slot[i.slot].epoch = i.epoch        \* a mutant: fence by epoch

\* _identity_matches of both sides.
IdentityMatches(i) ==
  LET d == slot[i.slot]
  IN  d.gen = i.gen /\ d.epoch = i.epoch /\ d.token = i.token

Cancelled(s) == slot[s].cancel \/ slot[s].deadline = "past"

-----------------------------------------------------------------------------
\* The client
GoTo(c, step) == pc' = [pc EXCEPT ![c] = step]
Lock(c, s) == guard' = [guard EXCEPT ![s] = c]
Unlock(c) == guard' = [s \in Slots |-> IF guard[s] = c THEN NoClient ELSE guard[s]]
Forget(c) ==
  /\ GoTo(c, "idle")
  /\ me' = [me EXCEPT ![c] = NoCall]
  /\ got' = [got EXCEPT ![c] = None]
  /\ UNCHANGED calls

Verified(c) == ~closed /\ epoch = me[c].epoch

\* A new call on a free slot, plain (phase 0) or prepared (phases 1 and 2): guard,
\* owner epoch, header. A client opens the file again after an error, so it
\* starts with the epoch it finds there.
Enter(c, s) ==
  /\ pc[c] = "idle" /\ calls < MaxCalls
  /\ Unguarded(s) /\ ~closed /\ slot[s].state = "free"
  /\ Lock(c, s)
  /\ GoTo(c, "entered")
  /\ \E phase \in {0, 1} :
       me' = [me EXCEPT ![c] = [slot |-> s, gen |-> slot[s].gen + 1, epoch |-> epoch,
                                token |-> calls + 1, phase |-> phase]]
  /\ calls' = calls + 1
  /\ UNCHANGED <<header, server, slot, page, handlers, got>>

\* publish_reopened_request takes the guard again for the second phase.
EnterAgain(c) ==
  LET s == me[c].slot IN
  /\ pc[c] = "reopened" /\ Unguarded(s) /\ Verified(c) /\ IdentityMatches(me[c])
  /\ slot[s].state = "writing" /\ ~Cancelled(s)
  /\ Lock(c, s)
  /\ GoTo(c, "entered")
  /\ me' = [me EXCEPT ![c].phase = 2]
  /\ UNCHANGED <<header, server, slot, page, handlers, got, calls>>

\* The header of a request that is being written. claim_prepared leaves the
\* deadline to the server and writes the largest number.
Write(c) ==
  LET s == me[c].slot IN
  /\ pc[c] = "entered"
  /\ slot' = [slot EXCEPT ![s] =
                [FreeSlot(me[c].gen) EXCEPT
                   !.state = "writing", !.epoch = me[c].epoch,
                   !.token = me[c].token, !.phase = me[c].phase,
                   !.deadline = CASE me[c].phase = 0 -> "ahead"
                                  [] me[c].phase = 1 -> "never"
                                  [] me[c].phase = 2 -> slot[s].deadline]]
  /\ GoTo(c, "written")
  /\ UNCHANGED <<header, server, page, guard, handlers, me, got, calls>>

Publish(c) ==
  /\ pc[c] = "written"
  /\ slot' = [slot EXCEPT ![me[c].slot].state = "request"]
  /\ Unlock(c)
  /\ GoTo(c, "waiting")
  /\ UNCHANGED <<header, server, page, handlers, me, got, calls>>

\* try_read_response_snapshot: a copy made under the guard.
MayRead(c) ==
  Unguarded(me[c].slot) /\ Verified(c) /\ IdentityMatches(me[c])

Read(c) ==
  /\ pc[c] = "waiting" /\ MayRead(c) /\ slot[me[c].slot].state = "response"
  /\ got' = [got EXCEPT ![c] = slot[me[c].slot].answer]
  /\ GoTo(c, "read")
  /\ UNCHANGED <<header, server, slot, page, guard, handlers, me, calls>>

\* reopen_response_for_request of a prepared call, whose answer is inline.
MayReopen(c) ==
  /\ MayRead(c) /\ slot[me[c].slot].state = "response"
  /\ slot[me[c].slot].answer # None /\ ~slot[me[c].slot].paged

Reopen(c) ==
  LET s == me[c].slot IN
  /\ pc[c] = "read" /\ me[c].phase = 1 /\ got[c] # None /\ MayReopen(c)
  /\ slot' = [slot EXCEPT ![s] =
                [@ EXCEPT !.state = "writing", !.cancel = FALSE, !.acked = FALSE,
                          !.answer = None, !.ack = "past", !.paged = FALSE]]
  /\ GoTo(c, "reopened")
  /\ got' = [got EXCEPT ![c] = None]
  /\ UNCHANGED <<header, server, page, guard, handlers, me, calls>>

\* _ack and _request_cancel set one flag and are dropped when the guard is
\* taken or the slot is no longer theirs.
Flag(c, states, mark(_)) ==
  LET s == me[c].slot IN
  /\ slot' = IF Unguarded(s) /\ IdentityMatches(me[c]) /\ slot[s].state \in states
               THEN [slot EXCEPT ![s] = mark(@)] ELSE slot
  /\ Forget(c)
  /\ UNCHANGED <<header, server, page, guard, handlers>>

Ack(c) ==
  /\ pc[c] = "read"
  /\ Flag(c, {"response"}, LAMBDA d : [d EXCEPT !.acked = TRUE])

Cancel(c) ==
  /\ pc[c] \in {"waiting", "read", "reopened"}
  /\ Flag(c, {"writing", "request", "processing", "response"},
          LAMBDA d : [d EXCEPT !.cancel = TRUE])

\* Any error, and the death of the client: the system releases its locks.
Leave(c) ==
  /\ pc[c] # "idle"
  /\ Unlock(c) /\ Forget(c)
  /\ UNCHANGED <<header, server, slot, page, handlers>>

-----------------------------------------------------------------------------
\* The server
PagesOf(s, g) == {k \in Pages : page[k] = [slot |-> s, gen |-> g, epoch |-> epoch]}

FreePages == {k \in Pages : page[k] = NoPage}

ResetSlotOnly(s) ==                                   \* a mutant: pages are kept
  slot' = [slot EXCEPT ![s] = FreeSlot(@.gen)] /\ UNCHANGED page

Reset(s) ==
  /\ page' = [k \in Pages |-> IF k \in PagesOf(s, slot[s].gen) THEN NoPage ELSE page[k]]
  /\ slot' = [slot EXCEPT ![s] = FreeSlot(@.gen)]

\* _write_response_header_locked; RESPONSE is its last word.
Responds(s, answer, paged) ==
  slot' = [slot EXCEPT ![s] = [@ EXCEPT !.state = "response", !.answer = answer,
                                        !.acked = FALSE, !.ack = "ahead",
                                        !.paged = paged]]

\* _publish_error_locked for a slot that is requested or processed.
Refuse(s) == Responds(s, None, FALSE) /\ UNCHANGED page

ServerOnly == UNCHANGED <<header, server, guard, clients>>

\* _claim_one_request: a request that is neither foreign, cancelled nor late
\* goes to a handler.
Claim(s) ==
  LET d == slot[s] IN
  /\ server.state = "up" /\ Unguarded(s) /\ d.state = "request"
  /\ IF d.epoch # epoch THEN Reset(s) /\ UNCHANGED handlers
     ELSE IF Cancelled(s) THEN Refuse(s) /\ UNCHANGED handlers
     ELSE /\ slot' = [slot EXCEPT ![s].state = "processing"]
          /\ handlers' = handlers \cup {[slot |-> s, gen |-> d.gen, epoch |-> d.epoch,
                                         token |-> d.token, phase |-> d.phase]}
          /\ UNCHANGED page
  /\ ServerOnly

Accepts(h) == IdentityMatches(h) /\ slot[h.slot].state = "processing"

\* update_processing_deadline, for a call that came without a deadline.
Accept(h) ==
  /\ Unguarded(h.slot) /\ Accepts(h) /\ slot[h.slot].deadline = "never"
  /\ slot' = [slot EXCEPT ![h.slot].deadline = "ahead"]
  /\ UNCHANGED <<page, handlers>> /\ ServerOnly

\* The handler's one answer: inline, in pages, or an error, for want of pages
\* too. A call without a deadline gets one before it is answered.
Answer(h) ==
  /\ Unguarded(h.slot)
  /\ handlers' = handlers \ {h}
  /\ IF ~Accepts(h) THEN UNCHANGED <<slot, page>>
     ELSE \/ Refuse(h.slot)
          \/ /\ ~Cancelled(h.slot) /\ slot[h.slot].deadline # "never"
             /\ \E used \in SUBSET FreePages :
                  /\ Responds(h.slot, [token |-> h.token, phase |-> h.phase], used # {})
                  /\ page' = [k \in Pages |->
                                IF k \in used
                                  THEN [slot |-> h.slot, gen |-> h.gen, epoch |-> epoch]
                                  ELSE page[k]]
  /\ ServerOnly

\* The call is lost to the server: before it has a deadline, because
\* update_processing_deadline raises (the deadline is past by then, or the guard
\* stays busy for a second) and the poller logs that and goes on; or with its
\* answer and its failure, because the guard stays busy. Readers hold the guard
\* too, for steps that are one here, so any request may be lost.
Drop(h) ==
  /\ handlers' = handlers \ {h}
  /\ UNCHANGED <<slot, page>> /\ ServerOnly

ForgottenIfTold(s) == slot[s].acked \/ slot[s].cancel  \* a mutant: not the deadline

\* A response that is not acknowledged is kept until its own deadline.
Forgotten(s) == slot[s].acked \/ slot[s].cancel \/ slot[s].ack = "past"

EndedLate == {"request", "processing", "response"}     \* a mutant: responses too

\* States of a call that a deadline or a cancellation ends with an error.
EndedWithError == {"request", "processing"}

Sweep(s) ==
  LET d == slot[s] IN
  /\ server.state = "up" /\ Unguarded(s)
  /\ \/ /\ d.state # "free" /\ d.epoch # epoch
        /\ Reset(s)
     \/ /\ d.state = "writing" /\ d.epoch = epoch /\ Cancelled(s)
        /\ Reset(s)
     \/ /\ d.state \in EndedWithError /\ d.epoch = epoch /\ Cancelled(s)
        /\ Refuse(s)
     \/ /\ d.state = "response" /\ d.epoch = epoch /\ Forgotten(s)
        /\ Reset(s)
  /\ UNCHANGED handlers /\ ServerOnly

Expire(s) ==
  /\ slot[s].deadline = "ahead"
  /\ slot' = [slot EXCEPT ![s].deadline = "past"]
  /\ UNCHANGED <<page, handlers>> /\ ServerOnly

ExpireAck(s) ==
  /\ slot[s].state = "response" /\ slot[s].ack = "ahead"
  /\ slot' = [slot EXCEPT ![s].ack = "past"]
  /\ UNCHANGED <<page, handlers>> /\ ServerOnly

-----------------------------------------------------------------------------
\* The life of the owner
GoServer(state) == server' = [server EXCEPT !.state = state]

BeginClose ==
  /\ server.state = "up"
  /\ closed' = TRUE /\ GoServer("closing")
  /\ UNCHANGED <<epoch, slot, page, guard, handlers, clients>>

CloseAtOnce == server.state = "closing"               \* a mutant: handlers run

\* close, when every handler has finished.
MayClose == server.state = "closing" /\ handlers = {}

Reclaim(s) ==
  /\ MayClose
  /\ Unguarded(s) /\ slot[s].state # "free"
  /\ Reset(s)
  /\ UNCHANGED handlers /\ ServerOnly

\* At once or at its deadline, whatever is left.
Shut ==
  /\ MayClose
  /\ GoServer("down")
  /\ UNCHANGED <<header, slot, page, guard, handlers, clients>>

Crash ==
  /\ server.state # "down"
  /\ GoServer("down") /\ handlers' = {}
  /\ UNCHANGED <<header, slot, page, guard, clients>>

\* begin_owner_initialization: the new epoch, then the closed flag.
Start ==
  /\ server.state = "down" /\ epoch < MaxEpoch
  /\ epoch' = epoch + 1
  /\ GoServer("fencing")
  /\ UNCHANGED <<closed, slot, page, guard, handlers, clients>>

Fence ==
  /\ server.state = "fencing"
  /\ closed' = TRUE
  /\ server' = [state |-> "init", next |-> 1]
  /\ UNCHANGED <<epoch, slot, page, guard, handlers, clients>>

\* _initialize_files resets the slots one by one, without their guards, then
\* all pages, and opens the channel.
InitSlot ==
  /\ server.state = "init" /\ server.next \in Slots
  /\ slot' = [slot EXCEPT ![server.next] = FreeSlot(0)]
  /\ server' = [server EXCEPT !.next = @ + 1]
  /\ UNCHANGED <<header, page, guard, handlers, clients>>

FinishInit ==
  /\ server.state = "init" /\ server.next \notin Slots
  /\ page' = [k \in Pages |-> NoPage]
  /\ closed' = FALSE /\ GoServer("up")
  /\ UNCHANGED <<epoch, slot, guard, handlers, clients>>

Client(c) ==
  \/ \E s \in Slots : Enter(c, s)
  \/ EnterAgain(c) \/ Write(c) \/ Publish(c) \/ Read(c)
  \/ Reopen(c) \/ Ack(c) \/ Cancel(c) \/ Leave(c)

Handler == \E h \in handlers : Accept(h) \/ Answer(h) \/ Drop(h)

Owner == BeginClose \/ Shut \/ Crash \/ Start \/ Fence \/ InitSlot \/ FinishInit

Next ==
  \/ \E c \in Clients : Client(c)
  \/ \E s \in Slots : Claim(s) \/ Sweep(s) \/ Expire(s) \/ ExpireAck(s) \/ Reclaim(s)
  \/ Handler
  \/ Owner

(***************************************************************************)
(* Time passes, the server polls and sweeps every slot (receive sweeps     *)
(* before each scan, the trigger supervisor in turns), a handler ends, an  *)
(* owner that is down is started and one that closes or starts gets done.  *)
(* A client that holds a guard goes on or dies. Nothing else is asked of   *)
(* clients: they may never read, acknowledge or write their request.       *)
(***************************************************************************)
Leaving(c) == Write(c) \/ Publish(c) \/ (pc[c] \in {"entered", "written"} /\ Leave(c))

Fairness ==
  /\ \A s \in Slots :
       /\ WF_vars(Claim(s)) /\ WF_vars(Sweep(s))
       /\ WF_vars(Expire(s)) /\ WF_vars(ExpireAck(s))
       /\ WF_vars(\E h \in handlers : h.slot = s /\ (Accept(h) \/ Answer(h) \/ Drop(h)))
  /\ WF_vars(Shut \/ Start \/ Fence \/ InitSlot \/ FinishInit)
  /\ \A c \in Clients : WF_vars(Leaving(c))

Spec == Init /\ [][Next]_vars /\ Fairness

-----------------------------------------------------------------------------
(* Every variable keeps its type; a guard belongs to a client that is      *)
(* writing, and only a server that is up or closing has handlers.          *)
Identities ==
  [slot : Slots, gen : Nat, epoch : 1 .. MaxEpoch, token : 0 .. MaxCalls, phase : 0 .. 2]

TypeOK ==
  /\ epoch \in 1 .. MaxEpoch /\ closed \in BOOLEAN
  /\ server \in [state : {"up", "closing", "down", "fencing", "init"},
                 next : 1 .. Cardinality(Slots) + 1]
  /\ \A s \in Slots :
       /\ slot[s].state \in {"free", "writing", "request", "processing", "response"}
       /\ slot[s].deadline \in {"never", "ahead", "past"}
       /\ slot[s].epoch <= epoch /\ slot[s].token <= calls
       /\ ~Unguarded(s) => pc[guard[s]] \in {"entered", "written"} /\ me[guard[s]].slot = s
  /\ handlers \subseteq Identities
  /\ handlers # {} => server.state \in {"up", "closing"}
  /\ \A c \in Clients : me[c] = NoCall \/ me[c] \in Identities

(* A client that copies a result copies the one for its own call and phase, *)
(* although slots are used again, handlers answer late, servers restart    *)
(* and clients of an earlier owner write into slots that were reset.       *)
OwnAnswer ==
  \A c \in Clients :
    pc[c] = "read" /\ got[c] # None => got[c] = [token |-> me[c].token, phase |-> me[c].phase]

(* While the server runs, a page that is taken serves a response that is   *)
(* still in its slot: no page is lost, whoever ended the call and how.     *)
PagesInUse ==
  server.state \in {"up", "closing"} =>
    \A k \in Pages \ FreePages :
      LET d == slot[page[k].slot]
      IN  d.state = "response" /\ d.paged /\ d.gen = page[k].gen /\ d.epoch = page[k].epoch

(* A call is answered once: a response in a slot keeps its answer until    *)
(* the slot is reset or reopened, whichever of handler and sweep came first *)
(* and however late the other one is.                                      *)
ResponseStands ==
  [][\A s \in Slots :
       slot[s].state = "response" /\ slot'[s].state = "response" =>
         slot'[s].answer = slot[s].answer /\ slot'[s].paged = slot[s].paged]_vars

(* A prepared call without a deadline that nobody works on: its client     *)
(* died between the header and the state word, or its request was claimed  *)
(* and lost. Nothing frees the slot but a cancellation by a client that    *)
(* still waits, or the next start.                                         *)
Stuck(s) ==
  /\ slot[s].deadline = "never" /\ ~slot[s].cancel /\ Unguarded(s)
  /\ slot[s].state = "writing" \/ slot[s].state = "processing"
  /\ \A h \in handlers : h.slot = s => ~Accepts(h)

(* Every other slot comes back, although clients die at any step, never    *)
(* acknowledge or reopen an answer and write nothing, handlers lose calls  *)
(* and answers, and owners die.                                            *)
SlotsComeBack ==
  \A s \in Slots :
    slot[s].state # "free" ~> (slot[s].state = "free" \/ Stuck(s) \/ server.state = "down")
=============================================================================
