----------------------------- MODULE BufferArena -----------------------------
(***************************************************************************)
(* The image arena that processes share: the broker that owns it           *)
(* (local_buffer_arena_pool.py over mmap_buffer_arena.py), the descriptors *)
(* in state.mmap that outlive it, and the processes that read and write    *)
(* images in place under guard bytes of access.guard                       *)
(* (MmapBufferArenaExternalAccess).                                        *)
(*                                                                         *)
(* The broker is one thread. It checks and publishes a descriptor under    *)
(* its publication guard, and a process checks a locator under the same    *)
(* guard: each is one step. But a publication is two writes, FREE with the *)
(* body and then the state (_publish_descriptor), and the broker may die   *)
(* between them (CutShort). A locator names an extent and says which lease *)
(* it was; a receipt is a locator with the token of its owner.             *)
(***************************************************************************)
EXTENDS BuddyAllocator

CONSTANTS Owners,      \* processes that allocate, write and hold receipts
          Readers,     \* processes that are given a BufferRef
          MaxTokens,   \* bound: allocations and transfers together
          MaxEpoch     \* bound: starts of the broker

ASSUME ArenaAssumption ==
  Owners \cap Readers = {} /\ MaxTokens \in Nat \ {0} /\ MaxEpoch \in Nat \ {0}

VARIABLES epoch,     \* of the broker that wrote the header last
          up,        \* is that broker alive
          alloc,     \* its allocator, in memory (of a dead one: what it was)
          pending,   \* descriptors its current reclaim call still has to do
          tokens,    \* how many owner tokens were drawn
          desc,      \* the descriptor table
          proc,      \* what each process knows and does
          cut        \* history: has a death cut the publication of a lease in use

vars == <<epoch, up, alloc, pending, tokens, desc, proc, cut>>

Procs == Owners \cup Readers

\* descriptor_count: one for each unit.
Index == 0 .. ArenaSize - 1
InUse == {"writing", "active"}
Reclaiming == {"revoking", "quarantined"}
\* A lease that was given no ttl_seconds never runs out (_deadline_from_ttl);
\* once it is being reclaimed, nobody looks at its deadline.
Deadlines == {"none", "ahead", "past"}
Block0 == Block(0, 0)
Locator(i) == [at |-> i, gen |-> desc[i].gen, epoch |-> epoch, ext |-> desc[i].ext]
NoLocator == [at |-> 0, gen |-> 0, epoch |-> 0, ext |-> Block0]

Unaware == [pc |-> "idle", loc |-> NoLocator, token |-> 0]

Init ==
  /\ epoch = 1 /\ up = TRUE /\ alloc = NewAllocator /\ pending = {} /\ tokens = 0
  /\ desc = [i \in Index |-> [state |-> "free", gen |-> 0, owner |-> 0,
                              ext |-> Block0, deadline |-> "none"]]
  /\ proc = [p \in Procs |-> Unaware] /\ cut = FALSE

Occupied == {i \in Index : desc[i].state # "free"}
Guarding(p) == proc[p].pc # "idle"
Guards(i) == {p \in Procs : Guarding(p) /\ proc[p].loc.at = i}
Writers(i) == {p \in Guards(i) : proc[p].pc \in {"writer", "writing"}}

-----------------------------------------------------------------------------
\* Processes
GoTo(p, step) == proc' = [proc EXCEPT ![p].pc = step]

\* A BufferRef reaches a reader, which may wait with it for as long as it likes.
Learn(p) ==
  /\ p \in Readers /\ ~Guarding(p)
  /\ \E i \in Index : desc[i].state = "active" /\ proc' = [proc EXCEPT ![p].loc = Locator(i)]
  /\ UNCHANGED <<epoch, up, alloc, pending, tokens, desc, cut>>

\* acquire_reader_view and acquire_writer_view: first the guard, ...
GuardToRead(p) ==
  /\ p \in Readers /\ ~Guarding(p) /\ proc[p].loc # NoLocator
  /\ GoTo(p, "reader")
  /\ UNCHANGED <<epoch, up, alloc, pending, tokens, desc, cut>>

GuardToWrite(p) ==
  /\ p \in Owners /\ ~Guarding(p) /\ proc[p].loc # NoLocator /\ Writers(proc[p].loc.at) = {}
  /\ GoTo(p, "writer")
  /\ UNCHANGED <<epoch, up, alloc, pending, tokens, desc, cut>>

MatchesExtent(loc) ==                                   \* a mutant: no generation
  LET d == desc[loc.at]
  IN  loc.epoch = epoch /\ d.ext = loc.ext /\ d.deadline # "past"

\* _require_locator.
Matches(loc) ==
  LET d == desc[loc.at]
  IN  loc.epoch = epoch /\ d.gen = loc.gen /\ d.ext = loc.ext /\ d.deadline # "past"

\* ... then the descriptor, and a view only if it still says the same.
View(p) ==
  LET loc == proc[p].loc IN
  /\ \/ proc[p].pc = "reader" /\ desc[loc.at].state = "active" /\ GoTo(p, "reading")
     \/ proc[p].pc = "writer" /\ desc[loc.at].state = "writing" /\ GoTo(p, "writing")
  /\ Matches(loc)
  /\ UNCHANGED <<epoch, up, alloc, pending, tokens, desc, cut>>

\* The check failed: the locator is of no use any more.
Turned(p) ==
  LET loc == proc[p].loc IN
  /\ \/ proc[p].pc = "reader" /\ ~(Matches(loc) /\ desc[loc.at].state = "active")
     \/ proc[p].pc = "writer" /\ ~(Matches(loc) /\ desc[loc.at].state = "writing")
  /\ proc' = [proc EXCEPT ![p] = Unaware]
  /\ UNCHANGED <<epoch, up, alloc, pending, tokens, desc, cut>>

\* The view is closed, or its process died: the guard is free either way.
EndView(p) ==
  /\ \/ proc[p].pc = "writing" /\ GoTo(p, "idle")
     \/ proc[p].pc = "reading" /\ proc' = [proc EXCEPT ![p] = Unaware]
  /\ UNCHANGED <<epoch, up, alloc, pending, tokens, desc, cut>>

-----------------------------------------------------------------------------
\* Requests to the broker, one after the other
Ready == up /\ pending = {}

\* _require_receipt in one of the given states.
Owns(p, states) ==
  LET loc == proc[p].loc
      d   == desc[loc.at]
  IN  /\ proc[p].token # 0 /\ loc.epoch = epoch
      /\ d.gen = loc.gen /\ d.ext = loc.ext /\ d.owner = proc[p].token
      /\ d.state \in states

\* allocate and allocate_external: the lowest free descriptor. The caller says
\* how long the lease may live, or, by default, nothing.
Allocate(p, k) ==
  LET i   == Min(Index \ Occupied)
      ext == Place(alloc, k)
      gen == Max({desc[i].gen, 1})
  IN
  /\ Ready /\ ~Guarding(p) /\ tokens < MaxTokens
  /\ Occupied # Index /\ CanAllocate(alloc, k)
  /\ alloc' = Taken(alloc, k)
  /\ tokens' = tokens + 1
  /\ \E d \in {"none", "ahead"} :
       desc' = [desc EXCEPT ![i] = [state |-> "writing", gen |-> gen, owner |-> tokens',
                                    ext |-> ext, deadline |-> d]]
  /\ proc' = [proc EXCEPT ![p].token = tokens',
                          ![p].loc = [at |-> i, gen |-> gen, epoch |-> epoch, ext |-> ext]]
  /\ UNCHANGED <<epoch, up, pending, cut>>

\* publish_active, asked for by the process that wrote when it is done.
Commit(p) ==
  /\ Ready /\ ~Guarding(p) /\ Owns(p, {"writing"}) /\ desc[proc[p].loc.at].deadline # "past"
  /\ desc' = [desc EXCEPT ![proc[p].loc.at].state = "active"]
  /\ UNCHANGED <<epoch, up, alloc, pending, tokens, proc, cut>>

\* A lease goes from p to q: a new token and a deadline, which it must have.
HandOver(p, q, state) ==
  LET i == proc[p].loc.at IN
  /\ tokens < MaxTokens
  /\ p = q \/ ~Guarding(q)
  /\ tokens' = tokens + 1
  /\ desc' = [desc EXCEPT ![i].owner = tokens', ![i].state = state, ![i].deadline = "ahead"]
  /\ proc' = [proc EXCEPT ![q].token = tokens', ![q].loc = proc[p].loc]
  /\ UNCHANGED <<epoch, up, alloc, pending, cut>>

\* publish_external_active_and_transfer, asked for by the service that holds
\* the receipt while another process may still write: the writer guard tells.
Publish(p, q) ==
  LET i == proc[p].loc.at IN
  /\ Ready /\ Owns(p, {"writing"}) /\ desc[i].deadline # "past" /\ Writers(i) = {}
  /\ HandOver(p, q, "active")

\* transfer_owners_batch, of one lease. It would take one that is being written
\* too, but its only caller hands over results it has committed.
Transfer(p, q) ==
  /\ Ready /\ Owns(p, {"active"})
  /\ HandOver(p, q, "active")

\* conditional_release; a receipt that is not the owner's changes nothing.
Release(p) ==
  /\ Ready /\ Owns(p, InUse \cup Reclaiming)
  /\ pending' = {proc[p].loc.at}
  /\ UNCHANGED <<epoch, up, alloc, tokens, desc, proc, cut>>

-----------------------------------------------------------------------------
\* Reclaiming
\* The deadline of a lease that has one passes.
Expire(i) ==
  /\ desc[i].state \in InUse /\ desc[i].deadline = "ahead"
  /\ desc' = [desc EXCEPT ![i].deadline = "past"]
  /\ UNCHANGED <<epoch, up, alloc, pending, tokens, proc, cut>>

DueOnce ==                                              \* a mutant: no second try
  {i \in Index : desc[i].state \in InUse /\ desc[i].deadline = "past"}

Due == {i \in Index : \/ desc[i].state \in InUse /\ desc[i].deadline = "past"
                      \/ desc[i].state \in Reclaiming}

\* sweep, twice a second. (Without used extents it does not look.)
Sweep ==
  /\ Ready /\ alloc.used # {} /\ Due # {}
  /\ pending' = Due
  /\ UNCHANGED <<epoch, up, alloc, tokens, desc, proc, cut>>

\* request_reclaim, first half: publish REVOKING, so that no check passes.
Revoke ==
  LET i == Min(pending) IN
  /\ up /\ pending # {} /\ desc[i].state \in InUse
  /\ desc' = [desc EXCEPT ![i].state = "revoking", ![i].deadline = "none"]
  /\ UNCHANGED <<epoch, up, alloc, pending, tokens, proc, cut>>

WriterGone(i) == Writers(i) = {}                        \* a mutant: readers are not asked

AllGone(i) == Guards(i) = {}

\* request_reclaim, second half, _try_finalize_reclaim: all guards at once, or
\* leave it; after the grace period it is called quarantined.
Finalize ==
  LET i == Min(pending) IN
  /\ up /\ pending # {} /\ desc[i].state \in Reclaiming
  /\ pending' = pending \ {i}
  /\ IF AllGone(i)
     THEN /\ alloc' = Freed(alloc, desc[i].ext)
          /\ desc' = [desc EXCEPT ![i] = [state |-> "free", gen |-> desc[i].gen + 1, owner |-> 0,
                                          ext |-> Block0, deadline |-> "none"]]
     ELSE /\ desc' \in {desc, [desc EXCEPT ![i].state = "quarantined"]}
          /\ UNCHANGED alloc
  /\ UNCHANGED <<epoch, up, tokens, proc, cut>>

-----------------------------------------------------------------------------
\* The broker dies; processes go on with their views. (A death after the last
\* start that MaxEpoch allows is not modelled.)
Dies ==
  /\ up /\ epoch < MaxEpoch
  /\ up' = FALSE /\ pending' = {}
  /\ UNCHANGED <<epoch, alloc, tokens, proc>>

\* It was not publishing anything, or a state word or FREE, which are one write.
Crash == Dies /\ UNCHANGED <<desc, cut>>

\* A lease in use is published again by its reclaim, and by what its owner asks
\* for: a transfer, or a shorter content (resize_writing_content).
BeingPublished(i) ==
  \/ pending # {} /\ i = Min(pending)
  \/ Ready /\ \E p \in Owners : proc[p].loc.at = i /\ Owns(p, InUse)

\* It dies between the two writes of _publish_descriptor: the body is there,
\* and FREE, for a lease that was in use ...
CutShort(i) ==
  /\ desc[i].state \in InUse /\ BeingPublished(i)
  /\ Dies /\ cut' = TRUE
  /\ desc' = [desc EXCEPT ![i].state = "free"]

\* ... or that was to begin. (Of a free descriptor only the generation counts.)
CutFirst ==
  LET i == Min(Index \ Occupied) IN
  /\ Ready /\ Occupied # Index
  /\ Dies /\ UNCHANGED cut
  /\ desc' = [desc EXCEPT ![i].gen = Max({@, 1})]

\* _restore_descriptors, the header with a new epoch, and then
\* _recover_previous_epoch over every lease it found. FREE it skips.
Start ==
  /\ ~up
  /\ up' = TRUE /\ epoch' = epoch + 1
  /\ alloc' = Rebuilt({desc[i].ext : i \in Occupied})
  /\ pending' = Occupied
  /\ UNCHANGED <<tokens, desc, proc, cut>>

Access(p) == View(p) \/ Turned(p) \/ EndView(p)
Process(p) == Learn(p) \/ GuardToRead(p) \/ GuardToWrite(p) \/ Access(p)
Request(p) ==
  \/ \E k \in Orders : Allocate(p, k)
  \/ \E q \in Owners : Publish(p, q) \/ Transfer(p, q)
  \/ Commit(p) \/ Release(p)
Reclaim == Revoke \/ Finalize
Death == Crash \/ CutFirst \/ \E i \in Index : CutShort(i)

Next ==
  \/ \E p \in Procs : Process(p)
  \/ \E p \in Owners : Request(p)
  \/ \E i \in Index : Expire(i)
  \/ Sweep \/ Reclaim \/ Death \/ Start

\* Time passes, so a deadline does, where there is one; a view is not held for
\* ever, a dead broker is started again, and a broker sweeps and ends the
\* reclaim calls it begins.
Fairness ==
  /\ WF_vars(\E i \in Index : Expire(i))
  /\ WF_vars(Sweep) /\ WF_vars(Reclaim) /\ WF_vars(Start)
  /\ \A p \in Procs : WF_vars(Access(p))

Spec == Init /\ [][Next]_vars /\ Fairness

-----------------------------------------------------------------------------
\* The values of the variables; as long as no publication of a lease in use was
\* cut, a view is open only on an extent that its descriptor still holds.
TypeOK ==
  /\ epoch \in 1 .. MaxEpoch /\ up \in BOOLEAN /\ tokens \in 0 .. MaxTokens /\ cut \in BOOLEAN
  /\ pending \subseteq Occupied /\ (pending # {} => up)
  /\ alloc.free \subseteq Extents /\ alloc.used \subseteq Extents /\ alloc.reserve \in BOOLEAN
  /\ \A i \in Index : /\ desc[i].state \in {"free"} \cup InUse \cup Reclaiming
                      /\ desc[i].gen \in 0 .. MaxTokens + 1 /\ desc[i].owner \in 0 .. tokens
                      /\ desc[i].ext \in Extents /\ desc[i].deadline \in Deadlines
  /\ \A p \in Procs :
       /\ proc[p].pc \in {"idle", "reader", "writer", "reading", "writing"}
       /\ ~cut /\ proc[p].pc \in {"reading", "writing"} =>
            LET i == proc[p].loc.at IN i \in Occupied /\ desc[i].ext = proc[p].loc.ext
                                                      /\ desc[i].gen = proc[p].loc.gen

\* Bytes that one process looks at are never written by another one: not by
\* the writer of the same lease, not by that of a later lease on the same
\* place, not across a restart of the broker: leases of an earlier epoch are
\* reclaimed under their guards and not given away (acquire_reader_view,
\* acquire_writer_view, _try_finalize_reclaim, _recover_previous_epoch).
ViewsExclusive ==
  \A p, q \in Procs :
    p # q /\ proc[p].pc = "writing" /\ proc[q].pc \in {"reading", "writing"} =>
      Apart(proc[p].loc.ext, proc[q].loc.ext)

\* So it is across deaths of the broker anywhere but in the publication of a
\* lease that is in use, between FREE and the state; after such a death
\* ViewsExclusive is false: the next start gives the extent away under an open
\* view, against what _recover_previous_epoch says of itself.
ViewsApart == ~cut => ViewsExclusive

\* The extents of the leases are the used extents of the allocator, no two
\* overlap, and the tree a start would build from the descriptors is the tree
\* in memory, between any two publications (restore_extent after free and
\* allocate in any order, _assert_invariants_locked); and the tree of a broker
\* that died is the one the next start builds, unless a death has cut the
\* publication of a lease in use, which that start does not find.
RestartRebuilds ==
  LET extents == {desc[i].ext : i \in Occupied} IN
  /\ \A i, j \in Occupied : i # j => Apart(desc[i].ext, desc[j].ext)
  /\ up \/ ~cut => alloc = Rebuilt(extents)

\* A request is refused only when no aligned hole of its size exists: merging
\* leaves no hole in pieces (allocate against free).
NoFalseShortage ==
  up => \A k \in Orders : CanAllocate(alloc, k) <=> HasRoom(alloc, k)

\* A lease that was given no deadline and that nobody has released.
Kept(i) == desc[i].state \in InUse /\ desc[i].deadline = "none"

\* Whatever happens to its owner, its readers and the broker, a lease that has
\* a deadline, or that is being reclaimed, ends: as allocations are bounded,
\* only leases without a deadline are left again and again (sweep,
\* quarantine). And a restart takes the leases of any kind that it finds out
\* of use (recovery), so that those end too.
ExtentsComeBack ==
  /\ []<>(\A i \in Occupied : Kept(i))
  /\ ~up ~> up /\ \A i \in Index : desc[i].state \notin InUse
=============================================================================
