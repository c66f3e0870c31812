-------------------------- MODULE BufferArena_proofs --------------------------
(***************************************************************************)
(* Proofs about the image arena, for any number of processes, leases and   *)
(* lives of the broker and any geometry. The guards: what a process looks  *)
(* at is the extent of a lease that cannot be given away meanwhile, and    *)
(* writers and readers exclude each other; that holds until a death cuts   *)
(* the publication of a lease in use (cut). The table, always: no two      *)
(* leases overlap, and the tree of free blocks is the one their extents    *)
(* determine (BuddyAllocator_proofs), before and after a restart. Both     *)
(* together: until such a death no process writes bytes that another one   *)
(* looks at.                                                               *)
(***************************************************************************)
EXTENDS BufferArena, BuddyAllocator_proofs

States == {"free"} \cup InUse \cup Reclaiming
Writing == {"writer", "writing"}
Reading == {"reader", "reading"}

(* The fields of the table and of the processes. Of an extent nothing is    *)
(* assumed: it is whatever the allocator gave.                              *)
DescType ==
  /\ desc = [i \in Index |-> desc[i]]
  /\ \A i \in Index :
       LET d == desc[i] IN
       /\ d = [state |-> d.state, gen |-> d.gen, owner |-> d.owner, ext |-> d.ext, deadline |-> d.deadline]
       /\ d.state \in States /\ d.gen \in Nat /\ d.owner \in 0 .. tokens
       /\ d.state # "free" => d.gen # 0
       /\ d.deadline \in Deadlines
ProcType ==
  /\ proc = [p \in Procs |-> proc[p]]
  /\ \A p \in Procs :
       LET r == proc[p] IN
       /\ r = [pc |-> r.pc, loc |-> r.loc, token |-> r.token]
       /\ r.pc \in {"idle"} \cup Writing \cup Reading /\ r.token \in 0 .. tokens
       /\ r.pc \in Writing => p \in Owners
CountType == tokens \in Nat /\ epoch \in Nat \ {0}
Types == DescType /\ ProcType /\ CountType

(* A locator names a lease the descriptor has or had: no later one, and not *)
(* the one to come when the descriptor is free.                             *)
Named(loc) ==
  /\ loc.at \in Index /\ loc.gen \in Nat \ {0} /\ loc.gen <= desc[loc.at].gen
  /\ desc[loc.at].state = "free" => loc.gen < desc[loc.at].gen
LocatorInv == \A p \in Procs : IF proc[p].loc = NoLocator THEN ~Guarding(p) ELSE Named(proc[p].loc)

(* A token has one holder, and as long as a lease is being written, the     *)
(* process that knows its locator as an owner is the one with its token.    *)
TokenInv ==
  /\ \A p, q \in Procs : proc[p].token = proc[q].token /\ proc[p].token # 0 => p = q
  /\ \A p \in Owners :
       LET loc == proc[p].loc IN
       loc # NoLocator /\ desc[loc.at].state = "writing" /\ desc[loc.at].gen = loc.gen
         => desc[loc.at].owner = proc[p].token

(* An open view is on the lease its locator names, in a state that fits.    *)
ViewInv ==
  \A p \in Procs : proc[p].pc \in {"reading", "writing"} =>
    LET loc == proc[p].loc IN
    /\ desc[loc.at].gen = loc.gen /\ desc[loc.at].ext = loc.ext
    /\ desc[loc.at].state \in Reclaiming \cup
         {IF proc[p].pc = "reading" THEN "active" ELSE "writing"}

(* One writer to a descriptor, and no reader beside it.                     *)
ApartInv ==
  /\ \A p, q \in Procs :
       proc[p].pc \in Writing /\ proc[q].pc \in Writing /\ proc[p].loc.at = proc[q].loc.at => p = q
  /\ \A p, q \in Procs :
       ~(proc[p].pc = "writing" /\ proc[q].pc = "reading" /\ proc[p].loc.at = proc[q].loc.at)

GInv == Types /\ LocatorInv /\ TokenInv /\ ViewInv /\ ApartInv

-----------------------------------------------------------------------------
(* The least of a set of natural numbers is in it.                          *)
LEMMA MinIn == ASSUME NEW S, S \subseteq Nat, S # {} PROVE  Min(S) \in S
  <1>1. PICK x \in S : \A y \in S : x <= y  BY LeastNumber
  <1> QED  BY <1>1 DEF Min

\* Descriptors are numbered.
LEMMA IndexNat == Index \subseteq Nat
  BY DEF Index

\* The initial states: nobody looks at anything.
LEMMA InitInv == Init => GInv
  <1> SUFFICES ASSUME Init PROVE GInv  OBVIOUS
  <1>1. \A i \in Index : desc[i] = [state |-> "free", gen |-> 0, owner |-> 0, ext |-> Block0,
                                    deadline |-> "none"]
    BY DEF Init
  <1>2. \A p \in Procs : proc[p] = [pc |-> "idle", loc |-> NoLocator, token |-> 0]
    BY DEF Init, Unaware
  <1>3. DescType
    <2>1. desc = [i \in Index |-> desc[i]] /\ tokens = 0  BY DEF Init
    <2>2. ASSUME NEW i \in Index
          PROVE  LET d == desc[i] IN
                 /\ d = [state |-> d.state, gen |-> d.gen, owner |-> d.owner, ext |-> d.ext,
                         deadline |-> d.deadline]
                 /\ d.state \in States /\ d.gen \in Nat /\ d.owner \in 0 .. tokens
                 /\ d.state # "free" => d.gen # 0
                 /\ d.deadline \in Deadlines
      BY <1>1, <2>1 DEF States, Deadlines
    <2> QED  BY <2>1, <2>2 DEF DescType
  <1>4. ProcType  BY <1>2 DEF Init, ProcType, Writing, Unaware
  <1>5. CountType  BY DEF Init, CountType
  <1>6. LocatorInv  BY <1>2 DEF LocatorInv, Guarding
  <1>7. TokenInv  BY <1>2 DEF TokenInv, Procs
  <1>8. ViewInv /\ ApartInv  BY <1>2 DEF ViewInv, ApartInv, Writing
  <1> QED  BY <1>3, <1>4, <1>5, <1>6, <1>7, <1>8 DEF GInv, Types

-----------------------------------------------------------------------------
(* What a step does to one process.                                         *)
Becomes(p, step, loc, token) ==
  proc' = [proc EXCEPT ![p] = [pc |-> step, loc |-> loc, token |-> token]]

\* GoTo changes the step of one process alone.
LEMMA GoToBecomes ==
  ASSUME ProcType, NEW p \in Procs, NEW s, GoTo(p, s)
  PROVE  Becomes(p, s, proc[p].loc, proc[p].token)
  <1>1. proc[p] = [pc |-> proc[p].pc, loc |-> proc[p].loc, token |-> proc[p].token]
    BY DEF ProcType
  <1>2. [proc[p] EXCEPT !.pc = s] = [pc |-> s, loc |-> proc[p].loc, token |-> proc[p].token]
    BY <1>1
  <1> QED  BY <1>2 DEF GoTo, Becomes

\* The table of processes after one of them changed.
LEMMA BecomesTable ==
  ASSUME ProcType, NEW p \in Procs, NEW s, NEW l, NEW t, Becomes(p, s, l, t)
  PROVE  proc' = [q \in Procs |-> proc'[q]] /\ proc'[p] = [pc |-> s, loc |-> l, token |-> t]
  <1> DEFINE r == [pc |-> s, loc |-> l, token |-> t]
  <1>1. proc' = [proc EXCEPT ![p] = r]  BY DEF Becomes
  <1>2. proc = [q \in Procs |-> proc[q]]  BY DEF ProcType
  <1> HIDE DEF r
  <1>3. proc'[p] = r /\ proc' = [q \in Procs |-> proc'[q]]  BY <1>1, <1>2
  <1> QED  BY <1>3 DEF r

\* That process is as it became, and the others are as they were.
LEMMA AfterBecomes ==
  ASSUME ProcType, NEW p \in Procs, NEW s, NEW l, NEW t, Becomes(p, s, l, t)
  PROVE  /\ proc'[p].pc = s /\ proc'[p].loc = l /\ proc'[p].token = t
         /\ \A q \in Procs : q # p => proc'[q] = proc[q]
  <1>1. proc'[p].pc = s /\ proc'[p].loc = l /\ proc'[p].token = t
    <2>1. proc'[p] = [pc |-> s, loc |-> l, token |-> t]  BY BecomesTable
    <2> QED  BY <2>1
  <1> DEFINE r == [pc |-> s, loc |-> l, token |-> t]
  <1>2. proc' = [proc EXCEPT ![p] = r]  BY DEF Becomes
  <1>3. proc = [q \in Procs |-> proc[q]]  BY DEF ProcType
  <1> HIDE DEF r
  <1>4. \A q \in Procs : q # p => proc'[q] = proc[q]  BY <1>2, <1>3
  <1> QED  BY <1>1, <1>4

\* Such a change keeps the type of the table.
LEMMA ProcTypeKept ==
  ASSUME ProcType, NEW p \in Procs, NEW s, NEW l, NEW t, Becomes(p, s, l, t),
         s \in {"idle"} \cup Writing \cup Reading, s \in Writing => p \in Owners,
         tokens \in Nat, tokens' \in Nat, tokens <= tokens', t \in 0 .. tokens'
  PROVE  ProcType'
  <1>1. proc' = [q \in Procs |-> proc'[q]]  BY BecomesTable
  <1> SUFFICES ASSUME NEW q \in Procs
               PROVE  /\ proc'[q] = [pc |-> proc'[q].pc, loc |-> proc'[q].loc, token |-> proc'[q].token]
                      /\ proc'[q].pc \in {"idle"} \cup Writing \cup Reading
                      /\ proc'[q].token \in 0 .. tokens'
                      /\ proc'[q].pc \in Writing => q \in Owners
    BY <1>1 DEF ProcType
  <1>2. CASE q = p
    <2>1. proc'[p].pc = s /\ proc'[p].loc = l /\ proc'[p].token = t  BY AfterBecomes
    <2>2. proc'[p] = [pc |-> s, loc |-> l, token |-> t]  BY BecomesTable
    <2> QED  BY <1>2, <2>1, <2>2
  <1>3. CASE q # p
    <2>1. proc'[q] = proc[q]  BY <1>3, AfterBecomes
    <2>2. /\ proc[q] = [pc |-> proc[q].pc, loc |-> proc[q].loc, token |-> proc[q].token]
          /\ proc[q].pc \in {"idle"} \cup Writing \cup Reading
          /\ proc[q].token \in 0 .. tokens
          /\ proc[q].pc \in Writing => q \in Owners
      BY DEF ProcType
    <2>3. proc[q].token \in 0 .. tokens'  BY <2>2
    <2> QED  BY <2>1, <2>2, <2>3
  <1> QED  BY <1>2, <1>3

(* A process that takes, opens or leaves a view, or is given a locator: the *)
(* table stays, and whoever comes to write is the only one there.           *)
LEMMA ProcessKeeps ==
  ASSUME GInv, NEW p \in Procs, NEW s, NEW l, NEW t, Becomes(p, s, l, t),
         desc' = desc, tokens' = tokens, epoch' = epoch,
         s \in {"idle"} \cup Writing \cup Reading, s \in Writing => p \in Owners,
         t \in {0, proc[p].token},
         IF l = NoLocator THEN s = "idle" ELSE Named(l),
         p \in Owners => l = NoLocator \/ (l = proc[p].loc /\ t = proc[p].token),
         s \in {"reading", "writing"} =>
           /\ desc[l.at].gen = l.gen /\ desc[l.at].ext = l.ext
           /\ desc[l.at].state = IF s = "reading" THEN "active" ELSE "writing",
         s \in Writing => \A q \in Procs : proc[q].pc \in Writing /\ proc[q].loc.at = l.at => q = p
  PROVE  GInv'
  <1>t. Types  BY DEF GInv
  <1>a. ProcType /\ DescType /\ CountType  BY <1>t DEF Types
  <1>b. /\ proc'[p].pc = s /\ proc'[p].loc = l /\ proc'[p].token = t
        /\ \A q \in Procs : q # p => proc'[q] = proc[q]
    BY <1>a, AfterBecomes
  <1>c. \A q \in Procs : proc[q].token \in 0 .. tokens  BY <1>a DEF ProcType
  <1>1. ProcType'
    <2>1. t \in 0 .. tokens' /\ tokens \in Nat /\ tokens' \in Nat /\ tokens <= tokens'
      BY <1>a, <1>c DEF CountType
    <2> QED  BY <1>a, <2>1, ProcTypeKept
  <1>2. DescType' /\ CountType'
    BY <1>a DEF DescType, CountType, Index
  <1>3. LocatorInv'
    <2> SUFFICES ASSUME NEW q \in Procs
                 PROVE  (IF proc[q].loc = NoLocator THEN ~Guarding(q) ELSE Named(proc[q].loc))'
      BY DEF LocatorInv
    <2>1. CASE q = p  BY <2>1, <1>b DEF Guarding, Named
    <2>2. CASE q # p
      <3>1. IF proc[q].loc = NoLocator THEN ~Guarding(q) ELSE Named(proc[q].loc)
        BY DEF GInv, LocatorInv
      <3> QED  BY <3>1, <2>2, <1>b DEF Guarding, Named
    <2> QED  BY <2>1, <2>2
  <1>4. TokenInv'
    <2>0. TokenInv  BY DEF GInv
    <2>1. ASSUME NEW q1 \in Procs, NEW q2 \in Procs, proc'[q1].token = proc'[q2].token,
                 proc'[q1].token # 0
          PROVE  q1 = q2
      <3>1. proc'[q1].token = proc[q1].token  BY <1>b, <2>1
      <3>2. proc'[q2].token = proc[q2].token  BY <1>b, <2>1
      <3> QED  BY <2>0, <2>1, <3>1, <3>2 DEF TokenInv
    <2>2. ASSUME NEW q \in Owners, proc'[q].loc # NoLocator,
                 desc[proc'[q].loc.at].state = "writing",
                 desc[proc'[q].loc.at].gen = proc'[q].loc.gen
          PROVE  desc[proc'[q].loc.at].owner = proc'[q].token
      <3>1. q \in Procs  BY DEF Procs
      <3>2. proc'[q].loc = proc[q].loc /\ proc'[q].token = proc[q].token  BY <1>b, <2>2, <3>1
      <3> QED  BY <2>0, <2>2, <3>2 DEF TokenInv
    <2> QED  BY <2>1, <2>2 DEF TokenInv
  <1>5. ViewInv'
    <2> SUFFICES ASSUME NEW q \in Procs, proc'[q].pc \in {"reading", "writing"}
                 PROVE  /\ desc[proc'[q].loc.at].gen = proc'[q].loc.gen
                        /\ desc[proc'[q].loc.at].ext = proc'[q].loc.ext
                        /\ desc[proc'[q].loc.at].state \in Reclaiming \cup
                             {IF proc'[q].pc = "reading" THEN "active" ELSE "writing"}
      BY DEF ViewInv
    <2>1. CASE q = p  BY <2>1, <1>b
    <2>2. CASE q # p  BY <2>2, <1>b DEF GInv, ViewInv
    <2> QED  BY <2>1, <2>2
  <1>6. ApartInv'
    <2>0. ApartInv /\ ViewInv  BY DEF GInv
    <2>1. ASSUME NEW q1 \in Procs, NEW q2 \in Procs, proc'[q1].pc \in Writing,
                 proc'[q2].pc \in Writing, proc'[q1].loc.at = proc'[q2].loc.at
          PROVE  q1 = q2
      BY <2>0, <2>1, <1>b DEF ApartInv
    <2>2. ASSUME NEW q1 \in Procs, NEW q2 \in Procs, proc'[q1].pc = "writing",
                 proc'[q2].pc = "reading", proc'[q1].loc.at = proc'[q2].loc.at
          PROVE  FALSE
      <3>1. CASE q1 # p /\ q2 # p  BY <2>0, <2>2, <3>1, <1>b DEF ApartInv
      <3>2. CASE q1 = p
        <4>1. q2 # p /\ desc[l.at].state = "writing"  BY <3>2, <2>2, <1>b
        <4>2. desc[proc[q2].loc.at].state \in Reclaiming \cup {"active"}
          BY <4>1, <2>0, <2>2, <1>b DEF ViewInv
        <4> QED  BY <4>1, <4>2, <3>2, <2>2, <1>b DEF Reclaiming
      <3>3. CASE q2 = p
        <4>1. q1 # p /\ desc[l.at].state = "active"  BY <3>3, <2>2, <1>b
        <4>2. desc[proc[q1].loc.at].state \in Reclaiming \cup {"writing"}
          BY <4>1, <2>0, <2>2, <1>b DEF ViewInv
        <4> QED  BY <4>1, <4>2, <3>3, <2>2, <1>b DEF Reclaiming
      <3> QED  BY <3>1, <3>2, <3>3
    <2> QED  BY <2>1, <2>2 DEF ApartInv
  <1> QED  BY <1>1, <1>2, <1>3, <1>4, <1>5, <1>6 DEF GInv, Types

-----------------------------------------------------------------------------
(* What a step does to one descriptor.                                      *)
Entry(state, gen, owner, ext, deadline) ==
  [state |-> state, gen |-> gen, owner |-> owner, ext |-> ext, deadline |-> deadline]
Holds(i, state, gen, owner, ext, deadline) ==
  desc' = [desc EXCEPT ![i] = Entry(state, gen, owner, ext, deadline)]

\* The table of descriptors after one of them changed.
LEMMA HoldsTable ==
  ASSUME DescType, NEW i \in Index, NEW s, NEW g, NEW o, NEW e, NEW l, Holds(i, s, g, o, e, l)
  PROVE  desc' = [k \in Index |-> desc'[k]] /\ desc'[i] = Entry(s, g, o, e, l)
  <1> DEFINE d == Entry(s, g, o, e, l)
  <1>1. desc' = [desc EXCEPT ![i] = d]  BY DEF Holds
  <1>2. desc = [k \in Index |-> desc[k]]  BY DEF DescType
  <1> HIDE DEF d
  <1>3. desc'[i] = d /\ desc' = [k \in Index |-> desc'[k]]  BY <1>1, <1>2
  <1> QED  BY <1>3 DEF d

\* That descriptor holds what was written, and the others what they held.
LEMMA AfterHolds ==
  ASSUME DescType, NEW i \in Index, NEW s, NEW g, NEW o, NEW e, NEW l, Holds(i, s, g, o, e, l)
  PROVE  /\ desc'[i].state = s /\ desc'[i].gen = g /\ desc'[i].owner = o
         /\ desc'[i].ext = e /\ desc'[i].deadline = l
         /\ \A k \in Index : k # i => desc'[k] = desc[k]
  <1>1. /\ desc'[i].state = s /\ desc'[i].gen = g /\ desc'[i].owner = o
        /\ desc'[i].ext = e /\ desc'[i].deadline = l
    <2>1. desc'[i] = Entry(s, g, o, e, l)  BY HoldsTable
    <2> QED  BY <2>1 DEF Entry
  <1> DEFINE d == Entry(s, g, o, e, l)
  <1>2. desc' = [desc EXCEPT ![i] = d]  BY DEF Holds
  <1>3. desc = [k \in Index |-> desc[k]]  BY DEF DescType
  <1> HIDE DEF d
  <1>4. \A k \in Index : k # i => desc'[k] = desc[k]  BY <1>2, <1>3
  <1> QED  BY <1>1, <1>4

\* Such a change keeps the type of the table.
LEMMA DescTypeKept ==
  ASSUME DescType, NEW i \in Index, NEW s \in States, NEW g \in Nat, NEW o, NEW e, NEW l \in Deadlines,
         Holds(i, s, g, o, e, l),
         tokens \in Nat, tokens' \in Nat, tokens <= tokens', o \in 0 .. tokens',
         s # "free" => g # 0
  PROVE  DescType'
  <1>1. desc' = [k \in Index |-> desc'[k]]  BY HoldsTable
  <1>2. Index' = Index  BY DEF Index
  <1>3. ASSUME NEW k \in Index
        PROVE  /\ desc'[k] = [state |-> desc'[k].state, gen |-> desc'[k].gen,
                             owner |-> desc'[k].owner, ext |-> desc'[k].ext, deadline |-> desc'[k].deadline]
               /\ desc'[k].state \in States /\ desc'[k].gen \in Nat
               /\ desc'[k].owner \in 0 .. tokens'
               /\ desc'[k].state # "free" => desc'[k].gen # 0
               /\ desc'[k].deadline \in Deadlines
    <2>1. CASE k = i
      <3>1. /\ desc'[i].state = s /\ desc'[i].gen = g /\ desc'[i].owner = o
            /\ desc'[i].ext = e /\ desc'[i].deadline = l
        BY AfterHolds
      <3>2. desc'[i] = [state |-> s, gen |-> g, owner |-> o, ext |-> e, deadline |-> l]
        BY HoldsTable DEF Entry
      <3> QED  BY <2>1, <3>1, <3>2
    <2>2. CASE k # i
      <3>1. desc'[k] = desc[k]  BY <2>2, AfterHolds
      <3>2. /\ desc[k] = [state |-> desc[k].state, gen |-> desc[k].gen,
                         owner |-> desc[k].owner, ext |-> desc[k].ext, deadline |-> desc[k].deadline]
            /\ desc[k].state \in States /\ desc[k].gen \in Nat /\ desc[k].owner \in 0 .. tokens
            /\ desc[k].state # "free" => desc[k].gen # 0
            /\ desc[k].deadline \in Deadlines
        BY DEF DescType
      <3>3. desc[k].owner \in 0 .. tokens'  BY <3>2
      <3> QED  BY <3>1, <3>2, <3>3
    <2> QED  BY <2>1, <2>2
  <1> QED  BY <1>1, <1>2, <1>3 DEF DescType

(* A lease moves from state to state and keeps generation, owner and extent:*)
(* no view is left on it that the new state does not admit.                 *)
LEMMA StateKeeps ==
  ASSUME GInv, NEW i \in Index, NEW s \in InUse \cup Reclaiming, NEW l \in Deadlines,
         Holds(i, s, desc[i].gen, desc[i].owner, desc[i].ext, l),
         proc' = proc, tokens' = tokens, epoch' = epoch,
         desc[i].state # "free",
         s = "writing" => desc[i].state = "writing",
         s = "active" => \/ desc[i].state = "active"
                         \/ \A p \in Procs : proc[p].pc = "writing" => proc[p].loc.at # i
  PROVE  GInv'
  <1>a. ProcType /\ DescType /\ CountType  BY DEF GInv, Types
  <1>b. /\ desc'[i].state = s /\ desc'[i].gen = desc[i].gen /\ desc'[i].owner = desc[i].owner
        /\ desc'[i].ext = desc[i].ext
        /\ \A k \in Index : k # i => desc'[k] = desc[k]
    BY <1>a, AfterHolds
  <1>1. DescType'
    <2>1. s \in States /\ desc[i].gen \in Nat /\ tokens \in Nat /\ tokens' \in Nat
          /\ tokens <= tokens' /\ desc[i].owner \in 0 .. tokens' /\ desc[i].gen # 0
      BY <1>a DEF CountType, DescType, States
    <2> QED  BY <1>a, <2>1, DescTypeKept
  <1>2. ProcType' /\ CountType'  BY <1>a DEF ProcType, CountType
  <1>3. LocatorInv'
    <2> SUFFICES ASSUME NEW q \in Procs
                 PROVE  (IF proc[q].loc = NoLocator THEN ~Guarding(q) ELSE Named(proc[q].loc))'
      BY DEF LocatorInv
    <2>1. IF proc[q].loc = NoLocator THEN ~Guarding(q) ELSE Named(proc[q].loc)
      BY DEF GInv, LocatorInv
    <2> QED  BY <2>1, <1>b DEF Guarding, Named, InUse, Reclaiming
  <1>4. TokenInv'
    <2>0. TokenInv /\ LocatorInv  BY DEF GInv
    <2>1. ASSUME NEW q \in Owners, proc[q].loc # NoLocator,
                 desc'[proc[q].loc.at].state = "writing",
                 desc'[proc[q].loc.at].gen = proc[q].loc.gen
          PROVE  desc'[proc[q].loc.at].owner = proc[q].token
      <3>1. proc[q].loc.at \in Index  BY <2>0, <2>1 DEF LocatorInv, Named, Procs
      <3> QED  BY <2>0, <2>1, <3>1, <1>b DEF TokenInv
    <2> QED  BY <2>0, <2>1 DEF TokenInv
  <1>5. ViewInv'
    <2>0. ViewInv /\ LocatorInv  BY DEF GInv
    <2> SUFFICES ASSUME NEW q \in Procs, proc[q].pc \in {"reading", "writing"}
                 PROVE  /\ desc'[proc[q].loc.at].gen = proc[q].loc.gen
                        /\ desc'[proc[q].loc.at].ext = proc[q].loc.ext
                        /\ desc'[proc[q].loc.at].state \in Reclaiming \cup
                             {IF proc[q].pc = "reading" THEN "active" ELSE "writing"}
      BY DEF ViewInv
    <2>1. proc[q].loc.at \in Index  BY <2>0 DEF LocatorInv, Guarding, Named
    <2>2. /\ desc[proc[q].loc.at].gen = proc[q].loc.gen
          /\ desc[proc[q].loc.at].ext = proc[q].loc.ext
          /\ desc[proc[q].loc.at].state \in Reclaiming \cup
               {IF proc[q].pc = "reading" THEN "active" ELSE "writing"}
      BY <2>0 DEF ViewInv
    <2>3. CASE proc[q].loc.at # i  BY <2>1, <2>2, <2>3, <1>b
    <2>4. CASE proc[q].loc.at = i
      <3>1. CASE s \in Reclaiming  BY <2>2, <2>4, <3>1, <1>b
      <3>2. CASE s = "writing"  BY <2>2, <2>4, <3>2, <1>b DEF Reclaiming
      <3>3. CASE s = "active"  BY <2>2, <2>4, <3>3, <1>b DEF Reclaiming
      <3> QED  BY <3>1, <3>2, <3>3 DEF InUse
    <2> QED  BY <2>3, <2>4
  <1>6. ApartInv'  BY DEF GInv, ApartInv
  <1> QED  BY <1>1, <1>2, <1>3, <1>4, <1>5, <1>6 DEF GInv, Types

(* A reclaim that found all guards free ends the lease: nobody views it, and *)
(* the next generation is nobody's yet.                                     *)
LEMMA FreeKeeps ==
  ASSUME GInv, NEW i \in Index, desc[i].state # "free", Guards(i) = {},
         NEW g, NEW o, NEW e, NEW f \in Deadlines, g = desc[i].gen + 1, o = 0, Holds(i, "free", g, o, e, f),
         proc' = proc, tokens' = tokens, epoch' = epoch
  PROVE  GInv'
  <1>a. ProcType /\ DescType /\ CountType  BY DEF GInv, Types
  <1>b. /\ desc'[i].state = "free" /\ desc'[i].gen = g
        /\ \A k \in Index : k # i => desc'[k] = desc[k]
    BY <1>a, AfterHolds
  <1>c. desc[i].gen \in Nat /\ tokens \in Nat  BY <1>a DEF DescType, CountType
  <1>d. \A q \in Procs : Guarding(q) => proc[q].loc.at # i  BY DEF Guards
  <1>1. DescType'
    <2>1. "free" \in States /\ g \in Nat /\ tokens \in Nat /\ tokens' \in Nat
          /\ tokens <= tokens' /\ o \in 0 .. tokens'
      BY <1>c DEF States
    <2> QED  BY <1>a, <2>1, DescTypeKept
  <1>2. ProcType' /\ CountType'  BY <1>a DEF ProcType, CountType
  <1>3. LocatorInv'
    <2> SUFFICES ASSUME NEW q \in Procs
                 PROVE  (IF proc[q].loc = NoLocator THEN ~Guarding(q) ELSE Named(proc[q].loc))'
      BY DEF LocatorInv
    <2>1. IF proc[q].loc = NoLocator THEN ~Guarding(q) ELSE Named(proc[q].loc)
      BY DEF GInv, LocatorInv
    <2> QED  BY <2>1, <1>b, <1>c DEF Guarding, Named
  <1>4. TokenInv'
    <2>0. TokenInv /\ LocatorInv  BY DEF GInv
    <2>1. ASSUME NEW q \in Owners, proc[q].loc # NoLocator,
                 desc'[proc[q].loc.at].state = "writing",
                 desc'[proc[q].loc.at].gen = proc[q].loc.gen
          PROVE  desc'[proc[q].loc.at].owner = proc[q].token
      <3>1. proc[q].loc.at \in Index  BY <2>0, <2>1 DEF LocatorInv, Named, Procs
      <3> QED  BY <2>0, <2>1, <3>1, <1>b DEF TokenInv
    <2> QED  BY <2>0, <2>1 DEF TokenInv
  <1>5. ViewInv'
    <2>0. ViewInv /\ LocatorInv  BY DEF GInv
    <2> SUFFICES ASSUME NEW q \in Procs, proc[q].pc \in {"reading", "writing"}
                 PROVE  /\ desc'[proc[q].loc.at].gen = proc[q].loc.gen
                        /\ desc'[proc[q].loc.at].ext = proc[q].loc.ext
                        /\ desc'[proc[q].loc.at].state \in Reclaiming \cup
                             {IF proc[q].pc = "reading" THEN "active" ELSE "writing"}
      BY DEF ViewInv
    <2>1. proc[q].loc.at \in Index /\ proc[q].loc.at # i
      BY <2>0, <1>d DEF LocatorInv, Guarding, Named
    <2> QED  BY <2>0, <2>1, <1>b DEF ViewInv
  <1>6. ApartInv'  BY DEF GInv, ApartInv
  <1> QED  BY <1>1, <1>2, <1>3, <1>4, <1>5, <1>6 DEF GInv, Types

(* A token that was drawn, and a locator of generation g of descriptor i.   *)
Drawn(t) == t = tokens + 1 /\ tokens' = t
Points(l, i, g) == l.at = i /\ l.gen = g

(* A new lease: the descriptor was free, so that no view is on it and every *)
(* locator of it is of an earlier generation.                               *)
LEMMA AllocateKeeps ==
  ASSUME GInv, NEW p \in Procs, p \in Owners, NEW i \in Index, NEW g \in Nat \ {0},
         NEW l, NEW e, NEW f \in Deadlines,
         desc[i].state = "free", ~Guarding(p), desc[i].gen <= g, Points(l, i, g),
         NEW t, Drawn(t), Holds(i, "writing", g, t, e, f),
         NEW s, s = "idle", Becomes(p, s, l, t), epoch' = epoch
  PROVE  GInv'
  <1>a. ProcType /\ DescType /\ CountType  BY DEF GInv, Types
  <1>b. /\ desc'[i].state = "writing" /\ desc'[i].gen = g /\ desc'[i].owner = t
        /\ \A k \in Index : k # i => desc'[k] = desc[k]
    BY <1>a, AfterHolds
  <1>c. /\ proc'[p].pc = "idle" /\ proc'[p].loc = l /\ proc'[p].token = t
        /\ \A q \in Procs : q # p => proc'[q] = proc[q]
    BY <1>a, AfterBecomes
  <1>d. /\ tokens \in Nat /\ tokens' \in Nat /\ t # 0 /\ tokens <= tokens'
        /\ t \in 0 .. tokens' /\ desc[i].gen \in Nat
        /\ \A q \in Procs : proc[q].token # t
    <2>1. tokens \in Nat /\ desc[i].gen \in Nat  BY <1>a DEF CountType, DescType
    <2>2. \A r \in Procs : proc[r].token \in 0 .. tokens  BY <1>a DEF ProcType
    <2> QED  BY <2>1, <2>2 DEF Drawn
  <1>1. DescType'
    <2>1. "writing" \in States  BY DEF States, InUse
    <2> QED  BY <1>a, <1>d, <2>1, DescTypeKept
  <1>2. ProcType' /\ CountType'
    <2>1. "writing" \notin {"idle"} /\ "idle" \notin Writing  BY DEF Writing
    <2>2. ProcType'  BY <1>a, <1>d, <2>1, ProcTypeKept
    <2> QED  BY <2>2, <1>a, <1>d DEF CountType
  <1>3. LocatorInv'
    <2> SUFFICES ASSUME NEW q \in Procs
                 PROVE  (IF proc[q].loc = NoLocator THEN ~Guarding(q) ELSE Named(proc[q].loc))'
      BY DEF LocatorInv
    <2>1. IF proc[q].loc = NoLocator THEN ~Guarding(q) ELSE Named(proc[q].loc)
      BY DEF GInv, LocatorInv
    <2>2. CASE q = p  BY <2>2, <1>b, <1>c DEF Guarding, Named, Index, Points
    <2>3. CASE q # p  BY <2>1, <2>3, <1>b, <1>c, <1>d DEF Guarding, Named, Index
    <2> QED  BY <2>2, <2>3
  <1>4. TokenInv'
    <2>0. TokenInv /\ LocatorInv  BY DEF GInv
    <2>1. ASSUME NEW q1 \in Procs, NEW q2 \in Procs, proc'[q1].token = proc'[q2].token,
                 proc'[q1].token # 0
          PROVE  q1 = q2
      BY <2>0, <2>1, <1>c, <1>d DEF TokenInv
    <2>2. ASSUME NEW q \in Owners, proc'[q].loc # NoLocator,
                 desc'[proc'[q].loc.at].state = "writing",
                 desc'[proc'[q].loc.at].gen = proc'[q].loc.gen
          PROVE  desc'[proc'[q].loc.at].owner = proc'[q].token
      <3>1. CASE q = p  BY <3>1, <1>b, <1>c DEF Points
      <3>2. CASE q # p
        <4>1. q \in Procs /\ proc'[q] = proc[q]  BY <3>2, <1>c DEF Procs
        <4>2. Named(proc[q].loc)  BY <2>0, <2>2, <4>1 DEF LocatorInv
        <4>3. proc[q].loc.at # i  BY <4>1, <4>2, <2>2, <1>b, <1>d DEF Named
        <4>4. proc[q].loc.at \in Index  BY <4>2 DEF Named
        <4> QED  BY <4>1, <4>3, <4>4, <2>0, <2>2, <1>b DEF TokenInv
      <3> QED  BY <3>1, <3>2
    <2> QED  BY <2>1, <2>2 DEF TokenInv
  <1>5. ViewInv'
    <2>0. ViewInv /\ LocatorInv  BY DEF GInv
    <2> SUFFICES ASSUME NEW q \in Procs, proc'[q].pc \in {"reading", "writing"}
                 PROVE  /\ desc'[proc'[q].loc.at].gen = proc'[q].loc.gen
                        /\ desc'[proc'[q].loc.at].ext = proc'[q].loc.ext
                        /\ desc'[proc'[q].loc.at].state \in Reclaiming \cup
                             {IF proc'[q].pc = "reading" THEN "active" ELSE "writing"}
      BY DEF ViewInv
    <2>1. q # p /\ proc'[q] = proc[q]  BY <1>c
    <2>2. proc[q].loc.at \in Index  BY <2>0, <2>1 DEF LocatorInv, Guarding, Named
    <2>3. /\ desc[proc[q].loc.at].gen = proc[q].loc.gen
          /\ desc[proc[q].loc.at].ext = proc[q].loc.ext
          /\ desc[proc[q].loc.at].state \in Reclaiming \cup
               {IF proc[q].pc = "reading" THEN "active" ELSE "writing"}
      BY <2>0, <2>1 DEF ViewInv
    <2>4. proc[q].loc.at # i  BY <2>3 DEF Reclaiming
    <2> QED  BY <2>1, <2>2, <2>3, <2>4, <1>b
  <1>6. ApartInv'  BY <1>c DEF GInv, ApartInv, Writing
  <1> QED  BY <1>1, <1>2, <1>3, <1>4, <1>5, <1>6 DEF GInv, Types

(* A published lease goes to another holder, under a new token; nobody is   *)
(* writing it.                                                              *)
LEMMA HandOverKeeps ==
  ASSUME GInv, NEW p \in Procs, NEW q \in Procs, q \in Owners, NEW i \in Index, i = proc[p].loc.at,
         proc[p].loc # NoLocator, desc[i].state \in InUse,
         p = q \/ proc[q].pc = "idle",
         \A r \in Procs : proc[r].pc = "writing" => proc[r].loc.at # i,
         NEW t, NEW f \in Deadlines, Drawn(t), Holds(i, "active", desc[i].gen, t, desc[i].ext, f),
         NEW s, NEW l, s = proc[q].pc, l = proc[p].loc, Becomes(q, s, l, t), epoch' = epoch
  PROVE  GInv'
  <1>a. ProcType /\ DescType /\ CountType  BY DEF GInv, Types
  <1>b. /\ desc'[i].state = "active" /\ desc'[i].gen = desc[i].gen /\ desc'[i].ext = desc[i].ext
        /\ \A k \in Index : k # i => desc'[k] = desc[k]
    BY <1>a, AfterHolds
  <1>c. /\ proc'[q].pc = proc[q].pc /\ proc'[q].loc = proc[p].loc /\ proc'[q].token = t
        /\ \A r \in Procs : r # q => proc'[r] = proc[r]
    BY <1>a, AfterBecomes
  <1>d. /\ tokens \in Nat /\ tokens' \in Nat /\ t # 0 /\ tokens <= tokens'
        /\ t \in 0 .. tokens' /\ desc[i].gen \in Nat
        /\ \A r \in Procs : proc[r].token # t
    <2>1. tokens \in Nat /\ desc[i].gen \in Nat  BY <1>a DEF CountType, DescType
    <2>2. \A r \in Procs : proc[r].token \in 0 .. tokens  BY <1>a DEF ProcType
    <2> QED  BY <2>1, <2>2 DEF Drawn
  <1>e. \A r \in Procs : proc'[r].pc = proc[r].pc /\ (proc[r].pc # "idle" => proc'[r].loc = proc[r].loc)
    BY <1>c
  <1>1. DescType'
    <2>1. "active" \in States /\ desc[i].gen # 0  BY <1>a DEF States, InUse, DescType
    <2> QED  BY <1>a, <1>d, <2>1, DescTypeKept
  <1>2. ProcType' /\ CountType'
    <2>1. proc[q].pc \in {"idle"} \cup Writing \cup Reading  BY <1>a DEF ProcType
    <2>2. ProcType'  BY <1>a, <1>d, <2>1, ProcTypeKept
    <2> QED  BY <2>2, <1>a, <1>d DEF CountType
  <1>3. LocatorInv'
    <2> SUFFICES ASSUME NEW r \in Procs
                 PROVE  (IF proc[r].loc = NoLocator THEN ~Guarding(r) ELSE Named(proc[r].loc))'
      BY DEF LocatorInv
    <2>0. LocatorInv  BY DEF GInv
    <2>1. Named(proc[p].loc)  BY <2>0 DEF LocatorInv
    <2>2. CASE r = q  BY <2>1, <2>2, <1>b, <1>c DEF Named, Index
    <2>3. CASE r # q
      <3>1. IF proc[r].loc = NoLocator THEN ~Guarding(r) ELSE Named(proc[r].loc)
        BY <2>0 DEF LocatorInv
      <3>2. desc[i].state # "free"  BY DEF InUse
      <3> QED  BY SMTT(30), <3>1, <3>2, <2>3, <1>b, <1>c DEF Guarding, Named, Index
    <2> QED  BY <2>2, <2>3
  <1>4. TokenInv'
    <2>0. TokenInv /\ LocatorInv  BY DEF GInv
    <2>1. ASSUME NEW q1 \in Procs, NEW q2 \in Procs, proc'[q1].token = proc'[q2].token,
                 proc'[q1].token # 0
          PROVE  q1 = q2
      <3>1. CASE q1 = q  BY <2>1, <3>1, <1>c, <1>d
      <3>2. CASE q2 = q  BY <2>1, <3>2, <1>c, <1>d
      <3>3. CASE q1 # q /\ q2 # q
        <4>1. proc[q1].token = proc[q2].token /\ proc[q1].token # 0  BY <2>1, <3>3, <1>c
        <4> QED  BY <4>1, <2>0 DEF TokenInv
      <3> QED  BY <3>1, <3>2, <3>3
    <2>2. ASSUME NEW r \in Owners, proc'[r].loc # NoLocator,
                 desc'[proc'[r].loc.at].state = "writing",
                 desc'[proc'[r].loc.at].gen = proc'[r].loc.gen
          PROVE  desc'[proc'[r].loc.at].owner = proc'[r].token
      <3>1. proc'[r].loc.at # i  BY <2>2, <1>b
      <3>2. r # q /\ r \in Procs /\ proc'[r] = proc[r]  BY <3>1, <1>c DEF Procs
      <3>3. proc[r].loc.at \in Index  BY <2>0, <2>2, <3>2 DEF LocatorInv, Named
      <3>4. desc'[proc[r].loc.at] = desc[proc[r].loc.at]  BY <3>1, <3>2, <3>3, <1>b
      <3>5. /\ proc[r].loc # NoLocator /\ desc[proc[r].loc.at].state = "writing"
            /\ desc[proc[r].loc.at].gen = proc[r].loc.gen
        BY <2>2, <3>2, <3>4
      <3>6. desc[proc[r].loc.at].owner = proc[r].token  BY <3>5, <2>0 DEF TokenInv
      <3> QED  BY <3>2, <3>4, <3>6
    <2> QED  BY <2>1, <2>2 DEF TokenInv
  <1>5. ViewInv'
    <2>0. ViewInv /\ LocatorInv  BY DEF GInv
    <2> SUFFICES ASSUME NEW r \in Procs, proc'[r].pc \in {"reading", "writing"}
                 PROVE  /\ desc'[proc'[r].loc.at].gen = proc'[r].loc.gen
                        /\ desc'[proc'[r].loc.at].ext = proc'[r].loc.ext
                        /\ desc'[proc'[r].loc.at].state \in Reclaiming \cup
                             {IF proc'[r].pc = "reading" THEN "active" ELSE "writing"}
      BY DEF ViewInv
    <2>1. proc'[r].pc = proc[r].pc /\ proc'[r].loc = proc[r].loc  BY <1>e
    <2>2. proc[r].loc.at \in Index  BY <2>0, <2>1 DEF LocatorInv, Guarding, Named
    <2>3. /\ desc[proc[r].loc.at].gen = proc[r].loc.gen
          /\ desc[proc[r].loc.at].ext = proc[r].loc.ext
          /\ desc[proc[r].loc.at].state \in Reclaiming \cup
               {IF proc[r].pc = "reading" THEN "active" ELSE "writing"}
      BY <2>0, <2>1 DEF ViewInv
    <2>4. CASE proc[r].loc.at # i  BY <2>1, <2>2, <2>3, <2>4, <1>b
    <2>5. CASE proc[r].loc.at = i
      <3>1. proc[r].pc = "reading"  BY <2>1, <2>5
      <3> QED  BY <2>1, <2>3, <2>5, <3>1, <1>b
    <2> QED  BY <2>4, <2>5
  <1>6. ApartInv'  BY <1>e DEF GInv, ApartInv, Writing
  <1> QED  BY <1>1, <1>2, <1>3, <1>4, <1>5, <1>6 DEF GInv, Types

-----------------------------------------------------------------------------
(* The steps of the processes.                                              *)
LEMMA LocatorOf ==
  ASSUME GInv, NEW p \in Procs, proc[p].loc # NoLocator PROVE Named(proc[p].loc)
  BY DEF GInv, LocatorInv

\* A process that forgets is idle, without a locator or a token.
LEMMA UnawareBecomes ==
  ASSUME NEW p \in Procs, proc' = [proc EXCEPT ![p] = Unaware]
  PROVE  Becomes(p, "idle", NoLocator, 0)
  BY DEF Unaware, Becomes

\* A process that forgets keeps the invariant.
LEMMA UnawareKeeps ==
  ASSUME GInv, NEW p \in Procs, proc' = [proc EXCEPT ![p] = Unaware],
         desc' = desc, tokens' = tokens, epoch' = epoch
  PROVE  GInv'
  <1>1. Becomes(p, "idle", NoLocator, 0)  BY UnawareBecomes
  <1>2. "idle" \notin Writing /\ "idle" \notin {"reading", "writing"}  BY DEF Writing
  <1> QED  BY <1>1, <1>2, ProcessKeeps

\* So does one that is handed a locator,
LEMMA LearnKeeps == ASSUME GInv, NEW p \in Procs, Learn(p) PROVE GInv'
  <1>a. DescType /\ ProcType  BY DEF GInv, Types
  <1>1. PICK i \in Index : desc[i].state = "active" /\ proc' = [proc EXCEPT ![p].loc = Locator(i)]
    BY DEF Learn
  <1> DEFINE l == Locator(i)
  <1>2. l.at = i /\ l.gen = desc[i].gen  BY DEF Locator
  <1>3. Named(l)
    <2>1. desc[i].gen \in Nat /\ desc[i].gen # 0  BY <1>a, <1>1 DEF DescType
    <2> QED  BY <1>1, <1>2, <2>1 DEF Named
  <1> HIDE DEF l
  <1>4. proc[p].pc = "idle"  BY DEF Learn, Guarding
  <1>5. Becomes(p, "idle", l, proc[p].token)
    <2>1. proc[p] = [pc |-> "idle", loc |-> proc[p].loc, token |-> proc[p].token]
      BY <1>a, <1>4 DEF ProcType
    <2>2. [proc[p] EXCEPT !.loc = l] = [pc |-> "idle", loc |-> l, token |-> proc[p].token]
      BY <2>1
    <2>3. proc' = [proc EXCEPT ![p] = [proc[p] EXCEPT !.loc = l]]  BY <1>1 DEF l
    <2> QED  BY <2>2, <2>3 DEF Becomes
  <1>6. desc' = desc /\ tokens' = tokens /\ epoch' = epoch /\ p \notin Owners
    BY ArenaAssumption DEF Learn
  <1>7. "idle" \notin Writing /\ "idle" \notin {"reading", "writing"}  BY DEF Writing
  <1> QED  BY <1>3, <1>5, <1>6, <1>7, ProcessKeeps

\* one that takes its guard,
LEMMA GuardKeeps == ASSUME GInv, NEW p \in Procs, GuardToRead(p) \/ GuardToWrite(p) PROVE GInv'
  <1>a. ProcType  BY DEF GInv, Types
  <1> DEFINE l == proc[p].loc
  <1>1. desc' = desc /\ tokens' = tokens /\ epoch' = epoch /\ l # NoLocator
    BY DEF GuardToRead, GuardToWrite
  <1>2. Named(l)  BY <1>1, LocatorOf
  <1>3. CASE GuardToRead(p)
    <2>1. Becomes(p, "reader", l, proc[p].token)  BY <1>3, <1>a, GoToBecomes DEF GuardToRead
    <2>2. "reader" \notin Writing /\ "reader" \in Reading /\ "reader" \notin {"reading", "writing"}
      BY DEF Writing, Reading
    <2> HIDE DEF l
    <2> QED  BY <1>1, <1>2, <2>1, <2>2, ProcessKeeps DEF l
  <1>4. CASE GuardToWrite(p)
    <2>1. Becomes(p, "writer", l, proc[p].token)  BY <1>4, <1>a, GoToBecomes DEF GuardToWrite
    <2>2. "writer" \in Writing /\ "writer" \notin {"reading", "writing"}  BY DEF Writing
    <2>3. \A q \in Procs : proc[q].pc \in Writing /\ proc[q].loc.at = l.at => q = p
      BY <1>4 DEF GuardToWrite, Writers, Guards, Guarding, Writing
    <2>4. p \in Owners  BY <1>4 DEF GuardToWrite
    <2> QED  BY <1>1, <1>2, <2>1, <2>2, <2>3, <2>4, ProcessKeeps
  <1> QED  BY <1>3, <1>4

\* one that takes its view after the second check,
LEMMA ViewKeeps == ASSUME GInv, NEW p \in Procs, View(p) PROVE GInv'
  <1>a. ProcType  BY DEF GInv, Types
  <1> DEFINE l == proc[p].loc
  <1>1. desc' = desc /\ tokens' = tokens /\ epoch' = epoch  BY DEF View
  <1>2. l # NoLocator  BY DEF GInv, LocatorInv, Guarding, View
  <1>3. Named(l) /\ desc[l.at].gen = l.gen /\ desc[l.at].ext = l.ext
    BY <1>2, LocatorOf DEF View, Matches
  <1>4. CASE proc[p].pc = "reader"
    <2>1. desc[l.at].state = "active" /\ GoTo(p, "reading")  BY <1>4 DEF View
    <2>2. Becomes(p, "reading", l, proc[p].token)  BY <2>1, <1>a, GoToBecomes
    <2>3. "reading" \notin Writing /\ "reading" \in Reading  BY DEF Writing, Reading
    <2> QED  BY <1>1, <1>2, <1>3, <2>1, <2>2, <2>3, ProcessKeeps
  <1>5. CASE proc[p].pc = "writer"
    <2>1. desc[l.at].state = "writing" /\ GoTo(p, "writing")  BY <1>5 DEF View
    <2>2. Becomes(p, "writing", l, proc[p].token)  BY <2>1, <1>a, GoToBecomes
    <2>3. "writing" \in Writing /\ p \in Owners  BY <1>5, <1>a DEF Writing, ProcType
    <2>4. \A q \in Procs : proc[q].pc \in Writing /\ proc[q].loc.at = l.at => q = p
      BY <1>5 DEF GInv, ApartInv, Writing
    <2> QED  BY <1>1, <1>2, <1>3, <2>1, <2>2, <2>3, <2>4, ProcessKeeps
  <1> QED  BY <1>4, <1>5 DEF View

\* and one that is turned away or ends its view.
LEMMA LeaveKeeps == ASSUME GInv, NEW p \in Procs, Turned(p) \/ EndView(p) PROVE GInv'
  <1>a. ProcType  BY DEF GInv, Types
  <1>1. desc' = desc /\ tokens' = tokens /\ epoch' = epoch  BY DEF Turned, EndView
  <1>2. CASE proc' = [proc EXCEPT ![p] = Unaware]  BY <1>1, <1>2, UnawareKeeps
  <1>3. CASE proc[p].pc = "writing" /\ GoTo(p, "idle")
    <2> DEFINE l == proc[p].loc
    <2>1. Becomes(p, "idle", l, proc[p].token)  BY <1>3, <1>a, GoToBecomes
    <2>2. "idle" \notin Writing /\ "idle" \notin {"reading", "writing"}  BY DEF Writing
    <2>3. IF l = NoLocator THEN "idle" = "idle" ELSE Named(l)  BY LocatorOf
    <2> QED  BY <1>1, <2>1, <2>2, <2>3, ProcessKeeps
  <1> QED  BY <1>2, <1>3 DEF Turned, EndView

-----------------------------------------------------------------------------
(* The steps of the broker.                                                 *)
LEMMA OwnsLease ==
  ASSUME GInv, NEW p \in Owners, NEW S, Owns(p, S)
  PROVE  /\ p \in Procs /\ proc[p].loc # NoLocator /\ proc[p].loc.at \in Index
         /\ proc[p].token # 0 /\ desc[proc[p].loc.at].owner = proc[p].token
         /\ desc[proc[p].loc.at].gen = proc[p].loc.gen /\ desc[proc[p].loc.at].state \in S
  <1>1. p \in Procs  BY DEF Procs
  <1>2. proc[p].loc # NoLocator  BY DEF GInv, Types, CountType, Owns, NoLocator
  <1>3. proc[p].loc.at \in Index  BY <1>1, <1>2, LocatorOf DEF Named
  <1> QED  BY <1>1, <1>2, <1>3 DEF Owns

(* Fields of a descriptor, or of what a process knows, replaced together.    *)
LEMMA DescEntry ==
  ASSUME DescType, NEW i \in Index
  PROVE  desc[i] = Entry(desc[i].state, desc[i].gen, desc[i].owner, desc[i].ext, desc[i].deadline)
  BY DEF DescType, Entry

\* Writing state and deadline of a descriptor.
LEMMA StateHolds ==
  ASSUME DescType, NEW i \in Index, NEW s, NEW f,
         desc' = [desc EXCEPT ![i].state = s, ![i].deadline = f]
  PROVE  Holds(i, s, desc[i].gen, desc[i].owner, desc[i].ext, f)
  <1> DEFINE r == Entry(s, desc[i].gen, desc[i].owner, desc[i].ext, f)
  <1>1. desc = [k \in Index |-> desc[k]]  BY DEF DescType
  <1>2. desc[i] = Entry(desc[i].state, desc[i].gen, desc[i].owner, desc[i].ext, desc[i].deadline)
    BY DescEntry
  <1>3. desc'[i] = r  BY <1>1, <1>2 DEF Entry
  <1>4. desc' = [k \in Index |-> desc'[k]] /\ \A k \in Index : k # i => desc'[k] = desc[k]
    BY <1>1
  <1> HIDE DEF r
  <1>5. desc' = [desc EXCEPT ![i] = r]  BY <1>1, <1>3, <1>4
  <1> QED  BY <1>5 DEF r, Holds

\* Writing one of the two.
LEMMA OneFieldHolds ==
  ASSUME DescType, NEW i \in Index, NEW s, NEW f,
         \/ desc' = [desc EXCEPT ![i].state = s] /\ f = desc[i].deadline
         \/ desc' = [desc EXCEPT ![i].deadline = f] /\ s = desc[i].state
  PROVE  Holds(i, s, desc[i].gen, desc[i].owner, desc[i].ext, f)
  <1> DEFINE r == Entry(s, desc[i].gen, desc[i].owner, desc[i].ext, f)
  <1>1. desc = [k \in Index |-> desc[k]]  BY DEF DescType
  <1>2. desc[i] = Entry(desc[i].state, desc[i].gen, desc[i].owner, desc[i].ext, desc[i].deadline)
    BY DescEntry
  <1>3. desc'[i] = r  BY <1>1, <1>2 DEF Entry
  <1>4. desc' = [k \in Index |-> desc'[k]] /\ \A k \in Index : k # i => desc'[k] = desc[k]
    BY <1>1
  <1> HIDE DEF r
  <1>5. desc' = [desc EXCEPT ![i] = r]  BY <1>1, <1>3, <1>4
  <1> QED  BY <1>5 DEF r, Holds

\* Writing the generation alone.
LEMMA GenHolds ==
  ASSUME DescType, NEW i \in Index, NEW g, desc' = [desc EXCEPT ![i].gen = g]
  PROVE  Holds(i, desc[i].state, g, desc[i].owner, desc[i].ext, desc[i].deadline)
  <1> DEFINE r == Entry(desc[i].state, g, desc[i].owner, desc[i].ext, desc[i].deadline)
  <1>1. desc = [k \in Index |-> desc[k]]  BY DEF DescType
  <1>2. desc[i] = Entry(desc[i].state, desc[i].gen, desc[i].owner, desc[i].ext, desc[i].deadline)
    BY DescEntry
  <1>3. desc'[i] = r  BY <1>1, <1>2 DEF Entry
  <1>4. desc' = [k \in Index |-> desc'[k]] /\ \A k \in Index : k # i => desc'[k] = desc[k]
    BY <1>1
  <1> HIDE DEF r
  <1>5. desc' = [desc EXCEPT ![i] = r]  BY <1>1, <1>3, <1>4
  <1> QED  BY <1>5 DEF r, Holds

\* Writing owner, state and deadline of a descriptor.
LEMMA GiveHolds ==
  ASSUME DescType, NEW i \in Index, NEW t, NEW s, NEW f,
         desc' = [desc EXCEPT ![i].owner = t, ![i].state = s, ![i].deadline = f]
  PROVE  Holds(i, s, desc[i].gen, t, desc[i].ext, f)
  <1> DEFINE r == Entry(s, desc[i].gen, t, desc[i].ext, f)
  <1>1. desc = [k \in Index |-> desc[k]]  BY DEF DescType
  <1>2. desc[i] = Entry(desc[i].state, desc[i].gen, desc[i].owner, desc[i].ext, desc[i].deadline)
    BY DescEntry
  <1>3. desc'[i] = r  BY <1>1, <1>2 DEF Entry
  <1>4. desc' = [k \in Index |-> desc'[k]] /\ \A k \in Index : k # i => desc'[k] = desc[k]
    BY <1>1
  <1> HIDE DEF r
  <1>5. desc' = [desc EXCEPT ![i] = r]  BY <1>1, <1>3, <1>4
  <1> QED  BY <1>5 DEF r, Holds

\* Giving a token and a locator to a process.
LEMMA GiveBecomes ==
  ASSUME ProcType, NEW q \in Procs, NEW l, NEW t,
         proc' = [proc EXCEPT ![q].token = t, ![q].loc = l]
  PROVE  Becomes(q, proc[q].pc, l, t)
  <1> DEFINE d == [pc |-> proc[q].pc, loc |-> l, token |-> t]
  <1>1. proc = [r \in Procs |-> proc[r]]  BY DEF ProcType
  <1>2. proc[q] = [pc |-> proc[q].pc, loc |-> proc[q].loc, token |-> proc[q].token]
    BY DEF ProcType
  <1>3. proc'[q] = d  BY <1>1, <1>2
  <1>4. proc' = [r \in Procs |-> proc'[r]] /\ \A r \in Procs : r # q => proc'[r] = proc[r]
    BY <1>1
  <1> HIDE DEF d
  <1>5. proc' = [proc EXCEPT ![q] = d]  BY <1>1, <1>3, <1>4
  <1> QED  BY <1>5 DEF d, Becomes

(* A descriptor that is not in the table is nobody's.                       *)
LEMMA OutsideStays ==
  ASSUME DescType, NEW i, i \notin Index, NEW d, desc' = [desc EXCEPT ![i] = d]
  PROVE  desc' = desc
  BY DEF DescType

\* A change of the epoch alone keeps the invariant.
LEMMA IdleKeeps ==
  ASSUME GInv, desc' = desc, proc' = proc, tokens' = tokens, epoch' \in Nat \ {0}
  PROVE  GInv'
  <1>1. Types'  BY DEF GInv, Types, DescType, ProcType, CountType, Index
  <1>2. LocatorInv'  BY DEF GInv, LocatorInv, Guarding, Named, Index
  <1>3. TokenInv' /\ ViewInv' /\ ApartInv'  BY DEF GInv, TokenInv, ViewInv, ApartInv
  <1> QED  BY <1>1, <1>2, <1>3 DEF GInv

\* The lowest free descriptor is one, and free.
LEMMA FreeIndex ==
  ASSUME Occupied # Index
  PROVE  Min(Index \ Occupied) \in Index /\ desc[Min(Index \ Occupied)].state = "free"
  <1>1. Index \ Occupied # {} /\ Index \ Occupied \subseteq Nat  BY IndexNat DEF Occupied
  <1>2. Min(Index \ Occupied) \in Index \ Occupied  BY <1>1, MinIn
  <1> QED  BY <1>2 DEF Occupied

(* Publication by the process that wrote: no other one can be writing,      *)
(* since it would hold the same token.                                      *)
LEMMA CommitKeeps == ASSUME GInv, NEW p \in Owners, Commit(p) PROVE GInv'
  <1> DEFINE i == proc[p].loc.at
  <1>a. DescType /\ ProcType /\ TokenInv /\ ViewInv /\ LocatorInv  BY DEF GInv, Types
  <1>1. /\ p \in Procs /\ i \in Index /\ proc[p].token # 0 /\ desc[i].owner = proc[p].token
        /\ desc[i].state = "writing" /\ desc[i].deadline \in Deadlines
    <2>1. Owns(p, {"writing"})  BY DEF Commit
    <2> QED  BY <1>a, <2>1, OwnsLease DEF DescType
  <1>2. Holds(i, "active", desc[i].gen, desc[i].owner, desc[i].ext, desc[i].deadline)
    <2>1. desc' = [desc EXCEPT ![i].state = "active"]  BY DEF Commit
    <2> HIDE DEF i
    <2> QED  BY <1>a, <1>1, <2>1, OneFieldHolds
  <1>3. ASSUME NEW q \in Procs, proc[q].pc = "writing" PROVE proc[q].loc.at # i
    <2> SUFFICES ASSUME proc[q].loc.at = i PROVE FALSE  OBVIOUS
    <2>1. q \in Owners  BY <1>a, <1>3 DEF ProcType, Writing
    <2>2. proc[q].loc # NoLocator  BY <1>a, <1>3 DEF LocatorInv, Guarding
    <2>3. desc[i].gen = proc[q].loc.gen  BY <1>a, <1>3 DEF ViewInv
    <2>4. desc[i].owner = proc[q].token  BY <1>a, <1>1, <2>1, <2>2, <2>3 DEF TokenInv
    <2>5. p = q  BY <1>a, <1>1, <2>4 DEF TokenInv
    <2> QED  BY <2>5, <1>3 DEF Commit, Guarding
  <1>4. proc' = proc /\ tokens' = tokens /\ epoch' = epoch  BY DEF Commit
  <1>5. "active" \in InUse \cup Reclaiming /\ "active" # "writing"  BY DEF InUse
  <1> HIDE DEF i
  <1> QED  BY <1>1, <1>2, <1>3, <1>4, <1>5, StateKeeps

\* A publication or a transfer gives the lease to another token.
LEMMA HandOverStep ==
  ASSUME GInv, NEW p \in Owners, NEW q \in Owners, Publish(p, q) \/ Transfer(p, q)
  PROVE  GInv'
  <1> DEFINE i == proc[p].loc.at
             l == proc[p].loc
             s == proc[q].pc
             t == tokens + 1
             g == desc[i].gen
             e == desc[i].ext
  <1>a. DescType /\ ProcType /\ TokenInv /\ ViewInv /\ LocatorInv  BY DEF GInv, Types
  <1>b. p \in Procs /\ q \in Procs  BY DEF Procs
  <1>1. Owns(p, {"writing"}) \/ Owns(p, {"active"})  BY DEF Publish, Transfer
  <1>2. l # NoLocator /\ i \in Index /\ desc[i].state \in {"writing", "active"}
    BY <1>1, OwnsLease
  <1>3. HandOver(p, q, "active")  BY DEF Publish, Transfer
  <1>4. Drawn(t) /\ epoch' = epoch  BY <1>3 DEF HandOver, Drawn
  <1>5. p = q \/ s = "idle"  BY <1>3 DEF HandOver, Guarding
  <1>6. ASSUME NEW r \in Procs, proc[r].pc = "writing" PROVE proc[r].loc.at # i
    <2>1. CASE Publish(p, q)  BY <1>6, <2>1 DEF Publish, Writers, Guards, Guarding
    <2>2. CASE Transfer(p, q)
      <3>1. desc[i].state = "active"  BY <2>2, OwnsLease DEF Transfer
      <3>2. desc[proc[r].loc.at].state \in Reclaiming \cup {"writing"}  BY <1>a, <1>6 DEF ViewInv
      <3> QED  BY <3>1, <3>2 DEF Reclaiming
    <2> QED  BY <2>1, <2>2
  <1>7. Holds(i, "active", g, t, e, "ahead")
    <2>1. desc' = [desc EXCEPT ![i].owner = t, ![i].state = "active", ![i].deadline = "ahead"]
      BY <1>3 DEF HandOver
    <2> HIDE DEF i, t
    <2> QED  BY <1>a, <1>2, <2>1, GiveHolds
  <1>8. Becomes(q, s, l, t)
    <2>1. proc' = [proc EXCEPT ![q].token = t, ![q].loc = l]  BY <1>3 DEF HandOver
    <2> HIDE DEF l, t
    <2> QED  BY <1>a, <1>b, <2>1, GiveBecomes
  <1>9. desc[i].state \in InUse /\ "ahead" \in Deadlines  BY <1>2 DEF InUse, Deadlines
  <1> QED  BY <1>b, <1>2, <1>4, <1>5, <1>6, <1>7, <1>8, <1>9, HandOverKeeps

\* The generation of a fresh lease is not zero.
LEMMA MaxOne == ASSUME NEW g \in Nat PROVE Max({g, 1}) \in Nat \ {0} /\ g <= Max({g, 1})
  <1> DEFINE P(x) == x \in {g, 1} /\ \A y \in {g, 1} : x >= y
  <1>1. P(IF g >= 1 THEN g ELSE 1)  OBVIOUS
  <1>2. \E x : P(x)  BY <1>1
  <1>3. P(CHOOSE x : P(x))  BY <1>2
  <1>4. Max({g, 1}) = CHOOSE x : P(x)  BY DEF Max
  <1>5. P(Max({g, 1}))  BY <1>3, <1>4
  <1> QED  BY <1>5

\* A fresh lease is in a descriptor that was free.
LEMMA AllocateStep == ASSUME GInv, NEW p \in Owners, NEW k \in Orders, Allocate(p, k) PROVE GInv'
  <1> DEFINE i == Min(Index \ Occupied)
             e == Place(alloc, k)
             g == Max({desc[i].gen, 1})
             l == [at |-> i, gen |-> g, epoch |-> epoch, ext |-> e]
             s == "idle"
             t == tokens + 1
  <1>a. DescType /\ ProcType  BY DEF GInv, Types
  <1>b. p \in Procs  BY DEF Procs
  <1>1. i \in Index /\ desc[i].state = "free"
    <2>1. Index \ Occupied # {} /\ Index \ Occupied \subseteq Nat
      BY IndexNat DEF Allocate, Occupied
    <2>2. i \in Index \ Occupied  BY <2>1, MinIn
    <2> HIDE DEF i
    <2> QED  BY <2>2 DEF Occupied
  <1>2. g \in Nat \ {0} /\ desc[i].gen <= g
    <2>1. desc[i].gen \in Nat  BY <1>a, <1>1 DEF DescType
    <2> QED  BY <2>1, MaxOne
  <1>3. ~Guarding(p) /\ Drawn(t) /\ epoch' = epoch  BY DEF Allocate, Drawn
  <1>4. Points(l, i, g)  BY DEF Points
  <1>d. PICK f \in {"none", "ahead"} :
          desc' = [desc EXCEPT ![i] = [state |-> "writing", gen |-> g, owner |-> t, ext |-> e,
                                       deadline |-> f]]
    BY DEF Allocate
  <1>5. Holds(i, "writing", g, t, e, f)  BY <1>d DEF Holds, Entry
  <1>8. f \in Deadlines  BY DEF Deadlines
  <1>6. Becomes(p, s, l, t)
    <2>1. proc' = [proc EXCEPT ![p].token = t, ![p].loc = l]  BY DEF Allocate
    <2>2. proc[p].pc = s  BY <1>3 DEF Guarding
    <2> HIDE DEF l, t, s
    <2> QED  BY <1>a, <1>b, <2>1, <2>2, GiveBecomes
  <1> HIDE DEF i, e, g, l, t
  <1>7. s = "idle"  OBVIOUS
  <1> HIDE DEF s
  <1> QED  BY <1>b, <1>1, <1>2, <1>3, <1>4, <1>5, <1>6, <1>7, <1>8, AllocateKeeps

\* A lease that runs out keeps the invariant,
LEMMA ExpireKeeps == ASSUME GInv, NEW i \in Index, Expire(i) PROVE GInv'
  <1> DEFINE s == desc[i].state
             f == "past"
  <1>a. DescType  BY DEF GInv, Types
  <1>1. s \in InUse /\ s # "free" /\ proc' = proc /\ tokens' = tokens /\ epoch' = epoch
    BY DEF Expire, InUse
  <1>2. Holds(i, s, desc[i].gen, desc[i].owner, desc[i].ext, f)
    <2>1. desc' = [desc EXCEPT ![i].deadline = f] /\ s = desc[i].state  BY DEF Expire
    <2> HIDE DEF s, f
    <2> QED  BY <1>a, <2>1, OneFieldHolds
  <1>3. s = desc[i].state /\ f \in Deadlines  BY DEF Deadlines
  <1> HIDE DEF s, f
  <1> QED  BY <1>1, <1>2, <1>3, StateKeeps

\* one that is revoked while a guard is held does,
LEMMA RevokeKeeps == ASSUME GInv, Revoke PROVE GInv'
  <1> DEFINE i == Min(pending)
             f == "none"
  <1>a. DescType  BY DEF GInv, Types
  <1>1. /\ desc[i].state \in InUse /\ proc' = proc /\ tokens' = tokens /\ epoch' = epoch
        /\ desc' = [desc EXCEPT ![i].state = "revoking", ![i].deadline = f] /\ f \in Deadlines
    BY DEF Revoke, Deadlines
  <1> HIDE DEF i, f
  <1>2. CASE i \in Index
    <2>1. Holds(i, "revoking", desc[i].gen, desc[i].owner, desc[i].ext, f)
      BY <1>a, <1>1, <1>2, StateHolds
    <2>2. "revoking" \in Reclaiming /\ "revoking" \notin InUse /\ desc[i].state # "free"
      BY <1>1 DEF Reclaiming, InUse
    <2>3. "revoking" # "writing" /\ "revoking" # "active"  OBVIOUS
    <2> QED  BY <1>1, <1>2, <2>1, <2>2, <2>3, StateKeeps
  <1>3. CASE i \notin Index
    <2>1. desc' = desc  BY <1>a, <1>1, <1>3 DEF DescType
    <2> QED  BY <1>1, <2>1, IdleKeeps DEF GInv, Types, CountType
  <1> QED  BY <1>2, <1>3

\* and one that is finalized when none is.
LEMMA FinalizeKeeps == ASSUME GInv, Finalize PROVE GInv'
  <1> DEFINE i == Min(pending)
  <1>a. DescType  BY DEF GInv, Types
  <1>1. /\ desc[i].state \in Reclaiming /\ proc' = proc /\ tokens' = tokens /\ epoch' = epoch
        /\ \/ /\ Guards(i) = {}
              /\ desc' = [desc EXCEPT ![i] = [state |-> "free", gen |-> desc[i].gen + 1, owner |-> 0,
                                              ext |-> Block0, deadline |-> "none"]]
           \/ desc' = desc
           \/ desc' = [desc EXCEPT ![i].state = "quarantined"]
    BY DEF Finalize, AllGone
  <1> HIDE DEF i
  <1>2. CASE desc' = desc  BY <1>1, <1>2, IdleKeeps DEF GInv, Types, CountType
  <1>3. CASE i \notin Index
    <2>1. desc' = desc  BY <1>a, <1>1, <1>3 DEF DescType
    <2> QED  BY <1>2, <2>1
  <1>4. CASE i \in Index /\ desc' = [desc EXCEPT ![i].state = "quarantined"]
    <2> DEFINE f == desc[i].deadline
    <2>1. f = desc[i].deadline /\ f \in Deadlines  BY <1>a, <1>4 DEF DescType
    <2> HIDE DEF f
    <2>2. Holds(i, "quarantined", desc[i].gen, desc[i].owner, desc[i].ext, f)
      BY <1>a, <1>4, <2>1, OneFieldHolds
    <2>3. "quarantined" \in Reclaiming /\ desc[i].state # "free"  BY <1>1 DEF Reclaiming
    <2>4. "quarantined" # "writing" /\ "quarantined" # "active"  OBVIOUS
    <2> QED  BY <1>1, <1>4, <2>1, <2>2, <2>3, <2>4, StateKeeps
  <1>5. CASE /\ i \in Index /\ Guards(i) = {}
             /\ desc' = [desc EXCEPT ![i] = [state |-> "free", gen |-> desc[i].gen + 1, owner |-> 0,
                                             ext |-> Block0, deadline |-> "none"]]
    <2> DEFINE g == desc[i].gen + 1
               o == 0
               e == Block0
               f == "none"
    <2>1. Holds(i, "free", g, o, e, f)  BY <1>5 DEF Holds, Entry
    <2>2. g = desc[i].gen + 1 /\ o = 0 /\ desc[i].state # "free" /\ f \in Deadlines
      BY <1>1 DEF Reclaiming, Deadlines
    <2> HIDE DEF g, o, e, f
    <2> QED  BY <1>1, <1>5, <2>1, <2>2, FreeKeeps
  <1> QED  BY <1>1, <1>2, <1>3, <1>4, <1>5

(* A publication cut before its lease began leaves a generation that no     *)
(* locator has.                                                             *)
LEMMA CutFirstKeeps == ASSUME GInv, CutFirst PROVE GInv'
  <1> DEFINE i == Min(Index \ Occupied)
             g == Max({desc[i].gen, 1})
  <1>a. DescType /\ ProcType /\ CountType  BY DEF GInv, Types
  <1>b. LocatorInv /\ TokenInv /\ ViewInv /\ ApartInv  BY DEF GInv
  <1>c. proc' = proc /\ tokens' = tokens /\ epoch' = epoch  BY DEF CutFirst, Dies
  <1>1. i \in Index /\ desc[i].state = "free"  BY FreeIndex DEF CutFirst
  <1>2. g \in Nat \ {0} /\ desc[i].gen <= g /\ desc[i].gen \in Nat
    <2>1. desc[i].gen \in Nat  BY <1>a, <1>1 DEF DescType
    <2> QED  BY <2>1, MaxOne
  <1>3. desc' = [desc EXCEPT ![i].gen = g]  BY DEF CutFirst
  <1> HIDE DEF i, g
  <1>4. Holds(i, desc[i].state, g, desc[i].owner, desc[i].ext, desc[i].deadline)
    BY <1>a, <1>1, <1>3, GenHolds
  <1>5. /\ desc'[i].state = "free" /\ desc'[i].gen = g
        /\ \A k \in Index : k # i => desc'[k] = desc[k]
    BY <1>a, <1>1, <1>4, AfterHolds
  <1>6. DescType'
    <2>1. /\ desc[i].state \in States /\ desc[i].owner \in 0 .. tokens' /\ tokens \in Nat
          /\ tokens' \in Nat /\ tokens <= tokens' /\ desc[i].deadline \in Deadlines
      BY <1>a, <1>1, <1>c DEF DescType, CountType
    <2> QED  BY <1>a, <1>1, <1>2, <1>4, <2>1, DescTypeKept
  <1>7. ProcType' /\ CountType'  BY <1>a, <1>c DEF ProcType, CountType
  <1>8. LocatorInv'
    <2> SUFFICES ASSUME NEW q \in Procs
                 PROVE  (IF proc[q].loc = NoLocator THEN ~Guarding(q) ELSE Named(proc[q].loc))'
      BY DEF LocatorInv
    <2>1. IF proc[q].loc = NoLocator THEN ~Guarding(q) ELSE Named(proc[q].loc)
      BY <1>b DEF LocatorInv
    <2> QED  BY <2>1, <1>c, <1>1, <1>2, <1>5 DEF Guarding, Named, Index
  <1>9. TokenInv'
    <2>1. ASSUME NEW q \in Owners, proc[q].loc # NoLocator,
                 desc'[proc[q].loc.at].state = "writing",
                 desc'[proc[q].loc.at].gen = proc[q].loc.gen
          PROVE  desc'[proc[q].loc.at].owner = proc[q].token
      <3>1. proc[q].loc.at \in Index  BY <1>b, <2>1 DEF LocatorInv, Named, Procs
      <3>2. proc[q].loc.at # i  BY <2>1, <1>5
      <3>3. desc'[proc[q].loc.at] = desc[proc[q].loc.at]  BY <3>1, <3>2, <1>5
      <3> QED  BY <1>b, <2>1, <3>3 DEF TokenInv
    <2> QED  BY <1>b, <1>c, <2>1 DEF TokenInv
  <1>10. ViewInv'
    <2> SUFFICES ASSUME NEW q \in Procs, proc[q].pc \in {"reading", "writing"}
                 PROVE  /\ desc'[proc[q].loc.at].gen = proc[q].loc.gen
                        /\ desc'[proc[q].loc.at].ext = proc[q].loc.ext
                        /\ desc'[proc[q].loc.at].state \in Reclaiming \cup
                             {IF proc[q].pc = "reading" THEN "active" ELSE "writing"}
      BY <1>c DEF ViewInv
    <2>1. proc[q].loc.at \in Index  BY <1>b DEF LocatorInv, Guarding, Named
    <2>2. /\ desc[proc[q].loc.at].gen = proc[q].loc.gen
          /\ desc[proc[q].loc.at].ext = proc[q].loc.ext
          /\ desc[proc[q].loc.at].state \in Reclaiming \cup
               {IF proc[q].pc = "reading" THEN "active" ELSE "writing"}
      BY <1>b DEF ViewInv
    <2>3. proc[q].loc.at # i  BY <2>2, <1>1 DEF Reclaiming
    <2> QED  BY <2>1, <2>2, <2>3, <1>5
  <1>11. ApartInv'  BY <1>b, <1>c DEF ApartInv
  <1> QED  BY <1>6, <1>7, <1>8, <1>9, <1>10, <1>11 DEF GInv, Types

-----------------------------------------------------------------------------
(* Every step but the death that cuts a lease short keeps the invariant.    *)
LEMMA NextKeeps == GInv /\ [Next]_vars /\ ~cut' => GInv'
  <1> SUFFICES ASSUME GInv, [Next]_vars, ~cut' PROVE GInv'  OBVIOUS
  <1>c. epoch \in Nat \ {0}  BY DEF GInv, Types, CountType
  <1>1. ASSUME NEW p \in Procs, Process(p) PROVE GInv'
    BY <1>1, LearnKeeps, GuardKeeps, ViewKeeps, LeaveKeeps DEF Process, Access
  <1>2. ASSUME NEW p \in Owners, Request(p) PROVE GInv'
    <2>1. CASE \E k \in Orders : Allocate(p, k)  BY <2>1, AllocateStep
    <2>2. CASE \E q \in Owners : Publish(p, q) \/ Transfer(p, q)  BY <2>2, HandOverStep
    <2>3. CASE Commit(p)  BY <2>3, CommitKeeps
    <2>4. CASE Release(p)  BY <2>4, <1>c, IdleKeeps DEF Release
    <2> QED  BY <1>2, <2>1, <2>2, <2>3, <2>4 DEF Request
  <1>3. ASSUME NEW i \in Index, Expire(i) PROVE GInv'  BY <1>3, ExpireKeeps
  <1>4. CASE Reclaim  BY <1>4, RevokeKeeps, FinalizeKeeps DEF Reclaim
  <1>5. CASE Sweep  BY <1>5, <1>c, IdleKeeps DEF Sweep
  <1>6. CASE Crash  BY <1>6, <1>c, IdleKeeps DEF Crash, Dies
  <1>7. CASE Start
    <2>1. epoch' \in Nat \ {0}  BY <1>7, <1>c DEF Start
    <2> QED  BY <1>7, <2>1, IdleKeeps DEF Start
  <1>8. CASE UNCHANGED vars  BY <1>8, <1>c, IdleKeeps DEF vars
  <1>9. CASE CutFirst  BY <1>9, CutFirstKeeps
  <1>10. ASSUME NEW i \in Index PROVE ~CutShort(i)  BY DEF CutShort
  <1> QED  BY <1>1, <1>2, <1>3, <1>4, <1>5, <1>6, <1>7, <1>8, <1>9, <1>10 DEF Next, Death

\* A death that cuts a lease short is not forgotten.
LEMMA CutStays == [Next]_vars /\ ~cut' => ~cut
  <1> SUFFICES ASSUME [Next]_vars, ~cut' PROVE ~cut  OBVIOUS
  <1>1. ASSUME NEW p \in Procs, Process(p) PROVE cut' = cut
    BY <1>1 DEF Process, Learn, GuardToRead, GuardToWrite, Access, View, Turned, EndView
  <1>2. ASSUME NEW p \in Owners, Request(p) PROVE cut' = cut
    BY <1>2 DEF Request, Allocate, Publish, Transfer, HandOver, Commit, Release
  <1>3. ASSUME NEW i \in Index, Expire(i) PROVE cut' = cut  BY <1>3 DEF Expire
  <1>4. CASE Sweep \/ Reclaim \/ Start  BY <1>4 DEF Sweep, Reclaim, Revoke, Finalize, Start
  <1>5. CASE Death  BY <1>5 DEF Death, Crash, CutFirst, CutShort
  <1>6. CASE UNCHANGED vars  BY <1>6 DEF vars
  <1> QED  BY <1>1, <1>2, <1>3, <1>4, <1>5, <1>6 DEF Next

(* As long as no death has cut the publication of a lease in use, what      *)
(* processes do under their guards is consistent with the table of          *)
(* descriptors: for any geometry of the arena, any number of processes,     *)
(* leases and lives of the broker, and whatever place the allocator chooses.*)
(* (After such a death it is not: ViewsExclusive is violated in a run.)     *)
THEOREM GuardsHold == Spec => [](~cut => GInv)
  <1>1. Init => (~cut => GInv)  BY InitInv
  <1>2. (~cut => GInv) /\ [Next]_vars => (~cut => GInv)'
    <2> SUFFICES ASSUME ~cut => GInv, [Next]_vars, ~cut' PROVE GInv'  OBVIOUS
    <2>1. ~cut  BY CutStays
    <2> QED  BY <2>1, NextKeeps
  <1> QED  BY <1>1, <1>2, PTL DEF Spec

-----------------------------------------------------------------------------
(* What holds after such a death too: the types, and that a locator names a *)
(* descriptor.                                                              *)
Places == \A p \in Procs : proc[p].loc.at \in Index
BInv == Types /\ Places

\* The arena has a unit.
LEMMA ArenaNotEmpty == ArenaSize \in Nat \ {0}
  <1>1. GeneralSize \in Nat /\ ArenaSize \in Nat /\ GeneralSize <= ArenaSize  BY GeneralSizeIs
  <1>2. PICK s \in Nat \ {0} : s = Length[MaxOrder]  BY LengthPositive, OrdersAre
  <1>3. Roots * s # 0  BY <1>2, GeometryAssumption
  <1> QED  BY <1>1, <1>2, <1>3 DEF GeneralSize

\* There is a descriptor.
LEMMA FirstIndex == 0 \in Index
  <1>1. ArenaSize \in Nat \ {0}  BY ArenaNotEmpty
  <1> QED  BY <1>1 DEF Index

\* A process that changes keeps the base.
LEMMA BaseBecomes ==
  ASSUME BInv, NEW p \in Procs, NEW s, NEW l, NEW t, Becomes(p, s, l, t), l.at \in Index,
         s \in {"idle"} \cup Writing \cup Reading, s \in Writing => p \in Owners,
         tokens' \in Nat, tokens <= tokens', t \in 0 .. tokens'
  PROVE  ProcType' /\ Places'
  <1>a. ProcType /\ Places /\ tokens \in Nat  BY DEF BInv, Types, CountType
  <1>1. ProcType'  BY <1>a, ProcTypeKept
  <1>2. proc'[p].loc = l /\ \A q \in Procs : q # p => proc'[q] = proc[q]
    BY <1>a, AfterBecomes
  <1>3. Places'
    <2> SUFFICES ASSUME NEW q \in Procs PROVE proc'[q].loc.at \in Index
      BY DEF Places, Index
    <2>1. CASE q = p  BY <2>1, <1>2
    <2>2. CASE q # p  BY <2>2, <1>2, <1>a DEF Places
    <2> QED  BY <2>1, <2>2
  <1> QED  BY <1>1, <1>3

\* A step that leaves the processes alone keeps their part of it.
LEMMA BaseStays ==
  ASSUME BInv, proc' = proc, tokens' = tokens
  PROVE  ProcType' /\ Places'
  BY DEF BInv, Types, ProcType, Places, Index

\* The steps of a process on its own.
LEMMA BaseProcess == ASSUME BInv, NEW p \in Procs, Process(p) PROVE BInv'
  <1>a. ProcType /\ DescType /\ CountType /\ Places  BY DEF BInv, Types
  <1>1. UNCHANGED <<epoch, tokens, desc>>
    BY DEF Process, Learn, GuardToRead, GuardToWrite, Access, View, Turned, EndView
  <1>2. DescType' /\ CountType'  BY <1>a, <1>1 DEF DescType, CountType, Index
  <1>3. tokens' \in Nat /\ tokens <= tokens' /\ 0 \in 0 .. tokens' /\ proc[p].token \in 0 .. tokens'
    BY <1>a, <1>1 DEF CountType, ProcType
  <1>4. ProcType' /\ Places'
    <2>1. CASE Learn(p)
      <3>1. PICK i \in Index : proc' = [proc EXCEPT ![p].loc = Locator(i)]  BY <2>1 DEF Learn
      <3> DEFINE l == Locator(i)
      <3>2. l.at = i  BY DEF Locator
      <3>3. proc[p].pc = "idle"  BY <2>1 DEF Learn, Guarding
      <3>4. proc[p] = [pc |-> "idle", loc |-> proc[p].loc, token |-> proc[p].token]
        BY <1>a, <3>3 DEF ProcType
      <3>5. proc' = [proc EXCEPT ![p] = [proc[p] EXCEPT !.loc = l]]  BY <3>1
      <3> HIDE DEF l
      <3>6. [proc[p] EXCEPT !.loc = l] = [pc |-> "idle", loc |-> l, token |-> proc[p].token]
        BY <3>4
      <3>7. Becomes(p, "idle", l, proc[p].token)  BY <3>5, <3>6 DEF Becomes
      <3>8. "idle" \notin Writing  BY DEF Writing
      <3> QED  BY <1>3, <3>2, <3>7, <3>8, BaseBecomes
    <2>2. CASE proc' = [proc EXCEPT ![p] = Unaware]
      <3>1. Becomes(p, "idle", NoLocator, 0)  BY <2>2, UnawareBecomes
      <3>2. NoLocator.at \in Index  BY FirstIndex DEF NoLocator
      <3>3. "idle" \notin Writing  BY DEF Writing
      <3> QED  BY <1>3, <3>1, <3>2, <3>3, BaseBecomes
    <2>3. ASSUME NEW s, GoTo(p, s), s \in {"idle"} \cup Writing \cup Reading,
                 s \in Writing => p \in Owners
          PROVE  ProcType' /\ Places'
      <3> DEFINE l == proc[p].loc
      <3>1. Becomes(p, s, l, proc[p].token)  BY <1>a, <2>3, GoToBecomes
      <3>2. l.at \in Index  BY <1>a DEF Places
      <3> HIDE DEF l
      <3> QED  BY <1>3, <2>3, <3>1, <3>2, BaseBecomes
    <2>4. CASE GuardToRead(p) \/ GuardToWrite(p)
      <3>1. CASE GuardToRead(p)
        <4>1. GoTo(p, "reader") /\ "reader" \in Reading /\ "reader" \notin Writing
          BY <3>1 DEF GuardToRead, Reading, Writing
        <4> QED  BY <2>3, <4>1
      <3>2. CASE GuardToWrite(p)
        <4>1. GoTo(p, "writer") /\ "writer" \in Writing /\ p \in Owners
          BY <3>2 DEF GuardToWrite, Writing
        <4> QED  BY <2>3, <4>1
      <3> QED  BY <2>4, <3>1, <3>2
    <2>5. CASE View(p)
      <3>1. CASE GoTo(p, "reading")
        <4>1. "reading" \in Reading /\ "reading" \notin Writing  BY DEF Reading, Writing
        <4> QED  BY <2>3, <3>1, <4>1
      <3>2. CASE proc[p].pc = "writer" /\ GoTo(p, "writing")
        <4>1. "writing" \in Writing /\ p \in Owners  BY <1>a, <3>2 DEF ProcType, Writing
        <4> QED  BY <2>3, <3>2, <4>1
      <3> QED  BY <2>5, <3>1, <3>2 DEF View
    <2>6. CASE Turned(p)  BY <2>6, <2>2 DEF Turned
    <2>7. CASE EndView(p)
      <3>1. "idle" \notin Writing  BY DEF Writing
      <3> QED  BY <2>7, <2>2, <2>3, <3>1 DEF EndView
    <2> QED  BY <2>1, <2>4, <2>5, <2>6, <2>7 DEF Process, Access
  <1> QED  BY <1>2, <1>4 DEF BInv, Types

\* A lease that begins: descriptor and holder.
LEMMA BaseAllocate == ASSUME BInv, NEW p \in Owners, NEW k \in Orders, Allocate(p, k) PROVE BInv'
  <1> DEFINE i == Min(Index \ Occupied)
             e == Place(alloc, k)
             g == Max({desc[i].gen, 1})
             l == [at |-> i, gen |-> g, epoch |-> epoch, ext |-> e]
             t == tokens + 1
  <1>a. ProcType /\ DescType /\ CountType /\ p \in Procs  BY DEF BInv, Types, Procs
  <1>1. i \in Index  BY FreeIndex DEF Allocate
  <1>2. g \in Nat \ {0}
    <2>1. desc[i].gen \in Nat  BY <1>a, <1>1 DEF DescType
    <2> QED  BY <2>1, MaxOne
  <1>3. PICK f \in {"none", "ahead"} :
          desc' = [desc EXCEPT ![i] = [state |-> "writing", gen |-> g, owner |-> t, ext |-> e,
                                       deadline |-> f]]
    BY DEF Allocate
  <1>4. Holds(i, "writing", g, t, e, f)  BY <1>3 DEF Holds, Entry
  <1>5. proc' = [proc EXCEPT ![p].token = t, ![p].loc = l] /\ tokens' = t /\ epoch' = epoch
        /\ l.at = i
    BY DEF Allocate
  <1>6. t \in Nat /\ t \in 0 .. t /\ tokens <= t /\ tokens \in Nat  BY <1>a DEF CountType
  <1> HIDE DEF i, e, g, l, t
  <1>7. DescType'
    <2>1. "writing" \in States /\ f \in Deadlines  BY DEF States, InUse, Deadlines
    <2> QED  BY <1>a, <1>1, <1>2, <1>4, <1>5, <1>6, <2>1, DescTypeKept
  <1>8. ProcType' /\ Places'
    <2> DEFINE s == proc[p].pc
    <2>1. Becomes(p, s, l, t)  BY <1>a, <1>5, GiveBecomes
    <2>2. s \in {"idle"} \cup Writing \cup Reading  BY <1>a DEF ProcType
    <2> HIDE DEF s
    <2> QED  BY <1>a, <1>1, <1>5, <1>6, <2>1, <2>2, BaseBecomes
  <1>9. CountType'  BY <1>a, <1>5, <1>6 DEF CountType
  <1> QED  BY <1>7, <1>8, <1>9 DEF BInv, Types

\* A lease changes hands.
LEMMA BaseHandOver ==
  ASSUME BInv, NEW p \in Owners, NEW q \in Owners, Publish(p, q) \/ Transfer(p, q)
  PROVE  BInv'
  <1> DEFINE i == proc[p].loc.at
             l == proc[p].loc
             t == tokens + 1
             f == "ahead"
  <1>a. ProcType /\ DescType /\ CountType /\ Places /\ p \in Procs /\ q \in Procs
    BY DEF BInv, Types, Procs
  <1>1. i \in Index /\ desc[i].state # "free"
    <2>1. Owns(p, {"writing"}) \/ Owns(p, {"active"})  BY DEF Publish, Transfer
    <2> QED  BY <1>a, <2>1 DEF Places, Owns
  <1>2. HandOver(p, q, "active")  BY DEF Publish, Transfer
  <1>3. /\ desc' = [desc EXCEPT ![i].owner = t, ![i].state = "active", ![i].deadline = f]
        /\ proc' = [proc EXCEPT ![q].token = t, ![q].loc = l] /\ tokens' = t /\ epoch' = epoch
        /\ l.at = i /\ f \in Deadlines
    BY <1>2 DEF HandOver, Deadlines
  <1>4. t \in Nat /\ t \in 0 .. t /\ tokens <= t /\ tokens \in Nat  BY <1>a DEF CountType
  <1> HIDE DEF i, l, t, f
  <1>5. DescType'
    <2>1. Holds(i, "active", desc[i].gen, t, desc[i].ext, f)  BY <1>a, <1>1, <1>3, GiveHolds
    <2>2. "active" \in States /\ desc[i].gen \in Nat /\ desc[i].gen # 0
      BY <1>a, <1>1 DEF States, InUse, DescType
    <2> QED  BY <1>a, <1>1, <1>3, <1>4, <2>1, <2>2, DescTypeKept
  <1>6. ProcType' /\ Places'
    <2> DEFINE s == proc[q].pc
    <2>1. Becomes(q, s, l, t)  BY <1>a, <1>3, GiveBecomes
    <2>2. s \in {"idle"} \cup Writing \cup Reading  BY <1>a DEF ProcType
    <2> HIDE DEF s
    <2> QED  BY <1>a, <1>1, <1>3, <1>4, <2>1, <2>2, BaseBecomes
  <1>7. CountType'  BY <1>a, <1>3, <1>4 DEF CountType
  <1> QED  BY <1>5, <1>6, <1>7 DEF BInv, Types

\* A descriptor is written, and nothing else of the base changes.
LEMMA BaseHolds ==
  ASSUME BInv, NEW i \in Index, NEW s \in States, NEW g \in Nat, NEW o \in 0 .. tokens, NEW e,
         NEW l \in Deadlines, Holds(i, s, g, o, e, l), s # "free" => g # 0,
         UNCHANGED <<proc, tokens, epoch>>
  PROVE  BInv'
  <1>a. DescType /\ CountType /\ tokens \in Nat /\ tokens <= tokens /\ tokens' = tokens
    BY DEF BInv, Types, CountType
  <1>1. DescType'  BY <1>a, DescTypeKept
  <1>2. ProcType' /\ Places'  BY BaseStays
  <1>3. CountType'  BY <1>a DEF CountType
  <1> QED  BY <1>1, <1>2, <1>3 DEF BInv, Types

\* Nor when none is.
LEMMA BaseIdle ==
  ASSUME BInv, UNCHANGED <<proc, tokens, desc>>, epoch' \in Nat \ {0}
  PROVE  BInv'
  <1>1. ProcType' /\ Places'  BY BaseStays
  <1>2. DescType' /\ CountType'  BY DEF BInv, Types, DescType, CountType, Index
  <1> QED  BY <1>1, <1>2 DEF BInv, Types

\* The next lease to reclaim, an outsider to the table included.
LEMMA BaseRevoke == ASSUME BInv, Revoke PROVE BInv'
  <1> DEFINE i == Min(pending)
             f == "none"
  <1>a. DescType /\ epoch \in Nat \ {0}  BY DEF BInv, Types, CountType
  <1>1. /\ desc[i].state \in InUse /\ UNCHANGED <<proc, tokens, epoch>> /\ f \in Deadlines
        /\ desc' = [desc EXCEPT ![i].state = "revoking", ![i].deadline = f]
    BY DEF Revoke, Deadlines
  <1> HIDE DEF i, f
  <1>2. CASE i \in Index
    <2>1. Holds(i, "revoking", desc[i].gen, desc[i].owner, desc[i].ext, f)
      BY <1>a, <1>1, <1>2, StateHolds
    <2>2. /\ "revoking" \in States /\ desc[i].gen \in Nat /\ desc[i].gen # 0
          /\ desc[i].owner \in 0 .. tokens
      BY <1>a, <1>1, <1>2 DEF States, Reclaiming, DescType, InUse
    <2> QED  BY <1>1, <1>2, <2>1, <2>2, BaseHolds
  <1>3. CASE i \notin Index
    <2>1. desc' = desc  BY <1>a, <1>1, <1>3 DEF DescType
    <2> QED  BY <1>a, <1>1, <2>1, BaseIdle
  <1> QED  BY <1>2, <1>3

\* A reclaim that ends its lease, leaves it, or calls it quarantined.
LEMMA BaseFinalize == ASSUME BInv, Finalize PROVE BInv'
  <1> DEFINE i == Min(pending)
  <1>a. DescType /\ CountType /\ epoch \in Nat \ {0} /\ tokens \in Nat
    BY DEF BInv, Types, CountType
  <1>1. /\ desc[i].state \in Reclaiming /\ UNCHANGED <<proc, tokens, epoch>>
        /\ \/ desc' = [desc EXCEPT ![i] = [state |-> "free", gen |-> desc[i].gen + 1, owner |-> 0,
                                           ext |-> Block0, deadline |-> "none"]]
           \/ desc' = desc
           \/ desc' = [desc EXCEPT ![i].state = "quarantined"]
    BY DEF Finalize
  <1> HIDE DEF i
  <1>2. CASE desc' = desc  BY <1>a, <1>1, <1>2, BaseIdle
  <1>3. CASE i \notin Index
    <2>1. desc' = desc  BY <1>a, <1>1, <1>3 DEF DescType
    <2> QED  BY <1>2, <2>1
  <1>b. i \in Index => desc[i].gen \in Nat /\ desc[i].gen # 0 /\ desc[i].owner \in 0 .. tokens
                      /\ desc[i].deadline \in Deadlines
    BY <1>a, <1>1 DEF DescType, Reclaiming
  <1>4. CASE i \in Index /\ desc' = [desc EXCEPT ![i].state = "quarantined"]
    <2> DEFINE f == desc[i].deadline
    <2>1. f = desc[i].deadline /\ f \in Deadlines  BY <1>b, <1>4
    <2> HIDE DEF f
    <2>2. Holds(i, "quarantined", desc[i].gen, desc[i].owner, desc[i].ext, f)
      BY <1>a, <1>4, <2>1, OneFieldHolds
    <2>3. "quarantined" \in States  BY DEF States, Reclaiming
    <2> QED  BY <1>1, <1>b, <1>4, <2>1, <2>2, <2>3, BaseHolds
  <1>5. CASE /\ i \in Index
             /\ desc' = [desc EXCEPT ![i] = [state |-> "free", gen |-> desc[i].gen + 1, owner |-> 0,
                                             ext |-> Block0, deadline |-> "none"]]
    <2> DEFINE g == desc[i].gen + 1
               o == 0
               e == Block0
               f == "none"
    <2>1. Holds(i, "free", g, o, e, f)  BY <1>5 DEF Holds, Entry
    <2>2. g \in Nat /\ o \in 0 .. tokens /\ "free" \in States /\ f \in Deadlines
      BY <1>a, <1>b, <1>5 DEF States, Deadlines
    <2> HIDE DEF g, o, e, f
    <2> QED  BY <1>1, <1>5, <2>1, <2>2, BaseHolds
  <1> QED  BY <1>1, <1>2, <1>3, <1>4, <1>5

\* A death cuts the publication of a lease, or of one that was to begin.
LEMMA BaseCut == ASSUME BInv, CutFirst \/ \E i \in Index : CutShort(i) PROVE BInv'
  <1>a. DescType  BY DEF BInv, Types
  <1>1. UNCHANGED <<proc, tokens, epoch>>  BY DEF CutFirst, CutShort, Dies
  <1>2. CASE CutFirst
    <2> DEFINE i == Min(Index \ Occupied)
               g == Max({desc[i].gen, 1})
    <2>1. i \in Index  BY <1>2, FreeIndex DEF CutFirst
    <2>2. g \in Nat \ {0}
      <3>1. desc[i].gen \in Nat  BY <1>a, <2>1 DEF DescType
      <3> QED  BY <3>1, MaxOne
    <2>3. desc' = [desc EXCEPT ![i].gen = g]  BY <1>2 DEF CutFirst
    <2> HIDE DEF i, g
    <2>4. Holds(i, desc[i].state, g, desc[i].owner, desc[i].ext, desc[i].deadline)
      BY <1>a, <2>1, <2>3, GenHolds
    <2>5. desc[i].state \in States /\ desc[i].owner \in 0 .. tokens /\ desc[i].deadline \in Deadlines
      BY <1>a, <2>1 DEF DescType
    <2> QED  BY <1>1, <2>1, <2>2, <2>4, <2>5, BaseHolds
  <1>3. ASSUME NEW i \in Index, CutShort(i) PROVE BInv'
    <2> DEFINE f == desc[i].deadline
    <2>1. f = desc[i].deadline /\ desc' = [desc EXCEPT ![i].state = "free"]  BY <1>3 DEF CutShort
    <2>2. /\ desc[i].gen \in Nat /\ desc[i].owner \in 0 .. tokens /\ f \in Deadlines
          /\ "free" \in States
      BY <1>a DEF DescType, States
    <2> HIDE DEF f
    <2>3. Holds(i, "free", desc[i].gen, desc[i].owner, desc[i].ext, f)
      BY <1>a, <2>1, OneFieldHolds
    <2> QED  BY <1>1, <2>2, <2>3, BaseHolds
  <1> QED  BY <1>2, <1>3

\* Every step keeps the base.
LEMMA BaseNext == BInv /\ [Next]_vars => BInv'
  <1> SUFFICES ASSUME BInv, [Next]_vars PROVE BInv'  OBVIOUS
  <1>a. DescType /\ epoch \in Nat \ {0}  BY DEF BInv, Types, CountType
  <1>1. ASSUME NEW p \in Procs, Process(p) PROVE BInv'  BY <1>1, BaseProcess
  <1>2. ASSUME NEW p \in Owners, Request(p) PROVE BInv'
    <2>1. CASE \E k \in Orders : Allocate(p, k)  BY <2>1, BaseAllocate
    <2>2. CASE \E q \in Owners : Publish(p, q) \/ Transfer(p, q)  BY <2>2, BaseHandOver
    <2>3. CASE Commit(p)
      <3> DEFINE i == proc[p].loc.at
                 f == desc[i].deadline
      <3>1. i \in Index /\ desc[i].state = "writing"
        BY <2>3 DEF Commit, Owns, BInv, Places, Procs
      <3>2. desc' = [desc EXCEPT ![i].state = "active"] /\ UNCHANGED <<proc, tokens, epoch>>
            /\ f = desc[i].deadline
        BY <2>3 DEF Commit
      <3>3. /\ "active" \in States /\ desc[i].gen \in Nat /\ desc[i].gen # 0
            /\ desc[i].owner \in 0 .. tokens /\ f \in Deadlines
        BY <1>a, <3>1 DEF States, InUse, DescType
      <3> HIDE DEF i, f
      <3>4. Holds(i, "active", desc[i].gen, desc[i].owner, desc[i].ext, f)
        BY <1>a, <3>1, <3>2, OneFieldHolds
      <3> QED  BY <3>1, <3>2, <3>3, <3>4, BaseHolds
    <2>4. CASE Release(p)  BY <1>a, <2>4, BaseIdle DEF Release
    <2> QED  BY <1>2, <2>1, <2>2, <2>3, <2>4 DEF Request
  <1>3. ASSUME NEW i \in Index, Expire(i) PROVE BInv'
    <2> DEFINE s == desc[i].state
               f == "past"
    <2>1. desc' = [desc EXCEPT ![i].deadline = f] /\ UNCHANGED <<proc, tokens, epoch>>
          /\ s = desc[i].state
      BY <1>3 DEF Expire
    <2>2. /\ s \in States /\ desc[i].gen \in Nat /\ (s # "free" => desc[i].gen # 0)
          /\ desc[i].owner \in 0 .. tokens /\ f \in Deadlines
      BY <1>a DEF DescType, Deadlines
    <2> HIDE DEF s, f
    <2>3. Holds(i, s, desc[i].gen, desc[i].owner, desc[i].ext, f)  BY <1>a, <2>1, OneFieldHolds
    <2> QED  BY <2>1, <2>2, <2>3, BaseHolds
  <1>4. CASE Sweep  BY <1>a, <1>4, BaseIdle DEF Sweep
  <1>5. CASE Reclaim  BY <1>5, BaseRevoke, BaseFinalize DEF Reclaim
  <1>6. CASE Death
    <2>1. CASE Crash  BY <1>a, <2>1, BaseIdle DEF Crash, Dies
    <2> QED  BY <1>6, <2>1, BaseCut DEF Death
  <1>7. CASE Start
    <2>1. epoch' \in Nat \ {0} /\ UNCHANGED <<proc, tokens, desc>>  BY <1>a, <1>7 DEF Start
    <2> QED  BY <2>1, BaseIdle
  <1>8. CASE UNCHANGED vars  BY <1>a, <1>8, BaseIdle DEF vars
  <1> QED  BY <1>1, <1>2, <1>3, <1>4, <1>5, <1>6, <1>7, <1>8 DEF Next

\* And so do the initial states.
LEMMA BaseInit == Init => BInv
  <1> SUFFICES ASSUME Init PROVE BInv  OBVIOUS
  <1>1. GInv  BY InitInv
  <1>2. \A p \in Procs : proc[p].loc.at = 0  BY DEF Init, Unaware, NoLocator
  <1> QED  BY <1>1, <1>2, FirstIndex DEF BInv, GInv, Places

-----------------------------------------------------------------------------
(* The table and the tree. The extents of the leases are legal together and *)
(* belong to one lease each, the tree in memory is theirs, and a reclaim    *)
(* call works on leases.                                                    *)
Leased == {desc[i].ext : i \in Occupied}

CountInv ==
  /\ epoch \in 1 .. MaxEpoch /\ up \in BOOLEAN /\ (~up => epoch < MaxEpoch)
  /\ tokens \in 0 .. MaxTokens /\ cut \in BOOLEAN
  /\ \A i \in Index : desc[i].gen \in 0 .. (IF desc[i].state = "free" THEN tokens + 1 ELSE tokens)
LeaseInv ==
  /\ \A i \in Index : desc[i].ext \in Extents
  /\ Legal(Leased)
  /\ \A i, j \in Occupied : i # j => Apart(desc[i].ext, desc[j].ext)
TreeInv ==
  /\ alloc.free \subseteq Extents /\ alloc.used \subseteq Extents /\ alloc.reserve \in BOOLEAN
  /\ up \/ ~cut => alloc = TreeOf(Leased)
PendingInv == pending \subseteq Occupied /\ (~up => pending = {})

AInv == CountInv /\ LeaseInv /\ TreeInv /\ PendingInv
IInv == BInv /\ AInv

\* What the owner of a lease names is in the table.
LEMMA OwnsPlace ==
  ASSUME BInv, NEW p \in Owners, NEW S, Owns(p, S)
  PROVE  proc[p].loc.at \in Index /\ desc[proc[p].loc.at].state \in S
  BY DEF BInv, Places, Owns, Procs

\* The tree of legal extents consists of extents.
LEMMA TreeTyped ==
  ASSUME NEW U, Legal(U), alloc = TreeOf(U)
  PROVE  alloc.free \subseteq Extents /\ alloc.used \subseteq Extents /\ alloc.reserve \in BOOLEAN
  <1>1. alloc.free = Widest(U) /\ alloc.used = U
        /\ alloc.reserve = (HugeReserve /\ \A u \in U : ~InReserve(u))
    BY TreeFields
  <1>2. Widest(U) \subseteq Extents /\ U \subseteq Extents
    BY DEF Widest, Holes, General, Legal
  <1> QED  BY <1>1, <1>2, GeometryAssumption

\* The extent of a descriptor that was never used is one of the arena.
LEMMA Block0Extent == Block0 \in Extents
  <1>1. 0 \in Orders /\ Length[0] = 1  BY LengthDef, GeometryAssumption DEF Orders
  <1>2. ArenaSize \in Nat \ {0}  BY ArenaNotEmpty
  <1>3. 0 % 1 = 0  OBVIOUS
  <1> QED  BY <1>1, <1>2, <1>3 DEF Extents, Block0, Block

\* An extent overlaps itself.
LEMMA NotApartFromItself == ASSUME NEW e \in Extents PROVE ~Apart(e, e)
  <1>1. e.offset \in Units(e)  BY ExtentIs, LengthPositive DEF Units
  <1> QED  BY <1>1 DEF Apart

\* So it is for the tree after a step.
LEMMA TypedAfter ==
  ASSUME NEW U, Legal(U), alloc' = TreeOf(U)
  PROVE  (alloc.free \subseteq Extents /\ alloc.used \subseteq Extents /\ alloc.reserve \in BOOLEAN)'
  <1>1. alloc'.free = Widest(U) /\ alloc'.used = U
        /\ alloc'.reserve = (HugeReserve /\ \A u \in U : ~InReserve(u))
    BY TreeFields
  <1>2. Widest(U) \subseteq Extents /\ U \subseteq Extents
    BY DEF Widest, Holes, General, Legal
  <1>3. Extents' = Extents  BY DEF Extents
  <1> QED  BY <1>1, <1>2, <1>3, GeometryAssumption

\* The initial states: no lease, and the tree of no extent.
LEMMA ArenaInit == Init => AInv
  <1> SUFFICES ASSUME Init PROVE AInv  OBVIOUS
  <1>1. \A i \in Index : desc[i] = [state |-> "free", gen |-> 0, owner |-> 0, ext |-> Block0,
                                    deadline |-> "none"]
    BY DEF Init
  <1>2. Occupied = {}  BY <1>1 DEF Occupied
  <1>3. Leased = {}  BY <1>2 DEF Leased
  <1>4. epoch = 1 /\ up = TRUE /\ alloc = NewAllocator /\ pending = {} /\ tokens = 0 /\ cut = FALSE
    BY DEF Init
  <1>5. CountInv
    <2>1. up \in BOOLEAN /\ cut \in BOOLEAN  BY <1>4
    <2>2. epoch \in 1 .. MaxEpoch /\ tokens \in 0 .. MaxTokens  BY <1>4, ArenaAssumption
    <2>3. ~up => epoch < MaxEpoch  BY <1>4
    <2>4. \A i \in Index : desc[i].gen \in 0 .. (IF desc[i].state = "free" THEN tokens + 1 ELSE tokens)
      BY <1>1, <1>4
    <2> QED  BY <2>1, <2>2, <2>3, <2>4 DEF CountInv
  <1>6. LeaseInv  BY <1>1, <1>2, <1>3, Block0Extent, NewTree DEF LeaseInv
  <1>7. TreeInv
    <2>1. alloc = TreeOf(Leased) /\ Legal(Leased)  BY <1>3, <1>4, NewTree
    <2> QED  BY <2>1, TreeTyped DEF TreeInv
  <1>8. PendingInv  BY <1>2, <1>4 DEF PendingInv
  <1> QED  BY <1>5, <1>6, <1>7, <1>8 DEF AInv

(* A step that starts and ends no lease keeps extents and generations.      *)
SameLeases ==
  \A i \in Index : /\ desc'[i].ext = desc[i].ext /\ desc'[i].gen = desc[i].gen
                   /\ desc'[i].state = "free" <=> desc[i].state = "free"

\* Leases with the same extents are the same leased extents.
LEMMA LeasesStay ==
  ASSUME SameLeases
  PROVE  Occupied' = Occupied /\ Leased' = Leased
  <1>1. Occupied' = Occupied  BY DEF SameLeases, Occupied, Index
  <1>2. \A i \in Occupied : desc'[i].ext = desc[i].ext  BY DEF SameLeases, Occupied
  <1> QED  BY <1>1, <1>2 DEF Leased

\* A step that leaves leases and tree alone keeps the invariant.
LEMMA LeasesKeep ==
  ASSUME IInv, SameLeases, UNCHANGED <<epoch, up, alloc, cut>>,
         tokens' = tokens \/ (tokens < MaxTokens /\ tokens' = tokens + 1),
         pending' \subseteq Occupied, pending' # {} => up
  PROVE  AInv'
  <1>a. CountInv /\ LeaseInv /\ TreeInv  BY DEF IInv, AInv
  <1>b. Index' = Index  BY DEF Index
  <1>1. Occupied' = Occupied /\ Leased' = Leased  BY LeasesStay
  <1>2. CountInv'
    <2>1. tokens' \in tokens .. MaxTokens /\ tokens \in Nat  BY <1>a, ArenaAssumption DEF CountInv
    <2>2. ASSUME NEW i \in Index
          PROVE  desc'[i].gen \in 0 .. (IF desc'[i].state = "free" THEN tokens' + 1 ELSE tokens')
      <3>1. desc[i].gen \in 0 .. (IF desc[i].state = "free" THEN tokens + 1 ELSE tokens)
        BY <1>a DEF CountInv
      <3>2. desc'[i].gen = desc[i].gen /\ (desc'[i].state = "free" <=> desc[i].state = "free")
        BY DEF SameLeases
      <3> QED  BY <2>1, <3>1, <3>2
    <2>3. tokens' \in 0 .. MaxTokens  BY <2>1
    <2> QED  BY <1>a, <1>b, <2>2, <2>3 DEF CountInv
  <1>3. LeaseInv'
    <2>1. \A i \in Index : desc'[i].ext \in Extents  BY <1>a DEF LeaseInv, SameLeases
    <2>2. Legal(Leased)'  BY <1>a, <1>1 DEF LeaseInv
    <2>3. \A i, j \in Occupied : i # j => Apart(desc'[i].ext, desc'[j].ext)
      <3>1. \A i \in Occupied : desc'[i].ext = desc[i].ext  BY DEF SameLeases, Occupied
      <3> QED  BY <1>a, <3>1 DEF LeaseInv
    <2> QED  BY <1>1, <1>b, <2>1, <2>2, <2>3 DEF LeaseInv
  <1>4. TreeInv'  BY <1>a, <1>1 DEF TreeInv
  <1>5. PendingInv'  BY <1>1 DEF PendingInv
  <1> QED  BY <1>2, <1>3, <1>4, <1>5 DEF AInv

(* Processes, and requests and reclaim steps that leave the table alone.    *)
LEMMA TableStays == ASSUME desc' = desc PROVE SameLeases
  BY DEF SameLeases

\* The steps of a process on its own leave leases and tree alone.
LEMMA ArenaProcess == ASSUME IInv, NEW p \in Procs, Process(p) PROVE AInv'
  <1>1. UNCHANGED <<epoch, up, alloc, pending, tokens, desc, cut>>
    BY DEF Process, Learn, GuardToRead, GuardToWrite, Access, View, Turned, EndView
  <1>2. pending' \subseteq Occupied /\ (pending' # {} => up)
    BY <1>1 DEF IInv, AInv, PendingInv
  <1> QED  BY <1>1, <1>2, TableStays, LeasesKeep

\* A lease that changes its state or its owner keeps its extent.
LEMMA HeldLeases ==
  ASSUME DescType, NEW i \in Index, NEW s, s # "free", desc[i].state # "free", NEW o, NEW l,
         Holds(i, s, desc[i].gen, o, desc[i].ext, l)
  PROVE  SameLeases
  <1>1. /\ desc'[i].state = s /\ desc'[i].gen = desc[i].gen /\ desc'[i].ext = desc[i].ext
        /\ \A k \in Index : k # i => desc'[k] = desc[k]
    BY AfterHolds
  <1> QED  BY <1>1 DEF SameLeases

(* An extent is handed out: it is no lease's yet and overlaps none.         *)
LEMMA ArenaAllocate == ASSUME IInv, NEW p \in Owners, NEW k \in Orders, Allocate(p, k) PROVE AInv'
  <1> DEFINE i == Min(Index \ Occupied)
             e == Place(alloc, k)
             g == Max({desc[i].gen, 1})
             t == tokens + 1
             s == "writing"
  <1>a. CountInv /\ LeaseInv /\ TreeInv /\ PendingInv /\ DescType
    BY DEF IInv, AInv, BInv, Types
  <1>b. Index' = Index  BY DEF Index
  <1>1. i \in Index /\ i \notin Occupied /\ desc[i].state = "free"
    <2>1. Index \ Occupied # {} /\ Index \ Occupied \subseteq Nat
      BY IndexNat DEF Allocate, Occupied
    <2>2. i \in Index \ Occupied  BY <2>1, MinIn
    <2> HIDE DEF i
    <2> QED  BY <2>2 DEF Occupied
  <1>2. up /\ alloc = TreeOf(Leased) /\ CanAllocate(alloc, k) /\ alloc' = Taken(alloc, k)
    BY <1>a DEF TreeInv, Allocate, Ready
  <1>3. /\ e \in Extents /\ e \notin Leased /\ Legal(Leased \cup {e})
        /\ alloc' = TreeOf(Leased \cup {e})
    BY <1>a, <1>2, TakenTree DEF LeaseInv
  <1>c. PICK f \in {"none", "ahead"} :
          desc' = [desc EXCEPT ![i] = [state |-> "writing", gen |-> g, owner |-> t, ext |-> e,
                                       deadline |-> f]]
    BY DEF Allocate
  <1>4. Holds(i, s, g, t, e, f)  BY <1>c DEF Holds, Entry
  <1>5. g \in 1 .. t
    <2>1. desc[i].gen \in 0 .. t /\ t \in Nat \ {0}  BY <1>a, <1>1 DEF CountInv
    <2> HIDE DEF i, t
    <2>2. g = desc[i].gen \/ g = 1
      <3> DEFINE S == {desc[i].gen, 1}
                 m == IF desc[i].gen >= 1 THEN desc[i].gen ELSE 1
      <3>1. m \in S /\ \A y \in S : m >= y  BY <2>1
      <3>2. g = CHOOSE x \in S : \A y \in S : x >= y  BY DEF Max
      <3> HIDE DEF S
      <3>3. g \in S  BY <3>1, <3>2
      <3> QED  BY <3>3 DEF S
    <2>3. g \in Nat \ {0}  BY <2>1, MaxOne
    <2> HIDE DEF g
    <2> QED  BY <2>1, <2>2, <2>3
  <1>6. tokens' = t /\ tokens < MaxTokens /\ UNCHANGED <<epoch, up, pending, cut>>  BY DEF Allocate
  <1> HIDE DEF i, e, g, t, s
  <1>7. /\ desc'[i].state = s /\ desc'[i].gen = g /\ desc'[i].ext = e
        /\ \A j \in Index : j # i => desc'[j] = desc[j]
    BY <1>a, <1>1, <1>4, AfterHolds
  <1>8. Occupied' = Occupied \cup {i}  BY <1>1, <1>7, <1>b DEF Occupied, s
  <1>9. Leased' = Leased \cup {e}
    <2>1. \A j \in Occupied : desc'[j].ext = desc[j].ext  BY <1>1, <1>7 DEF Occupied
    <2> QED  BY <1>7, <1>8, <2>1 DEF Leased
  <1>10. CountInv'
    <2>1. t \in 1 .. MaxTokens /\ t = tokens + 1 /\ tokens \in Nat
      BY <1>a, <1>6, ArenaAssumption DEF CountInv, t
    <2>2. ASSUME NEW j \in Index
          PROVE  desc'[j].gen \in 0 .. (IF desc'[j].state = "free" THEN t + 1 ELSE t)
      <3>1. CASE j = i  BY <1>5, <1>7, <2>1, <3>1
      <3>2. CASE j # i
        <4>1. desc[j].gen \in 0 .. (IF desc[j].state = "free" THEN tokens + 1 ELSE tokens)
          BY <1>a DEF CountInv
        <4> QED  BY <1>7, <2>1, <3>2, <4>1
      <3> QED  BY <3>1, <3>2
    <2> QED  BY <1>a, <1>b, <1>6, <2>1, <2>2 DEF CountInv
  <1>11. LeaseInv'
    <2>1. \A j \in Index : desc'[j].ext \in Extents  BY <1>a, <1>3, <1>7 DEF LeaseInv
    <2>2. Legal(Leased)'  BY <1>3, <1>9
    <2>3. \A j \in Occupied : Apart(desc[j].ext, e) /\ Apart(e, desc[j].ext)
      <3>1. TAKE j \in Occupied
      <3>2. desc[j].ext \in Leased  BY DEF Leased
      <3> QED  BY <1>3, <3>2 DEF Legal
    <2>4. ASSUME NEW j1 \in Occupied', NEW j2 \in Occupied', j1 # j2
          PROVE  Apart(desc'[j1].ext, desc'[j2].ext)
      <3>1. CASE j1 = i  BY <1>1, <1>7, <1>8, <2>3, <2>4, <3>1 DEF Occupied
      <3>2. CASE j2 = i  BY <1>1, <1>7, <1>8, <2>3, <2>4, <3>2 DEF Occupied
      <3>3. CASE j1 # i /\ j2 # i
        <4>1. j1 \in Occupied /\ j2 \in Occupied  BY <1>8, <3>3
        <4>2. desc'[j1] = desc[j1] /\ desc'[j2] = desc[j2]  BY <1>7, <3>3, <4>1 DEF Occupied
        <4> QED  BY <1>a, <2>4, <4>1, <4>2 DEF LeaseInv
      <3> QED  BY <3>1, <3>2, <3>3
    <2> QED  BY <1>b, <2>1, <2>2, <2>4 DEF LeaseInv
  <1>12. TreeInv'  BY <1>3, <1>9, TypedAfter DEF TreeInv
  <1>13. PendingInv'  BY <1>a, <1>6, <1>8 DEF PendingInv
  <1> QED  BY <1>10, <1>11, <1>12, <1>13 DEF AInv

\* A commit keeps the extents,
LEMMA ArenaCommit == ASSUME IInv, NEW p \in Owners, Commit(p) PROVE AInv'
  <1> DEFINE i == proc[p].loc.at
  <1>a. BInv /\ DescType /\ PendingInv  BY DEF IInv, AInv, BInv, Types
  <1>1. i \in Index /\ desc[i].state = "writing"
    <2>1. Owns(p, {"writing"})  BY DEF Commit
    <2> QED  BY <1>a, <2>1, OwnsPlace
  <1>2. desc' = [desc EXCEPT ![i].state = "active"] /\ UNCHANGED <<epoch, up, alloc, pending, tokens, cut>>
    BY DEF Commit
  <1> HIDE DEF i
  <1>3. Holds(i, "active", desc[i].gen, desc[i].owner, desc[i].ext, desc[i].deadline)
    BY <1>a, <1>1, <1>2, OneFieldHolds
  <1>4. SameLeases
    <2>1. "active" # "free" /\ desc[i].state # "free"  BY <1>1
    <2> QED  BY <1>a, <1>1, <1>3, <2>1, HeldLeases
  <1> QED  BY <1>a, <1>2, <1>4, LeasesKeep DEF PendingInv

\* a publication or a transfer does,
LEMMA ArenaHandOver ==
  ASSUME IInv, NEW p \in Owners, NEW q \in Owners, Publish(p, q) \/ Transfer(p, q)
  PROVE  AInv'
  <1> DEFINE i == proc[p].loc.at
             t == tokens + 1
             f == "ahead"
  <1>a. BInv /\ DescType /\ PendingInv  BY DEF IInv, AInv, BInv, Types
  <1>1. Owns(p, {"writing"}) \/ Owns(p, {"active"})  BY DEF Publish, Transfer
  <1>2. i \in Index /\ desc[i].state \in {"writing", "active"}  BY <1>a, <1>1, OwnsPlace
  <1>3. HandOver(p, q, "active")  BY DEF Publish, Transfer
  <1>4. /\ desc' = [desc EXCEPT ![i].owner = t, ![i].state = "active", ![i].deadline = f]
        /\ tokens < MaxTokens /\ tokens' = t /\ UNCHANGED <<epoch, up, alloc, pending, cut>>
    BY <1>3 DEF HandOver
  <1> HIDE DEF i, f
  <1>5. SameLeases
    <2> HIDE DEF t
    <2>1. Holds(i, "active", desc[i].gen, t, desc[i].ext, f)  BY <1>a, <1>2, <1>4, GiveHolds
    <2>2. "active" # "free" /\ desc[i].state # "free"  BY <1>2
    <2> QED  BY <1>a, <1>2, <2>1, <2>2, HeldLeases
  <1> QED  BY <1>a, <1>4, <1>5, LeasesKeep DEF PendingInv

\* and a release gives its extent back to the tree.
LEMMA ArenaRelease == ASSUME IInv, NEW p \in Owners, Release(p) PROVE AInv'
  <1>a. BInv  BY DEF IInv
  <1>1. Owns(p, InUse \cup Reclaiming) /\ up /\ pending' = {proc[p].loc.at}
        /\ UNCHANGED <<epoch, up, alloc, tokens, desc, cut>>
    BY DEF Release, Ready
  <1>2. proc[p].loc.at \in Index /\ desc[proc[p].loc.at].state \in InUse \cup Reclaiming
    BY <1>a, <1>1, OwnsPlace
  <1>3. proc[p].loc.at \in Occupied  BY <1>2 DEF Occupied, InUse, Reclaiming
  <1> QED  BY <1>1, <1>3, TableStays, LeasesKeep

\* A lease that runs out keeps its extent until it is swept.
LEMMA ArenaExpire == ASSUME IInv, NEW i \in Index, Expire(i) PROVE AInv'
  <1> DEFINE f == "past"
             s == desc[i].state
  <1>a. DescType /\ PendingInv  BY DEF IInv, AInv, BInv, Types
  <1>1. s # "free" /\ UNCHANGED <<epoch, up, alloc, pending, tokens, cut>>  BY DEF Expire, InUse
  <1>2. SameLeases
    <2>1. desc' = [desc EXCEPT ![i].deadline = f] /\ s = desc[i].state  BY DEF Expire
    <2> HIDE DEF f, s
    <2>2. Holds(i, s, desc[i].gen, desc[i].owner, desc[i].ext, f)  BY <1>a, <2>1, OneFieldHolds
    <2> QED  BY <1>a, <1>1, <2>1, <2>2, HeldLeases
  <1> QED  BY <1>a, <1>1, <1>2, LeasesKeep DEF PendingInv

\* A sweep lists leases that are there.
LEMMA ArenaSweep == ASSUME IInv, Sweep PROVE AInv'
  <1>1. up /\ pending' = Due /\ UNCHANGED <<epoch, up, alloc, tokens, desc, cut>>  BY DEF Sweep, Ready
  <1>2. Due \subseteq Occupied  BY DEF Due, Occupied, InUse, Reclaiming
  <1> QED  BY <1>1, <1>2, TableStays, LeasesKeep

\* The next lease of the list is one that is held.
LEMMA PendingLease ==
  ASSUME IInv, pending # {}
  PROVE  Min(pending) \in pending /\ Min(pending) \in Index /\ desc[Min(pending)].state # "free"
  <1>1. pending \subseteq Occupied  BY DEF IInv, AInv, PendingInv
  <1>2. pending \subseteq Nat  BY <1>1, IndexNat DEF Occupied
  <1>3. Min(pending) \in pending  BY <1>2, MinIn
  <1> QED  BY <1>1, <1>3 DEF Occupied

\* A lease revoked while a guard is held keeps its extent,
LEMMA ArenaRevoke == ASSUME IInv, Revoke PROVE AInv'
  <1> DEFINE i == Min(pending)
             f == "none"
  <1>a. DescType /\ PendingInv  BY DEF IInv, AInv, BInv, Types
  <1>1. i \in Index /\ desc[i].state # "free"  BY PendingLease DEF Revoke
  <1>2. /\ desc' = [desc EXCEPT ![i].state = "revoking", ![i].deadline = f]
        /\ UNCHANGED <<epoch, up, alloc, pending, tokens, cut>>
    BY DEF Revoke
  <1> HIDE DEF i, f
  <1>3. Holds(i, "revoking", desc[i].gen, desc[i].owner, desc[i].ext, f)
    BY <1>a, <1>1, <1>2, StateHolds
  <1>4. SameLeases
    <2>1. "revoking" # "free"  OBVIOUS
    <2> QED  BY <1>a, <1>1, <1>3, <2>1, HeldLeases
  <1> QED  BY <1>a, <1>2, <1>4, LeasesKeep DEF PendingInv

(* A lease ends: what is left is merged, and the others keep their extents. *)
LEMMA ArenaFree ==
  ASSUME IInv, NEW i \in Occupied, up,
         NEW g, g = desc[i].gen + 1, NEW o, NEW e, e = Block0, NEW f, Holds(i, "free", g, o, e, f),
         alloc' = Freed(alloc, desc[i].ext), pending' \subseteq Occupied \ {i},
         UNCHANGED <<epoch, up, tokens, cut>>
  PROVE  AInv'
  <1> DEFINE x == desc[i].ext
  <1>a. CountInv /\ LeaseInv /\ TreeInv /\ DescType  BY DEF IInv, AInv, BInv, Types
  <1>b. Index' = Index  BY DEF Index
  <1>1. i \in Index /\ desc[i].state # "free"  BY DEF Occupied
  <1>2. /\ desc'[i].state = "free" /\ desc'[i].gen = g /\ desc'[i].ext = e
        /\ \A j \in Index : j # i => desc'[j] = desc[j]
    BY <1>a, <1>1, AfterHolds
  <1>3. x \in Leased /\ alloc = TreeOf(Leased) /\ Legal(Leased)
    BY <1>a DEF Leased, TreeInv, LeaseInv
  <1>4. Legal(Leased \ {x}) /\ alloc' = TreeOf(Leased \ {x})  BY <1>3, FreedTree
  <1>5. Occupied' = Occupied \ {i}  BY <1>1, <1>2, <1>b DEF Occupied
  <1>6. \A j \in Occupied \ {i} : desc'[j] = desc[j] /\ desc[j].ext # x
    <2>1. TAKE j \in Occupied \ {i}
    <2>2. Apart(desc[j].ext, x)  BY <1>a DEF LeaseInv
    <2>3. x \in Extents  BY <1>a, <1>1 DEF LeaseInv
    <2>4. ~Apart(x, x)  BY <2>3, NotApartFromItself
    <2> QED  BY <1>2, <2>2, <2>4 DEF Occupied
  <1>7. Leased' = Leased \ {x}  BY <1>5, <1>6 DEF Leased
  <1> HIDE DEF x
  <1>8. CountInv'
    <2>1. tokens \in 0 .. MaxTokens /\ MaxTokens \in Nat  BY <1>a, ArenaAssumption DEF CountInv
    <2>2. ASSUME NEW j \in Index
          PROVE  desc'[j].gen \in 0 .. (IF desc'[j].state = "free" THEN tokens + 1 ELSE tokens)
      <3>1. desc[j].gen \in 0 .. (IF desc[j].state = "free" THEN tokens + 1 ELSE tokens)
        BY <1>a DEF CountInv
      <3>2. CASE j = i  BY <1>1, <1>2, <2>1, <3>1, <3>2
      <3>3. CASE j # i  BY <1>2, <3>1, <3>3
      <3> QED  BY <3>2, <3>3
    <2> QED  BY <1>a, <1>b, <2>1, <2>2 DEF CountInv
  <1>9. LeaseInv'
    <2>1. \A j \in Index : desc'[j].ext \in Extents  BY <1>a, <1>2, Block0Extent DEF LeaseInv
    <2>2. Legal(Leased)'  BY <1>4, <1>7
    <2>3. \A j, k \in Occupied' : j # k => Apart(desc'[j].ext, desc'[k].ext)
      BY <1>a, <1>5, <1>6 DEF LeaseInv
    <2> QED  BY <1>b, <2>1, <2>2, <2>3 DEF LeaseInv
  <1>10. TreeInv'  BY <1>4, <1>7, TypedAfter DEF TreeInv
  <1>11. PendingInv'  BY <1>5 DEF PendingInv
  <1> QED  BY <1>8, <1>9, <1>10, <1>11 DEF AInv

\* and one that is finalized gives it back.
LEMMA ArenaFinalize == ASSUME IInv, Finalize PROVE AInv'
  <1> DEFINE i == Min(pending)
  <1>a. DescType /\ PendingInv  BY DEF IInv, AInv, BInv, Types
  <1>1. i \in pending /\ i \in Index /\ desc[i].state # "free"  BY PendingLease DEF Finalize
  <1>2. i \in Occupied  BY <1>1 DEF Occupied
  <1>3. up /\ pending' = pending \ {i} /\ UNCHANGED <<epoch, up, tokens, cut>>  BY DEF Finalize
  <1>4. \/ /\ alloc' = Freed(alloc, desc[i].ext)
           /\ desc' = [desc EXCEPT ![i] = [state |-> "free", gen |-> desc[i].gen + 1, owner |-> 0,
                                           ext |-> Block0, deadline |-> "none"]]
        \/ /\ desc' = desc \/ desc' = [desc EXCEPT ![i].state = "quarantined"]
           /\ alloc' = alloc
    BY DEF Finalize
  <1> HIDE DEF i
  <1>5. CASE /\ alloc' = Freed(alloc, desc[i].ext)
             /\ desc' = [desc EXCEPT ![i] = [state |-> "free", gen |-> desc[i].gen + 1, owner |-> 0,
                                             ext |-> Block0, deadline |-> "none"]]
    <2> DEFINE g == desc[i].gen + 1
               o == 0
               e == Block0
               f == "none"
    <2>1. Holds(i, "free", g, o, e, f)  BY <1>5 DEF Holds, Entry
    <2>2. pending' \subseteq Occupied \ {i}  BY <1>a, <1>3 DEF PendingInv
    <2>3. g = desc[i].gen + 1 /\ e = Block0  OBVIOUS
    <2> HIDE DEF g, o, e, f
    <2> QED  BY <1>2, <1>3, <1>5, <2>1, <2>2, <2>3, ArenaFree
  <1>6. CASE alloc' = alloc /\ (desc' = desc \/ desc' = [desc EXCEPT ![i].state = "quarantined"])
    <2>1. SameLeases
      <3>1. CASE desc' = desc  BY <3>1, TableStays
      <3>2. CASE desc' = [desc EXCEPT ![i].state = "quarantined"]
        <4> DEFINE f == desc[i].deadline
        <4>1. f = desc[i].deadline  OBVIOUS
        <4> HIDE DEF f
        <4>2. Holds(i, "quarantined", desc[i].gen, desc[i].owner, desc[i].ext, f)
          BY <1>a, <1>1, <3>2, <4>1, OneFieldHolds
        <4>3. "quarantined" # "free"  OBVIOUS
        <4> QED  BY <1>a, <1>1, <4>2, <4>3, HeldLeases
      <3> QED  BY <1>6, <3>1, <3>2
    <2>2. pending' \subseteq Occupied  BY <1>a, <1>3 DEF PendingInv
    <2> QED  BY <1>3, <1>6, <2>1, <2>2, LeasesKeep
  <1> QED  BY <1>4, <1>5, <1>6

(* The broker dies, and the next one builds its tree from the table.        *)
LEMMA ArenaRestart == ASSUME IInv, Crash \/ Start PROVE AInv'
  <1>a. CountInv /\ LeaseInv /\ TreeInv  BY DEF IInv, AInv
  <1>b. desc' = desc /\ tokens' = tokens /\ Index' = Index /\ cut' = cut
    BY DEF Crash, Dies, Start, Index
  <1>1. Occupied' = Occupied /\ Leased' = Leased  BY <1>b, TableStays, LeasesStay
  <1>2. epoch' \in 1 .. MaxEpoch /\ up' \in BOOLEAN /\ (~up' => epoch' < MaxEpoch)
    <2>1. CASE Crash
      <3>1. up' = FALSE /\ epoch' = epoch /\ epoch < MaxEpoch  BY <2>1 DEF Crash, Dies
      <3> QED  BY <1>a, <3>1 DEF CountInv
    <2>2. CASE Start
      <3>1. up' = TRUE /\ epoch' = epoch + 1 /\ epoch < MaxEpoch
        BY <1>a, <2>2 DEF CountInv, Start
      <3>2. epoch' \in 1 .. MaxEpoch  BY <1>a, <3>1, ArenaAssumption DEF CountInv
      <3> QED  BY <3>1, <3>2
    <2> QED  BY <2>1, <2>2
  <1>3. CountInv'  BY <1>a, <1>b, <1>2 DEF CountInv
  <1>4. LeaseInv'
    <2>1. Legal(Leased)'  BY <1>a, <1>1 DEF LeaseInv
    <2> QED  BY <1>a, <1>b, <1>1, <2>1 DEF LeaseInv
  <1>5. TreeInv'
    <2>1. CASE Crash
      <3>1. alloc' = alloc /\ up /\ ~up'  BY <2>1 DEF Crash, Dies
      <3> QED  BY <1>a, <1>b, <1>1, <3>1 DEF TreeInv
    <2>2. CASE Start
      <3>1. alloc' = Rebuilt(Leased)  BY <2>2 DEF Start, Leased
      <3>2. Legal(Leased) /\ Rebuilt(Leased) = TreeOf(Leased)  BY <1>a, RebuiltTree DEF LeaseInv
      <3> QED  BY <1>1, <3>1, <3>2, TypedAfter DEF TreeInv
    <2> QED  BY <2>1, <2>2
  <1>6. PendingInv'  BY <1>1 DEF PendingInv, Crash, Dies, Start
  <1> QED  BY <1>3, <1>4, <1>5, <1>6 DEF AInv

(* A death that cuts the publication of a lease: the table forgets it, and  *)
(* the others keep their extents.                                           *)
LEMMA ArenaCutShort == ASSUME IInv, NEW i \in Index, CutShort(i) PROVE AInv'
  <1> DEFINE x == desc[i].ext
             f == desc[i].deadline
  <1>a. CountInv /\ LeaseInv /\ TreeInv /\ DescType  BY DEF IInv, AInv, BInv, Types
  <1>b. Index' = Index  BY DEF Index
  <1>c. /\ epoch < MaxEpoch /\ up' = FALSE /\ cut' = TRUE /\ pending' = {}
        /\ epoch' = epoch /\ tokens' = tokens /\ alloc' = alloc
        /\ desc' = [desc EXCEPT ![i].state = "free"] /\ f = desc[i].deadline
        /\ desc[i].state # "free"
    BY DEF CutShort, Dies, InUse
  <1> HIDE DEF f
  <1>1. Holds(i, "free", desc[i].gen, desc[i].owner, desc[i].ext, f)
    BY <1>a, <1>c, OneFieldHolds
  <1>2. /\ desc'[i].state = "free" /\ desc'[i].gen = desc[i].gen /\ desc'[i].ext = x
        /\ \A j \in Index : j # i => desc'[j] = desc[j]
    BY <1>a, <1>1, AfterHolds
  <1>3. i \in Occupied /\ x \in Leased  BY <1>c DEF Leased, Occupied
  <1>4. Legal(Leased \ {x})  BY <1>a, LegalFewer, Leased \ {x} \subseteq Leased DEF LeaseInv
  <1>5. Occupied' = Occupied \ {i}  BY <1>2, <1>b DEF Occupied
  <1>6. \A j \in Occupied \ {i} : desc'[j] = desc[j] /\ desc[j].ext # x
    <2>1. TAKE j \in Occupied \ {i}
    <2>2. Apart(desc[j].ext, x)  BY <1>a, <1>3 DEF LeaseInv
    <2>3. x \in Extents  BY <1>a DEF LeaseInv
    <2>4. ~Apart(x, x)  BY <2>3, NotApartFromItself
    <2> QED  BY <1>2, <2>2, <2>4 DEF Occupied
  <1>7. Leased' = Leased \ {x}  BY <1>5, <1>6 DEF Leased
  <1>8. CountInv'
    <2>1. ASSUME NEW j \in Index
          PROVE  desc'[j].gen \in 0 .. (IF desc'[j].state = "free" THEN tokens + 1 ELSE tokens)
      <3>1. desc[j].gen \in 0 .. (IF desc[j].state = "free" THEN tokens + 1 ELSE tokens)
        BY <1>a DEF CountInv
      <3>2. tokens \in Nat  BY <1>a, ArenaAssumption DEF CountInv
      <3>3. CASE j = i  BY <1>2, <3>1, <3>2, <3>3
      <3>4. CASE j # i  BY <1>2, <3>1, <3>4
      <3> QED  BY <3>3, <3>4
    <2> QED  BY <1>a, <1>b, <1>c, <2>1 DEF CountInv
  <1>9. LeaseInv'
    <2> HIDE DEF x
    <2>1. \A j \in Index : desc'[j].ext \in Extents
      <3>1. x \in Extents  BY <1>a DEF LeaseInv, x
      <3> QED  BY <1>a, <1>2, <3>1 DEF LeaseInv
    <2>2. Legal(Leased)'  BY <1>4, <1>7
    <2>3. \A j, k \in Occupied' : j # k => Apart(desc'[j].ext, desc'[k].ext)
      BY <1>a, <1>5, <1>6 DEF LeaseInv
    <2> QED  BY <1>b, <2>1, <2>2, <2>3 DEF LeaseInv
  <1>10. TreeInv'  BY <1>a, <1>c DEF TreeInv
  <1>11. PendingInv'  BY <1>c DEF PendingInv
  <1> QED  BY <1>8, <1>9, <1>10, <1>11 DEF AInv

\* Or of one that was to begin: the table holds the same leases.
LEMMA ArenaCutFirst == ASSUME IInv, CutFirst PROVE AInv'
  <1> DEFINE i == Min(Index \ Occupied)
             g == Max({desc[i].gen, 1})
  <1>a. CountInv /\ LeaseInv /\ TreeInv /\ DescType  BY DEF IInv, AInv, BInv, Types
  <1>b. Index' = Index  BY DEF Index
  <1>c. /\ epoch < MaxEpoch /\ up /\ up' = FALSE /\ cut' = cut /\ pending' = {}
        /\ epoch' = epoch /\ tokens' = tokens /\ alloc' = alloc
        /\ desc' = [desc EXCEPT ![i].gen = g]
    BY DEF CutFirst, Dies
  <1>1. i \in Index /\ desc[i].state = "free"  BY FreeIndex DEF CutFirst
  <1>2. g \in 0 .. tokens + 1
    <2>1. desc[i].gen \in 0 .. tokens + 1 /\ tokens \in Nat
      BY <1>a, <1>1, ArenaAssumption DEF CountInv
    <2> HIDE DEF i
    <2>2. g = desc[i].gen \/ g = 1
      <3> DEFINE S == {desc[i].gen, 1}
                 m == IF desc[i].gen >= 1 THEN desc[i].gen ELSE 1
      <3>1. m \in S /\ \A y \in S : m >= y  BY <2>1
      <3>2. g = CHOOSE x \in S : \A y \in S : x >= y  BY DEF Max
      <3> HIDE DEF S
      <3>3. g \in S  BY <3>1, <3>2
      <3> QED  BY <3>3 DEF S
    <2> HIDE DEF g
    <2> QED  BY <2>1, <2>2
  <1> HIDE DEF i, g
  <1>3. Holds(i, desc[i].state, g, desc[i].owner, desc[i].ext, desc[i].deadline)
    BY <1>a, <1>1, <1>c, GenHolds
  <1>4. /\ desc'[i].state = "free" /\ desc'[i].gen = g /\ desc'[i].ext = desc[i].ext
        /\ \A j \in Index : j # i => desc'[j] = desc[j]
    BY <1>a, <1>1, <1>3, AfterHolds
  <1>5. Occupied' = Occupied  BY <1>1, <1>4, <1>b DEF Occupied
  <1>6. \A j \in Index : desc'[j].ext = desc[j].ext  BY <1>4
  <1>7. Leased' = Leased  BY <1>5, <1>6 DEF Leased, Occupied
  <1>8. CountInv'
    <2>1. ASSUME NEW j \in Index
          PROVE  desc'[j].gen \in 0 .. (IF desc'[j].state = "free" THEN tokens + 1 ELSE tokens)
      <3>1. desc[j].gen \in 0 .. (IF desc[j].state = "free" THEN tokens + 1 ELSE tokens)
        BY <1>a DEF CountInv
      <3>2. CASE j = i  BY <1>2, <1>4, <3>2
      <3>3. CASE j # i  BY <1>4, <3>1, <3>3
      <3> QED  BY <3>2, <3>3
    <2> QED  BY <1>a, <1>b, <1>c, <2>1 DEF CountInv
  <1>9. LeaseInv'
    <2>1. Legal(Leased)'  BY <1>a, <1>7 DEF LeaseInv
    <2>2. \A j, k \in Occupied : j # k => Apart(desc'[j].ext, desc'[k].ext)
      BY <1>a, <1>6 DEF LeaseInv, Occupied
    <2> QED  BY <1>a, <1>b, <1>5, <1>6, <2>1, <2>2 DEF LeaseInv
  <1>10. TreeInv'  BY <1>a, <1>c, <1>7 DEF TreeInv
  <1>11. PendingInv'  BY <1>c DEF PendingInv
  <1> QED  BY <1>8, <1>9, <1>10, <1>11 DEF AInv

\* Every step keeps table and tree.
LEMMA ArenaNext == IInv /\ [Next]_vars => IInv'
  <1> SUFFICES ASSUME IInv, [Next]_vars PROVE IInv'  OBVIOUS
  <1>1. BInv'  BY BaseNext DEF IInv
  <1>2. AInv'
    <2>1. ASSUME NEW p \in Procs, Process(p) PROVE AInv'  BY <2>1, ArenaProcess
    <2>2. ASSUME NEW p \in Owners, Request(p) PROVE AInv'
      BY <2>2, ArenaAllocate, ArenaHandOver, ArenaCommit, ArenaRelease DEF Request
    <2>3. ASSUME NEW i \in Index, Expire(i) PROVE AInv'  BY <2>3, ArenaExpire
    <2>4. CASE Sweep  BY <2>4, ArenaSweep
    <2>5. CASE Reclaim  BY <2>5, ArenaRevoke, ArenaFinalize DEF Reclaim
    <2>6. CASE Death \/ Start
      BY <2>6, ArenaRestart, ArenaCutShort, ArenaCutFirst DEF Death
    <2>7. CASE UNCHANGED vars
      <3>1. desc' = desc /\ UNCHANGED <<epoch, up, alloc, pending, tokens, cut>>  BY <2>7 DEF vars
      <3> QED  BY <3>1, TableStays, LeasesKeep DEF IInv, AInv, PendingInv
    <2> QED  BY <2>1, <2>2, <2>3, <2>4, <2>5, <2>6, <2>7 DEF Next
  <1> QED  BY <1>1, <1>2 DEF IInv

(* The table and the tree stay consistent, whenever the broker dies.        *)
THEOREM ArenaHolds == Spec => []IInv
  <1>1. Init => IInv  BY BaseInit, ArenaInit DEF IInv
  <1>2. IInv /\ [Next]_vars => IInv'  BY ArenaNext
  <1> QED  BY <1>1, <1>2, PTL DEF Spec

\* The types, out of the invariant.
LEMMA InvType == IInv /\ (~cut => GInv) => TypeOK
  <1> SUFFICES ASSUME IInv, ~cut => GInv PROVE TypeOK  OBVIOUS
  <1>a. DescType /\ ProcType /\ CountInv /\ LeaseInv /\ TreeInv /\ PendingInv
    BY DEF IInv, AInv, BInv, Types
  <1>1. epoch \in 1 .. MaxEpoch /\ up \in BOOLEAN /\ tokens \in 0 .. MaxTokens /\ cut \in BOOLEAN
    BY <1>a DEF CountInv
  <1>2. pending \subseteq Occupied /\ (pending # {} => up)  BY <1>a DEF PendingInv
  <1>3. alloc.free \subseteq Extents /\ alloc.used \subseteq Extents /\ alloc.reserve \in BOOLEAN
    BY <1>a DEF TreeInv
  <1>4. ASSUME NEW i \in Index
        PROVE  /\ desc[i].state \in {"free"} \cup InUse \cup Reclaiming
               /\ desc[i].gen \in 0 .. MaxTokens + 1 /\ desc[i].owner \in 0 .. tokens
               /\ desc[i].ext \in Extents /\ desc[i].deadline \in Deadlines
    <2>1. desc[i].gen \in 0 .. (IF desc[i].state = "free" THEN tokens + 1 ELSE tokens)
      BY <1>a DEF CountInv
    <2>2. desc[i].gen \in 0 .. MaxTokens + 1  BY <1>1, <2>1, ArenaAssumption
    <2> QED  BY <1>a, <2>2 DEF DescType, States, LeaseInv
  <1>5. ASSUME NEW p \in Procs
        PROVE  /\ proc[p].pc \in {"idle", "reader", "writer", "reading", "writing"}
               /\ ~cut /\ proc[p].pc \in {"reading", "writing"} =>
                    LET i == proc[p].loc.at IN i \in Occupied /\ desc[i].ext = proc[p].loc.ext
                                                              /\ desc[i].gen = proc[p].loc.gen
    <2>1. proc[p].pc \in {"idle", "reader", "writer", "reading", "writing"}
      BY <1>a DEF ProcType, Writing, Reading
    <2>2. ASSUME ~cut, proc[p].pc \in {"reading", "writing"}
          PROVE  LET i == proc[p].loc.at IN i \in Occupied /\ desc[i].ext = proc[p].loc.ext
                                                           /\ desc[i].gen = proc[p].loc.gen
      <3>1. GInv  BY <2>2
      <3>2. proc[p].loc.at \in Index  BY <2>2, <3>1 DEF GInv, LocatorInv, Guarding, Named
      <3> QED  BY <2>2, <3>1, <3>2 DEF GInv, ViewInv, Occupied, Reclaiming
    <2> QED  BY <2>1, <2>2
  <1> QED  BY <1>1, <1>2, <1>3, <1>4, <1>5 DEF TypeOK

\* The rebuilt tree is the one in use: both are the tree of the leased extents.
LEMMA InvRebuilds == IInv => RestartRebuilds
  <1> SUFFICES ASSUME IInv PROVE RestartRebuilds  OBVIOUS
  <1>a. LeaseInv /\ TreeInv  BY DEF IInv, AInv
  <1>1. \A i, j \in Occupied : i # j => Apart(desc[i].ext, desc[j].ext)  BY <1>a DEF LeaseInv
  <1>2. Rebuilt(Leased) = TreeOf(Leased)  BY <1>a, RebuiltTree DEF LeaseInv
  <1>3. up \/ ~cut => alloc = Rebuilt(Leased)  BY <1>a, <1>2 DEF TreeInv
  <1> QED  BY <1>1, <1>3 DEF RestartRebuilds, Leased

\* The widest hole of an order is in the tree, if there is any of that length.
LEMMA InvRoom == IInv => NoFalseShortage
  <1> SUFFICES ASSUME IInv, up, NEW k \in Orders
               PROVE  CanAllocate(alloc, k) <=> HasRoom(alloc, k)
    BY DEF NoFalseShortage
  <1>1. Legal(Leased) /\ alloc = TreeOf(Leased)  BY DEF IInv, AInv, LeaseInv, TreeInv
  <1> QED  BY <1>1, RoomIsFound

(* With the extents of different leases apart, so are the views.            *)
LEMMA ApartViews == GInv /\ RestartRebuilds => ViewsExclusive
  <1> SUFFICES ASSUME GInv, RestartRebuilds,
                      NEW p \in Procs, NEW q \in Procs, p # q, proc[p].pc = "writing",
                      proc[q].pc \in {"reading", "writing"}
               PROVE  Apart(proc[p].loc.ext, proc[q].loc.ext)
    BY DEF ViewsExclusive
  <1> DEFINE i == proc[p].loc.at
             j == proc[q].loc.at
  <1>1. /\ desc[i].ext = proc[p].loc.ext /\ desc[j].ext = proc[q].loc.ext
        /\ desc[i].state # "free" /\ desc[j].state # "free"
    BY DEF GInv, ViewInv, Reclaiming
  <1>2. i \in Index /\ j \in Index
    BY LocatorOf DEF GInv, LocatorInv, Guarding, Named
  <1>3. i \in Occupied /\ j \in Occupied  BY <1>1, <1>2 DEF Occupied
  <1>4. i # j
    <2>1. CASE proc[q].pc = "writing"  BY <2>1 DEF GInv, ApartInv, Writing
    <2>2. CASE proc[q].pc = "reading"  BY <2>2 DEF GInv, ApartInv
    <2> QED  BY <2>1, <2>2
  <1>5. Apart(desc[i].ext, desc[j].ext)  BY <1>3, <1>4 DEF RestartRebuilds
  <1> QED  BY <1>1, <1>5

(* The values of the variables, for any number of processes, leases and     *)
(* lives of the broker and any geometry: a reclaim call works on leases,    *)
(* every extent is an aligned block of the arena, and, as long as no death  *)
(* has cut the publication of a lease in use, an open view is on an extent  *)
(* that its descriptor still holds.                                         *)
THEOREM TypesHold == Spec => []TypeOK
  BY ArenaHolds, GuardsHold, InvType, PTL

(* Whatever was allocated, freed, quarantined and recovered in whatever     *)
(* order, between any two publications the tree in memory is the one a      *)
(* start would build from the descriptors, and no two leases overlap, also  *)
(* after deaths in a publication; and what a dead broker had in memory is   *)
(* what the next start builds, unless such a death took a lease in use from *)
(* the table (_assert_invariants_locked, restore_extent,                    *)
(* _restore_descriptors, _publish_descriptor).                              *)
THEOREM RestartsRebuild == Spec => []RestartRebuilds
  BY ArenaHolds, InvRebuilds, PTL

(* allocate never refuses a request for which there is an aligned hole      *)
(* (allocate against free).                                                 *)
THEOREM RequestsFindRoom == Spec => []NoFalseShortage
  BY ArenaHolds, InvRoom, PTL

(* As long as no death of the broker has cut the publication of a lease in  *)
(* use, no process writes bytes that another one looks at, across leases on *)
(* the same place and across restarts (acquire_reader_view,                 *)
(* acquire_writer_view, publish_active, _try_finalize_reclaim,              *)
(* _publish_descriptor). The condition is needed: without it a run of the   *)
(* model checker finds ViewsExclusive violated.                             *)
THEOREM ViewsStayApart == Spec => []ViewsApart
  <1>1. IInv /\ (~cut => GInv) => ViewsApart
    BY ApartViews, InvRebuilds DEF ViewsApart
  <1> QED  BY <1>1, ArenaHolds, GuardsHold, PTL
=============================================================================
