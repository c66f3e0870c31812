------------------- MODULE LocalMessageMailbox_proofs -------------------
(***************************************************************************)
(* Proofs about the mailbox, for any finite number of slots, any clients   *)
(* and pages and any bounds.                                               *)
(*                                                                         *)
(* 1. Shape: the types. Every action is reduced to what it does to the row *)
(*    of a client (Turns) and to one slot (Stands, Emptied, Turned), and   *)
(*    keeps Shape: ClientSteps, ServerSteps, OwnerSteps.                   *)
(* 2. BaseInv: call numbers are given once, a header without a number is   *)
(*    one that was reset, a guard is held by a client that writes, and     *)
(*    handlers run while the owner does. It gives TypeOK.                  *)
(* 3. Inv: what each guard, handler, answer and page relies on. The order  *)
(*    of the argument: while a client holds a guard its slot is free or    *)
(*    being written (GuardInv); so a request has no handler yet, and an    *)
(*    answer is written by the only one there is (HandlerInv); so it is    *)
(*    the answer of the call and phase in its slot (AnswerInv). Pages are  *)
(*    given to a response only and freed with it (PageInv).                *)
(***************************************************************************)
EXTENDS LocalMessageMailbox, FiniteSetTheorems, TLAPS

Steps == {"idle", "entered", "written", "waiting", "read", "reopened"}
Answers == [token : 0 .. MaxCalls, phase : 0 .. 2]
Headers ==
  [state : {"free", "writing", "request", "processing", "response"},
   gen : Nat, epoch : 1 .. MaxEpoch, token : 0 .. MaxCalls, phase : 0 .. 2,
   deadline : {"never", "ahead", "past"}, cancel : BOOLEAN, acked : BOOLEAN,
   answer : Answers, ack : {"past", "ahead"}, paged : BOOLEAN]
Uses == {NoPage} \cup [slot : Slots, gen : Nat, epoch : 1 .. MaxEpoch]
Calls == Identities \cup {NoCall}

\* Types that a step needs to be read.
ChannelType ==
  /\ epoch \in 1 .. MaxEpoch /\ closed \in BOOLEAN
  /\ server \in [state : {"up", "closing", "down", "fencing", "init"},
                 next : 1 .. Cardinality(Slots) + 1]
SlotType == slot \in [Slots -> Headers]
PageType == page \in [Pages -> Uses]
GuardType == guard \in [Slots -> Clients \cup {NoClient}]
TableType ==
  /\ pc \in [Clients -> Steps] /\ me \in [Clients -> Calls] /\ got \in [Clients -> Answers]
  /\ \A c \in Clients : pc[c] # "idle" => me[c] \in Identities
HandlerType == handlers \subseteq Identities
Shape ==
  /\ ChannelType /\ SlotType /\ PageType /\ GuardType /\ TableType /\ HandlerType
  /\ calls \in 0 .. MaxCalls

LEMMA Constants ==
  /\ Cardinality(Slots) \in Nat /\ Cardinality(Slots) >= 1
  /\ Slots = 1 .. Cardinality(Slots)
  /\ 1 \in Slots /\ NoClient \notin Clients
  /\ MaxCalls \in Nat /\ MaxEpoch \in Nat /\ MaxEpoch >= 1
  <1>1. Cardinality(Slots) \in Nat  BY BoundsAssumption, FS_CardinalityType
  <1>2. Cardinality(Slots) # 0  BY BoundsAssumption, FS_EmptySet
  <1> QED  BY <1>1, <1>2, BoundsAssumption

LEMMA FreeType ==
  ASSUME ChannelType, NEW g \in Nat PROVE FreeSlot(g) \in Headers
  BY Constants DEF FreeSlot, Headers, ChannelType, Answers, None

LEMMA InitShape == Init => Shape
  <1> SUFFICES ASSUME Init PROVE Shape OBVIOUS
  <1>1. ChannelType
    <2>1. 1 \in 1 .. MaxEpoch /\ 1 \in 1 .. Cardinality(Slots) + 1  BY Constants
    <2> QED  BY <2>1 DEF Init, ChannelType
  <1>2. SlotType  BY <1>1, FreeType DEF Init, SlotType
  <1>3. PageType /\ GuardType /\ HandlerType  BY DEF Init, PageType, Uses, GuardType, HandlerType
  <1>4. TableType /\ calls \in 0 .. MaxCalls
    BY Constants DEF Init, TableType, Steps, Calls, Answers, None
  <1> QED  BY <1>1, <1>2, <1>3, <1>4 DEF Shape

-----------------------------------------------------------------------------
\* What may happen to the header of one slot.

\* Only flags and deadlines change.
Stands(s) ==
  /\ slot'[s].state = slot[s].state /\ slot'[s].gen = slot[s].gen
  /\ slot'[s].epoch = slot[s].epoch /\ slot'[s].token = slot[s].token
  /\ slot'[s].phase = slot[s].phase /\ slot'[s].answer = slot[s].answer
  /\ slot'[s].paged = slot[s].paged
  /\ slot[s].deadline = "past" => slot'[s].deadline = "past"

Emptied(s) ==
  /\ slot'[s].state = "free" /\ slot'[s].token = 0 /\ slot'[s].phase = 0
  /\ slot'[s].deadline = "past" /\ slot'[s].answer = None /\ slot'[s].paged = FALSE
  /\ slot'[s].epoch = epoch

\* The state word changes, and with it at most the answer.
Turned(s, state, answer, paged) ==
  /\ slot'[s].state = state /\ slot'[s].answer = answer /\ slot'[s].paged = paged
  /\ slot'[s].gen = slot[s].gen /\ slot'[s].epoch = slot[s].epoch
  /\ slot'[s].token = slot[s].token /\ slot'[s].phase = slot[s].phase
  /\ slot'[s].deadline = slot[s].deadline

Elsewhere(s) == \A t \in Slots \ {s} : slot'[t] = slot[t]

\* A step of client c to a step, with its call and its copy.
Turns(c, step, call, copy) ==
  /\ pc'[c] = step /\ me'[c] = call /\ got'[c] = copy
  /\ \A d \in Clients \ {c} : pc'[d] = pc[d] /\ me'[d] = me[d] /\ got'[d] = got[d]
  /\ pc' \in [Clients -> Steps] /\ me' \in [Clients -> Calls] /\ got' \in [Clients -> Answers]

LEMMA Turning ==
  ASSUME TableType, NEW c \in Clients, NEW step \in Steps, NEW call \in Calls, NEW copy \in Answers,
         pc' = [pc EXCEPT ![c] = step],
         me' = [me EXCEPT ![c] = call] \/ (me' = me /\ call = me[c]),
         got' = [got EXCEPT ![c] = copy] \/ (got' = got /\ copy = got[c])
  PROVE  Turns(c, step, call, copy)
  BY DEF TableType, Turns

Backstage == UNCHANGED <<epoch, closed, server, page, handlers>>

\* The steps of a client, by what they do to its slot.
Enters(c, s) ==
  /\ pc[c] = "idle" /\ guard[s] = NoClient /\ slot[s].state = "free" /\ calls < MaxCalls
  /\ guard' = [guard EXCEPT ![s] = c] /\ slot' = slot /\ calls' = calls + 1
  /\ \E call \in Identities :
       /\ call.slot = s /\ call.token = calls + 1 /\ call.epoch = epoch
       /\ Turns(c, "entered", call, got[c])

Reenters(c) ==
  LET s == me[c].slot IN
  /\ pc[c] = "reopened" /\ guard[s] = NoClient /\ slot[s].state = "writing"
  /\ guard' = [guard EXCEPT ![s] = c] /\ slot' = slot /\ calls' = calls
  /\ \E call \in Identities :
       /\ call.slot = s /\ call.token = me[c].token /\ call.epoch = me[c].epoch
       /\ Turns(c, "entered", call, got[c])

Writes(c) ==
  LET s == me[c].slot IN
  /\ pc[c] = "entered" /\ guard' = guard /\ calls' = calls
  /\ Turns(c, "written", me[c], got[c])
  /\ slot'[s].state = "writing" /\ slot'[s].token = me[c].token /\ slot'[s].phase = me[c].phase
  /\ slot'[s].answer = None /\ slot'[s].epoch = me[c].epoch
  /\ Elsewhere(s)

Publishes(c) ==
  LET s == me[c].slot IN
  /\ pc[c] = "written" /\ calls' = calls
  /\ guard' = [t \in Slots |-> IF guard[t] = c THEN NoClient ELSE guard[t]]
  /\ Turns(c, "waiting", me[c], got[c])
  /\ Turned(s, "request", slot[s].answer, slot[s].paged) /\ Elsewhere(s)

Reads(c) ==
  /\ pc[c] = "waiting" /\ IdentityMatches(me[c]) /\ slot[me[c].slot].state = "response"
  /\ Turns(c, "read", me[c], slot[me[c].slot].answer)
  /\ UNCHANGED <<slot, guard, calls>>

Reopens(c) ==
  LET s == me[c].slot IN
  /\ pc[c] = "read" /\ guard[s] = NoClient /\ IdentityMatches(me[c])
  /\ slot[s].state = "response" /\ slot[s].answer # None /\ ~slot[s].paged
  /\ Turns(c, "reopened", me[c], None)
  /\ Turned(s, "writing", None, FALSE) /\ Elsewhere(s)
  /\ UNCHANGED <<guard, calls>>

Leaves(c) ==
  /\ pc[c] # "idle" /\ Turns(c, "idle", NoCall, None)
  /\ \A s \in Slots : Stands(s)
  /\ \/ guard' = guard /\ pc[c] \in {"waiting", "read", "reopened"}
     \/ guard' = [t \in Slots |-> IF guard[t] = c THEN NoClient ELSE guard[t]]
  /\ calls' = calls

ClientStep(c) ==
  \/ \E s \in Slots : Enters(c, s)
  \/ Reenters(c) \/ Writes(c) \/ Publishes(c) \/ Reads(c) \/ Reopens(c) \/ Leaves(c)

LEMMA SlotOfCall ==
  ASSUME Shape, NEW c \in Clients, pc[c] # "idle"
  PROVE  me[c] \in Identities /\ me[c].slot \in Slots /\ slot[me[c].slot] \in Headers
  BY DEF Shape, TableType, SlotType, Identities

LEMMA EnterStep ==
  ASSUME Shape, NEW c \in Clients, NEW s \in Slots, Enter(c, s)
  PROVE  Enters(c, s) /\ Backstage /\ SlotType' /\ GuardType' /\ calls' \in 0 .. MaxCalls
  <1>0. TableType /\ SlotType /\ GuardType /\ slot[s] \in Headers /\ calls \in 0 .. MaxCalls /\ epoch \in 1 .. MaxEpoch
    BY DEF Shape, SlotType, ChannelType
  <1>1. PICK phase \in {0, 1} :
          me' = [me EXCEPT ![c] = [slot |-> s, gen |-> slot[s].gen + 1, epoch |-> epoch,
                                   token |-> calls + 1, phase |-> phase]]
    BY DEF Enter
  <1> DEFINE call == [slot |-> s, gen |-> slot[s].gen + 1, epoch |-> epoch,
                      token |-> calls + 1, phase |-> phase]
  <1>2. calls + 1 \in 0 .. MaxCalls  BY <1>0, Constants DEF Enter
  <1>3. slot[s].gen + 1 \in Nat  BY <1>0 DEF Headers
  <1>4. call \in Identities  BY <1>0, <1>2, <1>3 DEF Identities
  <1>5. call.slot = s /\ call.token = calls + 1 /\ call.epoch = epoch  OBVIOUS
  <1>6. me' = [me EXCEPT ![c] = call]  BY <1>1
  <1> HIDE DEF call
  <1>7. Turns(c, "entered", call, got[c])
    <2>1. "entered" \in Steps /\ call \in Calls /\ got[c] \in Answers
      BY <1>0, <1>4 DEF Steps, Calls, TableType
    <2>2. pc' = [pc EXCEPT ![c] = "entered"] /\ got' = got  BY DEF Enter, GoTo
    <2> QED  BY <1>0, <1>6, <2>1, <2>2, Turning
  <1>8. guard' = [guard EXCEPT ![s] = c] /\ guard[s] = NoClient  BY DEF Enter, Lock, Unguarded
  <1>9. /\ pc[c] = "idle" /\ slot[s].state = "free" /\ calls < MaxCalls /\ calls' = calls + 1
        /\ slot' = slot /\ Backstage
    BY DEF Enter, header, Backstage
  <1>10. Enters(c, s)  BY <1>4, <1>5, <1>7, <1>8, <1>9 DEF Enters
  <1>11. SlotType' /\ GuardType'  BY <1>0, <1>8, <1>9 DEF SlotType, GuardType
  <1> QED  BY <1>2, <1>9, <1>10, <1>11

LEMMA ReenterStep ==
  ASSUME Shape, NEW c \in Clients, EnterAgain(c)
  PROVE  Reenters(c) /\ Backstage /\ SlotType' /\ GuardType' /\ calls' \in 0 .. MaxCalls
  <1>0. TableType /\ SlotType /\ GuardType /\ calls \in 0 .. MaxCalls /\ me[c] \in Identities /\ me[c].slot \in Slots
    BY SlotOfCall DEF Shape, EnterAgain
  <1> DEFINE call == [me[c] EXCEPT !.phase = 2]
  <1>1. call \in Identities /\ call.slot = me[c].slot /\ call.token = me[c].token /\ call.epoch = me[c].epoch
    BY <1>0 DEF Identities
  <1>2. me' = [me EXCEPT ![c] = call]  BY DEF EnterAgain
  <1> HIDE DEF call
  <1>3. Turns(c, "entered", call, got[c])
    <2>1. "entered" \in Steps /\ call \in Calls /\ got[c] \in Answers
      BY <1>0, <1>1 DEF Steps, Calls, TableType
    <2>2. pc' = [pc EXCEPT ![c] = "entered"] /\ got' = got  BY DEF EnterAgain, GoTo
    <2> QED  BY <1>0, <1>2, <2>1, <2>2, Turning
  <1>4. /\ pc[c] = "reopened" /\ guard[me[c].slot] = NoClient /\ slot[me[c].slot].state = "writing"
        /\ guard' = [guard EXCEPT ![me[c].slot] = c] /\ slot' = slot /\ calls' = calls
        /\ Backstage
    BY DEF EnterAgain, Lock, Unguarded, header, Backstage
  <1>5. Reenters(c)  BY <1>1, <1>3, <1>4 DEF Reenters
  <1>6. SlotType' /\ GuardType'  BY <1>0, <1>4 DEF SlotType, GuardType
  <1> QED  BY <1>0, <1>4, <1>5, <1>6

LEMMA WriteStep ==
  ASSUME Shape, NEW c \in Clients, Write(c)
  PROVE  Writes(c) /\ Backstage /\ SlotType' /\ GuardType' /\ calls' \in 0 .. MaxCalls
  <1>0. /\ TableType /\ SlotType /\ GuardType /\ ChannelType /\ calls \in 0 .. MaxCalls
        /\ me[c] \in Identities /\ me[c].slot \in Slots /\ slot[me[c].slot] \in Headers
    BY SlotOfCall DEF Shape, Write
  <1> DEFINE s == me[c].slot
             end == CASE me[c].phase = 0 -> "ahead"
                      [] me[c].phase = 1 -> "never"
                      [] me[c].phase = 2 -> slot[s].deadline
             d == [FreeSlot(me[c].gen) EXCEPT
                     !.state = "writing", !.epoch = me[c].epoch,
                     !.token = me[c].token, !.phase = me[c].phase, !.deadline = end]
  <1>1. me[c].gen \in Nat /\ me[c].epoch \in 1 .. MaxEpoch /\ me[c].token \in 0 .. MaxCalls /\ me[c].phase \in 0 .. 2
    BY <1>0 DEF Identities
  <1>2. end \in {"never", "ahead", "past"}
    BY <1>0, <1>1 DEF Headers
  <1>3. FreeSlot(me[c].gen) \in Headers /\ FreeSlot(me[c].gen).answer = None
    BY <1>0, <1>1, FreeType DEF FreeSlot
  <1> HIDE DEF end
  <1>4. d \in Headers  BY <1>1, <1>2, <1>3 DEF Headers
  <1>5. d.state = "writing" /\ d.token = me[c].token /\ d.phase = me[c].phase /\ d.answer = None /\ d.epoch = me[c].epoch
    BY <1>3 DEF Headers
  <1>6. slot' = [slot EXCEPT ![s] = d]  BY DEF Write, end
  <1> HIDE DEF d
  <1>7. slot'[s] = d /\ Elsewhere(s) /\ SlotType'
    BY <1>0, <1>4, <1>6 DEF SlotType, Elsewhere
  <1>8. Turns(c, "written", me[c], got[c])
    <2>1. "written" \in Steps /\ me[c] \in Calls /\ got[c] \in Answers
      BY <1>0 DEF Steps, Calls, TableType
    <2>2. pc' = [pc EXCEPT ![c] = "written"] /\ me' = me /\ got' = got  BY DEF Write, GoTo
    <2> QED  BY <1>0, <2>1, <2>2, Turning
  <1>9. pc[c] = "entered" /\ guard' = guard /\ calls' = calls /\ Backstage
    BY DEF Write, header, Backstage
  <1>10. Writes(c)  BY <1>5, <1>7, <1>8, <1>9 DEF Writes
  <1>11. GuardType'  BY <1>0, <1>9 DEF GuardType
  <1> QED  BY <1>0, <1>7, <1>9, <1>10, <1>11


LEMMA Unlocking ==
  ASSUME GuardType, NEW c \in Clients, Unlock(c)
  PROVE  /\ GuardType'
         /\ guard' = [t \in Slots |-> IF guard[t] = c THEN NoClient ELSE guard[t]]
  BY DEF GuardType, Unlock

LEMMA PublishStep ==
  ASSUME Shape, NEW c \in Clients, Publish(c)
  PROVE  Publishes(c) /\ Backstage /\ SlotType' /\ GuardType' /\ calls' \in 0 .. MaxCalls
  <1>0. /\ TableType /\ SlotType /\ GuardType /\ calls \in 0 .. MaxCalls
        /\ me[c] \in Identities /\ me[c].slot \in Slots /\ slot[me[c].slot] \in Headers
    BY SlotOfCall DEF Shape, Publish
  <1> DEFINE s == me[c].slot
             d == [slot[s] EXCEPT !.state = "request"]
  <1>1. d \in Headers  BY <1>0 DEF Headers
  <1>2. /\ d.state = "request" /\ d.answer = slot[s].answer /\ d.paged = slot[s].paged
        /\ d.gen = slot[s].gen /\ d.epoch = slot[s].epoch /\ d.token = slot[s].token
        /\ d.phase = slot[s].phase /\ d.deadline = slot[s].deadline
    BY <1>0 DEF Headers
  <1>3. slot' = [slot EXCEPT ![s] = d]  BY DEF Publish
  <1> HIDE DEF d
  <1>4. slot'[s] = d /\ Elsewhere(s) /\ SlotType'
    BY <1>0, <1>1, <1>3 DEF SlotType, Elsewhere
  <1>5. Turns(c, "waiting", me[c], got[c])
    <2>1. "waiting" \in Steps /\ me[c] \in Calls /\ got[c] \in Answers
      BY <1>0 DEF Steps, Calls, TableType
    <2>2. pc' = [pc EXCEPT ![c] = "waiting"] /\ me' = me /\ got' = got  BY DEF Publish, GoTo
    <2> QED  BY <1>0, <2>1, <2>2, Turning
  <1>6. /\ GuardType'
        /\ guard' = [t \in Slots |-> IF guard[t] = c THEN NoClient ELSE guard[t]]
    BY <1>0, Unlocking DEF Publish
  <1>7. pc[c] = "written" /\ calls' = calls /\ Backstage  BY DEF Publish, header, Backstage
  <1>8. Turned(s, "request", slot[s].answer, slot[s].paged)  BY <1>2, <1>4 DEF Turned
  <1>9. Publishes(c)  BY <1>4, <1>5, <1>6, <1>7, <1>8 DEF Publishes
  <1> QED  BY <1>0, <1>4, <1>6, <1>7, <1>9

LEMMA ReadStep ==
  ASSUME Shape, NEW c \in Clients, Read(c)
  PROVE  Reads(c) /\ Backstage /\ SlotType' /\ GuardType' /\ calls' \in 0 .. MaxCalls
  <1>0. /\ TableType /\ SlotType /\ GuardType /\ calls \in 0 .. MaxCalls
        /\ me[c] \in Identities /\ me[c].slot \in Slots /\ slot[me[c].slot] \in Headers
    BY SlotOfCall DEF Shape, Read
  <1>1. Turns(c, "read", me[c], slot[me[c].slot].answer)
    <2>1. "read" \in Steps /\ me[c] \in Calls /\ slot[me[c].slot].answer \in Answers
      BY <1>0 DEF Steps, Calls, TableType, Headers
    <2>2. /\ pc' = [pc EXCEPT ![c] = "read"] /\ me' = me
          /\ got' = [got EXCEPT ![c] = slot[me[c].slot].answer]
      BY DEF Read, GoTo
    <2> QED  BY <1>0, <2>1, <2>2, Turning
  <1>2. /\ pc[c] = "waiting" /\ IdentityMatches(me[c]) /\ slot[me[c].slot].state = "response"
        /\ slot' = slot /\ guard' = guard /\ calls' = calls /\ Backstage
    BY DEF Read, MayRead, header, Backstage
  <1>3. Reads(c)  BY <1>1, <1>2 DEF Reads
  <1> QED  BY <1>0, <1>2, <1>3 DEF SlotType, GuardType

LEMMA ReopenStep ==
  ASSUME Shape, NEW c \in Clients, Reopen(c)
  PROVE  Reopens(c) /\ Backstage /\ SlotType' /\ GuardType' /\ calls' \in 0 .. MaxCalls
  <1>0. /\ TableType /\ SlotType /\ GuardType /\ calls \in 0 .. MaxCalls
        /\ me[c] \in Identities /\ me[c].slot \in Slots /\ slot[me[c].slot] \in Headers
    BY SlotOfCall DEF Shape, Reopen
  <1> DEFINE s == me[c].slot
             d == [slot[s] EXCEPT !.state = "writing", !.cancel = FALSE, !.acked = FALSE,
                                  !.answer = None, !.ack = "past", !.paged = FALSE]
  <1>1. None \in Answers  BY Constants DEF None, Answers
  <1>2. d \in Headers  BY <1>0, <1>1 DEF Headers
  <1>3. /\ d.state = "writing" /\ d.answer = None /\ d.paged = FALSE
        /\ d.gen = slot[s].gen /\ d.epoch = slot[s].epoch /\ d.token = slot[s].token
        /\ d.phase = slot[s].phase /\ d.deadline = slot[s].deadline
    BY <1>0 DEF Headers
  <1>4. slot' = [slot EXCEPT ![s] = d]  BY DEF Reopen
  <1> HIDE DEF d
  <1>5. slot'[s] = d /\ Elsewhere(s) /\ SlotType'
    BY <1>0, <1>2, <1>4 DEF SlotType, Elsewhere
  <1>6. Turns(c, "reopened", me[c], None)
    <2>1. "reopened" \in Steps /\ me[c] \in Calls  BY <1>0 DEF Steps, Calls, TableType
    <2>2. pc' = [pc EXCEPT ![c] = "reopened"] /\ me' = me /\ got' = [got EXCEPT ![c] = None]
      BY DEF Reopen, GoTo
    <2> QED  BY <1>0, <1>1, <2>1, <2>2, Turning
  <1>7. /\ pc[c] = "read" /\ guard[s] = NoClient /\ IdentityMatches(me[c])
        /\ slot[s].state = "response" /\ slot[s].answer # None /\ ~slot[s].paged
        /\ guard' = guard /\ calls' = calls /\ Backstage
    BY DEF Reopen, MayReopen, MayRead, Unguarded, header, Backstage
  <1>8. Turned(s, "writing", None, FALSE)  BY <1>3, <1>5 DEF Turned
  <1>9. Reopens(c)  BY <1>5, <1>6, <1>7, <1>8 DEF Reopens
  <1> QED  BY <1>0, <1>5, <1>7, <1>9 DEF GuardType

\* One flag of one slot is set.
Marked(t) ==
  \/ slot' = slot
  \/ slot' = [slot EXCEPT ![t] = [@ EXCEPT !.acked = TRUE]]
  \/ slot' = [slot EXCEPT ![t] = [@ EXCEPT !.cancel = TRUE]]

\* A new header d for slot t, and the others as they are.
LEMMA Placed ==
  ASSUME SlotType, NEW t \in Slots, NEW d \in Headers, slot' = [slot EXCEPT ![t] = d]
  PROVE  SlotType' /\ slot'[t] = d /\ Elsewhere(t)
  BY DEF SlotType, Elsewhere

LEMMA PlacedStands ==
  ASSUME SlotType, NEW t \in Slots, NEW d \in Headers, slot' = [slot EXCEPT ![t] = d],
         d.state = slot[t].state, d.gen = slot[t].gen, d.epoch = slot[t].epoch,
         d.token = slot[t].token, d.phase = slot[t].phase, d.answer = slot[t].answer,
         d.paged = slot[t].paged, slot[t].deadline = "past" => d.deadline = "past"
  PROVE  SlotType' /\ \A s \in Slots : Stands(s)
  <1>1. SlotType' /\ slot'[t] = d /\ Elsewhere(t)  BY Placed
  <1>2. Stands(t)  BY <1>1 DEF Stands
  <1>3. ASSUME NEW s \in Slots \ {t} PROVE Stands(s)  BY <1>1, <1>3 DEF Stands, Elsewhere
  <1> QED  BY <1>1, <1>2, <1>3

LEMMA MarkedStands ==
  ASSUME SlotType, NEW t \in Slots, Marked(t)
  PROVE  SlotType' /\ \A s \in Slots : Stands(s)
  <1>0. slot[t] \in Headers  BY DEF SlotType
  <1>1. CASE slot' = slot  BY <1>1 DEF SlotType, Stands
  <1>2. CASE slot' = [slot EXCEPT ![t] = [@ EXCEPT !.acked = TRUE]]
    <2> DEFINE d == [slot[t] EXCEPT !.acked = TRUE]
    <2>1. d \in Headers  BY <1>0 DEF Headers
    <2>2. /\ d.state = slot[t].state /\ d.gen = slot[t].gen /\ d.epoch = slot[t].epoch
          /\ d.token = slot[t].token /\ d.phase = slot[t].phase /\ d.answer = slot[t].answer
          /\ d.paged = slot[t].paged /\ d.deadline = slot[t].deadline
      BY <1>0 DEF Headers
    <2>3. slot' = [slot EXCEPT ![t] = d]  BY <1>2
    <2> HIDE DEF d
    <2> QED  BY <2>1, <2>2, <2>3, PlacedStands
  <1>3. CASE slot' = [slot EXCEPT ![t] = [@ EXCEPT !.cancel = TRUE]]
    <2> DEFINE d == [slot[t] EXCEPT !.cancel = TRUE]
    <2>1. d \in Headers  BY <1>0 DEF Headers
    <2>2. /\ d.state = slot[t].state /\ d.gen = slot[t].gen /\ d.epoch = slot[t].epoch
          /\ d.token = slot[t].token /\ d.phase = slot[t].phase /\ d.answer = slot[t].answer
          /\ d.paged = slot[t].paged /\ d.deadline = slot[t].deadline
      BY <1>0 DEF Headers
    <2>3. slot' = [slot EXCEPT ![t] = d]  BY <1>3
    <2> HIDE DEF d
    <2> QED  BY <2>1, <2>2, <2>3, PlacedStands
  <1> QED  BY <1>1, <1>2, <1>3 DEF Marked

LEMMA ForgetTurns ==
  ASSUME Shape, NEW c \in Clients, Forget(c)
  PROVE  Turns(c, "idle", NoCall, None) /\ calls' = calls
  <1>1. "idle" \in Steps /\ NoCall \in Calls /\ None \in Answers /\ TableType
    BY Constants DEF Steps, Calls, Answers, None, Shape
  <1>2. /\ pc' = [pc EXCEPT ![c] = "idle"] /\ me' = [me EXCEPT ![c] = NoCall]
        /\ got' = [got EXCEPT ![c] = None] /\ calls' = calls
    BY DEF Forget, GoTo
  <1> QED  BY <1>1, <1>2, Turning

LEMMA LeaveStep ==
  ASSUME Shape, NEW c \in Clients, Ack(c) \/ Cancel(c) \/ Leave(c)
  PROVE  Leaves(c) /\ Backstage /\ SlotType' /\ GuardType' /\ calls' \in 0 .. MaxCalls
  <1>0. TableType /\ SlotType /\ GuardType /\ calls \in 0 .. MaxCalls  BY DEF Shape
  <1>1. CASE Ack(c) \/ Cancel(c)
    <2>1. pc[c] \in {"waiting", "read", "reopened"}  BY <1>1 DEF Ack, Cancel
    <2>2. me[c].slot \in Slots  BY <2>1, SlotOfCall
    <2>3. Forget(c) /\ guard' = guard /\ Backstage
      BY <1>1 DEF Ack, Cancel, Flag, header, Backstage
    <2>4. Marked(me[c].slot)
      <3>1. CASE Ack(c)  BY <3>1 DEF Ack, Flag, Marked
      <3>2. CASE Cancel(c)  BY <3>2 DEF Cancel, Flag, Marked
      <3> QED  BY <1>1, <3>1, <3>2
    <2>5. SlotType' /\ \A s \in Slots : Stands(s)  BY <1>0, <2>2, <2>4, MarkedStands
    <2>6. Turns(c, "idle", NoCall, None) /\ calls' = calls  BY <2>3, ForgetTurns
    <2>7. Leaves(c)  BY <2>1, <2>3, <2>5, <2>6 DEF Leaves
    <2> QED  BY <1>0, <2>3, <2>5, <2>6, <2>7 DEF GuardType
  <1>2. CASE Leave(c)
    <2>1. pc[c] # "idle" /\ Unlock(c) /\ Forget(c) /\ slot' = slot /\ Backstage
      BY <1>2 DEF Leave, header, Backstage
    <2>2. SlotType' /\ \A s \in Slots : Stands(s)  BY <1>0, <2>1 DEF SlotType, Stands
    <2>3. Turns(c, "idle", NoCall, None) /\ calls' = calls  BY <2>1, ForgetTurns
    <2>4. /\ GuardType'
          /\ guard' = [t \in Slots |-> IF guard[t] = c THEN NoClient ELSE guard[t]]
      BY <1>0, <2>1, Unlocking
    <2>5. Leaves(c)  BY <2>1, <2>2, <2>3, <2>4 DEF Leaves
    <2> QED  BY <1>0, <2>1, <2>2, <2>3, <2>4, <2>5
  <1> QED  BY <1>1, <1>2

LEMMA TableAfter ==
  ASSUME TableType, NEW c \in Clients, NEW step, NEW call, NEW copy,
         Turns(c, step, call, copy), step = "idle" \/ call \in Identities
  PROVE  TableType'
  BY DEF TableType, Turns

LEMMA ClientSteps ==
  ASSUME Shape, NEW c \in Clients, Client(c)
  PROVE  ClientStep(c) /\ Backstage /\ Shape'
  <1>0. TableType  BY DEF Shape
  <1>1. ClientStep(c) /\ Backstage /\ SlotType' /\ GuardType' /\ calls' \in 0 .. MaxCalls
    BY EnterStep, ReenterStep, WriteStep, PublishStep, ReadStep, ReopenStep, LeaveStep
    DEF Client, ClientStep
  <1>2. TableType'
    <2>1. ASSUME NEW s \in Slots, Enters(c, s) PROVE TableType'
      BY <1>0, <2>1, TableAfter DEF Enters
    <2>2. CASE Reenters(c)  BY <1>0, <2>2, TableAfter DEF Reenters
    <2>3. CASE Writes(c)
      <3>1. me[c] \in Identities  BY <2>3, SlotOfCall DEF Writes
      <3> QED  BY <1>0, <2>3, <3>1, TableAfter DEF Writes
    <2>4. CASE Publishes(c)
      <3>1. me[c] \in Identities  BY <2>4, SlotOfCall DEF Publishes
      <3> QED  BY <1>0, <2>4, <3>1, TableAfter DEF Publishes
    <2>5. CASE Reads(c)
      <3>1. me[c] \in Identities  BY <2>5, SlotOfCall DEF Reads
      <3> QED  BY <1>0, <2>5, <3>1, TableAfter DEF Reads
    <2>6. CASE Reopens(c)
      <3>1. me[c] \in Identities  BY <2>6, SlotOfCall DEF Reopens
      <3> QED  BY <1>0, <2>6, <3>1, TableAfter DEF Reopens
    <2>7. CASE Leaves(c)  BY <1>0, <2>7, TableAfter DEF Leaves
    <2> QED  BY <1>1, <2>1, <2>2, <2>3, <2>4, <2>5, <2>6, <2>7 DEF ClientStep
  <1>3. ChannelType' /\ PageType' /\ HandlerType'
    BY <1>1 DEF Shape, Backstage, ChannelType, PageType, HandlerType
  <1> QED  BY <1>1, <1>2, <1>3 DEF Shape

-----------------------------------------------------------------------------
\* The steps of the server and its handlers, by what they do to the slots.
Front == UNCHANGED <<epoch, closed, server, guard, pc, me, got, calls>>

\* A slot and the pages of its response are freed.
Frees(s) ==
  /\ guard[s] = NoClient /\ Emptied(s) /\ Elsewhere(s) /\ handlers' = handlers
  /\ \A k \in Pages :
       page'[k] = IF page[k] = [slot |-> s, gen |-> slot[s].gen, epoch |-> epoch]
                    THEN NoPage ELSE page[k]

Claims(s) ==
  /\ guard[s] = NoClient /\ slot[s].state = "request" /\ slot[s].epoch = epoch
  /\ slot[s].deadline # "past" /\ server.state = "up"
  /\ Turned(s, "processing", slot[s].answer, slot[s].paged) /\ Elsewhere(s)
  /\ handlers' = handlers \cup {[slot |-> s, gen |-> slot[s].gen, epoch |-> slot[s].epoch,
                                  token |-> slot[s].token, phase |-> slot[s].phase]}
  /\ page' = page

Refuses(s) ==
  /\ guard[s] = NoClient /\ slot[s].state \in {"request", "processing"}
  /\ Turned(s, "response", None, FALSE) /\ Elsewhere(s)
  /\ handlers' \subseteq handlers /\ page' = page

Replies(h) ==
  LET s == h.slot IN
  /\ guard[s] = NoClient /\ IdentityMatches(h) /\ slot[s].state = "processing"
  /\ handlers' = handlers \ {h}
  /\ \E used \in SUBSET FreePages :
       /\ Turned(s, "response", [token |-> h.token, phase |-> h.phase], used # {})
       /\ \A k \in Pages :
            page'[k] = IF k \in used THEN [slot |-> s, gen |-> h.gen, epoch |-> epoch]
                                     ELSE page[k]
  /\ Elsewhere(s)

Idles ==
  /\ \A s \in Slots : Stands(s)
  /\ page' = page /\ handlers' \subseteq handlers

ServerStep ==
  /\ Front
  /\ \/ \E s \in Slots : Frees(s) \/ Claims(s) \/ Refuses(s)
     \/ \E h \in handlers : Replies(h)
     \/ Idles

\* What they keep: the types of what they write.
Kept == SlotType' /\ PageType' /\ HandlerType'

LEMMA ResetFrees ==
  ASSUME Shape, NEW s \in Slots, Unguarded(s), Reset(s), handlers' = handlers
  PROVE  Frees(s) /\ Kept
  <1>0. ChannelType /\ SlotType /\ PageType /\ HandlerType /\ slot[s] \in Headers
    BY DEF Shape, SlotType
  <1> DEFINE d == FreeSlot(slot[s].gen)
  <1>1. d \in Headers  BY <1>0, FreeType DEF Headers
  <1>2. /\ d.state = "free" /\ d.token = 0 /\ d.phase = 0 /\ d.deadline = "past"
        /\ d.answer = None /\ d.paged = FALSE /\ d.epoch = epoch
    BY DEF FreeSlot, None
  <1>3. slot' = [slot EXCEPT ![s] = d]  BY DEF Reset
  <1> HIDE DEF d
  <1>4. SlotType' /\ slot'[s] = d /\ Elsewhere(s)  BY <1>0, <1>1, <1>3, Placed
  <1>5. Emptied(s)  BY <1>2, <1>4 DEF Emptied
  <1>6. \A k \in Pages :
          page'[k] = IF page[k] = [slot |-> s, gen |-> slot[s].gen, epoch |-> epoch]
                       THEN NoPage ELSE page[k]
    BY DEF Reset, PagesOf
  <1>7. PageType'
    BY <1>0 DEF Reset, PageType, Uses
  <1> QED  BY <1>0, <1>4, <1>5, <1>6, <1>7 DEF Frees, Kept, Unguarded, HandlerType

LEMMA RespondsTurns ==
  ASSUME SlotType, NEW s \in Slots, NEW answer \in Answers, NEW paged \in BOOLEAN,
         Responds(s, answer, paged)
  PROVE  SlotType' /\ Turned(s, "response", answer, paged) /\ Elsewhere(s)
  <1>0. slot[s] \in Headers  BY DEF SlotType
  <1> DEFINE d == [slot[s] EXCEPT !.state = "response", !.answer = answer, !.acked = FALSE,
                                  !.ack = "ahead", !.paged = paged]
  <1>1. d \in Headers  BY <1>0 DEF Headers
  <1>2. /\ d.state = "response" /\ d.answer = answer /\ d.paged = paged
        /\ d.gen = slot[s].gen /\ d.epoch = slot[s].epoch /\ d.token = slot[s].token
        /\ d.phase = slot[s].phase /\ d.deadline = slot[s].deadline
    BY <1>0 DEF Headers
  <1>3. slot' = [slot EXCEPT ![s] = d]  BY DEF Responds
  <1> HIDE DEF d
  <1>4. SlotType' /\ slot'[s] = d /\ Elsewhere(s)  BY <1>1, <1>3, Placed
  <1> QED  BY <1>2, <1>4 DEF Turned

LEMMA RefuseRefuses ==
  ASSUME Shape, NEW s \in Slots, Unguarded(s), Refuse(s), handlers' \subseteq handlers,
         slot[s].state \in {"request", "processing"}
  PROVE  Refuses(s) /\ Kept
  <1>0. SlotType /\ PageType /\ HandlerType /\ None \in Answers
    BY Constants DEF Shape, None, Answers
  <1>1. Responds(s, None, FALSE) /\ page' = page  BY DEF Refuse
  <1>2. SlotType' /\ Turned(s, "response", None, FALSE) /\ Elsewhere(s)
    BY <1>0, <1>1, RespondsTurns
  <1> QED  BY <1>0, <1>1, <1>2 DEF Refuses, Kept, Unguarded, HandlerType, PageType

LEMMA ServerOnlyFront == ServerOnly => Front
  BY DEF ServerOnly, Front, header, clients

LEMMA ClaimStep ==
  ASSUME Shape, NEW s \in Slots, Claim(s)
  PROVE  ServerStep /\ Kept
  <1>0. Front /\ Unguarded(s) /\ slot[s].state = "request" /\ server.state = "up"
    BY ServerOnlyFront DEF Claim
  <1>1. CASE slot[s].epoch # epoch
    <2>1. Reset(s) /\ handlers' = handlers  BY <1>1 DEF Claim
    <2> QED  BY <1>0, <2>1, ResetFrees DEF ServerStep
  <1>2. CASE slot[s].epoch = epoch /\ Cancelled(s)
    <2>1. Refuse(s) /\ handlers' = handlers  BY <1>2 DEF Claim
    <2> QED  BY <1>0, <2>1, RefuseRefuses DEF ServerStep
  <1>3. CASE slot[s].epoch = epoch /\ ~Cancelled(s)
    <2>0. SlotType /\ PageType /\ HandlerType /\ slot[s] \in Headers  BY DEF Shape, SlotType
    <2> DEFINE d == [slot[s] EXCEPT !.state = "processing"]
               h == [slot |-> s, gen |-> slot[s].gen, epoch |-> slot[s].epoch,
                     token |-> slot[s].token, phase |-> slot[s].phase]
    <2>1. d \in Headers /\ h \in Identities  BY <2>0 DEF Headers, Identities
    <2>2. /\ d.state = "processing" /\ d.answer = slot[s].answer /\ d.paged = slot[s].paged
          /\ d.gen = slot[s].gen /\ d.epoch = slot[s].epoch /\ d.token = slot[s].token
          /\ d.phase = slot[s].phase /\ d.deadline = slot[s].deadline
      BY <2>0 DEF Headers
    <2>3. /\ slot' = [slot EXCEPT ![s] = d]
          /\ handlers' = handlers \cup {h} /\ page' = page
      BY <1>3 DEF Claim
    <2> HIDE DEF d
    <2>4. SlotType' /\ slot'[s] = d /\ Elsewhere(s)  BY <2>0, <2>1, <2>3, Placed
    <2>5. Turned(s, "processing", slot[s].answer, slot[s].paged)  BY <2>2, <2>4 DEF Turned
    <2>6. Claims(s)  BY <1>0, <1>3, <2>3, <2>4, <2>5 DEF Claims, Unguarded, Cancelled
    <2>7. HandlerType'  BY <2>0, <2>1, <2>3 DEF HandlerType
    <2> QED  BY <1>0, <2>0, <2>3, <2>4, <2>6, <2>7 DEF ServerStep, Kept, PageType
  <1> QED  BY <1>1, <1>2, <1>3

LEMMA SweepStep ==
  ASSUME Shape, NEW s \in Slots, Sweep(s) \/ Reclaim(s)
  PROVE  ServerStep /\ Kept
  <1>0. Front /\ Unguarded(s) /\ handlers' = handlers
    BY ServerOnlyFront DEF Sweep, Reclaim
  <1>1. CASE Reset(s)  BY <1>0, <1>1, ResetFrees DEF ServerStep
  <1>2. CASE slot[s].state \in EndedWithError /\ Refuse(s)
    BY <1>0, <1>2, RefuseRefuses DEF ServerStep, EndedWithError
  <1> QED  BY <1>1, <1>2 DEF Sweep, Reclaim

LEMMA IdleStep ==
  ASSUME Shape, \A s \in Slots : Stands(s), SlotType', page' = page, handlers' \subseteq handlers,
         ServerOnly
  PROVE  ServerStep /\ Kept
  <1>1. PageType /\ HandlerType  BY DEF Shape
  <1> QED  BY <1>1, ServerOnlyFront DEF ServerStep, Kept, Idles, PageType, HandlerType

LEMMA ExpireStep ==
  ASSUME Shape, NEW s \in Slots, Expire(s) \/ ExpireAck(s)
  PROVE  ServerStep /\ Kept
  <1>0. SlotType /\ slot[s] \in Headers  BY DEF Shape, SlotType
  <1>1. page' = page /\ handlers' = handlers /\ ServerOnly  BY DEF Expire, ExpireAck
  <1>2. CASE Expire(s)
    <2> DEFINE d == [slot[s] EXCEPT !.deadline = "past"]
    <2>1. d \in Headers  BY <1>0 DEF Headers
    <2>2. /\ d.state = slot[s].state /\ d.gen = slot[s].gen /\ d.epoch = slot[s].epoch
          /\ d.token = slot[s].token /\ d.phase = slot[s].phase /\ d.answer = slot[s].answer
          /\ d.paged = slot[s].paged /\ d.deadline = "past"
      BY <1>0 DEF Headers
    <2>3. slot' = [slot EXCEPT ![s] = d]  BY <1>2 DEF Expire
    <2> HIDE DEF d
    <2>4. SlotType' /\ \A t \in Slots : Stands(t)  BY <1>0, <2>1, <2>2, <2>3, PlacedStands
    <2> QED  BY <1>1, <2>4, IdleStep
  <1>3. CASE ExpireAck(s)
    <2> DEFINE d == [slot[s] EXCEPT !.ack = "past"]
    <2>1. d \in Headers  BY <1>0 DEF Headers
    <2>2. /\ d.state = slot[s].state /\ d.gen = slot[s].gen /\ d.epoch = slot[s].epoch
          /\ d.token = slot[s].token /\ d.phase = slot[s].phase /\ d.answer = slot[s].answer
          /\ d.paged = slot[s].paged /\ d.deadline = slot[s].deadline
      BY <1>0 DEF Headers
    <2>3. slot' = [slot EXCEPT ![s] = d]  BY <1>3 DEF ExpireAck
    <2> HIDE DEF d
    <2>4. SlotType' /\ \A t \in Slots : Stands(t)  BY <1>0, <2>1, <2>2, <2>3, PlacedStands
    <2> QED  BY <1>1, <2>4, IdleStep
  <1> QED  BY <1>2, <1>3

LEMMA AcceptStep ==
  ASSUME Shape, NEW h \in handlers, Accept(h)
  PROVE  ServerStep /\ Kept
  <1> DEFINE s == h.slot
             d == [slot[s] EXCEPT !.deadline = "ahead"]
  <1>0. s \in Slots /\ SlotType /\ slot[s] \in Headers
    BY DEF Shape, SlotType, HandlerType, Identities
  <1>1. page' = page /\ handlers' = handlers /\ ServerOnly /\ slot[s].deadline = "never"
    BY DEF Accept
  <1>2. d \in Headers  BY <1>0 DEF Headers
  <1>3. /\ d.state = slot[s].state /\ d.gen = slot[s].gen /\ d.epoch = slot[s].epoch
        /\ d.token = slot[s].token /\ d.phase = slot[s].phase /\ d.answer = slot[s].answer
        /\ d.paged = slot[s].paged
    BY <1>0 DEF Headers
  <1>4. slot' = [slot EXCEPT ![s] = d]  BY DEF Accept
  <1> HIDE DEF d
  <1>5. SlotType' /\ \A t \in Slots : Stands(t)  BY <1>0, <1>1, <1>2, <1>3, <1>4, PlacedStands
  <1> QED  BY <1>1, <1>5, IdleStep

LEMMA AnswerStep ==
  ASSUME Shape, NEW h \in handlers, Answer(h)
  PROVE  ServerStep /\ Kept
  <1> DEFINE s == h.slot
  <1>0. /\ s \in Slots /\ SlotType /\ PageType /\ HandlerType /\ ChannelType
        /\ slot[s] \in Headers /\ h \in Identities
    BY DEF Shape, SlotType, HandlerType, Identities
  <1>1. Unguarded(s) /\ handlers' = handlers \ {h} /\ ServerOnly /\ Front
    BY ServerOnlyFront DEF Answer
  <1>2. CASE ~Accepts(h)
    <2>1. slot' = slot /\ page' = page  BY <1>2 DEF Answer
    <2>2. SlotType' /\ \A t \in Slots : Stands(t)  BY <1>0, <2>1 DEF SlotType, Stands
    <2> QED  BY <1>1, <2>1, <2>2, IdleStep
  <1>3. CASE Accepts(h) /\ Refuse(s)
    BY <1>0, <1>1, <1>3, RefuseRefuses DEF ServerStep, Accepts
  <1>4. CASE Accepts(h) /\ ~Refuse(s)
    <2>1. PICK used \in SUBSET FreePages :
            /\ Responds(s, [token |-> h.token, phase |-> h.phase], used # {})
            /\ page' = [k \in Pages |-> IF k \in used
                                        THEN [slot |-> s, gen |-> h.gen, epoch |-> epoch]
                                        ELSE page[k]]
      BY <1>4 DEF Answer
    <2>2. [token |-> h.token, phase |-> h.phase] \in Answers /\ (used # {}) \in BOOLEAN
      BY <1>0 DEF Identities, Answers
    <2>3. /\ SlotType' /\ Elsewhere(s)
          /\ Turned(s, "response", [token |-> h.token, phase |-> h.phase], used # {})
      BY <1>0, <2>1, <2>2, RespondsTurns
    <2>4. PageType'
      <3>1. [slot |-> s, gen |-> h.gen, epoch |-> epoch] \in Uses
        BY <1>0 DEF Uses, Identities, ChannelType
      <3> QED  BY <1>0, <2>1, <3>1 DEF PageType
    <2>5. \A k \in Pages :
            page'[k] = IF k \in used THEN [slot |-> s, gen |-> h.gen, epoch |-> epoch]
                                     ELSE page[k]
      BY <2>1
    <2>6. Replies(h)  BY <1>1, <1>4, <2>3, <2>5 DEF Replies, Unguarded, Accepts
    <2> QED  BY <1>0, <1>1, <2>3, <2>4, <2>6 DEF ServerStep, Kept, HandlerType
  <1> QED  BY <1>2, <1>3, <1>4

LEMMA DropStep ==
  ASSUME Shape, NEW h \in handlers, Drop(h)
  PROVE  ServerStep /\ Kept
  <1>1. slot' = slot /\ page' = page /\ handlers' \subseteq handlers /\ ServerOnly  BY DEF Drop
  <1>2. SlotType' /\ \A t \in Slots : Stands(t)  BY <1>1 DEF Shape, SlotType, Stands
  <1> QED  BY <1>1, <1>2, IdleStep

ServerActs ==
  \/ \E s \in Slots : Claim(s) \/ Sweep(s) \/ Expire(s) \/ ExpireAck(s) \/ Reclaim(s)
  \/ Handler

LEMMA ServerSteps ==
  ASSUME Shape, ServerActs PROVE ServerStep /\ Shape'
  <1>1. ServerStep /\ Kept
    BY ClaimStep, SweepStep, ExpireStep, AcceptStep, AnswerStep, DropStep
    DEF ServerActs, Handler
  <1>2. Front  BY <1>1 DEF ServerStep
  <1>3. ChannelType' /\ GuardType' /\ TableType' /\ calls' \in 0 .. MaxCalls
    BY <1>2 DEF Front, Shape, ChannelType, GuardType, TableType
  <1> QED  BY <1>1, <1>3 DEF Shape, Kept

-----------------------------------------------------------------------------
\* The life of the owner.
Aside == UNCHANGED <<guard, pc, me, got, calls>>

Lives ==
  /\ slot' = slot /\ page' = page /\ handlers' \subseteq handlers /\ epoch <= epoch'
  /\ server'.state \in {"up", "closing"} =>
       server.state \in {"up", "closing"} /\ epoch' = epoch
  /\ handlers' # {} =>
       server'.state \in {"up", "closing"} \/ (handlers' = handlers /\ server.state \notin {"up", "closing"})

Inits(s) ==
  /\ Emptied(s) /\ Elsewhere(s) /\ server'.state = "init" /\ server.state = "init"
  /\ UNCHANGED <<epoch, page, handlers>>

Opens ==
  /\ server.state = "init" /\ \A k \in Pages : page'[k] = NoPage
  /\ UNCHANGED <<epoch, slot, handlers>>

OwnerStep == Aside /\ (Lives \/ (\E s \in Slots : Inits(s)) \/ Opens)

LEMMA GoServerType ==
  ASSUME ChannelType, NEW state \in {"up", "closing", "down", "fencing", "init"}, GoServer(state)
  PROVE  /\ server' \in [state : {"up", "closing", "down", "fencing", "init"},
                          next : 1 .. Cardinality(Slots) + 1]
         /\ server'.state = state
  BY DEF ChannelType, GoServer

LEMMA LifeStep ==
  ASSUME Shape, BeginClose \/ Shut \/ Crash \/ Start \/ Fence
  PROVE  Aside /\ Lives /\ ChannelType'
  <1>0. ChannelType /\ epoch \in 1 .. MaxEpoch /\ MaxEpoch \in Nat
    BY Constants DEF Shape, ChannelType
  <1>1. CASE BeginClose
    <2>1. GoServer("closing") /\ closed' = TRUE /\ server.state = "up"
      BY <1>1 DEF BeginClose
    <2>2. slot' = slot /\ page' = page /\ handlers' = handlers /\ epoch' = epoch /\ Aside
      BY <1>1 DEF BeginClose, Aside, clients
    <2>3. server'.state = "closing" /\ ChannelType'
      BY <1>0, <2>1, <2>2, GoServerType DEF ChannelType
    <2> QED  BY <1>0, <2>1, <2>2, <2>3 DEF Lives
  <1>2. CASE Shut
    <2>1. GoServer("down") /\ handlers = {}  BY <1>2 DEF Shut, MayClose
    <2>2. slot' = slot /\ page' = page /\ handlers' = {} /\ epoch' = epoch /\ closed' = closed /\ Aside
      BY <1>2, <2>1 DEF Shut, Aside, clients, header
    <2>3. server'.state = "down" /\ ChannelType'
      BY <1>0, <2>1, <2>2, GoServerType DEF ChannelType
    <2> QED  BY <1>0, <2>1, <2>2, <2>3 DEF Lives
  <1>3. CASE Crash
    <2>1. GoServer("down")  BY <1>3 DEF Crash
    <2>2. slot' = slot /\ page' = page /\ handlers' = {} /\ epoch' = epoch /\ closed' = closed /\ Aside
      BY <1>3 DEF Crash, Aside, clients, header
    <2>3. server'.state = "down" /\ ChannelType'
      BY <1>0, <2>1, <2>2, GoServerType DEF ChannelType
    <2> QED  BY <1>0, <2>1, <2>2, <2>3 DEF Lives
  <1>4. CASE Start
    <2>1. GoServer("fencing") /\ server.state = "down" /\ epoch < MaxEpoch /\ epoch' = epoch + 1
      BY <1>4 DEF Start
    <2>2. slot' = slot /\ page' = page /\ handlers' = handlers /\ closed' = closed /\ Aside
      BY <1>4 DEF Start, Aside, clients
    <2>3. epoch' \in 1 .. MaxEpoch /\ epoch <= epoch'  BY <1>0, <2>1
    <2>4. server'.state = "fencing" /\ ChannelType'
      BY <1>0, <2>1, <2>2, <2>3, GoServerType DEF ChannelType
    <2> QED  BY <2>1, <2>2, <2>3, <2>4 DEF Lives
  <1>5. CASE Fence
    <2>1. server.state = "fencing" /\ server' = [state |-> "init", next |-> 1] /\ closed' = TRUE
      BY <1>5 DEF Fence
    <2>2. slot' = slot /\ page' = page /\ handlers' = handlers /\ epoch' = epoch /\ Aside
      BY <1>5 DEF Fence, Aside, clients
    <2>3. 1 \in 1 .. Cardinality(Slots) + 1  BY Constants
    <2>4. server'.state = "init" /\ ChannelType'
      BY <1>0, <2>1, <2>2, <2>3 DEF ChannelType
    <2> QED  BY <1>0, <2>1, <2>2, <2>4 DEF Lives
  <1> QED  BY <1>1, <1>2, <1>3, <1>4, <1>5

LEMMA InitSlotStep ==
  ASSUME Shape, InitSlot
  PROVE  Aside /\ Inits(server.next) /\ server.next \in Slots /\ ChannelType' /\ SlotType'
  <1> DEFINE s == server.next
             d == FreeSlot(0)
  <1>0. ChannelType /\ SlotType /\ s \in Slots /\ server.state = "init"
    BY DEF Shape, InitSlot
  <1>1. d \in Headers  BY <1>0, FreeType
  <1>2. /\ d.state = "free" /\ d.token = 0 /\ d.phase = 0 /\ d.deadline = "past"
        /\ d.answer = None /\ d.paged = FALSE /\ d.epoch = epoch
    BY DEF FreeSlot, None
  <1>3. slot' = [slot EXCEPT ![s] = d]  BY DEF InitSlot
  <1>4. /\ epoch' = epoch /\ closed' = closed /\ page' = page /\ handlers' = handlers /\ Aside
        /\ server' = [server EXCEPT !.next = s + 1]
    BY DEF InitSlot, Aside, header, clients
  <1> HIDE DEF d
  <1>5. SlotType' /\ slot'[s] = d /\ Elsewhere(s)  BY <1>0, <1>1, <1>3, Placed
  <1>6. Emptied(s)  BY <1>2, <1>5 DEF Emptied
  <1>7. s + 1 \in 1 .. Cardinality(Slots) + 1  BY <1>0, Constants
  <1>8. server'.state = "init" /\ ChannelType'  BY <1>0, <1>4, <1>7 DEF ChannelType
  <1> QED  BY <1>0, <1>4, <1>5, <1>6, <1>8 DEF Inits

LEMMA FinishInitStep ==
  ASSUME Shape, FinishInit
  PROVE  Aside /\ Opens /\ ChannelType' /\ PageType'
  <1>0. ChannelType  BY DEF Shape
  <1>1. /\ server.state = "init" /\ page' = [k \in Pages |-> NoPage]
        /\ closed' = FALSE /\ GoServer("up")
        /\ epoch' = epoch /\ slot' = slot /\ handlers' = handlers /\ Aside
    BY DEF FinishInit, Aside, clients
  <1>2. ChannelType'  BY <1>0, <1>1, GoServerType DEF ChannelType
  <1>3. PageType'  BY <1>1 DEF PageType, Uses
  <1> QED  BY <1>1, <1>2, <1>3 DEF Opens

LEMMA OwnerSteps ==
  ASSUME Shape, Owner PROVE OwnerStep /\ Shape'
  <1>1. CASE BeginClose \/ Shut \/ Crash \/ Start \/ Fence
    <2>1. Aside /\ Lives /\ ChannelType'  BY <1>1, LifeStep
    <2> QED  BY <2>1 DEF OwnerStep, Shape, Aside, Lives, SlotType, PageType, GuardType, TableType, HandlerType
  <1>2. CASE InitSlot
    <2>1. Aside /\ Inits(server.next) /\ server.next \in Slots /\ ChannelType' /\ SlotType'
      BY <1>2, InitSlotStep
    <2> QED  BY <2>1 DEF OwnerStep, Shape, Aside, Inits, PageType, GuardType, TableType, HandlerType
  <1>3. CASE FinishInit
    <2>1. Aside /\ Opens /\ ChannelType' /\ PageType'  BY <1>3, FinishInitStep
    <2> QED  BY <2>1 DEF OwnerStep, Shape, Aside, Opens, SlotType, GuardType, TableType, HandlerType
  <1> QED  BY <1>1, <1>2, <1>3 DEF Owner

-----------------------------------------------------------------------------
Acts == (\E c \in Clients : ClientStep(c) /\ Backstage) \/ ServerStep \/ OwnerStep

LEMMA NextActs ==
  ASSUME Shape, Next PROVE Acts /\ Shape'
  BY ClientSteps, ServerSteps, OwnerSteps DEF Next, Acts, ServerActs

LEMMA StutterShape ==
  ASSUME Shape, UNCHANGED vars PROVE Shape'
  BY DEF Shape, ChannelType, SlotType, PageType, GuardType, TableType, HandlerType,
         vars, header, clients

\* What becomes of one slot.
Fate(s) ==
  \/ Stands(s)
  \/ Emptied(s)
  \/ \E c \in Clients : me[c].slot = s /\ (Writes(c) \/ Publishes(c) \/ Reopens(c))
  \/ Claims(s)
  \/ Refuses(s)
  \/ \E h \in handlers : h.slot = s /\ Replies(h)

LEMMA Apart ==
  ASSUME NEW t, Elsewhere(t), NEW s \in Slots, s # t PROVE Stands(s)
  BY DEF Elsewhere, Stands

LEMMA Fates ==
  ASSUME Shape, Acts, NEW s \in Slots PROVE Fate(s)
  <1>1. ASSUME NEW c \in Clients, ClientStep(c) PROVE Fate(s)
    <2>1. CASE slot' = slot  BY <2>1 DEF Stands, Fate
    <2>2. CASE Writes(c)
      <3>1. CASE s = me[c].slot  BY <2>2, <3>1 DEF Fate
      <3>2. CASE s # me[c].slot  BY <2>2, <3>2, Apart DEF Fate, Writes
      <3> QED  BY <3>1, <3>2
    <2>3. CASE Publishes(c)
      <3>1. CASE s = me[c].slot  BY <2>3, <3>1 DEF Fate
      <3>2. CASE s # me[c].slot  BY <2>3, <3>2, Apart DEF Fate, Publishes
      <3> QED  BY <3>1, <3>2
    <2>4. CASE Reopens(c)
      <3>1. CASE s = me[c].slot  BY <2>4, <3>1 DEF Fate
      <3>2. CASE s # me[c].slot  BY <2>4, <3>2, Apart DEF Fate, Reopens
      <3> QED  BY <3>1, <3>2
    <2>5. CASE Leaves(c)  BY <2>5 DEF Leaves, Fate
    <2> QED  BY <1>1, <2>1, <2>2, <2>3, <2>4, <2>5 DEF ClientStep, Enters, Reenters, Reads
  <1>2. CASE ServerStep
    <2>1. ASSUME NEW t \in Slots, Frees(t) \/ Claims(t) \/ Refuses(t) PROVE Fate(s)
      <3>1. CASE s = t  BY <2>1, <3>1 DEF Fate, Frees
      <3>2. CASE s # t  BY <2>1, <3>2, Apart DEF Fate, Frees, Claims, Refuses
      <3> QED  BY <3>1, <3>2
    <2>2. ASSUME NEW h \in handlers, Replies(h) PROVE Fate(s)
      <3>1. CASE s = h.slot  BY <2>2, <3>1 DEF Fate
      <3>2. CASE s # h.slot  BY <2>2, <3>2, Apart DEF Fate, Replies
      <3> QED  BY <3>1, <3>2
    <2>3. CASE Idles  BY <2>3 DEF Idles, Fate
    <2> QED  BY <1>2, <2>1, <2>2, <2>3 DEF ServerStep
  <1>3. CASE OwnerStep
    <2>1. CASE slot' = slot  BY <2>1 DEF Stands, Fate
    <2>2. ASSUME NEW t \in Slots, Inits(t) PROVE Fate(s)
      <3>1. CASE s = t  BY <2>2, <3>1 DEF Fate, Inits
      <3>2. CASE s # t  BY <2>2, <3>2, Apart DEF Fate, Inits
      <3> QED  BY <3>1, <3>2
    <2> QED  BY <1>3, <2>1, <2>2 DEF OwnerStep, Lives, Opens
  <1> QED  BY <1>1, <1>2, <1>3 DEF Acts

-----------------------------------------------------------------------------
\* Numbers of calls. A header without a number is one that was reset.
TokenInv ==
  /\ \A c \in Clients : pc[c] # "idle" => me[c].token \in 1 .. calls /\ me[c].epoch <= epoch
  /\ \A c, d \in Clients :
       pc[c] # "idle" /\ pc[d] # "idle" /\ me[c].token = me[d].token => c = d
  /\ \A h \in handlers : h.token \in 1 .. calls

BlankInv ==
  \A s \in Slots :
    /\ slot[s].epoch <= epoch /\ slot[s].token <= calls
    /\ slot[s].token = 0 =>
         slot[s].deadline = "past" /\ slot[s].phase = 0 /\ slot[s].answer = None

\* A guard is the guard of a client that writes to its slot.
LockInv ==
  \A s \in Slots :
    guard[s] # NoClient => pc[guard[s]] \in {"entered", "written"} /\ me[guard[s]].slot = s

\* Handlers run while the owner does.
ServingInv == handlers # {} => server.state \in {"up", "closing"}

BaseInv == Shape /\ TokenInv /\ BlankInv /\ LockInv /\ ServingInv

LEMMA InitBase == Init => BaseInv
  <1> SUFFICES ASSUME Init PROVE BaseInv OBVIOUS
  <1>1. Shape  BY InitShape
  <1>2. TokenInv  BY DEF Init, TokenInv
  <1>3. BlankInv  BY DEF Init, BlankInv, FreeSlot
  <1>4. LockInv /\ ServingInv  BY DEF Init, LockInv, ServingInv
  <1> QED  BY <1>1, <1>2, <1>3, <1>4 DEF BaseInv

\* A step of a client leaves the others alone and keeps its own call, but
\* for the one it begins.
LEMMA ClientFacts ==
  ASSUME Shape, NEW c \in Clients, ClientStep(c), Backstage
  PROVE  /\ \A d \in Clients \ {c} : pc'[d] = pc[d] /\ me'[d] = me[d] /\ got'[d] = got[d]
         /\ \/ pc'[c] = "idle" /\ calls' = calls
            \/ /\ pc[c] = "idle" /\ pc'[c] = "entered" /\ me'[c].token = calls + 1
               /\ me'[c].epoch = epoch /\ calls' = calls + 1
            \/ /\ pc[c] # "idle" /\ me'[c].token = me[c].token /\ me'[c].slot = me[c].slot
               /\ me'[c].epoch = me[c].epoch /\ calls' = calls
         /\ epoch' = epoch /\ handlers' = handlers
  <1>1. ASSUME NEW s \in Slots, Enters(c, s)
        PROVE  /\ \A d \in Clients \ {c} : pc'[d] = pc[d] /\ me'[d] = me[d] /\ got'[d] = got[d]
               /\ pc[c] = "idle" /\ pc'[c] = "entered" /\ me'[c].token = calls + 1
               /\ me'[c].epoch = epoch /\ calls' = calls + 1
    BY <1>1 DEF Enters, Turns
  <1>2. CASE Reenters(c)  BY <1>2 DEF Reenters, Turns, Backstage
  <1>3. CASE Writes(c) \/ Publishes(c) \/ Reads(c) \/ Reopens(c)
    BY <1>3 DEF Writes, Publishes, Reads, Reopens, Turns, Backstage
  <1>4. CASE Leaves(c)  BY <1>4 DEF Leaves, Turns, Backstage
  <1> QED  BY <1>1, <1>2, <1>3, <1>4 DEF ClientStep, Backstage

LEMMA TokenStep ==
  ASSUME BaseInv, Acts, Shape' PROVE TokenInv'
  <1>0. Shape /\ TokenInv /\ BlankInv /\ calls \in Nat /\ epoch \in Nat /\ epoch' \in Nat
    BY Constants DEF BaseInv, Shape, ChannelType
  <1>1. ASSUME NEW c \in Clients, ClientStep(c), Backstage PROVE TokenInv'
    BY <1>0, <1>1, ClientFacts DEF TokenInv
  <1>2. CASE ServerStep
    <2>1. Front /\ \A c \in Clients : pc'[c] = pc[c] /\ me'[c] = me[c]
      BY <1>2 DEF ServerStep, Front
    <2>2. ASSUME NEW h \in handlers' PROVE h.token \in 1 .. calls
      <3>1. CASE h \in handlers  BY <1>0, <3>1 DEF TokenInv
      <3>2. ASSUME NEW s \in Slots, Claims(s), h \notin handlers PROVE h.token \in 1 .. calls
        <4>1. slot[s].token # 0 /\ slot[s].token <= calls /\ h.token = slot[s].token
          BY <1>0, <2>2, <3>2 DEF Claims, BlankInv
        <4>2. slot[s].token \in Nat  BY <1>0, Constants DEF Shape, SlotType, Headers
        <4> QED  BY <1>0, <4>1, <4>2
      <3> QED  BY <1>2, <2>2, <3>1, <3>2 DEF ServerStep, Frees, Refuses, Replies, Idles
    <2> QED  BY <1>0, <2>1, <2>2 DEF TokenInv, Front
  <1>3. CASE OwnerStep
    <2>1. epoch <= epoch' /\ handlers' \subseteq handlers /\ Aside
      BY <1>0, <1>3 DEF OwnerStep, Lives, Inits, Opens
    <2>2. ASSUME NEW c \in Clients, pc[c] # "idle"
          PROVE  me[c].token \in 1 .. calls /\ me[c].epoch <= epoch'
      <3>1. me[c].epoch \in Nat  BY <1>0, <2>2, SlotOfCall, Constants DEF Identities
      <3> QED  BY <1>0, <2>1, <2>2, <3>1 DEF TokenInv
    <2> QED  BY <1>0, <2>1, <2>2 DEF TokenInv, Aside
  <1> QED  BY <1>1, <1>2, <1>3 DEF Acts

LEMMA Onward ==
  ASSUME Shape, Acts, Shape' PROVE epoch <= epoch' /\ calls <= calls'
  <1>0. calls \in Nat /\ epoch \in Nat  BY Constants DEF Shape, ChannelType
  <1>1. ASSUME NEW c \in Clients, ClientStep(c), Backstage PROVE epoch <= epoch' /\ calls <= calls'
    BY <1>0, <1>1, ClientFacts
  <1>2. CASE ServerStep  BY <1>0, <1>2 DEF ServerStep, Front
  <1>3. CASE OwnerStep  BY <1>0, <1>3 DEF OwnerStep, Aside, Lives, Inits, Opens
  <1> QED  BY <1>1, <1>2, <1>3 DEF Acts

LEMMA BlankStep ==
  ASSUME BaseInv, Acts, Shape' PROVE BlankInv'
  <1>0. Shape /\ TokenInv /\ BlankInv /\ epoch <= epoch' /\ calls <= calls'
    BY Onward DEF BaseInv
  <1>1. calls \in Nat /\ epoch \in Nat /\ calls' \in Nat /\ epoch' \in Nat
    BY Constants, <1>0 DEF Shape, ChannelType
  <1> SUFFICES ASSUME NEW s \in Slots
               PROVE  /\ slot'[s].epoch <= epoch' /\ slot'[s].token <= calls'
                      /\ slot'[s].token = 0 => /\ slot'[s].deadline = "past" /\ slot'[s].phase = 0
                                               /\ slot'[s].answer = None
    BY DEF BlankInv
  <1>2. slot[s].epoch \in Nat /\ slot[s].token \in Nat
    BY SMTT(30), <1>0, Constants DEF Shape, SlotType, Headers
  <1>3. /\ slot[s].epoch <= epoch /\ slot[s].token <= calls
        /\ slot[s].token = 0 => /\ slot[s].deadline = "past" /\ slot[s].phase = 0
                                /\ slot[s].answer = None
    BY <1>0 DEF BlankInv
  <1>4. CASE Stands(s)  BY <1>0, <1>1, <1>2, <1>3, <1>4 DEF Stands
  <1>5. CASE Emptied(s)  BY <1>0, <1>1, <1>5 DEF Emptied
  <1>6. ASSUME NEW c \in Clients, me[c].slot = s, Writes(c) PROVE
             /\ slot'[s].epoch <= epoch' /\ slot'[s].token <= calls' /\ slot'[s].token # 0
    <2>1. me[c].token \in 1 .. calls /\ me[c].epoch <= epoch /\ me[c].epoch \in Nat
      BY <1>0, <1>6, SlotOfCall, Constants DEF TokenInv, Writes, Identities
    <2> QED  BY <1>0, <1>1, <1>6, <2>1 DEF Writes
  <1>7. ASSUME NEW state, NEW answer, NEW paged, Turned(s, state, answer, paged),
               slot[s].token = 0 => answer = None
        PROVE  /\ slot'[s].epoch <= epoch' /\ slot'[s].token <= calls'
               /\ slot'[s].token = 0 => /\ slot'[s].deadline = "past" /\ slot'[s].phase = 0
                                        /\ slot'[s].answer = None
    BY <1>0, <1>1, <1>2, <1>3, <1>7 DEF Turned
  <1>8. ASSUME NEW c \in Clients, me[c].slot = s, Publishes(c) \/ Reopens(c)
        PROVE \E state, paged, answer : Turned(s, state, answer, paged) /\ (slot[s].token = 0 => answer = None)
    BY <1>3, <1>8 DEF Publishes, Reopens
  <1>9. CASE Claims(s) \/ Refuses(s)
    <2>1. \E state, paged, answer : Turned(s, state, answer, paged) /\ (slot[s].token = 0 => answer = None)
      BY <1>3, <1>9 DEF Claims, Refuses
    <2> QED  BY <1>7, <2>1
  <1>10. ASSUME NEW h \in handlers, h.slot = s, Replies(h)
         PROVE \E state, paged, answer : Turned(s, state, answer, paged) /\ (slot[s].token = 0 => answer = None)
    <2>1. h.token # 0 /\ h.token = slot[s].token
      BY <1>0, <1>1, <1>10 DEF TokenInv, Replies, IdentityMatches
    <2> QED  BY <1>10, <2>1 DEF Replies
  <1> QED  BY <1>0, <1>4, <1>5, <1>6, <1>7, <1>8, <1>9, <1>10, Fates DEF Fate

LEMMA LockStep ==
  ASSUME BaseInv, Acts, Shape' PROVE LockInv'
  <1>0. Shape /\ LockInv /\ guard \in [Slots -> Clients \cup {NoClient}] /\ NoClient \notin Clients
    BY Constants DEF BaseInv, Shape, GuardType
  <1>1. ASSUME NEW c \in Clients, ClientStep(c), Backstage PROVE LockInv'
    <2> SUFFICES ASSUME NEW t \in Slots, guard'[t] # NoClient
                 PROVE  pc'[guard'[t]] \in {"entered", "written"} /\ me'[guard'[t]].slot = t
      BY DEF LockInv
    <2>1. \A d \in Clients \ {c} : pc'[d] = pc[d] /\ me'[d] = me[d]
      BY <1>0, <1>1, ClientFacts
    <2>2. guard[t] # NoClient => pc[guard[t]] \in {"entered", "written"} /\ me[guard[t]].slot = t
      BY <1>0 DEF LockInv
    <2>3. ASSUME NEW s \in Slots, Enters(c, s)
          PROVE  pc'[guard'[t]] \in {"entered", "written"} /\ me'[guard'[t]].slot = t
      BY <1>0, <2>1, <2>2, <2>3 DEF Enters, Turns
    <2>4. CASE Reenters(c)
      BY <1>0, <2>1, <2>2, <2>4 DEF Reenters, Turns
    <2>5. CASE Writes(c)  BY <1>0, <2>1, <2>2, <2>5 DEF Writes, Turns
    <2>6. CASE Publishes(c)  BY <1>0, <2>1, <2>2, <2>6 DEF Publishes
    <2>7. CASE Reads(c) \/ Reopens(c)  BY ZenonT(30), <1>0, <2>1, <2>2, <2>7 DEF Reads, Reopens
    <2>8. CASE Leaves(c)  BY <1>0, <2>1, <2>2, <2>8 DEF Leaves
    <2> QED  BY <1>1, <2>3, <2>4, <2>5, <2>6, <2>7, <2>8 DEF ClientStep
  <1>2. CASE ServerStep  BY <1>0, <1>2 DEF ServerStep, Front, LockInv
  <1>3. CASE OwnerStep  BY <1>0, <1>3 DEF OwnerStep, Aside, LockInv
  <1> QED  BY <1>1, <1>2, <1>3 DEF Acts

LEMMA ServingStep ==
  ASSUME BaseInv, Acts PROVE ServingInv'
  <1>0. ServingInv  BY DEF BaseInv
  <1>1. ASSUME NEW c \in Clients, Backstage PROVE ServingInv'  BY <1>0, <1>1 DEF Backstage, ServingInv
  <1>2. CASE ServerStep
    BY <1>0, <1>2 DEF ServerStep, Front, Frees, Claims, Refuses, Replies, Idles, ServingInv
  <1>3. CASE OwnerStep
    BY <1>0, <1>3 DEF OwnerStep, Lives, Inits, Opens, ServingInv
  <1> QED  BY <1>1, <1>2, <1>3 DEF Acts

LEMMA BaseStep == BaseInv /\ [Next]_vars => BaseInv'
  <1> SUFFICES ASSUME BaseInv, [Next]_vars PROVE BaseInv' OBVIOUS
  <1>0. Shape  BY DEF BaseInv
  <1>1. CASE Next
    <2>1. Acts /\ Shape'  BY <1>0, <1>1, NextActs
    <2> QED  BY <2>1, TokenStep, BlankStep, LockStep, ServingStep DEF BaseInv
  <1>2. CASE UNCHANGED vars
    <2>1. Shape'  BY <1>0, <1>2, StutterShape
    <2> QED  BY <1>2, <2>1 DEF BaseInv, TokenInv, BlankInv, LockInv, ServingInv, vars, header, clients
  <1> QED  BY <1>1, <1>2

LEMMA BaseTypes == BaseInv => TypeOK
  <1> SUFFICES ASSUME BaseInv PROVE TypeOK OBVIOUS
  <1>1. epoch \in 1 .. MaxEpoch /\ closed \in BOOLEAN
        /\ server \in [state : {"up", "closing", "down", "fencing", "init"},
                       next : 1 .. Cardinality(Slots) + 1]
    BY DEF BaseInv, Shape, ChannelType
  <1>2. ASSUME NEW s \in Slots
        PROVE  /\ slot[s].state \in {"free", "writing", "request", "processing", "response"}
               /\ slot[s].deadline \in {"never", "ahead", "past"}
    BY DEF BaseInv, Shape, SlotType, Headers
  <1>3. ASSUME NEW s \in Slots
        PROVE  /\ slot[s].epoch <= epoch /\ slot[s].token <= calls
               /\ ~Unguarded(s) => pc[guard[s]] \in {"entered", "written"} /\ me[guard[s]].slot = s
    BY DEF BaseInv, BlankInv, LockInv, Unguarded
  <1>4. handlers \subseteq Identities /\ (handlers # {} => server.state \in {"up", "closing"})
    BY DEF BaseInv, Shape, HandlerType, ServingInv
  <1>5. \A c \in Clients : me[c] = NoCall \/ me[c] \in Identities
    BY DEF BaseInv, Shape, TableType, Calls
  <1> QED  BY <1>1, <1>2, <1>3, <1>4, <1>5 DEF TypeOK

\* TypeOK always holds: among the rest, a guard belongs to a client that is
\* writing to that slot, and an owner that is down has no handlers.
THEOREM TypeCorrect == Spec => []TypeOK
  <1>1. Spec => []BaseInv  BY InitBase, BaseStep, PTL DEF Spec
  <1> QED  BY <1>1, BaseTypes, PTL

-----------------------------------------------------------------------------
\* The client that holds a guard writes alone: nobody but a starting owner
\* touches its slot.
Holding == {"entered", "written"}

GuardInv ==
  \A c \in Clients :
    /\ pc[c] \in Holding =>
         guard[me[c].slot] = c /\ slot[me[c].slot].state \in {"free", "writing"}
    /\ pc[c] = "written" => slot[me[c].slot].token \in {0, me[c].token}
    /\ pc[c] \in Holding \cup {"reopened"} /\ slot[me[c].slot].token = me[c].token =>
         slot[me[c].slot].state = "writing"

\* A call and phase have one handler at most, and none before they are
\* requested or after they are answered.
Serves(h, s) == h.slot = s /\ h.token = slot[s].token

HandlerInv ==
  /\ \A h \in handlers : Serves(h, h.slot) => slot[h.slot].phase = h.phase
  /\ \A h, k \in handlers : h.slot = k.slot /\ h.token = k.token => h = k
  /\ \A s \in Slots :
       \/ slot[s].state \in {"writing", "request"}
       \/ slot[s].state = "response" /\ slot[s].answer # None
       => \A h \in handlers : ~Serves(h, s)
  /\ \A c \in Clients :
       pc[c] \in {"entered", "reopened"} =>
         \A h \in handlers : ~(h.slot = me[c].slot /\ h.token = me[c].token)

\* An answer is the answer of the call and phase in its slot.
AnswerInv ==
  /\ \A s \in Slots :
       slot[s].answer # None =>
         slot[s].answer = [token |-> slot[s].token, phase |-> slot[s].phase]
  /\ \A c \in Clients :
       pc[c] \in {"written", "waiting", "read", "reopened"} /\ slot[me[c].slot].token = me[c].token =>
         slot[me[c].slot].phase = me[c].phase
  /\ OwnAnswer

PageInv ==
  server.state \in {"up", "closing"} =>
    /\ \A h \in handlers : h.epoch = epoch
    /\ \A k \in Pages \ FreePages : page[k].epoch = epoch
    /\ PagesInUse

Inv == BaseInv /\ GuardInv /\ HandlerInv /\ AnswerInv /\ PageInv

LEMMA InitInv == Init => Inv
  <1> SUFFICES ASSUME Init PROVE Inv OBVIOUS
  <1>1. BaseInv  BY InitBase
  <1>2. GuardInv /\ HandlerInv  BY DEF Init, GuardInv, HandlerInv, Holding
  <1>3. AnswerInv  BY DEF Init, AnswerInv, OwnAnswer, FreeSlot
  <1>4. PageInv  BY DEF Init, PageInv, PagesInUse, FreePages
  <1> QED  BY <1>1, <1>2, <1>3, <1>4 DEF Inv

\* Facts of the state before a step, for a client with a call.
LEMMA CallFacts ==
  ASSUME BaseInv, NEW c \in Clients, pc[c] # "idle"
  PROVE  /\ me[c].slot \in Slots /\ slot[me[c].slot] \in Headers
         /\ me[c].token \in 1 .. calls /\ me[c].token # 0 /\ calls \in Nat
         /\ slot[me[c].slot].token <= calls
  BY SlotOfCall, Constants DEF BaseInv, TokenInv, BlankInv, Shape

LEMMA HandlerFacts ==
  ASSUME BaseInv, NEW h \in handlers
  PROVE  /\ h \in Identities /\ h.slot \in Slots /\ slot[h.slot] \in Headers
         /\ h.token \in 1 .. calls /\ h.token # 0 /\ calls \in Nat
  BY Constants DEF BaseInv, TokenInv, Shape, HandlerType, SlotType, Identities

\* A step of the server or the owner leaves all clients and all guards.
LEMMA OthersAside ==
  (ServerStep \/ OwnerStep) => Aside
  BY DEF ServerStep, Front, OwnerStep, Aside

\* The guard clauses of one client, from what its slot becomes.
GuardOf(d) ==
  /\ pc[d] \in Holding =>
       guard[me[d].slot] = d /\ slot[me[d].slot].state \in {"free", "writing"}
  /\ pc[d] = "written" => slot[me[d].slot].token \in {0, me[d].token}
  /\ pc[d] \in Holding \cup {"reopened"} /\ slot[me[d].slot].token = me[d].token =>
       slot[me[d].slot].state = "writing"

LEMMA GuardRest ==
  ASSUME Inv, Acts, ServerStep \/ OwnerStep, NEW d \in Clients
  PROVE  GuardOf(d)'
  <1>0. BaseInv /\ Shape /\ Aside /\ GuardOf(d)
    BY OthersAside DEF Inv, BaseInv, GuardInv, GuardOf
  <1>1. CASE pc[d] = "idle"  BY <1>0, <1>1 DEF GuardOf, Aside, Holding
  <1>2. CASE pc[d] # "idle"
    <2> DEFINE s == me[d].slot
    <2>0. s \in Slots /\ me[d].token # 0 /\ me'[d] = me[d] /\ pc'[d] = pc[d] /\ guard' = guard
          /\ NoClient # d
      BY <1>0, <1>2, CallFacts, Constants DEF Aside
    <2>1. CASE Stands(s)  BY <1>0, <2>0, <2>1 DEF Stands, GuardOf
    <2>2. CASE Emptied(s)  BY <1>0, <2>0, <2>2 DEF Emptied, GuardOf
    <2>3. CASE Claims(s)
      BY <1>0, <2>0, <2>3 DEF Claims, Turned, GuardOf, Holding
    <2>4. CASE Refuses(s)
      BY <1>0, <2>0, <2>4 DEF Refuses, Turned, GuardOf, Holding
    <2>5. ASSUME NEW h \in handlers, h.slot = s, Replies(h) PROVE GuardOf(d)'
      BY <1>0, <2>0, <2>5 DEF Replies, Turned, GuardOf, Holding
    <2>6. ASSUME NEW c \in Clients, Writes(c) \/ Publishes(c) \/ Reopens(c) PROVE FALSE
      BY <1>0, <2>6 DEF Writes, Publishes, Reopens, Turns, Aside
    <2> QED  BY <1>0, <2>0, <2>1, <2>2, <2>3, <2>4, <2>5, <2>6, Fates DEF Fate
  <1> QED  BY <1>1, <1>2

LEMMA GuardClient ==
  ASSUME Inv, NEW c \in Clients, ClientStep(c), Backstage, NEW d \in Clients
  PROVE  GuardOf(d)'
  <1>0. /\ BaseInv /\ Shape /\ TokenInv /\ GuardType /\ NoClient # d /\ NoClient # c
        /\ GuardOf(c) /\ GuardOf(d)
    BY Constants DEF Inv, BaseInv, Shape, GuardInv, GuardOf
  <1>1. d # c => pc'[d] = pc[d] /\ me'[d] = me[d]  BY <1>0, ClientFacts
  <1>2. pc[d] # "idle" => /\ me[d].slot \in Slots /\ slot[me[d].slot] \in Headers
                          /\ me[d].token # 0 /\ slot[me[d].slot].token <= calls
                          /\ (pc[c] # "idle" /\ me[c].token = me[d].token => c = d)
    BY <1>0, CallFacts DEF TokenInv
  <1>3. ASSUME NEW s \in Slots, Enters(c, s) PROVE GuardOf(d)'
    <2>1. CASE d = c
      <3>1. slot[s].token # calls + 1 /\ guard[s] = NoClient /\ slot[s].state = "free" /\ slot' = slot
        <4>1. slot[s].token <= calls /\ slot[s].token \in Nat /\ calls \in Nat
          BY <1>0, Constants DEF BaseInv, BlankInv, Shape, SlotType, Headers
        <4> QED  BY <1>3, <4>1 DEF Enters
      <3>2. pc'[c] = "entered" /\ me'[c].slot = s /\ me'[c].token = calls + 1 /\ guard'[s] = c
        BY <1>0, <1>3 DEF Enters, Turns, GuardType
      <3> QED  BY <2>1, <3>1, <3>2 DEF GuardOf
    <2>2. CASE d # c
      BY <1>0, <1>1, <1>2, <1>3, <2>2 DEF Enters, GuardOf, GuardType, Holding
    <2> QED  BY <2>1, <2>2
  <1>4. CASE Reenters(c)
    <2>0. /\ me[c].slot \in Slots /\ guard[me[c].slot] = NoClient /\ slot' = slot
          /\ slot[me[c].slot].state = "writing" /\ guard' = [guard EXCEPT ![me[c].slot] = c]
      BY <1>0, <1>4, CallFacts DEF Reenters
    <2>1. CASE d = c
      <3>1. pc'[c] = "entered" /\ me'[c].slot = me[c].slot /\ me'[c].token = me[c].token
        BY <1>4 DEF Reenters, Turns
      <3>2. guard'[me[c].slot] = c  BY <1>0, <2>0 DEF GuardType
      <3> QED  BY <2>0, <2>1, <3>1, <3>2 DEF GuardOf
    <2>2. CASE d # c
      BY <1>0, <1>1, <1>2, <2>0, <2>2 DEF GuardOf, GuardType, Holding
    <2> QED  BY <2>1, <2>2
  <1>5. CASE Writes(c)
    <2>0. /\ pc[c] = "entered" /\ guard' = guard /\ guard[me[c].slot] = c
          /\ pc'[c] = "written" /\ me'[c] = me[c]
          /\ slot'[me[c].slot].state = "writing" /\ slot'[me[c].slot].token = me[c].token
          /\ Elsewhere(me[c].slot)
      BY <1>0, <1>5 DEF Writes, Turns, GuardOf, Holding
    <2>1. CASE d = c  BY <2>0, <2>1 DEF GuardOf
    <2>2. CASE d # c /\ me[d].slot = me[c].slot
      BY <1>0, <1>1, <1>2, <2>0, <2>2 DEF GuardOf, Holding
    <2>3. CASE d # c /\ me[d].slot # me[c].slot
      BY <1>0, <1>1, <1>2, <2>0, <2>3 DEF GuardOf, Elsewhere, Holding
    <2> QED  BY <2>1, <2>2, <2>3
  <1>6. CASE Publishes(c)
    <2>0. /\ pc[c] = "written" /\ guard[me[c].slot] = c /\ pc'[c] = "waiting"
          /\ guard' = [t \in Slots |-> IF guard[t] = c THEN NoClient ELSE guard[t]]
          /\ slot[me[c].slot].token \in {0, me[c].token}
          /\ slot'[me[c].slot].token = slot[me[c].slot].token
          /\ Elsewhere(me[c].slot)
      BY <1>0, <1>6 DEF Publishes, Turns, Turned, GuardOf, Holding
    <2>1. CASE d = c  BY <2>0, <2>1 DEF GuardOf, Holding
    <2>2. CASE d # c /\ me[d].slot = me[c].slot
      <3>1. CASE pc[d] = "idle"  BY <1>1, <2>2, <3>1 DEF GuardOf, Holding
      <3>2. CASE pc[d] # "idle"
        <4>1. pc[d] \notin Holding  BY <1>0, <2>0, <2>2 DEF GuardOf
        <4>2. slot'[me[d].slot].token # me[d].token  BY <1>2, <2>0, <2>2, <3>2
        <4> QED  BY <1>1, <2>2, <4>1, <4>2 DEF GuardOf, Holding
      <3> QED  BY <3>1, <3>2
    <2>3. CASE d # c /\ me[d].slot # me[c].slot
      BY <1>0, <1>1, <1>2, <2>0, <2>3 DEF GuardOf, Elsewhere, Holding
    <2> QED  BY <2>1, <2>2, <2>3
  <1>7. CASE Reads(c)
    <2>1. slot' = slot /\ guard' = guard /\ pc'[c] = "read"  BY <1>7 DEF Reads, Turns
    <2>2. CASE d = c  BY <2>1, <2>2 DEF GuardOf, Holding
    <2>3. CASE d # c  BY <1>0, <1>1, <2>1, <2>3 DEF GuardOf
    <2> QED  BY <2>2, <2>3
  <1>8. CASE Reopens(c)
    <2>0. /\ guard[me[c].slot] = NoClient /\ guard' = guard /\ pc'[c] = "reopened"
          /\ slot'[me[c].slot].state = "writing" /\ Elsewhere(me[c].slot) /\ me'[c] = me[c]
      BY <1>8 DEF Reopens, Turns, Turned
    <2>1. CASE d = c  BY <2>0, <2>1 DEF GuardOf, Holding
    <2>2. CASE d # c /\ me[d].slot = me[c].slot
      BY <1>0, <1>1, <2>0, <2>2 DEF GuardOf, Holding
    <2>3. CASE d # c /\ me[d].slot # me[c].slot
      BY <1>0, <1>1, <1>2, <2>0, <2>3 DEF GuardOf, Elsewhere, Holding
    <2> QED  BY <2>1, <2>2, <2>3
  <1>9. CASE Leaves(c)
    <2>0. /\ pc'[c] = "idle" /\ \A s \in Slots : Stands(s)
          /\ \/ guard' = guard
             \/ guard' = [t \in Slots |-> IF guard[t] = c THEN NoClient ELSE guard[t]]
      BY <1>9 DEF Leaves, Turns
    <2>1. CASE d = c  BY <2>0, <2>1 DEF GuardOf, Holding
    <2>2. CASE d # c /\ pc[d] # "idle"
      BY <1>0, <1>1, <1>2, <2>0, <2>2 DEF GuardOf, Stands
    <2>3. CASE d # c /\ pc[d] = "idle"  BY <1>1, <2>3 DEF GuardOf, Holding
    <2> QED  BY <2>1, <2>2, <2>3
  <1> QED  BY <1>3, <1>4, <1>5, <1>6, <1>7, <1>8, <1>9 DEF ClientStep

LEMMA GuardStep ==
  ASSUME Inv, Acts PROVE GuardInv'
  <1>1. ASSUME NEW d \in Clients PROVE GuardOf(d)'  BY GuardRest, GuardClient DEF Acts
  <1> QED  BY <1>1 DEF GuardInv, GuardOf

-----------------------------------------------------------------------------
\* The parts of HandlerInv.
ServiceOf(h) ==
  Serves(h, h.slot) =>
    /\ slot[h.slot].phase = h.phase
    /\ slot[h.slot].state \notin {"writing", "request"}
    /\ ~(slot[h.slot].state = "response" /\ slot[h.slot].answer # None)

OneHandler == \A h, k \in handlers : h.slot = k.slot /\ h.token = k.token => h = k

NotYet(c) ==
  pc[c] \in {"entered", "reopened"} =>
    \A h \in handlers : ~(h.slot = me[c].slot /\ h.token = me[c].token)

LEMMA HandlerParts ==
  ASSUME HandlerType
  PROVE  HandlerInv <=> /\ \A h \in handlers : ServiceOf(h)
                        /\ OneHandler
                        /\ \A c \in Clients : NotYet(c)
  BY DEF HandlerInv, ServiceOf, OneHandler, NotYet, Serves, HandlerType, Identities

\* Handlers come by a claim only.
LEMMA HandlersFrom ==
  ASSUME Acts
  PROVE  handlers' \subseteq handlers \/ \E s \in Slots : Claims(s)
  BY DEF Acts, Backstage, ServerStep, Frees, Refuses, Replies, Idles, OwnerStep, Lives, Inits, Opens

LEMMA ServiceStep ==
  ASSUME Inv, Acts, NEW h \in handlers, h \in handlers'
  PROVE  ServiceOf(h)'
  <1> DEFINE s == h.slot
  <1>0. /\ BaseInv /\ Shape /\ HandlerType /\ s \in Slots /\ h.token # 0
    BY HandlerFacts DEF Inv, BaseInv, Shape
  <1>a. ServiceOf(h) /\ OneHandler /\ \A c \in Clients : NotYet(c)
    BY <1>0, HandlerParts DEF Inv
  <1>1. CASE Stands(s)  BY <1>a, <1>1 DEF Stands, ServiceOf, Serves
  <1>2. CASE Emptied(s)  BY <1>0, <1>2 DEF Emptied, ServiceOf, Serves
  <1>3. ASSUME NEW c \in Clients, me[c].slot = s, Writes(c) PROVE ServiceOf(h)'
    <2>1. h.token # me[c].token  BY <1>a, <1>3 DEF Writes, NotYet
    <2> QED  BY <1>3, <2>1 DEF Writes, ServiceOf, Serves
  <1>4. ASSUME NEW c \in Clients, me[c].slot = s, Publishes(c) PROVE ServiceOf(h)'
    <2>1. GuardOf(c)  BY DEF Inv, GuardInv, GuardOf
    <2>2. slot[s].token \in {0, me[c].token} /\ (slot[s].token = me[c].token => slot[s].state = "writing")
      BY <1>4, <2>1 DEF Publishes, GuardOf, Holding
    <2>3. slot'[s].token = slot[s].token  BY <1>4 DEF Publishes, Turned
    <2> QED  BY <1>0, <1>a, <2>2, <2>3 DEF ServiceOf, Serves
  <1>5. ASSUME NEW c \in Clients, me[c].slot = s, Reopens(c) PROVE ServiceOf(h)'
    BY <1>a, <1>5 DEF Reopens, Turned, ServiceOf, Serves
  <1>6. CASE Claims(s)  BY <1>a, <1>6 DEF Claims, Turned, ServiceOf, Serves
  <1>7. CASE Refuses(s)  BY <1>a, <1>7 DEF Refuses, Turned, ServiceOf, Serves
  <1>8. ASSUME NEW k \in handlers, k.slot = s, Replies(k) PROVE ServiceOf(h)'
    <2>1. k # h /\ k.token = slot[s].token /\ slot'[s].token = slot[s].token
      BY <1>8 DEF Replies, IdentityMatches, Turned
    <2>2. h.token # k.token  BY <1>a, <1>8, <2>1 DEF OneHandler
    <2> QED  BY <2>1, <2>2 DEF ServiceOf, Serves
  <1> QED  BY <1>0, <1>1, <1>2, <1>3, <1>4, <1>5, <1>6, <1>7, <1>8, Fates DEF Fate

LEMMA HandlerStep ==
  ASSUME Inv, Acts, Shape' PROVE HandlerInv'
  <1>0. BaseInv /\ Shape /\ TokenInv /\ HandlerType /\ HandlerType'  BY DEF Inv, BaseInv, Shape
  <1>a. (\A h \in handlers : ServiceOf(h)) /\ OneHandler /\ \A c \in Clients : NotYet(c)
    BY <1>0, HandlerParts DEF Inv
  <1>1. ASSUME NEW s \in Slots, Claims(s), NEW k \in handlers
        PROVE  ~(k.slot = s /\ k.token = slot[s].token)
    BY <1>a, <1>1 DEF Claims, ServiceOf, Serves
  <1>2. \A h \in handlers' : ServiceOf(h)'
    <2> SUFFICES ASSUME NEW h \in handlers' PROVE ServiceOf(h)'  OBVIOUS
    <2>1. CASE h \in handlers  BY <2>1, ServiceStep
    <2>2. ASSUME NEW s \in Slots, Claims(s), h \notin handlers PROVE ServiceOf(h)'
      BY <2>2 DEF Claims, Turned, ServiceOf, Serves
    <2> QED  BY <2>1, <2>2, HandlersFrom
  <1>3. OneHandler'
    <2>1. CASE handlers' \subseteq handlers  BY <1>a, <2>1 DEF OneHandler
    <2>2. ASSUME NEW s \in Slots, Claims(s) PROVE OneHandler'
      BY <1>a, <1>1, <2>2 DEF OneHandler, Claims
    <2> QED  BY <2>1, <2>2, HandlersFrom
  <1>4. ASSUME NEW d \in Clients PROVE NotYet(d)'
    <2>1. ASSUME NEW c \in Clients, ClientStep(c), Backstage PROVE NotYet(d)'
      <3>0. handlers' = handlers /\ (d # c => pc'[d] = pc[d] /\ me'[d] = me[d])
        BY <1>0, <2>1, ClientFacts
      <3>1. CASE d # c  BY <1>a, <3>0, <3>1 DEF NotYet
      <3>2. CASE d = c
        <4>1. ASSUME NEW s \in Slots, Enters(c, s) PROVE NotYet(c)'
          <5>1. me'[c].token = calls + 1  BY <4>1 DEF Enters, Turns
          <5>2. \A h \in handlers : h.token # calls + 1
            BY <1>0, Constants DEF TokenInv, Shape
          <5> QED  BY <3>0, <5>1, <5>2 DEF NotYet
        <4>2. CASE Reenters(c)  BY <1>a, <3>0, <4>2 DEF Reenters, Turns, NotYet
        <4>3. CASE Reopens(c)
          <5>1. /\ me'[c] = me[c] /\ me[c].token = slot[me[c].slot].token
                /\ slot[me[c].slot].state = "response" /\ slot[me[c].slot].answer # None
            BY <4>3 DEF Reopens, Turns, IdentityMatches
          <5> QED  BY <1>a, <3>0, <5>1 DEF NotYet, ServiceOf, Serves
        <4>4. CASE Writes(c) \/ Publishes(c) \/ Reads(c) \/ Leaves(c)
          BY <3>2, <4>4 DEF Writes, Publishes, Reads, Leaves, Turns, NotYet
        <4> QED  BY <2>1, <3>2, <4>1, <4>2, <4>3, <4>4 DEF ClientStep
      <3> QED  BY <3>1, <3>2
    <2>2. CASE ServerStep \/ OwnerStep
      <3>0. pc' = pc /\ me' = me  BY <2>2, OthersAside DEF Aside
      <3>1. CASE handlers' \subseteq handlers  BY <1>a, <3>0, <3>1 DEF NotYet
      <3>2. ASSUME NEW s \in Slots, Claims(s) PROVE NotYet(d)'
        <4>1. GuardOf(d)  BY DEF Inv, GuardInv, GuardOf
        <4>2. pc[d] \in {"entered", "reopened"} => ~(me[d].slot = s /\ me[d].token = slot[s].token)
          BY <3>2, <4>1 DEF Claims, GuardOf, Holding
        <4> QED  BY <1>a, <3>0, <3>2, <4>2 DEF NotYet, Claims
      <3> QED  BY <3>1, <3>2, HandlersFrom
    <2> QED  BY <2>1, <2>2 DEF Acts
  <1>5. HandlerType' => (HandlerInv' <=> /\ \A h \in handlers' : ServiceOf(h)'
                                        /\ OneHandler'
                                        /\ \A c \in Clients : NotYet(c)')
    BY DEF HandlerInv, ServiceOf, OneHandler, NotYet, Serves, HandlerType, Identities
  <1> QED  BY <1>0, <1>2, <1>3, <1>4, <1>5

-----------------------------------------------------------------------------
\* The parts of AnswerInv.
AnswerOf(s) ==
  slot[s].answer # None => slot[s].answer = [token |-> slot[s].token, phase |-> slot[s].phase]

PhaseOf(c) ==
  pc[c] \in {"written", "waiting", "read", "reopened"} /\ slot[me[c].slot].token = me[c].token =>
    slot[me[c].slot].phase = me[c].phase

CopyOf(c) ==
  pc[c] = "read" /\ got[c] # None => got[c] = [token |-> me[c].token, phase |-> me[c].phase]

LEMMA AnswerParts ==
  AnswerInv <=> /\ \A s \in Slots : AnswerOf(s)
                /\ \A c \in Clients : PhaseOf(c) /\ CopyOf(c)
  BY DEF AnswerInv, OwnAnswer, AnswerOf, PhaseOf, CopyOf

LEMMA AnswerOfStep ==
  ASSUME Inv, Acts, NEW s \in Slots PROVE AnswerOf(s)'
  <1>0. BaseInv /\ Shape /\ HandlerType /\ AnswerOf(s)  BY AnswerParts DEF Inv, BaseInv, Shape
  <1>1. CASE Stands(s)  BY <1>0, <1>1 DEF Stands, AnswerOf
  <1>2. CASE Emptied(s)  BY <1>2 DEF Emptied, AnswerOf
  <1>3. ASSUME NEW c \in Clients, me[c].slot = s, Writes(c) \/ Publishes(c) \/ Reopens(c)
        PROVE  AnswerOf(s)'
    BY <1>0, <1>3 DEF Writes, Publishes, Reopens, Turned, AnswerOf
  <1>4. CASE Claims(s) \/ Refuses(s)  BY <1>0, <1>4 DEF Claims, Refuses, Turned, AnswerOf
  <1>5. ASSUME NEW h \in handlers, h.slot = s, Replies(h) PROVE AnswerOf(s)'
    <2>1. ServiceOf(h)  BY <1>0, HandlerParts DEF Inv
    <2>2. slot[s].token = h.token /\ slot[s].phase = h.phase
      BY <1>5, <2>1 DEF Replies, IdentityMatches, ServiceOf, Serves
    <2> QED  BY <1>5, <2>2 DEF Replies, Turned, AnswerOf
  <1> QED  BY <1>0, <1>1, <1>2, <1>3, <1>4, <1>5, Fates DEF Fate

\* A slot that serves the call of a client keeps its phase, unless that client
\* itself writes.
LEMMA PhaseKept ==
  ASSUME Inv, Acts, NEW d \in Clients, pc[d] # "idle", PhaseOf(d), ~Writes(d),
         pc[d] \in {"written", "waiting", "read", "reopened"},
         slot'[me[d].slot].token = me[d].token
  PROVE  slot[me[d].slot].token = me[d].token /\ slot'[me[d].slot].phase = me[d].phase
  <1> DEFINE s == me[d].slot
  <1>0. BaseInv /\ Shape /\ TokenInv /\ s \in Slots /\ me[d].token # 0
    BY CallFacts DEF Inv, BaseInv
  <1>1. CASE Stands(s)  BY <1>1 DEF Stands, PhaseOf
  <1>2. CASE Emptied(s)  BY <1>0, <1>2 DEF Emptied
  <1>3. ASSUME NEW c \in Clients, me[c].slot = s, Writes(c) PROVE FALSE
    <2>1. me[c].token = me[d].token /\ pc[c] # "idle"  BY <1>3 DEF Writes
    <2> QED  BY <1>0, <1>3, <2>1 DEF TokenInv
  <1>4. ASSUME NEW c \in Clients, me[c].slot = s, Publishes(c) \/ Reopens(c)
        PROVE  slot[s].token = me[d].token /\ slot'[s].phase = me[d].phase
    BY <1>4 DEF Publishes, Reopens, Turned, PhaseOf
  <1>5. CASE Claims(s) \/ Refuses(s)  BY <1>5 DEF Claims, Refuses, Turned, PhaseOf
  <1>6. ASSUME NEW h \in handlers, h.slot = s, Replies(h)
        PROVE  slot[s].token = me[d].token /\ slot'[s].phase = me[d].phase
    BY <1>6 DEF Replies, Turned, PhaseOf
  <1> QED  BY <1>0, <1>1, <1>2, <1>3, <1>4, <1>5, <1>6, Fates DEF Fate

LEMMA ClientAnswerStep ==
  ASSUME Inv, Acts, NEW d \in Clients PROVE PhaseOf(d)' /\ CopyOf(d)'
  <1>0. BaseInv /\ Shape /\ PhaseOf(d) /\ CopyOf(d)  BY AnswerParts DEF Inv, BaseInv
  <1>1. ASSUME pc'[d] = pc[d], me'[d] = me[d], got'[d] = got[d], ~Writes(d)
        PROVE  PhaseOf(d)' /\ CopyOf(d)'
    <2>1. CopyOf(d)'  BY <1>0, <1>1 DEF CopyOf
    <2>2. PhaseOf(d)'  BY <1>0, <1>1, PhaseKept DEF PhaseOf
    <2> QED  BY <2>1, <2>2
  <1>2. ASSUME NEW c \in Clients, ClientStep(c), Backstage PROVE PhaseOf(d)' /\ CopyOf(d)'
    <2>1. CASE d # c
      <3>1. pc'[d] = pc[d] /\ me'[d] = me[d] /\ got'[d] = got[d]
        BY <1>0, <1>2, <2>1, ClientFacts
      <3>2. ~Writes(d)  BY <3>1 DEF Writes, Turns
      <3> QED  BY <1>1, <3>1, <3>2
    <2>2. CASE d = c
      <3>1. CASE Writes(c)
        BY <2>2, <3>1 DEF Writes, Turns, PhaseOf, CopyOf
      <3>2. CASE Publishes(c)
        BY <1>0, <2>2, <3>2 DEF Publishes, Turns, Turned, PhaseOf, CopyOf
      <3>3. CASE Reads(c)
        <4>1. /\ pc[c] = "waiting" /\ pc'[c] = "read" /\ me'[c] = me[c] /\ slot' = slot
              /\ got'[c] = slot[me[c].slot].answer /\ slot[me[c].slot].token = me[c].token
          BY <3>3 DEF Reads, Turns, IdentityMatches
        <4>2. me[c].slot \in Slots /\ AnswerOf(me[c].slot)
          BY <1>0, <4>1, CallFacts, AnswerParts DEF Inv
        <4> QED  BY <1>0, <2>2, <4>1, <4>2 DEF PhaseOf, CopyOf, AnswerOf
      <3>4. CASE Reopens(c)
        BY <1>0, <2>2, <3>4 DEF Reopens, Turns, Turned, PhaseOf, CopyOf
      <3>5. CASE Reenters(c) \/ Leaves(c)
        BY <2>2, <3>5 DEF Reenters, Leaves, Turns, PhaseOf, CopyOf
      <3>6. ASSUME NEW s \in Slots, Enters(c, s) PROVE PhaseOf(d)' /\ CopyOf(d)'
        BY <2>2, <3>6 DEF Enters, Turns, PhaseOf, CopyOf
      <3> QED  BY <1>2, <3>1, <3>2, <3>3, <3>4, <3>5, <3>6 DEF ClientStep
    <2> QED  BY <2>1, <2>2
  <1>3. CASE ServerStep \/ OwnerStep
    <2>1. pc'[d] = pc[d] /\ me'[d] = me[d] /\ got'[d] = got[d]  BY <1>3, OthersAside DEF Aside
    <2>2. ~Writes(d)  BY <2>1 DEF Writes, Turns
    <2> QED  BY <1>1, <2>1, <2>2
  <1> QED  BY <1>2, <1>3 DEF Acts

LEMMA AnswerInvStep ==
  ASSUME Inv, Acts PROVE AnswerInv'
  BY AnswerOfStep, ClientAnswerStep DEF AnswerInv, OwnAnswer, AnswerOf, PhaseOf, CopyOf

-----------------------------------------------------------------------------
\* The parts of PageInv.
PageOf(k) ==
  page[k] # NoPage =>
    /\ page[k].epoch = epoch
    /\ slot[page[k].slot].state = "response" /\ slot[page[k].slot].paged
    /\ slot[page[k].slot].gen = page[k].gen /\ slot[page[k].slot].epoch = page[k].epoch

LEMMA PageParts ==
  PageInv <=> (server.state \in {"up", "closing"} =>
                 /\ \A h \in handlers : h.epoch = epoch
                 /\ \A k \in Pages : PageOf(k))
  BY DEF PageInv, PagesInUse, PageOf, FreePages

LEMMA PageTypes ==
  ASSUME Shape, NEW k \in Pages, page[k] # NoPage
  PROVE  page[k] \in [slot : Slots, gen : Nat, epoch : 1 .. MaxEpoch] /\ page[k].slot \in Slots
  BY DEF Shape, PageType, Uses

LEMMA PageClient ==
  ASSUME Inv, NEW c \in Clients, ClientStep(c), Backstage PROVE PageInv'
  <1>0. Shape /\ server' = server /\ epoch' = epoch /\ page' = page /\ handlers' = handlers
    BY DEF Inv, BaseInv, Backstage
  <1> SUFFICES ASSUME server.state \in {"up", "closing"} PROVE \A k \in Pages : PageOf(k)'
    BY <1>0, PageParts DEF Inv, PageInv, PagesInUse, PageOf, FreePages
  <1> SUFFICES ASSUME NEW k \in Pages, page[k] # NoPage PROVE PageOf(k)'
    BY <1>0 DEF PageOf
  <1> DEFINE s == page[k].slot
  <1>1. PageOf(k) /\ s \in Slots  BY <1>0, PageParts, PageTypes DEF Inv
  <1>2. CASE Stands(s)  BY <1>0, <1>1, <1>2 DEF Stands, PageOf
  <1>3. CASE slot' = slot  BY <1>0, <1>1, <1>3 DEF PageOf
  <1>4. CASE Writes(c) \/ Publishes(c)
    <2>1. me[c].slot # s
      <3>1. GuardOf(c)  BY DEF Inv, GuardInv, GuardOf
      <3>2. slot[me[c].slot].state \in {"free", "writing"}
        BY <1>4, <3>1 DEF Writes, Publishes, GuardOf, Holding
      <3> QED  BY <1>1, <3>2 DEF PageOf
    <2> QED  BY <1>1, <1>2, <1>4, <2>1, Apart DEF Writes, Publishes
  <1>5. CASE Reopens(c)
    <2>1. me[c].slot # s  BY <1>1, <1>5 DEF Reopens, PageOf
    <2> QED  BY <1>1, <1>2, <1>5, <2>1, Apart DEF Reopens
  <1>6. CASE Leaves(c)  BY <1>1, <1>2, <1>6 DEF Leaves
  <1> QED  BY <1>3, <1>4, <1>5, <1>6 DEF ClientStep, Enters, Reenters, Reads

LEMMA PageServer ==
  ASSUME Inv, ServerStep PROVE PageInv'
  <1>0. BaseInv /\ Shape /\ server' = server /\ epoch' = epoch
    BY DEF Inv, BaseInv, ServerStep, Front
  <1> SUFFICES ASSUME server.state \in {"up", "closing"}
               PROVE (\A h \in handlers' : h.epoch = epoch) /\ \A k \in Pages : PageOf(k)'
    BY <1>0 DEF PageInv, PagesInUse, PageOf, FreePages
  <1>1. (\A h \in handlers : h.epoch = epoch) /\ \A k \in Pages : PageOf(k)
    BY PageParts DEF Inv
  <1>2. \A h \in handlers' : h.epoch = epoch
    <2>1. CASE handlers' \subseteq handlers  BY <1>1, <2>1
    <2>2. ASSUME NEW s \in Slots, Claims(s) PROVE \A h \in handlers' : h.epoch = epoch
      BY <1>1, <2>2 DEF Claims
    <2> QED  BY <2>1, <2>2, HandlersFrom DEF Acts
  <1>3. ASSUME NEW k \in Pages, page[k] # NoPage, page'[k] = page[k], NEW t, Elsewhere(t),
               page[k].slot # t
        PROVE  PageOf(k)'
    <2>1. page[k].slot \in Slots  BY <1>0, <1>3, PageTypes
    <2> QED  BY <1>0, <1>1, <1>3, <2>1 DEF Elsewhere, PageOf
  <1>4. ASSUME NEW k \in Pages, page'[k] = NoPage PROVE PageOf(k)'  BY <1>4 DEF PageOf
  <1>5. ASSUME NEW s \in Slots, Frees(s), NEW k \in Pages PROVE PageOf(k)'
    <2>1. CASE page[k] = NoPage \/ page[k] = [slot |-> s, gen |-> slot[s].gen, epoch |-> epoch]
      <3>1. page'[k] = NoPage  BY <1>5, <2>1 DEF Frees
      <3> QED  BY <1>4, <3>1
    <2>2. CASE page[k] # NoPage /\ page[k] # [slot |-> s, gen |-> slot[s].gen, epoch |-> epoch]
      <3>1. page'[k] = page[k]  BY <1>5, <2>2 DEF Frees
      <3>2. page[k].slot # s
        <4>1. page[k] \in [slot : Slots, gen : Nat, epoch : 1 .. MaxEpoch]
          BY <1>0, <2>2, PageTypes
        <4>2. page[k].slot = s =>
                page[k].gen = slot[s].gen /\ page[k].epoch = epoch
          BY <1>1, <2>2 DEF PageOf
        <4> QED  BY <2>2, <4>1, <4>2
      <3> QED  BY <1>3, <1>5, <2>2, <3>1, <3>2 DEF Frees
    <2> QED  BY <2>1, <2>2
  <1>6. ASSUME NEW s \in Slots, Claims(s) \/ Refuses(s), NEW k \in Pages PROVE PageOf(k)'
    <2>1. page'[k] = page[k] /\ Elsewhere(s) /\ slot[s].state # "response"
      BY <1>6 DEF Claims, Refuses
    <2>2. page[k] # NoPage => page[k].slot # s  BY <1>1, <2>1 DEF PageOf
    <2> QED  BY <1>3, <1>4, <2>1, <2>2
  <1>7. ASSUME NEW h \in handlers, Replies(h), NEW k \in Pages PROVE PageOf(k)'
    <2> DEFINE s == h.slot
    <2>1. PICK used \in SUBSET FreePages :
            /\ Turned(s, "response", [token |-> h.token, phase |-> h.phase], used # {})
            /\ \A j \in Pages :
                 page'[j] = IF j \in used THEN [slot |-> s, gen |-> h.gen, epoch |-> epoch]
                                          ELSE page[j]
      BY <1>7 DEF Replies
    <2>2. Elsewhere(s) /\ slot[s].state # "response" /\ slot[s].gen = h.gen /\ slot[s].epoch = epoch
      BY <1>1, <1>7 DEF Replies, IdentityMatches
    <2>3. CASE k \in used
      <3>1. page'[k].slot = s /\ page'[k].gen = h.gen /\ page'[k].epoch = epoch
        BY <2>1, <2>3
      <3>2. /\ slot'[s].state = "response" /\ slot'[s].paged /\ slot'[s].gen = slot[s].gen
            /\ slot'[s].epoch = slot[s].epoch
        BY <2>1, <2>3 DEF Turned
      <3> QED  BY <1>0, <2>2, <3>1, <3>2 DEF PageOf
    <2>4. CASE k \notin used
      <3>1. page'[k] = page[k]  BY <2>1, <2>4
      <3>2. page[k] # NoPage => page[k].slot # s  BY <1>1, <2>2 DEF PageOf
      <3> QED  BY <1>3, <1>4, <2>2, <3>1, <3>2
    <2> QED  BY <2>3, <2>4
  <1>8. ASSUME Idles, NEW k \in Pages PROVE PageOf(k)'
    <2>1. page'[k] = page[k]  BY <1>8 DEF Idles
    <2>2. CASE page[k] = NoPage  BY <1>4, <2>1, <2>2
    <2>3. CASE page[k] # NoPage
      <3>1. page[k].slot \in Slots  BY <1>0, <2>3, PageTypes
      <3> QED  BY <1>0, <1>1, <1>8, <2>1, <3>1 DEF Idles, Stands, PageOf
    <2> QED  BY <2>2, <2>3
  <1>9. \A k \in Pages : PageOf(k)'
    BY <1>5, <1>6, <1>7, <1>8 DEF ServerStep
  <1> QED  BY <1>2, <1>9

LEMMA PageOwner ==
  ASSUME Inv, OwnerStep PROVE PageInv'
  <1>0. ServingInv /\ PageInv  BY DEF Inv, BaseInv
  <1>1. CASE Lives
    BY <1>0, <1>1 DEF Lives, PageInv, PagesInUse, FreePages
  <1>2. ASSUME NEW s \in Slots, Inits(s) PROVE PageInv'  BY <1>2 DEF Inits, PageInv
  <1>3. CASE Opens
    <2>1. handlers' = {}  BY <1>0, <1>3 DEF Opens, ServingInv
    <2>2. \A k \in Pages : PageOf(k)'  BY <1>3 DEF Opens, PageOf
    <2> QED  BY <2>1, <2>2 DEF PageInv, PagesInUse, PageOf, FreePages
  <1> QED  BY <1>1, <1>2, <1>3 DEF OwnerStep

LEMMA InvStep == Inv /\ [Next]_vars => Inv'
  <1> SUFFICES ASSUME Inv, [Next]_vars PROVE Inv' OBVIOUS
  <1>0. BaseInv /\ Shape  BY DEF Inv, BaseInv
  <1>1. BaseInv'  BY <1>0, BaseStep
  <1>2. CASE Next
    <2>1. Acts /\ Shape'  BY <1>0, <1>2, NextActs
    <2>2. PageInv'  BY <2>1, PageClient, PageServer, PageOwner DEF Acts
    <2> QED  BY <1>1, <2>1, <2>2, GuardStep, HandlerStep, AnswerInvStep DEF Inv
  <1>3. CASE UNCHANGED vars
    <2>1. GuardInv' /\ HandlerInv'
      BY <1>3 DEF Inv, GuardInv, HandlerInv, Serves, vars, header, clients
    <2>2. AnswerInv' /\ PageInv'
      BY <1>3 DEF Inv, AnswerInv, OwnAnswer, PageInv, PagesInUse, FreePages, vars, header, clients
    <2> QED  BY <1>1, <2>1, <2>2 DEF Inv
  <1> QED  BY <1>2, <1>3

\* What is written once stands.
ResponsesStand ==
  \A s \in Slots :
    slot[s].state = "response" /\ slot'[s].state = "response" =>
      slot'[s].answer = slot[s].answer /\ slot'[s].paged = slot[s].paged

LEMMA ResponseStep ==
  ASSUME Inv, Acts PROVE ResponsesStand
  <1> SUFFICES ASSUME NEW s \in Slots, slot[s].state = "response", slot'[s].state = "response"
               PROVE  slot'[s].answer = slot[s].answer /\ slot'[s].paged = slot[s].paged
    BY DEF ResponsesStand
  <1>0. Shape  BY DEF Inv, BaseInv
  <1>1. CASE Stands(s)  BY <1>1 DEF Stands
  <1>2. CASE Emptied(s)  BY <1>2 DEF Emptied
  <1>3. ASSUME NEW c \in Clients, me[c].slot = s, Writes(c) \/ Publishes(c) \/ Reopens(c)
        PROVE  FALSE
    <2>1. GuardOf(c)  BY DEF Inv, GuardInv, GuardOf
    <2> QED  BY <1>3, <2>1 DEF Writes, Publishes, Reopens, Turned, GuardOf, Holding
  <1>4. CASE Claims(s) \/ Refuses(s)  BY <1>4 DEF Claims, Refuses
  <1>5. ASSUME NEW h \in handlers, h.slot = s, Replies(h) PROVE FALSE  BY <1>5 DEF Replies
  <1> QED  BY <1>0, <1>1, <1>2, <1>3, <1>4, <1>5, Fates DEF Fate

-----------------------------------------------------------------------------
\* The inductive invariant holds in every reachable state.
THEOREM InvHolds == Spec => []Inv
  BY InitInv, InvStep, PTL DEF Spec

\* A client copies the answer for its own call and phase, whatever was reset,
\* used again, answered late or written under a former owner meanwhile.
THEOREM OwnAnswers == Spec => []OwnAnswer
  <1>1. Inv => OwnAnswer  BY DEF Inv, AnswerInv
  <1> QED  BY <1>1, InvHolds, PTL

\* While the owner runs, every page that is taken serves the response that is
\* in its slot: no way to end a call loses a page.
THEOREM PagesServe == Spec => []PagesInUse
  <1>1. Inv => PagesInUse
    BY DEF Inv, PageInv, PagesInUse
  <1> QED  BY <1>1, InvHolds, PTL

\* A response that stays in its slot keeps its answer and its pages: neither the
\* sweep nor a late handler answers a call a second time.
THEOREM AnswersStand == Spec => ResponseStands
  <1>1. Inv /\ [Next]_vars => [ResponsesStand]_vars
    <2> SUFFICES ASSUME Inv, Next PROVE ResponsesStand  OBVIOUS
    <2>1. Acts  BY NextActs DEF Inv, BaseInv
    <2> QED  BY <2>1, ResponseStep
  <1>2. Spec => [][ResponsesStand]_vars  BY <1>1, InvHolds, PTL DEF Spec
  <1> QED  BY <1>2 DEF ResponseStands, ResponsesStand
=============================================================================
