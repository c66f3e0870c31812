--------------------------- MODULE BuddyAllocator ---------------------------
(***************************************************************************)
(* The allocator of the image arena: BuddyArenaAllocator of                *)
(* local_buffers/buddy_allocator.py as operators on one value              *)
(*   [free    - the free blocks of the general part,                       *)
(*    reserve - is the huge reserve free,                                  *)
(*    used    - the extents handed out].                                   *)
(* A block is [offset, order]; sizes and offsets are counted in blocks of  *)
(* the smallest size, so that an extent of order k is 2^k units.           *)
(***************************************************************************)
EXTENDS Integers, FiniteSetsExt

CONSTANTS MaxOrder,     \* the order of the largest allocation
          Roots,        \* how many blocks of that order the general part has
          HugeReserve   \* is one more block of that order kept in reserve

ASSUME GeometryAssumption ==
  MaxOrder \in Nat /\ Roots \in Nat \ {0} /\ HugeReserve \in BOOLEAN

Orders == 0 .. MaxOrder

\* 1 << order
Length[k \in Orders] == IF k = 0 THEN 1 ELSE 2 * Length[k - 1]

GeneralSize == Roots * Length[MaxOrder]
ArenaSize == GeneralSize + (IF HugeReserve THEN Length[MaxOrder] ELSE 0)

Block(offset, order) == [offset |-> offset, order |-> order]
Extents == {e \in [offset : 0 .. ArenaSize - 1, order : Orders] :
              /\ e.offset % Length[e.order] = 0
              /\ e.offset + Length[e.order] <= ArenaSize}
Units(e) == e.offset .. e.offset + Length[e.order] - 1
Apart(e, f) == Units(e) \cap Units(f) = {}
InReserve(e) == e.offset >= GeneralSize

NewAllocator ==
  [free |-> {Block(r * Length[MaxOrder], MaxOrder) : r \in 0 .. Roots - 1},
   reserve |-> HugeReserve,
   used |-> {}]

\* The block of order j that holds an offset, and the other half of the block
\* of order j + 1 it lies in.
Floor(offset, j) == offset - (offset % Length[j])

Buddy(offset, j) ==
  IF (offset \div Length[j]) % 2 = 0
  THEN Floor(offset, j) + Length[j] ELSE Floor(offset, j) - Length[j]

\* The halves that stay free when block b is split down to extent e.
Pieces(b, e) == {Block(Buddy(e.offset, j), j) : j \in e.order .. b.order - 1}
Carve(a, b, e) == [a EXCEPT !.free = (@ \ {b}) \cup Pieces(b, e), !.used = @ \cup {e}]

-----------------------------------------------------------------------------
\* allocate: a request of the largest order takes the reserve or fails, any
\* other one the lowest block of the lowest order that is large enough.
FromReserve(k) == HugeReserve /\ k = MaxOrder

Fits(a, k) == {b \in a.free : b.order >= k}

Lowest(blocks) ==
  CHOOSE b \in blocks : \A c \in blocks :
     b.order < c.order \/ (b.order = c.order /\ b.offset <= c.offset)

CanAllocate(a, k) == IF FromReserve(k) THEN a.reserve ELSE Fits(a, k) # {}

Place(a, k) == Block(IF FromReserve(k) THEN GeneralSize ELSE Lowest(Fits(a, k)).offset, k)

Taken(a, k) ==
  IF FromReserve(k)
  THEN [a EXCEPT !.reserve = FALSE, !.used = @ \cup {Place(a, k)}]
  ELSE Carve(a, Lowest(Fits(a, k)), Place(a, k))

-----------------------------------------------------------------------------
\* free: merge with the buddy as long as the buddy is a free block.
MergesTo(a, e, m) == \A j \in e.order .. m - 1 : Block(Buddy(e.offset, j), j) \in a.free

Unmerged(a, e) == e.order                               \* a mutant: the block as it is

MergedOrder(a, e) == Max({m \in e.order .. MaxOrder : MergesTo(a, e, m)})

Freed(a, e) ==
  LET top    == MergedOrder(a, e)
      merged == {Block(Buddy(e.offset, j), j) : j \in e.order .. top - 1}
  IN  IF InReserve(e)
      THEN [a EXCEPT !.reserve = TRUE, !.used = @ \ {e}]
      ELSE [a EXCEPT !.free = (@ \ merged) \cup {Block(Floor(e.offset, top), top)},
                     !.used = @ \ {e}]

-----------------------------------------------------------------------------
\* restore_extent: cut the extent out of the smallest free block around it.
Around(a, e) == {b \in a.free : b.order >= e.order /\ Floor(e.offset, b.order) = b.offset}

CanRestore(a, e) == IF InReserve(e) THEN a.reserve ELSE Around(a, e) # {}

Restored(a, e) ==
  IF InReserve(e)
  THEN [a EXCEPT !.reserve = FALSE, !.used = @ \cup {e}]
  ELSE Carve(a, Lowest(Around(a, e)), e)

\* The tree a start builds from the extents it finds in use.
Rebuilt(extents) == FoldSet(LAMBDA e, a : Restored(a, e), NewAllocator, extents)

-----------------------------------------------------------------------------
\* The reference: is there room for an extent of order k between those in use?
HasRoom(a, k) ==
  \E e \in Extents : /\ e.order = k
                     /\ InReserve(e) <=> FromReserve(k)
                     /\ \A u \in a.used : Apart(e, u)
=============================================================================
