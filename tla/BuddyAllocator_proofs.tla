------------------------ MODULE BuddyAllocator_proofs ------------------------
(***************************************************************************)
(* What the allocator of the image arena computes, for every geometry.     *)
(* First the arithmetic of aligned blocks of 2^k units, down to the six    *)
(* facts about blocks that everything else uses (BlockAbove to             *)
(* TwoHalves); then the tree of free blocks: it is always the set of the   *)
(* widest holes between the extents in use, so that it depends on those    *)
(* extents alone and never on the order in which they came and went.       *)
(***************************************************************************)
EXTENDS BuddyAllocator, FiniteSetTheorems, WellFoundedInduction, TLAPS

-----------------------------------------------------------------------------
\* Induction

\* A set of natural numbers that is not empty has a least element: the form in
\* which induction is used below.
Less == {ss \in Nat \X Nat : ss[1] < ss[2]}

\* A set of natural numbers that is not empty has a least element.
LEMMA LeastNumber ==
  ASSUME NEW S \in SUBSET Nat, S # {}
  PROVE  \E n \in S : \A m \in S : n <= m
<1>1. IsWellFoundedOn(Less, Nat)
  BY NatLessThanWellFounded DEF OpToRel, Less
<1>2. PICK n \in S : \A m \in S : ~(<<m, n>> \in Less)
  BY <1>1, WFMin
<1>3. \A m \in S : n <= m
  <2>1. TAKE m \in S
  <2>2. <<m, n>> \notin Less /\ m \in Nat /\ n \in Nat
    BY <1>2
  <2>3. ~(m < n)
    BY <2>2 DEF Less
  <2>4. QED
    BY <2>2, <2>3
<1>4. QED
  BY <1>3

-----------------------------------------------------------------------------
\* Lengths

DoublesUpTo(n, g) == g = [k \in 0 .. n |-> IF k = 0 THEN 1 ELSE 2 * g[k - 1]]

\* The recursive definition of Length has a solution.
LEMMA LengthExists == \A n \in Nat : \E g : DoublesUpTo(n, g)
<1> DEFINE Bad == {n \in Nat : ~ \E g : DoublesUpTo(n, g)}
<1>1. SUFFICES ASSUME Bad # {} PROVE FALSE
  OBVIOUS
<1>2. PICK n \in Bad : \A m \in Bad : n <= m
  BY <1>1, LeastNumber
<1>3. CASE n = 0
  <2>1. DoublesUpTo(0, [k \in 0 .. 0 |-> 1])
    BY DEF DoublesUpTo
  <2>2. QED
    BY <1>2, <1>3, <2>1
<1>4. CASE n # 0
  <2>1. n - 1 \in Nat /\ n - 1 \notin Bad
    BY <1>2, <1>4
  <2>2. PICK g : DoublesUpTo(n - 1, g)
    BY <2>1
  <2> DEFINE h == [k \in 0 .. n |-> IF k = n THEN 2 * g[n - 1] ELSE g[k]]
  <2>3. \A k \in 0 .. n : h[k] = IF k = 0 THEN 1 ELSE 2 * h[k - 1]
    <3>1. SUFFICES ASSUME NEW k \in 0 .. n
                   PROVE  h[k] = IF k = 0 THEN 1 ELSE 2 * h[k - 1]
      OBVIOUS
    <3>2. CASE k = n
      BY <1>4, <3>2
    <3>3. CASE k # n /\ k # 0
      <4>1. k \in 0 .. n - 1 /\ k - 1 \in 0 .. n - 1 /\ k - 1 # n
        BY <3>3
      <4>2. g[k] = 2 * g[k - 1]
        BY <2>2, <3>3, <4>1 DEF DoublesUpTo
      <4>3. QED
        BY <3>3, <4>1, <4>2
    <3>4. CASE k = 0 /\ k # n
      <4>1. g[0] = 1
        BY <2>1, <2>2 DEF DoublesUpTo
      <4>2. QED
        BY <3>4, <4>1
    <3>5. QED
      BY <3>2, <3>3, <3>4
  <2>4. DoublesUpTo(n, h)
    <3> DEFINE r == [k \in 0 .. n |-> IF k = 0 THEN 1 ELSE 2 * h[k - 1]]
    <3>1. h = r
      <4>1. h = [k \in 0 .. n |-> h[k]]
        OBVIOUS
      <4>2. QED
        BY <2>3, <4>1
    <3> HIDE DEF h
    <3>2. QED
      BY <3>1 DEF DoublesUpTo
  <2>5. QED
    BY <1>2, <2>4
<1>5. QED
  BY <1>3, <1>4

\* The lengths double from order to order.
LEMMA LengthDef ==
  /\ DOMAIN Length = Orders
  /\ Length[0] = 1
  /\ \A k \in Orders : k # 0 => Length[k] = 2 * Length[k - 1]
<1>1. \E g : DoublesUpTo(MaxOrder, g)
  BY LengthExists, GeometryAssumption
<1>2. DoublesUpTo(MaxOrder, Length)
  BY <1>1 DEF DoublesUpTo, Length, Orders
<1>3. Length = [k \in Orders |-> IF k = 0 THEN 1 ELSE 2 * Length[k - 1]]
  BY <1>2 DEF DoublesUpTo, Orders
<1>4. 0 \in Orders
  BY GeometryAssumption DEF Orders
<1>5. QED
  BY <1>3, <1>4

\* No length is zero.
LEMMA LengthPositive == \A k \in Orders : Length[k] \in Nat \ {0}
<1> DEFINE Bad == {k \in Orders : Length[k] \notin Nat \ {0}}
<1>1. SUFFICES ASSUME Bad # {} PROVE FALSE
  OBVIOUS
<1>2. Bad \in SUBSET Nat
  BY GeometryAssumption DEF Orders
<1>3. PICK k \in Bad : \A m \in Bad : k <= m
  <2> HIDE DEF Bad
  <2> QED BY <1>1, <1>2, LeastNumber
<1>4. k # 0
  BY <1>3, LengthDef
<1>5. k - 1 \in Orders /\ k - 1 \notin Bad
  BY <1>3, <1>4, GeometryAssumption DEF Orders
<1>6. QED
  BY <1>3, <1>4, <1>5, LengthDef

\* A length divides every larger one.
LEMMA LengthDivides ==
  \A j, k \in Orders : j <= k => \E q \in Nat \ {0} : Length[k] = q * Length[j]
<1>1. TAKE j \in Orders
<1> DEFINE Bad == {k \in Orders : j <= k /\ ~ \E q \in Nat \ {0} : Length[k] = q * Length[j]}
<1>2. SUFFICES ASSUME Bad # {} PROVE FALSE
  OBVIOUS
<1>3. Bad \in SUBSET Nat
  BY GeometryAssumption DEF Orders
<1>4. PICK k \in Bad : \A m \in Bad : k <= m
  <2> HIDE DEF Bad
  <2> QED BY <1>2, <1>3, LeastNumber
<1>5. k # j
  <2>1. Length[j] = 1 * Length[j]
    BY LengthPositive
  <2>2. QED
    BY <1>4, <2>1
<1>6. k - 1 \in Orders /\ k - 1 \notin Bad /\ j <= k - 1
  BY <1>4, <1>5, GeometryAssumption DEF Orders
<1>7. PICK q \in Nat \ {0} : Length[k - 1] = q * Length[j]
  BY <1>6
<1>8. Length[k] = (2 * q) * Length[j] /\ 2 * q \in Nat \ {0}
  <2>0. k \in Orders /\ k # 0
    BY <1>4, <1>6, GeometryAssumption DEF Orders
  <2>1. Length[k] = 2 * (q * Length[j])
    BY <1>7, <2>0, LengthDef
  <2>2. \A l \in Nat : 2 * (q * l) = (2 * q) * l
    OBVIOUS
  <2>3. Length[j] \in Nat
    BY LengthPositive
  <2>4. QED
    BY <2>1, <2>2, <2>3
<1>9. QED
  BY <1>4, <1>8

-----------------------------------------------------------------------------
\* Multiples

\* Multiples of s are ordered as their factors are.
LEMMA Multiples ==
  ASSUME NEW s \in Nat \ {0}
  PROVE  /\ \A x, y \in Int : x <= y => x * s <= y * s
         /\ \A x, y \in Int : x * s < y * s => x < y
         /\ \A x, y \in Int : x * s <= y * s => x <= y
         /\ \A x \in Int : (x + 1) * s = x * s + s /\ x * s \in Int
         /\ \A x, y \in Int : (x * y) * s = x * (y * s)
<1>1. \A x, y \in Int : x <= y => x * s <= y * s
  OBVIOUS
<1>2. \A x, y \in Int : x * s < y * s => x < y
  OBVIOUS
<1>3. \A x, y \in Int : x * s <= y * s => x <= y
  OBVIOUS
<1>4. \A x \in Int : (x + 1) * s = x * s + s /\ x * s \in Int
  OBVIOUS
<1>5. \A x, y \in Int : (x * y) * s = x * (y * s)
  OBVIOUS
<1>6. QED
  BY <1>1, <1>2, <1>3, <1>4, <1>5

\* A number by its quotient and its remainder.
LEMMA DivMod ==
  ASSUME NEW x \in Nat, NEW s \in Nat \ {0}
  PROVE  /\ x \div s \in Nat /\ x % s \in 0 .. s - 1
         /\ x = (x \div s) * s + (x % s)
  OBVIOUS

\* The quotient and the remainder of a number written in that way.
LEMMA DivModOf ==
  ASSUME NEW q \in Int, NEW s \in Nat \ {0}, NEW r \in 0 .. s - 1
  PROVE  (q * s + r) \div s = q /\ (q * s + r) % s = r
  OBVIOUS

\* Floor is the multiple of the length at or below an offset.
LEMMA FloorIs ==
  ASSUME NEW x \in Nat, NEW j \in Orders
  PROVE  /\ x \div Length[j] \in Nat
         /\ Floor(x, j) = (x \div Length[j]) * Length[j]
         /\ Floor(x, j) \in Nat /\ Floor(x, j) <= x /\ x < Floor(x, j) + Length[j]
<1> DEFINE s == Length[j]
<1>1. s \in Nat \ {0}
  BY LengthPositive
<1> HIDE DEF s
<1>2. x \div s \in Nat /\ x % s \in 0 .. s - 1 /\ x = (x \div s) * s + (x % s)
  BY <1>1, DivMod
<1>3. (x \div s) * s \in Nat
  BY <1>1, <1>2
<1>4. x - (x % s) = (x \div s) * s
  BY <1>1, <1>2, <1>3
<1>5. Floor(x, j) = (x \div s) * s
  BY <1>4 DEF Floor, s
<1>6. Floor(x, j) \in Nat /\ Floor(x, j) <= x /\ x < Floor(x, j) + s
  BY <1>1, <1>2, <1>3, <1>5
<1>7. QED
  BY <1>2, <1>5, <1>6 DEF s

\* The aligned start of x is the only multiple of the length just below x.
LEMMA FloorOnly ==
  ASSUME NEW x \in Nat, NEW j \in Orders, NEW q \in Int,
         q * Length[j] <= x, x < q * Length[j] + Length[j]
  PROVE  Floor(x, j) = q * Length[j] /\ x \div Length[j] = q
<1> DEFINE s == Length[j]
           p == x \div s
<1>1. s \in Nat \ {0}
  BY LengthPositive
<1>2. p \in Nat /\ Floor(x, j) = p * s /\ p * s <= x /\ x < p * s + s
  BY FloorIs
<1> HIDE DEF s, p
<1>3. q * s <= x /\ x < q * s + s
  BY DEF s
<1>4. p * s < (q + 1) * s /\ q * s < (p + 1) * s
  <2>1. (q + 1) * s = q * s + s /\ (p + 1) * s = p * s + s /\ q * s \in Int /\ p * s \in Int
    BY <1>1, <1>2, Multiples
  <2>2. QED
    BY <1>1, <1>2, <1>3, <2>1
<1>5. p < q + 1 /\ q < p + 1
  BY <1>1, <1>2, <1>4, Multiples
<1>6. p = q
  BY <1>2, <1>5
<1>7. QED
  BY <1>2, <1>6 DEF s, p

\* Floors of a multiple, and floors of floors.
LEMMA FloorOfMultiple ==
  ASSUME NEW q \in Nat, NEW j \in Orders
  PROVE  Floor(q * Length[j], j) = q * Length[j]
<1>1. q * Length[j] \in Nat /\ Length[j] \in Nat \ {0}
  BY LengthPositive
<1>2. QED
  BY <1>1, FloorOnly

\* Aligning to a longer block after a shorter one aligns to the longer.
LEMMA FloorOfFloor ==
  ASSUME NEW x \in Nat, NEW i \in Orders, NEW j \in Orders, i <= j
  PROVE  Floor(Floor(x, i), j) = Floor(x, j)
<1> DEFINE s == Length[i]
           t == Length[j]
           a == x \div s
           b == x \div t
<1>1. s \in Nat \ {0} /\ t \in Nat \ {0}
  BY LengthPositive
<1>2. a \in Nat /\ Floor(x, i) = a * s /\ a * s \in Nat /\ a * s <= x /\ x < a * s + s
  BY FloorIs
<1>3. b \in Nat /\ Floor(x, j) = b * t /\ b * t \in Nat /\ b * t <= x /\ x < b * t + t
  BY FloorIs
<1>4. PICK q \in Nat \ {0} : t = q * s
  BY LengthDivides
<1> HIDE DEF s, t, a, b
<1>5. b * t = (b * q) * s /\ b * q \in Nat /\ b * t + t = (b * q + q) * s
  <2>1. b * q \in Nat /\ b * q + q \in Nat /\ b * q + q = (b + 1) * q
    BY <1>3, <1>4
  <2>2. (b * q) * s = b * (q * s) /\ ((b + 1) * q) * s = (b + 1) * (q * s)
    BY <1>1, <1>3, <1>4, Multiples
  <2>3. (b + 1) * t = b * t + t
    BY <1>1, <1>3, Multiples
  <2>4. QED
    BY <1>4, <2>1, <2>2, <2>3
<1>6. b * q <= a
  <2>1. (b * q) * s < (a + 1) * s
    <3>1. (a + 1) * s = a * s + s
      BY <1>1, <1>2, Multiples
    <3>2. QED
      BY <1>1, <1>2, <1>3, <1>5, <3>1
  <2>2. b * q < a + 1
    BY <1>1, <1>2, <1>5, <2>1, Multiples
  <2>3. QED
    BY <1>2, <1>5, <2>2
<1>7. b * t <= a * s
  BY <1>1, <1>2, <1>5, <1>6, Multiples
<1>8. a * s < b * t + t
  BY <1>1, <1>2, <1>3
<1>9. QED
  BY <1>1, <1>2, <1>3, <1>7, <1>8, FloorOnly DEF t

-----------------------------------------------------------------------------
\* Blocks

\* The blocks of the general part, the block of order j around a smaller one,
\* and the half of the block of order j + 1 around it that does not hold it.
General == {e \in Extents : ~InReserve(e)}
Up(e, j) == Block(Floor(e.offset, j), j)
Sibling(e, j) == Block(Buddy(e.offset, j), j)
Inside(e, f) == e.order <= f.order /\ Up(e, f.order) = f

\* The general part lies within the arena.
LEMMA GeneralSizeIs == GeneralSize \in Nat /\ ArenaSize \in Nat /\ GeneralSize <= ArenaSize
<1>1. MaxOrder \in Orders /\ Roots \in Nat
  BY GeometryAssumption DEF Orders
<1>2. Length[MaxOrder] \in Nat
  BY <1>1, LengthPositive
<1>3. Roots * Length[MaxOrder] \in Nat
  BY <1>1, <1>2
<1>4. QED
  BY <1>2, <1>3 DEF GeneralSize, ArenaSize

\* An offset and an order are a block if the offset is a multiple of the length.
LEMMA BlockAt ==
  ASSUME NEW j \in Orders, NEW x \in Nat, Floor(x, j) = x, x < GeneralSize
  PROVE  /\ Block(x, j) \in General
         /\ x + Length[j] <= GeneralSize
<1> DEFINE s == Length[j]
           q == x \div s
<1>1. s \in Nat \ {0} /\ MaxOrder \in Orders /\ j <= MaxOrder
  BY LengthPositive, GeometryAssumption DEF Orders
<1>2. q \in Nat /\ x = q * s
  BY FloorIs
<1>3. PICK r \in Nat \ {0} : Length[MaxOrder] = r * s
  BY <1>1, LengthDivides
<1>4. Roots \in Nat
  BY GeometryAssumption
<1>5. x % s = 0
  <2>1. x % s \in 0 .. s - 1 /\ x - (x % s) = x
    BY <1>1, DivMod DEF Floor
  <2>2. QED
    BY <1>1, <2>1
<1> HIDE DEF s, q
<1>6. GeneralSize = (Roots * r) * s /\ Roots * r \in Nat
  <2>1. GeneralSize = Roots * (r * s)
    BY <1>3 DEF GeneralSize
  <2>2. (Roots * r) * s = Roots * (r * s)
    BY <1>1, <1>3, <1>4, Multiples
  <2>3. QED
    BY <1>3, <1>4, <2>1, <2>2
<1>7. q < Roots * r
  BY <1>1, <1>2, <1>6, Multiples
<1>8. (q + 1) * s <= (Roots * r) * s
  BY <1>1, <1>2, <1>6, <1>7, Multiples
<1>9. x + s <= GeneralSize
  BY <1>1, <1>2, <1>6, <1>8, Multiples
<1>10. Block(x, j) \in Extents
  <2>1. x \in 0 .. ArenaSize - 1 /\ x + s <= ArenaSize
    BY <1>9, GeneralSizeIs, <1>1
  <2>2. QED
    BY <1>5, <2>1 DEF Extents, Block, s
<1>11. QED
  BY <1>9, <1>10, GeneralSizeIs DEF General, InReserve, Block, s

\* What it is to be an extent of the arena.
LEMMA ExtentIs ==
  ASSUME NEW e \in Extents
  PROVE  /\ e.offset \in Nat /\ e.order \in Orders /\ e = Block(e.offset, e.order)
         /\ Floor(e.offset, e.order) = e.offset
         /\ e.offset + Length[e.order] <= ArenaSize
<1>1. e.offset \in 0 .. ArenaSize - 1 /\ e.order \in Orders /\ e = Block(e.offset, e.order)
  BY DEF Extents, Block
<1>2. e.offset % Length[e.order] = 0 /\ e.offset + Length[e.order] <= ArenaSize
  BY DEF Extents
<1>3. e.offset \in Nat
  BY <1>1, GeneralSizeIs
<1>4. QED
  BY <1>1, <1>2, <1>3 DEF Floor

\* What it is to be a block of the general part.
LEMMA GeneralIs ==
  ASSUME NEW e \in General
  PROVE  /\ e \in Extents
         /\ e.offset \in Nat /\ e.order \in Orders /\ e = Block(e.offset, e.order)
         /\ Floor(e.offset, e.order) = e.offset
         /\ e.offset < GeneralSize /\ e.offset + Length[e.order] <= GeneralSize
<1>1. e \in Extents /\ ~(e.offset >= GeneralSize)
  BY DEF General, InReserve
<1>2. e.offset < GeneralSize
  BY <1>1, ExtentIs, GeneralSizeIs
<1>3. QED
  BY <1>1, <1>2, ExtentIs, BlockAt

\* The block around a block is a block of the general part too.
LEMMA BlockAbove ==
  ASSUME NEW e \in General, NEW j \in Orders, e.order <= j
  PROVE  Up(e, j) \in General /\ Up(e, j).order = j
<1>1. Floor(e.offset, j) \in Nat /\ Floor(e.offset, j) < GeneralSize
  BY FloorIs, GeneralIs, GeneralSizeIs
<1>2. Floor(Floor(e.offset, j), j) = Floor(e.offset, j)
  BY GeneralIs, FloorOfFloor, GeometryAssumption DEF Orders
<1>3. QED
  BY <1>1, <1>2, BlockAt DEF Up, Block

\* A block is around itself.
LEMMA BlockItself ==
  ASSUME NEW e \in General
  PROVE  Up(e, e.order) = e
  BY GeneralIs DEF Up

\* What is around the block around it is around it.
LEMMA BlockAboveAbove ==
  ASSUME NEW e \in General, NEW i \in Orders, NEW j \in Orders, i <= j
  PROVE  Up(Up(e, i), j) = Up(e, j)
  BY GeneralIs, FloorOfFloor DEF Up, Block

\* The units of a block are those whose floor is its offset.
LEMMA UnitsAre ==
  ASSUME NEW e \in Extents, NEW x \in Nat
  PROVE  x \in Units(e) <=> Floor(x, e.order) = e.offset
<1> DEFINE s == Length[e.order]
           q == e.offset \div s
<1>1. s \in Nat \ {0} /\ e.order \in Orders /\ e.offset \in Nat
  BY ExtentIs, LengthPositive
<1>2. q \in Nat /\ q * s = e.offset
  BY ExtentIs, FloorIs
<1>3. x \in Units(e) <=> e.offset <= x /\ x < e.offset + s
  BY <1>1 DEF Units
<1> HIDE DEF q
<1>4. ASSUME x \in Units(e)
      PROVE  Floor(x, e.order) = e.offset
  BY <1>1, <1>2, <1>3, <1>4, FloorOnly
<1>5. ASSUME Floor(x, e.order) = e.offset
      PROVE  x \in Units(e)
  BY <1>1, <1>3, <1>5, FloorIs
<1>6. QED
  BY <1>4, <1>5

\* Two blocks are one inside the other, or apart.
LEMMA BlocksNest ==
  ASSUME NEW e \in General, NEW f \in General
  PROVE  Apart(e, f) <=> ~(Inside(e, f) \/ Inside(f, e))
<1>1. ASSUME NEW c \in General, NEW d \in General, Inside(c, d)
      PROVE  ~Apart(c, d) /\ Units(c) \subseteq Units(d)
  <2>1. c \in Extents /\ d \in Extents /\ c.order \in Orders /\ d.order \in Orders
        /\ c.offset \in Nat /\ c.order <= d.order
    BY <1>1, GeneralIs DEF Inside
  <2>2. Floor(c.offset, d.order) = d.offset
    BY <1>1 DEF Inside, Up, Block
  <2>3. ASSUME NEW x \in Units(c)
        PROVE  x \in Units(d)
    <3>1. x \in Nat
      BY <2>1, LengthPositive DEF Units
    <3>2. Floor(x, c.order) = c.offset
      BY <2>1, <3>1, UnitsAre
    <3>3. Floor(x, d.order) = d.offset
      BY <2>1, <2>2, <3>1, <3>2, FloorOfFloor
    <3>4. QED
      BY <2>1, <3>1, <3>3, UnitsAre
  <2>4. c.offset \in Units(c)
    BY <2>1, LengthPositive DEF Units
  <2>5. QED
    BY <2>3, <2>4 DEF Apart
<1>2. ASSUME NEW c \in General, NEW d \in General, c.order <= d.order, ~Apart(c, d)
      PROVE  Inside(c, d)
  <2>1. c \in Extents /\ d \in Extents /\ c.order \in Orders /\ d.order \in Orders
        /\ c.offset \in Nat /\ d = Block(d.offset, d.order)
    BY GeneralIs
  <2>2. PICK x : x \in Units(c) /\ x \in Units(d)
    BY <1>2 DEF Apart
  <2>3. x \in Nat
    BY <2>1, <2>2, LengthPositive DEF Units
  <2>4. Floor(x, c.order) = c.offset /\ Floor(x, d.order) = d.offset
    BY <2>1, <2>2, <2>3, UnitsAre
  <2>5. Floor(c.offset, d.order) = d.offset
    BY <1>2, <2>1, <2>3, <2>4, FloorOfFloor
  <2>6. QED
    BY <1>2, <2>1, <2>5 DEF Inside, Up
<1>3. e.order \in Int /\ f.order \in Int
  BY GeneralIs, GeometryAssumption DEF Orders
<1>4. Apart(e, f) <=> Apart(f, e)
  BY DEF Apart
<1>5. CASE e.order <= f.order
  BY <1>1, <1>2, <1>4, <1>5
<1>6. CASE f.order <= e.order
  BY <1>1, <1>2, <1>4, <1>6
<1>7. QED
  BY <1>3, <1>5, <1>6

\* What does not overlap a block does not overlap a block inside it.
LEMMA InsideApart ==
  ASSUME NEW e \in General, NEW f \in General, Inside(e, f), NEW u, Apart(f, u)
  PROVE  Apart(e, u)
<1>1. e \in Extents /\ f \in Extents /\ e.order \in Orders /\ f.order \in Orders
      /\ e.offset \in Nat /\ e.order <= f.order /\ Floor(e.offset, f.order) = f.offset
  BY GeneralIs DEF Inside, Up, Block
<1>2. ASSUME NEW x \in Units(e)
      PROVE  x \in Units(f)
  <2>1. x \in Nat
    BY <1>1, LengthPositive DEF Units
  <2>2. Floor(x, e.order) = e.offset
    BY <1>1, <2>1, UnitsAre
  <2>3. Floor(x, f.order) = f.offset
    BY <1>1, <2>1, <2>2, FloorOfFloor
  <2>4. QED
    BY <1>1, <2>1, <2>3, UnitsAre
<1>3. QED
  BY <1>2 DEF Apart

\* The two halves of the block of order j + 1 around an offset.
LEMMA HalvesAt ==
  ASSUME NEW x \in Nat, NEW j \in Orders, j + 1 \in Orders
  PROVE  \E p \in Nat :
           /\ Floor(x, j + 1) = (2 * p) * Length[j]
           /\ \/ Floor(x, j) = (2 * p) * Length[j] /\ Buddy(x, j) = (2 * p + 1) * Length[j]
              \/ Floor(x, j) = (2 * p + 1) * Length[j] /\ Buddy(x, j) = (2 * p) * Length[j]
<1> DEFINE s == Length[j]
           q == x \div s
           p == q \div 2
<1>1. s \in Nat \ {0}
  BY LengthPositive
<1>2. Length[j + 1] = 2 * s
  BY LengthDef, GeometryAssumption DEF Orders
<1>3. q \in Nat /\ Floor(x, j) = q * s /\ q * s <= x /\ x < q * s + s
  BY FloorIs
<1>4. Buddy(x, j) = IF q % 2 = 0 THEN Floor(x, j) + s ELSE Floor(x, j) - s
  BY DEF Buddy
<1> HIDE DEF s, q
<1>5. p \in Nat /\ (q % 2 = 0 => q = 2 * p) /\ (q % 2 # 0 => q = 2 * p + 1)
  BY <1>3
<1> HIDE DEF p
<1>6. (2 * p + 1) * s = (2 * p) * s + s /\ (2 * p) * s \in Nat /\ (2 * p) * s = p * (2 * s)
  <2>1. (2 * p) \in Nat /\ 2 * p = p * 2
    BY <1>5
  <2>2. (2 * p + 1) * s = (2 * p) * s + s /\ (p * 2) * s = p * (2 * s)
    BY <1>1, <1>5, <2>1, Multiples
  <2>3. (2 * p) * s \in Nat
    BY <1>1, <2>1
  <2>4. QED
    BY <2>1, <2>2, <2>3
<1>7. CASE q % 2 = 0
  <2>1. q = 2 * p
    BY <1>5, <1>7
  <2>2. Floor(x, j) = (2 * p) * s /\ Buddy(x, j) = (2 * p + 1) * s
    BY <1>3, <1>4, <1>6, <1>7, <2>1
  <2>3. p * (2 * s) <= x /\ x < p * (2 * s) + 2 * s
    BY <1>1, <1>3, <1>6, <2>1
  <2>4. Floor(x, j + 1) = p * (2 * s)
    BY <1>2, <1>5, <2>3, FloorOnly
  <2>5. QED
    BY <1>5, <1>6, <2>2, <2>4 DEF s
<1>8. CASE q % 2 # 0
  <2>1. q = 2 * p + 1
    BY <1>5, <1>8
  <2>2. Floor(x, j) = (2 * p + 1) * s /\ Buddy(x, j) = (2 * p) * s
    BY <1>1, <1>3, <1>4, <1>6, <1>8, <2>1
  <2>3. p * (2 * s) <= x /\ x < p * (2 * s) + 2 * s
    BY <1>1, <1>3, <1>6, <2>1
  <2>4. Floor(x, j + 1) = p * (2 * s)
    BY <1>2, <1>5, <2>3, FloorOnly
  <2>5. QED
    BY <1>5, <1>6, <2>2, <2>4 DEF s
<1>9. QED
  BY <1>7, <1>8

\* The sibling of a block is a block of the general part; it lies in the same
\* block of the next order, and with its sibling it is all there is in it.
LEMMA TwoHalves ==
  ASSUME NEW e \in General, NEW j \in Orders, e.order <= j, j # MaxOrder
  PROVE  /\ j + 1 \in Orders
         /\ Sibling(e, j) \in General /\ Sibling(e, j).order = j
         /\ Sibling(e, j) # Up(e, j)
         /\ Up(Sibling(e, j), j + 1) = Up(e, j + 1)
         /\ \A f \in General : f.order = j /\ Up(f, j + 1) = Up(e, j + 1) =>
              f = Up(e, j) \/ f = Sibling(e, j)
<1> DEFINE s == Length[j]
           x == e.offset
<1>1. j + 1 \in Orders /\ s \in Nat \ {0} /\ x \in Nat
  BY GeneralIs, LengthPositive, GeometryAssumption DEF Orders
<1>2. PICK p \in Nat :
        /\ Floor(x, j + 1) = (2 * p) * s
        /\ \/ Floor(x, j) = (2 * p) * s /\ Buddy(x, j) = (2 * p + 1) * s
           \/ Floor(x, j) = (2 * p + 1) * s /\ Buddy(x, j) = (2 * p) * s
  BY <1>1, HalvesAt
<1>3. Length[j + 1] = 2 * s
  BY <1>1, LengthDef, GeometryAssumption DEF Orders
<1> HIDE DEF s, x
<1>4. (2 * p + 1) * s = (2 * p) * s + s /\ (2 * p) * s \in Nat /\ (2 * p) * s = p * (2 * s)
  <2>1. (2 * p) \in Nat /\ 2 * p = p * 2
    OBVIOUS
  <2>2. (2 * p + 1) * s = (2 * p) * s + s /\ (p * 2) * s = p * (2 * s)
    BY <1>1, <2>1, Multiples
  <2>3. (2 * p) * s \in Nat
    BY <1>1, <2>1
  <2>4. QED
    BY <2>1, <2>2, <2>3
<1>5. Up(e, j + 1) \in General /\ Up(e, j + 1).order = j + 1 /\ Up(e, j + 1).offset = (2 * p) * s
  <2>1. e.order <= j + 1
    BY GeneralIs, GeometryAssumption DEF Orders
  <2>2. QED
    BY <1>1, <1>2, <2>1, BlockAbove DEF Up, Block, x
<1>6. (2 * p) * s + 2 * s <= GeneralSize
  BY <1>3, <1>5, GeneralIs
<1>7. Buddy(x, j) \in Nat /\ Buddy(x, j) < GeneralSize /\ Buddy(x, j) # Floor(x, j)
  BY <1>1, <1>2, <1>4, <1>6, GeneralSizeIs
<1>8. Floor(Buddy(x, j), j) = Buddy(x, j)
  <2>1. 2 * p \in Nat /\ 2 * p + 1 \in Nat
    OBVIOUS
  <2>2. QED
    BY <1>2, <2>1, FloorOfMultiple DEF s
<1>9. Floor(Buddy(x, j), j + 1) = (2 * p) * s
  <2>1. p * Length[j + 1] <= Buddy(x, j) /\ Buddy(x, j) < p * Length[j + 1] + Length[j + 1]
    BY <1>1, <1>2, <1>3, <1>4
  <2>2. Floor(Buddy(x, j), j + 1) = p * Length[j + 1]
    BY <1>1, <1>7, <2>1, FloorOnly
  <2>3. QED
    BY <1>3, <1>4, <2>2
<1>10. ASSUME NEW f \in General, f.order = j, Up(f, j + 1) = Up(e, j + 1)
       PROVE  f = Up(e, j) \/ f = Sibling(e, j)
  <2>1. f.offset \in Nat /\ f = Block(f.offset, j) /\ Floor(f.offset, j) = f.offset
    BY <1>10, GeneralIs
  <2>2. Floor(f.offset, j + 1) = (2 * p) * s
    BY <1>2, <1>10 DEF Up, Block, x
  <2>3. PICK r \in Nat :
          /\ Floor(f.offset, j + 1) = (2 * r) * s
          /\ \/ Floor(f.offset, j) = (2 * r) * s
             \/ Floor(f.offset, j) = (2 * r + 1) * s
    BY <1>1, <2>1, HalvesAt DEF s
  <2>4. (2 * r + 1) * s = (2 * r) * s + s /\ (2 * r) * s = (2 * p) * s
    <3>1. 2 * r \in Int
      OBVIOUS
    <3>2. QED
      BY <1>1, <2>2, <2>3, <3>1, Multiples
  <2>5. f.offset \in {(2 * p) * s, (2 * p + 1) * s}
    BY <1>4, <2>1, <2>3, <2>4
  <2>6. f.offset \in {Floor(x, j), Buddy(x, j)}
    BY <1>2, <2>5
  <2>7. QED
    BY <2>1, <2>6 DEF Up, Sibling, Block, x
<1>11. QED
  <2>1. Sibling(e, j) \in General /\ Sibling(e, j).order = j /\ Sibling(e, j).offset = Buddy(x, j)
    BY <1>7, <1>8, BlockAt DEF Sibling, Block, x
  <2>2. Sibling(e, j) # Up(e, j)
    BY <1>7 DEF Sibling, Up, Block, x
  <2>3. Up(Sibling(e, j), j + 1) = Up(e, j + 1)
    BY <1>2, <1>9, <2>1 DEF Up, Block, x
  <2>4. QED
    BY <1>1, <1>10, <2>1, <2>2, <2>3

\* The order of a block is a number up to the largest.
LEMMA OrderIs ==
  ASSUME NEW e \in General
  PROVE  e.order \in Orders /\ e.order \in Nat /\ e.order <= MaxOrder
  BY GeneralIs, GeometryAssumption DEF Orders

\* The orders are the numbers up to the largest.
LEMMA OrdersAre ==
  /\ MaxOrder \in Orders
  /\ \A j \in Int : j \in Orders <=> 0 <= j /\ j <= MaxOrder
  BY GeometryAssumption DEF Orders

\* Inside is an order in which the blocks around a block form a line.
LEMMA InsideUp ==
  ASSUME NEW e \in General, NEW j \in Orders, e.order <= j
  PROVE  Inside(e, Up(e, j))
  BY BlockAbove DEF Inside

\* A block inside a block inside a third is inside the third.
LEMMA InsideTrans ==
  ASSUME NEW e \in General, NEW f \in General, NEW g \in General, Inside(e, f), Inside(f, g)
  PROVE  Inside(e, g)
<1>1. e.order <= g.order
  BY OrderIs DEF Inside
<1>2. Up(e, g.order) = Up(Up(e, f.order), g.order)
  BY OrderIs, BlockAboveAbove DEF Inside
<1>3. QED
  BY <1>1, <1>2 DEF Inside

\* Of two blocks around one, the shorter is inside the longer.
LEMMA InsideLine ==
  ASSUME NEW e \in General, NEW f \in General, NEW g \in General,
         Inside(e, f), Inside(e, g), f.order <= g.order
  PROVE  Inside(f, g)
<1>1. Up(f, g.order) = Up(Up(e, f.order), g.order)
  BY DEF Inside
<1>2. QED
  BY <1>1, OrderIs, BlockAboveAbove DEF Inside

\* A block inside one of its own order is that block.
LEMMA InsideSame ==
  ASSUME NEW e \in General, NEW f \in General, Inside(e, f), e.order = f.order
  PROVE  e = f
  BY BlockItself DEF Inside

-----------------------------------------------------------------------------
\* The tree that belongs to the extents in use

\* The blocks that overlap no extent in use, the widest of them, the tree.
Holes(used) == {b \in General : \A u \in used : Apart(b, u)}
Widest(used) == {b \in Holes(used) : b.order = MaxOrder \/ Up(b, b.order + 1) \notin Holes(used)}

TreeOf(used) ==
  [free |-> Widest(used),
   reserve |-> HugeReserve /\ \A u \in used : ~InReserve(u),
   used |-> used]

\* Extents that may be in use together: no two overlap, and of the reserve
\* there is the whole or nothing.
Legal(used) ==
  /\ used \subseteq Extents
  /\ \A u \in used : InReserve(u) => FromReserve(u.order)
  /\ \A u, v \in used : u # v => Apart(u, v)

\* A block inside a hole is a hole.
LEMMA HolesDown ==
  ASSUME NEW U, NEW f \in Holes(U), NEW e \in General, Inside(e, f)
  PROVE  e \in Holes(U)
  BY InsideApart DEF Holes

\* More extents in use leave fewer holes.
LEMMA HolesFewer ==
  ASSUME NEW U, NEW V, U \subseteq V
  PROVE  Holes(V) \subseteq Holes(U)
  BY DEF Holes

\* No hole is around a widest one, and what overlaps it is inside it.
LEMMA WidestIsTop ==
  ASSUME NEW U, NEW b \in Widest(U), NEW h \in Holes(U), Inside(b, h)
  PROVE  h = b
<1>1. b \in General /\ h \in General /\ b.order <= h.order
  BY DEF Widest, Holes, Inside
<1>2. CASE b.order = h.order
  BY <1>1, <1>2, InsideSame
<1>3. CASE b.order < h.order
  <2>1. b.order + 1 \in Orders /\ b.order + 1 <= h.order /\ b.order # MaxOrder
    <3>1. b.order \in Orders /\ h.order \in Orders
      BY <1>1, OrderIs
    <3>2. QED
      BY <1>3, <3>1, GeometryAssumption DEF Orders
  <2>2. Up(b, b.order + 1) \in General /\ Up(b, b.order + 1).order = b.order + 1
        /\ Inside(b, Up(b, b.order + 1))
    BY <1>1, <2>1, OrderIs, BlockAbove, InsideUp
  <2>3. Inside(Up(b, b.order + 1), h)
    BY <1>1, <2>1, <2>2, InsideLine
  <2>4. Up(b, b.order + 1) \in Holes(U)
    BY <2>2, <2>3, HolesDown
  <2>5. QED
    BY <2>1, <2>4 DEF Widest
<1>4. QED
  BY <1>1, <1>2, <1>3, OrderIs

\* A hole that meets a widest hole is inside it.
LEMMA WidestHolds ==
  ASSUME NEW U, NEW b \in Widest(U), NEW h \in Holes(U), ~Apart(b, h)
  PROVE  Inside(h, b)
<1>1. b \in General /\ h \in General
  BY DEF Widest, Holes
<1>2. Inside(b, h) \/ Inside(h, b)
  BY <1>1, BlocksNest
<1>3. Inside(b, b)
  BY <1>1, BlockItself, OrderIs DEF Inside
<1>4. QED
  BY <1>2, <1>3, WidestIsTop

\* Every hole is inside a widest one.
LEMMA HoleInWidest ==
  ASSUME NEW U, NEW h \in Holes(U)
  PROVE  \E b \in Widest(U) : Inside(h, b)
<1> DEFINE Tops == {m \in Orders : h.order <= m /\ Up(h, m) \in Holes(U)}
           D == {MaxOrder - m : m \in Tops}
<1>1. h \in General
  BY DEF Holes
<1>2. h.order \in Tops
  BY <1>1, OrderIs, BlockItself
<1>3. D \in SUBSET Nat /\ D # {}
  BY <1>2, OrdersAre, GeometryAssumption DEF Orders
<1>4. PICK n \in D : \A k \in D : n <= k
  <2> HIDE DEF D
  <2> QED BY <1>3, LeastNumber
<1>5. PICK m \in Tops : n = MaxOrder - m
  BY <1>4
<1>6. \A k \in Tops : k <= m
  <2>1. TAKE k \in Tops
  <2>2. MaxOrder - k \in D
    OBVIOUS
  <2>3. MaxOrder - m <= MaxOrder - k
    <3> HIDE DEF D
    <3> QED BY <1>4, <1>5, <2>2
  <2>4. QED
    BY <2>3, GeometryAssumption DEF Orders
<1> DEFINE b == Up(h, m)
<1>7. b \in General /\ b.order = m /\ b \in Holes(U) /\ Inside(h, b) /\ m \in Orders
  BY <1>1, <1>5, BlockAbove, InsideUp
<1>8. ASSUME m # MaxOrder, Up(b, m + 1) \in Holes(U)
      PROVE  FALSE
  <2>1. m + 1 \in Orders /\ h.order <= m + 1 /\ m <= m + 1 /\ ~(m + 1 <= m)
    BY <1>1, <1>5, <1>7, <1>8, OrderIs, GeometryAssumption DEF Orders
  <2>2. Up(b, m + 1) = Up(h, m + 1)
    BY <1>1, <1>7, <2>1, BlockAboveAbove
  <2>3. m + 1 \in Tops
    BY <1>8, <2>1, <2>2
  <2>4. QED
    BY <1>6, <2>1, <2>3
<1>9. b \in Widest(U)
  BY <1>7, <1>8 DEF Widest
<1>10. QED
  BY <1>7, <1>9

-----------------------------------------------------------------------------
\* Cutting an extent out of a widest hole

\* Two blocks of one order are the same or apart.
LEMMA SameOrderApart ==
  ASSUME NEW e \in General, NEW f \in General, e.order = f.order, e # f
  PROVE  Apart(e, f)
  BY BlocksNest, InsideSame

\* Being apart goes both ways.
LEMMA ApartSymmetric ==
  ASSUME NEW e, NEW f
  PROVE  Apart(e, f) <=> Apart(f, e)
  BY DEF Apart

\* The sibling of the block around a block does not overlap that block.
LEMMA SiblingApart ==
  ASSUME NEW e \in General, NEW j \in Orders, e.order <= j, j # MaxOrder
  PROVE  Apart(Sibling(e, j), e)
<1>1. Up(e, j) \in General /\ Up(e, j).order = j /\ Inside(e, Up(e, j))
  BY BlockAbove, InsideUp
<1>2. Sibling(e, j) \in General /\ Sibling(e, j).order = j /\ Sibling(e, j) # Up(e, j)
  BY TwoHalves
<1>3. Apart(Up(e, j), Sibling(e, j))
  BY <1>1, <1>2, SameOrderApart
<1>4. QED
  BY <1>1, <1>3, InsideApart, ApartSymmetric

\* Two widest holes are the same or apart.
LEMMA WidestApart ==
  ASSUME NEW U, NEW b \in Widest(U), NEW c \in Widest(U), NEW e \in General,
         Inside(e, b), Inside(e, c)
  PROVE  b = c
<1>1. b \in Holes(U) /\ c \in Holes(U) /\ b \in General /\ c \in General
  BY DEF Widest, Holes
<1>2. Inside(b, c) \/ Inside(c, b)
  BY <1>1, InsideLine, OrderIs
<1>3. QED
  BY <1>1, <1>2, WidestIsTop

\* Carving e out of b turns the widest holes into the widest holes with e used.
LEMMA CarveTree ==
  ASSUME NEW U, NEW b \in Widest(U), NEW e \in General, Inside(e, b)
  PROVE  Widest(U \cup {e}) = (Widest(U) \ {b}) \cup Pieces(b, e)
<1> DEFINE V == U \cup {e}
<1>1. b \in General /\ b \in Holes(U) /\ e \in Holes(U) /\ ~Apart(b, e) /\ ~Apart(e, b)
  <2>1. b \in General /\ b \in Holes(U)
    BY DEF Widest, Holes
  <2>2. QED
    BY <2>1, HolesDown, BlocksNest
<1>2. \A c \in General : c \in Holes(V) <=> c \in Holes(U) /\ Apart(c, e)
  BY DEF Holes
<1>3. Holes(V) \subseteq Holes(U) /\ Holes(U) \subseteq General
  BY DEF Holes
<1> HIDE DEF V
<1>4. ASSUME NEW c \in Widest(V), c.order # MaxOrder, Up(c, c.order + 1) \in Holes(U)
      PROVE  c \in Pieces(b, e)
  <2> DEFINE j == c.order
             P == Up(c, j + 1)
  <2>1. c \in General /\ c \in Holes(U) /\ Apart(c, e) /\ j \in Orders /\ j + 1 \in Orders
        /\ P \notin Holes(V)
    <3>1. c \in Holes(V) /\ P \notin Holes(V)
      BY <1>4 DEF Widest
    <3>2. c \in General /\ c \in Holes(U) /\ Apart(c, e)
      BY <1>2, <1>3, <3>1
    <3>3. j \in Orders /\ j + 1 \in Orders
      BY <1>4, <3>2, OrderIs, GeometryAssumption DEF Orders
    <3>4. QED
      BY <3>1, <3>2, <3>3
  <2>2. P \in General /\ P.order = j + 1 /\ Inside(c, P)
    BY <2>1, OrderIs, BlockAbove, InsideUp
  <2>3. ~Apart(P, e)
    BY <1>2, <1>4, <2>1, <2>2
  <2>4. ~Inside(c, e)
    BY <2>1, BlocksNest
  <2>5. Inside(e, P) /\ e # P
    BY <2>1, <2>2, <2>3, <2>4, BlocksNest, InsideTrans
  <2>6. e.order <= j
    <3>1. e.order # j + 1
      BY <2>2, <2>5, InsideSame
    <3>2. e.order <= j + 1
      BY <2>2, <2>5 DEF Inside
    <3>3. QED
      BY <2>1, <3>1, <3>2, OrderIs
  <2>7. Inside(P, b)
    <3>1. Inside(P, b) \/ Inside(b, P)
      BY <1>1, <2>2, <2>5, InsideLine, OrderIs
    <3>2. P \in Holes(U)
      BY <1>4
    <3>3. QED
      BY <2>2, <3>1, <3>2, WidestIsTop
  <2>8. Up(e, j + 1) = P
    BY <2>2, <2>5 DEF Inside
  <2>9. c = Up(e, j) \/ c = Sibling(e, j)
    BY <1>4, <2>1, <2>6, <2>8, TwoHalves
  <2>10. c # Up(e, j)
    BY <2>1, <2>4, <2>6, InsideUp, BlocksNest
  <2>11. j \in e.order .. b.order - 1
    <3>1. j + 1 <= b.order
      BY <2>2, <2>7 DEF Inside
    <3>2. QED
      BY <1>1, <2>1, <2>6, <3>1, OrderIs
  <2>12. QED
    BY <2>9, <2>10, <2>11 DEF Pieces, Sibling
<1>5. ASSUME NEW c \in Widest(V), c.order = MaxOrder \/ Up(c, c.order + 1) \notin Holes(U)
      PROVE  c \in Widest(U) /\ c # b
  <2>1. c \in Holes(U) /\ Apart(c, e)
    BY <1>2, <1>3 DEF Widest
  <2>2. QED
    BY <1>1, <1>5, <2>1 DEF Widest
<1>6. ASSUME NEW c \in Widest(U), c # b
      PROVE  c \in Widest(V)
  <2>1. c \in General /\ c \in Holes(U)
    BY DEF Widest, Holes
  <2>2. Apart(c, e)
    <3>1. SUFFICES ASSUME ~Apart(c, e) PROVE FALSE
      OBVIOUS
    <3>2. Inside(e, c)
      BY <1>1, <3>1, WidestHolds
    <3>3. QED
      BY <1>6, <3>2, WidestApart
  <2>3. c \in Holes(V)
    BY <1>2, <2>1, <2>2
  <2>4. QED
    BY <1>3, <2>3 DEF Widest
<1>7. ASSUME NEW j \in e.order .. b.order - 1
      PROVE  Sibling(e, j) \in Widest(V)
  <2> DEFINE c == Sibling(e, j)
             P == Up(e, j + 1)
  <2>1. j \in Orders /\ j # MaxOrder /\ e.order <= j /\ j + 1 <= b.order /\ j + 1 \in Orders
    BY <1>1, OrderIs, GeometryAssumption DEF Orders
  <2>2. c \in General /\ c.order = j /\ Up(c, j + 1) = P
    BY <2>1, TwoHalves
  <2>3. P \in General /\ P.order = j + 1 /\ Inside(e, P) /\ e.order <= j + 1
    BY <2>1, OrderIs, BlockAbove, InsideUp
  <2>4. Inside(P, b)
    BY <1>1, <2>1, <2>3, InsideLine
  <2>5. Inside(c, b)
    <3>1. Inside(c, P)
      BY <2>1, <2>2, <2>3 DEF Inside
    <3>2. QED
      BY <1>1, <2>2, <2>3, <2>4, <3>1, InsideTrans
  <2>6. c \in Holes(V)
    BY <1>1, <1>2, <2>1, <2>2, <2>5, HolesDown, SiblingApart
  <2>7. P \notin Holes(V)
    BY <1>2, <2>3, BlocksNest
  <2>8. QED
    BY <2>2, <2>6, <2>7 DEF Widest
<1>8. Pieces(b, e) = {Sibling(e, j) : j \in e.order .. b.order - 1}
  BY DEF Pieces, Sibling
<1>9. QED
  BY <1>4, <1>5, <1>6, <1>7, <1>8 DEF V

-----------------------------------------------------------------------------
\* Giving an extent back

\* The reserve is behind the general part, and is one extent.
LEMMA ReserveApart ==
  ASSUME NEW e \in General, NEW u \in Extents, InReserve(u)
  PROVE  Apart(e, u)
<1>1. e.offset \in Nat /\ e.order \in Orders /\ e.offset + Length[e.order] <= GeneralSize
  BY GeneralIs
<1>2. u.offset \in Nat /\ u.order \in Orders /\ u.offset >= GeneralSize
  BY ExtentIs DEF InReserve
<1>3. Length[e.order] \in Nat /\ Length[u.order] \in Nat /\ GeneralSize \in Nat
  BY <1>1, <1>2, LengthPositive, GeneralSizeIs
<1>4. QED
  BY <1>1, <1>2, <1>3 DEF Apart, Units

\* The only extent the reserve gives is the reserve as a whole.
LEMMA ReserveIs ==
  ASSUME NEW u \in Extents, InReserve(u), FromReserve(u.order)
  PROVE  u = Block(GeneralSize, MaxOrder) /\ HugeReserve
<1>1. HugeReserve /\ u.order = MaxOrder
  BY DEF FromReserve
<1>2. u.offset \in Nat /\ u.offset + Length[MaxOrder] <= GeneralSize + Length[MaxOrder]
      /\ u = Block(u.offset, MaxOrder) /\ u.offset >= GeneralSize
  BY <1>1, ExtentIs DEF ArenaSize, InReserve
<1>3. Length[MaxOrder] \in Nat /\ GeneralSize \in Nat
  BY LengthPositive, OrdersAre, GeneralSizeIs
<1>4. QED
  BY <1>1, <1>2, <1>3

\* Among legal extents every other one than a general one is apart from it.
LEMMA LegalApart ==
  ASSUME NEW U, Legal(U), NEW e \in U, e \in General, NEW u \in U \ {e}
  PROVE  Apart(e, u) /\ (u \notin General => InReserve(u)) /\ u \in Extents
  BY DEF Legal, General

\* The block of order m around a given extent becomes a hole if all its other
\* parts are free.
LEMMA MergeMakesHole ==
  ASSUME NEW U, Legal(U), NEW e \in U, e \in General, NEW m \in Orders, e.order <= m
  PROVE  Up(e, m) \in Holes(U \ {e}) <=> \A j \in e.order .. m - 1 : Sibling(e, j) \in Holes(U)
<1> DEFINE V == U \ {e}
<1>0. e.order \in Nat /\ m \in Nat
  BY OrderIs, GeometryAssumption DEF Orders
<1>1. Up(e, m) \in General /\ Up(e, m).order = m /\ Inside(e, Up(e, m))
  BY BlockAbove, InsideUp
<1>2. ASSUME Up(e, m) \in Holes(V), NEW j \in e.order .. m - 1
      PROVE  Sibling(e, j) \in Holes(U)
  <2>1. j \in Orders /\ j + 1 \in Orders /\ e.order <= j /\ j # MaxOrder /\ j + 1 <= m
        /\ e.order <= j + 1 /\ j <= j + 1
    BY <1>0, GeometryAssumption DEF Orders
  <2>2. Sibling(e, j) \in General /\ Sibling(e, j).order = j /\ Up(Sibling(e, j), j + 1) = Up(e, j + 1)
    BY <2>1, TwoHalves
  <2>3. Up(e, j + 1) \in General /\ Up(e, j + 1).order = j + 1 /\ Inside(e, Up(e, j + 1))
    BY <2>1, BlockAbove, InsideUp
  <2>4. Inside(Sibling(e, j), Up(e, j + 1))
    BY <2>1, <2>2, <2>3 DEF Inside
  <2>5. Inside(Up(e, j + 1), Up(e, m))
    BY <1>1, <2>1, <2>3, InsideLine
  <2>6. Sibling(e, j) \in Holes(V)
    BY <1>1, <1>2, <2>2, <2>3, <2>4, <2>5, InsideTrans, HolesDown
  <2>7. Apart(Sibling(e, j), e)
    BY <2>1, SiblingApart
  <2>8. QED
    BY <2>6, <2>7 DEF Holes
<1>3. ASSUME \A j \in e.order .. m - 1 : Sibling(e, j) \in Holes(U),
             NEW u \in V, ~Apart(Up(e, m), u)
      PROVE  FALSE
  <2>1. u \in General /\ u \in U /\ Apart(e, u)
    BY <1>1, <1>3, LegalApart, ReserveApart
  <2>2. ~Inside(e, u) /\ ~Inside(u, e)
    BY <2>1, BlocksNest
  <2>3. Inside(u, Up(e, m))
    BY <1>1, <1>3, <2>1, <2>2, BlocksNest, InsideTrans
  <2> DEFINE S == {j \in Orders : e.order <= j /\ Inside(u, Up(e, j))}
  <2>4. S # {} /\ S \in SUBSET Nat /\ m \in S
    BY <2>3, OrderIs, GeometryAssumption DEF Orders
  <2>5. PICK j \in S : \A i \in S : j <= i
    <3> HIDE DEF S
    <3> QED BY <2>4, LeastNumber
  <2>6. j \in Orders /\ e.order <= j /\ Inside(u, Up(e, j)) /\ j <= m
    BY <2>4, <2>5
  <2>7. j # e.order
    BY <2>2, <2>6, BlockItself
  <2> DEFINE i == j - 1
  <2>8. i \in Orders /\ e.order <= i /\ i # MaxOrder /\ i + 1 = j /\ i \in e.order .. m - 1 /\ ~(j <= i)
    BY <1>0, <2>6, <2>7, GeometryAssumption DEF Orders
  <2>9. ~Inside(u, Up(e, i))
    BY <2>5, <2>8
  <2>10. Up(e, j) \in General /\ Up(e, j).order = j /\ Inside(e, Up(e, j))
    BY <2>6, BlockAbove, InsideUp
  <2>11. u.order <= i
    <3>1. u.order # j
      BY <2>1, <2>2, <2>6, <2>10, InsideSame
    <3>2. u.order <= j
      BY <2>6, <2>10 DEF Inside
    <3>3. QED
      BY <2>1, <2>8, <3>1, <3>2, OrderIs, GeometryAssumption DEF Orders
  <2>12. Up(u, i) \in General /\ Up(u, i).order = i /\ Inside(u, Up(u, i))
    BY <2>1, <2>8, <2>11, BlockAbove, InsideUp
  <2>13. Up(Up(u, i), j) = Up(e, j)
    <3>1. Up(Up(u, i), j) = Up(u, j)
      BY <2>1, <2>6, <2>8, BlockAboveAbove, GeometryAssumption DEF Orders
    <3>2. Up(u, j) = Up(e, j)
      BY <2>6, <2>10 DEF Inside
    <3>3. QED
      BY <3>1, <3>2
  <2>14. Up(u, i) = Up(e, i) \/ Up(u, i) = Sibling(e, i)
    BY <2>8, <2>12, <2>13, TwoHalves
  <2>15. Inside(u, Sibling(e, i)) /\ Sibling(e, i) \in General
    BY <2>8, <2>9, <2>12, <2>14, TwoHalves
  <2>16. Sibling(e, i) \in Holes(U)
    BY <1>3, <2>8
  <2>17. ~Apart(Sibling(e, i), u)
    BY <2>1, <2>15, BlocksNest
  <2>18. QED
    BY <2>1, <2>16, <2>17 DEF Holes
<1>4. QED
  BY <1>1, <1>2, <1>3 DEF Holes

\* While an extent is in use, its siblings are free blocks if they are holes.
LEMMA SiblingIsWidest ==
  ASSUME NEW U, NEW e \in U, e \in General, NEW j \in Orders, e.order <= j, j # MaxOrder
  PROVE  Sibling(e, j) \in Holes(U) <=> Sibling(e, j) \in Widest(U)
<1>1. Sibling(e, j) \in General /\ Sibling(e, j).order = j /\ Up(Sibling(e, j), j + 1) = Up(e, j + 1)
      /\ j + 1 \in Orders /\ e.order <= j + 1
  BY TwoHalves, OrderIs, GeometryAssumption DEF Orders
<1>2. Up(e, j + 1) \in General /\ Inside(e, Up(e, j + 1))
  BY <1>1, BlockAbove, InsideUp
<1>3. ~Apart(Up(e, j + 1), e)
  BY <1>2, BlocksNest
<1>4. QED
  BY <1>1, <1>3 DEF Widest, Holes

\* The order a freed block is merged up to is the largest it can be.
LEMMA MergedOrderIs ==
  ASSUME NEW a, NEW e \in General
  PROVE  /\ MergedOrder(a, e) \in Orders /\ e.order <= MergedOrder(a, e)
         /\ MergesTo(a, e, MergedOrder(a, e))
         /\ \A m \in Orders : e.order <= m /\ MergesTo(a, e, m) => m <= MergedOrder(a, e)
<1> DEFINE M == {m \in e.order .. MaxOrder : MergesTo(a, e, m)}
           D == {MaxOrder - m : m \in M}
<1>1. e.order \in M
  BY OrderIs, GeometryAssumption DEF MergesTo
<1>2. M \subseteq Nat /\ D \in SUBSET Nat /\ D # {}
  BY <1>1, OrderIs, GeometryAssumption
<1>3. PICK n \in D : \A k \in D : n <= k
  <2> HIDE DEF D
  <2> QED BY <1>2, LeastNumber
<1>4. PICK x \in M : n = MaxOrder - x
  BY <1>3
<1>5. \A y \in M : x >= y
  <2>1. TAKE y \in M
  <2>2. MaxOrder - y \in D
    OBVIOUS
  <2>3. MaxOrder - x <= MaxOrder - y
    <3> HIDE DEF D
    <3> QED BY <1>3, <1>4, <2>2
  <2>4. QED
    BY <1>2, <2>3, GeometryAssumption
<1>6. MergedOrder(a, e) \in M /\ \A y \in M : MergedOrder(a, e) >= y
  <2> HIDE DEF M
  <2>1. MergedOrder(a, e) = CHOOSE z \in M : \A y \in M : z >= y
    BY DEF MergedOrder, Max, M
  <2>2. QED
    BY <1>4, <1>5, <2>1
<1>7. \A m \in Orders : e.order <= m <=> m \in e.order .. MaxOrder
  BY OrderIs, GeometryAssumption DEF Orders
<1>8. \A m \in e.order .. MaxOrder : m \in Orders
  BY OrderIs, GeometryAssumption DEF Orders
<1>9. QED
  BY <1>2, <1>6, <1>7, <1>8, GeometryAssumption DEF Orders

\* The tree after a free is that of the extents left.
LEMMA FreedWidest ==
  ASSUME NEW U, Legal(U), NEW e \in U, e \in General, NEW a, a.free = Widest(U)
  PROVE  LET top == MergedOrder(a, e)
         IN  Widest(U \ {e}) =
               (Widest(U) \ {Sibling(e, j) : j \in e.order .. top - 1}) \cup {Up(e, top)}
<1> DEFINE V == U \ {e}
           top == MergedOrder(a, e)
           merged == {Sibling(e, j) : j \in e.order .. top - 1}
<1>1. top \in Orders /\ e.order <= top /\ MergesTo(a, e, top)
      /\ \A m \in Orders : e.order <= m /\ MergesTo(a, e, m) => m <= top
  BY MergedOrderIs
<1>2. \A m \in Orders : e.order <= m => (MergesTo(a, e, m) <=> Up(e, m) \in Holes(V))
  <2>1. TAKE m \in Orders
  <2>2. HAVE e.order <= m
  <2>3. \A j \in e.order .. m - 1 : j \in Orders /\ e.order <= j /\ j # MaxOrder
    BY <2>2, OrderIs, GeometryAssumption DEF Orders
  <2>4. MergesTo(a, e, m) <=> \A j \in e.order .. m - 1 : Sibling(e, j) \in Widest(U)
    BY DEF MergesTo, Sibling
  <2>5. MergesTo(a, e, m) <=> \A j \in e.order .. m - 1 : Sibling(e, j) \in Holes(U)
    BY <2>3, <2>4, SiblingIsWidest
  <2>6. QED
    BY <2>2, <2>5, MergeMakesHole
<1> HIDE DEF top
<1>3. Holes(U) \subseteq Holes(V) /\ Holes(V) \subseteq General /\ Holes(U) \subseteq General
  BY DEF Holes
<1>4. \A c \in Holes(V) : Apart(c, e) => c \in Holes(U)
  BY DEF Holes
<1>5. \A c \in Holes(U) : Apart(c, e)
  BY DEF Holes
<1>6. Up(e, top) \in General /\ Up(e, top).order = top /\ Inside(e, Up(e, top)) /\ Up(e, top) \in Holes(V)
  BY <1>1, <1>2, BlockAbove, InsideUp
<1>7. e \in Holes(V)
  BY <1>6, HolesDown
<1>8. ASSUME NEW m \in Orders, e.order <= m, Up(e, m) \in Holes(V)
      PROVE  m <= top
  BY <1>1, <1>2, <1>8
<1>9. Up(e, top) \in Widest(V)
  <2>1. SUFFICES ASSUME top # MaxOrder, Up(Up(e, top), top + 1) \in Holes(V) PROVE FALSE
    BY <1>6 DEF Widest
  <2>2. top + 1 \in Orders /\ e.order <= top + 1 /\ top <= top + 1 /\ ~(top + 1 <= top)
    BY <1>1, <2>1, OrderIs, GeometryAssumption DEF Orders
  <2>3. Up(Up(e, top), top + 1) = Up(e, top + 1)
    BY <1>1, <2>2, BlockAboveAbove
  <2>4. QED
    BY <1>8, <2>1, <2>2, <2>3
<1>10. ASSUME NEW c \in Widest(V)
       PROVE  c = Up(e, top) \/ (c \in Widest(U) /\ c \notin merged)
  <2>1. c \in General /\ c \in Holes(V)
    BY <1>3 DEF Widest
  <2>2. CASE ~Apart(c, e)
    <3>1. Inside(e, c)
      BY <1>7, <2>2, WidestHolds
    <3>2. QED
      BY <1>6, <1>9, <3>1, WidestApart
  <2>3. CASE Apart(c, e)
    <3>1. c \in Holes(U)
      BY <1>4, <2>1, <2>3
    <3>2. c \in Widest(U)
      BY <1>3, <3>1 DEF Widest
    <3>3. ASSUME NEW j \in e.order .. top - 1, c = Sibling(e, j)
          PROVE  FALSE
      <4>1. j \in Orders /\ j # MaxOrder /\ e.order <= j /\ j + 1 <= top /\ j + 1 \in Orders
            /\ e.order <= j + 1
        BY <1>1, OrderIs, GeometryAssumption DEF Orders
      <4>2. c.order = j /\ Up(c, j + 1) = Up(e, j + 1)
        BY <3>3, <4>1, TwoHalves
      <4>3. Up(e, j + 1) \in General /\ Up(e, j + 1).order = j + 1 /\ Inside(e, Up(e, j + 1))
        BY <4>1, BlockAbove, InsideUp
      <4>4. Inside(Up(e, j + 1), Up(e, top))
        BY <1>6, <4>1, <4>3, InsideLine
      <4>5. Up(e, j + 1) \in Holes(V)
        BY <1>6, <4>3, <4>4, HolesDown
      <4>6. QED
        BY <4>1, <4>2, <4>5 DEF Widest
    <3>4. QED
      BY <3>2, <3>3
  <2>4. QED
    BY <2>2, <2>3
<1>11. ASSUME NEW c \in Widest(U), c \notin merged
       PROVE  c \in Widest(V)
  <2>1. c \in General /\ c \in Holes(U) /\ c \in Holes(V) /\ Apart(c, e)
    BY <1>3, <1>5 DEF Widest
  <2> DEFINE j == c.order
             P == Up(c, j + 1)
  <2>2. SUFFICES ASSUME j # MaxOrder, P \in Holes(V) PROVE FALSE
    BY <2>1 DEF Widest
  <2>3. j \in Orders /\ j + 1 \in Orders /\ j <= j + 1
    BY <2>1, <2>2, OrderIs, GeometryAssumption DEF Orders
  <2>4. P \in General /\ P.order = j + 1 /\ Inside(c, P)
    BY <2>1, <2>3, BlockAbove, InsideUp
  <2>5. P \notin Holes(U)
    BY <2>2 DEF Widest
  <2>6. ~Apart(P, e)
    BY <1>4, <2>2, <2>5
  <2>7. ~Inside(c, e) /\ ~Inside(e, c)
    BY <2>1, BlocksNest
  <2>8. Inside(e, P) /\ e # P
    BY <2>1, <2>4, <2>6, <2>7, BlocksNest, InsideTrans
  <2>9. e.order <= j
    <3>1. e.order # j + 1
      BY <2>4, <2>8, InsideSame
    <3>2. e.order <= j + 1
      BY <2>4, <2>8 DEF Inside
    <3>3. QED
      BY <2>1, <3>1, <3>2, OrderIs
  <2>10. Up(e, j + 1) = P
    BY <2>4, <2>8 DEF Inside
  <2>11. c = Up(e, j) \/ c = Sibling(e, j)
    BY <2>1, <2>2, <2>3, <2>9, <2>10, TwoHalves
  <2>12. c = Sibling(e, j)
    BY <2>3, <2>7, <2>9, <2>11, InsideUp
  <2>13. j + 1 <= top
    BY <1>8, <2>2, <2>3, <2>9, <2>10, OrderIs, GeometryAssumption DEF Orders
  <2>14. j \in e.order .. top - 1
    BY <1>1, <2>3, <2>9, <2>13, OrderIs, GeometryAssumption DEF Orders
  <2>15. QED
    BY <1>11, <2>12, <2>14
<1>12. Widest(V) = (Widest(U) \ merged) \cup {Up(e, top)}
  BY <1>9, <1>10, <1>11
<1>13. QED
  BY <1>12 DEF top

-----------------------------------------------------------------------------
\* The operations on the tree

\* The blocks of a set that is not empty have a lowest one.
LEMMA LowestIs ==
  ASSUME NEW B, B \subseteq General, B # {}
  PROVE  Lowest(B) \in B
<1> DEFINE O == {b.order : b \in B}
<1>1. O \in SUBSET Nat /\ O # {}
  BY OrderIs
<1>2. PICK k \in O : \A j \in O : k <= j
  <2> HIDE DEF O
  <2> QED BY <1>1, LeastNumber
<1> DEFINE X == {b.offset : b \in {c \in B : c.order = k}}
<1>3. X \in SUBSET Nat /\ X # {}
  BY <1>2, GeneralIs
<1>4. PICK x \in X : \A y \in X : x <= y
  <2> HIDE DEF X
  <2> QED BY <1>3, LeastNumber
<1>5. PICK b \in B : b.order = k /\ b.offset = x
  BY <1>4
<1>6. \A c \in B : b.order < c.order \/ (b.order = c.order /\ b.offset <= c.offset)
  <2>1. TAKE c \in B
  <2>2. k <= c.order /\ k \in Nat /\ c.order \in Nat
    BY <1>1, <1>2
  <2>3. c.order = k => x <= c.offset
    BY <1>4
  <2>4. QED
    BY <1>5, <2>2, <2>3
<1>7. QED
  BY <1>5, <1>6 DEF Lowest

\* A hole of the general part may come into use.
LEMMA LegalMore ==
  ASSUME NEW U, Legal(U), NEW e \in General, e \in Holes(U)
  PROVE  Legal(U \cup {e})
<1>1. e \in Extents /\ ~InReserve(e) /\ \A u \in U : Apart(e, u) /\ Apart(u, e)
  BY ApartSymmetric DEF General, Holes
<1>2. QED
  BY <1>1 DEF Legal

\* Fewer extents in use are legal as well.
LEMMA LegalFewer ==
  ASSUME NEW U, Legal(U), NEW V, V \subseteq U
  PROVE  Legal(V)
  BY DEF Legal

\* An extent of the reserve changes nothing in the general part.
LEMMA ReserveWidest ==
  ASSUME NEW U, NEW e \in Extents, InReserve(e)
  PROVE  Widest(U \cup {e}) = Widest(U) /\ Widest(U \ {e}) = Widest(U)
<1>1. \A b \in General : Apart(b, e)
  BY ReserveApart
<1>2. Holes(U \cup {e}) = Holes(U) /\ Holes(U \ {e}) = Holes(U)
  BY <1>1 DEF Holes
<1>3. QED
  BY <1>2 DEF Widest

\* The reserve as an extent.
LEMMA ReserveExtent ==
  ASSUME HugeReserve
  PROVE  LET r == Block(GeneralSize, MaxOrder)
         IN  r \in Extents /\ InReserve(r) /\ FromReserve(r.order) /\ r.order = MaxOrder
<1> DEFINE r == Block(GeneralSize, MaxOrder)
           s == Length[MaxOrder]
<1>1. s \in Nat \ {0} /\ Roots \in Nat /\ GeneralSize = Roots * s /\ GeneralSize \in Nat
  BY LengthPositive, OrdersAre, GeometryAssumption, GeneralSizeIs DEF GeneralSize
<1>2. ArenaSize = GeneralSize + s
  BY DEF ArenaSize
<1>3. GeneralSize % s = 0
  <2>1. GeneralSize = Roots * s + 0 /\ 0 \in 0 .. s - 1
    BY <1>1
  <2> HIDE DEF s
  <2>2. QED
    BY <1>1, <2>1, DivModOf
<1>4. r \in [offset : 0 .. ArenaSize - 1, order : Orders]
  BY <1>1, <1>2, OrdersAre DEF Block
<1>5. r \in Extents
  BY <1>1, <1>2, <1>3, <1>4 DEF Extents, Block
<1>6. QED
  BY <1>1, <1>5 DEF InReserve, FromReserve, Block

\* The reserve may come into use when nothing of it is.
LEMMA LegalReserve ==
  ASSUME NEW U, Legal(U), NEW e \in Extents, InReserve(e), FromReserve(e.order),
         \A u \in U : ~InReserve(u)
  PROVE  Legal(U \cup {e}) /\ e \notin U
<1>1. \A u \in U : Apart(e, u) /\ Apart(u, e)
  BY ReserveApart, ApartSymmetric DEF Legal, General
<1>2. QED
  BY <1>1 DEF Legal

\* The tree of the extents in use and the updates of the model, field by field.
Fields(f, r, u) == [free |-> f, reserve |-> r, used |-> u]

WithFree(x, t) == [x EXCEPT !.free = t]
WithReserve(x, t) == [x EXCEPT !.reserve = t]
WithUsed(x, t) == [x EXCEPT !.used = t]

\* Writing one field of an allocator leaves the other two.
LEMMA FieldUpdates ==
  \A f, r, u, t : /\ WithFree(Fields(f, r, u), t) = Fields(t, r, u)
                  /\ WithReserve(Fields(f, r, u), t) = Fields(f, t, u)
                  /\ WithUsed(Fields(f, r, u), t) = Fields(f, r, t)
  BY DEF Fields, WithFree, WithReserve, WithUsed

\* The fields of the allocator that a set of extents determines.
LEMMA TreeFields ==
  ASSUME NEW U
  PROVE  /\ TreeOf(U) = Fields(Widest(U), TreeOf(U).reserve, U)
         /\ TreeOf(U).used = U
         /\ TreeOf(U).free = Widest(U)
         /\ TreeOf(U).reserve = (HugeReserve /\ \A u \in U : ~InReserve(u))
  BY DEF TreeOf, Fields

\* The updates of the model: an extent cut out of a free block, the reserve
\* taken, the reserve given back.
LEMMA TreeUpdates ==
  ASSUME NEW U, NEW F, NEW v
  PROVE  /\ WithUsed(WithFree(TreeOf(U), F), v) = Fields(F, TreeOf(U).reserve, v)
         /\ WithUsed(WithReserve(TreeOf(U), FALSE), v) = Fields(Widest(U), FALSE, v)
         /\ WithUsed(WithReserve(TreeOf(U), TRUE), v) = Fields(Widest(U), TRUE, v)
<1>1. TreeOf(U) = Fields(Widest(U), TreeOf(U).reserve, U)
  BY TreeFields
<1>2. \A t : WithUsed(WithReserve(TreeOf(U), t), v) = Fields(Widest(U), t, v)
  BY <1>1, FieldUpdates
<1>3. WithUsed(WithFree(TreeOf(U), F), v) = Fields(F, TreeOf(U).reserve, v)
  BY <1>1, FieldUpdates
<1>4. QED
  <2> DEFINE no == FALSE
             yes == TRUE
  <2> HIDE DEF no, yes
  <2>1. /\ WithUsed(WithReserve(TreeOf(U), no), v) = Fields(Widest(U), no, v)
        /\ WithUsed(WithReserve(TreeOf(U), yes), v) = Fields(Widest(U), yes, v)
    BY <1>2
  <2>2. QED
    BY <1>3, <2>1 DEF no, yes

\* Carve yields the allocator of the extents with e among them.
LEMMA CarvedTree ==
  ASSUME NEW U, NEW b, NEW e, ~InReserve(e),
         Widest(U \cup {e}) = (Widest(U) \ {b}) \cup Pieces(b, e)
  PROVE  Carve(TreeOf(U), b, e) = TreeOf(U \cup {e})
<1> DEFINE F == (Widest(U) \ {b}) \cup Pieces(b, e)
<1>2. Carve(TreeOf(U), b, e) = WithUsed(WithFree(TreeOf(U), F), U \cup {e})
  BY TreeFields DEF Carve, WithUsed, WithFree
<1> HIDE DEF F
<1>3. WithUsed(WithFree(TreeOf(U), F), U \cup {e})
        = Fields(F, TreeOf(U).reserve, U \cup {e})
  BY TreeUpdates
<1>4. TreeOf(U).reserve = TreeOf(U \cup {e}).reserve
  <2>1. (\A u \in U : ~InReserve(u)) <=> (\A u \in U \cup {e} : ~InReserve(u))
    OBVIOUS
  <2>2. QED
    BY <2>1 DEF TreeOf
<1>5. TreeOf(U \cup {e}) = Fields(F, TreeOf(U \cup {e}).reserve, U \cup {e})
  BY TreeFields DEF F
<1>6. QED
  BY <1>2, <1>3, <1>4, <1>5

\* allocate: the extent is new, overlaps none in use, and the tree is that of
\* the extents there are now.
THEOREM TakenTree ==
  ASSUME NEW U, Legal(U), NEW k \in Orders, CanAllocate(TreeOf(U), k)
  PROVE  LET e == Place(TreeOf(U), k)
         IN  /\ e \in Extents /\ e.order = k /\ e \notin U
             /\ Legal(U \cup {e})
             /\ Taken(TreeOf(U), k) = TreeOf(U \cup {e})
<1> DEFINE a == TreeOf(U)
           e == Place(a, k)
<1>1. CASE FromReserve(k)
  <2>1. e = Block(GeneralSize, MaxOrder) /\ HugeReserve
    BY <1>1 DEF Place, FromReserve
  <2>2. e \in Extents /\ InReserve(e) /\ FromReserve(e.order) /\ e.order = k
    BY <1>1, <2>1, ReserveExtent DEF FromReserve
  <2>3. \A u \in U : ~InReserve(u)
    BY <1>1 DEF CanAllocate, TreeOf
  <2>4. Legal(U \cup {e}) /\ e \notin U
    BY <2>2, <2>3, LegalReserve
  <2>5. Widest(U \cup {e}) = Widest(U)
    BY <2>2, ReserveWidest
  <2>6. Taken(a, k) = TreeOf(U \cup {e})
    BY <1>1, <2>2, <2>5 DEF Taken, TreeOf
  <2>7. QED
    BY <2>2, <2>4, <2>6
<1>2. CASE ~FromReserve(k)
  <2> DEFINE b == Lowest(Fits(a, k))
  <2>1. Fits(a, k) = {c \in Widest(U) : c.order >= k} /\ Widest(U) \subseteq General
    BY DEF Fits, TreeOf, Widest, Holes
  <2>2. Fits(a, k) # {}
    BY <1>2 DEF CanAllocate
  <2>3. b \in Widest(U) /\ b.order >= k /\ b \in General
    BY <2>1, <2>2, LowestIs
  <2> HIDE DEF b
  <2>4. e = Block(b.offset, k)
    BY <1>2 DEF Place, b
  <2>5. e \in General /\ e.order = k /\ Inside(e, b)
    <3>1. b.offset \in Nat /\ b.offset < GeneralSize /\ b.order \in Orders
          /\ Floor(b.offset, b.order) = b.offset /\ b = Block(b.offset, b.order)
      BY <2>3, GeneralIs
    <3>2. Floor(b.offset, k) = b.offset
      <4> DEFINE s == Length[k]
                 q == b.offset \div Length[b.order]
      <4>1. q \in Nat /\ b.offset = q * Length[b.order]
        BY <3>1, FloorIs
      <4>2. PICK r \in Nat \ {0} : Length[b.order] = r * s
        BY <2>3, <3>1, LengthDivides
      <4>3. s \in Nat \ {0}
        BY LengthPositive
      <4> HIDE DEF s, q
      <4>4. b.offset = (q * r) * s /\ q * r \in Nat
        BY <4>1, <4>2, <4>3, Multiples
      <4>5. QED
        BY <4>4, FloorOfMultiple DEF s
    <3>3. e \in General
      BY <2>4, <3>1, <3>2, BlockAt
    <3>4. e.order = k /\ e.offset = b.offset
      BY <2>4 DEF Block
    <3>5. QED
      BY <2>3, <3>1, <3>3, <3>4, OrderIs DEF Inside, Up
  <2>6. b \in Holes(U) /\ e \in Holes(U)
    BY <2>3, <2>5, HolesDown DEF Widest
  <2>7. e \in Extents /\ ~InReserve(e) /\ e \notin U
    <3>1. ~Apart(e, e)
      BY <2>5, BlocksNest, BlockItself, OrderIs DEF Inside
    <3>2. QED
      BY <2>5, <2>6, <3>1 DEF General, Holes
  <2>8. Legal(U \cup {e})
    BY <2>5, <2>6, LegalMore
  <2>9. Widest(U \cup {e}) = (Widest(U) \ {b}) \cup Pieces(b, e)
    BY <2>3, <2>5, CarveTree
  <2>10. Taken(a, k) = Carve(a, b, e)
    BY <1>2 DEF Taken, b
  <2>11. Taken(a, k) = TreeOf(U \cup {e})
    <3> HIDE DEF e
    <3>1. Carve(TreeOf(U), b, e) = TreeOf(U \cup {e})
      BY <2>7, <2>9, CarvedTree
    <3>2. QED
      BY <2>10, <3>1
  <2>12. QED
    BY <2>5, <2>7, <2>8, <2>11
<1>3. QED
  BY <1>1, <1>2

\* free: what was given back is merged with what it borders on, so that the
\* tree is that of the extents left.
THEOREM FreedTree ==
  ASSUME NEW U, Legal(U), NEW e \in U
  PROVE  /\ Legal(U \ {e})
         /\ Freed(TreeOf(U), e) = TreeOf(U \ {e})
<1> DEFINE V == U \ {e}
<1>1. Legal(V) /\ e \in Extents
  BY LegalFewer DEF Legal
<1>2. CASE InReserve(e)
  <2>1. Widest(V) = Widest(U)
    BY <1>1, <1>2, ReserveWidest
  <2>2. FromReserve(e.order)
    BY <1>2 DEF Legal
  <2>3. HugeReserve /\ e = Block(GeneralSize, MaxOrder)
    BY <1>1, <1>2, <2>2, ReserveIs
  <2>4. ASSUME NEW u \in V, InReserve(u)
        PROVE  FALSE
    <3>1. u \in Extents /\ FromReserve(u.order)
      BY <2>4 DEF Legal
    <3>2. u = Block(GeneralSize, MaxOrder)
      BY <2>4, <3>1, ReserveIs
    <3>3. QED
      BY <2>3, <3>2
  <2>5. (HugeReserve /\ \A u \in V : ~InReserve(u)) = TRUE
    BY <2>3, <2>4
  <2> HIDE DEF V
  <2>6. Freed(TreeOf(U), e) = WithUsed(WithReserve(TreeOf(U), TRUE), V)
    BY <1>2, TreeFields DEF Freed, WithUsed, WithReserve, V
  <2>7. TreeOf(V) = Fields(Widest(U), TRUE, V)
    BY <2>1, <2>5 DEF TreeOf, Fields
  <2>8. WithUsed(WithReserve(TreeOf(U), TRUE), V) = Fields(Widest(U), TRUE, V)
    BY TreeUpdates
  <2>9. QED
    BY <1>1, <2>6, <2>7, <2>8 DEF V
<1>3. CASE ~InReserve(e)
  <2> DEFINE a == TreeOf(U)
             top == MergedOrder(a, e)
             merged == {Sibling(e, j) : j \in e.order .. top - 1}
  <2>1. e \in General /\ a.free = Widest(U)
    BY <1>1, <1>3 DEF General, TreeOf
  <2>2. Widest(V) = (Widest(U) \ merged) \cup {Up(e, top)}
    BY <2>1, FreedWidest
  <2>3. (\A u \in V : ~InReserve(u)) <=> (\A u \in U : ~InReserve(u))
    BY <1>3
  <2>4. Freed(a, e) = [a EXCEPT !.free = (@ \ merged) \cup {Up(e, top)}, !.used = @ \ {e}]
    BY <1>3 DEF Freed, Sibling, Up
  <2> HIDE DEF top, merged
  <2>5. Freed(a, e) = TreeOf(V)
    BY <2>2, <2>3, <2>4 DEF TreeOf
  <2>6. QED
    BY <1>1, <2>5
<1>4. QED
  BY <1>2, <1>3

\* A start with nothing in use: every block of the largest order is free.
THEOREM NewTree == Legal({}) /\ NewAllocator = TreeOf({})
<1> DEFINE s == Length[MaxOrder]
           Tops == {Block(r * s, MaxOrder) : r \in 0 .. Roots - 1}
<1>1. s \in Nat \ {0} /\ MaxOrder \in Orders /\ Roots \in Nat \ {0} /\ GeneralSize = Roots * s
  BY LengthPositive, OrdersAre, GeometryAssumption DEF GeneralSize
<1>2. Holes({}) = General
  BY DEF Holes
<1>3. \A b \in General : b \in Widest({}) <=> b.order = MaxOrder
  <2>1. TAKE b \in General
  <2>2. b.order # MaxOrder => b.order + 1 \in Orders /\ b.order <= b.order + 1
    BY OrderIs, GeometryAssumption DEF Orders
  <2>3. b.order # MaxOrder => Up(b, b.order + 1) \in General
    BY <2>2, BlockAbove
  <2>4. QED
    BY <1>2, <2>3 DEF Widest
<1>4. ASSUME NEW b \in General, b.order = MaxOrder
      PROVE  b \in Tops
  <2>1. PICK q \in Nat : b.offset = q * s
    <3>1. b.offset \in Nat /\ Floor(b.offset, MaxOrder) = b.offset
      BY <1>4, GeneralIs
    <3>2. b.offset \div s \in Nat /\ b.offset = (b.offset \div s) * s
      BY <1>1, <3>1, FloorIs
    <3>3. QED
      BY <3>2
  <2>2. q * s < Roots * s
    BY <1>1, <2>1, GeneralIs
  <2>3. q < Roots
    <3> HIDE DEF s
    <3> QED BY <1>1, <2>1, <2>2, Multiples
  <2>4. q \in 0 .. Roots - 1 /\ b = Block(q * s, MaxOrder)
    BY <1>1, <1>4, <2>1, <2>3, GeneralIs
  <2>5. QED
    BY <2>4
<1>5. ASSUME NEW r \in 0 .. Roots - 1
      PROVE  Block(r * s, MaxOrder) \in General /\ Block(r * s, MaxOrder).order = MaxOrder
  <2>1. r \in Nat /\ r < Roots /\ r + 1 <= Roots
    BY <1>1
  <2>2. r * s \in Nat /\ r * s < Roots * s
    <3>1. (r + 1) * s = r * s + s /\ (r + 1) * s <= Roots * s /\ r * s \in Nat /\ Roots * s \in Nat
      <4> HIDE DEF s
      <4> QED BY <1>1, <2>1, Multiples
    <3> HIDE DEF s
    <3>2. QED
      BY <1>1, <3>1
  <2>3. Floor(r * s, MaxOrder) = r * s
    BY <1>1, <2>1, FloorOfMultiple
  <2>4. QED
    BY <1>1, <2>2, <2>3, BlockAt DEF Block
<1>6. Widest({}) = Tops
  <2>1. Widest({}) \subseteq General
    BY DEF Widest, Holes
  <2> HIDE DEF s
  <2>2. QED
    BY <1>3, <1>4, <1>5, <2>1
<1>7. NewAllocator = Fields(Tops, HugeReserve, {})
  BY DEF NewAllocator, Fields
<1>8. TreeOf({}).reserve = HugeReserve
  BY GeometryAssumption DEF TreeOf
<1>9. TreeOf({}) = Fields(Widest({}), HugeReserve, {})
  BY <1>8, TreeFields
<1>10. QED
  BY <1>6, <1>7, <1>9 DEF Legal

\* restore_extent: an extent that overlaps none in use can be cut out, and
\* the tree is that of the extents there are then.
THEOREM RestoredTree ==
  ASSUME NEW U, NEW e, e \notin U, Legal(U \cup {e})
  PROVE  CanRestore(TreeOf(U), e) /\ Restored(TreeOf(U), e) = TreeOf(U \cup {e})
<1>1. e \in Extents /\ Legal(U) /\ (InReserve(e) => FromReserve(e.order))
      /\ \A u \in U : Apart(e, u)
  <2>1. Legal(U)
    BY LegalFewer
  <2>2. QED
    BY <2>1 DEF Legal
<1>2. CASE InReserve(e)
  <2>1. HugeReserve /\ e = Block(GeneralSize, MaxOrder)
    BY <1>1, <1>2, ReserveIs
  <2>2. ASSUME NEW u \in U, InReserve(u)
        PROVE  FALSE
    <3>1. u \in Extents /\ FromReserve(u.order)
      BY <1>1, <2>2 DEF Legal
    <3>2. u = Block(GeneralSize, MaxOrder)
      BY <2>2, <3>1, ReserveIs
    <3>3. QED
      BY <2>1, <3>2
  <2>3. CanRestore(TreeOf(U), e)
    BY <1>2, <2>1, <2>2 DEF CanRestore, TreeOf
  <2>4. Restored(TreeOf(U), e) = WithUsed(WithReserve(TreeOf(U), FALSE), U \cup {e})
    BY <1>2, TreeFields DEF Restored, WithUsed, WithReserve
  <2>5. WithUsed(WithReserve(TreeOf(U), FALSE), U \cup {e}) = Fields(Widest(U), FALSE, U \cup {e})
    BY TreeUpdates
  <2>6. (HugeReserve /\ \A u \in U \cup {e} : ~InReserve(u)) = FALSE
    BY <1>2
  <2>7. Widest(U \cup {e}) = Widest(U)
    BY <1>1, <1>2, ReserveWidest
  <2>8. TreeOf(U \cup {e}) = Fields(Widest(U), FALSE, U \cup {e})
    BY <2>6, <2>7 DEF TreeOf, Fields
  <2>9. QED
    BY <2>3, <2>4, <2>5, <2>8
<1>3. CASE ~InReserve(e)
  <2> DEFINE A == Around(TreeOf(U), e)
             b == Lowest(A)
  <2>1. e \in General /\ e \in Holes(U)
    BY <1>1, <1>3 DEF General, Holes
  <2>2. Widest(U) \subseteq General
    BY DEF Widest, Holes
  <2>3. ASSUME NEW c \in Widest(U)
        PROVE  c \in A <=> Inside(e, c)
    <3>1. c = Block(c.offset, c.order) /\ c.order \in Nat /\ e.order \in Nat
      BY <2>1, <2>2, GeneralIs, OrderIs
    <3>2. c \in A <=> c.order >= e.order /\ Floor(e.offset, c.order) = c.offset
      BY TreeFields DEF Around
    <3>3. Up(e, c.order) = c <=> Floor(e.offset, c.order) = c.offset
      BY <3>1 DEF Up, Block
    <3>4. QED
      BY <3>1, <3>2, <3>3 DEF Inside
  <2>4. A \subseteq Widest(U)
    BY TreeFields DEF Around
  <2>5. A # {}
    BY <2>1, <2>3, HoleInWidest
  <2>6. b \in A
    BY <2>2, <2>4, <2>5, LowestIs
  <2>7. b \in Widest(U) /\ Inside(e, b)
    BY <2>3, <2>4, <2>6
  <2>8. CanRestore(TreeOf(U), e) /\ Restored(TreeOf(U), e) = Carve(TreeOf(U), b, e)
    BY <1>3, <2>5 DEF CanRestore, Restored
  <2> HIDE DEF b, A
  <2>9. Widest(U \cup {e}) = (Widest(U) \ {b}) \cup Pieces(b, e)
    BY <2>1, <2>7, CarveTree
  <2>10. QED
    BY <1>3, <2>8, <2>9, CarvedTree
<1>4. QED
  BY <1>2, <1>3

\* An arena has finitely many extents.
LEMMA ExtentsFinite == IsFiniteSet(Extents)
<1> DEFINE Pairs == (0 .. ArenaSize - 1) \X Orders
           f == [e \in Extents |-> <<e.offset, e.order>>]
<1>1. IsFiniteSet(0 .. ArenaSize - 1) /\ IsFiniteSet(Orders)
  BY GeneralSizeIs, GeometryAssumption, FS_Interval DEF Orders
<1>2. IsFiniteSet(Pairs)
  BY <1>1, FS_Product
<1>3. f \in [Extents -> Pairs]
  BY DEF Extents
<1>4. \A d, e \in Extents : f[d] = f[e] => d = e
  <2>1. TAKE d, e \in Extents
  <2>2. HAVE f[d] = f[e]
  <2>3. d.offset = e.offset /\ d.order = e.order
    BY <2>2
  <2>4. QED
    BY <2>3, ExtentIs
<1>5. f \in Injection(Extents, Pairs)
  <2> HIDE DEF f, Pairs
  <2> QED BY <1>3, <1>4 DEF Injection, IsInjective
<1>6. QED
  <2> HIDE DEF f, Pairs
  <2> QED BY <1>2, <1>5, FS_Injection

\* The tree a start builds from the extents it finds in use is theirs, in
\* whatever order it takes them.
THEOREM RebuiltTree ==
  ASSUME NEW S, Legal(S)
  PROVE  Rebuilt(S) = TreeOf(S)
<1> DEFINE Pick(s) == CHOOSE x \in s : TRUE
           Step(g, s) == IF s = {} THEN NewAllocator
                         ELSE Restored(g[s \ {Pick(s)}], Pick(s))
           Solves(g) == g = [s \in SUBSET S |-> Step(g, s)]
           trees == [s \in SUBSET S |-> TreeOf(s)]
           iter == CHOOSE g : Solves(g)
<1>1. Rebuilt(S) = iter[S]
  BY DEF Rebuilt, FoldSet, MapThenFoldSet
<1>2. ASSUME NEW s \in SUBSET S, s # {}
      PROVE  /\ Pick(s) \in s /\ s \ {Pick(s)} \in SUBSET S
             /\ Restored(TreeOf(s \ {Pick(s)}), Pick(s)) = TreeOf(s)
  <2>1. Pick(s) \in s
    BY <1>2
  <2> DEFINE x == Pick(s)
             t == s \ {x}
  <2>2. x \in s
    BY <2>1
  <2> HIDE DEF x
  <2>3. t \cup {x} = s /\ x \notin t
    BY <2>2
  <2>4. Legal(s)
    BY LegalFewer
  <2>5. Restored(TreeOf(t), x) = TreeOf(t \cup {x})
    <3> HIDE DEF t
    <3> QED BY <2>3, <2>4, RestoredTree
  <2>6. QED
    BY <2>2, <2>3, <2>5 DEF x
<1> HIDE DEF Pick
<1>3. Solves(trees)
  <2>1. ASSUME NEW s \in SUBSET S
        PROVE  TreeOf(s) = Step(trees, s)
    <3>1. CASE s = {}
      BY <3>1, NewTree
    <3>2. CASE s # {}
      BY <1>2, <3>2
    <3>3. QED
      BY <3>1, <3>2
  <2> HIDE DEF Step
  <2>2. QED
    BY <2>1
<1> HIDE DEF trees
<1>4. Solves(iter)
  BY <1>3
<1> HIDE DEF iter
<1>5. \A s \in SUBSET S : iter[s] = Step(iter, s)
  <2> HIDE DEF Step
  <2> QED BY <1>4
<1> HIDE DEF Solves
<1>6. IsFiniteSet(S)
  BY ExtentsFinite, FS_Subset DEF Legal
<1> DEFINE Bad == {s \in SUBSET S : iter[s] # TreeOf(s)}
           Sizes == {Cardinality(s) : s \in Bad}
<1>7. SUFFICES ASSUME Bad # {} PROVE FALSE
  BY <1>1
<1>8. \A s \in SUBSET S : IsFiniteSet(s) /\ Cardinality(s) \in Nat
  BY <1>6, FS_Subset, FS_CardinalityType
<1>9. Sizes \in SUBSET Nat /\ Sizes # {}
  BY <1>7, <1>8
<1>10. PICK n \in Sizes : \A m \in Sizes : n <= m
  <2> HIDE DEF Sizes
  <2> QED BY <1>9, LeastNumber
<1>11. PICK s \in Bad : Cardinality(s) = n
  BY <1>10
<1>12. s # {}
  BY <1>5, <1>11, NewTree
<1> DEFINE t == s \ {Pick(s)}
<1>13. t \in SUBSET S /\ Pick(s) \in s
  BY <1>2, <1>11, <1>12
<1>14. Cardinality(t) = Cardinality(s) - 1
  BY <1>8, <1>11, <1>13, FS_RemoveElement
<1>15. t \notin Bad
  <2>1. Cardinality(s) \in Nat /\ n = Cardinality(s)
    BY <1>8, <1>11
  <2>2. t \in Bad => Cardinality(t) \in Sizes
    OBVIOUS
  <2> HIDE DEF Sizes, Bad, t
  <2>3. QED
    BY <1>10, <1>14, <2>1, <2>2
<1>16. iter[t] = TreeOf(t)
  BY <1>13, <1>15
<1>17. iter[s] = TreeOf(s)
  <2>1. iter[s] = Restored(iter[t], Pick(s))
    BY <1>5, <1>11, <1>12
  <2>2. Restored(TreeOf(t), Pick(s)) = TreeOf(s)
    BY <1>2, <1>11, <1>12
  <2> HIDE DEF t
  <2>3. QED
    BY <1>16, <2>1, <2>2
<1>18. QED
  BY <1>11, <1>17

\* allocate fails only if there is no room: a request that is refused finds no
\* aligned run of free units as long as it needs.
THEOREM RoomIsFound ==
  ASSUME NEW U, Legal(U), NEW k \in Orders
  PROVE  CanAllocate(TreeOf(U), k) <=> HasRoom(TreeOf(U), k)
<1> DEFINE a == TreeOf(U)
<1>0. a.used = U /\ a.free = Widest(U)
  BY TreeFields
<1>1. ASSUME CanAllocate(a, k)
      PROVE  HasRoom(a, k)
  <2> DEFINE e == Place(a, k)
  <2>1. e \in Extents /\ e.order = k /\ e \notin U /\ Legal(U \cup {e})
    BY <1>1, TakenTree
  <2>2. InReserve(e) => FromReserve(k)
    BY <2>1 DEF Legal
  <2>3. FromReserve(k) => InReserve(e)
    <3>1. SUFFICES ASSUME FromReserve(k) PROVE e.offset >= GeneralSize
      BY DEF InReserve
    <3>2. e.offset = GeneralSize
      BY <3>1 DEF Place, Block
    <3>3. QED
      BY <3>2, GeneralSizeIs
  <2> HIDE DEF e
  <2>4. \A u \in U : Apart(e, u)
    BY <2>1 DEF Legal
  <2>5. QED
    BY <1>0, <2>1, <2>2, <2>3, <2>4 DEF HasRoom
<1>2. ASSUME HasRoom(a, k)
      PROVE  CanAllocate(a, k)
  <2>1. PICK e \in Extents : /\ e.order = k
                             /\ InReserve(e) <=> FromReserve(k)
                             /\ \A u \in U : Apart(e, u)
    BY <1>0, <1>2 DEF HasRoom
  <2>2. CASE FromReserve(k)
    <3>1. e = Block(GeneralSize, MaxOrder) /\ HugeReserve
      BY <2>1, <2>2, ReserveIs
    <3>2. ASSUME NEW u \in U, InReserve(u)
          PROVE  FALSE
      <4>1. u \in Extents /\ FromReserve(u.order)
        BY <3>2 DEF Legal
      <4>2. u = e
        BY <3>1, <3>2, <4>1, ReserveIs
      <4>3. e.offset \in Units(e)
        BY ExtentIs, LengthPositive DEF Units
      <4>4. QED
        BY <2>1, <4>2, <4>3 DEF Apart
    <3>3. QED
      BY <2>2, <3>1, <3>2 DEF CanAllocate, TreeOf
  <2>3. CASE ~FromReserve(k)
    <3>1. e \in Holes(U)
      BY <2>1, <2>3 DEF Holes, General
    <3>2. PICK b \in Widest(U) : Inside(e, b)
      BY <3>1, HoleInWidest
    <3>3. b.order >= k
      BY <2>1, <3>1, <3>2, OrderIs DEF Inside, Widest, Holes
    <3>4. QED
      BY <1>0, <2>3, <3>2, <3>3 DEF CanAllocate, Fits
  <2>4. QED
    BY <2>2, <2>3
<1>3. QED
  BY <1>1, <1>2
=============================================================================
