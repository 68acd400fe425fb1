----------------------------- MODULE KHeapProofs -----------------------------
(***************************************************************************)
(* After any sequence of calls the heap's structures are right together,   *)
(* for every alignment, header size, page size and request, and also when  *)
(* a block arrives while another request waits for its own.                *)
(*                                                                         *)
(* The argument is about values and not about steps: an operation composes *)
(* a search, a new block, a chunk put into a gap, a chunk unlinked and a   *)
(* block given back, and each of these keeps what Right says of the heap   *)
(* it is given.  Sums are counted in bytes: a chunk that is linked or      *)
(* unlinked adds or takes away a set of bytes.  A block whose link is      *)
(* overwritten is counted still; that it is never given back follows from  *)
(* Settled, which the pool's node in it, or its being empty and not the    *)
(* best bet, makes true for good.                                          *)
(***************************************************************************)
EXTENDS KHeap, FiniteSetTheorems, SequenceTheorems, TLAPS

(* Sets, intervals and sequences. *)

\* A non-empty set of natural numbers has a least one.
LEMMA MinExists ==
  ASSUME NEW I, I \subseteq Nat, I # {}
  PROVE  Min(I) \in I /\ \A x \in I : Min(I) <= x
<1> DEFINE Less == {pair \in Nat \X Nat : pair[1] < pair[2]}
<1>1. IsWellFoundedOn(Less, Nat)
  BY NatLessThanWellFounded DEF OpToRel
<1>2. \A x, y \in Nat : <<y, x>> \in Less <=> y < x
  OBVIOUS
<1> HIDE DEF Less
<1>3. PICK x \in I : \A y \in I : <<y, x>> \notin Less
  BY <1>1, WFMin
<1>4. ASSUME NEW y \in I PROVE x <= y
  <2>1. x \in Nat /\ y \in Nat
    OBVIOUS
  <2>2. ~(y < x)
    BY <1>2, <1>3, <2>1
  <2> QED BY <2>1, <2>2
<1> QED BY <1>3, <1>4 DEF Min

\* A set of integers that is bounded above has a greatest one.
LEMMA MaxExists ==
  ASSUME NEW S, S \subseteq Int, S # {}, NEW n \in Int, \A s \in S : s <= n
  PROVE  Max(S) \in S /\ \A s \in S : s <= Max(S)
<1> DEFINE I == {k \in Nat : n - k \in S}
<1>1. \A s \in S : n - s \in I
  OBVIOUS
<1>2. I \subseteq Nat /\ I # {}
  BY <1>1
<1>3. Min(I) \in I /\ \A k \in I : Min(I) <= k
  BY <1>2, MinExists
<1>4. PICK k \in I : \A i \in I : k <= i
  BY <1>3
<1>5. n - k \in S /\ \A s \in S : s <= n - k
  BY <1>1, <1>4
<1> QED BY <1>5 DEF Max

\* Counting the bytes from one offset to another.
LEMMA ExtentCounts ==
  ASSUME NEW x \in Int, NEW y \in Int, x <= y
  PROVE  IsFiniteSet(Extent(x, y)) /\ Cardinality(Extent(x, y)) = y - x
<1>1. y - 1 \in Int
  OBVIOUS
<1>2. IsFiniteSet(x..(y - 1)) /\ Cardinality(x..(y - 1)) = IF x > y - 1 THEN 0 ELSE (y - 1) - x + 1
  BY <1>1, FS_Interval
<1> QED BY <1>2 DEF Extent

\* An extent within another one.
LEMMA ExtentWithin ==
  ASSUME NEW from \in Nat, NEW to \in Nat, NEW low \in Nat, NEW high \in Nat,
         low <= from, to <= high
  PROVE  Extent(from, to) \subseteq Extent(low, high)
BY DEF Extent

\* Bytes keep their number when they are told apart by their block.
LEMMA RowCounts ==
  ASSUME NEW b, NEW bytes, IsFiniteSet(bytes)
  PROVE  IsFiniteSet({b} \X bytes) /\ Cardinality({b} \X bytes) = Cardinality(bytes)
<1>1. IsFiniteSet({b}) /\ Cardinality({b}) = 1
  BY FS_Singleton
<1>2. Cardinality(bytes) \in Nat
  BY FS_CardinalityType
<1>3. /\ IsFiniteSet({b} \X bytes)
      /\ Cardinality({b} \X bytes) = Cardinality({b}) * Cardinality(bytes)
  BY <1>1, FS_Product, Zenon
<1> QED BY <1>1, <1>2, <1>3

\* Disjoint sets add up.
LEMMA Adds ==
  ASSUME NEW S, IsFiniteSet(S), NEW T, IsFiniteSet(T), S \cap T = {}
  PROVE  /\ IsFiniteSet(S \cup T)
         /\ Cardinality(S \cup T) = Cardinality(S) + Cardinality(T)
         /\ Cardinality(S) \in Nat /\ Cardinality(T) \in Nat
<1>1. Cardinality(S \cap T) = 0
  BY FS_EmptySet
<1>2. Cardinality(S) \in Nat /\ Cardinality(T) \in Nat
  BY FS_CardinalityType
<1>3. /\ IsFiniteSet(S \cup T)
      /\ Cardinality(S \cup T) = Cardinality(S) + Cardinality(T) - Cardinality(S \cap T)
  BY FS_Union, Zenon
<1> QED BY <1>1, <1>2, <1>3

\* What a sequence holds after an element was inserted.
LEMMA InsertAtIs ==
  ASSUME NEW S, NEW s \in Seq(S), NEW e \in S, NEW i \in 1..(Len(s) + 1)
  PROVE  /\ InsertAt(s, i, e) \in Seq(S)
         /\ Len(InsertAt(s, i, e)) = Len(s) + 1
         /\ \A k \in 1..(Len(s) + 1) :
              InsertAt(s, i, e)[k] = IF k < i THEN s[k] ELSE IF k = i THEN e ELSE s[k - 1]
<1> DEFINE before == SubSeq(s, 1, i - 1)
           upto == before \o <<e>>
           after == SubSeq(s, i, Len(s))
<1>1. /\ before \in Seq(S) /\ Len(before) = i - 1
      /\ \A k \in 1..(i - 1) : before[k] = s[k]
  OBVIOUS
<1>2. /\ after \in Seq(S) /\ Len(after) = Len(s) - i + 1
      /\ \A k \in 1..(Len(s) - i + 1) : after[k] = s[i + k - 1]
  OBVIOUS
<1>3. <<e>> \in Seq(S) /\ Len(<<e>>) = 1 /\ <<e>>[1] = e
  OBVIOUS
<1>4. InsertAt(s, i, e) = upto \o after
  BY DEF InsertAt
<1> HIDE DEF before, after
<1>5. /\ upto \in Seq(S) /\ Len(upto) = i
      /\ \A k \in 1..i : upto[k] = IF k < i THEN before[k] ELSE e
  BY <1>1, <1>3, ConcatProperties
<1> HIDE DEF upto
<1>6. /\ upto \o after \in Seq(S) /\ Len(upto \o after) = Len(s) + 1
      /\ \A k \in 1..(Len(s) + 1) :
           (upto \o after)[k] = IF k <= i THEN upto[k] ELSE after[k - i]
  BY <1>2, <1>5, ConcatProperties
<1> QED BY <1>1, <1>2, <1>4, <1>5, <1>6

\* And after one was removed.
LEMMA RemoveAtIs ==
  ASSUME NEW S, NEW s \in Seq(S), NEW i \in 1..Len(s)
  PROVE  /\ RemoveAt(s, i) \in Seq(S)
         /\ Len(RemoveAt(s, i)) = Len(s) - 1
         /\ \A k \in 1..(Len(s) - 1) :
              RemoveAt(s, i)[k] = IF k < i THEN s[k] ELSE s[k + 1]
<1> DEFINE before == SubSeq(s, 1, i - 1)
           after == SubSeq(s, i + 1, Len(s))
<1>1. /\ before \in Seq(S) /\ Len(before) = i - 1
      /\ \A k \in 1..(i - 1) : before[k] = s[k]
  OBVIOUS
<1>2. /\ after \in Seq(S) /\ Len(after) = Len(s) - i
      /\ \A k \in 1..(Len(s) - i) : after[k] = s[i + k]
  OBVIOUS
<1>3. RemoveAt(s, i) = before \o after
  BY DEF RemoveAt
<1> HIDE DEF before, after
<1>4. /\ before \o after \in Seq(S) /\ Len(before \o after) = Len(s) - 1
      /\ \A k \in 1..(Len(s) - 1) :
           (before \o after)[k] = IF k <= i - 1 THEN before[k] ELSE after[k - (i - 1)]
  <2>1. /\ before \o after \in Seq(S) /\ Len(before \o after) = Len(before) + Len(after)
        /\ \A k \in 1..(Len(before) + Len(after)) :
             (before \o after)[k] = IF k <= Len(before) THEN before[k] ELSE after[k - Len(before)]
    BY <1>1, <1>2, ConcatProperties, Zenon
  <2> QED BY <1>1, <1>2, <2>1
<1> QED BY <1>1, <1>2, <1>3, <1>4

\* What a sequence holds.
LEMMA RangeOf ==
  ASSUME NEW S, NEW s \in Seq(S)
  PROVE  /\ DOMAIN s = 1..Len(s) /\ Len(s) \in Nat
         /\ \A i \in 1..Len(s) : s[i] \in S /\ s[i] \in Range(s)
         /\ \A x \in Range(s) : x \in S /\ \E i \in 1..Len(s) : x = s[i]
<1>1. DOMAIN s = 1..Len(s) /\ Len(s) \in Nat
  OBVIOUS
<1>2. Range(s) = {s[i] : i \in 1..Len(s)}
  BY <1>1 DEF Range
<1> QED BY <1>1, <1>2

-----------------------------------------------------------------------------
(* One block. *)

\* The constants in the form the arithmetic needs.
LEMMA Layout ==
  /\ ALIGNMENT \in Nat \ {0} /\ BlockHeader \in Nat \ {0} /\ ChunkHeader \in Nat \ {0}
  /\ PageBytes \in Nat \ {0} /\ MinAllocPages \in Nat /\ RootSize \in Nat
  /\ RootSize > BlockHeader /\ ALIGN_INFO = ALIGNMENT /\ Overhead = 2 * ALIGNMENT
BY LayoutAssumption DEF ALIGN_INFO, Overhead

\* The chunks lie in the block, each behind the ones before it, ...
InPlace(block) ==
  /\ block \in BlockType
  /\ BlockHeader <= block.size
  /\ \A i \in 1..Len(block.chunks) :
       BlockHeader <= block.chunks[i].off /\ ChunkEnd(block.chunks[i]) <= block.size
  /\ \A i, k \in 1..Len(block.chunks) : i < k => ChunkEnd(block.chunks[i]) <= block.chunks[k].off

\* ... and Used counts their bytes.
LaidOut(block) ==
  InPlace(block) /\ block.used = BlockHeader + Cardinality(Occupied(block))

\* The fields of a chunk are numbers, and the one header between two of them is positive.
LEMMA ChunkTyped ==
  ASSUME NEW block, InPlace(block), NEW i \in 1..Len(block.chunks)
  PROVE  /\ block.chunks \in Seq(ChunkType) /\ Len(block.chunks) \in Nat
         /\ block.chunks[i] \in ChunkType
         /\ block.chunks[i].off \in Nat /\ block.chunks[i].size \in Nat
         /\ ChunkEnd(block.chunks[i]) = block.chunks[i].off + ChunkHeader + block.chunks[i].size
         /\ ChunkEnd(block.chunks[i]) \in Nat
         /\ block.chunks[i].off < ChunkEnd(block.chunks[i])
         /\ block.size \in Nat /\ block.used \in Nat
<1>1. block.chunks \in Seq(ChunkType) /\ block.size \in Nat /\ block.used \in Nat
  BY DEF InPlace, BlockType
<1>2. block.chunks[i] \in ChunkType
  BY <1>1
<1>3. block.chunks[i].off \in Nat /\ block.chunks[i].size \in Nat
  BY <1>2 DEF ChunkType
<1>4. ChunkEnd(block.chunks[i]) = block.chunks[i].off + ChunkHeader + block.chunks[i].size
  BY DEF ChunkEnd
<1>5. ChunkHeader \in Nat \ {0}
  BY Layout
<1>6. /\ ChunkEnd(block.chunks[i]) \in Nat
      /\ block.chunks[i].off < ChunkEnd(block.chunks[i])
  BY <1>3, <1>4, <1>5
<1>7. Len(block.chunks) \in Nat
  BY <1>1
<1> QED BY <1>1, <1>2, <1>3, <1>4, <1>6, <1>7

\* The bytes of chunks are bytes of the block behind its header.
LEMMA OccupiedFits ==
  ASSUME NEW block, InPlace(block)
  PROVE  /\ Occupied(block) \subseteq Extent(BlockHeader, block.size)
         /\ Filled(block) \subseteq Occupied(block)
         /\ IsFiniteSet(Occupied(block)) /\ IsFiniteSet(Filled(block))
<1>1. block.chunks \in Seq(ChunkType) /\ block.size \in Nat
  BY DEF InPlace, BlockType
<1>2. DOMAIN block.chunks = 1..Len(block.chunks)
  BY <1>1
<1>3. ASSUME NEW i \in 1..Len(block.chunks)
      PROVE  /\ Extent(block.chunks[i].off, ChunkEnd(block.chunks[i]))
                   \subseteq Extent(BlockHeader, block.size)
             /\ Extent(block.chunks[i].off + ChunkHeader, ChunkEnd(block.chunks[i]))
                   \subseteq Extent(block.chunks[i].off, ChunkEnd(block.chunks[i]))
  <2>1. BlockHeader <= block.chunks[i].off /\ ChunkEnd(block.chunks[i]) <= block.size
    BY DEF InPlace
  <2>2. /\ block.chunks[i].off \in Nat /\ ChunkEnd(block.chunks[i]) \in Nat
        /\ ChunkHeader \in Nat /\ BlockHeader \in Nat
    BY ChunkTyped, Layout
  <2>3. Extent(block.chunks[i].off, ChunkEnd(block.chunks[i])) \subseteq Extent(BlockHeader, block.size)
    BY <1>1, <2>1, <2>2, ExtentWithin
  <2>4. /\ block.chunks[i].off + ChunkHeader \in Nat
        /\ block.chunks[i].off <= block.chunks[i].off + ChunkHeader
        /\ ChunkEnd(block.chunks[i]) <= ChunkEnd(block.chunks[i])
    BY <2>2
  <2>5. Extent(block.chunks[i].off + ChunkHeader, ChunkEnd(block.chunks[i]))
          \subseteq Extent(block.chunks[i].off, ChunkEnd(block.chunks[i]))
    BY <2>2, <2>4, ExtentWithin
  <2> QED BY <2>3, <2>5
<1>4. Occupied(block) \subseteq Extent(BlockHeader, block.size)
  BY <1>2, <1>3 DEF Occupied
<1>5. Filled(block) \subseteq Occupied(block)
  BY <1>2, <1>3 DEF Occupied, Filled
<1>6. IsFiniteSet(Extent(BlockHeader, block.size))
  BY <1>1, Layout, ExtentCounts DEF InPlace
<1> QED BY <1>4, <1>5, <1>6, FS_Subset

\* A gap has room between the chunk before it and the one behind it.
LEMMA GapIsFree ==
  ASSUME NEW block, InPlace(block), NEW need \in Nat, NEW j \in Gaps(block, need)
  PROVE  /\ j \in 0..Len(block.chunks)
         /\ GapStart(block, j) \in Nat /\ BlockHeader <= GapStart(block, j)
         /\ GapStart(block, j) + need <= block.size
         /\ \A i \in 1..Len(block.chunks) :
              /\ i <= j => ChunkEnd(block.chunks[i]) <= GapStart(block, j)
              /\ i > j => GapStart(block, j) + need <= block.chunks[i].off
<1> DEFINE n == Len(block.chunks)
           start == GapStart(block, j)
           end == GapEnd(block, j)
<1>1. block.chunks \in Seq(ChunkType) /\ block.size \in Nat /\ n \in Nat
  BY DEF InPlace, BlockType
<1>2. j \in 0..n /\ end - start >= need
  BY DEF Gaps
<1>3. start \in Nat /\ BlockHeader <= start
  <2>1. CASE j = 0
    BY <2>1, Layout DEF GapStart
  <2>2. CASE j # 0
    <3>1. j \in 1..n /\ start = ChunkEnd(block.chunks[j])
      BY <1>2, <2>2 DEF GapStart
    <3>2. BlockHeader <= block.chunks[j].off
      BY <3>1 DEF InPlace
    <3> QED BY <3>1, <3>2, ChunkTyped, Layout
  <2> QED BY <2>1, <2>2
<1>4. end \in Nat /\ end <= block.size
  <2>1. CASE j = n
    BY <1>1, <2>1 DEF GapEnd
  <2>2. CASE j # n
    <3>1. j + 1 \in 1..n /\ end = block.chunks[j + 1].off
      BY <1>1, <1>2, <2>2 DEF GapEnd
    <3>2. ChunkEnd(block.chunks[j + 1]) <= block.size
      BY <3>1 DEF InPlace
    <3> QED BY <3>1, <3>2, ChunkTyped
  <2> QED BY <2>1, <2>2
<1>5. start + need <= end
  BY <1>2, <1>3, <1>4
<1>6. ASSUME NEW i \in 1..n, i <= j PROVE ChunkEnd(block.chunks[i]) <= start
  <2>1. j \in 1..n /\ start = ChunkEnd(block.chunks[j])
    BY <1>1, <1>2, <1>6 DEF GapStart
  <2>2. i < j => ChunkEnd(block.chunks[i]) <= block.chunks[j].off
    BY <2>1 DEF InPlace
  <2> QED BY <1>6, <2>1, <2>2, ChunkTyped
<1>7. ASSUME NEW i \in 1..n, i > j PROVE start + need <= block.chunks[i].off
  <2>1. j + 1 \in 1..n /\ end = block.chunks[j + 1].off
    BY <1>1, <1>2, <1>7 DEF GapEnd
  <2>2. j + 1 < i => ChunkEnd(block.chunks[j + 1]) <= block.chunks[i].off
    BY <2>1 DEF InPlace
  <2>3. end <= block.chunks[i].off
    BY <1>1, <1>2, <1>7, <2>1, <2>2, ChunkTyped
  <2>4. end \in Nat /\ block.chunks[i].off \in Nat
    BY <2>1, ChunkTyped
  <2> HIDE DEF start, end
  <2> QED BY <1>3, <1>4, <1>5, <2>3, <2>4
<1>8. start + need <= block.size
  BY <1>1, <1>3, <1>4, <1>5
<1> QED BY <1>2, <1>3, <1>6, <1>7, <1>8

\* A block with a gap has as many bytes unused: the search passes over no block for
\* want of space that has a gap.
LEMMA GapIsUnused ==
  ASSUME NEW block, LaidOut(block), NEW need \in Nat, Gaps(block, need) # {}
  PROVE  block.size - block.used >= need
<1>1. PICK j \in Gaps(block, need) : TRUE
  OBVIOUS
<1> DEFINE start == GapStart(block, j)
           gap == Extent(start, start + need)
<1>2. InPlace(block) /\ block.used = BlockHeader + Cardinality(Occupied(block))
  BY DEF LaidOut
<1>3. block.chunks \in Seq(ChunkType) /\ block.size \in Nat /\ BlockHeader \in Nat
  BY <1>2, Layout DEF InPlace, BlockType
<1>4. /\ start \in Nat /\ BlockHeader <= start /\ start + need <= block.size
      /\ \A i \in 1..Len(block.chunks) :
           \/ ChunkEnd(block.chunks[i]) <= start
           \/ start + need <= block.chunks[i].off
  <2>1. /\ j \in 0..Len(block.chunks)
        /\ start \in Nat /\ BlockHeader <= start /\ start + need <= block.size
        /\ \A i \in 1..Len(block.chunks) :
             /\ i <= j => ChunkEnd(block.chunks[i]) <= start
             /\ i > j => start + need <= block.chunks[i].off
    BY <1>2, GapIsFree
  <2> QED BY <2>1
<1> HIDE DEF start
<1>5. \A i \in 1..Len(block.chunks) :
        /\ block.chunks[i].off \in Nat /\ ChunkEnd(block.chunks[i]) \in Nat
        /\ gap \cap Extent(block.chunks[i].off, ChunkEnd(block.chunks[i])) = {}
  <2> TAKE i \in 1..Len(block.chunks)
  <2>1. block.chunks[i].off \in Nat /\ ChunkEnd(block.chunks[i]) \in Nat
    BY <1>2, ChunkTyped
  <2> QED BY <1>4, <2>1 DEF Extent
<1>6. gap \cap Occupied(block) = {}
  BY <1>3, <1>5 DEF Occupied
<1>7. IsFiniteSet(gap) /\ Cardinality(gap) = need
  BY <1>4, ExtentCounts
<1>8. /\ Occupied(block) \subseteq Extent(BlockHeader, block.size)
      /\ IsFiniteSet(Occupied(block))
  BY <1>2, OccupiedFits
<1>9. /\ IsFiniteSet(Extent(BlockHeader, block.size))
      /\ Cardinality(Extent(BlockHeader, block.size)) = block.size - BlockHeader
  BY <1>2, <1>3, ExtentCounts DEF InPlace
<1>10. gap \subseteq Extent(BlockHeader, block.size)
  BY <1>3, <1>4 DEF Extent
<1> HIDE DEF gap
<1>11. /\ Cardinality(gap \cup Occupied(block)) = need + Cardinality(Occupied(block))
       /\ Cardinality(Occupied(block)) \in Nat
  BY <1>6, <1>7, <1>8, Adds
<1>12. Cardinality(gap \cup Occupied(block)) <= block.size - BlockHeader
  BY <1>8, <1>9, <1>10, FS_Subset
<1> QED BY <1>2, <1>3, <1>11, <1>12

\* The chunks of a block have offsets of their own.
LEMMA OffsetsDiffer ==
  ASSUME NEW block, InPlace(block), NEW i \in 1..Len(block.chunks),
         NEW k \in 1..Len(block.chunks), block.chunks[i].off = block.chunks[k].off
  PROVE  i = k
<1>1. /\ i < k => ChunkEnd(block.chunks[i]) <= block.chunks[k].off
      /\ k < i => ChunkEnd(block.chunks[k]) <= block.chunks[i].off
  BY DEF InPlace
<1>2. /\ block.chunks[i].off \in Nat /\ ChunkEnd(block.chunks[i]) \in Nat
      /\ block.chunks[k].off \in Nat /\ ChunkEnd(block.chunks[k]) \in Nat
      /\ block.chunks[i].off < ChunkEnd(block.chunks[i])
      /\ block.chunks[k].off < ChunkEnd(block.chunks[k])
  BY ChunkTyped
<1> QED BY <1>1, <1>2

\* The chunks of a block by their place in it and as a set.
LEMMA ChunksOf ==
  ASSUME NEW block, block.chunks \in Seq(ChunkType)
  PROVE  /\ DOMAIN block.chunks = 1..Len(block.chunks) /\ Len(block.chunks) \in Nat
         /\ \A i \in 1..Len(block.chunks) :
              block.chunks[i] \in ChunkType /\ block.chunks[i] \in Range(block.chunks)
         /\ \A x \in Range(block.chunks) :
              x \in ChunkType /\ \E i \in 1..Len(block.chunks) : x = block.chunks[i]
BY RangeOf, Zenon

\* Two chunks of a block are at two offsets.
LEMMA OneAtOffset ==
  ASSUME NEW block, InPlace(block), NEW c \in Range(block.chunks)
  PROVE  \A d \in Range(block.chunks) : d.off = c.off => d = c
<1>1. \A x \in Range(block.chunks) : \E k \in 1..Len(block.chunks) : x = block.chunks[k]
  BY ChunksOf DEF InPlace, BlockType
<1>2. ASSUME NEW d \in Range(block.chunks), d.off = c.off PROVE d = c
  <2>1. PICK k \in 1..Len(block.chunks) : c = block.chunks[k]
    BY <1>1
  <2>2. PICK m \in 1..Len(block.chunks) : d = block.chunks[m]
    BY <1>1
  <2>3. k = m
    BY <1>2, <2>1, <2>2, OffsetsDiffer
  <2> QED BY <2>1, <2>2, <2>3
<1> QED BY <1>2

\* The bytes of a block are those of its chunks, whatever their order.
Bytes(c) == Extent(c.off, ChunkEnd(c))
Payload(c) == Extent(c.off + ChunkHeader, ChunkEnd(c))

LEMMA ByChunk ==
  ASSUME NEW block
  PROVE  /\ Occupied(block) = UNION {Bytes(c) : c \in Range(block.chunks)}
         /\ Filled(block) = UNION {Payload(c) : c \in Range(block.chunks)}
BY DEF Occupied, Filled, Bytes, Payload, Range

LEMMA ChunkCounts ==
  ASSUME NEW c \in ChunkType
  PROVE  /\ Payload(c) \subseteq Bytes(c)
         /\ IsFiniteSet(Bytes(c)) /\ Cardinality(Bytes(c)) = c.size + ChunkHeader
         /\ IsFiniteSet(Payload(c)) /\ Cardinality(Payload(c)) = c.size
<1>1. /\ c.off \in Nat /\ c.size \in Nat /\ ChunkHeader \in Nat
      /\ ChunkEnd(c) = c.off + ChunkHeader + c.size
  BY Layout DEF ChunkType, ChunkEnd
<1>2. Payload(c) \subseteq Bytes(c)
  BY <1>1 DEF Payload, Bytes, Extent
<1>3. /\ IsFiniteSet(Bytes(c))
      /\ Cardinality(Bytes(c)) = ChunkEnd(c) - c.off
  BY <1>1, ExtentCounts DEF Bytes
<1>4. /\ IsFiniteSet(Payload(c))
      /\ Cardinality(Payload(c)) = ChunkEnd(c) - (c.off + ChunkHeader)
  BY <1>1, ExtentCounts DEF Payload
<1> QED BY <1>1, <1>2, <1>3, <1>4

\* A block with a chunk put behind its j-th.
WithChunk(block, j, c) ==
  [block EXCEPT !.chunks = InsertAt(@, j + 1, c), !.used = @ + c.size + ChunkHeader]

LEMMA ChunkInserted ==
  ASSUME NEW block, LaidOut(block), NEW c \in ChunkType,
         NEW j \in Gaps(block, c.size + ChunkHeader), c.off = GapStart(block, j)
  PROVE  /\ LaidOut(WithChunk(block, j, c))
         /\ WithChunk(block, j, c).size = block.size
         /\ Range(WithChunk(block, j, c).chunks) = Range(block.chunks) \cup {c}
         /\ \A x \in Range(block.chunks) : x.off # c.off
         /\ Cardinality(Filled(WithChunk(block, j, c))) = Cardinality(Filled(block)) + c.size
         /\ {i \in DOMAIN block.chunks : block.chunks[i].off < c.off} = 1..j
<1> DEFINE n == Len(block.chunks)
           new == WithChunk(block, j, c)
           need == c.size + ChunkHeader
<1>1. InPlace(block) /\ block.used = BlockHeader + Cardinality(Occupied(block))
  BY DEF LaidOut
<1>2. /\ block \in BlockType /\ block.chunks \in Seq(ChunkType) /\ n \in Nat
      /\ block.size \in Nat /\ block.used \in Nat
      /\ DOMAIN block.chunks = 1..n
  BY <1>1 DEF InPlace, BlockType
<1>3. /\ c.off \in Nat /\ c.size \in Nat /\ ChunkHeader \in Nat \ {0} /\ need \in Nat
      /\ ChunkEnd(c) = c.off + need
  BY Layout DEF ChunkType, ChunkEnd
<1>4. /\ j \in 0..n
      /\ BlockHeader <= c.off /\ ChunkEnd(c) <= block.size
      /\ \A i \in 1..n :
           /\ i <= j => ChunkEnd(block.chunks[i]) <= c.off
           /\ i > j => ChunkEnd(c) <= block.chunks[i].off
  BY <1>1, <1>3, GapIsFree
<1>5. \A i \in 1..n :
        /\ block.chunks[i] \in ChunkType
        /\ block.chunks[i].off \in Nat /\ ChunkEnd(block.chunks[i]) \in Nat
        /\ block.chunks[i].off < ChunkEnd(block.chunks[i])
  BY <1>1, ChunkTyped
<1>6. /\ new.chunks \in Seq(ChunkType) /\ Len(new.chunks) = n + 1
      /\ \A k \in 1..(n + 1) :
           new.chunks[k] = IF k < j + 1 THEN block.chunks[k] ELSE
                           IF k = j + 1 THEN c ELSE block.chunks[k - 1]
  <2>1. new.chunks = InsertAt(block.chunks, j + 1, c)
    BY <1>2 DEF WithChunk, BlockType
  <2>2. j + 1 \in 1..(n + 1)
    BY <1>2, <1>4
  <2>3. block.chunks \in Seq(ChunkType) /\ n = Len(block.chunks)
    BY <1>2
  <2> DEFINE old == block.chunks
             at == j + 1
             longer == InsertAt(old, at, c)
  <2>4. old \in Seq(ChunkType) /\ at \in 1..(Len(old) + 1)
    BY <2>2, <2>3
  <2> HIDE DEF old, at
  <2>5. /\ longer \in Seq(ChunkType) /\ Len(longer) = Len(old) + 1
        /\ \A k \in 1..(Len(old) + 1) :
             longer[k] = IF k < at THEN old[k] ELSE IF k = at THEN c ELSE old[k - 1]
    BY <2>4, InsertAtIs
  <2> QED BY <2>1, <2>5 DEF old, at
<1>7. new \in BlockType /\ new.size = block.size /\ new.used = block.used + c.size + ChunkHeader
  <2>1. new.size = block.size /\ new.used = block.used + c.size + ChunkHeader
    BY <1>2 DEF WithChunk, BlockType
  <2>2. InsertAt(block.chunks, j + 1, c) \in Seq(ChunkType)
    BY <1>2, <1>6 DEF WithChunk, BlockType
  <2>3. block.used + c.size + ChunkHeader \in Nat
    BY <1>2, <1>3
  <2> QED BY <1>2, <2>1, <2>2, <2>3 DEF WithChunk, BlockType
<1> HIDE DEF new
<1>20. /\ \A i \in 1..n : block.chunks[i] \in Range(block.chunks)
       /\ \A x \in Range(block.chunks) : \E i \in 1..n : x = block.chunks[i]
       /\ \A k \in 1..(n + 1) : new.chunks[k] \in Range(new.chunks)
       /\ \A x \in Range(new.chunks) : \E k \in 1..(n + 1) : x = new.chunks[k]
  <2>1. /\ \A i \in 1..Len(block.chunks) : block.chunks[i] \in Range(block.chunks)
        /\ \A x \in Range(block.chunks) : \E i \in 1..Len(block.chunks) : x = block.chunks[i]
    BY <1>2, ChunksOf
  <2>2. /\ \A i \in 1..Len(new.chunks) : new.chunks[i] \in Range(new.chunks)
        /\ \A x \in Range(new.chunks) : \E i \in 1..Len(new.chunks) : x = new.chunks[i]
    BY <1>6, ChunksOf
  <2> QED BY <1>6, <2>1, <2>2
<1>8. Range(new.chunks) = Range(block.chunks) \cup {c}
  <2>1. ASSUME NEW k \in 1..(n + 1) PROVE new.chunks[k] \in Range(block.chunks) \cup {c}
    <3>1. k < j + 1 => k \in 1..n
      BY <1>2, <1>4
    <3>2. k > j + 1 => k - 1 \in 1..n
      BY <1>2, <1>4
    <3>3. \/ k < j + 1 /\ new.chunks[k] = block.chunks[k]
          \/ new.chunks[k] = c
          \/ k > j + 1 /\ new.chunks[k] = block.chunks[k - 1]
      <4>1. k < j + 1 \/ k = j + 1 \/ (k > j + 1 /\ ~(k < j + 1) /\ k # j + 1)
        BY <1>2, <1>4
      <4> QED BY <1>6, <4>1
    <3> QED BY <1>20, <3>1, <3>2, <3>3
  <2>2. ASSUME NEW i \in 1..n PROVE \E k \in 1..(n + 1) : new.chunks[k] = block.chunks[i]
    <3>1. CASE i <= j
      <4>1. i \in 1..(n + 1) /\ i < j + 1
        BY <1>2, <1>4, <3>1
      <4> QED BY <1>6, <4>1
    <3>2. CASE i > j
      <4>1. i + 1 \in 1..(n + 1) /\ ~(i + 1 < j + 1) /\ i + 1 # j + 1 /\ (i + 1) - 1 = i
        BY <1>2, <1>4, <3>2
      <4> QED BY <1>6, <4>1
    <3> QED BY <1>4, <3>1, <3>2
  <2>3. j + 1 \in 1..(n + 1) /\ new.chunks[j + 1] = c
    BY <1>2, <1>4, <1>6
  <2>4. Range(new.chunks) \subseteq Range(block.chunks) \cup {c}
    BY <1>6, <2>1, <1>20
  <2>5. Range(block.chunks) \cup {c} \subseteq Range(new.chunks)
    <3>1. ASSUME NEW x \in Range(block.chunks) PROVE x \in Range(new.chunks)
      <4>1. PICK i \in 1..n : x = block.chunks[i]
        BY <1>20
      <4>2. PICK k \in 1..(n + 1) : new.chunks[k] = block.chunks[i]
        BY <2>2
      <4>3. new.chunks[k] \in Range(new.chunks)
        BY <1>20
      <4> QED BY <4>1, <4>2, <4>3
    <3>2. c \in Range(new.chunks)
      BY <2>3, <1>20
    <3> QED BY <3>1, <3>2
  <2> QED BY <2>4, <2>5
<1>9. /\ \A x \in Range(block.chunks) : x.off # c.off
      /\ \A x \in Range(block.chunks) : Bytes(x) \cap Bytes(c) = {}
  <2>1. ASSUME NEW i \in 1..n
        PROVE  /\ block.chunks[i].off # c.off
               /\ Bytes(block.chunks[i]) \cap Bytes(c) = {}
    <3>1. ChunkEnd(block.chunks[i]) <= c.off \/ ChunkEnd(c) <= block.chunks[i].off
      BY <1>4
    <3>2. /\ block.chunks[i].off \in Nat /\ ChunkEnd(block.chunks[i]) \in Nat
          /\ block.chunks[i].off < ChunkEnd(block.chunks[i])
          /\ ChunkEnd(c) \in Nat /\ c.off < ChunkEnd(c)
      BY <1>3, <1>5
    <3>3. block.chunks[i].off # c.off
      BY <1>3, <3>1, <3>2
    <3>4. c.off \in Nat
      BY <1>3
    <3> QED BY <3>1, <3>2, <3>3, <3>4 DEF Bytes, Extent
  <2> QED BY <2>1, <1>20
<1>10. InPlace(new)
  <2>1. ASSUME NEW k \in 1..(n + 1)
        PROVE  BlockHeader <= new.chunks[k].off /\ ChunkEnd(new.chunks[k]) <= new.size
    <3>1. new.chunks[k] \in Range(block.chunks) \cup {c}
      BY <1>8, <1>20
    <3>2. \A i \in 1..n : BlockHeader <= block.chunks[i].off /\ ChunkEnd(block.chunks[i]) <= block.size
      BY <1>1 DEF InPlace
    <3> QED BY <1>2, <1>4, <1>7, <3>1, <3>2, <1>20
  <2>2. ASSUME NEW i \in 1..(n + 1), NEW k \in 1..(n + 1), i < k
        PROVE  ChunkEnd(new.chunks[i]) <= new.chunks[k].off
    <3>1. CASE k < j + 1
      <4>1. i \in 1..n /\ k \in 1..n /\ i < j + 1
        BY <1>2, <1>4, <2>2, <3>1
      <4>2. new.chunks[i] = block.chunks[i] /\ new.chunks[k] = block.chunks[k]
        BY <1>6, <3>1, <4>1
      <4> QED BY <1>1, <2>2, <4>1, <4>2 DEF InPlace
    <3>2. CASE k = j + 1
      <4>1. i \in 1..n /\ i <= j /\ new.chunks[i] = block.chunks[i] /\ new.chunks[k] = c
        BY <1>2, <1>4, <1>6, <2>2, <3>2
      <4> QED BY <1>4, <4>1
    <3>3. CASE k > j + 1 /\ i < j + 1
      <4>1. /\ i \in 1..n /\ k - 1 \in 1..n /\ i < k - 1
            /\ new.chunks[i] = block.chunks[i] /\ new.chunks[k] = block.chunks[k - 1]
        BY <1>2, <1>4, <1>6, <3>3
      <4> QED BY <1>1, <4>1 DEF InPlace
    <3>4. CASE k > j + 1 /\ i = j + 1
      <4>1. /\ k - 1 \in 1..n /\ k - 1 > j
            /\ new.chunks[i] = c /\ new.chunks[k] = block.chunks[k - 1]
        BY <1>2, <1>4, <1>6, <3>4
      <4> QED BY <1>4, <4>1
    <3>5. CASE k > j + 1 /\ i > j + 1
      <4>1. /\ i - 1 \in 1..n /\ k - 1 \in 1..n /\ i - 1 < k - 1
            /\ new.chunks[i] = block.chunks[i - 1] /\ new.chunks[k] = block.chunks[k - 1]
        BY <1>2, <1>4, <1>6, <2>2, <3>5
      <4> QED BY <1>1, <4>1 DEF InPlace
    <3> QED BY <1>4, <2>2, <3>1, <3>2, <3>3, <3>4, <3>5
  <2>3. BlockHeader <= block.size
    BY <1>1 DEF InPlace
  <2> QED BY <1>6, <1>7, <2>1, <2>2, <2>3 DEF InPlace
<1>11. Occupied(new) = Occupied(block) \cup Bytes(c) /\ Filled(new) = Filled(block) \cup Payload(c)
  BY <1>8, ByChunk
<1>12. Occupied(block) \cap Bytes(c) = {} /\ Filled(block) \cap Payload(c) = {}
  <2>1. Occupied(block) \cap Bytes(c) = {}
    BY <1>9, ByChunk
  <2>2. Payload(c) \subseteq Bytes(c) /\ Filled(block) \subseteq Occupied(block)
    BY <1>1, ChunkCounts, OccupiedFits
  <2> QED BY <2>1, <2>2
<1>13. /\ IsFiniteSet(Occupied(block)) /\ IsFiniteSet(Filled(block))
       /\ IsFiniteSet(Bytes(c)) /\ Cardinality(Bytes(c)) = c.size + ChunkHeader
       /\ IsFiniteSet(Payload(c)) /\ Cardinality(Payload(c)) = c.size
  BY <1>1, ChunkCounts, OccupiedFits
<1>14. /\ Cardinality(Occupied(new)) = Cardinality(Occupied(block)) + (c.size + ChunkHeader)
       /\ Cardinality(Occupied(block)) \in Nat
  BY <1>11, <1>12, <1>13, Adds
<1>15. Cardinality(Filled(new)) = Cardinality(Filled(block)) + c.size
  BY <1>11, <1>12, <1>13, Adds
<1>16. new.used = BlockHeader + Cardinality(Occupied(new))
  BY <1>1, <1>2, <1>3, <1>7, <1>14, Layout
<1>17. {i \in DOMAIN block.chunks : block.chunks[i].off < c.off} = 1..j
  <2>1. \A i \in 1..n : block.chunks[i].off < c.off <=> i <= j
    <3> TAKE i \in 1..n
    <3>1. ChunkEnd(c) \in Nat /\ c.off < ChunkEnd(c)
      BY <1>3
    <3>2. block.chunks[i].off \in Nat
      BY <1>1, ChunkTyped
    <3>3. /\ i <= j => ChunkEnd(block.chunks[i]) <= c.off
          /\ i > j => ChunkEnd(c) <= block.chunks[i].off
          /\ block.chunks[i].off < ChunkEnd(block.chunks[i])
          /\ ChunkEnd(block.chunks[i]) \in Nat /\ c.off \in Nat
      BY <1>3, <1>4, <1>5
    <3>4. i \in Int /\ j \in Int
      BY <1>2, <1>4
    <3>5. i <= j => block.chunks[i].off < c.off
      BY <3>2, <3>3
    <3>6. ~(i <= j) => ~(block.chunks[i].off < c.off)
      BY <3>1, <3>2, <3>3, <3>4
    <3> QED BY <3>5, <3>6
  <2> QED BY <1>2, <1>4, <2>1
<1>18. LaidOut(new)
  BY <1>10, <1>16 DEF LaidOut
<1> USE DEF new
<1> QED BY <1>7, <1>8, <1>9, <1>15, <1>17, <1>18

\* A block with its i-th chunk taken out.
WithoutChunk(block, i) ==
  [block EXCEPT !.chunks = RemoveAt(@, i), !.used = @ - (block.chunks[i].size + ChunkHeader)]

LEMMA ChunkRemoved ==
  ASSUME NEW block, LaidOut(block), NEW i \in 1..Len(block.chunks)
  PROVE  /\ LaidOut(WithoutChunk(block, i))
         /\ WithoutChunk(block, i).size = block.size
         /\ Range(WithoutChunk(block, i).chunks) = Range(block.chunks) \ {block.chunks[i]}
         /\ Cardinality(Filled(block)) =
              Cardinality(Filled(WithoutChunk(block, i))) + block.chunks[i].size
<1> DEFINE n == Len(block.chunks)
           c == block.chunks[i]
           new == WithoutChunk(block, i)
<1>1. InPlace(block) /\ block.used = BlockHeader + Cardinality(Occupied(block))
  BY DEF LaidOut
<1>2. /\ block \in BlockType /\ block.chunks \in Seq(ChunkType) /\ n \in Nat
      /\ block.size \in Nat /\ block.used \in Nat
  BY <1>1 DEF InPlace, BlockType
<1>3. /\ c \in ChunkType /\ c.off \in Nat /\ c.size \in Nat /\ ChunkHeader \in Nat \ {0}
  BY <1>1, ChunkTyped, Layout
<1>4. /\ new.chunks \in Seq(ChunkType) /\ Len(new.chunks) = n - 1
      /\ \A k \in 1..(n - 1) :
           new.chunks[k] = IF k < i THEN block.chunks[k] ELSE block.chunks[k + 1]
  <2>1. new.chunks = RemoveAt(block.chunks, i)
    BY <1>2 DEF WithoutChunk, BlockType
  <2>2. block.chunks \in Seq(ChunkType)
    BY <1>2
  <2> DEFINE old == block.chunks
             shorter == RemoveAt(old, i)
  <2>3. old \in Seq(ChunkType) /\ i \in 1..Len(old)
    BY <2>2
  <2> HIDE DEF old
  <2>4. /\ shorter \in Seq(ChunkType) /\ Len(shorter) = Len(old) - 1
        /\ \A k \in 1..(Len(old) - 1) :
             shorter[k] = IF k < i THEN old[k] ELSE old[k + 1]
    BY <2>3, RemoveAtIs
  <2> QED BY <2>1, <2>4 DEF old
<1>5. new.size = block.size /\ new.used = block.used - (c.size + ChunkHeader)
  BY <1>2 DEF WithoutChunk, BlockType
<1> HIDE DEF new
<1>6. /\ \A k \in 1..n : block.chunks[k] \in Range(block.chunks)
      /\ \A x \in Range(block.chunks) : \E k \in 1..n : x = block.chunks[k]
      /\ \A k \in 1..(n - 1) : new.chunks[k] \in Range(new.chunks)
      /\ \A x \in Range(new.chunks) : \E k \in 1..(n - 1) : x = new.chunks[k]
  <2>1. /\ \A k \in 1..Len(block.chunks) : block.chunks[k] \in Range(block.chunks)
        /\ \A x \in Range(block.chunks) : \E k \in 1..Len(block.chunks) : x = block.chunks[k]
    BY <1>2, ChunksOf
  <2>2. /\ \A k \in 1..Len(new.chunks) : new.chunks[k] \in Range(new.chunks)
        /\ \A x \in Range(new.chunks) : \E k \in 1..Len(new.chunks) : x = new.chunks[k]
    BY <1>4, ChunksOf
  <2> QED BY <1>4, <2>1, <2>2
<1>7. \A k \in 1..n : k # i => block.chunks[k] # c
  BY <1>1, OffsetsDiffer
<1>8. Range(new.chunks) = Range(block.chunks) \ {c}
  <2>1. ASSUME NEW k \in 1..(n - 1) PROVE new.chunks[k] \in Range(block.chunks) \ {c}
    <3>1. CASE k < i
      <4>1. k \in 1..n /\ k # i /\ new.chunks[k] = block.chunks[k]
        BY <1>2, <1>4, <3>1
      <4> QED BY <1>6, <1>7, <4>1
    <3>2. CASE ~(k < i)
      <4>1. k + 1 \in 1..n /\ k + 1 # i /\ new.chunks[k] = block.chunks[k + 1]
        BY <1>2, <1>4, <3>2
      <4> QED BY <1>6, <1>7, <4>1
    <3> QED BY <3>1, <3>2
  <2>2. ASSUME NEW k \in 1..n, k # i PROVE block.chunks[k] \in Range(new.chunks)
    <3>1. CASE k < i
      <4>1. k \in 1..(n - 1) /\ new.chunks[k] = block.chunks[k]
        BY <1>2, <1>4, <3>1
      <4> QED BY <1>6, <4>1
    <3>2. CASE ~(k < i)
      <4>1. k - 1 \in 1..(n - 1) /\ ~(k - 1 < i) /\ (k - 1) + 1 = k
        BY <1>2, <2>2, <3>2
      <4>2. new.chunks[k - 1] = block.chunks[k]
        BY <1>4, <4>1
      <4>3. new.chunks[k - 1] \in Range(new.chunks)
        BY <1>6, <4>1
      <4> QED BY <4>2, <4>3
    <3> QED BY <3>1, <3>2
  <2>3. Range(new.chunks) \subseteq Range(block.chunks) \ {c}
    <3>1. ASSUME NEW x \in Range(new.chunks) PROVE x \in Range(block.chunks) \ {c}
      <4>1. PICK k \in 1..(n - 1) : x = new.chunks[k]
        BY <1>6
      <4> QED BY <2>1, <4>1
    <3> QED BY <3>1
  <2>4. Range(block.chunks) \ {c} \subseteq Range(new.chunks)
    <3>1. ASSUME NEW x \in Range(block.chunks), x # c PROVE x \in Range(new.chunks)
      <4>1. PICK k \in 1..n : x = block.chunks[k]
        BY <1>6
      <4> QED BY <2>2, <3>1, <4>1
    <3> QED BY <3>1
  <2> QED BY <2>3, <2>4
<1>9. ASSUME NEW x \in Range(new.chunks) PROVE Bytes(x) \cap Bytes(c) = {}
  <2>1. PICK k \in 1..n : x = block.chunks[k] /\ k # i
    BY <1>6, <1>8, <1>9
  <2>2. \/ ChunkEnd(x) <= c.off
        \/ ChunkEnd(c) <= x.off
    <3>1. k < i \/ i < k
      BY <2>1
    <3> QED BY <1>1, <2>1, <3>1 DEF InPlace
  <2>3. /\ x.off \in Nat /\ ChunkEnd(x) \in Nat /\ x.off < ChunkEnd(x)
        /\ c.off \in Nat /\ ChunkEnd(c) \in Nat /\ c.off < ChunkEnd(c)
    BY <1>1, <2>1, ChunkTyped
  <2> QED BY <2>2, <2>3 DEF Bytes, Extent
<1>10. /\ Occupied(block) = Occupied(new) \cup Bytes(c) /\ Occupied(new) \cap Bytes(c) = {}
       /\ Filled(block) = Filled(new) \cup Payload(c) /\ Filled(new) \cap Payload(c) = {}
  <2>1. Range(block.chunks) = Range(new.chunks) \cup {c}
    BY <1>6, <1>8
  <2>2. Occupied(block) = Occupied(new) \cup Bytes(c) /\ Filled(block) = Filled(new) \cup Payload(c)
    BY <2>1, ByChunk
  <2>3. Occupied(new) \cap Bytes(c) = {}
    BY <1>9, ByChunk
  <2>4. ASSUME NEW x \in Range(new.chunks) PROVE Payload(x) \subseteq Bytes(x)
    BY <1>6, <1>4, ChunksOf, ChunkCounts
  <2>5. Filled(new) \subseteq Occupied(new)
    BY <2>4, ByChunk
  <2>6. Payload(c) \subseteq Bytes(c)
    BY <1>3, ChunkCounts
  <2> QED BY <2>2, <2>3, <2>5, <2>6
<1>11. /\ IsFiniteSet(Occupied(new)) /\ IsFiniteSet(Filled(new))
       /\ IsFiniteSet(Bytes(c)) /\ Cardinality(Bytes(c)) = c.size + ChunkHeader
       /\ IsFiniteSet(Payload(c)) /\ Cardinality(Payload(c)) = c.size
  <2>1. IsFiniteSet(Occupied(block)) /\ IsFiniteSet(Filled(block))
    BY <1>1, OccupiedFits
  <2>2. Occupied(new) \subseteq Occupied(block) /\ Filled(new) \subseteq Filled(block)
    BY <1>10
  <2> QED BY <1>3, <2>1, <2>2, ChunkCounts, FS_Subset
<1>12. /\ Cardinality(Occupied(block)) = Cardinality(Occupied(new)) + (c.size + ChunkHeader)
       /\ Cardinality(Occupied(new)) \in Nat
  BY <1>10, <1>11, Adds
<1>13. Cardinality(Filled(block)) = Cardinality(Filled(new)) + c.size
  BY <1>10, <1>11, Adds
<1>14. new.used = BlockHeader + Cardinality(Occupied(new)) /\ new.used \in Nat
  <2> DEFINE left == Cardinality(Occupied(new))
  <2>1. left \in Nat /\ BlockHeader \in Nat /\ c.size + ChunkHeader \in Nat
    BY <1>3, <1>12, Layout
  <2>2. block.used = BlockHeader + (left + (c.size + ChunkHeader))
    BY <1>1, <1>12
  <2> HIDE DEF left
  <2>3. block.used - (c.size + ChunkHeader) = BlockHeader + left
    BY <2>1, <2>2
  <2> QED BY <1>5, <2>1, <2>3 DEF left
<1>15. new \in BlockType
  <2>1. RemoveAt(block.chunks, i) \in Seq(ChunkType)
    BY <1>2, <1>4 DEF WithoutChunk, BlockType, new
  <2> QED BY <1>2, <1>5, <1>14, <2>1 DEF WithoutChunk, BlockType, new
<1>16. InPlace(new)
  <2>1. ASSUME NEW k \in 1..(n - 1)
        PROVE  BlockHeader <= new.chunks[k].off /\ ChunkEnd(new.chunks[k]) <= new.size
    <3>1. k \in 1..n /\ k + 1 \in 1..n
      BY <1>2
    <3> QED BY <1>1, <1>4, <1>5, <3>1 DEF InPlace
  <2>2. ASSUME NEW x \in 1..(n - 1), NEW y \in 1..(n - 1), x < y
        PROVE  ChunkEnd(new.chunks[x]) <= new.chunks[y].off
    <3> n \in Nat /\ i \in Int
      BY <1>2
    <3>1. /\ x \in 1..n /\ x + 1 \in 1..n /\ y \in 1..n /\ y + 1 \in 1..n
          /\ x < y + 1 /\ x + 1 < y + 1
      BY <2>2
    <3>2. /\ new.chunks[x] = IF x < i THEN block.chunks[x] ELSE block.chunks[x + 1]
          /\ new.chunks[y] = IF y < i THEN block.chunks[y] ELSE block.chunks[y + 1]
          /\ ~(x < i) => ~(y < i)
      <4>1. ~(x < i) => ~(y < i)
        BY <2>2
      <4> QED BY <1>4, <4>1
    <3> QED BY <1>1, <2>2, <3>1, <3>2 DEF InPlace
  <2>3. BlockHeader <= block.size
    BY <1>1 DEF InPlace
  <2> QED BY <1>4, <1>5, <1>15, <2>1, <2>2, <2>3 DEF InPlace
<1>17. LaidOut(new)
  BY <1>14, <1>16 DEF LaidOut
<1> USE DEF new
<1> QED BY <1>5, <1>8, <1>13, <1>17

-----------------------------------------------------------------------------
(* The blocks of a heap. *)

\* What is always right about the list, its blocks and the books.
HeapRight(h) ==
  /\ h \in HeapType
  /\ \A i, k \in 1..Len(h.list) : h.list[i] = h.list[k] => i = k
  /\ h.lost \cap Range(h.list) = {}
  /\ \A b \in Held(h) : LaidOut(h.blk[b])
  /\ h.best # NoBlock => h.best \in Held(h)
  /\ IsFiniteSet(InBuffers(h)) /\ h.inUsed = Cardinality(InBuffers(h))
  /\ IsFiniteSet(InBlocks(h)) /\ h.allocated = Cardinality(InBlocks(h))

\* The list of a heap and the fields of a linked block.
LEMMA ListOf ==
  ASSUME NEW h, h \in HeapType
  PROVE  /\ h.list \in Seq(BlockIds) /\ Len(h.list) \in Nat
         /\ DOMAIN h.list = 1..Len(h.list)
         /\ Range(h.list) \subseteq BlockIds
         /\ \A i \in 1..Len(h.list) : h.list[i] \in BlockIds /\ h.list[i] \in Range(h.list)
         /\ \A x \in Range(h.list) : x \in BlockIds /\ \E i \in 1..Len(h.list) : x = h.list[i]
         /\ h.blk \in [BlockIds -> BlockType]
         /\ h.inUsed \in Nat /\ h.allocated \in Nat /\ h.best \in BlockIds \cup {NoBlock}
         /\ h.lost \subseteq BlockIds /\ Held(h) \subseteq BlockIds
         /\ Range(h.list) \subseteq Held(h) /\ h.lost \subseteq Held(h)
<1>1. /\ h.list \in Seq(BlockIds) /\ h.blk \in [BlockIds -> BlockType]
      /\ h.inUsed \in Nat /\ h.allocated \in Nat /\ h.best \in BlockIds \cup {NoBlock}
      /\ h.lost \subseteq BlockIds
  BY DEF HeapType
<1> DEFINE s == h.list
<1>2. s \in Seq(BlockIds)
  BY <1>1
<1> HIDE DEF s
<1>3. /\ DOMAIN s = 1..Len(s) /\ Len(s) \in Nat
      /\ \A i \in 1..Len(s) : s[i] \in BlockIds /\ s[i] \in Range(s)
      /\ \A x \in Range(s) : x \in BlockIds /\ \E i \in 1..Len(s) : x = s[i]
  BY <1>2, RangeOf, Zenon
<1>4. Range(s) \subseteq BlockIds
  BY <1>3
<1> QED BY <1>1, <1>3, <1>4 DEF s, Held

\* What a block adds to the bytes in use and to those allocated.
UsedRow(h, b) == {b} \X Filled(h.blk[b])
SizeRow(h, b) == {b} \X Extent(0, h.blk[b].size)

LEMMA Rows ==
  ASSUME NEW h, HeapRight(h), NEW b \in Held(h)
  PROVE  /\ h.blk[b] \in BlockType /\ LaidOut(h.blk[b]) /\ InPlace(h.blk[b])
         /\ h.blk[b].size \in Nat /\ h.blk[b].used \in Nat
         /\ IsFiniteSet(UsedRow(h, b)) /\ Cardinality(UsedRow(h, b)) = Cardinality(Filled(h.blk[b]))
         /\ IsFiniteSet(SizeRow(h, b)) /\ Cardinality(SizeRow(h, b)) = h.blk[b].size
<1>1. LaidOut(h.blk[b]) /\ InPlace(h.blk[b]) /\ h.blk[b] \in BlockType
  BY DEF HeapRight, LaidOut, InPlace
<1>2. h.blk[b].size \in Nat /\ h.blk[b].used \in Nat
  BY <1>1 DEF BlockType
<1>3. IsFiniteSet(Filled(h.blk[b]))
  BY <1>1, OccupiedFits
<1>4. /\ IsFiniteSet(Extent(0, h.blk[b].size))
      /\ Cardinality(Extent(0, h.blk[b].size)) = h.blk[b].size
  <2>1. /\ IsFiniteSet(Extent(0, h.blk[b].size))
        /\ Cardinality(Extent(0, h.blk[b].size)) = h.blk[b].size - 0
    BY <1>2, ExtentCounts
  <2> QED BY <1>2, <2>1
<1>5. IsFiniteSet(UsedRow(h, b)) /\ Cardinality(UsedRow(h, b)) = Cardinality(Filled(h.blk[b]))
  BY <1>3, RowCounts DEF UsedRow
<1>6. IsFiniteSet(SizeRow(h, b)) /\ Cardinality(SizeRow(h, b)) = h.blk[b].size
  BY <1>4, RowCounts DEF SizeRow
<1> QED BY <1>1, <1>2, <1>5, <1>6

\* When one block's chunks change and m_nInUsed with them, the heap is right again.
LEMMA OneBlockChanges ==
  ASSUME NEW h, HeapRight(h), NEW g, g \in HeapType, NEW b \in Held(h),
         g.list = h.list, g.lost = h.lost, g.allocated = h.allocated,
         g.best # NoBlock => g.best \in Held(h),
         \A x \in BlockIds \ {b} : g.blk[x] = h.blk[x],
         LaidOut(g.blk[b]), g.blk[b].size = h.blk[b].size,
         h.inUsed + Cardinality(Filled(g.blk[b])) = g.inUsed + Cardinality(Filled(h.blk[b]))
  PROVE  HeapRight(g)
<1> DEFINE others == UNION {UsedRow(h, x) : x \in Held(h) \ {b}}
<1>1. h \in HeapType /\ Held(g) = Held(h)
  BY DEF HeapRight, Held
<1>2. \A x \in Held(h) \ {b} : g.blk[x] = h.blk[x]
  BY <1>1, ListOf
<1>3. \A x \in Held(g) : LaidOut(g.blk[x])
  BY <1>1, <1>2 DEF HeapRight
<1>4. InBuffers(h) = others \cup UsedRow(h, b) /\ others \cap UsedRow(h, b) = {}
  BY DEF InBuffers, UsedRow
<1>5. InBuffers(g) = others \cup UsedRow(g, b) /\ others \cap UsedRow(g, b) = {}
  <2>1. InBuffers(g) = UNION {UsedRow(g, x) : x \in Held(h)}
    BY <1>1 DEF InBuffers, UsedRow
  <2>2. \A x \in Held(h) \ {b} : UsedRow(g, x) = UsedRow(h, x)
    BY <1>2 DEF UsedRow
  <2>3. others \cap UsedRow(g, b) = {}
    BY DEF UsedRow
  <2> QED BY <2>1, <2>2, <2>3
<1>6. InBlocks(g) = InBlocks(h)
  <2>1. \A x \in Held(h) : g.blk[x].size = h.blk[x].size
    BY <1>2
  <2> QED BY <1>1, <2>1 DEF InBlocks
<1>7. /\ IsFiniteSet(UsedRow(h, b)) /\ Cardinality(UsedRow(h, b)) = Cardinality(Filled(h.blk[b]))
  BY Rows
<1>8. /\ IsFiniteSet(UsedRow(g, b)) /\ Cardinality(UsedRow(g, b)) = Cardinality(Filled(g.blk[b]))
  <2>1. IsFiniteSet(Filled(g.blk[b]))
    BY OccupiedFits DEF LaidOut
  <2> QED BY <2>1, RowCounts DEF UsedRow
<1> HIDE DEF others
<1>9. IsFiniteSet(others)
  <2>1. IsFiniteSet(InBuffers(h)) /\ others \subseteq InBuffers(h)
    BY <1>4 DEF HeapRight
  <2> QED BY <2>1, FS_Subset
<1>10. /\ Cardinality(InBuffers(h)) = Cardinality(others) + Cardinality(Filled(h.blk[b]))
       /\ Cardinality(others) \in Nat /\ Cardinality(Filled(h.blk[b])) \in Nat
  BY <1>4, <1>7, <1>9, Adds
<1>11. /\ Cardinality(InBuffers(g)) = Cardinality(others) + Cardinality(Filled(g.blk[b]))
       /\ Cardinality(Filled(g.blk[b])) \in Nat /\ IsFiniteSet(InBuffers(g))
  <2> DEFINE row == UsedRow(g, b)
  <2>1. IsFiniteSet(row) /\ others \cap row = {}
    BY <1>5, <1>8
  <2> HIDE DEF row
  <2>2. /\ IsFiniteSet(others \cup row)
        /\ Cardinality(others \cup row) = Cardinality(others) + Cardinality(row)
        /\ Cardinality(row) \in Nat
    BY <1>9, <2>1, Adds
  <2> QED BY <1>5, <1>8, <2>2 DEF row
<1>12. g.inUsed = Cardinality(InBuffers(g))
  <2>1. h.inUsed = Cardinality(InBuffers(h)) /\ g.inUsed \in Nat
    BY DEF HeapRight, HeapType
  <2> QED BY <1>10, <1>11, <2>1
<1> QED BY <1>1, <1>3, <1>6, <1>11, <1>12 DEF HeapRight

-----------------------------------------------------------------------------
(* A chunk goes into a gap. *)

\* The padding of a pointer is less than the alignment.
LEMMA PadIs ==
  ASSUME NEW off \in Nat
  PROVE  Pad(off) \in 0..(ALIGNMENT - 1)
<1>1. ALIGNMENT \in Nat \ {0} /\ off % ALIGNMENT \in 0..(ALIGNMENT - 1)
  BY Layout
<1> DEFINE rest == ALIGNMENT - (off % ALIGNMENT)
<1>2. rest \in Nat
  BY <1>1
<1> HIDE DEF rest
<1>3. rest % ALIGNMENT \in 0..(ALIGNMENT - 1)
  BY <1>1, <1>2
<1> QED BY <1>3 DEF rest, Pad

\* What an update of one block and of m_nInUsed leaves alone.
SetChunks(block, chunks, used) == [block EXCEPT !.chunks = chunks, !.used = used]
SetBlock(h, b, chunks, used, inUsed) ==
  [h EXCEPT !.blk[b].chunks = chunks, !.blk[b].used = used, !.inUsed = inUsed]

LEMMA BlockSet ==
  ASSUME NEW h, h \in HeapType, NEW b \in BlockIds, NEW chunks, NEW used, NEW inUsed,
         NEW g, g = SetBlock(h, b, chunks, used, inUsed)
  PROVE  /\ g.list = h.list /\ g.lost = h.lost /\ g.best = h.best /\ g.allocated = h.allocated
         /\ g.inUsed = inUsed
         /\ \A x \in BlockIds \ {b} : g.blk[x] = h.blk[x]
         /\ g.blk[b] = SetChunks(h.blk[b], chunks, used)
         /\ g.blk[b] \in BlockType /\ inUsed \in Nat => g \in HeapType
<1>1. /\ g.list = h.list /\ g.lost = h.lost /\ g.best = h.best /\ g.allocated = h.allocated
      /\ g.inUsed = inUsed
      /\ \A x \in BlockIds \ {b} : g.blk[x] = h.blk[x]
  BY DEF HeapType, SetBlock
<1>2. g.blk[b] = SetChunks(h.blk[b], chunks, used)
  BY DEF HeapType, SetBlock, SetChunks
<1>3. ASSUME g.blk[b] \in BlockType, inUsed \in Nat PROVE g \in HeapType
  BY <1>3 DEF HeapType, SetBlock
<1> QED BY <1>1, <1>2, <1>3

\* Heap g is heap h with chunk c added to block b.
Gained(h, g, b, c) ==
  /\ HeapRight(g)
  /\ g.list = h.list /\ g.lost = h.lost /\ g.best = h.best
  /\ \A x \in BlockIds \ {b} : g.blk[x] = h.blk[x]
  /\ Range(g.blk[b].chunks) = Range(h.blk[b].chunks) \cup {c}
  /\ \A x \in Range(h.blk[b].chunks) : x.off # c.off

\* PutChunk changes one block and the bytes in use.
LEMMA PutChunkIs ==
  ASSUME NEW h, HeapRight(h), NEW b \in Held(h), NEW c \in ChunkType,
         NEW j \in Gaps(h.blk[b], c.size + ChunkHeader), c.off = GapStart(h.blk[b], j)
  PROVE  Gained(h, PutChunk(h, b, c), b, c)
<1> DEFINE block == h.blk[b]
           new == WithChunk(block, j, c)
           g == PutChunk(h, b, c)
<1>1. h \in HeapType /\ b \in BlockIds
  BY ListOf DEF HeapRight
<1>2. LaidOut(block) /\ block \in BlockType
  BY Rows
<1>3. /\ LaidOut(new) /\ new.size = block.size
      /\ Range(new.chunks) = Range(block.chunks) \cup {c}
      /\ \A x \in Range(block.chunks) : x.off # c.off
      /\ Cardinality(Filled(new)) = Cardinality(Filled(block)) + c.size
      /\ {i \in DOMAIN block.chunks : block.chunks[i].off < c.off} = 1..j
  BY <1>2, ChunkInserted
<1>4. Cardinality({i \in DOMAIN h.blk[b].chunks : h.blk[b].chunks[i].off < c.off}) = j
  <2>1. j \in Nat
    <3>1. block.chunks \in Seq(ChunkType)
      BY <1>2 DEF BlockType
    <3>2. Len(block.chunks) \in Nat
      BY <3>1
    <3> QED BY <3>2 DEF Gaps
  <2>2. Cardinality(1..j) = IF 1 > j THEN 0 ELSE j - 1 + 1
    BY <2>1, FS_Interval
  <2>3. Cardinality(1..j) = j
    BY <2>1, <2>2
  <2> QED BY <1>3, <2>3, Zenon
<1> DEFINE longer == InsertAt(h.blk[b].chunks, j + 1, c)
           used == h.blk[b].used + c.size + ChunkHeader
           inUsed == h.inUsed + c.size
<1>5. g = SetBlock(h, b, longer, used, inUsed)
  BY <1>4 DEF PutChunk, SetBlock
<1>6. new = SetChunks(block, longer, used)
  BY DEF WithChunk, SetChunks
<1> HIDE DEF longer, used, inUsed, new, g
<1>7. /\ g.list = h.list /\ g.lost = h.lost /\ g.best = h.best /\ g.allocated = h.allocated
      /\ g.inUsed = inUsed
      /\ \A x \in BlockIds \ {b} : g.blk[x] = h.blk[x]
      /\ g.blk[b] = new
      /\ new \in BlockType /\ inUsed \in Nat => g \in HeapType
  BY <1>1, <1>5, <1>6, BlockSet
<1>8. inUsed \in Nat
  BY <1>1 DEF HeapType, ChunkType, inUsed
<1>9. g \in HeapType
  BY <1>3, <1>7, <1>8 DEF LaidOut, InPlace
<1>10. h.inUsed + Cardinality(Filled(g.blk[b])) = g.inUsed + Cardinality(Filled(h.blk[b]))
  <2>1. Cardinality(Filled(block)) \in Nat
    BY Rows, FS_CardinalityType
  <2>2. h.inUsed \in Nat /\ c.size \in Nat
    BY <1>1 DEF HeapType, ChunkType
  <2> QED BY <1>3, <1>7, <2>1, <2>2 DEF inUsed
<1>11. HeapRight(g)
  <2>1. g.best # NoBlock => g.best \in Held(h)
    BY <1>7 DEF HeapRight
  <2>2. LaidOut(g.blk[b]) /\ g.blk[b].size = h.blk[b].size
    BY <1>3, <1>7
  <2> QED BY <1>7, <1>9, <1>10, <2>1, <2>2, OneBlockChanges
<1> QED BY <1>3, <1>7, <1>11 DEF g, Gained

\* Chunk c is the one that buffer buf was handed out of.
Supports(c, buf) ==
  /\ c.off = buf.off
  /\ Pointer(buf.off) + buf.room <= ChunkEnd(c)
  /\ buf.written => c.requested = buf.len /\ buf.len <= buf.room

\* PlaceIn puts one chunk with room for the request into a block that has a gap for it,
\* and hands out a buffer of that chunk.
LEMMA PlaceInIs ==
  ASSUME NEW h, HeapRight(h), NEW b \in Held(h), NEW r \in Nat,
         Gaps(h.blk[b], Need(r)) # {},
         NEW owner \in {"client", "pool"}, NEW p \in PlaceIn(h, b, r, owner)
  PROVE  /\ p.buffer \in BufferType /\ p.buffer.block = b /\ p.buffer.owner = owner
         /\ ~p.buffer.found => Pad(p.buffer.off) # 0
         /\ \E c \in ChunkType :
              /\ Gained(h, p.h, b, c)
              /\ c.size + ChunkHeader = Need(r)
              /\ Supports(c, p.buffer)
<1> DEFINE block == h.blk[b]
           size == r + Overhead
           j == Min(Gaps(block, size + ChunkHeader))
           off == GapStart(block, j)
<1>1. size \in Nat /\ size + ChunkHeader = Need(r) /\ Need(r) \in Nat
  BY Layout DEF Need
<1>2. InPlace(block) /\ b \in BlockIds
  BY Rows, ListOf DEF HeapRight
<1>3. j \in Gaps(block, size + ChunkHeader)
  <2>1. Gaps(block, size + ChunkHeader) \subseteq Nat
    <3>1. Len(block.chunks) \in Nat
      BY <1>2 DEF InPlace, BlockType
    <3> QED BY <3>1 DEF Gaps
  <2>2. Gaps(block, size + ChunkHeader) # {}
    BY <1>1
  <2> QED BY <2>1, <2>2, MinExists
<1>4. off \in Nat
  BY <1>1, <1>2, <1>3, GapIsFree
<1> DEFINE fields == IF block.chunks = <<>> THEN Garbage ELSE {r}
<1>5. PICK requested \in fields, found \in ReadsBack(off) :
        p = Placed(h, b, off, r, owner, requested, found)
  BY DEF PlaceIn
<1> DEFINE c == [off |-> off, size |-> size, requested |-> requested]
<1> HIDE DEF block, size, j, off
<1>6. requested \in Nat /\ (block.chunks # <<>> => requested = r)
  BY <1>5, BoundsAssumption
<1>7. c \in ChunkType /\ c.off = off /\ c.size = size /\ c.requested = requested
  BY <1>1, <1>4, <1>6 DEF ChunkType
<1> HIDE DEF c
<1>8. p.h = PutChunk(h, b, c)
  BY <1>5 DEF c, size, Placed
<1>9. /\ p.buffer.block = b /\ p.buffer.off = off /\ p.buffer.room = r /\ p.buffer.len = r
      /\ p.buffer.owner = owner
      /\ p.buffer.found = found /\ p.buffer.written = (block.chunks # <<>>)
  BY <1>5 DEF block, Placed
<1>10. p.buffer \in BufferType
  <2>1. found \in BOOLEAN
    BY <1>5 DEF ReadsBack
  <2>2. (block.chunks # <<>>) \in BOOLEAN
    OBVIOUS
  <2> QED BY <1>2, <1>4, <1>5, <2>1, <2>2 DEF BufferType, Placed
<1>11. ~found => Pad(off) # 0
  BY <1>5 DEF ReadsBack
<1>12. Supports(c, p.buffer)
  <2>1. Pointer(off) + r <= ChunkEnd(c)
    <3>1. /\ Pad(off) \in 0..(ALIGNMENT - 1) /\ ALIGNMENT \in Nat
          /\ ChunkHeader \in Nat /\ Overhead = 2 * ALIGNMENT /\ ALIGN_INFO = ALIGNMENT
      BY <1>4, PadIs, Layout
    <3>2. ChunkEnd(c) = off + ChunkHeader + (r + Overhead)
      BY <1>7 DEF ChunkEnd, size
    <3>3. Pointer(off) = off + ChunkHeader + ALIGN_INFO + Pad(off)
      BY DEF Pointer
    <3> QED BY <1>4, <3>1, <3>2, <3>3
  <2>2. p.buffer.written => c.requested = p.buffer.len
    <3>1. p.buffer.written => block.chunks # <<>>
      BY <1>9, Zenon
    <3> QED BY <1>6, <1>7, <1>9, <3>1, Zenon
  <2>3. p.buffer.len <= p.buffer.room
    BY <1>9
  <2> QED BY <1>7, <1>9, <2>1, <2>2, <2>3, Zenon DEF Supports
<1>13. j \in Gaps(h.blk[b], c.size + ChunkHeader) /\ c.off = GapStart(h.blk[b], j)
  BY <1>3, <1>7 DEF off, block
<1>14. Gained(h, p.h, b, c)
  BY <1>7, <1>8, <1>13, PutChunkIs
<1>15. c.size + ChunkHeader = Need(r)
  BY <1>1, <1>7
<1> QED BY <1>7, <1>9, <1>10, <1>11, <1>12, <1>14, <1>15

-----------------------------------------------------------------------------
(* The heap with the buffers that are held. *)

\* Buffer buf lies in a chunk that is linked.
Holds(h, buf) ==
  /\ buf.block \in Held(h)
  /\ ~buf.found => Pad(buf.off) # 0
  /\ \E c \in Range(h.blk[buf.block].chunks) : Supports(c, buf)

SameChunk(x, y) == x.block = y.block /\ x.off = y.off

BuffersRight(h, held) ==
  /\ held \subseteq BufferType
  /\ \A buf \in held : Holds(h, buf)
  /\ \A x, y \in held : SameChunk(x, y) => x = y

\* A chunk nobody holds is one whose buffer was padded.
Owned(h, held) ==
  \A b \in Held(h) : \A c \in Range(h.blk[b].chunks) :
    Pad(c.off) # 0 \/ \E buf \in held : buf.block = b /\ buf.off = c.off

\* But for the root, and for a block an operation is working on, no block is empty.
NoneEmpty(h, except) ==
  \A i \in 2..Len(h.list) : h.list[i] \notin except => h.blk[h.list[i]].chunks # <<>>

\* A block that cannot be given back: it holds a node of the pool, or is empty and the
\* search does not start at it.
PoolHeld(held, b) == \E buf \in held : buf.block = b /\ buf.owner = "pool"
Settled(h, held, b) == PoolHeld(held, b) \/ (h.blk[b].chunks = <<>> /\ h.best # b)

\* So is every block that lost its link.
LostSettled(h, held) == \A b \in h.lost : Settled(h, held, b)

Right(h, held, except) ==
  /\ HeapRight(h) /\ BuffersRight(h, held) /\ Owned(h, held) /\ NoneEmpty(h, except)
  /\ LostSettled(h, held)

\* The buffer an allocation hands out is another one than those that are held.
Fresh(buf, held) == \A x \in held : ~SameChunk(x, buf)

\* What PlaceIn leaves: the same blocks, of which one has changed, and a fresh buffer in it.
HandedOut(h, p, held, owner) ==
  /\ p.h.list = h.list /\ p.h.lost = h.lost
  /\ Fresh(p.buffer, held) /\ p.buffer.owner = owner
  /\ \A x \in BlockIds \ {p.buffer.block} : p.h.blk[x] = h.blk[x]

\* The buffer lies in block b, and the best bet is the same.
PutInto(h, p, b) == p.buffer.block = b /\ p.h.best = h.best

OnlyChunks(h, b, need) == \A c \in Range(h.blk[b].chunks) : c.size + ChunkHeader = need

\* Taking a chunk from a block that has a gap keeps all of it right.
LEMMA PlaceInKeeps ==
  ASSUME NEW h, NEW held, NEW except, Right(h, held, except), NEW b \in Held(h),
         b \in h.lost => PoolHeld(held, b),
         NEW r \in Nat, Gaps(h.blk[b], Need(r)) # {},
         NEW owner \in {"client", "pool"}, NEW p \in PlaceIn(h, b, r, owner)
  PROVE  /\ Right(p.h, held \cup {p.buffer}, except \ {b})
         /\ HandedOut(h, p, held, owner)
         /\ PutInto(h, p, b)
         /\ h.blk[b].chunks = <<>> => OnlyChunks(p.h, b, Need(r))
<1> DEFINE g == p.h
           buf == p.buffer
<1>1. /\ HeapRight(h) /\ BuffersRight(h, held) /\ Owned(h, held) /\ NoneEmpty(h, except)
      /\ LostSettled(h, held)
  BY DEF Right
<1>2. /\ buf \in BufferType /\ buf.block = b /\ buf.owner = owner
      /\ ~buf.found => Pad(buf.off) # 0
      /\ \E c \in ChunkType :
           Gained(h, g, b, c) /\ c.size + ChunkHeader = Need(r) /\ Supports(c, buf)
  BY <1>1, PlaceInIs
<1>3. PICK c \in ChunkType :
        Gained(h, g, b, c) /\ c.size + ChunkHeader = Need(r) /\ Supports(c, buf)
  BY <1>2
<1> HIDE DEF g, buf
<1>4. /\ HeapRight(g)
      /\ g.list = h.list /\ g.lost = h.lost /\ g.best = h.best /\ Held(g) = Held(h)
      /\ \A x \in BlockIds \ {b} : g.blk[x] = h.blk[x]
      /\ Range(g.blk[b].chunks) = Range(h.blk[b].chunks) \cup {c}
      /\ \A x \in Range(h.blk[b].chunks) : x.off # c.off
  BY <1>3 DEF Gained, Held
<1>5. Held(h) \subseteq BlockIds /\ Range(h.list) \subseteq BlockIds
  BY <1>1, ListOf DEF HeapRight
<1>6. \A x \in Held(h) : Range(h.blk[x].chunks) \subseteq Range(g.blk[x].chunks)
  BY <1>4, <1>5
<1>7. ASSUME NEW x \in held PROVE Holds(g, x) /\ ~SameChunk(x, buf)
  <2>1. Holds(h, x)
    BY <1>1 DEF BuffersRight
  <2>2. Holds(g, x)
    BY <1>4, <1>6, <2>1 DEF Holds
  <2>3. ASSUME x.block = b, x.off = c.off PROVE FALSE
    BY <1>4, <2>1, <2>3 DEF Holds, Supports
  <2> QED BY <1>2, <1>3, <2>2, <2>3 DEF SameChunk, Supports
<1>8. Holds(g, buf)
  BY <1>2, <1>3, <1>4 DEF Holds
<1>9. BuffersRight(g, held \cup {buf})
  <2>1. held \cup {buf} \subseteq BufferType
    BY <1>1, <1>2 DEF BuffersRight
  <2>2. \A x \in held \cup {buf} : Holds(g, x)
    BY <1>7, <1>8
  <2>3. ASSUME NEW x \in held \cup {buf}, NEW y \in held \cup {buf}, SameChunk(x, y)
        PROVE  x = y
    BY <1>1, <1>7, <2>3 DEF BuffersRight, SameChunk
  <2> QED BY <2>1, <2>2, <2>3 DEF BuffersRight
<1>10. Owned(g, held \cup {buf})
  <2>1. ASSUME NEW x \in Held(h), NEW y \in Range(g.blk[x].chunks), Pad(y.off) = 0
        PROVE  \E z \in held \cup {buf} : z.block = x /\ z.off = y.off
    <3>1. CASE x = b /\ y = c
      BY <1>2, <1>3, <3>1 DEF Supports
    <3>2. CASE ~(x = b /\ y = c)
      <4>1. y \in Range(h.blk[x].chunks)
        BY <1>4, <1>5, <3>2
      <4> QED BY <1>1, <2>1, <4>1 DEF Owned
    <3> QED BY <3>1, <3>2
  <2> QED BY <1>4, <2>1 DEF Owned
<1>11. NoneEmpty(g, except \ {b})
  <2>1. g.blk[b].chunks # <<>>
    <3>1. c \in Range(g.blk[b].chunks)
      BY <1>4
    <3>2. Range(<<>>) = {}
      BY DEF Range
    <3> QED BY <3>1, <3>2
  <2>2. ASSUME NEW i \in 2..Len(h.list), h.list[i] \notin except \ {b}
        PROVE  g.blk[h.list[i]].chunks # <<>>
    <3>1. CASE h.list[i] = b
      BY <2>1, <3>1
    <3>2. CASE h.list[i] # b
      <4>1. h.list[i] \in Range(h.list)
        <5>1. i \in 1..Len(h.list)
          OBVIOUS
        <5> QED BY <1>1, <5>1, ListOf DEF HeapRight
      <4>2. g.blk[h.list[i]] = h.blk[h.list[i]]
        BY <1>4, <1>5, <3>2, <4>1
      <4> QED BY <1>1, <2>2, <3>2, <4>2 DEF NoneEmpty
    <3> QED BY <3>1, <3>2
  <2> QED BY <1>4, <2>2 DEF NoneEmpty
<1>12. LostSettled(g, held \cup {buf})
  <2>1. ASSUME NEW x \in h.lost PROVE Settled(g, held \cup {buf}, x)
    <3>1. Settled(h, held, x) /\ x \in BlockIds
      BY <1>1, ListOf DEF LostSettled, HeapRight
    <3>2. CASE PoolHeld(held, x)
      BY <3>2 DEF PoolHeld, Settled
    <3>3. CASE ~PoolHeld(held, x)
      <4>1. x # b
        BY <3>3
      <4>2. g.blk[x] = h.blk[x]
        BY <1>4, <3>1, <4>1
      <4> QED BY <1>4, <3>1, <3>3, <4>2 DEF Settled
    <3> QED BY <3>2, <3>3
  <2> QED BY <1>4, <2>1 DEF LostSettled
<1>13. Right(g, held \cup {buf}, except \ {b})
  BY <1>4, <1>9, <1>10, <1>11, <1>12 DEF Right
<1>14. Fresh(buf, held)
  BY <1>7 DEF Fresh
<1>15. ASSUME h.blk[b].chunks = <<>> PROVE OnlyChunks(g, b, Need(r))
  <2>1. Range(<<>>) = {}
    BY DEF Range
  <2>2. Range(g.blk[b].chunks) = {c}
    BY <1>4, <1>15, <2>1
  <2> QED BY <1>3, <2>2 DEF OnlyChunks
<1> QED BY <1>2, <1>4, <1>13, <1>14, <1>15 DEF HandedOut, PutInto, g, buf

-----------------------------------------------------------------------------
(* The search. *)

\* A set of places in a sequence: the first of them, or 0.
LEMMA FirstPlace ==
  ASSUME NEW n \in Nat, NEW I, I \subseteq 1..n
  PROVE  /\ I # {} => Min(I) \in I /\ Min(I) \in 1..n /\ Min(I) # 0
         /\ \A i \in I : Min(I) <= i
<1>1. I \subseteq Nat
  OBVIOUS
<1>2. CASE I = {}
  BY <1>2
<1>3. CASE I # {}
  <2>1. Min(I) \in I /\ \A x \in I : Min(I) <= x
    BY <1>1, <1>3, MinExists
  <2>2. Min(I) \in 1..n
    BY <2>1
  <2> QED BY <2>1, <2>2
<1> QED BY <1>2, <1>3

\* Where a block is in the list.
LEMMA PlaceOf ==
  ASSUME NEW h, h \in HeapType, NEW b \in Range(h.list)
  PROVE  LET k == SelectInSeq(h.list, LAMBDA x : x = b)
         IN k \in 1..Len(h.list) /\ h.list[k] = b
<1> DEFINE I == {i \in 1..Len(h.list) : h.list[i] = b}
<1>1. Len(h.list) \in Nat /\ \E i \in 1..Len(h.list) : b = h.list[i]
  BY ListOf
<1>2. I # {} /\ I \subseteq 1..Len(h.list)
  BY <1>1
<1>3. SelectInSeq(h.list, LAMBDA x : x = b) = Min(I)
  BY <1>2 DEF SelectInSeq
<1> HIDE DEF I
<1>4. Min(I) \in I
  BY <1>1, <1>2, FirstPlace
<1> QED BY <1>3, <1>4 DEF I

\* Two sequences one after the other.
LEMMA ConcatHolds ==
  ASSUME NEW S, NEW s \in Seq(S), NEW t \in Seq(S)
  PROVE  s \o t \in Seq(S) /\ Range(s \o t) = Range(s) \cup Range(t)
<1> DEFINE both == s \o t
           m == Len(s)
           n == Len(t)
<1>1. m \in Nat /\ n \in Nat
  OBVIOUS
<1>2. /\ both \in Seq(S) /\ Len(both) = m + n
      /\ \A i \in 1..(m + n) : both[i] = IF i <= m THEN s[i] ELSE t[i - m]
  BY ConcatProperties
<1> HIDE DEF both
<1>3. /\ \A x \in Range(both) : \E i \in 1..Len(both) : x = both[i]
      /\ \A i \in 1..Len(both) : both[i] \in Range(both)
  BY <1>2, RangeOf
<1>4. /\ \A x \in Range(s) : \E i \in 1..m : x = s[i]
      /\ \A i \in 1..m : s[i] \in Range(s)
      /\ \A x \in Range(t) : \E i \in 1..n : x = t[i]
      /\ \A i \in 1..n : t[i] \in Range(t)
  BY RangeOf
<1> HIDE DEF m, n
<1>5. ASSUME NEW x \in Range(both) PROVE x \in Range(s) \cup Range(t)
  <2>1. PICK i \in 1..(m + n) : x = both[i]
    BY <1>2, <1>3
  <2>2. CASE i <= m
    <3>1. i \in 1..m
      BY <1>1, <2>2
    <3> QED BY <1>2, <1>4, <2>1, <2>2, <3>1
  <2>3. CASE ~(i <= m)
    <3>1. i - m \in 1..n
      BY <1>1, <2>3
    <3> QED BY <1>2, <1>4, <2>1, <2>3, <3>1
  <2> QED BY <2>2, <2>3
<1>6. ASSUME NEW x \in Range(s) PROVE x \in Range(both)
  <2>1. PICK i \in 1..m : x = s[i]
    BY <1>4
  <2>2. i \in 1..(m + n) /\ i <= m
    BY <1>1
  <2> QED BY <1>2, <1>3, <2>1, <2>2
<1>7. ASSUME NEW x \in Range(t) PROVE x \in Range(both)
  <2>1. PICK i \in 1..n : x = t[i]
    BY <1>4
  <2>2. m + i \in 1..(m + n) /\ ~(m + i <= m) /\ (m + i) - m = i
    BY <1>1
  <2>3. both[m + i] = x
    BY <1>2, <2>1, <2>2
  <2> QED BY <1>2, <1>3, <2>2, <2>3
<1>8. Range(both) = Range(s) \cup Range(t)
  BY <1>5, <1>6, <1>7
<1> QED BY <1>2, <1>8 DEF both

\* The blocks a search may go over: those linked, and the best bet.
Candidates(h) == Range(h.list) \cup ({h.best} \ {NoBlock})

LEMMA CandidatesHeld ==
  ASSUME NEW h, HeapRight(h)
  PROVE  /\ Candidates(h) \subseteq Held(h) /\ Held(h) \subseteq BlockIds
         /\ NoBlock \notin BlockIds
<1>1. h \in HeapType /\ (h.best # NoBlock => h.best \in Held(h))
  BY DEF HeapRight
<1>2. Range(h.list) \subseteq Held(h) /\ Held(h) \subseteq BlockIds
  BY <1>1, ListOf
<1>3. NoBlock \notin BlockIds
  BY BoundsAssumption
<1> QED BY <1>1, <1>2, <1>3 DEF Candidates

\* Wherever it starts, the search goes over the linked blocks, and starts at one of them or
\* at the best bet.
LEMMA SearchOrderIs ==
  ASSUME NEW h, HeapRight(h), NEW need
  PROVE  /\ SearchOrder(h, need) \in Seq(BlockIds)
         /\ Range(h.list) \subseteq Range(SearchOrder(h, need))
         /\ Range(SearchOrder(h, need)) \subseteq Candidates(h)
<1>1. /\ h \in HeapType /\ h.list \in Seq(BlockIds) /\ Len(h.list) \in Nat
      /\ DOMAIN h.list = 1..Len(h.list)
  BY ListOf DEF HeapRight
<1>2. CASE ~StartsAtBest(h, need)
  BY <1>1, <1>2 DEF SearchOrder, Candidates
<1>3. CASE StartsAtBest(h, need)
  <2> DEFINE s == h.list
             n == Len(s)
             k == SelectInSeq(h.list, LAMBDA x : x = h.best)
             head == IF k = 0 THEN <<h.best>> ELSE SubSeq(s, k, n)
  <2>1. h.best # NoBlock /\ h.best \in BlockIds
    BY <1>3, <1>1 DEF StartsAtBest, HeapType
  <2>2. SearchOrder(h, need) = head \o s
    BY <1>3 DEF SearchOrder
  <2>3. s \in Seq(BlockIds) /\ n \in Nat
    BY <1>1
  <2>4. k = 0 \/ k \in 1..n
    <3> DEFINE I == {i \in 1..Len(h.list) : h.list[i] = h.best}
    <3>1. k = IF I # {} THEN Min(I) ELSE 0
      BY DEF SelectInSeq
    <3>2. I \subseteq 1..n
      OBVIOUS
    <3> HIDE DEF I, k
    <3> QED BY <2>3, <3>1, <3>2, FirstPlace
  <2> HIDE DEF k
  <2>5. head \in Seq(BlockIds) /\ Range(head) \subseteq Candidates(h)
    <3>1. CASE k = 0
      <4>1. <<h.best>> \in Seq(BlockIds) /\ Range(<<h.best>>) = {h.best}
        BY <2>1 DEF Range
      <4> QED BY <2>1, <3>1, <4>1 DEF Candidates
    <3>2. CASE k # 0
      <4>1. k \in 1..n
        BY <2>4, <3>2
      <4> DEFINE tail == SubSeq(s, k, n)
      <4>2. /\ tail \in Seq(BlockIds) /\ Len(tail) = n - k + 1
            /\ \A i \in 1..(n - k + 1) : tail[i] = s[k + i - 1]
        BY <2>3, <4>1
      <4> HIDE DEF tail, s
      <4>3. ASSUME NEW x \in Range(tail) PROVE x \in Range(s)
        <5>1. PICK i \in 1..(n - k + 1) : x = tail[i]
          BY <4>2, RangeOf
        <5>2. k + i - 1 \in 1..n
          BY <2>3, <4>1
        <5>3. s[k + i - 1] \in Range(s)
          BY <2>3, <5>2, RangeOf
        <5> QED BY <4>2, <5>1, <5>3
      <4>4. head = tail
        BY <3>2 DEF tail
      <4> QED BY <4>2, <4>3, <4>4 DEF s, Candidates
    <3> QED BY <3>1, <3>2
  <2> HIDE DEF head, s
  <2>6. /\ head \o s \in Seq(BlockIds)
        /\ Range(head \o s) = Range(head) \cup Range(s)
    BY <2>3, <2>5, ConcatHolds
  <2>7. Range(s) \subseteq Candidates(h) /\ s = h.list
    BY DEF s, Candidates
  <2> QED BY <2>2, <2>5, <2>6, <2>7
<1> QED BY <1>2, <1>3

\* The blocks visited may be searched; the last of them has a gap and is the only one that
\* fits, unless no linked block fits.
LEMMA SearchFinds ==
  ASSUME NEW h, HeapRight(h), NEW need
  PROVE  /\ Visited(h, need) \in Seq(BlockIds)
         /\ Range(Visited(h, need)) \subseteq Candidates(h)
         /\ Hit(h, need) # 0 =>
              /\ Last(Visited(h, need)) \in Candidates(h)
              /\ Fits(h, Last(Visited(h, need)), need)
              /\ \A x \in Range(Visited(h, need)) :
                   Fits(h, x, need) => x = Last(Visited(h, need))
         /\ Hit(h, need) = 0 => \A b \in Range(h.list) : ~Fits(h, b, need)
<1> DEFINE s == SearchOrder(h, need)
           n == Len(s)
           I == {i \in 1..n : Fits(h, s[i], need)}
           hit == Hit(h, need)
           seen == SubSeq(s, 1, hit)
<1>1. s \in Seq(BlockIds) /\ Range(h.list) \subseteq Range(s) /\ Range(s) \subseteq Candidates(h)
  BY SearchOrderIs
<1>2. hit = IF I # {} THEN Min(I) ELSE 0
  BY DEF Hit, SelectInSeq
<1>3. Visited(h, need) = IF hit = 0 THEN s ELSE seen
  BY DEF Visited
<1>4. \A i \in I : i \in 1..n /\ Fits(h, s[i], need)
  OBVIOUS
<1>5. \A i \in 1..n : Fits(h, s[i], need) => i \in I
  OBVIOUS
<1> HIDE DEF s, I, hit
<1>6. /\ n \in Nat
      /\ \A i \in 1..n : s[i] \in Range(s)
      /\ \A x \in Range(s) : \E i \in 1..n : x = s[i]
  BY <1>1, RangeOf
<1>7. CASE I = {}
  <2>1. hit = 0
    BY <1>2, <1>7
  <2>2. \A b \in Range(h.list) : ~Fits(h, b, need)
    BY <1>1, <1>5, <1>6, <1>7
  <2> QED BY <1>1, <1>3, <2>1, <2>2 DEF hit
<1>8. CASE I # {}
  <2>1. /\ hit \in 1..n /\ hit # 0 /\ Fits(h, s[hit], need)
        /\ \A i \in I : hit <= i
    <3>1. I \subseteq 1..n
      BY <1>4
    <3>2. /\ Min(I) \in I /\ Min(I) \in 1..n /\ Min(I) # 0
          /\ \A i \in I : Min(I) <= i
      BY <1>6, <1>8, <3>1, FirstPlace
    <3> QED BY <1>2, <1>4, <1>8, <3>2
  <2>2. /\ seen \in Seq(BlockIds) /\ Len(seen) = hit
        /\ \A i \in 1..hit : seen[i] = s[i]
    BY <1>1, <1>6, <2>1
  <2> HIDE DEF seen
  <2>3. Last(seen) = s[hit]
    BY <2>1, <2>2 DEF Last
  <2>4. ASSUME NEW x \in Range(seen)
        PROVE  x \in Range(s) /\ (Fits(h, x, need) => x = s[hit])
    <3>1. \E i \in 1..Len(seen) : x = seen[i]
      BY <2>2, RangeOf
    <3>2. PICK i \in 1..hit : x = seen[i]
      BY <2>2, <3>1
    <3>3. i \in 1..n
      BY <1>6, <2>1
    <3>4. x = s[i]
      BY <2>2, <3>2
    <3>5. ASSUME Fits(h, x, need) PROVE i = hit
      <4>1. i \in I
        BY <1>5, <3>3, <3>4, <3>5
      <4>2. hit <= i
        BY <2>1, <4>1
      <4> QED BY <2>1, <4>2
    <3> QED BY <1>6, <3>3, <3>4, <3>5
  <2>5. Visited(h, need) = seen
    BY <1>3, <2>1
  <2>6. s[hit] \in Candidates(h)
    BY <1>1, <1>6, <2>1
  <2>7. Range(seen) \subseteq Candidates(h)
    BY <1>1, <2>4
  <2> QED BY <2>1, <2>2, <2>3, <2>4, <2>5, <2>6, <2>7 DEF hit
<1> QED BY <1>7, <1>8

\* No block is larger than all blocks together.
LEMMA UnusedBounded ==
  ASSUME NEW h, HeapRight(h), NEW b \in Held(h)
  PROVE  Unused(h, b) \in Int /\ Unused(h, b) <= h.allocated /\ h.allocated \in Nat
<1>1. /\ h.blk[b].size \in Nat /\ h.blk[b].used \in Nat
      /\ IsFiniteSet(SizeRow(h, b)) /\ Cardinality(SizeRow(h, b)) = h.blk[b].size
  BY Rows
<1>2. SizeRow(h, b) \subseteq InBlocks(h)
  BY DEF SizeRow, InBlocks
<1>3. IsFiniteSet(InBlocks(h)) /\ h.allocated = Cardinality(InBlocks(h))
  BY DEF HeapRight
<1>4. Cardinality(SizeRow(h, b)) <= Cardinality(InBlocks(h))
  BY <1>2, <1>3, FS_Subset
<1>5. h.allocated \in Nat
  BY DEF HeapRight, HeapType
<1> QED BY <1>1, <1>3, <1>4, <1>5 DEF Unused

\* What best_size starts from.
LEMMA BestSizeIs ==
  ASSUME NEW h, HeapRight(h)
  PROVE  BestSize(h) \in Int /\ BestSize(h) <= h.allocated /\ h.allocated \in Nat
<1>1. h.best # NoBlock => h.best \in Held(h)
  BY DEF HeapRight
<1>2. h.allocated \in Nat
  BY DEF HeapRight, HeapType
<1>3. CASE h.best = NoBlock
  BY <1>2, <1>3 DEF BestSize
<1>4. CASE h.best # NoBlock
  BY <1>1, <1>4, UnusedBounded DEF BestSize
<1> QED BY <1>3, <1>4

\* The best bet stays, or becomes a block that was visited.
LEMMA BestBetIs ==
  ASSUME NEW h, HeapRight(h), NEW seen \in Seq(BlockIds), Range(seen) \subseteq Held(h)
  PROVE  BestBet(h, seen) = h.best \/ BestBet(h, seen) \in Range(seen)
<1> DEFINE best == BestSize(h)
           S == {best} \cup {Unused(h, b) : b \in Range(seen)}
           most == Max(S)
           n == Len(seen)
           I == {i \in 1..n : Unused(h, seen[i]) = most}
<1>1. best \in Int /\ best <= h.allocated /\ h.allocated \in Nat
  BY BestSizeIs
<1>2. \A b \in Range(seen) : Unused(h, b) \in Int /\ Unused(h, b) <= h.allocated
  BY UnusedBounded
<1>3. BestBet(h, seen) = IF most = best THEN h.best
                         ELSE seen[IF I # {} THEN Min(I) ELSE 0]
  BY DEF BestBet, SelectInSeq
<1>4. \A i \in I : i \in 1..n
  OBVIOUS
<1>5. \A i \in 1..n : Unused(h, seen[i]) = most => i \in I
  OBVIOUS
<1> HIDE DEF best
<1>6. most \in S
  <2>1. S \subseteq Int /\ S # {} /\ \A s \in S : s <= h.allocated
    BY <1>1, <1>2
  <2>2. h.allocated \in Int
    BY <1>1
  <2> HIDE DEF S
  <2> QED BY <2>1, <2>2, MaxExists
<1>7. most # best => \E b \in Range(seen) : Unused(h, b) = most
  <2> DEFINE top == most
  <2>1. top \in S
    BY <1>6
  <2> HIDE DEF top
  <2>2. top = best \/ \E b \in Range(seen) : Unused(h, b) = top
    BY <2>1
  <2> QED BY <2>2 DEF top
<1> HIDE DEF most, I, S
<1>8. /\ n \in Nat
      /\ \A i \in 1..n : seen[i] \in Range(seen)
      /\ \A x \in Range(seen) : \E i \in 1..n : x = seen[i]
  BY RangeOf
<1>9. CASE most = best
  BY <1>3, <1>9
<1>10. CASE most # best
  <2>1. I # {}
    BY <1>5, <1>7, <1>8, <1>10
  <2>2. I \subseteq 1..n
    BY <1>4
  <2>3. Min(I) \in 1..n
    BY <1>8, <2>1, <2>2, FirstPlace
  <2> QED BY <1>3, <1>8, <1>10, <2>1, <2>3
<1> QED BY <1>9, <1>10

\* Moving the best bet to a linked block or to one with chunks changes nothing else.
LEMMA BestMoves ==
  ASSUME NEW h, NEW held, NEW except, Right(h, held, except), NEW best,
         \/ best \in Candidates(h) \cup {h.best}
         \/ best \in Held(h) /\ h.blk[best].chunks # <<>>
  PROVE  /\ Right([h EXCEPT !.best = best], held, except)
         /\ [h EXCEPT !.best = best].list = h.list
         /\ [h EXCEPT !.best = best].lost = h.lost
         /\ [h EXCEPT !.best = best].best = best
         /\ [h EXCEPT !.best = best].blk = h.blk
<1> DEFINE g == [h EXCEPT !.best = best]
<1>1. HeapRight(h) /\ h \in HeapType /\ LostSettled(h, held)
  BY DEF Right, HeapRight
<1>2. /\ g.list = h.list /\ g.lost = h.lost /\ g.blk = h.blk /\ g.best = best
      /\ g.allocated = h.allocated /\ g.inUsed = h.inUsed
  BY <1>1 DEF HeapType
<1>3. Candidates(h) \subseteq Held(h) /\ Held(h) \subseteq BlockIds
  BY <1>1, CandidatesHeld
<1>4. best # NoBlock => best \in Held(h)
  BY <1>1, <1>3 DEF HeapRight
<1>5. g \in HeapType
  <2>1. best \in BlockIds \cup {NoBlock}
    BY <1>3, <1>4
  <2> QED BY <1>1, <2>1 DEF HeapType
<1> HIDE DEF g
<1>6. Held(g) = Held(h)
  BY <1>2 DEF Held
<1>7. InBuffers(g) = InBuffers(h) /\ InBlocks(g) = InBlocks(h)
  BY <1>2, <1>6 DEF InBuffers, InBlocks
<1>8. HeapRight(g)
  BY <1>1, <1>2, <1>4, <1>5, <1>6, <1>7 DEF HeapRight
<1>9. BuffersRight(g, held) /\ Owned(g, held) /\ NoneEmpty(g, except)
  BY <1>2, <1>6 DEF Right, BuffersRight, Holds, Owned, NoneEmpty
<1>10. LostSettled(g, held)
  <2>1. ASSUME NEW x \in h.lost, x # h.best, h.blk[x].chunks = <<>> PROVE x # best
    BY <1>1, <2>1 DEF HeapRight, Candidates
  <2> QED BY <1>1, <1>2, <2>1 DEF LostSettled, Settled
<1>11. Right(g, held, except)
  BY <1>8, <1>9, <1>10 DEF Right
<1> QED BY <1>2, <1>11 DEF g

\* Allocating from the blocks that are there.  One that is passed over though it fits is
\* left as it is, and is not the best bet but that it was.
LEMMA AllocHereKeeps ==
  ASSUME NEW h, NEW held, Right(h, held, {}), NEW r \in Nat, Hit(h, Need(r)) # 0,
         NEW owner \in {"client", "pool"}, NEW a \in AllocHere(h, r, owner)
  PROVE  /\ Right(a.h, held \cup {a.buffer}, {}) /\ HandedOut(h, a, held, owner)
         /\ \A x \in BlockIds : Fits(h, x, Need(r)) /\ x # a.buffer.block /\ x # h.best =>
              a.h.best # x
<1> DEFINE seen == Visited(h, Need(r))
           best == BestBet(h, seen)
           g == [h EXCEPT !.best = best]
           b == Last(seen)
<1>1. HeapRight(h) /\ LostSettled(h, held)
  BY DEF Right
<1>2. /\ seen \in Seq(BlockIds) /\ Range(seen) \subseteq Candidates(h)
      /\ b \in Candidates(h) /\ Fits(h, b, Need(r))
      /\ \A x \in Range(seen) : Fits(h, x, Need(r)) => x = b
  BY <1>1, SearchFinds
<1>3. a \in PlaceIn(g, b, r, owner)
  BY DEF AllocHere
<1>4. Candidates(h) \subseteq Held(h) /\ NoBlock \notin BlockIds
  BY <1>1, CandidatesHeld
<1>5. best = h.best \/ best \in Range(seen)
  BY <1>1, <1>2, <1>4, BestBetIs
<1> HIDE DEF seen, best
<1>6. /\ Right(g, held, {}) /\ g.list = h.list /\ g.lost = h.lost /\ g.blk = h.blk
      /\ g.best = best
  BY <1>2, <1>5, BestMoves
<1> HIDE DEF g, b
<1>7. b \in Held(g) /\ Gaps(g.blk[b], Need(r)) # {}
  BY <1>2, <1>4, <1>6 DEF Fits, Held
<1>8. b \in g.lost => PoolHeld(held, b)
  <2>1. SUFFICES ASSUME b \in h.lost PROVE PoolHeld(held, b)
    BY <1>6
  <2>2. b = h.best
    BY <1>1, <1>2, <2>1 DEF HeapRight, Candidates
  <2> QED BY <1>1, <2>1, <2>2 DEF LostSettled, Settled
<1>9. /\ Right(a.h, held \cup {a.buffer}, {} \ {b}) /\ HandedOut(g, a, held, owner)
      /\ a.buffer.block = b /\ a.h.best = g.best
  <2>1. /\ Right(a.h, held \cup {a.buffer}, {} \ {b}) /\ HandedOut(g, a, held, owner)
        /\ PutInto(g, a, b)
    BY <1>3, <1>6, <1>7, <1>8, PlaceInKeeps
  <2> QED BY <2>1 DEF PutInto
<1>10. {} \ {b} = {}
  OBVIOUS
<1>11. HandedOut(h, a, held, owner)
  BY <1>6, <1>9 DEF HandedOut
<1>12. ASSUME NEW x \in BlockIds, Fits(h, x, Need(r)), x # b, x # h.best PROVE a.h.best # x
  BY <1>2, <1>5, <1>6, <1>9, <1>12
<1> QED BY <1>9, <1>10, <1>11, <1>12

-----------------------------------------------------------------------------
(* Growing. *)

\* Division rounded up.
LEMMA RoundsUp ==
  ASSUME NEW x \in Nat, NEW d \in Nat \ {0}
  PROVE  (x + d - 1) \div d \in Nat /\ d * ((x + d - 1) \div d) >= x
<1>1. (x + d - 1) \div d \in Nat
  OBVIOUS
<1>2. d * ((x + d - 1) \div d) >= x
  OBVIOUS
<1> QED BY <1>1, <1>2

\* The pages of a new block hold the request with its overhead and both headers.
LEMMA NewBlockIsLarge ==
  ASSUME NEW size \in Nat
  PROVE  /\ NewBlockSize(size) \in Nat
         /\ NewBlockSize(size) >= size + BlockHeader + ChunkHeader
<1> DEFINE bytes == size + BlockHeader + ChunkHeader
           pages == (bytes + PageBytes - 1) \div PageBytes
<1>1. bytes \in Nat /\ PageBytes \in Nat \ {0} /\ MinAllocPages \in Nat
  BY Layout
<1> HIDE DEF bytes
<1>2. pages \in Nat /\ PageBytes * pages >= bytes
  BY <1>1, RoundsUp
<1> HIDE DEF pages
<1>3. CASE pages < MinAllocPages
  <2>1. PageBytes * pages <= PageBytes * MinAllocPages /\ PageBytes * MinAllocPages \in Nat
    BY <1>1, <1>2, <1>3
  <2>2. NewBlockSize(size) = PageBytes * MinAllocPages
    BY <1>3 DEF NewBlockSize, pages, bytes
  <2> DEFINE small == PageBytes * pages
             large == PageBytes * MinAllocPages
  <2>3. small \in Int /\ large \in Nat /\ small <= large /\ small >= bytes
    BY <1>1, <1>2, <2>1
  <2> HIDE DEF small, large
  <2>4. large >= bytes
    BY <1>1, <2>3
  <2> QED BY <2>2, <2>3, <2>4 DEF large, bytes
<1>4. CASE ~(pages < MinAllocPages)
  <2>1. NewBlockSize(size) = PageBytes * pages /\ PageBytes * pages \in Nat
    BY <1>1, <1>2, <1>4 DEF NewBlockSize, pages, bytes
  <2> QED BY <1>2, <2>1 DEF bytes
<1> QED BY <1>3, <1>4

\* Heap h with a new block of so many bytes linked after the n-th, the rest of the list lost.
LinkedAfter(h, n, b, bytes) ==
  [h EXCEPT !.list = Append(SubSeq(h.list, 1, n), b),
            !.lost = @ \cup (Range(h.list) \ Range(SubSeq(h.list, 1, n))),
            !.blk[b] = [size |-> bytes, used |-> BlockHeader, chunks |-> <<>>],
            !.allocated = @ + bytes]

\* Heap g has one block more than h, an empty one at the end of the list.
HasNew(h, g, n, b, bytes) ==
  /\ g.list = Append(SubSeq(h.list, 1, n), b)
  /\ Held(g) = Held(h) \cup {b} /\ b \in Range(g.list) /\ b \notin g.lost
  /\ g.best = h.best
  /\ g.blk[b] = [size |-> bytes, used |-> BlockHeader, chunks |-> <<>>]
  /\ \A x \in BlockIds \ {b} : g.blk[x] = h.blk[x]

\* The blocks a link that is overwritten leaves out of the list cannot be given back.
TailSettled(h, held, n) == \A i \in (n + 1)..Len(h.list) : Settled(h, held, h.list[i])

\* What the list is when a block is linked after the n-th.
LEMMA LinkedList ==
  ASSUME NEW S, NEW s \in Seq(S), NEW n \in 0..Len(s), NEW b \in S
  PROVE  LET kept == SubSeq(s, 1, n)
             list == Append(kept, b)
         IN /\ list \in Seq(S) /\ Len(list) = n + 1
            /\ \A i \in 1..n : list[i] = s[i]
            /\ list[n + 1] = b
            /\ Range(list) = Range(kept) \cup {b} /\ Range(kept) \subseteq Range(s)
            /\ \A x \in Range(s) \ Range(kept) : \E i \in (n + 1)..Len(s) : x = s[i]
<1> DEFINE kept == SubSeq(s, 1, n)
           list == Append(kept, b)
<1>1. Len(s) \in Nat /\ n \in Nat
  OBVIOUS
<1>2. kept \in Seq(S) /\ Len(kept) = n /\ \A i \in 1..n : kept[i] = s[i]
  OBVIOUS
<1> HIDE DEF kept
<1>3. /\ list \in Seq(S) /\ Len(list) = n + 1
      /\ \A i \in 1..n : list[i] = kept[i]
      /\ list[n + 1] = b
  BY <1>1, <1>2
<1> HIDE DEF list
<1>4. /\ \A i \in 1..n : kept[i] \in Range(kept)
      /\ \A x \in Range(kept) : \E i \in 1..n : x = kept[i]
  BY <1>2, RangeOf
<1>5. /\ \A i \in 1..Len(s) : s[i] \in Range(s)
      /\ \A x \in Range(s) : \E i \in 1..Len(s) : x = s[i]
  BY RangeOf
<1>6. /\ \A i \in 1..(n + 1) : list[i] \in Range(list)
      /\ \A x \in Range(list) : \E i \in 1..(n + 1) : x = list[i]
  <2>1. /\ \A i \in 1..Len(list) : list[i] \in Range(list)
        /\ \A x \in Range(list) : \E i \in 1..Len(list) : x = list[i]
    BY <1>3, RangeOf
  <2> QED BY <1>3, <2>1
<1>7. Range(list) = Range(kept) \cup {b}
  <2>1. ASSUME NEW x \in Range(list) PROVE x \in Range(kept) \cup {b}
    <3>1. PICK i \in 1..(n + 1) : x = list[i]
      BY <1>6
    <3>2. i \in 1..n \/ i = n + 1
      BY <1>1
    <3> QED BY <1>3, <1>4, <3>1, <3>2
  <2>2. ASSUME NEW x \in Range(kept) PROVE x \in Range(list)
    <3>1. PICK i \in 1..n : x = kept[i]
      BY <1>4
    <3>2. i \in 1..(n + 1)
      BY <1>1
    <3> QED BY <1>3, <1>6, <3>1, <3>2
  <2>3. n + 1 \in 1..(n + 1)
    BY <1>1
  <2>4. b \in Range(list)
    BY <1>3, <1>6, <2>3
  <2> QED BY <2>1, <2>2, <2>4
<1>8. Range(kept) \subseteq Range(s)
  <2>1. \A i \in 1..n : i \in 1..Len(s)
    BY <1>1
  <2> QED BY <1>2, <1>4, <1>5, <2>1
<1>9. ASSUME NEW x \in Range(s) \ Range(kept) PROVE \E i \in (n + 1)..Len(s) : x = s[i]
  <2>1. PICK i \in 1..Len(s) : x = s[i]
    BY <1>5
  <2>2. i \notin 1..n
    BY <1>2, <1>4, <2>1
  <2>3. i \in (n + 1)..Len(s)
    BY <1>1, <2>2
  <2> QED BY <2>1, <2>3
<1>10. \A i \in 1..n : list[i] = s[i]
  BY <1>2, <1>3
<1> QED BY <1>3, <1>7, <1>8, <1>9, <1>10 DEF list, kept

\* Linking an empty block keeps all right, but that this block is empty still.
LEMMA LinkedKeeps ==
  ASSUME NEW h, NEW held, Right(h, held, {}), NEW b \in BlockIds \ Held(h),
         NEW n \in 0..Len(h.list), TailSettled(h, held, n),
         NEW bytes \in Nat, BlockHeader <= bytes
  PROVE  /\ Right(LinkedAfter(h, n, b, bytes), held, {b})
         /\ HasNew(h, LinkedAfter(h, n, b, bytes), n, b, bytes)
<1> DEFINE g == LinkedAfter(h, n, b, bytes)
           kept == SubSeq(h.list, 1, n)
           list == Append(kept, b)
           lost == h.lost \cup (Range(h.list) \ Range(kept))
<1>1. /\ HeapRight(h) /\ BuffersRight(h, held) /\ Owned(h, held) /\ NoneEmpty(h, {})
      /\ LostSettled(h, held)
  BY DEF Right
<1>2. /\ h \in HeapType /\ h.list \in Seq(BlockIds) /\ Len(h.list) \in Nat
      /\ h.lost \subseteq BlockIds /\ Range(h.list) \subseteq BlockIds /\ Held(h) \subseteq BlockIds
      /\ \A i \in 1..Len(h.list) : h.list[i] \in Range(h.list)
  BY <1>1, ListOf DEF HeapRight
<1>3. /\ g.list = list /\ g.lost = lost /\ g.best = h.best
      /\ g.inUsed = h.inUsed /\ g.allocated = h.allocated + bytes
      /\ g.blk[b] = [size |-> bytes, used |-> BlockHeader, chunks |-> <<>>]
      /\ \A x \in BlockIds \ {b} : g.blk[x] = h.blk[x]
  BY <1>2 DEF LinkedAfter, HeapType
<1>4. /\ list \in Seq(BlockIds) /\ Len(list) = n + 1
      /\ \A i \in 1..n : list[i] = h.list[i]
      /\ list[n + 1] = b
      /\ Range(list) = Range(kept) \cup {b} /\ Range(kept) \subseteq Range(h.list)
      /\ \A x \in Range(h.list) \ Range(kept) : \E i \in (n + 1)..Len(h.list) : x = h.list[i]
  <2> DEFINE s == h.list
  <2>1. s \in Seq(BlockIds) /\ n \in 0..Len(s)
    BY <1>2
  <2> HIDE DEF s
  <2>2. LET first == SubSeq(s, 1, n)
            all == Append(first, b)
        IN /\ all \in Seq(BlockIds) /\ Len(all) = n + 1
           /\ \A i \in 1..n : all[i] = s[i]
           /\ all[n + 1] = b
           /\ Range(all) = Range(first) \cup {b} /\ Range(first) \subseteq Range(s)
           /\ \A x \in Range(s) \ Range(first) : \E i \in (n + 1)..Len(s) : x = s[i]
    BY <2>1, LinkedList
  <2> QED BY <2>2 DEF s
<1>5. lost \subseteq BlockIds
  BY <1>2
<1>6. g \in HeapType
  <2>1. [size |-> bytes, used |-> BlockHeader, chunks |-> <<>>] \in BlockType
    BY Layout DEF BlockType
  <2>2. h.allocated + bytes \in Nat
    BY <1>2 DEF HeapType
  <2> HIDE DEF list, lost
  <2>3. g = [h EXCEPT !.list = list, !.lost = lost,
                      !.blk[b] = [size |-> bytes, used |-> BlockHeader, chunks |-> <<>>],
                      !.allocated = @ + bytes]
    BY DEF LinkedAfter, list, lost
  <2> HIDE DEF g
  <2> QED BY <1>2, <1>4, <1>5, <2>1, <2>2, <2>3 DEF HeapType
<1> HIDE DEF g, list
<1>7. Held(g) = Held(h) \cup {b} /\ b \in Range(g.list) /\ b \notin g.lost
  BY <1>2, <1>3, <1>4 DEF Held
<1> HIDE DEF lost
<1>8. g.blk[b].size = bytes /\ g.blk[b].used = BlockHeader /\ g.blk[b].chunks = <<>>
  BY <1>3
<1>9. Occupied(g.blk[b]) = {} /\ Filled(g.blk[b]) = {}
  BY <1>8 DEF Occupied, Filled
<1>10. LaidOut(g.blk[b])
  <2>1. g.blk[b] \in BlockType
    BY <1>6, ListOf
  <2>2. Len(g.blk[b].chunks) = 0
    BY <1>8
  <2>3. InPlace(g.blk[b])
    BY <1>8, <2>1, <2>2 DEF InPlace
  <2>4. Cardinality(Occupied(g.blk[b])) = 0
    BY <1>9, FS_EmptySet
  <2> QED BY <1>8, <2>3, <2>4, Layout DEF LaidOut
<1>11. \A x \in Held(h) : g.blk[x] = h.blk[x]
  BY <1>2, <1>3
<1>12. InBuffers(g) = InBuffers(h)
  <2>1. {b} \X Filled(g.blk[b]) = {}
    BY <1>9
  <2> QED BY <1>7, <1>11, <2>1 DEF InBuffers
<1>13. InBlocks(g) = InBlocks(h) \cup SizeRow(g, b) /\ InBlocks(h) \cap SizeRow(g, b) = {}
  BY <1>7, <1>11 DEF InBlocks, SizeRow
<1>14. IsFiniteSet(SizeRow(g, b)) /\ Cardinality(SizeRow(g, b)) = bytes
  <2>1. IsFiniteSet(Extent(0, bytes)) /\ Cardinality(Extent(0, bytes)) = bytes - 0
    BY ExtentCounts
  <2>2. bytes - 0 = bytes
    OBVIOUS
  <2> QED BY <1>8, <2>1, <2>2, RowCounts DEF SizeRow
<1>15. IsFiniteSet(InBlocks(g)) /\ Cardinality(InBlocks(g)) = Cardinality(InBlocks(h)) + bytes
  <2>1. IsFiniteSet(InBlocks(h))
    BY <1>1 DEF HeapRight
  <2> QED BY <1>13, <1>14, <2>1, Adds
<1>16. HeapRight(g)
  <2>1. ASSUME NEW i \in 1..(n + 1), NEW k \in 1..(n + 1), g.list[i] = g.list[k]
        PROVE  i = k
    <3>1. (i \in 1..n \/ i = n + 1) /\ (k \in 1..n \/ k = n + 1) /\ 1..n \subseteq 1..Len(h.list)
      BY <1>2
    <3>2. \A j \in 1..n : h.list[j] # b
      BY <1>2, <3>1 DEF Held
    <3>3. \A j, m \in 1..n : h.list[j] = h.list[m] => j = m
      BY <1>1, <3>1 DEF HeapRight
    <3> QED BY <1>3, <1>4, <2>1, <3>1, <3>2, <3>3
  <2>2. \A x \in Held(g) : LaidOut(g.blk[x])
    BY <1>1, <1>7, <1>10, <1>11 DEF HeapRight
  <2>3. g.best # NoBlock => g.best \in Held(g)
    BY <1>1, <1>3, <1>7 DEF HeapRight
  <2>4. IsFiniteSet(InBuffers(g)) /\ g.inUsed = Cardinality(InBuffers(g))
    BY <1>1, <1>3, <1>12 DEF HeapRight
  <2>5. IsFiniteSet(InBlocks(g)) /\ g.allocated = Cardinality(InBlocks(g))
    BY <1>1, <1>3, <1>15 DEF HeapRight
  <2>6. g.lost \cap Range(g.list) = {}
    BY <1>1, <1>3, <1>4, <1>7 DEF HeapRight, lost
  <2>7. \A i, k \in 1..Len(g.list) : g.list[i] = g.list[k] => i = k
    BY <1>3, <1>4, <2>1
  <2> QED BY <1>6, <2>2, <2>3, <2>4, <2>5, <2>6, <2>7 DEF HeapRight
<1>17. BuffersRight(g, held)
  BY <1>1, <1>7, <1>11 DEF BuffersRight, Holds
<1>18. Owned(g, held)
  <2>1. Range(<<>>) = {}
    BY DEF Range
  <2> QED BY <1>1, <1>7, <1>8, <1>11, <2>1 DEF Owned
<1>19. NoneEmpty(g, {b})
  <2>1. ASSUME NEW i \in 2..(n + 1), g.list[i] # b PROVE g.blk[g.list[i]].chunks # <<>>
    <3>1. i \in 2..n /\ i \in 1..n /\ i \in 2..Len(h.list) /\ i \in 1..Len(h.list)
      BY <1>2, <1>3, <1>4, <2>1
    <3>2. g.list[i] = h.list[i] /\ h.list[i] \in Held(h)
      BY <1>2, <1>3, <1>4, <3>1 DEF Held
    <3> QED BY <1>1, <1>11, <3>1, <3>2 DEF NoneEmpty
  <2> QED BY <1>3, <1>4, <2>1 DEF NoneEmpty
<1>20. LostSettled(g, held)
  <2>1. ASSUME NEW x \in g.lost PROVE Settled(g, held, x)
    <3>1. x \in h.lost \/ x \in Range(h.list) \ Range(kept)
      BY <1>3 DEF lost
    <3>2. Settled(h, held, x)
      BY <1>1, <1>4, <3>1 DEF LostSettled, TailSettled
    <3>3. x \in Held(h)
      BY <3>1 DEF Held
    <3> QED BY <1>3, <1>11, <3>2, <3>3 DEF Settled
  <2> QED BY <2>1 DEF LostSettled
<1>21. Right(g, held, {b})
  BY <1>16, <1>17, <1>18, <1>19, <1>20 DEF Right
<1> QED BY <1>3, <1>7, <1>21 DEF HasNew, g, list

\* An empty block that is large enough has a gap, and is not passed over.
LEMMA EmptyFits ==
  ASSUME NEW h, NEW b, NEW bytes \in Nat, NEW need \in Nat, need <= bytes - BlockHeader,
         h.blk[b] = [size |-> bytes, used |-> BlockHeader, chunks |-> <<>>]
  PROVE  Fits(h, b, need)
<1>1. /\ h.blk[b].chunks = <<>> /\ h.blk[b].size = bytes /\ h.blk[b].used = BlockHeader
      /\ Len(h.blk[b].chunks) = 0
  OBVIOUS
<1>2. GapEnd(h.blk[b], 0) = bytes /\ GapStart(h.blk[b], 0) = BlockHeader
  BY <1>1 DEF GapEnd, GapStart
<1>3. bytes - BlockHeader >= need
  BY Layout
<1>4. 0 \in Gaps(h.blk[b], need)
  BY <1>1, <1>2, <1>3 DEF Gaps
<1> QED BY <1>1, <1>3, <1>4 DEF Fits, Unused

\* What a request whose block arrives leaves: a block more, with a chunk for the request
\* if it searched any block before.
Came(h, a, held, n, b, r, owner) ==
  /\ Right(a.h, held \cup {a.buffer}, {})
  /\ Fresh(a.buffer, held) /\ a.buffer.owner = owner
  /\ a.h.list = Append(SubSeq(h.list, 1, n), b)
  /\ Held(a.h) = Held(h) \cup {b}
  /\ owner = "pool" => Settled(a.h, held \cup {a.buffer}, b)
  /\ n > 0 => /\ \A x \in BlockIds \ {b} : a.h.blk[x] = h.blk[x]
              /\ OnlyChunks(a.h, b, Need(r))

LEMMA ArrivedKeeps ==
  ASSUME NEW h, NEW held, Right(h, held, {}), FreeIds(h) # {},
         NEW n \in 0..Len(h.list), TailSettled(h, held, n), NEW seen,
         NEW r \in Nat, NEW owner \in {"client", "pool"},
         NEW a \in Arrived(h, n, seen, r, owner)
  PROVE  \E b \in BlockIds \ Held(h) : Came(h, a, held, n, b, r, owner)
<1> DEFINE b == Min(FreeIds(h))
           bytes == NewBlockSize(r + Overhead)
           g == LinkedAfter(h, n, b, bytes)
           goesOn == Unused(h, Last(SubSeq(h.list, 1, n))) >= Need(r)
           best == IF goesOn /\ bytes - BlockHeader > seen THEN b ELSE g.best
           moved == [g EXCEPT !.best = best]
<1>1. a \in IF n = 0 THEN AllocHere(g, r, owner) ELSE PlaceIn(moved, b, r, owner)
  BY DEF Arrived, LinkedAfter
<1>2. b \in BlockIds \ Held(h)
  <2>1. FreeIds(h) \subseteq Nat
    BY BoundsAssumption DEF FreeIds
  <2>2. b \in FreeIds(h)
    BY <2>1, MinExists
  <2> QED BY <2>2 DEF FreeIds
<1>3. bytes \in Nat /\ BlockHeader <= bytes /\ Need(r) <= bytes - BlockHeader /\ Need(r) \in Nat
  <2>1. /\ r + Overhead \in Nat /\ BlockHeader \in Nat /\ ChunkHeader \in Nat
        /\ Need(r) = r + Overhead + ChunkHeader
    BY Layout DEF Need
  <2>2. bytes \in Nat /\ bytes >= (r + Overhead) + BlockHeader + ChunkHeader
    BY <2>1, NewBlockIsLarge
  <2> HIDE DEF bytes
  <2> QED BY <2>1, <2>2, Layout
<1>4. best = b \/ best = g.best
  OBVIOUS
<1> HIDE DEF b, bytes, best
<1>5. Right(g, held, {b}) /\ HasNew(h, g, n, b, bytes)
  BY <1>2, <1>3, LinkedKeeps
<1> HIDE DEF g
<1>6. /\ g.list = Append(SubSeq(h.list, 1, n), b)
      /\ Held(g) = Held(h) \cup {b} /\ b \in Range(g.list) /\ b \notin g.lost
      /\ g.best = h.best
      /\ g.blk[b] = [size |-> bytes, used |-> BlockHeader, chunks |-> <<>>]
      /\ \A x \in BlockIds \ {b} : g.blk[x] = h.blk[x]
  BY <1>5 DEF HasNew
<1>7. Fits(g, b, Need(r))
  BY <1>3, <1>6, EmptyFits
<1>8. h.best # b
  <2>1. h.best # NoBlock => h.best \in Held(h)
    BY DEF Right, HeapRight
  <2> QED BY <1>2, <2>1, BoundsAssumption
<1>9. CASE n = 0
  <2>1. a \in AllocHere(g, r, owner)
    BY <1>1, <1>9
  <2>2. Right(g, held, {})
    <3>1. Len(g.list) = 1
      <4>1. h.list \in Seq(BlockIds)
        BY DEF Right, HeapRight, HeapType
      <4>2. SubSeq(h.list, 1, 0) = <<>>
        BY <4>1
      <4> QED BY <1>6, <1>9, <4>2
    <3>2. NoneEmpty(g, {})
      BY <3>1 DEF NoneEmpty
    <3> QED BY <1>5, <3>2 DEF Right
  <2>3. Hit(g, Need(r)) # 0
    BY <1>6, <1>7, <2>2, SearchFinds DEF Right
  <2>4. /\ Right(a.h, held \cup {a.buffer}, {}) /\ HandedOut(g, a, held, owner)
        /\ \A x \in BlockIds : Fits(g, x, Need(r)) /\ x # a.buffer.block /\ x # g.best =>
             a.h.best # x
    BY <2>1, <2>2, <2>3, AllocHereKeeps
  <2>5. /\ a.h.list = g.list /\ a.h.lost = g.lost /\ Fresh(a.buffer, held)
        /\ a.buffer.owner = owner
        /\ \A x \in BlockIds \ {a.buffer.block} : a.h.blk[x] = g.blk[x]
    BY <2>4 DEF HandedOut
  <2>6. ASSUME owner = "pool" PROVE Settled(a.h, held \cup {a.buffer}, b)
    <3>1. CASE a.buffer.block = b
      BY <2>5, <2>6, <3>1 DEF Settled, PoolHeld
    <3>2. CASE a.buffer.block # b
      <4>1. a.h.best # b
        BY <1>2, <1>6, <1>7, <1>8, <2>4, <3>2
      <4>2. a.h.blk[b].chunks = <<>>
        BY <1>2, <1>6, <2>5, <3>2
      <4> QED BY <4>1, <4>2 DEF Settled
    <3> QED BY <3>1, <3>2
  <2>7. Held(a.h) = Held(h) \cup {b}
    BY <1>6, <2>5 DEF Held
  <2>8. Came(h, a, held, n, b, r, owner)
    BY <1>6, <1>9, <2>4, <2>5, <2>6, <2>7 DEF Came
  <2> QED BY <1>2, <2>8
<1>10. CASE n # 0
  <2>1. a \in PlaceIn(moved, b, r, owner)
    BY <1>1, <1>10
  <2>2. best \in Candidates(g) \cup {g.best}
    BY <1>4, <1>6 DEF Candidates
  <2>3. /\ Right(moved, held, {b}) /\ moved.list = g.list /\ moved.lost = g.lost
        /\ moved.blk = g.blk /\ moved.best = best
    BY <1>5, <2>2, BestMoves
  <2> HIDE DEF moved
  <2>4. /\ b \in Held(moved) /\ b \notin moved.lost /\ Gaps(moved.blk[b], Need(r)) # {}
        /\ moved.blk[b].chunks = <<>> /\ Held(moved) = Held(g)
    <3>1. Held(moved) = Held(g) /\ b \in Held(g)
      BY <1>6, <2>3 DEF Held
    <3>2. Gaps(g.blk[b], Need(r)) # {}
      BY <1>7 DEF Fits
    <3>3. g.blk[b].chunks = <<>>
      BY <1>6
    <3> QED BY <1>6, <2>3, <3>1, <3>2, <3>3
  <2>5. /\ Right(a.h, held \cup {a.buffer}, {b} \ {b}) /\ HandedOut(moved, a, held, owner)
        /\ PutInto(moved, a, b) /\ OnlyChunks(a.h, b, Need(r))
    BY <2>1, <2>3, <2>4, PlaceInKeeps
  <2>6. /\ a.h.list = g.list /\ a.h.lost = g.lost /\ Fresh(a.buffer, held)
        /\ a.buffer.owner = owner /\ a.buffer.block = b
        /\ \A x \in BlockIds \ {b} : a.h.blk[x] = h.blk[x]
    BY <1>6, <2>3, <2>5 DEF HandedOut, PutInto
  <2>7. Settled(a.h, held \cup {a.buffer}, b) \/ owner # "pool"
    BY <2>6 DEF Settled, PoolHeld
  <2>8. Held(a.h) = Held(h) \cup {b}
    BY <1>6, <2>6 DEF Held
  <2>9. {b} \ {b} = {}
    OBVIOUS
  <2>10. Came(h, a, held, n, b, r, owner)
    BY <1>6, <2>5, <2>6, <2>7, <2>8, <2>9 DEF Came
  <2> QED BY <1>2, <2>10
<1> QED BY <1>9, <1>10

-----------------------------------------------------------------------------
(* Alloc. *)

\* The first n blocks of the list have no gap for a chunk.
NoGap(h, n, need) == \A i \in 1..n : Gaps(h.blk[h.list[i]], need) = {}

\* Block b holds only chunks in heap g that no block searched in h had a gap for.
Needed(h, g, b, n) == \A c \in Range(g.blk[b].chunks) : NoGap(h, n, c.size + ChunkHeader)

\* A search in vain is right about the blocks that are linked.
LEMMA FullHeap ==
  ASSUME NEW h, HeapRight(h), NEW need \in Nat, ~Serves(h, need)
  PROVE  NoGap(h, Len(h.list), need)
<1>1. h.list \in Seq(BlockIds) /\ \A i \in 1..Len(h.list) : h.list[i] \in Range(h.list)
  BY ListOf DEF HeapRight
<1>2. CASE h.list = <<>>
  <2>1. Len(h.list) = 0
    BY <1>2
  <2> QED BY <2>1 DEF NoGap
<1>3. CASE h.list # <<>>
  <2>1. \A b \in Range(h.list) : ~Fits(h, b, need)
    BY <1>3, SearchFinds DEF Serves
  <2>2. ASSUME NEW b \in Range(h.list) PROVE Gaps(h.blk[b], need) = {}
    <3>1. LaidOut(h.blk[b])
      BY Rows DEF Held
    <3>2. Gaps(h.blk[b], need) # {} => h.blk[b].size - h.blk[b].used >= need
      BY <3>1, GapIsUnused
    <3> QED BY <2>1, <3>2 DEF Fits, Unused
  <2> QED BY <1>1, <2>2 DEF NoGap
<1> QED BY <1>2, <1>3

\* Searching moves the best bet and no more.
SameBlocks(h, g) == g.list = h.list /\ g.lost = h.lost

LEMMA SearchedKeeps ==
  ASSUME NEW h, NEW held, Right(h, held, {}), NEW need
  PROVE  /\ Right(Searched(h, need), held, {})
         /\ SameBlocks(h, Searched(h, need)) /\ Searched(h, need).blk = h.blk
<1> DEFINE seen == SearchOrder(h, need)
           best == BestBet(h, seen)
<1>1. HeapRight(h)
  BY DEF Right
<1>2. seen \in Seq(BlockIds) /\ Range(seen) \subseteq Candidates(h)
  BY <1>1, SearchOrderIs
<1>3. Candidates(h) \subseteq Held(h)
  BY <1>1, CandidatesHeld
<1> HIDE DEF seen
<1>4. best \in Candidates(h) \cup {h.best}
  BY <1>1, <1>2, <1>3, BestBetIs
<1>5. Searched(h, need) = [h EXCEPT !.best = best]
  BY DEF Searched, seen
<1> HIDE DEF best
<1>6. /\ Right([h EXCEPT !.best = best], held, {})
      /\ [h EXCEPT !.best = best].list = h.list
      /\ [h EXCEPT !.best = best].lost = h.lost
      /\ [h EXCEPT !.best = best].blk = h.blk
  BY <1>4, BestMoves
<1> QED BY <1>5, <1>6 DEF SameBlocks

\* The pool's node, where the heap has a block for it.
LEMMA SuppliedKeeps ==
  ASSUME NEW h, NEW held, Right(h, held, {}), NEW split \in BOOLEAN,
         split => Serves(h, Need(RangeBytes)), NEW s \in Supplied(h, split)
  PROVE  /\ Right(s.h, held \cup s.taken, {}) /\ SameBlocks(h, s.h)
         /\ \A t \in s.taken : Fresh(t, held)
<1> DEFINE Taken(a) == [h |-> a.h, taken |-> {a.buffer}]
<1>1. CASE split
  <2>1. s \in {Taken(a) : a \in AllocHere(h, RangeBytes, "pool")}
    BY <1>1 DEF Supplied
  <2> HIDE DEF Taken
  <2>2. PICK a \in AllocHere(h, RangeBytes, "pool") : s = Taken(a)
    BY <2>1
  <2>3. s.h = a.h /\ s.taken = {a.buffer}
    BY <2>2 DEF Taken
  <2>4. Hit(h, Need(RangeBytes)) # 0 /\ RangeBytes \in Nat
    BY <1>1, BoundsAssumption DEF Serves
  <2>5. Right(a.h, held \cup {a.buffer}, {}) /\ HandedOut(h, a, held, "pool")
    BY <2>4, AllocHereKeeps
  <2> QED BY <2>3, <2>5 DEF HandedOut, SameBlocks
<1>2. CASE ~split
  <2>1. s.h = h /\ s.taken = {}
    BY <1>2 DEF Supplied
  <2> QED BY <2>1 DEF SameBlocks
<1> QED BY <1>1, <1>2

\* What Alloc leaves: all is right with what was taken, no block is gone, and a new one
\* was needed.
Given(h, x, held) ==
  /\ Right(x.h, held \cup x.taken, {})
  /\ \A t \in x.taken : Fresh(t, held)
  /\ Held(h) \subseteq Held(x.h)
  /\ \A b \in Range(x.h.list) \ Held(h) : Needed(h, x.h, b, Len(h.list))

LEMMA GrowKeeps ==
  ASSUME NEW h, NEW held, Right(h, held, {}), NEW r \in Nat, FreeIds(h) # {},
         ~Serves(h, Need(r)), NEW split \in BOOLEAN, split => NodeServed(h, r),
         NEW x \in Grow(h, r, split)
  PROVE  Given(h, x, held)
<1> DEFINE searched == Searched(h, Need(r))
           n == Len(h.list)
           Both(s, a) == [h |-> a.h, taken |-> s.taken \cup {a.buffer}]
<1>1. x \in UNION {{Both(s, a) : a \in Arrived(s.h, n, BestSize(searched), r, "client")} :
                     s \in Supplied(searched, split)}
  BY DEF Grow
<1>2. /\ Right(searched, held, {}) /\ SameBlocks(h, searched)
      /\ split => Serves(searched, Need(RangeBytes))
  BY SearchedKeeps DEF NodeServed
<1>3. HeapRight(h) /\ Need(r) \in Nat /\ n \in Nat
  BY Layout, ListOf DEF Right, HeapRight, Need
<1>4. NoGap(h, n, Need(r))
  BY <1>3, FullHeap
<1> HIDE DEF searched, Both
<1>5. PICK s \in Supplied(searched, split) :
        x \in {Both(s, a) : a \in Arrived(s.h, n, BestSize(searched), r, "client")}
  BY <1>1
<1>6. PICK a \in Arrived(s.h, n, BestSize(searched), r, "client") : x = Both(s, a)
  BY <1>5
<1>7. x.h = a.h /\ x.taken = s.taken \cup {a.buffer}
  BY <1>6 DEF Both
<1> DEFINE mid == held \cup s.taken
<1>8. /\ Right(s.h, mid, {}) /\ SameBlocks(searched, s.h)
      /\ \A t \in s.taken : Fresh(t, held)
  BY <1>2, SuppliedKeeps
<1>9. s.h.list = h.list /\ Held(s.h) = Held(h)
  BY <1>2, <1>8 DEF SameBlocks, Held
<1>10. FreeIds(s.h) # {} /\ n \in 0..Len(s.h.list) /\ TailSettled(s.h, mid, n)
  <2>1. FreeIds(s.h) = FreeIds(h)
    BY <1>9 DEF FreeIds
  <2>2. (n + 1)..Len(s.h.list) = {}
    BY <1>3, <1>9
  <2> QED BY <1>3, <1>9, <2>1, <2>2 DEF TailSettled
<1> HIDE DEF mid, n
<1>11. PICK b \in BlockIds \ Held(s.h) : Came(s.h, a, mid, n, b, r, "client")
  BY <1>6, <1>8, <1>10, ArrivedKeeps
<1>12. /\ Right(a.h, mid \cup {a.buffer}, {})
       /\ Fresh(a.buffer, mid)
       /\ Held(a.h) = Held(h) \cup {b}
       /\ n > 0 => OnlyChunks(a.h, b, Need(r))
  BY <1>9, <1>11 DEF Came
<1>13. Needed(h, a.h, b, n)
  <2>1. CASE n > 0
    BY <1>4, <1>12, <2>1 DEF Needed, OnlyChunks
  <2>2. CASE ~(n > 0)
    BY <1>3, <2>2 DEF Needed, NoGap
  <2> QED BY <2>1, <2>2
<1>14. mid \cup {a.buffer} = held \cup x.taken
  BY <1>7 DEF mid
<1>15. \A t \in x.taken : Fresh(t, held)
  BY <1>7, <1>8, <1>12 DEF Fresh, mid
<1>16. Range(a.h.list) \ Held(h) \subseteq {b}
  BY <1>12 DEF Held
<1> QED BY <1>7, <1>12, <1>13, <1>14, <1>15, <1>16 DEF Given, n

LEMMA AllocatedKeeps ==
  ASSUME NEW h, NEW held, Right(h, held, {}), NEW r \in Nat, NEW x \in Allocated(h, r)
  PROVE  Given(h, x, held)
<1> DEFINE Taken(a) == [h |-> a.h, taken |-> {a.buffer}]
           splits == {s \in Splits : FreeIds(h) # {} /\ (s => NodeServed(h, r))}
<1>1. x \in IF Serves(h, Need(r)) THEN {Taken(a) : a \in AllocHere(h, r, "client")}
            ELSE UNION {Grow(h, r, s) : s \in splits}
  BY DEF Allocated
<1>2. CASE Serves(h, Need(r))
  <2>1. x \in {Taken(a) : a \in AllocHere(h, r, "client")}
    BY <1>1, <1>2
  <2> HIDE DEF Taken
  <2>2. PICK a \in AllocHere(h, r, "client") : x = Taken(a)
    BY <2>1
  <2>3. x.h = a.h /\ x.taken = {a.buffer}
    BY <2>2 DEF Taken
  <2>4. Hit(h, Need(r)) # 0
    BY <1>2 DEF Serves
  <2>5. Right(a.h, held \cup {a.buffer}, {}) /\ HandedOut(h, a, held, "client")
    BY <2>4, AllocHereKeeps
  <2>6. Held(a.h) = Held(h) /\ Range(a.h.list) \subseteq Held(h)
    BY <2>5 DEF HandedOut, Held
  <2> QED BY <2>3, <2>5, <2>6 DEF Given, HandedOut
<1>3. CASE ~Serves(h, Need(r))
  <2>1. x \in UNION {Grow(h, r, s) : s \in splits}
    BY <1>1, <1>3
  <2> HIDE DEF splits
  <2>2. PICK split \in splits : x \in Grow(h, r, split)
    BY <2>1
  <2>3. split \in BOOLEAN /\ FreeIds(h) # {} /\ (split => NodeServed(h, r))
    BY BoundsAssumption DEF splits
  <2> QED BY <1>3, <2>2, <2>3, GrowKeeps
<1> QED BY <1>2, <1>3

-----------------------------------------------------------------------------
(* Free. *)

\* A chunk of a block is found by its offset.
LEMMA ChunkFound ==
  ASSUME NEW block, InPlace(block), NEW c \in Range(block.chunks)
  PROVE  LET i == SelectInSeq(block.chunks, LAMBDA x : x.off = c.off)
         IN i \in 1..Len(block.chunks) /\ block.chunks[i] = c
<1> DEFINE I == {i \in 1..Len(block.chunks) : block.chunks[i].off = c.off}
<1>1. block.chunks \in Seq(ChunkType)
  BY DEF InPlace, BlockType
<1>2. Len(block.chunks) \in Nat /\ \E i \in 1..Len(block.chunks) : c = block.chunks[i]
  BY <1>1, ChunksOf
<1>3. I # {} /\ I \subseteq 1..Len(block.chunks)
  BY <1>2
<1>4. SelectInSeq(block.chunks, LAMBDA x : x.off = c.off) = Min(I)
  BY <1>3 DEF SelectInSeq
<1>5. \A i \in I : i \in 1..Len(block.chunks) /\ block.chunks[i].off = c.off
  OBVIOUS
<1> HIDE DEF I
<1>6. Min(I) \in I
  BY <1>2, <1>3, FirstPlace
<1>7. Min(I) \in 1..Len(block.chunks) /\ block.chunks[Min(I)].off = c.off
  BY <1>5, <1>6
<1>8. block.chunks[Min(I)] = c
  <2>1. PICK k \in 1..Len(block.chunks) : c = block.chunks[k]
    BY <1>2
  <2>2. k = Min(I)
    BY <1>7, <2>1, OffsetsDiffer
  <2> QED BY <2>1, <2>2
<1> QED BY <1>4, <1>7, <1>8

\* Heap g is heap h without chunk c of block b.
Without(h, g, b, c) ==
  /\ HeapRight(g)
  /\ g.list = h.list /\ g.lost = h.lost /\ g.best = h.best
  /\ \A x \in BlockIds \ {b} : g.blk[x] = h.blk[x]
  /\ Range(g.blk[b].chunks) = Range(h.blk[b].chunks) \ {c}

LEMMA UnlinkedIs ==
  ASSUME NEW h, HeapRight(h), NEW b \in Held(h), NEW c \in Range(h.blk[b].chunks)
  PROVE  Without(h, Unlinked(h, b, c.off), b, c)
<1> DEFINE block == h.blk[b]
           i == SelectInSeq(block.chunks, LAMBDA x : x.off = c.off)
           new == WithoutChunk(block, i)
           g == Unlinked(h, b, c.off)
           shorter == RemoveAt(block.chunks, i)
           used == block.used - (c.size + ChunkHeader)
           inUsed == h.inUsed - c.size
<1>1. h \in HeapType /\ b \in BlockIds
  BY ListOf DEF HeapRight
<1>2. LaidOut(block) /\ InPlace(block) /\ block \in BlockType
  BY Rows
<1>3. i \in 1..Len(block.chunks) /\ block.chunks[i] = c
  BY <1>2, ChunkFound
<1>4. c \in ChunkType /\ c.size \in Nat
  BY <1>2, <1>3, ChunkTyped
<1>5. g = SetBlock(h, b, shorter, used, inUsed)
  BY <1>3 DEF Unlinked, SetBlock
<1>6. new = SetChunks(block, shorter, used)
  BY <1>3 DEF WithoutChunk, SetChunks
<1> HIDE DEF i
<1>7. /\ LaidOut(new) /\ new.size = block.size
      /\ Range(new.chunks) = Range(block.chunks) \ {c}
      /\ Cardinality(Filled(block)) = Cardinality(Filled(new)) + c.size
  BY <1>2, <1>3, ChunkRemoved
<1> HIDE DEF shorter, used, inUsed, new, g
<1>8. /\ g.list = h.list /\ g.lost = h.lost /\ g.best = h.best /\ g.allocated = h.allocated
      /\ g.inUsed = inUsed
      /\ \A x \in BlockIds \ {b} : g.blk[x] = h.blk[x]
      /\ g.blk[b] = new
      /\ new \in BlockType /\ inUsed \in Nat => g \in HeapType
  BY <1>1, <1>5, <1>6, BlockSet
<1>9. /\ Cardinality(Filled(new)) \in Nat /\ h.inUsed \in Nat
      /\ Cardinality(Filled(block)) <= h.inUsed
  <2>1. IsFiniteSet(Filled(new))
    BY <1>7, OccupiedFits DEF LaidOut
  <2>2. UsedRow(h, b) \subseteq InBuffers(h) /\ IsFiniteSet(InBuffers(h))
        /\ h.inUsed = Cardinality(InBuffers(h))
    BY DEF UsedRow, InBuffers, HeapRight
  <2>3. Cardinality(UsedRow(h, b)) = Cardinality(Filled(block))
    BY Rows
  <2>4. Cardinality(UsedRow(h, b)) <= Cardinality(InBuffers(h))
    BY <2>2, FS_Subset
  <2>5. Cardinality(Filled(new)) \in Nat /\ h.inUsed \in Nat
    BY <1>1, <2>1, FS_CardinalityType DEF HeapType
  <2> QED BY <2>2, <2>3, <2>4, <2>5
<1>10. inUsed \in Nat
  BY <1>4, <1>7, <1>9 DEF inUsed
<1>11. h.inUsed + Cardinality(Filled(g.blk[b])) = g.inUsed + Cardinality(Filled(h.blk[b]))
  BY <1>4, <1>7, <1>8, <1>9 DEF inUsed
<1>12. HeapRight(g)
  <2>1. g.best # NoBlock => g.best \in Held(h)
    BY <1>8 DEF HeapRight
  <2>2. LaidOut(g.blk[b]) /\ g.blk[b].size = h.blk[b].size /\ new \in BlockType
    BY <1>7, <1>8 DEF LaidOut, InPlace
  <2> QED BY <1>8, <1>10, <1>11, <2>1, <2>2, OneBlockChanges
<1> QED BY <1>7, <1>8, <1>12 DEF g, Without

\* Giving an empty block back keeps all right.
LEMMA GivenBackKeeps ==
  ASSUME NEW h, NEW held, NEW b \in Range(h.list), Right(h, held, {b}), h.blk[b].chunks = <<>>
  PROVE  /\ Right(GivenBack(h, b), held, {})
         /\ Held(GivenBack(h, b)) = Held(h) \ {b}
         /\ Range(GivenBack(h, b).list) \subseteq Range(h.list)
         /\ \A x \in BlockIds \ {b} : GivenBack(h, b).blk[x] = h.blk[x]
<1> DEFINE g == GivenBack(h, b)
           n == Len(h.list)
           i == SelectInSeq(h.list, LAMBDA x : x = b)
           empty == [size |-> 0, used |-> 0, chunks |-> <<>>]
<1>1. /\ HeapRight(h) /\ BuffersRight(h, held) /\ Owned(h, held) /\ NoneEmpty(h, {b})
      /\ LostSettled(h, held)
  BY DEF Right
<1>2. /\ h \in HeapType /\ h.list \in Seq(BlockIds) /\ n \in Nat
      /\ Held(h) \subseteq BlockIds /\ b \in Held(h) /\ h.allocated \in Nat
      /\ \A k \in 1..n : h.list[k] \in Range(h.list)
      /\ \A x \in Range(h.list) : \E k \in 1..n : x = h.list[k]
  BY <1>1, ListOf DEF HeapRight
<1>3. i \in 1..n /\ h.list[i] = b
  BY <1>2, PlaceOf
<1>4. RemoveFirst(h.list, b) = RemoveAt(h.list, i)
  BY <1>3 DEF RemoveFirst
<1> HIDE DEF i
<1>5. /\ RemoveAt(h.list, i) \in Seq(BlockIds) /\ Len(RemoveAt(h.list, i)) = n - 1
      /\ \A k \in 1..(n - 1) : RemoveAt(h.list, i)[k] = IF k < i THEN h.list[k] ELSE h.list[k + 1]
  BY <1>2, <1>3, RemoveAtIs
<1>6. /\ g.list = RemoveAt(h.list, i) /\ g.lost = h.lost /\ g.inUsed = h.inUsed
      /\ g.best = IF h.best = b THEN NoBlock ELSE h.best
      /\ g.allocated = h.allocated - h.blk[b].size
  BY <1>2, <1>4 DEF GivenBack, HeapType
<1>7. g.blk[b] = empty /\ \A x \in BlockIds \ {b} : g.blk[x] = h.blk[x]
  BY <1>2 DEF GivenBack, HeapType
<1>8. h.blk[b].size \in Nat /\ h.blk[b].size <= h.allocated
      /\ IsFiniteSet(SizeRow(h, b)) /\ Cardinality(SizeRow(h, b)) = h.blk[b].size
  <2>1. /\ h.blk[b].size \in Nat
        /\ IsFiniteSet(SizeRow(h, b)) /\ Cardinality(SizeRow(h, b)) = h.blk[b].size
    BY <1>1, <1>2, Rows
  <2>2. SizeRow(h, b) \subseteq InBlocks(h) /\ IsFiniteSet(InBlocks(h))
        /\ h.allocated = Cardinality(InBlocks(h))
    BY <1>1, <1>2 DEF SizeRow, InBlocks, HeapRight
  <2>3. Cardinality(SizeRow(h, b)) <= Cardinality(InBlocks(h))
    BY <2>2, FS_Subset
  <2> QED BY <2>1, <2>2, <2>3
<1>9. g \in HeapType
  <2>1. empty \in BlockType
    BY DEF BlockType
  <2>2. RemoveFirst(h.list, b) \in Seq(BlockIds)
    BY <1>4, <1>5
  <2>3. h.allocated - h.blk[b].size \in Nat
    BY <1>2, <1>8
  <2>4. NoBlock \in BlockIds \cup {NoBlock}
    OBVIOUS
  <2> DEFINE list == RemoveFirst(h.list, b)
             best == IF h.best = b THEN NoBlock ELSE h.best
             allocated == h.allocated - h.blk[b].size
  <2>5. GivenBack(h, b) = [h EXCEPT !.list = list, !.best = best,
                                    !.allocated = allocated, !.blk[b] = empty]
    BY DEF GivenBack
  <2>6. best \in BlockIds \cup {NoBlock}
    BY <1>2 DEF HeapType
  <2>7. list \in Seq(BlockIds) /\ allocated \in Nat
    BY <2>2, <2>3
  <2> HIDE DEF empty, list, best, allocated
  <2>8. [h EXCEPT !.list = list, !.best = best,
                  !.allocated = allocated, !.blk[b] = empty] \in HeapType
    BY <1>2, <2>1, <2>6, <2>7 DEF HeapType
  <2> QED BY <2>5, <2>8
<1> HIDE DEF g
<1>10. /\ Len(g.list) = n - 1
       /\ \A k \in 1..(n - 1) : \/ k < i /\ g.list[k] = h.list[k]
                                \/ k >= i /\ g.list[k] = h.list[k + 1]
  <2>1. /\ Len(g.list) = n - 1
        /\ \A k \in 1..(n - 1) : g.list[k] = IF k < i THEN h.list[k] ELSE h.list[k + 1]
    BY <1>5, <1>6
  <2>2. i \in Int
    BY <1>2, <1>3
  <2>3. \A k \in 1..(n - 1) : k < i \/ k >= i
    BY <1>2, <2>2
  <2>4. \A k \in 1..(n - 1) : k >= i => ~(k < i)
    BY <1>2, <2>2
  <2> QED BY <2>1, <2>3, <2>4
<1>11. \A k \in 1..n : h.list[k] = b <=> k = i
  BY <1>1, <1>3 DEF HeapRight
<1>12. Range(g.list) = Range(h.list) \ {b}
  <2>1. /\ \A k \in 1..(n - 1) : g.list[k] \in Range(g.list)
        /\ \A x \in Range(g.list) : \E k \in 1..(n - 1) : x = g.list[k]
    BY <1>9, <1>10, ListOf
  <2>2. ASSUME NEW x \in Range(g.list) PROVE x \in Range(h.list) \ {b}
    <3>1. PICK k \in 1..(n - 1) : x = g.list[k]
      BY <2>1
    <3>2. PICK m \in 1..n : x = h.list[m] /\ m # i
      <4>1. k \in 1..n /\ k + 1 \in 1..n
        BY <1>2
      <4> QED BY <1>3, <1>10, <3>1, <4>1
    <3> QED BY <1>2, <1>11, <3>2
  <2>3. ASSUME NEW x \in Range(h.list), x # b PROVE x \in Range(g.list)
    <3>1. PICK m \in 1..n : x = h.list[m] /\ m # i
      BY <1>2, <1>3, <2>3
    <3>2. CASE m < i
      <4>1. m \in 1..(n - 1) /\ ~(m >= i)
        BY <1>2, <1>3, <3>1, <3>2
      <4> QED BY <1>10, <2>1, <3>1, <4>1
    <3>3. CASE ~(m < i)
      <4>1. m - 1 \in 1..(n - 1) /\ ~(m - 1 < i) /\ (m - 1) + 1 = m
        BY <1>2, <1>3, <3>1, <3>3
      <4>2. g.list[m - 1] = x
        BY <1>10, <3>1, <4>1
      <4>3. g.list[m - 1] \in Range(g.list)
        BY <2>1, <4>1
      <4> QED BY <4>2, <4>3
    <3> QED BY <3>2, <3>3
  <2> QED BY <2>2, <2>3
<1>held. Held(g) = Held(h) \ {b}
  BY <1>1, <1>6, <1>12 DEF Held, HeapRight
<1>13. \A x \in Held(g) : x \in Held(h) /\ x # b /\ g.blk[x] = h.blk[x]
  BY <1>2, <1>7, <1>held
<1>14. InBuffers(g) = InBuffers(h)
  <2>1. Filled(h.blk[b]) = {}
    BY DEF Filled
  <2>2. {b} \X Filled(h.blk[b]) = {}
    BY <2>1
  <2>3. InBuffers(h) = UNION {{x} \X Filled(h.blk[x]) : x \in Held(g)}
    BY <1>held, <2>2 DEF InBuffers
  <2> QED BY <1>13, <2>3 DEF InBuffers
<1>15. InBlocks(h) = InBlocks(g) \cup SizeRow(h, b) /\ InBlocks(g) \cap SizeRow(h, b) = {}
  <2>1. InBlocks(g) = UNION {SizeRow(h, x) : x \in Held(g)}
    BY <1>13 DEF InBlocks, SizeRow
  <2>2. InBlocks(h) = UNION {SizeRow(h, x) : x \in Held(h)}
    BY DEF InBlocks, SizeRow
  <2>3. \A x \in Held(g) : SizeRow(h, x) \cap SizeRow(h, b) = {}
    BY <1>13 DEF SizeRow
  <2>4. Held(h) = Held(g) \cup {b}
    BY <1>2, <1>held
  <2> QED BY <2>1, <2>2, <2>3, <2>4
<1>16. IsFiniteSet(InBlocks(g)) /\ g.allocated = Cardinality(InBlocks(g))
  <2>1. IsFiniteSet(InBlocks(h)) /\ h.allocated = Cardinality(InBlocks(h))
    BY <1>1 DEF HeapRight
  <2>2. IsFiniteSet(InBlocks(g))
    BY <1>15, <2>1, FS_Subset
  <2>3. /\ Cardinality(InBlocks(h)) = Cardinality(InBlocks(g)) + h.blk[b].size
        /\ Cardinality(InBlocks(g)) \in Nat
    BY <1>8, <1>15, <2>2, Adds
  <2> QED BY <1>2, <1>6, <1>8, <2>1, <2>2, <2>3
<1>17. HeapRight(g)
  <2>1. ASSUME NEW x \in 1..(n - 1), NEW y \in 1..(n - 1), g.list[x] = g.list[y] PROVE x = y
    <3> n \in Nat
      BY <1>2
    <3>1. x \in 1..n /\ x + 1 \in 1..n /\ y \in 1..n /\ y + 1 \in 1..n
      OBVIOUS
    <3>2. \A k, m \in 1..n : h.list[k] = h.list[m] => k = m
      BY <1>1 DEF HeapRight
    <3>3. i \in Int
      BY <1>3
    <3>4. CASE x < i /\ y < i
      <4>1. h.list[x] = h.list[y]
        <5>1. ~(x >= i) /\ ~(y >= i)
          BY <3>3, <3>4
        <5> QED BY <1>10, <2>1, <5>1
      <4> QED BY <3>1, <3>2, <4>1
    <3>5. CASE x < i /\ y >= i
      <4>1. h.list[x] = h.list[y + 1]
        <5>1. ~(x >= i) /\ ~(y < i)
          BY <3>3, <3>5
        <5> QED BY <1>10, <2>1, <5>1
      <4> QED BY <3>1, <3>2, <3>3, <3>5, <4>1
    <3>6. CASE x >= i /\ y < i
      <4>1. h.list[x + 1] = h.list[y]
        <5>1. ~(x < i) /\ ~(y >= i)
          BY <3>3, <3>6
        <5> QED BY <1>10, <2>1, <5>1
      <4> QED BY <3>1, <3>2, <3>3, <3>6, <4>1
    <3>7. CASE x >= i /\ y >= i
      <4>1. h.list[x + 1] = h.list[y + 1]
        <5>1. ~(x < i) /\ ~(y < i)
          BY <3>3, <3>7
        <5> QED BY <1>10, <2>1, <5>1
      <4> QED BY <3>1, <3>2, <4>1
    <3> QED BY <3>3, <3>4, <3>5, <3>6, <3>7
  <2>2. \A x \in Held(g) : LaidOut(g.blk[x])
    BY <1>1, <1>13 DEF HeapRight
  <2>3. g.best # NoBlock => g.best \in Held(g)
    BY <1>1, <1>6, <1>held DEF HeapRight
  <2>4. IsFiniteSet(InBuffers(g)) /\ g.inUsed = Cardinality(InBuffers(g))
    BY <1>1, <1>6, <1>14 DEF HeapRight
  <2>5. g.lost \cap Range(g.list) = {}
    BY <1>1, <1>6, <1>12 DEF HeapRight
  <2> QED BY <1>9, <1>10, <1>16, <2>1, <2>2, <2>3, <2>4, <2>5 DEF HeapRight
<1>18. BuffersRight(g, held)
  <2>1. ASSUME NEW x \in held PROVE Holds(g, x)
    <3>1. Holds(h, x)
      BY <1>1 DEF BuffersRight
    <3>2. x.block # b
      <4>1. Range(<<>>) = {}
        BY DEF Range
      <4> QED BY <3>1, <4>1 DEF Holds
    <3> QED BY <1>13, <1>held, <3>1, <3>2 DEF Holds
  <2> QED BY <1>1, <2>1 DEF BuffersRight
<1>19. Owned(g, held)
  BY <1>1, <1>13 DEF Owned
<1>20. NoneEmpty(g, {})
  <2>1. ASSUME NEW k \in 2..(n - 1) PROVE g.blk[g.list[k]].chunks # <<>>
    <3> n \in Nat
      BY <1>2
    <3>1. k \in 1..(n - 1) /\ k \in 2..n /\ k + 1 \in 2..n
      OBVIOUS
    <3>2. g.list[k] \in Range(g.list)
      BY <1>9, <1>10, <3>1, ListOf
    <3>3. PICK m \in 2..n : g.list[k] = h.list[m]
      BY <1>10, <3>1
    <3>4. g.list[k] \in Held(g)
      BY <3>2 DEF Held
    <3> QED BY <1>1, <1>13, <3>3, <3>4 DEF NoneEmpty
  <2> QED BY <1>10, <2>1 DEF NoneEmpty
<1>lost. LostSettled(g, held)
  <2>1. ASSUME NEW x \in h.lost PROVE Settled(g, held, x)
    <3>1. Settled(h, held, x) /\ x \in Held(g)
      BY <1>1, <1>6, <2>1 DEF LostSettled, Held
    <3>2. x \in BlockIds
      BY <1>2, <1>13, <3>1
    <3>3. x # NoBlock
      BY <3>2, BoundsAssumption
    <3> QED BY <1>6, <1>13, <3>1, <3>3 DEF Settled
  <2> QED BY <1>6, <2>1 DEF LostSettled
<1>21. Right(g, held, {})
  BY <1>17, <1>18, <1>19, <1>20, <1>lost DEF Right
<1> QED BY <1>7, <1>12, <1>21, <1>held DEF g

\* The buffer whose header Free finds is that of one chunk, and nobody else's.
LEMMA ChunkOfBuffer ==
  ASSUME NEW h, NEW held, Right(h, held, {}), NEW buf \in held
  PROVE  /\ buf \in BufferType /\ buf.block \in Held(h)
         /\ \E c \in Range(h.blk[buf.block].chunks) :
              /\ c.off = buf.off /\ Supports(c, buf)
              /\ \A d \in Range(h.blk[buf.block].chunks) : d.off = c.off => d = c
<1>1. HeapRight(h) /\ BuffersRight(h, held)
  BY DEF Right
<1>2. buf \in BufferType /\ Holds(h, buf)
  BY <1>1 DEF BuffersRight
<1>3. buf.block \in Held(h)
  BY <1>2 DEF Holds
<1>4. PICK c \in Range(h.blk[buf.block].chunks) : Supports(c, buf)
  BY <1>2 DEF Holds
<1>5. InPlace(h.blk[buf.block])
  BY <1>1, <1>3, Rows
<1>6. \A d \in Range(h.blk[buf.block].chunks) : d.off = c.off => d = c
  BY <1>5, OneAtOffset
<1>7. c.off = buf.off
  BY <1>4 DEF Supports
<1> QED BY <1>2, <1>3, <1>4, <1>6, <1>7

\* Heap g is heap h without the chunk a buffer of block b lay in, and all is right, but that
\* the block may be empty now, if it is linked.
Unlinks(h, g, rest, b) ==
  /\ Right(g, rest, {b}) /\ SameBlocks(h, g)
  /\ g.blk[b].chunks = <<>> => b \notin h.lost
  /\ Range(g.blk[b].chunks) \subseteq Range(h.blk[b].chunks)
  /\ \A x \in BlockIds \ {b} : g.blk[x] = h.blk[x]

LEMMA UnlinkedKeeps ==
  ASSUME NEW h, NEW held, Right(h, held, {}), NEW buf \in held, buf.owner = "client"
  PROVE  Unlinks(h, Unlinked(h, buf.block, buf.off), held \ {buf}, buf.block)
<1> DEFINE b == buf.block
           rest == held \ {buf}
<1>1. /\ HeapRight(h) /\ BuffersRight(h, held) /\ Owned(h, held) /\ NoneEmpty(h, {})
      /\ LostSettled(h, held)
  BY DEF Right
<1>2. b \in Held(h) /\ buf \in BufferType
  BY ChunkOfBuffer
<1>3. PICK c \in Range(h.blk[b].chunks) :
        c.off = buf.off /\ \A d \in Range(h.blk[b].chunks) : d.off = c.off => d = c
  BY ChunkOfBuffer
<1> DEFINE g == Unlinked(h, b, buf.off)
<1>4. Without(h, g, b, c)
  BY <1>1, <1>2, <1>3, UnlinkedIs
<1> HIDE DEF g
<1>5. /\ HeapRight(g) /\ g.list = h.list /\ g.lost = h.lost /\ g.best = h.best
      /\ Held(g) = Held(h)
      /\ \A x \in BlockIds \ {b} : g.blk[x] = h.blk[x]
      /\ Range(g.blk[b].chunks) = Range(h.blk[b].chunks) \ {c}
  BY <1>4 DEF Without, Held
<1>6. Held(h) \subseteq BlockIds /\ Range(h.list) \subseteq BlockIds
  BY <1>1, ListOf DEF HeapRight
<1>7. BuffersRight(g, rest)
  <2>1. ASSUME NEW x \in rest PROVE Holds(g, x)
    <3>1. Holds(h, x) /\ x.block \in BlockIds
      BY <1>1, <1>6 DEF BuffersRight, Holds
    <3>2. CASE x.block # b
      <4>1. g.blk[x.block] = h.blk[x.block]
        BY <1>5, <3>1, <3>2
      <4> QED BY <1>5, <3>1, <4>1 DEF Holds
    <3>3. CASE x.block = b
      <4>1. ~SameChunk(x, buf)
        BY <1>1 DEF BuffersRight
      <4>2. PICK d \in Range(h.blk[b].chunks) : Supports(d, x)
        BY <3>1, <3>3 DEF Holds
      <4>3. d # c
        BY <1>3, <3>3, <4>1, <4>2 DEF SameChunk, Supports
      <4>4. d \in Range(g.blk[b].chunks)
        BY <1>5, <4>2, <4>3
      <4> QED BY <1>5, <3>1, <3>3, <4>2, <4>4 DEF Holds
    <3> QED BY <3>2, <3>3
  <2> QED BY <1>1, <2>1 DEF BuffersRight
<1>8. Owned(g, rest)
  <2>1. ASSUME NEW x \in Held(g), NEW d \in Range(g.blk[x].chunks), Pad(d.off) = 0
        PROVE  \E y \in rest : y.block = x /\ y.off = d.off
    <3>1. x \in Held(h) /\ x \in BlockIds
      BY <1>5, <1>6
    <3>2. d \in Range(h.blk[x].chunks) /\ (x = b => d # c)
      BY <1>5, <3>1
    <3>3. PICK y \in held : y.block = x /\ y.off = d.off
      BY <1>1, <2>1, <3>1, <3>2 DEF Owned
    <3>4. y # buf
      <4>1. SUFFICES ASSUME y = buf PROVE FALSE
        OBVIOUS
      <4>2. x = b /\ d.off = c.off
        BY <1>3, <3>3, <4>1
      <4> QED BY <1>3, <3>2, <4>2
    <3> QED BY <3>3, <3>4
  <2> QED BY <2>1 DEF Owned
<1>9. NoneEmpty(g, {b})
  <2>1. \A k \in 2..Len(h.list) : h.list[k] \in Range(h.list)
    BY <1>1, ListOf DEF HeapRight
  <2>2. \A k \in 2..Len(h.list) : h.list[k] # b => g.blk[h.list[k]] = h.blk[h.list[k]]
    BY <1>5, <1>6, <2>1
  <2> QED BY <1>1, <1>5, <2>2 DEF NoneEmpty
<1>10. \A x \in h.lost : PoolHeld(held, x) => PoolHeld(rest, x)
  BY DEF PoolHeld
<1>11. Range(<<>>) = {}
  BY DEF Range
<1>12. b \in h.lost => PoolHeld(rest, b)
  BY <1>1, <1>3, <1>10, <1>11 DEF LostSettled, Settled
<1>13. LostSettled(g, rest)
  <2>1. ASSUME NEW x \in h.lost PROVE Settled(g, rest, x)
    <3>1. Settled(h, held, x) /\ x \in BlockIds
      BY <1>1, <2>1, ListOf DEF LostSettled, HeapRight
    <3>2. CASE x = b
      BY <1>12, <2>1, <3>2 DEF Settled
    <3>3. CASE x # b
      BY <1>5, <1>10, <3>1, <3>3 DEF Settled
    <3> QED BY <3>2, <3>3
  <2> QED BY <1>5, <2>1 DEF LostSettled
<1>14. ASSUME b \in h.lost PROVE g.blk[b].chunks # <<>>
  <2>1. PICK x \in rest : x.block = b
    BY <1>12, <1>14 DEF PoolHeld
  <2>2. Range(g.blk[b].chunks) # {}
    BY <1>7, <2>1 DEF BuffersRight, Holds
  <2> QED BY <1>11, <2>2
<1>15. Right(g, rest, {b})
  BY <1>5, <1>7, <1>8, <1>9, <1>13 DEF Right
<1>16. Range(g.blk[b].chunks) \subseteq Range(h.blk[b].chunks)
  BY <1>5
<1>17. Unlinks(h, g, rest, b)
  BY <1>5, <1>14, <1>15, <1>16 DEF SameBlocks, Unlinks
<1> QED BY <1>17 DEF g

\* What Free leaves: no block that was not there, and no chunk.
Released(h, g, held) ==
  /\ Right(g, held, {})
  /\ Held(g) \subseteq Held(h) /\ Range(g.list) \subseteq Range(h.list)
  /\ \A b \in Held(g) : Range(g.blk[b].chunks) \subseteq Range(h.blk[b].chunks)

LEMMA FreedKeeps ==
  ASSUME NEW h, NEW held, Right(h, held, {}), NEW buf \in held, buf.owner = "client"
  PROVE  Released(h, Freed(h, buf.block, buf.off), held \ {buf})
<1> DEFINE b == buf.block
           rest == held \ {buf}
           g == Unlinked(h, b, buf.off)
           best == IF g.best # NoBlock /\ Unused(g, b) > Unused(g, g.best) THEN b ELSE g.best
           f == Freed(h, b, buf.off)
<1>1. b \in Held(h) /\ Held(h) \subseteq BlockIds
  BY ChunkOfBuffer, ListOf DEF Right, HeapRight
<1>2. /\ Right(g, rest, {b}) /\ SameBlocks(h, g)
      /\ g.blk[b].chunks = <<>> => b \notin h.lost
      /\ Range(g.blk[b].chunks) \subseteq Range(h.blk[b].chunks)
      /\ \A x \in BlockIds \ {b} : g.blk[x] = h.blk[x]
  <2>1. Unlinks(h, g, rest, b)
    BY UnlinkedKeeps
  <2> HIDE DEF g
  <2> QED BY <2>1 DEF Unlinks
<1>3. f = IF g.blk[b].chunks = <<>> THEN GivenBack(g, b) ELSE [g EXCEPT !.best = best]
  BY DEF Freed
<1> HIDE DEF g, f
<1>4. g.list = h.list /\ g.lost = h.lost /\ Held(g) = Held(h)
  BY <1>2 DEF SameBlocks, Held
<1>5. \A x \in Held(h) : Range(g.blk[x].chunks) \subseteq Range(h.blk[x].chunks)
  BY <1>1, <1>2
<1>6. CASE g.blk[b].chunks = <<>>
  <2>1. b \in Range(g.list)
    BY <1>1, <1>2, <1>4, <1>6 DEF Held
  <2>2. /\ Right(GivenBack(g, b), rest, {})
        /\ Held(GivenBack(g, b)) = Held(g) \ {b}
        /\ Range(GivenBack(g, b).list) \subseteq Range(g.list)
        /\ \A x \in BlockIds \ {b} : GivenBack(g, b).blk[x] = g.blk[x]
    BY <1>2, <1>6, <2>1, GivenBackKeeps
  <2>3. f = GivenBack(g, b)
    BY <1>3, <1>6
  <2>4. \A x \in Held(f) : f.blk[x] = g.blk[x] /\ x \in Held(h)
    BY <1>1, <1>4, <2>2, <2>3
  <2> QED BY <1>4, <1>5, <2>2, <2>3, <2>4 DEF Released, f
<1>7. CASE g.blk[b].chunks # <<>>
  <2>1. f = [g EXCEPT !.best = best]
    BY <1>3, <1>7
  <2>2. best = b \/ best = g.best
    OBVIOUS
  <2> HIDE DEF best
  <2> DEFINE m == [g EXCEPT !.best = best]
  <2>3. Right(m, rest, {b}) /\ m.list = g.list /\ m.lost = g.lost /\ m.blk = g.blk
    BY <1>1, <1>2, <1>4, <1>7, <2>2, BestMoves
  <2> HIDE DEF m
  <2>4. Right(f, rest, {b}) /\ f.list = g.list /\ f.lost = g.lost /\ f.blk = g.blk
    BY <2>1, <2>3 DEF m
  <2>5. NoneEmpty(f, {})
    BY <1>7, <2>4 DEF Right, NoneEmpty
  <2>6. Held(f) = Held(h)
    BY <1>4, <2>4 DEF Held
  <2> QED BY <1>4, <1>5, <2>4, <2>5, <2>6 DEF Right, Released, f
<1> QED BY <1>6, <1>7

-----------------------------------------------------------------------------
(* ReAlloc in place. *)

\* A block whose i-th chunk has another Requested field.
Renamed(block, i, size) == [block EXCEPT !.chunks[i].requested = size]

LEMMA ChunkRenamed ==
  ASSUME NEW block, LaidOut(block), NEW i \in 1..Len(block.chunks), NEW size \in Nat
  PROVE  LET new == Renamed(block, i, size)
         IN /\ LaidOut(new) /\ new \in BlockType /\ new.size = block.size
            /\ Filled(new) = Filled(block)
            /\ Len(new.chunks) = Len(block.chunks)
            /\ \A k \in 1..Len(block.chunks) :
                 /\ new.chunks[k].off = block.chunks[k].off
                 /\ new.chunks[k].size = block.chunks[k].size
                 /\ new.chunks[k].requested = IF k = i THEN size ELSE block.chunks[k].requested
                 /\ k # i => new.chunks[k] = block.chunks[k]
<1> DEFINE n == Len(block.chunks)
           new == Renamed(block, i, size)
           c == [block.chunks[i] EXCEPT !.requested = size]
<1>1. /\ InPlace(block) /\ block \in BlockType /\ block.chunks \in Seq(ChunkType) /\ n \in Nat
      /\ block.size \in Nat /\ block.used \in Nat
  BY DEF LaidOut, InPlace, BlockType
<1>2. block.chunks[i] \in ChunkType
  BY <1>1
<1>3. /\ c \in ChunkType /\ c.off = block.chunks[i].off /\ c.size = block.chunks[i].size
      /\ c.requested = size
  BY <1>2 DEF ChunkType
<1>4. new = [block EXCEPT !.chunks = [block.chunks EXCEPT ![i] = c]]
  BY DEF Renamed
<1> HIDE DEF c, new
<1>5. /\ [block.chunks EXCEPT ![i] = c] \in Seq(ChunkType)
      /\ Len([block.chunks EXCEPT ![i] = c]) = n
      /\ \A k \in 1..n : [block.chunks EXCEPT ![i] = c][k] = IF k = i THEN c ELSE block.chunks[k]
  BY <1>1, <1>3
<1>6. /\ new \in BlockType /\ new.size = block.size /\ new.used = block.used
      /\ new.chunks = [block.chunks EXCEPT ![i] = c]
  BY <1>1, <1>4, <1>5 DEF BlockType
<1>7. /\ Len(new.chunks) = n /\ new.chunks \in Seq(ChunkType)
      /\ \A k \in 1..n : new.chunks[k] = IF k = i THEN c ELSE block.chunks[k]
  BY <1>5, <1>6
<1>8. \A k \in 1..n : /\ new.chunks[k].off = block.chunks[k].off
                      /\ new.chunks[k].size = block.chunks[k].size
                      /\ new.chunks[k].requested =
                           IF k = i THEN size ELSE block.chunks[k].requested
                      /\ k # i => new.chunks[k] = block.chunks[k]
  BY <1>3, <1>7
<1>9. \A k \in 1..n : ChunkEnd(new.chunks[k]) = ChunkEnd(block.chunks[k])
  BY <1>8 DEF ChunkEnd
<1>10. InPlace(new)
  BY <1>1, <1>6, <1>7, <1>8, <1>9 DEF InPlace
<1>11. DOMAIN new.chunks = 1..n /\ DOMAIN block.chunks = 1..n
  BY <1>1, <1>7
<1>12. Filled(new) = Filled(block) /\ Occupied(new) = Occupied(block)
  BY <1>8, <1>9, <1>11 DEF Filled, Occupied
<1>13. LaidOut(new)
  BY <1>6, <1>10, <1>12 DEF LaidOut
<1> QED BY <1>6, <1>7, <1>8, <1>12, <1>13 DEF new

WithRequested(h, b, i, size) == [h EXCEPT !.blk[b].chunks[i].requested = size]

\* Chunk c of block b is d in heap g, and nothing else is different.
Replaced(h, g, b, c, d) ==
  /\ HeapRight(g) /\ g.list = h.list /\ g.lost = h.lost /\ g.best = h.best
  /\ \A x \in BlockIds \ {b} : g.blk[x] = h.blk[x]
  /\ d \in Range(g.blk[b].chunks)
  /\ \A x \in Range(h.blk[b].chunks) : x # c => x \in Range(g.blk[b].chunks)
  /\ \A x \in Range(g.blk[b].chunks) : x = d \/ x \in Range(h.blk[b].chunks)
  /\ Len(g.blk[b].chunks) = Len(h.blk[b].chunks)

LEMMA RenamedIs ==
  ASSUME NEW h, HeapRight(h), NEW b \in Held(h), NEW i \in 1..Len(h.blk[b].chunks),
         NEW size \in Nat
  PROVE  \E d \in ChunkType :
           /\ Replaced(h, WithRequested(h, b, i, size), b, h.blk[b].chunks[i], d)
           /\ d.off = h.blk[b].chunks[i].off /\ d.size = h.blk[b].chunks[i].size
           /\ d.requested = size
<1> DEFINE block == h.blk[b]
           n == Len(block.chunks)
           new == Renamed(block, i, size)
           g == WithRequested(h, b, i, size)
<1>1. h \in HeapType /\ b \in BlockIds /\ LaidOut(block) /\ block.chunks \in Seq(ChunkType)
  BY ListOf, Rows DEF HeapRight, BlockType
<1>2. g = [h EXCEPT !.blk[b] = new]
  BY DEF Renamed, WithRequested
<1>3. /\ LaidOut(new) /\ new \in BlockType /\ new.size = block.size
      /\ Filled(new) = Filled(block) /\ Len(new.chunks) = n
      /\ \A k \in 1..n :
           /\ new.chunks[k].off = block.chunks[k].off
           /\ new.chunks[k].size = block.chunks[k].size
           /\ new.chunks[k].requested = IF k = i THEN size ELSE block.chunks[k].requested
           /\ k # i => new.chunks[k] = block.chunks[k]
  BY <1>1, ChunkRenamed
<1> HIDE DEF new, g
<1>4. /\ g \in HeapType /\ g.list = h.list /\ g.lost = h.lost /\ g.best = h.best
      /\ g.allocated = h.allocated /\ g.inUsed = h.inUsed
      /\ g.blk[b] = new /\ \A x \in BlockIds \ {b} : g.blk[x] = h.blk[x]
  BY <1>1, <1>2, <1>3 DEF HeapType
<1>5. HeapRight(g)
  <2>1. g.best # NoBlock => g.best \in Held(h)
    BY <1>4 DEF HeapRight
  <2>2. LaidOut(g.blk[b]) /\ g.blk[b].size = h.blk[b].size
    BY <1>3, <1>4
  <2>3. h.inUsed + Cardinality(Filled(g.blk[b])) = g.inUsed + Cardinality(Filled(h.blk[b]))
    BY <1>3, <1>4
  <2> QED BY <1>4, <2>1, <2>2, <2>3, OneBlockChanges
<1>6. new.chunks \in Seq(ChunkType)
  BY <1>3 DEF BlockType
<1>7. /\ \A k \in 1..n : new.chunks[k] \in ChunkType /\ new.chunks[k] \in Range(new.chunks)
      /\ \A x \in Range(new.chunks) : \E k \in 1..n : x = new.chunks[k]
  <2>1. Len(new.chunks) = n
    BY <1>3
  <2>2. /\ \A k \in 1..Len(new.chunks) :
             new.chunks[k] \in ChunkType /\ new.chunks[k] \in Range(new.chunks)
        /\ \A x \in Range(new.chunks) : \E k \in 1..Len(new.chunks) : x = new.chunks[k]
    BY <1>6, ChunksOf
  <2> QED BY <2>1, <2>2
<1>8. /\ \A k \in 1..n : block.chunks[k] \in Range(block.chunks)
      /\ \A x \in Range(block.chunks) : \E k \in 1..n : x = block.chunks[k]
  BY <1>1, ChunksOf
<1> DEFINE d == new.chunks[i]
<1>9. /\ d \in ChunkType /\ d.off = block.chunks[i].off /\ d.size = block.chunks[i].size
      /\ d.requested = size /\ d \in Range(new.chunks)
  BY <1>3, <1>7
<1>10. ASSUME NEW x \in Range(block.chunks), x # block.chunks[i] PROVE x \in Range(new.chunks)
  <2>1. PICK k \in 1..n : x = block.chunks[k]
    BY <1>8
  <2>2. new.chunks[k] = x
    BY <1>3, <1>10, <2>1
  <2> QED BY <1>7, <2>2
<1>11. ASSUME NEW x \in Range(new.chunks), x # d PROVE x \in Range(block.chunks)
  <2>1. PICK k \in 1..n : x = new.chunks[k]
    BY <1>7
  <2>2. block.chunks[k] = x
    BY <1>3, <1>11, <2>1
  <2> QED BY <1>8, <2>2
<1> HIDE DEF d
<1>12. Replaced(h, g, b, block.chunks[i], d)
  BY <1>3, <1>4, <1>5, <1>9, <1>10, <1>11 DEF Replaced
<1> QED BY <1>9, <1>12 DEF g

\* ReAlloc in place keeps all right.
LEMMA RenamedKeeps ==
  ASSUME NEW h, NEW held, Right(h, held, {}), NEW buf \in held, buf.found,
         NEW size \in Nat, NEW i, i = ChunkIndex(h, buf),
         h.blk[buf.block].chunks[i].requested >= size
  PROVE  /\ Right(WithRequested(h, buf.block, i, size),
                  (held \ {buf}) \cup {[buf EXCEPT !.len = size]}, {})
         /\ SameBlocks(h, WithRequested(h, buf.block, i, size))
<1> DEFINE b == buf.block
           now == [buf EXCEPT !.len = size]
           new == (held \ {buf}) \cup {now}
           g == WithRequested(h, b, i, size)
<1>1. /\ HeapRight(h) /\ BuffersRight(h, held) /\ Owned(h, held) /\ NoneEmpty(h, {})
      /\ LostSettled(h, held)
  BY DEF Right
<1>2. b \in Held(h) /\ buf \in BufferType
  BY ChunkOfBuffer
<1>3. PICK c \in Range(h.blk[b].chunks) :
        /\ c.off = buf.off /\ Supports(c, buf)
        /\ \A d \in Range(h.blk[b].chunks) : d.off = c.off => d = c
  BY ChunkOfBuffer
<1>4. i \in 1..Len(h.blk[b].chunks) /\ h.blk[b].chunks[i] = c
  <2>1. InPlace(h.blk[b])
    BY <1>1, <1>2, Rows
  <2>2. i = SelectInSeq(h.blk[b].chunks, LAMBDA x : x.off = c.off)
    BY <1>3 DEF ChunkIndex
  <2> QED BY <1>3, <2>1, <2>2, ChunkFound
<1>5. PICK d \in ChunkType :
        /\ Replaced(h, g, b, c, d)
        /\ d.off = c.off /\ d.size = c.size /\ d.requested = size
  <2>1. \E d \in ChunkType :
          /\ Replaced(h, g, b, h.blk[b].chunks[i], d)
          /\ d.off = h.blk[b].chunks[i].off /\ d.size = h.blk[b].chunks[i].size
          /\ d.requested = size
    BY <1>1, <1>2, <1>4, RenamedIs
  <2> HIDE DEF g
  <2> QED BY <1>4, <2>1
<1> HIDE DEF g
<1>6. /\ HeapRight(g) /\ g.list = h.list /\ g.lost = h.lost /\ g.best = h.best
      /\ Held(g) = Held(h)
      /\ \A x \in BlockIds \ {b} : g.blk[x] = h.blk[x]
      /\ d \in Range(g.blk[b].chunks)
      /\ \A x \in Range(h.blk[b].chunks) : x # c => x \in Range(g.blk[b].chunks)
      /\ \A x \in Range(g.blk[b].chunks) : x = d \/ x \in Range(h.blk[b].chunks)
      /\ Len(g.blk[b].chunks) = Len(h.blk[b].chunks)
  BY <1>5 DEF Replaced, Held
<1>7. Held(h) \subseteq BlockIds
  BY <1>1, ListOf DEF HeapRight
<1>8. /\ now \in BufferType /\ now.block = b /\ now.off = buf.off /\ now.room = buf.room
      /\ now.len = size /\ now.owner = buf.owner
  BY <1>2 DEF BufferType
<1>9. (now.written <=> buf.written) /\ now.found
  BY <1>2, Zenon DEF BufferType
<1> HIDE DEF now
<1>10. Holds(g, now)
  <2>1. Pointer(now.off) + now.room <= ChunkEnd(d)
    BY <1>3, <1>5, <1>8 DEF Supports, ChunkEnd
  <2>2. now.written => d.requested = now.len /\ now.len <= now.room
    <3>1. c \in ChunkType
      BY <1>1, <1>2, Rows, ChunksOf DEF BlockType
    <3>2. buf.len \in Nat /\ buf.room \in Nat
      BY <1>2 DEF BufferType
    <3>3. buf.written => size <= buf.len /\ buf.len <= buf.room
      BY <1>3, <1>4 DEF Supports
    <3>4. buf.written => size <= buf.room
      BY <3>2, <3>3
    <3> QED BY <1>5, <1>8, <1>9, <3>4
  <2>3. Supports(d, now)
    BY <1>3, <1>5, <1>8, <2>1, <2>2 DEF Supports
  <2> QED BY <1>2, <1>6, <1>8, <1>9, <2>3 DEF Holds
<1>11. BuffersRight(g, new)
  <2>1. ASSUME NEW x \in held, x # buf PROVE Holds(g, x) /\ ~SameChunk(x, buf)
    <3>1. Holds(h, x) /\ x.block \in BlockIds /\ ~SameChunk(x, buf)
      BY <1>1, <1>7, <2>1 DEF BuffersRight, Holds
    <3>2. CASE x.block # b
      <4>1. g.blk[x.block] = h.blk[x.block]
        BY <1>6, <3>1, <3>2
      <4> QED BY <1>6, <3>1, <4>1 DEF Holds
    <3>3. CASE x.block = b
      <4>1. PICK e \in Range(h.blk[b].chunks) : Supports(e, x)
        BY <3>1, <3>3 DEF Holds
      <4>2. e # c
        BY <1>3, <3>1, <3>3, <4>1 DEF SameChunk, Supports
      <4>3. e \in Range(g.blk[b].chunks)
        BY <1>6, <4>1, <4>2
      <4> QED BY <1>6, <3>1, <3>3, <4>1, <4>3 DEF Holds
    <3> QED BY <3>2, <3>3
  <2>2. \A x \in held \ {buf} : ~SameChunk(x, now) /\ ~SameChunk(now, x)
    BY <1>8, <2>1 DEF SameChunk
  <2>3. new \subseteq BufferType
    BY <1>1, <1>8 DEF BuffersRight
  <2>4. \A x \in new : Holds(g, x)
    BY <1>10, <2>1
  <2>5. \A x, y \in new : SameChunk(x, y) => x = y
    BY <1>1, <2>2 DEF BuffersRight
  <2> QED BY <2>3, <2>4, <2>5 DEF BuffersRight
<1>12. Owned(g, new)
  <2>1. ASSUME NEW x \in Held(g), NEW e \in Range(g.blk[x].chunks), Pad(e.off) = 0
        PROVE  \E y \in new : y.block = x /\ y.off = e.off
    <3>1. x \in Held(h) /\ x \in BlockIds
      BY <1>6, <1>7
    <3>2. CASE x = b /\ e = d
      BY <1>3, <1>5, <1>8, <3>2
    <3>3. CASE ~(x = b /\ e = d)
      <4>1. e \in Range(h.blk[x].chunks)
        BY <1>6, <3>1, <3>3
      <4>2. PICK y \in held : y.block = x /\ y.off = e.off
        BY <1>1, <2>1, <3>1, <4>1 DEF Owned
      <4> QED BY <1>8, <4>2
    <3> QED BY <3>2, <3>3
  <2> QED BY <2>1 DEF Owned
<1>13. NoneEmpty(g, {})
  <2>1. ASSUME NEW k \in 2..Len(h.list) PROVE g.blk[h.list[k]].chunks # <<>>
    <3>1. h.list[k] \in BlockIds /\ h.blk[h.list[k]].chunks # <<>>
      BY <1>1, ListOf DEF HeapRight, NoneEmpty
    <3>2. CASE h.list[k] = b
      <4>1. Len(g.blk[b].chunks) # 0
        <5>1. Len(h.blk[b].chunks) \in Nat
          BY <1>1, <1>2, Rows, ChunksOf DEF BlockType
        <5> QED BY <1>4, <1>6, <5>1
      <4>2. g.blk[b].chunks # <<>>
        BY <4>1
      <4> QED BY <3>2, <4>2
    <3>3. CASE h.list[k] # b
      BY <1>6, <3>1, <3>3
    <3> QED BY <3>2, <3>3
  <2> QED BY <1>6, <2>1 DEF NoneEmpty
<1>14. LostSettled(g, new)
  <2>1. ASSUME NEW x \in h.lost PROVE Settled(g, new, x)
    <3>1. Settled(h, held, x) /\ x \in BlockIds
      BY <1>1, <2>1, ListOf DEF LostSettled, HeapRight
    <3>2. PoolHeld(held, x) => PoolHeld(new, x)
      BY <1>8 DEF PoolHeld
    <3>3. CASE x = b
      <4>1. Range(<<>>) = {}
        BY DEF Range
      <4>2. h.blk[b].chunks # <<>>
        BY <1>3, <4>1
      <4> QED BY <3>1, <3>2, <3>3, <4>2 DEF Settled
    <3>4. CASE x # b
      BY <1>6, <3>1, <3>2, <3>4 DEF Settled
    <3> QED BY <3>3, <3>4
  <2> QED BY <1>6, <2>1 DEF LostSettled
<1>15. Right(g, new, {})
  BY <1>6, <1>11, <1>12, <1>13, <1>14 DEF Right
<1> QED BY <1>6, <1>15 DEF SameBlocks, g, now


-----------------------------------------------------------------------------
(* The specification. *)

\* What is known of a request that waits for its block: what it searched is still linked and
\* has no gap for it nor for the pool's node, and a block linked since stays if it is lost.
Waiting(h, held, g) ==
  /\ g.size \in Nat /\ g.depth \in Nat /\ g.seen \in Int
  /\ g.linked \in 0..Len(h.list)
  /\ \/ g.old = {}
     \/ \E buf \in held : g.old = {buf} /\ buf.owner = "client"
  /\ g = [size |-> g.size, old |-> g.old, depth |-> g.depth,
          linked |-> g.linked, seen |-> g.seen]
  /\ TailSettled(h, held, g.linked)
  /\ NoGap(h, g.linked, Need(g.size)) /\ NoGap(h, g.linked, Need(RangeBytes))

GrowingRight(h, held, grow) == grow = {} \/ \E g : grow = {g} /\ Waiting(h, held, g)

\* The inductive invariant: the heap and what is held of it are right together, and a
\* request that waits found what it needs to go on.
IInv == Right(heap, live, {}) /\ faulted \in BOOLEAN /\ GrowingRight(heap, live, growing)

\* The heap the constructor leaves.
LEMMA RootIsRight ==
  ASSUME NEW h, NEW b \in BlockIds,
         h = [list |-> <<b>>, lost |-> {},
              blk |-> [c \in BlockIds |->
                         IF c = b THEN [size |-> RootSize, used |-> BlockHeader, chunks |-> <<>>]
                         ELSE [size |-> 0, used |-> 0, chunks |-> <<>>]],
              best |-> NoBlock, allocated |-> RootSize, inUsed |-> 0]
  PROVE  Right(h, {}, {})
<1> DEFINE root == [size |-> RootSize, used |-> BlockHeader, chunks |-> <<>>]
           none == [size |-> 0, used |-> 0, chunks |-> <<>>]
<1>1. root \in BlockType /\ none \in BlockType
  BY Layout DEF BlockType
<1>2. /\ root.size = RootSize /\ root.used = BlockHeader /\ root.chunks = <<>>
  OBVIOUS
<1>3. LaidOut(root)
  <2>1. Occupied(root) = {}
    BY DEF Occupied
  <2>2. Len(root.chunks) = 0 /\ Cardinality({}) = 0
    BY FS_EmptySet
  <2>3. InPlace(root)
    BY <1>1, <1>2, <2>2, Layout DEF InPlace
  <2>4. Cardinality(Occupied(root)) = 0
    BY <2>1, <2>2
  <2>5. root.used = BlockHeader + 0
    BY <1>2, Layout
  <2> HIDE DEF root
  <2> QED BY <2>3, <2>4, <2>5 DEF LaidOut
<1>4. Filled(root) = {}
  BY DEF Filled
<1> HIDE DEF root, none
<1>5. /\ h.list = <<b>> /\ h.best = NoBlock /\ h.allocated = RootSize /\ h.inUsed = 0
      /\ h.lost = {} /\ h.blk = [c \in BlockIds |-> IF c = b THEN root ELSE none]
  BY DEF root, none
<1>6. h.blk[b] = root
  BY <1>5
<1>7. h \in HeapType
  <2>1. h.blk \in [BlockIds -> BlockType]
    BY <1>1, <1>5
  <2>2. h = [list |-> h.list, lost |-> h.lost, blk |-> h.blk, best |-> h.best,
             allocated |-> h.allocated, inUsed |-> h.inUsed]
    BY <1>5
  <2>3. h.list \in Seq(BlockIds) /\ h.best \in BlockIds \cup {NoBlock}
        /\ h.lost \in SUBSET BlockIds /\ h.allocated \in Nat /\ h.inUsed \in Nat
    BY <1>5, Layout
  <2> QED BY <2>1, <2>2, <2>3 DEF HeapType
<1>8. Len(h.list) = 1 /\ Range(h.list) = {b} /\ h.list[1] = b /\ Held(h) = {b}
  <2>1. Len(<<b>>) = 1 /\ <<b>>[1] = b
    OBVIOUS
  <2>2. /\ \A i \in 1..Len(h.list) : h.list[i] \in Range(h.list)
        /\ \A x \in Range(h.list) : \E i \in 1..Len(h.list) : x = h.list[i]
    BY <1>7, ListOf
  <2>3. Range(h.list) = {b}
    BY <1>5, <2>1, <2>2
  <2> QED BY <1>5, <2>1, <2>3 DEF Held
<1>9. InBuffers(h) = {}
  BY <1>4, <1>6, <1>8 DEF InBuffers
<1>10. InBlocks(h) = {b} \X Extent(0, RootSize)
  BY <1>2, <1>6, <1>8 DEF InBlocks
<1>11. IsFiniteSet(InBlocks(h)) /\ Cardinality(InBlocks(h)) = RootSize
  <2>1. RootSize \in Nat /\ 0 \in Nat /\ 0 <= RootSize
    BY Layout
  <2>2. IsFiniteSet(Extent(0, RootSize)) /\ Cardinality(Extent(0, RootSize)) = RootSize - 0
    BY <2>1, ExtentCounts
  <2>3. IsFiniteSet(SizeRow(h, b)) /\ Cardinality(SizeRow(h, b)) = Cardinality(Extent(0, RootSize))
    BY <1>2, <1>6, <2>2, RowCounts DEF SizeRow
  <2>4. InBlocks(h) = SizeRow(h, b)
    BY <1>2, <1>6, <1>10 DEF SizeRow
  <2> QED BY <2>1, <2>2, <2>3, <2>4
<1>12. HeapRight(h)
  <2>1. IsFiniteSet(InBuffers(h)) /\ h.inUsed = Cardinality(InBuffers(h))
    BY <1>5, <1>9, FS_EmptySet
  <2>2. h.lost \cap Range(h.list) = {}
    BY <1>5
  <2>3. \A i, k \in 1..Len(h.list) : h.list[i] = h.list[k] => i = k
    BY <1>8
  <2>4. \A x \in Held(h) : LaidOut(h.blk[x])
    BY <1>3, <1>6, <1>8
  <2>5. h.allocated = Cardinality(InBlocks(h))
    BY <1>5, <1>11
  <2> QED BY <1>5, <1>7, <1>11, <2>1, <2>2, <2>3, <2>4, <2>5 DEF HeapRight
<1>13. BuffersRight(h, {}) /\ Owned(h, {}) /\ NoneEmpty(h, {}) /\ LostSettled(h, {})
  <2>1. Range(root.chunks) = {}
    BY <1>2 DEF Range
  <2>2. Owned(h, {})
    BY <1>6, <1>8, <2>1 DEF Owned
  <2> QED BY <1>5, <1>8, <2>2 DEF BuffersRight, NoneEmpty, LostSettled
<1> QED BY <1>12, <1>13 DEF Right

\* What a step does to the heap: it stays right with what is held, and a block that is
\* linked by it was needed.
Kept(h, g, held, n) ==
  /\ Right(g, held, {})
  /\ \A b \in Range(g.list) \ Held(h) : Needed(h, g, b, n)

\* A request that does not wait has searched the list it sees; one that waits, the blocks
\* linked at its time.
LEMMA SearchedIs ==
  /\ growing = {} => SearchedBlocks = Len(heap.list)
  /\ \A g : growing = {g} => SearchedBlocks = g.linked
<1>1. ASSUME NEW g, growing = {g} PROVE SearchedBlocks = g.linked
  <2>1. \A x : x \in growing => x = g
    BY <1>1
  <2>2. (CHOOSE x \in growing : TRUE) \in growing
    BY <1>1
  <2>3. (CHOOSE x \in growing : TRUE) = g
    BY <2>1, <2>2
  <2> QED BY <1>1, <2>3 DEF SearchedBlocks
<1> QED BY <1>1 DEF SearchedBlocks

LEMMA AllocKeeps ==
  ASSUME IInv, NEW r \in Nat, Alloc(r)
  PROVE  Kept(heap, heap', live', Len(heap.list))
<1>1. PICK a \in Allocated(heap, r) : heap' = a.h /\ live' = live \cup a.taken
  BY DEF Alloc
<1>2. Given(heap, a, live)
  BY AllocatedKeeps DEF IInv
<1> QED BY <1>1, <1>2 DEF Given, Kept

LEMMA FreeKeeps ==
  ASSUME IInv, NEW buf \in live, buf.owner = "client", Free(buf)
  PROVE  Kept(heap, heap', live', Len(heap.list))
<1>1. heap' = (IF buf.found THEN Freed(heap, buf.block, buf.off) ELSE heap)
      /\ live' = live \ {buf}
  BY DEF Free
<1>2. Right(heap, live, {})
  BY DEF IInv
<1>3. CASE buf.found
  <2>1. Released(heap, Freed(heap, buf.block, buf.off), live \ {buf})
    BY <1>2, FreedKeeps
  <2>2. heap' = Freed(heap, buf.block, buf.off)
    BY <1>1, <1>3
  <2>3. Right(heap', live', {}) /\ Range(heap'.list) \subseteq Held(heap)
    BY <1>1, <2>1, <2>2 DEF Released, Held
  <2> QED BY <2>3 DEF Kept
<1>4. CASE ~buf.found
  <2>1. heap' = heap
    BY <1>1, <1>4
  <2>2. Pad(buf.off) # 0
    BY <1>2, <1>4 DEF Right, BuffersRight, Holds
  <2>3. Owned(heap, live \ {buf})
    BY <1>2, <2>2 DEF Right, Owned
  <2>4. BuffersRight(heap, live \ {buf})
    BY <1>2 DEF Right, BuffersRight
  <2>5. LostSettled(heap, live \ {buf})
    BY <1>2 DEF Right, LostSettled, Settled, PoolHeld
  <2>6. Right(heap, live \ {buf}, {})
    BY <1>2, <2>3, <2>4, <2>5 DEF Right
  <2> QED BY <1>1, <2>1, <2>6 DEF Kept, Held
<1> QED BY <1>3, <1>4

LEMMA ReAllocInPlaceKeeps ==
  ASSUME IInv, NEW buf \in live, NEW size \in Nat, ReAllocInPlace(buf, size)
  PROVE  Kept(heap, heap', live', Len(heap.list))
<1> DEFINE i == ChunkIndex(heap, buf)
<1>1. /\ buf.found
      /\ heap.blk[buf.block].chunks[i].requested >= size
      /\ heap' = WithRequested(heap, buf.block, i, size)
      /\ live' = (live \ {buf}) \cup {[buf EXCEPT !.len = size]}
  BY DEF ReAllocInPlace, Requested, WithRequested
<1>2. Right(heap, live, {})
  BY DEF IInv
<1>3. Right(heap', live', {}) /\ SameBlocks(heap, heap')
  BY <1>1, <1>2, RenamedKeeps
<1> QED BY <1>3 DEF Kept, SameBlocks, Held

LEMMA ReAllocMoveKeeps ==
  ASSUME IInv, NEW buf \in live, buf.owner = "client", NEW size \in Nat, ReAllocMove(buf, size)
  PROVE  Kept(heap, heap', live', Len(heap.list))
<1>1. PICK a \in Allocated(heap, size) :
        /\ heap' = Freed(a.h, buf.block, buf.off)
        /\ live' = (live \ {buf}) \cup a.taken
  BY DEF ReAllocMove
<1>2. Right(heap, live, {})
  BY DEF IInv
<1>3. Given(heap, a, live)
  BY <1>2, AllocatedKeeps
<1> DEFINE held == live \cup a.taken
<1>4. Right(a.h, held, {}) /\ buf \in held
  BY <1>3 DEF Given
<1>5. Released(a.h, heap', held \ {buf})
  BY <1>1, <1>4, FreedKeeps
<1>6. held \ {buf} = live'
  <2>1. buf \notin a.taken
    BY <1>3 DEF Given, Fresh, SameChunk
  <2> QED BY <1>1, <2>1
<1>7. ASSUME NEW b \in Range(heap'.list) \ Held(heap)
      PROVE  Needed(heap, heap', b, Len(heap.list))
  <2>1. /\ b \in Range(a.h.list) \ Held(heap) /\ b \in Held(heap')
        /\ \A x \in Held(heap') : Range(heap'.blk[x].chunks) \subseteq Range(a.h.blk[x].chunks)
    BY <1>5 DEF Released, Held
  <2>2. Needed(heap, a.h, b, Len(heap.list))
    BY <1>3, <2>1 DEF Given
  <2> QED BY <2>1, <2>2 DEF Needed
<1> QED BY <1>5, <1>6, <1>7 DEF Released, Kept

LEMMA GrowNestsKeeps ==
  ASSUME IInv, NEW r \in Nat, NEW old, old = {} \/ \E buf \in live : old = {buf} /\ buf.owner = "client",
         GrowNests(r, old)
  PROVE  /\ Kept(heap, heap', live', Len(heap.list))
         /\ GrowingRight(heap', live', growing')
<1> DEFINE n == Len(heap.list)
           g(depth) == [size |-> r, old |-> old, depth |-> depth, linked |-> n,
                        seen |-> BestSize(heap')]
<1>1. /\ ~Serves(heap, Need(r)) /\ ~Serves(heap', Need(RangeBytes))
      /\ heap' = Searched(heap, Need(r)) /\ live' = live
  BY DEF GrowNests, NodeNeedsBlock, NodeServed
<1>2. PICK depth \in 1..(Cardinality(FreeIds(heap)) - 1) : growing' = {g(depth)}
  BY DEF GrowNests
<1>3. Right(heap, live, {}) /\ HeapRight(heap) /\ n \in Nat
  BY ListOf DEF IInv, Right, HeapRight
<1>4. /\ Right(heap', live, {}) /\ HeapRight(heap')
      /\ heap'.list = heap.list /\ heap'.lost = heap.lost /\ heap'.blk = heap.blk
  BY <1>1, <1>3, SearchedKeeps DEF SameBlocks, Right
<1>5. Kept(heap, heap', live', n)
  BY <1>1, <1>4 DEF Kept, Held
<1>6. NoGap(heap, n, Need(r)) /\ NoGap(heap', n, Need(RangeBytes))
  <2>1. Need(r) \in Nat /\ Need(RangeBytes) \in Nat
    BY Layout, BoundsAssumption DEF Need
  <2>2. NoGap(heap', Len(heap'.list), Need(RangeBytes))
    BY <1>1, <1>4, <2>1, FullHeap
  <2> QED BY <1>1, <1>3, <1>4, <2>1, <2>2, FullHeap
<1>7. NoGap(heap', n, Need(r))
  BY <1>4, <1>6 DEF NoGap
<1>8. BestSize(heap') \in Int
  BY <1>4, BestSizeIs
<1>9. Cardinality(FreeIds(heap)) \in Int => depth \in Nat
  OBVIOUS
<1>10. depth \in Nat
  BY <1>2
<1> DEFINE w == g(depth)
<1>11. /\ w.size = r /\ w.old = old /\ w.depth = depth /\ w.linked = n /\ w.seen = BestSize(heap')
       /\ w = [size |-> w.size, old |-> w.old, depth |-> w.depth,
               linked |-> w.linked, seen |-> w.seen]
  OBVIOUS
<1> HIDE DEF w, g
<1>12. TailSettled(heap', live', n)
  BY <1>3, <1>4 DEF TailSettled
<1>13. w.linked \in 0..Len(heap'.list)
  BY <1>3, <1>4, <1>11
<1>14. Waiting(heap', live', w)
  BY <1>1, <1>6, <1>7, <1>8, <1>10, <1>11, <1>12, <1>13 DEF Waiting
<1> QED BY <1>2, <1>5, <1>14 DEF GrowingRight, w, n

LEMMA NodeBlockKeeps ==
  ASSUME IInv, NodeBlock
  PROVE  /\ Kept(heap, heap', live', SearchedBlocks)
         /\ GrowingRight(heap', live', growing')
<1>1. PICK g \in growing :
        /\ g.depth > 0 /\ FreeIds(heap) # {}
        /\ \E a \in Arrived(heap, g.linked, g.seen, RangeBytes, "pool") :
             heap' = a.h /\ live' = live \cup {a.buffer}
        /\ growing' = {[g EXCEPT !.depth = @ - 1]}
  BY DEF NodeBlock
<1>2. PICK a \in Arrived(heap, g.linked, g.seen, RangeBytes, "pool") :
        heap' = a.h /\ live' = live \cup {a.buffer}
  BY <1>1
<1>3. growing = {g} /\ Waiting(heap, live, g) /\ Right(heap, live, {})
  BY <1>1 DEF IInv, GrowingRight
<1> DEFINE n == g.linked
           s == heap.list
<1>4. /\ g.size \in Nat /\ g.depth \in Nat /\ g.seen \in Int /\ n \in 0..Len(s)
      /\ g.old = {} \/ \E buf \in live : g.old = {buf} /\ buf.owner = "client"
      /\ g = [size |-> g.size, old |-> g.old, depth |-> g.depth,
              linked |-> g.linked, seen |-> g.seen]
      /\ TailSettled(heap, live, n)
      /\ NoGap(heap, n, Need(g.size)) /\ NoGap(heap, n, Need(RangeBytes))
  BY <1>3 DEF Waiting
<1>5. PICK b \in BlockIds \ Held(heap) : Came(heap, a, live, n, b, RangeBytes, "pool")
  BY <1>1, <1>2, <1>3, <1>4, ArrivedKeeps, BoundsAssumption
<1>6. /\ Right(heap', live', {})
      /\ heap'.list = Append(SubSeq(s, 1, n), b)
      /\ Held(heap') = Held(heap) \cup {b}
      /\ Settled(heap', live', b)
      /\ n > 0 => /\ \A x \in BlockIds \ {b} : heap'.blk[x] = heap.blk[x]
                  /\ OnlyChunks(heap', b, Need(RangeBytes))
  BY <1>2, <1>5 DEF Came
<1>7. /\ s \in Seq(BlockIds) /\ Len(s) \in Nat
      /\ \A i \in 1..Len(s) : s[i] \in Held(heap) /\ s[i] \in BlockIds
  BY <1>3, ListOf DEF Right, HeapRight
<1>8. /\ Len(heap'.list) = n + 1 /\ heap'.list[n + 1] = b
      /\ \A i \in 1..n : heap'.list[i] = s[i]
  <2> HIDE DEF s, n
  <2>1. n \in 0..Len(s) /\ b \in BlockIds
    BY <1>4, <1>5
  <2> QED BY <1>6, <1>7, <2>1, LinkedList
<1>9. SearchedBlocks = n
  BY <1>3, SearchedIs
<1>10. Needed(heap, heap', b, n)
  <2>1. CASE n > 0
    BY <1>4, <1>6, <2>1 DEF Needed, OnlyChunks
  <2>2. CASE ~(n > 0)
    BY <1>4, <2>2 DEF Needed, NoGap
  <2> QED BY <2>1, <2>2
<1>11. Kept(heap, heap', live', n)
  <2>1. Range(heap'.list) \ Held(heap) \subseteq {b}
    BY <1>6 DEF Held
  <2> QED BY <1>6, <1>10, <2>1 DEF Kept
<1>12. ASSUME NEW need, NoGap(heap, n, need) PROVE NoGap(heap', n, need)
  <2>1. ASSUME NEW i \in 1..n PROVE heap'.blk[heap'.list[i]] = heap.blk[s[i]]
    <3>1. i \in 1..Len(s) /\ n > 0
      BY <1>4, <1>7
    <3>2. s[i] \in BlockIds \ {b} /\ heap'.list[i] = s[i]
      BY <1>5, <1>7, <1>8, <3>1
    <3> QED BY <1>6, <3>1, <3>2
  <2> QED BY <1>12, <2>1 DEF NoGap
<1>13. TailSettled(heap', live', n)
  <2>1. (n + 1)..Len(heap'.list) = {n + 1}
    BY <1>4, <1>7, <1>8
  <2> QED BY <1>6, <1>8, <2>1 DEF TailSettled
<1> DEFINE w == [g EXCEPT !.depth = @ - 1]
<1>14. /\ w.size = g.size /\ w.old = g.old /\ w.depth = g.depth - 1 /\ w.linked = g.linked
       /\ w.seen = g.seen
       /\ w = [size |-> w.size, old |-> w.old, depth |-> w.depth,
               linked |-> w.linked, seen |-> w.seen]
  BY <1>4
<1> HIDE DEF w
<1>15. w.depth \in Nat
  BY <1>1, <1>4, <1>14
<1>16. w.linked \in 0..Len(heap'.list)
  BY <1>4, <1>7, <1>8, <1>14
<1>17. w.old = {} \/ \E buf \in live' : w.old = {buf} /\ buf.owner = "client"
  BY <1>2, <1>4, <1>14
<1>18. Waiting(heap', live', w)
  BY <1>4, <1>12, <1>13, <1>14, <1>15, <1>16, <1>17 DEF Waiting
<1> QED BY <1>1, <1>9, <1>11, <1>18 DEF GrowingRight, w

LEMMA ClientBlockKeeps ==
  ASSUME IInv, ClientBlock
  PROVE  /\ Kept(heap, heap', live', SearchedBlocks)
         /\ GrowingRight(heap', live', growing')
<1>1. PICK g \in growing :
        /\ FreeIds(heap) # {}
        /\ \E a \in Arrived(heap, g.linked, g.seen, g.size, "client") :
             /\ heap' \in IF g.old = {} THEN {a.h}
                          ELSE {Freed(a.h, buf.block, buf.off) : buf \in g.old}
             /\ live' = (live \ g.old) \cup {a.buffer}
        /\ growing' = {}
  BY DEF ClientBlock
<1>2. PICK a \in Arrived(heap, g.linked, g.seen, g.size, "client") :
        /\ heap' \in IF g.old = {} THEN {a.h}
                     ELSE {Freed(a.h, buf.block, buf.off) : buf \in g.old}
        /\ live' = (live \ g.old) \cup {a.buffer}
  BY <1>1
<1>3. growing = {g} /\ Waiting(heap, live, g) /\ Right(heap, live, {})
  BY <1>1 DEF IInv, GrowingRight
<1> DEFINE n == g.linked
           held == live \cup {a.buffer}
<1>4. /\ g.size \in Nat /\ n \in 0..Len(heap.list) /\ n \in Nat
      /\ g.old = {} \/ \E buf \in live : g.old = {buf} /\ buf.owner = "client"
      /\ TailSettled(heap, live, n) /\ NoGap(heap, n, Need(g.size))
  BY <1>3 DEF Waiting
<1>5. PICK b \in BlockIds \ Held(heap) : Came(heap, a, live, n, b, g.size, "client")
  BY <1>1, <1>2, <1>3, <1>4, ArrivedKeeps
<1>6. /\ Right(a.h, held, {}) /\ Fresh(a.buffer, live)
      /\ Held(a.h) = Held(heap) \cup {b}
      /\ n > 0 => OnlyChunks(a.h, b, Need(g.size))
  BY <1>5 DEF Came
<1>7. SearchedBlocks = n
  BY <1>3, SearchedIs
<1>8. Needed(heap, a.h, b, n)
  <2>1. CASE n > 0
    BY <1>4, <1>6, <2>1 DEF Needed, OnlyChunks
  <2>2. CASE ~(n > 0)
    BY <1>4, <2>2 DEF Needed, NoGap
  <2> QED BY <2>1, <2>2
<1>9. CASE g.old = {}
  <2>1. heap' = a.h /\ live' = held
    BY <1>2, <1>9
  <2>2. Range(heap'.list) \ Held(heap) \subseteq {b}
    BY <1>6, <2>1 DEF Held
  <2> QED BY <1>1, <1>6, <1>7, <1>8, <2>1, <2>2 DEF Kept, GrowingRight
<1>10. ASSUME NEW buf \in live, g.old = {buf}, buf.owner = "client"
       PROVE  /\ Kept(heap, heap', live', SearchedBlocks)
              /\ GrowingRight(heap', live', growing')
  <2>1. heap' = Freed(a.h, buf.block, buf.off)
    BY <1>2, <1>10
  <2>2. live' = held \ {buf}
    <3>1. buf # a.buffer
      BY <1>6 DEF Fresh, SameChunk
    <3> QED BY <1>2, <1>10, <3>1
  <2>3. Released(a.h, heap', live')
    BY <1>6, <1>10, <2>1, <2>2, FreedKeeps
  <2>4. /\ Right(heap', live', {}) /\ Range(heap'.list) \subseteq Range(a.h.list)
        /\ \A x \in Held(heap') : Range(heap'.blk[x].chunks) \subseteq Range(a.h.blk[x].chunks)
    BY <2>3 DEF Released
  <2>5. ASSUME NEW x \in Range(heap'.list) \ Held(heap) PROVE Needed(heap, heap', x, n)
    <3>1. x = b /\ x \in Held(heap')
      BY <1>6, <2>4, <2>5 DEF Held
    <3> QED BY <1>8, <2>4, <3>1 DEF Needed
  <2> QED BY <1>1, <1>7, <2>4, <2>5 DEF Kept, GrowingRight
<1> QED BY <1>4, <1>9, <1>10

\* The sizes clients pass are numbers.
LEMMA Sizes ==
  /\ Requests \subseteq Nat /\ NewSizes \subseteq Nat
  /\ \A n \in Counts, r \in Requests : n * r \in Nat
BY BoundsAssumption

StepRight ==
  /\ IInv'
  /\ Kept(heap, heap', live', SearchedBlocks)

\* A call that does not wait.
LEMMA CallKeeps ==
  ASSUME IInv, growing = {}, UNCHANGED <<growing, faulted>>,
         Kept(heap, heap', live', Len(heap.list))
  PROVE  StepRight
<1>1. SearchedBlocks = Len(heap.list)
  BY SearchedIs
<1>2. IInv'
  BY DEF IInv, Kept, GrowingRight
<1> QED BY <1>1, <1>2 DEF StepRight

LEMMA StandsStill ==
  ASSUME IInv, UNCHANGED <<heap, live, growing>>, faulted' \in BOOLEAN
  PROVE  StepRight
<1>1. IInv'
  BY DEF IInv
<1>2. Range(heap'.list) \ Held(heap) = {}
  BY DEF Held
<1> QED BY <1>1, <1>2 DEF StepRight, Kept, IInv

LEMMA StepKeeps ==
  ASSUME IInv, [Next]_vars
  PROVE  StepRight
<1>1. ASSUME NEW r \in Nat, growing = {}, Alloc(r) PROVE StepRight
  BY <1>1, AllocKeeps, CallKeeps DEF Alloc
<1>2. ASSUME NEW r \in Nat, AllocFaults(r) PROVE StepRight
  <2>1. UNCHANGED <<heap, live, growing>> /\ faulted' \in BOOLEAN
    BY <1>2 DEF AllocFaults
  <2> QED BY <2>1, StandsStill
<1>3. ASSUME NEW r \in Nat, NEW old,
             old = {} \/ \E buf \in live : old = {buf} /\ buf.owner = "client",
             growing = {}, GrowNests(r, old)
      PROVE  StepRight
  <2>1. /\ Kept(heap, heap', live', Len(heap.list)) /\ GrowingRight(heap', live', growing')
        /\ faulted' = faulted
    BY <1>3, GrowNestsKeeps DEF GrowNests
  <2>2. SearchedBlocks = Len(heap.list)
    BY <1>3, SearchedIs
  <2>3. IInv'
    BY <2>1 DEF IInv, Kept
  <2> QED BY <2>1, <2>2, <2>3 DEF StepRight
<1>4. ASSUME NodeBlock \/ ClientBlock PROVE StepRight
  <2>1. /\ Kept(heap, heap', live', SearchedBlocks) /\ GrowingRight(heap', live', growing')
        /\ faulted' = faulted
    BY <1>4, NodeBlockKeeps, ClientBlockKeeps DEF NodeBlock, ClientBlock
  <2>2. IInv'
    BY <2>1 DEF IInv, Kept
  <2> QED BY <2>1, <2>2 DEF StepRight
<1>5. ASSUME NEW buf \in live, buf.owner = "client", growing = {}, Free(buf) PROVE StepRight
  BY <1>5, FreeKeeps, CallKeeps DEF Free
<1>6. ASSUME UNCHANGED vars PROVE StepRight
  <2>1. UNCHANGED <<heap, live, growing>> /\ faulted' \in BOOLEAN
    BY <1>6 DEF vars, IInv
  <2> QED BY <2>1, StandsStill
<1>7. ASSUME NEW buf \in live, NEW r \in Nat, growing = {}, ReAllocInPlace(buf, r)
      PROVE  StepRight
  BY <1>7, ReAllocInPlaceKeeps, CallKeeps DEF ReAllocInPlace
<1>8. ASSUME NEW buf \in live, buf.owner = "client", NEW r \in Nat, growing = {},
             ReAllocMove(buf, r)
      PROVE  StepRight
  BY <1>8, ReAllocMoveKeeps, CallKeeps DEF ReAllocMove
<1>9. ASSUME growing = {},
             \E r \in Requests : Alloc(r) \/ GrowNests(r, {}) \/ AllocFaults(r)
      PROVE  StepRight
  BY <1>1, <1>2, <1>3, <1>9, Sizes
<1>10. ASSUME growing = {},
              \E n \in Counts, r \in Requests :
                AllocInit(n, r) \/ GrowNests(n * r, {}) \/ AllocFaults(n * r)
       PROVE  StepRight
  BY <1>1, <1>2, <1>3, <1>10, Sizes DEF AllocInit
<1>11. ASSUME growing = {}, NEW buf \in live, buf.owner = "client", NEW r \in NewSizes,
              \/ ReAllocRefused(buf) \/ ReAllocInPlace(buf, r)
              \/ ReAllocMove(buf, r) \/ ReAllocGrows(buf, r)
       PROVE  StepRight
  <2>1. r \in Nat
    BY Sizes
  <2>2. ASSUME ReAllocGrows(buf, r) PROVE StepRight
    <3>1. GrowNests(r, {buf}) \/ AllocFaults(r)
      BY <2>2 DEF ReAllocGrows
    <3>2. ASSUME GrowNests(r, {buf}) PROVE StepRight
      BY <1>3, <1>11, <2>1, <3>2
    <3> QED BY <1>2, <2>1, <3>1, <3>2
  <2> QED BY <1>6, <1>7, <1>8, <1>11, <2>1, <2>2 DEF ReAllocRefused
<1>12. ASSUME Next PROVE StepRight
  <2>1. \/ NodeBlock
        \/ ClientBlock
        \/ growing = {} /\ \E r \in Requests : Alloc(r) \/ GrowNests(r, {}) \/ AllocFaults(r)
        \/ growing = {} /\ \E n \in Counts, r \in Requests :
                             AllocInit(n, r) \/ GrowNests(n * r, {}) \/ AllocFaults(n * r)
        \/ growing = {} /\ \E buf \in live :
             /\ buf.owner = "client"
             /\ \/ Free(buf)
                \/ \E r \in NewSizes \ {0} :
                     \/ ReAllocRefused(buf) \/ ReAllocInPlace(buf, r)
                     \/ ReAllocMove(buf, r) \/ ReAllocGrows(buf, r)
    BY <1>12 DEF Next
  <2> QED BY <1>4, <1>5, <1>9, <1>10, <1>11, <2>1
<1> QED BY <1>6, <1>12

\* The inductive invariant holds of every behaviour.
THEOREM HeapStaysRight == Spec => []IInv
<1>1. Init => IInv
  <2> SUFFICES ASSUME Init PROVE IInv
    OBVIOUS
  <2>1. live = {} /\ growing = {} /\ faulted = FALSE
    BY DEF Init
  <2>2. Right(heap, {}, {})
    BY RootIsRight DEF Init
  <2> QED BY <2>1, <2>2 DEF IInv, GrowingRight
<1>2. IInv /\ [Next]_vars => IInv'
  BY StepKeeps DEF StepRight
<1> QED BY <1>1, <1>2, PTL DEF Spec

\* Whatever clients call, the heap's fields keep their types: no size or count goes below
\* zero, and no link leads to a block that does not exist.
THEOREM HeapTypeCorrect == Spec => []TypeOK
<1>1. IInv => TypeOK
  <2> SUFFICES ASSUME IInv PROVE TypeOK
    OBVIOUS
  <2>1. heap \in HeapType /\ live \subseteq BufferType /\ faulted \in BOOLEAN
    BY DEF IInv, Right, HeapRight, BuffersRight
  <2>2. ASSUME NEW g, growing = {g}, Waiting(heap, live, g) PROVE growing \subseteq GrowingType
    <3>1. g.old \in SUBSET BufferType
      BY <2>1, <2>2 DEF Waiting
    <3>2. g.linked \in Nat
      BY <2>1, <2>2, ListOf DEF Waiting
    <3>3. /\ g.size \in Nat /\ g.depth \in Nat /\ g.seen \in Int
          /\ g = [size |-> g.size, old |-> g.old, depth |-> g.depth,
                  linked |-> g.linked, seen |-> g.seen]
      BY <2>2 DEF Waiting
    <3>4. g \in GrowingType
      BY <3>1, <3>2, <3>3 DEF GrowingType
    <3> QED BY <2>2, <3>4
  <2>3. growing \subseteq GrowingType
    BY <2>2 DEF IInv, GrowingRight
  <2> QED BY <2>1, <2>3 DEF TypeOK
<1> QED BY <1>1, HeapStaysRight, PTL

\* The parts of what the runs check, one by one.
LEMMA InOrder == IInv => ChunksInOrder
<1> SUFFICES ASSUME IInv, NEW b \in Held(heap), NEW j \in 0..Len(heap.blk[b].chunks)
             PROVE  GapStart(heap.blk[b], j) <= GapEnd(heap.blk[b], j)
  BY DEF ChunksInOrder
<1> DEFINE block == heap.blk[b]
           n == Len(block.chunks)
<1>1. InPlace(block)
  BY Rows DEF IInv, Right
<1>2. n \in Nat /\ block.size \in Nat
  BY <1>1 DEF InPlace, BlockType
<1>3. \A i \in 1..n : BlockHeader <= block.chunks[i].off /\ ChunkEnd(block.chunks[i]) <= block.size
  BY <1>1 DEF InPlace
<1>4. \A i, k \in 1..n : i < k => ChunkEnd(block.chunks[i]) <= block.chunks[k].off
  BY <1>1 DEF InPlace
<1>5. BlockHeader <= block.size
  BY <1>1 DEF InPlace
<1> HIDE DEF block, n
<1>6. CASE j = 0 /\ j = n
  BY <1>5, <1>6 DEF GapStart, GapEnd, n, block
<1>7. CASE j = 0 /\ j # n
  <2>1. 1 \in 1..n
    BY <1>2, <1>7
  <2> QED BY <1>3, <1>7, <2>1 DEF GapStart, GapEnd, n, block
<1>8. CASE j # 0 /\ j = n
  <2>1. j \in 1..n
    BY <1>2, <1>8
  <2> QED BY <1>3, <1>8, <2>1 DEF GapStart, GapEnd, n, block
<1>9. CASE j # 0 /\ j # n
  <2>1. j \in 1..n /\ j + 1 \in 1..n /\ j < j + 1
    BY <1>2, <1>9 DEF n, block
  <2> QED BY <1>4, <1>9, <2>1 DEF GapStart, GapEnd, n, block
<1> QED BY <1>6, <1>7, <1>8, <1>9 DEF block

LEMMA Balanced == IInv => BooksBalance
BY DEF IInv, Right, HeapRight, LaidOut, BooksBalance

LEMMA BuffersApart == IInv => BuffersSafe
<1> SUFFICES ASSUME IInv PROVE BuffersSafe
  OBVIOUS
<1>1. Right(heap, live, {}) /\ HeapRight(heap) /\ BuffersRight(heap, live)
  BY DEF IInv, Right
<1>2. ASSUME NEW buf \in live
      PROVE  /\ buf.block \in Held(heap)
             /\ \E i \in DOMAIN heap.blk[buf.block].chunks :
                  LET c == heap.blk[buf.block].chunks[i]
                  IN c.off = buf.off /\ Pointer(buf.off) + buf.room <= ChunkEnd(c)
  <2>1. Holds(heap, buf)
    BY <1>1 DEF BuffersRight
  <2>2. buf.block \in Held(heap)
    BY <2>1 DEF Holds
  <2>3. PICK c \in Range(heap.blk[buf.block].chunks) : Supports(c, buf)
    BY <2>1 DEF Holds
  <2>4. heap.blk[buf.block].chunks \in Seq(ChunkType)
    BY <1>1, <2>2, Rows DEF BlockType
  <2>5. PICK i \in 1..Len(heap.blk[buf.block].chunks) : c = heap.blk[buf.block].chunks[i]
    BY <2>4, ChunksOf
  <2>6. i \in DOMAIN heap.blk[buf.block].chunks
    BY <2>4, <2>5
  <2> QED BY <2>2, <2>3, <2>5, <2>6 DEF Supports
<1>3. \A x, y \in live : x.block = y.block /\ x.off = y.off => x = y
  BY <1>1 DEF BuffersRight, SameChunk
<1> QED BY <1>2, <1>3 DEF BuffersSafe

\* For all sizes and any number of blocks, also when blocks arrive while others wait: chunks
\* in order, the books balanced, buffers in chunks of their own, the best bet on a block that
\* exists, no empty block kept, and no block that lost its link given back.
THEOREM HeapIsSound == Spec => []HeapSound
<1>1. IInv => BestBetExists
  BY DEF IInv, Right, HeapRight, BestBetExists
<1>2. IInv => OnlyRootEmpty
  BY DEF IInv, Right, NoneEmpty, OnlyRootEmpty
<1>3. IInv => OrphansPinned
  BY DEF IInv, Right, LostSettled, Settled, PoolHeld, OrphansPinned
<1>4. IInv => HeapSound
  BY <1>1, <1>2, <1>3, InOrder, Balanced, BuffersApart DEF HeapSound
<1> QED BY <1>4, HeapStaysRight, PTL

LEMMA RequestedRight == IInv => RequestedKept
<1> SUFFICES ASSUME IInv, NEW buf \in live, buf.written
             PROVE  Requested(buf) = buf.len /\ buf.len <= buf.room
  BY DEF RequestedKept
<1>1. Right(heap, live, {}) /\ HeapRight(heap)
  BY DEF IInv, Right
<1>2. PICK c \in Range(heap.blk[buf.block].chunks) : c.off = buf.off /\ Supports(c, buf)
  BY <1>1, ChunkOfBuffer
<1>3. buf.block \in Held(heap)
  BY <1>1, ChunkOfBuffer
<1> DEFINE i == ChunkIndex(heap, buf)
<1>4. heap.blk[buf.block].chunks[i] = c
  <2>1. InPlace(heap.blk[buf.block])
    BY <1>1, <1>3, Rows
  <2>2. i = SelectInSeq(heap.blk[buf.block].chunks, LAMBDA x : x.off = c.off)
    BY <1>2 DEF ChunkIndex
  <2> QED BY <1>2, <2>1, <2>2, ChunkFound
<1> HIDE DEF i
<1>5. c.requested = buf.len /\ buf.len <= buf.room
  BY <1>2, Zenon DEF Supports
<1> QED BY <1>4, <1>5 DEF Requested, i

LEMMA LeaksPadded == IInv => NothingLeaks
<1> SUFFICES ASSUME IInv, NEW b \in Held(heap), NEW i \in DOMAIN heap.blk[b].chunks
             PROVE  \/ \E buf \in live : buf.block = b /\ buf.off = heap.blk[b].chunks[i].off
                    \/ Pad(heap.blk[b].chunks[i].off) # 0
  BY DEF NothingLeaks
<1>1. HeapRight(heap) /\ Owned(heap, live)
  BY DEF IInv, Right
<1>2. heap.blk[b].chunks \in Seq(ChunkType)
  BY <1>1, Rows DEF BlockType
<1>3. heap.blk[b].chunks[i] \in Range(heap.blk[b].chunks)
  BY <1>2, ChunksOf
<1> QED BY <1>1, <1>3 DEF Owned

\* For all sizes and contents of memory nobody wrote: ReAlloc decides by what was asked
\* for, and a chunk is lost only when its buffer was padded.
THEOREM PaddedIsSound == Spec => []PaddedSound
<1>1. IInv => PaddedSound
  BY Balanced, BuffersApart, RequestedRight, LeaksPadded DEF PaddedSound
<1> QED BY <1>1, HeapStaysRight, PTL

\* A block is added only when no block linked at the time of the search has a gap for the
\* request: the search finds one wherever it starts.
THEOREM GrowsWhenFull == Spec => GrowsOnlyWhenFull
<1> DEFINE Grew == \A b \in Range(heap'.list) \ Held(heap) : \A c \in DOMAIN heap'.blk[b].chunks :
                     \A i \in 1..SearchedBlocks :
                       Gaps(heap.blk[heap.list[i]], heap'.blk[b].chunks[c].size + ChunkHeader) = {}
<1>1. IInv /\ [Next]_vars => [Grew]_vars
  <2> SUFFICES ASSUME IInv, [Next]_vars PROVE Grew
    OBVIOUS
  <2>1. Kept(heap, heap', live', SearchedBlocks)
    BY StepKeeps DEF StepRight
  <2>2. ASSUME NEW b \in Range(heap'.list) \ Held(heap), NEW c \in DOMAIN heap'.blk[b].chunks,
               NEW i \in 1..SearchedBlocks
        PROVE  Gaps(heap.blk[heap.list[i]], heap'.blk[b].chunks[c].size + ChunkHeader) = {}
    <3>1. Needed(heap, heap', b, SearchedBlocks)
      BY <2>1 DEF Kept
    <3>2. heap'.blk[b].chunks \in Seq(ChunkType)
      BY <2>1, Rows DEF Kept, Right, Held, BlockType
    <3>3. heap'.blk[b].chunks[c] \in Range(heap'.blk[b].chunks)
      BY <3>2, ChunksOf
    <3> QED BY <3>1, <3>3 DEF Needed, NoGap
  <2> QED BY <2>2
<1> QED BY <1>1, HeapStaysRight, PTL DEF Spec, GrowsOnlyWhenFull

=============================================================================
