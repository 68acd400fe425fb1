-------------------------------- MODULE KHeap --------------------------------
(***************************************************************************)
(* The kernel heap (src/kernel/mm/KHeap.cpp): blocks of pages linked from  *)
(* m_pRoot, each holding chunks in the order of their addresses.           *)
(*                                                                         *)
(* A block is known by an identifier and an address inside it is an offset *)
(* from its header; blocks start on an ALIGNMENT boundary.  A chunk at     *)
(* offset off occupies its header and the chunk's size after it.  The      *)
(* client's pointer lies ALIGN_INFO bytes after the header, rounded up.    *)
(*                                                                         *)
(* Operations run under the heap's mutex on the only processor started, so *)
(* each is one step, but for growing that re-enters the heap: the mutex is *)
(* recursive and VirtualAlloc's address pool takes its list nodes with     *)
(* `new`.  When the node asks for a block of its own, and that for another *)
(* node, the blocks arrive one by one, the innermost first, and each takes *)
(* the link of the one before.  VirtualAlloc is taken to return memory     *)
(* nobody uses.                                                            *)
(***************************************************************************)
EXTENDS Integers, SequencesExt, FiniteSetsExt

CONSTANTS ALIGNMENT,        \* 16 in the code
          BlockHeader,      \* sizeof(HeapBlock)
          ChunkHeader,      \* sizeof(HeapChunk)
          PageBytes,        \* bytes of a page
          MinAllocPages,    \* m_nMinAllocPages
          RootSize,         \* size of the block the constructor makes
          BlockIds,         \* bound: the blocks that may exist at once
          Requests,         \* the sizes clients ask for
          Counts,           \* the element counts passed to AllocInit
          NewSizes,         \* the sizes passed to ReAlloc
          RangeBytes,       \* sizeof(AddressRange), asked for by the pool
          Splits,           \* whether the pool's range is longer than the new block
          Garbage           \* what storage nobody wrote may hold in HeapChunk::Requested

NoBlock == 0

ASSUME LayoutAssumption ==
  /\ ALIGNMENT \in Nat \ {0}
  /\ BlockHeader \in Nat \ {0} /\ BlockHeader % ALIGNMENT = 0
  /\ ChunkHeader \in Nat \ {0} /\ ChunkHeader % ALIGNMENT = 0
  /\ PageBytes \in Nat \ {0} /\ PageBytes % ALIGNMENT = 0
  /\ MinAllocPages \in Nat
  /\ RootSize \in Nat /\ RootSize > BlockHeader
ASSUME BoundsAssumption ==
  /\ BlockIds \subseteq Nat \ {NoBlock} /\ BlockIds # {}
  /\ Requests \cup Counts \cup NewSizes \subseteq Nat
  /\ RangeBytes \in Nat /\ Splits \subseteq BOOLEAN
  /\ Garbage \subseteq Nat /\ Garbage # {}

VARIABLES heap,     \* the fields of KHeap and the structures they link, and the blocks
                    \* that lost their link (see HeapType)
          live,     \* what clients and the address pool hold (history)
          growing,  \* the request whose pool asks for a block of its own, if there is one
          faulted   \* the kernel is dead

vars == <<heap, live, growing, faulted>>

ALIGN_INFO == ALIGNMENT
Overhead == ALIGNMENT + ALIGN_INFO

-----------------------------------------------------------------------------
(* Blocks and the gaps between their chunks.                               *)

Unused(h, b) == h.blk[b].size - h.blk[b].used

\* The blocks that exist: those of the list, and those whose link was overwritten.
Held(h) == Range(h.list) \cup h.lost

ChunkEnd(c) == c.off + ChunkHeader + c.size

\* Gap j lies after the j-th chunk, gap 0 before the first one.
GapStart(block, j) == IF j = 0 THEN BlockHeader ELSE ChunkEnd(block.chunks[j])
GapEnd(block, j) ==
  IF j = Len(block.chunks) THEN block.size ELSE block.chunks[j + 1].off
\* Mutant: the test of the gap leaves out the new chunk's header.
GapsWithoutHeader(block, need) ==
  {j \in 0..Len(block.chunks) : GapEnd(block, j) - GapStart(block, j) >= need - ChunkHeader}

Gaps(block, need) ==
  {j \in 0..Len(block.chunks) : GapEnd(block, j) - GapStart(block, j) >= need}

\* Case 1 passes over a block with too little space, cases 2 to 4 take the lowest gap.
Fits(h, b, need) == Unused(h, b) >= need /\ Gaps(h.blk[b], need) # {}

\* HEAP_ALIGN: the padding of a client's pointer, and the pointer.
Pad(off) == (ALIGNMENT - (off % ALIGNMENT)) % ALIGNMENT
Pointer(off) == off + ChunkHeader + ALIGN_INFO + Pad(off)

\* UNALIGN reads the padding where HEAP_ALIGN wrote it only when there is none;
\* otherwise the byte it reads is whatever the storage held before.
\* Mutant: UNALIGN compares with ALIGN_INFO alone.
NeverReadsBack(off) == {FALSE}

ReadsBack(off) == IF Pad(off) = 0 THEN {TRUE} ELSE {TRUE, FALSE}

-----------------------------------------------------------------------------
(* Alloc.                                                                  *)

\* The search starts at the best bet if that has more than enough, and restarts at
\* the root; otherwise it starts at the root.  A best bet out of the list has no Next.
StartsAtBest(h, need) == h.best # NoBlock /\ Unused(h, h.best) > need
\* Mutant: a search from the best bet does not start again at the root.
SearchWithoutRestart(h, need) ==
  IF StartsAtBest(h, need)
  THEN LET k == SelectInSeq(h.list, LAMBDA b : b = h.best)
       IN IF k = 0 THEN <<h.best>> ELSE SubSeq(h.list, k, Len(h.list))
  ELSE h.list

SearchOrder(h, need) ==
  IF StartsAtBest(h, need)
  THEN LET k == SelectInSeq(h.list, LAMBDA b : b = h.best)
       IN (IF k = 0 THEN <<h.best>> ELSE SubSeq(h.list, k, Len(h.list))) \o h.list
  ELSE h.list

\* How many blocks of the search order are visited: up to the first that fits.
Hit(h, need) == SelectInSeq(SearchOrder(h, need), LAMBDA b : Fits(h, b, need))
Visited(h, need) ==
  IF Hit(h, need) = 0 THEN SearchOrder(h, need)
  ELSE SubSeq(SearchOrder(h, need), 1, Hit(h, need))

\* best_size, and m_pBestBet after the visit: the first block seen with the most unused
\* space, when that is more than the old best bet's.
BestSize(h) == IF h.best = NoBlock THEN 0 ELSE Unused(h, h.best)
BestBet(h, seen) ==
  LET most == Max({BestSize(h)} \cup {Unused(h, b) : b \in Range(seen)})
  IN IF most = BestSize(h) THEN h.best
     ELSE seen[SelectInSeq(seen, LAMBDA b : Unused(h, b) = most)]

\* The pages AllocNewPage asks for.
NewBlockSize(size) ==
  LET bytes == size + BlockHeader + ChunkHeader
      pages == (bytes + PageBytes - 1) \div PageBytes
  IN PageBytes * (IF pages < MinAllocPages THEN MinAllocPages ELSE pages)
FreeIds(h) == BlockIds \ Held(h)

\* The chunk goes to its place in the order of the addresses.
PutChunk(h, b, c) ==
  LET j == Cardinality({i \in DOMAIN h.blk[b].chunks : h.blk[b].chunks[i].off < c.off})
  IN [h EXCEPT !.blk[b].chunks = InsertAt(@, j + 1, c),
               !.blk[b].used = @ + c.size + ChunkHeader,
               !.inUsed = @ + c.size]

\* A chunk for reqSize at offset off of block b, its Requested field r: the heap and the
\* buffer, whose header Free will find or not.
Placed(h, b, off, reqSize, owner, r, found) ==
  [h |-> PutChunk(h, b, [off |-> off, size |-> reqSize + Overhead, requested |-> r]),
   buffer |-> [block |-> b, off |-> off, room |-> reqSize, len |-> reqSize,
               owner |-> owner, found |-> found,
               written |-> h.blk[b].chunks # <<>>]]

\* The chunk goes to the lowest gap; its padding byte is what it is from now on.  The first
\* chunk of a block does not get its Requested field.
PlaceIn(h, b, reqSize, owner) ==
  LET block == h.blk[b]
      off == GapStart(block, Min(Gaps(block, reqSize + Overhead + ChunkHeader)))
  IN {Placed(h, b, off, reqSize, owner, r, found) :
        r \in IF block.chunks = <<>> THEN Garbage ELSE {reqSize}, found \in ReadsBack(off)}

Need(reqSize) == reqSize + Overhead + ChunkHeader

\* Alloc when a block it visits has a gap; without a root it asks for a block at once.
Serves(h, need) == h.list # <<>> /\ Hit(h, need) # 0
AllocHere(h, reqSize, owner) ==
  LET seen == Visited(h, Need(reqSize))
  IN PlaceIn([h EXCEPT !.best = BestBet(h, seen)], Last(seen), reqSize, owner)

\* A search of all blocks in vain moves the best bet.
Searched(h, need) == [h EXCEPT !.best = BestBet(h, SearchOrder(h, need))]

\* AllocNewPage returns to a request that searched n blocks, best_size then being seen: the
\* new block is linked after the n-th, and a block linked there since is lost.  As the root
\* it is searched.  Otherwise it takes the chunk, and counts for the best bet when the loop
\* goes on to it: after a last block with space enough but in pieces (case 5), not after one
\* with too little (case 1).
Arrived(h, n, seen, reqSize, owner) ==
  LET b == Min(FreeIds(h))
      kept == SubSeq(h.list, 1, n)
      bytes == NewBlockSize(reqSize + Overhead)
      goesOn == Unused(h, Last(kept)) >= Need(reqSize)
      linked == [h EXCEPT !.list = Append(kept, b),
                          !.lost = @ \cup (Range(h.list) \ Range(kept)),
                          !.blk[b] = [size |-> bytes, used |-> BlockHeader, chunks |-> <<>>],
                          !.allocated = @ + bytes]
  IN IF n = 0 THEN AllocHere(linked, reqSize, owner)
     ELSE PlaceIn([linked EXCEPT !.best = IF goesOn /\ bytes - BlockHeader > seen THEN b ELSE @],
                  b, reqSize, owner)

\* The pool takes its node, if it splits a range, from the heap as the search left it.
Supplied(h, split) ==
  IF split THEN {[h |-> a.h, taken |-> {a.buffer}] : a \in AllocHere(h, RangeBytes, "pool")}
  ELSE {[h |-> h, taken |-> {}]}

Grow(h, reqSize, split) ==
  LET searched == Searched(h, Need(reqSize))
  IN UNION {{[h |-> a.h, taken |-> s.taken \cup {a.buffer}] :
               a \in Arrived(s.h, Len(h.list), BestSize(searched), reqSize, "client")} :
            s \in Supplied(searched, split)}

\* The pool's node is served unless its request, after the client's, finds no block either.
NodeServed(h, reqSize) == Serves(Searched(h, Need(reqSize)), Need(RangeBytes))

\* What Alloc may leave of heap h, with the buffers taken from it.
Allocated(h, reqSize) ==
  IF Serves(h, Need(reqSize))
  THEN {[h |-> a.h, taken |-> {a.buffer}] : a \in AllocHere(h, reqSize, "client")}
  ELSE UNION {Grow(h, reqSize, split) :
                split \in {x \in Splits : FreeIds(h) # {} /\ (x => NodeServed(h, reqSize))}}

-----------------------------------------------------------------------------
(* Free, once the chunk header has been found.                             *)

\* Mutant: the header stays counted as used.
UnlinkedTwice(h, b, off) ==
  LET i == SelectInSeq(h.blk[b].chunks, LAMBDA c : c.off = off)
      c == h.blk[b].chunks[i]
  IN [h EXCEPT !.blk[b].chunks = RemoveAt(@, i),
               !.blk[b].used = @ - (c.size + ChunkHeader),
               !.inUsed = @ - (c.size + ChunkHeader)]

Unlinked(h, b, off) ==
  LET i == SelectInSeq(h.blk[b].chunks, LAMBDA c : c.off = off)
      c == h.blk[b].chunks[i]
  IN [h EXCEPT !.blk[b].chunks = RemoveAt(@, i),
               !.blk[b].used = @ - (c.size + ChunkHeader),
               !.inUsed = @ - c.size]

\* A block without chunks goes back to VirtualFree.
GivenBack(h, b) ==
  [h EXCEPT !.list = RemoveFirst(@, b),
            !.best = IF @ = b THEN NoBlock ELSE @,
            !.allocated = @ - h.blk[b].size,
            !.blk[b] = [size |-> 0, used |-> 0, chunks |-> <<>>]]

Freed(h, b, off) ==
  LET g == Unlinked(h, b, off)
  IN IF g.blk[b].chunks = <<>> THEN GivenBack(g, b)
     ELSE [g EXCEPT !.best = IF @ # NoBlock /\ Unused(g, b) > Unused(g, @) THEN b ELSE @]

-----------------------------------------------------------------------------
Init ==
  /\ \E b \in BlockIds :
       /\ \A c \in BlockIds : b <= c
       /\ heap = [list |-> <<b>>, lost |-> {},
                  blk |-> [c \in BlockIds |->
                             IF c = b THEN [size |-> RootSize, used |-> BlockHeader, chunks |-> <<>>]
                             ELSE [size |-> 0, used |-> 0, chunks |-> <<>>]],
                  best |-> NoBlock, allocated |-> RootSize, inUsed |-> 0]
  /\ live = {}
  /\ growing = {}
  /\ faulted = FALSE

Alloc(reqSize) ==
  /\ \E a \in Allocated(heap, reqSize) : heap' = a.h /\ live' = live \cup a.taken
  /\ UNCHANGED <<growing, faulted>>

\* The pool splits a range and its node needs a block as well.
NodeNeedsBlock(reqSize) ==
  /\ TRUE \in Splits
  /\ ~Serves(heap, Need(reqSize))
  /\ ~NodeServed(heap, reqSize)

\* No other range of the pool is free and large enough, and the pool reads through a null
\* pointer: the range it was splitting is already marked used.
AllocFaults(reqSize) ==
  /\ NodeNeedsBlock(reqSize)
  /\ faulted' = TRUE
  /\ UNCHANGED <<heap, live, growing>>

\* The node's block is cut from another range, that node's from the next one, until a range
\* is as long as its block: depth requests of the pool wait inside each other.  Old is what
\* ReAlloc frees in the end.
GrowNests(reqSize, old) ==
  /\ NodeNeedsBlock(reqSize)
  /\ FALSE \in Splits
  /\ heap' = Searched(heap, Need(reqSize))
  /\ \E depth \in 1..(Cardinality(FreeIds(heap)) - 1) :
       growing' = {[size |-> reqSize, old |-> old, depth |-> depth,
                    linked |-> Len(heap.list), seen |-> BestSize(heap')]}
  /\ UNCHANGED <<live, faulted>>

\* The block of the innermost request arrives, and the pool gets its node.
NodeBlock ==
  \E g \in growing :
    /\ g.depth > 0
    /\ FreeIds(heap) # {}
    /\ \E a \in Arrived(heap, g.linked, g.seen, RangeBytes, "pool") :
         heap' = a.h /\ live' = live \cup {a.buffer}
    /\ growing' = {[g EXCEPT !.depth = @ - 1]}
    /\ UNCHANGED faulted

\* Alloc and a memset of the whole buffer.
AllocInit(obj, size) == Alloc(obj * size)

\* Either UNALIGN finds the header, or the magic number is wrong and Free gives up.
Free(buf) ==
  /\ heap' = IF buf.found THEN Freed(heap, buf.block, buf.off) ELSE heap
  /\ live' = live \ {buf}
  /\ UNCHANGED <<growing, faulted>>

\* The block of the client's request arrives last.
ClientBlock ==
  \E g \in growing :
    /\ g.depth = 0
    /\ FreeIds(heap) # {}
    /\ \E a \in Arrived(heap, g.linked, g.seen, g.size, "client") :
         /\ heap' \in IF g.old = {} THEN {a.h} ELSE {Freed(a.h, buf.block, buf.off) : buf \in g.old}
         /\ live' = (live \ g.old) \cup {a.buffer}
    /\ growing' = {}
    /\ UNCHANGED faulted

ChunkIndex(h, buf) ==
  SelectInSeq(h.blk[buf.block].chunks, LAMBDA c : c.off = buf.off)
Requested(buf) == heap.blk[buf.block].chunks[ChunkIndex(heap, buf)].requested

\* The header is not found: nullptr, and the client keeps the old buffer.
ReAllocRefused(buf) ==
  /\ ~buf.found
  /\ UNCHANGED vars

\* Requested says the buffer is long enough already.
ReAllocInPlace(buf, size) ==
  /\ buf.found
  /\ Requested(buf) >= size
  /\ heap' = [heap EXCEPT !.blk[buf.block].chunks[ChunkIndex(heap, buf)].requested = size]
  /\ live' = (live \ {buf}) \cup {[buf EXCEPT !.len = size]}
  /\ UNCHANGED <<growing, faulted>>

\* A new buffer, real_size bytes copied, and Free of the old one.
ReAllocMove(buf, size) ==
  /\ buf.found
  /\ Requested(buf) < size
  /\ \E a \in Allocated(heap, size) :
       /\ heap' = Freed(a.h, buf.block, buf.off)
       /\ live' = (live \ {buf}) \cup a.taken
  /\ UNCHANGED <<growing, faulted>>

ReAllocGrows(buf, size) ==
  /\ buf.found
  /\ Requested(buf) < size
  /\ GrowNests(size, {buf}) \/ AllocFaults(size)

\* ReAlloc(p, 0) is Free(p) and ReAlloc(nullptr, size) is Alloc(size).  The mutex keeps
\* everybody out while a request waits for its block.
Next ==
  /\ ~faulted
  /\ \/ NodeBlock
     \/ ClientBlock
     \/ /\ growing = {}
        /\ \/ \E r \in Requests : Alloc(r) \/ GrowNests(r, {}) \/ AllocFaults(r)
           \/ \E n \in Counts, r \in Requests : AllocInit(n, r) \/ GrowNests(n * r, {}) \/ AllocFaults(n * r)
           \/ \E buf \in live :
                /\ buf.owner = "client"
                /\ \/ Free(buf)
                   \/ \E r \in NewSizes \ {0} :
                        \/ ReAllocRefused(buf)
                        \/ ReAllocInPlace(buf, r)
                        \/ ReAllocMove(buf, r)
                        \/ ReAllocGrows(buf, r)

Spec == Init /\ [][Next]_vars

-----------------------------------------------------------------------------
ChunkType == [off : Nat, size : Nat, requested : Nat]
BlockType == [size : Nat, used : Nat, chunks : Seq(ChunkType)]
HeapType == [list : Seq(BlockIds), lost : SUBSET BlockIds, blk : [BlockIds -> BlockType],
             best : BlockIds \cup {NoBlock}, allocated : Nat, inUsed : Nat]
BufferType == [block : BlockIds, off : Nat, room : Nat, len : Nat,
               owner : {"client", "pool"}, found : BOOLEAN, written : BOOLEAN]

GrowingType == [size : Nat, old : SUBSET BufferType, depth : Nat, linked : Nat, seen : Int]

TypeOK ==
  /\ heap \in HeapType
  /\ live \subseteq BufferType
  /\ growing \subseteq GrowingType
  /\ faulted \in BOOLEAN

\* The chunks of a block lie in it one after another: behind the block's header, each
\* ending before the next begins, the last before the block's end.
ChunksInOrder ==
  \A b \in Held(heap) :
    \A j \in 0..Len(heap.blk[b].chunks) : GapStart(heap.blk[b], j) <= GapEnd(heap.blk[b], j)

\* Sets of bytes: those its chunks take from a block, headers included; those of all
\* buffers; and those of all blocks.
Extent(from, to) == from..(to - 1)
Occupied(block) ==
  UNION {Extent(block.chunks[i].off, ChunkEnd(block.chunks[i])) : i \in DOMAIN block.chunks}
Filled(block) ==
  UNION {Extent(block.chunks[i].off + ChunkHeader, ChunkEnd(block.chunks[i])) :
           i \in DOMAIN block.chunks}
InBuffers(h) == UNION {{b} \X Filled(h.blk[b]) : b \in Held(h)}
InBlocks(h) == UNION {{b} \X Extent(0, h.blk[b].size) : b \in Held(h)}

\* The books agree with the structures: Used of every block, m_nInUsed and
\* m_nAllocated count the bytes they stand for.
BooksBalance ==
  /\ \A b \in Held(heap) :
       heap.blk[b].used = BlockHeader + Cardinality(Occupied(heap.blk[b]))
  /\ heap.inUsed = Cardinality(InBuffers(heap))
  /\ heap.allocated = Cardinality(InBlocks(heap))

\* A client's buffer lies inside a chunk that is still linked, and no two clients
\* share a chunk: nothing that is held was handed out again or its block given back.
BuffersSafe ==
  /\ \A buf \in live :
       /\ buf.block \in Held(heap)
       /\ \E i \in DOMAIN heap.blk[buf.block].chunks :
            LET c == heap.blk[buf.block].chunks[i]
            IN c.off = buf.off /\ Pointer(buf.off) + buf.room <= ChunkEnd(c)
  /\ \A x, y \in live : x.block = y.block /\ x.off = y.off => x = y

\* The best bet is a block that exists, never one that was given back.
BestBetExists == heap.best # NoBlock => heap.best \in Held(heap)

\* A block without chunks is given back at once; only the root may be empty, as the
\* constructor leaves it.
OnlyRootEmpty == \A i \in 2..Len(heap.list) : heap.blk[heap.list[i]].chunks # <<>>

\* A block that lost its link has a node of the pool in it, which nobody frees, or stays
\* empty: were it given back, its Prev link would cut the list.
OrphansPinned ==
  \A b \in heap.lost :
    heap.blk[b].chunks # <<>> => \E buf \in live : buf.block = b /\ buf.owner = "pool"

\* After any sequence of calls the heap's structures are right together: chunks in order in
\* their blocks, the sums of the books, clients' buffers in chunks of their own, no block
\* that was given back still linked or bet on, and none given back that is out of the list.
HeapSound ==
  /\ ChunksInOrder /\ BooksBalance /\ BuffersSafe
  /\ BestBetExists /\ OnlyRootEmpty /\ OrphansPinned

\* How many blocks a request searched before its block arrives.
SearchedBlocks == IF growing = {} THEN Len(heap.list) ELSE (CHOOSE g \in growing : TRUE).linked

\* The heap grows only when no block linked at the time of the search has a gap for the
\* request, wherever the search started.
GrowsOnlyWhenFull ==
  [][\A b \in Range(heap'.list) \ Held(heap) : \A c \in DOMAIN heap'.blk[b].chunks :
       \A i \in 1..SearchedBlocks :
         Gaps(heap.blk[heap.list[i]], heap'.blk[b].chunks[c].size + ChunkHeader) = {}]_vars

\* Every block of the heap is in its list, where the search finds it ("Create a new
\* HeapBlock Next to this one").
NoneOrphaned == heap.lost = {}

\* Whatever clients free and re-allocate, a chunk that belongs to nobody is one whose
\* buffer was padded: Free finds every other header again.
NothingLeaks ==
  \A b \in Held(heap) : \A i \in DOMAIN heap.blk[b].chunks :
    \/ \E buf \in live : buf.block = b /\ buf.off = heap.blk[b].chunks[i].off
    \/ Pad(heap.blk[b].chunks[i].off) # 0

\* The heap can always grow ("32 MiB Heap, extendable").
Extendable == ~faulted

\* Requested, by which ReAlloc decides whether to move a buffer and how much to copy, is
\* what its client asked for last, and no more than the buffer has room for; but for the
\* first chunk of a block, whose field nobody wrote.
RequestedKept ==
  \A buf \in live : buf.written => Requested(buf) = buf.len /\ buf.len <= buf.room

\* When UNALIGN may read a byte nobody wrote: the books still balance, buffers still lie in
\* chunks of their own, ReAlloc decides by what was asked for, and only padded chunks leak.
PaddedSound == BooksBalance /\ BuffersSafe /\ RequestedKept /\ NothingLeaks

=============================================================================
