---------------------------- MODULE MemoryManager ----------------------------
(***************************************************************************)
(* Physical and virtual pages once the page allocator stands:              *)
(* MemoryManager.cpp composed with the AddressPool, PageAllocator.cpp,     *)
(* StackPageAllocator.cpp and the page table entries of Paging.cpp.        *)
(*                                                                         *)
(* The stack of free frames keeps its list in the free frames themselves:  *)
(* a node is the virtual address a frame is mapped at, and its header      *)
(* (base, pages, next) is the frame's contents.  Mapping a node asks       *)
(* MemoryManager for an address, giving that address back asks it to free  *)
(* the frame, so that the operations re-enter each other; each is composed *)
(* here from operators on the whole memory, one step under the mutexes.    *)
(* Mapping into an area without a page table takes a frame for one, from   *)
(* the stack that may be in the middle of granting.                        *)
(*                                                                         *)
(* The bitmap allocator is taken at its word: a run of free frames, or an  *)
(* error.  Frames are counted in pages and addresses in bytes; of the page *)
(* tables the last level is kept, which Paging models in full.  Counts are *)
(* of 4 KiB pages: ConvertPageCount, which multiplies in 32 bits and       *)
(* divides again, is taken as the identity it is below 2^20 pages.         *)
(***************************************************************************)
EXTENDS Integers, FiniteSetsExt, SequencesExt

CONSTANTS PageSize, DWord, AddressSpace,  \* as in AddressPool
          VirtStart,    \* g_KERNEL_VIRT_START
          VirtPages,    \* pages of g_KERNEL_VIRT_LENGTH
          Frame,        \* the physical pages of the machine, 0 among them
          Reserved,     \* those the bitmap never frees, 0 among them
          InitPages,    \* 0x2000: what the stack takes from the bitmap at first
          RefillPages,  \* 16: what it takes when it is empty
          HeapPages,    \* pages of nHeapSize
          TablePages,   \* 512: pages mapped by one page table
          Gaps,         \* page tables that may be missing when clients begin
          PhysCounts,   \* the page counts passed to PhysAlloc
          VirtCounts,   \* the page counts passed to VirtualAlloc
          NoMapCounts   \* the same, without a mapping

NoAddress == 0          \* nullptr
NotPresent == -1        \* an empty page table entry
HeapAddress(i) == VirtStart + i * PageSize
\* The page table an address lies in.
TableOf(v) == v \div (TablePages * PageSize)
Addresses == {a \in 0..(AddressSpace - 1) : a % PageSize = 0}

ASSUME MemoryAssumption ==
  /\ PageSize \in Nat \ {0} /\ DWord \in Nat \ {0} /\ AddressSpace \in Nat \ {0}
  /\ VirtStart \in Addresses \ {NoAddress} /\ VirtPages \in Nat
  /\ VirtPages * PageSize < DWord
  /\ Frame \subseteq Nat /\ 0 \in Reserved /\ Reserved \subseteq Frame
  /\ {InitPages, RefillPages, HeapPages, TablePages} \subseteq Nat \ {0}
  /\ \A i \in 0..(HeapPages - 1) : TableOf(HeapAddress(i)) \notin Gaps
  /\ PhysCounts \cup VirtCounts \cup NoMapCounts \subseteq Nat \ {0}

VARIABLES mm,       \* the memory: pool, tables (their frames), table (their entries),
                    \* bitmap (its free frames), top, page, dead
          phys,     \* <<frame, pages>> clients hold from PhysAlloc (history)
          virt,     \* [at, pages, frame] clients hold from VirtualAlloc (history)
          singles,  \* frames the stack has granted so far (history)
          heapUp,   \* SetupKernelHeap has run
          torn      \* a table was made while the stack held a run, or nothing (history)

vars == <<mm, phys, virt, singles, heapUp, torn>>

Pool == INSTANCE AddressPool WITH
  Pools <- {"kernel"}, Areas <- {}, PageCounts <- {}, FreeBases <- {}, MaxRanges <- 0,
  MaxLocks <- 0, ranges <- mm.pool, lockDepth <- 0, reply <- 0, faulted <- mm.dead

Run(frame, n) == frame..(frame + n - 1)
Header(base, pages, next) == [base |-> base, pages |-> pages, next |-> next]
Cleared == Header(0, 0, NoAddress)

-----------------------------------------------------------------------------
(* Addresses and mappings.                                                 *)

\* s_pPool->Allocate; an exhausted pool reads through a null pointer.
Reserve(m, n) ==
  LET i == Pool!FirstFit(m.pool, n)
  IN IF i = 0 THEN [m |-> [m EXCEPT !.dead = TRUE], at |-> NoAddress]
     ELSE [m |-> [m EXCEPT !.pool = Pool!Take(@, i, n)], at |-> m.pool[i].base]

Tables == {TableOf(a) : a \in Addresses}

\* PagingMapPage does not override an entry; nobody looks at E_MEMMAN_ENTRY_EXISTS.
Entered(m, v, frame) == [m EXCEPT !.table[v] = IF @ = NotPresent THEN frame ELSE @]

\* GetNewPage clears the frame, whatever it has been meanwhile; without one the kernel panics.
NewTable(m, t, frame) ==
  IF m.dead \/ frame = 0 THEN [m EXCEPT !.dead = TRUE]
  ELSE [m EXCEPT !.page[frame] = Cleared, !.tables[t] = frame,
                 !.table = [v \in Addresses |->
                   IF TableOf(v) = t \/ m.tables[TableOf(v)] = frame THEN NotPresent ELSE @[v]]]

RECURSIVE PageAlloc(_, _)

PagingMapPage(m, v, frame) ==
  IF m.dead THEN {m}
  ELSE IF m.tables[TableOf(v)] # NotPresent THEN {Entered(m, v, frame)}
  ELSE {Entered(NewTable(a.m, TableOf(v), a.frame), v, frame) : a \in PageAlloc(m, 1)}

PagingVirtToPhys(m, v) == m.table[v]

TemporaryMapToPage(m, frame) ==
  LET r == Reserve(m, 1)
  IN {[m |-> x, at |-> r.at] : x \in PagingMapPage(r.m, r.at, frame)}

\* A store through a virtual address; a page fault stops the kernel.
Store(m, v, contents) ==
  IF m.dead \/ m.table[v] = NotPresent THEN [m EXCEPT !.dead = TRUE]
  ELSE [m EXCEPT !.page[m.table[v]] = contents]

-----------------------------------------------------------------------------
(* Giving back.                                                            *)

\* StackPageAllocator::Free
StackFree(m, frame) ==
  {[Store(t.m, t.at, Header(frame, 1, t.m.top)) EXCEPT !.top = t.at] :
     t \in TemporaryMapToPage(m, frame)}

\* Mutant: one page too many goes back to the bitmap.
PageFreeTooMany(m, frame, n) ==
  IF n = 1 THEN StackFree(m, frame)
  ELSE {[m EXCEPT !.bitmap = @ \cup Run(frame, n + 1)]}

\* PageAllocator::Free
PageFree(m, frame, n) ==
  IF n = 1 THEN StackFree(m, frame)
  ELSE {[m EXCEPT !.bitmap = @ \cup Run(frame, n)]}

\* The pages the pool says it freed, whatever count the caller passed: the count is an
\* output parameter of AddressPool::Free.
PagesFreed(m, v) ==
  LET i == Pool!FirstAt(m.pool, v)
  IN IF i # 0 /\ m.pool[i].used THEN m.pool[i].pages ELSE 0

\* MemoryManager::VirtualFree: the mapping stays.
VirtFreed(m, v) ==
  LET i == Pool!FirstAt(m.pool, v)
      n == PagesFreed(m, v)
  IN PageFree([m EXCEPT !.pool = IF n = 0 THEN @ ELSE Pool!Merge([@ EXCEPT ![i].used = FALSE])],
              PagingVirtToPhys(m, v), n)

-----------------------------------------------------------------------------
(* Granting.                                                               *)

\* The bitmap's promise.
Runs(m, n) == {f \in Frame : Run(f, n) \subseteq m.bitmap}

\* GetPageFromBitmap, into an empty stack.
GetPageFromBitmap(m, frame, n) ==
  {[Store(t.m, t.at, Header(frame, n, NoAddress)) EXCEPT !.top = t.at] :
     t \in TemporaryMapToPage([m EXCEPT !.bitmap = @ \ Run(frame, n)], frame)}

TopHeader(m) == m.page[m.table[m.top]]

\* The stack's next node, for the rest of the run a frame was taken from.
Remainder(m, h) ==
  {[Store(t.m, t.at, Header(h.base + 1, h.pages - 1, h.next)) EXCEPT !.top = t.at] :
     t \in TemporaryMapToPage(m, h.base + 1)}

\* Mutant: the push is not undone.
PoppedWithPush(m) ==
  LET h == TopHeader(m)
  IN UNION {IF h.pages > 1 THEN Remainder(freed, h) ELSE {freed} :
              freed \in VirtFreed(Store(m, m.top, Cleared), m.top)}

\* The header's address is given back before the stack moves on: VirtualFree frees the
\* frame being granted, which pushes it on the stack, and the push is undone by the
\* assignment to m_NextFreePage below.
Popped(m) ==
  LET h == TopHeader(m)
  IN UNION {IF h.pages > 1 THEN Remainder(freed, h) ELSE {[freed EXCEPT !.top = h.next]} :
              freed \in VirtFreed(Store(m, m.top, Cleared), m.top)}

\* An empty stack takes frames from the bitmap; an empty bitmap is a kernel panic.
Refilled(m) ==
  IF m.top # NoAddress THEN {m}
  ELSE IF Runs(m, RefillPages) = {} THEN {[m EXCEPT !.dead = TRUE]}
  ELSE UNION {GetPageFromBitmap(m, f, RefillPages) : f \in Runs(m, RefillPages)}

\* StackPageAllocator::Alloc
StackAlloc(m) ==
  UNION {IF x.dead \/ x.table[x.top] = NotPresent
         THEN {[m |-> [x EXCEPT !.dead = TRUE], frame |-> 0]}
         ELSE {[m |-> y, frame |-> TopHeader(x).base] : y \in Popped(x)} : x \in Refilled(m)}

\* PageAllocator::Alloc
PageAlloc(m, n) ==
  IF m.dead THEN {[m |-> m, frame |-> 0]}
  ELSE IF n = 1 THEN StackAlloc(m)
  ELSE IF Runs(m, n) = {} THEN {[m |-> m, frame |-> 0]}
  ELSE {[m |-> [m EXCEPT !.bitmap = @ \ Run(f, n)], frame |-> f] : f \in Runs(m, n)}

-----------------------------------------------------------------------------
(* Operations, from the state the constructor of PageAllocator leaves.     *)
(* Clients call as if Initialize had ended, but for the heap, which is     *)
(* placed on the stack's first node.                                       *)

\* What Initialize gives the pool, before page tables and page frames are set up.
KernelPool == <<Pool!MakeRange(VirtStart, VirtPages * PageSize)>>

\* Of the tables PagingInitialize makes those of the heap's area; others by then.
Init ==
  /\ \E missing \in SUBSET Gaps :
     LET empty == [pool |-> KernelPool,
                   tables |-> [t \in Tables |-> IF t \in missing THEN NotPresent ELSE 0],
                   table |-> [a \in Addresses |-> NotPresent],
                   bitmap |-> Frame \ Reserved, top |-> NoAddress,
                   page |-> [f \in Frame |-> Cleared], dead |-> FALSE]
     IN \E f \in Runs(empty, InitPages) : mm \in GetPageFromBitmap(empty, f, InitPages)
  /\ phys = {}
  /\ virt = {}
  /\ singles = 0
  /\ heapUp = FALSE
  /\ torn = FALSE

Counted(n) == singles' = IF n = 1 THEN singles + 1 ELSE singles

PhysAlloc(n) ==
  /\ \E a \in PageAlloc(mm, n) :
       /\ mm' = a.m
       /\ phys' = IF a.frame = 0 THEN phys ELSE phys \cup {<<a.frame, n>>}
  /\ Counted(n)
  /\ UNCHANGED <<virt, heapUp>>

PhysFree(g) ==
  /\ mm' \in PageFree(mm, g[1], g[2])
  /\ phys' = phys \ {g}
  /\ UNCHANGED <<virt, singles, heapUp>>

\* Only the first page is mapped.
VirtualAlloc(n) ==
  LET r == Reserve(mm, n)
  IN /\ \E a \in PageAlloc(r.m, n) :
          /\ mm' \in PagingMapPage(a.m, r.at, a.frame)
          /\ virt' = virt \cup {[at |-> r.at, pages |-> n, frame |-> a.frame]}
     /\ Counted(n)
     /\ UNCHANGED <<phys, heapUp>>

\* tbNoMap: the caller maps the address itself and keeps it for good.
VirtualAllocNoMap(n) ==
  LET r == Reserve(mm, n)
  IN /\ mm' = r.m
     /\ virt' = virt \cup {[at |-> r.at, pages |-> n, frame |-> NotPresent]}
     /\ UNCHANGED <<phys, singles, heapUp>>

VirtualFree(g) ==
  /\ g.frame # NotPresent
  /\ mm' \in VirtFreed(mm, g.at)
  /\ virt' = virt \ {g}
  /\ UNCHANGED <<phys, singles, heapUp>>

\* The heap's pages are mapped from the start of the pool's area, where the pool has
\* placed the first node of the stack; the heap's mutex and root block overwrite it
\* (what its header then reads as does not matter, since the kernel halts).
SetupKernelHeap ==
  /\ \E a \in PageAlloc(mm, HeapPages) :
       LET mapped == [a.m EXCEPT !.table = [v \in Addresses |->
                        IF @[v] = NotPresent /\ v \in {HeapAddress(i) : i \in 0..(HeapPages - 1)}
                        THEN a.frame + (v - VirtStart) \div PageSize ELSE @[v]]]
       IN /\ mm' = Store(mapped, VirtStart, Cleared)
          /\ phys' = phys \cup {<<a.frame, HeapPages>>}
  /\ heapUp' = TRUE
  /\ UNCHANGED <<virt, singles>>

\* The k-th node from the top, NoAddress behind the last one.
NodeAt ==
  LET node[k \in Nat] ==
        IF k = 0 THEN mm.top
        ELSE IF node[k - 1] = NoAddress \/ mm.table[node[k - 1]] = NotPresent THEN NoAddress
        ELSE mm.page[mm.table[node[k - 1]]].next
  IN [k \in 0..Cardinality(Frame) |-> node[k]]
Nodes == Range(NodeAt) \ {NoAddress}

\* Every node of the stack is a single frame, so that granting it needs no other address.
OnlySingles == mm.top # NoAddress /\ \A v \in Nodes : mm.page[mm.table[v]].pages = 1

\* After the heap is set up the kernel halts.  Where a table was made while the stack held a
\* run the model ends: the table may be the very frame that is granted, and its entries
\* what a client writes.
Next ==
  /\ ~mm.dead /\ ~heapUp /\ ~torn
  /\ \/ \E n \in PhysCounts : PhysAlloc(n)
     \/ \E g \in phys : PhysFree(g)
     \/ \E n \in VirtCounts : VirtualAlloc(n)
     \/ \E n \in NoMapCounts : VirtualAllocNoMap(n)
     \/ \E g \in virt : VirtualFree(g)
     \/ SetupKernelHeap
  /\ torn' = (mm'.tables # mm.tables /\ ~OnlySingles)

Spec == Init /\ [][Next]_vars

-----------------------------------------------------------------------------
Working == ~mm.dead /\ ~heapUp /\ ~torn

TypeOK ==
  /\ DOMAIN mm = {"pool", "tables", "table", "bitmap", "top", "page", "dead"}
  /\ mm.pool \in Seq(Pool!RangeType)
  /\ mm.tables \in [Tables -> Frame \cup {NotPresent}]
  /\ mm.table \in [Addresses -> Nat \cup {NotPresent}]
  /\ mm.bitmap \subseteq Frame
  /\ mm.top \in Addresses
  /\ mm.page \in [Frame -> [base : Nat, pages : Nat, next : Addresses]]
  /\ mm.dead \in BOOLEAN
  /\ phys \subseteq Nat \X Nat
  /\ virt \subseteq [at : Addresses, pages : Nat, frame : Nat \cup {NotPresent}]
  /\ singles \in Nat
  /\ heapUp \in BOOLEAN /\ torn \in BOOLEAN

UsedAt(v) == \E i \in DOMAIN mm.pool :
  mm.pool[i].base = v /\ mm.pool[i].used /\ mm.pool[i].pages = 1

\* The stack is a finite list, each node's header stored in the very frame it describes,
\* at an address that belongs to the node alone.
StackSound ==
  Working =>
    /\ NodeAt[Cardinality(Frame)] = NoAddress
    /\ \A v \in Nodes :
         /\ UsedAt(v) /\ \A g \in virt : g.at # v
         /\ mm.page[mm.table[v]].base = mm.table[v] /\ mm.page[mm.table[v]].pages > 0

\* Page tables made from frames of the stack.
TablesMade == {t \in Tables : mm.tables[t] \notin {0, NotPresent}}

\* Every frame that may be granted is in exactly one place: free in the bitmap, in one
\* node of the stack, a page table, or with one client.
Holdings ==
  {[who |-> <<"bitmap", 0>>, frames |-> mm.bitmap]}
    \cup {LET h == mm.page[mm.table[v]]
          IN [who |-> <<"stack", v>>, frames |-> Run(h.base, h.pages)] : v \in Nodes}
    \cup {[who |-> <<"table", t>>, frames |-> {mm.tables[t]}] : t \in TablesMade}
    \cup {[who |-> <<"phys", g>>, frames |-> Run(g[1], g[2])] : g \in phys}
    \cup {[who |-> <<"virt", g>>, frames |-> Run(g.frame, g.pages)] :
            g \in {x \in virt : x.frame # NotPresent}}
FramesConserved ==
  Working =>
    /\ UNION {x.frames : x \in Holdings} = Frame \ Reserved
    /\ \A x, y \in Holdings : x # y => x.frames \cap y.frames = {}

\* What a client reads and writes through its address is the frame it was granted.
MappedAsGranted ==
  Working => \A g \in virt : g.frame # NotPresent => mm.table[g.at] = g.frame

\* A free address is never mapped: PagingMapPage never meets an entry it must not
\* override, though no mapping is ever removed.
FreeUnmapped ==
  Working => \A i \in DOMAIN mm.pool : ~mm.pool[i].used =>
    \A k \in 0..(mm.pool[i].pages - 1) : mm.table[mm.pool[i].base + k * PageSize] = NotPresent

\* Addresses in use that nobody knows of any more: one for each frame the stack granted, the
\* tables' included.
Leaked == {v \in Addresses : UsedAt(v)} \ (Nodes \cup {g.at : g \in virt})
OneAddressLostPerFrame == Working => Cardinality(Leaked) = singles + Cardinality(TablesMade)

\* Through all the re-entrant calls the stack, the pool, the mappings and the clients agree
\* on who has which frame and which address.
MemorySound ==
  /\ StackSound /\ FramesConserved /\ MappedAsGranted /\ FreeUnmapped
  /\ OneAddressLostPerFrame

\* A frame the stack grants is clean ("Clean the page so content from other process doesn't
\* retain").
GrantsClean ==
  [][singles' > singles /\ ~mm'.dead /\ ~torn' =>
       \A f \in {g[1] : g \in phys' \ phys} \cup {g.frame : g \in virt' \ virt} :
         mm'.page[f] = Cleared]_vars

\* The heap lies in the frames taken for it ("Map to 32 MiB to Virtual Address").
HeapBacked ==
  heapUp => \E g \in phys : g[2] = HeapPages /\
    \A i \in 0..(HeapPages - 1) : mm.table[HeapAddress(i)] = g[1] + i

\* A page table is no frame that a client was granted.
TablesOwned ==
  ~mm.dead => \A t \in TablesMade :
    /\ \A g \in phys : mm.tables[t] \notin Run(g[1], g[2])
    /\ \A g \in virt : mm.tables[t] \notin Run(g.frame, g.pages)

=============================================================================
