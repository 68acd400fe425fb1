------------------------------- MODULE Paging -------------------------------
(***************************************************************************)
(* The four levels of page tables of arch/x86_64/Paging.cpp: what          *)
(* PagingInitialize builds at boot, and PagingMapPage, PagingUnmapPage and *)
(* PagingVirtToPhys afterwards, on one processor with its TLB.             *)
(*                                                                         *)
(* A table has Fan entries (512 in the code); a virtual page is the tuple  *)
(* of its four indices.  The three last entries of the root are the heap's *)
(* area, the recursive entry and the kernel.  An entry is the frame it     *)
(* points at, its flags left out; an entry that is 0 in the code is        *)
(* NotSet, which an entry for frame 0, its flags set, is not.              *)
(*                                                                         *)
(* PagingMapPage goes one level a step, because GetNewPage clears a new    *)
(* table through the temporary page and the processor may translate that   *)
(* page, like any other, from its TLB.  A clear that went through an old   *)
(* translation ruins the tables (stale), and the model stops there.        *)
(***************************************************************************)
EXTENDS Integers, FiniteSets

CONSTANTS Fan,          \* entries of a table, 512
          Ram,          \* frames of memory, numbered from 0
          ImageSizes,   \* frames of the kernel image, loader's tables included
          HeapTables,   \* page tables of the 32 MiB of heap, 16
          BitmapPages,  \* pages BmpPageAllocator maps before MMHasInitialized
          Clients,      \* the pages the other callers map
          Targets       \* the frames they map them to

NotSet == -1
None == <<>>            \* no call in progress
Device == Ram           \* a frame that is not memory: 0xB8000, a device's registers
Frame == 0..(Ram - 1)
Index == 0..(Fan - 1)
Page == Index \X Index \X Index \X Index

Heap == Fan - 3         \* indices in the root
Recursive == Fan - 2
Kernel == Fan - 1
Temp == <<Kernel, Fan - 1, Fan - 1, Fan - 1>>       \* PAGING_TEMP_VIRT
Video == <<Kernel, Fan - 1, Fan - 1, Fan - 3>>
KernelPage(f) == <<Kernel, Fan - 2, f \div Fan, f % Fan>>  \* f + VirtualOffset

\* The frames below Top have kernel addresses: those of memory, or of the gigabyte (but its last
\* page) that one entry of the kernel's first table spans.
Top == IF Ram < Fan * Fan THEN Ram ELSE Fan * Fan - 1

PageDirectory == 1      \* the loader's root, the image's first frame
LoaderTable == 2        \* the loader's next level, which nothing keeps

ASSUME PagingAssumption ==
  /\ Fan \in Nat /\ Fan >= 4 /\ Ram \in Nat
  /\ ImageSizes \subseteq 2..(Top - 3) /\ HeapTables \in 1..Fan /\ BitmapPages \in Nat
  /\ Clients \subseteq Page /\ Targets \subseteq Frame \cup {Device}
  /\ \A v \in Clients : v[1] \notin {Recursive, Kernel}

Tracked == Clients \cup {KernelPage(f) : f \in 0..(Top - 1)} \cup {Video}

VARIABLES mem,    \* the entries each frame holds, read as a table
          next,   \* g_LastUsed, a frame
          buffer, \* newPageBuffer, a frame: what follows the tables, then the bitmap
          build,  \* where PagingInitialize is
          free,   \* the frames PhysAlloc may return
          phase,  \* what is going on; "up" is MMHasInitialized
          call,   \* the PagingMapPage in progress
          tlb,    \* the translations the processor holds
          asked,  \* what the successful calls asked each page to be (history)
          stale   \* a table was cleared through an old translation

vars == <<mem, next, buffer, build, free, phase, call, tlb, asked, stale>>

Empty == [i \in Index |-> NotSet]
Leftover == [i \in Index |-> 0]    \* what a frame nobody cleared may hold

-----------------------------------------------------------------------------
(* Reading the tables.                                                     *)

Entry(m, t, i) == IF t \in Frame THEN m[t][i] ELSE NotSet

\* The table that holds v's entry of a level, 0 for the root: what a read through the
\* recursive entry reaches.
TableFrom(m, root, v, level) ==
  LET p3 == Entry(m, root, v[1])
      p2 == Entry(m, p3, v[2])
      p1 == Entry(m, p2, v[3])
  IN CASE level = 0 -> root [] level = 1 -> p3 [] level = 2 -> p2 [] OTHER -> p1
Table(m, v, level) == TableFrom(m, PageDirectory, v, level)

\* The frame of v, or NotSet for E_MEMMAN_VIRTNOTMAPPED.
PagingVirtToPhys(m, v) == Entry(m, Table(m, v, 3), v[4])

-----------------------------------------------------------------------------
\* The loader has left the recursive entry, and low memory and the kernel behind tables
\* of its own.
Init ==
  /\ \E image \in ImageSizes : next = image + 1
  /\ mem = [f \in Frame |->
             IF f = PageDirectory
             THEN [Empty EXCEPT ![0] = LoaderTable, ![Recursive] = PageDirectory,
                                ![Kernel] = LoaderTable]
             ELSE Leftover]
  /\ buffer = 0 /\ free = {}
  /\ build = [frame |-> PageDirectory, table |-> 0, level |-> 0]
  /\ phase = "boot" /\ call = None
  /\ tlb = [v \in Clients \cup {Temp} |-> NotSet]
  /\ asked = [v \in Tracked |-> NotSet]
  /\ stale = FALSE

\* PagingInitialize is over.
Settled == phase \in {"bitmap", "up", "panic"}
Running == phase \notin {"panic", "lost"} /\ ~stale

-----------------------------------------------------------------------------
(* PagingInitialize.  The tables are built behind the image, on a copy of  *)
(* the root: frames are taken from buffer (krnlEnd), and g_LastUsed (next) *)
(* stays where the copy is.  One table or one entry is set a step; a phase *)
(* is one of the code's loops, or the straight lines between them.         *)

Building == phase \in {"image", "temporary", "heap", "self"}

\* The page whose tables are set up; `build` has the place in the loops, and how many
\* of the page's tables are there.
HeapPage(k) == <<Heap, 0, k, 0>>
Target == CASE phase = "temporary" -> Temp
            [] phase = "heap" -> HeapPage(build.table)
            [] OTHER -> KernelPage(build.frame)

Dir == TableFrom(mem, next, Target, build.level)
DirIndex == Target[build.level + 1]

\* The copy, and a new table for the kernel in place of the loader's.
CopyRoot ==
  /\ phase = "boot"
  /\ mem' = [mem EXCEPT ![next] = [mem[PageDirectory] EXCEPT ![Kernel] = next + 1],
                        ![next + 1] = Empty]
  /\ buffer' = next + 2
  /\ build' = [build EXCEPT !.level = 1]
  /\ phase' = "image"
  /\ UNCHANGED <<next, free, call, tlb, asked, stale>>

\* The tables of the first page of the image and of the heap are set unasked.
Checks == Target \notin {KernelPage(PageDirectory), HeapPage(0)}

\* Mutant: the new table keeps what the frame held.
NewTableUncleared(t, i) == mem' = [mem EXCEPT ![t][i] = buffer]

NewTable(t, i) == mem' = [mem EXCEPT ![t][i] = buffer, ![buffer] = Empty]

Missing == ~Checks \/ Entry(mem, Dir, DirIndex) = NotSet

\* The loops are not over, and the page is not at its last level.  The page behind Temp is a
\* new frame too, cleared like a table.
Descending ==
  /\ Building /\ build.frame < buffer
  /\ build.level \in 0..(IF phase = "temporary" THEN 3 ELSE 2)

SetNewTable ==
  /\ Descending
  /\ IF Missing THEN buffer < Top /\ NewTable(Dir, DirIndex) /\ buffer' = buffer + 1
     ELSE UNCHANGED <<mem, buffer>>
  /\ build' = [build EXCEPT !.level = @ + 1]
  /\ UNCHANGED <<next, free, phase, call, tlb, asked, stale>>

MapImage ==
  /\ phase = "image" /\ build.level = 3
  /\ mem' = [mem EXCEPT ![Dir][DirIndex] = build.frame]
  /\ build' = [build EXCEPT !.frame = @ + 1, !.level = 0]
  /\ phase' = IF build.frame + 1 < next THEN "image" ELSE "temporary"
  /\ UNCHANGED <<next, buffer, free, call, tlb, asked, stale>>

MapVideo ==
  /\ phase = "temporary" /\ build.level = 4
  /\ mem' = [mem EXCEPT ![TableFrom(mem, next, Temp, 3)][Video[4]] = Device]
  /\ build' = [build EXCEPT !.level = 0]
  /\ phase' = "heap"
  /\ UNCHANGED <<next, buffer, free, call, tlb, asked, stale>>

\* The heap gets its tables, so that mapping it needs no new one.
NextHeapTable ==
  /\ phase = "heap" /\ build.level = 3
  /\ build' = [build EXCEPT !.table = @ + 1, !.level = 0]
  /\ phase' = IF build.table + 1 < HeapTables THEN "heap" ELSE "self"
  /\ UNCHANGED <<mem, next, buffer, free, call, tlb, asked, stale>>

\* The new tables are mapped themselves, with those that this adds.
MapTables ==
  /\ phase = "self" /\ build.level = 3
  /\ mem' = [mem EXCEPT ![Dir][DirIndex] = IF @ = NotSet THEN build.frame ELSE @]
  /\ build' = [build EXCEPT !.frame = @ + 1, !.level = 0]
  /\ UNCHANGED <<next, buffer, free, phase, call, tlb, asked, stale>>

\* The copy is copied back without the identity mapping of low memory, and the TLB
\* flushed.  g_LastUsed is not moved.
PagingInitialize ==
  /\ phase = "self" /\ build.level = 0 /\ build.frame = buffer
  /\ buffer + BitmapPages <= Top
  /\ LET root == [mem[next] EXCEPT ![0] = NotSet]
     IN mem' = [mem EXCEPT ![next] = root, ![PageDirectory] = root]
  /\ asked' = [v \in Tracked |->
       IF v = Video THEN Device
       ELSE IF \E f \in 1..(buffer - 1) : v = KernelPage(f) THEN v[3] * Fan + v[4]
       ELSE NotSet]
  /\ tlb' = [v \in DOMAIN tlb |-> NotSet]
  /\ phase' = "bitmap"
  /\ UNCHANGED <<next, buffer, build, free, call, stale>>

\* The tables and the bitmap do not fit: they go where there is no memory, or where no kernel
\* address reaches.
Overrun ==
  /\ \/ Descending /\ Missing /\ buffer >= Top
     \/ /\ phase = "self" /\ build.level = 0 /\ build.frame = buffer
        /\ buffer + BitmapPages > Top
  /\ phase' = "lost"
  /\ UNCHANGED <<mem, next, buffer, build, free, call, tlb, asked, stale>>

\* MemoryManager::Initialize has set up the frames above the bitmap: PhysAlloc.
Initialized ==
  /\ phase = "bitmap" /\ call = None /\ Running
  /\ asked[KernelPage(buffer + BitmapPages - 1)] # NotSet
  /\ phase' = "up"
  /\ free' = (buffer + BitmapPages)..(Ram - 1)
  /\ UNCHANGED <<mem, next, buffer, build, call, tlb, asked, stale>>

-----------------------------------------------------------------------------
(* PagingMapPage.                                                          *)

Call(v, f, override) ==
  [page |-> v, frame |-> f, override |-> override, level |-> 0, at |-> "walk", fresh |-> NotSet]

\* BmpPageAllocator::Initialize maps its bitmap page after page.
MapBitmap ==
  /\ phase = "bitmap" /\ call = None /\ Running
  /\ \E f \in buffer..(buffer + BitmapPages - 1) :
       /\ asked[KernelPage(f)] = NotSet
       /\ \A g \in buffer..(f - 1) : asked[KernelPage(g)] # NotSet
       /\ call' = Call(KernelPage(f), f, FALSE)
  /\ UNCHANGED <<mem, next, buffer, build, free, phase, tlb, asked, stale>>

\* Both addresses null: E_ARG_NULL.
PagingMapPage ==
  /\ phase = "up" /\ call = None /\ Running
  /\ \E v \in Clients, f \in Targets, override \in BOOLEAN :
       /\ ~(v = <<0, 0, 0, 0>> /\ f = 0)
       /\ call' = Call(v, f, override)
  /\ UNCHANGED <<mem, next, buffer, build, free, phase, tlb, asked, stale>>

Here == Table(mem, call.page, call.level)
HereIndex == call.page[call.level + 1]

\* Mutant: the walk does not stop at the page's own entry.
WalkingOn(level) == Running /\ call # None /\ call.at = "walk"

Walking(level) == Running /\ call # None /\ call.at = "walk" /\ call.level \in level

\* The table of the next level is there.
Descend ==
  /\ Walking(0..2) /\ Entry(mem, Here, HereIndex) # NotSet
  /\ call' = [call EXCEPT !.level = @ + 1]
  /\ UNCHANGED <<mem, next, buffer, build, free, phase, tlb, asked, stale>>

\* GetNewPage up to the clear: a frame of g_LastUsed or of PhysAlloc, and the entry of the
\* temporary page, which is not invalidated.
Fresh(f) ==
  /\ mem' = [mem EXCEPT ![Table(mem, Temp, 3)][Temp[4]] = f]
  /\ call' = [call EXCEPT !.at = "clear", !.fresh = f]

\* Mutant: the frame stays free.
TakeFrameKept(f) == free' = free

TakeFrame(f) == free' = free \ {f}

GetNewPage ==
  /\ Walking(0..2) /\ Entry(mem, Here, HereIndex) = NotSet
  /\ \/ /\ phase = "bitmap"
        /\ Fresh(next) /\ next' = next + 1 /\ UNCHANGED free
     \/ /\ phase = "up"
        /\ \E f \in free : Fresh(f) /\ TakeFrame(f) /\ UNCHANGED next
  /\ UNCHANGED <<buffer, build, phase, tlb, asked, stale>>

\* KernelPanic: no memory for a table.
OutOfMemory ==
  /\ Walking(0..2) /\ Entry(mem, Here, HereIndex) = NotSet
  /\ phase = "up" /\ free = {}
  /\ phase' = "panic"
  /\ UNCHANGED <<mem, next, buffer, build, free, call, tlb, asked, stale>>

Cleared(m, f) == [m EXCEPT ![f] = Empty]

\* memset(PAGING_TEMP_VIRT), through the translation the processor holds.
Clear ==
  /\ Running /\ call # None /\ call.at = "clear"
  /\ LET f == IF tlb[Temp] # NotSet THEN tlb[Temp] ELSE PagingVirtToPhys(mem, Temp)
     IN /\ mem' = Cleared(mem, f)
        /\ tlb' = [tlb EXCEPT ![Temp] = f]
        /\ stale' = (f # call.fresh)
  /\ call' = [call EXCEPT !.at = "link"]
  /\ UNCHANGED <<next, buffer, build, free, phase, asked>>

Link ==
  /\ Running /\ call # None /\ call.at = "link"
  /\ mem' = [mem EXCEPT ![Here][HereIndex] = call.fresh]
  /\ call' = [call EXCEPT !.at = "walk", !.level = @ + 1, !.fresh = NotSet]
  /\ UNCHANGED <<next, buffer, build, free, phase, tlb, asked, stale>>

\* Mutant: the translation of the page is kept.
InvalidatePageNot(v) == tlb' = tlb

\* invlpg
InvalidatePage(v) == tlb' = [w \in DOMAIN tlb |-> IF w = v THEN NotSet ELSE tlb[w]]

\* The page's entry, unless it is taken: E_MEMMAN_ENTRY_EXISTS.
SetPage ==
  /\ Walking({3})
  /\ IF Entry(mem, Here, HereIndex) = NotSet \/ call.override
     THEN /\ mem' = [mem EXCEPT ![Here][HereIndex] = call.frame]
          /\ asked' = [asked EXCEPT ![call.page] = call.frame]
          /\ InvalidatePage(call.page)
     ELSE UNCHANGED <<mem, asked, tlb>>
  /\ call' = None
  /\ UNCHANGED <<next, buffer, build, free, phase, stale>>

\* PagingUnmapPage: a null address is E_ARG_NULL, and an entry for frame 0 counts as none.
PagingUnmapPage ==
  /\ phase = "up" /\ call = None /\ Running
  /\ \E v \in Clients \ {<<0, 0, 0, 0>>} :
       /\ PagingVirtToPhys(mem, v) \notin {NotSet, 0}
       /\ mem' = [mem EXCEPT ![Table(mem, v, 3)][v[4]] = NotSet]
       /\ asked' = [asked EXCEPT ![v] = NotSet]
       /\ InvalidatePage(v)
  /\ UNCHANGED <<next, buffer, build, free, phase, call, stale>>

-----------------------------------------------------------------------------
(* The processor.                                                          *)

\* It may keep the translation of any mapped page at any time, and drop one.
Fill ==
  /\ Settled /\ Running
  /\ \E v \in DOMAIN tlb :
       /\ tlb[v] = NotSet /\ PagingVirtToPhys(mem, v) # NotSet
       /\ tlb' = [tlb EXCEPT ![v] = PagingVirtToPhys(mem, v)]
  /\ UNCHANGED <<mem, next, buffer, build, free, phase, call, asked, stale>>

Evict ==
  /\ Running
  /\ \E v \in DOMAIN tlb : tlb[v] # NotSet /\ tlb' = [tlb EXCEPT ![v] = NotSet]
  /\ UNCHANGED <<mem, next, buffer, build, free, phase, call, asked, stale>>

Next ==
  \/ CopyRoot \/ SetNewTable \/ MapImage \/ MapVideo \/ NextHeapTable \/ MapTables
  \/ PagingInitialize \/ Overrun
  \/ MapBitmap \/ Initialized
  \/ PagingMapPage \/ Descend \/ GetNewPage \/ OutOfMemory \/ Clear \/ Link \/ SetPage
  \/ PagingUnmapPage
  \/ Fill \/ Evict

Spec == Init /\ [][Next]_vars

-----------------------------------------------------------------------------
(* Properties.                                                             *)

TypeOK ==
  /\ mem \in [Frame -> [Index -> Frame \cup {NotSet, Device}]]
  /\ next \in Frame /\ buffer \in 0..Top
  /\ free \subseteq Frame
  /\ build \in [frame : 0..Top, table : 0..HeapTables, level : 0..4]
  /\ phase \in {"boot", "image", "temporary", "heap", "self", "bitmap", "up", "panic", "lost"}
  /\ call = None \/ call \in [page : Tracked, frame : Frame \cup {Device}, override : BOOLEAN,
                               level : 0..3, at : {"walk", "clear", "link"},
                               fresh : Frame \cup {NotSet}]
  /\ tlb \in [Clients \cup {Temp} -> Frame \cup {NotSet, Device}]
  /\ asked \in [Tracked -> Frame \cup {NotSet, Device}]
  /\ stale \in BOOLEAN

\* Between calls the tables say of every page what the last successful call asked: after
\* PagingInitialize the image and all the new tables stand at their kernel addresses and
\* low memory is gone, and no mapping is lost or appears with a new table.
TablesMatch ==
  Settled /\ call = None /\ ~stale =>
    \A v \in Tracked : PagingVirtToPhys(mem, v) = asked[v]

\* Between calls the processor reaches no frame through a page that was unmapped or mapped
\* anew since (the temporary page apart).
TLBAgrees ==
  call = None => \A v \in Clients : tlb[v] # NotSet => tlb[v] = asked[v]

\* The entries of the tables that lead to tables, the recursive one apart.
Links ==
  LET below(ts) == {l \in ts \X Index : Entry(mem, l[1], l[2]) # NotSet}
                     \ {<<PageDirectory, Recursive>>}
      to(ls) == {mem[l[1]][l[2]] : l \in ls}
      roots == below({PageDirectory})
      middle == below(to(roots))
  IN roots \cup middle \cup below(to(middle))

\* Every table has one entry that leads to it, PhysAlloc will not return it, and GetNewPage
\* does not clear it as if it were new: at boot its frames come from a g_LastUsed that
\* PagingInitialize has passed.
TablesApart ==
  Settled /\ ~stale =>
    LET tables == {mem[l[1]][l[2]] : l \in Links}
    IN /\ Cardinality(tables) = Cardinality(Links)
       /\ tables \cap (free \cup {PageDirectory}) = {}
       /\ call # None /\ call.at = "clear" => call.fresh \notin tables
       /\ Entry(mem, PageDirectory, Recursive) = PageDirectory
=============================================================================
