# A verification project for the QiOS kernel

QiOS is a small x86_64 kernel. Its loader enters `qkernel.cpp` on one processor
with interrupts off; the constructors set up physical memory, virtual memory and
the heap, and the machine halts. What the kernel owns of substance is its memory
management and the lock that all of it uses; around it stand the boot information,
logging with its formatter, the console, and drivers for timers that nothing calls
yet. Paths below are relative to the repository; `mm/` stands for
`src/kernel/mm/` and `x86_64/` for `src/kernel/arch/x86_64/`.

## 1. The system

| Component | State | Operations | Makes it correct |
|---|---|---|---|
| **Mutex** (`src/klib/Mutex/mutex.cpp`) | edit lock, depth, owner, "initialised" magic; one lock shared by all constructors | constructor, Acquire, TryAcquire, Release | updates of the fields never race; depth counts the holds; the edit lock always comes back |
| **BmpPageAllocator** (`x86_64/BmpPageAllocator.cpp`) | a bit per physical page, counters of used and total pages | Initialize from the memory map, Alloc, Free | only RAM is free; a grant was free; the count follows the bits; page 0 is never granted |
| **StackPageAllocator** (`x86_64/StackPageAllocator.cpp`) | a list of free frames kept in the free frames | constructor, Alloc, Free | every frame in one place; the list survives the re-entrant calls |
| **PageAllocator** (`mm/PageAllocator.cpp`) | none of its own | sends single pages to the stack, runs to the bitmap | a page goes back to where it can be granted again |
| **AddressPool** (`mm/AddressPool.cpp`) | list of address ranges, free or used | AddRange, Allocate (first fit, split), Free (merge), Find, ReleaseRanges, CloneRanges, Dump | pages are neither lost nor invented; grants do not overlap; the mutex comes back |
| **MemoryManager** (`mm/MemoryManager.cpp`) | the pool, whether the heap exists | VirtualAlloc, VirtualFree, PhysAlloc, PhysFree, SetupKernelHeap | what a client reads through its address is the frame it was granted |
| **Paging** (`x86_64/Paging.cpp`) | page tables, temporary mapping, TLB | PagingMapPage, PagingUnmapPage, PagingVirtToPhys, GetNewPage | a mapping is what its last user asked for |
| **KHeap** (`mm/KHeap.cpp`) | list of blocks, chunks in each, best bet, sums | Alloc, AllocInit, ReAlloc, Free, growth | chunks never overlap; books balance; no live buffer is handed out twice |
| **operator new** (`include/new`, `Global.cpp`) | a bump pointer behind the kernel image before the heap exists | new, delete | does not overwrite what is still read |
| **BootInfo, boot code** (`src/kernel/bootinfo.cpp`, `x86_64/loader.asm`, `qkernel.cpp`) | the tags passed, what was kept of each kind | the loader's tests, SetupLogging, BootInfoInit, two queries | the walk stays on tags, ends, and keeps what they say |
| **KTextMode** (`src/kernel/KTextMode.cpp`) | video memory, point, colour, hardware cursor | put characters and strings, scroll, position, clear, colours | the screen shows the last rows written |
| **Logger, SerialPort** (`src/kernel/Logger.cpp`, `system/SerialPort.cpp`) | level, sinks, "acquired" flag, port; the UART's FIFO | Debug, Info, Warn, Error, Lock, Unlock, settings, Write, Read | the lock comes back and the flag tells the truth; the FIFO is not overrun; printing ends |
| **klib formatting** (`src/klib/stdio/vsprintf.cpp`, `stdlib/*toa.cpp`, `string/`) | the buffer being filled | vsprintf and the conversions it calls | what is printed is what the documented tag means; the count is the length |
| **Processor, LinkedList** (`x86_64/Processor.cpp`, `include/LinkedList.hpp`) | list of processors, table of APIC ids | add, count, create the table | each processor is in the list once |
| **Local APIC, PIT** (`system/interrupts/LocalApic.cpp`, `x86_64/Pit.cpp`) | registers of both devices, the divisor | StartCounter, PrepareSleep, Sleep, LocalApicPrepare, LocalApicInitialize with the timer's calibration | a sleep lasts its span and ends; the period measured is what passed |

**Interactions.** MemoryManager holds an AddressPool, a PageAllocator and a
KHeap. PageAllocator forwards to the stack or the bitmap. They call each other
back: the stack maps its nodes at addresses of the pool, giving such an address
back asks PageAllocator to free the frame that is being granted; the heap grows
through VirtualAlloc, whose pool takes its list nodes from the heap that is full.
Every operation takes a `Mutex`, which is recursive, so that these re-entrant
calls run into half-finished operations of their own caller.

**Hard behaviours.** Re-entrancy (above); interleaving of processors inside
`Mutex`; 32-bit arithmetic on sizes of 64-bit areas; searches over bits and dwords
with three kinds of index; list nodes kept in the memory they describe; stale page
table entries and stale translations of them; flags read outside the mutex that guards
them; devices that run by themselves while the code polls them; early returns that leave a
mutex acquired; exhaustion that is not reported. There are no messages, crashes or
restarts: the kernel keeps nothing across a boot. The list by line is in `PROJECT.json`
(`hazards`).

## 2. The modules

**`Mutex`** has one action per access of shared memory, so that the calls of any
number of processors interleave: the compare-and-swap on `m_nLock` (`EditLock`), the
load of `m_nDepth` (`ReadDepth`), the update of depth and owner (`UpdateTryAcquire`,
`UpdateRelease`; nobody else can be between its accesses, which is what
`EditExclusion` checks), and the store that clears `m_nLock` (`EditUnlock`). The
owner is processor 0 whoever takes the mutex, as the code has it. `holds` is a
history variable. Before construction an object is zero-filled storage, and an
operation on it ends in `Error()`, which halts: the label "halted".

**`AddressPool`** is one action per operation and early return, each under the
pool's mutex; `lockDepth` is what a returned operation leaves on it. `Size` wraps
at `DWord` (2^32), addresses at `AddressSpace` (2^64), and `Remain` is the `int32_t`
of the code. An Allocate is one step, as if its list node came from memory at hand; what
happens when `new` re-enters the pool is in `KHeap`. **`PageLedger`** is its abstract specification: total pages, pages in
use, and how many the last request moved. `LedgerSpec` is the refinement, checked
as a property and proved; `moved` maps to the page count of the last reply. A page counts as
many times as ranges hold it: `PagesAt` and `UsedAt` are sums over the places of a list.

**`KHeap`** has blocks as records with their chunks in address order; a gap is
what the code computes from neighbouring headers. A search is the sequence of
blocks the code visits (`SearchOrder`, `Visited`), since the visits decide the next
best bet. A heap that grows asks VirtualAlloc, whose pool needs a list node when it splits a
range (`Splits`). The node comes from the blocks there are (`Grow`), or it needs a block of
its own. Then either no other range is free and large enough and the kernel dies
(`AllocFaults`), or the request waits while the node's block is cut from another range, whose
node may need a block in turn (`GrowNests`, with `depth` such requests inside each other).
The blocks arrive one by one, the innermost first (`NodeBlock`, `ClientBlock`), and each
is linked where the one before it was: that one is then out of the list, in `lost`, but still
counted and in use. A client's buffer remembers where its chunk is, whether `UNALIGN` will find
it (`found`), and whether its `Requested` field was written.

**`BmpPageAllocator`** has the bitmap as a set of bits, with the storage behind it up
to `Window`, because the searches run past its end; an access beyond is a fault.
`FirstFreePage` is `FirstFree()`, dword by dword up to as many dwords as there are pages;
`DwordScan` and `Probe` are the two loops of `FirstFree(int_t)`. All have their indices
as the code advances them, written as recursive functions on dwords and on pairs of a dword
and a bit. `InitialBits` is `Initialize`, region by region (`Regions`); `MapBits` is what it has set
when it sets `s_nUsed` to 0.

**`MemoryManager`** composes the rest: one record `mm` holds the pool (with the
operators of `AddressPool`, by `INSTANCE`), the page table entries of the pool's
area, the bitmap's free frames, the top of the stack and the contents of frames.
The code's nested calls are composed operators on that record (`Popped` calls
`VirtFreed`, which calls `PageFree`, which calls `StackFree`, which calls
`PagingMapPage`). Where the page table is missing, `PagingMapPage` calls
`PageAlloc` for one in the middle of all that, hence the RECURSIVE declaration; the
tables in `Gaps` may be missing when clients begin. The bitmap is taken
at its promise, a run of free frames or an error, so that what goes wrong in
`BmpPageAllocator` is not counted twice. The actions are the operations of the
class; after `SetupKernelHeap` the kernel halts. The model also ends (`torn`) where a
table was made while the stack was empty or held a run, as section 5 explains.

**`KTextMode`** has the screen and two rows of memory behind it, which
`SetPosition` can reach. `Put` is `TextModePutChar` without the cursor: draw, move,
scroll. `PutString` is a step for each character (`PutNext`), and `todo` what it has still to
print. A colour is the set of its bits, since setting a colour adds bits.

**`Paging`** has all four levels of tables as the contents of frames, from those the
loader leaves (`Init`) to the calls of `PagingMapPage`. PagingInitialize sets one table
(`SetNewTable`) or one entry a step: `CopyRoot`, the phases `image`, `temporary`, `heap` and
`self` for its loops, with the place in the loop in `build`, and the action `PagingInitialize`
for its end, where the copy of the root is copied back. `buffer` is where its tables end, `next`
where `g_LastUsed` stays: at the copy. Where memory, or the gigabyte of kernel addresses, is too
small the model ends in "lost" (`Overrun`), for the code then writes where nothing is known.
`PagingMapPage` goes one level a step. `GetNewPage` points the
temporary page at the new frame and `Clear` writes through it, by a TLB that may fill
(`Fill`) or drop (`Evict`) a translation at any time. Every table is read through the
recursive entry, which `Table` follows from the root. `asked` is a history of what
successful calls asked. A clear that goes through an old translation sets `stale`, and the
model stops there: which table is then ruined depends on nothing the code controls.

**`Logger`** is `Logger` and `SerialPort` together, one step per access of what
processors share: `LockTest`, `LockAcquire` and `LockMark` for the flag and the mutex,
`Poll` and `Out` for each byte. The two mutexes are their depths, since `Mutex` shows
(`NeverRefused`) that `Acquire` never waits. A message is the number vsprintf returned,
a length or -2. `crowded` is a history: a processor entered Lock or Unlock while another was
inside. Processors may call for ever; the one bound is on how deep `s_Mutex` may be left
(`BelowBound`, `MaxDepth`). `Transmit` and `Receive` are the UART.

**`Format`** is vsprintf: one action for a run of regular characters, one for a tag, one
for the return. A format is built from the parts of the documented prototype; with
`fill`, one more character stands where each of the two probes swallows one. `DocText` is
what the documentation at `vsprintf.cpp:10-89` says of a tag, with no width once there is a
precision. The
numerals the code makes by division and reversal are compared with `Numeral`, which
is defined by their value.

**`BootInfo`** goes from the loader's tests to the end of `BootInfoInit`, one action per
tag. A tag's data is what the properties tell apart. `operator new` is `Allocating`: it
moves `g_LastUsed`, and when that passes the tag being read the model ends in "lost".

**`Processor`** has the list and the APIC id table, and the two counters that the
calibration compares: `PitClock` and `ApicClock` tick by themselves between the port
accesses of `Sleep` (`SendLow`, `SendHigh`, `GateOff`, `GateOn`, `Poll`). `Sent` is
the PIT's protocol of two bytes. `configured`, `counted` and `during` are histories.

The `MC` modules hold the definitions a cfg cannot write down (sequences, records,
sets computed from others); `Mutex`, `KHeap` and `Logger` need none. The `Proofs` modules hold
theorems.

## 3. The runs

Every run passes; section 5 lists configurations that refute a claim. A property with `Sound` in its name is a conjunction; its parts are in
parentheses.

| Run | Bounds | What it shows |
|---|---|---|
| `mutex` | 3 processors, each nesting 2 deep | `MutexSound` (`EditExclusion`, `DepthCountsHolds`: no lost update, `OwnerIffHeld`), `NeverRefused`; `EditLockReleased` under fairness |
| `pool` | 2 pools (symmetric), at most 3 ranges each, a wrap of 8 pages, an area of two wraps | `LedgerSpec`, the books of `PageLedger`; `AlignedBases` through wrapped splits; `PoolSteps` (`GrantsKept`: a range in use keeps its place, base and pages through all calls of others, `LockReturned`: the mutex comes back on every path but two) |
| `heap` | 3 blocks, two request sizes and the size of a pool node, a root of 20 and blocks of 26 usable bytes, so that a block can have space enough but in pieces; growing with a request nested in it | `HeapSound` (`ChunksInOrder`, `BooksBalance`, `BuffersSafe`, `BestBetExists`, `OnlyRootEmpty`, `OrphansPinned`: a block out of the list is never given back); `GrowsOnlyWhenFull` |
| `heap_padded` | 2 blocks, odd sizes, ReAlloc, AllocInit, unwritten storage of two values | `PaddedSound` (`BooksBalance`, `BuffersSafe`, `RequestedKept`, `NothingLeaks`: only padded chunks do) |
| `bitmap` | 15 pages, dwords of 4 bits, one dword behind the bitmap; requests of 0, 1, 3 (bit search) and 6 (dword search) pages | `BitmapSound` (`ZeroReserved`, `FreesOnlyRam`: what Initialize leaves free is RAM without the kernel, `DwordScanFindsFirst`), `CountFollowsBits`, `SinglesServed`: a page asked for alone is the first clear one, and refused only when as many bits are set as there are pages |
| `memory` | 7 frames, 7 pages of addresses in 4 page tables, of which any of three may be missing, refills of 2 and 3 frames | `MemorySound` (`StackSound`, `FramesConserved`, `MappedAsGranted`, `FreeUnmapped`, `OneAddressLostPerFrame`) |
| `text` | 3 rows of 2 cells, 2 glyphs, 2 colours | `ScreenSound` (`ScreenShowsLastRows`, `StaysOnScreen`); `WritingComesBack`: a position past the edge is left with the next write |
| `paging` | 5 entries a table, 20 frames, images of 2, 3, 6 and 12 frames, three client pages, two of them behind one missing table | `TablesMatch`: nothing is mapped but what was asked; `TLBAgrees`; `TablesApart`: no frame is a table twice, or a table and free |
| `log` | 2 processors that call without end, messages of 2 bytes, a FIFO of 2 | `LockSound` (`QuietUnlocked`: with nobody inside the flag is clear and the port's mutex free, and `s_Mutex` too unless calls overlapped; `LockAgrees`), `NoOverrun`; `CallsEnd` under fairness: a call ends once the others make no new ones |
| `format` | every combination of 5 flags or none, 3 widths, 3 precisions, 3 lengths, 6 specifiers; ints of 8 bits, 3 values; clean and used buffers | `OutputRight` (`FilledAsDocumented`, `CountIsLength`), each with the exceptions it names |
| `bootinfo` | every list of up to three tags of 15, at five places in memory | `InfoMatches`, `GapSuffices`; `WalkEnds` under fairness |
| `processor` | counters of 3 and 11 ticks, spans below, at and above the limits, four frequencies, 2 processors | `SleptFull`, `Calibrated`; `SleepEnds` under fairness |

**Why the bounds are enough.** Three processors are the fewest where one can be
overtaken while two others exchange the lock; two nested holds tell "last" from "not
last". Areas of two 32-bit wraps make `Size` zero, as the kernel's 2^7 wraps do. Two
heap blocks tell the root from the rest, a third lets the heap grow while a best bet
lies in the middle. The bitmap has a partial page next to reserved memory, one next
to a hole, a used dword before a free run, and storage behind the end; contents of
that storage are tried all clear and all set. Seven frames hold the first run, a
refill and a run of a client at once, and seven addresses let the pool be used up. The
addresses the pool grants jump, by the length of the rest, so that seven pages reach into four
tables; with any of three missing, tables are made from stacks of one node and of several,
and two in one call.
In `pool`, `MaxRanges` ends growth: an Allocate that could split is not taken
with three ranges in a pool; `MaxLocks` lets Dump of an empty pool leak one hold. Five
entries a table leave the root its three special entries and two others. Of the images one
lets the bitmap need a table that is missing, one does not, one leaves no room for the bitmap
and one none for the tables; with them the image, the new tables and the bitmap cross a
table's end, and a clear of the temporary page may follow another whose translation may
still be held. Two processors are enough for every
order of the flag and the mutex of `Logger`, and nothing bounds how often they call. A message
that runs through memory faults at once there (`MappedBytes`), and a level is set to what it
is: which messages print is free in any case. Three tags are enough for one
kind to come twice with another between. The APIC timer's 11 ticks are fewer than a
sleep may last, so that it runs out. `MaxWindows` bounds the calls of LocalApicPrepare;
`MaxDepth` how deep the logger's mutex may be when a call of Lock begins, for overlapping calls
can leave it deeper each time.

**Fairness.** Four runs have a liveness property. In `mutex` and `log`, a processor inside an
operation keeps executing, for interrupts are off and there is no scheduler: weak
fairness of each processor's `Step`. Nothing is assumed of who wins the
compare-and-swap, so no property says that a given processor gets the lock, which the
code does not promise; nor is a processor assumed to call anything. `log` also assumes that
the UART sends what it holds (`Transmit`), not that anything is ever received: `CallsEnd`
leaves calls of Read out. It also takes the other processors to stop calling at some point
(`OthersStop`), without which a call need not end (`LoggerStarved.cfg`, section 5). In `bootinfo` the one processor goes on, in `processor` too, and
the PIT's clock ticks while it counts (`PitClock`); the APIC's need not.

**Deadlock** is not checked: `Error()`, a panic, a read through a null pointer and the
halt after set-up all stop the kernel for good; a call of vsprintf and the boot end;
clients may stop calling.

## 4. What is proved

All proofs are checked by TLAPS, for every value of the constants under the named
assumptions of the modules.

* `MutexProofs`: `FieldsAreSound` (the property `MutexSound`, from `EditExclusionHolds`,
  `DepthIsExact` and `OwnerIsExact`), `TypeCorrect` and `NobodyIsRefused`, for any finite set
  of processors and any nesting. The invariant
  `IInv` adds to the properties what makes them inductive: what a processor loaded
  inside the edit section is still the depth (`SeenIsCurrent`; without it the update
  could store anything), clients release what they hold until the update uses it
  (`Discipline`), one processor constructs (`OneConstructor`) and nobody is inside
  before that (`BeforeConstruction`). `DepthCountsHolds` is a cardinality of tokens;
  two lemmas say that a grant adds one and a release takes one. It needs
  `CPUsAssumption` (finitely many processors) and `MaxHoldsAssumption`.
* `AddressPoolProofs`: `BasesStayAligned`, `PoolTypeCorrect`, `MutexComesBack` and
  `PoolStepsHold` (the property `PoolSteps`, with `GrantsStay` as the other half), for every
  page size above 1, every wrap that is a multiple of it and every area. The invariant
  `ListsAligned` is that every list is a sequence of typed, aligned ranges. The
  arithmetic is in lemmas about multiples and remainders; from them follows that
  `RangeTail` is never a multiple of the page size, that therefore `Merge` is the
  identity on such lists, and that a split inserts an aligned range. `ListStep`
  collects what each action does to the ranges of a list: a split puts one behind a range that
  was free, and everything behind it moves up by one place, which is what `GrantsStay` allows. `FreeBasesAssumption` says that the
  addresses clients give to Free are typed.
  `PoolKeepsLedger` is the refinement of `PageLedger`: the initial pools are an initial ledger,
  and each operation moves exactly the pages the ledger says. `ListsModest` is what it needs
  besides alignment: a list's pages fit the signed 32 bits in which `Remain` and the page
  counts are kept (`AreaPagesAssumption`: an area has at most half of 2^32 pages, where the
  kernel's only one has 2^27). A split is then an exchange of one summand for two, with lemmas
  about sums over the places of a sequence.
* `KHeapProofs`: `HeapTypeCorrect`, `HeapIsSound`, `PaddedIsSound` and `GrowsWhenFull`, for
  every layout, number of blocks and size, and growing nested to any depth. The invariant is
  `Right(heap, live, {})`, with `GrowingRight` for a request that waits. The parts of `Right`
  say that the links make a list of distinct blocks that begins at the root; that in each block
  the chunks lie in order and within its bytes and the block's sums are those of its
  chunks; that the heap's sums are those of its blocks; and that every held buffer is in one
  chunk, which no other buffer has and which is as long as the buffer needs. Sums and buffers
  are about all blocks that exist, those out of the list included; `Settled` says why none of
  these is ever given back, where unlinking it would cut the list: a node of the pool is in it,
  which nobody frees, or it is empty for good. `GrowingRight` says of a request that waits that the
  blocks it searched are still linked and still have no gap for it (`NoGap`), that what lies
  behind them in the list is settled (`TailSettled`), since its block takes their link, and that
  the buffer ReAlloc will free is held. The last argument
  is the set of blocks that may be empty: Free empties a block before it takes it out of the
  list, so that between the two the invariant holds but for that block. An operation is then a
  chain of heaps that are `Right`, one lemma for each function of the code. The visits of a
  search are distinct linked blocks, all of them where it fails, wherever it starts
  (`GrowsWhenFull`).
* `BmpPageAllocatorProofs`: `BitmapTypeCorrect`, `BitmapIsSound`, `SinglesAreServed` and
  `CountIsExact`, for every dword width, storage, memory map and request. The searches and the
  way through the memory map are recursive functions. Whatever a step of a search reads of the
  bitmap, the next is at a later dword or bit (`ScanStep`, `ProbeStep`); so the points of a
  search can be ranked, and on ranks two lemmas are proved once: a recursion that only looks at
  lower ranks has a solution (`Solvable`), and a set that holds a point whenever it holds those
  below it holds them all (`ByRank`). With them `ScanIsRight` says that from a dword on the scan
  returns the first run, in spite of its jumps, `ProbeFindsClear` that the bit search returns a
  clear bit, `FirstFreePageIsFirst` that the search for a single page passes full dwords only, and
  `RamIsClear` that a page which the map leaves clear is a page of one of its RAM
  regions. That such a page lies in the region whole (`RegionHoldsPages`) needs what
  `AlignedAssumption` states: the start of a region is rounded down, so RAM has to begin with a
  page, as the kernel does (`MemoryManager.cpp:94` refuses another; `Initialize` lets it end
  with a page) and as boot loaders report it; nothing is assumed about where RAM ends, nor about
  the other regions. `IInv` adds that bit 0 is set and no client holds page 0, for only so does
  no Free clear it, and that the bits not counted (`Missed`) are at most all there are.
  `MapsFitAssumption` says that the memory the maps describe lies in the storage,
  `MaskAssumption` that powers of two are numbers, which the provers do not know.
* `KTextModeProofs`: `ScreenTypeCorrect`, `ScreenIsSound` and `WritingReturns`, for every width,
  tab stop and text, and every height of at least 3. `IInv` says of the history that it has as
  many rows as the screen. A character moves the point within its row or to the
  beginning of the next (`AfterIs`), so that on the screen the scroll moves it up by one row at
  most, which is when blanking a single row is enough; after SetPosition it may be three, and
  then only `WritingComesBack` is claimed. The arithmetic is that a position is a row and a
  column in one way only.
* `LoggerProofs`: `LoggerTypeCorrect`, `LockIsSound` and `FifoNotOverrun`, under
  `LoggerAssumption`: finitely many processors, no more than the FIFO has places. The last is
  about a check made outside any lock: the port's mutex excludes nobody. It holds because a
  processor that saw the FIFO empty has one byte to write before it looks again, so what is in
  the FIFO and those about to write (`RoomForAll`) never outnumber the processors.
  `LockAgrees` needs that as long as calls of Lock and Unlock did not overlap, at most one
  processor is between the flag and the mutex, and that where it is says what both hold
  (`OneInLock`); that the flag is clear at rest needs that whoever is inside Lock owes an Unlock
  (`LockersOwe`, `AcquiredIsOwed`), and that `s_Mutex` is free follows from the two only as long
  as calls did not overlap.
* `ProcessorProofs`: `ProcessorTypeCorrect`, `CalibrationHolds` and `SleepsAreFull`, for
  every span, frequency, longest count and largest APIC count. For a Sleep the invariant
  `Programmed` says where its two bytes are: until the second byte is
  sent counter 2 is stopped and its output down, and from then on the count left and
  the counts counted make up the span. For the calibration the timer stays masked between
  arming and the final write (`MaskedMeanwhile`), and what it has lost is at least what passed
  in the poll (`TicksLost`). `SmallDivisor` is there for the bytes: the divisor, whatever the
  span, is 0 or 1.

* `PagingProofs`: `TablesAreRight`, `TranslationsAreRight`, `TablesStayApart` and
  `PagingTypeCorrect`, for every size of a table from 4 entries on, every amount of memory, every
  image and heap, and any client pages and frames, through every step of PagingInitialize and of
  the calls after it. They follow from `TreeOfTables`. The tables are a tree (`Tree`) when walks
  that end at the same table have the same length and took the same entries. That is what makes
  a write local: an entry that is set changes the walks that share it and no others (`WalkAfter`),
  and where it leads to a frame that was no table, emptied before, the tables stay a tree
  (`TreeAfter`); writes to other frames change no walk (`WalksKept`). `IInv` has a part for each
  stage. In PagingInitialize, all tables lie between the copy of the root and `buffer` (`Grown`),
  where the code sets a table unasked there is none (`Vacant`), and what is mapped is what its
  loops have gone through (`MappedSoFar`). Afterwards every page reads what was asked also in the
  middle of a call (`Matching`), which has come down a walk that exists and whose new frame is no
  table yet (`CallOnTrack`). Between the two stands the bitmap (`BitmapOnTrack`): the frame at
  `g_LastUsed` is the copy of the root, which nothing uses any more, but the frame behind it is a
  table. So the one table that GetNewPage may make before MMHasInitialized is right and a second
  would not be. The hypothesis `BitmapPages <= Fan` says there is no second: the bitmap is mapped
  behind tables that are mapped themselves, and its pages reach into one further table at most
  (`NearTables`). The code's bitmap has 512 pages, the entries of a table, at 64 GiB of memory.
  For larger ones the theorems fail, as section 5 shows. Nothing is assumed of how the TLB
  behaves, and nothing claimed after a clear went through an old translation (`stale`).

**Only model-checked.** The liveness properties `EditLockReleased`, `CallsEnd`, `WalkEnds`,
`SleepEnds`. The properties of `MemoryManager`, `Format` and `BootInfo`. `MemoryManager` recurses
through operators (`PagingMapPage` asks for a table, which calls it again), for which the provers
have no means; what `Format` says of numerals is about all digits of a number; `BootInfo`
has no proof yet.

## 5. Where the code differs from what it says

What the code is expected to do and does not is refuted by configurations that are kept beside
the runs. Each ends in a counterexample, `tlc -config X.cfg M`. Where a comment of the code
makes the claim, it is quoted.

| Configuration, module | Violated | What the code does |
|---|---|---|
| `MCAddressPoolDisjoint.cfg`, `MCAddressPool` | `GrantsDisjoint`: "Allocate new address range" (`AddressPool.hpp:74`) | `AddressRange::Size()` multiplies in 32 bits; the kernel's pool has 2^27 pages, so the rest of its first split starts at the base of the grant. Even without the wrap the rest would start at the end of the whole range, because `Tail()` is read before the range is shortened (`AddressPool.cpp:201`) |
| `MCAddressPoolMerge.cfg`, `MCAddressPool` | `MergesContiguous`: "Merge contiguos ranges" (`AddressPool.hpp:70`) | `Merge` compares a range's last byte with the next base (`AddressPool.cpp:155`), so that on aligned ranges it never merges |
| `KHeapGrow.cfg`, `KHeap` | `Extendable`: "32 MiB Heap, extendable" (`MemoryManager.cpp:39`) | the pool's list node comes from the heap that is full; where the pool has no second range for the node's block, it reads through null |
| `KHeapOrphan.cfg`, `KHeap` | `NoneOrphaned`: "Create a new HeapBlock Next to this one" (`KHeap.cpp:207`) | where it has one, the nested call links its block at `block->Next` and the assignment of the outer call overwrites that (`KHeap.cpp:208`, `364`). The block stays counted and holds the pool's node, but no search finds it |
| `MCMemoryManagerStale.cfg`, `MCMemoryManager` | `MappedAsGranted` | `VirtualFree` leaves the mapping, `PagingMapPage` does not override, nobody looks at the result. `FreeUnmapped` shows why it does not happen with single pages: each frame of the stack loses its address for ever (`OneAddressLostPerFrame`), so no address is used twice |
| `MCMemoryManagerBoot.cfg`, `MCMemoryManager` | `HeapBacked`: "Map to 32 MiB to Virtual Address" (`MemoryManager.cpp:47`) | the heap's area is not taken out of the pool, so that the heap's root block overwrites the stack's first node |
| `MCMemoryManagerClean.cfg`, `MCMemoryManager` | `GrantsClean`: "Clean the page so content from other process doesn't retain" (`StackPageAllocator.cpp:94`) | the frame is cleared, then pushed again by `VirtualFree` of its node's address, which writes a list header into it, and the push is undone by the assignments that follow |
| `MCMemoryManagerTable.cfg`, `MCMemoryManager` | `TablesOwned` | `GetNewPage` calls `PhysAlloc` while the stack is being popped (`Paging.cpp:71`). Granting a frame of a run maps the next one at a new address; if that needs a table, the top node is the undone push of the frame being granted, and the same frame becomes the table and goes to the client. In the same way a table may be taken twice in one call, and cleared after the top node was entered in it, so that the stack's top is not mapped. `MemorySound` shows that nothing of this happens while every node of the stack is a single frame |
| `MCPagingBitmap.cfg`, `MCPaging` | `TablesApart` | `PagingInitialize` leaves `g_LastUsed` at its copy of the root, with its other tables behind. A bitmap that reaches into two missing tables lets `GetNewPage` take the copy for the first and then the kernel's own upper table, which it clears (`Paging.cpp:66`). With a bitmap of at most as many pages as a table has entries, memory up to 64 GiB, `TablesStayApart` is proved |
| `MCBmpPageAllocatorFresh.cfg`, `MCBmpPageAllocator` | `GrantsFresh`: "Find number specified by `tnSize` of free page" (`BmpPageAllocator.cpp:87`) | the bit search adds the mask of a bit instead of its index, and tests other bits than it grants |
| `MCBmpPageAllocatorEnd.cfg`, `MCBmpPageAllocator` | `SingleInBitmap`: "Find a free page by traversing from begin of bitmap to the end" (`BmpPageAllocator.cpp:68`) | `FirstFree()` counts dwords up to a number of pages, and `s_nUsed`, which misses the pages set before its reset, lets a machine in full use be searched: a page behind the bitmap is granted |
| `MCFormatTags.cfg`, `MCFormat` | `PrototypeUnderstood`: `%[flags][width][.precision][length]specifier` (`vsprintf.cpp:19`) | the tests for a flag and for a length use `*ptr++`, so that where there is none a character of the tag is swallowed, and most such tags end in -2 |
| `MCFormatWidth.cfg`, `MCFormat` | `WidthIgnored`: "If precision has been specified, `Width` will be ignored" (`vsprintf.cpp:74`) | the field is padded to its width all the same |
| `MCFormatBuffer.cfg`, `MCFormat` | `StoredInBuffer`: "the array of char elements where the resulting string is to be stored" (`vsprintf.cpp:13`) | a number is appended with `strcat` to whatever string the buffer held there; an empty string stores not even its end |
| `LoggerLeft.cfg`, `Logger` | `NothingLeftLocked` | two calls of Lock may both see `m_bAcquired` clear and acquire; the first Unlock clears the flag, the second sees it clear and returns, and `s_Mutex` stays acquired for ever (`Logger.cpp:126-143`) |
| `LoggerHeld.cfg`, `Logger` | `LockKept` | a processor that finds `m_bAcquired` set prints, or goes on, without the mutex, and its Unlock releases the other one's |
| `LoggerStarved.cfg`, `Logger` | `WaitsWhileFull`: "Block until buffer is not full" (`SerialPort.cpp:81`) | Write waits for an empty transmitter, and the mutex around it excludes nobody: a processor may wait for ever while another one fills the buffer each time it is empty |

Others are visible in properties that hold, or in the exceptions they name:

* the mutex's owner is a constant, so that it excludes nobody (`NeverRefused`);
* `UNALIGN` reads the padding from where `HEAP_ALIGN` did not write it, so Free ignores a
  padded buffer (`NothingLeaks` is restricted to the others), and `Requested` of a
  block's first chunk is never written (`RequestedKept`);
* Dump of an empty pool keeps the mutex (`LockReturned`);
* `SetPosition` lets the point lie behind the screen (`StaysOnScreen` holds until then),
  setting a colour can only add bits, and `TextModePutChar` drops the character 126;
* of vsprintf, besides what the table says, signs and prefixes in a field, digits and lengths
  come out otherwise than documented: the exceptions of `OutputRight` (`Excepted`,
  `DigitsEarly`, `PrefixInField`, with `WidthKept` and `BufferRead` for what the table says);
* `m_bAcquired` of the logger is read before the mutex is taken: `LockAgrees`, and that
  `s_Mutex` is free at rest, hold only while calls do not overlap (`crowded`);
* `GetNewPage` changes the temporary page without invalidating its translation
  (`Paging.cpp:77`) and then clears through it, so that it may clear the table it made
  before. The model stops there (`stale`), and the properties speak of what comes before;
* `StartCounter` passes the divisor as the counter and 0 as the byte, so that a
  byte may reach counter 2 and a later Sleep wait for ever: `SleepEnds` is about Sleeps
  before that (`configured`).

And some only in definitions:

* any boot module is fatal in `Initialize` of the bitmap (`InitializeWithModule`); an
  exhausted pool dereferences null (`AllocateExhausted`).
* A message whose tag vsprintf does not know gets the length -2; the serial port then writes
  through memory until it faults (`Log`, `faulted`). So a boot module stops the kernel
  (its line prints `%s`, a tag without a flag), and so would `BmpPageAllocator.cpp:241`
  (`0x%x KiB`); the modules of memory, processors and timers take calls of the logger to return.
  Three of them would not where the level prints: the warning of `LocalApicPrepare` (an address
  other than the default, `LocalApic.cpp:24`) and that of `PrepareSleep` (a span above 54000,
  `Pit.cpp:84`) end in -2, and the line of `ProcessorAdd` (`Processor.cpp:66`) is read on behind
  its end. A level prints when it
  lies below the logger's.
* `BootInfoInit` never sets `s_aMemMap`, the tests for null in `KernelMain` cannot
  fail, and `GetBasicMemInfo` is null without its tag.
* The processor list stays empty, because `ProcessorAdd` turns away whom it did not find; its
  size is read before there is a list; `LocalApicWaitForIcrSend` never waits. PrepareSleep's
  divisor is 0 for every span above a microsecond, so that the calibrating 10 ms are the
  longest count, 55 ms. A span of 0 and a frequency that is a multiple of 65536 divide by zero.

## 6. What is not modelled, and why

* Data the properties do not tell apart: range flags, error counters, contents of
  buffers, log texts, flags of page table entries.
* The upper levels of the page tables in `MemoryManager`, which has the last one;
  `Paging` has all, and takes frames from a set. In the kernel a new address, which lies
  some 4 GiB behind the one before, needs two tables at once.
* `PageAllocator`'s queries; one of them returns with its mutex acquired.
* In `KHeap`, VirtualAlloc returns fresh memory or dies; in `MemoryManager`, the pool's
  area is smaller than the 32-bit wrap, and a count of pages is passed on unchanged, where
  `MemoryManager.cpp:29-35` multiplies and divides in 32 bits. They set aside findings that
  other modules show.
* In `AddressPool` and `MemoryManager`, a node of the pool's list is there at once. In the code
  its `new` may grow the heap and call Allocate on the same pool, after the range is marked
  used and before its rest is in the list: the nested call does not find the rest, which
  is why it needs another range. `KHeap` has this order.
* In `Paging`, the call of PhysAlloc inside GetNewPage takes a frame and maps nothing;
  `MemoryManager` has what it maps on the way, with tables of one level.
* `PhysFree` and `Free` of what was not granted: callers pass what they hold.
* `SerialPort::SetPort` and `SetBaudRate`, `BootInfoDebugPrint`, `ExtractFrameBuffer` and
  `LinkedList::Remove`, which nothing calls; `ProcessorGetCurrentId`, which reads a
  table that is never filled; CPUID, MSR and SSE accesses and the vendor's text, which are
  single instructions and layout.
* The string functions of klib that copy and compare are used at their promise.
* Components with status `not_modelled` in `PROJECT.json`: headers and build files have no
  state, entry code none that outlives it.

## 7. Plan

Done: `Mutex`, `AddressPool` refining `PageLedger`, `KHeap`, `BmpPageAllocator`,
`MemoryManager`, `KTextMode`, `Paging`, `Logger`, `BootInfo`, `Processor`, `Format`, and the
proofs of section 4. Left, in this order:

1. Proofs about `BootInfo`.
2. All four levels in `MemoryManager`.
3. The queries of `PageAllocator`, with the mutex one of them keeps.
4. An abstract log, a sequence of whole messages, that `Logger` implements where one
   processor prints at a time.
