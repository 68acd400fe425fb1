--------------------------- MODULE BmpPageAllocator ---------------------------
(***************************************************************************)
(* The bitmap of physical pages                                            *)
(* (src/kernel/arch/x86_64/BmpPageAllocator.cpp): one bit per page, set    *)
(* when the page is not to be handed out.                                  *)
(*                                                                         *)
(* bits is the set of bits that are set.  The searches read and write past *)
(* the end of the bitmap, so it covers the storage behind it too: bits up  *)
(* to Window can be reached, a later or a negative one is not mapped and   *)
(* the access kills the kernel.  Every operation runs under s_Mutex on the *)
(* one processor started, and gives it back.                               *)
(***************************************************************************)
EXTENDS Integers, SequencesExt, FiniteSetsExt

CONSTANTS W,          \* bits of a dword_t
          BYTE,       \* bits of a byte
          PageBytes,  \* s_nSize, BLOCK_SIZE
          LargeSize,  \* 128: longer runs are looked for in whole dwords first
          Window,     \* bits that can be reached from s_pBmp
          Contents,   \* what the reachable storage may hold at first
          Maps,       \* the memory maps: sequences of [base, len, ram]
          LowMem,     \* <<LOW_MEM_START, LOW_MEM_LEN>>
          Kernel,     \* <<physStart, len>> of the kernel with the bitmap
          Modules,    \* whether the boot loader may have loaded a module
          Sizes       \* the page counts clients ask for

Frames == 0..(Window - 1)

ASSUME WidthAssumption ==
  /\ W \in Nat \ {0} /\ BYTE \in Nat \ {0} /\ PageBytes \in Nat \ {0}
  /\ Window \in Nat \ {0} /\ Window % W = 0
  /\ LargeSize \in Nat /\ LargeSize > W
ASSUME InputsAssumption ==
  /\ Contents \subseteq SUBSET Frames
  /\ Modules \subseteq BOOLEAN
  /\ Sizes \subseteq Nat

VARIABLES bits,    \* s_pBmp and what lies behind it
          used,    \* s_nUsed
          total,   \* s_nTotal
          booted,  \* s_bInitialized
          held,    \* the runs clients hold (history)
          reply,   \* result of the last operation
          faulted  \* the kernel is dead

vars == <<bits, used, total, booted, held, reply, faulted>>

NoFrame == -1
Fault == -2      \* the search left the reachable storage

Quiet == [op |-> "none", ok |-> TRUE, frame |-> NoFrame, size |-> 0]

Run(frame, n) == frame..(frame + n - 1)

-----------------------------------------------------------------------------
(* Initialize: the whole bitmap is set, then each region of the memory map *)
(* is cleared or set, in order.                                            *)

\* Pages of a region: both its start and its length are rounded down.
Region(addr, len) == Run(addr \div PageBytes, len \div PageBytes)

TotalBytes(map) ==
  FoldLeft(LAMBDA acc, e :
             [bytes |-> acc.bytes + e.len + (IF acc.next \in {0, e.base} THEN 0
                                             ELSE e.base - acc.next),
              next |-> e.base + e.len],
           [bytes |-> 0, next |-> 0], map).bytes

SetRegion(s, addr, len) == s \cup Region(addr, len)

\* "First block is always set."
UnsetRegion(s, addr, len) == (s \ Region(addr, len)) \cup {0}

\* The map's regions one after the other.
Regions(s, map) ==
  LET after[k \in 0..Len(map)] ==
        IF k = 0 THEN s
        ELSE IF map[k].ram THEN UnsetRegion(after[k - 1], map[k].base, map[k].len)
        ELSE SetRegion(after[k - 1], map[k].base, map[k].len)
  IN after[Len(map)]

\* The bits when the memory map has been gone through and s_nUsed is set to 0, ...
MapBits(s, map) ==
  Regions(s \cup 0..(BYTE * ((TotalBytes(map) \div PageBytes) \div BYTE) - 1), map)

\* ... and as Initialize leaves them.
InitialBits(s, map) ==
  SetRegion(UnsetRegion(MapBits(s, map), LowMem[1], LowMem[2]), Kernel[1], Kernel[2])

\* The machine's memory fits the storage that can be reached.
ASSUME MapsFitAssumption ==
  \A s \in Contents, map \in Maps :
    /\ MapBits(s, map) \subseteq Frames /\ InitialBits(s, map) \subseteq Frames
    /\ TotalBytes(map) \in Nat

\* RAM begins with a page, and so do low memory and the kernel; MemoryManager::Initialize
\* refuses a kernel that does not.  Initialize lets it end with a page.
ASSUME AlignedAssumption ==
  /\ LowMem \in Nat \X Nat /\ LowMem[1] % PageBytes = 0
  /\ Kernel \in Nat \X Nat /\ Kernel[1] % PageBytes = 0 /\ Kernel[2] % PageBytes = 0
  /\ \A map \in Maps :
       /\ map \in Seq([base : Nat, len : Nat, ram : BOOLEAN])
       /\ \A k \in DOMAIN map : map[k].ram => map[k].base % PageBytes = 0

\* The mask of a bit, which the search bit by bit adds to an index.
ASSUME MaskAssumption == \A j \in 0..(W - 1) : 2^j \in Nat

-----------------------------------------------------------------------------
(* The searches.                                                           *)

Dword(d) == (d * W)..(d * W + W - 1)
EmptyDword(d) == Dword(d) \cap bits = {}
FullDword(d) == Dword(d) \subseteq bits

\* The first bit of s that stops a run: a set one, or one out of reach.
Blockers(s) == {b \in s : b \in bits \/ b >= Window}
StopsAt(s) == Min(Blockers(s))

\* The bits of dword d that are clear, counted from its first.
ClearIn(d) == {j \in 0..(W - 1) : d * W + j \notin bits}

\* Mutant: a full dword ends the scan.
StopsAtFull ==
  LET scan[i \in 0..(Window \div W)] ==
        IF i >= total THEN NoFrame
        ELSE IF i * W >= Window THEN Fault
        ELSE IF FullDword(i) THEN NoFrame
        ELSE i * W + Min(ClearIn(i))
  IN scan[0]

\* FirstFree(): dword by dword, then bit by bit in the first that is not full.  The bound of
\* the loop is in pages but it steps by dwords.
FirstFreePage ==
  LET scan[i \in 0..(Window \div W)] ==
        IF i >= total THEN NoFrame
        ELSE IF i * W >= Window THEN Fault
        ELSE IF FullDword(i) THEN scan[i + 1]
        ELSE i * W + Min(ClearIn(i))
  IN scan[0]

\* Mutant: after a dword that is not empty the scan skips one more.
SkipsOneMore(size) ==
  LET scan[i \in 0..(2 * Window)] ==
        IF i >= total \div W THEN NoFrame
        ELSE IF ~EmptyDword(i) THEN scan[i + 2]
        ELSE IF Blockers(Run(i * W, size)) = {} THEN i * W
        ELSE IF StopsAt(Run(i * W, size)) >= Window THEN Fault
        ELSE scan[i + 1]
  IN scan[0]

\* The search in whole dwords: `needed` empty ones, then the remainder from bit 0 of the
\* next.  After a dword that is not empty the scan goes on behind it.
DwordScan(size) ==
  LET needed == size \div W
      scan[i \in 0..(Window \div W)] ==
        IF i >= total \div W THEN NoFrame
        ELSE IF i * W >= Window THEN Fault
        ELSE IF ~EmptyDword(i) THEN scan[i + 1]
        ELSE LET whole == Run(i * W, needed * W)
                 rest == Run((i + needed) * W, size % W)
             IN IF Blockers(whole \cup rest) = {} THEN i * W
                ELSE IF StopsAt(whole \cup rest) >= Window THEN Fault
                ELSE IF Blockers(whole) # {} THEN scan[(StopsAt(whole) \div W) + 1]
                ELSE scan[i + 1]
  IN scan[0]

\* The search bit by bit.  For a clear bit j of dword i it tests the run that starts 2^j
\* after the dword, the mask of the bit and not its index; a run cut short moves i to the
\* dword that holds the set bit, and j goes on from there.  The mask of the last bit of
\* a dword is negative and points far before the bitmap.
Probe(size) ==
  LET open(i) == {d \in i..((total \div W) - 1) : ~FullDword(d)}
      probe[at \in (0..(Window \div W)) \X (0..W)] ==
        LET i == at[1]
            j == at[2]
            run == Run(i * W + 2^j, size)
        IN IF i * W >= Window THEN Fault
           ELSE IF j = W
           THEN IF open(i + 1) = {} THEN NoFrame ELSE probe[<<Min(open(i + 1)), 0>>]
           ELSE IF i * W + j \in bits THEN probe[<<i, j + 1>>]
           ELSE IF j = W - 1 THEN Fault
           ELSE IF Blockers(run) = {} THEN i * W + j
           ELSE IF StopsAt(run) >= Window THEN Fault
           ELSE probe[<<StopsAt(run) \div W, j + 1>>]
  IN IF open(0) = {} THEN NoFrame ELSE probe[<<Min(open(0)), 0>>]

FirstFree(size) ==
  CASE size = 0 -> NoFrame
    [] size = 1 -> FirstFreePage
    [] size > LargeSize /\ DwordScan(size) # NoFrame -> DwordScan(size)
    [] OTHER -> Probe(size)

-----------------------------------------------------------------------------
Init ==
  /\ bits \in Contents
  /\ used = 0
  /\ total = 0
  /\ booted = FALSE
  /\ held = {}
  /\ reply = Quiet
  /\ faulted = FALSE

Initialize(map) ==
  /\ ~booted
  /\ booted' = TRUE
  /\ total' = TotalBytes(map) \div PageBytes
  /\ bits' = InitialBits(bits, map)
  /\ used' = Cardinality(InitialBits(bits, map)) - Cardinality(MapBits(bits, map))
  /\ reply' = [Quiet EXCEPT !.op = "Initialize"]
  /\ UNCHANGED <<held, faulted>>

\* A module's region is computed with virtual addresses: Set starts half a million bits
\* before the bitmap and a negative number of blocks is counted down.
InitializeWithModule ==
  /\ ~booted
  /\ faulted' = TRUE
  /\ UNCHANGED <<bits, used, total, booted, held, reply>>

\* Mutant: every bit set is counted, also one that was set before.
MarkUntested(run) ==
  /\ bits' = bits \cup run
  /\ used' = used + Cardinality(run)

\* Every bit is counted when it changes, and only then.
Mark(run) ==
  /\ bits' = bits \cup run
  /\ used' = used + Cardinality(run \ bits)
Clear(run) ==
  /\ bits' = bits \ run
  /\ used' = used - Cardinality(run \cap bits)

\* Mutant: the result of the search is not compared with -1.
AllocUnchecked(tnSize) ==
  LET frame == FirstFree(tnSize)
  IN /\ total - used >= tnSize
     /\ frame # Fault
     /\ Mark(Run(frame, tnSize))
     /\ held' = held \cup {<<frame, tnSize>>}
     /\ reply' = [op |-> "Alloc", ok |-> TRUE, frame |-> frame, size |-> tnSize]
     /\ UNCHANGED <<total, booted, faulted>>

\* The bits of a run can be set.
Reachable(frame, n) == frame \in Frames /\ Run(frame, n) \subseteq Frames

Alloc(tnSize) ==
  LET frame == FirstFree(tnSize)
  IN /\ total - used >= tnSize
     /\ Reachable(frame, tnSize)
     /\ Mark(Run(frame, tnSize))
     /\ held' = held \cup {<<frame, tnSize>>}
     /\ reply' = [op |-> "Alloc", ok |-> TRUE, frame |-> frame, size |-> tnSize]
     /\ UNCHANGED <<total, booted, faulted>>

AllocOutOfMemory(tnSize) ==
  /\ total - used < tnSize \/ FirstFree(tnSize) = NoFrame
  /\ reply' = [op |-> "Alloc", ok |-> FALSE, frame |-> NoFrame, size |-> tnSize]
  /\ UNCHANGED <<bits, used, total, booted, held, faulted>>

AllocFaults(tnSize) ==
  LET frame == FirstFree(tnSize)
  IN /\ total - used >= tnSize
     /\ frame # NoFrame /\ ~Reachable(frame, tnSize)
     /\ faulted' = TRUE
     /\ reply' = Quiet
     /\ UNCHANGED <<bits, used, total, booted, held>>

Free(run) ==
  /\ Clear(Run(run[1], run[2]))
  /\ held' = held \ {run}
  /\ reply' = [op |-> "Free", ok |-> TRUE, frame |-> run[1], size |-> run[2]]
  /\ UNCHANGED <<total, booted, faulted>>

Next ==
  /\ ~faulted
  /\ \/ \E map \in Maps, module \in Modules :
          IF module THEN InitializeWithModule ELSE Initialize(map)
     \/ booted /\ \E n \in Sizes : Alloc(n) \/ AllocOutOfMemory(n) \/ AllocFaults(n)
     \/ booted /\ \E run \in held : Free(run)

Spec == Init /\ [][Next]_vars

-----------------------------------------------------------------------------
TypeOK ==
  /\ bits \subseteq Frames
  /\ used \in -Window..Window
  /\ total \in Nat
  /\ booted \in BOOLEAN
  /\ held \subseteq Frames \X Nat
  /\ reply \in [op : {"none", "Initialize", "Alloc", "Free"}, ok : BOOLEAN,
                frame : Frames \cup {NoFrame}, size : Nat]
  /\ faulted \in BOOLEAN

\* Bit 0 stays set whatever is granted and freed, so that no grant has the address 0,
\* which PageAllocator returns when memory is out.
ZeroReserved == booted => 0 \in bits

\* s_nUsed follows the bits: what it misses after Initialize it misses for ever, and
\* nothing is added to that by overlapping grants or by freeing twice.
CountFollowsBits ==
  [][booted => used' - Cardinality(bits') = used - Cardinality(bits)]_vars

\* A page asked for alone is the first clear one, whatever dwords the scan goes through;
\* it is refused only when as many bits are set as the machine has pages, whatever was
\* granted twice or is missing from the count.
SinglesServed ==
  [][reply'.op = "Alloc" /\ reply'.size = 1 =>
       IF reply'.ok THEN reply'.frame \notin bits /\ 0..(reply'.frame - 1) \subseteq bits
       ELSE Cardinality(bits) >= total]_vars

\* The scan by dwords finds the first aligned run, in spite of what it skips.
DwordScanFindsFirst ==
  booted => \A n \in {m \in Sizes : m > LargeSize} :
    LET runs == {i \in 0..((total \div W) - 1) : Run(i * W, n) \cap bits = {}}
    IN DwordScan(n) \in {Fault} \cup (IF runs = {} THEN {NoFrame} ELSE {Min(runs) * W})

Bytes(frame) == Run(frame * PageBytes, PageBytes)

\* What Initialize leaves free is usable: each page lies in RAM of the map or in the low
\* memory, and none holds the kernel.
FreesOnlyRam ==
  reply.op = "Initialize" =>
    \A f \in Frames \ bits : f < BYTE * (total \div BYTE) =>
      /\ Bytes(f) \cap Run(Kernel[1], Kernel[2]) = {}
      /\ \/ Bytes(f) \subseteq Run(LowMem[1], LowMem[2])
         \/ \E map \in Maps : \E i \in DOMAIN map :
              map[i].ram /\ Bytes(f) \subseteq Run(map[i].base, map[i].len)

\* What the bitmap promises of itself.
BitmapSound == ZeroReserved /\ FreesOnlyRam /\ DwordScanFindsFirst

\* A page granted alone is a page of the machine: the search goes "from begin of bitmap to
\* the end".
SingleInBitmap ==
  [][reply'.op = "Alloc" /\ reply'.ok /\ reply'.size = 1 => reply'.frame < total]_vars

\* Every page of a grant was free ("Find number specified by `tnSize` of free page").
GrantsFresh ==
  [][reply'.op = "Alloc" /\ reply'.ok => Run(reply'.frame, reply'.size) \cap bits = {}]_vars

=============================================================================
