----------------------------- MODULE AddressPool -----------------------------
(***************************************************************************)
(* The pool of virtual address ranges (src/kernel/mm/AddressPool.cpp): a   *)
(* list of ranges, each free or used, granted first fit and split.         *)
(*                                                                         *)
(* A range counts its pages in 32 bits and the size in bytes is a product  *)
(* of two 32-bit numbers, so it wraps at DWord; addresses wrap at          *)
(* AddressSpace.  An operation runs under the pool's recursive mutex on    *)
(* the one processor the kernel starts, so it is one step; lockDepth keeps *)
(* what it leaves on that mutex.  The list node of a split is taken with   *)
(* `new` after the range was marked used: the heap may then ask the pool   *)
(* for another range before the node is inserted.  That grant finds this   *)
(* range used and only touches another one; it is left out here, and KHeap *)
(* has what it does to the heap.                                           *)
(***************************************************************************)
EXTENDS Integers, SequencesExt, FiniteSetsExt

CONSTANTS Pools,         \* the pools of the system
          PageSize,      \* bytes of a page
          DWord,         \* 2^32 in the code
          AddressSpace,  \* 2^64 in the code
          Areas,         \* <<first, last>> byte of what may be given to AddRange
          PageCounts,    \* the page counts asked of Allocate
          FreeBases,     \* the addresses passed to Free and Find
          MaxRanges,     \* bound: ranges in a pool
          MaxLocks       \* bound: unbalanced Acquires of a pool's mutex

ASSUME PageSizeAssumption ==
  /\ PageSize \in Nat /\ PageSize > 1
  /\ DWord \in Nat \ {0} /\ DWord % PageSize = 0
  /\ AddressSpace \in Nat \ {0} /\ AddressSpace % DWord = 0
ASSUME AreasAssumption ==
  /\ Areas \subseteq Nat \X Nat
  /\ \A a \in Areas : a[1] <= a[2] /\ a[2] < AddressSpace
  /\ PageCounts \subseteq 0..(DWord - 1)
ASSUME FreeBasesAssumption == FreeBases \subseteq Nat
ASSUME BoundsAssumption == MaxRanges \in Nat /\ MaxLocks \in Nat

VARIABLES ranges,     \* m_pFirst and the Next links: the list of each pool
          lockDepth,  \* Acquires of m_pMutex a returned operation has left on it
          reply,      \* result of the last operation
          faulted     \* the kernel dereferenced a null pointer and is dead

vars == <<ranges, lockDepth, reply, faulted>>

Operations == {"none", "AddRange", "Allocate", "Free", "Find", "ReleaseRanges", "CloneRanges",
               "Dump"}
Codes == {"S_OK", "E_MEMMAN_ADDR_UNALIGNED", "E_MEMMAN_VIRTNOTEXISTS",
          "E_MEMMAN_VIRTNOTINUSED", "E_MEMMAN_AR_EMPTY"}

Reply(op, code, base, pages) == [op |-> op, code |-> code, base |-> base, pages |-> pages]

-----------------------------------------------------------------------------
(* Ranges and lists of ranges.                                             *)

Range32(base, pages, used) == [base |-> base, pages |-> pages, used |-> used]

MakeRange(start, len) == Range32(start, (len \div PageSize) % DWord, FALSE)

Size(r) == (r.pages * PageSize) % DWord

RangeTail(r) == ((r.base + Size(r)) - 1) % AddressSpace

\* The test of Merge for two neighbours of the list.
Contiguous(r, next) == ~r.used /\ ~next.used /\ RangeTail(r) = next.base

MergeInto(list, r) ==
  IF list # <<>> /\ Contiguous(Last(list), r)
  THEN ReplaceAt(list, Len(list), [Last(list) EXCEPT !.pages = (@ + r.pages) % DWord])
  ELSE Append(list, r)

\* The pass of Merge over the list: it stops at a range as long as it absorbs the
\* next one, and changes nothing when no two neighbours pass the test.
Merge(s) ==
  IF \E i \in 1..(Len(s) - 1) : Contiguous(s[i], s[i + 1])
  THEN FoldLeft(MergeInto, <<>>, s)
  ELSE s

\* Mutant: a range in use fits too.
FirstFitAny(s, n) == SelectInSeq(s, LAMBDA r : r.pages >= n)

FirstFit(s, n) == SelectInSeq(s, LAMBDA r : ~r.used /\ r.pages >= n)
FirstAt(s, base) == SelectInSeq(s, LAMBDA r : r.base = base)

\* int32_t nRemain
Remain(r, n) == LET d == r.pages - n IN IF d < DWord \div 2 THEN d ELSE d - DWord

\* Mutants: the new range starts at the last byte of the old one; it is one page longer;
\* its length has the wrong sign.
SplitterAtTail(r, n) == Range32(RangeTail(r), Remain(r, n), FALSE)
SplitterTooLong(r, n) == Range32((RangeTail(r) + 1) % AddressSpace, Remain(r, n) + 1, FALSE)
SplitterSwapped(r, n) == Range32((RangeTail(r) + 1) % AddressSpace, n - r.pages, FALSE)

\* nRemain is what is left over, and no negative number, for areas of at most 2^31 pages;
\* the kernel's only one, of 512 GiB, has 2^27.
ASSUME AreaPagesAssumption ==
  \A a \in Areas : MakeRange(a[1], (a[2] - a[1] + 1) % AddressSpace).pages <= DWord \div 2

\* What is left over starts where the range ended before it is shortened.
Splitter(r, n) == Range32((RangeTail(r) + 1) % AddressSpace, Remain(r, n), FALSE)

\* The list after the i-th range, long enough, is used for n pages.
Take(s, i, n) ==
  IF Remain(s[i], n) > 0
  THEN InsertAt(ReplaceAt(s, i, Range32(s[i].base, n, TRUE)), i + 1, Splitter(s[i], n))
  ELSE ReplaceAt(s, i, [s[i] EXCEPT !.used = TRUE])

-----------------------------------------------------------------------------
Init ==
  /\ ranges = [p \in Pools |-> <<>>]
  /\ lockDepth = [p \in Pools |-> 0]
  /\ reply = Reply("none", "S_OK", 0, 0)
  /\ faulted = FALSE

AddRange(p, start, end) ==
  LET len == (end - start + 1) % AddressSpace
  IN /\ Len(ranges[p]) < MaxRanges
     /\ IF start % PageSize # 0 \/ len % PageSize # 0
        THEN /\ reply' = Reply("AddRange", "E_MEMMAN_ADDR_UNALIGNED", 0, 0)
             /\ UNCHANGED ranges
        ELSE /\ ranges' = [ranges EXCEPT ![p] = Append(@, MakeRange(start, len))]
             /\ reply' = Reply("AddRange", "S_OK", 0, 0)
     /\ UNCHANGED <<lockDepth, faulted>>

Allocate(p, tPages) ==
  LET n == IF tPages = 0 THEN 1 ELSE tPages
      i == FirstFit(ranges[p], n)
  IN /\ i # 0
     /\ Len(ranges[p]) < MaxRanges
     /\ ranges' = [ranges EXCEPT ![p] = Take(@, i, n)]
     /\ reply' = Reply("Allocate", "S_OK", ranges[p][i].base, n)
     /\ UNCHANGED <<lockDepth, faulted>>

\* No range fits: tBase = pRange->Base reads through a null pointer.
AllocateExhausted(p, tPages) ==
  LET n == IF tPages = 0 THEN 1 ELSE tPages
  IN /\ FirstFit(ranges[p], n) = 0
     /\ faulted' = TRUE
     /\ lockDepth' = [lockDepth EXCEPT ![p] = @ + 1]
     /\ UNCHANGED <<ranges, reply>>

FreeMissing(p, tBase) ==
  /\ FirstAt(ranges[p], tBase) = 0
  /\ reply' = Reply("Free", "E_MEMMAN_VIRTNOTEXISTS", tBase, 0)
  /\ UNCHANGED <<ranges, lockDepth, faulted>>

FreeNotInUse(p, tBase) ==
  LET i == FirstAt(ranges[p], tBase)
  IN /\ i # 0
     /\ ~ranges[p][i].used
     /\ reply' = Reply("Free", "E_MEMMAN_VIRTNOTINUSED", tBase, 0)
     /\ UNCHANGED <<ranges, lockDepth, faulted>>

Free(p, tBase) ==
  LET i == FirstAt(ranges[p], tBase)
  IN /\ i # 0
     /\ ranges[p][i].used
     /\ ranges' = [ranges EXCEPT ![p] = Merge([@ EXCEPT ![i].used = FALSE])]
     /\ reply' = Reply("Free", "S_OK", tBase, ranges[p][i].pages)
     /\ UNCHANGED <<lockDepth, faulted>>

\* Find reports success whether or not the address is there.
Find(p, tBase) ==
  /\ reply' = Reply("Find", "S_OK", tBase, 0)
  /\ UNCHANGED <<ranges, lockDepth, faulted>>

ReleaseRanges(p) ==
  /\ ranges' = [ranges EXCEPT ![p] = <<>>]
  /\ reply' = Reply("ReleaseRanges", "S_OK", 0, 0)
  /\ UNCHANGED <<lockDepth, faulted>>

\* The pool's own list is released before the other's is read.
CloneRanges(p, tOther) ==
  /\ ranges' = [ranges EXCEPT ![p] = IF p = tOther THEN <<>> ELSE ranges[tOther]]
  /\ reply' = Reply("CloneRanges", "S_OK", 0, 0)
  /\ UNCHANGED <<lockDepth, faulted>>

\* The early return for an empty list does not release the mutex.
Dump(p) ==
  /\ lockDepth[p] < MaxLocks
  /\ IF ranges[p] = <<>>
     THEN /\ lockDepth' = [lockDepth EXCEPT ![p] = @ + 1]
          /\ reply' = Reply("Dump", "E_MEMMAN_AR_EMPTY", 0, 0)
     ELSE /\ reply' = Reply("Dump", "S_OK", 0, 0)
          /\ UNCHANGED lockDepth
  /\ UNCHANGED <<ranges, faulted>>

\* The kernel gives a pool each area once.
Operation(p) ==
  \/ \E a \in Areas : FirstAt(ranges[p], a[1]) = 0 /\ AddRange(p, a[1], a[2])
  \/ \E n \in PageCounts : Allocate(p, n) \/ AllocateExhausted(p, n)
  \/ \E b \in FreeBases : FreeMissing(p, b) \/ FreeNotInUse(p, b) \/ Free(p, b) \/ Find(p, b)
  \/ ReleaseRanges(p)
  \/ \E q \in Pools : CloneRanges(p, q)
  \/ Dump(p)

Next == ~faulted /\ \E p \in Pools : Operation(p)

Spec == Init /\ [][Next]_vars

-----------------------------------------------------------------------------
RangeType == [base : 0..(AddressSpace - 1), pages : 0..(DWord - 1), used : BOOLEAN]

TypeOK ==
  /\ ranges \in [Pools -> Seq(RangeType)]
  /\ lockDepth \in [Pools -> Nat]
  /\ reply \in [op : Operations, code : Codes, base : Nat, pages : Nat]
  /\ faulted \in BOOLEAN

\* The pages of the ranges at positions I of a list, counted one by one.
PagesAt(s, I) == Cardinality(UNION {{i} \X (1..s[i].pages) : i \in I})
UsedAt(s) == {i \in DOMAIN s : s[i].used}

\* Splitting, merging, granting and freeing keep the books of PageLedger: a pool
\* never loses or invents a page, a grant takes exactly the pages asked for out of
\* free ones, and Free reports exactly the pages that become free.
Ledger == INSTANCE PageLedger WITH
  total <- [p \in Pools |-> PagesAt(ranges[p], DOMAIN ranges[p])],
  inUse <- [p \in Pools |-> PagesAt(ranges[p], UsedAt(ranges[p]))],
  moved <- reply.pages
LedgerSpec == Ledger!Spec

\* Every base stays page aligned, through the splits whose size wraps too.
AlignedBases ==
  \A p \in Pools : \A i \in DOMAIN ranges[p] : ranges[p][i].base % PageSize = 0

\* A range in use keeps its place, its base and its pages through every call of whoever
\* else uses the pool: splitting and merging only touch ranges that were free, and of two
\* ranges with one base Free takes the first.
GrantsKept ==
  [][\A p \in Pools : \A i \in UsedAt(ranges[p]) :
       \/ reply'.op \in {"ReleaseRanges", "CloneRanges"}
       \/ reply'.op = "Free" /\ i = FirstAt(ranges[p], reply'.base)
       \/ \E j \in {i, i + 1} \cap DOMAIN ranges'[p] : ranges'[p][j] = ranges[p][i]]_vars

\* Every path of every operation gives the mutex back, but Dump of an empty pool and
\* the fault of an exhausted one.
LockReturned ==
  [][\A p \in Pools : lockDepth'[p] # lockDepth[p] => ranges[p] = <<>> \/ faulted']_vars

\* What no call may do to a pool, its failing and early returning paths included: change
\* what is granted to others, or keep the mutex where it is given back.
PoolSteps == GrantsKept /\ LockReturned

\* The addresses a range really covers.
Bytes(r) == r.base .. ((r.base + r.pages * PageSize) - 1)

\* Ranges granted at the same time never overlap ("Allocate new address range").
GrantsDisjoint ==
  \A p \in Pools : \A i, j \in DOMAIN ranges[p] :
    i # j /\ ranges[p][i].used /\ ranges[p][j].used =>
      Bytes(ranges[p][i]) \cap Bytes(ranges[p][j]) = {}

\* When Free has given a range back, no free range of the list ends where the next one,
\* free too, begins ("Merge contiguos ranges").
MergesContiguous ==
  [][\A p \in Pools : reply'.op = "Free" /\ ranges'[p] # ranges[p] =>
       \A i \in 1..(Len(ranges'[p]) - 1) :
         LET r == ranges'[p][i]
             next == ranges'[p][i + 1]
         IN r.used \/ next.used \/ r.base + r.pages * PageSize # next.base]_vars

=============================================================================
