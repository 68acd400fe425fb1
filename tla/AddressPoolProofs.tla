-------------------------- MODULE AddressPoolProofs --------------------------
(***************************************************************************)
(* For pools of any page size and any wrap of the 32-bit size: every range *)
(* starts on a page boundary, Merge leaves such lists as they are, no call *)
(* changes what is granted to others, and every operation keeps the books  *)
(* of PageLedger.                                                          *)
(***************************************************************************)
EXTENDS AddressPool, SequenceTheorems, FiniteSetTheorems, WellFoundedInduction, TLAPS

(* Arithmetic of multiples. *)

Multiple(x, P) == \E k \in Int : x = P * k

\* A remainder of 0 is being a multiple.
LEMMA MultipleIff ==
  ASSUME NEW P \in Nat \ {0}, NEW x \in Int
  PROVE  x % P = 0 <=> Multiple(x, P)
<1>1. ASSUME NEW k \in Int PROVE (P * k) % P = 0
  OBVIOUS
<1>2. x % P = 0 => x = P * (x \div P) /\ x \div P \in Int
  OBVIOUS
<1> QED BY <1>1, <1>2 DEF Multiple

\* Wrapping at M takes off a multiple of M.
LEMMA WrapIs ==
  ASSUME NEW M \in Nat \ {0}, NEW x \in Int
  PROVE  /\ x % M \in 0..(M - 1)
         /\ \E q \in Int : x % M = x - M * q
<1>1. x \div M \in Int /\ x % M \in 0..(M - 1) /\ x % M = x - M * (x \div M)
  OBVIOUS
<1> QED BY <1>1

\* Sums, differences and products keep multiples.
LEMMA MultipleClosed ==
  ASSUME NEW P \in Nat \ {0}, NEW x \in Int, NEW y \in Int, NEW z \in Int,
         Multiple(x, P), Multiple(y, P)
  PROVE  Multiple(x + y, P) /\ Multiple(x - y * z, P)
<1>1. PICK j \in Int : x = P * j
  BY DEF Multiple
<1>2. PICK k \in Int : y = P * k
  BY DEF Multiple
<1>3. x + y = P * (j + k) /\ j + k \in Int
  BY <1>1, <1>2
<1>4. PICK m \in Int : m = k * z
  OBVIOUS
<1>5. y * z = P * m
  BY <1>2, <1>4
<1>6. x - y * z = P * (j - m) /\ j - m \in Int
  BY <1>1, <1>5
<1> QED BY <1>3, <1>6 DEF Multiple

\* Wrapping a multiple of P at a multiple of P leaves one.
LEMMA WrapMultiple ==
  ASSUME NEW P \in Nat \ {0}, NEW M \in Nat \ {0}, NEW x \in Int,
         Multiple(M, P), Multiple(x, P)
  PROVE  Multiple(x % M, P)
<1>1. PICK q \in Int : x % M = x - M * q
  BY WrapIs
<1>2. M \in Int
  OBVIOUS
<1>3. Multiple(x - M * q, P)
  BY <1>2, MultipleClosed
<1> QED BY <1>1, <1>3

\* Two multiples of P are never 1 apart when P > 1.
LEMMA NotNext ==
  ASSUME NEW P \in Nat, P > 1, NEW x \in Int, Multiple(x, P)
  PROVE  ~Multiple(x - 1, P)
<1> SUFFICES ASSUME Multiple(x - 1, P) PROVE FALSE
  OBVIOUS
<1>1. PICK j \in Int, k \in Int : x = P * j /\ x - 1 = P * k
  BY DEF Multiple
<1>2. P * (j - k) = 1
  BY <1>1
<1>3. (j - k <= 0 => P * (j - k) <= 0) /\ (j - k >= 1 => P * (j - k) >= P)
  OBVIOUS
<1> QED BY <1>2, <1>3

-----------------------------------------------------------------------------
\* The constants in the form the arithmetic needs.
LEMMA Moduli ==
  /\ PageSize \in Nat \ {0} /\ DWord \in Nat \ {0} /\ AddressSpace \in Nat \ {0}
  /\ Multiple(DWord, PageSize) /\ Multiple(AddressSpace, PageSize)
<1>1. /\ PageSize \in Nat \ {0} /\ DWord \in Nat \ {0} /\ AddressSpace \in Nat \ {0}
      /\ DWord % PageSize = 0 /\ AddressSpace % DWord = 0
  BY PageSizeAssumption
<1>2. Multiple(DWord, PageSize) /\ Multiple(AddressSpace, DWord)
  BY <1>1, MultipleIff
<1>3. PICK d \in Int, a \in Int : DWord = PageSize * d /\ AddressSpace = DWord * a
  BY <1>2 DEF Multiple
<1>4. PICK e \in Int : e = d * a
  OBVIOUS
<1>5. AddressSpace = PageSize * e
  BY <1>1, <1>3, <1>4
<1> QED BY <1>1, <1>2, <1>5 DEF Multiple

Aligned(r) == Multiple(r.base, PageSize)

\* The size of a range is a whole number of pages, also when the product wraps.
LEMMA SizeMultiple ==
  ASSUME NEW r \in RangeType
  PROVE  Size(r) \in Nat /\ Multiple(Size(r), PageSize)
<1> DEFINE product == r.pages * PageSize
<1>1. product \in Int /\ r.pages \in Int /\ product = PageSize * r.pages
  BY Moduli DEF RangeType
<1>2. Multiple(product, PageSize)
  BY <1>1 DEF Multiple
<1> HIDE DEF product
<1>3. Multiple(product % DWord, PageSize)
  BY <1>1, <1>2, Moduli, WrapMultiple
<1>4. product % DWord \in Nat
  BY <1>1, Moduli
<1> QED BY <1>3, <1>4 DEF Size, product

\* The byte after an aligned range is aligned.
LEMMA TailOfAligned ==
  ASSUME NEW r \in RangeType, Aligned(r)
  PROVE  /\ RangeTail(r) \in 0..(AddressSpace - 1)
         /\ Multiple(RangeTail(r) + 1, PageSize)
<1> DEFINE end == r.base + Size(r)
<1>1. end \in Int /\ Multiple(end, PageSize)
  <2>1. r.base \in Int /\ Size(r) \in Int /\ PageSize \in Nat \ {0}
    BY SizeMultiple, Moduli DEF RangeType
  <2>2. Multiple(r.base, PageSize) /\ Multiple(Size(r), PageSize)
    BY SizeMultiple DEF Aligned
  <2> QED BY <2>1, <2>2, MultipleClosed
<1>2. RangeTail(r) = (end - 1) % AddressSpace
  BY DEF RangeTail
<1> HIDE DEF end
<1>3. RangeTail(r) \in 0..(AddressSpace - 1)
  BY <1>1, <1>2, Moduli
<1>4. end - 1 \in Int /\ AddressSpace \in Nat \ {0}
  BY <1>1, Moduli
<1>5. PICK q \in Int : (end - 1) % AddressSpace = (end - 1) - AddressSpace * q
  BY <1>4, WrapIs
<1>6. AddressSpace * q \in Int
  BY <1>4
<1>7. RangeTail(r) + 1 = end - AddressSpace * q
  BY <1>1, <1>2, <1>5, <1>6
<1>8. Multiple(end - AddressSpace * q, PageSize)
  <2>1. AddressSpace \in Int /\ PageSize \in Nat \ {0} /\ Multiple(AddressSpace, PageSize)
    BY Moduli
  <2> QED BY <1>1, <2>1, MultipleClosed
<1> QED BY <1>3, <1>7, <1>8

-----------------------------------------------------------------------------
(* Lists of ranges. *)

AlignedRange == {r \in RangeType : Aligned(r)}

\* A non-empty set of positions has a least one.
LEMMA MinExists ==
  ASSUME NEW I, I \subseteq Nat, I # {}
  PROVE  Min(I) \in I
<1> DEFINE Less == {pair \in Nat \X Nat : pair[1] < pair[2]}
<1>1. IsWellFoundedOn(Less, Nat)
  BY NatLessThanWellFounded DEF OpToRel
<1>2. \A x, y \in Nat : <<y, x>> \in Less <=> y < x
  OBVIOUS
<1> HIDE DEF Less
<1>3. PICK x \in I : \A y \in I : <<y, x>> \notin Less
  BY <1>1, WFMin
<1>4. ASSUME NEW y \in I PROVE x <= y
  <2>1. x \in Nat /\ y \in Nat
    OBVIOUS
  <2>2. ~(y < x)
    BY <1>2, <1>3, <2>1
  <2> QED BY <2>1, <2>2
<1> QED BY <1>3, <1>4 DEF Min

\* First fit finds a free range that is long enough.
LEMMA FirstFitFinds ==
  ASSUME NEW s \in Seq(AlignedRange), NEW n, FirstFit(s, n) # 0
  PROVE  /\ FirstFit(s, n) \in 1..Len(s)
         /\ s[FirstFit(s, n)].pages >= n /\ ~s[FirstFit(s, n)].used
<1> DEFINE I == {i \in 1..Len(s) : ~s[i].used /\ s[i].pages >= n}
<1>1. FirstFit(s, n) = IF I # {} THEN Min(I) ELSE 0
  BY DEF FirstFit, SelectInSeq
<1>2. I # {} /\ FirstFit(s, n) = Min(I)
  BY <1>1
<1>3. Min(I) \in I
  <2>1. I \subseteq Nat
    OBVIOUS
  <2> HIDE DEF I
  <2> QED BY <1>2, <2>1, MinExists
<1> QED BY <1>2, <1>3

\* Looking an address up finds a position of the list.
LEMMA FirstAtFinds ==
  ASSUME NEW s \in Seq(AlignedRange), NEW b, FirstAt(s, b) # 0
  PROVE  FirstAt(s, b) \in 1..Len(s)
<1> DEFINE I == {i \in 1..Len(s) : s[i].base = b}
<1>1. FirstAt(s, b) = IF I # {} THEN Min(I) ELSE 0
  BY DEF FirstAt, SelectInSeq
<1>2. I # {} /\ FirstAt(s, b) = Min(I)
  BY <1>1
<1>3. Min(I) \in I
  <2>1. I \subseteq Nat
    OBVIOUS
  <2> HIDE DEF I
  <2> QED BY <1>2, <2>1, MinExists
<1> QED BY <1>2, <1>3

\* Inserting an element of S makes a sequence over S one longer.
LEMMA InsertAtType ==
  ASSUME NEW S, NEW s \in Seq(S), NEW e \in S, NEW i \in 1..(Len(s) + 1)
  PROVE  InsertAt(s, i, e) \in Seq(S) /\ Len(InsertAt(s, i, e)) = Len(s) + 1
<1>1. SubSeq(s, 1, i - 1) \in Seq(S) /\ Len(SubSeq(s, 1, i - 1)) = i - 1
  OBVIOUS
<1>2. SubSeq(s, i, Len(s)) \in Seq(S) /\ Len(SubSeq(s, i, Len(s))) = Len(s) - i + 1
  OBVIOUS
<1>3. <<e>> \in Seq(S) /\ Len(<<e>>) = 1
  OBVIOUS
<1>4. /\ SubSeq(s, 1, i - 1) \o <<e>> \in Seq(S)
      /\ Len(SubSeq(s, 1, i - 1) \o <<e>>) = i
  BY <1>1, <1>3, ConcatProperties
<1> DEFINE before == SubSeq(s, 1, i - 1) \o <<e>>
           after == SubSeq(s, i, Len(s))
<1>5. before \in Seq(S) /\ Len(before) = i
  BY <1>4
<1>6. after \in Seq(S) /\ Len(after) = Len(s) - i + 1
  BY <1>2
<1>7. InsertAt(s, i, e) = before \o after
  BY DEF InsertAt
<1> HIDE DEF before, after
<1>8. before \o after \in Seq(S) /\ Len(before \o after) = Len(before) + Len(after)
  BY <1>5, <1>6, ConcatProperties
<1>9. Len(before) + Len(after) = Len(s) + 1
  BY <1>5, <1>6
<1> QED BY <1>7, <1>8, <1>9

\* Replacing an element by one of S keeps a sequence over S, of the same length.
LEMMA ReplaceAtType ==
  ASSUME NEW S, NEW s \in Seq(S), NEW e \in S, NEW i \in 1..Len(s)
  PROVE  ReplaceAt(s, i, e) \in Seq(S) /\ Len(ReplaceAt(s, i, e)) = Len(s)
BY DEF ReplaceAt

\* What is left over of a split is an aligned range.
LEMMA SplitterAligned ==
  ASSUME NEW r \in RangeType, Aligned(r), NEW n \in 1..(DWord - 1), r.pages >= n, Remain(r, n) > 0
  PROVE  Splitter(r, n) \in AlignedRange
<1>1. /\ RangeTail(r) \in 0..(AddressSpace - 1)
      /\ Multiple(RangeTail(r) + 1, PageSize)
  BY TailOfAligned
<1>2. RangeTail(r) + 1 \in Int
  BY <1>1, Moduli
<1>3. Multiple((RangeTail(r) + 1) % AddressSpace, PageSize)
  BY <1>1, <1>2, Moduli, WrapMultiple
<1>4. (RangeTail(r) + 1) % AddressSpace \in 0..(AddressSpace - 1)
  BY <1>2, Moduli
<1>5. Remain(r, n) \in 0..(DWord - 1)
  BY Moduli DEF Remain, RangeType
<1> QED BY <1>3, <1>4, <1>5 DEF Splitter, Range32, AlignedRange, RangeType, Aligned

\* Taking n pages out of a range keeps the list typed and aligned, and no shorter.
LEMMA TakeType ==
  ASSUME NEW s \in Seq(AlignedRange), NEW i \in 1..Len(s), NEW n \in 1..(DWord - 1),
         s[i].pages >= n
  PROVE  Take(s, i, n) \in Seq(AlignedRange) /\ Len(Take(s, i, n)) >= Len(s)
<1>1. s[i] \in RangeType /\ Aligned(s[i])
  BY DEF AlignedRange
<1>2. CASE Remain(s[i], n) > 0
  <2>1. Range32(s[i].base, n, TRUE) \in AlignedRange
    BY <1>1, Moduli DEF Range32, AlignedRange, RangeType, Aligned
  <2>3. Splitter(s[i], n) \in AlignedRange
    BY <1>1, <1>2, SplitterAligned
  <2> DEFINE t == ReplaceAt(s, i, Range32(s[i].base, n, TRUE))
  <2>4. t \in Seq(AlignedRange) /\ Len(t) = Len(s)
    BY <2>1, ReplaceAtType
  <2> HIDE DEF t
  <2>5. /\ InsertAt(t, i + 1, Splitter(s[i], n)) \in Seq(AlignedRange)
        /\ Len(InsertAt(t, i + 1, Splitter(s[i], n))) = Len(s) + 1
    BY <2>3, <2>4, InsertAtType
  <2>6. Take(s, i, n) = InsertAt(t, i + 1, Splitter(s[i], n))
    BY <1>2 DEF Take, t
  <2> QED BY <2>5, <2>6
<1>3. CASE ~(Remain(s[i], n) > 0)
  <2>1. [s[i] EXCEPT !.used = TRUE] \in AlignedRange
    BY <1>1 DEF AlignedRange, RangeType, Aligned
  <2>2. Take(s, i, n) = ReplaceAt(s, i, [s[i] EXCEPT !.used = TRUE])
    BY <1>3 DEF Take
  <2> QED BY <2>1, <2>2, ReplaceAtType
<1> QED BY <1>2, <1>3

\* Merge leaves a list of aligned ranges as it is.
LEMMA MergeIsIdentity ==
  ASSUME NEW s \in Seq(AlignedRange)
  PROVE  Merge(s) = s
<1> SUFFICES ASSUME NEW i \in 1..(Len(s) - 1), Contiguous(s[i], s[i + 1]) PROVE FALSE
  BY DEF Merge
<1>1. s[i] \in AlignedRange /\ s[i + 1] \in AlignedRange
  OBVIOUS
<1>2. /\ RangeTail(s[i]) \in 0..(AddressSpace - 1)
      /\ Multiple(RangeTail(s[i]) + 1, PageSize)
  BY <1>1, TailOfAligned DEF AlignedRange
<1>3. Multiple(RangeTail(s[i]), PageSize)
  BY <1>1 DEF Contiguous, AlignedRange, Aligned
<1>4. RangeTail(s[i]) + 1 \in Int /\ (RangeTail(s[i]) + 1) - 1 = RangeTail(s[i])
  BY <1>2, Moduli
<1> QED BY <1>2, <1>3, <1>4, PageSizeAssumption, NotNext

\* AddRange appends an aligned range.
LEMMA MakeRangeType ==
  ASSUME NEW a \in Areas, NEW len \in Nat, a[1] % PageSize = 0
  PROVE  MakeRange(a[1], len) \in AlignedRange
<1>1. a[1] \in 0..(AddressSpace - 1)
  BY AreasAssumption, Moduli
<1>2. Multiple(a[1], PageSize)
  BY <1>1, Moduli, MultipleIff
<1>3. len \div PageSize \in Nat
  BY Moduli
<1>4. (len \div PageSize) % DWord \in 0..(DWord - 1)
  BY <1>3, Moduli
<1> QED BY <1>1, <1>2, <1>4 DEF MakeRange, Range32, AlignedRange, RangeType, Aligned

-----------------------------------------------------------------------------
\* The inductive invariant: every list is a sequence of aligned ranges.
ListsAligned == ranges \in [Pools -> Seq(AlignedRange)]

\* What stands in s outside the places I stands in t at its place or one further.
Keeps(s, t, I) ==
  \A k \in (1..Len(s)) \ I : \E j \in {k, k + 1} \cap (1..Len(t)) : t[j] = s[k]

\* What a step does to the lists: aligned they stay, and what is granted stays, but for
\* the range freed and the lists emptied or replaced.
ListStep ==
  /\ ListsAligned'
  /\ \A p \in Pools :
       \/ reply'.op \in {"ReleaseRanges", "CloneRanges"}
       \/ reply'.op = "Free" /\ Keeps(ranges[p], ranges'[p], {FirstAt(ranges[p], reply'.base)})
       \/ Keeps(ranges[p], ranges'[p], {i \in 1..Len(ranges[p]) : ~ranges[p][i].used})

\* What an insertion puts where.
LEMMA InsertAtIs ==
  ASSUME NEW S, NEW s \in Seq(S), NEW e \in S, NEW i \in 1..(Len(s) + 1)
  PROVE  /\ InsertAt(s, i, e) \in Seq(S)
         /\ Len(InsertAt(s, i, e)) = Len(s) + 1
         /\ \A k \in 1..(Len(s) + 1) :
              InsertAt(s, i, e)[k] = IF k < i THEN s[k] ELSE IF k = i THEN e ELSE s[k - 1]
<1> DEFINE before == SubSeq(s, 1, i - 1)
           upto == before \o <<e>>
           after == SubSeq(s, i, Len(s))
<1>1. /\ before \in Seq(S) /\ Len(before) = i - 1
      /\ \A k \in 1..(i - 1) : before[k] = s[k]
  OBVIOUS
<1>2. /\ after \in Seq(S) /\ Len(after) = Len(s) - i + 1
      /\ \A k \in 1..(Len(s) - i + 1) : after[k] = s[i + k - 1]
  OBVIOUS
<1>3. <<e>> \in Seq(S) /\ Len(<<e>>) = 1 /\ <<e>>[1] = e
  OBVIOUS
<1>4. InsertAt(s, i, e) = upto \o after
  BY DEF InsertAt
<1> HIDE DEF before, after
<1>5. /\ upto \in Seq(S) /\ Len(upto) = i
      /\ \A k \in 1..i : upto[k] = IF k < i THEN before[k] ELSE e
  BY <1>1, <1>3, ConcatProperties
<1> HIDE DEF upto
<1>6. /\ upto \o after \in Seq(S) /\ Len(upto \o after) = Len(s) + 1
      /\ \A k \in 1..(Len(s) + 1) :
           (upto \o after)[k] = IF k <= i THEN upto[k] ELSE after[k - i]
  BY <1>2, <1>5, ConcatProperties
<1> QED BY <1>1, <1>2, <1>4, <1>5, <1>6

\* Taking pages out of the i-th range keeps the others.
LEMMA TakeKeeps ==
  ASSUME NEW s \in Seq(AlignedRange), NEW i \in 1..Len(s), NEW n \in 1..(DWord - 1),
         s[i].pages >= n
  PROVE  Keeps(s, Take(s, i, n), {i})
<1> SUFFICES ASSUME NEW k \in (1..Len(s)) \ {i}
             PROVE  \E j \in {k, k + 1} \cap (1..Len(Take(s, i, n))) : Take(s, i, n)[j] = s[k]
  BY DEF Keeps
<1>1. CASE Remain(s[i], n) > 0
  <2>1. s[i] \in RangeType /\ Aligned(s[i])
    BY DEF AlignedRange
  <2>2. Range32(s[i].base, n, TRUE) \in AlignedRange
    BY <2>1, Moduli DEF Range32, AlignedRange, RangeType, Aligned
  <2>3. Splitter(s[i], n) \in AlignedRange
    BY <1>1, <2>1, SplitterAligned
  <2> DEFINE t == ReplaceAt(s, i, Range32(s[i].base, n, TRUE))
             j == IF k < i + 1 THEN k ELSE k + 1
  <2>4. t \in Seq(AlignedRange) /\ Len(t) = Len(s)
    BY <2>2, ReplaceAtType
  <2>5. t[k] = s[k]
    BY DEF ReplaceAt
  <2> HIDE DEF t
  <2> DEFINE e == Splitter(s[i], n)
             at == i + 1
             u == InsertAt(t, at, e)
  <2>6. Take(s, i, n) = u
    BY <1>1 DEF Take, t
  <2>7. at \in 1..(Len(t) + 1) /\ e \in AlignedRange
    BY <2>3, <2>4
  <2>9. at = i + 1
    OBVIOUS
  <2> HIDE DEF e, at, j
  <2> HIDE DEF u
  <2>10. /\ u \in Seq(AlignedRange) /\ Len(u) = Len(t) + 1
         /\ \A m \in 1..(Len(t) + 1) :
              u[m] = IF m < at THEN t[m] ELSE IF m = at THEN e ELSE t[m - 1]
    <3>1. ASSUME NEW S, NEW x \in Seq(S), NEW y \in S, NEW c \in 1..(Len(x) + 1),
                 x = t, y = e, c = at
          PROVE  /\ InsertAt(x, c, y) \in Seq(S) /\ Len(InsertAt(x, c, y)) = Len(x) + 1
                 /\ \A m \in 1..(Len(x) + 1) :
                      InsertAt(x, c, y)[m] = IF m < c THEN x[m] ELSE IF m = c THEN y ELSE x[m - 1]
      BY InsertAtIs, SMTT(30)
    <3>2. /\ InsertAt(t, at, e) \in Seq(AlignedRange) /\ Len(InsertAt(t, at, e)) = Len(t) + 1
          /\ \A m \in 1..(Len(t) + 1) :
               InsertAt(t, at, e)[m] = IF m < at THEN t[m] ELSE IF m = at THEN e ELSE t[m - 1]
      BY <2>4, <2>7, <3>1
    <3> QED BY <3>2 DEF u
  <2>8. j \in {k, k + 1} \cap (1..Len(u)) /\ u[j] = t[k]
    BY <2>4, <2>9, <2>10 DEF j
  <2> QED BY <2>5, <2>6, <2>8
<1>2. CASE ~(Remain(s[i], n) > 0)
  <2>1. Take(s, i, n) = ReplaceAt(s, i, [s[i] EXCEPT !.used = TRUE])
    BY <1>2 DEF Take
  <2>2. Len(Take(s, i, n)) = Len(s) /\ Take(s, i, n)[k] = s[k]
    BY <2>1 DEF ReplaceAt
  <2> QED BY <2>2
<1> QED BY <1>1, <1>2

\* A list keeps what it has, also at the other places when it is left alone.
LEMMA KeepsAll ==
  ASSUME NEW s \in Seq(AlignedRange), NEW I
  PROVE  Keeps(s, s, I)
BY DEF Keeps

\* Every step keeps the lists aligned, and what is granted.
LEMMA StepLists == ASSUME ListsAligned, [Next]_vars PROVE ListStep \/ UNCHANGED vars
<1> USE DEF ListsAligned, ListStep
<1> DEFINE NotUsed(p) == {i \in 1..Len(ranges[p]) : ~ranges[p][i].used}
<1>0. \A p \in Pools : \A I : Keeps(ranges[p], ranges[p], I)
  BY KeepsAll
<1>1. ASSUME NEW p \in Pools, NEW a \in Areas, AddRange(p, a[1], a[2]) PROVE ListStep
  <2> DEFINE len == (a[2] - a[1] + 1) % AddressSpace
  <2>1. len \in Nat
    <3>1. a[2] - a[1] + 1 \in Int
      BY AreasAssumption
    <3> QED BY <3>1, Moduli
  <2> HIDE DEF len
  <2>2. CASE ranges' = ranges
    BY <1>0, <2>2
  <2>3. CASE /\ a[1] % PageSize = 0
             /\ ranges' = [ranges EXCEPT ![p] = Append(@, MakeRange(a[1], len))]
    <3>1. MakeRange(a[1], len) \in AlignedRange
      BY <2>1, <2>3, MakeRangeType
    <3>2. Keeps(ranges[p], Append(ranges[p], MakeRange(a[1], len)), NotUsed(p))
      BY <3>1 DEF Keeps
    <3>3. Append(ranges[p], MakeRange(a[1], len)) \in Seq(AlignedRange)
      BY <3>1
    <3> QED BY <1>0, <2>3, <3>2, <3>3
  <2> QED BY <1>1, <2>2, <2>3 DEF AddRange, len
<1>2. ASSUME NEW p \in Pools, NEW n \in PageCounts, Allocate(p, n) PROVE ListStep
  <2> DEFINE k == IF n = 0 THEN 1 ELSE n
             i == FirstFit(ranges[p], k)
  <2>1. k \in 1..(DWord - 1)
    BY AreasAssumption, PageSizeAssumption
  <2>2. ranges[p] \in Seq(AlignedRange)
    OBVIOUS
  <2>3. i \in 1..Len(ranges[p]) /\ ranges[p][i].pages >= k
    BY <1>2, <2>2, FirstFitFinds DEF Allocate
  <2>4. ranges' = [ranges EXCEPT ![p] = Take(@, i, k)]
    BY <1>2 DEF Allocate
  <2> HIDE DEF k, i
  <2>5. Take(ranges[p], i, k) \in Seq(AlignedRange)
    BY <2>1, <2>3, TakeType
  <2>6. Keeps(ranges[p], Take(ranges[p], i, k), {i})
    BY <2>1, <2>2, <2>3, TakeKeeps
  <2>7. i \in NotUsed(p)
    BY <1>2, <2>2, FirstFitFinds DEF Allocate, i, k
  <2>8. Keeps(ranges[p], Take(ranges[p], i, k), NotUsed(p))
    BY <2>6, <2>7 DEF Keeps
  <2> QED BY <1>0, <2>4, <2>5, <2>8
<1>3. ASSUME NEW p \in Pools, NEW b \in FreeBases, Free(p, b) PROVE ListStep
  <2> DEFINE i == FirstAt(ranges[p], b)
  <2>1. ranges[p] \in Seq(AlignedRange)
    OBVIOUS
  <2>2. i \in 1..Len(ranges[p])
    BY <1>3, <2>1, FirstAtFinds DEF Free
  <2>3. ranges' = [ranges EXCEPT ![p] = Merge([@ EXCEPT ![i].used = FALSE])]
    BY <1>3 DEF Free
  <2> HIDE DEF i
  <2> DEFINE freed == [ranges[p] EXCEPT ![i].used = FALSE]
  <2>4. freed \in Seq(AlignedRange) /\ Len(freed) = Len(ranges[p])
    <3>1. ranges[p][i] \in AlignedRange
      BY <2>2
    <3>2. [ranges[p][i] EXCEPT !.used = FALSE] \in AlignedRange
      BY <3>1 DEF AlignedRange, RangeType, Aligned
    <3>3. freed = ReplaceAt(ranges[p], i, [ranges[p][i] EXCEPT !.used = FALSE])
      BY <2>2 DEF ReplaceAt
    <3> QED BY <2>2, <3>2, <3>3, ReplaceAtType
  <2>5. ranges' = [ranges EXCEPT ![p] = Merge(freed)]
    BY <2>3
  <2> HIDE DEF freed
  <2>6. Merge(freed) = freed
    BY <2>4, MergeIsIdentity
  <2>7. Keeps(ranges[p], freed, {i})
    BY <2>4 DEF Keeps, freed
  <2>8. reply'.op = "Free" /\ i = FirstAt(ranges[p], reply'.base)
    BY <1>3 DEF Free, Reply, i
  <2>9. ListsAligned'
    BY <2>4, <2>5, <2>6
  <2>10. \A q \in Pools : q # p => ranges'[q] = ranges[q]
    BY <2>5
  <2>11. ranges'[p] = freed
    BY <2>5, <2>6
  <2> QED BY <1>0, <2>7, <2>8, <2>9, <2>10, <2>11
<1>4. ASSUME NEW p \in Pools, ReleaseRanges(p) PROVE ListStep
  BY <1>4 DEF ReleaseRanges, Reply
<1>5. ASSUME NEW p \in Pools, NEW q \in Pools, CloneRanges(p, q) PROVE ListStep
  BY <1>5 DEF CloneRanges, Reply
<1>6. ASSUME UNCHANGED ranges PROVE ListStep
  BY <1>0, <1>6
<1> QED
  BY <1>1, <1>2, <1>3, <1>4, <1>5, <1>6
     DEF Next, Operation, AllocateExhausted, FreeMissing, FreeNotInUse, Find, Dump, vars

\* The pools start with empty lists.
LEMMA InitLists == Init => ListsAligned
BY DEF Init, ListsAligned

\* The inductive invariant holds of every behaviour.
LEMMA AlwaysAligned == Spec => []ListsAligned
<1>1. ListsAligned /\ [Next]_vars => ListsAligned'
  BY StepLists DEF ListStep, ListsAligned, vars
<1> QED BY InitLists, <1>1, PTL DEF Spec

\* Whatever is asked of the pools, every range starts on a page boundary.
THEOREM BasesStayAligned == Spec => []AlignedBases
<1>1. ListsAligned => AlignedBases
  <2> SUFFICES ASSUME ListsAligned, NEW p \in Pools, NEW i \in DOMAIN ranges[p]
               PROVE  ranges[p][i].base % PageSize = 0
    BY DEF AlignedBases
  <2>1. ranges[p] \in Seq(AlignedRange) /\ i \in 1..Len(ranges[p])
    BY DEF ListsAligned
  <2>2. ranges[p][i] \in AlignedRange
    BY <2>1
  <2>3. ranges[p][i].base \in Int /\ Multiple(ranges[p][i].base, PageSize)
    BY <2>2, Moduli DEF AlignedRange, RangeType, Aligned
  <2> QED BY <2>3, Moduli, MultipleIff
<1> QED BY <1>1, AlwaysAligned, PTL

\* What is granted stays as it is until its base is freed, or the list emptied or replaced.
THEOREM GrantsStay == Spec => GrantsKept
<1>1. ListsAligned /\ [Next]_vars =>
        [\A p \in Pools : \A i \in UsedAt(ranges[p]) :
           \/ reply'.op \in {"ReleaseRanges", "CloneRanges"}
           \/ reply'.op = "Free" /\ i = FirstAt(ranges[p], reply'.base)
           \/ \E j \in {i, i + 1} \cap DOMAIN ranges'[p] : ranges'[p][j] = ranges[p][i]]_vars
  <2> SUFFICES ASSUME ListsAligned, [Next]_vars, ListStep,
                      NEW p \in Pools, NEW i \in UsedAt(ranges[p]),
                      reply'.op \notin {"ReleaseRanges", "CloneRanges"},
                      ~(reply'.op = "Free" /\ i = FirstAt(ranges[p], reply'.base))
               PROVE  \E j \in {i, i + 1} \cap DOMAIN ranges'[p] : ranges'[p][j] = ranges[p][i]
    BY StepLists
  <2>1. /\ ranges[p] \in Seq(AlignedRange) /\ ranges'[p] \in Seq(AlignedRange)
        /\ i \in 1..Len(ranges[p]) /\ ranges[p][i].used
    BY DEF ListsAligned, ListStep, UsedAt
  <2>2. DOMAIN ranges'[p] = 1..Len(ranges'[p])
    BY <2>1
  <2>3. CASE reply'.op = "Free" /\ Keeps(ranges[p], ranges'[p], {FirstAt(ranges[p], reply'.base)})
    BY <2>1, <2>2, <2>3 DEF Keeps
  <2>4. CASE Keeps(ranges[p], ranges'[p], {k \in 1..Len(ranges[p]) : ~ranges[p][k].used})
    BY <2>1, <2>2, <2>4 DEF Keeps
  <2> QED BY <2>3, <2>4 DEF ListStep
<1> QED BY <1>1, AlwaysAligned, PTL DEF Spec, GrantsKept

-----------------------------------------------------------------------------
\* What the operations put into their replies.
LEMMA Names ==
  /\ "none" \in Operations /\ "AddRange" \in Operations /\ "Allocate" \in Operations
  /\ "Free" \in Operations /\ "Find" \in Operations /\ "ReleaseRanges" \in Operations
  /\ "CloneRanges" \in Operations /\ "Dump" \in Operations
  /\ "S_OK" \in Codes /\ "E_MEMMAN_ADDR_UNALIGNED" \in Codes
  /\ "E_MEMMAN_VIRTNOTEXISTS" \in Codes /\ "E_MEMMAN_VIRTNOTINUSED" \in Codes
  /\ "E_MEMMAN_AR_EMPTY" \in Codes
BY DEF Operations, Codes

ReplyType == [op : Operations, code : Codes, base : Nat, pages : Nat]

\* A reply is of its type when its parts are.
LEMMA ReplyIsTyped ==
  ASSUME NEW op \in Operations, NEW code \in Codes, NEW base \in Nat, NEW pages \in Nat
  PROVE  Reply(op, code, base, pages) \in ReplyType
BY DEF Reply, ReplyType

\* Whatever is requested, the reply is of its type.
LEMMA StepReplies ==
  ASSUME ListsAligned, reply \in ReplyType, NEW p \in Pools, Operation(p)
  PROVE  reply' \in ReplyType
<1> USE Names, ReplyIsTyped
<1>1. ASSUME NEW n \in PageCounts, Allocate(p, n) PROVE reply' \in ReplyType
  <2> DEFINE k == IF n = 0 THEN 1 ELSE n
             i == FirstFit(ranges[p], k)
  <2>1. k \in Nat
    BY AreasAssumption, PageSizeAssumption
  <2>2. ranges[p] \in Seq(AlignedRange)
    BY DEF ListsAligned
  <2>3. i \in 1..Len(ranges[p])
    BY <1>1, <2>2, FirstFitFinds DEF Allocate
  <2>4. reply' = Reply("Allocate", "S_OK", ranges[p][i].base, k)
    BY <1>1 DEF Allocate
  <2> HIDE DEF k, i
  <2>5. ranges[p][i] \in RangeType
    BY <2>2, <2>3 DEF AlignedRange
  <2>6. ranges[p][i].base \in Nat
    BY <2>5, Moduli DEF RangeType
  <2> QED BY <2>1, <2>4, <2>6
<1>2. ASSUME NEW b \in FreeBases, Free(p, b) PROVE reply' \in ReplyType
  <2> DEFINE i == FirstAt(ranges[p], b)
  <2>1. ranges[p] \in Seq(AlignedRange)
    BY DEF ListsAligned
  <2>2. i \in 1..Len(ranges[p])
    BY <1>2, <2>1, FirstAtFinds DEF Free
  <2>3. reply' = Reply("Free", "S_OK", b, ranges[p][i].pages)
    BY <1>2 DEF Free
  <2> HIDE DEF i
  <2>4. ranges[p][i] \in RangeType
    BY <2>1, <2>2 DEF AlignedRange
  <2>5. ranges[p][i].pages \in Nat /\ b \in Nat
    BY <2>4, Moduli, FreeBasesAssumption DEF RangeType
  <2> QED BY <2>3, <2>5
<1>3. ASSUME NEW a \in Areas, AddRange(p, a[1], a[2]) PROVE reply' \in ReplyType
  BY <1>3 DEF AddRange
<1>4. ASSUME NEW b \in FreeBases, FreeMissing(p, b) \/ FreeNotInUse(p, b) \/ Find(p, b)
      PROVE  reply' \in ReplyType
  BY <1>4, FreeBasesAssumption DEF FreeMissing, FreeNotInUse, Find
<1>5. ASSUME ReleaseRanges(p) \/ Dump(p) PROVE reply' \in ReplyType
  BY <1>5 DEF ReleaseRanges, Dump
<1>6. ASSUME NEW q \in Pools, CloneRanges(p, q) PROVE reply' \in ReplyType
  BY <1>6 DEF CloneRanges
<1>7. ASSUME NEW n \in PageCounts, AllocateExhausted(p, n) PROVE reply' \in ReplyType
  BY <1>7 DEF AllocateExhausted
<1> QED BY <1>1, <1>2, <1>3, <1>4, <1>5, <1>6, <1>7 DEF Operation

LocksTyped == lockDepth \in [Pools -> Nat] /\ faulted \in BOOLEAN

\* Whatever is requested, the depth of each mutex stays a count.
LEMMA StepLocks == ASSUME LocksTyped, NEW p \in Pools, Operation(p) PROVE LocksTyped'
<1> USE DEF LocksTyped
<1>1. CASE UNCHANGED <<lockDepth, faulted>>
  BY <1>1
<1>2. ASSUME NEW n \in PageCounts, AllocateExhausted(p, n) PROVE LocksTyped'
  BY <1>2 DEF AllocateExhausted
<1>3. CASE Dump(p)
  <2>1. CASE UNCHANGED lockDepth
    BY <1>3, <2>1 DEF Dump
  <2>2. CASE lockDepth' = [lockDepth EXCEPT ![p] = @ + 1]
    BY <1>3, <2>2 DEF Dump
  <2> QED BY <1>3, <2>1, <2>2 DEF Dump
<1> QED
  BY <1>1, <1>2, <1>3
     DEF Operation, AddRange, Allocate, FreeMissing, FreeNotInUse, Free, Find, ReleaseRanges,
         CloneRanges

\* What the pool keeps and what its operations report keep their types.
THEOREM PoolTypeCorrect == Spec => []TypeOK
<1> DEFINE Parts == ListsAligned /\ LocksTyped /\ reply \in ReplyType
<1>1. Init => Parts
  <2> SUFFICES ASSUME Init PROVE Parts
    OBVIOUS
  <2>1. reply \in ReplyType
    <3>1. reply = Reply("none", "S_OK", 0, 0)
      BY DEF Init
    <3> QED BY <3>1, Names, ReplyIsTyped
  <2>2. LocksTyped
    BY DEF Init, LocksTyped
  <2> QED BY InitLists, <2>1, <2>2
<1>2. Parts /\ [Next]_vars => Parts'
  <2> SUFFICES ASSUME Parts, [Next]_vars PROVE Parts'
    OBVIOUS
  <2>1. CASE UNCHANGED vars
    BY <2>1 DEF vars, ListsAligned, LocksTyped
  <2>2. CASE Next
    <3>1. PICK p \in Pools : Operation(p)
      BY <2>2 DEF Next
    <3>2. ListsAligned'
      BY StepLists DEF ListStep, ListsAligned, vars
    <3> QED BY <3>1, <3>2, StepLocks, StepReplies
  <2> QED BY <2>1, <2>2
<1>3. Parts => TypeOK
  <2> SUFFICES ASSUME Parts PROVE TypeOK
    OBVIOUS
  <2>1. Seq(AlignedRange) \subseteq Seq(RangeType)
    <3>1. AlignedRange \subseteq RangeType
      BY DEF AlignedRange
    <3> QED BY <3>1
  <2>2. ranges \in [Pools -> Seq(RangeType)]
    BY <2>1 DEF ListsAligned
  <2> QED BY <2>2 DEF TypeOK, LocksTyped, ReplyType
<1> HIDE DEF Parts
<1> QED BY <1>1, <1>2, <1>3, PTL DEF Spec

\* No operation returns with the mutex of a pool, but Dump of an empty pool, and
\* Allocate dies with it when the pool is exhausted.
THEOREM MutexComesBack == Spec => LockReturned
<1>1. LocksTyped /\ [Next]_vars =>
        [\A p \in Pools : lockDepth'[p] # lockDepth[p] => ranges[p] = <<>> \/ faulted']_vars
  <2> SUFFICES ASSUME LocksTyped, Next, NEW p \in Pools, lockDepth'[p] # lockDepth[p]
               PROVE  ranges[p] = <<>> \/ faulted'
    BY DEF vars
  <2>1. PICK q \in Pools : Operation(q)
    BY DEF Next
  <2>2. CASE UNCHANGED lockDepth
    BY <2>2
  <2>3. ASSUME NEW n \in PageCounts, AllocateExhausted(q, n) PROVE faulted'
    BY <2>3 DEF AllocateExhausted
  <2>4. CASE Dump(q)
    BY <2>4 DEF Dump, LocksTyped
  <2> QED
    BY <2>1, <2>2, <2>3, <2>4
       DEF Operation, AddRange, Allocate, FreeMissing, FreeNotInUse, Free, Find, ReleaseRanges,
           CloneRanges
<1>2. TypeOK => LocksTyped
  BY DEF TypeOK, LocksTyped
<1> QED BY <1>1, <1>2, PoolTypeCorrect, PTL DEF Spec, LockReturned

\* Both of what no call may do to a pool.
THEOREM PoolStepsHold == Spec => PoolSteps
BY GrantsStay, MutexComesBack DEF PoolSteps

-----------------------------------------------------------------------------
(* The books of PageLedger: pages are counted by their places. *)

\* The pages of the ranges at positions I, each beside its range.
Slots(s, I) == UNION {{i} \X (1..s[i].pages) : i \in I}

\* A range that splitting, granting and freeing keep to: it does not ask nRemain for more
\* than int32_t holds, and what is used is at least a page.
Modest(r) == r.pages <= DWord \div 2 /\ (r.used => r.pages >= 1)
ModestRange == {r \in AlignedRange : Modest(r)}

\* Disjoint finite sets add up.
LEMMA Adds ==
  ASSUME NEW S, IsFiniteSet(S), NEW T, IsFiniteSet(T), S \cap T = {}
  PROVE  /\ IsFiniteSet(S \cup T)
         /\ Cardinality(S \cup T) = Cardinality(S) + Cardinality(T)
         /\ Cardinality(S) \in Nat /\ Cardinality(T) \in Nat
<1>1. Cardinality(S \cap T) = 0
  BY FS_EmptySet
<1>2. Cardinality(S) \in Nat /\ Cardinality(T) \in Nat
  BY FS_CardinalityType
<1>3. /\ IsFiniteSet(S \cup T)
      /\ Cardinality(S \cup T) = Cardinality(S) + Cardinality(T) - Cardinality(S \cap T)
  BY FS_Union, Zenon
<1> QED BY <1>1, <1>2, <1>3

\* A range has as many places as pages.
LEMMA RangeSlots ==
  ASSUME NEW i, NEW n \in Nat
  PROVE  IsFiniteSet({i} \X (1..n)) /\ Cardinality({i} \X (1..n)) = n
<1>1. IsFiniteSet({i}) /\ Cardinality({i}) = 1
  BY FS_Singleton
<1>2. IsFiniteSet(1..n) /\ Cardinality(1..n) = n
  BY FS_Interval
<1>3. /\ IsFiniteSet({i} \X (1..n))
      /\ Cardinality({i} \X (1..n)) = Cardinality({i}) * Cardinality(1..n)
  BY <1>1, <1>2, FS_Product, Zenon
<1> QED BY <1>1, <1>2, <1>3

\* The fields of a range, and of the one at a position.
LEMMA RangeAt ==
  ASSUME NEW s \in Seq(ModestRange), NEW i \in 1..Len(s)
  PROVE  /\ s[i] \in ModestRange /\ s[i] \in AlignedRange /\ s[i] \in RangeType
         /\ s[i].pages \in Nat /\ s[i].pages <= DWord \div 2
         /\ s[i].used => s[i].pages >= 1
         /\ DOMAIN s = 1..Len(s) /\ Len(s) \in Nat
<1>1. s[i] \in ModestRange
  OBVIOUS
<1>2. s[i] \in AlignedRange /\ s[i] \in RangeType /\ Modest(s[i])
  BY <1>1 DEF ModestRange, AlignedRange
<1>3. s[i].pages \in Nat
  BY <1>2, Moduli DEF RangeType
<1> QED BY <1>1, <1>2, <1>3 DEF Modest

\* Any choice of positions has finitely many places, ...
LEMMA SlotsFinite ==
  ASSUME NEW s \in Seq(ModestRange), NEW I, I \subseteq 1..Len(s)
  PROVE  IsFiniteSet(Slots(s, I)) /\ PagesAt(s, I) = Cardinality(Slots(s, I))
         /\ PagesAt(s, I) \in Nat
<1>1. PagesAt(s, I) = Cardinality(Slots(s, I))
  BY DEF PagesAt, Slots
<1>2. Len(s) \in Nat /\ DWord \in Nat
  BY Moduli
<1>3. IsFiniteSet(1..Len(s)) /\ IsFiniteSet(1..DWord)
  BY <1>2, FS_Interval
<1>4. IsFiniteSet((1..Len(s)) \X (1..DWord))
  BY <1>3, FS_Product
<1>5. Slots(s, I) \subseteq (1..Len(s)) \X (1..DWord)
  <2>1. ASSUME NEW i \in I, NEW k \in 1..s[i].pages PROVE k \in 1..DWord
    <3>1. s[i].pages \in Nat /\ s[i].pages <= DWord
      <4>1. s[i] \in RangeType
        BY RangeAt
      <4> QED BY <1>2, <4>1, Moduli DEF RangeType
    <3> QED BY <1>2, <3>1
  <2>2. ASSUME NEW i \in I PROVE {i} \X (1..s[i].pages) \subseteq (1..Len(s)) \X (1..DWord)
    BY <2>1
  <2> QED BY <2>2 DEF Slots
<1>6. IsFiniteSet(Slots(s, I))
  BY <1>4, <1>5, FS_Subset
<1> QED BY <1>1, <1>6, FS_CardinalityType

\* ... of which one range takes as many as it has pages.
LEMMA OneMore ==
  ASSUME NEW s \in Seq(ModestRange), NEW I, I \subseteq 1..Len(s), NEW i \in 1..Len(s), i \notin I
  PROVE  PagesAt(s, I \cup {i}) = PagesAt(s, I) + s[i].pages
<1>1. Slots(s, I \cup {i}) = Slots(s, I) \cup ({i} \X (1..s[i].pages))
  BY DEF Slots
<1>2. Slots(s, I) \cap ({i} \X (1..s[i].pages)) = {}
  BY DEF Slots
<1>3. s[i].pages \in Nat
  BY RangeAt
<1>4. /\ IsFiniteSet({i} \X (1..s[i].pages))
      /\ Cardinality({i} \X (1..s[i].pages)) = s[i].pages
  BY <1>3, RangeSlots
<1>5. IsFiniteSet(Slots(s, I)) /\ PagesAt(s, I) = Cardinality(Slots(s, I))
  BY SlotsFinite
<1> DEFINE S == Slots(s, I)
           T == {i} \X (1..s[i].pages)
<1>6. Cardinality(S \cup T) = Cardinality(S) + Cardinality(T)
  <2> HIDE DEF S, T
  <2>1. IsFiniteSet(S) /\ IsFiniteSet(T) /\ S \cap T = {}
    BY <1>2, <1>4, <1>5 DEF S, T
  <2> QED BY <2>1, Adds
<1>7. PagesAt(s, I \cup {i}) = Cardinality(Slots(s, I \cup {i}))
  <2>1. I \cup {i} \subseteq 1..Len(s)
    OBVIOUS
  <2> QED BY <2>1, SlotsFinite
<1> QED BY <1>1, <1>4, <1>5, <1>6, <1>7

\* Positions whose ranges have the same pages count the same.
LEMMA SamePages ==
  ASSUME NEW s, NEW t, NEW I, \A i \in I : s[i].pages = t[i].pages
  PROVE  PagesAt(s, I) = PagesAt(t, I)
<1>1. {{i} \X (1..s[i].pages) : i \in I} = {{i} \X (1..t[i].pages) : i \in I}
  OBVIOUS
<1> QED BY <1>1 DEF PagesAt

\* More positions do not count less.
LEMMA MorePages ==
  ASSUME NEW s \in Seq(ModestRange), NEW J, J \subseteq 1..Len(s), NEW I, I \subseteq J
  PROVE  PagesAt(s, I) <= PagesAt(s, J)
<1>1. Slots(s, I) \subseteq Slots(s, J)
  BY DEF Slots
<1>2. I \subseteq 1..Len(s)
  OBVIOUS
<1>3. /\ IsFiniteSet(Slots(s, J)) /\ PagesAt(s, J) = Cardinality(Slots(s, J))
      /\ PagesAt(s, I) = Cardinality(Slots(s, I))
  BY <1>2, SlotsFinite
<1> QED BY <1>1, <1>3, FS_Subset

\* The ranges of s at I are those of t at J, one place further from place k on.
MovedUp(s, I, t, J, k) ==
  /\ I \subseteq 1..Len(s) /\ J \subseteq 1..Len(t)
  /\ \A i \in I : /\ i < k => i \in J /\ t[i].pages = s[i].pages
                  /\ i >= k => i + 1 \in J /\ t[i + 1].pages = s[i].pages
  /\ \A j \in J : /\ j < k => j \in I
                  /\ j >= k => j > k /\ j - 1 \in I

\* Ranges move behind an inserted one and count the same there.
LEMMA Shifted ==
  ASSUME NEW s \in Seq(ModestRange), NEW t \in Seq(ModestRange), NEW k \in Nat,
         NEW I, NEW J, MovedUp(s, I, t, J, k)
  PROVE  PagesAt(t, J) = PagesAt(s, I)
<1> DEFINE Moved(i) == IF i < k THEN i ELSE i + 1
           S == Slots(s, I)
           T == Slots(t, J)
           f == [x \in S |-> <<Moved(x[1]), x[2]>>]
<1>1. /\ I \subseteq 1..Len(s) /\ J \subseteq 1..Len(t)
      /\ I \subseteq Nat /\ J \subseteq Nat
      /\ \A i \in I : /\ i < k => i \in J /\ t[i].pages = s[i].pages
                      /\ i >= k => i + 1 \in J /\ t[i + 1].pages = s[i].pages
      /\ \A j \in J : /\ j < k => j \in I
                      /\ j >= k => j > k /\ j - 1 \in I
  BY DEF MovedUp
<1>2. \A x : x \in S <=> \E i \in I : \E n \in 1..s[i].pages : x = <<i, n>>
  BY DEF Slots
<1>3. \A x : x \in T <=> \E j \in J : \E n \in 1..t[j].pages : x = <<j, n>>
  BY DEF Slots
<1>4. ASSUME NEW i \in I PROVE Moved(i) \in J /\ t[Moved(i)].pages = s[i].pages
  <2>1. i < k \/ (i >= k /\ ~(i < k))
    BY <1>1
  <2> QED BY <1>1, <2>1
<1>5. ASSUME NEW i \in I, NEW j \in I, Moved(i) = Moved(j) PROVE i = j
  <2>1. i \in Nat /\ j \in Nat
    BY <1>1
  <2> QED BY <1>5, <2>1
<1>6. ASSUME NEW j \in J PROVE \E i \in I : Moved(i) = j
  <2>1. j \in Nat
    BY <1>1
  <2>2. CASE j < k
    BY <1>1, <2>2
  <2>3. CASE j >= k
    <3>1. j > k /\ j - 1 \in I
      BY <1>1, <2>3
    <3>2. ~(j - 1 < k) /\ (j - 1) + 1 = j
      BY <2>1, <3>1
    <3> QED BY <3>1, <3>2
  <2> QED BY <2>1, <2>2, <2>3
<1> HIDE DEF Moved, S, T
<1>7. f \in [S -> T]
  <2> SUFFICES ASSUME NEW x \in S PROVE <<Moved(x[1]), x[2]>> \in T
    OBVIOUS
  <2>1. PICK i \in I : \E n \in 1..s[i].pages : x = <<i, n>>
    BY <1>2
  <2>2. PICK n \in 1..s[i].pages : x = <<i, n>>
    BY <2>1
  <2>3. n \in 1..t[Moved(i)].pages /\ Moved(i) \in J
    BY <1>4
  <2> QED BY <1>3, <2>2, <2>3
<1>8. ASSUME NEW x \in S, NEW y \in S, f[x] = f[y] PROVE x = y
  <2>1. PICK i \in I : \E n \in 1..s[i].pages : x = <<i, n>>
    BY <1>2
  <2>2. PICK j \in I : \E n \in 1..s[j].pages : y = <<j, n>>
    BY <1>2
  <2>3. PICK n, m : x = <<i, n>> /\ y = <<j, m>>
    BY <2>1, <2>2
  <2>4. f[x] = <<Moved(i), n>> /\ f[y] = <<Moved(j), m>>
    BY <2>3
  <2>5. <<Moved(i), n>> = <<Moved(j), m>>
    BY <1>8, <2>4, Zenon
  <2>6. Moved(i) = Moved(j) /\ n = m
    BY <2>5
  <2> QED BY <1>5, <2>3, <2>6
<1>9. ASSUME NEW y \in T PROVE \E x \in S : f[x] = y
  <2>1. PICK j \in J : \E n \in 1..t[j].pages : y = <<j, n>>
    BY <1>3
  <2>2. PICK n \in 1..t[j].pages : y = <<j, n>>
    BY <2>1
  <2>3. PICK i \in I : Moved(i) = j
    BY <1>6
  <2>4. n \in 1..s[i].pages
    BY <1>4, <2>3
  <2>5. <<i, n>> \in S
    BY <1>2, <2>4
  <2>6. f[<<i, n>>] = y
    BY <2>2, <2>3, <2>5
  <2> QED BY <2>5, <2>6
<1> HIDE DEF f
<1>10. ExistsBijection(S, T)
  BY <1>7, <1>8, <1>9 DEF ExistsBijection, Bijection, Injection, Surjection, IsInjective
<1>11. IsFiniteSet(S) /\ PagesAt(s, I) = Cardinality(S) /\ PagesAt(t, J) = Cardinality(T)
  BY <1>1, SlotsFinite DEF S, T
<1> QED BY <1>10, <1>11, FS_Bijection

\* An unused range inserted into a list adds its pages to those of the list, and none
\* to those in use.
LEMMA InsertedCounts ==
  ASSUME NEW s \in Seq(ModestRange), NEW e \in ModestRange, ~e.used, NEW k \in 1..(Len(s) + 1)
  PROVE  LET t == InsertAt(s, k, e)
         IN /\ t \in Seq(ModestRange)
            /\ PagesAt(t, DOMAIN t) = PagesAt(s, DOMAIN s) + e.pages
            /\ PagesAt(t, UsedAt(t)) = PagesAt(s, UsedAt(s))
<1> DEFINE t == InsertAt(s, k, e)
           n == Len(s)
           others == (1..(n + 1)) \ {k}
<1>1. /\ t \in Seq(ModestRange) /\ Len(t) = n + 1
      /\ \A j \in 1..(n + 1) : t[j] = IF j < k THEN s[j] ELSE IF j = k THEN e ELSE s[j - 1]
  BY InsertAtIs
<1> HIDE DEF t
<1>2. n \in Nat /\ k \in Nat /\ DOMAIN s = 1..n /\ DOMAIN t = 1..(n + 1)
  BY <1>1
<1> HIDE DEF n
<1>3. /\ \A i \in 1..n : i < k => i \in others /\ t[i] = s[i]
      /\ \A i \in 1..n : i >= k => i + 1 \in others /\ t[i + 1] = s[i]
  <2>1. ASSUME NEW i \in 1..n, i < k PROVE i \in others /\ t[i] = s[i]
    <3>1. i \in 1..(n + 1) /\ i # k
      BY <1>2, <2>1
    <3> QED BY <1>1, <2>1, <3>1
  <2>2. ASSUME NEW i \in 1..n, i >= k PROVE i + 1 \in others /\ t[i + 1] = s[i]
    <3>1. i + 1 \in 1..(n + 1) /\ i + 1 # k /\ ~(i + 1 < k) /\ (i + 1) - 1 = i
      BY <1>2, <2>2
    <3> QED BY <1>1, <3>1
  <2> QED BY <2>1, <2>2
<1>4. /\ \A j \in others : j < k => j \in 1..n /\ t[j] = s[j]
      /\ \A j \in others : j >= k => j > k /\ j - 1 \in 1..n /\ t[j] = s[j - 1]
  <2>1. ASSUME NEW j \in others, j < k PROVE j \in 1..n /\ t[j] = s[j]
    <3>1. j \in 1..(n + 1) /\ j \in 1..n
      BY <1>2, <2>1 DEF n
    <3> QED BY <1>1, <2>1, <3>1
  <2>2. ASSUME NEW j \in others, j >= k PROVE j > k /\ j - 1 \in 1..n /\ t[j] = s[j - 1]
    <3>1. j \in 1..(n + 1) /\ j # k /\ j > k /\ ~(j < k) /\ j - 1 \in 1..n
      BY <1>2, <2>2
    <3> QED BY <1>1, <3>1
  <2> QED BY <2>1, <2>2
<1>5. PagesAt(t, others) = PagesAt(s, 1..n)
  <2>1. 1..n \subseteq 1..Len(s) /\ others \subseteq 1..Len(t)
    BY <1>1 DEF n
  <2>2. /\ \A i \in 1..n : i < k => i \in others /\ t[i].pages = s[i].pages
        /\ \A i \in 1..n : i >= k => i + 1 \in others /\ t[i + 1].pages = s[i].pages
        /\ \A j \in others : j < k => j \in 1..n
        /\ \A j \in others : j >= k => j > k /\ j - 1 \in 1..n
    BY <1>3, <1>4
  <2> HIDE DEF others
  <2>3. MovedUp(s, 1..n, t, others, k)
    BY <2>1, <2>2 DEF MovedUp
  <2> QED BY <1>1, <1>2, <2>3, Shifted
<1>6. t[k] = e /\ k \in 1..Len(t) /\ others \subseteq 1..Len(t)
  BY <1>1, <1>2 DEF n
<1>7. PagesAt(t, DOMAIN t) = PagesAt(s, DOMAIN s) + e.pages
  <2>1. DOMAIN t = others \cup {k} /\ k \notin others
    BY <1>2, <1>6
  <2> HIDE DEF others
  <2>2. PagesAt(t, others \cup {k}) = PagesAt(t, others) + t[k].pages
    BY <1>1, <1>6, <2>1, OneMore
  <2> QED BY <1>2, <1>5, <1>6, <2>1, <2>2
<1>8. PagesAt(t, UsedAt(t)) = PagesAt(s, UsedAt(s))
  <2>1. /\ \A i : i \in UsedAt(s) <=> i \in 1..n /\ s[i].used
        /\ \A j : j \in UsedAt(t) <=> j \in others /\ t[j].used
    BY <1>2, <1>6 DEF UsedAt
  <2>2. UsedAt(s) \subseteq 1..Len(s) /\ UsedAt(t) \subseteq 1..Len(t)
    BY <1>1, <1>2, <2>1 DEF n
  <2> HIDE DEF others
  <2>3. /\ \A i \in UsedAt(s) : i < k => i \in UsedAt(t) /\ t[i].pages = s[i].pages
        /\ \A i \in UsedAt(s) : i >= k => i + 1 \in UsedAt(t) /\ t[i + 1].pages = s[i].pages
    BY <1>3, <2>1
  <2>4. /\ \A j \in UsedAt(t) : j < k => j \in UsedAt(s)
        /\ \A j \in UsedAt(t) : j >= k => j > k /\ j - 1 \in UsedAt(s)
    BY <1>4, <2>1
  <2>5. MovedUp(s, UsedAt(s), t, UsedAt(t), k)
    BY <2>2, <2>3, <2>4 DEF MovedUp
  <2>6. t \in Seq(ModestRange) /\ k \in Nat
    BY <1>1, <1>2
  <2> QED BY <2>5, <2>6, Shifted
<1> QED BY <1>1, <1>7, <1>8 DEF t

\* A range added at the end.
LEMMA AppendedCounts ==
  ASSUME NEW s \in Seq(ModestRange), NEW e \in ModestRange, ~e.used
  PROVE  /\ Append(s, e) \in Seq(ModestRange)
         /\ PagesAt(Append(s, e), DOMAIN Append(s, e)) >= PagesAt(s, DOMAIN s)
         /\ PagesAt(Append(s, e), UsedAt(Append(s, e))) = PagesAt(s, UsedAt(s))
<1> DEFINE t == Append(s, e)
           n == Len(s)
<1>1. /\ n \in Nat /\ DOMAIN s = 1..n
      /\ t \in Seq(ModestRange) /\ Len(t) = n + 1 /\ DOMAIN t = 1..(n + 1)
      /\ \A i \in 1..n : t[i] = s[i]
      /\ t[n + 1] = e
  OBVIOUS
<1> HIDE DEF t, n
<1>2. UsedAt(t) = UsedAt(s)
  <2>1. ASSUME NEW i \in 1..(n + 1), t[i].used PROVE i \in 1..n /\ s[i].used
    <3>1. i # n + 1
      BY <1>1, <2>1
    <3>2. i \in 1..n
      BY <1>1, <3>1
    <3> QED BY <1>1, <2>1, <3>2
  <2>2. ASSUME NEW i \in 1..n, s[i].used PROVE i \in 1..(n + 1) /\ t[i].used
    <3>1. i \in 1..(n + 1)
      BY <1>1
    <3> QED BY <1>1, <2>2, <3>1
  <2> QED BY <1>1, <2>1, <2>2 DEF UsedAt
<1>3. PagesAt(t, UsedAt(s)) = PagesAt(s, UsedAt(s))
  <2>1. \A i \in UsedAt(s) : s[i].pages = t[i].pages
    BY <1>1 DEF UsedAt
  <2> QED BY <2>1, SamePages
<1>4. PagesAt(t, 1..n) = PagesAt(s, 1..n)
  <2>1. \A i \in 1..n : s[i].pages = t[i].pages
    BY <1>1
  <2> QED BY <2>1, SamePages
<1>5. PagesAt(t, 1..n) <= PagesAt(t, 1..(n + 1))
  <2>1. 1..n \subseteq 1..(n + 1) /\ 1..(n + 1) \subseteq 1..Len(t)
    BY <1>1
  <2> QED BY <1>1, <2>1, MorePages
<1>6. PagesAt(t, 1..n) \in Nat /\ PagesAt(t, 1..(n + 1)) \in Nat
  <2>1. 1..n \subseteq 1..Len(t) /\ 1..(n + 1) \subseteq 1..Len(t)
    BY <1>1
  <2> QED BY <1>1, <2>1, SlotsFinite
<1> QED BY <1>1, <1>2, <1>3, <1>4, <1>5, <1>6 DEF t

\* A range replaced by another one in its place.
LEMMA ReplacedCounts ==
  ASSUME NEW s \in Seq(ModestRange), NEW i \in 1..Len(s), NEW e \in ModestRange
  PROVE  LET t == ReplaceAt(s, i, e)
         IN /\ t \in Seq(ModestRange) /\ Len(t) = Len(s) /\ t[i] = e
            /\ PagesAt(t, DOMAIN t) + s[i].pages = PagesAt(s, DOMAIN s) + e.pages
            /\ ~s[i].used /\ e.used =>
                 PagesAt(t, UsedAt(t)) = PagesAt(s, UsedAt(s)) + e.pages
            /\ s[i].used /\ ~e.used =>
                 PagesAt(t, UsedAt(t)) + s[i].pages = PagesAt(s, UsedAt(s))
<1> DEFINE t == ReplaceAt(s, i, e)
           n == Len(s)
           others == (1..n) \ {i}
<1>1. /\ n \in Nat /\ DOMAIN s = 1..n
      /\ t \in Seq(ModestRange) /\ Len(t) = n /\ DOMAIN t = 1..n
      /\ \A k \in 1..n : t[k] = IF k = i THEN e ELSE s[k]
  BY DEF ReplaceAt
<1> HIDE DEF t, n
<1>2. i \in 1..n /\ t[i] = e
  BY <1>1 DEF n
<1>3. 1..n = others \cup {i} /\ i \notin others /\ others \subseteq 1..n
  BY <1>2
<1>4. \A k \in others : t[k] = s[k]
  BY <1>1
<1> HIDE DEF others
<1>5. PagesAt(t, others) = PagesAt(s, others)
  <2>1. \A k \in others : s[k].pages = t[k].pages
    BY <1>4
  <2> QED BY <2>1, SamePages
<1>6. /\ PagesAt(s, others \cup {i}) = PagesAt(s, others) + s[i].pages
      /\ PagesAt(s, others) \in Nat /\ s[i].pages \in Nat
  <2>1. others \subseteq 1..Len(s) /\ i \in 1..Len(s)
    BY <1>3 DEF n
  <2> QED BY <1>3, <2>1, OneMore, SlotsFinite, RangeAt
<1>7. /\ PagesAt(t, others \cup {i}) = PagesAt(t, others) + e.pages
      /\ e.pages \in Nat
  <2>1. others \subseteq 1..Len(t) /\ i \in 1..Len(t)
    BY <1>1, <1>2, <1>3
  <2>2. PagesAt(t, others \cup {i}) = PagesAt(t, others) + t[i].pages /\ t[i].pages \in Nat
    BY <1>1, <1>3, <2>1, OneMore, RangeAt
  <2> QED BY <1>2, <2>2
<1>8. PagesAt(t, DOMAIN t) + s[i].pages = PagesAt(s, DOMAIN s) + e.pages
  <2>1. DOMAIN t = others \cup {i} /\ DOMAIN s = others \cup {i}
    BY <1>1, <1>3
  <2>2. /\ PagesAt(t, DOMAIN t) = PagesAt(t, others) + e.pages
        /\ PagesAt(s, DOMAIN s) = PagesAt(s, others) + s[i].pages
    BY <1>6, <1>7, <2>1, Zenon
  <2> QED BY <1>5, <1>6, <1>7, <2>2
<1> DEFINE used == {k \in others : s[k].used}
<1>9. /\ UsedAt(s) = IF s[i].used THEN used \cup {i} ELSE used
      /\ UsedAt(t) = IF e.used THEN used \cup {i} ELSE used
  <2>1. /\ \A k \in others : k \in 1..n /\ k # i
        /\ \A k \in 1..n : k \in others \/ k = i
    BY <1>3
  <2>2. /\ \A k : k \in UsedAt(s) <=> k \in 1..n /\ s[k].used
        /\ \A k : k \in UsedAt(t) <=> k \in 1..n /\ t[k].used
    BY <1>1 DEF UsedAt
  <2>3. \A k : k \in UsedAt(s) <=> (k \in others /\ s[k].used) \/ (k = i /\ s[i].used)
    BY <1>2, <2>1, <2>2, Zenon
  <2>4. \A k : k \in UsedAt(t) <=> (k \in others /\ s[k].used) \/ (k = i /\ e.used)
    BY <1>2, <1>4, <2>1, <2>2, Zenon
  <2> QED BY <2>3, <2>4
<1>10. used \subseteq others
  OBVIOUS
<1> HIDE DEF used
<1>11. PagesAt(t, used) = PagesAt(s, used)
  <2>1. \A k \in used : s[k].pages = t[k].pages
    BY <1>4, <1>10
  <2> QED BY <2>1, SamePages
<1>12. /\ PagesAt(s, used \cup {i}) = PagesAt(s, used) + s[i].pages
       /\ PagesAt(s, used) \in Nat
  <2>1. used \subseteq 1..Len(s) /\ i \in 1..Len(s) /\ i \notin used
    BY <1>3, <1>10 DEF n
  <2> QED BY <2>1, OneMore, SlotsFinite
<1>13. PagesAt(t, used \cup {i}) = PagesAt(t, used) + e.pages
  <2>1. used \subseteq 1..Len(t) /\ i \in 1..Len(t) /\ i \notin used
    BY <1>1, <1>2, <1>3, <1>10
  <2>2. PagesAt(t, used \cup {i}) = PagesAt(t, used) + t[i].pages
    BY <1>1, <2>1, OneMore
  <2> QED BY <1>2, <2>2
<1>14. ~s[i].used /\ e.used => PagesAt(t, UsedAt(t)) = PagesAt(s, UsedAt(s)) + e.pages
  BY <1>9, <1>11, <1>13
<1>15. s[i].used /\ ~e.used => PagesAt(t, UsedAt(t)) + s[i].pages = PagesAt(s, UsedAt(s))
  BY <1>9, <1>11, <1>12
<1> QED BY <1>1, <1>2, <1>8, <1>14, <1>15 DEF t, n

\* A free range counts among those that are not in use.
LEMMA FreePages ==
  ASSUME NEW s \in Seq(ModestRange), NEW i \in 1..Len(s), ~s[i].used
  PROVE  PagesAt(s, UsedAt(s)) + s[i].pages <= PagesAt(s, DOMAIN s)
<1>1. UsedAt(s) \subseteq 1..Len(s) /\ i \notin UsedAt(s) /\ DOMAIN s = 1..Len(s)
  BY DEF UsedAt
<1>2. PagesAt(s, UsedAt(s) \cup {i}) = PagesAt(s, UsedAt(s)) + s[i].pages
  BY <1>1, OneMore
<1>3. UsedAt(s) \cup {i} \subseteq 1..Len(s)
  BY <1>1
<1>4. PagesAt(s, UsedAt(s) \cup {i}) <= PagesAt(s, 1..Len(s))
  BY <1>3, MorePages
<1> QED BY <1>1, <1>2, <1>4

\* A grant of n pages out of a free range that is long enough.
LEMMA TakeCounts ==
  ASSUME NEW s \in Seq(ModestRange), NEW i \in 1..Len(s), ~s[i].used,
         NEW n \in 1..(DWord - 1), s[i].pages >= n
  PROVE  /\ Take(s, i, n) \in Seq(ModestRange)
         /\ PagesAt(Take(s, i, n), DOMAIN Take(s, i, n)) = PagesAt(s, DOMAIN s)
         /\ PagesAt(Take(s, i, n), UsedAt(Take(s, i, n))) = PagesAt(s, UsedAt(s)) + n
         /\ n <= PagesAt(s, DOMAIN s) - PagesAt(s, UsedAt(s))
<1> DEFINE r == s[i]
           totals == PagesAt(s, DOMAIN s)
           uses == PagesAt(s, UsedAt(s))
<1>1. /\ r \in RangeType /\ r \in AlignedRange /\ Aligned(r)
      /\ r.pages \in Nat /\ r.pages <= DWord \div 2 /\ DWord \div 2 \in Nat /\ n \in Nat
      /\ 1 <= n
  BY RangeAt, Moduli DEF AlignedRange
<1>2. Remain(r, n) = r.pages - n
  BY <1>1 DEF Remain
<1>3. totals \in Nat /\ uses \in Nat
  <2>1. DOMAIN s \subseteq 1..Len(s) /\ UsedAt(s) \subseteq 1..Len(s)
    BY DEF UsedAt
  <2> QED BY <2>1, SlotsFinite
<1>4. n <= totals - uses
  <2>1. uses + r.pages <= totals
    BY FreePages
  <2> HIDE DEF totals, uses, r
  <2> QED BY <1>1, <1>3, <2>1 DEF r
<1>5. CASE r.pages - n > 0
  <2> DEFINE e == Range32(r.base, n, TRUE)
             t == ReplaceAt(s, i, e)
             rest == Splitter(r, n)
  <2>1. e \in ModestRange /\ e.used /\ e.pages = n
    <3>1. e \in AlignedRange
      BY <1>1, Moduli DEF Range32, AlignedRange, RangeType, Aligned
    <3>2. e.used /\ e.pages = n
      BY DEF Range32
    <3>3. n <= DWord \div 2
      BY <1>1
    <3>4. Modest(e)
      BY <1>1, <3>2, <3>3 DEF Modest
    <3> QED BY <3>1, <3>2, <3>4 DEF ModestRange
  <2>2. rest \in ModestRange /\ ~rest.used /\ rest.pages = r.pages - n
    <3>1. rest \in AlignedRange
      BY <1>1, <1>2, <1>5, SplitterAligned
    <3>2. ~rest.used /\ rest.pages = r.pages - n
      BY <1>2 DEF Splitter, Range32
    <3>3. r.pages - n <= DWord \div 2
      BY <1>1
    <3>4. Modest(rest)
      BY <3>2, <3>3 DEF Modest
    <3> QED BY <3>1, <3>2, <3>4 DEF ModestRange
  <2>3. Take(s, i, n) = InsertAt(t, i + 1, rest)
    BY <1>2, <1>5 DEF Take
  <2> HIDE DEF e, rest
  <2>4. /\ t \in Seq(ModestRange) /\ Len(t) = Len(s)
        /\ PagesAt(t, DOMAIN t) + r.pages = totals + n
        /\ PagesAt(t, UsedAt(t)) = uses + n
    BY <2>1, ReplacedCounts
  <2> HIDE DEF t
  <2>5. i + 1 \in 1..(Len(t) + 1)
    BY <2>4
  <2>6. /\ InsertAt(t, i + 1, rest) \in Seq(ModestRange)
        /\ PagesAt(InsertAt(t, i + 1, rest), DOMAIN InsertAt(t, i + 1, rest))
             = PagesAt(t, DOMAIN t) + rest.pages
        /\ PagesAt(InsertAt(t, i + 1, rest), UsedAt(InsertAt(t, i + 1, rest)))
             = PagesAt(t, UsedAt(t))
    BY <2>2, <2>4, <2>5, InsertedCounts
  <2>7. PagesAt(t, DOMAIN t) \in Nat
    <3>1. DOMAIN t \subseteq 1..Len(t)
      BY <2>4
    <3> QED BY <2>4, <3>1, SlotsFinite
  <2>8. PagesAt(t, DOMAIN t) + rest.pages = totals
    <3>1. /\ r.pages \in Nat /\ n \in Nat
          /\ rest.pages = r.pages - n
          /\ PagesAt(t, DOMAIN t) + r.pages = totals + n
      BY <1>1, <2>2, <2>4
    <3> DEFINE now == PagesAt(t, DOMAIN t)
               pages == r.pages
               left == rest.pages
    <3> HIDE DEF totals, r, now, pages, left
    <3>2. now \in Nat /\ pages \in Nat /\ left = pages - n /\ now + pages = totals + n
      BY <2>7, <3>1 DEF now, pages, left
    <3>3. now + left = totals
      BY <1>3, <3>1, <3>2
    <3> QED BY <3>3 DEF now, left
  <2> QED BY <1>4, <2>3, <2>4, <2>6, <2>8
<1>6. CASE ~(r.pages - n > 0)
  <2> DEFINE e == [r EXCEPT !.used = TRUE]
             t == ReplaceAt(s, i, e)
  <2>1. r.pages = n
    BY <1>1, <1>6
  <2>2. e \in ModestRange /\ e.used /\ e.pages = n
    <3>1. e \in AlignedRange
      BY <1>1 DEF AlignedRange, RangeType, Aligned
    <3>2. e.used /\ e.pages = n
      BY <1>1, <2>1 DEF RangeType
    <3>3. Modest(e)
      BY <1>1, <2>1, <3>2 DEF Modest
    <3> QED BY <3>1, <3>2, <3>3 DEF ModestRange
  <2>3. Take(s, i, n) = t
    BY <1>2, <1>6 DEF Take
  <2> HIDE DEF e
  <2>4. /\ t \in Seq(ModestRange)
        /\ PagesAt(t, DOMAIN t) + r.pages = totals + n
        /\ PagesAt(t, UsedAt(t)) = uses + n
    BY <2>2, ReplacedCounts
  <2>5. PagesAt(t, DOMAIN t) \in Nat
    <3>1. DOMAIN t \subseteq 1..Len(t)
      BY <2>4
    <3> QED BY <2>4, <3>1, SlotsFinite
  <2>6. PagesAt(t, DOMAIN t) = totals
    <3> HIDE DEF totals, r, t
    <3> QED BY <1>1, <1>3, <2>1, <2>4, <2>5
  <2> QED BY <1>4, <2>3, <2>4, <2>6
<1> QED BY <1>5, <1>6

-----------------------------------------------------------------------------
(* Every step of the pool is one of the ledger's. *)

\* The inductive invariant of the refinement.
ListsModest == ranges \in [Pools -> Seq(ModestRange)]

Total == [p \in Pools |-> PagesAt(ranges[p], DOMAIN ranges[p])]
InUse == [p \in Pools |-> PagesAt(ranges[p], UsedAt(ranges[p]))]

\* A modest list is one of aligned ranges.
LEMMA ModestLists ==
  ASSUME ListsModest, NEW p \in Pools
  PROVE  /\ ranges[p] \in Seq(ModestRange) /\ ranges[p] \in Seq(AlignedRange)
         /\ Total[p] = PagesAt(ranges[p], DOMAIN ranges[p])
         /\ InUse[p] = PagesAt(ranges[p], UsedAt(ranges[p]))
         /\ Total[p] \in Nat /\ InUse[p] \in Nat
<1>1. ranges[p] \in Seq(ModestRange)
  BY DEF ListsModest
<1>2. ModestRange \subseteq AlignedRange
  BY DEF ModestRange
<1>3. ranges[p] \in Seq(AlignedRange)
  BY <1>1, <1>2
<1>4. /\ Total[p] = PagesAt(ranges[p], DOMAIN ranges[p])
      /\ InUse[p] = PagesAt(ranges[p], UsedAt(ranges[p]))
  BY DEF Total, InUse
<1>5. /\ DOMAIN ranges[p] \subseteq 1..Len(ranges[p])
      /\ UsedAt(ranges[p]) \subseteq 1..Len(ranges[p])
  BY <1>1 DEF UsedAt
<1> QED BY <1>1, <1>3, <1>4, <1>5, SlotsFinite

\* What replacing the list of one pool does to the books.
LEMMA BooksChange ==
  ASSUME ListsModest, NEW p \in Pools, NEW list \in Seq(ModestRange),
         ranges' = [ranges EXCEPT ![p] = list]
  PROVE  /\ ListsModest'
         /\ Total' = [Total EXCEPT ![p] = PagesAt(list, DOMAIN list)]
         /\ InUse' = [InUse EXCEPT ![p] = PagesAt(list, UsedAt(list))]
<1>1. /\ ranges \in [Pools -> Seq(ModestRange)]
      /\ ranges'[p] = list /\ \A q \in Pools \ {p} : ranges'[q] = ranges[q]
  BY DEF ListsModest
<1>2. ListsModest'
  BY <1>1 DEF ListsModest
<1>3. Total' = [q \in Pools |-> PagesAt(ranges'[q], DOMAIN ranges'[q])]
  BY DEF Total
<1>4. InUse' = [q \in Pools |-> PagesAt(ranges'[q], UsedAt(ranges'[q]))]
  BY DEF InUse
<1>5. Total' = [Total EXCEPT ![p] = PagesAt(list, DOMAIN list)]
  BY <1>1, <1>3 DEF Total
<1>6. InUse' = [InUse EXCEPT ![p] = PagesAt(list, UsedAt(list))]
  BY <1>1, <1>4 DEF InUse
<1> QED BY <1>2, <1>5, <1>6

\* The steps of the ledger, over the pool's books.
Added(p) ==
  /\ Total'[p] >= Total[p]
  /\ Total' = [Total EXCEPT ![p] = Total'[p]]
  /\ reply'.pages = 0
  /\ InUse' = InUse
Granted(p) ==
  /\ reply'.pages \in 1..(Total[p] - InUse[p])
  /\ InUse' = [InUse EXCEPT ![p] = @ + reply'.pages]
  /\ Total' = Total
Returned(p) ==
  /\ reply'.pages \in 1..InUse[p]
  /\ InUse' = [InUse EXCEPT ![p] = @ - reply'.pages]
  /\ Total' = Total
Refused == reply'.pages = 0 /\ Total' = Total /\ InUse' = InUse
Copied(p, q) ==
  /\ Total' = [Total EXCEPT ![p] = IF p = q THEN 0 ELSE Total[q]]
  /\ InUse' = [InUse EXCEPT ![p] = IF p = q THEN 0 ELSE InUse[q]]
  /\ reply'.pages = 0
Untouched == reply'.pages = reply.pages /\ Total' = Total /\ InUse' = InUse

\* They are the ledger's own.
LEMMA LedgerSteps ==
  /\ \A p \in Pools : Added(p) \/ Granted(p) \/ Returned(p) => Ledger!Next
  /\ \A p, q \in Pools : Copied(p, q) => Ledger!Next
  /\ Refused => Ledger!Next
BY DEF Added, Granted, Returned, Copied, Refused, Total, InUse, Ledger!Next, Ledger!Add,
       Ledger!Grant, Ledger!Return, Ledger!Copy, Ledger!Refuse

\* A new area adds pages to its pool, and a refused one nothing.
LEMMA AddRangeCounts ==
  ASSUME ListsModest, NEW p \in Pools, NEW a \in Areas, AddRange(p, a[1], a[2])
  PROVE  ListsModest' /\ Ledger!Next
<1> DEFINE len == (a[2] - a[1] + 1) % AddressSpace
<1>1. len \in Nat
  <2>1. a[2] - a[1] + 1 \in Int
    BY AreasAssumption
  <2> QED BY <2>1, Moduli
<1>2. reply'.pages = 0
  BY DEF AddRange, Reply
<1>3. CASE ranges' = ranges
  <2>1. ListsModest' /\ Refused
    BY <1>2, <1>3 DEF ListsModest, Refused, Total, InUse
  <2> QED BY <2>1, LedgerSteps
<1>4. CASE /\ a[1] % PageSize = 0
           /\ ranges' = [ranges EXCEPT ![p] = Append(@, MakeRange(a[1], len))]
  <2> DEFINE e == MakeRange(a[1], len)
  <2>1. e \in ModestRange /\ ~e.used
    <3>1. e \in AlignedRange
      BY <1>1, <1>4, MakeRangeType
    <3>2. e.pages <= DWord \div 2
      BY AreaPagesAssumption
    <3>3. ~e.used
      BY DEF MakeRange, Range32
    <3> QED BY <3>1, <3>2, <3>3 DEF ModestRange, Modest
  <2> HIDE DEF e
  <2> DEFINE s == ranges[p]
             t == Append(s, e)
  <2>2. /\ s \in Seq(ModestRange)
        /\ Total[p] = PagesAt(s, DOMAIN s) /\ InUse[p] = PagesAt(s, UsedAt(s))
    BY ModestLists
  <2> HIDE DEF s
  <2>3. /\ t \in Seq(ModestRange)
        /\ PagesAt(t, DOMAIN t) >= PagesAt(s, DOMAIN s)
        /\ PagesAt(t, UsedAt(t)) = PagesAt(s, UsedAt(s))
    BY <2>1, <2>2, AppendedCounts
  <2>4. ranges' = [ranges EXCEPT ![p] = t]
    BY <1>4 DEF e, s
  <2> HIDE DEF t
  <2>5. /\ ListsModest'
        /\ Total' = [Total EXCEPT ![p] = PagesAt(t, DOMAIN t)]
        /\ InUse' = [InUse EXCEPT ![p] = PagesAt(t, UsedAt(t))]
    BY <2>3, <2>4, BooksChange
  <2>6. Total'[p] = PagesAt(t, DOMAIN t) /\ InUse' = InUse
    BY <2>2, <2>3, <2>5 DEF Total, InUse
  <2>7. Added(p)
    BY <1>2, <2>2, <2>3, <2>5, <2>6 DEF Added
  <2> QED BY <2>5, <2>7, LedgerSteps
<1> QED BY <1>3, <1>4 DEF AddRange

\* A grant takes as many pages as were asked for, at least one, out of those not in use.
LEMMA AllocateCounts ==
  ASSUME ListsModest, NEW p \in Pools, NEW m \in PageCounts, Allocate(p, m)
  PROVE  ListsModest' /\ Ledger!Next
<1> DEFINE n == IF m = 0 THEN 1 ELSE m
           s == ranges[p]
           i == FirstFit(s, n)
           t == Take(s, i, n)
<1>1. n \in 1..(DWord - 1)
  BY AreasAssumption, PageSizeAssumption
<1>2. ranges' = [ranges EXCEPT ![p] = t] /\ reply'.pages = n /\ i # 0
  BY DEF Allocate, Reply
<1>3. /\ s \in Seq(ModestRange) /\ s \in Seq(AlignedRange)
      /\ Total[p] = PagesAt(s, DOMAIN s) /\ InUse[p] = PagesAt(s, UsedAt(s))
      /\ Total[p] \in Nat /\ InUse[p] \in Nat
  BY ModestLists
<1> HIDE DEF n, s
<1>4. i \in 1..Len(s) /\ s[i].pages >= n /\ ~s[i].used
  BY <1>2, <1>3, FirstFitFinds
<1> HIDE DEF i
<1>5. /\ t \in Seq(ModestRange)
      /\ PagesAt(t, DOMAIN t) = PagesAt(s, DOMAIN s)
      /\ PagesAt(t, UsedAt(t)) = PagesAt(s, UsedAt(s)) + n
      /\ n <= PagesAt(s, DOMAIN s) - PagesAt(s, UsedAt(s))
  BY <1>1, <1>3, <1>4, TakeCounts
<1> HIDE DEF t
<1>6. /\ ListsModest'
      /\ Total' = [Total EXCEPT ![p] = PagesAt(t, DOMAIN t)]
      /\ InUse' = [InUse EXCEPT ![p] = PagesAt(t, UsedAt(t))]
  BY <1>2, <1>5, BooksChange
<1>7. Total' = Total
  BY <1>3, <1>5, <1>6 DEF Total
<1>8. InUse' = [InUse EXCEPT ![p] = @ + n]
  BY <1>3, <1>5, <1>6
<1>9. n \in 1..(Total[p] - InUse[p])
  BY <1>1, <1>3, <1>5
<1>10. Granted(p)
  BY <1>2, <1>7, <1>8, <1>9 DEF Granted
<1> QED BY <1>6, <1>10, LedgerSteps

\* Free gives back the pages of one used range, which are what it reports.
LEMMA FreeCounts ==
  ASSUME ListsModest, NEW p \in Pools, NEW b \in FreeBases, Free(p, b)
  PROVE  ListsModest' /\ Ledger!Next
<1> DEFINE s == ranges[p]
           i == FirstAt(s, b)
           e == [s[i] EXCEPT !.used = FALSE]
           t == ReplaceAt(s, i, e)
<1>1. /\ i # 0 /\ s[i].used /\ reply'.pages = s[i].pages
      /\ ranges' = [ranges EXCEPT ![p] = Merge([@ EXCEPT ![i].used = FALSE])]
  BY DEF Free, Reply
<1>2. /\ s \in Seq(ModestRange) /\ s \in Seq(AlignedRange)
      /\ Total[p] = PagesAt(s, DOMAIN s) /\ InUse[p] = PagesAt(s, UsedAt(s))
      /\ Total[p] \in Nat /\ InUse[p] \in Nat
  BY ModestLists
<1>3. i \in 1..Len(s)
  BY <1>1, <1>2, FirstAtFinds
<1>4. ranges' = [ranges EXCEPT ![p] = Merge(t)]
  <2>1. t = [s EXCEPT ![i].used = FALSE]
    BY <1>3 DEF ReplaceAt
  <2> QED BY <1>1, <2>1
<1> HIDE DEF s, i
<1>5. s[i] \in ModestRange /\ s[i] \in AlignedRange /\ s[i].pages \in Nat /\ s[i].pages >= 1
  BY <1>1, <1>2, <1>3, RangeAt
<1>6. e \in ModestRange /\ e \in AlignedRange /\ ~e.used /\ e.pages = s[i].pages
  <2>1. e \in AlignedRange /\ ~e.used /\ e.pages = s[i].pages
    BY <1>5 DEF AlignedRange, RangeType, Aligned
  <2> QED BY <1>5, <2>1 DEF ModestRange, Modest
<1> HIDE DEF e
<1>7. /\ t \in Seq(ModestRange)
      /\ PagesAt(t, DOMAIN t) + s[i].pages = PagesAt(s, DOMAIN s) + e.pages
      /\ PagesAt(t, UsedAt(t)) + s[i].pages = PagesAt(s, UsedAt(s))
  BY <1>1, <1>2, <1>3, <1>6, ReplacedCounts
<1>8. t \in Seq(AlignedRange)
  BY <1>2, <1>3, <1>6, ReplaceAtType
<1> HIDE DEF t
<1>9. ranges' = [ranges EXCEPT ![p] = t]
  BY <1>4, <1>8, MergeIsIdentity
<1>10. /\ ListsModest'
       /\ Total' = [Total EXCEPT ![p] = PagesAt(t, DOMAIN t)]
       /\ InUse' = [InUse EXCEPT ![p] = PagesAt(t, UsedAt(t))]
  BY <1>7, <1>9, BooksChange
<1>11. PagesAt(t, DOMAIN t) \in Nat /\ PagesAt(t, UsedAt(t)) \in Nat
  <2>1. DOMAIN t \subseteq 1..Len(t) /\ UsedAt(t) \subseteq 1..Len(t)
    BY <1>7 DEF UsedAt
  <2> QED BY <1>7, <2>1, SlotsFinite
<1>12. /\ PagesAt(t, DOMAIN t) = Total[p]
       /\ PagesAt(t, UsedAt(t)) = InUse[p] - s[i].pages
       /\ s[i].pages \in 1..InUse[p]
  BY <1>2, <1>5, <1>6, <1>7, <1>11
<1>13. Total' = Total
  BY <1>10, <1>12 DEF Total
<1>14. InUse' = [InUse EXCEPT ![p] = @ - s[i].pages]
  BY <1>10, <1>12
<1>15. Returned(p)
  BY <1>1, <1>12, <1>13, <1>14 DEF Returned
<1> QED BY <1>10, <1>15, LedgerSteps

\* An empty list has no pages.
LEMMA EmptyCounts ==
  /\ <<>> \in Seq(ModestRange)
  /\ PagesAt(<<>>, DOMAIN <<>>) = 0 /\ PagesAt(<<>>, UsedAt(<<>>)) = 0
<1>1. <<>> \in Seq(ModestRange) /\ DOMAIN <<>> = {}
  OBVIOUS
<1>2. UsedAt(<<>>) = {}
  BY <1>1 DEF UsedAt
<1>3. PagesAt(<<>>, {}) = 0
  <2>1. UNION {{i} \X (1..<<>>[i].pages) : i \in {}} = {}
    OBVIOUS
  <2> QED BY <2>1, FS_EmptySet DEF PagesAt
<1> QED BY <1>1, <1>2, <1>3, Zenon

\* An emptied pool, or one that holds a copy of another's list, has no pages or the other's.
LEMMA CopyCounts ==
  ASSUME ListsModest, NEW p \in Pools, NEW q \in Pools,
         ranges' = [ranges EXCEPT ![p] = IF p = q THEN <<>> ELSE ranges[q]], reply'.pages = 0
  PROVE  ListsModest' /\ Ledger!Next
<1> DEFINE t == IF p = q THEN <<>> ELSE ranges[q]
<1>1. /\ t \in Seq(ModestRange)
      /\ PagesAt(t, DOMAIN t) = IF p = q THEN 0 ELSE Total[q]
      /\ PagesAt(t, UsedAt(t)) = IF p = q THEN 0 ELSE InUse[q]
  <2>1. CASE p = q
    BY <2>1, EmptyCounts
  <2>2. CASE p # q
    BY <2>2, ModestLists
  <2> QED BY <2>1, <2>2
<1>2. ranges' = [ranges EXCEPT ![p] = t]
  OBVIOUS
<1> HIDE DEF t
<1>3. /\ ListsModest'
      /\ Total' = [Total EXCEPT ![p] = PagesAt(t, DOMAIN t)]
      /\ InUse' = [InUse EXCEPT ![p] = PagesAt(t, UsedAt(t))]
  BY <1>1, <1>2, BooksChange
<1>4. Copied(p, q)
  BY <1>1, <1>3 DEF Copied
<1> QED BY <1>3, <1>4, LedgerSteps

\* Every operation is a step of the ledger, or leaves the books as they are.
LEMMA StepCounts ==
  ASSUME ListsModest, NEW p \in Pools, Operation(p)
  PROVE  ListsModest' /\ (Ledger!Next \/ Untouched)
<1>1. ASSUME UNCHANGED ranges, reply'.pages = 0 PROVE ListsModest' /\ Ledger!Next
  <2>1. ListsModest' /\ Refused
    BY <1>1 DEF ListsModest, Refused, Total, InUse
  <2> QED BY <2>1, LedgerSteps
<1>2. ASSUME NEW n \in PageCounts, AllocateExhausted(p, n) PROVE ListsModest' /\ Untouched
  <2>1. ranges' = ranges /\ reply' = reply
    BY <1>2 DEF AllocateExhausted
  <2> QED BY <2>1 DEF ListsModest, Untouched, Total, InUse
<1>3. ASSUME NEW b \in FreeBases, FreeMissing(p, b) \/ FreeNotInUse(p, b) \/ Find(p, b)
      PROVE  ListsModest' /\ Ledger!Next
  <2>1. UNCHANGED ranges /\ reply'.pages = 0
    BY <1>3 DEF FreeMissing, FreeNotInUse, Find, Reply
  <2> QED BY <1>1, <2>1
<1>4. ASSUME Dump(p) PROVE ListsModest' /\ Ledger!Next
  <2>1. UNCHANGED ranges /\ reply'.pages = 0
    BY <1>4 DEF Dump, Reply
  <2> QED BY <1>1, <2>1
<1>5. ASSUME ReleaseRanges(p) PROVE ListsModest' /\ Ledger!Next
  <2>1. /\ ranges' = [ranges EXCEPT ![p] = IF p = p THEN <<>> ELSE ranges[p]]
        /\ reply'.pages = 0
    BY <1>5 DEF ReleaseRanges, Reply
  <2> QED BY <2>1, CopyCounts
<1>6. ASSUME NEW q \in Pools, CloneRanges(p, q) PROVE ListsModest' /\ Ledger!Next
  <2>1. /\ ranges' = [ranges EXCEPT ![p] = IF p = q THEN <<>> ELSE ranges[q]]
        /\ reply'.pages = 0
    BY <1>6 DEF CloneRanges, Reply
  <2> QED BY <2>1, CopyCounts
<1> QED
  BY <1>2, <1>3, <1>4, <1>5, <1>6, AddRangeCounts, AllocateCounts, FreeCounts DEF Operation

\* The pools keep the books of PageLedger: whatever is requested, a pool never loses or
\* invents a page, a grant takes what was asked for out of what is free, and Free reports
\* exactly what becomes free.
THEOREM PoolKeepsLedger == Spec => LedgerSpec
<1>1. Init => ListsModest /\ Ledger!Init
  <2> SUFFICES ASSUME Init PROVE ListsModest /\ Ledger!Init
    OBVIOUS
  <2>1. \A p \in Pools : ranges[p] = <<>>
    BY DEF Init
  <2>2. ListsModest
    BY EmptyCounts DEF Init, ListsModest
  <2>3. reply.pages = 0
    BY DEF Init, Reply
  <2>4. Total = [p \in Pools |-> 0] /\ InUse = [p \in Pools |-> 0]
    BY <2>1, EmptyCounts DEF Total, InUse
  <2> QED BY <2>2, <2>3, <2>4 DEF Ledger!Init, Total, InUse
<1>2. ListsModest /\ [Next]_vars =>
        ListsModest' /\ [Ledger!Next]_<<Total, InUse, reply.pages>>
  <2> SUFFICES ASSUME ListsModest, [Next]_vars
               PROVE  ListsModest' /\ [Ledger!Next]_<<Total, InUse, reply.pages>>
    OBVIOUS
  <2>1. CASE UNCHANGED vars
    BY <2>1 DEF vars, ListsModest, Total, InUse
  <2>2. CASE Next
    BY <2>2, StepCounts DEF Next, Untouched
  <2> QED BY <2>1, <2>2
<1> QED BY <1>1, <1>2, PTL DEF Spec, LedgerSpec, Ledger!Spec, Total, InUse
=============================================================================
