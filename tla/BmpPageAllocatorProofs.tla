----------------------- MODULE BmpPageAllocatorProofs -----------------------
(***************************************************************************)
(* The bitmap of physical pages, for every dword width, storage, memory    *)
(* map and request: what Initialize leaves clear is usable, s_nUsed        *)
(* follows the bits, page 0 is never granted, a page asked for alone is    *)
(* the first clear one or refused when the machine's pages are spent, and  *)
(* the search by dwords misses no run.                                     *)
(*                                                                         *)
(* The memory map and the three searches are gone through by recursive     *)
(* functions.  Each step of a search goes on at a later dword or bit, so   *)
(* the points of the search have ranks that sink: that the recursion has a *)
(* solution (Solvable), and what the solution answers (ByRank), both       *)
(* follow the ranks.                                                       *)
(***************************************************************************)
EXTENDS BmpPageAllocator, FiniteSetTheorems, WellFoundedInduction, TLAPS

-----------------------------------------------------------------------------
(* Recursive functions whose calls go down in rank. *)

\* A non-empty set of numbers has a least one.
LEMMA MinExists ==
  ASSUME NEW I, I \subseteq Nat, I # {}
  PROVE  Min(I) \in I /\ \A k \in I : Min(I) <= k
<1> DEFINE Less == {pair \in Nat \X Nat : pair[1] < pair[2]}
<1>1. IsWellFoundedOn(Less, Nat)
  BY NatLessThanWellFounded DEF OpToRel
<1>2. \A x, y \in Nat : <<y, x>> \in Less <=> y < x
  OBVIOUS
<1> HIDE DEF Less
<1>3. PICK x \in I : \A y \in I : <<y, x>> \notin Less
  BY <1>1, WFMin
<1>4. ASSUME NEW y \in I PROVE x <= y
  <2>1. x \in Nat /\ y \in Nat
    OBVIOUS
  <2>2. ~(y < x)
    BY <1>2, <1>3, <2>1
  <2> QED BY <2>1, <2>2
<1> QED BY <1>3, <1>4 DEF Min

LEMMA Predecessor == \A k \in Nat : k # 0 => k - 1 \in Nat /\ k - 1 < k /\ (k - 1) + 1 = k
OBVIOUS

\* S holds an element of D when it holds all those of lower rank.
Inductive(D, rank, S) == \A x \in D : (\A y \in D : rank[y] < rank[x] => y \in S) => x \in S

\* Then it holds them all.
LEMMA ByRank ==
  ASSUME NEW D, NEW rank \in [D -> Nat], NEW S, Inductive(D, rank, S)
  PROVE  \A x \in D : x \in S
<1> SUFFICES ASSUME NEW z \in D, z \notin S PROVE FALSE
  OBVIOUS
<1> DEFINE ranks == {rank[x] : x \in {y \in D : y \notin S}}
<1>1. ranks \subseteq Nat /\ ranks # {}
  OBVIOUS
<1>2. Min(ranks) \in ranks /\ \A k \in ranks : Min(ranks) <= k
  <2> HIDE DEF ranks
  <2> QED BY <1>1, MinExists
<1>3. PICK x \in D : x \notin S /\ rank[x] = Min(ranks)
  BY <1>2
<1>4. ASSUME NEW y \in D, rank[y] < rank[x] PROVE y \in S
  <2> SUFFICES ASSUME y \notin S PROVE FALSE
    OBVIOUS
  <2>1. rank[y] \in ranks
    OBVIOUS
  <2>2. rank[x] <= rank[y]
    BY <1>2, <1>3, <2>1
  <2> QED BY <1>4, <2>2
<1> QED BY <1>3, <1>4 DEF Inductive

\* What Body says of x depends on f at lower ranks only.
LooksDown(D, V, rank, Body) ==
  /\ Body \in [[D -> V] \X D -> V]
  /\ \A f, g \in [D -> V] : \A x \in D :
    (\A y \in D : rank[y] < rank[x] => f[y] = g[y]) => Body[<<f, x>>] = Body[<<g, x>>]

\* Ranks do not exceed M.
Below(D, rank, M) == rank \in [D -> 0..M]

\* f follows the recursion up to a rank.
Follows(f, D, rank, Body, k) == \A x \in D : rank[x] < k => f[x] = Body[<<f, x>>]

\* A function to V that obeys the whole recursion.
Obeys(D, V, Body) == \E f \in [D -> V] : \A x \in D : f[x] = Body[<<f, x>>]

\* A recursion that only looks down has a solution.
LEMMA Solvable ==
  ASSUME NEW D, NEW V, V # {}, NEW M \in Nat, NEW rank, Below(D, rank, M),
         NEW Body, LooksDown(D, V, rank, Body)
  PROVE  Obeys(D, V, Body)
<1> DEFINE S == {k \in Nat : \E f \in [D -> V] : Follows(f, D, rank, Body, k)}
           Self == [k \in Nat |-> k]
<1>0. rank \in [D -> 0..M] /\ Body \in [[D -> V] \X D -> V]
  BY DEF Below, LooksDown
<1>1. 0 \in S
  <2>1. PICK v \in V : TRUE
    OBVIOUS
  <2>2. [x \in D |-> v] \in [D -> V]
    OBVIOUS
  <2>3. Follows([x \in D |-> v], D, rank, Body, 0)
    <3>1. \A x \in D : ~(rank[x] < 0)
      BY <1>0
    <3> QED BY <3>1 DEF Follows
  <2> QED BY <2>2, <2>3
<1>2. ASSUME NEW k \in S PROVE k + 1 \in S
  <2>1. PICK f \in [D -> V] : Follows(f, D, rank, Body, k)
    OBVIOUS
  <2> DEFINE g == [x \in D |-> IF rank[x] < k THEN f[x] ELSE Body[<<f, x>>]]
  <2>2. g \in [D -> V]
    BY <1>0
  <2>3. ASSUME NEW x \in D, rank[x] < k + 1 PROVE g[x] = Body[<<g, x>>]
    <3>1. \A y \in D : rank[y] < rank[x] => f[y] = g[y]
      <4>1. k \in Nat /\ \A y \in D : rank[y] \in Int
        BY <1>0
      <4> QED BY <2>3, <4>1
    <3>2. Body[<<f, x>>] = Body[<<g, x>>]
      <4> HIDE DEF g
      <4> QED BY <2>2, <3>1 DEF LooksDown
    <3>3. g[x] = Body[<<f, x>>]
      BY <2>1 DEF Follows
    <3> QED BY <3>2, <3>3
  <2> HIDE DEF g
  <2>4. Follows(g, D, rank, Body, k + 1)
    BY <2>3 DEF Follows
  <2> QED BY <2>2, <2>4
<1>3. \A k \in Nat : k \in S
  <2>1. Self \in [Nat -> Nat] /\ \A k \in Nat : Self[k] = k
    OBVIOUS
  <2> HIDE DEF S, Self
  <2>2. ASSUME NEW k \in Nat, \A y \in Nat : Self[y] < Self[k] => y \in S PROVE k \in S
    <3>1. CASE k = 0
      BY <1>1, <3>1
    <3>2. CASE k # 0
      <4>1. k - 1 \in Nat /\ k - 1 < k /\ (k - 1) + 1 = k
        BY <3>2, Predecessor
      <4>2. k - 1 \in S
        BY <2>1, <2>2, <4>1
      <4> QED BY <1>2, <4>1, <4>2
    <3> QED BY <3>1, <3>2
  <2>3. Inductive(Nat, Self, S)
    BY <2>2 DEF Inductive
  <2> QED BY <2>1, <2>3, ByRank
<1>4. PICK f \in [D -> V] : Follows(f, D, rank, Body, M + 1)
  <2>1. M + 1 \in Nat
    OBVIOUS
  <2> QED BY <1>3, <2>1
<1>5. \A x \in D : f[x] = Body[<<f, x>>]
  <2>1. \A x \in D : rank[x] < M + 1
    BY <1>0
  <2> QED BY <1>4, <2>1 DEF Follows
<1> QED BY <1>4, <1>5 DEF Obeys

-----------------------------------------------------------------------------
(* The memory map. *)

\* The recursion over its regions.
RegionsBody(f, k, s, map) ==
  IF k = 0 THEN s
  ELSE IF map[k].ram THEN UnsetRegion(f[k - 1], map[k].base, map[k].len)
  ELSE SetRegion(f[k - 1], map[k].base, map[k].len)

Places(map) == 0..Len(map)
GoesThrough(f, s, map) == f = [k \in Places(map) |-> RegionsBody(f, k, s, map)]

LEMMA RegionsIs ==
  ASSUME NEW s, NEW map
  PROVE  Regions(s, map) = (CHOOSE f : GoesThrough(f, s, map))[Len(map)]
BY DEF Regions, RegionsBody, Places, GoesThrough

LEMMA RegionsSolvable ==
  ASSUME NEW s, NEW map, Len(map) \in Nat
  PROVE  \E f : GoesThrough(f, s, map)
<1> DEFINE n == Len(map)
           D == Places(map)
           all == s \cup {0} \cup UNION {Region(map[k].base, map[k].len) : k \in D}
           V == SUBSET all
           rank == [k \in D |-> k]
           Body == [p \in [D -> V] \X D |-> RegionsBody(p[1], p[2], s, map)]
<1>1. n \in Nat /\ D = 0..n /\ V # {}
  BY DEF Places
<1>2. rank \in [D -> 0..n] /\ \A k \in D : rank[k] = k
  BY <1>1
<1>3. /\ \A f \in [D -> V] : \A k \in D : Body[<<f, k>>] = RegionsBody(f, k, s, map)
      /\ Body = [p \in [D -> V] \X D |-> Body[p]]
  OBVIOUS
<1>4. \A k \in D : k = 0 \/ k - 1 \in D
  BY <1>1
<1>5. /\ s \in V
      /\ \A k \in D : \A x \in V : /\ UnsetRegion(x, map[k].base, map[k].len) \in V
                                 /\ SetRegion(x, map[k].base, map[k].len) \in V
  <2>1. s \in SUBSET all /\ 0 \in all
    OBVIOUS
  <2>2. \A k \in D : Region(map[k].base, map[k].len) \subseteq all
    OBVIOUS
  <2> HIDE DEF all, D
  <2>3. \A x, r : x \subseteq all /\ r \subseteq all
                  => (x \ r) \cup {0} \subseteq all /\ x \cup r \subseteq all
    BY <2>1
  <2> QED BY <2>1, <2>2, <2>3 DEF UnsetRegion, SetRegion
<1> HIDE DEF D, V, rank, Body, n
<1>6. ASSUME NEW f \in [D -> V], NEW k \in D PROVE Body[<<f, k>>] \in V
  <2>1. Body[<<f, k>>] = RegionsBody(f, k, s, map)
    BY <1>3
  <2>2. k # 0 => f[k - 1] \in V
    BY <1>4
  <2>3. RegionsBody(f, k, s, map) \in V
    BY <1>5, <2>2 DEF RegionsBody
  <2> QED BY <2>1, <2>3
<1>7. ASSUME NEW f \in [D -> V], NEW g \in [D -> V], NEW k \in D,
             \A j \in D : rank[j] < rank[k] => f[j] = g[j]
      PROVE  Body[<<f, k>>] = Body[<<g, k>>]
  <2>1. k # 0 => f[k - 1] = g[k - 1]
    <3>1. k # 0 => k - 1 \in D /\ k - 1 < k
      BY <1>1, <1>4
    <3> QED BY <1>2, <1>7, <3>1
  <2>2. RegionsBody(f, k, s, map) = RegionsBody(g, k, s, map)
    BY <2>1 DEF RegionsBody
  <2> QED BY <1>3, <2>2
<1>8. LooksDown(D, V, rank, Body)
  <2>1. \A p \in [D -> V] \X D : Body[p] \in V
    BY <1>6
  <2>2. Body \in [[D -> V] \X D -> V]
    BY <1>3, <2>1
  <2> QED BY <1>7, <2>2 DEF LooksDown
<1>9. PICK f \in [D -> V] : \A k \in D : f[k] = Body[<<f, k>>]
  <2>1. Below(D, rank, n)
    BY <1>2 DEF Below
  <2>2. Obeys(D, V, Body)
    BY <1>1, <1>8, <2>1, Solvable
  <2> QED BY <2>2 DEF Obeys
<1>10. f = [k \in D |-> RegionsBody(f, k, s, map)]
  <2> DEFINE B(k) == RegionsBody(f, k, s, map)
  <2>1. \A k \in D : f[k] = B(k)
    BY <1>3, <1>9
  <2> HIDE DEF B
  <2>2. f = [k \in D |-> B(k)]
    BY <2>1
  <2> QED BY <2>2 DEF B
<1> QED BY <1>10 DEF D, GoesThrough

\* A page that is clear when the map has been gone through lies in RAM, unless it was clear
\* before; page 0 is not.
LEMMA RamIsClear ==
  ASSUME NEW s, NEW map, Len(map) \in Nat, NEW f, f \notin Regions(s, map), f \in s
  PROVE  \E k \in 1..Len(map) : map[k].ram /\ f \in Region(map[k].base, map[k].len)
<1> DEFINE n == Len(map)
           D == Places(map)
           after == CHOOSE g : GoesThrough(g, s, map)
           InRam == \E k \in 1..n : map[k].ram /\ f \in Region(map[k].base, map[k].len)
           rank == [k \in D |-> k]
           S == {k \in D : f \in after[k] \/ InRam}
<1>1. n \in Nat /\ D = 0..n
  BY DEF Places
<1>2. after = [k \in D |-> RegionsBody(after, k, s, map)]
  <2>1. \E g : GoesThrough(g, s, map)
    BY RegionsSolvable
  <2>2. GoesThrough(after, s, map)
    BY <2>1, Zenon
  <2> HIDE DEF after
  <2> QED BY <2>2 DEF GoesThrough
<1> HIDE DEF after, D
<1>3. \A k \in D : after[k] = RegionsBody(after, k, s, map)
  <2> DEFINE B(k) == RegionsBody(after, k, s, map)
  <2>1. after = [k \in D |-> B(k)]
    BY <1>2
  <2> HIDE DEF B
  <2>2. \A k \in D : after[k] = B(k)
    BY <2>1
  <2> QED BY <2>2 DEF B
<1>4. rank \in [D -> Nat] /\ \A k \in D : rank[k] = k
  BY <1>1
<1> HIDE DEF rank
<1>5. ASSUME NEW k \in D, \A j \in D : rank[j] < rank[k] => j \in S PROVE k \in S
  <2>1. CASE k = 0
    BY <1>3, <2>1 DEF RegionsBody
  <2>2. CASE k # 0
    <3>1. k - 1 \in D /\ k - 1 < k /\ k \in 1..n
      BY <1>1, <2>2
    <3>2. f \in after[k - 1] \/ InRam
      BY <1>4, <1>5, <3>1
    <3>3. CASE map[k].ram
      <4>1. after[k] = UnsetRegion(after[k - 1], map[k].base, map[k].len)
        BY <1>3, <2>2, <3>3 DEF RegionsBody
      <4> QED BY <3>1, <3>2, <3>3, <4>1 DEF UnsetRegion
    <3>4. CASE ~map[k].ram
      <4>1. after[k] = SetRegion(after[k - 1], map[k].base, map[k].len)
        BY <1>3, <2>2, <3>4 DEF RegionsBody
      <4> QED BY <3>2, <4>1 DEF SetRegion
    <3> QED BY <3>3, <3>4
  <2> QED BY <2>1, <2>2
<1>6. n \in S
  <2> HIDE DEF S
  <2>1. Inductive(D, rank, S)
    BY <1>5 DEF Inductive
  <2>2. n \in D
    BY <1>1
  <2> QED BY <1>4, <2>1, <2>2, ByRank, Zenon
<1>7. Regions(s, map) = after[n]
  BY RegionsIs DEF after
<1> QED BY <1>6, <1>7

-----------------------------------------------------------------------------
(* Pages and bytes. *)

LEMMA PageOrder ==
  ASSUME NEW y \in Nat, NEW z \in Nat
  PROVE  /\ y * PageBytes \in Nat /\ z * PageBytes \in Nat
         /\ y <= z => y * PageBytes <= z * PageBytes
         /\ y < z => y * PageBytes + PageBytes <= z * PageBytes
         /\ (y + z) * PageBytes = y * PageBytes + z * PageBytes
<1>1. PageBytes \in Nat /\ PageBytes >= 1
  BY WidthAssumption
<1>2. ASSUME NEW d \in Nat PROVE d * PageBytes \in Nat /\ (d >= 1 => d * PageBytes >= PageBytes)
  BY <1>1
<1>3. (y + z) * PageBytes = y * PageBytes + z * PageBytes
  BY <1>1
<1>4. CASE y <= z
  <2>1. PICK d \in Nat : z = y + d
    BY <1>4
  <2>2. z * PageBytes = y * PageBytes + d * PageBytes
    BY <1>1, <2>1
  <2>3. /\ y * PageBytes \in Nat /\ z * PageBytes \in Nat /\ d * PageBytes \in Nat
        /\ y < z => d * PageBytes >= PageBytes
    BY <1>2, <2>1
  <2> QED BY <1>1, <1>3, <2>2, <2>3
<1>5. CASE ~(y <= z)
  BY <1>2, <1>3, <1>5
<1> QED BY <1>4, <1>5

LEMMA Division ==
  ASSUME NEW P \in Nat \ {0}, NEW a \in Int
  PROVE  a \div P \in Int /\ a % P \in 0..(P - 1) /\ a % P = a - P * (a \div P)
OBVIOUS

LEMMA DivisionIsNat ==
  ASSUME NEW P \in Nat \ {0}, NEW a \in Nat
  PROVE  a \div P \in Nat
OBVIOUS

\* Rounding down to a page loses the remainder.
LEMMA RoundedDown ==
  ASSUME NEW a \in Nat
  PROVE  /\ a \div PageBytes \in Nat
         /\ a % PageBytes \in Nat
         /\ (a \div PageBytes) * PageBytes = a - (a % PageBytes)
<1>1. PageBytes \in Nat \ {0}
  BY WidthAssumption
<1>2. a \div PageBytes \in Nat
  BY <1>1, DivisionIsNat
<1>3. a % PageBytes \in 0..(PageBytes - 1) /\ a % PageBytes = a - PageBytes * (a \div PageBytes)
  BY <1>1, Division
<1> DEFINE q == a \div PageBytes
           m == a % PageBytes
<1>4. q \in Nat /\ m \in Nat /\ m = a - PageBytes * q
  BY <1>1, <1>2, <1>3
<1> HIDE DEF q, m
<1>5. PageBytes * q = q * PageBytes /\ q * PageBytes \in Nat
  BY <1>1, <1>4, PageOrder
<1>6. q * PageBytes = a - m
  <2> DEFINE r == q * PageBytes
  <2>1. r \in Nat /\ m = a - r
    BY <1>4, <1>5
  <2> HIDE DEF r
  <2>2. r = a - m
    BY <1>4, <2>1
  <2> QED BY <2>2 DEF r
<1> QED BY <1>4, <1>6, Zenon DEF q, m

\* A region that begins with a page: its pages lie in it, and where it ends with one too,
\* the others do not meet it.
LEMMA RegionHoldsPages ==
  ASSUME NEW addr \in Nat, NEW len \in Nat, addr % PageBytes = 0, NEW f \in Nat
  PROVE  /\ f \in Region(addr, len) => Bytes(f) \subseteq Run(addr, len)
         /\ len % PageBytes = 0 /\ f \notin Region(addr, len)
              => Bytes(f) \cap Run(addr, len) = {}
<1> DEFINE q == addr \div PageBytes
           n == len \div PageBytes
           rest == len % PageBytes
           qb == q * PageBytes
           nb == n * PageBytes
           fb == f * PageBytes
<1>1. q \in Nat /\ n \in Nat /\ rest \in Nat /\ qb = addr - (addr % PageBytes) /\ nb = len - rest
  BY RoundedDown, Zenon
<1>2. qb = addr
  <2>1. qb = addr - 0
    BY <1>1, Zenon
  <2> HIDE DEF qb
  <2> QED BY <2>1
<1> HIDE DEF q, n, rest
<1>3. /\ fb \in Nat /\ qb \in Nat /\ nb \in Nat
      /\ q <= f => qb <= fb
      /\ f < q => fb + PageBytes <= qb
  BY <1>1, PageOrder
<1>4. /\ (q + n) * PageBytes = qb + nb
      /\ f < q + n => fb + PageBytes <= (q + n) * PageBytes
      /\ q + n <= f => (q + n) * PageBytes <= fb
  <2>1. q + n \in Nat
    BY <1>1
  <2> QED BY <1>1, <2>1, PageOrder
<1> DEFINE e == (q + n) * PageBytes
<1>5. /\ e = addr + nb
      /\ f < q + n => fb + PageBytes <= e
      /\ q + n <= f => e <= fb
  BY <1>2, <1>4
<1> HIDE DEF qb, nb, fb, e
<1>6. PageBytes \in Nat \ {0}
  BY WidthAssumption
<1>7. Region(addr, len) = q..(q + n - 1) /\ Bytes(f) = fb..(fb + PageBytes - 1)
      /\ Run(addr, len) = addr..(addr + len - 1)
  BY DEF Region, Bytes, Run, q, n, fb
<1>8. ASSUME f \in Region(addr, len) PROVE Bytes(f) \subseteq Run(addr, len)
  <2>1. q <= f /\ f < q + n
    BY <1>1, <1>7, <1>8
  <2>2. addr <= fb /\ fb + PageBytes <= addr + len
    BY <1>1, <1>2, <1>3, <1>5, <1>6, <2>1
  <2> QED BY <1>3, <1>6, <1>7, <2>2
<1>9. ASSUME rest = 0, f \notin Region(addr, len) PROVE Bytes(f) \cap Run(addr, len) = {}
  <2>1. f < q \/ q + n <= f
    BY <1>1, <1>7, <1>9
  <2>2. fb + PageBytes <= addr \/ addr + len <= fb
    BY <1>1, <1>2, <1>3, <1>5, <1>6, <1>9, <2>1
  <2> QED BY <1>3, <1>6, <1>7, <2>2
<1> QED BY <1>8, <1>9 DEF rest

\* The pages that a bitmap covers and Initialize leaves clear: in RAM or in the low memory,
\* and apart from the kernel.
Usable(f) ==
  /\ Bytes(f) \cap Run(Kernel[1], Kernel[2]) = {}
  /\ \/ Bytes(f) \subseteq Run(LowMem[1], LowMem[2])
     \/ \E map \in Maps : \E i \in DOMAIN map :
          map[i].ram /\ Bytes(f) \subseteq Run(map[i].base, map[i].len)

LEMMA ClearIsUsable ==
  ASSUME NEW s, NEW map \in Maps, NEW f \in Nat, f \notin InitialBits(s, map),
         f < BYTE * ((TotalBytes(map) \div PageBytes) \div BYTE),
         TotalBytes(map) \in Nat
  PROVE  Usable(f)
<1> DEFINE top == BYTE * ((TotalBytes(map) \div PageBytes) \div BYTE)
           start == s \cup 0..(top - 1)
<1>1. top \in Nat
  <2>1. (TotalBytes(map) \div PageBytes) \div BYTE \in Nat
    BY DivisionIsNat, WidthAssumption
  <2>2. \A x, y \in Nat : x * y \in Nat
    OBVIOUS
  <2> QED BY <2>1, <2>2, WidthAssumption
<1>2. f \in start
  <2>1. f < top
    OBVIOUS
  <2> HIDE DEF top
  <2> QED BY <1>1, <2>1
<1>3. MapBits(s, map) = Regions(start, map)
  BY DEF MapBits
<1> HIDE DEF start, top
<1>4. /\ f \notin Region(Kernel[1], Kernel[2])
      /\ f \in Region(LowMem[1], LowMem[2]) \/ f \notin Regions(start, map)
  BY <1>3 DEF InitialBits, SetRegion, UnsetRegion
<1>5. Bytes(f) \cap Run(Kernel[1], Kernel[2]) = {}
  BY <1>4, AlignedAssumption, RegionHoldsPages
<1>6. CASE f \in Region(LowMem[1], LowMem[2])
  <2>1. Bytes(f) \subseteq Run(LowMem[1], LowMem[2])
    BY <1>6, AlignedAssumption, RegionHoldsPages
  <2> QED BY <1>5, <2>1 DEF Usable
<1>7. CASE f \notin Regions(start, map)
  <2>1. map \in Seq([base : Nat, len : Nat, ram : BOOLEAN])
        /\ \A k \in DOMAIN map : map[k].ram => map[k].base % PageBytes = 0
    BY AlignedAssumption
  <2>2. Len(map) \in Nat /\ DOMAIN map = 1..Len(map)
    BY <2>1
  <2>3. PICK k \in 1..Len(map) : map[k].ram /\ f \in Region(map[k].base, map[k].len)
    BY <1>2, <1>7, <2>2, RamIsClear
  <2>4. k \in DOMAIN map /\ map[k].base \in Nat /\ map[k].len \in Nat
        /\ map[k].base % PageBytes = 0
    <3>1. k \in DOMAIN map
      BY <2>2
    <3>2. map[k] \in [base : Nat, len : Nat, ram : BOOLEAN]
      <4> DEFINE T == [base : Nat, len : Nat, ram : BOOLEAN]
      <4>1. map \in Seq(T)
        BY <2>1
      <4> HIDE DEF T
      <4>2. map[k] \in T
        BY <3>1, <4>1
      <4> QED BY <4>2 DEF T
    <3> QED BY <2>1, <2>3, <3>1, <3>2
  <2>5. Bytes(f) \subseteq Run(map[k].base, map[k].len)
    BY <2>3, <2>4, RegionHoldsPages
  <2> QED BY <1>5, <2>3, <2>4, <2>5 DEF Usable
<1> QED BY <1>4, <1>6, <1>7

-----------------------------------------------------------------------------
(* Dwords of the bitmap. *)

Dwords == 0..(Window \div W)

\* What the searches rely on.
Readable == bits \subseteq Frames /\ total \in Nat

\* The dword a bit lies in.
LEMMA DwordOf ==
  ASSUME NEW b \in Nat
  PROVE  /\ b \div W \in Nat /\ b % W \in 0..(W - 1)
         /\ b = (b \div W) * W + (b % W)
<1>1. W \in Nat \ {0}
  BY WidthAssumption
<1>2. b \div W \in Int /\ b % W \in 0..(W - 1) /\ b = W * (b \div W) + (b % W)
  <2>1. b \div W \in Int /\ b % W \in 0..(W - 1) /\ b % W = b - W * (b \div W)
    BY <1>1, Division
  <2> DEFINE q == b \div W
  <2>2. W * q \in Int
    BY <1>1, <2>1
  <2> DEFINE p == W * q
             m == b % W
  <2>3. b \in Int /\ p \in Int /\ m \in Int /\ m = b - p
    BY <1>1, <2>1, <2>2
  <2> HIDE DEF p, m
  <2>4. b = p + m
    BY <2>3
  <2> QED BY <2>1, <2>4 DEF p, m
<1>3. b \div W >= 0
  <2> DEFINE q == b \div W
             m == b % W
  <2>1. q \in Int /\ m \in 0..(W - 1) /\ b = W * q + m
    BY <1>2, Zenon
  <2> HIDE DEF q, m
  <2>2. ASSUME q < 0 PROVE FALSE
    <3>1. PICK e \in Nat : q = -e - 1
      <4>1. -q - 1 \in Nat /\ q = -(-q - 1) - 1
        BY <2>1, <2>2
      <4> QED BY <4>1
    <3>2. W * e \in Nat /\ W * q = -(W * e) - W
      BY <1>1, <3>1
    <3> DEFINE p == W * e
    <3> HIDE DEF p
    <3>3. p \in Nat /\ b = -p - W + m
      BY <2>1, <3>2 DEF p
    <3> QED BY <1>1, <2>1, <3>3
  <2> QED BY <2>1, <2>2 DEF q
<1>4. PICK d \in Nat : d = b \div W
  BY <1>2, <1>3
<1>5. W * d = d * W
  BY <1>1
<1> QED BY <1>2, <1>4, <1>5

\* Dwords follow one another.
LEMMA InOrder ==
  ASSUME NEW i \in Nat, NEW k \in Nat
  PROVE  /\ i <= k => i * W <= k * W
         /\ i < k => i * W + W <= k * W
         /\ i * W \in Nat /\ k * W \in Nat
<1>1. W \in Nat /\ W >= 1
  BY WidthAssumption
<1>2. ASSUME NEW d \in Nat PROVE d * W \in Nat /\ (d >= 1 => d * W >= W)
  BY <1>1
<1>3. CASE i <= k
  <2>1. PICK d \in Nat : k = i + d
    BY <1>3
  <2>2. k * W = i * W + d * W
    BY <1>1, <2>1
  <2>3. /\ i * W \in Nat /\ k * W \in Nat /\ d * W \in Nat
        /\ i < k => d * W >= W
    BY <1>2, <2>1
  <2> QED BY <1>1, <2>2, <2>3
<1>4. CASE ~(i <= k)
  BY <1>2, <1>4
<1> QED BY <1>3, <1>4

\* The storage ends with a dword.
LEMMA WindowDwords ==
  /\ Window \div W \in Nat /\ Window = (Window \div W) * W
  /\ \A i \in Dwords : i * W >= Window <=> i = Window \div W
  /\ \A b \in Frames : b \in Nat /\ b \div W \in Nat /\ b \div W < Window \div W
<1>1. Window \in Nat /\ Window % W = 0
  BY WidthAssumption
<1>2. Window \div W \in Nat /\ Window = (Window \div W) * W
  <2>1. /\ Window \div W \in Nat
        /\ Window = (Window \div W) * W + 0
    <3>1. Window \in Nat /\ Window % W = 0
      BY <1>1
    <3>2. Window \div W \in Nat /\ Window = (Window \div W) * W + (Window % W)
      BY <3>1, DwordOf
    <3> QED BY <3>1, <3>2, Zenon
  <2>2. (Window \div W) * W \in Nat
    BY <2>1, InOrder
  <2> DEFINE p == (Window \div W) * W
  <2>3. p + 0 = p
    BY <2>2
  <2> QED BY <2>1, <2>3
<1> DEFINE n == Window \div W
<1>3. n \in Nat /\ Window = n * W /\ W >= 1 /\ W \in Nat
  BY <1>2, WidthAssumption
<1> HIDE DEF n
<1>4. ASSUME NEW i \in 0..n PROVE i * W >= Window <=> i = n
  <2>1. i < n => i * W + W <= n * W
    BY <1>3, InOrder
  <2>2. i * W \in Nat
    BY <1>3, InOrder
  <2> QED BY <1>3, <2>1, <2>2
<1>5. ASSUME NEW b \in Frames PROVE b \in Nat /\ b \div W \in Nat /\ b \div W < n
  <2>1. b \in Nat /\ b < Window
    BY <1>1 DEF Frames
  <2> DEFINE d == b \div W
  <2>2. d \in Nat /\ b >= d * W
    <3>1. b \div W \in Nat /\ b % W \in 0..(W - 1) /\ b = (b \div W) * W + (b % W)
      BY <2>1, DwordOf
    <3>2. (b \div W) * W \in Nat
      BY <3>1, InOrder
    <3> DEFINE p == (b \div W) * W
    <3>3. p \in Nat /\ b = p + (b % W)
      BY <3>1, <3>2
    <3> HIDE DEF p
    <3> DEFINE m == b % W
    <3>4. m \in Nat /\ b = p + m
      BY <1>3, <3>1, <3>3
    <3> HIDE DEF m
    <3>5. b >= p
      BY <3>3, <3>4
    <3> QED BY <3>1, <3>5 DEF p
  <2> HIDE DEF d
  <2>3. ~(n <= d)
    <3>1. n <= d => n * W <= d * W
      BY <1>3, <2>2, InOrder
    <3>2. d * W \in Nat
      BY <2>2, InOrder
    <3> QED BY <1>3, <2>1, <2>2, <3>1, <3>2
  <2> QED BY <1>3, <2>1, <2>2, <2>3 DEF d
<1> QED BY <1>2, <1>4, <1>5 DEF n, Dwords

\* Where a run stops.
LEMMA StopIs ==
  ASSUME NEW s, s \subseteq Nat, Blockers(s) # {}
  PROVE  /\ StopsAt(s) \in s /\ StopsAt(s) \in Nat
         /\ StopsAt(s) \in bits \/ StopsAt(s) >= Window
         /\ \A b \in Blockers(s) : StopsAt(s) <= b
<1>1. Blockers(s) \subseteq s /\ Blockers(s) \subseteq Nat
  BY DEF Blockers
<1>2. StopsAt(s) \in Blockers(s) /\ \A b \in Blockers(s) : StopsAt(s) <= b
  BY <1>1, MinExists DEF StopsAt
<1> QED BY <1>1, <1>2 DEF Blockers

-----------------------------------------------------------------------------
(* The scan by dwords. *)

\* Its recursion.
ScanBody(f, i, size) ==
  LET needed == size \div W
      whole == Run(i * W, needed * W)
      rest == Run((i + needed) * W, size % W)
  IN IF i >= total \div W THEN NoFrame
     ELSE IF i * W >= Window THEN Fault
     ELSE IF ~EmptyDword(i) THEN f[i + 1]
     ELSE IF Blockers(whole \cup rest) = {} THEN i * W
     ELSE IF StopsAt(whole \cup rest) >= Window THEN Fault
     ELSE IF Blockers(whole) # {} THEN f[(StopsAt(whole) \div W) + 1]
     ELSE f[i + 1]

LEMMA ScanIs ==
  ASSUME NEW size
  PROVE  DwordScan(size) = (CHOOSE f : f = [i \in Dwords |-> ScanBody(f, i, size)])[0]
BY DEF DwordScan, ScanBody, Dwords

\* No run of that size starts at dword k.
BlockedAt(k, size) == Run(k * W, size) \cap bits # {}

\* The outcomes of one step of the scan: the bitmap ends, the storage ends, a run begins
\* here, or the scan goes on at a dword with no run from here up to it.
Ends(i, size) == i >= total \div W /\ \A f : ScanBody(f, i, size) = NoFrame
Fails(i, size) == \A f : ScanBody(f, i, size) = Fault
FindsHere(i, size) ==
  /\ i < total \div W /\ ~BlockedAt(i, size)
  /\ i * W \in Frames \ bits
  /\ \A f : ScanBody(f, i, size) = i * W
GoesOn(i, size, k) ==
  /\ i < k /\ \A j \in i..(k - 1) : BlockedAt(j, size)
  /\ \A f : ScanBody(f, i, size) = f[k]

LEMMA ScanStep ==
  ASSUME Readable, NEW i \in Dwords, NEW size \in Nat, size > W
  PROVE  \/ Ends(i, size) \/ Fails(i, size) \/ FindsHere(i, size)
         \/ \E k \in Dwords : GoesOn(i, size, k)
<1> DEFINE needed == size \div W
           whole == Run(i * W, needed * W)
           rest == Run((i + needed) * W, size % W)
           n == Window \div W
           start == i * W
           run == Run(start, size)
<1>1. /\ needed \in Nat /\ size % W \in 0..(W - 1) /\ size = needed * W + (size % W)
      /\ needed * W \in Nat /\ W \in Nat /\ W >= 1 /\ n \in Nat /\ i \in 0..n
      /\ Dwords = 0..n /\ i \in Nat /\ start \in Nat
  <2>1. W \in Nat /\ W >= 1 /\ n \in Nat /\ Dwords = 0..n
    BY WidthAssumption, WindowDwords DEF Dwords
  <2>2. needed \in Nat /\ size % W \in 0..(W - 1) /\ size = needed * W + (size % W)
    BY DwordOf
  <2>3. i \in 0..n /\ i \in Nat
    BY <2>1
  <2> HIDE DEF needed, n
  <2>4. start \in Nat /\ needed * W \in Nat
    BY <2>2, <2>3, InOrder
  <2> QED BY <2>1, <2>2, <2>3, <2>4
<1>2. /\ (i + needed) * W = start + needed * W
  BY <1>1
<1>3. whole \cup rest = run
  <2> DEFINE a == needed * W
             r == size % W
  <2>1. a \in Nat /\ r \in Nat /\ size = a + r
    BY <1>1
  <2>2. whole = start..(start + a - 1) /\ rest = (start + a)..(start + a + r - 1)
    BY <1>2 DEF Run
  <2>3. run = start..(start + (a + r) - 1)
    BY <2>1 DEF Run
  <2> HIDE DEF a, r, start, whole, rest, run
  <2> QED BY <1>1, <2>1, <2>2, <2>3
<1>4. /\ run \subseteq Nat /\ whole \subseteq run /\ start \in run
      /\ \A b \in whole : b < start + needed * W
      /\ \A b \in run : b \in whole \/ b >= start + needed * W
  <2>1. run \subseteq Nat /\ start \in run
    BY <1>1 DEF Run
  <2> DEFINE a == needed * W
             r == size % W
  <2>2. whole = start..(start + a - 1) /\ rest = (start + a)..(start + a + r - 1)
    BY <1>2 DEF Run
  <2>3. \A b \in whole : b < start + a
    BY <1>1, <2>2
  <2>4. \A b \in rest : b >= start + a
    BY <1>1, <2>2
  <2> HIDE DEF whole, rest, run, a, r
  <2> QED BY <1>3, <2>1, <2>3, <2>4 DEF a
<1>5. CASE i >= total \div W
  BY <1>5 DEF Ends, ScanBody
<1>6. CASE i < total \div W /\ start >= Window
  <2>1. ~(i >= total \div W)
    <3>1. total \div W \in Int
      BY DwordOf DEF Readable
    <3> QED BY <1>1, <1>6, <3>1
  <2> QED BY <1>6, <2>1 DEF Fails, ScanBody
<1>7. CASE i < total \div W /\ ~(start >= Window)
  <2>1. ~(i >= total \div W)
    <3>1. total \div W \in Int
      BY DwordOf DEF Readable
    <3> QED BY <1>1, <1>7, <3>1
  <2>2. i + 1 \in Dwords
    BY <1>1, <1>7, WindowDwords
  <2>3. BlockedAt(i, size) => \A j \in i..((i + 1) - 1) : BlockedAt(j, size)
    <3>1. \A j \in i..((i + 1) - 1) : j = i
      BY <1>1
    <3> QED BY <3>1
  <2>4. CASE ~EmptyDword(i)
    <3>1. PICK b \in Dword(i) : b \in bits
      BY <2>4 DEF EmptyDword
    <3>2. b \in run
      <4>1. b \in start..(start + W - 1)
        BY <3>1 DEF Dword
      <4> HIDE DEF start
      <4> QED BY <1>1, <4>1 DEF Run
    <3>3. BlockedAt(i, size)
      BY <3>1, <3>2 DEF BlockedAt
    <3>4. \A f : ScanBody(f, i, size) = f[i + 1]
      BY <1>7, <2>1, <2>4 DEF ScanBody
    <3> QED BY <1>1, <2>2, <2>3, <3>3, <3>4 DEF GoesOn
  <2>5. CASE EmptyDword(i) /\ Blockers(run) = {}
    <3>1. \A f : ScanBody(f, i, size) = i * W
      BY <1>3, <1>7, <2>1, <2>5 DEF ScanBody
    <3>2. \A b \in run : b \notin bits /\ ~(b >= Window)
      BY <2>5 DEF Blockers
    <3>3. ~BlockedAt(i, size)
      BY <3>2 DEF BlockedAt
    <3>4. start \in Frames \ bits
      BY <1>1, <1>4, <1>7, <3>2, WidthAssumption DEF Frames
    <3> QED BY <1>7, <3>1, <3>3, <3>4 DEF FindsHere
  <2>6. CASE EmptyDword(i) /\ Blockers(run) # {} /\ StopsAt(run) >= Window
    BY <1>3, <1>7, <2>1, <2>6 DEF Fails, ScanBody
  <2>7. CASE EmptyDword(i) /\ Blockers(run) # {} /\ ~(StopsAt(run) >= Window)
    <3>1. /\ StopsAt(run) \in run /\ StopsAt(run) \in Nat /\ StopsAt(run) \in bits
          /\ \A b \in Blockers(run) : StopsAt(run) <= b
      BY <1>4, <2>7, StopIs
    <3>2. CASE Blockers(whole) = {}
      <4>1. BlockedAt(i, size)
        BY <3>1 DEF BlockedAt
      <4>2. \A f : ScanBody(f, i, size) = f[i + 1]
        BY <1>3, <1>7, <2>1, <2>7, <3>2 DEF ScanBody
      <4> QED BY <1>1, <2>2, <2>3, <4>1, <4>2 DEF GoesOn
    <3>3. CASE Blockers(whole) # {}
      <4> DEFINE s == StopsAt(whole)
                 k == (s \div W) + 1
      <4>1. /\ s \in whole /\ s \in Nat /\ (s \in bits \/ s >= Window)
            /\ \A b \in Blockers(whole) : s <= b
        BY <1>4, <3>3, StopIs
      <4>2. s \in bits /\ s < Window
        <5>1. StopsAt(run) \in Blockers(run)
          BY <3>1 DEF Blockers
        <5>2. StopsAt(run) \in whole => s <= StopsAt(run)
          BY <3>1, <4>1 DEF Blockers
        <5>3. StopsAt(run) \notin whole => s < StopsAt(run)
          <6>1. StopsAt(run) \notin whole => StopsAt(run) >= start + needed * W
            <7> HIDE DEF whole, run, start, needed
            <7> QED BY <1>4, <3>1
          <6>2. s < start + needed * W
            BY <1>4, <4>1
          <6> DEFINE a == needed * W
          <6> HIDE DEF a, s, start
          <6> QED BY <1>1, <3>1, <4>1, <6>1, <6>2 DEF a
        <5> HIDE DEF s
        <5> QED BY <2>7, <3>1, <4>1, <5>2, <5>3, WidthAssumption
      <4>3. /\ s \div W \in Nat /\ s \div W < n
            /\ (s \div W) * W \in Nat /\ (s \div W) * W <= s /\ s < (s \div W) * W + W
        <5>1. s \in Frames
          BY <4>1, <4>2, WidthAssumption DEF Frames
        <5>2. s \div W \in Nat /\ s \div W < n
          BY <5>1, WindowDwords
        <5>3. s % W \in 0..(W - 1) /\ s = (s \div W) * W + (s % W) /\ (s \div W) * W \in Nat
          BY <4>1, <5>2, DwordOf, InOrder
        <5> DEFINE q == (s \div W) * W
                   m == s % W
        <5>4. q \in Nat /\ m \in 0..(W - 1) /\ s = q + m
          BY <5>3
        <5> HIDE DEF q, m
        <5>5. q <= s /\ s < q + W
          <6> HIDE DEF s
          <6> QED BY <1>1, <4>1, <5>4
        <5> QED BY <5>2, <5>3, <5>5 DEF q
      <4> DEFINE d == s \div W
      <4>4. i <= d
        <5>1. s >= start
          BY <1>1, <4>1 DEF Run
        <5>2. ~(i <= d) => d * W + W <= i * W
          BY <1>1, <4>3, InOrder
        <5>3. ~(i <= d) => d < i
          BY <1>1, <4>3
        <5> DEFINE q == d * W
        <5> HIDE DEF s
        <5> QED BY <1>1, <4>1, <4>3, <5>1, <5>2
      <4>5. ASSUME NEW j \in i..(k - 1) PROVE BlockedAt(j, size)
        <5>1. j \in Nat /\ i <= j /\ j <= d
          BY <1>1, <4>3
        <5>2. i * W <= j * W /\ j * W <= d * W /\ j * W \in Nat
          BY <1>1, <4>3, <5>1, InOrder
        <5>3. s < start + size
          <6>1. s < start + needed * W
            BY <1>4, <4>1
          <6> DEFINE a == needed * W
          <6> HIDE DEF a, s, start
          <6> QED BY <1>1, <4>1, <6>1 DEF a
        <5>4. s \in Run(j * W, size)
          <6> DEFINE p == j * W
                     q == d * W
          <6>1. p \in Nat /\ start <= p /\ p <= q /\ q <= s /\ q \in Nat
            BY <4>3, <5>2
          <6> HIDE DEF s, p, q, start
          <6>2. p <= s /\ s <= p + size - 1
            BY <1>1, <4>1, <5>3, <6>1
          <6> QED BY <1>1, <4>1, <6>1, <6>2 DEF Run, p
        <5> QED BY <4>2, <5>4 DEF BlockedAt
      <4>6. \A f : ScanBody(f, i, size) = f[k]
        BY <1>3, <1>7, <2>1, <2>7, <3>3 DEF ScanBody
      <4>7. k \in Dwords /\ i < k
        BY <1>1, <4>3, <4>4
      <4> HIDE DEF k
      <4> QED BY <4>5, <4>6, <4>7 DEF GoesOn
    <3> QED BY <3>2, <3>3
  <2> QED BY <2>4, <2>5, <2>6, <2>7
<1>8. i >= total \div W \/ i < total \div W
  <2>1. total \div W \in Int
    BY DwordOf DEF Readable
  <2> QED BY <1>1, <2>1
<1> QED BY <1>5, <1>6, <1>7, <1>8

\* The scan only goes on to later dwords.
LEMMA ScanSolvable ==
  ASSUME Readable, NEW size \in Nat, size > W
  PROVE  \E f : f = [i \in Dwords |-> ScanBody(f, i, size)]
<1> DEFINE n == Window \div W
           rank == [i \in Dwords |-> n - i]
           Body == [p \in [Dwords -> Int] \X Dwords |-> ScanBody(p[1], p[2], size)]
<1>1. n \in Nat /\ Dwords = 0..n
  BY WindowDwords DEF Dwords
<1>2. rank \in [Dwords -> 0..n]
  BY <1>1
<1>3. /\ \A f \in [Dwords -> Int] : \A i \in Dwords : Body[<<f, i>>] = ScanBody(f, i, size)
      /\ \A i \in Dwords : rank[i] = n - i
      /\ DOMAIN Body = [Dwords -> Int] \X Dwords
      /\ Body = [p \in [Dwords -> Int] \X Dwords |-> Body[p]]
  OBVIOUS
<1> HIDE DEF n, rank, Body
<1>4. ASSUME NEW f \in [Dwords -> Int], NEW i \in Dwords PROVE Body[<<f, i>>] \in Int
  <2>1. CASE \E k \in Dwords : GoesOn(i, size, k)
    BY <1>3, <2>1 DEF GoesOn
  <2>2. i * W \in Int
    BY <1>1, WidthAssumption
  <2>3. CASE Ends(i, size) \/ Fails(i, size) \/ FindsHere(i, size)
    <3>1. ScanBody(f, i, size) \in {NoFrame, Fault, i * W}
      BY <2>3, Zenon DEF Ends, Fails, FindsHere
    <3>2. Body[<<f, i>>] = ScanBody(f, i, size)
      BY <1>3
    <3>3. NoFrame \in Int /\ Fault \in Int
      BY DEF NoFrame, Fault
    <3> DEFINE here == i * W
    <3>4. here \in Int /\ ScanBody(f, i, size) \in {NoFrame, Fault, here}
      BY <2>2, <3>1
    <3> HIDE DEF here
    <3> QED BY <3>2, <3>3, <3>4
  <2> QED BY <2>1, <2>3, ScanStep
<1>5. Body \in [[Dwords -> Int] \X Dwords -> Int]
  <2>1. \A p \in [Dwords -> Int] \X Dwords : Body[p] \in Int
    BY <1>4
  <2> QED BY <1>3, <2>1
<1>6. ASSUME NEW f \in [Dwords -> Int], NEW g \in [Dwords -> Int], NEW i \in Dwords,
             \A k \in Dwords : rank[k] < rank[i] => f[k] = g[k]
      PROVE  Body[<<f, i>>] = Body[<<g, i>>]
  <2>1. ASSUME NEW k \in Dwords, GoesOn(i, size, k) PROVE Body[<<f, i>>] = Body[<<g, i>>]
    <3>1. rank[k] < rank[i]
      BY <1>1, <1>3, <2>1 DEF GoesOn
    <3> QED BY <1>3, <1>6, <2>1, <3>1 DEF GoesOn
  <2> QED BY <1>3, <2>1, ScanStep DEF Ends, Fails, FindsHere
<1>7. LooksDown(Dwords, Int, rank, Body)
  BY <1>5, <1>6 DEF LooksDown
<1>8. PICK f \in [Dwords -> Int] : \A i \in Dwords : f[i] = Body[<<f, i>>]
  <2>1. Int # {}
    BY 0 \in Int
  <2>2. Below(Dwords, rank, n) /\ n \in Nat
    BY <1>1, <1>2 DEF Below
  <2>3. Obeys(Dwords, Int, Body)
    BY <1>7, <2>1, <2>2, Solvable
  <2> QED BY <2>3 DEF Obeys
<1>9. f = [i \in Dwords |-> ScanBody(f, i, size)]
  <2> DEFINE B(i) == ScanBody(f, i, size)
  <2>1. \A i \in Dwords : f[i] = B(i)
    BY <1>3, <1>8
  <2> HIDE DEF B
  <2>2. f = [i \in Dwords |-> B(i)]
    BY <2>1
  <2> QED BY <2>2 DEF B
<1> QED BY <1>9

\* The dwords from i on at which a run may begin.
AlignedRuns(i, size) == {k \in i..((total \div W) - 1) : Run(k * W, size) \cap bits = {}}

\* What the scan may answer that is at dword i: the first run from there on.
RightFrom(i, size, result) ==
  \/ result = Fault
  \/ result = NoFrame /\ AlignedRuns(i, size) = {}
  \/ /\ result \in Frames \ bits
     /\ \E k \in AlignedRuns(i, size) :
          result = k * W /\ \A m \in AlignedRuns(i, size) : k <= m

\* It does, from its last dword back to the first.
LEMMA ScanIsRight ==
  ASSUME Readable, NEW size \in Nat, size > W
  PROVE  RightFrom(0, size, DwordScan(size))
<1> DEFINE scan == CHOOSE f : f = [i \in Dwords |-> ScanBody(f, i, size)]
           n == Window \div W
           rank == [i \in Dwords |-> n - i]
           S == {i \in Dwords : RightFrom(i, size, scan[i])}
<1>1. n \in Nat /\ Dwords = 0..n /\ total \div W \in Nat
  BY WindowDwords, DwordOf DEF Dwords, Readable
<1>2. scan = [i \in Dwords |-> ScanBody(scan, i, size)]
  BY ScanSolvable, Zenon
<1> HIDE DEF scan, n
<1>3. \A i \in Dwords : scan[i] = ScanBody(scan, i, size)
  <2> DEFINE B(i) == ScanBody(scan, i, size)
  <2>1. scan = [i \in Dwords |-> B(i)]
    BY <1>2
  <2> HIDE DEF B
  <2>2. \A i \in Dwords : scan[i] = B(i)
    BY <2>1
  <2> QED BY <2>2 DEF B
<1>4. rank \in [Dwords -> Nat] /\ \A i \in Dwords : rank[i] = n - i
  BY <1>1
<1> HIDE DEF rank
<1>5. ASSUME NEW i \in Dwords, \A k \in Dwords : rank[k] < rank[i] => k \in S
      PROVE  i \in S
  <2>1. i \in Nat
    BY <1>1
  <2>2. CASE Ends(i, size)
    <3>1. AlignedRuns(i, size) = {}
      BY <1>1, <2>1, <2>2 DEF Ends, AlignedRuns
    <3>2. scan[i] = NoFrame
      BY <1>3, <2>2 DEF Ends
    <3> QED BY <3>1, <3>2 DEF RightFrom
  <2>3. CASE Fails(i, size)
    BY <1>3, <2>3 DEF Fails, RightFrom
  <2>4. CASE FindsHere(i, size)
    <3>1. scan[i] = i * W /\ i * W \in Frames \ bits
      BY <1>3, <2>4 DEF FindsHere
    <3>2. i \in AlignedRuns(i, size) /\ \A m \in AlignedRuns(i, size) : i <= m
      BY <1>1, <2>1, <2>4 DEF FindsHere, BlockedAt, AlignedRuns
    <3>3. RightFrom(i, size, scan[i])
      BY <3>1, <3>2 DEF RightFrom
    <3> QED BY <3>3
  <2>5. ASSUME NEW k \in Dwords, GoesOn(i, size, k) PROVE i \in S
    <3>1. rank[k] < rank[i]
      BY <1>1, <1>4, <2>5 DEF GoesOn
    <3>2. RightFrom(k, size, scan[k])
      BY <1>5, <3>1
    <3>3. scan[i] = scan[k]
      BY <1>3, <2>5 DEF GoesOn
    <3>4. AlignedRuns(i, size) = AlignedRuns(k, size)
      <4>1. /\ i \in Nat /\ k \in Nat /\ i < k
            /\ \A j \in i..(k - 1) : Run(j * W, size) \cap bits # {}
        BY <1>1, <2>5 DEF GoesOn, BlockedAt
      <4>2. ASSUME NEW j \in i..((total \div W) - 1), Run(j * W, size) \cap bits = {}
            PROVE  j \in k..((total \div W) - 1)
        <5>1. ~(j < k)
          BY <4>1, <4>2
        <5> QED BY <1>1, <4>1, <5>1
      <4>3. \A j \in k..((total \div W) - 1) : j \in i..((total \div W) - 1)
        BY <1>1, <4>1
      <4> QED BY <4>2, <4>3 DEF AlignedRuns
    <3>5. RightFrom(i, size, scan[i])
      BY <3>2, <3>3, <3>4 DEF RightFrom
    <3> QED BY <3>5
  <2> QED BY <2>2, <2>3, <2>4, <2>5, ScanStep
<1>6. Inductive(Dwords, rank, S)
  <2> HIDE DEF S
  <2> QED BY <1>5 DEF Inductive
<1>7. 0 \in S
  <2> HIDE DEF S
  <2>1. 0 \in Dwords
    BY <1>1
  <2> QED BY <1>4, <1>6, <2>1, ByRank, Zenon
<1> QED BY <1>7, ScanIs DEF scan

-----------------------------------------------------------------------------
(* The search bit by bit. *)

Points == Dwords \X (0..W)

\* The dwords from k on that are not full.
Open(k) == {d \in k..((total \div W) - 1) : ~FullDword(d)}

\* Its recursion.
ProbeBody(f, at, size) ==
  LET i == at[1]
      j == at[2]
      run == Run(i * W + 2^j, size)
  IN IF i * W >= Window THEN Fault
     ELSE IF j = W
     THEN IF Open(i + 1) = {} THEN NoFrame ELSE f[<<Min(Open(i + 1)), 0>>]
     ELSE IF i * W + j \in bits THEN f[<<i, j + 1>>]
     ELSE IF j = W - 1 THEN Fault
     ELSE IF Blockers(run) = {} THEN i * W + j
     ELSE IF StopsAt(run) >= Window THEN Fault
     ELSE f[<<StopsAt(run) \div W, j + 1>>]

LEMMA ProbeIs ==
  ASSUME NEW size
  PROVE  Probe(size) =
           IF Open(0) = {} THEN NoFrame
           ELSE (CHOOSE f : f = [at \in Points |-> ProbeBody(f, at, size)])[<<Min(Open(0)), 0>>]
BY DEF Probe, ProbeBody, Points, Dwords, Open

\* The first dword that is not full lies in the storage or just behind it.
LEMMA OpenIs ==
  ASSUME Readable, NEW k \in Dwords, Open(k) # {}
  PROVE  Min(Open(k)) \in Dwords /\ k <= Min(Open(k))
<1> DEFINE n == Window \div W
           m == Min(Open(k))
           last == (total \div W) - 1
<1>1. n \in Nat /\ Window = n * W /\ Dwords = 0..n /\ W >= 1 /\ W \in Nat /\ last \in Int
  BY WindowDwords, DwordOf, WidthAssumption DEF Dwords, Readable
<1>2. Open(k) \subseteq Nat /\ \A d \in Open(k) : k <= d /\ d <= last
  BY <1>1 DEF Open
<1>3. m \in Open(k) /\ \A d \in Open(k) : m <= d
  BY <1>2, MinExists
<1>4. n <= last => n \in Open(k)
  <2>1. Window \in Dword(n) /\ Window \notin bits
    <3>1. Window \notin Frames
      BY WidthAssumption DEF Frames
    <3>2. n * W \in Nat
      BY <1>1, WidthAssumption
    <3> DEFINE p == n * W
    <3>3. p \in p..(p + W - 1)
      <4> HIDE DEF p
      <4>1. p \in Nat
        BY <3>2 DEF p
      <4> QED BY <1>1, <4>1
    <3>4. Window \in Dword(n)
      BY <1>1, <3>3 DEF Dword
    <3> QED BY <3>1, <3>4 DEF Readable
  <2>2. ~FullDword(n)
    BY <2>1 DEF FullDword
  <2> HIDE DEF n
  <2>3. n <= last => n \in k..last
    BY <1>1
  <2> QED BY <2>2, <2>3 DEF Open
<1> HIDE DEF n, m, last
<1>5. m \in Nat /\ k <= m /\ m <= last
  BY <1>2, <1>3
<1>6. m <= n
  BY <1>1, <1>3, <1>4, <1>5
<1> QED BY <1>1, <1>5, <1>6 DEF m

\* The outcomes of one step: an answer, or the search goes on at a later point.
Later(x, y) == x[1] < y[1] \/ (x[1] = y[1] /\ x[2] < y[2])
Answers(at, size) ==
  \E result \in {NoFrame, Fault} \cup (Frames \ bits) : \A f : ProbeBody(f, at, size) = result
MovesOn(at, size, to) ==
  Later(at, to) /\ \A f : ProbeBody(f, at, size) = f[to]

LEMMA ProbeStep ==
  ASSUME Readable, NEW at \in Points, NEW size \in Nat
  PROVE  Answers(at, size) \/ \E to \in Points : MovesOn(at, size, to)
<1> DEFINE n == Window \div W
           i == at[1]
           j == at[2]
           start == i * W
           run == Run(start + 2^j, size)
<1>1. /\ n \in Nat /\ Window = n * W /\ Dwords = 0..n /\ W >= 1 /\ W \in Nat
      /\ i \in 0..n /\ j \in 0..W /\ at = <<i, j>> /\ i \in Nat /\ j \in Nat
  <2>1. n \in Nat /\ Window = n * W /\ Dwords = 0..n /\ W >= 1 /\ W \in Nat
    BY WindowDwords, WidthAssumption DEF Dwords
  <2>2. i \in Dwords /\ j \in 0..W /\ at = <<i, j>>
    BY DEF Points
  <2> HIDE DEF n, i, j
  <2> QED BY <2>1, <2>2
<1>2. \A a \in Dwords, b \in 0..W : <<a, b>> \in Points /\ <<a, b>>[1] = a /\ <<a, b>>[2] = b
  BY DEF Points
<1>3. start \in Nat /\ (start >= Window <=> i = n)
  <2>1. i \in Dwords
    BY <1>1
  <2> QED BY <1>1, <2>1, InOrder, WindowDwords
<1>4. CASE i = n
  <2>1. \A f : ProbeBody(f, at, size) = Fault
    BY <1>3, <1>4 DEF ProbeBody
  <2> QED BY <2>1 DEF Answers
<1>5. CASE i < n /\ j = W
  <2>1. ~(start >= Window)
    BY <1>1, <1>3, <1>5
  <2>2. i + 1 \in Dwords
    BY <1>1, <1>5
  <2>3. CASE Open(i + 1) = {}
    <3>1. \A f : ProbeBody(f, at, size) = NoFrame
      BY <1>5, <2>1, <2>3 DEF ProbeBody
    <3> QED BY <3>1 DEF Answers
  <2>4. CASE Open(i + 1) # {}
    <3> DEFINE m == Min(Open(i + 1))
    <3>1. \A f : ProbeBody(f, at, size) = f[<<m, 0>>]
      BY <1>5, <2>1, <2>4 DEF ProbeBody
    <3>2. m \in Dwords /\ i + 1 <= m
      BY <2>2, <2>4, OpenIs
    <3> HIDE DEF m
    <3>3. 0 \in 0..W /\ i < m
      BY <1>1, <3>2
    <3>4. <<m, 0>> \in Points /\ Later(at, <<m, 0>>)
      BY <1>2, <3>2, <3>3 DEF Later
    <3> QED BY <3>1, <3>4 DEF MovesOn
  <2> QED BY <2>3, <2>4
<1>6. CASE i < n /\ j < W
  <2>1. ~(start >= Window) /\ j # W
    BY <1>1, <1>3, <1>6
  <2>2. i \in Dwords /\ j + 1 \in 0..W
    BY <1>1, <1>6
  <2>3. CASE start + j \in bits
    <3>1. \A f : ProbeBody(f, at, size) = f[<<i, j + 1>>]
      BY <2>1, <2>3 DEF ProbeBody
    <3>2. <<i, j + 1>> \in Points /\ Later(at, <<i, j + 1>>)
      <4>1. j < j + 1
        BY <1>1
      <4> QED BY <1>2, <2>2, <4>1 DEF Later
    <3> QED BY <3>1, <3>2 DEF MovesOn
  <2>4. CASE start + j \notin bits /\ j = W - 1
    <3>1. \A f : ProbeBody(f, at, size) = Fault
      BY <2>1, <2>4 DEF ProbeBody
    <3> QED BY <3>1 DEF Answers
  <2>5. CASE start + j \notin bits /\ j # W - 1 /\ Blockers(run) = {}
    <3>1. \A f : ProbeBody(f, at, size) = start + j
      BY <2>1, <2>5 DEF ProbeBody
    <3>2. start + j \in Frames
      <4>1. start + W <= n * W
        BY <1>1, <1>6, InOrder
      <4> DEFINE p == n * W
      <4>2. Window = p /\ p \in Nat
        BY <1>1, WidthAssumption
      <4> HIDE DEF p, start, j
      <4>3. start + j >= 0 /\ start + j < Window /\ start + j \in Int
        BY <1>1, <1>3, <1>6, <4>1, <4>2 DEF p
      <4> QED BY <4>2, <4>3 DEF Frames
    <3> QED BY <2>5, <3>1, <3>2 DEF Answers
  <2>6. CASE /\ start + j \notin bits /\ j # W - 1 /\ Blockers(run) # {}
             /\ StopsAt(run) >= Window
    <3>1. \A f : ProbeBody(f, at, size) = Fault
      BY <2>1, <2>6 DEF ProbeBody
    <3> QED BY <3>1 DEF Answers
  <2>7. CASE /\ start + j \notin bits /\ j # W - 1 /\ Blockers(run) # {}
             /\ ~(StopsAt(run) >= Window)
    <3> DEFINE s == StopsAt(run)
               d == s \div W
    <3>1. \A f : ProbeBody(f, at, size) = f[<<d, j + 1>>]
      BY <2>1, <2>7 DEF ProbeBody
    <3>2. 2^j \in Nat
      <4>1. j \in 0..(W - 1)
        BY <1>1, <1>6
      <4> QED BY <4>1, MaskAssumption
    <3>3. run \subseteq Nat /\ \A b \in run : start <= b
      <4> DEFINE mask == 2^j
      <4>1. mask \in Nat
        BY <3>2
      <4> HIDE DEF mask, start
      <4> QED BY <1>3, <4>1 DEF Run, mask
    <3>4. s \in Nat /\ start <= s /\ s < Window
      <4>1. s \in run /\ s \in Nat
        BY <2>7, <3>3, StopIs
      <4> QED BY <2>7, <3>3, <4>1, WidthAssumption
    <3>5. d \in Nat /\ d < n
      <4>1. s \in Frames
        BY <3>4, WidthAssumption DEF Frames
      <4> QED BY <4>1, WindowDwords
    <3>6. i <= d
      <4>1. s % W \in 0..(W - 1) /\ s = d * W + (s % W)
        BY <3>4, DwordOf
      <4>2. ~(i <= d) => d * W + W <= start
        <5>1. ~(i <= d) => d < i
          BY <1>1, <3>5
        <5> QED BY <1>1, <3>5, <5>1, InOrder
      <4> DEFINE q == d * W
                 m == s % W
      <4>3. q \in Nat /\ m \in 0..(W - 1) /\ s = q + m /\ (~(i <= d) => q + W <= start)
        BY <3>5, <4>1, <4>2, InOrder
      <4> HIDE DEF q, m, s, d, start
      <4> QED BY <1>1, <1>3, <3>4, <4>3
    <3>7. d \in Dwords
      BY <1>1, <3>5
    <3> HIDE DEF d
    <3>8. <<d, j + 1>> \in Points /\ Later(at, <<d, j + 1>>)
      <4>1. j < j + 1 /\ (i < d \/ i = d)
        BY <1>1, <3>5, <3>6
      <4> QED BY <1>2, <2>2, <3>7, <4>1 DEF Later
    <3> QED BY <3>1, <3>8 DEF MovesOn
  <2> QED BY <2>3, <2>4, <2>5, <2>6, <2>7
<1> QED BY <1>1, <1>4, <1>5, <1>6

\* Points can be ranked so that later ones are lower.
LEMMA PointsRanked ==
  \E M \in Nat : \E rank : /\ Below(Points, rank, M)
                          /\ \A x, y \in Points : Later(x, y) => rank[y] < rank[x]
<1> DEFINE n == Window \div W
           width == W + 1
           rank == [at \in Points |-> (n - at[1]) * width + (W - at[2])]
           M == n * width + W
<1>1. /\ n \in Nat /\ Dwords = 0..n /\ W \in Nat /\ width \in Nat /\ width = W + 1
      /\ \A at \in Points : at[1] \in 0..n /\ at[2] \in 0..W
  BY WindowDwords, WidthAssumption DEF Dwords, Points
<1>2. /\ \A at \in Points : rank[at] = (n - at[1]) * width + (W - at[2])
      /\ rank = [at \in Points |-> rank[at]]
  OBVIOUS
<1> HIDE DEF rank
<1>3. ASSUME NEW a \in 0..n, NEW b \in 0..W, NEW c \in 0..n, NEW d \in 0..W
      PROVE  /\ (n - a) * width + (W - b) \in 0..M
             /\ a < c => (n - c) * width + (W - d) < (n - a) * width + (W - b)
             /\ a = c /\ b < d => (n - c) * width + (W - d) < (n - a) * width + (W - b)
  <2> HIDE DEF n, width
  <2>1. ASSUME NEW k \in Nat, NEW l \in Nat, k <= l
        PROVE  k * width \in Nat /\ l * width \in Nat /\ k * width <= l * width
               /\ (k < l => k * width + width <= l * width)
    <3>1. PICK e \in Nat : l = k + e
      BY <2>1
    <3>2. ASSUME NEW z \in Nat PROVE z * width \in Nat /\ (z >= 1 => z * width >= width)
      BY <1>1
    <3>3. l * width = k * width + e * width
      BY <1>1, <3>1
    <3>4. /\ k * width \in Nat /\ l * width \in Nat /\ e * width \in Nat
          /\ k < l => e * width >= width
      BY <3>1, <3>2
    <3> QED BY <1>1, <3>3, <3>4
  <2>2. n - a \in Nat /\ n - c \in Nat /\ n - a <= n
    BY <1>1
  <2> DEFINE p == (n - a) * width
             q == (n - c) * width
             r == n * width
  <2>3. p \in Nat /\ q \in Nat /\ r \in Nat /\ p <= r
    BY <1>1, <2>1, <2>2
  <2>4. a < c => q + width <= p
    BY <1>1, <2>1, <2>2
  <2>5. a = c => p = q
    OBVIOUS
  <2> HIDE DEF p, q, r
  <2>6. p + (W - b) \in 0..(r + W)
    BY <1>1, <2>3
  <2>7. a < c => q + (W - d) < p + (W - b)
    BY <1>1, <2>3, <2>4
  <2>8. a = c /\ b < d => q + (W - d) < p + (W - b)
    BY <1>1, <2>3, <2>5
  <2> QED BY <2>6, <2>7, <2>8 DEF p, q, r
<1>4. M \in Nat
  <2>1. 0 \in 0..n /\ 0 \in 0..W
    BY <1>1
  <2> HIDE DEF n, width
  <2>2. n * width \in Nat
    BY <1>1
  <2> DEFINE r == n * width
  <2> HIDE DEF r
  <2>3. r + W \in Nat
    BY <1>1, <2>2 DEF r
  <2> QED BY <2>3 DEF r
<1> HIDE DEF M, n, width
<1>5. Below(Points, rank, M)
  <2>1. \A at \in Points : rank[at] \in 0..M
    BY <1>1, <1>2, <1>3
  <2> QED BY <1>2, <2>1 DEF Below
<1>6. ASSUME NEW x \in Points, NEW y \in Points, Later(x, y) PROVE rank[y] < rank[x]
  BY <1>1, <1>2, <1>3, <1>6 DEF Later
<1> QED BY <1>4, <1>5, <1>6

\* The search only goes on to later points.
LEMMA ProbeSolvable ==
  ASSUME Readable, NEW size \in Nat
  PROVE  \E f : f = [at \in Points |-> ProbeBody(f, at, size)]
<1> DEFINE V == {NoFrame, Fault} \cup (Frames \ bits)
           Body == [p \in [Points -> V] \X Points |-> ProbeBody(p[1], p[2], size)]
<1>1. PICK M \in Nat : \E rank : /\ Below(Points, rank, M)
                               /\ \A x, y \in Points : Later(x, y) => rank[y] < rank[x]
  BY PointsRanked
<1>2. PICK rank : /\ Below(Points, rank, M)
                  /\ \A x, y \in Points : Later(x, y) => rank[y] < rank[x]
  BY <1>1
<1>3. /\ \A f \in [Points -> V] : \A at \in Points : Body[<<f, at>>] = ProbeBody(f, at, size)
      /\ Body = [p \in [Points -> V] \X Points |-> Body[p]]
  OBVIOUS
<1>4. V # {}
  OBVIOUS
<1> HIDE DEF Body, V
<1>5. ASSUME NEW f \in [Points -> V], NEW at \in Points PROVE Body[<<f, at>>] \in V
  <2>1. Body[<<f, at>>] = ProbeBody(f, at, size)
    BY <1>3
  <2>2. CASE Answers(at, size)
    <3>1. PICK result \in {NoFrame, Fault} \cup (Frames \ bits) :
            \A g : ProbeBody(g, at, size) = result
      BY <2>2 DEF Answers
    <3> QED BY <2>1, <3>1 DEF V
  <2>3. ASSUME NEW to \in Points, MovesOn(at, size, to) PROVE Body[<<f, at>>] \in V
    <3>1. ProbeBody(f, at, size) = f[to]
      BY <2>3 DEF MovesOn
    <3> QED BY <2>1, <3>1
  <2> QED BY <2>2, <2>3, ProbeStep
<1>6. ASSUME NEW f \in [Points -> V], NEW g \in [Points -> V], NEW at \in Points,
             \A y \in Points : rank[y] < rank[at] => f[y] = g[y]
      PROVE  Body[<<f, at>>] = Body[<<g, at>>]
  <2>1. Body[<<f, at>>] = ProbeBody(f, at, size) /\ Body[<<g, at>>] = ProbeBody(g, at, size)
    BY <1>3
  <2>2. CASE Answers(at, size)
    BY <2>1, <2>2 DEF Answers
  <2>3. ASSUME NEW to \in Points, MovesOn(at, size, to) PROVE Body[<<f, at>>] = Body[<<g, at>>]
    <3>1. f[to] = g[to]
      BY <1>2, <1>6, <2>3 DEF MovesOn
    <3>2. ProbeBody(f, at, size) = f[to] /\ ProbeBody(g, at, size) = g[to]
      BY <2>3 DEF MovesOn
    <3> QED BY <2>1, <3>1, <3>2
  <2> QED BY <2>2, <2>3, ProbeStep
<1>7. LooksDown(Points, V, rank, Body)
  <2>1. \A p \in [Points -> V] \X Points : Body[p] \in V
    BY <1>5
  <2>2. Body \in [[Points -> V] \X Points -> V]
    BY <1>3, <2>1
  <2> QED BY <1>6, <2>2 DEF LooksDown
<1>8. PICK f \in [Points -> V] : \A at \in Points : f[at] = Body[<<f, at>>]
  <2>1. Below(Points, rank, M)
    BY <1>2
  <2>2. Obeys(Points, V, Body)
    BY <1>4, <1>7, <2>1, Solvable
  <2> QED BY <2>2 DEF Obeys
<1>9. f = [at \in Points |-> ProbeBody(f, at, size)]
  <2> DEFINE B(at) == ProbeBody(f, at, size)
  <2>1. \A at \in Points : f[at] = B(at)
    BY <1>3, <1>8
  <2> HIDE DEF B
  <2>2. f = [at \in Points |-> B(at)]
    BY <2>1
  <2> QED BY <2>2 DEF B
<1> QED BY <1>9

\* What the search answers is a clear bit, if anything.
LEMMA ProbeFindsClear ==
  ASSUME Readable, NEW size \in Nat
  PROVE  Probe(size) \in {NoFrame, Fault} \cup (Frames \ bits)
<1> DEFINE V == {NoFrame, Fault} \cup (Frames \ bits)
           probe == CHOOSE f : f = [at \in Points |-> ProbeBody(f, at, size)]
           S == {at \in Points : probe[at] \in V}
<1>1. probe = [at \in Points |-> ProbeBody(probe, at, size)]
  BY ProbeSolvable, Zenon
<1> HIDE DEF probe
<1>2. \A at \in Points : probe[at] = ProbeBody(probe, at, size)
  <2> DEFINE B(at) == ProbeBody(probe, at, size)
  <2>1. probe = [at \in Points |-> B(at)]
    BY <1>1
  <2> HIDE DEF B
  <2>2. \A at \in Points : probe[at] = B(at)
    BY <2>1
  <2> QED BY <2>2 DEF B
<1>3. PICK M \in Nat : \E rank : /\ Below(Points, rank, M)
                               /\ \A x, y \in Points : Later(x, y) => rank[y] < rank[x]
  BY PointsRanked
<1>4. PICK rank : /\ Below(Points, rank, M)
                  /\ \A x, y \in Points : Later(x, y) => rank[y] < rank[x]
  BY <1>3
<1>5. rank \in [Points -> Nat]
  <2>1. 0..M \subseteq Nat
    OBVIOUS
  <2> QED BY <1>4, <2>1 DEF Below
<1>6. ASSUME NEW at \in Points, \A y \in Points : rank[y] < rank[at] => y \in S
      PROVE  at \in S
  <2>1. CASE Answers(at, size)
    <3>1. PICK result \in {NoFrame, Fault} \cup (Frames \ bits) :
            \A g : ProbeBody(g, at, size) = result
      BY <2>1 DEF Answers
    <3> QED BY <1>2, <3>1
  <2>2. ASSUME NEW to \in Points, MovesOn(at, size, to) PROVE at \in S
    <3>1. rank[to] < rank[at]
      BY <1>4, <2>2 DEF MovesOn
    <3>2. probe[to] \in V
      BY <1>6, <3>1
    <3>3. probe[at] = probe[to]
      BY <1>2, <2>2 DEF MovesOn
    <3> QED BY <3>2, <3>3
  <2> QED BY <2>1, <2>2, ProbeStep
<1>7. Inductive(Points, rank, S)
  <2> HIDE DEF S
  <2> QED BY <1>6 DEF Inductive
<1>8. \A at \in Points : probe[at] \in V
  <2>1. \A at \in Points : at \in S
    <3> HIDE DEF S
    <3> QED BY <1>5, <1>7, ByRank
  <2> QED BY <2>1
<1>9. CASE Open(0) = {}
  BY <1>9, ProbeIs
<1>10. CASE Open(0) # {}
  <2>1. 0 \in Dwords /\ 0 \in 0..W
    BY WindowDwords, WidthAssumption DEF Dwords
  <2>2. Min(Open(0)) \in Dwords
    BY <1>10, <2>1, OpenIs
  <2>3. <<Min(Open(0)), 0>> \in Points
    BY <2>1, <2>2 DEF Points
  <2>4. Probe(size) = probe[<<Min(Open(0)), 0>>]
    BY <1>10, ProbeIs DEF probe
  <2> QED BY <1>8, <2>3, <2>4
<1> QED BY <1>9, <1>10

-----------------------------------------------------------------------------
(* The search for one page. *)

\* Its recursion.
PageBody(f, i) ==
  IF i >= total THEN NoFrame
  ELSE IF i * W >= Window THEN Fault
  ELSE IF FullDword(i) THEN f[i + 1]
  ELSE i * W + Min(ClearIn(i))

LEMMA PageIs ==
  FirstFreePage = (CHOOSE f : f = [i \in Dwords |-> PageBody(f, i)])[0]
BY DEF FirstFreePage, PageBody, Dwords

\* What the search may answer that is at dword i: there is no clear bit up to the end it
\* looks at, or the first clear bit from there on.
FirstFrom(i, result) ==
  \/ result = Fault
  \/ result = NoFrame /\ (i * W)..(total * W - 1) \subseteq bits
  \/ result \in Frames \ bits /\ (i * W)..(result - 1) \subseteq bits

\* One step answers, or every bit of the dword is set and it goes on at the next.
Answered(i) == \E v \in Int : FirstFrom(i, v) /\ \A f : PageBody(f, i) = v
NextDword(i) ==
  /\ i + 1 \in Dwords
  /\ FullDword(i)
  /\ \A f : PageBody(f, i) = f[i + 1]

LEMMA PageStep ==
  ASSUME Readable, NEW i \in Dwords
  PROVE  Answered(i) \/ NextDword(i)
<1> DEFINE n == Window \div W
<1>1. /\ n \in Nat /\ Dwords = 0..n /\ i \in Nat /\ Window = n * W
      /\ total \in Nat /\ W \in Nat /\ W >= 1 /\ Window \in Nat
      /\ i * W >= Window <=> i = n
  BY WindowDwords, WidthAssumption DEF Dwords, Readable
<1> HIDE DEF n
<1>2. CASE i >= total
  <2>1. total * W <= i * W /\ total * W \in Nat /\ i * W \in Nat
    BY <1>1, <1>2, InOrder
  <2> DEFINE t == total * W
             p == i * W
  <2>2. t \in Nat /\ p \in Nat /\ t <= p
    BY <2>1
  <2> HIDE DEF t, p
  <2>3. p..(t - 1) = {}
    BY <2>2
  <2>4. FirstFrom(i, NoFrame)
    BY <2>3 DEF FirstFrom, t, p
  <2>5. \A f : PageBody(f, i) = NoFrame
    BY <1>2 DEF PageBody
  <2> QED BY <2>4, <2>5 DEF Answered, NoFrame
<1>3. CASE i < total /\ i * W >= Window
  <2>1. \A f : PageBody(f, i) = Fault
    BY <1>1, <1>3 DEF PageBody
  <2> QED BY <2>1 DEF Answered, FirstFrom, Fault
<1>4. CASE i < total /\ ~(i * W >= Window) /\ FullDword(i)
  <2>1. i + 1 \in Dwords
    BY <1>1, <1>4
  <2>2. \A f : PageBody(f, i) = f[i + 1]
    BY <1>1, <1>4 DEF PageBody
  <2> QED BY <1>4, <2>1, <2>2 DEF NextDword
<1>5. CASE i < total /\ ~(i * W >= Window) /\ ~FullDword(i)
  <2> DEFINE p == i * W
             j == Min(ClearIn(i))
  <2>1. p \in Nat /\ p + W <= Window
    <3>1. i < n
      BY <1>1, <1>5
    <3> QED BY <1>1, <3>1, InOrder
  <2>2. ClearIn(i) # {}
    <3>1. PICK b \in p..(p + W - 1) : b \notin bits
      BY <1>5 DEF FullDword, Dword
    <3>2. b - p \in 0..(W - 1) /\ p + (b - p) = b
      <4> HIDE DEF p
      <4> QED BY <1>1, <2>1, <3>1
    <3> QED BY <3>1, <3>2 DEF ClearIn
  <2>3. j \in ClearIn(i) /\ \A k \in ClearIn(i) : j <= k
    <3>1. ClearIn(i) \subseteq Nat
      BY <1>1 DEF ClearIn
    <3> QED BY <2>2, <3>1, MinExists
  <2>4. j \in 0..(W - 1) /\ p + j \notin bits
    BY <2>3 DEF ClearIn
  <2>5. \A f : PageBody(f, i) = p + j
    BY <1>1, <1>5 DEF PageBody
  <2> HIDE DEF j
  <2>6. ASSUME NEW b \in p..(p + j - 1) PROVE b \in bits
    <3> SUFFICES ASSUME b \notin bits PROVE FALSE
      OBVIOUS
    <3>1. b - p \in 0..(W - 1) /\ p + (b - p) = b /\ b - p < j
      <4> HIDE DEF p
      <4> QED BY <1>1, <2>1, <2>4, <2>6
    <3>2. b - p \in ClearIn(i)
      BY <3>1 DEF ClearIn
    <3> QED BY <1>1, <2>1, <2>3, <2>4, <3>1, <3>2
  <2>7. p = i * W
    OBVIOUS
  <2> HIDE DEF p
  <2>8. p + j \in Frames /\ p + j \in Int
    BY <1>1, <2>1, <2>4 DEF Frames
  <2>9. PICK r \in Int : r = p + j
    BY <2>8
  <2>10. r \in Frames /\ r \notin bits
    BY <2>4, <2>8, <2>9
  <2>11. \A b \in p..(r - 1) : b \in bits
    BY <1>1, <2>1, <2>4, <2>6, <2>9
  <2>12. \A f : PageBody(f, i) = r
    BY <2>5, <2>9, Zenon
  <2> QED BY <2>7, <2>10, <2>11, <2>12 DEF FirstFrom, Answered
<1> QED BY <1>1, <1>2, <1>3, <1>4, <1>5

LEMMA PageSolvable ==
  ASSUME Readable
  PROVE  \E f : f = [i \in Dwords |-> PageBody(f, i)]
<1> DEFINE n == Window \div W
           rank == [i \in Dwords |-> n - i]
           Body == [p \in [Dwords -> Int] \X Dwords |-> PageBody(p[1], p[2])]
<1>1. n \in Nat /\ Dwords = 0..n
  BY WindowDwords DEF Dwords
<1>2. rank \in [Dwords -> 0..n]
  BY <1>1
<1>3. /\ \A f \in [Dwords -> Int] : \A i \in Dwords : Body[<<f, i>>] = PageBody(f, i)
      /\ \A i \in Dwords : rank[i] = n - i
      /\ DOMAIN Body = [Dwords -> Int] \X Dwords
      /\ Body = [p \in [Dwords -> Int] \X Dwords |-> Body[p]]
  OBVIOUS
<1> HIDE DEF n, rank, Body
<1>4. Body \in [[Dwords -> Int] \X Dwords -> Int]
  <2>1. ASSUME NEW f \in [Dwords -> Int], NEW i \in Dwords PROVE Body[<<f, i>>] \in Int
    <3>1. Body[<<f, i>>] = PageBody(f, i)
      BY <1>3
    <3>2. CASE NextDword(i)
      BY <3>1, <3>2 DEF NextDword
    <3>3. ASSUME NEW v \in Int, \A h : PageBody(h, i) = v PROVE Body[<<f, i>>] \in Int
      <4>1. PageBody(f, i) = v
        BY <3>3
      <4> QED BY <3>1, <4>1
    <3> QED BY <3>2, <3>3, PageStep DEF Answered
  <2>2. \A p \in [Dwords -> Int] \X Dwords : Body[p] \in Int
    BY <2>1
  <2> QED BY <1>3, <2>2
<1>5. ASSUME NEW f \in [Dwords -> Int], NEW g \in [Dwords -> Int], NEW i \in Dwords,
             \A k \in Dwords : rank[k] < rank[i] => f[k] = g[k]
      PROVE  Body[<<f, i>>] = Body[<<g, i>>]
  <2>1. CASE NextDword(i)
    <3>1. i + 1 \in Dwords /\ rank[i + 1] < rank[i]
      BY <1>1, <1>3, <2>1 DEF NextDword
    <3> QED BY <1>3, <1>5, <2>1, <3>1 DEF NextDword
  <2>2. ASSUME NEW v \in Int, \A h : PageBody(h, i) = v PROVE Body[<<f, i>>] = Body[<<g, i>>]
    <3>1. PageBody(f, i) = v /\ PageBody(g, i) = v
      BY <2>2
    <3> QED BY <1>3, <3>1
  <2> QED BY <2>1, <2>2, PageStep DEF Answered
<1>6. LooksDown(Dwords, Int, rank, Body)
  BY <1>4, <1>5 DEF LooksDown
<1>7. PICK f \in [Dwords -> Int] : \A i \in Dwords : f[i] = Body[<<f, i>>]
  <2>1. Int # {}
    BY 0 \in Int
  <2>2. Below(Dwords, rank, n) /\ n \in Nat
    BY <1>1, <1>2 DEF Below
  <2>3. Obeys(Dwords, Int, Body)
    BY <1>6, <2>1, <2>2, Solvable
  <2> QED BY <2>3 DEF Obeys
<1>8. f = [i \in Dwords |-> PageBody(f, i)]
  <2> DEFINE B(i) == PageBody(f, i)
  <2>1. \A i \in Dwords : f[i] = B(i)
    BY <1>3, <1>7
  <2> HIDE DEF B
  <2>2. f = [i \in Dwords |-> B(i)]
    BY <2>1
  <2> QED BY <2>2 DEF B
<1> QED BY <1>8

\* From its last dword back to the first, the search finds the first clear bit.
LEMMA FirstFreePageIsFirst ==
  ASSUME Readable
  PROVE  FirstFrom(0, FirstFreePage)
<1> DEFINE scan == CHOOSE f : f = [i \in Dwords |-> PageBody(f, i)]
           n == Window \div W
           rank == [i \in Dwords |-> n - i]
           S == {i \in Dwords : FirstFrom(i, scan[i])}
<1>1. n \in Nat /\ Dwords = 0..n
  BY WindowDwords DEF Dwords
<1>2. scan = [i \in Dwords |-> PageBody(scan, i)]
  BY PageSolvable, Zenon
<1> HIDE DEF scan, n
<1>3. \A i \in Dwords : scan[i] = PageBody(scan, i)
  <2> DEFINE B(i) == PageBody(scan, i)
  <2>1. scan = [i \in Dwords |-> B(i)]
    BY <1>2
  <2> HIDE DEF B
  <2>2. \A i \in Dwords : scan[i] = B(i)
    BY <2>1
  <2> QED BY <2>2 DEF B
<1>4. rank \in [Dwords -> Nat] /\ \A i \in Dwords : rank[i] = n - i
  BY <1>1
<1> HIDE DEF rank
<1>5. ASSUME NEW i \in Dwords, \A k \in Dwords : rank[k] < rank[i] => k \in S
      PROVE  i \in S
  <2>1. CASE Answered(i)
    BY <1>3, <2>1 DEF Answered
  <2>2. CASE NextDword(i)
    <3>1. i + 1 \in Dwords /\ rank[i + 1] < rank[i]
      BY <1>1, <1>4, <2>2 DEF NextDword
    <3>2. FirstFrom(i + 1, scan[i])
      BY <1>3, <1>5, <2>2, <3>1 DEF NextDword
    <3> DEFINE p == i * W
    <3>3. p \in Nat /\ (i + 1) * W = p + W /\ W \in Nat /\ p..(p + W - 1) \subseteq bits
      BY <1>1, <2>2, WidthAssumption DEF NextDword, FullDword, Dword
    <3>4. ASSUME NEW last \in Int, (i + 1) * W..last \subseteq bits
          PROVE  p..last \subseteq bits
      <4> SUFFICES ASSUME NEW b \in p..last PROVE b \in bits
        OBVIOUS
      <4> HIDE DEF p
      <4>1. b \in p..(p + W - 1) \/ b \in (p + W)..last
        BY <3>3, <3>4
      <4> QED BY <3>3, <3>4, <4>1
    <3>5. total * W - 1 \in Int /\ \A r \in Frames : r - 1 \in Int
      BY WidthAssumption DEF Readable, Frames
    <3>6. FirstFrom(i, scan[i])
      BY <3>2, <3>4, <3>5 DEF FirstFrom
    <3> QED BY <3>6
  <2> QED BY <2>1, <2>2, PageStep
<1>6. Inductive(Dwords, rank, S)
  <2> HIDE DEF S
  <2> QED BY <1>5 DEF Inductive
<1>7. 0 \in S
  <2> HIDE DEF S
  <2>1. 0 \in Dwords
    BY <1>1
  <2> QED BY <1>4, <1>6, <2>1, ByRank, Zenon
<1> QED BY <1>7, PageIs DEF scan

\* A page that is looked for alone is clear.
LEMMA FirstFreePageIsClear ==
  ASSUME Readable
  PROVE  FirstFreePage \in {NoFrame, Fault} \cup (Frames \ bits)
BY FirstFreePageIsFirst DEF FirstFrom

\* Whatever is looked for, a run begins at a clear bit.
LEMMA FirstFreeIsClear ==
  ASSUME Readable, NEW size \in Nat
  PROVE  FirstFree(size) \in {NoFrame, Fault} \cup (Frames \ bits)
<1>1. CASE size > LargeSize
  <2>1. size > W
    BY <1>1, WidthAssumption
  <2>2. DwordScan(size) \in {NoFrame, Fault} \cup (Frames \ bits)
    BY <2>1, ScanIsRight DEF RightFrom
  <2> QED BY <1>1, <2>2, ProbeFindsClear, FirstFreePageIsClear DEF FirstFree
<1>2. CASE ~(size > LargeSize)
  BY <1>2, ProbeFindsClear, FirstFreePageIsClear DEF FirstFree
<1> QED BY <1>1, <1>2

-----------------------------------------------------------------------------
(* Counting. *)

LEMMA FramesFinite == ASSUME NEW S \in SUBSET Frames PROVE IsFiniteSet(S)
<1>1. 0 \in Int /\ Window - 1 \in Int
  BY WidthAssumption
<1>2. IsFiniteSet(Frames)
  BY <1>1, FS_Interval DEF Frames
<1> QED BY <1>2, FS_Subset

\* Setting the bits of a run adds the ones that were clear.
LEMMA MarkCounts ==
  ASSUME NEW S, IsFiniteSet(S), NEW T, IsFiniteSet(T)
  PROVE /\ Cardinality(T \ S) \in Nat
        /\ Cardinality(S \cup T) = Cardinality(S) + Cardinality(T \ S)
<1>1. IsFiniteSet(T \ S)
  BY FS_Difference
<1>2. Cardinality(S \cup (T \ S))
        = Cardinality(S) + Cardinality(T \ S) - Cardinality(S \cap (T \ S))
  BY <1>1, FS_Union
<1>3. S \cup (T \ S) = S \cup T /\ S \cap (T \ S) = {}
  OBVIOUS
<1>4. Cardinality({}) = 0
  BY FS_EmptySet
<1>5. Cardinality(S) \in Nat /\ Cardinality(T \ S) \in Nat
  BY <1>1, FS_CardinalityType
<1>6. Cardinality(S \cup T) = Cardinality(S) + Cardinality(T \ S) - 0
  BY <1>2, <1>3, <1>4
<1> QED BY <1>5, <1>6

\* Clearing them takes away the ones that were set.
LEMMA ClearCounts ==
  ASSUME NEW S, IsFiniteSet(S), NEW T
  PROVE /\ Cardinality(S \cap T) \in Nat
        /\ Cardinality(S \ T) = Cardinality(S) - Cardinality(S \cap T)
<1>1. IsFiniteSet(S \cap T)
  BY FS_Subset, S \cap T \subseteq S
<1>2. Cardinality(S \ T) = Cardinality(S) - Cardinality(S \cap T)
  BY FS_Difference
<1> QED BY <1>1, <1>2, FS_CardinalityType

-----------------------------------------------------------------------------
(* The invariant. *)

\* Bits that are set and not counted: as many as when s_nUsed was set to 0.
Missed == Cardinality(bits) - used

\* The invariant.  Until Initialize nothing is counted or granted; from then on bit 0 is
\* set, and no client holds page 0, so that giving back never clears it.  What Initialize left
\* clear is usable.
IInv ==
  /\ bits \in SUBSET Frames
  /\ used \in Int
  /\ total \in Nat
  /\ booted \in BOOLEAN
  /\ faulted \in BOOLEAN
  /\ ~booted => bits \in Contents /\ used = 0 /\ reply = Quiet
  /\ booted => 0 \in bits /\ Missed \in 0..Window
  /\ FreesOnlyRam
  /\ held \subseteq (Frames \ {0}) \X Nat
  /\ reply \in [op : {"none", "Initialize", "Alloc", "Free"}, ok : BOOLEAN,
                frame : Frames \cup {NoFrame}, size : Nat]

\* What the scan promises, of the run it finds.
LEMMA ScanFindsFirst == IInv => DwordScanFindsFirst
<1> SUFFICES ASSUME IInv, booted PROVE DwordScanFindsFirst
  BY DEF DwordScanFindsFirst
<1>1. ASSUME NEW n \in Sizes, n > LargeSize
      PROVE  LET runs == {i \in 0..((total \div W) - 1) : Run(i * W, n) \cap bits = {}}
             IN DwordScan(n) \in {Fault} \cup (IF runs = {} THEN {NoFrame} ELSE {Min(runs) * W})
  <2> DEFINE runs == AlignedRuns(0, n)
  <2>1. n \in Nat /\ n > W /\ Readable
    BY <1>1, WidthAssumption, InputsAssumption DEF IInv, Readable
  <2>2. RightFrom(0, n, DwordScan(n))
    BY <2>1, ScanIsRight
  <2>3. runs \subseteq Nat
    BY DEF AlignedRuns
  <2>4. ASSUME NEW k \in runs, \A m \in runs : k <= m PROVE k = Min(runs)
    <3> HIDE DEF runs
    <3>1. Min(runs) \in runs /\ Min(runs) <= k
      BY <2>3, MinExists
    <3>2. k <= Min(runs) /\ k \in Nat /\ Min(runs) \in Nat
      BY <2>3, <2>4, <3>1
    <3> QED BY <3>1, <3>2
  <2>5. DwordScan(n) \in {Fault} \cup (IF runs = {} THEN {NoFrame} ELSE {Min(runs) * W})
    <3>1. CASE DwordScan(n) = Fault
      BY <3>1
    <3>2. CASE DwordScan(n) = NoFrame /\ runs = {}
      BY <3>2
    <3>3. ASSUME NEW k \in runs, DwordScan(n) = k * W, \A m \in runs : k <= m
          PROVE  DwordScan(n) = Min(runs) * W /\ runs # {}
      BY <2>4, <3>3
    <3> HIDE DEF runs
    <3> QED BY <2>2, <3>1, <3>2, <3>3 DEF RightFrom, runs
  <2> QED BY <2>5 DEF AlignedRuns
<1> QED BY <1>1 DEF DwordScanFindsFirst

\* A run that was granted or given back leaves the count as far from the bits as it was.
LEMMA MarkKeepsPace ==
  ASSUME IInv, NEW run \in SUBSET Frames, Mark(run)
  PROVE /\ bits' = bits \cup run /\ bits' \in SUBSET Frames
        /\ used' \in Int /\ Missed' = Missed
<1>1. IsFiniteSet(bits) /\ IsFiniteSet(run)
  BY FramesFinite DEF IInv
<1>2. Cardinality(bits) \in Nat
  BY <1>1, FS_CardinalityType
<1>3. /\ Cardinality(run \ bits) \in Nat
      /\ Cardinality(bits \cup run) = Cardinality(bits) + Cardinality(run \ bits)
  BY <1>1, MarkCounts
<1>4. used \in Int /\ bits \in SUBSET Frames
  BY DEF IInv
<1> QED BY <1>2, <1>3, <1>4 DEF Mark, Missed

LEMMA ClearKeepsPace ==
  ASSUME IInv, NEW run, Clear(run)
  PROVE /\ bits' = bits \ run /\ bits' \in SUBSET Frames
        /\ used' \in Int /\ Missed' = Missed
<1>1. IsFiniteSet(bits)
  BY FramesFinite DEF IInv
<1>2. Cardinality(bits) \in Nat
  BY <1>1, FS_CardinalityType
<1>3. /\ Cardinality(bits \cap run) \in Nat
      /\ Cardinality(bits \ run) = Cardinality(bits) - Cardinality(bits \cap run)
  BY <1>1, ClearCounts
<1>4. run \cap bits = bits \cap run
  OBVIOUS
<1>5. used \in Int /\ bits \in SUBSET Frames
  BY DEF IInv
<1>6. bits' = bits \ run /\ used' = used - Cardinality(bits \cap run)
  BY <1>4 DEF Clear
<1> QED BY <1>2, <1>3, <1>5, <1>6 DEF Missed

\* A bitmap has at most Window bits set.
LEMMA AtMostWindow ==
  ASSUME NEW S \in SUBSET Frames
  PROVE  Cardinality(S) \in 0..Window
<1>1. 0 \in Int /\ Window - 1 \in Int /\ Window \in Nat \ {0}
  BY WidthAssumption
<1>2. IsFiniteSet(Frames) /\ Cardinality(Frames) = Window
  <2>1. IsFiniteSet(0..(Window - 1))
        /\ Cardinality(0..(Window - 1)) = IF 0 > Window - 1 THEN 0 ELSE (Window - 1) - 0 + 1
    BY <1>1, FS_Interval
  <2>2. ~(0 > Window - 1) /\ (Window - 1) - 0 + 1 = Window
    BY <1>1
  <2> QED BY <2>1, <2>2 DEF Frames
<1>3. Cardinality(S) <= Cardinality(Frames) /\ IsFiniteSet(S)
  BY <1>2, FS_Subset
<1>4. Cardinality(S) \in Nat
  BY <1>3, FS_CardinalityType
<1> QED BY <1>1, <1>2, <1>3, <1>4

LEMMA InitIInv == Init => IInv
<1> SUFFICES ASSUME Init PROVE IInv
  OBVIOUS
<1>1. Quiet \in [op : {"none", "Initialize", "Alloc", "Free"}, ok : BOOLEAN,
                frame : Frames \cup {NoFrame}, size : Nat]
  BY DEF Quiet
<1>2. bits \in SUBSET Frames
  BY InputsAssumption DEF Init
<1>3. 0 \in Int /\ 0 \in Nat
  OBVIOUS
<1>4. bits \in Contents /\ booted = FALSE /\ faulted = FALSE /\ held = {}
      /\ reply = Quiet /\ used = 0 /\ total = 0
  BY DEF Init
<1>5. FreesOnlyRam
  BY <1>4 DEF FreesOnlyRam, Quiet
<1> QED BY <1>1, <1>2, <1>3, <1>4, <1>5 DEF IInv

\* What Initialize leaves: bit 0 is set, and the bits that were set before s_nUsed became 0
\* are the ones it misses.  What it leaves clear is usable.
LEMMA InitializeKeeps ==
  ASSUME IInv, NEW map \in Maps, Initialize(map)
  PROVE  IInv'
<1> DEFINE before == MapBits(bits, map)
           after == InitialBits(bits, map)
<1>1. bits \in Contents
  BY DEF IInv, Initialize
<1>2. before \in SUBSET Frames /\ after \in SUBSET Frames /\ TotalBytes(map) \in Nat
  BY <1>1, MapsFitAssumption
<1>3. 0 \in after
  BY DEF InitialBits, SetRegion, UnsetRegion
<1>4. TotalBytes(map) \div PageBytes \in Nat
  <2>1. \A x \in Nat, P \in Nat \ {0} : x \div P \in Nat
    OBVIOUS
  <2> QED BY <1>2, <2>1, WidthAssumption
<1>5. Cardinality(before) \in 0..Window /\ Cardinality(after) \in 0..Window
  <2> HIDE DEF before, after
  <2> QED BY <1>2, AtMostWindow
<1>6. /\ bits' = after /\ used' = Cardinality(after) - Cardinality(before)
      /\ total' \in Nat /\ booted' = TRUE /\ faulted' = faulted /\ held' = held
      /\ reply' = [Quiet EXCEPT !.op = "Initialize"]
  BY <1>4 DEF Initialize
<1> HIDE DEF before, after
<1>7. used' \in Int /\ Missed' \in 0..Window
  BY <1>5, <1>6, WidthAssumption DEF Missed
<1>8. reply' \in [op : {"none", "Initialize", "Alloc", "Free"}, ok : BOOLEAN,
                  frame : Frames \cup {NoFrame}, size : Nat]
  BY <1>6 DEF Quiet
<1>9. FreesOnlyRam'
  <2> SUFFICES ASSUME NEW f \in Frames \ bits', f < BYTE * (total' \div BYTE) PROVE Usable(f)
    BY DEF FreesOnlyRam, Usable
  <2>1. total' = TotalBytes(map) \div PageBytes /\ f \notin InitialBits(bits, map)
    BY DEF Initialize
  <2>2. f \in Nat /\ f < BYTE * ((TotalBytes(map) \div PageBytes) \div BYTE)
    BY <2>1 DEF Frames
  <2> QED BY <1>2, <2>1, <2>2, ClearIsUsable
<1> QED BY <1>2, <1>3, <1>6, <1>7, <1>8, <1>9 DEF IInv

\* Alloc grants a run that begins at a clear bit, which is not bit 0.
LEMMA AllocKeeps ==
  ASSUME IInv, booted, NEW n \in Sizes, Alloc(n)
  PROVE  IInv' /\ Missed' = Missed
<1> DEFINE frame == FirstFree(n)
           run == Run(frame, n)
<1>1. n \in Nat /\ Readable
  BY InputsAssumption DEF IInv, Readable
<1>2. /\ frame \in Frames /\ run \in SUBSET Frames /\ Mark(run)
      /\ held' = held \cup {<<frame, n>>}
      /\ reply' = [op |-> "Alloc", ok |-> TRUE, frame |-> frame, size |-> n]
      /\ total' = total /\ booted' = booted /\ faulted' = faulted
  BY DEF Alloc, Reachable
<1>3. frame \in {NoFrame, Fault} \cup (Frames \ bits)
  BY <1>1, FirstFreeIsClear
<1> HIDE DEF frame, run
<1>4. frame # 0
  <2>1. \A f \in Frames : f # NoFrame /\ f # Fault
    BY DEF Frames, NoFrame, Fault
  <2> QED BY <1>2, <1>3, <2>1 DEF IInv
<1>5. /\ bits' = bits \cup run /\ bits' \in SUBSET Frames
      /\ used' \in Int /\ Missed' = Missed
  BY <1>2, MarkKeepsPace
<1>6. held' \subseteq (Frames \ {0}) \X Nat
  BY <1>1, <1>2, <1>4 DEF IInv
<1>7. reply' \in [op : {"none", "Initialize", "Alloc", "Free"}, ok : BOOLEAN,
                  frame : Frames \cup {NoFrame}, size : Nat]
  BY <1>1, <1>2
<1>8. 0 \in bits' /\ Missed' \in 0..Window /\ booted'
  BY <1>2, <1>5 DEF IInv
<1>9. total' \in Nat /\ booted' \in BOOLEAN /\ faulted' \in BOOLEAN
  BY <1>2 DEF IInv
<1>10. FreesOnlyRam'
  BY <1>2 DEF FreesOnlyRam
<1> QED BY <1>5, <1>6, <1>7, <1>8, <1>9, <1>10 DEF IInv

\* No client holds page 0, so giving back leaves bit 0 set.
LEMMA FreeKeeps ==
  ASSUME IInv, booted, NEW r \in held, Free(r)
  PROVE  IInv' /\ Missed' = Missed
<1> DEFINE run == Run(r[1], r[2])
<1>1. /\ Clear(run) /\ held' = held \ {r}
      /\ reply' = [op |-> "Free", ok |-> TRUE, frame |-> r[1], size |-> r[2]]
      /\ total' = total /\ booted' = booted /\ faulted' = faulted
  BY DEF Free
<1>2. r[1] \in Frames /\ r[1] # 0 /\ r[2] \in Nat
  BY DEF IInv
<1>3. 0 \notin run
  BY <1>2 DEF Run, Frames
<1> HIDE DEF run
<1>4. /\ bits' = bits \ run /\ bits' \in SUBSET Frames
      /\ used' \in Int /\ Missed' = Missed
  BY <1>1, ClearKeepsPace
<1>5. reply' \in [op : {"none", "Initialize", "Alloc", "Free"}, ok : BOOLEAN,
                  frame : Frames \cup {NoFrame}, size : Nat]
  BY <1>1, <1>2
<1>6. held' \subseteq (Frames \ {0}) \X Nat
  BY <1>1 DEF IInv
<1>7. 0 \in bits' /\ Missed' \in 0..Window /\ booted'
  BY <1>1, <1>3, <1>4 DEF IInv
<1>8. total' \in Nat /\ booted' \in BOOLEAN /\ faulted' \in BOOLEAN
  BY <1>1 DEF IInv
<1>9. FreesOnlyRam'
  BY <1>1 DEF FreesOnlyRam
<1> QED BY <1>4, <1>5, <1>6, <1>7, <1>8, <1>9 DEF IInv

\* Every step keeps the invariant and, once Initialize is over, the bits that are missed.
LEMMA StepKeeps ==
  ASSUME IInv, [Next]_vars
  PROVE  IInv' /\ (booted => Missed' = Missed)
<1>1. ASSUME NEW map \in Maps, Initialize(map)
      PROVE  IInv' /\ ~booted
  BY <1>1, InitializeKeeps DEF Initialize
<1>2. CASE InitializeWithModule
  <2>1. /\ bits' = bits /\ used' = used /\ total' = total /\ booted' = booted
        /\ held' = held /\ reply' = reply /\ faulted' = TRUE /\ ~booted
    BY <1>2 DEF InitializeWithModule
  <2>2. IInv'
    <3>1. FreesOnlyRam'
      BY <2>1 DEF IInv, FreesOnlyRam, Quiet
    <3> QED BY <2>1, <3>1 DEF IInv, Missed
  <2> QED BY <2>1, <2>2
<1>3. ASSUME NEW n \in Sizes, booted, Alloc(n)
      PROVE  IInv' /\ Missed' = Missed
  BY <1>3, AllocKeeps
<1>4. ASSUME NEW n \in Sizes, booted, AllocOutOfMemory(n) \/ AllocFaults(n)
      PROVE  IInv' /\ Missed' = Missed
  <2>1. /\ bits' = bits /\ used' = used /\ total' = total /\ booted' = booted
        /\ held' = held /\ faulted' \in BOOLEAN
    BY <1>4 DEF AllocOutOfMemory, AllocFaults, IInv
  <2>2. \/ reply' = [op |-> "Alloc", ok |-> FALSE, frame |-> NoFrame, size |-> n]
        \/ reply' = Quiet
    BY <1>4 DEF AllocOutOfMemory, AllocFaults
  <2>3. n \in Nat
    BY InputsAssumption
  <2>4. reply' \in [op : {"none", "Initialize", "Alloc", "Free"}, ok : BOOLEAN,
                    frame : Frames \cup {NoFrame}, size : Nat]
    <3>1. [op |-> "Alloc", ok |-> FALSE, frame |-> NoFrame, size |-> n]
             \in [op : {"none", "Initialize", "Alloc", "Free"}, ok : BOOLEAN,
                  frame : Frames \cup {NoFrame}, size : Nat]
      BY <2>3
    <3>2. Quiet \in [op : {"none", "Initialize", "Alloc", "Free"}, ok : BOOLEAN,
                    frame : Frames \cup {NoFrame}, size : Nat]
      BY DEF Quiet
    <3> QED BY <2>2, <3>1, <3>2
  <2>5. FreesOnlyRam'
    BY <2>2 DEF FreesOnlyRam, Quiet
  <2> QED BY <1>4, <2>1, <2>4, <2>5 DEF IInv, Missed
<1>5. ASSUME NEW r \in held, booted, Free(r)
      PROVE  IInv' /\ Missed' = Missed
  BY <1>5, FreeKeeps
<1>6. CASE UNCHANGED vars
  BY <1>6 DEF vars, IInv, Missed, FreesOnlyRam
<1>7. CASE Next
  BY <1>1, <1>2, <1>3, <1>4, <1>5, <1>7 DEF Next
<1> QED BY <1>6, <1>7

\* A single page is the first clear bit.
LEMMA SingleIsFirst ==
  ASSUME IInv, FirstFree(1) >= 0
  PROVE  FirstFree(1) \notin bits /\ 0..(FirstFree(1) - 1) \subseteq bits
<1>1. FirstFrom(0, FirstFree(1)) /\ 0 * W = 0
  BY FirstFreePageIsFirst, WidthAssumption DEF IInv, Readable, FirstFree
<1> QED BY <1>1 DEF FirstFrom, NoFrame, Fault

\* It is refused by the count, which misses some bits but counts none twice, or by a search
\* that met no clear bit.
LEMMA RefusedWhenSpent ==
  ASSUME IInv, booted, AllocOutOfMemory(1)
  PROVE  Cardinality(bits) >= total
<1>1. Cardinality(bits) \in Nat /\ used \in Int /\ total \in Nat /\ Cardinality(bits) - used >= 0
  <2>1. Cardinality(bits) \in 0..Window /\ Window \in Nat
    BY AtMostWindow, WidthAssumption DEF IInv
  <2> QED BY <2>1 DEF IInv, Missed
<1>2. CASE total - used < 1
  BY <1>1, <1>2
<1>3. CASE FirstFree(1) = NoFrame
  <2>1. 0..(total * W - 1) \subseteq bits
    <3>1. FirstFrom(0, NoFrame) /\ 0 * W = 0
      BY <1>3, FirstFreePageIsFirst, WidthAssumption DEF IInv, Readable, FirstFree
    <3>2. NoFrame # Fault /\ NoFrame \notin Frames
      BY DEF NoFrame, Fault, Frames
    <3> QED BY <3>1, <3>2 DEF FirstFrom
  <2>2. total * W \in Nat /\ total * W >= total
    BY <1>1, WidthAssumption
  <2>3. 0..(total - 1) \subseteq bits
    BY <1>1, <2>1, <2>2
  <2>4. Cardinality(0..(total - 1)) = total
    <3>1. 0 \in Int /\ total - 1 \in Int
      BY <1>1
    <3>2. Cardinality(0..(total - 1)) = IF 0 > total - 1 THEN 0 ELSE (total - 1) - 0 + 1
      BY <3>1, FS_Interval
    <3> QED BY <1>1, <3>2
  <2>5. IsFiniteSet(bits) /\ IsFiniteSet(0..(total - 1))
    BY <2>3, FramesFinite, FS_Subset DEF IInv
  <2>6. Cardinality(0..(total - 1)) <= Cardinality(bits)
    BY <2>3, <2>5, FS_Subset
  <2> QED BY <1>1, <2>4, <2>6
<1> QED BY <1>2, <1>3 DEF AllocOutOfMemory

LEMMA IInvTyped == IInv => TypeOK
<1> SUFFICES ASSUME IInv PROVE TypeOK
  OBVIOUS
<1>1. Cardinality(bits) \in 0..Window /\ Window \in Nat
  BY AtMostWindow, WidthAssumption DEF IInv
<1>2. CASE booted
  <2>1. used \in Int /\ Cardinality(bits) - used \in 0..Window
    BY <1>2 DEF IInv, Missed
  <2>2. used \in -Window..Window
    BY <1>1, <2>1
  <2> QED BY <2>2 DEF IInv, TypeOK
<1>3. CASE ~booted
  <2>1. used \in -Window..Window
    BY <1>1, <1>3 DEF IInv
  <2> QED BY <2>1 DEF IInv, TypeOK
<1> QED BY <1>2, <1>3

THEOREM InvariantHolds == Spec => []IInv
<1>1. Init => IInv
  BY InitIInv
<1>2. IInv /\ [Next]_vars => IInv'
  BY StepKeeps
<1> QED BY <1>1, <1>2, PTL DEF Spec

\* Nothing that is granted reaches behind the storage, and the count stays within its size.
THEOREM BitmapTypeCorrect == Spec => []TypeOK
<1>1. IInv => TypeOK
  BY IInvTyped
<1> QED BY <1>1, InvariantHolds, PTL

\* Page 0 stays out of the pool; whatever the memory map, what Initialize leaves clear lies in
\* RAM and apart from the kernel; and FirstFreeS, which skips what lies before a bit that
\* stopped it, misses no run of empty dwords, for every dword width, bitmap and size.
THEOREM BitmapIsSound == Spec => []BitmapSound
<1>1. IInv => BitmapSound
  BY ScanFindsFirst DEF IInv, BitmapSound, ZeroReserved
<1> QED BY <1>1, InvariantHolds, PTL

\* A page asked for alone is the first clear one of all the dwords gone through; when it is
\* refused as many bits are set as there are pages, in spite of what s_nUsed misses.
THEOREM SinglesAreServed == Spec => SinglesServed
<1> DEFINE Served ==
      IF reply'.ok THEN reply'.frame \notin bits /\ 0..(reply'.frame - 1) \subseteq bits
      ELSE Cardinality(bits) >= total
<1>1. IInv /\ [Next]_vars => [reply'.op = "Alloc" /\ reply'.size = 1 => Served]_vars
  <2> SUFFICES ASSUME IInv, Next, reply'.op = "Alloc", reply'.size = 1 PROVE Served
    OBVIOUS
  <2>1. ASSUME NEW n \in Sizes, Alloc(n) PROVE Served
    <3>1. /\ reply' = [op |-> "Alloc", ok |-> TRUE, frame |-> FirstFree(n), size |-> n]
          /\ FirstFree(n) \in Frames
      BY <2>1 DEF Alloc, Reachable
    <3>2. reply'.ok /\ reply'.frame = FirstFree(1) /\ FirstFree(1) \in Frames
      BY <3>1
    <3>3. FirstFree(1) \notin bits /\ 0..(FirstFree(1) - 1) \subseteq bits
      BY <3>2, SingleIsFirst DEF Frames
    <3> QED BY <3>2, <3>3
  <2>2. ASSUME NEW n \in Sizes, booted, AllocOutOfMemory(n) PROVE Served
    <3>1. n = 1 /\ ~reply'.ok
      BY <2>2 DEF AllocOutOfMemory
    <3> QED BY <2>2, <3>1, RefusedWhenSpent
  <2>3. ASSUME NEW n \in Sizes, AllocFaults(n) PROVE FALSE
    BY <2>3 DEF AllocFaults, Quiet
  <2>4. ASSUME NEW map \in Maps, Initialize(map) PROVE FALSE
    BY <2>4 DEF Initialize, Quiet
  <2>5. ASSUME InitializeWithModule PROVE FALSE
    BY <2>5 DEF InitializeWithModule, IInv, Quiet
  <2>6. ASSUME NEW r \in held, Free(r) PROVE FALSE
    BY <2>6 DEF Free
  <2> HIDE DEF Served
  <2> QED BY <2>1, <2>2, <2>3, <2>4, <2>5, <2>6 DEF Next
<1> QED BY <1>1, InvariantHolds, PTL DEF Spec, SinglesServed

\* s_nUsed keeps its distance from the number of set bits, whatever is granted and
\* freed: Set and Unset never count a page twice.
THEOREM CountIsExact == Spec => CountFollowsBits
<1>1. IInv /\ [Next]_vars
        => [booted => used' - Cardinality(bits') = used - Cardinality(bits)]_vars
  <2> SUFFICES ASSUME IInv, [Next]_vars, booted
               PROVE  used' - Cardinality(bits') = used - Cardinality(bits)
    OBVIOUS
  <2>1. Missed' = Missed /\ IInv'
    BY StepKeeps
  <2>2. /\ Cardinality(bits) \in Int /\ Cardinality(bits') \in Int
        /\ used \in Int /\ used' \in Int
    BY <2>1, AtMostWindow DEF IInv
  <2> QED BY <2>1, <2>2 DEF Missed
<1> QED BY <1>1, InvariantHolds, PTL DEF Spec, CountFollowsBits
=============================================================================
