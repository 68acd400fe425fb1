---------------------------- MODULE PagingProofs ----------------------------
(***************************************************************************)
(* The page tables are right for every size of a table, of memory, of the  *)
(* image, of the heap and of the bitmap up to the entries of one table,    *)
(* and for all pages and frames the callers use.                           *)
(*                                                                         *)
(* The argument is about walks.  A walk reads one entry a level, and the   *)
(* tables are a tree when walks that end at one table have taken one way.  *)
(* Then a write to an entry changes the walks that share it and no others, *)
(* whichever level it is of (WalkAfter, TreeAfter), and each step of       *)
(* PagingInitialize and of PagingMapPage is one such write.  What remains  *)
(* is where new tables come from: buffer in PagingInitialize, PhysAlloc    *)
(* afterwards, and between them one frame of g_LastUsed, which is the copy *)
(* of the root and no table any more; the frame behind it is one.          *)
(***************************************************************************)
EXTENDS Paging, FiniteSetTheorems, TLAPS

-----------------------------------------------------------------------------
(* Walks through the tables. *)

\* What a walk for v reads: the root, the tables of each level, and last the page's entry.
Walk(m, root, v, level) ==
  IF level = 4 THEN Entry(m, TableFrom(m, root, v, 3), v[4]) ELSE TableFrom(m, root, v, level)

\* v and w take the same way down to a level.
Agree(v, w, level) == \A j \in 1..level : v[j] = w[j]

\* The pages that are reached through other entries of the root than those in X.
Own(X) == {v \in Page : v[1] \notin X}

Tables(m, root, X) ==
  {Walk(m, root, v, k) : v \in Own(X), k \in 0..3} \ {NotSet}

\* Tables are frames, and a table is reached in one way.
Tree(m, root, X) ==
  /\ Tables(m, root, X) \subseteq Frame
  /\ \A v, w \in Own(X) : \A k, l \in 0..3 :
       Walk(m, root, v, k) = Walk(m, root, w, l) /\ Walk(m, root, v, k) # NotSet
         => k = l /\ Agree(v, w, k)

-----------------------------------------------------------------------------
(* The invariant. *)

Contents == [Frame -> [Index -> Frame \cup {NotSet, Device}]]

\* Before PagingInitialize there are the loader's tables.
Loaded ==
  /\ next \in 3..(Top - 2) /\ buffer = 0
  /\ build = [frame |-> PageDirectory, table |-> 0, level |-> 0]
  /\ mem[PageDirectory] = [Empty EXCEPT ![0] = LoaderTable, ![Recursive] = PageDirectory,
                                        ![Kernel] = LoaderTable]

LowAndRecursive == {0, Recursive}
BuildWalk(v, level) == Walk(mem, next, v, level)

\* The places of the loops.
InLoops ==
  /\ next \in 3..(Top - 2) /\ buffer \in (next + 2)..Top
  /\ phase = "image" => build.frame \in 1..(next - 1) /\ build.table = 0 /\ build.level <= 3
  /\ phase = "temporary" => build.frame = next /\ build.table = 0
  /\ phase = "heap" => build.frame = next /\ build.table < HeapTables /\ build.level <= 3
  /\ phase = "self" => build.frame \in next..buffer /\ build.level <= 3
  /\ build.level > 0 => build.frame < buffer

\* Frames from the copy to buffer are tables, and what PagingInitialize has gone through
\* is there.
Grown ==
  /\ Tree(mem, next, LowAndRecursive)
  /\ Tables(mem, next, LowAndRecursive) \subseteq next..(buffer - 1)
  /\ mem[next][Recursive] = PageDirectory
  /\ BuildWalk(Target, build.level) # NotSet
  /\ phase \in {"temporary", "heap", "self"} => BuildWalk(KernelPage(PageDirectory), 2) # NotSet
  /\ phase \in {"heap", "self"} => BuildWalk(Temp, 3) # NotSet

\* Where a table is set unasked there is none.
Vacant ==
  /\ ~Checks /\ build.level < 3 => BuildWalk(Target, build.level + 1) = NotSet
  /\ phase \in {"image", "temporary"} => BuildWalk(HeapPage(0), 1) = NotSet

\* The pages that are mapped so far.
Placed(v) ==
  IF v = Video THEN (IF phase \in {"heap", "self"} THEN Device ELSE NotSet)
  ELSE IF \E f \in 1..(build.frame - 1) : v = KernelPage(f) THEN v[3] * Fan + v[4]
  ELSE NotSet
MappedSoFar == \A v \in Own(LowAndRecursive) \ {Temp} : BuildWalk(v, 4) = Placed(v)

\* Afterwards.
RootWalk(v, level) == Walk(mem, PageDirectory, v, level)
Now == Tables(mem, PageDirectory, {Recursive})

\* Every page is mapped to what was asked, also while a call is going on.
Matching ==
  /\ Tree(mem, PageDirectory, {Recursive})
  /\ mem[PageDirectory][Recursive] = PageDirectory
  /\ RootWalk(Temp, 3) # NotSet /\ RootWalk(KernelPage(PageDirectory), 2) # NotSet
  /\ \A v \in Tracked : RootWalk(v, 4) = asked[v]
  /\ Now \cap free = {}

\* A call has come down as far as it says, and its new table is none yet.
CallOnTrack ==
  call # None =>
    /\ RootWalk(call.page, call.level) # NotSet
    /\ call.at \in {"clear", "link"} =>
         /\ call.level <= 2 /\ RootWalk(call.page, call.level + 1) = NotSet
         /\ call.fresh \in Frame \ (Now \cup free)
    /\ call.at = "link" => mem[call.fresh] = Empty

\* The tables of the bitmap.  One may be missing; until it is made g_LastUsed is the copy of the
\* root, which is no table any more.
BitmapFrames == buffer..(buffer + BitmapPages - 1)
OneTableMissing ==
  /\ next < buffer /\ next \notin Now
  /\ \A f \in BitmapFrames :
       RootWalk(KernelPage(f), 3) = NotSet => f \div Fan = ((buffer - 1) \div Fan) + 1
NoTableMissing ==
  \A f \in BitmapFrames :
    \/ RootWalk(KernelPage(f), 3) # NotSet
    \/ call # None /\ call.at \in {"clear", "link"} /\ KernelPage(f)[3] = call.page[3]
BitmapOnTrack ==
  phase = "bitmap" =>
    /\ Now \subseteq 0..(buffer - 1)
    /\ call # None => /\ call.page \in {KernelPage(f) : f \in BitmapFrames}
                      /\ call.at \in {"clear", "link"} => call.fresh < buffer
    /\ OneTableMissing \/ NoTableMissing

TranslationsAgree == \A v \in Clients : tlb[v] # NotSet => tlb[v] = asked[v]

IInv ==
  /\ TypeOK
  /\ TranslationsAgree
  /\ ~Settled => call = None /\ stale = FALSE
  /\ phase \notin {"up", "panic"} => free = {}
  /\ phase = "boot" => Loaded
  /\ Building => InLoops /\ Grown /\ Vacant /\ MappedSoFar
  /\ Settled => PageDirectory < buffer /\ buffer + BitmapPages <= Top
  /\ Settled /\ ~stale => Matching /\ CallOnTrack /\ BitmapOnTrack

-----------------------------------------------------------------------------
(* What a step does to the walks. *)

\* A walk reads one entry a level.
LEMMA WalkSteps ==
  ASSUME NEW m, NEW root, NEW v
  PROVE  /\ Walk(m, root, v, 0) = root
         /\ \A k \in 0..3 : Walk(m, root, v, k + 1) = Entry(m, Walk(m, root, v, k), v[k + 1])
<1>1. ASSUME NEW k \in 0..3
      PROVE  Walk(m, root, v, k + 1) = Entry(m, Walk(m, root, v, k), v[k + 1])
  <2>1. CASE k = 0
    BY <2>1 DEF Walk, TableFrom
  <2>2. CASE k = 1
    BY <2>2 DEF Walk, TableFrom
  <2>3. CASE k = 2
    BY <2>3 DEF Walk, TableFrom
  <2>4. CASE k = 3
    BY <2>4 DEF Walk, TableFrom
  <2> QED BY <2>1, <2>2, <2>3, <2>4
<1> QED BY <1>1 DEF Walk, TableFrom

\* What holds of the root and goes down with every step holds of all five levels.
LEMMA DownTheLevels ==
  ASSUME NEW S, 0 \in S, \A k \in 0..3 : k \in S => k + 1 \in S
  PROVE  0..4 \subseteq S
<1>1. 1 \in S
  OBVIOUS
<1>2. 2 \in S
  BY <1>1
<1>3. 3 \in S
  BY <1>2
<1>4. 4 \in S
  BY <1>3
<1> QED BY <1>1, <1>2, <1>3, <1>4

\* The same way, one level at a time.
LEMMA AgreeStep ==
  ASSUME NEW v, NEW w, NEW k \in 0..3
  PROVE  Agree(v, w, k + 1) <=> Agree(v, w, k) /\ v[k + 1] = w[k + 1]
BY DEF Agree

\* The kernel's area is no larger than memory.
LEMMA TopIs ==
  /\ Ram \in Nat /\ Top \in 0..Ram /\ Top < Fan * Fan
<1>1. Ram \in Nat /\ Fan \in Nat /\ Fan >= 4
  BY PagingAssumption
<1>2. Fan * Fan \in Nat /\ Fan * Fan >= 1
  BY <1>1
<1> QED BY <1>1, <1>2 DEF Top

\* The special entries of the root differ, and so do the values an entry may have.
LEMMA Special ==
  /\ Fan \in Nat /\ Fan >= 4 /\ Ram \in Nat /\ Top \in 0..Ram /\ Top < Fan * Fan
  /\ Heap \in Index /\ Recursive \in Index /\ Kernel \in Index /\ 0 \in Index
  /\ Heap # Recursive /\ Heap # Kernel /\ Recursive # Kernel /\ Heap # 0 /\ Recursive # 0
  /\ Kernel # 0
  /\ NotSet \notin Frame /\ Device \notin Frame /\ NotSet # Device
BY PagingAssumption, TopIs DEF Heap, Recursive, Kernel, Index, NotSet, Frame, Device

\* Pages that go the same way meet the same tables.
LEMMA SameWay ==
  ASSUME NEW m, NEW root, NEW v, NEW w, NEW k \in 0..4, Agree(v, w, k)
  PROVE  Walk(m, root, v, k) = Walk(m, root, w, k)
<1> DEFINE S == {l \in 0..4 : Agree(v, w, l) => Walk(m, root, v, l) = Walk(m, root, w, l)}
<1>1. 0 \in S
  BY WalkSteps
<1>2. ASSUME NEW l \in 0..3, l \in S PROVE l + 1 \in S
  <2>1. l + 1 \in 0..4
    OBVIOUS
  <2>2. ASSUME Agree(v, w, l + 1) PROVE Walk(m, root, v, l + 1) = Walk(m, root, w, l + 1)
    <3>1. Agree(v, w, l) /\ v[l + 1] = w[l + 1]
      BY <2>2, AgreeStep
    <3> QED BY <1>2, <3>1, WalkSteps
  <2> QED BY <2>1, <2>2
<1>3. 0..4 \subseteq S
  <2> HIDE DEF S
  <2> QED BY <1>1, <1>2, DownTheLevels
<1> QED BY <1>3

\* A walk ends where an entry is not set.
LEMMA WalkEnds ==
  ASSUME NEW m, NEW root, NEW v, NEW k \in 0..3, Walk(m, root, v, k + 1) # NotSet
  PROVE  Walk(m, root, v, k) \in Frame /\ Walk(m, root, v, k) # NotSet
<1>1. Walk(m, root, v, k + 1) = Entry(m, Walk(m, root, v, k), v[k + 1])
  BY WalkSteps
<1> QED BY <1>1, Special DEF Entry

\* A walk above the pages ends at a table.
LEMMA IsTable ==
  ASSUME NEW m, NEW root, NEW X, NEW v \in Own(X), NEW k \in 0..3, Walk(m, root, v, k) # NotSet
  PROVE  Walk(m, root, v, k) \in Tables(m, root, X)
BY DEF Tables

\* Entry p of table t becomes x: nothing else changes in a table, and where x is to be a table
\* it is a new one without entries, and took no other's place.
SetsEntry(m, m1, root, X, p, k, x) ==
  /\ Tree(m, root, X) /\ p \in Own(X) /\ k \in 0..3 /\ Walk(m, root, p, k) # NotSet
  /\ \A t \in Tables(m, root, X) : \A j \in Index :
       m1[t][j] = IF t = Walk(m, root, p, k) /\ j = p[k + 1] THEN x ELSE m[t][j]
  /\ k < 3 => /\ Walk(m, root, p, k + 1) = NotSet
              /\ x \in Frame \ Tables(m, root, X)
              /\ \A j \in Index : m1[x][j] = NotSet

\* Where an entry is set, the pages that share it and no others read something new.
LEMMA WalkAfter ==
  ASSUME NEW m, NEW m1, NEW root, NEW X, NEW p, NEW k, NEW x, SetsEntry(m, m1, root, X, p, k, x)
  PROVE  \A v \in Own(X) : \A l \in 0..4 :
           Walk(m1, root, v, l) =
             IF l = k + 1 /\ Agree(v, p, l) THEN x ELSE Walk(m, root, v, l)
<1> SUFFICES ASSUME NEW v \in Own(X)
             PROVE  \A l \in 0..4 : Walk(m1, root, v, l) =
                      IF l = k + 1 /\ Agree(v, p, l) THEN x ELSE Walk(m, root, v, l)
  OBVIOUS
<1> DEFINE A(l) == Walk(m1, root, v, l)
           B(l) == Walk(m, root, v, l)
           S == {l \in 0..4 : A(l) = IF l = k + 1 /\ Agree(v, p, l) THEN x ELSE B(l)}
<1>1. p \in Own(X) /\ k \in 0..3 /\ Tree(m, root, X)
  BY DEF SetsEntry
<1>2. \A l \in 0..3 : v[l + 1] \in Index
  BY DEF Own, Page
<1>3. 0 \in S
  BY <1>1, WalkSteps
<1>4. ASSUME NEW l \in 0..3, l \in S PROVE l + 1 \in S
  <2>1. A(l + 1) = Entry(m1, A(l), v[l + 1]) /\ B(l + 1) = Entry(m, B(l), v[l + 1])
    BY WalkSteps
  <2>2. A(l) = IF l = k + 1 /\ Agree(v, p, l) THEN x ELSE B(l)
    BY <1>4
  <2>3. CASE l = k + 1 /\ Agree(v, p, l)
    <3>1. k < 3 /\ A(l) = x
      BY <1>1, <2>2, <2>3
    <3>2. A(l + 1) = NotSet
      BY <1>2, <2>1, <3>1 DEF SetsEntry, Entry
    <3>3. B(l) = NotSet
      BY <2>3, <3>1, <1>1, SameWay DEF SetsEntry
    <3>4. B(l + 1) = NotSet
      BY <2>1, <3>3, Special DEF Entry
    <3>5. l + 1 # k + 1
      BY <2>3, <1>1
    <3> QED BY <3>2, <3>4, <3>5
  <2>4. CASE ~(l = k + 1 /\ Agree(v, p, l))
    <3>1. A(l) = B(l)
      BY <2>2, <2>4
    <3>2. CASE B(l) = NotSet
      <4>1. A(l + 1) = NotSet /\ B(l + 1) = NotSet
        BY <2>1, <3>1, <3>2, Special DEF Entry
      <4>2. ~(l = k /\ Agree(v, p, l))
        BY <1>1, <3>2, SameWay DEF SetsEntry
      <4>3. ~(l + 1 = k + 1 /\ Agree(v, p, l + 1))
        BY <1>1, <4>2, AgreeStep
      <4> QED BY <4>1, <4>3
    <3>3. CASE B(l) # NotSet
      <4>1. B(l) \in Tables(m, root, X) /\ B(l) \in Frame
        BY <1>1, <3>3, IsTable DEF Tree
      <4>2. A(l + 1) = IF B(l) = Walk(m, root, p, k) /\ v[l + 1] = p[k + 1] THEN x
                       ELSE m[B(l)][v[l + 1]]
        BY <1>2, <2>1, <3>1, <4>1 DEF SetsEntry, Entry
      <4>3. B(l + 1) = m[B(l)][v[l + 1]]
        BY <2>1, <4>1 DEF Entry
      <4>4. B(l) = Walk(m, root, p, k) <=> l = k /\ Agree(v, p, l)
        <5>1. ASSUME B(l) = Walk(m, root, p, k) PROVE l = k /\ Agree(v, p, l)
          BY <1>1, <3>3, <5>1 DEF Tree
        <5>2. ASSUME l = k, Agree(v, p, l) PROVE B(l) = Walk(m, root, p, k)
          BY <5>2, SameWay
        <5> QED BY <5>1, <5>2
      <4>5. (B(l) = Walk(m, root, p, k) /\ v[l + 1] = p[k + 1])
              <=> (l + 1 = k + 1 /\ Agree(v, p, l + 1))
        BY <1>1, <4>4, AgreeStep
      <4> QED BY <4>2, <4>3, <4>5
    <3> QED BY <3>2, <3>3
  <2> QED BY <2>3, <2>4
<1>5. 0..4 \subseteq S
  <2> HIDE DEF S
  <2> QED BY <1>3, <1>4, DownTheLevels
<1> QED BY <1>5

\* The tables stay a tree; walks that led somewhere above the pages lead there still.
LEMMA TreeAfter ==
  ASSUME NEW m, NEW m1, NEW root, NEW X, NEW p, NEW k, NEW x, SetsEntry(m, m1, root, X, p, k, x)
  PROVE  /\ Tree(m1, root, X)
         /\ Tables(m1, root, X) \subseteq Tables(m, root, X) \cup (IF k < 3 THEN {x} ELSE {})
         /\ \A v \in Own(X) : \A l \in 0..3 :
              Walk(m, root, v, l) # NotSet => Walk(m1, root, v, l) = Walk(m, root, v, l)
         /\ Walk(m1, root, p, k + 1) = x
<1> DEFINE A(v, l) == Walk(m1, root, v, l)
           B(v, l) == Walk(m, root, v, l)
           New(v, l) == l = k + 1 /\ Agree(v, p, l)
<1>1. p \in Own(X) /\ k \in 0..3 /\ Tree(m, root, X)
  BY DEF SetsEntry
<1>2. \A v \in Own(X) : \A l \in 0..4 : A(v, l) = IF New(v, l) THEN x ELSE B(v, l)
  BY WalkAfter
<1>3. k < 3 => x \in Frame \ Tables(m, root, X) /\ B(p, k + 1) = NotSet
  BY DEF SetsEntry
<1>4. ASSUME NEW v \in Own(X), NEW l \in 0..3, New(v, l)
      PROVE  k < 3 /\ B(v, l) = NotSet /\ A(v, l) = x
  <2>1. k < 3 /\ l = k + 1 /\ Agree(v, p, l)
    BY <1>1, <1>4
  <2>2. B(v, l) = B(p, l)
    BY <2>1, SameWay
  <2> QED BY <1>2, <1>3, <1>4, <2>1, <2>2
<1>5. \A v \in Own(X) : \A l \in 0..3 : ~New(v, l) => A(v, l) = B(v, l)
  BY <1>2
<1>6. \A v \in Own(X) : \A l \in 0..3 : B(v, l) # NotSet => B(v, l) \in Tables(m, root, X)
  BY IsTable
<1> HIDE DEF A, B, New
<1>7. Tables(m1, root, X) \subseteq Tables(m, root, X) \cup (IF k < 3 THEN {x} ELSE {})
  <2> SUFFICES ASSUME NEW v \in Own(X), NEW l \in 0..3, A(v, l) # NotSet
               PROVE  A(v, l) \in Tables(m, root, X) \cup (IF k < 3 THEN {x} ELSE {})
    BY DEF Tables, A
  <2> QED BY <1>4, <1>5, <1>6
<1>8. Tables(m1, root, X) \subseteq Frame
  BY <1>1, <1>3, <1>7 DEF Tree
<1>9. ASSUME NEW v \in Own(X), NEW w \in Own(X), NEW i \in 0..3, NEW j \in 0..3,
             A(v, i) = A(w, j), A(v, i) # NotSet
      PROVE  i = j /\ Agree(v, w, i)
  <2>1. CASE ~New(v, i) /\ ~New(w, j)
    BY <1>1, <1>5, <1>9, <2>1 DEF Tree, B
  <2>2. CASE New(v, i) /\ New(w, j)
    <3>1. i = k + 1 /\ j = k + 1 /\ Agree(v, p, i) /\ Agree(w, p, j)
      BY <2>2 DEF New
    <3> QED BY <3>1 DEF Agree
  <2>3. CASE New(v, i) /\ ~New(w, j)
    BY <1>3, <1>4, <1>5, <1>6, <1>9, <2>3
  <2>4. CASE ~New(v, i) /\ New(w, j)
    BY <1>3, <1>4, <1>5, <1>6, <1>9, <2>4
  <2> QED BY <2>1, <2>2, <2>3, <2>4
<1>10. Tree(m1, root, X)
  BY <1>8, <1>9 DEF Tree, A
<1>11. \A v \in Own(X) : \A l \in 0..3 : B(v, l) # NotSet => A(v, l) = B(v, l)
  BY <1>4, <1>5
<1>12. A(p, k + 1) = x
  <2>1. New(p, k + 1)
    BY DEF New, Agree
  <2> QED BY <1>1, <1>2, <2>1
<1> QED BY <1>7, <1>10, <1>11, <1>12 DEF A, B

\* What is written to frames that are no tables changes no walk.
LEMMA WalksKept ==
  ASSUME NEW m, NEW m1, NEW root, NEW X, Tree(m, root, X),
         \A t \in Tables(m, root, X) : \A j \in Index : m1[t][j] = m[t][j]
  PROVE  /\ \A v \in Own(X) : \A l \in 0..4 : Walk(m1, root, v, l) = Walk(m, root, v, l)
         /\ Tree(m1, root, X) /\ Tables(m1, root, X) = Tables(m, root, X)
<1> DEFINE A(v, l) == Walk(m1, root, v, l)
           B(v, l) == Walk(m, root, v, l)
<1>1. ASSUME NEW v \in Own(X) PROVE \A l \in 0..4 : A(v, l) = B(v, l)
  <2> DEFINE S == {l \in 0..4 : A(v, l) = B(v, l)}
  <2>1. \A l \in 0..3 : v[l + 1] \in Index
    BY DEF Own, Page
  <2>2. 0 \in S
    BY WalkSteps
  <2>3. ASSUME NEW l \in 0..3, l \in S PROVE l + 1 \in S
    <3>1. A(v, l + 1) = Entry(m1, A(v, l), v[l + 1])
          /\ B(v, l + 1) = Entry(m, B(v, l), v[l + 1])
      BY WalkSteps
    <3>2. B(v, l) # NotSet => B(v, l) \in Tables(m, root, X)
      BY IsTable
    <3>3. A(v, l) = B(v, l)
      BY <2>3
    <3>4. A(v, l + 1) = B(v, l + 1)
      BY <2>1, <3>1, <3>2, <3>3, Special DEF Entry
    <3> QED BY <3>4
  <2>4. 0..4 \subseteq S
    <3> HIDE DEF S
    <3> QED BY <2>2, <2>3, DownTheLevels
  <2> QED BY <2>4
<1>2. \A v \in Own(X) : \A l \in 0..3 : A(v, l) = B(v, l)
  BY <1>1
<1> HIDE DEF A, B
<1>3. Tables(m1, root, X) = Tables(m, root, X)
  <2>1. \A t : t \in Tables(m1, root, X)
                <=> t # NotSet /\ \E v \in Own(X) : \E l \in 0..3 : t = A(v, l)
    BY DEF Tables, A
  <2>2. \A t : t \in Tables(m, root, X)
                <=> t # NotSet /\ \E v \in Own(X) : \E l \in 0..3 : t = B(v, l)
    BY DEF Tables, B
  <2> QED BY <1>2, <2>1, <2>2
<1>4. Tree(m1, root, X)
  <2>1. \A v, w \in Own(X) : \A i, j \in 0..3 :
          A(v, i) = A(w, j) /\ A(v, i) # NotSet => i = j /\ Agree(v, w, i)
    BY <1>2 DEF Tree, B
  <2> QED BY <1>3, <2>1 DEF Tree, A
<1> QED BY <1>1, <1>3, <1>4 DEF A, B

-----------------------------------------------------------------------------
(* Pages. *)

\* Multiples of a table's size keep the order.
LEMMA Multiples ==
  ASSUME NEW y \in Nat, NEW z \in Nat
  PROVE  /\ y * Fan \in Nat /\ z * Fan \in Nat
         /\ y <= z => y * Fan <= z * Fan
         /\ y < z => y * Fan + Fan <= z * Fan
<1>1. Fan \in Nat /\ Fan >= 1
  BY PagingAssumption, TopIs
<1>2. ASSUME NEW d \in Nat PROVE d * Fan \in Nat /\ (d >= 1 => d * Fan >= Fan)
  BY <1>1
<1>3. CASE y <= z
  <2>1. PICK d \in Nat : z = y + d
    BY <1>3
  <2>2. z * Fan = y * Fan + d * Fan
    BY <1>1, <2>1
  <2>3. /\ y * Fan \in Nat /\ z * Fan \in Nat /\ d * Fan \in Nat
        /\ y < z => d * Fan >= Fan
    BY <1>2, <2>1
  <2> QED BY <1>1, <2>2, <2>3
<1>4. CASE ~(y <= z)
  BY <1>2, <1>4
<1> QED BY <1>3, <1>4

\* What a quotient and a remainder are.
LEMMA Division ==
  ASSUME NEW P \in Nat \ {0}, NEW a \in Int
  PROVE  a \div P \in Int /\ a % P \in 0..(P - 1) /\ a % P = a - P * (a \div P)
OBVIOUS

\* The quotient of a frame is no negative number.
LEMMA DivisionIsNat ==
  ASSUME NEW P \in Nat \ {0}, NEW a \in Nat
  PROVE  a \div P \in Nat
OBVIOUS

\* A frame is a place in a table.
LEMMA FrameParts ==
  ASSUME NEW f \in Nat
  PROVE  /\ f \div Fan \in Nat /\ f % Fan \in Index
         /\ (f \div Fan) * Fan + (f % Fan) = f
<1>1. Fan \in Nat \ {0}
  BY PagingAssumption, TopIs
<1>2. f \div Fan \in Nat
  BY <1>1, DivisionIsNat
<1>3. f % Fan \in 0..(Fan - 1) /\ f % Fan = f - Fan * (f \div Fan)
  BY <1>1, Division
<1> DEFINE q == f \div Fan
           r == f % Fan
<1>4. q \in Nat /\ r \in 0..(Fan - 1) /\ r = f - Fan * q
  BY <1>2, <1>3
<1> HIDE DEF q, r
<1>5. Fan * q = q * Fan /\ q * Fan \in Nat
  BY <1>1, <1>4, Multiples
<1>6. q * Fan + r = f
  <2> DEFINE b == q * Fan
  <2>1. b \in Nat /\ r = f - b /\ r \in Nat
    BY <1>1, <1>4, <1>5
  <2> HIDE DEF b
  <2>2. b + r = f
    BY <2>1
  <2> QED BY <2>2 DEF b
<1> QED BY <1>4, <1>6 DEF q, r, Index

\* The page at a frame's kernel address, and the frame it stands for.
LEMMA KernelPageIs ==
  ASSUME NEW f \in 0..Top
  PROVE  /\ KernelPage(f) \in Page
         /\ KernelPage(f)[1] = Kernel /\ KernelPage(f)[2] = Fan - 2
         /\ KernelPage(f)[3] = f \div Fan /\ KernelPage(f)[4] = f % Fan
         /\ KernelPage(f)[3] * Fan + KernelPage(f)[4] = f
<1> DEFINE q == f \div Fan
           r == f % Fan
<1>1. f \in Nat /\ f < Fan * Fan
  BY Special
<1>2. q \in Nat /\ r \in Index /\ q * Fan + r = f
  BY <1>1, FrameParts
<1> HIDE DEF q, r
<1>3. q < Fan
  <2> SUFFICES ASSUME Fan <= q PROVE FALSE
    BY <1>2, Special
  <2>1. Fan * Fan <= q * Fan /\ q * Fan \in Nat /\ Fan * Fan \in Nat
    BY <1>2, Multiples, Special
  <2>2. r \in Nat
    BY <1>2, Special DEF Index
  <2> QED BY <1>1, <1>2, <2>1, <2>2
<1>4. q \in Index /\ Fan - 2 \in Index
  BY <1>2, <1>3, Special DEF Index
<1>5. KernelPage(f) = <<Kernel, Fan - 2, q, r>>
  BY DEF KernelPage, q, r
<1> QED BY <1>2, <1>4, <1>5, Special DEF Page, q, r

\* Two frames have two kernel addresses.
LEMMA KernelPagesDiffer ==
  ASSUME NEW f \in 0..Top, NEW g \in 0..Top, KernelPage(f) = KernelPage(g)
  PROVE  f = g
<1>1. f = KernelPage(f)[3] * Fan + KernelPage(f)[4]
      /\ g = KernelPage(g)[3] * Fan + KernelPage(g)[4]
  BY KernelPageIs
<1> HIDE DEF KernelPage
<1> QED BY <1>1

\* A page is its four indices.
LEMMA PagesEqual ==
  ASSUME NEW v \in Page, NEW w \in Page, Agree(v, w, 4)
  PROVE  v = w
<1>1. v[1] = w[1] /\ v[2] = w[2] /\ v[3] = w[3] /\ v[4] = w[4]
  BY DEF Agree
<1> QED BY <1>1 DEF Page

\* The pages that have a meaning.
LEMMA OtherPages ==
  /\ Temp \in Page /\ Temp[1] = Kernel /\ Temp[2] = Fan - 1 /\ Temp[3] = Fan - 1
  /\ Temp[4] = Fan - 1
  /\ Video \in Page /\ Video[1] = Kernel /\ Video[2] = Fan - 1 /\ Video[3] = Fan - 1
  /\ Video[4] = Fan - 3
  /\ Temp # Video
  /\ \A k \in Index : HeapPage(k) \in Page /\ HeapPage(k)[1] = Heap
BY Special DEF Temp, Video, HeapPage, Page, Index

\* The kernel addresses of frames are not the pages with another meaning.
LEMMA KernelPagesApart ==
  ASSUME NEW f \in 0..Top
  PROVE  KernelPage(f) # Temp /\ KernelPage(f) # Video
         /\ \A k \in Index : KernelPage(f) # HeapPage(k)
BY KernelPageIs, OtherPages, Special

\* Everything PagingInitialize sets is behind other entries than the two it does not.
LEMMA Owned ==
  /\ Temp \in Own(LowAndRecursive) /\ Video \in Own(LowAndRecursive)
  /\ \A f \in 0..Top : KernelPage(f) \in Own(LowAndRecursive)
  /\ \A k \in Index : HeapPage(k) \in Own(LowAndRecursive)
  /\ Own(LowAndRecursive) \subseteq Own({Recursive})
  /\ \A v \in Tracked : v \in Own({Recursive}) /\ v # Temp
<1>1. /\ Temp \in Own(LowAndRecursive) /\ Video \in Own(LowAndRecursive)
      /\ \A k \in Index : HeapPage(k) \in Own(LowAndRecursive)
  BY OtherPages, Special DEF Own, LowAndRecursive
<1>2. \A f \in 0..Top : KernelPage(f) \in Own(LowAndRecursive)
  BY KernelPageIs, Special DEF Own, LowAndRecursive
<1>3. Own(LowAndRecursive) \subseteq Own({Recursive})
  BY DEF Own, LowAndRecursive
<1>4. ASSUME NEW v \in Tracked PROVE v \in Own({Recursive}) /\ v # Temp
  <2>1. CASE v \in Clients
    BY <2>1, PagingAssumption, TopIs, OtherPages DEF Own
  <2>2. CASE v = Video
    BY <2>2, <1>1, <1>3, OtherPages
  <2>3. ASSUME NEW f \in 0..(Top - 1), v = KernelPage(f)
        PROVE  v \in Own({Recursive}) /\ v # Temp
    <3>1. f \in 0..Top
      BY Special
    <3> QED BY <2>3, <3>1, <1>2, <1>3, KernelPagesApart
  <2> QED BY <2>1, <2>2, <2>3 DEF Tracked
<1> QED BY <1>1, <1>2, <1>3, <1>4

-----------------------------------------------------------------------------
(* One entry is set. *)

\* What the model writes is what a walk reads.
LEMMA Reads ==
  ASSUME NEW m, NEW root, NEW v
  PROVE  /\ \A k \in 0..3 : TableFrom(m, root, v, k) = Walk(m, root, v, k)
         /\ \A k \in 0..3 : Entry(m, TableFrom(m, root, v, k), v[k + 1]) = Walk(m, root, v, k + 1)
         /\ Table(m, v, 3) = Walk(m, PageDirectory, v, 3)
         /\ PagingVirtToPhys(m, v) = Walk(m, PageDirectory, v, 4)
<1>1. \A k \in 0..3 : TableFrom(m, root, v, k) = Walk(m, root, v, k)
  BY DEF Walk
<1>2. QED
  BY <1>1, WalkSteps DEF Walk, Table, PagingVirtToPhys

\* What an entry may be.
LEMMA EntryType ==
  ASSUME NEW m \in Contents, NEW t, NEW i \in Index
  PROVE  Entry(m, t, i) \in Frame \cup {NotSet, Device}
BY DEF Contents, Entry

\* What a walk may read.
LEMMA WalkType ==
  ASSUME NEW m \in Contents, NEW root, NEW v \in Page, NEW k \in 0..3
  PROVE  Walk(m, root, v, k + 1) \in Frame \cup {NotSet, Device}
<1>1. v[k + 1] \in Index
  BY DEF Page
<1>2. QED
  BY <1>1, WalkSteps, EntryType

\* The entry of a level is set, in tables of which nothing is known but that they are one tree.
Ready(m, root, X, p, k) ==
  m \in Contents /\ Tree(m, root, X) /\ p \in Own(X) /\ k \in 0..3
  /\ Walk(m, root, p, k) # NotSet

Entered(m, m1, root, X, p, k, x) == SetsEntry(m, m1, root, X, p, k, x) /\ m1 \in Contents

\* The entry is in a table, and the table in memory.
LEMMA ReadyIs ==
  ASSUME NEW m, NEW root, NEW X, NEW p, NEW k, Ready(m, root, X, p, k)
  PROVE  Walk(m, root, p, k) \in Frame /\ p[k + 1] \in Index
         /\ Tables(m, root, X) \subseteq Frame
         /\ Walk(m, root, p, k) \in Tables(m, root, X)
<1>1. Walk(m, root, p, k) \in Tables(m, root, X)
  BY IsTable DEF Ready
<1>2. p[k + 1] \in Index
  BY DEF Ready, Own, Page
<1>3. QED
  BY <1>1, <1>2 DEF Ready, Tree

\* A page's own entry.
LEMMA SetLast ==
  ASSUME NEW m, NEW m1, NEW root, NEW X, NEW p, Ready(m, root, X, p, 3),
         NEW x \in Frame \cup {NotSet, Device},
         m1 = [m EXCEPT ![Walk(m, root, p, 3)][p[4]] = x]
  PROVE  Entered(m, m1, root, X, p, 3, x)
<1> DEFINE t == Walk(m, root, p, 3)
           i == p[4]
<1>1. t \in Frame /\ i \in Index /\ Tables(m, root, X) \subseteq Frame
  BY ReadyIs
<1>2. m \in Contents /\ m1 = [m EXCEPT ![t][i] = x]
  BY DEF Ready
<1>3. Tree(m, root, X) /\ p \in Own(X) /\ t # NotSet
  BY DEF Ready
<1>4. 3 + 1 = 4 /\ 3 \in 0..3 /\ ~(3 < 3)
  OBVIOUS
<1> HIDE DEF t, i
<1>5. m1 \in Contents
  <2> DEFINE V == Frame \cup {NotSet, Device}
  <2>1. x \in V /\ m \in [Frame -> [Index -> V]]
    BY <1>2 DEF Contents
  <2> HIDE DEF V
  <2>2. [m[t] EXCEPT ![i] = x] \in [Index -> V]
    BY <2>1, <1>1
  <2>3. m1 = [m EXCEPT ![t] = [m[t] EXCEPT ![i] = x]]
    BY <1>2
  <2>4. m1 \in [Frame -> [Index -> V]]
    BY <2>1, <2>2, <2>3, <1>1
  <2>5. QED
    BY <2>4 DEF Contents, V
<1>6. \A u \in Frame : \A j \in Index : m1[u][j] = IF u = t /\ j = i THEN x ELSE m[u][j]
  BY <1>1, <1>2 DEF Contents
<1>7. QED
  BY <1>1, <1>3, <1>4, <1>5, <1>6 DEF Entered, SetsEntry, t, i

\* An entry that leads to a new table.
LEMMA SetTable ==
  ASSUME NEW m, NEW m1, NEW root, NEW X, NEW p, NEW k, Ready(m, root, X, p, k),
         k < 3 => Walk(m, root, p, k + 1) = NotSet, NEW x \in Frame \ Tables(m, root, X),
         \/ m1 = [m EXCEPT ![Walk(m, root, p, k)][p[k + 1]] = x, ![x] = Empty]
         \/ m1 = [m EXCEPT ![Walk(m, root, p, k)][p[k + 1]] = x] /\ m[x] = Empty
  PROVE  Entered(m, m1, root, X, p, k, x)
<1> DEFINE t == Walk(m, root, p, k)
           i == p[k + 1]
<1>1. t \in Frame /\ i \in Index /\ Tables(m, root, X) \subseteq Frame
      /\ t \in Tables(m, root, X)
  BY ReadyIs
<1>2. m \in Contents
  BY DEF Ready
<1>3. Tree(m, root, X) /\ p \in Own(X) /\ t # NotSet /\ k \in 0..3
  BY DEF Ready
<1>4. t # x /\ Empty \in [Index -> Frame \cup {NotSet, Device}]
  BY <1>1 DEF Empty
<1>5. \/ m1 = [m EXCEPT ![t][i] = x, ![x] = Empty]
      \/ m1 = [m EXCEPT ![t][i] = x] /\ m[x] = Empty
  OBVIOUS
<1>6. k < 3 => Walk(m, root, p, k + 1) = NotSet
  OBVIOUS
<1> HIDE DEF t, i
<1>7. m1 \in Contents /\ m1[x] = Empty
      /\ \A u \in Frame \ {x} : \A j \in Index : m1[u][j] = IF u = t /\ j = i THEN x ELSE m[u][j]
  <2>1. CASE m1 = [m EXCEPT ![t][i] = x, ![x] = Empty]
    <3>1. m1 \in Contents
      BY <2>1, <1>1, <1>2, <1>4 DEF Contents
    <3>2. QED
      BY <3>1, <2>1, <1>1, <1>2, <1>4 DEF Contents
  <2>2. CASE m1 = [m EXCEPT ![t][i] = x] /\ m[x] = Empty
    <3>1. m1 \in Contents
      BY <2>2, <1>1, <1>2 DEF Contents
    <3>2. QED
      BY <3>1, <2>2, <1>1, <1>2, <1>4 DEF Contents
  <2>3. QED
    BY <2>1, <2>2, <1>5
<1>8. \A j \in Index : m1[x][j] = NotSet
  BY <1>7 DEF Empty
<1>9. SetsEntry(m, m1, root, X, p, k, x)
  BY <1>1, <1>3, <1>7, <1>8, <1>6 DEF SetsEntry, t, i
<1>10. QED
  BY <1>7, <1>9 DEF Entered

\* The other entries of the root stay.
LEMMA RootEntryKept ==
  ASSUME NEW m, NEW m1, NEW root \in Frame, NEW X, NEW p, NEW k, NEW x,
         Entered(m, m1, root, X, p, k, x), NEW i \in X \cap Index
  PROVE  m1[root][i] = m[root][i]
<1>1. /\ Tree(m, root, X) /\ p \in Own(X) /\ k \in 0..3 /\ Walk(m, root, p, k) # NotSet
      /\ \A t \in Tables(m, root, X) : \A j \in Index :
           m1[t][j] = IF t = Walk(m, root, p, k) /\ j = p[k + 1] THEN x ELSE m[t][j]
  BY DEF Entered, SetsEntry
<1>2. Walk(m, root, p, 0) = root /\ root # NotSet /\ 0 \in 0..3
  BY WalkSteps, Special
<1>3. root \in Tables(m, root, X)
  BY <1>1, <1>2, IsTable
<1>4. ASSUME root = Walk(m, root, p, k), i = p[k + 1]
      PROVE  FALSE
  <2>1. k = 0
    BY <1>1, <1>2, <1>4 DEF Tree
  <2>2. QED
    BY <2>1, <1>1, <1>4 DEF Own
<1>5. QED
  BY <1>1, <1>3, <1>4

\* Frame x, which is no table, is emptied.
LEMMA ClearFrame ==
  ASSUME NEW m \in Contents, NEW root, NEW X, Tree(m, root, X),
         NEW x \in Frame \ Tables(m, root, X),
         NEW m1, m1 = Cleared(m, x)
  PROVE  /\ m1 \in Contents /\ m1[x] = Empty /\ \A t \in Frame \ {x} : m1[t] = m[t]
         /\ \A v \in Own(X) : \A l \in 0..4 : Walk(m1, root, v, l) = Walk(m, root, v, l)
         /\ Tree(m1, root, X) /\ Tables(m1, root, X) = Tables(m, root, X)
<1>1. m1 \in Contents /\ m1[x] = Empty /\ \A t \in Frame \ {x} : m1[t] = m[t]
  BY DEF Cleared, Contents, Empty
<1>2. Tables(m, root, X) \subseteq Frame
  BY DEF Tree
<1>3. \A t \in Tables(m, root, X) : \A j \in Index : m1[t][j] = m[t][j]
  BY <1>1, <1>2
<1>4. /\ \A v \in Own(X) : \A l \in 0..4 : Walk(m1, root, v, l) = Walk(m, root, v, l)
      /\ Tree(m1, root, X) /\ Tables(m1, root, X) = Tables(m, root, X)
  BY <1>3, WalksKept
<1>5. QED
  BY <1>1, <1>4

-----------------------------------------------------------------------------
(* At boot. *)

LoaderRoot == [Empty EXCEPT ![0] = LoaderTable, ![Recursive] = PageDirectory,
                            ![Kernel] = LoaderTable]

\* The entries of the loader's root.
LEMMA LoaderRootIs ==
  ASSUME 3 <= Top - 2
  PROVE  /\ LoaderRoot \in [Index -> Frame \cup {NotSet, Device}]
         /\ LoaderRoot[0] = LoaderTable /\ LoaderRoot[Recursive] = PageDirectory
         /\ \A i \in Index \ {0, Recursive, Kernel} : LoaderRoot[i] = NotSet
BY Special DEF LoaderRoot, Empty, LoaderTable, PageDirectory, Frame, NotSet

\* The invariant holds before PagingInitialize.
LEMMA BeforeTheStart ==
  ASSUME Init
  PROVE  IInv
<1>1. PICK image \in ImageSizes : next = image + 1
  BY DEF Init
<1>2. next \in 3..(Top - 2) /\ next \in Frame /\ 3 <= Top - 2 /\ 0 \in 0..Top
      /\ PageDirectory \in 0..Top
      /\ 0 \in 0..HeapTables
  BY <1>1, PagingAssumption, TopIs DEF Frame, PageDirectory
<1>3. mem = [f \in Frame |-> IF f = PageDirectory THEN LoaderRoot ELSE Leftover]
  BY DEF Init, LoaderRoot
<1>4. Leftover \in [Index -> Frame \cup {NotSet, Device}] /\ PageDirectory \in Frame
  BY <1>2, Special DEF Leftover, Frame, PageDirectory
<1>5. mem \in Contents /\ mem[PageDirectory] = LoaderRoot
  BY <1>2, <1>3, <1>4, LoaderRootIs DEF Contents
<1>6. build = [frame |-> PageDirectory, table |-> 0, level |-> 0]
  BY DEF Init
<1>7. build \in [frame : 0..Top, table : 0..HeapTables, level : 0..4]
  BY <1>2, <1>6
<1>8. TypeOK
  BY <1>2, <1>5, <1>7 DEF Init, TypeOK, Contents
<1>9. Loaded
  BY <1>2, <1>5, <1>6 DEF Init, Loaded, LoaderRoot
<1>10. TranslationsAgree
  BY DEF Init, TranslationsAgree
<1>11. QED
  BY <1>8, <1>9, <1>10 DEF IInv, Init, Settled, Building

-----------------------------------------------------------------------------
(* PagingInitialize. *)

InInitialize == InLoops /\ Grown /\ Vacant /\ MappedSoFar

\* A step of the loops leaves alone what the loops do not need.
LEMMA StillInInitialize ==
  ASSUME IInv, Building', InInitialize', mem' \in Contents, buffer' \in 0..Top,
         build' \in [frame : 0..Top, table : 0..HeapTables, level : 0..4],
         UNCHANGED <<next, free, call, tlb, asked, stale>>, ~Settled
  PROVE  IInv'
<1>1. phase' \in {"image", "temporary", "heap", "self"} /\ ~Settled'
  BY DEF Building, Settled
<1>2. TypeOK'
  BY <1>1 DEF IInv, TypeOK, Contents
<1>3. TranslationsAgree'
  BY DEF IInv, TranslationsAgree
<1>4. call' = None /\ stale' = FALSE /\ free' = {}
  BY DEF IInv, Settled
<1>5. QED
  BY <1>1, <1>2, <1>3, <1>4 DEF IInv, InInitialize

\* What the lemmas of the loops need.
LEMMA TypesHere ==
  ASSUME IInv
  PROVE  /\ mem \in Contents /\ next \in Frame /\ buffer \in 0..Top
         /\ build \in [frame : 0..Top, table : 0..HeapTables, level : 0..4]
         /\ build.frame \in 0..Top /\ build.table \in 0..HeapTables /\ build.level \in 0..4
         /\ Ram \in Nat /\ Top \in 0..Ram /\ HeapTables \in 1..Fan /\ BitmapPages \in Nat
<1>1. TypeOK /\ Ram \in Nat /\ Top \in 0..Ram /\ HeapTables \in 1..Fan /\ BitmapPages \in Nat
  BY PagingAssumption, TopIs DEF IInv
<1>2. build \in [frame : 0..Top, table : 0..HeapTables, level : 0..4]
  BY <1>1 DEF TypeOK
<1>3. build.frame \in 0..Top /\ build.table \in 0..HeapTables /\ build.level \in 0..4
  BY <1>2
<1>4. QED
  BY <1>1, <1>2, <1>3 DEF TypeOK, Contents

\* The walks in the copy of the root.
LEMMA CopiedWalks ==
  ASSUME NEW m \in Contents, NEW n \in 3..(Top - 2),
         \A i \in Index \ {0, Recursive, Kernel} : m[n][i] = NotSet,
         m[n][Kernel] = n + 1, m[n + 1] = Empty, NEW v \in Own(LowAndRecursive)
  PROVE  /\ Walk(m, n, v, 0) = n
         /\ Walk(m, n, v, 1) = IF v[1] = Kernel THEN n + 1 ELSE NotSet
         /\ \A l \in 2..4 : Walk(m, n, v, l) = NotSet
<1>1. n \in Frame /\ n + 1 \in Frame /\ n # NotSet /\ Ram \in Nat /\ Top \in 0..Ram
  BY PagingAssumption, TopIs DEF Frame, NotSet
<1>2. v[1] \in Index /\ v[1] # 0 /\ v[1] # Recursive /\ v[2] \in Index
  BY DEF Own, Page, LowAndRecursive
<1>3. Walk(m, n, v, 0) = n /\ Walk(m, n, v, 1) = Entry(m, n, v[1])
      /\ Walk(m, n, v, 2) = Entry(m, Walk(m, n, v, 1), v[2])
      /\ Walk(m, n, v, 3) = Entry(m, Walk(m, n, v, 2), v[3])
      /\ Walk(m, n, v, 4) = Entry(m, Walk(m, n, v, 3), v[4])
  BY WalkSteps
<1>4. Walk(m, n, v, 1) = IF v[1] = Kernel THEN n + 1 ELSE NotSet
  BY <1>1, <1>2, <1>3 DEF Entry
<1>5. Walk(m, n, v, 2) = NotSet
  BY <1>1, <1>2, <1>3, <1>4, Special DEF Entry, Empty
<1>6. Walk(m, n, v, 3) = NotSet /\ Walk(m, n, v, 4) = NotSet
  BY <1>3, <1>5, Special DEF Entry
<1>7. QED
  BY <1>3, <1>4, <1>5, <1>6

\* The copy of the root gets one new table, for the kernel.
LEMMA CopyRootKeeps ==
  ASSUME IInv, CopyRoot
  PROVE  IInv'
<1>1. phase = "boot" /\ phase' = "image" /\ Loaded /\ ~Settled
      /\ UNCHANGED <<next, free, call, tlb, asked, stale>> /\ buffer' = next + 2
  BY DEF IInv, CopyRoot, Settled
<1>2. next \in 3..(Top - 2) /\ mem \in Contents /\ Ram \in Nat /\ Top \in 0..Ram /\ next \in Frame
      /\ next + 1 \in Frame /\ 3 <= Top - 2 /\ PageDirectory \in Frame
  BY <1>1, TypesHere DEF Loaded, Frame, PageDirectory
<1>3. build' = [frame |-> PageDirectory, table |-> 0, level |-> 1]
  BY <1>1 DEF CopyRoot, Loaded
<1>4. mem' = [mem EXCEPT ![next] = [LoaderRoot EXCEPT ![Kernel] = next + 1], ![next + 1] = Empty]
  BY <1>1 DEF CopyRoot, Loaded, LoaderRoot
<1> DEFINE R == [LoaderRoot EXCEPT ![Kernel] = next + 1]
<1>5. /\ R \in [Index -> Frame \cup {NotSet, Device}]
      /\ R[Kernel] = next + 1 /\ R[Recursive] = PageDirectory
      /\ \A i \in Index \ {0, Recursive, Kernel} : R[i] = NotSet
  BY <1>2, LoaderRootIs, Special
<1>6. Empty \in [Index -> Frame \cup {NotSet, Device}] /\ next # next + 1
  BY <1>2 DEF Empty
<1>7. mem' = [mem EXCEPT ![next] = R, ![next + 1] = Empty]
  BY <1>4
<1> HIDE DEF R
<1>8. mem' \in Contents /\ mem'[next] = R /\ mem'[next + 1] = Empty
  BY <1>2, <1>5, <1>6, <1>7 DEF Contents
<1>9. \A v \in Own(LowAndRecursive) :
        /\ Walk(mem', next, v, 0) = next
        /\ Walk(mem', next, v, 1) = IF v[1] = Kernel THEN next + 1 ELSE NotSet
        /\ \A l \in 2..4 : Walk(mem', next, v, l) = NotSet
  BY <1>2, <1>5, <1>8, CopiedWalks
<1>10. next # NotSet /\ next + 1 # NotSet /\ next \in next..(next + 1)
       /\ next + 1 \in next..(next + 1)
       /\ next + 1 = buffer' - 1 /\ next' = next
  BY <1>1, <1>2 DEF NotSet
<1>11. \A v \in Own(LowAndRecursive) : \A k \in 0..3 : Walk(mem', next, v, k) # NotSet =>
         k \in {0, 1} /\ Walk(mem', next, v, k) = next + k /\ (k = 1 => v[1] = Kernel)
  <2> SUFFICES ASSUME NEW v \in Own(LowAndRecursive),
  NEW k \in 0..3, Walk(mem', next, v, k) # NotSet
               PROVE  k \in {0, 1} /\ Walk(mem', next, v, k) = next + k
                      /\ (k = 1 => v[1] = Kernel)
    OBVIOUS
  <2>1. k = 0 \/ k = 1 \/ k \in 2..4
    OBVIOUS
  <2>2. QED
    BY <2>1, <1>2, <1>9
<1>12. Tables(mem', next, LowAndRecursive) \subseteq next..(next + 1)
  BY <1>10, <1>11 DEF Tables
<1>13. Tree(mem', next, LowAndRecursive)
  <2>1. next..(next + 1) \subseteq Frame
    BY <1>2 DEF Frame
  <2> SUFFICES ASSUME NEW v \in Own(LowAndRecursive), NEW w \in Own(LowAndRecursive),
                      NEW k \in 0..3, NEW l \in 0..3,
                      Walk(mem', next, v, k) = Walk(mem', next, w, l),
                      Walk(mem', next, v, k) # NotSet
               PROVE  k = l /\ Agree(v, w, k)
    BY <1>12, <2>1 DEF Tree
  <2>2. k \in {0, 1} /\ l \in {0, 1} /\ next + k = next + l
        /\ (k = 1 => v[1] = Kernel) /\ (l = 1 => w[1] = Kernel)
    BY <1>11
  <2>3. k = l
    BY <2>2, <1>2
  <2>4. QED
    BY <2>2, <2>3 DEF Agree
<1>14. KernelPage(PageDirectory) \in Own(LowAndRecursive)
       /\ KernelPage(PageDirectory)[1] = Kernel
       /\ HeapPage(0) \in Own(LowAndRecursive) /\ HeapPage(0)[1] = Heap
  BY <1>2, Special, Owned, OtherPages, KernelPageIs DEF PageDirectory
<1>15. build'.frame = PageDirectory /\ build'.table = 0 /\ build'.level = 1
  BY <1>3
<1>16. InLoops'
  BY <1>1, <1>2, <1>15 DEF InLoops, PageDirectory
<1>17. Target' = KernelPage(PageDirectory)
  BY <1>1, <1>15 DEF Target
<1>18. Grown'
  BY <1>1, <1>5, <1>8, <1>9, <1>10, <1>12, <1>13, <1>14, <1>15, <1>17 DEF Grown, BuildWalk
<1>19. Vacant'
  BY <1>1, <1>9, <1>10, <1>14, <1>15, <1>17, Special DEF Vacant, BuildWalk
<1>20. \A v : Placed(v)' = NotSet
  BY <1>1, <1>15 DEF Placed, PageDirectory
<1>21. MappedSoFar'
  BY <1>9, <1>10, <1>20 DEF MappedSoFar, BuildWalk
<1>22. Building'
  BY <1>1 DEF Building
<1>23. buffer' \in 0..Top /\ build' \in [frame : 0..Top, table : 0..HeapTables, level : 0..4]
  BY <1>1, <1>2, <1>3, TypesHere DEF PageDirectory
<1>24. QED
  BY <1>1, <1>8, <1>16, <1>18, <1>19, <1>21, <1>22, <1>23, StillInInitialize DEF InInitialize

\* The pages of the loops.
LEMMA TargetIs ==
  ASSUME IInv, Building
  PROVE  /\ InLoops /\ Grown /\ Vacant /\ MappedSoFar /\ call = None /\ ~Settled
            /\ phase # "boot"
         /\ Target \in Own(LowAndRecursive)
         /\ phase \in {"image", "self"} => Target = KernelPage(build.frame)
         /\ phase = "temporary" => Target = Temp
         /\ phase = "heap" => Target = HeapPage(build.table) /\ build.table \in Index
         /\ phase = "image" \/ phase = "temporary" \/ phase = "heap" \/ phase = "self"
         /\ Ready(mem, next, LowAndRecursive, Target, build.level) \/ build.level = 4
         /\ build.level < 4 =>
              /\ Dir = Walk(mem, next, Target, build.level)
                 /\ DirIndex = Target[build.level + 1]
              /\ Entry(mem, Dir, DirIndex) = Walk(mem, next, Target, build.level + 1)
<1>1. InLoops /\ Grown /\ Vacant /\ MappedSoFar /\ call = None /\ ~Settled /\ phase # "boot"
  BY DEF IInv, Building, Settled
<1>2. phase = "image" \/ phase = "temporary" \/ phase = "heap" \/ phase = "self"
  BY DEF Building
<1>3. /\ phase \in {"image", "self"} => Target = KernelPage(build.frame)
      /\ phase = "temporary" => Target = Temp
      /\ phase = "heap" => Target = HeapPage(build.table)
  BY DEF Target
<1>4. phase = "heap" => build.table \in Index
  BY <1>1, TypesHere, PagingAssumption, TopIs DEF InLoops, Index
<1>5. Target \in Own(LowAndRecursive)
  BY <1>2, <1>3, <1>4, TypesHere, Owned
<1>6. build.level \in 0..4 /\ mem \in Contents
  BY TypesHere
<1>7. Walk(mem, next, Target, build.level) # NotSet /\ Tree(mem, next, LowAndRecursive)
  BY <1>1 DEF Grown, BuildWalk
<1>8. Ready(mem, next, LowAndRecursive, Target, build.level) \/ build.level = 4
  BY <1>5, <1>6, <1>7 DEF Ready
<1>9. ASSUME build.level < 4
      PROVE  /\ Dir = Walk(mem, next, Target, build.level) /\ DirIndex = Target[build.level + 1]
             /\ Entry(mem, Dir, DirIndex) = Walk(mem, next, Target, build.level + 1)
  <2>1. build.level \in 0..3
    BY <1>6, <1>9
  <2>2. QED
    BY <2>1, Reads DEF Dir, DirIndex
<1>10. QED
  BY <1>1, <1>2, <1>3, <1>4, <1>5, <1>8, <1>9

\* Entry p of level k was set to x: from the copy the tables are a tree, those of the frames up
\* to b.
InCopy(m, p, k, x, b) ==
  /\ Tree(m, next, LowAndRecursive) /\ m \in Contents
  /\ Tables(m, next, LowAndRecursive) \subseteq next..(b - 1)
  /\ m[next][Recursive] = PageDirectory
  /\ \A v \in Own(LowAndRecursive) : \A l \in 0..3 :
       Walk(mem, next, v, l) # NotSet => Walk(m, next, v, l) # NotSet
  /\ \A v \in Own(LowAndRecursive) : \A l \in 0..4 :
       Walk(m, next, v, l) = IF l = k + 1 /\ Agree(v, p, l) THEN x ELSE Walk(mem, next, v, l)
  /\ Walk(m, next, p, k + 1) = x

\* One entry is set in the copy, and a new table comes from buffer.
LEMMA TreeOfTheLoops ==
  ASSUME IInv, Building, NEW m, NEW p, NEW k, NEW x, NEW b,
         Entered(mem, m, next, LowAndRecursive, p, k, x),
         IF k < 3 THEN x = buffer /\ b = buffer + 1 ELSE b \in {buffer, buffer + 1}
  PROVE  InCopy(m, p, k, x, b)
<1>1. InLoops /\ Grown /\ next \in Frame /\ Recursive \in LowAndRecursive \cap Index
      /\ SetsEntry(mem, m, next, LowAndRecursive, p, k, x) /\ m \in Contents
  BY TargetIs, TypesHere, Special DEF LowAndRecursive, Entered
<1>2. m[next][Recursive] = mem[next][Recursive]
  <2>1. next \in Frame /\ Recursive \in LowAndRecursive \cap Index
    BY <1>1
  <2>2. QED
    BY <2>1, RootEntryKept
<1>3. Tables(mem, next, LowAndRecursive) \subseteq next..(buffer - 1)
      /\ mem[next][Recursive] = PageDirectory
  BY <1>1 DEF Grown
<1>4. Tables(m, next, LowAndRecursive)
        \subseteq Tables(mem, next, LowAndRecursive) \cup (IF k < 3 THEN {x} ELSE {})
  BY <1>1, TreeAfter
<1>5. next..(buffer - 1) \subseteq next..(b - 1) /\ (k < 3 => x \in next..(b - 1))
  BY <1>1, TypesHere DEF InLoops
<1>6. Tables(m, next, LowAndRecursive) \subseteq next..(b - 1)
  BY <1>3, <1>4, <1>5
<1>7. /\ \A v \in Own(LowAndRecursive) : \A l \in 0..3 :
           Walk(mem, next, v, l) # NotSet => Walk(m, next, v, l) # NotSet
      /\ Walk(m, next, p, k + 1) = x /\ Tree(m, next, LowAndRecursive)
  BY <1>1, TreeAfter
<1>8. \A v \in Own(LowAndRecursive) : \A l \in 0..4 :
        Walk(m, next, v, l) = IF l = k + 1 /\ Agree(v, p, l) THEN x ELSE Walk(mem, next, v, l)
  BY <1>1, WalkAfter
<1>9. QED
  BY <1>1, <1>2, <1>3, <1>6, <1>7, <1>8 DEF InCopy

\* A page's own entry is set in the copy.
LEMMA LeafOfTheLoops ==
  ASSUME IInv, Building, NEW m, NEW p, NEW x, Entered(mem, m, next, LowAndRecursive, p, 3, x)
  PROVE  InCopy(m, p, 3, x, buffer)
<1>1. IF 3 < 3 THEN x = buffer /\ buffer = buffer + 1 ELSE buffer \in {buffer, buffer + 1}
  OBVIOUS
<1>2. QED
  BY <1>1, TreeOfTheLoops

\* One more table, of buffer, or one that is there already.
LEMMA SetNewTableKeeps ==
  ASSUME IInv, SetNewTable
  PROVE  IInv'
<1>1. Building /\ build.frame < buffer
      /\ build.level \in 0..(IF phase = "temporary" THEN 3 ELSE 2)
      /\ build' = [build EXCEPT !.level = @ + 1]
      /\ UNCHANGED <<next, free, phase, call, tlb, asked, stale>>
  BY DEF SetNewTable, Descending
<1>2. build.level \in 0..3 /\ build.level < 4 /\ (phase # "temporary" => build.level <= 2)
  BY <1>1
<1>3. /\ build'.frame = build.frame /\ build'.table = build.table
         /\ build'.level = build.level + 1
      /\ build' \in [frame : 0..Top, table : 0..HeapTables, level : 0..4]
  <2>1. build \in [frame : 0..Top, table : 0..HeapTables, level : 0..4]
    BY TypesHere
  <2>2. QED
    BY <2>1, <1>1, <1>2
<1>4. Target' = Target /\ Building' /\ (Checks' <=> Checks)
  BY <1>1, <1>3 DEF Target, Building, Checks
<1>5. /\ InLoops /\ Grown /\ Vacant /\ MappedSoFar /\ ~Settled
      /\ Target \in Own(LowAndRecursive)
      /\ Ready(mem, next, LowAndRecursive, Target, build.level)
      /\ Dir = Walk(mem, next, Target, build.level) /\ DirIndex = Target[build.level + 1]
      /\ Entry(mem, Dir, DirIndex) = Walk(mem, next, Target, build.level + 1)
  BY <1>1, <1>2, TargetIs
<1>6. Ram \in Nat /\ Top \in 0..Ram /\ buffer \in 0..Top /\ next \in Frame
  BY TypesHere
<1>7. ASSUME ~Missing
      PROVE  IInv'
  <2>1. UNCHANGED <<mem, buffer>> /\ Checks /\ Walk(mem, next, Target, build.level + 1) # NotSet
    BY <1>5, <1>7 DEF SetNewTable, Missing
  <2>2. InLoops'
    BY <1>1, <1>2, <1>3, <1>5, <2>1 DEF InLoops
  <2>3. Grown'
    BY <1>1, <1>3, <1>4, <1>5, <2>1 DEF Grown, BuildWalk
  <2>4. Vacant'
    BY <1>1, <1>4, <1>5, <2>1 DEF Vacant, BuildWalk
  <2>5. MappedSoFar'
    BY <1>1, <1>3, <1>5, <2>1 DEF MappedSoFar, BuildWalk, Placed
  <2>6. QED
    BY <1>1, <1>3, <1>4, <1>5, <1>6, <2>1, <2>2, <2>3, <2>4, <2>5, StillInInitialize, TypesHere
       DEF InInitialize
<1>8. ASSUME Missing
      PROVE  IInv'
  <2> DEFINE k == build.level
  <2>1. buffer \in Frame /\ buffer < Top /\ buffer' = buffer + 1
        /\ mem' = [mem EXCEPT ![Dir][DirIndex] = buffer, ![buffer] = Empty]
    BY <1>6, <1>8 DEF SetNewTable, NewTable, Frame
  <2>2. k < 3 => Walk(mem, next, Target, k + 1) = NotSet
    <3>1. CASE Checks
      BY <3>1, <1>5, <1>8 DEF Missing
    <3>2. CASE ~Checks
      BY <3>2, <1>5 DEF Vacant, BuildWalk
    <3>3. QED
      BY <3>1, <3>2
  <2>3. Tables(mem, next, LowAndRecursive) \subseteq next..(buffer - 1)
    BY <1>5 DEF Grown
  <2>4. buffer \in Frame \ Tables(mem, next, LowAndRecursive)
    BY <2>1, <2>3, <1>6
  <2>5. mem' = [mem EXCEPT ![Walk(mem, next, Target, k)][Target[k + 1]] = buffer, ![buffer] = Empty]
    BY <2>1, <1>5
  <2>6. Entered(mem, mem', next, LowAndRecursive, Target, k, buffer)
    BY <1>5, <2>2, <2>4, <2>5, SetTable
  <2>7. IF k < 3 THEN buffer = buffer /\ buffer' = buffer + 1 ELSE buffer' \in {buffer, buffer + 1}
    BY <2>1
  <2>8. /\ Tree(mem', next, LowAndRecursive) /\ mem' \in Contents
        /\ Tables(mem', next, LowAndRecursive) \subseteq next..(buffer' - 1)
        /\ mem'[next][Recursive] = PageDirectory
        /\ \A v \in Own(LowAndRecursive) : \A l \in 0..3 :
             Walk(mem, next, v, l) # NotSet => Walk(mem', next, v, l) # NotSet
        /\ \A v \in Own(LowAndRecursive) : \A l \in 0..4 :
             Walk(mem', next, v, l) =
               IF l = k + 1 /\ Agree(v, Target, l) THEN buffer ELSE Walk(mem, next, v, l)
        /\ Walk(mem', next, Target, k + 1) = buffer
    <3>1. InCopy(mem', Target, k, buffer, buffer')
      BY <1>1, <2>6, <2>7, TreeOfTheLoops
    <3>2. QED
      BY <3>1 DEF InCopy
  <2>9. buffer # NotSet /\ PageDirectory \in 0..Top
    BY <1>5, <1>6, <2>1, Special DEF Frame, PageDirectory, InLoops
  <2>10. InLoops'
    BY <1>1, <1>2, <1>3, <1>5, <1>6, <2>1 DEF InLoops, Frame
  <2>11. Grown'
    BY <1>1, <1>3, <1>4, <1>5, <2>8, <2>9, Owned DEF Grown, BuildWalk
  <2>12. Vacant'
    <3>1. ASSUME ~Checks, k + 1 < 3
          PROVE  Walk(mem', next, Target, (k + 1) + 1) = NotSet
      <4>1. Walk(mem, next, Target, (k + 1) + 1) = NotSet
        BY <2>2, <3>1, <1>2, WalkEnds
      <4>2. (k + 1) + 1 \in 0..4 /\ (k + 1) + 1 # k + 1
        BY <1>2, <3>1
      <4>3. QED
        BY <4>1, <4>2, <2>8, <1>5
    <3>2. ASSUME phase \in {"image", "temporary"}
          PROVE  Walk(mem', next, HeapPage(0), 1) = NotSet
      <4>1. Walk(mem, next, HeapPage(0), 1) = NotSet
        BY <3>2, <1>5 DEF Vacant, BuildWalk
      <4>2. HeapPage(0) \in Own(LowAndRecursive) /\ HeapPage(0)[1] # Target[1]
        BY <3>2, <1>1, Special, Owned, OtherPages, KernelPageIs, TargetIs, TypesHere
      <4>3. ~Agree(HeapPage(0), Target, 1)
        BY <4>2 DEF Agree
      <4>4. QED
        BY <4>1, <4>2, <4>3, <2>8
    <3>3. QED
      BY <1>1, <1>3, <1>4, <3>1, <3>2 DEF Vacant, BuildWalk
  <2>13. MappedSoFar'
    <3>1. \A v : Placed(v)' = Placed(v)
      BY <1>1, <1>3 DEF Placed
    <3>2. ASSUME NEW v \in Own(LowAndRecursive) \ {Temp}
          PROVE  Walk(mem', next, v, 4) = Walk(mem, next, v, 4)
      <4>1. CASE k = 3 /\ Agree(v, Target, 4)
        <5>1. Target = Temp /\ v \in Page /\ Temp \in Page
          BY <4>1, <1>1, <1>2, TargetIs, OtherPages DEF Own
        <5>2. QED
          BY <5>1, <4>1, PagesEqual
      <4>2. CASE ~(k = 3 /\ Agree(v, Target, 4))
        <5>1. 4 = k + 1 => k = 3
          BY <1>2
        <5>2. QED
          BY <5>1, <4>2, <2>8
      <4>3. QED
        BY <4>1, <4>2
    <3>3. QED
      BY <1>1, <1>5, <3>1, <3>2 DEF MappedSoFar, BuildWalk
  <2>14. buffer' \in 0..Top
    BY <2>1, <1>6 DEF Frame
  <2>15. QED
    BY <1>1, <1>3, <1>4, <1>5, <2>8, <2>10, <2>11, <2>12, <2>13, <2>14, StillInInitialize
       DEF InInitialize
<1>9. QED
  BY <1>7, <1>8

\* The frame of the loop is placed at its kernel address.
LEMMA OneMorePlaced ==
  ASSUME IInv, Building, build.frame \in 1..(Top - 1), build'.frame = build.frame + 1,
         phase' \in {"heap", "self"} <=> phase \in {"heap", "self"},
         NEW m, \A v \in Own(LowAndRecursive) : \A l \in 0..4 :
           Walk(m, next, v, l) =
             IF l = 4 /\ Agree(v, KernelPage(build.frame), l) THEN build.frame
             ELSE Walk(mem, next, v, l)
  PROVE  \A v \in Own(LowAndRecursive) \ {Temp} : Walk(m, next, v, 4) = Placed(v)'
<1> DEFINE n == build.frame
<1>1. MappedSoFar /\ Ram \in Nat /\ Top \in 0..Ram /\ n \in 0..Top
  BY TargetIs, TypesHere
<1>2. KernelPage(n) \in Page /\ KernelPage(n) # Video
      /\ KernelPage(n)[3] * Fan + KernelPage(n)[4] = n
  BY <1>1, KernelPageIs, KernelPagesApart
<1> SUFFICES ASSUME NEW v \in Own(LowAndRecursive), v # Temp
             PROVE  Walk(m, next, v, 4) = Placed(v)'
  OBVIOUS
<1>3. Walk(mem, next, v, 4) = Placed(v) /\ v \in Page
  BY <1>1 DEF MappedSoFar, BuildWalk, Own
<1>4. (\E f \in 1..(build'.frame - 1) : v = KernelPage(f))
        <=> (\E f \in 1..(n - 1) : v = KernelPage(f)) \/ v = KernelPage(n)
  BY <1>1 DEF n
<1>5. CASE v = KernelPage(n)
  <2>1. Agree(v, KernelPage(n), 4) /\ 4 \in 0..4
    BY <1>5 DEF Agree
  <2>2. Walk(m, next, v, 4) = n
    BY <2>1
  <2>3. Placed(v)' = v[3] * Fan + v[4]
    BY <1>2, <1>4, <1>5 DEF Placed
  <2>4. QED
    BY <2>2, <2>3, <1>2, <1>5
<1>6. CASE v # KernelPage(n)
  <2>1. ~Agree(v, KernelPage(n), 4)
    BY <1>2, <1>3, <1>6, PagesEqual
  <2>2. Walk(m, next, v, 4) = Walk(mem, next, v, 4)
    BY <2>1
  <2>3. Placed(v)' = Placed(v)
    BY <1>4, <1>6 DEF Placed
  <2>4. QED
    BY <2>2, <2>3, <1>3
<1>7. QED
  BY <1>5, <1>6

\* A page of the loop is set: its tables are there.
LEMMA LoopSetsPage ==
  ASSUME IInv, Building, build.level = 3, NEW x \in Frame \cup {NotSet, Device},
         NEW m, m = [mem EXCEPT ![Dir][DirIndex] = x]
  PROVE  Entered(mem, m, next, LowAndRecursive, Target, 3, x)
<1>1. Dir = Walk(mem, next, Target, 3) /\ DirIndex = Target[4]
      /\ Ready(mem, next, LowAndRecursive, Target, 3)
  BY TargetIs
<1>2. QED
  BY <1>1, SetLast

\* A frame of the image stands at its kernel address.
LEMMA MapImageKeeps ==
  ASSUME IInv, MapImage
  PROVE  IInv'
<1> DEFINE n == build.frame
<1>1. /\ phase = "image" /\ Building /\ build.level = 3
      /\ mem' = [mem EXCEPT ![Dir][DirIndex] = n]
      /\ build' = [build EXCEPT !.frame = @ + 1, !.level = 0]
      /\ phase' = IF n + 1 < next THEN "image" ELSE "temporary"
      /\ UNCHANGED <<next, buffer, free, call, tlb, asked, stale>>
  BY DEF MapImage, Building
<1>2. /\ InLoops /\ Grown /\ Vacant /\ MappedSoFar /\ ~Settled
      /\ Target = KernelPage(n) /\ Target \in Own(LowAndRecursive)
  BY <1>1, TargetIs
<1>3. Ram \in Nat /\ Top \in 0..Ram /\ buffer \in 0..Top /\ next \in Frame /\ n \in 0..Top
  BY TypesHere
<1>4. n \in 1..(next - 1) /\ build.table = 0 /\ next \in 3..(Top - 2) /\ next + 2 <= buffer
  BY <1>1, <1>2, <1>3 DEF InLoops
<1>5. /\ build'.frame = n + 1 /\ build'.table = 0 /\ build'.level = 0
      /\ build' \in [frame : 0..Top, table : 0..HeapTables, level : 0..4]
  <2>1. build \in [frame : 0..Top, table : 0..HeapTables, level : 0..4] /\ n + 1 \in 0..Top
    BY <1>3, <1>4, TypesHere
  <2>2. build' = [build EXCEPT !.frame = build.frame + 1, !.level = 0] /\ 0 \in 0..4
    BY <1>1
  <2>3. QED
    BY <2>1, <2>2, <1>4
<1>6. Building' /\ phase' \in {"image", "temporary"}
  BY <1>1 DEF Building
<1>7. n \in Frame /\ n \in Frame \cup {NotSet, Device} /\ n \in 1..(Top - 1) /\ n # NotSet
  BY <1>3, <1>4, Special DEF Frame
<1>8. Entered(mem, mem', next, LowAndRecursive, Target, 3, n)
  BY <1>1, <1>7, LoopSetsPage
<1>9. /\ Tree(mem', next, LowAndRecursive) /\ mem' \in Contents
      /\ Tables(mem', next, LowAndRecursive) \subseteq next..(buffer - 1)
      /\ mem'[next][Recursive] = PageDirectory
      /\ \A v \in Own(LowAndRecursive) : \A l \in 0..3 :
           Walk(mem, next, v, l) # NotSet => Walk(mem', next, v, l) # NotSet
      /\ \A v \in Own(LowAndRecursive) : \A l \in 0..4 :
           Walk(mem', next, v, l) =
             IF l = 4 /\ Agree(v, Target, l) THEN n ELSE Walk(mem, next, v, l)
  <2>1. InCopy(mem', Target, 3, n, buffer)
    BY <1>1, <1>8, LeafOfTheLoops
  <2>2. 3 + 1 = 4
    OBVIOUS
  <2>3. QED
    BY <2>1, <2>2 DEF InCopy
<1>10. \A v \in Own(LowAndRecursive) \ {Temp} : Walk(mem', next, v, 4) = Placed(v)'
  <2>1. Building /\ (phase' \in {"heap", "self"} <=> phase \in {"heap", "self"})
        /\ build'.frame = build.frame + 1 /\ build.frame \in 1..(Top - 1)
    BY <1>1, <1>5, <1>6, <1>7
  <2>2. \A v \in Own(LowAndRecursive) : \A l \in 0..4 :
          Walk(mem', next, v, l) =
            IF l = 4 /\ Agree(v, KernelPage(build.frame), l) THEN build.frame
            ELSE Walk(mem, next, v, l)
    BY <1>2, <1>9
  <2>3. QED
    BY <2>1, <2>2, OneMorePlaced
<1>11. MappedSoFar'
  BY <1>1, <1>10 DEF MappedSoFar, BuildWalk
<1>12. InLoops'
  BY <1>1, <1>3, <1>4, <1>5 DEF InLoops
<1>13. Target' = IF phase' = "image" THEN KernelPage(n + 1) ELSE Temp
  BY <1>1, <1>5 DEF Target
<1>14. PageDirectory \in 0..Top /\ n + 1 \in 0..Top /\ n + 1 # PageDirectory /\ 0 \in Index
       /\ PageDirectory \in 1..n
  BY <1>3, <1>4, Special DEF PageDirectory
<1>15. Walk(mem', next, KernelPage(PageDirectory), 2) # NotSet
  <2>1. KernelPage(PageDirectory) \in Own(LowAndRecursive) \ {Temp}
        /\ KernelPage(PageDirectory) # Video
    BY <1>14, Owned, KernelPagesApart
  <2>2. Placed(KernelPage(PageDirectory))' = PageDirectory
    BY <2>1, <1>5, <1>3, <1>14, KernelPageIs DEF Placed
  <2>3. Walk(mem', next, KernelPage(PageDirectory), 4) = PageDirectory /\ PageDirectory # NotSet
    BY <2>1, <2>2, <1>10 DEF PageDirectory, NotSet
  <2>4. Walk(mem', next, KernelPage(PageDirectory), 3 + 1) # NotSet /\ 3 \in 0..3 /\ 2 \in 0..3
        /\ 2 + 1 = 3
    BY <2>3
  <2>5. Walk(mem', next, KernelPage(PageDirectory), 2 + 1) # NotSet
    BY <2>4, WalkEnds
  <2>6. QED
    BY <2>4, <2>5, WalkEnds
<1>16. Walk(mem', next, Target', 0) # NotSet
  BY WalkSteps, <1>3, Special
<1>17. Grown'
  BY <1>1, <1>5, <1>6, <1>9, <1>15, <1>16 DEF Grown, BuildWalk
<1>18. Vacant'
  <2>1. Checks'
    BY <1>13, <1>14, KernelPagesDiffer, KernelPagesApart, OtherPages, Special DEF Checks
  <2>2. HeapPage(0) \in Own(LowAndRecursive) /\ Walk(mem, next, HeapPage(0), 1) = NotSet
    BY <1>1, <1>2, <1>14, Owned DEF Vacant, BuildWalk
  <2>3. Walk(mem', next, HeapPage(0), 1) = NotSet
    BY <2>2, <1>9
  <2>4. QED
    BY <2>1, <2>3, <1>1 DEF Vacant, BuildWalk
<1>19. QED
  BY <1>1, <1>2, <1>3, <1>5, <1>6, <1>9, <1>11, <1>12, <1>17, <1>18, StillInInitialize
     DEF InInitialize

\* The page of the video memory, in the table of the temporary page.
LEMMA MapVideoKeeps ==
  ASSUME IInv, MapVideo
  PROVE  IInv'
<1>1. /\ phase = "temporary" /\ Building /\ build.level = 4
      /\ mem' = [mem EXCEPT ![TableFrom(mem, next, Temp, 3)][Video[4]] = Device]
      /\ build' = [build EXCEPT !.level = 0]
      /\ phase' = "heap"
      /\ UNCHANGED <<next, buffer, free, call, tlb, asked, stale>>
  BY DEF MapVideo, Building
<1>2. InLoops /\ Grown /\ Vacant /\ MappedSoFar /\ ~Settled /\ Target = Temp
  BY <1>1, TargetIs
<1>3. Ram \in Nat /\ Top \in 0..Ram /\ buffer \in 0..Top /\ next \in Frame /\ mem \in Contents
      /\ HeapTables \in 1..Fan
      /\ Fan \in Nat
  BY TypesHere, PagingAssumption, TopIs
<1>4. build.frame = next /\ build.table = 0 /\ next \in 3..(Top - 2) /\ next + 2 <= buffer
  BY <1>1, <1>2, <1>3 DEF InLoops
<1>5. /\ build'.frame = next /\ build'.table = 0 /\ build'.level = 0
      /\ build' \in [frame : 0..Top, table : 0..HeapTables, level : 0..4]
  <2>1. build \in [frame : 0..Top, table : 0..HeapTables, level : 0..4]
    BY TypesHere
  <2>2. QED
    BY <2>1, <1>1, <1>4
<1>6. Building'
  BY <1>1 DEF Building
<1>7. Temp \in Own(LowAndRecursive) /\ Video \in Own(LowAndRecursive) /\ Temp \in Page
      /\ Video \in Page
      /\ Agree(Video, Temp, 3) /\ Video # Temp
  BY Owned, OtherPages DEF Agree
<1>8. Walk(mem, next, Temp, 3) # NotSet /\ Walk(mem, next, Video, 3) = Walk(mem, next, Temp, 3)
  <2>1. Walk(mem, next, Temp, 3 + 1) # NotSet
    BY <1>1, <1>2 DEF Grown, BuildWalk
  <2>2. Walk(mem, next, Temp, 3) # NotSet
    BY <2>1, WalkEnds
  <2>3. QED
    BY <2>2, <1>7, SameWay
<1>9. mem' = [mem EXCEPT ![Walk(mem, next, Video, 3)][Video[4]] = Device]
  <2>1. TableFrom(mem, next, Temp, 3) = Walk(mem, next, Video, 3)
    BY <1>8, Reads
  <2>2. QED
    BY <2>1, <1>1
<1>10. Ready(mem, next, LowAndRecursive, Video, 3)
  BY <1>2, <1>3, <1>7, <1>8 DEF Ready, Grown
<1>11. Entered(mem, mem', next, LowAndRecursive, Video, 3, Device)
  BY <1>9, <1>10, SetLast
<1>12. /\ Tree(mem', next, LowAndRecursive) /\ mem' \in Contents
       /\ Tables(mem', next, LowAndRecursive) \subseteq next..(buffer - 1)
       /\ mem'[next][Recursive] = PageDirectory
       /\ \A v \in Own(LowAndRecursive) : \A l \in 0..3 :
            Walk(mem, next, v, l) # NotSet => Walk(mem', next, v, l) # NotSet
       /\ \A v \in Own(LowAndRecursive) : \A l \in 0..4 :
            Walk(mem', next, v, l) =
              IF l = 4 /\ Agree(v, Video, l) THEN Device ELSE Walk(mem, next, v, l)
  <2>1. InCopy(mem', Video, 3, Device, buffer)
    BY <1>1, <1>11, LeafOfTheLoops
  <2>2. 3 + 1 = 4
    OBVIOUS
  <2>3. QED
    BY <2>1, <2>2 DEF InCopy
<1>13. MappedSoFar'
  <2> SUFFICES ASSUME NEW v \in Own(LowAndRecursive), v # Temp
               PROVE  Walk(mem', next, v, 4) = Placed(v)'
    BY <1>1 DEF MappedSoFar, BuildWalk
  <2>1. Walk(mem, next, v, 4) = Placed(v) /\ v \in Page
    BY <1>2 DEF MappedSoFar, BuildWalk, Own
  <2>2. CASE v = Video
    <3>1. Agree(v, Video, 4)
      BY <2>2 DEF Agree
    <3>2. Walk(mem', next, v, 4) = Device
      BY <3>1, <1>12
    <3>3. Placed(v)' = Device
      BY <2>2, <1>1 DEF Placed
    <3>4. QED
      BY <3>2, <3>3
  <2>3. CASE v # Video
    <3>1. ~Agree(v, Video, 4)
      BY <2>1, <2>3, <1>7, PagesEqual
    <3>2. Walk(mem', next, v, 4) = Walk(mem, next, v, 4)
      BY <3>1, <1>12
    <3>3. Placed(v)' = Placed(v)
      BY <2>3, <1>4, <1>5 DEF Placed
    <3>4. QED
      BY <3>2, <3>3, <2>1
  <2>4. QED
    BY <2>2, <2>3
<1>14. InLoops'
  BY <1>1, <1>3, <1>4, <1>5 DEF InLoops
<1>15. Target' = HeapPage(0)
  BY <1>1, <1>5 DEF Target
<1>16. Walk(mem', next, Target', 0) # NotSet
  BY WalkSteps, <1>3, Special
<1>17. PageDirectory \in 0..Top /\ 0 \in Index
  BY <1>3, <1>4, Special DEF PageDirectory
<1>18. Grown'
  <2>1. Walk(mem, next, KernelPage(PageDirectory), 2) # NotSet
    BY <1>1, <1>2 DEF Grown, BuildWalk
  <2>2. KernelPage(PageDirectory) \in Own(LowAndRecursive)
    BY <1>17, Owned
  <2>3. Walk(mem', next, KernelPage(PageDirectory), 2) # NotSet
        /\ Walk(mem', next, Temp, 3) # NotSet
    BY <2>1, <2>2, <1>7, <1>8, <1>12
  <2>4. QED
    BY <2>3, <1>1, <1>5, <1>12, <1>16 DEF Grown, BuildWalk
<1>19. Vacant'
  <2>1. HeapPage(0) \in Own(LowAndRecursive) /\ Walk(mem, next, HeapPage(0), 1) = NotSet
    BY <1>1, <1>2, <1>17, Owned DEF Vacant, BuildWalk
  <2>2. Walk(mem', next, HeapPage(0), 1) = NotSet
    BY <2>1, <1>12
  <2>3. QED
    BY <2>2, <1>1, <1>5, <1>15 DEF Vacant, BuildWalk
<1>20. QED
  BY <1>1, <1>2, <1>3, <1>5, <1>6, <1>12, <1>13, <1>14, <1>18, <1>19, StillInInitialize
     DEF InInitialize

\* The loop over the heap's tables goes on, or to the tables themselves.
LEMMA NextHeapTableKeeps ==
  ASSUME IInv, NextHeapTable
  PROVE  IInv'
<1>1. /\ phase = "heap" /\ Building /\ build.level = 3
      /\ build' = [build EXCEPT !.table = build.table + 1, !.level = 0]
      /\ phase' = IF build.table + 1 < HeapTables THEN "heap" ELSE "self"
      /\ UNCHANGED <<mem, next, buffer, free, call, tlb, asked, stale>>
  BY DEF NextHeapTable, Building
<1>2. InLoops /\ Grown /\ Vacant /\ MappedSoFar /\ ~Settled
  BY <1>1, TargetIs
<1>3. Ram \in Nat /\ Top \in 0..Ram /\ buffer \in 0..Top /\ next \in Frame /\ mem \in Contents
      /\ HeapTables \in 1..Fan
      /\ Fan \in Nat /\ build.table \in 0..HeapTables
  BY TypesHere, PagingAssumption, TopIs
<1>4. build.frame = next /\ build.table < HeapTables /\ next \in 3..(Top - 2)
      /\ next + 2 <= buffer
  BY <1>1, <1>2, <1>3 DEF InLoops
<1>5. /\ build'.frame = next /\ build'.table = build.table + 1 /\ build'.level = 0
      /\ build' \in [frame : 0..Top, table : 0..HeapTables, level : 0..4]
  <2>1. build \in [frame : 0..Top, table : 0..HeapTables, level : 0..4]
        /\ build.table + 1 \in 0..HeapTables /\ 0 \in 0..4
    BY <1>3, <1>4, TypesHere
  <2>2. build' = [build EXCEPT !.table = build.table + 1, !.level = 0]
    BY <1>1
  <2>3. QED
    BY <2>1, <2>2, <1>4
<1>6. Building' /\ phase' \in {"heap", "self"}
  BY <1>1 DEF Building
<1>7. InLoops'
  BY <1>1, <1>3, <1>4, <1>5 DEF InLoops
<1>8. Walk(mem, next, Target', 0) # NotSet
  BY WalkSteps, <1>3, Special
<1>9. Grown'
  BY <1>1, <1>2, <1>5, <1>6, <1>8 DEF Grown, BuildWalk
<1>10. Target' = IF phase' = "heap" THEN HeapPage(build.table + 1) ELSE KernelPage(next)
  BY <1>1, <1>5, <1>6 DEF Target
<1>11. Checks'
  <2>1. PageDirectory \in 0..Top /\ next \in 0..Top /\ next # PageDirectory /\ 0 \in Index
        /\ (phase' = "heap" => build.table + 1 \in Index) /\ build.table + 1 # 0
    BY <1>1, <1>3, <1>4, Special DEF PageDirectory, Index
  <2>2. KernelPage(next) \notin {KernelPage(PageDirectory), HeapPage(0)}
    BY <2>1, KernelPagesDiffer, KernelPagesApart
  <2>3. ASSUME phase' = "heap"
        PROVE  HeapPage(build.table + 1) \notin {KernelPage(PageDirectory), HeapPage(0)}
    <3>1. HeapPage(build.table + 1)[3] = build.table + 1 /\ HeapPage(0)[3] = 0
      BY DEF HeapPage
    <3>2. QED
      BY <3>1, <2>1, <2>3, KernelPagesApart
  <2>4. QED
    BY <2>2, <2>3, <1>10 DEF Checks
<1>12. Vacant'
  BY <1>6, <1>11 DEF Vacant
<1>13. \A v : Placed(v)' = Placed(v)
  BY <1>1, <1>4, <1>5, <1>6 DEF Placed
<1>14. MappedSoFar'
  BY <1>1, <1>2, <1>13 DEF MappedSoFar, BuildWalk
<1>15. QED
  BY <1>1, <1>2, <1>3, <1>5, <1>6, <1>7, <1>9, <1>12, <1>14, StillInInitialize
     DEF InInitialize

\* A table stands at its kernel address.
LEMMA MapTablesKeeps ==
  ASSUME IInv, MapTables
  PROVE  IInv'
<1> DEFINE n == build.frame
<1>1. /\ phase = "self" /\ Building /\ build.level = 3
      /\ mem' = [mem EXCEPT ![Dir][DirIndex] = IF @ = NotSet THEN n ELSE @]
      /\ build' = [build EXCEPT !.frame = n + 1, !.level = 0]
      /\ UNCHANGED <<next, buffer, free, phase, call, tlb, asked, stale>>
  BY DEF MapTables, Building
<1>2. /\ InLoops /\ Grown /\ Vacant /\ MappedSoFar /\ ~Settled
      /\ Target = KernelPage(n) /\ Target \in Own(LowAndRecursive)
      /\ Dir = Walk(mem, next, Target, 3)
      /\ Entry(mem, Dir, DirIndex) = Walk(mem, next, Target, 4)
      /\ Ready(mem, next, LowAndRecursive, Target, 3)
  BY <1>1, TargetIs
<1>3. Ram \in Nat /\ Top \in 0..Ram /\ buffer \in 0..Top /\ next \in Frame /\ n \in 0..Top
  BY TypesHere
<1>4. n \in next..(buffer - 1) /\ next \in 3..(Top - 2)
  BY <1>1, <1>2, <1>3 DEF InLoops
<1>5. /\ build'.frame = n + 1 /\ build'.table = build.table /\ build'.level = 0
      /\ build' \in [frame : 0..Top, table : 0..HeapTables, level : 0..4]
  <2>1. build \in [frame : 0..Top, table : 0..HeapTables, level : 0..4] /\ n + 1 \in 0..Top
    BY <1>3, <1>4, TypesHere
  <2>2. build' = [build EXCEPT !.frame = build.frame + 1, !.level = 0] /\ 0 \in 0..4
    BY <1>1
  <2>3. QED
    BY <2>1, <2>2
<1>6. Building' /\ phase' = "self"
  BY <1>1 DEF Building
<1>7. n \in Frame /\ n \in Frame \cup {NotSet, Device} /\ n \in 1..(Top - 1) /\ n \in 0..Top
  BY <1>3, <1>4, Special DEF Frame
<1>8. mem' = [mem EXCEPT ![Dir][DirIndex] = n]
  <2>1. Target # Temp /\ Target # Video
    BY <1>2, <1>7, KernelPagesApart
  <2>2. ASSUME NEW f \in 1..(n - 1), KernelPage(n) = KernelPage(f)
        PROVE  FALSE
    <3>1. f \in 0..Top /\ f # n
      BY <1>3
    <3>2. QED
      BY <3>1, <2>2, <1>7, KernelPagesDiffer
  <2>3. Placed(Target) = NotSet
    BY <2>1, <2>2, <1>2 DEF Placed
  <2>4. Walk(mem, next, Target, 4) = NotSet
    BY <2>1, <2>3, <1>2 DEF MappedSoFar, BuildWalk
  <2>5. Dir \in Frame
    BY <1>2, ReadyIs
  <2>6. mem[Dir][DirIndex] = NotSet
    BY <2>4, <2>5, <1>2 DEF Entry
  <2> DEFINE d == Dir
             i == DirIndex
  <2>7. mem' = [mem EXCEPT ![d][i] = IF @ = NotSet THEN n ELSE @] /\ mem[d][i] = NotSet
    BY <2>6, <1>1
  <2> HIDE DEF d, i
  <2>8. mem' = [mem EXCEPT ![d][i] = n]
    BY <2>7
  <2>9. QED
    BY <2>8 DEF d, i
<1>9. Entered(mem, mem', next, LowAndRecursive, Target, 3, n)
  BY <1>1, <1>7, <1>8, LoopSetsPage
<1>10. /\ Tree(mem', next, LowAndRecursive) /\ mem' \in Contents
       /\ Tables(mem', next, LowAndRecursive) \subseteq next..(buffer - 1)
       /\ mem'[next][Recursive] = PageDirectory
       /\ \A v \in Own(LowAndRecursive) : \A l \in 0..3 :
            Walk(mem, next, v, l) # NotSet => Walk(mem', next, v, l) # NotSet
       /\ \A v \in Own(LowAndRecursive) : \A l \in 0..4 :
            Walk(mem', next, v, l) =
              IF l = 4 /\ Agree(v, Target, l) THEN n ELSE Walk(mem, next, v, l)
  <2>1. InCopy(mem', Target, 3, n, buffer)
    BY <1>1, <1>9, LeafOfTheLoops
  <2>2. 3 + 1 = 4
    OBVIOUS
  <2>3. QED
    BY <2>1, <2>2 DEF InCopy
<1>11. \A v \in Own(LowAndRecursive) \ {Temp} : Walk(mem', next, v, 4) = Placed(v)'
  <2>1. Building /\ (phase' \in {"heap", "self"} <=> phase \in {"heap", "self"})
        /\ build'.frame = build.frame + 1 /\ build.frame \in 1..(Top - 1)
    BY <1>1, <1>5, <1>7
  <2>2. \A v \in Own(LowAndRecursive) : \A l \in 0..4 :
          Walk(mem', next, v, l) =
            IF l = 4 /\ Agree(v, KernelPage(build.frame), l) THEN build.frame
            ELSE Walk(mem, next, v, l)
    BY <1>2, <1>10
  <2>3. QED
    BY <2>1, <2>2, OneMorePlaced
<1>12. MappedSoFar'
  BY <1>1, <1>11 DEF MappedSoFar, BuildWalk
<1>13. InLoops'
  BY <1>1, <1>2, <1>3, <1>4, <1>5 DEF InLoops
<1>14. Target' = KernelPage(n + 1)
  BY <1>1, <1>5 DEF Target
<1>15. PageDirectory \in 0..Top /\ n + 1 \in 0..Top /\ n + 1 # PageDirectory /\ 0 \in Index
  BY <1>3, <1>4, Special DEF PageDirectory
<1>16. Walk(mem', next, Target', 0) # NotSet
  BY WalkSteps, <1>3, Special
<1>17. Grown'
  <2>1. Walk(mem, next, KernelPage(PageDirectory), 2) # NotSet
        /\ Walk(mem, next, Temp, 3) # NotSet
    BY <1>1, <1>2 DEF Grown, BuildWalk
  <2>2. KernelPage(PageDirectory) \in Own(LowAndRecursive) /\ Temp \in Own(LowAndRecursive)
    BY <1>15, Owned
  <2>3. Walk(mem', next, KernelPage(PageDirectory), 2) # NotSet
        /\ Walk(mem', next, Temp, 3) # NotSet
    BY <2>1, <2>2, <1>10
  <2>4. QED
    BY <2>3, <1>1, <1>5, <1>10, <1>16 DEF Grown, BuildWalk
<1>18. Checks'
  BY <1>14, <1>15, KernelPagesDiffer, KernelPagesApart DEF Checks
<1>19. Vacant'
  BY <1>6, <1>18 DEF Vacant
<1>20. QED
  BY <1>1, <1>2, <1>3, <1>5, <1>6, <1>10, <1>12, <1>13, <1>17, <1>19, StillInInitialize
     DEF InInitialize

\* Nothing is known, and nothing claimed, when memory is overrun.
LEMMA OverrunKeeps ==
  ASSUME IInv, Overrun
  PROVE  IInv'
<1>1. Building /\ phase' = "lost"
      /\ UNCHANGED <<mem, next, buffer, build, free, call, tlb, asked, stale>>
  BY DEF Overrun, Descending, Building
<1>2. TypeOK /\ TranslationsAgree /\ call = None /\ stale = FALSE /\ free = {}
  BY <1>1, TargetIs DEF IInv, Building
<1>3. TypeOK'
  BY <1>1, <1>2 DEF TypeOK
<1>4. TranslationsAgree'
  BY <1>1, <1>2 DEF TranslationsAgree
<1>5. QED
  BY <1>1, <1>2, <1>3, <1>4 DEF IInv, Settled, Building

\* The tables of pages that are not too far apart.
LEMMA NearTables ==
  ASSUME NEW b \in Nat, NEW f \in Nat, b < f, f <= b + Fan
  PROVE  f \div Fan = b \div Fan \/ f \div Fan = (b \div Fan) + 1
<1> DEFINE q == f \div Fan
           p == b \div Fan
           r == f % Fan
           s == b % Fan
           X == q * Fan
           Y == p * Fan
           Z == (p + 1) * Fan
<1>1. q \in Nat /\ p \in Nat /\ r \in 0..(Fan - 1) /\ s \in 0..(Fan - 1) /\ X + r = f
      /\ Y + s = b
  BY FrameParts DEF Index
<1>2. X \in Nat /\ Y \in Nat /\ Z \in Nat /\ (q < p => X + Fan <= Y) /\ Y + Fan <= Z
      /\ (p + 1 < q => Z + Fan <= X)
  <2> HIDE DEF q, p
  <2>1. p + 1 \in Nat /\ p < p + 1
    BY <1>1
  <2>2. QED
    BY <2>1, <1>1, Multiples
<1>3. Fan \in Nat
  BY Special
<1> HIDE DEF q, p, r, s, X, Y, Z
<1>4. ~(q < p) /\ ~(p + 1 < q)
  BY <1>1, <1>2, <1>3
<1>5. q = p \/ q = p + 1
  BY <1>1, <1>4
<1>6. QED
  BY <1>5 DEF q, p

\* The copy becomes the root, low memory aside.
WithRoot(m, n, root) == [m EXCEPT ![n] = root, ![PageDirectory] = root]
RootWithoutLow(m, n) == [m[n] EXCEPT ![0] = NotSet]

\* From the root one reads what one read from the copy, and nothing of low memory.
CopiedBack(m, m1, n) ==
  /\ \A v \in Own(LowAndRecursive) : \A k \in 0..3 :
       Walk(m1, PageDirectory, v, k + 1) = Walk(m, n, v, k + 1)
  /\ \A v \in Own({Recursive}) : v[1] = 0 => \A k \in 0..3 :
       Walk(m1, PageDirectory, v, k + 1) = NotSet

\* Where the copy is copied back, a walk from the root reads what one from the copy read.
LEMMA RootReplaced ==
  ASSUME NEW m \in Contents, NEW n \in 3..(Top - 2), NEW b \in Int, Tree(m, n, LowAndRecursive),
         Tables(m, n, LowAndRecursive) \subseteq n..(b - 1), m[n][Recursive] = PageDirectory,
         NEW m1, m1 = WithRoot(m, n, RootWithoutLow(m, n))
  PROVE  /\ m1 \in Contents /\ m1[PageDirectory][Recursive] = PageDirectory
         /\ CopiedBack(m, m1, n)
<1>1. Ram \in Nat /\ Top \in 0..Ram /\ PageDirectory \in Frame /\ n \in Frame
      /\ PageDirectory < n /\ n # NotSet
      /\ 0 \in Index /\ Recursive \in Index /\ Recursive # 0 /\ PageDirectory = 1
      /\ PageDirectory # NotSet
  BY Special DEF PageDirectory, Frame, NotSet
<1> DEFINE root == RootWithoutLow(m, n)
<1>2. root \in [Index -> Frame \cup {NotSet, Device}] /\ root[0] = NotSet
      /\ \A i \in Index \ {0} : root[i] = m[n][i]
  BY <1>1 DEF Contents, RootWithoutLow
<1>3. m1 \in Contents /\ m1[PageDirectory] = root
      /\ \A t \in Frame \ {n, PageDirectory} : m1[t] = m[t]
  <2>1. m1 = WithRoot(m, n, root)
    OBVIOUS
  <2> HIDE DEF root
  <2>2. QED
    BY <2>1, <1>1, <1>2 DEF Contents, WithRoot
<1> HIDE DEF root
<1>4. m1[PageDirectory][Recursive] = PageDirectory
  BY <1>1, <1>2, <1>3
<1>5. ASSUME NEW v \in Own(LowAndRecursive)
      PROVE  \A k \in 0..3 : Walk(m1, PageDirectory, v, k + 1) = Walk(m, n, v, k + 1)
  <2> DEFINE A(l) == Walk(m1, PageDirectory, v, l)
             B(l) == Walk(m, n, v, l)
             S == {l \in 0..4 : l # 0 => A(l) = B(l)}
  <2>1. A(0) = PageDirectory /\ B(0) = n
        /\ \A k \in 0..3 : A(k + 1) = Entry(m1, A(k), v[k + 1])
                             /\ B(k + 1) = Entry(m, B(k), v[k + 1])
    BY WalkSteps
  <2>2. \A k \in 0..3 : v[k + 1] \in Index
    BY DEF Own, Page
  <2>3. v[1] # 0
    BY DEF Own, LowAndRecursive
  <2>4. \A k \in 1..3 : B(k) = NotSet \/ B(k) \in Frame \ {n, PageDirectory}
    <3> SUFFICES ASSUME NEW k \in 1..3, B(k) # NotSet
                 PROVE  B(k) \in Frame \ {n, PageDirectory}
      OBVIOUS
    <3>1. B(k) \in Tables(m, n, LowAndRecursive)
      BY IsTable
    <3>2. B(k) \in Frame /\ B(k) \in n..(b - 1)
      BY <3>1 DEF Tree
    <3>3. B(k) # B(0)
      <4>1. Walk(m, n, v, k) # Walk(m, n, v, 0)
        BY DEF Tree
      <4>2. QED
        BY <4>1
    <3>4. QED
      BY <3>2, <3>3, <2>1, <1>1
  <2> HIDE DEF A, B
  <2>5. 0 \in S
    OBVIOUS
  <2>6. ASSUME NEW k \in 0..3, k \in S
        PROVE  k + 1 \in S
    <3>1. k + 1 \in 0..4
      OBVIOUS
    <3>2. CASE k = 0
      <4>1. A(1) = Entry(m1, PageDirectory, v[1]) /\ B(1) = Entry(m, n, v[1]) /\ v[1] \in Index
        BY <2>1, <2>2
      <4>2. A(1) = B(1)
        BY <4>1, <2>3, <1>1, <1>2, <1>3 DEF Entry
      <4>3. QED
        BY <4>2, <3>1, <3>2
    <3>3. CASE k # 0
      <4>1. A(k) = B(k) /\ k \in 1..3
        BY <2>6, <3>3
      <4>2. B(k) = NotSet \/ B(k) \in Frame \ {n, PageDirectory}
        BY <4>1, <2>4
      <4>3. A(k + 1) = B(k + 1)
        BY <4>1, <4>2, <2>1, <1>3, Special DEF Entry
      <4>4. QED
        BY <4>3, <3>1
    <3>4. QED
      BY <3>2, <3>3
  <2> HIDE DEF S
  <2>7. 0..4 \subseteq S
    BY <2>5, <2>6, DownTheLevels
  <2>8. \A k \in 0..3 : k + 1 \in 0..4 /\ k + 1 # 0
    OBVIOUS
  <2>9. \A k \in 0..3 : A(k + 1) = B(k + 1)
    BY <2>7, <2>8 DEF S
  <2>10. QED
    BY <2>9 DEF A, B
<1>6. ASSUME NEW v \in Own({Recursive}), v[1] = 0
      PROVE  \A k \in 0..3 : Walk(m1, PageDirectory, v, k + 1) = NotSet
  <2>1. Walk(m1, PageDirectory, v, 0) = PageDirectory /\ \A k \in 0..3 :
          Walk(m1, PageDirectory, v, k + 1) = Entry(m1, Walk(m1, PageDirectory, v, k), v[k + 1])
    BY WalkSteps
  <2>2. Walk(m1, PageDirectory, v, 1) = NotSet
    <3>1. Walk(m1, PageDirectory, v, 1) = Entry(m1, PageDirectory, v[1])
      BY <2>1
    <3>2. QED
      BY <3>1, <1>1, <1>2, <1>3, <1>6 DEF Entry
  <2>3. Walk(m1, PageDirectory, v, 2) = NotSet /\ Walk(m1, PageDirectory, v, 3) = NotSet
        /\ Walk(m1, PageDirectory, v, 4) = NotSet
    BY <2>1, <2>2, Special DEF Entry
  <2>4. \A k \in 0..3 : k = 0 \/ k = 1 \/ k = 2 \/ k = 3
    OBVIOUS
  <2>5. QED
    BY <2>2, <2>3, <2>4
<1>7. QED
  BY <1>3, <1>4, <1>5, <1>6 DEF CopiedBack

\* The tables are a tree from the root too, and the copy is none of them.
LEMMA TreeOfTheRoot ==
  ASSUME NEW m, NEW n \in 3..(Top - 2), NEW b \in 0..Top, Tree(m, n, LowAndRecursive),
         Tables(m, n, LowAndRecursive) \subseteq n..(b - 1), n < b,
         NEW m1, CopiedBack(m, m1, n)
  PROVE  /\ Tree(m1, PageDirectory, {Recursive})
         /\ Tables(m1, PageDirectory, {Recursive}) \subseteq (0..(b - 1)) \ {n}
<1> DEFINE A(v, l) == Walk(m1, PageDirectory, v, l)
           B(v, l) == Walk(m, n, v, l)
           O == Own({Recursive})
           L == Own(LowAndRecursive)
<1>1. Ram \in Nat /\ Top \in 0..Ram /\ PageDirectory \in Frame /\ PageDirectory < n
      /\ PageDirectory \in (0..(b - 1)) \ {n}
  BY Special DEF PageDirectory, Frame
<1>2. \A v : A(v, 0) = PageDirectory /\ B(v, 0) = n
  BY WalkSteps
<1>3. \A v \in O : v \in L \/ v[1] = 0
  BY DEF Own, LowAndRecursive
<1>4. ASSUME NEW v \in O, NEW k \in 0..3, k # 0, A(v, k) # NotSet
      PROVE  v \in L /\ A(v, k) = B(v, k) /\ B(v, k) # NotSet /\ B(v, k) \in n..(b - 1)
             /\ B(v, k) # n
  <2>1. k - 1 \in 0..3 /\ (k - 1) + 1 = k
    BY <1>4
  <2>2. v[1] # 0
    BY <2>1, <1>4 DEF CopiedBack
  <2>3. v \in L
    BY <2>2, <1>3
  <2>4. A(v, k) = B(v, k)
    BY <2>1, <2>3 DEF CopiedBack
  <2>5. B(v, k) \in Tables(m, n, LowAndRecursive)
    BY <2>3, <2>4, <1>4, IsTable
  <2>6. Walk(m, n, v, k) # Walk(m, n, v, 0)
    BY <2>3, <2>4, <1>4 DEF Tree
  <2>7. QED
    BY <2>3, <2>4, <2>5, <2>6, <1>2, <1>4
<1>5. \A v, w \in L : \A k, l \in 0..3 :
        B(v, k) = B(w, l) /\ B(v, k) # NotSet => k = l /\ Agree(v, w, k)
  BY DEF Tree
<1>6. \A v \in O : \A k \in 0..3 : A(v, k) # NotSet => A(v, k) \in (0..(b - 1)) \ {n}
  <2> SUFFICES ASSUME NEW v \in O, NEW k \in 0..3, A(v, k) # NotSet
               PROVE  A(v, k) \in (0..(b - 1)) \ {n}
    OBVIOUS
  <2>1. CASE k = 0
    BY <2>1, <1>1, <1>2
  <2>2. CASE k # 0
    <3>1. A(v, k) \in n..(b - 1) /\ A(v, k) # n
      BY <2>2, <1>4
    <3> HIDE DEF A
    <3>2. QED
      BY <3>1, <1>1
  <2>3. QED
    BY <2>1, <2>2
<1>7. Tables(m1, PageDirectory, {Recursive}) \subseteq (0..(b - 1)) \ {n}
  <2> SUFFICES ASSUME NEW t \in Tables(m1, PageDirectory, {Recursive})
               PROVE  t \in (0..(b - 1)) \ {n}
    OBVIOUS
  <2>1. \E v \in O : \E k \in 0..3 : t = A(v, k) /\ t # NotSet
    BY DEF Tables
  <2> HIDE DEF A, O
  <2>2. QED
    BY <2>1, <1>6
<1>8. (0..(b - 1)) \ {n} \subseteq Frame
  BY <1>1 DEF Frame
<1>9. ASSUME NEW v \in O, NEW w \in O, NEW k \in 0..3, NEW l \in 0..3,
             A(v, k) = A(w, l), A(v, k) # NotSet
      PROVE  k = l /\ Agree(v, w, k)
  <2>1. CASE k = 0 /\ l = 0
    BY <2>1 DEF Agree
  <2>2. CASE k = 0 /\ l # 0
    <3>1. A(w, l) \in n..(b - 1)
      BY <2>2, <1>4, <1>9
    <3>2. A(w, l) = PageDirectory
      BY <2>2, <1>2, <1>9
    <3>3. QED
      BY <3>1, <3>2, <1>1
  <2>3. CASE k # 0 /\ l = 0
    <3>1. A(v, k) \in n..(b - 1)
      BY <2>3, <1>4, <1>9
    <3>2. A(v, k) = PageDirectory
      BY <2>3, <1>2, <1>9
    <3>3. QED
      BY <3>1, <3>2, <1>1
  <2>4. CASE k # 0 /\ l # 0
    <3>1. v \in L /\ A(v, k) = B(v, k) /\ B(v, k) # NotSet
      BY <2>4, <1>4, <1>9
    <3>2. w \in L /\ A(w, l) = B(w, l)
      BY <2>4, <1>4, <1>9
    <3>3. QED
      BY <3>1, <3>2, <1>5, <1>9
  <2>5. QED
    BY <2>1, <2>2, <2>3, <2>4
<1>10. QED
  BY <1>7, <1>8, <1>9 DEF Tree

\* The tree of the copy becomes the tree of the root, without low memory.
LEMMA PagingInitializeKeeps ==
  ASSUME BitmapPages <= Fan, IInv, PagingInitialize
  PROVE  IInv'
<1>1. /\ phase = "self" /\ Building /\ build.frame = buffer /\ buffer + BitmapPages <= Top
      /\ mem' = WithRoot(mem, next, RootWithoutLow(mem, next))
      /\ tlb' = [v \in DOMAIN tlb |-> NotSet]
      /\ phase' = "bitmap"
      /\ UNCHANGED <<next, buffer, build, free, call, stale>>
  BY DEF PagingInitialize, Building, WithRoot, RootWithoutLow
<1>2. /\ asked' = [v \in Tracked |->
           IF v = Video THEN Device
           ELSE IF \E f \in 1..(buffer - 1) : v = KernelPage(f) THEN v[3] * Fan + v[4]
           ELSE NotSet]
  BY DEF PagingInitialize
<1>3. /\ InLoops /\ Grown /\ MappedSoFar /\ ~Settled /\ call = None /\ stale = FALSE
         /\ free = {}
  BY <1>1, TargetIs DEF IInv
<1>4. Ram \in Nat /\ Top \in 0..Ram /\ buffer \in 0..Top /\ next \in Frame /\ mem \in Contents
      /\ BitmapPages \in Nat
      /\ Fan \in Nat
  BY TypesHere, PagingAssumption, TopIs
<1>5. next \in 3..(Top - 2) /\ next + 2 <= buffer
  BY <1>3, <1>4 DEF InLoops
<1>6. /\ Tree(mem, next, LowAndRecursive) /\ mem[next][Recursive] = PageDirectory
      /\ Tables(mem, next, LowAndRecursive) \subseteq next..(buffer - 1)
      /\ Walk(mem, next, KernelPage(PageDirectory), 2) # NotSet
         /\ Walk(mem, next, Temp, 3) # NotSet
  BY <1>1, <1>3 DEF Grown, BuildWalk
<1>7. /\ mem' \in Contents /\ mem'[PageDirectory][Recursive] = PageDirectory
      /\ \A v \in Own(LowAndRecursive) : \A k \in 0..3 :
           Walk(mem', PageDirectory, v, k + 1) = Walk(mem, next, v, k + 1)
      /\ \A v \in Own({Recursive}) : v[1] = 0 => \A k \in 0..3 :
           Walk(mem', PageDirectory, v, k + 1) = NotSet
  <2>1. buffer \in Int
    BY <1>4
  <2>2. mem' = WithRoot(mem, next, RootWithoutLow(mem, next))
    BY <1>1
  <2>3. mem \in Contents /\ next \in 3..(Top - 2) /\ Tree(mem, next, LowAndRecursive)
        /\ Tables(mem, next, LowAndRecursive) \subseteq next..(buffer - 1)
        /\ mem[next][Recursive] = PageDirectory
    BY <1>4, <1>5, <1>6
  <2>4. /\ mem' \in Contents /\ mem'[PageDirectory][Recursive] = PageDirectory
        /\ CopiedBack(mem, mem', next)
    BY <2>1, <2>2, <2>3, RootReplaced
  <2>5. QED
    BY <2>4 DEF CopiedBack
<1>8. /\ Tree(mem', PageDirectory, {Recursive})
      /\ Tables(mem', PageDirectory, {Recursive}) \subseteq (0..(buffer - 1)) \ {next}
  <2>1. next < buffer
    BY <1>4, <1>5
  <2>2. CopiedBack(mem, mem', next)
    BY <1>7 DEF CopiedBack
  <2>3. QED
    BY <2>1, <2>2, <1>4, <1>5, <1>6, TreeOfTheRoot
<1>9. Temp \in Own(LowAndRecursive) /\ PageDirectory \in 0..Top
      /\ KernelPage(PageDirectory) \in Own(LowAndRecursive)
  BY <1>4, <1>5, Owned DEF PageDirectory
<1>10. Walk(mem', PageDirectory, Temp, 3) # NotSet
       /\ Walk(mem', PageDirectory, KernelPage(PageDirectory), 2) # NotSet
  <2>1. 3 = 2 + 1 /\ 2 = 1 + 1 /\ 2 \in 0..3 /\ 1 \in 0..3
    OBVIOUS
  <2>2. QED
    BY <2>1, <1>6, <1>7, <1>9
<1>11. \A v : asked'[v] = Placed(v) \/ v \notin Tracked
  <2>1. \A v : Placed(v) = IF v = Video THEN Device
                           ELSE IF \E f \in 1..(buffer - 1) : v = KernelPage(f)
                                THEN v[3] * Fan + v[4]
                           ELSE NotSet
    BY <1>1 DEF Placed
  <2>2. QED
    BY <2>1, <1>2
<1>12. ASSUME NEW v \in Tracked
       PROVE  Walk(mem', PageDirectory, v, 4) = asked'[v]
              /\ asked'[v] \in Frame \cup {NotSet, Device}
  <2>1. v \in Own({Recursive}) /\ v # Temp
    BY Owned
  <2>2. 4 = 3 + 1 /\ 3 \in 0..3
    OBVIOUS
  <2>3. CASE v[1] = 0
    <3>1. \A f \in 1..(buffer - 1) : v # KernelPage(f)
      BY <2>3, <1>4, KernelPageIs, Special
    <3>2. v # Video
      BY <2>3, OtherPages, Special
    <3>3. asked'[v] = NotSet
      BY <3>1, <3>2, <1>2
    <3>4. QED
      BY <3>3, <2>1, <2>2, <2>3, <1>7
  <2>4. CASE v[1] # 0
    <3>1. v \in Own(LowAndRecursive) \ {Temp}
      BY <2>1, <2>4 DEF Own, LowAndRecursive
    <3>2. Walk(mem, next, v, 4) = Placed(v)
      BY <3>1, <1>3 DEF MappedSoFar, BuildWalk
    <3>3. Walk(mem', PageDirectory, v, 4) = asked'[v]
      BY <3>1, <3>2, <2>2, <1>7, <1>11
    <3>4. Walk(mem', PageDirectory, v, 3 + 1) \in Frame \cup {NotSet, Device}
      BY <2>1, <1>7, WalkType DEF Own
    <3>5. QED
      BY <3>3, <3>4, <2>2
  <2>5. QED
    BY <2>3, <2>4
<1>13. TypeOK'
  <2>1. TypeOK
    BY DEF IInv
  <2>2. tlb' \in [Clients \cup {Temp} -> Frame \cup {NotSet, Device}]
    BY <2>1, <1>1 DEF TypeOK
  <2>3. asked' \in [Tracked -> Frame \cup {NotSet, Device}]
    <3>1. asked' = [v \in Tracked |-> asked'[v]]
      BY <1>2
    <3>2. QED
      BY <3>1, <1>12
  <2>4. QED
    BY <2>1, <2>2, <2>3, <1>1, <1>7 DEF TypeOK, Contents
<1>14. TranslationsAgree'
  BY <1>1, TypesHere DEF TranslationsAgree, IInv, TypeOK
<1>15. Now' \subseteq (0..(buffer - 1)) \ {next}
  BY <1>8 DEF Now
<1>16. Matching'
  <2>1. \A v \in Tracked : Walk(mem', PageDirectory, v, 4) = asked'[v]
    BY <1>12
  <2>2. Now' \cap free' = {}
    BY <1>1, <1>3
  <2>3. QED
    BY <2>1, <2>2, <1>7, <1>8, <1>10 DEF Matching, RootWalk
<1>17. OneTableMissing'
  <2>1. next < buffer
    BY <1>4, <1>5
  <2> SUFFICES ASSUME NEW f \in buffer..(buffer + BitmapPages - 1),
                      Walk(mem', PageDirectory, KernelPage(f), 3) = NotSet
               PROVE  f \div Fan = ((buffer - 1) \div Fan) + 1
    BY <2>1, <1>1, <1>15 DEF OneTableMissing, BitmapFrames, RootWalk
  <2> DEFINE b == buffer - 1
  <2>2. f \in 0..Top /\ b \in 0..Top /\ b \in Nat /\ f \in Nat /\ b < f /\ f <= b + Fan /\ b # 0
        /\ b \in 1..(buffer - 1)
    BY <1>1, <1>4, <1>5
  <2> HIDE DEF b
  <2>3. KernelPage(b) \in Own(LowAndRecursive) \ {Temp} /\ KernelPage(b) # Video
    BY <2>2, Owned, KernelPagesApart
  <2>4. Placed(KernelPage(b)) = b
    BY <2>2, <2>3, <1>1, KernelPageIs DEF Placed
  <2>5. Walk(mem, next, KernelPage(b), 4) = b /\ b # NotSet
    BY <2>2, <2>3, <2>4, <1>3 DEF MappedSoFar, BuildWalk, NotSet
  <2>6. 4 = 3 + 1 /\ 3 \in 0..3 /\ 3 = 2 + 1 /\ 2 \in 0..3
    OBVIOUS
  <2>7. Walk(mem, next, KernelPage(b), 3) # NotSet
    BY <2>5, <2>6, WalkEnds
  <2>8. Walk(mem', PageDirectory, KernelPage(b), 3) # NotSet
    BY <2>3, <2>6, <2>7, <1>7
  <2>9. ASSUME f \div Fan = b \div Fan
        PROVE  FALSE
    <3>1. Agree(KernelPage(f), KernelPage(b), 3)
      <4>1. /\ KernelPage(f)[1] = KernelPage(b)[1] /\ KernelPage(f)[2] = KernelPage(b)[2]
            /\ KernelPage(f)[3] = KernelPage(b)[3]
        BY <2>2, <2>9, KernelPageIs
      <4>2. \A j \in 1..3 : j = 1 \/ j = 2 \/ j = 3
        OBVIOUS
      <4>3. QED
        BY <4>1, <4>2 DEF Agree
    <3>2. 3 \in 0..4
      OBVIOUS
    <3>3. Walk(mem', PageDirectory, KernelPage(f), 3) = Walk(mem', PageDirectory, KernelPage(b), 3)
      BY <3>1, <3>2, SameWay
    <3>4. QED
      BY <3>3, <2>8
  <2>10. f \div Fan = (b \div Fan) + 1
    BY <2>2, <2>9, NearTables
  <2>11. QED
    BY <2>10 DEF b
<1>18. CallOnTrack'
  BY <1>1, <1>3 DEF CallOnTrack
<1>19. BitmapOnTrack'
  BY <1>1, <1>3, <1>15, <1>17 DEF BitmapOnTrack
<1>20. PageDirectory < buffer'
  BY <1>1, <1>4, <1>5 DEF PageDirectory
<1>21. QED
  BY <1>1, <1>3, <1>13, <1>14, <1>16, <1>18, <1>19, <1>20 DEF IInv, Settled, Building

-----------------------------------------------------------------------------
(* Calls. *)

\* What the invariant says after PagingInitialize, as long as no clear has gone astray.
LEMMA OnTrack ==
  ASSUME IInv, Settled, ~stale
  PROVE  /\ Matching /\ CallOnTrack /\ BitmapOnTrack /\ TypeOK /\ TranslationsAgree
         /\ mem \in Contents /\ next \in Frame
         /\ buffer \in 0..Top /\ buffer + BitmapPages <= Top
         /\ Ram \in Nat /\ Top \in 0..Ram /\ BitmapPages \in Nat
         /\ PageDirectory \in Frame /\ PageDirectory \in 0..Top /\ PageDirectory # NotSet
         /\ Tree(mem, PageDirectory, {Recursive}) /\ free \subseteq Frame
         /\ (phase \notin {"up", "panic"} => free = {})
<1>1. Matching /\ CallOnTrack /\ BitmapOnTrack /\ TypeOK /\ TranslationsAgree
      /\ PageDirectory < buffer /\ buffer + BitmapPages <= Top
      /\ (phase \notin {"up", "panic"} => free = {})
  BY DEF IInv
<1>2. mem \in Contents /\ next \in Frame /\ buffer \in 0..Top /\ Ram \in Nat /\ Top \in 0..Ram
      /\ BitmapPages \in Nat
      /\ free \subseteq Frame
  BY <1>1, PagingAssumption, TopIs DEF TypeOK, Contents
<1>3. PageDirectory \in Frame /\ PageDirectory \in 0..Top /\ PageDirectory # NotSet
  <2>1. Walk(mem, PageDirectory, Temp, 3) # NotSet /\ 3 = 2 + 1 /\ 2 = 1 + 1 /\ 1 = 0 + 1
        /\ 0 \in 0..3 /\ 1 \in 0..3 /\ 2 \in 0..3
    BY <1>1 DEF Matching, RootWalk
  <2>2. Walk(mem, PageDirectory, Temp, 0) \in Frame
    BY <2>1, WalkEnds
  <2>3. QED
    BY <2>2, <1>1, <1>2, WalkSteps, Special DEF PageDirectory
<1>4. QED
  BY <1>1, <1>2, <1>3 DEF Matching

\* The call in progress.
CallType ==
  [page : Tracked, frame : Frame \cup {Device}, override : BOOLEAN,
   level : 0..3, at : {"walk", "clear", "link"}, fresh : Frame \cup {NotSet}]

\* A call in progress is not none.
LEMMA CallsAreSome ==
  ASSUME NEW c \in CallType
  PROVE  c # None
<1>1. DOMAIN c = {"page", "frame", "override", "level", "at", "fresh"}
  BY DEF CallType
<1>2. DOMAIN None = {}
  BY DEF None
<1>3. QED
  BY <1>1, <1>2

\* What is known of the call in progress.
LEMMA CallFacts ==
  ASSUME IInv, ~stale, call # None
  PROVE  /\ Settled /\ call \in CallType
         /\ call.page \in Tracked /\ call.page \in Own({Recursive}) /\ call.page # Temp
         /\ call.page \in Page /\ call.level \in 0..3
         /\ call.frame \in Frame \cup {NotSet, Device} /\ call.fresh \in Frame \cup {NotSet}
         /\ call.at \in {"walk", "clear", "link"}
         /\ Here = Walk(mem, PageDirectory, call.page, call.level)
         /\ HereIndex = call.page[call.level + 1]
         /\ Entry(mem, Here, HereIndex) = Walk(mem, PageDirectory, call.page, call.level + 1)
         /\ Ready(mem, PageDirectory, {Recursive}, call.page, call.level)
<1>1. Settled /\ call \in CallType
  BY DEF IInv, TypeOK, CallType
<1>2. /\ call.page \in Tracked /\ call.level \in 0..3
      /\ call.frame \in Frame \cup {NotSet, Device} /\ call.fresh \in Frame \cup {NotSet}
      /\ call.at \in {"walk", "clear", "link"}
  BY <1>1 DEF CallType
<1>3. call.page \in Own({Recursive}) /\ call.page # Temp
  BY <1>2, Owned
<1>4. call.page \in Page
  BY <1>3 DEF Own
<1>5. Here = Walk(mem, PageDirectory, call.page, call.level)
      /\ HereIndex = call.page[call.level + 1]
      /\ Entry(mem, Here, HereIndex) = Walk(mem, PageDirectory, call.page, call.level + 1)
  BY <1>2, Reads DEF Here, HereIndex, Table
<1>6. Ready(mem, PageDirectory, {Recursive}, call.page, call.level)
  <2>1. Walk(mem, PageDirectory, call.page, call.level) # NotSet /\ mem \in Contents
        /\ Tree(mem, PageDirectory, {Recursive})
    BY <1>1, OnTrack DEF CallOnTrack, RootWalk
  <2>2. QED
    BY <2>1, <1>2, <1>3 DEF Ready
<1>7. QED
  BY <1>1, <1>2, <1>3, <1>4, <1>5, <1>6

\* What a step after PagingInitialize has to keep.
LEMMA StillSettled ==
  ASSUME IInv, Settled, Settled', TypeOK', TranslationsAgree', UNCHANGED buffer,
         phase' \notin {"up", "panic"} => free' = {},
         ~stale' => Matching' /\ CallOnTrack' /\ BitmapOnTrack'
  PROVE  IInv'
<1>1. phase' # "boot" /\ ~Building' /\ buffer' + BitmapPages <= Top
  BY DEF Settled, Building, IInv
<1>2. QED
  BY <1>1 DEF IInv

\* The bitmap is mapped: no table of it is missing, and the free frames are above.
LEMMA InitializedKeeps ==
  ASSUME IInv, Initialized
  PROVE  IInv'
<1>1. phase = "bitmap" /\ call = None /\ ~stale /\ phase' = "up"
      /\ free' = (buffer + BitmapPages)..(Ram - 1)
      /\ UNCHANGED <<mem, next, buffer, build, call, tlb, asked, stale>> /\ Settled /\ Settled'
  BY DEF Initialized, Running, Settled
<1>2. Matching /\ BitmapOnTrack /\ TypeOK /\ TranslationsAgree
      /\ buffer \in 0..Top /\ Ram \in Nat /\ Top \in 0..Ram /\ BitmapPages \in Nat
  BY <1>1, OnTrack
<1>3. Now \subseteq 0..(buffer - 1)
  BY <1>1, <1>2 DEF BitmapOnTrack
<1>4. Now \cap free' = {} /\ free' \subseteq Frame
  BY <1>1, <1>2, <1>3 DEF Frame
<1>5. Matching'
  BY <1>1, <1>2, <1>4 DEF Matching, RootWalk, Now
<1>6. CallOnTrack' /\ BitmapOnTrack'
  BY <1>1 DEF CallOnTrack, BitmapOnTrack
<1>7. TypeOK'
  BY <1>1, <1>2, <1>4 DEF TypeOK
<1>8. TranslationsAgree'
  BY <1>1, <1>2 DEF TranslationsAgree
<1>9. QED
  BY <1>1, <1>5, <1>6, <1>7, <1>8, StillSettled

\* A call begins at the root.
LEMMA CallBegins ==
  ASSUME IInv, Settled, ~stale, call = None,
         NEW v \in Tracked, NEW f \in Frame \cup {Device}, NEW override \in BOOLEAN,
         call' = Call(v, f, override),
         phase = "bitmap" => v \in {KernelPage(g) : g \in BitmapFrames},
         UNCHANGED <<mem, next, buffer, build, free, phase, tlb, asked, stale>>
  PROVE  IInv'
<1>1. Matching /\ BitmapOnTrack /\ TypeOK /\ TranslationsAgree /\ PageDirectory # NotSet
      /\ (phase \notin {"up", "panic"} => free = {})
  BY OnTrack
<1>2. /\ call'.page = v /\ call'.level = 0 /\ call'.at = "walk"
      /\ call' \in CallType
  BY DEF Call, CallType
<1>3. TypeOK'
  BY <1>1, <1>2 DEF TypeOK, CallType
<1>4. TranslationsAgree' /\ Matching'
  BY <1>1 DEF TranslationsAgree, Matching, RootWalk, Now
<1>5. CallOnTrack'
  <2>1. Walk(mem, PageDirectory, v, 0) # NotSet
    BY <1>1, WalkSteps
  <2>2. QED
    BY <2>1, <1>2 DEF CallOnTrack, RootWalk
<1>6. BitmapOnTrack'
  <2>1. OneTableMissing => OneTableMissing'
    BY DEF OneTableMissing, BitmapFrames, RootWalk, Now
  <2>2. NoTableMissing => NoTableMissing'
    BY DEF NoTableMissing, BitmapFrames, RootWalk
  <2>3. QED
    BY <2>1, <2>2, <1>1, <1>2 DEF BitmapOnTrack, BitmapFrames, Now
<1>7. Settled'
  BY DEF Settled
<1>8. QED
  BY <1>1, <1>3, <1>4, <1>5, <1>6, <1>7, StillSettled

\* A call for the next page of the bitmap.
LEMMA MapBitmapKeeps ==
  ASSUME IInv, MapBitmap
  PROVE  IInv'
<1>1. phase = "bitmap" /\ call = None /\ ~stale /\ Settled
      /\ UNCHANGED <<mem, next, buffer, build, free, phase, tlb, asked, stale>>
  BY DEF MapBitmap, Running, Settled
<1>2. PICK f \in buffer..(buffer + BitmapPages - 1) : call' = Call(KernelPage(f), f, FALSE)
  BY DEF MapBitmap
<1>3. f \in Frame /\ f \in 0..(Top - 1) /\ f \in BitmapFrames
  BY <1>1, <1>2, OnTrack DEF Frame, BitmapFrames
<1>4. KernelPage(f) \in Tracked /\ f \in Frame \cup {Device} /\ FALSE \in BOOLEAN
  BY <1>3 DEF Tracked
<1>5. QED
  BY <1>1, <1>2, <1>3, <1>4, CallBegins

\* A call for a client's page.
LEMMA PagingMapPageKeeps ==
  ASSUME IInv, PagingMapPage
  PROVE  IInv'
<1>1. phase = "up" /\ call = None /\ ~stale /\ Settled
      /\ UNCHANGED <<mem, next, buffer, build, free, phase, tlb, asked, stale>>
  BY DEF PagingMapPage, Running, Settled
<1>2. PICK v \in Clients, f \in Targets, override \in BOOLEAN : call' = Call(v, f, override)
  BY DEF PagingMapPage
<1>3. v \in Tracked /\ f \in Frame \cup {Device}
  BY <1>2, PagingAssumption, TopIs DEF Tracked
<1>4. QED
  BY <1>1, <1>2, <1>3, CallBegins

\* The call comes down to a table that is there.
LEMMA DescendKeeps ==
  ASSUME IInv, Descend
  PROVE  IInv'
<1>1. ~stale /\ call # None /\ call.at = "walk" /\ call.level \in 0..2
      /\ Entry(mem, Here, HereIndex) # NotSet
      /\ call' = [call EXCEPT !.level = @ + 1]
      /\ UNCHANGED <<mem, next, buffer, build, free, phase, tlb, asked, stale>>
  BY DEF Descend, Walking, Running
<1>2. Settled /\ call \in CallType
      /\ Entry(mem, Here, HereIndex) = Walk(mem, PageDirectory, call.page, call.level + 1)
  BY <1>1, CallFacts
<1>3. Matching /\ BitmapOnTrack /\ TypeOK /\ TranslationsAgree
      /\ (phase \notin {"up", "panic"} => free = {})
  BY <1>1, <1>2, OnTrack
<1>4. /\ call'.page = call.page /\ call'.level = call.level + 1 /\ call'.at = "walk"
      /\ call' \in CallType
  BY <1>1, <1>2 DEF CallType
<1>5. TypeOK'
  BY <1>1, <1>3, <1>4 DEF TypeOK, CallType
<1>6. TranslationsAgree' /\ Matching'
  BY <1>1, <1>3 DEF TranslationsAgree, Matching, RootWalk, Now
<1>7. CallOnTrack'
  BY <1>1, <1>2, <1>4 DEF CallOnTrack, RootWalk
<1>8. BitmapOnTrack'
  <2>1. OneTableMissing => OneTableMissing'
    BY <1>1 DEF OneTableMissing, BitmapFrames, RootWalk, Now
  <2>2. NoTableMissing => NoTableMissing'
    BY <1>1, <1>4 DEF NoTableMissing, BitmapFrames, RootWalk
  <2>3. QED
    BY <2>1, <2>2, <1>1, <1>3, <1>4 DEF BitmapOnTrack, BitmapFrames, Now
<1>9. Settled'
  BY <1>1, <1>2 DEF Settled
<1>10. QED
  BY <1>1, <1>2, <1>3, <1>5, <1>6, <1>7, <1>8, <1>9, StillSettled

\* Nothing changes but the phase.
LEMMA OutOfMemoryKeeps ==
  ASSUME IInv, OutOfMemory
  PROVE  IInv'
<1>1. ~stale /\ call # None /\ phase = "up" /\ phase' = "panic"
      /\ UNCHANGED <<mem, next, buffer, build, free, call, tlb, asked, stale>>
      /\ Settled /\ Settled'
  BY DEF OutOfMemory, Walking, Running, Settled
<1>2. Matching /\ CallOnTrack /\ TypeOK /\ TranslationsAgree
  BY <1>1, OnTrack
<1>3. TypeOK' /\ TranslationsAgree' /\ Matching'
  BY <1>1, <1>2 DEF TypeOK, TranslationsAgree, Matching, RootWalk, Now
<1>4. CallOnTrack' /\ BitmapOnTrack'
  BY <1>1, <1>2 DEF CallOnTrack, BitmapOnTrack, RootWalk, Now
<1>5. QED
  BY <1>1, <1>3, <1>4, StillSettled

\* Only the TLB changes.
LEMMA TranslationsChange ==
  ASSUME IInv, tlb' \in [Clients \cup {Temp} -> Frame \cup {NotSet, Device}], TranslationsAgree',
         UNCHANGED <<mem, next, buffer, build, free, phase, call, asked, stale>>
  PROVE  IInv'
<1>1. TypeOK'
  BY DEF IInv, TypeOK
<1>2. Settled' = Settled /\ Building' = Building
  BY DEF Settled, Building
<1>3. Loaded => Loaded'
  BY DEF Loaded
<1>4. InLoops /\ Grown /\ Vacant /\ MappedSoFar => InLoops' /\ Grown' /\ Vacant' /\ MappedSoFar'
  BY DEF InLoops, Grown, Vacant, MappedSoFar, Placed, BuildWalk, Target, Checks
<1>5. Matching /\ CallOnTrack => Matching' /\ CallOnTrack'
  BY DEF Matching, CallOnTrack, RootWalk, Now
<1>6. BitmapOnTrack => BitmapOnTrack'
  BY DEF BitmapOnTrack, OneTableMissing, NoTableMissing, BitmapFrames, RootWalk, Now
<1>7. QED
  BY <1>1, <1>2, <1>3, <1>4, <1>5, <1>6 DEF IInv

\* The processor reads a translation, which is what was asked.
LEMMA FillKeeps ==
  ASSUME IInv, Fill
  PROVE  IInv'
<1>1. Settled /\ ~stale
      /\ UNCHANGED <<mem, next, buffer, build, free, phase, call, asked, stale>>
  BY DEF Fill, Running
<1>2. PICK v \in DOMAIN tlb : tlb' = [tlb EXCEPT ![v] = PagingVirtToPhys(mem, v)]
  BY DEF Fill
<1>3. Matching /\ TypeOK /\ TranslationsAgree /\ mem \in Contents
  BY <1>1, OnTrack
<1>4. tlb \in [Clients \cup {Temp} -> Frame \cup {NotSet, Device}] /\ v \in Clients \cup {Temp}
      /\ v \in Page
  BY <1>2, <1>3, PagingAssumption, TopIs, OtherPages DEF TypeOK
<1>5. PagingVirtToPhys(mem, v) = Walk(mem, PageDirectory, v, 4)
  BY Reads
<1>6. PagingVirtToPhys(mem, v) \in Frame \cup {NotSet, Device}
  BY <1>3, <1>4, <1>5, WalkType
<1>7. v \in Clients => PagingVirtToPhys(mem, v) = asked[v]
  BY <1>3, <1>5 DEF Matching, RootWalk, Tracked
<1>8. tlb' \in [Clients \cup {Temp} -> Frame \cup {NotSet, Device}]
  BY <1>2, <1>4, <1>6
<1>9. TranslationsAgree'
  BY <1>1, <1>2, <1>3, <1>4, <1>7 DEF TranslationsAgree
<1>10. QED
  BY <1>1, <1>8, <1>9, TranslationsChange

\* A translation less.
LEMMA EvictKeeps ==
  ASSUME IInv, Evict
  PROVE  IInv'
<1>1. UNCHANGED <<mem, next, buffer, build, free, phase, call, asked, stale>>
  BY DEF Evict
<1>2. PICK v \in DOMAIN tlb : tlb' = [tlb EXCEPT ![v] = NotSet]
  BY DEF Evict
<1>3. tlb \in [Clients \cup {Temp} -> Frame \cup {NotSet, Device}] /\ TranslationsAgree
  BY DEF IInv, TypeOK
<1>4. tlb' \in [Clients \cup {Temp} -> Frame \cup {NotSet, Device}]
  BY <1>2, <1>3
<1>5. TranslationsAgree'
  BY <1>1, <1>2, <1>3 DEF TranslationsAgree
<1>6. QED
  BY <1>1, <1>4, <1>5, TranslationsChange

\* A page's own entry is set behind the root: the tables stay as they are.
WithPage(m, p, x) == [m EXCEPT ![Walk(m, PageDirectory, p, 3)][p[4]] = x]

\* A page's own entry is set: the tables are what they were, and one page reads it.
LEMMA LeafOfTheRoot ==
  ASSUME IInv, Settled, ~stale,
         NEW p \in Own({Recursive}), Walk(mem, PageDirectory, p, 3) # NotSet,
         NEW x \in Frame \cup {NotSet, Device},
         mem' = WithPage(mem, p, x)
  PROVE  /\ mem' \in Contents /\ Tree(mem', PageDirectory, {Recursive})
         /\ Tables(mem', PageDirectory, {Recursive}) = Now
         /\ mem'[PageDirectory][Recursive] = PageDirectory
         /\ \A v \in Own({Recursive}) : \A l \in 0..3 :
              Walk(mem', PageDirectory, v, l) = Walk(mem, PageDirectory, v, l)
         /\ \A v \in Own({Recursive}) :
              Walk(mem', PageDirectory, v, 4) = IF v = p THEN x ELSE Walk(mem, PageDirectory, v, 4)
<1>1. Ready(mem, PageDirectory, {Recursive}, p, 3) /\ PageDirectory \in Frame /\ Matching
  BY OnTrack DEF Ready
<1>2. Entered(mem, mem', PageDirectory, {Recursive}, p, 3, x)
  BY <1>1, SetLast DEF WithPage
<1>3. mem'[PageDirectory][Recursive] = PageDirectory
  <2> DEFINE X == {Recursive}
  <2>1. Recursive \in X \cap Index /\ PageDirectory \in Frame
    BY <1>1, Special
  <2>2. Entered(mem, mem', PageDirectory, X, p, 3, x)
    BY <1>2
  <2> DEFINE j == 3
  <2>3. Entered(mem, mem', PageDirectory, X, p, j, x)
    BY <2>2
  <2> HIDE DEF X, j
  <2>4. mem'[PageDirectory][Recursive] = mem[PageDirectory][Recursive]
    BY <2>1, <2>3, RootEntryKept
  <2>5. QED
    BY <2>4, <1>1 DEF Matching
<1> DEFINE k == 3
<1>4. SetsEntry(mem, mem', PageDirectory, {Recursive}, p, k, x) /\ mem' \in Contents
  BY <1>2 DEF Entered
<1>5. k + 1 = 4 /\ 4 \in 0..4 /\ \A l \in 0..3 : l \in 0..4 /\ l # 4
  OBVIOUS
<1> HIDE DEF k
<1>6. Tree(mem', PageDirectory, {Recursive})
  BY <1>4, TreeAfter
<1>7. \A v \in Own({Recursive}) : \A l \in 0..4 :
        Walk(mem', PageDirectory, v, l) =
          IF l = k + 1 /\ Agree(v, p, l) THEN x ELSE Walk(mem, PageDirectory, v, l)
  BY <1>4, WalkAfter
<1>8. \A v \in Own({Recursive}) : \A l \in 0..3 :
        Walk(mem', PageDirectory, v, l) = Walk(mem, PageDirectory, v, l)
  BY <1>5, <1>7
<1>9. Tables(mem', PageDirectory, {Recursive}) = Now
  <2> DEFINE O == Own({Recursive})
             A(v, l) == Walk(mem', PageDirectory, v, l)
             B(v, l) == Walk(mem, PageDirectory, v, l)
  <2>1. /\ Tables(mem', PageDirectory, {Recursive}) = {A(v, l) : v \in O, l \in 0..3} \ {NotSet}
        /\ Now = {B(v, l) : v \in O, l \in 0..3} \ {NotSet}
    BY DEF Tables, Now
  <2>2. \A v \in O : \A l \in 0..3 : A(v, l) = B(v, l)
    BY <1>8
  <2> HIDE DEF O, A, B
  <2>3. \A t : t \in Tables(mem', PageDirectory, {Recursive}) <=> t \in Now
    BY <2>1, <2>2
  <2>4. QED
    BY <2>3
<1>10. ASSUME NEW v \in Own({Recursive})
       PROVE  Walk(mem', PageDirectory, v, 4) = IF v = p THEN x ELSE Walk(mem, PageDirectory, v, 4)
  <2>1. Agree(v, p, 4) <=> v = p
    BY PagesEqual DEF Own, Agree
  <2>2. Walk(mem', PageDirectory, v, 4) =
          IF Agree(v, p, 4) THEN x ELSE Walk(mem, PageDirectory, v, 4)
    BY <1>5, <1>7
  <2>3. QED
    BY <2>1, <2>2
<1>11. QED
  BY <1>3, <1>4, <1>6, <1>8, <1>9, <1>10

\* The bitmap's tables are as they were.
LEMMA BitmapTablesKept ==
  ASSUME UNCHANGED <<next, buffer, phase>>, buffer + BitmapPages <= Top, buffer \in Nat,
         \A v \in Own({Recursive}) : \A l \in 0..3 :
           Walk(mem', PageDirectory, v, l) = Walk(mem, PageDirectory, v, l)
  PROVE  /\ Now' = Now
         /\ OneTableMissing => OneTableMissing'
         /\ \A f \in BitmapFrames : RootWalk(KernelPage(f), 3)' = RootWalk(KernelPage(f), 3)
<1>1. Now' = Now
  BY DEF Now, Tables
<1>2. BitmapFrames \subseteq 0..Top
  BY PagingAssumption, TopIs DEF BitmapFrames
<1>3. \A f \in BitmapFrames : KernelPage(f) \in Own({Recursive})
  BY <1>2, Owned
<1>4. \A f \in BitmapFrames : RootWalk(KernelPage(f), 3)' = RootWalk(KernelPage(f), 3)
  BY <1>3 DEF RootWalk
<1>5. OneTableMissing => OneTableMissing'
  BY <1>1, <1>4 DEF OneTableMissing, BitmapFrames
<1>6. QED
  BY <1>1, <1>4, <1>5

\* A call that sets a page's own entry comes back.
LEMMA PageIsSet ==
  ASSUME IInv, Settled, ~stale, NEW p \in Tracked, Walk(mem, PageDirectory, p, 3) # NotSet,
         NEW x \in Frame \cup {NotSet, Device},
         mem' = WithPage(mem, p, x),
         asked' = [asked EXCEPT ![p] = x], InvalidatePage(p), call' = None,
         call = None \/ call.at = "walk",
         UNCHANGED <<next, buffer, build, free, phase, stale>>
  PROVE  IInv'
<1>1. /\ Matching /\ BitmapOnTrack /\ TypeOK /\ TranslationsAgree
      /\ buffer + BitmapPages <= Top /\ buffer \in Nat
      /\ (phase \notin {"up", "panic"} => free = {})
  BY OnTrack
<1>2. p \in Own({Recursive}) /\ p # Temp /\ \A v \in Tracked : v \in Own({Recursive})
  BY Owned
<1>3. /\ mem' \in Contents /\ Tree(mem', PageDirectory, {Recursive})
      /\ Tables(mem', PageDirectory, {Recursive}) = Now
      /\ mem'[PageDirectory][Recursive] = PageDirectory
      /\ \A v \in Own({Recursive}) : \A l \in 0..3 :
           Walk(mem', PageDirectory, v, l) = Walk(mem, PageDirectory, v, l)
      /\ \A v \in Own({Recursive}) :
           Walk(mem', PageDirectory, v, 4) = IF v = p THEN x ELSE Walk(mem, PageDirectory, v, 4)
  BY <1>2, LeafOfTheRoot
<1>4. asked \in [Tracked -> Frame \cup {NotSet, Device}]
      /\ tlb \in [Clients \cup {Temp} -> Frame \cup {NotSet, Device}]
  BY <1>1 DEF TypeOK
<1>5. asked' \in [Tracked -> Frame \cup {NotSet, Device}]
      /\ \A v \in Tracked : asked'[v] = IF v = p THEN x ELSE asked[v]
  BY <1>4
<1>6. tlb' \in [Clients \cup {Temp} -> Frame \cup {NotSet, Device}]
      /\ \A v \in Clients : tlb'[v] = IF v = p THEN NotSet ELSE tlb[v]
  BY <1>4 DEF InvalidatePage
<1>7. TypeOK'
  BY <1>1, <1>3, <1>5, <1>6 DEF TypeOK, Contents
<1>8. TranslationsAgree'
  BY <1>1, <1>5, <1>6 DEF TranslationsAgree, Tracked
<1>9. Matching'
  <2>1. Temp \in Own({Recursive}) /\ KernelPage(PageDirectory) \in Own({Recursive})
    <3>1. PageDirectory \in 0..Top
      BY OnTrack DEF Frame
    <3>2. QED
      BY <3>1, Owned
  <2>2. Walk(mem', PageDirectory, Temp, 3) # NotSet
        /\ Walk(mem', PageDirectory, KernelPage(PageDirectory), 2) # NotSet
    BY <2>1, <1>1, <1>3 DEF Matching, RootWalk
  <2>3. \A v \in Tracked : Walk(mem', PageDirectory, v, 4) = asked'[v]
    BY <1>1, <1>2, <1>3, <1>5 DEF Matching, RootWalk
  <2>4. Now' \cap free' = {}
    BY <1>1, <1>3 DEF Matching, Now
  <2>5. QED
    BY <2>2, <2>3, <2>4, <1>3 DEF Matching, RootWalk
<1>10. BitmapOnTrack'
  <2>1. /\ Now' = Now
        /\ OneTableMissing => OneTableMissing'
        /\ \A f \in BitmapFrames : RootWalk(KernelPage(f), 3)' = RootWalk(KernelPage(f), 3)
    BY <1>1, <1>3, BitmapTablesKept
  <2>2. NoTableMissing => NoTableMissing'
    BY <2>1 DEF NoTableMissing, BitmapFrames
  <2>3. QED
    BY <2>1, <2>2, <1>1 DEF BitmapOnTrack
<1>11. CallOnTrack' /\ Settled'
  BY DEF CallOnTrack, Settled
<1>12. QED
  BY <1>1, <1>7, <1>8, <1>9, <1>10, <1>11, StillSettled

\* One page's entry, and its translation dropped.
LEMMA SetPageKeeps ==
  ASSUME IInv, SetPage
  PROVE  IInv'
<1>1. ~stale /\ call # None /\ call.at = "walk" /\ call.level = 3 /\ call' = None
      /\ UNCHANGED <<next, buffer, build, free, phase, stale>>
  BY DEF SetPage, Walking, Running
<1>2. /\ Settled /\ call.page \in Tracked /\ call.frame \in Frame \cup {NotSet, Device}
      /\ Here = Walk(mem, PageDirectory, call.page, 3) /\ HereIndex = call.page[4]
      /\ Walk(mem, PageDirectory, call.page, 3) # NotSet
  <2>1. /\ Settled /\ call.page \in Tracked /\ call.frame \in Frame \cup {NotSet, Device}
        /\ Here = Walk(mem, PageDirectory, call.page, call.level)
        /\ HereIndex = call.page[call.level + 1]
        /\ Ready(mem, PageDirectory, {Recursive}, call.page, call.level)
    BY <1>1, CallFacts
  <2>2. QED
    BY <2>1, <1>1 DEF Ready
<1>3. CASE Entry(mem, Here, HereIndex) = NotSet \/ call.override
  <2>1. /\ mem' = [mem EXCEPT ![Here][HereIndex] = call.frame]
        /\ asked' = [asked EXCEPT ![call.page] = call.frame]
        /\ InvalidatePage(call.page)
    BY <1>3 DEF SetPage
  <2>2. mem' = WithPage(mem, call.page, call.frame)
    BY <2>1, <1>2 DEF WithPage
  <2>3. QED
    BY <2>1, <2>2, <1>1, <1>2, PageIsSet
<1>4. CASE ~(Entry(mem, Here, HereIndex) = NotSet \/ call.override)
  <2>1. UNCHANGED <<mem, asked, tlb>>
    BY <1>4 DEF SetPage
  <2>2. Matching /\ BitmapOnTrack /\ TypeOK /\ TranslationsAgree
        /\ (phase \notin {"up", "panic"} => free = {})
    BY <1>1, <1>2, OnTrack
  <2>3. TypeOK' /\ TranslationsAgree' /\ Matching'
    BY <2>1, <2>2, <1>1 DEF TypeOK, TranslationsAgree, Matching, RootWalk, Now
  <2>4. BitmapOnTrack'
    <3>1. OneTableMissing => OneTableMissing'
      BY <2>1, <1>1 DEF OneTableMissing, BitmapFrames, RootWalk, Now
    <3>2. NoTableMissing => NoTableMissing'
      BY <2>1, <1>1 DEF NoTableMissing, BitmapFrames, RootWalk
    <3>3. QED
      BY <3>1, <3>2, <2>1, <2>2, <1>1 DEF BitmapOnTrack, Now
  <2>5. CallOnTrack' /\ Settled'
    BY <1>1, <1>2 DEF CallOnTrack, Settled
  <2>6. QED
    BY <2>2, <2>3, <2>4, <2>5, <1>1, <1>2, StillSettled
<1>5. QED
  BY <1>3, <1>4

\* One page's entry cleared, and its translation dropped.
LEMMA PagingUnmapPageKeeps ==
  ASSUME IInv, PagingUnmapPage
  PROVE  IInv'
<1>1. phase = "up" /\ call = None /\ ~stale /\ Settled /\ call' = None
      /\ UNCHANGED <<next, buffer, build, free, phase, stale>>
  BY DEF PagingUnmapPage, Running, Settled
<1>2. PICK v \in Clients :
        /\ PagingVirtToPhys(mem, v) \notin {NotSet, 0}
        /\ mem' = [mem EXCEPT ![Table(mem, v, 3)][v[4]] = NotSet]
        /\ asked' = [asked EXCEPT ![v] = NotSet]
        /\ InvalidatePage(v)
  BY DEF PagingUnmapPage
<1>3. v \in Tracked /\ NotSet \in Frame \cup {NotSet, Device}
  BY DEF Tracked
<1>4. Table(mem, v, 3) = Walk(mem, PageDirectory, v, 3)
      /\ Walk(mem, PageDirectory, v, 4) # NotSet
  BY <1>2, Reads
<1>5. Walk(mem, PageDirectory, v, 3) # NotSet
  <2>1. 4 = 3 + 1 /\ 3 \in 0..3
    OBVIOUS
  <2>2. QED
    BY <2>1, <1>4, WalkEnds
<1>6. mem' = WithPage(mem, v, NotSet)
  BY <1>2, <1>4 DEF WithPage
<1>7. QED
  BY <1>1, <1>2, <1>3, <1>5, <1>6, PageIsSet

\* While the bitmap is mapped only a page table can be missing, and the others' tables are
\* there or will be with it.
LEMMA MissingInBitmap ==
  ASSUME IInv, ~stale, phase = "bitmap", call # None, call.level \in 0..2,
         Walk(mem, PageDirectory, call.page, call.level + 1) = NotSet
  PROVE  /\ call.level = 2 /\ BitmapPages # 0
         /\ call.at = "walk" => OneTableMissing
         /\ \A f \in BitmapFrames :
              RootWalk(KernelPage(f), 3) # NotSet \/ KernelPage(f)[3] = call.page[3]
<1>1. /\ Matching /\ BitmapOnTrack /\ buffer \in 0..Top /\ Ram \in Nat /\ Top \in 0..Ram
      /\ BitmapPages \in Nat
      /\ buffer + BitmapPages <= Top /\ PageDirectory \in 0..Top
  BY OnTrack DEF Settled, Frame
<1>2. PICK g \in BitmapFrames : call.page = KernelPage(g)
  BY <1>1 DEF BitmapOnTrack
<1>3. BitmapFrames \subseteq 0..Top /\ BitmapPages # 0
  BY <1>1, <1>2 DEF BitmapFrames
<1>4. \A f \in BitmapFrames : KernelPage(f)[1] = Kernel /\ KernelPage(f)[2] = Fan - 2
                              /\ KernelPage(f)[3] = f \div Fan
  BY <1>3, KernelPageIs
<1>5. Walk(mem, PageDirectory, call.page, 2) # NotSet
      /\ Walk(mem, PageDirectory, call.page, 1) # NotSet
  <2>1. Agree(call.page, KernelPage(PageDirectory), 2)
    <3>1. call.page[1] = KernelPage(PageDirectory)[1]
          /\ call.page[2] = KernelPage(PageDirectory)[2]
      BY <1>1, <1>2, <1>4, KernelPageIs
    <3>2. \A j \in 1..2 : j = 1 \/ j = 2
      OBVIOUS
    <3>3. QED
      BY <3>1, <3>2 DEF Agree
  <2>2. 2 \in 0..4 /\ 2 = 1 + 1 /\ 1 \in 0..3
    OBVIOUS
  <2>3. Walk(mem, PageDirectory, call.page, 2) # NotSet
    <3>1. Walk(mem, PageDirectory, call.page, 2) =
             Walk(mem, PageDirectory, KernelPage(PageDirectory), 2)
      BY <2>1, <2>2, SameWay
    <3>2. QED
      BY <3>1, <1>1 DEF Matching, RootWalk
  <2>4. QED
    BY <2>2, <2>3, WalkEnds
<1>6. call.level = 2
  BY <1>5
<1>7. RootWalk(KernelPage(g), 3) = NotSet
  BY <1>2, <1>6 DEF RootWalk
<1>8. OneTableMissing \/ NoTableMissing
  BY <1>1 DEF BitmapOnTrack
<1>9. ASSUME NoTableMissing
      PROVE  call.at # "walk" /\ \A f \in BitmapFrames :
               RootWalk(KernelPage(f), 3) # NotSet \/ KernelPage(f)[3] = call.page[3]
  BY <1>2, <1>7, <1>9 DEF NoTableMissing
<1>10. ASSUME OneTableMissing
       PROVE  \A f \in BitmapFrames :
                RootWalk(KernelPage(f), 3) # NotSet \/ KernelPage(f)[3] = call.page[3]
  BY <1>2, <1>4, <1>7, <1>10 DEF OneTableMissing
<1>11. QED
  BY <1>3, <1>6, <1>8, <1>9, <1>10

\* The new frame is no table: PhysAlloc returned it, or g_LastUsed has not reached buffer.
LEMMA GetNewPageKeeps ==
  ASSUME IInv, GetNewPage
  PROVE  IInv'
<1>1. ~stale /\ call # None /\ call.at = "walk" /\ call.level \in 0..2
      /\ Entry(mem, Here, HereIndex) = NotSet
      /\ UNCHANGED <<buffer, build, phase, tlb, asked, stale>>
  BY DEF GetNewPage, Walking, Running
<1>2. Settled /\ call \in CallType
      /\ Walk(mem, PageDirectory, call.page, call.level + 1) = NotSet
      /\ Walk(mem, PageDirectory, call.page, call.level) # NotSet
      /\ call.page \in Own({Recursive})
  BY <1>1, CallFacts DEF Ready
<1>3. /\ Matching /\ BitmapOnTrack /\ TypeOK /\ TranslationsAgree
      /\ buffer + BitmapPages <= Top /\ buffer \in 0..Top /\ Ram \in Nat /\ Top \in 0..Ram
      /\ BitmapPages \in Nat
      /\ next \in Frame /\ free \subseteq Frame
      /\ (phase \notin {"up", "panic"} => free = {})
  BY <1>1, <1>2, OnTrack
<1>4. PICK f : /\ Fresh(f)
               /\ \/ phase = "bitmap" /\ f = next /\ next' = next + 1 /\ free' = free
                  \/ phase = "up" /\ f \in free /\ free' = free \ {f} /\ next' = next
  BY DEF GetNewPage, TakeFrame
<1>5. phase = "bitmap" =>
        /\ call.level = 2 /\ BitmapPages # 0 /\ OneTableMissing
        /\ \A g \in BitmapFrames :
             RootWalk(KernelPage(g), 3) # NotSet \/ KernelPage(g)[3] = call.page[3]
  BY <1>1, <1>2, MissingInBitmap
<1>6. f \in Frame \ (Now \cup free') /\ next' \in Frame /\ free' \subseteq free
      /\ (phase = "bitmap" => f < buffer)
  <2>1. CASE phase = "bitmap" /\ f = next /\ next' = next + 1 /\ free' = free
    <3>1. free = {} /\ next < buffer /\ next \notin Now
      BY <2>1, <1>3, <1>5 DEF OneTableMissing
    <3>2. BitmapPages # 0
      BY <2>1, <1>5
    <3>3. next' \in Frame
      BY <2>1, <3>1, <3>2, <1>3 DEF Frame
    <3>4. QED
      BY <2>1, <3>1, <3>3, <1>3
  <2>2. CASE phase = "up" /\ f \in free /\ free' = free \ {f} /\ next' = next
    <3>1. Now \cap free = {}
      BY <1>3 DEF Matching
    <3>2. QED
      BY <2>2, <3>1, <1>3
  <2>3. QED
    BY <2>1, <2>2, <1>4
<1>7. mem' = WithPage(mem, Temp, f) /\ call' = [call EXCEPT !.at = "clear", !.fresh = f]
  <2>1. mem' = [mem EXCEPT ![Table(mem, Temp, 3)][Temp[4]] = f]
        /\ call' = [call EXCEPT !.at = "clear", !.fresh = f]
    BY <1>4 DEF Fresh
  <2>2. Table(mem, Temp, 3) = Walk(mem, PageDirectory, Temp, 3)
    BY Reads
  <2>3. QED
    BY <2>1, <2>2 DEF WithPage
<1>8. Temp \in Own({Recursive}) /\ KernelPage(PageDirectory) \in Own({Recursive})
      /\ \A v \in Tracked : v \in Own({Recursive}) /\ v # Temp
  <2>1. PageDirectory \in 0..Top
    BY <1>1, <1>2, OnTrack DEF Frame
  <2>2. QED
    BY <2>1, Owned
<1>9. Walk(mem, PageDirectory, Temp, 3) # NotSet /\ f \in Frame \cup {NotSet, Device}
  BY <1>3, <1>6 DEF Matching, RootWalk
<1>10. /\ mem' \in Contents /\ Tree(mem', PageDirectory, {Recursive})
       /\ Tables(mem', PageDirectory, {Recursive}) = Now
       /\ mem'[PageDirectory][Recursive] = PageDirectory
       /\ \A v \in Own({Recursive}) : \A l \in 0..3 :
            Walk(mem', PageDirectory, v, l) = Walk(mem, PageDirectory, v, l)
       /\ \A v \in Own({Recursive}) :
            Walk(mem', PageDirectory, v, 4) = IF v = Temp THEN f ELSE Walk(mem, PageDirectory, v, 4)
  <2>1. Temp \in Own({Recursive}) /\ mem' = WithPage(mem, Temp, f) /\ ~stale /\ Settled
    BY <1>1, <1>2, <1>7, <1>8
  <2>2. QED
    BY <2>1, <1>9, LeafOfTheRoot
<1>11. /\ call'.page = call.page /\ call'.level = call.level /\ call'.at = "clear"
          /\ call'.fresh = f
       /\ call' \in CallType
  BY <1>2, <1>6, <1>7 DEF CallType
<1>12. TypeOK'
  BY <1>1, <1>3, <1>6, <1>10, <1>11 DEF TypeOK, CallType, Contents
<1>13. TranslationsAgree'
  BY <1>1, <1>3 DEF TranslationsAgree
<1>14. Now' = Now
  BY <1>10 DEF Now
<1>15. Matching'
  <2>1. Walk(mem', PageDirectory, Temp, 3) # NotSet
        /\ Walk(mem', PageDirectory, KernelPage(PageDirectory), 2) # NotSet
    BY <1>3, <1>8, <1>10 DEF Matching, RootWalk
  <2>2. \A v \in Tracked : Walk(mem', PageDirectory, v, 4) = asked'[v]
    BY <1>1, <1>3, <1>8, <1>10 DEF Matching, RootWalk
  <2>3. Now' \cap free' = {}
    BY <1>3, <1>6, <1>14 DEF Matching
  <2>4. QED
    BY <2>1, <2>2, <2>3, <1>10 DEF Matching, RootWalk
<1>16. CallOnTrack'
  <2>1. Walk(mem', PageDirectory, call.page, call.level) # NotSet
        /\ Walk(mem', PageDirectory, call.page, call.level + 1) = NotSet
    BY <1>1, <1>2, <1>10
  <2>2. call.level <= 2
    BY <1>1
  <2>3. QED
    BY <2>1, <2>2, <1>6, <1>11, <1>14 DEF CallOnTrack, RootWalk
<1>17. BitmapOnTrack'
  <2> SUFFICES ASSUME phase = "bitmap"
               PROVE  BitmapOnTrack'
    BY <1>1 DEF BitmapOnTrack
  <2>1. BitmapFrames \subseteq 0..Top /\ BitmapFrames' = BitmapFrames
    BY <1>1, <1>3 DEF BitmapFrames
  <2>2. \A g \in BitmapFrames : RootWalk(KernelPage(g), 3)' = RootWalk(KernelPage(g), 3)
    BY <2>1, <1>10, Owned DEF RootWalk
  <2>3. NoTableMissing'
    BY <2>1, <2>2, <1>5, <1>11, CallsAreSome DEF NoTableMissing
  <2>4. Now \subseteq 0..(buffer - 1) /\ call.page \in {KernelPage(g) : g \in BitmapFrames}
    BY <1>1, <1>3 DEF BitmapOnTrack
  <2>5. QED
    BY <2>1, <2>3, <2>4, <1>1, <1>6, <1>11, <1>14 DEF BitmapOnTrack
<1>18. Settled'
  BY <1>1, <1>2 DEF Settled
<1>19. phase' \notin {"up", "panic"} => free' = {}
  BY <1>1, <1>3, <1>6
<1>20. QED
  BY <1>1, <1>2, <1>12, <1>13, <1>15, <1>16, <1>17, <1>18, <1>19, StillSettled

\* The clear reaches the new frame, or went astray.
LEMMA ClearKeeps ==
  ASSUME IInv, Clear
  PROVE  IInv'
<1> DEFINE f == IF tlb[Temp] # NotSet THEN tlb[Temp] ELSE PagingVirtToPhys(mem, Temp)
<1>1. /\ ~stale /\ call # None /\ call.at = "clear"
      /\ mem' = Cleared(mem, f) /\ tlb' = [tlb EXCEPT ![Temp] = f] /\ stale' = (f # call.fresh)
      /\ call' = [call EXCEPT !.at = "link"]
      /\ UNCHANGED <<next, buffer, build, free, phase, asked>>
  BY DEF Clear, Running
<1>2. Settled /\ call \in CallType /\ call.level \in 0..3
  BY <1>1, CallFacts
<1>3. /\ Matching /\ CallOnTrack /\ BitmapOnTrack /\ TypeOK /\ TranslationsAgree
         /\ mem \in Contents
      /\ Tree(mem, PageDirectory, {Recursive}) /\ PageDirectory \in Frame
      /\ (phase \notin {"up", "panic"} => free = {})
  BY <1>1, <1>2, OnTrack
<1>4. f \in Frame \cup {NotSet, Device}
  <2>1. Temp \in Page /\ 4 = 3 + 1 /\ 3 \in 0..3
    BY OtherPages
  <2>2. PagingVirtToPhys(mem, Temp) \in Frame \cup {NotSet, Device}
    BY <2>1, <1>3, Reads, WalkType
  <2>3. tlb[Temp] \in Frame \cup {NotSet, Device}
    BY <1>3 DEF TypeOK
  <2>4. QED
    BY <2>2, <2>3
<1> HIDE DEF f
<1>5. mem' \in Contents
  <2>1. Empty \in [Index -> Frame \cup {NotSet, Device}]
    BY DEF Empty
  <2>2. QED
    BY <2>1, <1>1, <1>3 DEF Cleared, Contents
<1>6. tlb' \in [Clients \cup {Temp} -> Frame \cup {NotSet, Device}]
      /\ \A v \in Clients : tlb'[v] = tlb[v]
  <2>1. tlb \in [Clients \cup {Temp} -> Frame \cup {NotSet, Device}]
    BY <1>3 DEF TypeOK
  <2>2. Temp \notin Clients
    BY PagingAssumption, TopIs, OtherPages
  <2>3. QED
    BY <2>1, <2>2, <1>1, <1>4
<1>7. /\ call'.page = call.page /\ call'.level = call.level /\ call'.at = "link"
      /\ call'.fresh = call.fresh /\ call' \in CallType
  BY <1>1, <1>2 DEF CallType
<1>8. TypeOK'
  BY <1>1, <1>3, <1>5, <1>6, <1>7 DEF TypeOK, CallType, Contents
<1>9. TranslationsAgree'
  BY <1>1, <1>3, <1>6 DEF TranslationsAgree
<1>10. Settled'
  BY <1>1, <1>2 DEF Settled
<1>11. ASSUME ~stale'
       PROVE  Matching' /\ CallOnTrack' /\ BitmapOnTrack'
  <2>1. f = call.fresh /\ call.fresh \in Frame \ Now /\ mem' = Cleared(mem, call.fresh)
        /\ call.fresh \in Frame \ (Now \cup free)
    BY <1>1, <1>3, <1>11 DEF CallOnTrack
  <2>2. call.fresh \in Frame \ Tables(mem, PageDirectory, {Recursive})
    BY <2>1 DEF Now
  <2>3. /\ mem'[call.fresh] = Empty /\ \A t \in Frame \ {call.fresh} : mem'[t] = mem[t]
        /\ \A v \in Own({Recursive}) : \A l \in 0..4 :
             Walk(mem', PageDirectory, v, l) = Walk(mem, PageDirectory, v, l)
        /\ Tree(mem', PageDirectory, {Recursive})
        /\ Tables(mem', PageDirectory, {Recursive}) = Tables(mem, PageDirectory, {Recursive})
    BY <2>1, <2>2, <1>3, ClearFrame
  <2>4. Now' = Now
    BY <2>3 DEF Now
  <2>5. PageDirectory # call.fresh
    <3>1. Temp \in Own({Recursive}) /\ 0 \in 0..3
      BY Owned
    <3>2. Walk(mem, PageDirectory, Temp, 0) = PageDirectory /\ PageDirectory # NotSet
      BY <1>3, WalkSteps, Special
    <3>3. PageDirectory \in Now
      BY <3>1, <3>2, IsTable DEF Now
    <3>4. QED
      BY <3>3, <2>1
  <2>6. Temp \in Own({Recursive}) /\ KernelPage(PageDirectory) \in Own({Recursive})
        /\ \A v \in Tracked : v \in Own({Recursive})
    <3>1. PageDirectory \in 0..Top
      BY <1>1, <1>2, OnTrack
    <3>2. QED
      BY <3>1, Owned
  <2>7. Matching'
    <3>1. 2 \in 0..4 /\ 3 \in 0..4 /\ 4 \in 0..4
      OBVIOUS
    <3>2. Walk(mem', PageDirectory, Temp, 3) # NotSet
          /\ Walk(mem', PageDirectory, KernelPage(PageDirectory), 2) # NotSet
      BY <3>1, <2>3, <2>6, <1>3 DEF Matching, RootWalk
    <3>3. \A v \in Tracked : Walk(mem', PageDirectory, v, 4) = asked'[v]
      BY <3>1, <2>3, <2>6, <1>1, <1>3 DEF Matching, RootWalk
    <3>4. mem'[PageDirectory][Recursive] = PageDirectory /\ Now' \cap free' = {}
      BY <2>3, <2>4, <2>5, <1>1, <1>3 DEF Matching
    <3>5. QED
      BY <3>2, <3>3, <3>4, <2>3 DEF Matching, RootWalk
  <2>8. CallOnTrack'
    <3>1. call.level <= 2 /\ RootWalk(call.page, call.level) # NotSet
          /\ RootWalk(call.page, call.level + 1) = NotSet
      BY <1>1, <1>3 DEF CallOnTrack
    <3>2. call.level \in 0..4 /\ call.level + 1 \in 0..4 /\ call.page \in Own({Recursive})
      BY <3>1, <1>1, <1>2, CallFacts
    <3>3. Walk(mem', PageDirectory, call.page, call.level) # NotSet
          /\ Walk(mem', PageDirectory, call.page, call.level + 1) = NotSet
      BY <3>1, <3>2, <2>3 DEF RootWalk
    <3>4. QED
      BY <3>1, <3>3, <2>1, <2>3, <2>4, <1>1, <1>7 DEF CallOnTrack, RootWalk
  <2>9. BitmapOnTrack'
    <3>1. buffer + BitmapPages <= Top /\ buffer \in Nat
      BY <1>1, <1>2, OnTrack
    <3>2. \A v \in Own({Recursive}) : \A l \in 0..3 :
            Walk(mem', PageDirectory, v, l) = Walk(mem, PageDirectory, v, l)
      <4>1. \A l \in 0..3 : l \in 0..4
        OBVIOUS
      <4>2. QED
        BY <4>1, <2>3
    <3>3. /\ OneTableMissing => OneTableMissing'
          /\ \A g \in BitmapFrames : RootWalk(KernelPage(g), 3)' = RootWalk(KernelPage(g), 3)
      BY <3>1, <3>2, <1>1, BitmapTablesKept
    <3>4. BitmapFrames' = BitmapFrames
      BY <1>1 DEF BitmapFrames
    <3>5. NoTableMissing => NoTableMissing'
      BY <3>3, <3>4, <1>1, <1>7, CallsAreSome DEF NoTableMissing
    <3>6. QED
      BY <3>3, <3>4, <3>5, <2>4, <1>1, <1>3, <1>7 DEF BitmapOnTrack
  <2>10. QED
    BY <2>7, <2>8, <2>9
<1>12. QED
  BY <1>1, <1>2, <1>3, <1>8, <1>9, <1>10, <1>11, StillSettled

\* The new table is linked where there was none.
LEMMA LinkKeeps ==
  ASSUME IInv, Link
  PROVE  IInv'
<1> DEFINE x == call.fresh
           p == call.page
           k == call.level
<1>1. /\ ~stale /\ call # None /\ call.at = "link"
      /\ mem' = [mem EXCEPT ![Here][HereIndex] = x]
      /\ call' = [call EXCEPT !.at = "walk", !.level = k + 1, !.fresh = NotSet]
      /\ UNCHANGED <<next, buffer, build, free, phase, tlb, asked, stale>>
  BY DEF Link, Running
<1>2. /\ Settled /\ call \in CallType /\ p \in Own({Recursive}) /\ k \in 0..3
      /\ Here = Walk(mem, PageDirectory, p, k) /\ HereIndex = p[k + 1]
      /\ Ready(mem, PageDirectory, {Recursive}, p, k)
  BY <1>1, CallFacts
<1>3. /\ Matching /\ CallOnTrack /\ BitmapOnTrack /\ TypeOK /\ TranslationsAgree
         /\ mem \in Contents
      /\ PageDirectory \in Frame /\ buffer + BitmapPages <= Top /\ buffer \in 0..Top
         /\ Ram \in Nat /\ Top \in 0..Ram
      /\ BitmapPages \in Nat
      /\ (phase \notin {"up", "panic"} => free = {})
  BY <1>1, <1>2, OnTrack
<1>4. k <= 2 /\ Walk(mem, PageDirectory, p, k + 1) = NotSet /\ x \in Frame \ (Now \cup free)
      /\ mem[x] = Empty
  BY <1>1, <1>3 DEF CallOnTrack, RootWalk
<1>5. phase = "bitmap" =>
        /\ k = 2 /\ x < buffer
        /\ \A g \in BitmapFrames : RootWalk(KernelPage(g), 3) # NotSet \/ KernelPage(g)[3] = p[3]
  <2> SUFFICES ASSUME phase = "bitmap"
               PROVE  /\ k = 2 /\ x < buffer
                      /\ \A g \in BitmapFrames :
                           RootWalk(KernelPage(g), 3) # NotSet \/ KernelPage(g)[3] = p[3]
    OBVIOUS
  <2>1. k \in 0..2
    BY <1>2, <1>4
  <2>2. x < buffer
    BY <1>1, <1>3 DEF BitmapOnTrack
  <2>3. QED
    BY <2>1, <2>2, <1>1, <1>4, MissingInBitmap
<1>6. /\ call'.page = p /\ call'.level = k + 1 /\ call'.at = "walk" /\ call' \in CallType
  <2>1. k + 1 \in 0..3
    BY <1>2, <1>4
  <2> HIDE DEF k
  <2>2. QED
    BY <2>1, <1>1, <1>2 DEF CallType
<1>7. Temp \in Own({Recursive}) /\ KernelPage(PageDirectory) \in Own({Recursive})
      /\ \A v \in Tracked : v \in Own({Recursive})
  <2>1. PageDirectory \in 0..Top
    BY <1>1, <1>2, OnTrack
  <2>2. QED
    BY <2>1, Owned
<1>8. k \in 0..2 /\ k + 1 \in 0..3 /\ k + 1 # 4 /\ 4 \in 0..4
  BY <1>2, <1>4
<1>9. mem' = [mem EXCEPT ![Walk(mem, PageDirectory, p, k)][p[k + 1]] = x]
  BY <1>1, <1>2
<1>10. x \in Frame \ Tables(mem, PageDirectory, {Recursive})
  BY <1>4 DEF Now
<1> HIDE DEF k, p, x
<1>11. Entered(mem, mem', PageDirectory, {Recursive}, p, k, x)
  BY <1>2, <1>4, <1>9, <1>10, SetTable
<1>12. /\ Tree(mem', PageDirectory, {Recursive})
       /\ Tables(mem', PageDirectory, {Recursive}) \subseteq Now \cup {x}
       /\ \A v \in Own({Recursive}) : \A l \in 0..3 :
            Walk(mem, PageDirectory, v, l) # NotSet =>
              Walk(mem', PageDirectory, v, l) = Walk(mem, PageDirectory, v, l)
       /\ Walk(mem', PageDirectory, p, k + 1) = x
       /\ mem' \in Contents
  <2>1. SetsEntry(mem, mem', PageDirectory, {Recursive}, p, k, x) /\ mem' \in Contents
    BY <1>11 DEF Entered
  <2>2. /\ Tree(mem', PageDirectory, {Recursive})
        /\ Tables(mem', PageDirectory, {Recursive})
             \subseteq Tables(mem, PageDirectory, {Recursive}) \cup (IF k < 3 THEN {x} ELSE {})
        /\ \A v \in Own({Recursive}) : \A l \in 0..3 :
             Walk(mem, PageDirectory, v, l) # NotSet =>
               Walk(mem', PageDirectory, v, l) = Walk(mem, PageDirectory, v, l)
        /\ Walk(mem', PageDirectory, p, k + 1) = x
    BY <2>1, TreeAfter
  <2>3. QED
    BY <2>1, <2>2 DEF Now
<1>13. \A v \in Own({Recursive}) : Walk(mem', PageDirectory, v, 4) = Walk(mem, PageDirectory, v, 4)
  <2>1. SetsEntry(mem, mem', PageDirectory, {Recursive}, p, k, x)
    BY <1>11 DEF Entered
  <2>2. \A v \in Own({Recursive}) : \A l \in 0..4 :
          Walk(mem', PageDirectory, v, l) =
            IF l = k + 1 /\ Agree(v, p, l) THEN x ELSE Walk(mem, PageDirectory, v, l)
    BY <2>1, WalkAfter
  <2>3. QED
    BY <2>2, <1>8
<1>14. mem'[PageDirectory][Recursive] = PageDirectory
  <2> DEFINE X == {Recursive}
  <2>1. Recursive \in X \cap Index
    BY Special
  <2>2. Entered(mem, mem', PageDirectory, X, p, k, x)
    BY <1>11
  <2> HIDE DEF X
  <2>3. mem'[PageDirectory][Recursive] = mem[PageDirectory][Recursive]
    BY <2>1, <2>2, <1>3, RootEntryKept
  <2>4. QED
    BY <2>3, <1>3 DEF Matching
<1>15. TypeOK'
  BY <1>1, <1>3, <1>6, <1>12 DEF TypeOK, CallType, Contents
<1>16. TranslationsAgree'
  BY <1>1, <1>3 DEF TranslationsAgree
<1>17. Matching'
  <2>1. Walk(mem', PageDirectory, Temp, 3) # NotSet
        /\ Walk(mem', PageDirectory, KernelPage(PageDirectory), 2) # NotSet
    BY <1>3, <1>7, <1>12 DEF Matching, RootWalk
  <2>2. \A v \in Tracked : Walk(mem', PageDirectory, v, 4) = asked'[v]
    BY <1>1, <1>3, <1>7, <1>13 DEF Matching, RootWalk
  <2>3. Now' \cap free' = {}
    BY <1>1, <1>3, <1>4, <1>12 DEF Matching, Now
  <2>4. QED
    BY <2>1, <2>2, <2>3, <1>12, <1>14 DEF Matching, RootWalk
<1>18. x # NotSet
  BY <1>4, Special
<1>19. CallOnTrack'
  BY <1>6, <1>12, <1>18 DEF CallOnTrack, RootWalk
<1>20. BitmapOnTrack'
  <2> SUFFICES ASSUME phase = "bitmap"
               PROVE  BitmapOnTrack'
    BY <1>1 DEF BitmapOnTrack
  <2>1. BitmapFrames \subseteq 0..Top /\ BitmapFrames' = BitmapFrames
    BY <1>1, <1>3 DEF BitmapFrames
  <2>2. p \in {KernelPage(g) : g \in BitmapFrames} /\ Now \subseteq 0..(buffer - 1)
    BY <1>1, <1>3 DEF BitmapOnTrack, p
  <2>3. ASSUME NEW g \in BitmapFrames
        PROVE  Walk(mem', PageDirectory, KernelPage(g), 3) # NotSet
    <3>1. g \in 0..Top /\ KernelPage(g) \in Own({Recursive})
      BY <2>1, Owned
    <3>2. CASE RootWalk(KernelPage(g), 3) # NotSet
      BY <3>1, <3>2, <1>12 DEF RootWalk
    <3>3. CASE KernelPage(g)[3] = p[3]
      <4>1. p[1] = KernelPage(g)[1] /\ p[2] = KernelPage(g)[2]
        BY <2>1, <2>2, <3>1, KernelPageIs
      <4>2. \A j \in 1..3 : j = 1 \/ j = 2 \/ j = 3
        OBVIOUS
      <4>3. Agree(KernelPage(g), p, 3) /\ 3 \in 0..4
        BY <4>1, <4>2, <3>3 DEF Agree
      <4>4. Walk(mem', PageDirectory, KernelPage(g), 3) = Walk(mem', PageDirectory, p, 3)
        BY <4>3, SameWay
      <4>5. k + 1 = 3
        BY <1>5
      <4>6. QED
        BY <4>4, <4>5, <1>12, <1>18
    <3>4. QED
      BY <3>2, <3>3, <1>5
  <2>4. NoTableMissing'
    BY <2>1, <2>3 DEF NoTableMissing, RootWalk
  <2>5. Now' \subseteq 0..(buffer - 1)
    <3>1. x \in 0..(buffer - 1)
      BY <1>3, <1>4, <1>5 DEF Frame
    <3>2. QED
      BY <3>1, <2>2, <1>12 DEF Now
  <2>6. QED
    BY <2>1, <2>2, <2>4, <2>5, <1>1, <1>6 DEF BitmapOnTrack
<1>21. Settled'
  BY <1>1, <1>2 DEF Settled
<1>22. QED
  BY <1>1, <1>2, <1>3, <1>15, <1>16, <1>17, <1>19, <1>20, <1>21, StillSettled

-----------------------------------------------------------------------------
(* The invariant holds. *)

\* A stutter.
LEMMA Unchanged ==
  ASSUME IInv, UNCHANGED vars
  PROVE  IInv'
<1>1. tlb' \in [Clients \cup {Temp} -> Frame \cup {NotSet, Device}] /\ TranslationsAgree'
  BY DEF vars, IInv, TypeOK, TranslationsAgree
<1>2. QED
  BY <1>1, TranslationsChange DEF vars

\* The invariant is inductive.
LEMMA EveryStep ==
  ASSUME BitmapPages <= Fan, IInv, [Next]_vars
  PROVE  IInv'
BY CopyRootKeeps, SetNewTableKeeps, MapImageKeeps, MapVideoKeeps, NextHeapTableKeeps,
   MapTablesKeeps, PagingInitializeKeeps, OverrunKeeps, MapBitmapKeeps, InitializedKeeps,
   PagingMapPageKeeps, DescendKeeps, GetNewPageKeeps, OutOfMemoryKeeps, ClearKeeps, LinkKeeps,
   SetPageKeeps, PagingUnmapPageKeeps, FillKeeps, EvictKeeps, Unchanged DEF Next

\* While PagingInitialize sets entry after entry in its copy of the root, after it has copied the
\* root back, and while PagingMapPage adds tables and pages through the temporary page, the tables
\* are one tree of distinct frames, the pages read what was asked of them, and no table is free:
\* the invariant all the properties follow from.  The hypothesis is that the bitmap's pages need
\* at most one table more than there is when PagingInitialize returns; it holds of the code up to
\* 64 GiB of memory, and without it GetNewPage hands out frames that are tables already.
THEOREM TreeOfTables ==
  ASSUME BitmapPages <= Fan
  PROVE  Spec => []IInv
<1>1. Init => IInv
  BY BeforeTheStart
<1>2. IInv /\ [Next]_vars => IInv'
  BY EveryStep
<1>3. QED
  BY <1>1, <1>2, PTL DEF Spec

-----------------------------------------------------------------------------
(* What the invariant says of the properties. *)

\* l is the entry that leads from a table of level k to one of the next.
LinkAt(l, k) ==
  \E v \in Own({Recursive}) :
    /\ l = <<Walk(mem, PageDirectory, v, k), v[k + 1]>>
    /\ Walk(mem, PageDirectory, v, k) \in Frame /\ Walk(mem, PageDirectory, v, k + 1) # NotSet
    /\ mem[l[1]][l[2]] = Walk(mem, PageDirectory, v, k + 1)

IsLink(l) == LinkAt(l, 0) \/ LinkAt(l, 1) \/ LinkAt(l, 2)

\* An entry that is set in a table leads on.
LEMMA LeadsOn ==
  ASSUME NEW v \in Own({Recursive}), NEW k \in 0..2, NEW i \in Index, k = 0 => i # Recursive,
         Entry(mem, Walk(mem, PageDirectory, v, k), i) # NotSet
  PROVE  LinkAt(<<Walk(mem, PageDirectory, v, k), i>>, k)
<1> DEFINE w == IF k = 0 THEN <<i, v[2], v[3], v[4]>>
                ELSE IF k = 1 THEN <<v[1], i, v[3], v[4]>>
                ELSE <<v[1], v[2], i, v[4]>>
           t == Walk(mem, PageDirectory, v, k)
<1>1. k = 0 \/ k = 1 \/ k = 2
  OBVIOUS
<1>2. v[1] \in Index /\ v[2] \in Index /\ v[3] \in Index /\ v[4] \in Index /\ v[1] # Recursive
  BY DEF Own, Page
<1>3. w \in Own({Recursive}) /\ w[k + 1] = i /\ Agree(w, v, k)
  <2>1. CASE k = 0
    BY <2>1, <1>2 DEF Own, Page, Agree
  <2>2. CASE k = 1
    <3>1. w = <<v[1], i, v[3], v[4]>>
      BY <2>2
    <3> HIDE DEF w
    <3>2. w[1] = v[1] /\ w[2] = i
      BY <3>1
    <3>3. w \in Own({Recursive})
      BY <3>1, <1>2 DEF Own, Page
    <3>4. Agree(w, v, 1)
      BY <3>2 DEF Agree
    <3>5. QED
      BY <2>2, <3>2, <3>3, <3>4
  <2>3. CASE k = 2
    <3>1. w = <<v[1], v[2], i, v[4]>>
      BY <2>3
    <3> HIDE DEF w
    <3>2. w[1] = v[1] /\ w[2] = v[2] /\ w[3] = i
      BY <3>1
    <3>3. w \in Own({Recursive})
      BY <3>1, <1>2 DEF Own, Page
    <3>4. \A j \in 1..2 : j = 1 \/ j = 2
      OBVIOUS
    <3>5. Agree(w, v, 2)
      BY <3>2, <3>4 DEF Agree
    <3>6. QED
      BY <2>3, <3>2, <3>3, <3>5
  <2>4. QED
    BY <1>1, <2>1, <2>2, <2>3
<1> HIDE DEF w
<1>4. Walk(mem, PageDirectory, w, k) = t
  <2>1. k \in 0..4
    OBVIOUS
  <2>2. QED
    BY <2>1, <1>3, SameWay
<1>5. Walk(mem, PageDirectory, w, k + 1) = Entry(mem, t, i)
  <2>1. k \in 0..3
    OBVIOUS
  <2>2. QED
    BY <2>1, <1>3, <1>4, WalkSteps
<1>6. t \in Frame /\ mem[t][i] = Entry(mem, t, i)
  BY DEF Entry
<1> HIDE DEF t
<1>7. Entry(mem, t, i) # NotSet
  BY DEF t
<1> DEFINE l == <<t, i>>
<1>8. l[1] = t /\ l[2] = i
  OBVIOUS
<1>9. l = <<Walk(mem, PageDirectory, w, k), w[k + 1]>>
  BY <1>3, <1>4
<1> HIDE DEF l
<1>10. LinkAt(l, k)
  BY <1>3, <1>4, <1>5, <1>6, <1>7, <1>8, <1>9 DEF LinkAt
<1>11. QED
  BY <1>10 DEF l, t

\* The entries that lead to tables are entries of walks.
LEMMA LinksAre ==
  ASSUME IInv, Settled, ~stale
  PROVE  Links \subseteq Frame \X Index /\ \A l \in Links : IsLink(l)
<1> DEFINE Below(ts) == {l \in ts \X Index : Entry(mem, l[1], l[2]) # NotSet}
                          \ {<<PageDirectory, Recursive>>}
           To(ls) == {mem[l[1]][l[2]] : l \in ls}
           Roots == Below({PageDirectory})
           Middle == Below(To(Roots))
           Leaves == Below(To(Middle))
           W(v, k) == Walk(mem, PageDirectory, v, k)
<1>1. Links = Roots \cup Middle \cup Leaves
  BY DEF Links
<1>2. PageDirectory \in Frame /\ Tree(mem, PageDirectory, {Recursive})
      /\ Temp \in Own({Recursive})
      /\ W(Temp, 0) = PageDirectory
  BY OnTrack, Owned, WalkSteps
<1>3. ASSUME NEW k \in 0..2, NEW ts, NEW l \in Below(ts), k = 0 <=> ts = {PageDirectory},
             \A t \in ts : \E v \in Own({Recursive}) : W(v, k) = t,
             PageDirectory \in ts => k = 0
      PROVE  LinkAt(l, k)
  <2>1. PICK t \in ts, i \in Index : l = <<t, i>>
    OBVIOUS
  <2>2. Entry(mem, t, i) # NotSet /\ l # <<PageDirectory, Recursive>>
    BY <2>1
  <2>3. PICK v \in Own({Recursive}) : W(v, k) = t
    BY <2>1, <1>3
  <2>4. k = 0 => i # Recursive
    <3>1. k = 0 => t = PageDirectory
      BY <2>1, <1>3
    <3>2. QED
      BY <3>1, <2>1, <2>2
  <2>5. Entry(mem, Walk(mem, PageDirectory, v, k), i) # NotSet
    BY <2>2, <2>3
  <2>6. LinkAt(<<Walk(mem, PageDirectory, v, k), i>>, k)
    BY <2>4, <2>5, LeadsOn
  <2>7. QED
    BY <2>1, <2>3, <2>6
<1>4. ASSUME NEW k \in 0..2, NEW ls, \A l \in ls : LinkAt(l, k)
      PROVE  /\ \A t \in To(ls) : \E v \in Own({Recursive}) : W(v, k + 1) = t
             /\ PageDirectory \notin To(ls)
  <2>1. \A t \in To(ls) : \E v \in Own({Recursive}) : W(v, k + 1) = t /\ t # NotSet
    BY <1>4 DEF LinkAt
  <2>2. ASSUME NEW v \in Own({Recursive}), W(v, k + 1) = PageDirectory
        PROVE  FALSE
    <3>1. k + 1 \in 0..3 /\ 0 \in 0..3 /\ k + 1 # 0
      OBVIOUS
    <3>2. PageDirectory # NotSet
      BY <1>2, Special
    <3>3. Walk(mem, PageDirectory, v, k + 1) = Walk(mem, PageDirectory, Temp, 0)
          /\ Walk(mem, PageDirectory, v, k + 1) # NotSet
      BY <2>2, <3>2, <1>2
    <3>4. QED
      BY <3>1, <3>3, <1>2 DEF Tree
  <2>3. QED
    BY <2>1, <2>2
<1>5. \A l \in Roots : LinkAt(l, 0)
  <2> DEFINE root == {PageDirectory}
             k == 0
  <2>1. /\ k = 0 <=> root = {PageDirectory}
        /\ \A t \in root : \E v \in Own({Recursive}) : W(v, k) = t
        /\ PageDirectory \in root => k = 0
        /\ k \in 0..2
    BY <1>2
  <2> HIDE DEF root, k, Below, W
  <2>2. \A l \in Below(root) : LinkAt(l, k)
    BY <2>1, <1>3
  <2>3. QED
    BY <2>2 DEF root, k
<1>6. /\ \A t \in To(Roots) : \E v \in Own({Recursive}) : W(v, 1) = t
      /\ PageDirectory \notin To(Roots)
  <2>1. 0 \in 0..2 /\ 0 + 1 = 1
    OBVIOUS
  <2> HIDE DEF Roots, To, W
  <2>2. QED
    BY <2>1, <1>4, <1>5
<1>7. \A l \in Middle : LinkAt(l, 1)
  <2> DEFINE ts == To(Roots)
             k == 1
  <2>1. /\ k = 0 <=> ts = {PageDirectory}
        /\ \A t \in ts : \E v \in Own({Recursive}) : W(v, k) = t
        /\ PageDirectory \in ts => k = 0
        /\ k \in 0..2
    <3> HIDE DEF Roots, To, W
    <3>1. QED
      BY <1>6
  <2> HIDE DEF ts, k, Below, W
  <2>2. \A l \in Below(ts) : LinkAt(l, k)
    BY <2>1, <1>3
  <2>3. QED
    BY <2>2 DEF ts, k
<1>8. /\ \A t \in To(Middle) : \E v \in Own({Recursive}) : W(v, 2) = t
      /\ PageDirectory \notin To(Middle)
  <2>1. 1 \in 0..2 /\ 1 + 1 = 2
    OBVIOUS
  <2> HIDE DEF Middle, To, W
  <2>2. QED
    BY <2>1, <1>4, <1>7
<1>9. \A l \in Leaves : LinkAt(l, 2)
  <2> DEFINE ts == To(Middle)
             k == 2
  <2>1. /\ k = 0 <=> ts = {PageDirectory}
        /\ \A t \in ts : \E v \in Own({Recursive}) : W(v, k) = t
        /\ PageDirectory \in ts => k = 0
        /\ k \in 0..2
    <3> HIDE DEF Middle, To, W
    <3>1. QED
      BY <1>8
  <2> HIDE DEF ts, k, Below, W
  <2>2. \A l \in Below(ts) : LinkAt(l, k)
    BY <2>1, <1>3
  <2>3. QED
    BY <2>2 DEF ts, k
<1> HIDE DEF Roots, Middle, Leaves, To, W, Below
<1>10. \A l \in Links : IsLink(l)
  BY <1>1, <1>5, <1>7, <1>9 DEF IsLink
<1>11. ASSUME NEW k \in 0..2, NEW l, LinkAt(l, k)
       PROVE  l \in Frame \X Index
  <2>1. PICK v \in Own({Recursive}) : l = <<Walk(mem, PageDirectory, v, k), v[k + 1]>>
                                      /\ Walk(mem, PageDirectory, v, k) \in Frame
    BY <1>11 DEF LinkAt
  <2>2. v[k + 1] \in Index
    BY DEF Own, Page
  <2>3. QED
    BY <2>1, <2>2
<1>12. 0 \in 0..2 /\ 1 \in 0..2 /\ 2 \in 0..2
  OBVIOUS
<1>13. \A l \in Links : l \in Frame \X Index
  BY <1>10, <1>11, <1>12 DEF IsLink
<1>14. QED
  BY <1>10, <1>13

\* Two entries do not lead to the same table.
LEMMA LinksApart ==
  ASSUME Tree(mem, PageDirectory, {Recursive}),
         NEW k \in 0..2, NEW l, LinkAt(l, k), NEW j \in 0..2, NEW n, LinkAt(n, j),
         mem[l[1]][l[2]] = mem[n[1]][n[2]]
  PROVE  l = n
<1>1. PICK v \in Own({Recursive}) :
        /\ l = <<Walk(mem, PageDirectory, v, k), v[k + 1]>>
        /\ Walk(mem, PageDirectory, v, k + 1) # NotSet
        /\ mem[l[1]][l[2]] = Walk(mem, PageDirectory, v, k + 1)
  BY DEF LinkAt
<1>2. PICK w \in Own({Recursive}) :
        /\ n = <<Walk(mem, PageDirectory, w, j), w[j + 1]>>
        /\ mem[n[1]][n[2]] = Walk(mem, PageDirectory, w, j + 1)
  BY DEF LinkAt
<1>3. k + 1 \in 0..3 /\ j + 1 \in 0..3 /\ k \in 0..3 /\ k \in 0..4
  OBVIOUS
<1>4. k + 1 = j + 1 /\ Agree(v, w, k + 1)
  BY <1>1, <1>2, <1>3 DEF Tree
<1>5. k = j
  BY <1>4
<1>6. Agree(v, w, k) /\ v[k + 1] = w[k + 1]
  BY <1>3, <1>4, AgreeStep
<1>7. Walk(mem, PageDirectory, v, k) = Walk(mem, PageDirectory, w, k)
  BY <1>3, <1>6, SameWay
<1>8. QED
  BY <1>1, <1>2, <1>5, <1>6, <1>7

\* What an entry leads to is a table, and not the root.
LEMMA LinksLead ==
  ASSUME Tree(mem, PageDirectory, {Recursive}), PageDirectory # NotSet,
         NEW k \in 0..2, NEW l, LinkAt(l, k)
  PROVE  mem[l[1]][l[2]] \in Now \ {PageDirectory}
<1>1. PICK v \in Own({Recursive}) :
        /\ Walk(mem, PageDirectory, v, k + 1) # NotSet
        /\ mem[l[1]][l[2]] = Walk(mem, PageDirectory, v, k + 1)
  BY DEF LinkAt
<1>2. k + 1 \in 0..3 /\ 0 \in 0..3 /\ k + 1 # 0
      /\ Walk(mem, PageDirectory, v, 0) = PageDirectory
  BY WalkSteps
<1>3. Walk(mem, PageDirectory, v, k + 1) \in Now
  BY <1>1, <1>2, IsTable DEF Now
<1>4. Walk(mem, PageDirectory, v, k + 1) # Walk(mem, PageDirectory, v, 0)
  BY <1>1, <1>2 DEF Tree
<1>5. QED
  BY <1>1, <1>2, <1>3, <1>4

\* In a tree every table has one entry that leads to it.
LEMMA ApartByTheInvariant ==
  ASSUME IInv
  PROVE  TablesApart
<1> DEFINE to(l) == mem[l[1]][l[2]]
           tables == {to(l) : l \in Links}
<1> SUFFICES ASSUME Settled, ~stale
             PROVE  /\ Cardinality(tables) = Cardinality(Links)
                    /\ tables \cap (free \cup {PageDirectory}) = {}
                    /\ call # None /\ call.at = "clear" => call.fresh \notin tables
                    /\ Entry(mem, PageDirectory, Recursive) = PageDirectory
  BY DEF TablesApart
<1>1. /\ Matching /\ CallOnTrack /\ Tree(mem, PageDirectory, {Recursive})
      /\ PageDirectory # NotSet /\ PageDirectory \in Frame /\ Ram \in Nat /\ Top \in 0..Ram
      /\ Fan \in Nat
  BY OnTrack, PagingAssumption, TopIs
<1>2. Links \subseteq Frame \X Index /\ \A l \in Links : IsLink(l)
  BY LinksAre
<1>3. 0 \in 0..2 /\ 1 \in 0..2 /\ 2 \in 0..2
  OBVIOUS
<1>4. \A l \in Links : \E k \in 0..2 : LinkAt(l, k)
  BY <1>2, <1>3 DEF IsLink
<1>5. tables \subseteq Now \ {PageDirectory}
  <2>1. \A l \in Links : to(l) \in Now \ {PageDirectory}
    BY <1>1, <1>4, LinksLead
  <2> HIDE DEF to
  <2>2. QED
    BY <2>1
<1>6. \A l, n \in Links : to(l) = to(n) => l = n
  BY <1>1, <1>4, LinksApart
<1> HIDE DEF to
<1>7. IsFiniteSet(Links)
  <2>1. IsFiniteSet(Frame) /\ IsFiniteSet(Index)
    <3>1. 0 \in Int /\ Ram - 1 \in Int /\ Fan - 1 \in Int
      BY <1>1
    <3>2. QED
      BY <3>1, FS_Interval DEF Frame, Index
  <2>2. IsFiniteSet(Frame \X Index)
    BY <2>1, FS_Product
  <2>3. QED
    BY <2>2, <1>2, FS_Subset
<1>8. Cardinality(tables) = Cardinality(Links)
  <2> DEFINE g == [l \in Links |-> to(l)]
  <2>1. g \in [Links -> tables] /\ (\A l, n \in Links : g[l] = g[n] => l = n)
        /\ \A t \in tables : \E l \in Links : g[l] = t
    BY <1>6
  <2> HIDE DEF g, tables
  <2>2. ExistsBijection(Links, tables)
    BY <2>1 DEF ExistsBijection, Bijection, Injection, Surjection, IsInjective
  <2>3. QED
    BY <2>2, <1>7, FS_Bijection
<1> HIDE DEF tables
<1>9. tables \cap (free \cup {PageDirectory}) = {}
  BY <1>1, <1>5 DEF Matching
<1>10. call # None /\ call.at = "clear" => call.fresh \notin tables
  BY <1>1, <1>5 DEF CallOnTrack
<1>11. Entry(mem, PageDirectory, Recursive) = PageDirectory
  BY <1>1 DEF Matching, Entry
<1>12. QED
  BY <1>8, <1>9, <1>10, <1>11

\* The other properties are parts of the invariant.
LEMMA MatchByTheInvariant ==
  ASSUME IInv
  PROVE  TablesMatch /\ TLBAgrees /\ TypeOK
<1>1. TLBAgrees /\ TypeOK
  BY DEF IInv, TranslationsAgree, TLBAgrees
<1>2. TablesMatch
  <2> SUFFICES ASSUME Settled, ~stale, NEW v \in Tracked
               PROVE  PagingVirtToPhys(mem, v) = asked[v]
    BY DEF TablesMatch
  <2>1. Matching
    BY OnTrack
  <2>2. QED
    BY <2>1, Reads DEF Matching, RootWalk
<1>3. QED
  BY <1>1, <1>2

-----------------------------------------------------------------------------

\* However large the tables, memory, the image and the heap are, PagingInitialize and the calls
\* after it write frames, devices and empty entries only, and go down four levels and no further.
THEOREM PagingTypeCorrect ==
  ASSUME BitmapPages <= Fan
  PROVE  Spec => []TypeOK
<1>1. IInv => TypeOK
  BY MatchByTheInvariant
<1>2. QED
  BY <1>1, TreeOfTables, PTL

\* Whatever is mapped and unmapped, between calls PagingVirtToPhys says of every page what the last
\* PagingMapPage or PagingUnmapPage that succeeded asked; from PagingInitialize on the image and
\* the tables stand at their kernel addresses and nothing else does.
THEOREM TablesAreRight ==
  ASSUME BitmapPages <= Fan
  PROVE  Spec => []TablesMatch
<1>1. IInv => TablesMatch
  BY MatchByTheInvariant
<1>2. QED
  BY <1>1, TreeOfTables, PTL

\* PagingMapPage and PagingUnmapPage invalidate what they change: between calls the processor holds
\* no translation of a page that was unmapped or mapped anew since.
THEOREM TranslationsAreRight ==
  ASSUME BitmapPages <= Fan
  PROVE  Spec => []TLBAgrees
<1>1. IInv => TLBAgrees
  BY MatchByTheInvariant
<1>2. QED
  BY <1>1, TreeOfTables, PTL

\* No two entries lead to one table, PhysAlloc does not return a table, GetNewPage clears none,
\* and the root stays reachable through its recursive entry: from the end of PagingInitialize on,
\* for every size, until a clear goes through an old translation.
THEOREM TablesStayApart ==
  ASSUME BitmapPages <= Fan
  PROVE  Spec => []TablesApart
<1>1. IInv => TablesApart
  BY ApartByTheInvariant
<1>2. QED
  BY <1>1, TreeOfTables, PTL
=============================================================================
