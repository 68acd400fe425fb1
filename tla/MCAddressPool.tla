---------------------------- MODULE MCAddressPool ----------------------------
(* The pool with the proportions of the kernel's: a page count in bytes     *)
(* wraps after 8 pages (2^20 in the kernel), and the area is a multiple of  *)
(* that, two wraps of pages as the kernel's 2^27 pages are 2^7 wraps.       *)
EXTENDS AddressPool

MCPageSize == 4
MCDWord == 32
MCAddressSpace == 256
PagesToBytes(n) == n * MCPageSize
Kernel == <<64, 64 + PagesToBytes(16) - 1>>
Skewed == <<66, 66 + PagesToBytes(2) - 1>>    \* start not aligned
Ragged == <<64, 64 + PagesToBytes(2)>>        \* length not aligned
AreasKernel == {Kernel, Skewed, Ragged}
\* Two areas of which the second begins where the first ends.
AreasAdjacent == {<<64, 71>>, <<72, 79>>}
AlignedAddresses == {PagesToBytes(i) : i \in 16..24}
PoolSymmetry == Permutations(Pools)
=============================================================================
