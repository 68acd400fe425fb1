------------------------------ MODULE MCPaging ------------------------------
(* Paging with five entries a table: a page of the heap, two pages behind   *)
(* the heap's table, the null page, and kernel images that end just before  *)
(* a table is full or well inside one, the two largest of which leave no    *)
(* room for the tables or for the bitmap.                                   *)
EXTENDS Paging

MCImageSizes == {2, 3, 6, 12}
MCClients == {<<Heap, 0, 0, 0>>, <<Heap, 0, 1, 0>>, <<0, 0, 0, 0>>}
MCTargets == {0, Device}
=============================================================================
