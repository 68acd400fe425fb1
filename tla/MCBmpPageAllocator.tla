------------------------- MODULE MCBmpPageAllocator -------------------------
(* A machine of 15 pages of 4 bytes, dwords of 4 bits, bytes of 2; one more *)
(* dword of storage can be reached behind the bitmap.                       *)
EXTENDS BmpPageAllocator

Entry(base, len, ram) == [base |-> base, len |-> len, ram |-> ram]

\* Low RAM whose last page is partly reserved, a hole, RAM whose last page is partly a
\* hole, and a reserved end.
Machine == <<Entry(0, 10, TRUE), Entry(10, 2, FALSE), Entry(16, 38, TRUE), Entry(56, 4, FALSE)>>
MCMaps == {Machine}
MCLowMem == <<4, 4>>
MCKernel == <<44, 4>>
MCWindow == 20
MCContents == {{}, 0..(MCWindow - 1)}
=============================================================================
