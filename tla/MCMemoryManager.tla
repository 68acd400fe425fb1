--------------------------- MODULE MCMemoryManager ---------------------------
(* A machine of 7 frames, the first reserved, and a pool of 7 pages.        *)
EXTENDS MemoryManager

MCFrame == 0..6
MCReserved == {0}
=============================================================================
