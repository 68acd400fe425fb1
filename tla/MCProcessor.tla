---------------------------- MODULE MCProcessor ----------------------------
(* Processor with counters of a few ticks and the boundary frequencies:     *)
(* 100 Hz, whose divisor's low byte selects counter 2; 4660 Hz, whose       *)
(* low byte is 0; and 65536 Hz, a word of 0.                                *)
EXTENDS Processor

MCSpans == {0, 1, 60000}
MCFreqs == {0, 100, 4660, 65536}
MCModes == {0, 4}
MCApicIds == {0, 1}
=============================================================================
