----------------------------- MODULE MCKTextMode -----------------------------
(* A screen of three rows of two cells, one glyph besides the space, and    *)
(* one colour besides the first: bit 0 is the kernel's gray, bit 6 red.     *)
(* <<3, 9>> is clamped to the farthest position, two rows behind the last.  *)
EXTENDS KTextMode

MCGlyphs == {"a", Space}
MCPlain == {0}
MCForeColors == {{0}}
MCBackColors == {{6}}
MCPlaces == {<<1, 0>>, <<3, 9>>}
MCTexts == {<<>>, <<"a", Newline>>}
=============================================================================
