------------------------------ MODULE KTextMode ------------------------------
(***************************************************************************)
(* The text screen (src/kernel/KTextMode.cpp): cells in video memory, a    *)
(* point where the next character goes, and a scroll that follows every    *)
(* character.  s_wPoint is one number, row times width plus column, so a   *)
(* column equal to the width is the next row's first cell, and a position  *)
(* can lie up to two rows behind the screen.                               *)
(*                                                                         *)
(* What ought to be on the screen is kept beside it as history: the last   *)
(* rows of what was written, as many as the screen has, until SetPosition  *)
(* has left the screen.                                                    *)
(* TextModeSetBuffer, by which the same memory is reached at another       *)
(* address, changes nothing here.                                          *)
(***************************************************************************)
EXTENDS Integers, Sequences

CONSTANTS Width,      \* s_wWidth, 80
          Height,     \* s_wHeight, 25
          TabStop,    \* 8
          Glyphs,     \* the characters ' ' to '}'
          Space,      \* ' '
          Plain,      \* s_bColor at first: the colour bits that are set
          ForeColors, \* the bits of the foreground colours that are set
          BackColors, \* the bits of the background colours that are set
          Places,     \* the <<x, y>> passed to SetPosition
          Texts       \* the strings passed to PutString

ASSUME ScreenAssumption ==
  /\ Width \in Nat \ {0} /\ Height \in Nat \ {0, 1, 2} /\ TabStop \in Nat \ {0}
ASSUME InputsAssumption ==
  /\ Space \in Glyphs
  /\ Places \subseteq Nat \X Nat
  /\ Plain \in SUBSET Nat /\ ForeColors \cup BackColors \subseteq SUBSET Nat

Backspace == "BS"
Return == "\r"
Newline == "\n"
Tab == "\t"
Refused == "~"       \* a code below 0 or above 125
Control == "\f"      \* any other code below ' ': it prints nothing
Codes == Glyphs \cup {Backspace, Return, Newline, Tab, Refused, Control}

ASSUME TextsAssumption == Texts \subseteq Seq(Codes)

VARIABLES video,    \* s_pVideoMem: the screen and the two rows behind it
          point,    \* s_wPoint
          color,    \* s_bColor, the set of its bits
          cursor,   \* the location register of the display controller
          todo,     \* what PutString has still to print
          rows,     \* the last rows that were written (history)
          strayed   \* SetPosition has left the screen (history)

vars == <<video, point, color, cursor, todo, rows, strayed>>

ScreenSize == Height * Width
Behind == [ch |-> "behind", color |-> {}]     \* whatever lies behind the screen

MakeChar(ch) == [ch |-> ch, color |-> color]
Blank == MakeChar(Space)
BlankRow == [x \in 0..(Width - 1) |-> Blank]

-----------------------------------------------------------------------------
(* One character, as a function of the screen s = [video, point, rows].    *)

\* Where the point goes from p, before the screen scrolls.
After(p, code) ==
  LET y == p \div Width
      x == p % Width
      column == CASE code = Backspace -> IF x # 0 THEN x - 1 ELSE x
                  [] code = Return -> 0
                  [] code = Newline -> Width
                  [] code = Tab -> ((x + TabStop) \div TabStop) * TabStop
                  [] code \in Glyphs -> x + 1
                  [] OTHER -> x
  IN IF column >= Width THEN (y + 1) * Width ELSE y * Width + column

\* A glyph goes to the cell at the point.
Drawn(s, code) ==
  IF code \notin Glyphs THEN s
  ELSE [s EXCEPT !.video[s.point] = MakeChar(code),
                 !.rows = IF strayed THEN @
                          ELSE [@ EXCEPT ![s.point \div Width + 1][s.point % Width] = MakeChar(code)]]

\* Mutants: the last row is not blanked; the screen scrolls one row late.
ScrolledUnblanked(s) ==
  LET temp == s.point \div Width - Height + 1
      kept == (Height - temp) * Width
  IN IF temp <= 0 THEN s
     ELSE [video |-> [i \in DOMAIN s.video |->
                        IF i < kept THEN s.video[i + temp * Width] ELSE s.video[i]],
           point |-> (Height - 1) * Width,
           rows |-> IF strayed THEN s.rows ELSE Append(Tail(s.rows), BlankRow)]
ScrolledLate(s) ==
  LET temp == s.point \div Width - Height
      kept == (Height - temp) * Width
  IN IF temp <= 0 THEN s
     ELSE [video |-> [i \in DOMAIN s.video |->
                        IF i < kept THEN s.video[i + temp * Width]
                        ELSE IF i < kept + Width THEN Blank
                        ELSE s.video[i]],
           point |-> (Height - 1) * Width,
           rows |-> IF strayed THEN s.rows ELSE Append(Tail(s.rows), BlankRow)]

\* The rows move up by as many as the point is behind the last one, one row is blanked.
Scrolled(s) ==
  LET temp == s.point \div Width - Height + 1
      kept == (Height - temp) * Width
  IN IF temp <= 0 THEN s
     ELSE [video |-> [i \in DOMAIN s.video |->
                        IF i < kept THEN s.video[i + temp * Width]
                        ELSE IF i < kept + Width THEN Blank
                        ELSE s.video[i]],
           point |-> (Height - 1) * Width,
           rows |-> IF strayed THEN s.rows ELSE Append(Tail(s.rows), BlankRow)]

Put(s, code) ==
  IF code = Refused THEN s
  ELSE Scrolled([Drawn(s, code) EXCEPT !.point = After(s.point, code)])

-----------------------------------------------------------------------------
\* TextModeInit clears the screen.
Init ==
  /\ color = Plain
  /\ video = [i \in 0..((Height + 2) * Width - 1) |-> IF i < ScreenSize THEN Blank ELSE Behind]
  /\ point = 0
  /\ cursor = 0
  /\ todo = <<>>
  /\ rows = [y \in 1..Height |-> BlankRow]
  /\ strayed = FALSE

Show(s) ==
  /\ video' = s.video
  /\ point' = s.point
  /\ rows' = s.rows
  /\ UNCHANGED <<color, strayed>>

Screen == [video |-> video, point |-> point, rows |-> rows]

\* A refused code leaves before the cursor is updated.
PutChar(tnCh, btUpdate) ==
  /\ Show(Put(Screen, tnCh))
  /\ cursor' = IF btUpdate /\ tnCh # Refused THEN point' ELSE cursor
  /\ UNCHANGED todo

\* PutString begins.  The cursor is updated once, at the end.
PutString(tStr) ==
  /\ todo' = tStr
  /\ cursor' = IF tStr = <<>> THEN point ELSE cursor
  /\ UNCHANGED <<video, point, color, rows, strayed>>

\* Its loop prints the next character.
PutNext ==
  /\ todo # <<>>
  /\ Show(Put(Screen, Head(todo)))
  /\ todo' = Tail(todo)
  /\ cursor' = IF todo' = <<>> THEN point' ELSE cursor

\* Mutant: the position is not clamped.
SetPositionUnclamped(tX, tY) ==
  /\ point' = tY * Width + tX
  /\ strayed' = strayed
  /\ UNCHANGED <<video, color, cursor, todo, rows>>

\* Each coordinate is clamped to the size itself, one past the last cell.
SetPosition(tX, tY) ==
  /\ point' = (IF tY > Height THEN Height ELSE tY) * Width + (IF tX > Width THEN Width ELSE tX)
  /\ strayed' = (strayed \/ point' >= ScreenSize)
  /\ rows' = IF strayed' THEN <<>> ELSE rows
  /\ UNCHANGED <<video, color, cursor, todo>>

\* The bits of a new colour are added to those of the old.
SetForeColor(teFore) ==
  /\ color' = color \cup teFore
  /\ UNCHANGED <<video, point, cursor, todo, rows, strayed>>
SetBackColor(teBack) ==
  /\ color' = color \cup teBack
  /\ UNCHANGED <<video, point, cursor, todo, rows, strayed>>

\* The hardware cursor stays where it was.
ClearScreen ==
  /\ video' = [i \in DOMAIN video |-> IF i < ScreenSize THEN Blank ELSE video[i]]
  /\ point' = 0
  /\ rows' = IF strayed THEN <<>> ELSE [y \in 1..Height |-> BlankRow]
  /\ UNCHANGED <<color, cursor, todo, strayed>>

\* A call is over before the next one begins.
Next ==
  \/ PutNext
  \/ /\ todo = <<>>
     /\ \/ \E code \in Codes, update \in BOOLEAN : PutChar(code, update)
        \/ \E text \in Texts : PutString(text)
        \/ \E place \in Places : SetPosition(place[1], place[2])
        \/ \E fore \in ForeColors : SetForeColor(fore)
        \/ \E back \in BackColors : SetBackColor(back)
        \/ ClearScreen

Spec == Init /\ [][Next]_vars

-----------------------------------------------------------------------------
Cell == [ch : Glyphs \cup {"behind"}, color : SUBSET Nat]

TypeOK ==
  /\ video \in [0..((Height + 2) * Width - 1) -> Cell]
  /\ point \in 0..((Height + 1) * Width)
  /\ color \in SUBSET Nat
  /\ cursor \in 0..((Height + 1) * Width)
  /\ todo \in Seq(Codes)
  /\ rows \in Seq([0..(Width - 1) -> Cell])
  /\ strayed \in BOOLEAN

\* As long as nobody positions the point past the edge, the screen shows the last rows
\* that were written, each character where it was put and in its colour: scrolling
\* neither loses a row, nor doubles one, nor leaves old characters in the new one.
ScreenShowsLastRows ==
  ~strayed => \A y \in 1..Height : \A x \in 0..(Width - 1) :
    video[(y - 1) * Width + x] = rows[y][x]

\* And neither the point nor the hardware cursor ever leaves the screen, and nothing
\* behind it is written.
StaysOnScreen ==
  ~strayed =>
    /\ point < ScreenSize /\ cursor < ScreenSize
    /\ \A i \in DOMAIN video : i >= ScreenSize => video[i] = Behind

\* What is on the screen, and that nothing is behind it.
ScreenSound == ScreenShowsLastRows /\ StaysOnScreen

\* Whatever was positioned where, a step that writes to video memory leaves the point on
\* the screen: the character behind the screen that SetPosition allows is the only one.
WritingComesBack == [][video' # video => point' < ScreenSize]_vars

=============================================================================
