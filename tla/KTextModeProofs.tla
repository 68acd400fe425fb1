-------------------------- MODULE KTextModeProofs --------------------------
(***************************************************************************)
(* The text screen, for every width, height of three or more, tab stop,    *)
(* text and position: it shows the last rows written as long as nobody     *)
(* left it, and writing always comes back to it.                           *)
(*                                                                         *)
(* A character is drawn at the point, moves it within its row or to the    *)
(* beginning of the next (AfterIs), and is followed by a scroll            *)
(* (ScrolledKeeps).  On the screen the point is at most one row behind     *)
(* when it scrolls; behind it, up to three.                                *)
(***************************************************************************)
EXTENDS KTextMode, SequenceTheorems, TLAPS

-----------------------------------------------------------------------------
(* Rows and columns. *)

Row == [0..(Width - 1) -> Cell]
Video == [0..((Height + 2) * Width - 1) -> Cell]

LEMMA RowOrder ==
  ASSUME NEW y \in Nat, NEW z \in Nat
  PROVE  /\ y * Width \in Nat /\ z * Width \in Nat
         /\ y <= z => y * Width <= z * Width
         /\ y < z => y * Width + Width <= z * Width
         /\ (y + 1) * Width = y * Width + Width
<1>1. Width \in Nat /\ Width >= 1
  BY ScreenAssumption
<1>2. ASSUME NEW d \in Nat PROVE d * Width \in Nat /\ (d >= 1 => d * Width >= Width)
  BY <1>1
<1>3. (y + 1) * Width = y * Width + Width
  BY <1>1
<1>4. CASE y <= z
  <2>1. PICK d \in Nat : z = y + d
    BY <1>4
  <2>2. z * Width = y * Width + d * Width
    BY <1>1, <2>1
  <2>3. /\ y * Width \in Nat /\ z * Width \in Nat /\ d * Width \in Nat
        /\ y < z => d * Width >= Width
    BY <1>2, <2>1
  <2> QED BY <1>1, <1>3, <2>2, <2>3
<1>5. CASE ~(y <= z)
  BY <1>2, <1>3, <1>5
<1> QED BY <1>4, <1>5

LEMMA Division ==
  ASSUME NEW P \in Nat \ {0}, NEW a \in Int
  PROVE  a \div P \in Int /\ a % P \in 0..(P - 1) /\ a % P = a - P * (a \div P)
OBVIOUS

LEMMA DivisionIsNat ==
  ASSUME NEW P \in Nat \ {0}, NEW a \in Nat
  PROVE  a \div P \in Nat
OBVIOUS

\* A position is a row and a column, in one way only.
LEMMA RowAndColumn ==
  ASSUME NEW p \in Nat
  PROVE  /\ p \div Width \in Nat /\ p % Width \in 0..(Width - 1)
         /\ p = (p \div Width) * Width + (p % Width)
<1>1. Width \in Nat \ {0}
  BY ScreenAssumption
<1>2. p \div Width \in Nat
  BY <1>1, DivisionIsNat
<1>3. p % Width \in 0..(Width - 1) /\ p % Width = p - Width * (p \div Width)
  BY <1>1, Division
<1> DEFINE q == p \div Width
           m == p % Width
<1>4. q \in Nat /\ m \in 0..(Width - 1) /\ m = p - Width * q
  BY <1>2, <1>3
<1> HIDE DEF q, m
<1>5. Width * q = q * Width /\ q * Width \in Nat
  BY <1>1, <1>4, RowOrder
<1> DEFINE r == q * Width
<1>6. r \in Nat /\ m = p - r
  BY <1>4, <1>5
<1> HIDE DEF r
<1>7. p = r + m
  BY <1>1, <1>4, <1>6
<1> QED BY <1>4, <1>7 DEF q, m, r

LEMMA PlaceIs ==
  ASSUME NEW y \in Nat, NEW x \in 0..(Width - 1)
  PROVE  /\ y * Width + x \in Nat
         /\ (y * Width + x) \div Width = y /\ (y * Width + x) % Width = x
<1>1. Width \in Nat \ {0} /\ x \in Nat /\ x < Width
  BY ScreenAssumption
<1>2. y * Width \in Nat
  BY RowOrder
<1>3. PICK p \in Nat : p = y * Width + x
  BY <1>1, <1>2
<1> DEFINE q == p \div Width
           m == p % Width
<1>4. q \in Nat /\ m \in 0..(Width - 1) /\ p = q * Width + m
  BY RowAndColumn
<1> HIDE DEF q, m
<1>5. q * Width \in Nat
  BY <1>4, RowOrder
<1> DEFINE b == q * Width
           a == y * Width
<1>6. a \in Nat /\ b \in Nat /\ p = a + x /\ p = b + m /\ m \in Nat /\ m < Width
  BY <1>1, <1>2, <1>3, <1>4, <1>5
<1>7. /\ q < y => b + Width <= a
      /\ y < q => a + Width <= b
      /\ q = y => a = b
  BY <1>4, RowOrder
<1> HIDE DEF a, b
<1>8. q = y
  BY <1>1, <1>4, <1>6, <1>7
<1>9. m = x
  BY <1>1, <1>6, <1>7, <1>8
<1> QED BY <1>3, <1>8, <1>9 DEF q, m

\* The last cell of the screen and of what can be reached behind it.
LEMMA Sizes ==
  /\ ScreenSize \in Nat /\ Width \in Nat /\ Width >= 1 /\ Height \in Nat /\ Height >= 3
  /\ Height * Width = ScreenSize
  /\ (Height + 1) * Width = ScreenSize + Width
  /\ (Height + 2) * Width = ScreenSize + 2 * Width
  /\ (Height - 1) * Width = ScreenSize - Width
  /\ ScreenSize >= Width
<1>1. Width \in Nat /\ Width >= 1 /\ Height \in Nat /\ Height >= 3
  BY ScreenAssumption
<1>2. (Height - 1) + 1 = Height /\ (Height + 1) + 1 = Height + 2 /\ Height - 1 \in Nat /\ Height + 1 \in Nat
  BY <1>1
<1> DEFINE a == (Height - 1) * Width
           b == Height * Width
           c == (Height + 1) * Width
           d == (Height + 2) * Width
<1>3. a \in Nat /\ b \in Nat /\ b = a + Width
  <2>1. a \in Nat /\ ((Height - 1) + 1) * Width = a + Width
    BY <1>2, RowOrder
  <2>2. b \in Nat
    BY <1>1, RowOrder
  <2> QED BY <1>2, <2>1, <2>2, Zenon
<1>4. c = b + Width
  BY <1>1, RowOrder
<1>5. d = c + Width
  <2>1. ((Height + 1) + 1) * Width = c + Width
    BY <1>2, RowOrder
  <2> QED BY <1>2, <2>1, Zenon
<1> HIDE DEF a, b, c, d
<1>6. ScreenSize = b
  BY DEF ScreenSize, b
<1>7. /\ d = b + 2 * Width /\ a = b - Width /\ b >= Width /\ b \in Nat
  BY <1>1, <1>3, <1>4, <1>5
<1> QED BY <1>1, <1>4, <1>6, <1>7 DEF a, b, c, d

-----------------------------------------------------------------------------
(* One character. *)

LEMMA CharIsCell == ASSUME TypeOK, NEW ch \in Glyphs PROVE MakeChar(ch) \in Cell
BY DEF TypeOK, MakeChar, Cell

LEMMA BlankIsCell == ASSUME TypeOK PROVE Blank \in Cell /\ BlankRow \in Row
<1>1. Blank \in Cell
  BY CharIsCell, InputsAssumption DEF Blank
<1> QED BY <1>1 DEF BlankRow, Row

\* The point moves along its row or to the beginning of the next.
Moves(y, q) == \E z \in {y, y + 1} : \E x \in 0..(Width - 1) : q = z * Width + x /\ (z = y + 1 => x = 0)

LEMMA AfterIs ==
  ASSUME NEW p \in Nat, NEW code
  PROVE  Moves(p \div Width, After(p, code))
<1> DEFINE y == p \div Width
           x == p % Width
           column == CASE code = Backspace -> IF x # 0 THEN x - 1 ELSE x
                       [] code = Return -> 0
                       [] code = Newline -> Width
                       [] code = Tab -> ((x + TabStop) \div TabStop) * TabStop
                       [] code \in Glyphs -> x + 1
                       [] OTHER -> x
<1>1. y \in Nat /\ x \in 0..(Width - 1) /\ Width \in Nat /\ Width >= 1
  BY RowAndColumn, Sizes
<1>2. column \in Nat
  <2> DEFINE t == (x + TabStop) \div TabStop
  <2>1. TabStop \in Nat \ {0} /\ x + TabStop \in Nat
    BY <1>1, ScreenAssumption
  <2>2. t \in Nat
    BY <2>1, DivisionIsNat
  <2> DEFINE tabbed == t * TabStop
  <2>3. tabbed \in Nat
    <3> HIDE DEF t
    <3> QED BY <2>1, <2>2
  <2> HIDE DEF tabbed, x
  <2>4. x \in Nat /\ (x # 0 => x - 1 \in Nat) /\ x + 1 \in Nat
    BY <1>1
  <2> QED BY <1>1, <2>3, <2>4 DEF tabbed
<1>3. After(p, code) = IF column >= Width THEN (y + 1) * Width ELSE y * Width + column
  BY DEF After
<1> HIDE DEF column, y, x
<1>4. CASE column >= Width
  <2>1. (y + 1) * Width + 0 = (y + 1) * Width
    <3>1. (y + 1) * Width \in Nat
      BY <1>1, RowOrder
    <3> DEFINE a == (y + 1) * Width
    <3> HIDE DEF a
    <3> QED BY <3>1 DEF a
  <2>2. 0 \in 0..(Width - 1)
    BY <1>1
  <2>3. Moves(y, (y + 1) * Width)
    BY <2>1, <2>2 DEF Moves
  <2> QED BY <1>3, <1>4, <2>3 DEF y
<1>5. CASE ~(column >= Width)
  <2>1. column \in 0..(Width - 1) /\ y # y + 1
    BY <1>1, <1>2, <1>5
  <2>2. Moves(y, y * Width + column)
    BY <2>1 DEF Moves
  <2> QED BY <1>3, <1>5, <2>2 DEF y
<1> QED BY <1>4, <1>5

\* What is drawn, and where.
DrawnVideo(code) == IF code \in Glyphs THEN [video EXCEPT ![point] = MakeChar(code)] ELSE video
DrawnRows(code) ==
  IF code \in Glyphs /\ ~strayed
  THEN [rows EXCEPT ![point \div Width + 1] =
                      [rows[point \div Width + 1] EXCEPT ![point % Width] = MakeChar(code)]]
  ELSE rows

LEMMA DrawnIs ==
  ASSUME NEW code
  PROVE  Drawn(Screen, code) = [video |-> DrawnVideo(code), point |-> point, rows |-> DrawnRows(code)]
BY DEF Drawn, Screen, DrawnVideo, DrawnRows

\* The rows the screen shows.
Shows(v, r) ==
  /\ r \in [1..Height -> Row]
  /\ \A y \in 0..(Height - 1), x \in 0..(Width - 1) : v[y * Width + x] = r[y + 1][x]

\* Nothing is written behind the screen.
Clean(v) == \A i \in 0..((Height + 2) * Width - 1) : i >= ScreenSize => v[i] = Behind

LEMMA DrawnKeeps ==
  ASSUME TypeOK, NEW code
  PROVE  /\ DrawnVideo(code) \in Video
         /\ strayed => DrawnRows(code) = rows
         /\ point < ScreenSize /\ ~strayed /\ Shows(video, rows) =>
              Shows(DrawnVideo(code), DrawnRows(code))
         /\ point < ScreenSize /\ Clean(video) => Clean(DrawnVideo(code))
<1>1. CASE code \notin Glyphs
  BY <1>1 DEF DrawnVideo, DrawnRows, TypeOK, Video, Row
<1>2. CASE code \in Glyphs
  <2>1. MakeChar(code) \in Cell
    BY <1>2, CharIsCell
  <2>2. /\ DrawnVideo(code) = [video EXCEPT ![point] = MakeChar(code)]
        /\ video \in Video
    BY <1>2 DEF DrawnVideo, TypeOK, Video
  <2>3. DrawnVideo(code) \in Video
    BY <2>1, <2>2 DEF Video
  <2>4. strayed => DrawnRows(code) = rows
    BY DEF DrawnRows
  <2>5. ASSUME point < ScreenSize, ~strayed, Shows(video, rows)
        PROVE  Shows(DrawnVideo(code), DrawnRows(code))
    <3> DEFINE py == point \div Width
               px == point % Width
               r == DrawnRows(code)
    <3>1. /\ point \in Nat /\ py \in Nat /\ px \in 0..(Width - 1)
          /\ point = py * Width + px
      <4>1. point \in Nat
        BY Sizes DEF TypeOK
      <4> QED BY <4>1, RowAndColumn
    <3> HIDE DEF py, px, r
    <3>2. py < Height
      <4>1. py >= Height => py * Width >= ScreenSize
        BY <3>1, Sizes, RowOrder
      <4>2. py * Width \in Nat
        BY <3>1, RowOrder
      <4> DEFINE a == py * Width
      <4> HIDE DEF a
      <4>3. px \in Nat /\ point = a + px /\ a \in Nat /\ (py >= Height => a >= ScreenSize)
        BY <3>1, <4>1, <4>2, Sizes DEF a
      <4> QED BY <2>5, <3>1, <4>3, Sizes
    <3>3. /\ py + 1 \in 1..Height /\ py \in 0..(Height - 1)
          /\ r = [rows EXCEPT ![py + 1] = [rows[py + 1] EXCEPT ![px] = MakeChar(code)]]
      <4>1. py + 1 \in 1..Height /\ py \in 0..(Height - 1)
        BY <3>1, <3>2, Sizes
      <4>2. r = [rows EXCEPT ![py + 1] = [rows[py + 1] EXCEPT ![px] = MakeChar(code)]]
        BY <1>2, <2>5, Zenon DEF DrawnRows, r, py, px
      <4> QED BY <4>1, <4>2
    <3>4. [rows[py + 1] EXCEPT ![px] = MakeChar(code)] \in Row
      BY <2>1, <2>5, <3>3 DEF Shows, Row
    <3>5. r \in [1..Height -> Row]
      BY <2>5, <3>3, <3>4 DEF Shows
    <3>6. ASSUME NEW y \in 0..(Height - 1), NEW x \in 0..(Width - 1)
          PROVE  DrawnVideo(code)[y * Width + x] = r[y + 1][x]
      <4>1. /\ y \in Nat /\ y + 1 \in 1..Height
            /\ y + 1 = py + 1 <=> y = py
        BY <3>1, Sizes
      <4>2. y * Width + x \in 0..((Height + 2) * Width - 1)
        <5>1. y * Width + Width <= Height * Width /\ y * Width \in Nat
          BY <4>1, RowOrder, Sizes
        <5> QED BY <5>1, Sizes
      <4>3. y * Width + x = point => y = py /\ x = px
        <5>1. (y * Width + x) \div Width = y /\ (y * Width + x) % Width = x
          BY <4>1, PlaceIs
        <5> QED BY <5>1 DEF py, px
      <4>4. CASE y = py /\ x = px
        <5>1. DrawnVideo(code)[y * Width + x] = MakeChar(code)
          BY <2>2, <3>1, <4>2, <4>4 DEF Video
        <5>2. r[y + 1] = [rows[py + 1] EXCEPT ![px] = MakeChar(code)]
          BY <2>5, <3>3, <4>4 DEF Shows
        <5>3. rows[py + 1] \in Row
          BY <2>5, <3>3 DEF Shows
        <5> QED BY <4>4, <5>1, <5>2, <5>3 DEF Row
      <4>5. CASE y = py /\ x # px
        <5>1. DrawnVideo(code)[y * Width + x] = video[y * Width + x]
          BY <2>2, <4>2, <4>3, <4>5 DEF Video
        <5>2. r[y + 1] = [rows[py + 1] EXCEPT ![px] = MakeChar(code)]
          BY <2>5, <3>3, <4>5 DEF Shows
        <5>3. rows[py + 1] \in Row
          BY <2>5, <3>3 DEF Shows
        <5> QED BY <2>5, <4>5, <5>1, <5>2, <5>3 DEF Row, Shows
      <4>6. CASE y # py
        <5>1. DrawnVideo(code)[y * Width + x] = video[y * Width + x]
          BY <2>2, <4>2, <4>3, <4>6 DEF Video
        <5>2. r[y + 1] = rows[y + 1]
          BY <2>5, <3>3, <4>1, <4>6 DEF Shows
        <5> QED BY <2>5, <5>1, <5>2 DEF Shows
      <4> QED BY <4>4, <4>5, <4>6
    <3> QED BY <3>5, <3>6 DEF Shows, r
  <2>6. ASSUME point < ScreenSize, Clean(video) PROVE Clean(DrawnVideo(code))
    <3> SUFFICES ASSUME NEW i \in 0..((Height + 2) * Width - 1), i >= ScreenSize
                 PROVE  DrawnVideo(code)[i] = Behind
      BY DEF Clean
    <3>1. point \in Int /\ i \in Int /\ i # point
      BY <2>6, Sizes DEF TypeOK
    <3> QED BY <2>2, <2>6, <3>1 DEF Clean, Video
  <2> QED BY <2>3, <2>4, <2>5, <2>6
<1> QED BY <1>1, <1>2

\* The rows are a sequence that does not change its length when it moves up.
LEMMA MovedUp ==
  ASSUME TypeOK, NEW r \in [1..Height -> Row], NEW new, new = Append(Tail(r), BlankRow)
  PROVE  /\ r \in Seq(Row) /\ new \in [1..Height -> Row]
         /\ \A y \in 1..(Height - 1) : new[y] = r[y + 1]
         /\ new[Height] = BlankRow
<1>1. Height \in Nat /\ Height >= 3 /\ BlankRow \in Row
  BY Sizes, BlankIsCell
<1>2. r \in Seq(Row) /\ Len(r) = Height
  BY <1>1
<1>3. Tail(r) \in Seq(Row) /\ Len(Tail(r)) = Height - 1 /\ \A y \in 1..(Height - 1) : Tail(r)[y] = r[y + 1]
  BY <1>1, <1>2
<1>4. /\ new \in Seq(Row) /\ Len(new) = Height
      /\ \A y \in 1..(Height - 1) : new[y] = Tail(r)[y]
      /\ new[Height] = BlankRow
  BY <1>1, <1>3
<1>5. new \in [1..Height -> Row]
  <2>1. new \in [1..Len(new) -> Row]
    BY <1>4, LenProperties
  <2> QED BY <1>4, <2>1
<1> QED BY <1>2, <1>3, <1>4, <1>5

\* What the screen is like after the scroll that follows a character.
Settled(t, v, z, r) ==
  /\ t = [video |-> t.video, point |-> t.point, rows |-> t.rows]
  /\ t.video \in Video
  /\ t.point \in Nat /\ t.point < ScreenSize
  /\ strayed => t.rows = r
  /\ ~strayed /\ z <= Height /\ Shows(v, r) => Shows(t.video, t.rows)
  /\ z <= Height /\ Clean(v) => Clean(t.video)

LEMMA ScrolledKeeps ==
  ASSUME TypeOK, NEW v \in Video, NEW z \in Nat, z <= Height + 2, NEW x \in 0..(Width - 1),
         NEW r, NEW q, q = z * Width + x
  PROVE  Settled(Scrolled([video |-> v, point |-> q, rows |-> r]), v, z, r)
<1> DEFINE s == [video |-> v, point |-> q, rows |-> r]
           temp == z - Height + 1
           kept == (Height - temp) * Width
           up == temp * Width
           moved == [i \in DOMAIN v |-> IF i < kept THEN v[i + up]
                                        ELSE IF i < kept + Width THEN Blank
                                        ELSE v[i]]
           new == IF strayed THEN r ELSE Append(Tail(r), BlankRow)
<1>1. q \in Nat /\ q \div Width = z
  BY PlaceIs
<1>2. Scrolled(s) = IF temp <= 0 THEN s
                    ELSE [video |-> moved, point |-> (Height - 1) * Width, rows |-> new]
  BY <1>1 DEF Scrolled
<1> HIDE DEF moved, new, s
<1>3. CASE z < Height
  <2>1. temp <= 0
    BY <1>3, Sizes
  <2>2. Scrolled(s) = s
    BY <1>2, <2>1
  <2>3. z * Width + Width <= ScreenSize /\ z * Width \in Nat
    BY <1>3, RowOrder, Sizes
  <2>4. q < ScreenSize
    BY <2>3, Sizes
  <2>5. s.video = v /\ s.point = q /\ s.rows = r /\ s = [video |-> s.video, point |-> s.point, rows |-> s.rows]
    BY DEF s
  <2> QED BY <1>1, <2>2, <2>4, <2>5 DEF Settled, s
<1>4. CASE z >= Height
  <2>1. temp \in Nat /\ temp >= 1 /\ temp <= 3 /\ ~(temp <= 0) /\ Height - temp \in Nat
    BY <1>4, Sizes
  <2>2. kept \in Nat /\ up \in Nat /\ kept + up = ScreenSize /\ up >= Width
    <3>1. kept \in Nat /\ up \in Nat
      BY <2>1, RowOrder
    <3>2. \A a \in Nat : 1 <= a => 1 * Width <= a * Width
      BY RowOrder
    <3>3. 1 * Width = Width
      BY Sizes
    <3>4. ((Height - temp) + temp) * Width = kept + up
      <4> HIDE DEF temp
      <4> QED BY <2>1, Sizes
    <3>5. (Height - temp) + temp = Height
      BY <2>1, Sizes
    <3> QED BY <2>1, <3>1, <3>2, <3>3, <3>4, <3>5, Sizes, Zenon
  <2> DEFINE t == [video |-> moved, point |-> (Height - 1) * Width, rows |-> new]
  <2>3. Scrolled(s) = t
    BY <1>2, <2>1
  <2>4. DOMAIN v = 0..(ScreenSize + 2 * Width - 1) /\ 0..((Height + 2) * Width - 1) = 0..(ScreenSize + 2 * Width - 1)
    BY Sizes DEF Video
  <2>5. Blank \in Cell
    BY BlankIsCell
  <2>6. moved \in Video
    <3> HIDE DEF temp, kept, up
    <3>1. ASSUME NEW i \in DOMAIN v, i < kept PROVE i + up \in DOMAIN v
      BY <2>2, <2>4, <3>1, Sizes
    <3>2. \A i \in DOMAIN v : v[i] \in Cell
      BY DEF Video
    <3> QED BY <2>4, <2>5, <3>1, <3>2 DEF moved, Video
  <2>7. t.point \in Nat /\ t.point < ScreenSize
    BY Sizes
  <2>8. \A i \in DOMAIN v : moved[i] = IF i < kept THEN v[i + up]
                                       ELSE IF i < kept + Width THEN Blank
                                       ELSE v[i]
    BY DEF moved
  <2>9. ASSUME z <= Height PROVE temp = 1 /\ up = Width /\ kept = ScreenSize - Width
    <3>1. temp = 1
      BY <1>4, <2>9, Sizes
    <3>2. up = Width
      BY <3>1, Sizes
    <3> HIDE DEF temp, up, kept
    <3> QED BY <2>2, <3>1, <3>2, Sizes
  <2> HIDE DEF temp, kept, up
  <2>10. ASSUME ~strayed, z <= Height, Shows(v, r) PROVE Shows(moved, new)
    <3>1. r \in [1..Height -> Row] /\ new = Append(Tail(r), BlankRow)
      BY <2>10 DEF Shows, new
    <3>2. /\ new \in [1..Height -> Row]
          /\ \A y \in 1..(Height - 1) : new[y] = r[y + 1]
          /\ new[Height] = BlankRow
      BY <3>1, MovedUp
    <3>3. ASSUME NEW y \in 0..(Height - 1), NEW c \in 0..(Width - 1)
          PROVE  moved[y * Width + c] = new[y + 1][c]
      <4> DEFINE a == y * Width
      <4>1. y \in Nat /\ a \in Nat /\ c \in Nat /\ c < Width
            /\ a + Width <= ScreenSize /\ (y + 1) * Width = a + Width
        BY RowOrder, Sizes
      <4>2. a + c \in DOMAIN v
        <5> HIDE DEF a
        <5> QED BY <2>4, <4>1, Sizes
      <4>3. CASE y < Height - 1
        <5>1. a + Width <= (Height - 1) * Width
          BY <4>1, <4>3, RowOrder, Sizes
        <5>2. a + c < kept /\ (a + c) + up = (a + Width) + c
          <6> HIDE DEF a
          <6> QED BY <2>9, <2>10, <4>1, <5>1, Sizes
        <5>3. moved[a + c] = v[(y + 1) * Width + c]
          BY <2>8, <4>1, <4>2, <5>2
        <5>4. y + 1 \in 0..(Height - 1) /\ y + 1 \in 1..(Height - 1)
          BY <4>1, <4>3, Sizes
        <5>5. v[(y + 1) * Width + c] = r[(y + 1) + 1][c]
          BY <2>10, <5>4 DEF Shows
        <5> QED BY <3>2, <5>3, <5>4, <5>5
      <4>4. CASE y = Height - 1
        <5>1. a = ScreenSize - Width
          BY <4>4, Sizes
        <5>2. ~(a + c < kept) /\ a + c < kept + Width
          <6> HIDE DEF a
          <6> QED BY <2>9, <2>10, <4>1, <5>1, Sizes
        <5>3. moved[a + c] = Blank
          BY <2>8, <4>2, <5>2
        <5>4. y + 1 = Height
          BY <4>4, Sizes
        <5>5. new[y + 1][c] = Blank
          BY <3>2, <5>4 DEF BlankRow
        <5> QED BY <5>3, <5>5
      <4> QED BY <4>1, <4>3, <4>4, Sizes
    <3> QED BY <3>2, <3>3 DEF Shows
  <2>11. ASSUME z <= Height, Clean(v) PROVE Clean(moved)
    <3> SUFFICES ASSUME NEW i \in 0..((Height + 2) * Width - 1), i >= ScreenSize
                 PROVE  moved[i] = Behind
      BY DEF Clean
    <3>1. ~(i < kept) /\ ~(i < kept + Width) /\ i \in DOMAIN v
      BY <2>4, <2>9, <2>11, Sizes
    <3> QED BY <2>8, <2>11, <3>1 DEF Clean
  <2>12. strayed => new = r
    BY DEF new
  <2>13. t.video = moved /\ t.rows = new /\ t = [video |-> t.video, point |-> t.point, rows |-> t.rows]
    OBVIOUS
  <2> HIDE DEF t
  <2>14. Settled(t, v, z, r)
    BY <2>6, <2>7, <2>10, <2>11, <2>12, <2>13 DEF Settled
  <2> QED BY <2>3, <2>14 DEF s
<1> QED BY <1>3, <1>4, Sizes

\* A code that is not refused.
LEMMA PutIs ==
  ASSUME TypeOK, NEW code, code # Refused
  PROVE  \E z \in Nat :
           /\ point < ScreenSize => z <= Height
           /\ Settled(Put(Screen, code), DrawnVideo(code), z, DrawnRows(code))
<1> DEFINE y == point \div Width
           q == After(point, code)
           drawn == [video |-> DrawnVideo(code), point |-> point, rows |-> DrawnRows(code)]
           s == [video |-> DrawnVideo(code), point |-> q, rows |-> DrawnRows(code)]
<1>1. point \in Nat /\ point <= (Height + 1) * Width
  BY Sizes DEF TypeOK
<1>2. y \in Nat /\ y * Width \in Nat /\ y * Width <= point
  <2>1. y \in Nat /\ point % Width \in 0..(Width - 1) /\ point = y * Width + (point % Width)
    BY <1>1, RowAndColumn
  <2> HIDE DEF y
  <2>2. y * Width \in Nat
    BY <2>1, RowOrder
  <2> DEFINE a == y * Width
             m == point % Width
  <2>3. a \in Nat /\ m \in Nat /\ point = a + m
    BY <2>1, <2>2, Sizes
  <2> HIDE DEF a, m
  <2>4. a <= point
    BY <2>3
  <2> QED BY <2>1, <2>3, <2>4 DEF a
<1>3. y <= Height + 1 /\ (point < ScreenSize => y < Height)
  <2> HIDE DEF y
  <2> DEFINE a == y * Width
  <2>1. /\ y > Height + 1 => (Height + 1) * Width + Width <= a
        /\ y >= Height => Height * Width <= a
        /\ a \in Nat /\ a <= point
    <3>1. Height \in Nat /\ Height + 1 \in Nat
      BY Sizes
    <3> QED BY <1>2, <3>1, RowOrder
  <2> HIDE DEF a
  <2> QED BY <1>1, <1>2, <2>1, Sizes
<1>4. PICK z \in {y, y + 1} : \E x \in 0..(Width - 1) : q = z * Width + x
  BY <1>1, AfterIs DEF Moves
<1>5. PICK x \in 0..(Width - 1) : q = z * Width + x
  BY <1>4
<1>6. Drawn(Screen, code) = drawn
  BY DrawnIs
<1> HIDE DEF y, q
<1>7. [drawn EXCEPT !.point = q] = s
  OBVIOUS
<1>8. Put(Screen, code) = Scrolled(s)
  <2>1. Screen.point = point
    BY DEF Screen
  <2>2. Put(Screen, code) = Scrolled([Drawn(Screen, code) EXCEPT !.point = q])
    BY <2>1 DEF Put, q
  <2> QED BY <1>6, <1>7, <2>2
<1>9. z \in Nat /\ z <= Height + 2 /\ (point < ScreenSize => z <= Height)
  BY <1>2, <1>3, <1>4, Sizes
<1>10. DrawnVideo(code) \in Video
  BY DrawnKeeps
<1>11. Settled(Scrolled(s), DrawnVideo(code), z, DrawnRows(code))
  BY <1>5, <1>9, <1>10, ScrolledKeeps
<1> QED BY <1>8, <1>9, <1>11

-----------------------------------------------------------------------------
(* The invariant. *)

\* While nobody has left the screen: it shows the rows, of which there are as many as it
\* has, and the point, the cursor and all that was written are on it.
OnScreen ==
  ~strayed => /\ Shows(video, rows)
              /\ Clean(video)
              /\ point < ScreenSize
              /\ cursor < ScreenSize

IInv == TypeOK /\ OnScreen

LEMMA IInvSound == IInv => ScreenSound
<1> SUFFICES ASSUME IInv, ~strayed
             PROVE  /\ \A y \in 1..Height : \A x \in 0..(Width - 1) : video[(y - 1) * Width + x] = rows[y][x]
                    /\ point < ScreenSize /\ cursor < ScreenSize
                    /\ \A i \in DOMAIN video : i >= ScreenSize => video[i] = Behind
  BY DEF ScreenSound, ScreenShowsLastRows, StaysOnScreen
<1>1. ASSUME NEW y \in 1..Height, NEW x \in 0..(Width - 1)
      PROVE  video[(y - 1) * Width + x] = rows[y][x]
  <2>1. y - 1 \in 0..(Height - 1) /\ (y - 1) + 1 = y
    BY Sizes
  <2>2. video[(y - 1) * Width + x] = rows[(y - 1) + 1][x]
    BY <2>1 DEF IInv, OnScreen, Shows
  <2> QED BY <2>1, <2>2
<1>2. \A i \in DOMAIN video : i >= ScreenSize => video[i] = Behind
  BY DEF IInv, OnScreen, Clean, TypeOK
<1> QED BY <1>1, <1>2 DEF IInv, OnScreen

\* A blank screen shows blank rows.
LEMMA BlankShows ==
  ASSUME TypeOK, NEW v, \A i \in 0..((Height + 2) * Width - 1) : i < ScreenSize => v[i] = Blank
  PROVE  Shows(v, [y \in 1..Height |-> BlankRow])
<1> DEFINE r == [y \in 1..Height |-> BlankRow]
<1>1. r \in [1..Height -> Row] /\ \A y \in 1..Height : r[y] = BlankRow
  BY BlankIsCell
<1> HIDE DEF r
<1>2. ASSUME NEW y \in 0..(Height - 1), NEW x \in 0..(Width - 1)
      PROVE  v[y * Width + x] = r[y + 1][x]
  <2> DEFINE a == y * Width
  <2>1. y \in Nat /\ y + 1 \in 1..Height /\ a \in Nat /\ a + Width <= ScreenSize
    BY RowOrder, Sizes
  <2> HIDE DEF a
  <2>2. a + x \in 0..((Height + 2) * Width - 1) /\ a + x < ScreenSize
    BY <2>1, Sizes
  <2>3. v[a + x] = Blank
    BY <2>2
  <2>4. r[y + 1][x] = Blank
    BY <1>1, <2>1 DEF BlankRow
  <2> QED BY <2>3, <2>4 DEF a
<1> QED BY <1>1, <1>2 DEF Shows, r

LEMMA InitIInv == Init => IInv
<1> SUFFICES ASSUME Init PROVE IInv
  OBVIOUS
<1>1. /\ color \in SUBSET Nat /\ color = Plain /\ point = 0 /\ cursor = 0 /\ todo = <<>>
      /\ rows = [y \in 1..Height |-> BlankRow] /\ strayed = FALSE
      /\ video = [i \in 0..((Height + 2) * Width - 1) |-> IF i < ScreenSize THEN Blank ELSE Behind]
  BY InputsAssumption DEF Init
<1>2. Blank \in Cell /\ Behind \in Cell
  BY <1>1, InputsAssumption DEF Blank, MakeChar, Behind, Cell
<1>3. video \in Video /\ \A i \in 0..((Height + 2) * Width - 1) :
                           video[i] = IF i < ScreenSize THEN Blank ELSE Behind
  BY <1>1, <1>2 DEF Video
<1>4. rows \in [1..Height -> Row]
  BY <1>1, <1>2 DEF BlankRow, Row
<1>5. rows \in Seq(Row)
  BY <1>4, Sizes
<1>6. 0 \in 0..((Height + 1) * Width) /\ 0 < ScreenSize /\ <<>> \in Seq(Codes)
  BY Sizes
<1>7. TypeOK
  BY <1>1, <1>3, <1>5, <1>6 DEF TypeOK, Video, Row
<1>8. Shows(video, rows)
  BY <1>1, <1>3, <1>7, BlankShows
<1>9. Clean(video)
  BY <1>3, Sizes DEF Clean
<1> QED BY <1>1, <1>6, <1>7, <1>8, <1>9 DEF IInv, OnScreen

\* What a step keeps that the character does not.
Rest == color' = color /\ strayed' = strayed

\* Printing a character keeps the invariant of the screen, and leaves the point on it.
LEMMA ShowKeeps ==
  ASSUME IInv, NEW code \in Codes, Show(Put(Screen, code))
  PROVE  /\ Rest
         /\ video' \in Video /\ rows' \in Seq(Row) /\ point' \in 0..((Height + 1) * Width)
         /\ ~strayed => Shows(video', rows') /\ Clean(video') /\ point' < ScreenSize
         /\ point' < ScreenSize \/ (code = Refused /\ video' = video)
<1> DEFINE t == Put(Screen, code)
<1>1. TypeOK /\ rows \in Seq(Row) /\ video \in Video
  BY DEF IInv, TypeOK, Row, Video
<1>2. video' = t.video /\ point' = t.point /\ rows' = t.rows /\ Rest
  BY DEF Show, Rest
<1>3. CASE code = Refused
  <2>1. t = Screen
    BY <1>3 DEF Put
  <2>2. video' = video /\ point' = point /\ rows' = rows
    BY <1>2, <2>1 DEF Screen
  <2> QED BY <1>1, <1>2, <1>3, <2>2 DEF IInv, OnScreen, TypeOK
<1>4. CASE code # Refused
  <2> HIDE DEF t
  <2>1. PICK z \in Nat : /\ point < ScreenSize => z <= Height
                         /\ Settled(t, DrawnVideo(code), z, DrawnRows(code))
    BY <1>1, <1>4, PutIs DEF t
  <2>2. video' \in Video /\ point' \in Nat /\ point' < ScreenSize
    BY <1>2, <2>1 DEF Settled
  <2>3. point' \in 0..((Height + 1) * Width)
    BY <2>2, Sizes
  <2>4. ASSUME ~strayed PROVE Shows(video', rows') /\ Clean(video')
    <3>1. Shows(DrawnVideo(code), DrawnRows(code)) /\ Clean(DrawnVideo(code)) /\ z <= Height
      BY <1>1, <2>1, <2>4, DrawnKeeps DEF IInv, OnScreen
    <3> QED BY <1>2, <2>1, <2>4, <3>1 DEF Settled
  <2>5. rows' \in Seq(Row)
    <3>1. CASE strayed
      <4>1. rows' = rows
        BY <1>1, <1>2, <2>1, <3>1, DrawnKeeps DEF Settled
      <4> QED BY <1>1, <4>1
    <3>2. CASE ~strayed
      <4>1. rows' \in [1..Height -> Row]
        BY <2>4, <3>2 DEF Shows
      <4> QED BY <4>1, Sizes
    <3> QED BY <3>1, <3>2
  <2> QED BY <1>2, <2>2, <2>3, <2>4, <2>5
<1> QED BY <1>3, <1>4

\* A call or a character of a string that ends with the cursor at the point or where it was.
LEMMA PrintKeeps ==
  ASSUME IInv, NEW code \in Codes, Show(Put(Screen, code)),
         cursor' = point' \/ cursor' = cursor, todo' \in Seq(Codes)
  PROVE  IInv' /\ (video' # video => point' < ScreenSize)
<1>1. /\ Rest
      /\ video' \in Video /\ rows' \in Seq(Row) /\ point' \in 0..((Height + 1) * Width)
      /\ ~strayed => Shows(video', rows') /\ Clean(video') /\ point' < ScreenSize
      /\ point' < ScreenSize \/ (code = Refused /\ video' = video)
  BY ShowKeeps
<1>2. TypeOK'
  BY <1>1 DEF IInv, TypeOK, Rest, Row, Video
<1>3. OnScreen'
  BY <1>1 DEF IInv, OnScreen, Rest, Shows, Clean, ScreenSize
<1> QED BY <1>1, <1>2, <1>3 DEF IInv

LEMMA SetPositionKeeps ==
  ASSUME IInv, NEW tX \in Nat, NEW tY \in Nat, SetPosition(tX, tY)
  PROVE  IInv' /\ video' = video
<1> DEFINE row == IF tY > Height THEN Height ELSE tY
           col == IF tX > Width THEN Width ELSE tX
<1>1. row \in Nat /\ row <= Height /\ col \in Nat /\ col <= Width
  BY Sizes
<1>2. point' = row * Width + col
  BY DEF SetPosition
<1> HIDE DEF row, col
<1>3. row * Width \in Nat /\ row * Width <= ScreenSize
  <2>1. Height \in Nat
    BY Sizes
  <2> QED BY <1>1, <2>1, RowOrder, Sizes
<1>4. point' \in 0..((Height + 1) * Width)
  <2> DEFINE a == row * Width
  <2> HIDE DEF a
  <2>1. a \in Nat /\ a <= ScreenSize /\ point' = a + col
    BY <1>2, <1>3 DEF a
  <2> QED BY <1>1, <2>1, Sizes
<1>5. /\ strayed' = (strayed \/ point' >= ScreenSize)
      /\ rows' = IF strayed' THEN <<>> ELSE rows
      /\ video' = video /\ color' = color /\ cursor' = cursor /\ todo' = todo
  BY DEF SetPosition
<1>6. strayed' \in BOOLEAN /\ rows' \in Seq(Row)
  BY <1>5 DEF IInv, TypeOK, Row
<1>7. TypeOK'
  BY <1>4, <1>5, <1>6 DEF IInv, TypeOK, Row
<1>8. ASSUME ~strayed' PROVE ~strayed /\ rows' = rows /\ point' < ScreenSize
  <2>1. ~strayed /\ ~(point' >= ScreenSize) /\ rows' = rows
    BY <1>5, <1>8
  <2>2. point' \in Int
    BY <1>4
  <2> QED BY <2>1, <2>2, Sizes
<1>9. OnScreen'
  BY <1>5, <1>8 DEF IInv, OnScreen, Shows, Clean, ScreenSize
<1> QED BY <1>5, <1>7, <1>9 DEF IInv

LEMMA ClearScreenKeeps ==
  ASSUME IInv, ClearScreen
  PROVE  IInv' /\ point' < ScreenSize
<1>1. /\ video' = [i \in DOMAIN video |-> IF i < ScreenSize THEN Blank ELSE video[i]]
      /\ point' = 0 /\ rows' = (IF strayed THEN <<>> ELSE [y \in 1..Height |-> BlankRow])
      /\ color' = color /\ cursor' = cursor /\ todo' = todo /\ strayed' = strayed
  BY DEF ClearScreen
<1>2. TypeOK /\ video \in Video /\ DOMAIN video = 0..((Height + 2) * Width - 1)
  BY DEF IInv, TypeOK, Video
<1>3. Blank \in Cell /\ BlankRow \in Row
  BY <1>2, BlankIsCell
<1>4. video' \in Video /\ \A i \in 0..((Height + 2) * Width - 1) :
                            video'[i] = IF i < ScreenSize THEN Blank ELSE video[i]
  BY <1>1, <1>2, <1>3 DEF Video
<1>5. rows' \in Seq(Row)
  <2>1. [y \in 1..Height |-> BlankRow] \in [1..Height -> Row]
    BY <1>3
  <2>2. [y \in 1..Height |-> BlankRow] \in Seq(Row)
    BY <2>1, Sizes
  <2> QED BY <1>1, <2>2
<1>6. 0 \in 0..((Height + 1) * Width) /\ 0 < ScreenSize
  BY Sizes
<1>7. TypeOK'
  BY <1>1, <1>2, <1>4, <1>5, <1>6 DEF TypeOK, Video, Row
<1>8. ASSUME ~strayed PROVE Shows(video', rows') /\ Clean(video')
  <2>1. rows' = [y \in 1..Height |-> BlankRow]
    BY <1>1, <1>8
  <2>2. Shows(video', [y \in 1..Height |-> BlankRow])
    BY <1>2, <1>4, BlankShows
  <2>3. Clean(video')
    BY <1>4, <1>8, Sizes DEF IInv, OnScreen, Clean
  <2> QED BY <2>1, <2>2, <2>3
<1>9. OnScreen'
  BY <1>1, <1>6, <1>8 DEF IInv, OnScreen, Shows, Clean, ScreenSize
<1> QED BY <1>1, <1>6, <1>7, <1>9 DEF IInv

LEMMA StepKeeps ==
  ASSUME IInv, [Next]_vars
  PROVE  IInv' /\ (video' # video => point' < ScreenSize)
<1>1. CASE PutNext
  <2>1. todo \in Seq(Codes) /\ todo # <<>>
    BY <1>1 DEF PutNext, IInv, TypeOK
  <2>2. Head(todo) \in Codes /\ Tail(todo) \in Seq(Codes)
    BY <2>1, HeadTailProperties
  <2> QED BY <1>1, <2>2, PrintKeeps DEF PutNext
<1>2. ASSUME NEW code \in Codes, NEW update \in BOOLEAN, PutChar(code, update)
      PROVE  IInv' /\ (video' # video => point' < ScreenSize)
  <2>1. todo' \in Seq(Codes) /\ (cursor' = point' \/ cursor' = cursor)
    BY <1>2 DEF PutChar, IInv, TypeOK
  <2> QED BY <1>2, <2>1, PrintKeeps DEF PutChar
<1>3. ASSUME NEW text \in Texts, PutString(text) PROVE IInv' /\ video' = video
  <2>1. /\ video' = video /\ point' = point /\ color' = color /\ rows' = rows
        /\ strayed' = strayed /\ (cursor' = point \/ cursor' = cursor) /\ todo' = text
    BY <1>3 DEF PutString
  <2>2. text \in Seq(Codes)
    BY TextsAssumption
  <2>3. TypeOK'
    BY <2>1, <2>2 DEF IInv, TypeOK
  <2>4. OnScreen'
    BY <2>1 DEF IInv, OnScreen, Shows, Clean, ScreenSize
  <2> QED BY <2>1, <2>3, <2>4 DEF IInv
<1>4. ASSUME NEW place \in Places, SetPosition(place[1], place[2])
      PROVE  IInv' /\ video' = video
  <2>1. place[1] \in Nat /\ place[2] \in Nat
    BY InputsAssumption
  <2> QED BY <1>4, <2>1, SetPositionKeeps
<1>5. ASSUME NEW more \in ForeColors \cup BackColors, SetForeColor(more) \/ SetBackColor(more)
      PROVE  IInv' /\ video' = video
  <2>1. /\ video' = video /\ point' = point /\ color' = color \cup more /\ rows' = rows
        /\ strayed' = strayed /\ cursor' = cursor /\ todo' = todo
    BY <1>5 DEF SetForeColor, SetBackColor
  <2>2. more \in SUBSET Nat
    BY InputsAssumption
  <2>3. TypeOK'
    BY <2>1, <2>2 DEF IInv, TypeOK
  <2>4. OnScreen'
    BY <2>1 DEF IInv, OnScreen, Shows, Clean, ScreenSize
  <2> QED BY <2>1, <2>3, <2>4 DEF IInv
<1>6. CASE ClearScreen
  BY <1>6, ClearScreenKeeps
<1>7. CASE UNCHANGED vars
  <2>1. TypeOK'
    BY <1>7 DEF vars, IInv, TypeOK
  <2>2. OnScreen' /\ video' = video
    BY <1>7 DEF vars, IInv, OnScreen, Shows, Clean, ScreenSize
  <2> QED BY <2>1, <2>2 DEF IInv
<1> QED BY <1>1, <1>2, <1>3, <1>4, <1>5, <1>6, <1>7 DEF Next

THEOREM InvariantHolds == Spec => []IInv
<1>1. Init => IInv
  BY InitIInv
<1>2. IInv /\ [Next]_vars => IInv'
  BY StepKeeps
<1> QED BY <1>1, <1>2, PTL DEF Spec

\* Whatever is printed, scrolled, positioned and coloured, the point stays within the two
\* rows behind the screen and video memory holds characters with colours.
THEOREM ScreenTypeCorrect == Spec => []TypeOK
<1>1. IInv => TypeOK
  BY DEF IInv
<1> QED BY <1>1, InvariantHolds, PTL

\* For every size of the screen, tab stop and text: as long as SetPosition has not left it,
\* the screen shows the last rows written, and nothing behind it was touched.
THEOREM ScreenIsSound == Spec => []ScreenSound
<1>1. IInv => ScreenSound
  BY IInvSound
<1> QED BY <1>1, InvariantHolds, PTL

\* A step that writes to video memory leaves the point on the screen, from wherever
\* SetPosition had put it: Scroll is called after every character.
THEOREM WritingReturns == Spec => WritingComesBack
<1>1. IInv /\ [Next]_vars => [video' # video => point' < ScreenSize]_vars
  BY StepKeeps
<1> QED BY <1>1, InvariantHolds, PTL DEF Spec, WritingComesBack
=============================================================================
