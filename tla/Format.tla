------------------------------- MODULE Format -------------------------------
(***************************************************************************)
(* vsprintf (src/klib/stdio/vsprintf.cpp) and the conversions it calls:    *)
(* one step per run of regular characters, per format tag, and the return. *)
(*                                                                         *)
(* A character is a one-letter string, a C string a sequence of them in a  *)
(* memory of cells numbered from 1, ended by NUL.  Memory the code reads   *)
(* without having written it (the caller's buffer, the bytes before a      *)
(* local array) holds the call's "junk".                                   *)
(***************************************************************************)
EXTENDS Integers, Sequences

CONSTANTS IntSize,        \* 2^32
          ShortSize,      \* 2^16
          PointerDigits,  \* 16: digits of a pointer on x86-64
          Cells,          \* bound: cells of the caller's buffer (MAX_LEN in Logger)
          Calls           \* the calls: [tag, fill, int, str, junk]

ASSUME FormatAssumption ==
  /\ IntSize \in Nat \ {0, 1} /\ ShortSize \in Nat \ {0, 1} /\ PointerDigits \in Nat
  /\ Cells \in Nat \ {0}

NUL == "nul"
Outside == "outside"           \* what lies behind the terminator of the format
Unset == -1                    \* width or precision not given
Star == -2                     \* width or precision is an argument (in a tag)
None == "none"                 \* no flag, no length (in a tag)
Filler == "_"

FLAGS_STRING == <<"-", "+", " ", "#", "0">>
LENGTH_STRING == <<"h", "l", "L">>
Lower == <<"0", "1", "2", "3", "4", "5", "6", "7", "8", "9", "a", "b", "c", "d", "e", "f">>
Upper == <<"0", "1", "2", "3", "4", "5", "6", "7", "8", "9", "A", "B", "C", "D", "E", "F">>
DigitsOnly == {Lower[i] : i \in 1..10}

Larger(a, b) == IF a > b THEN a ELSE b
Smaller(a, b) == IF a < b THEN a ELSE b
Times(c, n) == [i \in 1..n |-> c]

-----------------------------------------------------------------------------
(* The string functions of klib.                                           *)

\* strchr: the position of c in s, one past the end for the terminator, 0 for none.
StrChr(s, c) ==
  IF c = NUL THEN Len(s) + 1
  ELSE IF \E i \in DOMAIN s : s[i] = c THEN CHOOSE i \in DOMAIN s : s[i] = c ELSE 0

FirstNul(mem, at) ==
  CHOOSE i \in at..Len(mem) : mem[i] = NUL /\ \A j \in at..(i - 1) : mem[j] # NUL
CString(mem, at) == SubSeq(mem, at, FirstNul(mem, at) - 1)

\* Characters stored from a cell on, and a terminator behind them.
Stored(mem, at, s) ==
  [i \in DOMAIN mem |-> IF i \in at..(at + Len(s) - 1) THEN s[i - at + 1]
                        ELSE IF i = at + Len(s) THEN NUL ELSE mem[i]]

StrCat(mem, at, s) == Stored(mem, FirstNul(mem, at), s)

\* itoa, utoa, ltoa, ultoa: digits are produced last first, then reversed.
Digits(n, base, symbols) ==
  LET digits[m \in Nat] ==
        LET last == <<symbols[(m % base) + 1]>>
        IN IF m < base THEN last ELSE digits[m \div base] \o last
  IN digits[n]
ItoA(n, base, symbols) ==
  IF n < 0 THEN <<"-">> \o Digits(-n, base, symbols) ELSE Digits(n, base, symbols)

Signed(n, size) == IF n % size >= size \div 2 THEN (n % size) - size ELSE n % size

-----------------------------------------------------------------------------
(* One conversion.  f is the format_specifier_t: [flag, width, prec,       *)
(* length, spec], its flag a position in FLAGS_STRING or 0.                *)

Left(f) == f.flag = 1
ForceSign(f) == f.flag = 2
LeadSign(f) == f.flag = 4 \/ f.spec = "p"
PadZeroes(f) == f.flag = 5 \/ f.spec = "p"

NumberDigits(f, v) ==
  LET base == IF f.spec \in {"x", "X", "p"} THEN 16 ELSE 10
      symbols == IF f.spec \in {"X", "p"} THEN Upper ELSE Lower
      size == IF f.length = "h" THEN ShortSize ELSE IntSize
  IN IF f.length = "L" \/ f.spec = "p" THEN Digits(v, base, symbols)
     ELSE IF f.spec \in {"d", "i"} THEN ItoA(Signed(v, size), base, symbols)
     ELSE Digits(v % size, base, symbols)

Prefix(f) ==
  IF f.spec \in {"d", "i"} /\ ForceSign(f) THEN <<"+">>
  ELSE IF LeadSign(f) THEN <<"0", "x">> ELSE <<>>

\* The field once '0' has turned the width into a precision: digits wanted, columns
\* wanted, zeros before the digits, spaces around them.
Field(f, len) ==
  LET given == IF f.spec = "p" THEN PointerDigits ELSE f.prec
      prec == IF PadZeroes(f) THEN Larger(given, f.width) ELSE given
      width == IF PadZeroes(f) THEN 0 ELSE f.width
  IN [prec |-> prec, width |-> width,
      zeros |-> Larger(prec - len, 0),
      spaces |-> Larger(width - Larger(len, prec), 0)]

NumberCount(f, len) ==
  LET a == Field(f, len)
  IN Larger(len, Larger(a.prec, a.width)) + Len(Prefix(f))

\* print_number_ul: what it stores.  Left justified digits are read zeros places early.
NumberText(f, v, junk) ==
  LET digits == NumberDigits(f, v)
      len == Len(digits)
      a == Field(f, len)
      blanks == Times(" ", Larger(a.spaces - Len(Prefix(f)), 0))
      early == [i \in 1..len |-> IF i > a.zeros THEN digits[i - a.zeros] ELSE junk]
  IN IF len > a.prec /\ len > a.width THEN Prefix(f) \o digits
     ELSE IF Left(f) THEN Prefix(f) \o Times("0", a.zeros) \o early \o blanks
     ELSE blanks \o Prefix(f) \o Times("0", a.zeros) \o digits

PrintNumber(f, v, junk) ==
  IF f.prec = 0 /\ v = 0 /\ f.spec # "p" THEN [text |-> <<>>, count |-> 0]
  ELSE LET text == NumberText(f, v, junk)
       IN [text |-> CString(Append(text, NUL), 1),
           count |-> NumberCount(f, Len(NumberDigits(f, v)))]

\* print_string
StringText(f, s) ==
  LET shown == IF f.prec = Unset THEN s ELSE SubSeq(s, 1, Smaller(Len(s), f.prec))
      blanks == Times(" ", Larger(f.width - Len(shown), 0))
  IN IF Left(f) THEN shown \o blanks ELSE blanks \o shown

-----------------------------------------------------------------------------
(* A call.                                                                 *)

\* The documented prototype %[flags][width][.precision][length]specifier; with fill, one
\* character more behind the place of the flags and behind the place of the length.
Optional(c) == IF c = None THEN <<>> ELSE <<c>>
Amount(n) == IF n = Star THEN <<"*">> ELSE IF n = Unset THEN <<>> ELSE <<Lower[n + 1]>>
Spelled(tag, fill) ==
  LET extra == IF fill THEN <<Filler>> ELSE <<>>
  IN tag.pre \o <<"%">> \o Optional(tag.flag) \o extra \o Amount(tag.width)
       \o (IF tag.prec = Unset THEN <<>> ELSE <<".">> \o Amount(tag.prec))
       \o Optional(tag.length) \o extra \o <<tag.spec>> \o tag.post

VARIABLES call,    \* the call, one of Calls
          ptr,     \* next character of the format
          mem,     \* the caller's buffer
          value,   \* next cell of the buffer
          count,   \* i
          pc,      \* "scan", "done", or "past": it reads behind the format's terminator
          ret      \* what it returns

vars == <<call, ptr, mem, value, count, pc, ret>>

format == Spelled(call.tag, call.fill)
At(i) == IF i <= Len(format) THEN format[i] ELSE IF i = Len(format) + 1 THEN NUL ELSE Outside

Init ==
  /\ call \in Calls
  /\ ptr = 1
  /\ mem = [i \in 1..Cells |-> IF i = Cells THEN NUL ELSE call.junk]
  /\ value = 1
  /\ count = 0
  /\ pc = "scan"
  /\ ret = 0

\* A run of digits, and atoi of it; * takes the argument's absolute value, which is 3.
PastDigits(i) ==
  CHOOSE j \in i..Larger(i, Len(format) + 2) :
    /\ At(j) \notin DigitsOnly
    /\ \A k \in i..(j - 1) : At(k) \in DigitsOnly
Number(i, j) ==
  LET n[k \in Nat] == IF k < i THEN 0 ELSE n[k - 1] * 10 + StrChr(Lower, At(k)) - 1
  IN n[j - 1]
StarValue == 3
ReadAmount(i) ==
  IF At(i) = "*" THEN [n |-> StarValue, next |-> i + 1]
  ELSE LET j == PastDigits(i)
       IN [n |-> IF j = i THEN Unset ELSE Number(i, j), next |-> j]

\* The flag and the length are each probed with *ptr++, and found ones skip once more.
Flag(i) == LET k == StrChr(FLAGS_STRING, At(i))
           IN [n |-> k, next |-> IF k = 0 THEN i + 1 ELSE i + 2]
\* Mutant: a length is taken for granted.
LengthAssumed(i) == LET k == StrChr(LENGTH_STRING, At(i))
                    IN [n |-> IF k \in DOMAIN LENGTH_STRING THEN LENGTH_STRING[k] ELSE None,
                        next |-> i + 2]
Length(i) == LET k == StrChr(LENGTH_STRING, At(i))
             IN [n |-> IF k \in DOMAIN LENGTH_STRING THEN LENGTH_STRING[k] ELSE None,
                 next |-> IF k = 0 THEN i + 1 ELSE i + 2]

\* From behind the % to behind the specifier.
Tag(i) ==
  LET fl == Flag(i)
      w == ReadAmount(fl.next)
      p == IF At(w.next) = "." THEN ReadAmount(w.next + 1) ELSE [n |-> Unset, next |-> w.next]
      l == Length(p.next)
  IN [flag |-> fl.n, width |-> w.n, prec |-> p.n, length |-> l.n,
      spec |-> At(l.next), next |-> l.next + 1]

\* Mutant: the characters of a conversion are counted, but the next one overwrites them.
AdvanceCountOnly(n) ==
  /\ value' = value
  /\ count' = count + n
Advance(n) ==
  /\ value' = value + n
  /\ count' = count + n

\* Regular characters up to the next % or the end.
Regular ==
  /\ pc = "scan"
  /\ At(ptr) \notin {"%", NUL}
  /\ LET stop == CHOOSE j \in ptr..(Len(format) + 1) :
                   At(j) \in {"%", NUL} /\ \A k \in ptr..(j - 1) : At(k) \notin {"%", NUL}
     IN /\ mem' = Stored(mem, value, SubSeq(format, ptr, stop - 1))
        /\ Advance(stop - ptr)
        /\ ptr' = stop
  /\ UNCHANGED <<call, pc, ret>>

Specifier ==
  /\ pc = "scan"
  /\ At(ptr) = "%"
  /\ LET f == Tag(ptr + 1)
     IN /\ ptr' = f.next
        /\ \/ /\ f.spec = Outside
              /\ pc' = "past"
              /\ UNCHANGED <<mem, value, count, ret>>
           \/ /\ f.spec \in {"d", "i", "u", "x", "X", "p"}
              /\ LET out == PrintNumber(f, call.int, call.junk)
                 IN /\ mem' = StrCat(mem, value, out.text)
                    /\ Advance(out.count)
              /\ UNCHANGED <<pc, ret>>
           \/ /\ f.spec \in {"c", "%"}
              /\ mem' = Stored(mem, value, <<IF f.spec = "c" THEN "c" ELSE "%">>)
              /\ Advance(1)
              /\ UNCHANGED <<pc, ret>>
           \/ /\ f.spec = "s"
              /\ LET text == StringText(f, call.str)
                 IN /\ mem' = IF text = <<>> THEN mem ELSE Stored(mem, value, text)
                    /\ Advance(Len(text))
              /\ UNCHANGED <<pc, ret>>
           \/ /\ f.spec \notin {Outside, "d", "i", "u", "x", "X", "p", "c", "%", "s"}
              /\ pc' = "done"
              /\ ret' = -2
              /\ UNCHANGED <<mem, value, count>>
  /\ UNCHANGED call

Return ==
  /\ pc = "scan"
  /\ At(ptr) = NUL
  /\ pc' = "done"
  /\ ret' = count
  /\ UNCHANGED <<call, ptr, mem, value, count>>

Next == Regular \/ Specifier \/ Return

Spec == Init /\ [][Next]_vars

-----------------------------------------------------------------------------
(* What printf's description promises for a tag, written independently.    *)

\* The shortest numeral of n in a base.
Numeral(n, base, symbols) ==
  LET len == CHOOSE l \in 1..32 : n < base^l /\ (l = 1 \/ n >= base^(l - 1))
  IN [i \in 1..len |-> symbols[((n \div base^(len - i)) % base) + 1]]

Given(n) == IF n = Star THEN StarValue ELSE n

\* "A precision of 0 means that no character is written for the value 0."
NoDigits(tag, v) == Given(tag.prec) = 0 /\ v = 0

DocNumber(tag, v) ==
  LET size == IF tag.length = "h" THEN ShortSize ELSE IntSize
      n == IF tag.spec = "d" THEN Signed(v, size) ELSE v % size
      digits == Numeral(IF n < 0 THEN -n ELSE n, IF tag.spec \in {"x", "X"} THEN 16 ELSE 10,
                        IF tag.spec = "X" THEN Upper ELSE Lower)
      zeros == Times("0", Larger(Given(tag.prec) - Len(digits), 0))
  IN IF NoDigits(tag, v) THEN <<>>
     ELSE (IF n < 0 THEN <<"-">> ELSE <<>>) \o zeros \o digits

\* "If precision has been specified, `Width` will be ignored."
DocText(c) ==
  LET body == IF c.tag.spec = "%" THEN <<"%">>
              ELSE IF c.tag.spec = "c" THEN <<"c">>
              ELSE IF c.tag.spec = "s"
                   THEN SubSeq(c.str, 1, IF c.tag.prec = Unset THEN Len(c.str)
                                         ELSE Smaller(Len(c.str), Given(c.tag.prec)))
                   ELSE DocNumber(c.tag, c.int)
      missing == IF c.tag.prec = Unset THEN Larger(Given(c.tag.width) - Len(body), 0) ELSE 0
  IN IF c.tag.spec \in {"c", "%"} THEN body
     ELSE IF c.tag.flag = "-" THEN body \o Times(" ", missing)
     ELSE IF c.tag.flag = "0" /\ c.tag.spec # "s" THEN Times("0", missing) \o body
     ELSE Times(" ", missing) \o body

Visible == CString(mem, 1)
Numeric == call.tag.spec \in {"d", "u", "x", "X"}

CallDigits == NumberDigits([length |-> call.tag.length, spec |-> call.tag.spec], call.int)
ZerosWanted ==
  (IF call.tag.flag = "0" THEN Larger(Given(call.tag.prec), Given(call.tag.width))
   ELSE Given(call.tag.prec)) > Len(CallDigits)

\* A left justified number with leading zeros: its digits are read early.
DigitsEarly ==
  /\ call.tag.flag = "-"
  /\ call.tag.spec = "p" \/ (Numeric /\ ZerosWanted)

\* A sign or a prefix in a field: it is counted once more than it takes room.
PrefixInField ==
  call.tag.flag \in {"+", "#"} /\ Given(call.tag.width) # Unset

\* A width that a precision should have switched off: the field is padded all the same.
WidthKept ==
  /\ call.tag.prec # Unset
  /\ Given(call.tag.width) > Len(DocText(call))
  /\ Numeric => ~NoDigits(call.tag, call.int)

\* What else the code does not deliver as documented, each for a reason of its own: a sign
\* or a prefix; digits read early; the minus sign counts as a digit when zeros are wanted;
\* a negative int with length L (the argument is fetched as unsigned).
Excepted ==
  Numeric /\
    \/ call.tag.flag \in {"+", "#"}
    \/ DigitsEarly
    \/ (CallDigits[1] = "-" /\ ZerosWanted)
    \/ (call.tag.length = "L" /\ call.tag.spec = "d" /\ Signed(call.int, IntSize) < 0)

\* Bytes of the caller's buffer are used before they are written: strcat appends a number
\* behind whatever stands at the start of the buffer, an empty string stores nothing.
BufferRead ==
  call.junk # NUL /\ call.tag.pre = <<>> /\ (Numeric \/ call.tag.spec = "p" \/ DocText(call) = <<>>)

Returned == pc = "done" /\ ret >= 0

TypeOK ==
  /\ call \in Calls
  /\ ptr \in 1..(Len(format) + 5)
  /\ mem \in Seq(STRING) /\ Len(mem) = Cells
  /\ value \in 1..Cells /\ count = value - 1
  /\ pc \in {"scan", "done", "past"}
  /\ ret \in Nat \cup {-2}

Compared == pc # "scan" /\ call.fill /\ call.tag.spec # "p" /\ ~Excepted
Documented == Visible = call.tag.pre \o DocText(call) \o call.tag.post

\* With one character more behind the flags and one behind the length, which the two
\* probes swallow, every documented tag is recognised, the scan stays inside the format,
\* and what is printed is what the documentation says.
FilledAsDocumented ==
  /\ pc # "scan" /\ call.fill => Returned
  /\ Compared /\ ~WidthKept /\ ~BufferRead => Documented

\* The return value, which Logger takes for the number of bytes to send, is the length of
\* the string in a cleared buffer, with these two exceptions.
CountIsLength ==
  Returned /\ call.junk = NUL /\ ~DigitsEarly /\ ~PrefixInField => ret = Len(Visible)

\* What vsprintf leaves in the buffer and what it returns, together.
OutputRight == FilledAsDocumented /\ CountIsLength

-----------------------------------------------------------------------------
(* What the documentation says and the code does not do.                   *)

\* A tag is written %[flags][width][.precision][length]specifier.
PrototypeUnderstood == pc # "scan" /\ ~call.fill => Returned

\* "If precision has been specified, `Width` will be ignored."
WidthIgnored ==
  Compared /\ call.tag.prec # Unset /\ ~BufferRead => Documented

\* The result is stored in str, whatever str held before.
StoredInBuffer ==
  Compared /\ ~WidthKept => Documented

=============================================================================
