------------------------------- MODULE Printk -------------------------------
(***************************************************************************)
(* Formatted output of integers, characters and strings: _vsnprintf and    *)
(* its helpers (kernel/printk.c), as printf (to the console) and snprintf  *)
(* (to a buffer) use it.  Each part of a directive is a step; `put' is     *)
(* what has been passed to the output function so far.                     *)
(*                                                                         *)
(* A format is a sequence of characters.  The directive it was written     *)
(* from is kept in the call, for the definition of what C requires.        *)
(***************************************************************************)
EXTENDS Integers, Sequences, SequencesExt

CONSTANTS
  PrintCalls,   \* calls: [fmt, args, room, dir, value, after];
                \* room is -1 for the console
  NtoaBuffer,   \* PRINTF_NTOA_BUFFER_SIZE
  CharMod, ShortMod, IntMod, LongMod,   \* number of values of each type
  PointerDigits \* of a pointer in hexadecimal

ASSUME PrintAssumption ==
  /\ NtoaBuffer \in Nat \ {0} /\ PointerDigits \in Nat
  /\ {CharMod, ShortMod, IntMod, LongMod} \subseteq Nat \ {0}

Nothing == "\\0"
Digit == <<"0", "1", "2", "3", "4", "5", "6", "7", "8", "9", "a", "b", "c", "d", "e", "f">>
Upper == <<"0", "1", "2", "3", "4", "5", "6", "7", "8", "9", "A", "B", "C", "D", "E", "F">>
Decimal == {Digit[k] : k \in 1 .. 10}

VARIABLES
  pcall,        \* the call
  fmt, va,      \* what is left of the format and of the arguments
  flags,        \* "0", "-", "+", " ", "#", "." and lengths seen
  width, prec,
  put, pstage

fmtVars == <<pcall, fmt, va, flags, width, prec, put, pstage>>

FmtStart ==
  /\ pcall \in PrintCalls
  /\ fmt = pcall.fmt /\ va = pcall.args /\ flags = {} /\ width = 0 /\ prec = 0
  /\ put = <<>> /\ pstage = "text"

(* *format, the terminator included.                                       *)
Char == IF fmt = <<>> THEN Nothing ELSE Head(fmt)
Skip(n) == fmt' = SubSeq(fmt, n + 1, Len(fmt))
Out(s) == put' = put \o s
Repeat(c, n) == [k \in 1 .. n |-> c]
Least(a, b) == IF a < b THEN a ELSE b

FmtText ==
  /\ pstage = "text" /\ Char \notin {"%", Nothing}
  /\ Out(<<Char>>) /\ Skip(1)
  /\ UNCHANGED <<pcall, va, flags, width, prec, pstage>>

FmtPercent ==
  /\ pstage = "text" /\ Char = "%"
  /\ Skip(1) /\ flags' = {} /\ pstage' = "flags"
  /\ UNCHANGED <<pcall, va, width, prec, put>>

FmtFlag ==
  /\ pstage = "flags" /\ Char \in {"0", "-", "+", " ", "#"}
  /\ flags' = flags \cup {Char} /\ Skip(1)
  /\ UNCHANGED <<pcall, va, width, prec, put, pstage>>

(* _atoi: the digits the format begins with, and their value.              *)
Digits(f) == CHOOSE n \in 0 .. Len(f) :
  /\ \A k \in 1 .. n : f[k] \in Decimal
  /\ n < Len(f) => f[n + 1] \notin Decimal
DigitValue(c) == (CHOOSE k \in 1 .. 16 : Digit[k] = c) - 1
Atoi(f) ==
  LET v[n \in 0 .. Digits(f)] == IF n = 0 THEN 0 ELSE 10 * v[n - 1] + DigitValue(f[n])
  IN  v[Digits(f)]

FmtWidth ==
  /\ pstage = "flags" /\ Char \notin {"0", "-", "+", " ", "#"}
  /\ IF Char = "*"
       THEN /\ width' = IF Head(va) < 0 THEN -Head(va) ELSE Head(va)
            /\ flags' = IF Head(va) < 0 THEN flags \cup {"-"} ELSE flags
            /\ va' = Tail(va) /\ Skip(1)
       ELSE /\ width' = Atoi(fmt) /\ Skip(Digits(fmt))
            /\ UNCHANGED <<va, flags>>
  /\ pstage' = "precision"
  /\ UNCHANGED <<pcall, prec, put>>

FmtPrecision ==
  /\ pstage = "precision"
  /\ LET rest == Tail(fmt)
     IN  IF Char # "." THEN prec' = 0 /\ UNCHANGED <<fmt, va, flags>>
         ELSE /\ flags' = flags \cup {"."}
              /\ IF rest # <<>> /\ Head(rest) = "*"
                   THEN /\ prec' = IF Head(va) > 0 THEN Head(va) ELSE 0
                        /\ va' = Tail(va) /\ Skip(2)
                   ELSE /\ prec' = Atoi(rest) /\ Skip(1 + Digits(rest))
                        /\ UNCHANGED va
  /\ pstage' = "length"
  /\ UNCHANGED <<pcall, width, put>>

(* l, ll, h, hh; t, j and z are those of a long.                           *)
FmtLength ==
  /\ pstage = "length"
  /\ LET twice == Len(fmt) > 1 /\ fmt[2] = Char
     IN  CASE Char = "l" -> flags' = flags \cup {"l"} /\ Skip(IF twice THEN 2 ELSE 1)
           [] Char = "h" -> /\ flags' = flags \cup (IF twice THEN {"h", "hh"} ELSE {"h"})
                            /\ Skip(IF twice THEN 2 ELSE 1)
           [] Char \in {"t", "j", "z"} -> flags' = flags \cup {"l"} /\ Skip(1)
           [] OTHER -> UNCHANGED <<fmt, flags>>
  /\ pstage' = "specifier"
  /\ UNCHANGED <<pcall, va, width, prec, put>>

-----------------------------------------------------------------------------
(* The digits of a value, last one first, as many as the buffer holds.     *)
ReverseDigits(v, base, names, room) ==
  LET d[n \in 0 .. room] ==
        IF n = 0 THEN [left |-> v, buf |-> <<>>]
        ELSE LET p == d[n - 1]
             IN  IF p.left = 0 /\ p.buf # <<>> THEN p
                 ELSE [left |-> p.left \div base, buf |-> Append(p.buf, names[(p.left % base) + 1])]
  IN  d[room].buf

(* _out_rev.                                                               *)
OutRev(buf, w, fl) ==
  LET pad == Repeat(" ", w - Len(buf))
  IN  CASE "-" \in fl -> Reverse(buf) \o pad
        [] fl \cap {"-", "0"} = {} -> pad \o Reverse(buf)
        [] OTHER -> Reverse(buf)

(* What _ntoa_format adds to the digits: zeros, the prefix, the sign.      *)
Zeros(buf, n) == buf \o Repeat("0", Least(n, NtoaBuffer) - Len(buf))
Push(buf, c) == IF Len(buf) < NtoaBuffer THEN Append(buf, c) ELSE buf
Padded(buf, w, p, fl) ==
  IF "-" \in fl THEN buf
  ELSE IF "0" \in fl THEN Zeros(Zeros(buf, p), w) ELSE Zeros(buf, p)
Shorter(buf, w, p, base, fl) ==
  LET n == Len(buf)
  IN  IF "." \in fl \/ n = 0 \/ n \notin {w, p} THEN buf
      ELSE SubSeq(buf, 1, IF n > 1 /\ base = 16 THEN n - 2 ELSE n - 1)
Prefix(buf, base, fl) ==
  CASE base = 16 -> Push(Push(buf, IF "X" \in fl THEN "X" ELSE "x"), "0")
    [] base = 2 -> Push(Push(buf, "b"), "0")
    [] OTHER -> Push(buf, "0")
Sign(buf, negative, fl) ==
  IF negative THEN Push(buf, "-")
  ELSE IF "+" \in fl THEN Push(buf, "+") ELSE IF " " \in fl THEN Push(buf, " ") ELSE buf

NtoaFormat(buf, negative, base, p, w0, fl) ==
  LET w == IF "-" \notin fl /\ w0 # 0 /\ "0" \in fl /\ (negative \/ fl \cap {"+", " "} # {})
             THEN w0 - 1 ELSE w0
      padded == Padded(buf, w, p, fl)
      hashed == IF "#" \in fl THEN Prefix(Shorter(padded, w, p, base, fl), base, fl) ELSE padded
  IN  OutRev(Sign(hashed, negative, fl), w, fl)

(* _ntoa_long, and _ntoa_long_long, whose types are as wide.               *)
Ntoa(v, negative, base, p, w, fl0) ==
  LET fl == IF v = 0 THEN fl0 \ {"#"} ELSE fl0
      names == IF "X" \in fl THEN Upper ELSE Digit
      buf == IF "." \in fl /\ v = 0 THEN <<>> ELSE ReverseDigits(v, base, names, NtoaBuffer)
  IN  NtoaFormat(buf, negative, base, p, w, fl)
NtoaLongLong(v, negative, base, p, w, fl) == Ntoa(v, negative, base, p, w, fl)

(* An argument as a value of the type the length stands for.               *)
Mod(fl) == IF "l" \in fl THEN LongMod ELSE IF "hh" \in fl THEN CharMod
           ELSE IF "h" \in fl THEN ShortMod ELSE IntMod
AsSigned(v, m) == ((v + m \div 2) % m) - m \div 2
Base(c) == CASE c \in {"x", "X"} -> 16 [] c = "o" -> 8 [] c = "b" -> 2 [] OTHER -> 10

(* The flags left for an integer of a specifier.                           *)
IntFlags_KeepZero(c) ==
  ((flags \ (IF Base(c) = 10 THEN {"#"} ELSE {})) \ (IF c \in {"d", "i"} THEN {} ELSE {"+", " "}))
    \cup (IF c = "X" THEN {"X"} ELSE {})
IntFlags(c) ==
  (((flags \ (IF Base(c) = 10 THEN {"#"} ELSE {})) \ (IF c \in {"d", "i"} THEN {} ELSE {"+", " "}))
     \ (IF "." \in flags THEN {"0"} ELSE {}))
    \cup (IF c = "X" THEN {"X"} ELSE {})

Directive(s) ==
  /\ Out(s) /\ Skip(1) /\ pstage' = "text"
  /\ UNCHANGED <<pcall, flags, width, prec>>

FmtSigned ==
  /\ pstage = "specifier" /\ Char \in {"d", "i"}
  /\ LET v == AsSigned(Head(va), Mod(flags))
     IN  Directive(Ntoa(IF v > 0 THEN v ELSE -v, v < 0, 10, prec, width, IntFlags(Char)))
  /\ va' = Tail(va)

FmtUnsigned ==
  /\ pstage = "specifier" /\ Char \in {"u", "x", "X", "o", "b"}
  /\ Directive(Ntoa(Head(va) % Mod(flags), FALSE, Base(Char), prec, width, IntFlags(Char)))
  /\ va' = Tail(va)

FmtPointer ==
  /\ pstage = "specifier" /\ Char = "p"
  /\ Directive(NtoaLongLong(Head(va) % LongMod, FALSE, 16, prec, PointerDigits, flags \cup {"0", "X"}))
  /\ va' = Tail(va)

Pad(s, l) ==
  IF "-" \in flags THEN s \o Repeat(" ", width - l) ELSE Repeat(" ", width - l) \o s
FmtChar ==
  /\ pstage = "specifier" /\ Char = "c"
  /\ Directive(Pad(<<Head(va)>>, 1))
  /\ va' = Tail(va)

FmtString ==
  /\ pstage = "specifier" /\ Char = "s"
  /\ LET s == IF "." \in flags THEN SubSeq(Head(va), 1, Least(prec, Len(Head(va)))) ELSE Head(va)
     IN  Directive(Pad(s, Len(s)))
  /\ va' = Tail(va)

(* '%', and any other character, stands for itself ...                     *)
FmtOther ==
  /\ pstage = "specifier"
  /\ Char \notin {"d", "i", "u", "x", "X", "o", "b", "p", "c", "s", Nothing}
  /\ Directive(<<Char>>)
  /\ UNCHANGED va

(* ... but a format that ends there is read beyond its end.                *)
FmtOverrun ==
  /\ pstage = "specifier" /\ Char = Nothing
  /\ pstage' = "overrun" /\ Out(<<Nothing>>)
  /\ UNCHANGED <<pcall, fmt, va, flags, width, prec>>

(* The terminator.                                                         *)
FmtEnd ==
  /\ pstage = "text" /\ Char = Nothing
  /\ pstage' = "done"
  /\ UNCHANGED <<pcall, fmt, va, flags, width, prec, put>>

FmtNext ==
  \/ FmtText \/ FmtPercent \/ FmtFlag \/ FmtWidth \/ FmtPrecision \/ FmtLength
  \/ FmtSigned \/ FmtUnsigned \/ FmtPointer \/ FmtChar \/ FmtString \/ FmtOther
  \/ FmtOverrun \/ FmtEnd

(* _out_char drops null characters, _out_buffer keeps what fits, and the   *)
(* last byte is the terminator.                                            *)
OutChar(s) == SelectSeq(s, LAMBDA c : c # Nothing)
OutBuffer(s, room) == SubSeq(s, 1, Least(Len(s), room - 1))

(* What the callers of printf_ and of snprintf_ get.                       *)
Printed == OutChar(put)
Buffer == OutBuffer(put, pcall.room)

-----------------------------------------------------------------------------
(* What C says a directive d = [flags, width, prec, length, spec] prints   *)
(* of an argument; prec is negative when there is none.                    *)
Leftmost(d) == "-" \in d.flags \/ d.width < 0
Size(d) == IF d.width < 0 THEN -d.width ELSE d.width
Value(d, v) ==
  LET m == Mod({d.length}) IN IF d.spec \in {"d", "i"} THEN AsSigned(v, m) ELSE v % m
Magnitude(d, v) == IF Value(d, v) < 0 THEN -Value(d, v) ELSE Value(d, v)
Plain(d, v) ==
  IF d.prec = 0 /\ Value(d, v) = 0 THEN <<>>
  ELSE Reverse(ReverseDigits(Magnitude(d, v), Base(d.spec), IF d.spec = "X" THEN Upper ELSE Digit, 32))
WithZeros(s, n) == Repeat("0", n - Len(s)) \o s
WantedSign(d, v) ==
  IF Value(d, v) < 0 THEN <<"-">>
  ELSE IF d.spec \notin {"d", "i"} THEN <<>>
  ELSE IF "+" \in d.flags THEN <<"+">> ELSE IF " " \in d.flags THEN <<" ">> ELSE <<>>
WantedPrefix(d, v) ==
  IF "#" \notin d.flags \/ Value(d, v) = 0 THEN <<>>
  ELSE CASE d.spec \in {"x", "X", "b"} -> <<"0", d.spec>>
         [] d.spec = "o" -> IF d.prec > Len(Plain(d, v)) THEN <<>> ELSE <<"0">>
         [] OTHER -> <<>>
WantedInteger(d, v) ==
  LET front == WantedSign(d, v) \o WantedPrefix(d, v)
      digits == WithZeros(Plain(d, v), d.prec)
  IN  IF Leftmost(d) THEN front \o digits \o Repeat(" ", Size(d) - Len(front \o digits))
      ELSE IF "0" \in d.flags /\ d.prec < 0
             THEN front \o WithZeros(digits, Size(d) - Len(front))
      ELSE Repeat(" ", Size(d) - Len(front \o digits)) \o front \o digits
WantedText(d, s) ==
  LET t == IF d.spec = "s" /\ d.prec >= 0 THEN SubSeq(s, 1, Least(d.prec, Len(s))) ELSE s
  IN  IF Leftmost(d) THEN t \o Repeat(" ", Size(d) - Len(t)) ELSE Repeat(" ", Size(d) - Len(t)) \o t
IsInteger(d) == d.spec \in {"d", "i", "u", "x", "X", "o", "b"}
Wanted(d, v) ==
  CASE IsInteger(d) -> WantedInteger(d, v)
    [] d.spec = "c" -> WantedText(d, <<v>>)
    [] d.spec = "s" -> WantedText(d, v)
    [] d.spec = "p" -> WithZeros(Plain([d EXCEPT !.prec = -1, !.spec = "X", !.length = "l"], v), PointerDigits)
    [] OTHER -> <<d.spec>>

(* Where the code prints something else: a precision and '-' together; a   *)
(* prefix with a width that the digits fill, which costs digits; a         *)
(* negative precision; more than the buffer holds; and for octal numbers   *)
(* with a precision a zero too many.                                       *)
Differs(d, v) ==
  LET n == Len(Plain(d, v))
      zeros == "0" \in d.flags /\ ~Leftmost(d)
      hash == "#" \in d.flags /\ Value(d, v) # 0 /\ Base(d.spec) # 10
      octal == hash /\ d.spec = "o"
  IN  IsInteger(d) /\
      (\/ Leftmost(d) /\ d.prec > n /\ ~(octal /\ d.prec = n + 1)
       \/ hash /\ d.prec < 0 /\ (n = Size(d) \/ (zeros /\ d.spec # "o" /\ n + 1 = Size(d)))
       \/ hash /\ d.prec < 0 /\ zeros /\ d.spec = "b" /\ n < Size(d)
       \/ octal /\ d.prec > n /\ ~Leftmost(d)
       \/ d.star /\ d.prec < 0 /\ (Value(d, v) = 0 \/ (zeros /\ n < Size(d)))
       \/ Len(WithZeros(Plain(d, v), d.prec)) + Len(WantedSign(d, v) \o WantedPrefix(d, v)) > NtoaBuffer
       \/ zeros /\ d.prec < 0 /\ Size(d) > NtoaBuffer)

(* A directive prints what C requires in all but these cases; the console  *)
(* gets it without null characters, a buffer as much as fits before the    *)
(* terminator; and the length returned is that of the whole.               *)
FormatRight ==
  pstage = "done" =>
    LET want == Wanted(pcall.dir, pcall.value) \o pcall.after
    IN  ~Differs(pcall.dir, pcall.value) <=>
          /\ Len(put) = Len(want)
          /\ IF pcall.room < 0 THEN Printed = SelectSeq(want, LAMBDA c : c # Nothing)
             ELSE Buffer = SubSeq(want, 1, Least(Len(want), pcall.room - 1))
=============================================================================
