----------------------------- MODULE MCStartup -----------------------------
(***************************************************************************)
(* The parts of the kernel that run from its first instruction: the memory *)
(* set-up, formatted output, the console it goes to, interrupt entry, and  *)
(* the unpacking of the first files.  They share no state, so that a       *)
(* behaviour takes the steps of one of them.                               *)
(***************************************************************************)
EXTENDS MemInit, FbConsole, Printk, IrqFrame, Initramfs, FiniteSetsExt

VARIABLE part    \* the part that runs

allVars == <<part, memVars, conVars, fmtVars, irqVars, tarVars>>

(* Memory maps of up to three entries, one after the other with a gap: too *)
(* little memory for one block of the top order, as much as makes a bitmap *)
(* of whole words, more; entries that are no memory, or above 4 GiB.       *)
Entry ==
  [gap : {0, 256}, pages : {3, 600, 1023, 33792, 40000}, type : {0}]
    \cup [gap : {5, 1048576}, pages : {700}, type : {0, 1}]
BaseOf(s, k) ==
  LET end[j \in 0 .. k] == IF j = 0 THEN 0 ELSE end[j - 1] + s[j].gap + s[j].pages
  IN  end[k] - s[k].pages
MCMemMaps ==
  {[k \in DOMAIN s |-> [type |-> s[k].type, base |-> BaseOf(s, k), pages |-> s[k].pages]] :
     s \in UNION {[1 .. n -> Entry] : n \in 1 .. 3}}

(* All vectors but those of two exceptions that cannot happen.             *)
MCVectors == 0 .. 255 \ {21, 29}
MCNumbers == {-1, 0, 2, 3, 4}

(* Directories and files of archives: files in and out of a directory,     *)
(* below a file, with names that begin otherwise, or archives themselves.  *)
Member(type, name, size, data) == [type |-> type, name |-> name, size |-> size, data |-> data]
At1(rest) == Name(1, <<"">> \o rest)
MCMembers ==
  {Member(DirType, At1(<<"">>), 0, <<>>), Member(DirType, At1(<<"a", "">>), 0, <<>>),
   Member(DirType, Name(0, <<"", "a", "d">>), 0, <<>>), Member(DirType, Name(0, <<"e", "">>), 0, <<>>),
   Member(RegType, At1(<<"a", "b">>), 9, <<Filler, Filler>>),
   Member(RegType, At1(<<"c">>), 0, <<>>), Member(RegType, Name(0, <<"", "c", "f">>), 0, <<>>),
   Member(RegType, Name(0, <<"g">>), 0, <<>>), Member(RegType, Name(1, <<"h">>), 3, <<Filler>>),
   Member(RegType, At1(<<"t">>), 16, <<Header(RegType, At1(<<"i">>), 8), Filler>>),
   Member(RegType, At1(<<"u">>), 8, <<Header(DirType, At1(<<"a">>), 0)>>),
   Member(ARegType, At1(<<"o">>), 8, <<Filler>>), Member("2", Name(0, <<"l">>), 0, <<>>)}

(* Directives, as records and as text.                                     *)
Number(n) == <<Digit[n + 1]>>
Written(d) ==
  <<"%">> \o SetToSeq(d.flags)
    \o (IF d.star THEN <<"*">> ELSE IF d.width = 0 THEN <<>> ELSE Number(d.width))
    \o (IF d.star THEN <<".", "*">> ELSE IF d.prec < 0 THEN <<>> ELSE <<".">> \o Number(d.prec))
    \o (CASE d.length = "none" -> <<>> [] d.length = "hh" -> <<"h", "h">> [] OTHER -> <<d.length>>)
    \o <<d.spec>>

Integers1 ==
  [flags : SUBSET {"0", "-", "+", "#"}, width : {0, 3, 4}, prec : {-1, 0, 2},
   length : {"none", "hh"}, spec : {"d", "x", "o", "X"}, star : {FALSE}]
Integers2 ==
  [flags : {{}, {"0"}, {" "}}, width : {5, 9}, prec : {-1, 3}, length : {"l", "h"},
   spec : {"d", "b"}, star : {FALSE}]
Starred ==
  [flags : {{}, {"0"}, {" "}}, width : {-5, 5, 9}, prec : {-1, 3}, length : {"l", "h"},
   spec : {"d", "b", "u"}, star : {TRUE}]
Texts ==
  [flags : {{}, {"-"}}, width : {0, 4}, prec : {-1, 0, 2}, length : {"none"}, spec : {"s"},
   star : {FALSE}]
Simple(c) == [flags |-> {}, width |-> 0, prec |-> -1, length |-> "z", spec |-> c, star |-> FALSE]

Call(d, v, room) ==
  [fmt |-> Written(d) \o <<"|">>, args |-> (IF d.star THEN <<d.width, d.prec>> ELSE <<>>) \o <<v>>,
   room |-> room, dir |-> d, value |-> v, after |-> <<"|">>]
MCPrintCalls ==
  {Call(d, v, -1) : d \in Integers1 \cup Integers2 \cup Starred, v \in {0, 5, -20, 200, 2500}}
    \cup {Call(d, s, room) : d \in Texts, s \in {<<"a", "b", "c">>, <<>>}, room \in {-1, 0, 1, 3}}
    \cup {Call([Simple("c") EXCEPT !.width = 3], c, -1) : c \in {"a", Nothing}}
    \cup {Call(Simple(c), 23, -1) : c \in {"p", "%", "q"}}
    \cup {[Call(Simple("d"), 0, -1) EXCEPT !.fmt = <<"%", "5">>]}

-----------------------------------------------------------------------------
NoCall == Call(Simple("%"), 0, -1)
MemOff ==
  /\ entries = <<>> /\ at = 1 /\ zone = <<>>
  /\ biggest = 0 /\ maintenance = 0 /\ used = 0 /\ mstage = "off"
FmtOff ==
  /\ pcall = NoCall /\ fmt = <<>> /\ va = <<>> /\ flags = {} /\ width = 0 /\ prec = 0
  /\ put = <<>> /\ pstage = "off"

IrqOff ==
  /\ regs = Program(0) /\ pc = <<"pc", 0>> /\ stack = <<>> /\ open = <<>>
  /\ told = NotTold /\ istage = "off"

TarOff == members = <<>> /\ blocks = <<>> /\ ptr = 1 /\ made = <<>> /\ astage = "off"

StartupInit ==
  \/ part = "memory" /\ MemStart /\ ConStart /\ FmtOff /\ IrqOff /\ TarOff
  \/ part = "console" /\ MemOff /\ ConStart /\ FmtOff /\ IrqOff /\ TarOff
  \/ part = "printf" /\ MemOff /\ ConStart /\ FmtStart /\ IrqOff /\ TarOff
  \/ part = "interrupts" /\ MemOff /\ ConStart /\ FmtOff /\ IrqStart /\ TarOff
  \/ part = "archive" /\ MemOff /\ ConStart /\ FmtOff /\ IrqOff /\ TarStart

StartupNext ==
  /\ \/ part = "memory" /\ MemNext /\ UNCHANGED <<conVars, fmtVars, irqVars, tarVars>>
     \/ part = "console" /\ ConNext /\ UNCHANGED <<memVars, fmtVars, irqVars, tarVars>>
     \/ part = "printf" /\ FmtNext /\ UNCHANGED <<memVars, conVars, irqVars, tarVars>>
     \/ part = "interrupts" /\ IrqNext /\ UNCHANGED <<memVars, conVars, fmtVars, tarVars>>
     \/ part = "archive" /\ TarNext /\ UNCHANGED <<memVars, conVars, fmtVars, irqVars>>
  /\ UNCHANGED part

StartupSpec == StartupInit /\ [][StartupNext]_allVars
=============================================================================
