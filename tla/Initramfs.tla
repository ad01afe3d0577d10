----------------------------- MODULE Initramfs -----------------------------
(***************************************************************************)
(* unpack_initramfs (init/initramfs.c): the archive the boot loader gives  *)
(* is read block by block.  Each block is a step.  Here `made' lists the   *)
(* calls of vfs_mkdir and vfs_open that succeed: whether they do is told   *)
(* from what was made before, as Vfs has it when no name begins like       *)
(* another.  What the write does is in FileIO.                             *)
(*                                                                         *)
(* A name is the number of dots it begins with and the rest, as what       *)
(* stands between its slashes: "./a/" is one dot and <<"", "a", "">>.      *)
(***************************************************************************)
EXTENDS Integers, Sequences, SequencesExt

CONSTANTS
  BlockSize,    \* 512
  Members,      \* members of archives: [type, name, size, data]
  MaxMembers    \* bound: members of an archive

ASSUME ArchiveAssumption ==
  /\ BlockSize \in Nat \ {0} /\ MaxMembers \in Nat
  /\ \A m \in Members : Len(m.data) = (m.size + BlockSize - 1) \div BlockSize

VARIABLES
  members,      \* history: what the archive was made of
  blocks,       \* the archive
  ptr,          \* the block looked at
  made,         \* directories and files made: [type, path, size, start]
  astage        \* "scan", "done", "broke", "fault"

tarVars == <<members, blocks, ptr, made, astage>>

DirType == "5"
RegType == "0"
ARegType == "nul"       \* an older way to mark a file

(* The size field: octal digits and a character that is none.              *)
NoDigit == 36
Octal(n) == [k \in 1 .. 4 |-> (n \div 8^(4 - k)) % 8] \o <<NoDigit>>

(* A header, with the fields that are looked at, a block of other data,    *)
(* and an archive of a sequence of members.                                *)
Name(dots, rest) == [dots |-> dots, rest |-> rest]
Header(type, name, size) == [magic |-> TRUE, type |-> type, name |-> name, size |-> Octal(size)]
Filler == [magic |-> FALSE, type |-> "nul", name |-> Name(0, <<"">>), size |-> <<>>]
Laid(m) == <<Header(m.type, m.name, m.size)>> \o m.data
LaidOut(s) == FlattenSeq([k \in DOMAIN s |-> Laid(s[k])]) \o <<Filler, Filler>>

TarStart ==
  /\ members \in UNION {[1 .. n -> Members] : n \in 0 .. MaxMembers}
  /\ IsInjective([k \in DOMAIN members |-> members[k].name])
  /\ blocks = LaidOut(members) /\ ptr = 1 /\ made = <<>> /\ astage = "scan"

(* strtol: the digits up to the first that the base does not have.         *)
StrtolBase(s, base) ==
  FoldLeft(LAMBDA val, d : val * base + d, 0,
           SubSeq(s, 1, SelectInSeq(s, LAMBDA d : d >= base) - 1))
Strtol_Decimal(s) == StrtolBase(s, 10)
Strtol(s) == StrtolBase(s, 8)

(* sanitize_name: all dots at the start and all slashes at the end go.     *)
Final(rest) == CHOOSE k \in 1 .. Len(rest) :
                 (\A j \in k + 1 .. Len(rest) : rest[j] = "") /\ (k > 1 => rest[k] # "")
SanitizeName(name) == SubSeq(name.rest, 1, Final(name.rest))

(* tar_valid_header.                                                       *)
ValidHeader(b) == b.magic

(* A path as the lookup splits it; one that does not begin with a slash,   *)
(* or is empty, leads it to a null pointer.                                *)
Components(path) == SelectSeq(path, LAMBDA c : c # "")
Absolute(path) == Len(path) > 1 /\ path[1] = ""

Block == blocks[ptr]
Path == SanitizeName(Block.name)
Scanning == astage = "scan" /\ ptr <= Len(blocks)
Advance == ptr' = ptr + 1 /\ UNCHANGED <<members, blocks>>
Stop(how) == astage' = how /\ UNCHANGED <<members, blocks, ptr, made>>
Make(type, size, start) ==
  /\ made' = Append(made, [type |-> type, path |-> Components(Path), size |-> size, start |-> start])
  /\ Advance /\ UNCHANGED astage

(* What a lookup meets on the way to the last component.                   *)
Above == {SubSeq(Components(Path), 1, n) : n \in 1 .. Len(Components(Path)) - 1}
There(path) == \E m \in Range(made) : m.path = path
IsFile(path) == \E m \in Range(made) : m.path = path /\ m.type = RegType
Faults == ~Absolute(Path) \/ \E d \in Above : IsFile(d)
NoParent == \E d \in Above : ~There(d)

(* A block that is no header, or one of another type.                      *)
SkipBlock ==
  /\ Scanning /\ (~ValidHeader(Block) \/ Block.type \notin {DirType, RegType})
  /\ Advance /\ UNCHANGED <<made, astage>>

(* process_directory: the root is skipped.  vfs_mkdir fails when there is  *)
(* no directory to make it in, or something of the name in it, and that    *)
(* ends the unpacking.                                                     *)
IsDirectory == Scanning /\ ValidHeader(Block) /\ Block.type = DirType
IsRoot == Block.name \in {Name(1, <<"", "">>), Name(0, <<"", "">>)}
SkipRoot ==
  /\ IsDirectory /\ IsRoot
  /\ Advance /\ UNCHANGED <<made, astage>>
ProcessDirectory ==
  /\ IsDirectory /\ ~IsRoot
  /\ IF Faults THEN Stop("fault")
     ELSE IF NoParent \/ There(Components(Path)) THEN Stop("broke")
     ELSE Make(DirType, 0, 0)

(* process_file does not look at what vfs_open returns, which itself goes  *)
(* through a null pointer when there is no directory to create the file    *)
(* in.  It writes the bytes after the header and does not skip them.       *)
ProcessFile ==
  /\ Scanning /\ ValidHeader(Block) /\ Block.type = RegType
  /\ IF Faults \/ NoParent THEN Stop("fault")
     ELSE Make(RegType, Strtol(Block.size), ptr + 1)

ScanDone == astage = "scan" /\ ptr > Len(blocks) /\ Stop("done")

TarNext == SkipBlock \/ SkipRoot \/ ProcessDirectory \/ ProcessFile \/ ScanDone

-----------------------------------------------------------------------------
(* What an archive's members are to become, where a dot alone is the       *)
(* directory itself.                                                       *)
DataStart(k) == Len(FlattenSeq([j \in 1 .. k - 1 |-> Laid(members[j])])) + 2
Becomes(k) ==
  LET m == members[k]
      path == Components(m.name.rest)
  IN  IF m.type = DirType
        THEN IF path = <<>> THEN <<>> ELSE <<[type |-> DirType, path |-> path, size |-> 0, start |-> 0]>>
      ELSE IF m.type \in {RegType, ARegType}
        THEN <<[type |-> RegType, path |-> path, size |-> m.size, start |-> DataStart(k)]>>
      ELSE <<>>

(* Members the code gets wrong: files marked the old way, names that do    *)
(* not begin with a slash or a dot and a slash, files whose data has a     *)
(* block like a header, and whatever comes before its directory.           *)
Misread(k) ==
  LET m == members[k]
      path == Components(m.name.rest)
      before == {Components(members[j].name.rest) : j \in {i \in 1 .. k - 1 : members[i].type = DirType}}
  IN  \/ m.type = ARegType
      \/ m.type \in {DirType, RegType} /\ m.name.rest[1] # ""
      \/ m.type \in {DirType, RegType} /\ Len(path) > 1 /\ Front(path) \notin before
      \/ \E b \in Range(m.data) : b.magic /\ b.type \in {DirType, RegType}

(* Of every archive without such members the unpacking makes exactly the   *)
(* directories and files it holds, each under its path and with its own    *)
(* bytes, and comes to the end; with one of them it does not.              *)
ArchiveUnpacked ==
  astage \in {"done", "broke", "fault"} =>
    ((astage = "done" /\ made = FlattenSeq([k \in DOMAIN members |-> Becomes(k)]))
       <=> \A k \in DOMAIN members : ~Misread(k))
=============================================================================
