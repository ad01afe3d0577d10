------------------------------- MODULE FileIO -------------------------------
(***************************************************************************)
(* The contents of files: generic_file_read and generic_file_write         *)
(* (fs/read_write.c), the page array of an inode (struct page_mapping and  *)
(* fs/ramfs/ramfs.c), vfs_lseek and the loop of sys_write.  An iteration   *)
(* of a loop is a step.  Files have pages of one physical memory, where a  *)
(* copy that runs past a page goes into the next one.                      *)
(*                                                                         *)
(* A byte written is [file, place, ver]: where in its file it was meant to *)
(* go and by which of two kinds of calls; what copy_from_user cannot copy  *)
(* stays Zero, and so is what alloc_pages has cleared, the slots of the    *)
(* page array included.  Once a copy has crossed the end of a page, or the *)
(* array's growth has replaced a page, `broken' is set: the properties     *)
(* hold up to there.  When the code uses a pointer outside the memory of   *)
(* the array, the model stops ("wild").  copy_from_user copies one byte    *)
(* more than asked for, here to no effect.                                 *)
(***************************************************************************)
EXTENDS Naturals, Sequences, FiniteSets, Functions

CONSTANTS
  Files,
  PageSize,
  Chunk,        \* size of sys_write's buffer: 256, it divides the page size
  Slots,        \* pointers in the 32 bytes kmalloc(16) gives for the array: 4
  Pages,        \* pages of the memory; one more follows that is not free
  Counts,       \* byte counts asked for
  UserBytes,    \* bytes mapped from where user code's data starts
  Seeks,        \* offsets and whences passed to lseek
  MaxCalls,     \* bound: reads, writes and seeks
  MaxPos        \* bound: the offsets they get to

ASSUME FileAssumption ==
  /\ PageSize \in Nat \ {0} /\ Chunk \in 1 .. PageSize /\ PageSize % Chunk = 0
  /\ Slots \in Nat /\ Slots >= 2 /\ Pages \in Nat
  /\ MaxCalls \in Nat /\ MaxPos \in Nat
  /\ Counts \subseteq Nat /\ UserBytes \subseteq Nat
  /\ Seeks \subseteq Nat \X {"set", "cur", "end"}

Page == 0 .. Pages - 1
Null == Pages + 1
Junk == [file |-> 0, place |-> 0, ver |-> 0]
Zero == [file |-> 0, place |-> 1, ver |-> 0]

VARIABLES
  mem,          \* the bytes of the memory
  free,         \* pages alloc_pages may return
  slot,         \* f_map->pages
  nr,           \* f_map->nr_pages
  size,         \* inode->size
  offset,       \* file->offset
  io,           \* the call under way
  broken, calls

vars == <<mem, free, slot, nr, size, offset, io, broken, calls>>

Idle == [op |-> "idle"]

(* Files ramfs_ino_create_generic has made: null pointers, no bytes.       *)
Init ==
  /\ mem = [a \in 0 .. (Pages + 1) * PageSize - 1 |-> Junk] /\ free = Page
  /\ slot = [f \in Files |-> [k \in 0 .. Slots - 1 |-> Null]]
  /\ nr = [f \in Files |-> 2]
  /\ size = [f \in Files |-> 0] /\ offset = [f \in Files |-> 0]
  /\ io = Idle /\ broken = FALSE /\ calls = 0

Byte(f, p, v) == [file |-> f, place |-> p, ver |-> v]

(* The j-th byte of the data of call c, counted from 0: copy_from_user     *)
(* leaves the rest of the cleared buffer alone from the first address that *)
(* is in no area, and sys_write does not look at what it returns.          *)
CopyFromUser(c, j) == IF j < c.mapped THEN Byte(c.file, c.start + j, c.ver) ELSE Zero

Begin(f, op, n, left, mapped) ==
  /\ io = Idle /\ calls < MaxCalls /\ calls' = calls + 1
  /\ offset[f] + n + left <= MaxPos
  /\ io' = [op |-> op, file |-> f, start |-> offset[f], done |-> 0, rem |-> n, left |-> left,
            ver |-> IF left = 0 THEN 1 ELSE 2, mapped |-> mapped, got |-> <<>>, fits |-> offset[f] + n <= size[f]]
  /\ UNCHANGED <<mem, free, slot, nr, size, offset, broken>>

Smaller(a, b) == IF a < b THEN a ELSE b

(* A write of the kernel, as process_file's, is one call, ...              *)
BeginWrite(f, n) == Begin(f, "write", n, 0, n)

(* ... one of user code is a call for each chunk.                          *)
SysWrite(f, n, m) == Begin(f, "write", Smaller(Chunk, n), n - Smaller(Chunk, n), m)
NextChunk ==
  /\ io.op = "write" /\ io.rem = 0 /\ io.left > 0
  /\ LET n == Smaller(Chunk, io.left)
     IN  io' = [io EXCEPT !.rem = n, !.left = @ - n]
  /\ UNCHANGED <<mem, free, slot, nr, size, offset, broken, calls>>

(* generic_file_read at or past the end returns 0 at once.                 *)
BeginRead(f, n) == Begin(f, "read", n, 0, 0)
ReadNothing ==
  /\ io.op = "read" /\ io.done = 0 /\ offset[io.file] >= size[io.file]
  /\ io' = Idle
  /\ UNCHANGED <<mem, free, slot, nr, size, offset, broken, calls>>

Return ==
  /\ io.op \in {"read", "write"} /\ io.rem = 0 /\ io.left = 0
  /\ io' = Idle
  /\ UNCHANGED <<mem, free, slot, nr, size, offset, broken, calls>>

(* How much of a transfer an iteration does.                               *)
Piece(rem, off) == IF rem >= PageSize THEN PageSize - off ELSE rem

(* alloc_pages for the slots ks of file f.                                 *)
Fill(f, ks) ==
  \E g \in Injection(ks, free) :
    /\ slot' = [slot EXCEPT ![f] = [k \in DOMAIN @ |-> IF k \in ks THEN g[k] ELSE @[k]]]
    /\ free' = free \ Range(g)

(* The memory with the pages just allocated cleared.                       *)
Cleared == [b \in DOMAIN mem |-> IF b \div PageSize \in free \ free' THEN Zero ELSE mem[b]]

(* write_begin: growth adds one to the count and fills that slot, whatever *)
(* is in it; then the slot of page index k is filled if it is null.  The   *)
(* array itself is never replaced.                                         *)
Grows(f, k) == k >= nr[f]
NullSlot(f, k) == IF slot[f][k] = Null THEN {k} ELSE {}
WriteBegin(f, k) ==
  IF Grows(f, k)
    THEN nr' = [nr EXCEPT ![f] = @ + 1] /\ Fill(f, {nr[f]} \cup NullSlot(f, k))
    ELSE UNCHANGED nr /\ Fill(f, NullSlot(f, k))
Replaces(f, k) == Grows(f, k) /\ slot[f][nr[f]] # Null

(* A page index outside the memory of the array.                           *)
Astray(k) == k >= Slots

(* memcpy to the memory, and write_end.                                    *)
NewSize_Always(f, end) == end
NewSize(f, end) == IF end >= size[f] THEN end ELSE size[f]
WriteStep ==
  /\ io.op = "write" /\ io.rem > 0
  /\ LET f == io.file
         k == offset[f] \div PageSize
         off == offset[f] % PageSize
         n == Piece(io.rem, off)
     IN  /\ ~Astray(k)
         /\ WriteBegin(f, k)
         /\ LET a == slot'[f][k] * PageSize + off
            IN  mem' = [b \in DOMAIN mem |->
                          IF b \in a .. a + n - 1
                            THEN CopyFromUser(io, io.done + (b - a))
                            ELSE Cleared[b]]
         /\ broken' = (broken \/ off + n > PageSize \/ Replaces(f, k))
         /\ size' = [size EXCEPT ![f] = NewSize(f, offset[f] + n)]
         /\ offset' = [offset EXCEPT ![f] = @ + n]
         /\ io' = [io EXCEPT !.done = @ + n, !.rem = @ - n]
  /\ UNCHANGED calls

(* An iteration of generic_file_read; at the end of the file it moves      *)
(* nothing and the loop goes round for ever.                               *)
Clip_OneShort(f, n) == IF offset[f] + n >= size[f] THEN size[f] - offset[f] - 1 ELSE n
Clip(f, n) == IF offset[f] + n > size[f] THEN size[f] - offset[f] ELSE n
ReadStep ==
  /\ io.op = "read" /\ io.rem > 0 /\ (io.done = 0 => offset[io.file] < size[io.file])
  /\ LET f == io.file
         k == offset[f] \div PageSize
         off == offset[f] % PageSize
         n == Clip(f, Piece(io.rem, off))
     IN  /\ ~Astray(k)
         /\ Fill(f, NullSlot(f, k))
         /\ mem' = Cleared
         /\ LET a == slot'[f][k] * PageSize + off
            IN  io' = [io EXCEPT !.done = @ + n, !.rem = @ - n,
                                 !.got = @ \o [j \in 1 .. n |-> mem'[a + j - 1]]]
         /\ broken' = (broken \/ off + n > PageSize)
         /\ offset' = [offset EXCEPT ![f] = @ + n]
  /\ UNCHANGED <<nr, size, calls>>

(* A pointer outside the array is used.                                    *)
GoWild ==
  /\ io.op \in {"read", "write"} /\ io.rem > 0 /\ Astray(offset[io.file] \div PageSize)
  /\ io.op = "read" /\ io.done = 0 => offset[io.file] < size[io.file]
  /\ io' = [op |-> "wild"] /\ broken' = TRUE
  /\ UNCHANGED <<mem, free, slot, nr, size, offset, calls>>

(* vfs_lseek.                                                              *)
Target(f, by, whence) ==
  CASE whence = "set" -> by [] whence = "cur" -> offset[f] + by [] whence = "end" -> size[f] + by
Lseek(f, by, whence) ==
  /\ io = Idle /\ calls < MaxCalls /\ calls' = calls + 1
  /\ Target(f, by, whence) <= MaxPos
  /\ offset' = [offset EXCEPT ![f] = Target(f, by, whence)]
  /\ UNCHANGED <<mem, free, slot, nr, size, io, broken>>

Move == NextChunk \/ WriteStep \/ ReadStep \/ ReadNothing \/ Return \/ GoWild

Next ==
  \/ \E f \in Files, n \in Counts :
       BeginWrite(f, n) \/ BeginRead(f, n) \/ \E m \in UserBytes : SysWrite(f, n, m)
  \/ \E f \in Files, s \in Seeks : Lseek(f, s[1], s[2])
  \/ NextChunk \/ WriteStep \/ ReadStep \/ ReadNothing \/ Return \/ GoWild

Spec == Init /\ [][Next]_vars
FairSpec == Spec /\ WF_vars(Move)

-----------------------------------------------------------------------------
(* The contents of a file, as the array and the memory hold them.          *)
Stored(f, q) ==
  LET k == q \div PageSize
  IN  IF ~Astray(k) /\ slot[f][k] \in Page THEN mem[slot[f][k] * PageSize + (q % PageSize)] ELSE Zero

(* What the rest of a call is to write: the caller's bytes as far as they  *)
(* are mapped, then zeros.                                                 *)
Data(c) ==
  [j \in 1 .. c.rem + c.left |->
     IF c.done + j <= c.mapped THEN Byte(c.file, c.start + c.done + j - 1, c.ver) ELSE Zero]

Store == INSTANCE FileStore WITH
  Positions <- 0 .. MaxPos, Counts <- 0 .. MaxPos,
  contents <- [f \in Files |-> [q \in 1 .. size[f] |-> Stored(f, q - 1)]],
  pos <- offset,
  op <- IF io.op \in {"idle", "wild"} THEN [kind |-> "none"]
        ELSE [kind |-> io.op, file |-> io.file, n |-> io.rem + io.left,
              bytes |-> IF io.op = "read" THEN io.got
                        ELSE Data(io)],
  broken <- broken

(* Until a copy crosses the end of a page or the array's growth replaces   *)
(* one, files behave as sequences of bytes of their own (FileStore): every *)
(* write lands, none disturbs another file or another place, and a read    *)
(* returns what was written, and zeros where nothing was.                  *)
FilesKept == Store!Spec

(* A read of no more bytes than the file has left comes to an end, unless  *)
(* memory runs out.                                                        *)
ReadEnds == (io.op = "read" /\ io.fits) ~> (io.op # "read" \/ free = {})
=============================================================================
