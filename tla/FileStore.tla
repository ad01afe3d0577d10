----------------------------- MODULE FileStore -----------------------------
(***************************************************************************)
(* What reading and writing files promises: a file is a sequence of bytes  *)
(* of its own; a write puts its bytes at the offset and extends the file   *)
(* as needed, a read returns what is there; both may go on piece by piece. *)
(* A place before the end that nobody has written reads as Zero.  Once     *)
(* `broken' nothing is promised any more.                                  *)
(***************************************************************************)
EXTENDS Naturals, Sequences

CONSTANTS Files, Zero, Positions, Counts

VARIABLES
  contents,     \* the bytes of each file
  pos,          \* the offset in each file
  op,           \* the call under way: [kind, file, bytes, n], or kind "none"
  broken

vars == <<contents, pos, op, broken>>

None == [kind |-> "none"]

Init ==
  /\ contents = [f \in Files |-> <<>>]
  /\ pos = [f \in Files |-> 0] /\ op = None /\ broken = FALSE

(* bytes is what is still to be written, or what has been read so far.     *)
Begin(kind, f, bytes, n) ==
  /\ op = None
  /\ op' = [kind |-> kind, file |-> f, bytes |-> bytes, n |-> n]
  /\ UNCHANGED <<contents, pos, broken>>

End == op # None /\ op.n = 0 /\ op' = None /\ UNCHANGED <<contents, pos, broken>>

(* A read at or past the end returns nothing.                              *)
EndOfFile ==
  /\ op # None /\ op.kind = "read" /\ pos[op.file] >= Len(contents[op.file])
  /\ op' = None /\ UNCHANGED <<contents, pos, broken>>

Larger(a, b) == IF a < b THEN b ELSE a
Put(c, p, bytes) ==
  [k \in 1 .. Larger(Len(c), p + Len(bytes)) |->
     IF k \in p + 1 .. p + Len(bytes) THEN bytes[k - p]
     ELSE IF k <= Len(c) THEN c[k] ELSE Zero]

WriteSome(m) ==
  /\ op # None /\ op.kind = "write" /\ m <= op.n
  /\ LET f == op.file
     IN  /\ contents' = [contents EXCEPT ![f] = Put(@, pos[f], SubSeq(op.bytes, 1, m))]
         /\ pos' = [pos EXCEPT ![f] = @ + m]
  /\ op' = [op EXCEPT !.bytes = SubSeq(@, m + 1, Len(@)), !.n = @ - m]
  /\ UNCHANGED broken

ReadSome(m) ==
  /\ op # None /\ op.kind = "read" /\ m <= op.n /\ op' # None
  /\ LET f == op.file
         old == Len(op.bytes)
     IN  /\ pos[f] + m <= Len(contents[f])
         /\ pos' = [pos EXCEPT ![f] = @ + m]
         /\ op' = [op EXCEPT !.bytes = op'.bytes, !.n = @ - m]
         /\ Len(op'.bytes) = old + m /\ SubSeq(op'.bytes, 1, old) = op.bytes
         /\ \A k \in 1 .. m : op'.bytes[old + k] = contents[f][pos[f] + k]
  /\ UNCHANGED <<contents, broken>>

Seek(f, p) == op = None /\ pos' = [pos EXCEPT ![f] = p] /\ UNCHANGED <<contents, op, broken>>

Next ==
  \/ broken'
  \/ \E f \in Files, n \in Counts : \E kind \in {"read", "write"} : op' # None /\ Begin(kind, f, op'.bytes, n)
  \/ \E m \in 0 .. (IF op = None THEN 0 ELSE op.n) : WriteSome(m) \/ ReadSome(m)
  \/ End \/ EndOfFile
  \/ \E f \in Files, p \in Positions : Seek(f, p)

Spec == Init /\ [][Next]_vars
=============================================================================
