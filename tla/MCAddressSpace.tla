--------------------------- MODULE MCAddressSpace ---------------------------
(* Program headers for model checking: a header below the low limit, an    *)
(* empty one without an address (as PT_GNU_STACK has), neighbours, areas   *)
(* that overlap in each way, one over the stack, offsets up to and beyond  *)
(* the pages of the file.                                                  *)
EXTENDS AddressSpace

H(vaddr, pages, prot, off) == [vaddr |-> vaddr, pages |-> pages, prot |-> prot, off |-> off]
R == {"READ"}
RX == {"READ", "EXEC"}
RW == {"READ", "WRITE"}

MCHeaders ==
  {H(0, 0, RW, 0), H(1, 1, RW, 0), H(4, 1, R, 0), H(4, 2, RW, 1), H(3, 4, RW, 0),
   H(5, 1, R, 1), H(5, 1, RX, 1), H(5, 1, RW, 1), H(13, 1, R, 2)}
=============================================================================
