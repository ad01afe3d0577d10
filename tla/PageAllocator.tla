--------------------------- MODULE PageAllocator ---------------------------
(***************************************************************************)
(* What mm/page_alloc.c promises its callers: alloc_pages gives out an     *)
(* aligned block of 2^order pages of one zone, no page of which anyone     *)
(* else has, and page_unref gives one back.                                *)
(***************************************************************************)
EXTENDS Integers

CONSTANTS
  Zones, NumPages, MaxOrder,
  Pow2                  \* Pow2[n] is 2^n

VARIABLE owned          \* blocks out: [zone, page, order]

Blocks ==
  {b \in [zone : Zones, page : Nat, order : Nat] :
     /\ b.order <= MaxOrder[b.zone]
     /\ b.page % Pow2[b.order] = 0
     /\ b.page + Pow2[b.order] <= NumPages[b.zone]}
Pages(b) == {b.zone} \X (b.page .. b.page + Pow2[b.order] - 1)
Disjoint(a, b) == Pages(a) \cap Pages(b) = {}

Init == owned = {}

Alloc == \E b \in owned' :
  /\ owned' = owned \cup {b} /\ b \notin owned
  /\ b.order <= MaxOrder[b.zone] /\ b.page % Pow2[b.order] = 0
  /\ b.page + Pow2[b.order] <= NumPages[b.zone]
  /\ \A a \in owned : Disjoint(a, b)

Free == \E b \in owned : b.order = 0 /\ owned' = owned \ {b}

Spec == Init /\ [][Alloc \/ Free]_owned
=============================================================================
