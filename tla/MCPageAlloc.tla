---------------------------- MODULE MCPageAlloc ----------------------------
(* Three zones: one of two blocks of order 2, a smaller one the allocator  *)
(* falls back to, and one outside the identity map.  MAX_PG_ORDER is the   *)
(* first zone's max_order, so that the first has no map for it and the     *)
(* second has one for its own.  The maps' memory is clear at boot, or has  *)
(* bits of low or of high order set.                                       *)
EXTENDS PageAlloc

MCNumPages == <<8, 2, 1>>
MCMaxOrder == <<2, 1, 0>>
MCLeftovers ==
  {<<{}, {}, {}>>, <<{<<0, 0>>, <<0, 3>>}, {<<0, 0>>}, {}>>, <<{<<1, 1>>}, {<<1, 0>>}, {<<0, 0>>}>>}
=============================================================================
