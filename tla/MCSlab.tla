------------------------------- MODULE MCSlab -------------------------------
(* Three caches, as at boot: the root cache, the kmalloc cache of the      *)
(* descriptors and one cache with off-slab descriptors.                    *)
EXTENDS Slab, TLC
CONSTANTS root, k64, kbig

MCCaches == {root, k64, kbig}
MCObjs == [c \in MCCaches |-> IF c = k64 THEN 3 ELSE 2]
MCRank == [c \in MCCaches |-> CASE c = root -> 0 [] c = k64 -> 1 [] c = kbig -> 2]

(* The kmalloc table meets what Slab assumes of its caches: two objects or *)
(* more per slab, and every off-slab descriptor fits the 64-byte cache,    *)
(* which keeps its own descriptors in the block.                           *)
ASSUME MallocTable ==
  /\ \A m \in MallocSizes : CalcNumObjects(m[1], m[2]) >= 2
  /\ \A m \in MallocSizes : ~MetaInBlock(m[1], m[2]) =>
       DescSize(CalcNumObjects(m[1], m[2])) \in 33 .. 64
  /\ MetaInBlock(64, 0)

SlabSymmetry == Permutations(Slabs)
=============================================================================
