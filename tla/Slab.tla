-------------------------------- MODULE Slab --------------------------------
(***************************************************************************)
(* The object allocator, kernel/slab.c: caches of equal-sized objects      *)
(* carved out of slabs (blocks of pages), each slab with a free list       *)
(* threaded through an index array, and kmalloc on top.                    *)
(*                                                                         *)
(* A slab list (slabs_free, slabs_partial, slabs_full) is the set of its   *)
(* members: the code takes the first member, the model any.  The size      *)
(* class of a kmalloc is the caller's choice of cache.  Nested calls (the  *)
(* descriptor of an off-slab slab is itself a kmalloc; a cache is an       *)
(* object of the root cache) are frames of `call': while one is open only  *)
(* the steps of the callee can happen, since nothing in the kernel         *)
(* allocates from an interrupt handler.                                    *)
(***************************************************************************)
EXTENDS Integers, FiniteSets

CONSTANTS
  Slabs,        \* page blocks a slab can be carved from: bounds the memory
  Caches,       \* the obj_mem_cache_t objects, created or not
  Root,         \* root_cache, whose objects are the other caches
  Desc,         \* the kmalloc cache that serves off-slab descriptors
  OffSlab,      \* caches without OBJMEM_CACHE_SLAB_META_IN_BLOCK
  ObjsPerSlab,  \* objs_per_slab of each cache
  Rank,         \* the order in which the kernel creates the caches
  NoCache       \* a page block no slab has been carved from

ASSUME CachesAssumption ==
  /\ Root \in Caches /\ Desc \in Caches /\ OffSlab \subseteq Caches
  /\ Root \notin OffSlab /\ Desc \notin OffSlab
  /\ NoCache \notin Caches

(***************************************************************************)
(* Every cache the kernel creates fits two objects in a slab (MCSlab       *)
(* evaluates this for the kmalloc table).                                  *)
(***************************************************************************)
ASSUME ObjsAssumption ==
  ObjsPerSlab \in [Caches -> Nat] /\ \A c \in Caches : ObjsPerSlab[c] >= 2

ASSUME RankAssumption ==
  /\ Rank \in [Caches -> Nat]
  /\ \A c \in OffSlab : Rank[Desc] < Rank[c]

(* The kmalloc table (object size, page order) and how many objects        *)
(* __calc_num_objects fits in a slab, given sizeof(slab_t) = 32 and a      *)
(* uint32_t of free list per object.                                       *)
MallocSizes ==
  {<<32, 0>>, <<64, 0>>, <<128, 0>>, <<256, 1>>, <<512, 1>>, <<1024, 1>>,
   <<2048, 1>>, <<4096, 1>>, <<8192, 2>>, <<16384, 4>>, <<32768, 4>>}
SlabSize(order) == 4096 * 2^order
MetaInBlock(size, order) == size <= SlabSize(order) \div 8
DescSize(count) == 32 + 4 * count
CalcNumObjects(size, order) ==
  IF MetaInBlock(size, order)
  THEN (CHOOSE count \in 1 .. SlabSize(order) :
          /\ DescSize(count) + size * count > SlabSize(order)
          /\ DescSize(count - 1) + size * (count - 1) <= SlabSize(order)) - 1
  ELSE SlabSize(order) \div size

VARIABLES
  caches,         \* the caches __initialize_cache has run on
  cache_of,       \* page->list.next of a slab's pages: the cache it serves
  next_free,      \* slab->next_free
  in_use,         \* slab->in_use
  link,           \* SLAB_FREE_LISTP(slab): the free list's index array
  slabs_free, slabs_partial, slabs_full,
  held,           \* objects callers own and may free
  meta,           \* objects that hold caches and slab descriptors
  call            \* the open nested call: [fn, cache]

lists == <<slabs_free, slabs_partial, slabs_full>>
slabvars == <<cache_of, next_free, in_use, link>>
vars == <<caches, slabvars, lists, held, meta, call>>

FREE_LIST_END == -1        \* 0xdeadbeef: no index of a free list
Idle == [fn |-> "none", cache |-> NoCache]
Objects(c) == 0 .. ObjsPerSlab[c] - 1
Calls == {Idle} \cup [fn : {"create", "new_slab", "descriptor"}, cache : Caches]

Init ==
  /\ caches = {Root}
  /\ cache_of = [s \in Slabs |-> NoCache]
  /\ next_free = [s \in Slabs |-> FREE_LIST_END]
  /\ in_use = [s \in Slabs |-> 0]
  /\ link = [s \in Slabs |-> <<>>]
  /\ slabs_free = [c \in Caches |-> {}]
  /\ slabs_partial = [c \in Caches |-> {}]
  /\ slabs_full = [c \in Caches |-> {}]
  /\ held = {} /\ meta = {} /\ call = Idle

-----------------------------------------------------------------------------
(* Who may call mem_cache_alloc_obj(c) now: a client of any cache but the  *)
(* root, or the function whose nested call is open.                        *)
Called(c) ==
  \/ call = Idle /\ c \in caches \ {Root}
  \/ call.fn = "create" /\ c = Root
  \/ call.fn = "new_slab" /\ c = Desc

(* What the caller does with the object: a client keeps it,                *)
(* create_obj_mem_cache initialises the new cache in it, __new_slab has    *)
(* its descriptor and goes on.                                             *)
Return(obj) ==
  \/ /\ call = Idle
     /\ held' = held \cup {obj}
     /\ UNCHANGED <<caches, meta, call>>
  \/ /\ call.fn = "create"
     /\ caches' = caches \cup {call.cache}
     /\ meta' = meta \cup {obj}
     /\ call' = Idle
     /\ UNCHANGED held
  \/ /\ call.fn = "new_slab"
     /\ meta' = meta \cup {obj}
     /\ call' = [call EXCEPT !.fn = "descriptor"]
     /\ UNCHANGED <<caches, held>>

(* The index array a fresh slab of cache c starts with.                    *)
FreshLinks_NoEnd(c) == [o \in Objects(c) |-> o + 1]
FreshLinks(c) ==
  [o \in Objects(c) |-> IF o = ObjsPerSlab[c] - 1 THEN FREE_LIST_END ELSE o + 1]

(* __alloc_from_slab, less the list it leaves the slab on: an exhausted    *)
(* slab returns NULL and changes nothing.                                  *)
Pop(s) ==
  /\ next_free[s] # FREE_LIST_END
  /\ next_free' = [next_free EXCEPT ![s] = link[s][next_free[s]]]
  /\ in_use' = [in_use EXCEPT ![s] = @ + 1]
  /\ UNCHANGED <<cache_of, link>>

(* The end of __alloc_from_slab: an exhausted slab goes to slabs_full.     *)
FileExhausted_Stays(c, s) == UNCHANGED <<slabs_partial, slabs_full>>
FileExhausted(c, s) ==
  IF next_free'[s] = FREE_LIST_END
  THEN /\ slabs_partial' = [slabs_partial EXCEPT ![c] = @ \ {s}]
       /\ slabs_full' = [slabs_full EXCEPT ![c] = @ \cup {s}]
  ELSE UNCHANGED <<slabs_partial, slabs_full>>

(* mem_cache_alloc_obj when a slab is partly used.                         *)
AllocFromPartial(c, s) ==
  /\ Called(c)
  /\ s \in slabs_partial[c]
  /\ Pop(s)
  /\ Return(<<s, next_free[s]>>)
  /\ FileExhausted(c, s)
  /\ UNCHANGED slabs_free

(* mem_cache_alloc_obj when only a wholly free slab is there.  Whatever    *)
(* list __alloc_from_slab left the slab on, it ends on slabs_partial.      *)
AllocFromFree(c, s) ==
  /\ Called(c)
  /\ slabs_partial[c] = {}
  /\ s \in slabs_free[c]
  /\ Pop(s)
  /\ Return(<<s, next_free[s]>>)
  /\ slabs_free' = [slabs_free EXCEPT ![c] = @ \ {s}]
  /\ slabs_partial' = [slabs_partial EXCEPT ![c] = @ \cup {s}]
  /\ UNCHANGED slabs_full

(* __new_slab's block, its free list and its first object taken, then      *)
(* list_add to slabs_partial.                                              *)
Carve(c, s) ==
  /\ slabs_partial[c] = {} /\ slabs_free[c] = {}
  /\ cache_of[s] = NoCache
  /\ cache_of' = [cache_of EXCEPT ![s] = c]
  /\ link' = [link EXCEPT ![s] = FreshLinks(c)]
  /\ next_free' = [next_free EXCEPT ![s] = FreshLinks(c)[0]]
  /\ in_use' = [in_use EXCEPT ![s] = 1]
  /\ slabs_partial' = [slabs_partial EXCEPT ![c] = @ \cup {s}]
  /\ UNCHANGED <<slabs_free, slabs_full>>

(* mem_cache_alloc_obj with no slab left, descriptor inside the block.     *)
AllocFromNewSlab(c, s) ==
  /\ Called(c) /\ c \notin OffSlab
  /\ Carve(c, s)
  /\ Return(<<s, 0>>)

(* The same for an off-slab cache: __new_slab first calls kmalloc for the  *)
(* descriptor ...                                                          *)
CallForDescriptor(c) ==
  /\ call = Idle /\ c \in caches \cap OffSlab
  /\ slabs_partial[c] = {} /\ slabs_free[c] = {}
  /\ call' = [fn |-> "new_slab", cache |-> c]
  /\ UNCHANGED <<caches, slabvars, lists, held, meta>>

(* ... and carves the slab once it has it.                                 *)
AllocFromOffSlab(s) ==
  /\ call.fn = "descriptor"
  /\ Carve(call.cache, s)
  /\ held' = held \cup {<<s, 0>>}
  /\ call' = Idle
  /\ UNCHANGED <<caches, meta>>

(* create_obj_mem_cache, in the order obj_mem_cache_init's table and then  *)
(* the subsystems call it; the object comes from the root cache.           *)
CreateCache(c) ==
  /\ call = Idle /\ c \notin caches
  /\ \A d \in Caches : Rank[d] < Rank[c] => d \in caches
  /\ call' = [fn |-> "create", cache |-> c]
  /\ UNCHANGED <<caches, slabvars, lists, held, meta>>

(* The end of mem_cache_free_obj: a slab whose last object came back moves *)
(* from whatever list it is on to slabs_free.                              *)
FileEmptied_Keeps(c, s) ==
  /\ slabs_free' = IF in_use'[s] = 0 THEN [slabs_free EXCEPT ![c] = @ \cup {s}] ELSE slabs_free
  /\ UNCHANGED <<slabs_partial, slabs_full>>
FileEmptied_PartialOnly(c, s) ==
  IF in_use'[s] = 0 /\ s \in slabs_partial[c]
  THEN /\ slabs_free' = [slabs_free EXCEPT ![c] = @ \cup {s}]
       /\ slabs_partial' = [slabs_partial EXCEPT ![c] = @ \ {s}]
       /\ UNCHANGED slabs_full
  ELSE UNCHANGED lists
FileEmptied_Always(c, s) ==
  /\ slabs_free' = [slabs_free EXCEPT ![c] = @ \cup {s}]
  /\ slabs_partial' = [slabs_partial EXCEPT ![c] = @ \ {s}]
  /\ slabs_full' = [slabs_full EXCEPT ![c] = @ \ {s}]
FileEmptied(c, s) ==
  IF in_use'[s] = 0
  THEN /\ slabs_free' = [slabs_free EXCEPT ![c] = @ \cup {s}]
       /\ slabs_partial' = [slabs_partial EXCEPT ![c] = @ \ {s}]
       /\ slabs_full' = [slabs_full EXCEPT ![c] = @ \ {s}]
  ELSE UNCHANGED lists

(* kfree and mem_cache_free_obj: __free_from_slab pushes the object.       *)
Free(s, o) ==
  /\ call = Idle /\ <<s, o>> \in held
  /\ held' = held \ {<<s, o>>}
  /\ link' = [link EXCEPT ![s][o] = next_free[s]]
  /\ next_free' = [next_free EXCEPT ![s] = o]
  /\ in_use' = [in_use EXCEPT ![s] = @ - 1]
  /\ FileEmptied(cache_of[s], s)
  /\ UNCHANGED <<caches, cache_of, meta, call>>

Next ==
  \/ \E c \in Caches, s \in Slabs : AllocFromPartial(c, s)
  \/ \E c \in Caches, s \in Slabs : AllocFromFree(c, s)
  \/ \E c \in Caches, s \in Slabs : AllocFromNewSlab(c, s)
  \/ \E c \in Caches : CallForDescriptor(c)
  \/ \E s \in Slabs : AllocFromOffSlab(s)
  \/ \E c \in Caches : CreateCache(c)
  \/ \E obj \in held : Free(obj[1], obj[2])

Spec == Init /\ [][Next]_vars

-----------------------------------------------------------------------------
Carved == {s \in Slabs : cache_of[s] # NoCache}
Out(s) == {o \in Objects(cache_of[s]) : <<s, o>> \in held \cup meta}

(* The free list that starts at index nf and follows the array lk visits   *)
(* every index of F once: n of them, in some order q.                      *)
IsFreeList(nf, lk, F, n) ==
  /\ n \in Nat
  /\ \E q \in [1 .. n -> F] :
       /\ nf = IF n = 0 THEN FREE_LIST_END ELSE q[1]
       /\ \A i \in 1 .. n : lk[q[i]] = IF i = n THEN FREE_LIST_END ELSE q[i + 1]
       /\ \A i, j \in 1 .. n : q[i] = q[j] => i = j
       /\ \A x \in F : \E i \in 1 .. n : q[i] = x

(* Type correctness of the allocator's state.                              *)
TypeOK ==
  /\ caches \subseteq Caches
  /\ cache_of \in [Slabs -> Caches \cup {NoCache}]
  /\ next_free \in [Slabs -> Int]
  /\ in_use \in [Slabs -> Nat]
  /\ DOMAIN link = Slabs
  /\ \A s \in Carved : link[s] \in [Objects(cache_of[s]) -> Int]
  /\ slabs_free \in [Caches -> SUBSET Slabs]
  /\ slabs_partial \in [Caches -> SUBSET Slabs]
  /\ slabs_full \in [Caches -> SUBSET Slabs]
  /\ \A obj \in held \cup meta :
       obj \in Carved \X Nat /\ obj[2] \in Objects(cache_of[obj[1]])
  /\ call \in Calls

(* The free list of every slab is finite, repeats no index and visits      *)
(* exactly the objects nobody has: __alloc_from_slab never hands out an    *)
(* object twice, none is lost, and in_use is the number of objects out.    *)
FreeListExact ==
  \A s \in Carved :
    IsFreeList(next_free[s], link[s], Objects(cache_of[s]) \ Out(s),
               ObjsPerSlab[cache_of[s]] - in_use[s])

(* Each slab hangs on exactly one list, a list of the cache its pages      *)
(* name: list_del and list_add in mem_cache_alloc_obj, __alloc_from_slab   *)
(* and mem_cache_free_obj stay paired.                                     *)
OnOneList ==
  \A c \in Caches :
    /\ slabs_free[c] \cup slabs_partial[c] \cup slabs_full[c]
         = {s \in Slabs : cache_of[s] = c}
    /\ slabs_free[c] \cap slabs_partial[c] = {}
    /\ slabs_free[c] \cap slabs_full[c] = {}
    /\ slabs_partial[c] \cap slabs_full[c] = {}

(* "This should never happen": mem_cache_alloc_obj never finds an          *)
(* exhausted slab on slabs_partial or slabs_free, so it never returns NULL *)
(* for a cache that exists.                                                *)
ListedSlabsHaveObjects ==
  \A c \in Caches : \A s \in slabs_partial[c] \cup slabs_free[c] :
    next_free[s] # FREE_LIST_END

(* A slab with no object out is on slabs_free, and only such slabs are:    *)
(* memory that is wholly free is always found again.                       *)
FreeSlabsFound ==
  \A s \in Carved : in_use[s] = 0 <=> s \in slabs_free[cache_of[s]]

(* A slab leaves slabs_full only when its last object comes back: until    *)
(* then no object freed into it is handed out again (mem_cache_free_obj    *)
(* never moves a full slab to slabs_partial).                              *)
FullSlabsDrain ==
  [][\A c \in Caches : \A s \in slabs_full[c] :
       \/ s \in slabs_full'[c] /\ Out(s)' \subseteq Out(s)
       \/ s \in slabs_free'[c] /\ Out(s)' = {}]_vars
=============================================================================
