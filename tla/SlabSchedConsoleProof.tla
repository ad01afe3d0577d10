----------------------- MODULE SlabSchedConsoleProof ------------------------
(***************************************************************************)
(* The safety properties of three components that need nothing of one      *)
(* another: the slab allocator, the scheduler and the console.             *)
(*                                                                         *)
(* Slab: for every set of caches, every number of objects per slab (two or *)
(* more) and any amount of memory.  The invariants are inductive together  *)
(* with MetaNotHeld (an object is a caller's or the allocator's own, never *)
(* both): kfree takes callers' objects only.  That in_use never goes below *)
(* zero follows from the free list being exact, by counting                *)
(* (FreeListCount).                                                        *)
(*                                                                         *)
(* Sched: for any set of kernel tasks.  The inductive invariant says where *)
(* boot has got to (BootInv) or, once a task runs, that current, the page  *)
(* table, the interrupt stack and the saved stack pointers all agree with  *)
(* it (TaskInv), and how far round the queue current has gone since each   *)
(* task's turn (Turns).                                                    *)
(*                                                                         *)
(* FbConsole: for screens of every size and texts of every length.         *)
(* TextShown is inductive once the cells are known to be functions on      *)
(* Cell; the proof follows a console's state through the calls of          *)
(* efi_fb_console_putchar.                                                 *)
(***************************************************************************)
EXTENDS Slab, Sched, FbConsole, FiniteSetTheorems, TLAPS

USE SMTT(30), Z3T(30), SMTT(30), ZenonT(30)

(* The slab allocator.                                                     *)
MetaNotHeld == held \cap meta = {}

IInv ==
  /\ TypeOK /\ FreeListExact /\ OnOneList /\ ListedSlabsHaveObjects
  /\ FreeSlabsFound /\ MetaNotHeld

-----------------------------------------------------------------------------
(* Init establishes the invariant: no slab has been carved yet.            *)
LEMMA InitIInv == Init => IInv
<1> SUFFICES ASSUME Init PROVE IInv
  OBVIOUS
<1>1. Carved = {}
  BY DEF Init, Carved
<1>2. TypeOK
  BY <1>1, CachesAssumption DEF Init, TypeOK, Calls, Idle, FREE_LIST_END
<1>3. OnOneList
  BY CachesAssumption DEF Init, OnOneList
<1>4. QED
  BY <1>1, <1>2, <1>3 DEF Init, IInv, FreeListExact, ListedSlabsHaveObjects,
     FreeSlabsFound, MetaNotHeld

-----------------------------------------------------------------------------
(* Free lists as such, without the slabs they belong to.                   *)

(* A free list of n indices is a list of n different indices.              *)
LEMMA FreeListCount ==
  ASSUME NEW nf, NEW lk, NEW F, NEW n, IsFreeList(nf, lk, F, n)
  PROVE  IsFiniteSet(F) /\ Cardinality(F) = n /\ n \in Nat
<1>1. n \in Nat
  BY DEF IsFreeList
<1>2. PICK q \in [1 .. n -> F] :
        /\ \A i, j \in 1 .. n : q[i] = q[j] => i = j
        /\ \A x \in F : \E i \in 1 .. n : q[i] = x
  BY DEF IsFreeList
<1>3. q \in Bijection(1 .. n, F)
  BY <1>2 DEF Bijection, Injection, Surjection, IsInjective
<1>4. ExistsBijection(1 .. n, F)
  BY <1>3 DEF ExistsBijection
<1>5. IsFiniteSet(1 .. n) /\ Cardinality(1 .. n) = n
  BY <1>1, FS_Interval
<1>6. QED
  BY <1>1, <1>4, <1>5, FS_Bijection

(* __alloc_from_slab pops: the index it takes is free and the rest of the  *)
(* list is the free list of the rest.                                      *)
LEMMA PopFreeList ==
  ASSUME NEW nf, NEW lk, NEW F, NEW n, IsFreeList(nf, lk, F, n), nf # FREE_LIST_END
  PROVE  /\ nf \in F /\ n > 0
         /\ IsFreeList(lk[nf], lk, F \ {nf}, n - 1)
<1>1. n \in Nat
  BY DEF IsFreeList
<1>2. PICK q \in [1 .. n -> F] :
        /\ nf = IF n = 0 THEN FREE_LIST_END ELSE q[1]
        /\ \A i \in 1 .. n : lk[q[i]] = IF i = n THEN FREE_LIST_END ELSE q[i + 1]
        /\ \A i, j \in 1 .. n : q[i] = q[j] => i = j
        /\ \A x \in F : \E i \in 1 .. n : q[i] = x
  BY DEF IsFreeList
<1>3. n > 0 /\ nf = q[1] /\ nf \in F
  BY <1>1, <1>2
<1> DEFINE r == [i \in 1 .. n - 1 |-> q[i + 1]]
<1>4. r \in [1 .. n - 1 -> F \ {nf}]
  BY <1>1, <1>2, <1>3
<1>5. lk[nf] = IF n - 1 = 0 THEN FREE_LIST_END ELSE r[1]
  BY <1>1, <1>2, <1>3
<1>6. \A i \in 1 .. n - 1 : lk[r[i]] = IF i = n - 1 THEN FREE_LIST_END ELSE r[i + 1]
  BY <1>1, <1>2
<1>7. \A i, j \in 1 .. n - 1 : r[i] = r[j] => i = j
  BY <1>1, <1>2
<1>8. ASSUME NEW x \in F \ {nf} PROVE \E i \in 1 .. n - 1 : r[i] = x
  <2>1. PICK i \in 1 .. n : q[i] = x
    BY <1>2
  <2>2. i # 1
    BY <1>3, <2>1
  <2>3. i - 1 \in 1 .. n - 1 /\ r[i - 1] = x
    BY <1>1, <2>1, <2>2
  <2>. QED BY <2>3
<1>9. n - 1 \in Nat
  BY <1>1, <1>3
<1> HIDE DEF r
<1>10. QED
  BY <1>3, <1>4, <1>5, <1>6, <1>7, <1>8, <1>9, ZenonT(30) DEF IsFreeList

(* __free_from_slab pushes: an index that was out heads the new list.      *)
LEMMA PushFreeList ==
  ASSUME NEW nf, NEW lk, NEW F, NEW n, NEW o, NEW D, IsFreeList(nf, lk, F, n),
         lk \in [D -> Int], F \subseteq D, o \in D \ F
  PROVE  IsFreeList(o, [lk EXCEPT ![o] = nf], F \cup {o}, n + 1)
<1>1. n \in Nat
  BY DEF IsFreeList
<1>2. PICK q \in [1 .. n -> F] :
        /\ nf = IF n = 0 THEN FREE_LIST_END ELSE q[1]
        /\ \A i \in 1 .. n : lk[q[i]] = IF i = n THEN FREE_LIST_END ELSE q[i + 1]
        /\ \A i, j \in 1 .. n : q[i] = q[j] => i = j
        /\ \A x \in F : \E i \in 1 .. n : q[i] = x
  BY ZenonT(30) DEF IsFreeList
<1> DEFINE r == [i \in 1 .. n + 1 |-> IF i = 1 THEN o ELSE q[i - 1]]
           l == [lk EXCEPT ![o] = nf]
<1>3. r \in [1 .. n + 1 -> F \cup {o}] /\ r[1] = o
      /\ \A i \in 1 .. n : r[i + 1] = q[i]
  BY <1>1, <1>2
<1>4. l[o] = nf /\ \A x \in F : l[x] = lk[x]
  OBVIOUS
<1>5. \A i \in 1 .. n + 1 : l[r[i]] = IF i = n + 1 THEN FREE_LIST_END ELSE r[i + 1]
  <2> SUFFICES ASSUME NEW i \in 1 .. n + 1
               PROVE  l[r[i]] = IF i = n + 1 THEN FREE_LIST_END ELSE r[i + 1]
    OBVIOUS
  <2>1. CASE i = 1
    BY <2>1, <1>1, <1>2, <1>3, <1>4
  <2>2. CASE i # 1
    <3>1. i - 1 \in 1 .. n /\ r[i] = q[i - 1] /\ q[i - 1] \in F
      BY <1>1, <1>2, <2>2
    <3>2. l[r[i]] = IF i - 1 = n THEN FREE_LIST_END ELSE q[i]
      BY <1>1, <1>2, <1>4, <3>1
    <3>3. i # n + 1 => r[i + 1] = q[i]
      BY <1>1, <1>3, <2>2
    <3>. QED BY <1>1, <3>1, <3>2, <3>3
  <2>. QED BY <2>1, <2>2
<1>6. \A i, j \in 1 .. n + 1 : r[i] = r[j] => i = j
  BY <1>1, <1>2
<1>7. ASSUME NEW x \in F \cup {o} PROVE \E i \in 1 .. n + 1 : r[i] = x
  <2>1. CASE x = o
    <3>1. 1 \in 1 .. n + 1
      BY <1>1
    <3>. HIDE DEF r
    <3>. QED BY <1>3, <2>1, <3>1
  <2>2. CASE x \in F
    <3>1. PICK i \in 1 .. n : q[i] = x
      BY <1>2, <2>2
    <3>2. i + 1 \in 1 .. n + 1 /\ r[i + 1] = x
      BY <1>1, <1>3, <3>1
    <3>. QED BY <3>2
  <2>. QED BY <2>1, <2>2
<1>8. n + 1 \in Nat /\ n + 1 # 0
  BY <1>1
<1> HIDE DEF r, l
<1>9. IsFreeList(o, l, F \cup {o}, n + 1)
  BY <1>3, <1>5, <1>6, <1>7, <1>8, ZenonT(30) DEF IsFreeList
<1>10. QED
  BY <1>9 DEF l

(* What is left of a fresh slab's free list when index 0 is taken.         *)
LEMMA FreshFreeList ==
  ASSUME NEW c \in Caches
  PROVE  IsFreeList(FreshLinks(c)[0], FreshLinks(c), Objects(c) \ {0}, ObjsPerSlab[c] - 1)
<1> DEFINE n == ObjsPerSlab[c] - 1
           r == [i \in 1 .. n |-> i]
           l == FreshLinks(c)
<1>1. n \in Nat /\ n # 0 /\ ObjsPerSlab[c] \in Nat /\ ObjsPerSlab[c] = n + 1
  BY ObjsAssumption
<1>2. Objects(c) = 0 .. n /\ \A i \in 0 .. n : l[i] = IF i = n THEN FREE_LIST_END ELSE i + 1
  BY <1>1 DEF Objects, FreshLinks
<1> HIDE DEF n, l
<1>3. r \in [1 .. n -> Objects(c) \ {0}] /\ \A i \in 1 .. n : r[i] = i
  BY <1>1, <1>2
<1>4. /\ l[0] = IF n = 0 THEN FREE_LIST_END ELSE r[1]
      /\ \A i \in 1 .. n : l[r[i]] = IF i = n THEN FREE_LIST_END ELSE r[i + 1]
  BY <1>1, <1>2, <1>3
<1>5. /\ \A i, j \in 1 .. n : r[i] = r[j] => i = j
      /\ \A x \in Objects(c) \ {0} : \E i \in 1 .. n : r[i] = x
  BY <1>1, <1>2, <1>3
<1> HIDE DEF r
<1>6. IsFreeList(l[0], l, Objects(c) \ {0}, n)
  BY <1>1, <1>3, <1>4, <1>5 DEF IsFreeList
<1>7. QED
  BY <1>6 DEF n, l

-----------------------------------------------------------------------------
(* The same for a slab in the allocator's state.                           *)
SlabOK(s) ==
  IsFreeList(next_free[s], link[s], Objects(cache_of[s]) \ Out(s),
             ObjsPerSlab[cache_of[s]] - in_use[s])

(* Nobody holds an object of a page block that is not a slab.              *)
LEMMA UncarvedHasNoObject ==
  ASSUME TypeOK, NEW s \in Slabs, cache_of[s] = NoCache, NEW o
  PROVE  <<s, o>> \notin held \cup meta
  BY DEF TypeOK, Carved

(* The caller of mem_cache_alloc_obj files the object once.                *)
LEMMA ReturnAdds ==
  ASSUME TypeOK, MetaNotHeld, NEW obj, obj \notin held \cup meta, Return(obj)
  PROVE  /\ held' \cup meta' = held \cup meta \cup {obj}
         /\ MetaNotHeld'
         /\ caches' \subseteq Caches
         /\ call' \in Calls
<1>1. CASE call = Idle
  BY <1>1 DEF TypeOK, MetaNotHeld, Return, Idle
<1>2. CASE call \in [fn : {"create", "new_slab", "descriptor"}, cache : Caches]
  <2>1. CASE call.fn = "create"
    BY <1>2, <2>1 DEF TypeOK, MetaNotHeld, Return, Idle, Calls
  <2>2. CASE call.fn = "new_slab"
    BY <1>2, <2>2 DEF TypeOK, MetaNotHeld, Return, Idle, Calls
  <2>. QED BY <1>2, <2>1, <2>2 DEF Return, Idle
<1>3. QED
  BY <1>1, <1>2 DEF TypeOK, Calls

(* A step that leaves slab s and its objects alone keeps its free list.    *)
LEMMA SlabFrame ==
  ASSUME NEW s \in Slabs, SlabOK(s), UNCHANGED <<next_free[s], link[s], cache_of[s], in_use[s]>>,
         Out(s)' = Out(s)
  PROVE  SlabOK(s)'
  BY DEF SlabOK

(* Taking an object from slab s with __alloc_from_slab, whatever happens   *)
(* to the lists.                                                           *)
LEMMA PopStep ==
  ASSUME IInv, NEW s \in Carved, Pop(s), Return(<<s, next_free[s]>>)
  PROVE  /\ FreeListExact' /\ MetaNotHeld'
         /\ (/\ slabs_free' \in [Caches -> SUBSET Slabs]
             /\ slabs_partial' \in [Caches -> SUBSET Slabs]
             /\ slabs_full' \in [Caches -> SUBSET Slabs]) => TypeOK'
         /\ in_use' = [in_use EXCEPT ![s] = @ + 1]
         /\ in_use[s] = 0 => next_free'[s] # FREE_LIST_END
         /\ \A t \in Slabs \ {s} : next_free'[t] = next_free[t]
<1> DEFINE c == cache_of[s]
           o == next_free[s]
           F == Objects(c) \ Out(s)
           n == ObjsPerSlab[c] - in_use[s]
<1>1. /\ s \in Slabs /\ c \in Caches /\ in_use[s] \in Nat /\ ObjsPerSlab[c] \in Nat
      /\ ObjsPerSlab[c] >= 2
      /\ link[s] \in [Objects(c) -> Int]
      /\ next_free \in [Slabs -> Int] /\ in_use \in [Slabs -> Nat]
  BY ObjsAssumption DEF IInv, TypeOK, Carved
<1>2. IsFreeList(o, link[s], F, n) /\ o # FREE_LIST_END
  BY DEF IInv, FreeListExact, Pop
<1>3. o \in F /\ n > 0 /\ IsFreeList(link[s][o], link[s], F \ {o}, n - 1)
  BY <1>2, PopFreeList, ZenonT(30)
<1>4. <<s, o>> \notin held \cup meta
  BY <1>3 DEF Out
<1>5. /\ held' \cup meta' = held \cup meta \cup {<<s, o>>}
      /\ MetaNotHeld' /\ caches' \subseteq Caches /\ call' \in Calls
  BY <1>4, ReturnAdds DEF IInv
<1>6. /\ cache_of' = cache_of /\ link' = link
      /\ next_free' = [next_free EXCEPT ![s] = link[s][o]]
      /\ in_use' = [in_use EXCEPT ![s] = @ + 1]
  BY DEF Pop
<1>7. /\ Out(s)' = Out(s) \cup {o}
      /\ \A t \in Slabs \ {s} : Out(t)' = Out(t)
  BY <1>3, <1>5, <1>6 DEF Out
<1>8. ASSUME NEW t \in Carved' PROVE SlabOK(t)'
  <2>1. t \in Slabs /\ t \in Carved
    BY <1>6 DEF Carved
  <2>2. CASE t = s
    <3>1. F \ {o} = Objects(c) \ Out(s)'
      BY <1>7
    <3>2. n - 1 = ObjsPerSlab[c] - in_use'[s]
      BY <1>1, <1>6
    <3>3. next_free'[s] = link[s][o]
      BY <1>1, <1>6
    <3>. QED BY <1>3, <1>6, <2>2, <3>1, <3>2, <3>3 DEF SlabOK
  <2>3. CASE t # s
    <3>1. SlabOK(t)
      BY <2>1 DEF IInv, FreeListExact, SlabOK
    <3>2. UNCHANGED <<next_free[t], link[t], cache_of[t], in_use[t]>>
      BY <1>1, <1>6, <2>1, <2>3
    <3>. QED BY <1>7, <2>1, <2>3, <3>1, <3>2, SlabFrame
  <2>. QED BY <2>2, <2>3
<1>9. FreeListExact'
  BY <1>8 DEF FreeListExact, SlabOK
<1>10. link[s][o] \in Int /\ (in_use[s] = 0 => link[s][o] # FREE_LIST_END)
  <2>1. link[s][o] \in Int
    BY <1>1, <1>3
  <2>2. ASSUME in_use[s] = 0, link[s][o] = FREE_LIST_END PROVE FALSE
    <3>1. PICK q \in [1 .. n - 1 -> F \ {o}] :
            link[s][o] = IF n - 1 = 0 THEN FREE_LIST_END ELSE q[1]
      BY <1>3, ZenonT(30) DEF IsFreeList
    <3>2. n - 1 # 0 /\ 1 \in 1 .. n - 1
      BY <1>1, <2>2
    <3>3. q[1] \in Objects(c)
      BY <3>2
    <3>. QED BY <1>1, <2>2, <3>1, <3>2, <3>3 DEF Objects, FREE_LIST_END
  <2>. QED BY <2>1, <2>2
<1>11. ASSUME /\ slabs_free' \in [Caches -> SUBSET Slabs]
              /\ slabs_partial' \in [Caches -> SUBSET Slabs]
              /\ slabs_full' \in [Caches -> SUBSET Slabs]
       PROVE  TypeOK'
  <2>1. next_free' \in [Slabs -> Int] /\ in_use' \in [Slabs -> Nat]
    BY <1>1, <1>6, <1>10
  <2>2. Carved' = Carved
    BY <1>6 DEF Carved
  <2>3. \A obj \in held' \cup meta' :
          obj \in Carved' \X Nat /\ obj[2] \in Objects(cache_of'[obj[1]])
    <3>1. \A obj \in held \cup meta :
            obj \in Carved \X Nat /\ obj[2] \in Objects(cache_of[obj[1]])
      BY ZenonT(30) DEF IInv, TypeOK
    <3>2. o \in Nat /\ o \in Objects(cache_of[s])
      BY <1>1, <1>3 DEF Objects
    <3>3. <<s, o>> \in Carved \X Nat /\ <<s, o>>[1] = s /\ <<s, o>>[2] = o
      BY <3>2
    <3>. QED
      BY <1>5, <1>6, <2>2, <3>1, <3>2, <3>3, ZenonT(30)
  <2>. QED
    BY <1>5, <1>6, <1>11, <2>1, <2>2, <2>3, ZenonT(30) DEF IInv, TypeOK
<1>12. QED
  BY <1>1, <1>5, <1>6, <1>9, <1>10, <1>11

(* Carving a slab for cache c and taking its first object.                 *)
LEMMA CarveStep ==
  ASSUME IInv, NEW c \in Caches, NEW s \in Slabs, Carve(c, s),
         held' \cup meta' = held \cup meta \cup {<<s, 0>>},
         MetaNotHeld', caches' \subseteq Caches, call' \in Calls
  PROVE  IInv'
<1>1. /\ cache_of \in [Slabs -> Caches \cup {NoCache}] /\ cache_of[s] = NoCache
      /\ next_free \in [Slabs -> Int] /\ in_use \in [Slabs -> Nat]
      /\ DOMAIN link = Slabs
      /\ slabs_free \in [Caches -> SUBSET Slabs]
      /\ slabs_partial \in [Caches -> SUBSET Slabs]
      /\ slabs_full \in [Caches -> SUBSET Slabs]
      /\ ObjsPerSlab[c] \in Nat /\ ObjsPerSlab[c] >= 2 /\ c # NoCache
  BY ObjsAssumption, CachesAssumption, ZenonT(30) DEF IInv, TypeOK, Carve
<1>2. /\ cache_of' = [cache_of EXCEPT ![s] = c]
      /\ link' = [link EXCEPT ![s] = FreshLinks(c)]
      /\ next_free' = [next_free EXCEPT ![s] = FreshLinks(c)[0]]
      /\ in_use' = [in_use EXCEPT ![s] = 1]
      /\ slabs_partial' = [slabs_partial EXCEPT ![c] = @ \cup {s}]
      /\ slabs_free' = slabs_free /\ slabs_full' = slabs_full
  BY DEF Carve
<1>3. Carved' = Carved \cup {s} /\ s \notin Carved
  BY <1>1, <1>2 DEF Carved
<1>4. FreshLinks(c) \in [Objects(c) -> Int] /\ 0 \in Objects(c) /\ FreshLinks(c)[0] = 1
  <2>1. ObjsPerSlab[c] \in Nat /\ ObjsPerSlab[c] >= 2
    BY <1>1, ZenonT(30)
  <2>2. QED
    BY <2>1 DEF FreshLinks, Objects, FREE_LIST_END
<1>5. /\ cache_of'[s] = c /\ link'[s] = FreshLinks(c) /\ in_use'[s] = 1
      /\ next_free'[s] = FreshLinks(c)[0]
      /\ \A t \in Slabs \ {s} : UNCHANGED <<next_free[t], link[t], cache_of[t], in_use[t]>>
  BY <1>1, <1>2
<1>6. Out(s)' = {0}
  BY <1>1, <1>4, <1>5, UncarvedHasNoObject DEF Out, IInv
<1>7. ASSUME NEW t \in Slabs \ {s} PROVE Out(t)' = Out(t)
  BY <1>5, <1>7 DEF Out
<1>8. FreeListExact'
  <2>1. SlabOK(s)'
    BY <1>5, <1>6, FreshFreeList, ZenonT(30) DEF SlabOK
  <2>2. ASSUME NEW t \in Carved PROVE SlabOK(t)'
    <3>1. SlabOK(t) /\ t \in Slabs \ {s}
      BY <1>3, <2>2 DEF IInv, FreeListExact, SlabOK, Carved
    <3>. QED BY <1>5, <1>7, <3>1, SlabFrame
  <2>. QED BY <1>3, <2>1, <2>2, ZenonT(30) DEF FreeListExact, SlabOK
<1>9. TypeOK'
  <2>1. /\ cache_of' \in [Slabs -> Caches \cup {NoCache}]
        /\ next_free' \in [Slabs -> Int] /\ in_use' \in [Slabs -> Nat]
        /\ DOMAIN link' = Slabs
        /\ slabs_partial' \in [Caches -> SUBSET Slabs]
    BY <1>1, <1>2, <1>4
  <2>2. \A t \in Carved' : link'[t] \in [Objects(cache_of'[t]) -> Int]
    BY <1>3, <1>4, <1>5, ZenonT(30) DEF IInv, TypeOK, Carved
  <2>3. ASSUME NEW obj \in held' \cup meta'
        PROVE  obj \in Carved' \X Nat /\ obj[2] \in Objects(cache_of'[obj[1]])
    <3>1. CASE obj = <<s, 0>>
      BY <1>3, <1>4, <1>5, <3>1
    <3>2. CASE obj \in held \cup meta
      <4>1. obj \in Carved \X Nat /\ obj[2] \in Objects(cache_of[obj[1]])
        BY <3>2 DEF IInv, TypeOK
      <4>2. obj[1] \in Slabs \ {s} /\ obj \in Carved' \X Nat
        BY <1>3, <4>1 DEF Carved
      <4>. QED BY <1>5, <4>1, <4>2
    <3>. QED BY <2>3, <3>1, <3>2
  <2>. QED BY <1>1, <1>2, <2>1, <2>2, <2>3, ZenonT(30) DEF TypeOK
<1>10. OnOneList'
  <2>1. ASSUME NEW d \in Caches
        PROVE  /\ slabs_free[d] \cup slabs_partial[d] \cup slabs_full[d]
                    = {t \in Slabs : cache_of[t] = d}
               /\ slabs_free[d] \cap slabs_partial[d] = {}
               /\ slabs_free[d] \cap slabs_full[d] = {}
               /\ slabs_partial[d] \cap slabs_full[d] = {}
    BY DEF IInv, OnOneList
  <2>2. s \notin slabs_free[c] \cup slabs_partial[c] \cup slabs_full[c]
    BY <1>1, <2>1
  <2>3. ASSUME NEW d \in Caches
        PROVE  /\ slabs_free'[d] \cup slabs_partial'[d] \cup slabs_full'[d]
                    = {t \in Slabs : cache_of'[t] = d}
               /\ slabs_free'[d] \cap slabs_partial'[d] = {}
               /\ slabs_free'[d] \cap slabs_full'[d] = {}
               /\ slabs_partial'[d] \cap slabs_full'[d] = {}
    <3>1. CASE d = c
      <4>1. /\ slabs_partial'[d] = slabs_partial[d] \cup {s}
            /\ {t \in Slabs : cache_of'[t] = d} = {t \in Slabs : cache_of[t] = d} \cup {s}
        BY <1>1, <1>2, <3>1
      <4>. QED BY <1>2, <2>1, <2>2, <3>1, <4>1
    <3>2. CASE d # c
      <4>1. /\ slabs_partial'[d] = slabs_partial[d]
            /\ {t \in Slabs : cache_of'[t] = d} = {t \in Slabs : cache_of[t] = d}
        BY <1>1, <1>2, <3>2, CachesAssumption
      <4>. QED BY <1>2, <2>1, <4>1
    <3>. QED BY <3>1, <3>2
  <2>. QED BY <2>3 DEF OnOneList
<1>11. ListedSlabsHaveObjects'
  BY <1>1, <1>2, <1>4, <1>5 DEF IInv, ListedSlabsHaveObjects, FREE_LIST_END
<1>12. FreeSlabsFound'
  <2>1. ASSUME NEW t \in Carved' PROVE in_use'[t] = 0 <=> t \in slabs_free'[cache_of'[t]]
    <3>1. CASE t = s
      BY <1>1, <1>2, <1>5, <3>1 DEF Carve
    <3>2. CASE t \in Carved
      <4>1. t \in Slabs \ {s} /\ (in_use[t] = 0 <=> t \in slabs_free[cache_of[t]])
        BY <1>3, <3>2 DEF IInv, FreeSlabsFound, Carved
      <4>. QED BY <1>2, <1>5, <4>1, ZenonT(30)
    <3>. QED BY <1>3, <2>1, <3>1, <3>2
  <2>. QED BY <2>1 DEF FreeSlabsFound
<1>13. QED
  BY <1>8, <1>9, <1>10, <1>11, <1>12 DEF IInv

-----------------------------------------------------------------------------
(* The actions, one lemma each.                                            *)

(* What the invariant says of a slab that hangs on a list of cache c.      *)
LEMMA Listed ==
  ASSUME IInv, NEW c \in Caches, NEW s,
         s \in slabs_free[c] \cup slabs_partial[c] \cup slabs_full[c]
  PROVE  s \in Carved /\ cache_of[s] = c
<1>1. s \in {t \in Slabs : cache_of[t] = c}
  BY DEF IInv, OnOneList
<1>2. QED
  BY <1>1, CachesAssumption DEF Carved

(* mem_cache_alloc_obj from a partly used slab keeps the invariant.        *)
LEMMA AllocFromPartialIInv ==
  ASSUME IInv, NEW c \in Caches, NEW s \in Slabs, AllocFromPartial(c, s)
  PROVE  IInv'
<1>1. s \in Carved /\ cache_of[s] = c /\ s \in slabs_partial[c]
  BY Listed DEF AllocFromPartial
<1>2. Pop(s) /\ Return(<<s, next_free[s]>>) /\ FileExhausted(c, s) /\ slabs_free' = slabs_free
      /\ cache_of' = cache_of
  BY DEF AllocFromPartial, Pop
<1>3. /\ slabs_free \in [Caches -> SUBSET Slabs]
      /\ slabs_partial \in [Caches -> SUBSET Slabs]
      /\ slabs_full \in [Caches -> SUBSET Slabs]
      /\ in_use \in [Slabs -> Nat]
  BY DEF IInv, TypeOK
<1>4. /\ slabs_partial' \in [Caches -> SUBSET Slabs]
      /\ slabs_full' \in [Caches -> SUBSET Slabs]
  BY <1>2, <1>3 DEF FileExhausted
<1>5. /\ FreeListExact' /\ MetaNotHeld' /\ TypeOK'
      /\ in_use' = [in_use EXCEPT ![s] = @ + 1]
      /\ \A t \in Slabs \ {s} : next_free'[t] = next_free[t]
  BY <1>1, <1>2, <1>3, <1>4, PopStep
<1>6. OnOneList'
  BY <1>1, <1>2, <1>3 DEF IInv, OnOneList, FileExhausted
<1>7. ListedSlabsHaveObjects'
  <2>1. ASSUME NEW d \in Caches, NEW t \in slabs_partial'[d] \cup slabs_free'[d]
        PROVE  next_free'[t] # FREE_LIST_END
    <3>1. t \in slabs_partial[d] \cup slabs_free[d] /\ t \in Slabs
      BY <1>2, <1>3, <2>1 DEF FileExhausted
    <3>2. CASE t # s
      BY <1>5, <3>1, <3>2 DEF IInv, ListedSlabsHaveObjects
    <3>3. CASE t = s
      <4>1. d = c
        BY <1>1, <3>1, <3>3, Listed
      <4>2. s \notin slabs_free[c]
        BY <1>1 DEF IInv, OnOneList
      <4>. QED BY <1>2, <1>3, <2>1, <3>3, <4>1, <4>2 DEF FileExhausted
    <3>. QED BY <3>2, <3>3
  <2>. QED BY <2>1 DEF ListedSlabsHaveObjects
<1>8. FreeSlabsFound'
  <2>1. s \notin slabs_free[c]
    BY <1>1 DEF IInv, OnOneList
  <2>2. in_use'[s] # 0 /\ \A t \in Slabs \ {s} : in_use'[t] = in_use[t]
    BY <1>3, <1>5
  <2>. QED BY <1>1, <1>2, <2>1, <2>2 DEF IInv, FreeSlabsFound, Carved
<1>9. QED
  BY <1>5, <1>6, <1>7, <1>8 DEF IInv

(* mem_cache_alloc_obj from a wholly free slab keeps the invariant.        *)
LEMMA AllocFromFreeIInv ==
  ASSUME IInv, NEW c \in Caches, NEW s \in Slabs, AllocFromFree(c, s)
  PROVE  IInv'
<1>1. s \in Carved /\ cache_of[s] = c /\ s \in slabs_free[c]
  BY Listed DEF AllocFromFree
<1>2. /\ Pop(s) /\ Return(<<s, next_free[s]>>) /\ cache_of' = cache_of
      /\ slabs_free' = [slabs_free EXCEPT ![c] = @ \ {s}]
      /\ slabs_partial' = [slabs_partial EXCEPT ![c] = @ \cup {s}]
      /\ slabs_full' = slabs_full
  BY DEF AllocFromFree, Pop
<1>3. /\ slabs_free \in [Caches -> SUBSET Slabs]
      /\ slabs_partial \in [Caches -> SUBSET Slabs]
      /\ slabs_full \in [Caches -> SUBSET Slabs]
      /\ in_use \in [Slabs -> Nat]
  BY DEF IInv, TypeOK
<1>4. /\ slabs_partial' \in [Caches -> SUBSET Slabs]
      /\ slabs_free' \in [Caches -> SUBSET Slabs]
  BY <1>2, <1>3
<1>5. /\ FreeListExact' /\ MetaNotHeld' /\ TypeOK'
      /\ in_use' = [in_use EXCEPT ![s] = @ + 1]
      /\ in_use[s] = 0 => next_free'[s] # FREE_LIST_END
      /\ \A t \in Slabs \ {s} : next_free'[t] = next_free[t]
  BY <1>1, <1>2, <1>3, <1>4, PopStep
<1>6. OnOneList'
  BY <1>1, <1>2, <1>3 DEF IInv, OnOneList
<1>7. ListedSlabsHaveObjects'
  <2>1. next_free'[s] # FREE_LIST_END
    BY <1>1, <1>5 DEF IInv, FreeSlabsFound
  <2>2. ASSUME NEW d \in Caches, NEW t \in slabs_partial'[d] \cup slabs_free'[d], t # s
        PROVE  t \in slabs_partial[d] \cup slabs_free[d] /\ t \in Slabs
    BY <1>2, <1>3, <2>2
  <2>. QED BY <1>5, <2>1, <2>2 DEF IInv, ListedSlabsHaveObjects
<1>8. FreeSlabsFound'
  <2>1. ASSUME NEW t \in Carved' PROVE in_use'[t] = 0 <=> t \in slabs_free'[cache_of'[t]]
    <3>1. t \in Carved /\ t \in Slabs /\ cache_of[t] \in Caches
      BY <1>2, ZenonT(30) DEF Carved, IInv, TypeOK
    <3>2. CASE t = s
      BY <1>1, <1>2, <1>3, <1>5, <3>1, <3>2
    <3>3. CASE t # s
      <4>1. in_use'[t] = in_use[t] /\ (t \in slabs_free'[cache_of[t]] <=> t \in slabs_free[cache_of[t]])
        BY <1>2, <1>3, <1>5, <3>1, <3>3
      <4>. QED BY <1>2, <3>1, <4>1 DEF IInv, FreeSlabsFound
    <3>. QED BY <3>2, <3>3
  <2>. QED BY <2>1 DEF FreeSlabsFound
<1>9. QED
  BY <1>5, <1>6, <1>7, <1>8 DEF IInv

(* mem_cache_alloc_obj from a new slab keeps the invariant.                *)
LEMMA AllocFromNewSlabIInv ==
  ASSUME IInv, NEW c \in Caches, NEW s \in Slabs, AllocFromNewSlab(c, s)
  PROVE  IInv'
<1>1. Carve(c, s) /\ Return(<<s, 0>>) /\ cache_of[s] = NoCache
  BY DEF AllocFromNewSlab, Carve
<1>2. <<s, 0>> \notin held \cup meta
  BY <1>1, UncarvedHasNoObject DEF IInv
<1>3. QED
  BY <1>1, <1>2, ReturnAdds, CarveStep DEF IInv

(* The same for a slab with its descriptor elsewhere.                      *)
LEMMA AllocFromOffSlabIInv ==
  ASSUME IInv, NEW s \in Slabs, AllocFromOffSlab(s)
  PROVE  IInv'
<1>1. call.cache \in Caches
  BY DEF IInv, TypeOK, Calls, Idle, AllocFromOffSlab
<1>2. /\ Carve(call.cache, s) /\ cache_of[s] = NoCache
      /\ held' = held \cup {<<s, 0>>} /\ meta' = meta /\ caches' = caches /\ call' = Idle
  BY DEF AllocFromOffSlab, Carve
<1>3. <<s, 0>> \notin held \cup meta
  BY <1>2, UncarvedHasNoObject DEF IInv
<1>4. /\ held' \cup meta' = held \cup meta \cup {<<s, 0>>}
      /\ MetaNotHeld' /\ caches' \subseteq Caches /\ call' \in Calls
  BY <1>2, <1>3 DEF IInv, TypeOK, MetaNotHeld, Calls
<1>5. QED
  BY <1>1, <1>2, <1>4, CarveStep

(* Opening a nested call touches no slab.                                  *)
LEMMA CallIInv ==
  ASSUME IInv, call' \in Calls, UNCHANGED <<caches, slabvars, lists, held, meta>>
  PROVE  IInv'
<1>1. Carved' = Carved /\ \A s : Out(s)' = Out(s)
  BY DEF Carved, Out, slabvars
<1>2. TypeOK'
  BY <1>1 DEF IInv, TypeOK, slabvars, lists
<1>3. FreeListExact'
  BY <1>1 DEF IInv, FreeListExact, slabvars
<1>4. QED
  BY <1>1, <1>2, <1>3 DEF IInv, OnOneList, ListedSlabsHaveObjects, FreeSlabsFound,
     MetaNotHeld, slabvars, lists

(* An object that is out counts in in_use.                                 *)
LEMMA OutInUse ==
  ASSUME IInv, NEW s \in Carved, NEW o \in Out(s)
  PROVE  in_use[s] >= 1
<1> DEFINE n == ObjsPerSlab[cache_of[s]]
           O == Objects(cache_of[s])
<1>1. n \in Nat /\ n >= 2 /\ in_use[s] \in Nat
  BY ObjsAssumption DEF IInv, TypeOK, Carved
<1>2. IsFreeList(next_free[s], link[s], O \ Out(s), n - in_use[s])
  BY DEF IInv, FreeListExact
<1>3. Cardinality(O \ Out(s)) = n - in_use[s]
  BY <1>2, FreeListCount
<1>4. O = 0 .. n - 1 /\ o \in O
  BY DEF Objects, Out
<1> HIDE DEF n, O
<1>5. IsFiniteSet(0 .. n - 1) /\ Cardinality(0 .. n - 1) = n
  <2>1. 0 \in Int /\ n - 1 \in Int /\ ~(0 > n - 1) /\ n - 1 - 0 + 1 = n
    BY <1>1
  <2>. QED BY <2>1, FS_Interval
<1>6. IsFiniteSet(O \ {o}) /\ Cardinality(O \ {o}) = n - 1
  <2>1. IsFiniteSet(O) /\ Cardinality(O) = n /\ o \in O
    BY <1>4, <1>5
  <2>. QED BY <2>1, FS_RemoveElement, ZenonT(30)
<1>7. Cardinality(O \ Out(s)) <= Cardinality(O \ {o})
  <2>1. O \ Out(s) \subseteq O \ {o}
    OBVIOUS
  <2>. QED BY <1>6, <2>1, FS_Subset
<1>8. QED
  BY <1>1, <1>3, <1>6, <1>7

(* mem_cache_free_obj keeps the invariant.                                 *)
LEMMA FreeIInv ==
  ASSUME IInv, NEW obj \in held, Free(obj[1], obj[2])
  PROVE  IInv'
<1> DEFINE s == obj[1]
           o == obj[2]
           c == cache_of[s]
           F == Objects(c) \ Out(s)
           n == ObjsPerSlab[c] - in_use[s]
<1>1. /\ s \in Carved /\ s \in Slabs /\ o \in Objects(c) /\ o \in Nat /\ obj = <<s, o>>
      /\ c \in Caches
  BY DEF IInv, TypeOK, Carved
<1>2. /\ next_free \in [Slabs -> Int] /\ in_use \in [Slabs -> Nat]
      /\ DOMAIN link = Slabs /\ link[s] \in [Objects(c) -> Int]
      /\ slabs_free \in [Caches -> SUBSET Slabs]
      /\ slabs_partial \in [Caches -> SUBSET Slabs]
      /\ slabs_full \in [Caches -> SUBSET Slabs]
      /\ ObjsPerSlab[c] \in Nat
  BY <1>1, ObjsAssumption DEF IInv, TypeOK
<1>3. /\ held' = held \ {<<s, o>>} /\ meta' = meta /\ cache_of' = cache_of
      /\ caches' = caches /\ call' = call
      /\ link' = [link EXCEPT ![s][o] = next_free[s]]
      /\ next_free' = [next_free EXCEPT ![s] = o]
      /\ in_use' = [in_use EXCEPT ![s] = @ - 1]
      /\ FileEmptied(c, s)
  BY DEF Free
<1>4. o \in Out(s) /\ in_use[s] >= 1 /\ obj \notin meta
  <2>1. o \in Out(s) /\ obj \notin meta
    BY <1>1 DEF Out, IInv, MetaNotHeld
  <2>. QED BY <1>1, <2>1, OutInUse
<1>5. IsFreeList(next_free[s], link[s], F, n)
  BY <1>1, ZenonT(30) DEF IInv, FreeListExact
<1> HIDE DEF s, o, c
<1>6. /\ Out(s)' = Out(s) \ {o}
      /\ \A t \in Slabs \ {s} : Out(t)' = Out(t)
  BY <1>1, <1>3, <1>4 DEF Out
<1>7. /\ next_free'[s] = o /\ link'[s] = [link[s] EXCEPT ![o] = next_free[s]]
      /\ in_use'[s] = in_use[s] - 1 /\ in_use'[s] \in Nat
      /\ \A t \in Slabs \ {s} : UNCHANGED <<next_free[t], link[t], cache_of[t], in_use[t]>>
  BY <1>1, <1>2, <1>3, <1>4
<1>8. FreeListExact'
  <2>1. IsFreeList(o, [link[s] EXCEPT ![o] = next_free[s]], F \cup {o}, n + 1)
    <3>1. F \subseteq Objects(c) /\ o \in Objects(c) \ F
      BY <1>1, <1>4
    <3>. HIDE DEF F, n
    <3>. QED BY <1>2, <1>5, <3>1, PushFreeList
  <2>2. F \cup {o} = Objects(c) \ Out(s)' /\ n + 1 = ObjsPerSlab[c] - in_use'[s]
    <3>1. F \cup {o} = Objects(c) \ Out(s)'
      BY <1>1, <1>4, <1>6
    <3>2. n + 1 = ObjsPerSlab[c] - in_use'[s]
      BY <1>1, <1>2, <1>7
    <3>. QED BY <3>1, <3>2
  <2>3. SlabOK(s)'
    BY <1>3, <1>7, <2>1, <2>2, ZenonT(30) DEF SlabOK, c
  <2>4. ASSUME NEW t \in Carved, t # s PROVE SlabOK(t)'
    <3>1. SlabOK(t) /\ t \in Slabs \ {s}
      BY <2>4 DEF IInv, FreeListExact, SlabOK, Carved
    <3>. QED BY <1>6, <1>7, <3>1, SlabFrame, ZenonT(30)
  <2>5. Carved' = Carved
    BY <1>3 DEF Carved
  <2>. QED BY <2>3, <2>4, <2>5 DEF FreeListExact, SlabOK
<1>9. /\ slabs_free' \in [Caches -> SUBSET Slabs]
      /\ slabs_partial' \in [Caches -> SUBSET Slabs]
      /\ slabs_full' \in [Caches -> SUBSET Slabs]
  BY <1>1, <1>2, <1>3 DEF FileEmptied, lists
<1>10. TypeOK'
  <2>1. next_free' \in [Slabs -> Int] /\ in_use' \in [Slabs -> Nat] /\ DOMAIN link' = Slabs
    BY <1>1, <1>2, <1>3, <1>4
  <2>2. Carved' = Carved
    BY <1>3 DEF Carved
  <2>3. ASSUME NEW t \in Carved PROVE link'[t] \in [Objects(cache_of[t]) -> Int]
    <3>1. CASE t = s
      <4>1. /\ link[s] \in [Objects(c) -> Int] /\ next_free[s] \in Int
            /\ link'[s] = [link[s] EXCEPT ![o] = next_free[s]]
        BY <1>1, <1>2, <1>7
      <4>. QED BY <3>1, <4>1, ZenonT(30) DEF c
    <3>2. CASE t # s
      BY <1>7, <3>2, ZenonT(30) DEF IInv, TypeOK, Carved
    <3>. QED BY <3>1, <3>2
  <2>4. \A x \in held' \cup meta' : x \in held \cup meta
    BY <1>3
  <2>. QED BY <1>3, <1>9, <2>1, <2>2, <2>3, <2>4 DEF IInv, TypeOK
<1>11. OnOneList'
  <2>1. s \in slabs_free[c] \cup slabs_partial[c] \cup slabs_full[c]
    BY <1>1 DEF IInv, OnOneList, c
  <2>. QED BY <1>1, <1>2, <1>3, <2>1 DEF IInv, OnOneList, FileEmptied, lists
<1>12. ListedSlabsHaveObjects'
  <2>1. next_free'[s] # FREE_LIST_END
    BY <1>1, <1>7 DEF FREE_LIST_END
  <2>2. ASSUME NEW d \in Caches, NEW t \in slabs_partial'[d] \cup slabs_free'[d], t # s
        PROVE  t \in slabs_partial[d] \cup slabs_free[d] /\ t \in Slabs
    BY <1>2, <1>3, <2>2 DEF FileEmptied, lists
  <2>. QED BY <1>7, <2>1, <2>2 DEF IInv, ListedSlabsHaveObjects
<1>13. FreeSlabsFound'
  <2>1. s \notin slabs_free[c]
    BY <1>1, <1>4 DEF IInv, FreeSlabsFound, c
  <2>2. in_use'[s] = 0 <=> s \in slabs_free'[c]
    BY <1>1, <1>2, <1>3, <2>1 DEF FileEmptied, lists
  <2>3. ASSUME NEW t \in Carved, t # s
        PROVE  in_use'[t] = 0 <=> t \in slabs_free'[cache_of[t]]
    <3>1. t \in Slabs /\ cache_of[t] \in Caches
      BY DEF Carved, IInv, TypeOK
    <3>2. t \in slabs_free'[cache_of[t]] <=> t \in slabs_free[cache_of[t]]
      BY <1>2, <1>3, <2>3, <3>1 DEF FileEmptied, lists
    <3>. QED BY <1>7, <2>3, <3>1, <3>2 DEF IInv, FreeSlabsFound
  <2>. QED BY <1>3, <2>2, <2>3 DEF FreeSlabsFound, Carved, c
<1>14. MetaNotHeld'
  BY <1>3 DEF IInv, MetaNotHeld
<1>15. QED
  BY <1>8, <1>10, <1>11, <1>12, <1>13, <1>14 DEF IInv

-----------------------------------------------------------------------------
(* Every step keeps the invariant.                                         *)
LEMMA NextIInv == IInv /\ [Next]_vars => IInv'
<1> SUFFICES ASSUME IInv, [Next]_vars PROVE IInv'
  OBVIOUS
<1>1. ASSUME NEW c \in Caches, CallForDescriptor(c) PROVE IInv'
  BY <1>1, CallIInv DEF CallForDescriptor, Calls
<1>2. ASSUME NEW c \in Caches, CreateCache(c) PROVE IInv'
  BY <1>2, CallIInv DEF CreateCache, Calls
<1>3. CASE UNCHANGED vars
  BY <1>3, CallIInv, ZenonT(30) DEF IInv, TypeOK, vars
<1>4. QED
  BY <1>1, <1>2, <1>3, AllocFromPartialIInv, AllocFromFreeIInv, AllocFromNewSlabIInv,
     AllocFromOffSlabIInv, FreeIInv DEF Next

(* The invariant holds in every reachable state of the allocator.          *)
THEOREM SlabInvariant == Spec => []IInv
  BY InitIInv, NextIInv, PTL DEF Spec

(* __alloc_from_slab never hands out an object twice and loses none, and   *)
(* in_use is exact, whatever the callers allocate and free.                *)
THEOREM SlabFreeListExact == Spec => []FreeListExact
<1>1. IInv => FreeListExact
  BY DEF IInv
<1>2. QED
  BY <1>1, SlabInvariant, PTL

(* The NULL return marked "This should never happen" never happens.        *)
THEOREM SlabNeverEmptyHanded == Spec => []ListedSlabsHaveObjects
<1>1. IInv => ListedSlabsHaveObjects
  BY DEF IInv
<1>2. QED
  BY <1>1, SlabInvariant, PTL

(* A slab whose last object mem_cache_free_obj has got back is found on    *)
(* slabs_free, and no other slab is.                                       *)
THEOREM SlabFreeSlabsFound == Spec => []FreeSlabsFound
<1>1. IInv => FreeSlabsFound
  BY DEF IInv
<1>2. QED
  BY <1>1, SlabInvariant, PTL

(* Every slab is on one list of its own cache, on slabs_free exactly when  *)
(* none of its objects is out; the state keeps its types.                  *)
THEOREM SlabLists == Spec => [](TypeOK /\ OnOneList /\ FreeSlabsFound)
<1>1. IInv => TypeOK /\ OnOneList /\ FreeSlabsFound
  BY DEF IInv
<1>2. QED
  BY <1>1, SlabInvariant, PTL

-----------------------------------------------------------------------------
(* The step property FullSlabsDrain.                                       *)
Drains(c, s) ==
  \/ s \in slabs_full'[c] /\ Out(s)' \subseteq Out(s)
  \/ s \in slabs_free'[c] /\ Out(s)' = {}

NoneInUse == \A s \in Carved : in_use[s] = 0 => Out(s) = {}

(* After any step too, a slab with in_use 0 has no object out.             *)
LEMMA NoneInUseNext == IInv' => NoneInUse'
<1>1. IInv => NoneInUse
  <2> SUFFICES ASSUME IInv, NEW s \in Carved, in_use[s] = 0, NEW o \in Out(s) PROVE FALSE
    BY DEF NoneInUse
  <2>1. in_use[s] >= 1
    BY OutInUse
  <2>. QED BY <2>1
<1>2. QED
  BY <1>1, PTL

(* Taking an object from slab t leaves every other slab's objects alone.   *)
LEMMA OutElsewhere ==
  ASSUME NEW s \in Slabs, NEW t, NEW o, s # t, cache_of'[s] = cache_of[s],
         held' \cup meta' = held \cup meta \cup {<<t, o>>}
  PROVE  Out(s)' = Out(s)
  BY DEF Out

(* What mem_cache_alloc_obj's caller does takes no object away.            *)
LEMMA ReturnFiles ==
  ASSUME NEW obj, Return(obj)
  PROVE  held' \cup meta' = held \cup meta \cup {obj}
  BY DEF Return

(* Every step does to a full slab what FullSlabsDrain allows.              *)
LEMMA NextDrains ==
  ASSUME IInv, Next, NEW c \in Caches, NEW s \in slabs_full[c]
  PROVE  Drains(c, s)
<1>0. /\ s \in Carved /\ s \in Slabs /\ cache_of[s] = c
      /\ s \notin slabs_free[c] /\ s \notin slabs_partial[c]
      /\ slabs_full \in [Caches -> SUBSET Slabs]
      /\ slabs_free \in [Caches -> SUBSET Slabs]
      /\ cache_of \in [Slabs -> Caches \cup {NoCache}]
      /\ in_use \in [Slabs -> Nat]
  BY Listed, ZenonT(30) DEF IInv, OnOneList, TypeOK, Carved
<1>1. ASSUME NEW d \in Caches, NEW t \in Slabs, AllocFromPartial(d, t) PROVE Drains(c, s)
  <2>1. cache_of[t] = d /\ s # t
    <3>1. t \in slabs_partial[d]
      BY <1>1, ZenonT(30) DEF AllocFromPartial
    <3>2. t \in slabs_free[d] \cup slabs_partial[d] \cup slabs_full[d]
      BY <3>1, ZenonT(30)
    <3>3. cache_of[t] = d
      BY <3>2, Listed, ZenonT(30)
    <3>. QED
      BY <1>0, <3>1, <3>3, ZenonT(30)
  <2>2. cache_of' = cache_of /\ Return(<<t, next_free[t]>>) /\ s \in slabs_full'[c]
    BY <1>0, <1>1, ZenonT(30) DEF AllocFromPartial, Pop, FileExhausted
  <2>3. held' \cup meta' = held \cup meta \cup {<<t, next_free[t]>>}
    BY <2>2, ReturnFiles
  <2>4. Out(s)' = Out(s)
    BY <1>0, <2>1, <2>2, <2>3, OutElsewhere, ZenonT(30)
  <2>. QED BY <2>2, <2>4 DEF Drains
<1>2. ASSUME NEW d \in Caches, NEW t \in Slabs, AllocFromFree(d, t) PROVE Drains(c, s)
  <2>1. cache_of[t] = d /\ s # t
    BY <1>0, <1>2, Listed DEF AllocFromFree
  <2>2. cache_of' = cache_of /\ Return(<<t, next_free[t]>>) /\ slabs_full' = slabs_full
    BY <1>2, ZenonT(30) DEF AllocFromFree, Pop
  <2>3. held' \cup meta' = held \cup meta \cup {<<t, next_free[t]>>}
    BY <2>2, ReturnFiles
  <2>4. Out(s)' = Out(s)
    BY <1>0, <2>1, <2>2, <2>3, OutElsewhere, ZenonT(30)
  <2>. QED BY <2>2, <2>4 DEF Drains
<1>3. ASSUME NEW d, NEW t \in Slabs, Carve(d, t),
             held' \cup meta' = held \cup meta \cup {<<t, 0>>}
      PROVE  Drains(c, s)
  <2>1. s # t /\ cache_of'[s] = cache_of[s] /\ slabs_full' = slabs_full
    BY <1>0, <1>3 DEF Carve, Carved
  <2>. QED BY <1>0, <1>3, <2>1, OutElsewhere, ZenonT(30) DEF Drains
<1>4. ASSUME NEW d \in Caches, NEW t \in Slabs, AllocFromNewSlab(d, t) PROVE Drains(c, s)
  BY <1>3, <1>4, ReturnFiles DEF AllocFromNewSlab
<1>5. ASSUME NEW t \in Slabs, AllocFromOffSlab(t) PROVE Drains(c, s)
  <2>1. held' \cup meta' = held \cup meta \cup {<<t, 0>>} /\ Carve(call.cache, t)
    BY <1>5 DEF AllocFromOffSlab
  <2>. QED BY <1>3, <2>1
<1>6. ASSUME UNCHANGED <<caches, slabvars, lists, held, meta>> PROVE Drains(c, s)
  BY <1>6 DEF Drains, Out, slabvars, lists
<1>7. ASSUME NEW obj \in held, Free(obj[1], obj[2]) PROVE Drains(c, s)
  <2>1. IInv' /\ Carved' = Carved /\ cache_of' = cache_of
    BY <1>7, FreeIInv, ZenonT(30) DEF Free, Carved
  <2>2. Out(s)' \subseteq Out(s)
    BY <1>7 DEF Free, Out
  <2>3. CASE s # obj[1] \/ in_use'[s] # 0
    <3>1. s \in slabs_full'[c]
      BY <1>0, <1>7, <2>3 DEF Free, FileEmptied, lists
    <3>. QED BY <2>2, <3>1 DEF Drains
  <2>4. CASE s = obj[1] /\ in_use'[s] = 0
    <3>1. s \in slabs_free'[c]
      BY <1>0, <1>7, <2>4 DEF Free, FileEmptied
    <3>2. Out(s)' = {}
      BY <1>0, <2>1, <2>4, NoneInUseNext DEF NoneInUse
    <3>. QED BY <3>1, <3>2 DEF Drains
  <2>. QED BY <2>3, <2>4
<1>8. QED
  BY <1>1, <1>2, <1>4, <1>5, <1>6, <1>7, ZenonT(30) DEF Next, CallForDescriptor, CreateCache

(* A slab leaves slabs_full only with its last object, and until then      *)
(* nothing freed into it is handed out.                                    *)
THEOREM SlabFullSlabsDrain == Spec => FullSlabsDrain
<1>1. IInv /\ [Next]_vars =>
        [\A c \in Caches : \A s \in slabs_full[c] :
           \/ s \in slabs_full'[c] /\ Out(s)' \subseteq Out(s)
           \/ s \in slabs_free'[c] /\ Out(s)' = {}]_vars
  BY NextDrains DEF Drains
<1>2. QED
  BY <1>1, SlabInvariant, PTL DEF Spec, FullSlabsDrain

-----------------------------------------------------------------------------
(* The scheduler.                                                          *)
Early == {"per_cpu", "create", "setup", "add"}
Switching == {"switch", "iret_call", "iret_ss", "iret_frame"}

BootInv ==
  /\ at["boot"] \in Early \cup {"start", "pgtable"} \cup Switching
  /\ \A t \in Tasks : at[t] = "unborn" /\ waited[t] = 0
  /\ \A t \in KTasks : ksp[t] = "none"
  /\ at["boot"] \in Early => current = NULL /\ queue = <<>>
  /\ at["boot"] = "start" => current = NULL
  /\ at["boot"] \in {"pgtable"} \cup Switching => current = "init"
  /\ at["boot"] \in {"start", "pgtable"} \cup Switching => queue = <<"init">>
  /\ at["boot"] \notin {"per_cpu", "create"} => ksp["init"] = "top"
  /\ at["boot"] \in Switching => pgtable = "init"
  /\ at["boot"] \in Switching \ {"switch"} => rsp0 = "init"

(* How many turns others can have had since the task at place i had its    *)
(* own, when the task at place j is current.                               *)
Gone(i, j) == IF i <= j THEN j - i ELSE j - i + Len(queue)
Turns ==
  \A i, j \in DOMAIN queue : queue[j] = current => waited[queue[i]] <= Gone(i, j)

Distinct == \A i, j \in DOMAIN queue : queue[i] = queue[j] => i = j

TaskInv ==
  /\ current = run /\ pgtable = run /\ rsp0 = run
  /\ at[run] # "unborn" /\ Queued(run)
  /\ \A t \in Tasks \ {run} :
       IF at[t] = "unborn" THEN ksp[t] \in {"none", "entry"} ELSE ksp[t] = t
  /\ \A t \in Tasks : Queued(t) => ksp[t] # "none"
  /\ Distinct /\ Turns

SInv ==
  /\ SchedTypeOK /\ OneTurnEach
  /\ wild = "no_frame" => at["boot"] = "start"
  /\ wild = "no" /\ run = "boot" => BootInv
  /\ wild = "no" /\ run # "boot" => TaskInv

(* The names used for what is no task.                                     *)
LEMMA Names ==
  /\ "boot" \notin Tasks /\ "none" \notin Tasks /\ "entry" \notin Threads
  /\ "top" \notin Threads /\ "none" \notin Threads /\ "idle" \notin Tasks
  /\ "init" \in Tasks /\ KTasks \subseteq Tasks /\ Tasks \subseteq Threads
  /\ "boot" \in Threads /\ "init" \notin KTasks
  BY KTasksAssumption DEF Tasks, Threads

(* Whoever runs a kernel task's code is a task.                            *)
LEMMA RunTypes == SchedTypeOK => (run # "boot" <=> run \in Tasks)
  BY Names DEF SchedTypeOK, Threads

-----------------------------------------------------------------------------
(* The invariant holds at first.                                           *)
LEMMA InitSInv == SchedInit => SInv
<1> SUFFICES ASSUME SchedInit PROVE SInv
  OBVIOUS
<1>1. SchedTypeOK
  BY Names DEF SchedInit, SchedTypeOK, Places, NULL, Threads, Tasks
<1>2. BootInv
  BY Names, ZenonT(30) DEF SchedInit, BootInv, Early, Switching, Threads, Tasks
<1>3. OneTurnEach
  BY DEF SchedInit, OneTurnEach, Queued
<1>4. QED
  BY <1>1, <1>2, <1>3 DEF SInv, SchedInit

(* A step that leaves the queue and the turns alone keeps OneTurnEach.     *)
LEMMA SameTurns == OneTurnEach /\ UNCHANGED <<queue, waited>> => OneTurnEach'
  BY DEF OneTurnEach, Queued

(* start_kernel up to sched_start's cpu_context_switch.                    *)
LEMMA BootStep == SInv /\ StartKernel => SInv'
<1> SUFFICES ASSUME SInv, StartKernel PROVE SInv'
  OBVIOUS
<1>1. wild = "no" /\ run = "boot" /\ SchedTypeOK /\ OneTurnEach /\ BootInv
  <2>1. wild = "no" /\ run = "boot"
    BY ZenonT(30) DEF StartKernel, SchedPerCpuInit, CreateInit, SetupInit, AddInit, StartCurrent,
       StartPageTable, StartSwitch, ContextSwitch, CpuAt
  <2>2. QED
    BY <2>1, ZenonT(30) DEF SInv
<1>2. wild' = "no" /\ run' = "boot"
  BY <1>1, ZenonT(30) DEF StartKernel, SchedPerCpuInit, CreateInit, SetupInit, AddInit, StartCurrent,
     StartPageTable, StartSwitch, ContextSwitch
<1>3. SchedTypeOK' /\ OneTurnEach' /\ BootInv' => SInv'
  BY <1>2, ZenonT(30) DEF SInv
<1>4. at \in [Threads -> Places] /\ "boot" \in Threads
  BY <1>1, Names DEF SchedTypeOK
<1>5. CASE SchedPerCpuInit
  <2>1. SchedTypeOK'
    BY <1>1, <1>5, Names DEF SchedPerCpuInit, CpuAt, Goto, SchedTypeOK, Places, NULL
  <2>2. OneTurnEach'
    BY <1>5 DEF SchedPerCpuInit, OneTurnEach, Queued
  <2>3. BootInv'
    BY <1>1, <1>4, <1>5, Names DEF SchedPerCpuInit, CpuAt, Goto, BootInv, SchedTypeOK, Early, Switching, NULL
  <2>4. QED
    BY <1>3, <2>1, <2>2, <2>3, ZenonT(30)
<1>6. CASE CreateInit
  <2>1. SchedTypeOK'
    BY <1>1, <1>6, Names DEF CreateInit, CpuAt, Goto, SchedTypeOK, Places, NULL
  <2>2. OneTurnEach'
    BY <1>1, <1>6, SameTurns, ZenonT(30) DEF CreateInit
  <2>3. BootInv'
    BY <1>1, <1>4, <1>6, Names DEF CreateInit, CpuAt, Goto, BootInv, SchedTypeOK, Early, Switching, NULL
  <2>4. QED
    BY <1>3, <2>1, <2>2, <2>3, ZenonT(30)
<1>7. CASE SetupInit
  <2>1. SchedTypeOK'
    BY <1>1, <1>7, Names DEF SetupInit, CpuAt, Goto, SchedTypeOK, Places, NULL
  <2>2. OneTurnEach'
    BY <1>1, <1>7, SameTurns, ZenonT(30) DEF SetupInit
  <2>3. BootInv'
    BY <1>1, <1>4, <1>7, Names DEF SetupInit, CpuAt, Goto, BootInv, SchedTypeOK, Early, Switching, NULL
  <2>4. QED
    BY <1>3, <2>1, <2>2, <2>3, ZenonT(30)
<1>8. CASE AddInit
  <2>1. SchedTypeOK'
    BY <1>1, <1>8, Names DEF AddInit, SchedAddTask, CpuAt, Goto, SchedTypeOK, Places, NULL
  <2>2. OneTurnEach'
    BY <1>1, <1>8, Names DEF AddInit, SchedAddTask, CpuAt, BootInv, Early, SchedTypeOK, OneTurnEach, Queued
  <2>3. BootInv'
    BY <1>1, <1>4, <1>8, Names DEF AddInit, SchedAddTask, CpuAt, Goto, BootInv, SchedTypeOK, Early, Switching, NULL
  <2>4. QED
    BY <1>3, <2>1, <2>2, <2>3, ZenonT(30)
<1>9. CASE StartCurrent
  <2>1. SchedTypeOK'
    <3>1. queue = <<"init">>
      BY <1>1, <1>9, ZenonT(30) DEF StartCurrent, CpuAt, BootInv
    <3>2. current' = "init" /\ "init" \in Tasks
      BY <1>9, <3>1, Names DEF StartCurrent
    <3>3. QED
      BY <1>1, <1>9, <3>2 DEF StartCurrent, Goto, SchedTypeOK, Places
  <2>2. OneTurnEach'
    BY <1>1, <1>9, SameTurns, ZenonT(30) DEF StartCurrent
  <2>3. BootInv'
    <3>1. queue = <<"init">> /\ ksp["init"] = "top"
      BY <1>1, <1>9 DEF StartCurrent, CpuAt, BootInv
    <3>2. current' = "init" /\ queue' = queue /\ ksp' = ksp /\ waited' = waited
      BY <1>9, <3>1 DEF StartCurrent
    <3>3. at'["boot"] = "pgtable" /\ \A t \in Tasks : at'[t] = at[t]
      BY <1>4, <1>9, Names DEF StartCurrent, Goto
    <3>4. /\ \A t \in Tasks : at[t] = "unborn" /\ waited[t] = 0
          /\ \A t \in KTasks : ksp[t] = "none"
      BY <1>1, ZenonT(30) DEF BootInv
    <3>5. QED
      BY <3>1, <3>2, <3>3, <3>4 DEF BootInv, Early, Switching
  <2>4. QED
    BY <1>3, <2>1, <2>2, <2>3, ZenonT(30)
<1>10. CASE StartPageTable
  <2>1. SchedTypeOK'
    BY <1>1, <1>10, Names DEF StartPageTable, CpuAt, Goto, SchedTypeOK, Places, NULL
  <2>2. OneTurnEach'
    BY <1>1, <1>10, SameTurns, ZenonT(30) DEF StartPageTable
  <2>3. BootInv'
    BY <1>1, <1>4, <1>10, Names, ZenonT(30) DEF StartPageTable, CpuAt, Goto, BootInv, SchedTypeOK, Early, Switching, NULL
  <2>4. QED
    BY <1>3, <2>1, <2>2, <2>3, ZenonT(30)
<1>11. CASE StartSwitch
  <2>1. SchedTypeOK'
    BY <1>1, <1>11, Names DEF StartSwitch, ContextSwitch, CpuAt, Goto, SchedTypeOK, Places, NULL
  <2>2. OneTurnEach'
    BY <1>1, <1>11, SameTurns, ZenonT(30) DEF StartSwitch, ContextSwitch
  <2>3. BootInv'
    BY <1>1, <1>4, <1>11, Names DEF StartSwitch, ContextSwitch, CpuAt, Goto, BootInv, SchedTypeOK, Early, Switching, NULL
  <2>4. QED
    BY <1>3, <2>1, <2>2, <2>3, ZenonT(30)
<1>12. QED
  BY <1>5, <1>6, <1>7, <1>8, <1>9, <1>10, <1>11, ZenonT(30) DEF StartKernel

(* A step of the running task that moves it, from where it was born to     *)
(* where it is not unborn, and at most turns interrupts on or off.         *)
LEMMA MoveStep ==
  ASSUME SInv, wild = "no", run \in Tasks, NEW p \in Places \ {"unborn"},
         at' = [at EXCEPT ![run] = p], irq' \in BOOLEAN, rsp0' = run,
         UNCHANGED <<run, current, queue, ksp, pgtable, wild, waited>>
  PROVE  SInv'
<1>1. SchedTypeOK /\ TaskInv /\ OneTurnEach /\ run # "boot"
  BY Names DEF SInv
<1>2. SchedTypeOK'
  BY <1>1 DEF SchedTypeOK
<1>3. OneTurnEach'
  BY <1>1 DEF OneTurnEach, Queued
<1>4. Distinct' /\ Turns'
  BY <1>1 DEF TaskInv, Distinct, Turns, Gone
<1>5. TaskInv'
  BY <1>1, <1>4, Names DEF TaskInv, Queued, SchedTypeOK
<1>6. QED
  BY <1>1, <1>2, <1>3, <1>5 DEF SInv

-----------------------------------------------------------------------------
(* Execve, system calls, and the interrupt flag.                           *)
LEMMA CodeStep == SInv /\ (Execve \/ SetIrq \/ Syscall \/ SyscallReturn) => SInv'
<1> SUFFICES ASSUME SInv, Execve \/ SetIrq \/ Syscall \/ SyscallReturn PROVE SInv'
  OBVIOUS
<1>1. wild = "no" /\ run \in Tasks
  BY Names DEF Execve, SetIrq, Syscall, SyscallReturn, ContextSwitch, CpuAt
<1>2. SchedTypeOK /\ TaskInv
  BY <1>1, Names DEF SInv
<1>3. rsp0 = run /\ current = run /\ at \in [Threads -> Places] /\ irq \in BOOLEAN
  BY <1>2 DEF TaskInv, SchedTypeOK
<1>4. CASE Execve
  BY <1>1, <1>3, <1>4, MoveStep, ZenonT(30) DEF Execve, ContextSwitch, CpuAt, Goto, Places
<1>5. CASE SetIrq
  <2>1. at' = [at EXCEPT ![run] = "kernel"]
    BY <1>1, <1>3, <1>5 DEF SetIrq
  <2>2. QED
    BY <1>1, <1>3, <1>5, <2>1, MoveStep, ZenonT(30) DEF SetIrq, Places
<1>6. CASE Syscall
  BY <1>1, <1>3, <1>6, MoveStep, ZenonT(30) DEF Syscall, CpuAt, Goto, Places
<1>7. CASE SyscallReturn
  BY <1>1, <1>3, <1>7, MoveStep, ZenonT(30) DEF SyscallReturn, CpuAt, Goto, Places
<1>8. QED
  BY <1>4, <1>5, <1>6, <1>7

(* __iret_context_switch, on boot's stack or a task's, and its iretq.      *)
LEMMA IretStep == SInv /\ Iret => SInv'
<1> SUFFICES ASSUME SInv, Iret PROVE SInv'
  OBVIOUS
<1>1. wild = "no" /\ SchedTypeOK /\ OneTurnEach
  <2>1. wild = "no"
    BY ZenonT(30) DEF Iret, Iretq, IretSegments, IretStack, CpuAt
  <2>2. QED
    BY <2>1, ZenonT(30) DEF SInv
<1>2. CASE run \in Tasks
  <2>1. TaskInv
    BY <1>1, <1>2, Names DEF SInv
  <2>2. rsp0 = run /\ irq \in BOOLEAN
    BY <1>1, <2>1 DEF TaskInv, SchedTypeOK
  <2>3. CASE Iretq
    BY <1>1, <1>2, <2>2, <2>3, Names, MoveStep DEF Iretq, CpuAt, Goto, Places
  <2>4. ASSUME NEW t \in Threads, IretSegments(t)
        PROVE  SInv'
    BY <1>1, <1>2, <2>2, <2>4, MoveStep, ZenonT(30) DEF IretSegments, CpuAt, Goto, Places
  <2>5. ASSUME NEW t \in Threads, IretStack(t)
        PROVE  SInv'
    <3>1. t = run /\ t # "boot"
      BY <1>2, <2>5, Names DEF IretStack, CpuAt
    <3>2. at' = [at EXCEPT ![run] = "iret_bottom"]
      BY <2>5, <3>1 DEF IretStack, Goto
    <3>3. QED
      BY <1>1, <1>2, <2>2, <2>5, <3>2, MoveStep, ZenonT(30) DEF IretStack, Places
  <2>6. QED
    BY <2>3, <2>4, <2>5 DEF Iret
<1>3. CASE run = "boot"
  <2>1. BootInv
    BY <1>1, <1>3 DEF SInv
  <2>2. CASE Iretq
    <3>1. /\ at["boot"] = "iret_frame" /\ current = "init" /\ run' = "init"
          /\ at' = [at EXCEPT !["init"] = "kernel"] /\ irq' = TRUE
          /\ UNCHANGED <<current, queue, ksp, pgtable, rsp0, wild, waited>>
      BY <1>3, <2>1, <2>2, Names DEF Iretq, CpuAt, Goto, BootInv, Switching
    <3>2. /\ queue = <<"init">> /\ pgtable = "init" /\ rsp0 = "init" /\ ksp["init"] = "top"
          /\ \A t \in KTasks : ksp[t] = "none"
          /\ \A t \in Tasks : at[t] = "unborn" /\ waited[t] = 0
      BY <3>1, <2>1 DEF BootInv, Switching
    <3>3. SchedTypeOK'
      BY <1>1, <3>1, Names DEF SchedTypeOK, Places
    <3>4. OneTurnEach'
      BY <1>1, <3>1 DEF OneTurnEach, Queued
    <3>5. Distinct' /\ Turns'
      BY <3>1, <3>2, Names DEF Distinct, Turns, Gone
    <3>6. \A t \in Tasks : Queued(t)' <=> t = "init"
      BY <3>1, <3>2 DEF Queued
    <3>7. at'["init"] = "kernel" /\ \A t \in KTasks : at'[t] = "unborn"
      BY <1>1, <3>1, <3>2, Names DEF SchedTypeOK
    <3>8. TaskInv'
      BY <3>1, <3>2, <3>5, <3>6, <3>7, Names DEF TaskInv, Tasks
    <3>9. QED
      BY <1>1, <3>1, <3>3, <3>4, <3>8, Names DEF SInv
  <2>3. ASSUME NEW t \in Threads, IretSegments(t) \/ IretStack(t)
        PROVE  SInv'
    <3>1. t = "boot" /\ at["boot"] \in {"iret_call", "iret_ss"}
      BY <1>3, <2>3 DEF IretSegments, IretStack, CpuAt
    <3>2. /\ at' = [at EXCEPT !["boot"] = "iret_ss"] \/ at' = [at EXCEPT !["boot"] = "iret_frame"]
          /\ UNCHANGED <<run, irq, current, queue, ksp, pgtable, rsp0, wild, waited>>
      BY <2>3, <3>1 DEF IretSegments, IretStack, Goto
    <3>3. BootInv'
      BY <1>1, <2>1, <3>1, <3>2, Names DEF BootInv, Switching, Early, SchedTypeOK
    <3>4. SchedTypeOK'
      BY <1>1, <3>2, Names DEF SchedTypeOK, Places
    <3>5. OneTurnEach'
      BY <1>1, <3>2 DEF OneTurnEach, Queued
    <3>6. QED
      BY <1>1, <1>3, <3>2, <3>3, <3>4, <3>5 DEF SInv
  <2>4. QED
    BY <2>2, <2>3 DEF Iret
<1>4. QED
  BY <1>1, <1>2, <1>3, RunTypes

(* mk_kernel_task and sched_add_task of a running task.                    *)
LEMMA MakeStep ==
  ASSUME NEW k \in KTasks, SInv, MkKernelTask(k)
  PROVE  SInv'
<1>1. wild = "no" /\ run \in Tasks /\ SchedTypeOK /\ TaskInv /\ OneTurnEach /\ k \in Tasks
  BY Names DEF MkKernelTask, SInv
<1>2. /\ ksp[k] = "none" /\ ksp' = [ksp EXCEPT ![k] = "entry"]
      /\ UNCHANGED <<run, at, irq, current, queue, pgtable, rsp0, wild, waited>>
  BY DEF MkKernelTask, NewFrame
<1>3. k # run /\ at[k] = "unborn"
  BY <1>1, <1>2, Names DEF TaskInv
<1>4. SchedTypeOK'
  BY <1>1, <1>2 DEF SchedTypeOK
<1>5. OneTurnEach' /\ Distinct' /\ Turns'
  BY <1>1, <1>2 DEF OneTurnEach, Queued, TaskInv, Distinct, Turns, Gone
<1>6. TaskInv'
  BY <1>1, <1>2, <1>3, <1>5 DEF TaskInv, Queued, SchedTypeOK
<1>7. QED
  BY <1>1, <1>2, <1>4, <1>5, <1>6, Names DEF SInv

(* Adding a task to the run queue keeps the invariant.                     *)
LEMMA AddStep ==
  ASSUME NEW k \in KTasks, SInv, AddKernelTask(k)
  PROVE  SInv'
<1> DEFINE n == Len(queue)
<1>1. wild = "no" /\ run \in Tasks /\ SchedTypeOK /\ TaskInv /\ OneTurnEach /\ k \in Tasks
  BY Names DEF AddKernelTask, SInv
<1>2. /\ ksp[k] # "none" /\ ~Queued(k)
      /\ queue' = Append(queue, k) /\ waited' = [waited EXCEPT ![k] = 0]
      /\ UNCHANGED <<run, at, irq, current, ksp, pgtable, rsp0, wild>>
  BY DEF AddKernelTask, SchedAddTask
<1>3. /\ queue \in Seq(Tasks) /\ queue' \in Seq(Tasks) /\ Len(queue') = n + 1 /\ n \in Nat
      /\ DOMAIN queue = 1 .. n /\ DOMAIN queue' = 1 .. n + 1
      /\ \A i \in 1 .. n : queue'[i] = queue[i] /\ queue[i] \in Tasks /\ queue[i] # k
      /\ queue'[n + 1] = k
  BY <1>1, <1>2 DEF SchedTypeOK, Queued
<1>4. SchedTypeOK'
  BY <1>1, <1>2, <1>3 DEF SchedTypeOK
<1>5. /\ waited \in [Tasks -> Nat] /\ waited'[k] = 0
      /\ \A i \in 1 .. n : waited'[queue[i]] = waited[queue[i]]
  BY <1>1, <1>2, <1>3 DEF SchedTypeOK
<1>6. \A t \in Tasks : Queued(t)' <=> (Queued(t) \/ t = k)
  <2>1. ASSUME NEW t \in Tasks PROVE Queued(t)' <=> (Queued(t) \/ t = k)
    <3>1. CASE t = k
      BY <1>3, <3>1 DEF Queued
    <3>2. CASE t # k
      <4>1. \A i \in 1 .. n + 1 : queue'[i] = t => i \in 1 .. n
        BY <1>3, <3>2
      <4>2. QED
        BY <1>3, <3>2, <4>1 DEF Queued
    <3>3. QED
      BY <3>1, <3>2
  <2>2. QED
    BY <2>1
<1>7. OneTurnEach'
  <2>1. ASSUME NEW t \in Tasks, Queued(t)'
        PROVE  waited'[t] < n + 1
    BY <1>1, <1>2, <1>3, <1>5, <1>6, <2>1 DEF OneTurnEach, SchedTypeOK
  <2>2. QED
    BY <1>3, <2>1 DEF OneTurnEach
<1>8. Distinct'
  <2>1. Distinct
    BY <1>1 DEF TaskInv
  <2>2. ASSUME NEW i \in 1 .. n + 1, NEW j \in 1 .. n + 1, queue'[i] = queue'[j]
        PROVE  i = j
    BY <1>3, <2>1, <2>2 DEF Distinct
  <2>3. QED
    BY <1>3, <2>2 DEF Distinct
<1>9. Turns'
  <2>1. ASSUME NEW i \in 1 .. n + 1, NEW j \in 1 .. n + 1, queue'[j] = current
        PROVE  waited'[queue'[i]] <= IF i <= j THEN j - i ELSE j - i + (n + 1)
    <3>1. j \in 1 .. n /\ queue[j] = current
      <4>1. k # run
        BY <1>1, <1>2 DEF TaskInv
      <4>2. QED
        BY <1>1, <1>3, <2>1, <4>1 DEF TaskInv
    <3>2. CASE i = n + 1
      BY <1>3, <1>5, <3>1, <3>2
    <3>3. CASE i \in 1 .. n
      <4>1. waited[queue[i]] <= Gone(i, j)
        BY <1>1, <1>3, <3>1, <3>3 DEF TaskInv, Turns
      <4>2. waited'[queue'[i]] = waited[queue[i]] /\ waited[queue[i]] \in Nat
        BY <1>3, <1>5, <3>3
      <4>3. QED
        BY <1>3, <3>1, <3>3, <4>1, <4>2 DEF Gone
    <3>4. QED
      BY <3>2, <3>3, <1>3
  <2>2. current' = current
    BY <1>2
  <2>3. QED
    BY <1>3, <2>1, <2>2, ZenonT(30) DEF Turns, Gone
<1>10. TaskInv'
  BY <1>1, <1>2, <1>6, <1>8, <1>9, Names, ZenonT(30) DEF TaskInv
<1>11. QED
  BY <1>1, <1>2, <1>4, <1>7, <1>10, Names DEF SInv

-----------------------------------------------------------------------------
(* sched_pick_next_task of a running task finds a place in the queue: the  *)
(* one after current's, or the first.                                      *)
LEMMA PickStep ==
  ASSUME SchedTypeOK, TaskInv, run \in Tasks
  PROVE  \E j, k \in DOMAIN queue :
           /\ queue[j] = current /\ queue[k] = PickNext
           /\ k = IF j = Len(queue) THEN 1 ELSE j + 1
<1> DEFINE c == CHOOSE i \in DOMAIN queue : queue[i] = current
<1>1. queue \in Seq(Tasks) /\ Len(queue) \in Nat /\ DOMAIN queue = 1 .. Len(queue)
  BY DEF SchedTypeOK
<1>2. c \in DOMAIN queue /\ queue[c] = current
  BY DEF TaskInv, Queued
<1>3. current # NULL /\ Len(queue) \in DOMAIN queue /\ 1 \in DOMAIN queue
  BY <1>1, <1>2, Names DEF TaskInv, NULL
<1>4. CASE c = Len(queue)
  <2>1. PickNext = queue[1]
    BY <1>2, <1>3, <1>4 DEF PickNext
  <2>2. QED
    BY <1>2, <1>3, <1>4, <2>1
<1>5. CASE c # Len(queue)
  <2>1. current # queue[Len(queue)]
    BY <1>2, <1>3, <1>5 DEF TaskInv, Distinct
  <2>2. PickNext = queue[1 + c]
    BY <1>3, <2>1 DEF PickNext
  <2>3. 1 + c = c + 1 /\ c + 1 \in DOMAIN queue
    BY <1>1, <1>2, <1>5
  <2>4. QED
    BY <1>2, <1>5, <2>2, <2>3, ZenonT(30)
<1>6. QED
  BY <1>4, <1>5

(* sched_irq and schedule, from a task.                                    *)
LEMMA SwitchStep ==
  ASSUME SInv, TimerIrq, run \in Tasks
  PROVE  SInv'
<1> DEFINE n == Len(queue)
           next == PickNext
<1>1. wild = "no" /\ SchedTypeOK /\ TaskInv /\ OneTurnEach /\ run # "boot" /\ current = run /\ run # NULL
  BY Names DEF TimerIrq, SInv, TaskInv, NULL
<1>2. PICK j \in DOMAIN queue, k \in DOMAIN queue :
         /\ queue[j] = current /\ queue[k] = next
         /\ k = IF j = Len(queue) THEN 1 ELSE j + 1
  BY <1>1, PickStep
<1>3. /\ queue \in Seq(Tasks) /\ n \in Nat /\ DOMAIN queue = 1 .. n
      /\ next \in Tasks /\ j \in 1 .. n /\ k \in 1 .. n
      /\ \A i \in 1 .. n : queue[i] \in Tasks /\ Queued(queue[i])
  BY <1>1, <1>2 DEF SchedTypeOK, Queued
<1>4. /\ next # run /\ pgtable' = next /\ current' = next /\ rsp0' = next /\ queue' = queue
      /\ CpuSwitchTo(run, next)
      /\ waited' = [t \in Tasks |->
                      IF t = next \/ ~Queued(t) THEN 0
                      ELSE IF waited[t] < Len(queue) THEN waited[t] + 1 ELSE waited[t]]
  BY <1>1 DEF TimerIrq, Schedule, CpuSchedule
<1>5. IF at[next] = "unborn" THEN ksp[next] = "entry" ELSE ksp[next] = next
  BY <1>1, <1>2, <1>3, <1>4 DEF TaskInv
<1>6. /\ ksp' = [ksp EXCEPT ![run] = run] /\ run' = next /\ wild' = "no"
      /\ IF at[next] = "unborn"
         THEN irq' = FALSE /\ at' = [at EXCEPT ![next] = "kernel"]
         ELSE UNCHANGED <<at, irq>>
  BY <1>1, <1>3, <1>4, <1>5, Names, ZenonT(30) DEF CpuSwitchTo, SaveTo, Goto
<1>7. waited \in [Tasks -> Nat]
  BY <1>1 DEF SchedTypeOK
<1>8. waited' \in [Tasks -> Nat]
  BY <1>3, <1>4, <1>7
<1>9. SchedTypeOK'
  <2>1. at' \in [Threads -> Places] /\ irq' \in BOOLEAN
    BY <1>1, <1>6, ZenonT(30) DEF SchedTypeOK, Places
  <2>2. ksp' \in [Tasks \cup {"idle"} -> {"none", "top", "entry", "code"} \cup Threads]
    BY <1>1, <1>6, Names DEF SchedTypeOK
  <2>3. run' \in Threads /\ current' \in Tasks /\ pgtable' \in Tasks /\ rsp0' \in Tasks
    BY <1>3, <1>4, <1>6, Names
  <2>4. QED
    BY <1>3, <1>4, <1>6, <1>8, <2>1, <2>2, <2>3 DEF SchedTypeOK
<1>10. Distinct' /\ Distinct
  BY <1>1, <1>4 DEF TaskInv, Distinct
<1>11. \A t \in Tasks : Queued(t)' <=> Queued(t)
  BY <1>4 DEF Queued
<1>12. ASSUME NEW i \in 1 .. n
       PROVE  waited'[queue[i]] \in Nat /\ waited'[queue[i]] <= Gone(i, k)
  <2>1. waited[queue[i]] \in Nat /\ waited[queue[i]] <= Gone(i, j)
    BY <1>1, <1>2, <1>3, <1>7 DEF TaskInv, Turns
  <2>2. CASE i = k
    <3>1. waited'[queue[i]] = 0
      BY <1>2, <1>3, <1>4, <2>2, ZenonT(30)
    <3>2. QED
      BY <1>3, <2>2, <3>1 DEF Gone
  <2>3. CASE i # k
    <3>1. queue[i] # next
      BY <1>2, <1>3, <1>10, <2>3 DEF Distinct
    <3>2. waited[queue[i]] < n
      BY <1>1, <1>3 DEF OneTurnEach
    <3>3. waited'[queue[i]] = waited[queue[i]] + 1
      BY <1>3, <1>4, <3>1, <3>2, ZenonT(30)
    <3>4. Gone(i, j) + 1 = Gone(i, k)
      BY <1>2, <1>3, <2>3 DEF Gone
    <3>5. Gone(i, j) \in Int
      BY <1>3 DEF Gone
    <3>6. QED
      BY <2>1, <3>3, <3>4, <3>5
  <2>4. QED
    BY <2>2, <2>3
<1>13. Turns'
  <2>1. \A l \in 1 .. n : queue[l] = next => l = k
    BY <1>2, <1>3, <1>10 DEF Distinct
  <2>2. ASSUME NEW i \in 1 .. n, NEW l \in 1 .. n, queue[l] = next
        PROVE  waited'[queue[i]] <= Gone(i, l)
    BY <1>12, <2>1, <2>2
  <2>3. \A i, l \in 1 .. n : Gone(i, l)' = Gone(i, l)
    BY <1>4 DEF Gone
  <2>4. DOMAIN queue' = 1 .. n /\ current' = next /\ queue' = queue
    BY <1>3, <1>4
  <2>5. QED
    BY <2>2, <2>3, <2>4 DEF Turns
<1>14. OneTurnEach'
  <2>1. ASSUME NEW t \in Tasks, Queued(t)
        PROVE  waited'[t] < n
    <3>1. PICK i \in 1 .. n : queue[i] = t
      BY <1>3, <2>1 DEF Queued
    <3>2. Gone(i, k) \in Int /\ Gone(i, k) < n
      BY <1>3 DEF Gone
    <3>3. QED
      BY <1>3, <1>12, <3>1, <3>2
  <2>2. QED
    BY <1>4, <1>11, <2>1 DEF OneTurnEach
<1>15. TaskInv'
  <2>1. at'[run'] # "unborn" /\ at'[run] # "unborn"
    BY <1>1, <1>3, <1>4, <1>6, Names, ZenonT(30) DEF SchedTypeOK, TaskInv
  <2>2. \E i \in DOMAIN queue' : queue'[i] = run'
    BY <1>2, <1>4, <1>6, ZenonT(30)
  <2>3. ASSUME NEW t \in Tasks \ {next}
        PROVE  IF at'[t] = "unborn" THEN ksp'[t] \in {"none", "entry"} ELSE ksp'[t] = t
    <3>1. CASE t = run
      BY <1>1, <1>6, <2>1, <3>1 DEF SchedTypeOK
    <3>2. CASE t # run
      <4>1. at'[t] = at[t] /\ ksp'[t] = ksp[t]
        BY <1>1, <1>6, <2>3, <3>2, Names DEF SchedTypeOK
      <4>2. QED
        BY <1>1, <3>2, <4>1 DEF TaskInv
    <3>3. QED
      BY <3>1, <3>2
  <2>4. ASSUME NEW t \in Tasks, Queued(t)'
        PROVE  ksp'[t] # "none"
    BY <1>1, <1>6, <1>11, <2>4, Names DEF SchedTypeOK, TaskInv
  <2>5. QED
    BY <1>4, <1>6, <1>10, <1>13, <2>1, <2>2, <2>3, <2>4 DEF TaskInv, Queued
<1>16. QED
  BY <1>3, <1>6, <1>9, <1>14, <1>15, Names DEF SInv

(* A timer interrupt of start_kernel: before sched_add_task there is       *)
(* nothing to schedule, after sched_start's assignment there is nothing    *)
(* else; in between the bare stack of the first task is popped.            *)
LEMMA BootTimer ==
  ASSUME SInv, TimerIrq, run = "boot"
  PROVE  SInv'
<1>1. wild = "no" /\ SchedTypeOK /\ BootInv
  BY DEF TimerIrq, SInv
<1>2. at["boot"] \notin Early
  BY <1>1, Names DEF TimerIrq, BootInv, Early, NULL
<1>3. CASE at["boot"] = "start"
  <2>1. queue = <<"init">> /\ current = NULL /\ ksp["init"] = "top"
    BY <1>1, <1>3 DEF BootInv
  <2>2. PickNext = "init"
    BY <2>1 DEF PickNext
  <2>3. /\ pgtable' = "init" /\ current' = "init" /\ rsp0' = "init" /\ queue' = queue
        /\ CpuSwitchTo("idle", "init")
        /\ waited' = [t \in Tasks |->
                      IF t = "init" \/ ~Queued(t) THEN 0
                      ELSE IF waited[t] < Len(queue) THEN waited[t] + 1 ELSE waited[t]]
    BY <2>1, <2>2 DEF TimerIrq, Schedule, CpuSchedule
  <2>4. ksp' = [ksp EXCEPT !["idle"] = "boot"] /\ wild' = "no_frame" /\ UNCHANGED <<run, at, irq>>
    BY <2>1, <2>3, Names DEF CpuSwitchTo, SaveTo
  <2>5. waited' = [t \in Tasks |-> 0]
    BY <2>1, <2>3 DEF Queued
  <2>6. SchedTypeOK'
    BY <1>1, <2>3, <2>4, <2>5, Names DEF SchedTypeOK
  <2>7. OneTurnEach'
    BY <2>1, <2>3, <2>5 DEF OneTurnEach
  <2>8. QED
    BY <1>3, <2>4, <2>6, <2>7 DEF SInv
<1>4. CASE at["boot"] \in {"pgtable"} \cup Switching
  <2>1. queue = <<"init">> /\ current = "init"
    BY <1>1, <1>4 DEF BootInv
  <2>2. PickNext = current /\ current # NULL
    BY <2>1 DEF PickNext, NULL
  <2>3. QED
    BY <2>2 DEF TimerIrq, Schedule
<1>5. QED
  BY <1>1, <1>2, <1>3, <1>4 DEF BootInv

(* An interrupt inside __iret_context_switch keeps what SInv says of it.   *)
LEMMA StrayStep == SInv /\ TimerIrqStray => SInv'
<1> SUFFICES ASSUME SInv, TimerIrqStray PROVE SInv'
  OBVIOUS
<1>1. SchedTypeOK /\ OneTurnEach
  BY ZenonT(30) DEF SInv
<1>2. /\ wild' \in {"iret_ss", "iret_bottom"}
      /\ UNCHANGED <<run, at, irq, current, queue, ksp, pgtable, rsp0, waited>>
  BY ZenonT(30) DEF TimerIrqStray
<1>3. SchedTypeOK'
  BY <1>1, <1>2 DEF SchedTypeOK
<1>4. OneTurnEach'
  BY <1>1, <1>2 DEF OneTurnEach, Queued
<1>5. wild' # "no" /\ wild' # "no_frame"
  BY <1>2
<1>6. QED
  BY <1>3, <1>4, <1>5, ZenonT(30) DEF SInv

(* A step that changes nothing keeps the invariant.                        *)
LEMMA StutterStep == SInv /\ UNCHANGED schedVars => SInv'
<1> SUFFICES ASSUME SInv, UNCHANGED schedVars PROVE SInv'
  OBVIOUS
<1>1. UNCHANGED <<run, at, irq, current, queue, ksp, pgtable, rsp0, wild, waited>>
  BY DEF schedVars
<1>2. SchedTypeOK' = SchedTypeOK /\ OneTurnEach' = OneTurnEach
  BY <1>1 DEF SchedTypeOK, OneTurnEach, Queued
<1>3. BootInv' = BootInv
  BY <1>1 DEF BootInv
<1>4. TaskInv' = TaskInv
  BY <1>1 DEF TaskInv, Queued, Distinct, Turns, Gone
<1>5. QED
  BY <1>1, <1>2, <1>3, <1>4 DEF SInv

(* Every step keeps the invariant.                                         *)
LEMMA NextStep == SInv /\ [SchedNext]_schedVars => SInv'
<1> SUFFICES ASSUME SInv, [SchedNext]_schedVars PROVE SInv'
  OBVIOUS
<1>1. CASE StartKernel
  BY <1>1, BootStep
<1>2. CASE Execve \/ SetIrq \/ Syscall \/ SyscallReturn
  BY <1>2, CodeStep
<1>3. CASE Iret
  BY <1>3, IretStep
<1>4. ASSUME NEW t \in KTasks, MkKernelTask(t) \/ AddKernelTask(t)
      PROVE  SInv'
  BY <1>4, MakeStep, AddStep
<1>5. CASE TimerIrq
  BY <1>5, SwitchStep, BootTimer, RunTypes DEF SInv
<1>6. CASE TimerIrqStray
  BY <1>6, StrayStep
<1>7. CASE UNCHANGED schedVars
  BY <1>7, StutterStep
<1>8. QED
  BY <1>1, <1>2, <1>3, <1>4, <1>5, <1>6, <1>7 DEF SchedNext

(* The variables of the scheduler and the state of every task stay within  *)
(* their types, and SInv holds after every step of boot, of a task and of  *)
(* the timer interrupt.                                                    *)
THEOREM SchedInvariant == SchedSpec => []SInv
<1>1. QED
  BY InitSInv, NextStep, PTL DEF SchedSpec

(* For any number of tasks: the thread the CPU executes is cpu->current,   *)
(* and every other task that has run is saved in its own ksp, so schedule  *)
(* and cpu_switch_to never come apart.                                     *)
THEOREM SchedRunsCurrent == SchedSpec => []RunsCurrent
<1>1. SInv => RunsCurrent
  BY Names, RunTypes, ZenonT(30) DEF SInv, RunsCurrent, BootInv, TaskInv, SchedTypeOK
<1>2. QED
  BY <1>1, SchedInvariant, PTL

(* For any number of tasks: user code runs on its own page table, and      *)
(* rsp[0] is its own kernel stack whatever switches came before.           *)
THEOREM SchedOwnSpaceAndStack == SchedSpec => []OwnSpaceAndStack
<1>1. SInv => OwnSpaceAndStack
  BY DEF SInv, OwnSpaceAndStack, BootInv, TaskInv, Early, Switching
<1>2. QED
  BY <1>1, SchedInvariant, PTL

(* For any number of tasks: once sched_start has made the first task       *)
(* current, cpu_switch_to only loads stack pointers with a frame on them.  *)
THEOREM SchedFramesAfterStart == SchedSpec => []FramesAfterStart
<1>1. SInv => FramesAfterStart
  BY DEF SInv, FramesAfterStart
<1>2. QED
  BY <1>1, SchedInvariant, PTL

(* For any number of tasks: sched_pick_next_task gives every other task at *)
(* most one turn between two turns of a task, with tasks joining at any    *)
(* moment.                                                                 *)
THEOREM SchedOneTurnEach == SchedSpec => []OneTurnEach
<1>1. SInv => OneTurnEach
  BY DEF SInv
<1>2. QED
  BY <1>1, SchedInvariant, PTL

(* For any number of tasks the scheduler's state keeps its types: ksp is   *)
(* never anything but unset, a bare top, a made frame or a saved thread.   *)
THEOREM SchedTypes == SchedSpec => []SchedTypeOK
<1>1. SInv => SchedTypeOK
  BY DEF SInv
<1>2. QED
  BY <1>1, SchedInvariant, PTL

-----------------------------------------------------------------------------
(* The console.                                                            *)
Glyph == Chars \cup Special

Console ==
  [x : 0 .. Cols, y : 0 .. Rows - 1, cells : [Cell -> Glyph], screen : [Cell -> Glyph],
   ideal : [Cell -> Glyph], scrolled : BOOLEAN]

(* The second half of TextShown, of a console's state.                     *)
Shown(s) ==
  \A i \in Cell :
    /\ s.screen[i] = s.cells[i] \/ (s.screen[i] = Boot /\ s.cells[i] = Nul)
    /\ (~s.scrolled \/ (i >= Rows - 1 + Cols /\ s.ideal[i] \in Chars)) => s.cells[i] = s.ideal[i]

Good(s) == s \in Console /\ Shown(s)

ConInv == State \in Console /\ Shown(State)

-----------------------------------------------------------------------------
(* The place of a row and a column, and of the row below (At, Moved).      *)
LEMMA AtInside ==
  ASSUME NEW x \in 0 .. Cols - 1, NEW y \in 0 .. Rows - 1
  PROVE  At(x, y) \in Cell
<1>1. Rows \in Nat /\ Cols \in Nat /\ x \in Nat /\ y \in Nat /\ x < Cols /\ y <= Rows - 1
  BY ConsoleAssumption
<1>2. y * Cols <= (Rows - 1) * Cols
  BY <1>1
<1>3. (Rows - 1) * Cols + Cols = Rows * Cols
  BY <1>1
<1>4. y * Cols \in Nat /\ (Rows - 1) * Cols \in Int /\ Rows * Cols \in Nat
  BY <1>1
<1>5. y * Cols + x \in 0 .. Rows * Cols - 1
  BY <1>1, <1>2, <1>3, <1>4
<1>6. QED
  BY <1>5 DEF At, Cell

(* The place one row below a cell that is not in the last row.             *)
LEMMA BelowInside ==
  ASSUME NEW i \in Cell, i < (Rows - 1) * Cols
  PROVE  i + Cols \in Cell
<1>1. Rows \in Nat /\ Cols \in Nat
  BY ConsoleAssumption
<1>2. (Rows - 1) * Cols + Cols = Rows * Cols
  BY <1>1
<1>3. (Rows - 1) * Cols \in Int /\ Rows * Cols \in Nat
  BY <1>1
<1>4. QED
  BY <1>1, <1>2, <1>3 DEF Cell

(* The last row, which a scroll of the ideal console clears, begins there. *)
LEMMA CellTypes == Cell \subseteq Nat /\ Rows \in Nat /\ Cols \in Nat /\ (Rows - 1) * Cols \in Int
<1>1. Rows \in Nat /\ Cols \in Nat
  BY ConsoleAssumption
<1>2. QED
  BY <1>1 DEF Cell

(* What moving and clearing rows returns.                                  *)
LEMMA RowsTyped ==
  ASSUME NEW b \in [Cell -> Glyph]
  PROVE  /\ Moved(b) \in [Cell -> Glyph]
         /\ Cleared(b) \in [Cell -> Glyph]
         /\ LastCleared(b) \in [Cell -> Glyph]
<1>1. Nul \in Glyph
  BY DEF Glyph, Special
<1>2. Moved(b) \in [Cell -> Glyph]
  <2>1. ASSUME NEW i \in Cell
        PROVE  (IF i < (Rows - 1) * Cols THEN b[i + Cols] ELSE b[i]) \in Glyph
    BY BelowInside
  <2>2. QED
    BY <2>1 DEF Moved
<1>3. Cleared(b) \in [Cell -> Glyph]
  BY <1>1 DEF Cleared
<1>4. LastCleared(b) \in [Cell -> Glyph]
  BY <1>1 DEF LastCleared
<1>5. QED
  BY <1>2, <1>3, <1>4

-----------------------------------------------------------------------------
(* __efi_fb_newline keeps the text shown, whether it scrolls or not.       *)
LEMMA NewlineGood ==
  ASSUME NEW s, Good(s)
  PROVE  Good(Newline(s)) /\ Newline(s).x = s.x
<1>1. s \in Console /\ Shown(s)
  BY DEF Good
<1>2. CASE s.y + 1 < Rows
  <2>1. Newline(s) = [s EXCEPT !.y = @ + 1]
    BY <1>2 DEF Newline
  <2>2. s.y + 1 \in 0 .. Rows - 1
    BY <1>1, <1>2, CellTypes DEF Console
  <2>3. Newline(s) \in Console /\ Newline(s).x = s.x
    BY <1>1, <2>1, <2>2 DEF Console
  <2>4. Shown(Newline(s))
    BY <1>1, <2>1 DEF Shown, Console
  <2>5. QED
    BY <2>3, <2>4 DEF Good
<1>3. CASE ~(s.y + 1 < Rows)
  <2> DEFINE c == Cleared(Moved(s.cells))
             d == LastCleared(Moved(s.ideal))
             t == [s EXCEPT !.cells = c, !.screen = c, !.ideal = d, !.scrolled = TRUE]
  <2>1. Newline(s) = t
    BY <1>1, <1>3, ZenonT(30) DEF Newline, Redraw, Console
  <2>2. c \in [Cell -> Glyph] /\ d \in [Cell -> Glyph]
    BY <1>1, RowsTyped DEF Console
  <2>3. t \in Console /\ t.x = s.x
    BY <1>1, <2>2, ZenonT(30) DEF Console
  <2>4. ASSUME NEW i \in Cell, i >= Rows - 1 + Cols, d[i] \in Chars
        PROVE  c[i] = d[i]
    <3>1. i < (Rows - 1) * Cols
      <4>1. Nul \notin Chars
        BY ConsoleAssumption DEF Special
      <4>2. QED
        BY <2>4, <4>1, CellTypes DEF LastCleared
    <3>2. i + Cols \in Cell /\ i + Cols >= Rows - 1 + Cols
      BY <3>1, <2>4, BelowInside, CellTypes
    <3>3. d[i] = s.ideal[i + Cols]
      BY <3>1, CellTypes DEF LastCleared, Moved
    <3>4. c[i] = s.cells[i + Cols]
      <4>1. i \notin Rows - 1 .. Rows - 2 + Cols
        BY <2>4, CellTypes
      <4>2. QED
        BY <3>1, <4>1 DEF Cleared, Moved
    <3>5. QED
      <4>1. Shown(s)
        BY <1>1
      <4>2. QED
        BY <2>4, <3>2, <3>3, <3>4, <4>1, ZenonT(30) DEF Shown
  <2>5. Shown(t)
    BY <1>1, <2>4 DEF Shown, Console
  <2>6. QED
    BY <2>1, <2>3, <2>5 DEF Good
<1>4. QED
  BY <1>2, <1>3

(* __efi_fb_cursor_sanity leaves a column to write to.                     *)
LEMMA SaneGood ==
  ASSUME NEW s, Good(s)
  PROVE  Good(Sane(s)) /\ Sane(s).x \in 0 .. Cols - 1
<1>1. CASE s.x >= Cols
  <2> DEFINE t == [s EXCEPT !.x = 0]
  <2>1. Good(t) /\ t.x = 0
    BY CellTypes DEF Good, Console, Shown
  <2>2. Sane(s) = Newline(t)
    BY <1>1 DEF Sane
  <2>3. Good(Newline(t)) /\ Newline(t).x = 0
    BY <2>1, NewlineGood, ZenonT(30)
  <2>4. QED
    BY <2>2, <2>3, ConsoleAssumption
<1>2. CASE ~(s.x >= Cols)
  BY <1>2, CellTypes DEF Sane, Good, Console
<1>3. QED
  BY <1>1, <1>2

(* __efi_fb_write_buff: the same glyph in the buffer and on the screen.    *)
LEMMA DrawGood ==
  ASSUME NEW s, Good(s), s.x \in 0 .. Cols - 1, NEW c \in Glyph
  PROVE  Good(Draw(s, c)) /\ Draw(s, c).x = s.x
<1> DEFINE a == At(s.x, s.y)
<1>1. s \in Console /\ Shown(s)
  BY DEF Good
<1>2. a \in Cell
  BY <1>1, AtInside DEF Console
<1>3. Draw(s, c) = [s EXCEPT !.cells = [s.cells EXCEPT ![a] = c],
                             !.screen = [s.screen EXCEPT ![a] = c],
                             !.ideal = [s.ideal EXCEPT ![a] = c]]
  BY <1>1 DEF Draw, Put, Console
<1>4. Draw(s, c) \in Console /\ Draw(s, c).x = s.x
  <2>1. /\ [s.cells EXCEPT ![a] = c] \in [Cell -> Glyph]
        /\ [s.screen EXCEPT ![a] = c] \in [Cell -> Glyph]
        /\ [s.ideal EXCEPT ![a] = c] \in [Cell -> Glyph]
    BY <1>1, ZenonT(30) DEF Console
  <2>2. QED
    BY <1>1, <1>3, <2>1, ZenonT(30) DEF Console
<1>5. Shown(Draw(s, c))
  BY <1>1, <1>2, <1>3 DEF Shown, Console
<1>6. QED
  BY <1>4, <1>5 DEF Good

(* efi_fb_console_putchar.                                                 *)
LEMMA PutcharGood ==
  ASSUME NEW s, Good(s), s.x \in 0 .. Cols - 1, NEW c \in Chars \cup {NewLine, Carriage}
  PROVE  Good(Putchar(s, c))
<1>1. CASE c = NewLine
  <2> DEFINE t == [Draw(s, Nul) EXCEPT !.x = 0]
  <2>1. Good(Draw(s, Nul))
    BY DrawGood DEF Glyph, Special
  <2>2. Good(t)
    BY <2>1, CellTypes DEF Good, Console, Shown
  <2>3. Putchar(s, c) = Newline(t)
    BY <1>1 DEF Putchar, NewLine, Carriage
  <2>4. Good(Newline(t))
    BY <2>2, NewlineGood
  <2>5. QED
    BY <2>3, <2>4
<1>2. CASE c = Carriage
  <2>1. Putchar(s, c) = [s EXCEPT !.x = 0]
    BY <1>2 DEF Putchar, NewLine, Carriage
  <2>2. QED
    BY <2>1, CellTypes DEF Good, Console, Shown
<1>3. CASE c \notin {NewLine, Carriage}
  <2> DEFINE t == Draw(s, c)
  <2>1. Good(t) /\ t.x = s.x
    BY <1>3, DrawGood DEF Glyph
  <2>2. Putchar(s, c) = [t EXCEPT !.x = @ + 1]
    BY <1>3 DEF Putchar
  <2>3. t.x + 1 \in 0 .. Cols
    BY <2>1, CellTypes
  <2>4. QED
    BY <2>1, <2>2, <2>3 DEF Good, Console, Shown
<1>4. QED
  BY <1>1, <1>2, <1>3

-----------------------------------------------------------------------------
(* The invariant holds at first.                                           *)
LEMMA ConInit == ConStart => ConInv
<1> SUFFICES ASSUME ConStart PROVE ConInv
  OBVIOUS
<1>1. 0 \in 0 .. Cols /\ 0 \in 0 .. Rows - 1
  BY ConsoleAssumption
<1>2. State \in Console
  BY <1>1, ZenonT(30) DEF ConStart, State, Console, Glyph, Special
<1>3. Shown(State)
  BY DEF ConStart, State, Shown
<1>4. QED
  BY <1>2, <1>3 DEF ConInv

(* Every step keeps the invariant.                                         *)
LEMMA ConStep == ConInv /\ [ConNext]_conVars => ConInv'
<1> SUFFICES ASSUME ConInv, [ConNext]_conVars PROVE ConInv'
  OBVIOUS
<1>1. ASSUME UNCHANGED <<cx, cy, cells, screen, ideal, scrolled>>
      PROVE  ConInv'
  <2>1. State' = State
    BY <1>1, ZenonT(30) DEF State
  <2>2. QED
    BY <2>1, ZenonT(30) DEF ConInv, Shown
<1>2. CASE LoadConsole
  BY <1>1, <1>2 DEF LoadConsole
<1>3. ASSUME NEW c \in Chars \cup {NewLine, Carriage}, ConsolePutchar(c)
      PROVE  ConInv'
  <2>1. CASE ~registered
    BY <1>1, <1>3, <2>1 DEF ConsolePutchar
  <2>2. CASE registered
    <3> DEFINE t == Putchar(Sane(State), c)
    <3>1. Good(State)
      BY DEF ConInv, Good
    <3>2. Good(t)
      BY <3>1, SaneGood, PutcharGood
    <3>3. Become(t)
      BY <1>3, <2>2 DEF ConsolePutchar
    <3>4. t = [x |-> t.x, y |-> t.y, cells |-> t.cells, screen |-> t.screen,
               ideal |-> t.ideal, scrolled |-> t.scrolled]
      BY <3>2 DEF Good, Console
    <3>5. State' = t
      BY <3>3, <3>4, ZenonT(30) DEF Become, State
    <3>6. QED
      BY <3>2, <3>5, ZenonT(30) DEF ConInv, Good, Shown
  <2>3. QED
    BY <2>1, <2>2
<1>4. CASE UNCHANGED conVars
  BY <1>1, <1>4 DEF conVars
<1>5. QED
  BY <1>2, <1>3, <1>4 DEF ConNext

(* Whatever is printed, on a screen of any size: the cursor stays inside,  *)
(* the screen shows the driver's buffer, and that is the text, but for the *)
(* cells that a scroll clears by mistake and those above them.             *)
THEOREM ConsoleTextShown == ConSpec => []TextShown
<1>1. ConInv => TextShown
  <2> SUFFICES ASSUME ConInv PROVE TextShown
    OBVIOUS
  <2>1. Good(State)
    BY DEF ConInv, Good
  <2>2. Good(Sane(State)) /\ Sane(State).x \in 0 .. Cols - 1
    BY <2>1, SaneGood
  <2>3. At(Sane(State).x, Sane(State).y) \in Cell
    BY <2>2, AtInside DEF Good, Console
  <2>4. /\ State.x = cx /\ State.y = cy /\ State.cells = cells /\ State.screen = screen
        /\ State.ideal = ideal /\ State.scrolled = scrolled
    BY DEF State
  <2>5. cx \in 0 .. Cols /\ cy \in 0 .. Rows - 1
    BY <2>1, <2>4 DEF Good, Console
  <2>6. CursorInside
    BY <2>3, <2>5, ZenonT(30) DEF CursorInside
  <2>7. QED
    BY <2>1, <2>4, <2>6 DEF Good, Shown, TextShown
<1>2. QED
  BY <1>1, ConInit, ConStep, PTL DEF ConSpec

=============================================================================
