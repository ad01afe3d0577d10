----------------------------- MODULE ZoneTheory -----------------------------
(***************************************************************************)
(* One zone of the page allocator, its lists and its bits together: what   *)
(* __alloc_from_zone leaves behind for every order, what __init_free_lists *)
(* sets up, what taking two buddies off their list does, and when the      *)
(* pages of a block are all unused.                                        *)
(***************************************************************************)
EXTENDS ListTheory

USE SMTT(30), Z3T(30), SMTT(30), ZenonT(30)

(* Flipping the bit of a block keeps the bits in range.                    *)
LEMMA ToggleTyped ==
  ASSUME NEW z \in Zones, NEW bits \in SUBSET BitRange(z), NEW o \in 0 .. MaxOrder[z],
         NEW p \in 0 .. NumPages[z] - 1
  PROVE  Toggle(bits, p, o) \subseteq BitRange(z)
<1> DEFINE d == Pow2[o]
           i == p \div (2 * d)
<1>1. NumPages[z] \in Nat /\ MaxOrder[z] \in Nat
  BY ZoneTypes
<1>2. d \in Nat /\ d > 0 /\ Pow2[o + 1] = 2 * d
  BY <1>1, Pow2Step
<1> HIDE DEF d
<1>3. i \in Nat /\ (2 * d) * i <= p
  BY <1>1, <1>2
<1> HIDE DEF i
<1>4. 2 * i <= (2 * d) * i
  BY <1>2, <1>3
<1>5. i <= NumPages[z] \div 2
  <2>1. 2 * i <= NumPages[z]
    BY <1>1, <1>2, <1>3, <1>4
  <2>2. QED
    BY <1>1, <1>3, <2>1
<1>6. i \in 0 .. NumPages[z] \div 2
  BY <1>1, <1>3, <1>5
<1>7. Bit(p, o) \in BitRange(z)
  BY <1>2, <1>6 DEF Bit, BitRange, i
<1>8. QED
  BY <1>7 DEF Toggle

(* What __alloc_from_zone(zone, o) returns, when the blocks in use are U.  *)
Allocated(z, U, o, r) ==
  /\ r.page \in 0 .. NumPages[z] - 1 /\ r.page \notin U[o]
  /\ ListsOK(z, r.lists) /\ r.map \subseteq BitRange(z)
  /\ Buddies(NumPages[z], MaxOrder[z], Free(z, r.lists), [U EXCEPT ![o] = @ \cup {r.page}],
             Flips(r.map, stale[z]), stale[z])
  /\ \A s \in 0 .. o - 1 : r.lists.next[Head(z, s)] = lists[z].next[Head(z, s)]
  /\ Chain(z, lists[z]) => Chain(z, r.lists)

ZoneReady(z, U) ==
  /\ ListsOK(z, lists[z]) /\ map[z] \subseteq BitRange(z)
  /\ Buddies(NumPages[z], MaxOrder[z], Free(z, lists[z]), U, Flips(map[z], stale[z]), stale[z])

(* __alloc_from_zone finds a block on the list of the order asked for.     *)
LEMMA AllocTake ==
  ASSUME NEW z \in Zones, NEW U, ZoneReady(z, U), NEW o \in 0 .. MaxOrder[z], NEW larger,
         ~list_empty(lists[z], Head(z, o))
  PROVE  Allocated(z, U, o, AllocFrom(z, o, larger))
<1> DEFINE L == lists[z]
           N == NumPages[z]
           M == MaxOrder[z]
           h == Head(z, o)
           p == L.next[h]
           K == list_del_init(L, p)
           bits == IF o = M THEN map[z] ELSE Toggle(map[z], p, o)
<1>1. AllocFrom(z, o, larger) = [page |-> p, lists |-> K, map |-> bits]
  BY DEF AllocFrom
<1>2. /\ ListsOK(z, L) /\ map[z] \subseteq BitRange(z)
      /\ Buddies(N, M, Free(z, L), U, Flips(map[z], stale[z]), stale[z])
  BY DEF ZoneReady
<1>3. /\ N \in Nat /\ M \in Nat /\ Nodes(z) = 0 .. N + M
      /\ \A r \in 0 .. M : Head(z, r) = N + r /\ Head(z, r) \in Nodes(z)
  BY ZoneTypes
<1>4. p # h /\ p \in FreeAt(z, L, o) /\ p \in 0 .. N - 1
  <2>1. p # h
    BY DEF list_empty
  <2>2. p \in FreeAt(z, L, o)
    BY <1>2, <2>1 DEF ListsOK
  <2>3. QED
    BY <2>1, <2>2 DEF FreeAt
<1>5. L.prev[p] = h
  <2>1. CASE o \in 0 .. M - 1
    BY <1>2, <1>4, <2>1 DEF ListsOK
  <2>2. CASE o = M
    BY <1>2, <1>4, <2>2 DEF ListsOK
  <2>3. QED
    BY <1>3, <2>1, <2>2
<1> HIDE DEF L, p
<1>6. /\ ListsOK(z, K) /\ Free(z, K) = [Free(z, L) EXCEPT ![o] = @ \ {p}]
      /\ \A q \in Nodes(z) : K.next[q] = IF q = p THEN p ELSE IF q = h THEN L.next[p] ELSE L.next[q]
  BY <1>2, <1>4, <1>5, RemoveOK
<1>7. Chain(z, L) => Chain(z, K)
  BY <1>2, <1>4, <1>5, ChainRemove DEF p
<1>8. p \in Free(z, L)[o] /\ p \notin U[o]
  <2>1. p \in Free(z, L)[o]
    BY <1>4 DEF Free
  <2>2. QED
    BY <1>2, <2>1 DEF Buddies
<1>9. Buddies(N, M, Free(z, K), [U EXCEPT ![o] = @ \cup {p}], Flips(bits, stale[z]), stale[z])
  <2> DEFINE F == Free(z, L)
             st == stale[z]
             old == Flips(map[z], st)
  <2>1. Buddies(N, M, F, U, old, st) /\ p \in F[o] /\ N \in Nat /\ M \in Nat
    BY <1>2, <1>3, <1>8
  <2>2. Flips(bits, st) = IF o = M THEN old ELSE Toggle(old, p, o)
    BY ToggleFlips
  <2> HIDE DEF F, st, old
  <2>3. Buddies(N, M, [F EXCEPT ![o] = @ \ {p}], [U EXCEPT ![o] = @ \cup {p}],
                IF o = M THEN old ELSE Toggle(old, p, o), st)
    BY <2>1, TakeBuddies
  <2>4. QED
    BY <1>6, <2>2, <2>3 DEF F, st
<1>10. bits \subseteq BitRange(z)
  BY <1>2, <1>4, ToggleTyped
<1>11. ASSUME NEW s \in 0 .. o - 1 PROVE K.next[Head(z, s)] = L.next[Head(z, s)]
  <2>1. Head(z, s) \in Nodes(z) /\ Head(z, s) # p /\ Head(z, s) # h
    <3>1. s \in 0 .. M /\ s # o
      BY <1>3
    <3>2. Head(z, s) = N + s /\ h = N + o /\ Head(z, s) \in Nodes(z)
      BY <1>3, <3>1
    <3>3. QED
      BY <1>3, <1>4, <3>1, <3>2
  <2>2. QED
    BY <1>6, <2>1
<1> HIDE DEF K, bits
<1>12. QED
  <2> DEFINE r == AllocFrom(z, o, larger)
  <2>1. r.page = p /\ r.lists = K /\ r.map = bits
    BY <1>1
  <2> HIDE DEF r
  <2>2. Allocated(z, U, o, r)
    BY <1>4, <1>6, <1>7, <1>8, <1>9, <1>10, <1>11, <2>1 DEF Allocated, L
  <2>3. QED
    BY <2>2 DEF r

(* __alloc_from_zone splits the block that the next order's call returns.  *)
LEMMA AllocSplit ==
  ASSUME NEW z \in Zones, NEW U, ZoneReady(z, U), NEW o \in 0 .. MaxOrder[z] - 1, NEW larger,
         Allocated(z, U, o + 1, larger), larger # NULL, list_empty(lists[z], Head(z, o))
  PROVE  Allocated(z, U, o, AllocFrom(z, o, larger))
<1> DEFINE L == larger.lists
           N == NumPages[z]
           M == MaxOrder[z]
           h == Head(z, o)
           p == larger.page
           b == p + Pow2[o]
           K == Alone(L, h, b)
           V == [U EXCEPT ![o + 1] = @ \cup {p}]
           bits == Toggle(larger.map, p, o)
<1>1. /\ N \in Nat /\ M \in Nat /\ Nodes(z) = 0 .. N + M /\ o \in 0 .. M /\ o + 1 \in 0 .. M /\ o # o + 1
      /\ \A r \in 0 .. M : Head(z, r) = N + r /\ Head(z, r) \in Nodes(z)
  <2>1. /\ N \in Nat /\ M \in Nat /\ Nodes(z) = 0 .. N + M
        /\ \A r \in 0 .. M : Head(z, r) = N + r /\ Head(z, r) \in Nodes(z)
    BY ZoneTypes
  <2>2. QED
    BY <2>1
<1>2. /\ p \in 0 .. N - 1 /\ p \notin U[o + 1] /\ ListsOK(z, L) /\ larger.map \subseteq BitRange(z)
      /\ Buddies(N, M, Free(z, L), V, Flips(larger.map, stale[z]), stale[z])
      /\ \A s \in 0 .. (o + 1) - 1 : L.next[Head(z, s)] = lists[z].next[Head(z, s)]
      /\ Chain(z, lists[z]) => Chain(z, L)
  BY DEF Allocated
<1>3. U \in Blocks(N, M)
  BY DEF ZoneReady, Buddies
<1>4. V \in Blocks(N, M) /\ p \in V[o + 1] /\ V[o] = U[o]
  BY <1>1, <1>2, <1>3, ZenonT(30) DEF Blocks
<1> HIDE DEF L, p, V
<1>5. /\ b \in 0 .. N - 1
      /\ \A r \in 0 .. M : b \notin Free(z, L)[r]
      /\ Buddies(N, M, [Free(z, L) EXCEPT ![o] = @ \cup {b}],
                 [V EXCEPT ![o + 1] = @ \ {p}, ![o] = @ \cup {p}], Flips(bits, stale[z]), stale[z])
  <2> DEFINE old == Flips(larger.map, stale[z])
  <2>1. Flips(bits, stale[z]) = Toggle(old, p, o)
    BY ToggleFlips
  <2>2. Buddies(N, M, Free(z, L), V, old, stale[z])
    BY <1>2
  <2> HIDE DEF old, bits
  <2>3. /\ b \in 0 .. N - 1
        /\ \A r \in 0 .. M : b \notin Free(z, L)[r]
        /\ Buddies(N, M, [Free(z, L) EXCEPT ![o] = @ \cup {b}],
                   [V EXCEPT ![o + 1] = @ \ {p}, ![o] = @ \cup {p}], Toggle(old, p, o), stale[z])
    BY <1>1, <1>4, <2>2, SplitBuddies, ZenonT(30)
  <2>4. QED
    BY <2>1, <2>3, ZenonT(30)
<1> HIDE DEF b
<1>6. L.next[b] = b
  <2>1. b \in Nodes(z) /\ TypedLists(z, L)
    BY <1>1, <1>2, <1>5 DEF ListsOK
  <2>2. L.next[b] \in 0 .. N + M
    BY <1>1, <2>1 DEF TypedLists
  <2>3. \A r \in 0 .. M : b \notin FreeAt(z, L, r)
    BY <1>5, ZenonT(30) DEF Free
  <2>4. QED
    BY <1>5, <2>2, <2>3, NotFree
<1>7. AllocFrom(z, o, larger) = [page |-> p, lists |-> K, map |-> bits]
  <2>1. list_add_tail(L, h, b) = K
    <3>1. ListsOK(z, L) /\ o \in 0 .. MaxOrder[z] /\ b \in 0 .. NumPages[z] - 1 /\ L.next[b] = b
      BY <1>1, <1>2, <1>5, <1>6
    <3> HIDE DEF K, bits
    <3>2. list_add_tail(L, Head(z, o), b) = Alone(L, Head(z, o), b)
      BY <3>1, PutOK
    <3>3. QED
      BY <3>2, ZenonT(30) DEF K
  <2>2. QED
    BY <2>1 DEF AllocFrom, PutBuddy, Buddy, L, p, b
<1>8. /\ ListsOK(z, K) /\ Free(z, K) = [Free(z, L) EXCEPT ![o] = @ \cup {b}]
      /\ \A q \in Nodes(z) : K.next[q] = IF q = b THEN h ELSE IF q = h THEN b ELSE L.next[q]
  <2>1. o \in 0 .. MaxOrder[z] /\ b \in 0 .. NumPages[z] - 1 /\ ListsOK(z, L) /\ L.next[b] = b
    BY <1>1, <1>2, <1>5, <1>6
  <2>2. QED
    BY <2>1, PutOK
<1>9. Chain(z, lists[z]) => Chain(z, K)
  <2>1. o \in 0 .. (o + 1) - 1
    BY <1>1
  <2>2. L.next[h] = h
    BY <1>2, <2>1 DEF list_empty
  <2>3. QED
    BY <1>2, <1>5, <1>6, <2>2, ChainPut
<1>10. [V EXCEPT ![o + 1] = @ \ {p}, ![o] = @ \cup {p}] = [U EXCEPT ![o] = @ \cup {p}]
  BY <1>1, <1>2, <1>3 DEF Blocks, V
<1>11. p \notin U[o]
  <2>1. Tiled(N, M, Both(M, Free(z, L), V)) /\ p \in Both(M, Free(z, L), V)[o + 1]
    BY <1>1, <1>2, <1>4 DEF Buddies, Both
  <2>2. Pow2[o + 1] \in Nat /\ Pow2[o + 1] > 0
    BY <1>1, Pow2Step
  <2>3. p \in p .. p + Pow2[o + 1] - 1
    BY <1>1, <1>2, <2>2
  <2>4. p \notin Both(M, Free(z, L), V)[o]
    <3> DEFINE B == Both(M, Free(z, L), V)
               e == o + 1
    <3>1. /\ N \in Nat /\ M \in Nat /\ Tiled(N, M, B) /\ e \in 0 .. M /\ p \in B[e]
          /\ p \in p .. p + Pow2[e] - 1 /\ o \in 0 .. M /\ o # e
      BY <1>1, <2>1, <2>3
    <3> HIDE DEF B, e, N, M, K, bits, h
    <3>2. p \in B[o] => p = p /\ o = e
      BY <3>1, OneBlock
    <3>3. QED
      BY <3>1, <3>2, ZenonT(30) DEF B
  <2>5. QED
    BY <1>1, <1>4, <2>4 DEF Both
<1>12. bits \subseteq BitRange(z)
  BY <1>1, <1>2, ToggleTyped
<1>13. ASSUME NEW s \in 0 .. o - 1 PROVE K.next[Head(z, s)] = lists[z].next[Head(z, s)]
  <2>1. s \in 0 .. M /\ s # o /\ s \in 0 .. (o + 1) - 1
    BY <1>1
  <2>2. Head(z, s) \in Nodes(z) /\ Head(z, s) # b /\ Head(z, s) # h
    <3>1. Head(z, s) = N + s /\ h = N + o /\ Head(z, s) \in Nodes(z)
      BY <1>1, <2>1
    <3>2. s \in Int /\ o \in Int /\ b < N /\ b \in Int
      BY <1>1, <1>5
    <3> HIDE DEF h, N
    <3>3. QED
      BY <1>1, <2>1, <3>1, <3>2
  <2>3. QED
    BY <1>2, <1>8, <2>1, <2>2
<1> HIDE DEF K, bits
<1>14. QED
  <2> DEFINE r == AllocFrom(z, o, larger)
  <2>1. r.page = p /\ r.lists = K /\ r.map = bits
    BY <1>7
  <2>2. Buddies(N, M, Free(z, K), [U EXCEPT ![o] = @ \cup {p}], Flips(bits, stale[z]), stale[z])
    BY <1>5, <1>8, <1>10, ZenonT(30)
  <2> HIDE DEF r
  <2>3. Allocated(z, U, o, r)
    BY <1>2, <1>8, <1>9, <1>11, <1>12, <1>13, <2>1, <2>2, ZenonT(30) DEF Allocated
  <2>4. QED
    BY <2>3 DEF r

AllocsFrom(z, k, f) ==
  f = [order \in MaxOrder[z] - k .. MaxOrder[z] |->
         AllocFrom(z, order, IF order = MaxOrder[z] THEN NULL ELSE f[order + 1])]

(* The recursion of __alloc_from_zone, one order at a time.                *)
LEMMA AllocUnfold ==
  ASSUME NEW z \in Zones, NEW o \in 0 .. MaxOrder[z]
  PROVE  AllocFromZone(z)[o] =
           AllocFrom(z, o, IF o = MaxOrder[z] THEN NULL ELSE AllocFromZone(z)[o + 1])
<1> DEFINE M == MaxOrder[z]
           S == {k \in 0 .. M : \E f : AllocsFrom(z, k, f)}
<1>1. M \in Nat
  BY ZoneTypes
<1>2. 0 \in S
  <2>1. AllocsFrom(z, 0, [order \in M - 0 .. M |-> AllocFrom(z, order, NULL)])
    BY <1>1 DEF AllocsFrom
  <2>2. QED
    BY <1>1, <2>1
<1>3. ASSUME NEW k \in 0 .. M - 1, k \in S PROVE k + 1 \in S
  <2>1. PICK f : AllocsFrom(z, k, f)
    BY <1>3
  <2> DEFINE g == [order \in M - (k + 1) .. M |->
                     AllocFrom(z, order, IF order = M THEN NULL ELSE f[order + 1])]
  <2>2. \A r \in M - k .. M : g[r] = f[r]
    BY <1>1, <2>1 DEF AllocsFrom
  <2>3. \A r \in M - (k + 1) .. M : r # M => r + 1 \in M - k .. M
    BY <1>1
  <2>4. \A r \in M - (k + 1) .. M : r # M => g[r + 1] = f[r + 1]
    <3> HIDE DEF g
    <3>1. QED
      BY <2>2, <2>3
  <2>5. g = [order \in M - (k + 1) .. M |-> AllocFrom(z, order, IF order = M THEN NULL ELSE g[order + 1])]
    BY <2>4, ZenonT(30)
  <2> HIDE DEF g
  <2>6. AllocsFrom(z, k + 1, g)
    BY <2>5, ZenonT(30) DEF AllocsFrom
  <2>7. QED
    BY <1>1, <2>6
<1>4. M \in S
  <2> HIDE DEF S
  <2>1. 0 .. M \subseteq S
    BY <1>1, <1>2, <1>3, Up
  <2>2. QED
    BY <1>1, <2>1
<1>5. PICK f : AllocsFrom(z, M, f)
  BY <1>4
<1>6. M - M = 0
  BY <1>1
<1>7. \E g : g = [order \in 0 .. M |-> AllocFrom(z, order, IF order = M THEN NULL ELSE g[order + 1])]
  BY <1>5, <1>6, ZenonT(30) DEF AllocsFrom
<1>8. AllocFromZone(z) = [order \in 0 .. M |->
        AllocFrom(z, order, IF order = M THEN NULL ELSE AllocFromZone(z)[order + 1])]
  BY <1>7, ZenonT(30) DEF AllocFromZone
<1>9. QED
  BY <1>8, ZenonT(30)

(* Every block __alloc_from_zone returns, of any order, was free, and      *)
(* leaves the zone in order.                                               *)
LEMMA AllocZone ==
  ASSUME NEW z \in Zones, NEW U, ZoneReady(z, U), NEW o \in 0 .. MaxOrder[z],
         AllocFromZone(z)[o] # NULL
  PROVE  Allocated(z, U, o, AllocFromZone(z)[o])
<1> DEFINE M == MaxOrder[z]
           A == AllocFromZone(z)
           S == {k \in 0 .. M : A[k] # NULL => Allocated(z, U, k, A[k])}
<1>1. M \in Nat
  BY ZoneTypes
<1>2. \A k \in 0 .. M : A[k] = AllocFrom(z, k, IF k = M THEN NULL ELSE A[k + 1])
  BY AllocUnfold
<1> HIDE DEF A
<1>3. M \in S
  <2>1. A[M] = AllocFrom(z, M, NULL) /\ M \in 0 .. M
    BY <1>1, <1>2
  <2>2. CASE list_empty(lists[z], Head(z, M))
    BY <2>1, <2>2 DEF AllocFrom
  <2>3. CASE ~list_empty(lists[z], Head(z, M))
    BY <2>1, <2>3, AllocTake
  <2>4. QED
    BY <2>2, <2>3
<1>4. ASSUME NEW k \in 0 .. M - 1, k + 1 \in S PROVE k \in S
  <2>1. k \in 0 .. M /\ k # M
    BY <1>1
  <2>2. A[k] = AllocFrom(z, k, A[k + 1])
    BY <1>2, <2>1
  <2>3. CASE ~list_empty(lists[z], Head(z, k))
    BY <2>1, <2>2, <2>3, AllocTake
  <2>4. CASE list_empty(lists[z], Head(z, k)) /\ A[k + 1] = NULL
    BY <2>1, <2>2, <2>4 DEF AllocFrom
  <2>5. CASE list_empty(lists[z], Head(z, k)) /\ A[k + 1] # NULL
    <3>1. Allocated(z, U, k + 1, A[k + 1])
      BY <1>4, <2>5
    <3>2. Allocated(z, U, k, A[k])
      BY <2>2, <2>5, <3>1, AllocSplit
    <3>3. QED
      BY <2>1, <3>2
  <2>6. QED
    BY <2>3, <2>4, <2>5
<1>5. 0 .. M \subseteq S
  <2> HIDE DEF S
  <2>1. QED
    BY <1>1, <1>3, <1>4, Down
<1>6. QED
  BY <1>5 DEF A

(* __init_free_lists, after j blocks.                                      *)
Filled(z, L, j) ==
  LET size == Pow2[MaxOrder[z]]
      top == Head(z, MaxOrder[z])
  IN  /\ TypedLists(z, L)
      /\ \A k \in 0 .. j - 1 :
           /\ L.next[k * size] = IF k + 1 < j THEN (k + 1) * size ELSE top
           /\ L.prev[k * size] = IF k = 0 THEN top ELSE (k - 1) * size
      /\ L.next[top] = IF j = 0 THEN top ELSE 0 * size
      /\ L.prev[top] = IF j = 0 THEN top ELSE (j - 1) * size
      /\ \A q \in Nodes(z) \ {top} : (\A k \in 0 .. j - 1 : q # k * size) => L.next[q] = q /\ L.prev[q] = q

(* An iteration of __init_free_lists puts one more block on the list.      *)
LEMMA FillStep ==
  ASSUME NEW z \in Zones, NEW L, NEW j \in 0 .. (NumPages[z] \div Pow2[MaxOrder[z]]) - 1, Filled(z, L, j)
  PROVE  Filled(z, list_add_tail(L, j * Pow2[MaxOrder[z]], Head(z, MaxOrder[z])), j + 1)
<1> DEFINE N == NumPages[z]
           size == Pow2[MaxOrder[z]]
           n == N \div size
           top == Head(z, MaxOrder[z])
           E(k) == k * size
           K == list_add_tail(L, E(j), top)
<1>1. /\ size \in Nat /\ size > 0 /\ n \in Nat
      /\ \A k \in 0 .. n - 1 : E(k) \in 0 .. N - 1
  BY ChainSize
<1>2. N \in Nat /\ Nodes(z) = 0 .. top /\ top \in Nat /\ top >= N
  BY ZoneTypes DEF Nodes
<1>3. \A k \in 0 .. n - 1 : \A l \in 0 .. n - 1 : k # l => E(k) # E(l)
  <2> SUFFICES ASSUME NEW k \in 0 .. n - 1, NEW l \in 0 .. n - 1, k # l PROVE E(k) # E(l)
    OBVIOUS
  <2> HIDE DEF size, n
  <2>1. k < l => E(k) + size <= E(l)
    BY <1>1
  <2>2. l < k => E(l) + size <= E(k)
    BY <1>1
  <2>3. QED
    BY <1>1, <2>1, <2>2
<1>4. /\ TypedLists(z, L)
      /\ \A k \in 0 .. j - 1 :
           /\ L.next[E(k)] = IF k + 1 < j THEN E(k + 1) ELSE top
           /\ L.prev[E(k)] = IF k = 0 THEN top ELSE E(k - 1)
      /\ L.next[top] = IF j = 0 THEN top ELSE E(0)
      /\ L.prev[top] = IF j = 0 THEN top ELSE E(j - 1)
      /\ \A q \in Nodes(z) \ {top} : (\A k \in 0 .. j - 1 : q # E(k)) => L.next[q] = q /\ L.prev[q] = q
  BY DEF Filled
<1> SUFFICES /\ TypedLists(z, K)
             /\ \A k \in 0 .. (j + 1) - 1 :
                  /\ K.next[E(k)] = IF k + 1 < j + 1 THEN E(k + 1) ELSE top
                  /\ K.prev[E(k)] = IF k = 0 THEN top ELSE E(k - 1)
             /\ K.next[top] = IF j + 1 = 0 THEN top ELSE E(0)
             /\ K.prev[top] = IF j + 1 = 0 THEN top ELSE E((j + 1) - 1)
             /\ \A q \in Nodes(z) \ {top} :
                  (\A k \in 0 .. (j + 1) - 1 : q # E(k)) => K.next[q] = q /\ K.prev[q] = q
  BY ZenonT(30) DEF Filled
<1>5. j \in 0 .. n - 1 /\ j + 1 \in Nat /\ (j + 1) - 1 = j /\ j + 1 # 0
  <2>1. j \in 0 .. n - 1
    BY ZenonT(30)
  <2> HIDE DEF n, K
  <2>2. QED
    BY <1>1, <2>1
<1> HIDE DEF E, size, n, N, top
<1>6. /\ \A k \in 0 .. n - 1 : E(k) \in Nodes(z) /\ E(k) # top
      /\ top \in Nodes(z)
  BY <1>1, <1>2
<1> DEFINE pv == L.prev[top]
<1>7. pv \in Nodes(z) /\ pv # E(j) /\ pv = IF j = 0 THEN top ELSE E(j - 1)
  <2>1. j # 0 => j - 1 \in 0 .. n - 1 /\ j - 1 # j
    BY <1>1, <1>5
  <2>2. QED
    BY <1>3, <1>4, <1>5, <1>6, <2>1
<1>8. /\ TypedLists(z, K)
      /\ \A q \in Nodes(z) :
           /\ K.next[q] = IF q = pv THEN E(j) ELSE IF q = E(j) THEN top ELSE L.next[q]
           /\ K.prev[q] = IF q = E(j) THEN pv ELSE IF q = top THEN E(j) ELSE L.prev[q]
  <2>1. K = ListAddBetween(L, E(j), pv, top)
    BY DEF list_add_tail
  <2>2. E(j) \in Nodes(z) /\ E(j) # top
    BY <1>5, <1>6
  <2> HIDE DEF K
  <2>3. QED
    BY <1>4, <1>6, <1>7, <2>1, <2>2, ZenonT(30) DEF ListAddBetween, TypedLists
<1> HIDE DEF K, pv
<1>9. ASSUME NEW k \in 0 .. j
      PROVE  /\ K.next[E(k)] = IF k + 1 < j + 1 THEN E(k + 1) ELSE top
             /\ K.prev[E(k)] = IF k = 0 THEN top ELSE E(k - 1)
  <2>1. k \in 0 .. n - 1 /\ E(k) \in Nodes(z) /\ E(k) # top
    BY <1>1, <1>5, <1>6
  <2>2. CASE k = j
    BY <1>5, <1>7, <1>8, <2>1, <2>2
  <2>3. CASE k # j
    <3>1. k \in 0 .. j - 1 /\ E(k) # E(j)
      BY <1>3, <1>5, <2>1, <2>3
    <3>2. K.prev[E(k)] = IF k = 0 THEN top ELSE E(k - 1)
      BY <1>4, <1>8, <2>1, <3>1
    <3>3. CASE k = j - 1
      <4>1. j # 0 /\ k + 1 = j /\ k + 1 < j + 1 /\ pv = E(k)
        BY <1>5, <1>7, <3>1, <3>3
      <4>2. QED
        BY <1>8, <2>1, <3>2, <4>1
    <3>4. CASE k # j - 1
      <4>1. j # 0 /\ j - 1 \in 0 .. n - 1 /\ k + 1 < j /\ k + 1 < j + 1
        BY <1>1, <1>5, <3>1, <3>4
      <4>2. E(k) # pv
        BY <1>3, <1>7, <2>1, <3>4, <4>1
      <4>3. QED
        BY <1>4, <1>8, <2>1, <3>1, <3>2, <4>1, <4>2
    <3>5. QED
      BY <3>3, <3>4
  <2>4. QED
    BY <2>2, <2>3
<1>10. K.next[top] = E(0) /\ K.prev[top] = E(j)
  <2>1. top # E(j)
    BY <1>5, <1>6
  <2>2. K.prev[top] = E(j)
    BY <1>6, <1>8, <2>1
  <2>3. CASE j = 0
    BY <1>6, <1>7, <1>8, <2>2, <2>3
  <2>4. CASE j # 0
    <3>1. j - 1 \in 0 .. n - 1
      BY <1>1, <1>5, <2>4
    <3>2. pv # top
      BY <1>6, <1>7, <2>4, <3>1
    <3>3. QED
      BY <1>4, <1>6, <1>8, <2>1, <2>2, <2>4, <3>2
  <2>5. QED
    BY <2>3, <2>4
<1>11. ASSUME NEW q \in Nodes(z) \ {top}, \A k \in 0 .. j : q # E(k) PROVE K.next[q] = q /\ K.prev[q] = q
  <2>1. \A k \in 0 .. j - 1 : q # E(k)
    BY <1>5, <1>11
  <2>2. q # E(j)
    BY <1>5, <1>11
  <2>3. q # pv
    <3>1. j # 0 => j - 1 \in 0 .. j
      BY <1>5
    <3>2. QED
      BY <1>7, <1>11, <3>1
  <2>4. QED
    BY <1>4, <1>8, <2>1, <2>2, <2>3
<1>12. QED
  BY <1>5, <1>8, <1>9, <1>10, <1>11

Fills(z, j, f) ==
  LET size == Pow2[MaxOrder[z]]
      top == Head(z, MaxOrder[z])
  IN  f = [p \in 0 .. j |-> IF p = 0 THEN InitListHeads(0 .. top)
                            ELSE list_add_tail(f[p - 1], (p - 1) * size, top)]

(* After all iterations of __init_free_lists every block is on the list.   *)
LEMMA InitFilled ==
  ASSUME NEW z \in Zones
  PROVE  Filled(z, InitFreeLists(z), NumPages[z] \div Pow2[MaxOrder[z]])
<1> DEFINE size == Pow2[MaxOrder[z]]
           n == NumPages[z] \div size
           top == Head(z, MaxOrder[z])
           S == {j \in 0 .. n : \E f : Fills(z, j, f) /\ Filled(z, f[j], j)}
<1>1. n \in Nat
  BY ChainSize
<1>2. 0 \in S
  <2> DEFINE f == [p \in 0 .. 0 |-> InitListHeads(0 .. top)]
  <2>1. Fills(z, 0, f)
    BY DEF Fills
  <2>2. Filled(z, InitListHeads(0 .. top), 0)
    <3>1. Nodes(z) = 0 .. top /\ top \in Nodes(z) /\ 0 .. 0 - 1 = {}
      BY ZoneTypes DEF Nodes
    <3>2. QED
      BY <3>1 DEF Filled, InitListHeads, TypedLists
  <2>3. f[0] = InitListHeads(0 .. top)
    OBVIOUS
  <2> HIDE DEF f
  <2>4. Filled(z, f[0], 0)
    BY <2>2, <2>3
  <2>5. QED
    BY <1>1, <2>1, <2>4
<1>3. ASSUME NEW j \in 0 .. n - 1, j \in S PROVE j + 1 \in S
  <2>1. PICK f : Fills(z, j, f) /\ Filled(z, f[j], j)
    BY <1>3
  <2> DEFINE g == [p \in 0 .. j + 1 |-> IF p = 0 THEN InitListHeads(0 .. top)
                                        ELSE list_add_tail(f[p - 1], (p - 1) * size, top)]
  <2>2. \A r \in 0 .. j : g[r] = f[r]
    <3>1. \A r \in 0 .. j : f[r] = IF r = 0 THEN InitListHeads(0 .. top)
                                   ELSE list_add_tail(f[r - 1], (r - 1) * size, top)
      BY <2>1, ZenonT(30) DEF Fills
    <3>2. \A r \in 0 .. j : r \in 0 .. j + 1
      OBVIOUS
    <3>3. QED
      BY <3>1, <3>2, ZenonT(30)
  <2>3. \A r \in 0 .. j + 1 : r # 0 => r - 1 \in 0 .. j
    BY <1>1
  <2>4. \A r \in 0 .. j + 1 : r # 0 => g[r - 1] = f[r - 1]
    <3> HIDE DEF g
    <3>1. QED
      BY <2>2, <2>3
  <2>5. g = [p \in 0 .. j + 1 |-> IF p = 0 THEN InitListHeads(0 .. top)
                                  ELSE list_add_tail(g[p - 1], (p - 1) * size, top)]
    BY <2>4, ZenonT(30)
  <2>6. g[j + 1] = list_add_tail(f[j], j * size, top)
    <3>1. j + 1 \in 0 .. j + 1 /\ j + 1 # 0 /\ (j + 1) - 1 = j
      BY <1>1
    <3>2. QED
      BY <3>1, ZenonT(30)
  <2>7. Filled(z, list_add_tail(f[j], j * size, top), j + 1)
    BY <2>1, FillStep
  <2> HIDE DEF g
  <2>8. Fills(z, j + 1, g) /\ Filled(z, g[j + 1], j + 1)
    BY <2>5, <2>6, <2>7, ZenonT(30) DEF Fills
  <2>9. QED
    BY <1>1, <2>8
<1>4. n \in S
  <2> HIDE DEF S, n
  <2>1. 0 .. n \subseteq S
    BY <1>1, <1>2, <1>3, Up
  <2>2. QED
    BY <1>1, <2>1
<1>5. PICK f : Fills(z, n, f) /\ Filled(z, f[n], n)
  BY <1>4
<1> DEFINE A == CHOOSE g : Fills(z, n, g)
<1>6. InitFreeLists(z) = A[n]
  BY DEF InitFreeLists, Fills
<1>7. Fills(z, n, A)
  BY <1>5, ZenonT(30)
<1> HIDE DEF A
<1>8. \A j \in 0 .. n : A[j] = f[j]
  <2> DEFINE T == {j \in 0 .. n : A[j] = f[j]}
  <2>1. /\ \A j \in 0 .. n : A[j] = IF j = 0 THEN InitListHeads(0 .. top)
                                    ELSE list_add_tail(A[j - 1], (j - 1) * size, top)
        /\ \A j \in 0 .. n : f[j] = IF j = 0 THEN InitListHeads(0 .. top)
                                    ELSE list_add_tail(f[j - 1], (j - 1) * size, top)
    BY <1>5, <1>7, ZenonT(30) DEF Fills
  <2> HIDE DEF n, top, size
  <2>2. 0 \in T
    BY <1>1, <2>1
  <2>3. ASSUME NEW j \in 0 .. n - 1, j \in T PROVE j + 1 \in T
    <3>1. j + 1 \in 0 .. n /\ j + 1 # 0 /\ (j + 1) - 1 = j
      BY <1>1
    <3>2. A[j + 1] = list_add_tail(A[j], j * size, top) /\ f[j + 1] = list_add_tail(f[j], j * size, top)
      BY <2>1, <3>1
    <3>3. QED
      BY <2>3, <3>1, <3>2
  <2>4. 0 .. n \subseteq T
    <3> HIDE DEF T
    <3>1. QED
      BY <1>1, <2>2, <2>3, Up
  <2>5. QED
    BY <2>4
<1>9. A[n] = f[n]
  BY <1>1, <1>8
<1>10. QED
  BY <1>5, <1>6, <1>9

(* What __init_free_lists leaves is a zone in order, none of it in use,    *)
(* whatever the bits are.                                                  *)
LEMMA InitZone ==
  ASSUME NEW z \in Zones
  PROVE  ZoneOK(z, InitFreeLists(z), stale[z], {}) /\ Chain(z, InitFreeLists(z))
<1> DEFINE N == NumPages[z]
           M == MaxOrder[z]
           size == Pow2[M]
           n == N \div size
           top == Head(z, M)
           L == InitFreeLists(z)
           E(k) == k * size
           P == {E(k) : k \in 0 .. n - 1}
<1>1. /\ size \in Nat /\ size > 0 /\ n \in Nat /\ n * size = N
      /\ \A k \in 0 .. n - 1 : E(k) \in 0 .. N - 1 /\ E(k) + size <= N
  BY ChainSize
<1>2. /\ N \in Nat /\ M \in Nat /\ Nodes(z) = 0 .. N + M /\ top = N + M
      /\ \A r \in 0 .. M : Head(z, r) = N + r /\ Head(z, r) \in Nodes(z)
  BY ZoneTypes
<1>3. /\ TypedLists(z, L)
      /\ \A k \in 0 .. n - 1 :
           /\ L.next[E(k)] = IF k + 1 < n THEN E(k + 1) ELSE top
           /\ L.prev[E(k)] = IF k = 0 THEN top ELSE E(k - 1)
      /\ L.next[top] = IF n = 0 THEN top ELSE E(0)
      /\ \A q \in Nodes(z) \ {top} : (\A k \in 0 .. n - 1 : q # E(k)) => L.next[q] = q /\ L.prev[q] = q
  BY InitFilled DEF Filled
<1>4. \A k, l \in 0 .. n - 1 : k < l => E(k) + size <= E(l)
  <2> SUFFICES ASSUME NEW k \in 0 .. n - 1, NEW l \in 0 .. n - 1, k < l PROVE E(k) + size <= E(l)
    OBVIOUS
  <2> HIDE DEF size, n
  <2>1. QED
    BY <1>1
<1> HIDE DEF E, size, n, N, M, top, L
<1>5. \A k \in 0 .. n - 1 : E(k) \in Nodes(z) /\ E(k) # top /\ L.next[E(k)] # E(k)
  <2> SUFFICES ASSUME NEW k \in 0 .. n - 1 PROVE E(k) \in Nodes(z) /\ E(k) # top /\ L.next[E(k)] # E(k)
    OBVIOUS
  <2>1. E(k) \in 0 .. N - 1
    BY <1>1
  <2>2. E(k) \in Nodes(z) /\ E(k) # top
    BY <1>2, <2>1
  <2>3. k + 1 < n => E(k) + size <= E(k + 1) /\ E(k + 1) \in 0 .. N - 1
    <3>1. k + 1 < n => k + 1 \in 0 .. n - 1 /\ k < k + 1
      BY <1>1
    <3>2. QED
      BY <1>1, <1>4, <3>1
  <2>4. QED
    BY <1>1, <1>2, <1>3, <2>1, <2>2, <2>3
<1>6. FreeAt(z, L, M) = P /\ \A o \in 0 .. M - 1 : FreeAt(z, L, o) = {}
  <2>1. ASSUME NEW o \in 0 .. M, NEW q \in FreeAt(z, L, o) PROVE q \in P /\ o = M
    <3>1. q \in 0 .. N - 1 /\ L.next[q] # q /\ (IF L.next[q] < N THEN o = M ELSE L.next[q] = Head(z, o))
      BY DEF FreeAt, N, M
    <3>2. q \in Nodes(z) \ {top}
      BY <1>2, <3>1
    <3>3. PICK k \in 0 .. n - 1 : q = E(k)
      BY <1>3, <3>1, <3>2
    <3>4. L.next[q] = top \/ L.next[q] \in 0 .. N - 1
      <4>1. k + 1 < n => k + 1 \in 0 .. n - 1
        BY <1>1
      <4>2. QED
        BY <1>1, <1>3, <3>3, <4>1
    <3>5. o = M
      BY <1>2, <3>1, <3>4
    <3>6. QED
      BY <3>3, <3>5
  <2>2. ASSUME NEW q \in P PROVE q \in FreeAt(z, L, M)
    <3>1. PICK k \in 0 .. n - 1 : q = E(k)
      OBVIOUS
    <3>2. q \in 0 .. N - 1 /\ L.next[q] # q
      BY <1>1, <1>5, <3>1
    <3>3. L.next[q] < N \/ L.next[q] = top
      <4>1. k + 1 < n => k + 1 \in 0 .. n - 1
        BY <1>1
      <4>2. L.next[q] \in 0 .. N - 1 \/ L.next[q] = top
        BY <1>1, <1>3, <3>1, <4>1
      <4>3. QED
        BY <1>2, <4>2
    <3>4. QED
      BY <3>2, <3>3 DEF FreeAt, N, M, top
  <2> HIDE DEF P
  <2>3. M \in 0 .. M /\ \A o \in 0 .. M - 1 : o \in 0 .. M /\ o # M
    BY <1>2
  <2>4. QED
    BY <2>1, <2>2, <2>3
<1>7. ListsOK(z, L)
  <2>1. ASSUME NEW q \in 0 .. N - 1, L.next[q] = q PROVE L.prev[q] = q
    <3>1. q \in Nodes(z) \ {top}
      BY <1>2
    <3>2. QED
      BY <1>3, <1>5, <2>1, <3>1
  <2>2. ASSUME NEW o \in 0 .. M PROVE L.next[Head(z, o)] \in FreeAt(z, L, o) \cup {Head(z, o)}
    <3>1. CASE o = M
      <4>1. n # 0 => 0 \in 0 .. n - 1
        BY <1>1
      <4>2. QED
        BY <1>3, <1>6, <3>1, <4>1 DEF top
    <3>2. CASE o # M
      <4>1. Head(z, o) = N + o /\ Head(z, o) \in Nodes(z)
        BY <1>2
      <4>2. Head(z, o) \in Nodes(z) \ {top} /\ \A k \in 0 .. n - 1 : Head(z, o) # E(k)
        BY <1>1, <1>2, <3>2, <4>1
      <4>3. QED
        BY <1>3, <4>2
    <3>3. QED
      BY <3>1, <3>2
  <2>3. ASSUME NEW q \in P PROVE L.next[q] \in P \cup {top} /\ (L.next[q] # top => L.prev[L.next[q]] = q)
    <3>1. PICK k \in 0 .. n - 1 : q = E(k)
      OBVIOUS
    <3>2. CASE k + 1 < n
      <4>1. k + 1 \in 0 .. n - 1 /\ k + 1 # 0 /\ (k + 1) - 1 = k
        BY <1>1, <3>2
      <4>2. L.next[q] = E(k + 1) /\ L.prev[E(k + 1)] = E(k)
        BY <1>3, <3>1, <3>2, <4>1
      <4>3. QED
        BY <3>1, <4>1, <4>2
    <3>3. CASE ~(k + 1 < n)
      BY <1>3, <3>1, <3>3
    <3>4. QED
      BY <3>2, <3>3
  <2>4. L.next[top] # top => L.prev[L.next[top]] = top
    <3>1. n # 0 => 0 \in 0 .. n - 1
      BY <1>1
    <3>2. QED
      BY <1>3, <3>1
  <2> HIDE DEF P
  <2>5. QED
    BY <1>3, <1>6, <2>1, <2>2, <2>3, <2>4, ZenonT(30) DEF ListsOK, N, M, top
<1>8. Chain(z, L)
  <2> DEFINE Entry(k) == IF k < n THEN k * size ELSE top
  <2>1. \A k \in 0 .. n - 1 : Entry(k) = E(k)
    <3>1. n \in Nat
      BY <1>1
    <3>2. \A k \in 0 .. n - 1 : k < n
      BY <3>1
    <3>3. QED
      BY <3>2 DEF E
  <2>2. FreeAt(z, L, M) = {Entry(k) : k \in 0 .. n - 1}
    BY <1>6, <2>1
  <2>3. L.next[top] = Entry(0)
    BY <1>1, <1>3 DEF E
  <2>4. \A k \in 0 .. n - 1 : L.next[Entry(k)] = Entry(k + 1)
    <3> SUFFICES ASSUME NEW k \in 0 .. n - 1 PROVE L.next[Entry(k)] = Entry(k + 1)
      OBVIOUS
    <3>1. Entry(k) = E(k) /\ Entry(k + 1) = IF k + 1 < n THEN E(k + 1) ELSE top
      BY <2>1 DEF E
    <3> HIDE DEF Entry
    <3>2. QED
      BY <1>3, <3>1
  <2>5. ChainFrom(z, L, 0)
    BY <2>2, <2>3, <2>4, ZenonT(30) DEF ChainFrom, N, M, size, top, n
  <2>6. 0 \in 0 .. n
    BY <1>1
  <2>7. \A o \in 0 .. MaxOrder[z] - 1 : FreeAt(z, L, o) \subseteq {L.next[Head(z, o)]}
    BY <1>6 DEF M
  <2>8. QED
    BY <2>5, <2>6, <2>7, ChainDef DEF N, M, size, n
<1> DEFINE F == Free(z, L)
           U == Held(z, {})
<1>9. F[M] = P /\ M \in 0 .. M /\ (\A o \in 0 .. M - 1 : F[o] = {}) /\ DOMAIN F = 0 .. M
  <2>1. M \in 0 .. M /\ \A o \in 0 .. M - 1 : o \in 0 .. M
    BY <1>2
  <2> HIDE DEF P
  <2>2. QED
    BY <1>6, <2>1 DEF Free, M
<1>10. U \in [0 .. M -> {{}}]
  BY DEF Held, M
<1>11. P \subseteq 0 .. N - 1
  BY <1>1
<1>12. F \in Blocks(N, M)
  <2> HIDE DEF P
  <2>1. \A o \in 0 .. M : F[o] \in SUBSET (0 .. N - 1)
    <3>1. \A o \in 0 .. M : o = M \/ o \in 0 .. M - 1
      BY <1>2
    <3> HIDE DEF F
    <3>2. QED
      BY <1>9, <1>11, <3>1, ZenonT(30)
  <2>2. F = [o \in 0 .. M |-> F[o]]
    BY DEF Free, M
  <2> HIDE DEF F
  <2>3. QED
    BY <2>1, <2>2 DEF Blocks
<1> HIDE DEF F, U
<1>13. [o \in 0 .. M |-> F[o] \cup U[o]] = F
  <2>1. \A o \in 0 .. M : U[o] = {}
    BY <1>10
  <2>2. QED
    BY <1>12, <2>1 DEF Blocks
<1>14. Tiled(N, M, F)
  <2>1. \A o \in 0 .. M : \A q \in F[o] : o = M /\ q \in P
    BY <1>2, <1>9
  <2>2. \A q \in P : q % size = 0 /\ q + size <= N
    <3> SUFFICES ASSUME NEW k \in 0 .. n - 1 PROVE E(k) % size = 0 /\ E(k) + size <= N
      OBVIOUS
    <3>1. k \in Nat /\ E(k) \in Nat
      BY <1>1
    <3>2. QED
      BY <1>1, <3>1, Multiple DEF E
  <2>3. \A p, q \in P : p = q \/ p + size <= q \/ q + size <= p
    <3> SUFFICES ASSUME NEW k \in 0 .. n - 1, NEW l \in 0 .. n - 1
                 PROVE  E(k) = E(l) \/ E(k) + size <= E(l) \/ E(l) + size <= E(k)
      OBVIOUS
    <3>1. k = l \/ k < l \/ l < k
      BY <1>1
    <3>2. QED
      BY <1>4, <3>1
  <2>4. ASSUME NEW x \in 0 .. N - 1 PROVE \E q \in P : q <= x /\ x < q + size
    <3> DEFINE k == x \div size
    <3>1. k \in Nat /\ x = size * k + (x % size) /\ x % size \in 0 .. size - 1
      <4>1. x \in Nat /\ size \in Nat /\ size > 0
        BY <1>1, <1>2
      <4>2. QED
        BY <4>1
    <3> HIDE DEF k
    <3>2. E(k) <= x /\ x < E(k) + size
      BY <1>1, <3>1 DEF E
    <3>3. k < n
      <4>1. ASSUME ~(k < n) PROVE FALSE
        <5>1. n * size <= k * size
          BY <1>1, <3>1, <4>1
        <5>2. QED
          BY <1>1, <1>2, <3>1, <3>2, <5>1 DEF E
      <4>2. QED
        BY <4>1
    <3>4. k \in 0 .. n - 1
      BY <1>1, <3>1, <3>3
    <3>5. QED
      BY <3>2, <3>4
  <2> HIDE DEF P
  <2>5. Pow2[M] = size
    BY DEF size
  <2>6. \A o \in 0 .. M : \A q \in F[o] : q % Pow2[o] = 0 /\ q + Pow2[o] <= N
    BY <2>1, <2>2, <2>5
  <2>7. \A o, r \in 0 .. M : \A p \in F[o], q \in F[r] :
          (p = q /\ o = r) \/ p + Pow2[o] <= q \/ q + Pow2[r] <= p
    BY <2>1, <2>3, <2>5
  <2>8. \A x \in 0 .. N - 1 : \E o \in 0 .. M : \E p \in F[o] : p <= x /\ x < p + Pow2[o]
    BY <1>9, <2>4, <2>5
  <2>9. QED
    BY <1>12, <2>6, <2>7, <2>8 DEF Tiled
<1>15. BitsOf(N, M, F, {}, stale[z])
  BY <1>9 DEF BitsOf
<1>16. Buddies(N, M, F, U, {}, stale[z])
  <2>1. U \in Blocks(N, M) /\ \A o \in 0 .. M : F[o] \cap U[o] = {}
    BY <1>10 DEF Blocks
  <2>2. QED
    BY <1>12, <1>13, <1>14, <1>15, <2>1, ZenonT(30) DEF Buddies
<1>17. Flips(stale[z], stale[z]) = {}
  BY DEF Flips
<1>18. QED
  BY <1>7, <1>8, <1>16, <1>17 DEF ZoneOK, F, U, N, M, L

(* Putting a block back on its list, where its bit is 0.  What that leaves *)
(* is in order, and other zones do not notice.                             *)
LEMMA PutZone ==
  ASSUME NEW z \in Zones, NEW L, NEW m, NEW O, ZoneOK(z, L, m, O),
         NEW o \in 0 .. MaxOrder[z], NEW p \in 0 .. NumPages[z] - 1, Block(z, p, o) \in O, Bit(p, o) \notin m
  PROVE  /\ ZoneOK(z, list_add(L, Head(z, o), p), Toggle(m, p, o), Returned(z, O, p, o))
         /\ \A y \in Zones : y # z => Held(y, Returned(z, O, p, o)) = Held(y, O)
<1> DEFINE N == NumPages[z]
           M == MaxOrder[z]
           U == Held(z, O)
           F == Free(z, L)
           K == Alone(L, Head(z, o), p)
           bits == Toggle(m, p, o)
           st == stale[z]
           old == Flips(m, st)
           O1 == Returned(z, O, p, o)
<1>1. N \in Nat /\ M \in Nat
  BY ZoneTypes
<1>2. ListsOK(z, L) /\ Buddies(N, M, F, U, old, st)
  BY DEF ZoneOK
<1>3. p \in U[o]
  BY HeldIs
<1>4. L.next[p] = p
  BY <1>3, Unlinked
<1>5. /\ list_add(L, Head(z, o), p) = K /\ ListsOK(z, K)
      /\ Free(z, K) = [Free(z, L) EXCEPT ![o] = @ \cup {p}]
  <2>1. ListsOK(z, L) /\ L.next[p] = p
    BY <1>2, <1>4
  <2> HIDE DEF N, M, U, F, K, bits, st, old, O1
  <2>2. /\ list_add(L, Head(z, o), p) = Alone(L, Head(z, o), p) /\ ListsOK(z, Alone(L, Head(z, o), p))
        /\ Free(z, Alone(L, Head(z, o), p)) = [Free(z, L) EXCEPT ![o] = @ \cup {p}]
    BY <2>1, PutOK
  <2>3. QED
    BY <2>2 DEF K
<1>6. /\ Held(z, Returned(z, O, p, o)) = Without(Held(z, O), o, p)
      /\ \A y \in Zones : y # z => Held(y, Returned(z, O, p, o)) = Held(y, O)
  BY HeldRemove, ZenonT(30)
<1> HIDE DEF F, U, K, O1
<1>7. Buddies(N, M, [F EXCEPT ![o] = @ \cup {p}], [U EXCEPT ![o] = @ \ {p}], Flips(bits, st), st)
  <2>1. /\ Flips(bits, st) = Toggle(old, p, o)
        /\ Bit(p, o) \in old <=> ~(Bit(p, o) \in m <=> Bit(p, o) \in st)
    BY ToggleFlips
  <2> HIDE DEF old, st, bits
  <2>2. Bit(p, o) \notin old \/ Bit(p, o) \in st
    BY <2>1
  <2>3. Buddies(N, M, [F EXCEPT ![o] = @ \cup {p}], [U EXCEPT ![o] = @ \ {p}], Toggle(old, p, o), st)
    BY <1>1, <1>2, <1>3, <2>2, PutBuddies, ZenonT(30)
  <2>4. QED
    BY <2>1, <2>3, ZenonT(30)
<1> HIDE DEF bits
<1>8. Free(z, K) = [F EXCEPT ![o] = @ \cup {p}] /\ Held(z, O1) = [U EXCEPT ![o] = @ \ {p}]
  BY <1>5, <1>6, ZenonT(30) DEF F, U, O1, Without
<1>9. ZoneOK(z, K, bits, O1)
  BY <1>5, <1>7, <1>8, ZenonT(30) DEF ZoneOK
<1>10. QED
  BY <1>5, <1>6, <1>9, ZenonT(30) DEF bits, O1

(* Taking both pages of the pair off their lists takes off the free one.   *)
PairOff(L, z, o) == DelPage(DelPage(L, z, 0), z, 0 + Pow2[o])

(* The lists are in order, and just the free one of the two is gone.       *)
LEMMA DelPair ==
  ASSUME NEW z \in Zones, NEW L, NEW bits, NEW O, ZoneOK(z, L, bits, O),
         NEW o \in 0 .. MaxOrder[z] - 1, NEW p \in Held(z, O)[o], NEW q \in Free(z, L)[o],
         (p = 0 /\ q = Pow2[o]) \/ (p = Pow2[o] /\ q = 0)
  PROVE  /\ ListsOK(z, PairOff(L, z, o))
         /\ Free(z, PairOff(L, z, o)) = [Free(z, L) EXCEPT ![o] = @ \ {q}]
<1> DEFINE N == NumPages[z]
           M == MaxOrder[z]
           K == PairOff(L, z, o)
           J == list_del_init(L, q)
<1>1. N \in Nat /\ M \in Nat /\ Nodes(z) = 0 .. N + M /\ o \in 0 .. M /\ Pow2[o] \in Nat /\ Pow2[o] > 0
  <2>1. N \in Nat /\ M \in Nat /\ Nodes(z) = 0 .. N + M
    BY ZoneTypes
  <2>2. o \in 0 .. M /\ o \in Nat
    BY <2>1
  <2>3. Pow2[o] \in Nat /\ Pow2[o] > 0
    BY <2>2, Pow2Step
  <2>4. QED
    BY <2>1, <2>2, <2>3
<1>2. Head(z, o) = N + o
  BY <1>1, ZoneTypes
<1>3. p \in 0 .. N - 1 /\ L.next[p] = p /\ L.prev[p] = p
  <2>1. o \in 0 .. MaxOrder[z]
    BY <1>1
  <2>2. QED
    BY <2>1, Unlinked
<1>4. q \in FreeAt(z, L, o)
  BY <1>1 DEF Free
<1>5. q \in 0 .. N - 1
  BY <1>4 DEF FreeAt
<1>6. L.prev[q] = Head(z, o) /\ TypedLists(z, L)
  BY <1>4, ZenonT(30) DEF ListsOK, ZoneOK
<1>7. /\ ListsOK(z, J) /\ Free(z, J) = [Free(z, L) EXCEPT ![o] = @ \ {q}]
      /\ \A x \in Nodes(z) : J.next[x] = IF x = q THEN q ELSE IF x = Head(z, o) THEN L.next[q] ELSE L.next[x]
  <2>1. ListsOK(z, L)
    BY DEF ZoneOK
  <2>2. o \in 0 .. MaxOrder[z] /\ L.prev[q] = Head(z, o)
    BY <1>1, <1>6
  <2>3. QED
    BY <1>4, <2>1, <2>2, RemoveOK
<1>8. list_del_init(L, p) = L
  BY <1>1, <1>3, <1>6, DelNothing
<1>9. (p = 0 /\ q = Pow2[o]) \/ (p = Pow2[o] /\ q = 0)
  OBVIOUS
<1>10. list_del_init(J, p) = J
  <2>1. p # q
    BY <1>1, <1>9
  <2>2. p # Head(z, o) /\ p \in Nodes(z)
    BY <1>1, <1>2, <1>3
  <2>3. J.next[p] = p
    BY <1>3, <1>7, <2>1, <2>2
  <2> HIDE DEF J
  <2>4. J.prev[p] = p /\ TypedLists(z, J)
    BY <1>3, <1>7, <2>3, ZenonT(30) DEF ListsOK
  <2>5. QED
    BY <2>2, <2>3, <2>4, DelNothing
<1>11. K = J
  <2>1. 0 < N /\ Pow2[o] < N /\ 0 + Pow2[o] = Pow2[o]
    BY <1>1, <1>3, <1>5, <1>9
  <2>2. K = list_del_init(list_del_init(L, 0), Pow2[o])
    BY <2>1 DEF DelPage, PairOff
  <2>3. CASE p = 0 /\ q = Pow2[o]
    BY <1>8, <2>2, <2>3
  <2>4. CASE p = Pow2[o] /\ q = 0
    BY <1>10, <2>2, <2>4
  <2>5. QED
    BY <1>9, <2>3, <2>4
<1> HIDE DEF J
<1>12. QED
  BY <1>7, <1>11

(* Merging the block at page p with its buddy, in the first pair: both     *)
(* come off their lists, and the zone has a block of the next order in use *)
(* instead of the one.                                                     *)
Merged(z, O, p, o) == (O \ {Block(z, p, o)}) \cup {Block(z, 0, o + 1)}

(* The zone is in order again, and the new block is one that nobody had.   *)
LEMMA MergeZone ==
  ASSUME NEW z \in Zones, NEW L, NEW m, NEW O, ZoneOK(z, L, m, O),
         NEW o \in 0 .. MaxOrder[z] - 1, NEW p \in 0 .. NumPages[z] - 1, Block(z, p, o) \in O,
         p \div Pow2[o + 1] = p - (p % Pow2[o + 1]), Bit(p, o) \in m, Bit(p, o) \notin stale[z]
  PROVE  /\ p \div Pow2[o + 1] = 0
         /\ ZoneOK(z, PairOff(L, z, o), Toggle(m, p, o), Merged(z, O, p, o))
         /\ Block(z, 0, o + 1) \in Promise!Blocks /\ Block(z, 0, o + 1) \notin O
         /\ \A y \in Zones : y # z => Held(y, Merged(z, O, p, o)) = Held(y, O)
<1> DEFINE N == NumPages[z]
           M == MaxOrder[z]
           U == Held(z, O)
           F == Free(z, L)
           K == PairOff(L, z, o)
           bits == Toggle(m, p, o)
           st == stale[z]
           old == Flips(m, st)
           b == Block(z, 0, o + 1)
           O1 == Returned(z, O, p, o)
           O2 == O1 \cup {b}
           V == [U EXCEPT ![o] = @ \ {p}, ![o + 1] = @ \cup {0}]
<1>1. N \in Nat /\ M \in Nat /\ o \in 0 .. M /\ 0 \in 0 .. N - 1
  BY ZoneTypes
<1>2. o + 1 \in 0 .. M /\ Pow2[o + 1] = 2 * Pow2[o] /\ Pow2[o] \in Nat /\ Pow2[o] > 0
  <2>1. o + 1 \in 0 .. M /\ o \in Nat
    BY <1>1
  <2>2. QED
    BY <2>1, Pow2Step
<1>3. p \div Pow2[o + 1] = 0
  <2>1. p \in Nat /\ Pow2[o + 1] \in Nat /\ Pow2[o + 1] >= 2
    BY <1>1, <1>2
  <2>2. QED
    BY <2>1, FirstPair
<1>4. Buddies(N, M, F, U, old, st)
  BY DEF ZoneOK
<1>5. p \in U[o]
  BY <1>1, HeldIs
<1> HIDE DEF U, F, K, bits, b, O1, V
<1>6. PICK q \in F[o] : /\ {p, q} = {0, Pow2[o]}
                        /\ Buddies(N, M, [F EXCEPT ![o] = @ \ {q}], V, Flips(bits, st), st)
  <2>1. /\ Flips(bits, st) = Toggle(old, p, o)
        /\ Bit(p, o) \in old <=> ~(Bit(p, o) \in m <=> Bit(p, o) \in st)
    BY ToggleFlips DEF bits
  <2> HIDE DEF old, st
  <2>2. Bit(p, o) \in old
    BY <2>1 DEF st
  <2>3. \E q \in F[o] : /\ {p, q} = {0, Pow2[o]}
                        /\ Buddies(N, M, [F EXCEPT ![o] = @ \ {q}], V, Toggle(old, p, o), st)
    BY <1>1, <1>2, <1>3, <1>4, <1>5, <2>2, MergeBuddies, ZenonT(30) DEF V
  <2>4. QED
    BY <2>1, <2>3, ZenonT(30)
<1>7. ListsOK(z, K) /\ Free(z, K) = [F EXCEPT ![o] = @ \ {q}]
  <2>1. (p = 0 /\ q = Pow2[o]) \/ (p = Pow2[o] /\ q = 0)
    <3>1. Pow2[o] # 0
      BY <1>2
    <3>2. QED
      BY <1>6, <3>1, ZenonT(30)
  <2>2. p \in Held(z, O)[o] /\ q \in Free(z, L)[o]
    BY <1>5, <1>6 DEF U, F
  <2>3. ListsOK(z, PairOff(L, z, o)) /\ Free(z, PairOff(L, z, o)) = [Free(z, L) EXCEPT ![o] = @ \ {q}]
    BY <2>1, <2>2, DelPair
  <2>4. QED
    BY <2>3, ZenonT(30) DEF K, F
<1>8. /\ Held(z, O1) = [U EXCEPT ![o] = @ \ {p}]
      /\ \A y \in Zones : y # z => Held(y, O1) = Held(y, O)
  <2>1. o \in 0 .. MaxOrder[z] /\ p \in 0 .. NumPages[z] - 1
    BY <1>1
  <2>2. /\ Held(z, Returned(z, O, p, o)) = Without(Held(z, O), o, p)
        /\ \A y \in Zones : y # z => Held(y, Returned(z, O, p, o)) = Held(y, O)
    BY <2>1, HeldRemove
  <2>3. QED
    BY <2>2, ZenonT(30) DEF U, O1, Without
<1>9. /\ Held(z, O2) = [Held(z, O1) EXCEPT ![o + 1] = @ \cup {0}]
      /\ \A y \in Zones : y # z => Held(y, O2) = Held(y, O1)
  <2> DEFINE e == o + 1
  <2>1. z \in Zones /\ e \in 0 .. MaxOrder[z] /\ 0 \in 0 .. NumPages[z] - 1 /\ b = Block(z, 0, e)
    BY <1>1, <1>2 DEF b
  <2> HIDE DEF e
  <2>2. /\ Held(z, O1 \cup {Block(z, 0, e)}) = [Held(z, O1) EXCEPT ![e] = @ \cup {0}]
        /\ \A y \in Zones : y # z => Held(y, O1 \cup {Block(z, 0, e)}) = Held(y, O1)
    BY <2>1, HeldAdd
  <2>3. QED
    BY <2>1, <2>2, ZenonT(30) DEF e
<1>10. U \in Blocks(N, M)
  BY <1>4 DEF Buddies
<1>11. Held(z, O2) = V
  <2>1. o # o + 1
    BY <1>1
  <2>2. QED
    BY <1>1, <1>2, <1>8, <1>9, <1>10, <2>1, ZenonT(30) DEF V, Blocks
<1>12. ZoneOK(z, K, bits, O2)
  BY <1>6, <1>7, <1>11 DEF ZoneOK
<1>13. b \in Promise!Blocks
  <2>1. 0 \in V[o + 1]
    BY <1>2, <1>10 DEF V, Blocks
  <2>2. 0 + Pow2[o + 1] <= N /\ 0 % Pow2[o + 1] = 0
    BY <1>2, <1>6, <2>1, ZenonT(30) DEF Buddies, Tiled
  <2>3. b \in Record /\ b.zone = z /\ b.page = 0 /\ b.order = o + 1 /\ o + 1 <= M
    <3> DEFINE e == o + 1
    <3>1. e \in Nat /\ e <= M /\ 0 \in Nat /\ b = Block(z, 0, e)
      BY <1>1, <1>2 DEF b
    <3> HIDE DEF e, M, N
    <3>2. b = [zone |-> z, page |-> 0, order |-> e]
      BY <3>1, ZenonT(30) DEF Block
    <3>3. b \in Record /\ b.zone = z /\ b.page = 0 /\ b.order = e
      BY <3>1, <3>2 DEF Record
    <3>4. QED
      BY <3>1, <3>3, ZenonT(30) DEF e
  <2>4. QED
    BY <2>2, <2>3, BlocksAre
<1>14. ASSUME b \in O PROVE FALSE
  <2> DEFINE B == Both(M, F, U)
  <2>1. 0 \in U[o + 1]
    BY <1>1, <1>2, <1>14, HeldIs DEF U, b
  <2>2. Tiled(N, M, B) /\ 0 \in B[o + 1] /\ p \in B[o]
    BY <1>1, <1>2, <1>4, <1>5, <2>1 DEF Buddies, Both
  <2>3. p \in 0 .. 0 + Pow2[o + 1] - 1
    <3>1. p = 0 \/ p = Pow2[o]
      BY <1>6
    <3>2. QED
      BY <1>2, <3>1
  <2> HIDE DEF B
  <2>4. o = o + 1
    BY <1>1, <1>2, <2>2, <2>3, OneBlock
  <2>5. QED
    BY <1>1, <2>4
<1>15. \A y \in Zones : y # z => Held(y, O2) = Held(y, O)
  BY <1>8, <1>9, ZenonT(30)
<1>16. QED
  BY <1>3, <1>12, <1>13, <1>14, <1>15, ZenonT(30) DEF K, bits, b, O1, Merged, Returned

(* A block whose pages nobody has contains, and is in, no block in use.    *)
LEMMA ClearUnused ==
  ASSUME NEW z \in Zones, NEW O, O \subseteq Promise!Blocks, NEW o \in 0 .. MaxOrder[z], NEW p \in Nat,
         Held(z, O) \in Blocks(NumPages[z], MaxOrder[z])
  PROVE  (\A b \in O : Pages(Block(z, p, o)) \cap Pages(b) = {}) <=> Unused(MaxOrder[z], Held(z, O), p, o)
<1> DEFINE N == NumPages[z]
           M == MaxOrder[z]
           U == Held(z, O)
           c == Block(z, p, o)
<1>1. N \in Nat /\ M \in Nat /\ o \in Nat
  BY ZoneTypes
<1>2. c \in Record /\ c.zone = z /\ c.page = p /\ c.order = o
  BY <1>1 DEF Block, Record
<1> HIDE DEF c
<1>3. ASSUME \A b \in O : Pages(c) \cap Pages(b) = {}, NEW r \in 0 .. M, NEW q \in U[r]
      PROVE  q + Pow2[r] <= p \/ p + Pow2[o] <= q
  <2> DEFINE b == Block(z, q, r)
  <2>1. q \in 0 .. N - 1
    BY DEF Blocks
  <2>2. b \in O
    BY <2>1, HeldIs
  <2>3. b \in Record /\ b.zone = z /\ b.page = q /\ b.order = r
    BY <1>1, <2>1 DEF Block, Record
  <2> HIDE DEF b
  <2>4. Pages(c) \cap Pages(b) = {}
    BY <1>3, <2>2
  <2>5. QED
    BY <1>2, <2>3, <2>4, PagesOverlap
<1>4. ASSUME Unused(M, U, p, o), NEW b \in O PROVE Pages(c) \cap Pages(b) = {}
  <2>1. b \in Promise!Blocks
    OBVIOUS
  <2>2. /\ b \in Record /\ b.zone \in Zones /\ b.order \in 0 .. MaxOrder[b.zone]
        /\ b.page \in 0 .. NumPages[b.zone] - 1
    BY <2>1, BlocksAre
  <2>3. CASE b.zone # z
    BY <1>2, <2>2, <2>3, PagesApart
  <2>4. CASE b.zone = z
    <3>1. b = Block(z, b.page, b.order)
      BY <2>2, <2>4, BlockFields
    <3>2. b.page \in U[b.order]
      BY <2>2, <2>4, <3>1, HeldIs
    <3>3. b.page + Pow2[b.order] <= p \/ p + Pow2[o] <= b.page
      BY <1>4, <2>2, <2>4, <3>2 DEF Unused
    <3>4. QED
      BY <1>2, <2>2, <3>3, PagesApart
  <2>5. QED
    BY <2>3, <2>4
<1>5. QED
  BY <1>3, <1>4 DEF Unused, c
=============================================================================
