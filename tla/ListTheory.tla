----------------------------- MODULE ListTheory -----------------------------
(***************************************************************************)
(* The links of the page allocator's free lists: what list_add,            *)
(* list_add_tail and list_del_init do to them when head and entry are      *)
(* swapped, what the list of max_order looks like before any free, and     *)
(* which blocks a walk along a list visits.                                *)
(***************************************************************************)
EXTENDS BuddyTheory

USE SMTT(30), Z3T(30), SMTT(30), ZenonT(30)

Nodes(z) == 0 .. Head(z, MaxOrder[z])

(* The free blocks of order o, those that fell off the list included: a    *)
(* page on no list points to itself; the last page of a list points to the *)
(* head, and only the list of max_order can be longer than one page.       *)
FreeAt(z, L, o) ==
  {p \in 0 .. NumPages[z] - 1 :
     /\ L.next[p] # p
     /\ IF L.next[p] < NumPages[z] THEN o = MaxOrder[z] ELSE L.next[p] = Head(z, o)}
Free(z, L) == [o \in 0 .. MaxOrder[z] |-> FreeAt(z, L, o)]

TypedLists(z, L) == L \in [next : [Nodes(z) -> Nodes(z)], prev : [Nodes(z) -> Nodes(z)]]

ListsOK(z, L) ==
  LET N == NumPages[z]
      M == MaxOrder[z]
      top == Head(z, M)
  IN  /\ TypedLists(z, L)
      /\ \A p \in 0 .. N - 1 : L.next[p] = p => L.prev[p] = p
      /\ \A o \in 0 .. M : L.next[Head(z, o)] \in FreeAt(z, L, o) \cup {Head(z, o)}
      /\ \A o \in 0 .. M - 1 : \A p \in FreeAt(z, L, o) : L.prev[p] = Head(z, o)
      /\ \A p \in FreeAt(z, L, M) : L.next[p] \in FreeAt(z, L, M) \cup {top}
      /\ \A q \in FreeAt(z, L, M) \cup {top} : L.next[q] # top => L.prev[L.next[q]] = q

(* The lists.                                                              *)
LEMMA ZoneTypes ==
  ASSUME NEW z \in Zones
  PROVE  /\ NumPages[z] \in Nat /\ MaxOrder[z] \in Nat
         /\ \A o \in 0 .. MaxOrder[z] : Head(z, o) = NumPages[z] + o /\ Head(z, o) \in Nodes(z)
         /\ Nodes(z) = 0 .. NumPages[z] + MaxOrder[z]
BY ZonesAssumption DEF Head, Nodes

(* A page is free at one order at most, and at none when it is on no list. *)
LEMMA FreeOnce ==
  ASSUME NEW z \in Zones, NEW L, NEW o \in 0 .. MaxOrder[z], NEW p \in FreeAt(z, L, o), TypedLists(z, L)
  PROVE  /\ p \in 0 .. NumPages[z] - 1 /\ L.next[p] # p
         /\ L.next[p] < NumPages[z] => o = MaxOrder[z]
         /\ L.next[p] >= NumPages[z] => L.next[p] = Head(z, o)
         /\ \A r \in 0 .. MaxOrder[z] : p \in FreeAt(z, L, r) => r = o
<1>1. p \in Nodes(z)
  BY ZoneTypes DEF FreeAt
<1>2. L.next[p] \in 0 .. NumPages[z] + MaxOrder[z]
  BY <1>1, ZoneTypes DEF TypedLists
<1>3. /\ p \in 0 .. NumPages[z] - 1 /\ L.next[p] # p
      /\ IF L.next[p] < NumPages[z] THEN o = MaxOrder[z] ELSE L.next[p] = Head(z, o)
  BY DEF FreeAt
<1>4. \A r \in 0 .. MaxOrder[z] : p \in FreeAt(z, L, r) =>
        IF L.next[p] < NumPages[z] THEN r = MaxOrder[z] ELSE L.next[p] = Head(z, r)
  BY DEF FreeAt
<1>5. NumPages[z] \in Nat /\ MaxOrder[z] \in Nat
  BY ZoneTypes
<1>6. QED
  BY <1>2, <1>3, <1>4, <1>5 DEF Head

(* A page that is free at no order points to itself.                       *)
LEMMA NotFree ==
  ASSUME NEW z \in Zones, NEW L, NEW p \in 0 .. NumPages[z] - 1,
         L.next[p] \in 0 .. NumPages[z] + MaxOrder[z], \A r \in 0 .. MaxOrder[z] : p \notin FreeAt(z, L, r)
  PROVE  L.next[p] = p
<1> DEFINE N == NumPages[z]
           M == MaxOrder[z]
<1>1. N \in Nat /\ M \in Nat /\ \A o \in 0 .. M : Head(z, o) = N + o
  BY ZoneTypes
<1>2. ASSUME L.next[p] # p PROVE FALSE
  <2>1. CASE L.next[p] < N
    <3>1. p \in FreeAt(z, L, M) /\ M \in 0 .. M
      BY <1>1, <1>2, <2>1 DEF FreeAt
    <3>2. QED
      BY <3>1
  <2>2. CASE L.next[p] >= N
    <3> DEFINE r == L.next[p] - N
    <3>1. r \in 0 .. M /\ L.next[p] = N + r /\ ~(L.next[p] < N)
      BY <1>1, <2>2
    <3>2. L.next[p] = Head(z, r)
      BY <1>1, <3>1
    <3>3. p \in FreeAt(z, L, r)
      BY <1>2, <3>1, <3>2 DEF FreeAt
    <3> HIDE DEF r
    <3>4. QED
      BY <3>1, <3>3
  <2>3. QED
    BY <1>1, <2>1, <2>2
<1>3. QED
  BY <1>2

(* What list_del_init does to the links ...                                *)
LEMMA DelNode ==
  ASSUME NEW z \in Zones, NEW L, TypedLists(z, L), NEW p \in Nodes(z), NEW h \in Nodes(z),
         L.prev[p] = h, L.next[p] # p, h # p
  PROVE  /\ TypedLists(z, list_del_init(L, p))
         /\ \A q \in Nodes(z) :
              /\ list_del_init(L, p).next[q] = IF q = p THEN p ELSE IF q = h THEN L.next[p] ELSE L.next[q]
              /\ list_del_init(L, p).prev[q] = IF q = p THEN p ELSE IF q = L.next[p] THEN h ELSE L.prev[q]
BY ZenonT(30) DEF TypedLists, list_del_init, ListDel

(* What list_add and list_add_tail do when they get the head of a list as  *)
(* the entry and a page on no list as the head.                            *)
Alone(L, h, p) == ListAddBetween(L, h, p, p)

(* ... and list_add and list_add_tail, called with head and entry swapped. *)
LEMMA AddNode ==
  ASSUME NEW z \in Zones, NEW L, TypedLists(z, L), NEW p \in Nodes(z), NEW h \in Nodes(z), h # p
  PROVE  /\ TypedLists(z, Alone(L, h, p))
         /\ \A q \in Nodes(z) :
              /\ Alone(L, h, p).next[q] = IF q = p THEN h ELSE IF q = h THEN p ELSE L.next[q]
              /\ Alone(L, h, p).prev[q] = IF q = p THEN h ELSE IF q = h THEN p ELSE L.prev[q]
BY ZenonT(30) DEF TypedLists, ListAddBetween, Alone

(* list_del_init of a page on no list changes nothing.                     *)
LEMMA DelNothing ==
  ASSUME NEW z \in Zones, NEW L, TypedLists(z, L), NEW p \in Nodes(z), L.next[p] = p, L.prev[p] = p
  PROVE  list_del_init(L, p) = L
BY ZenonT(30) DEF TypedLists, list_del_init, ListDel

(* A block leaves its list: the first of the list, or any of an order      *)
(* below max_order.                                                        *)
LEMMA RemoveOK ==
  ASSUME NEW z \in Zones, NEW L, ListsOK(z, L), NEW o \in 0 .. MaxOrder[z],
         NEW p \in FreeAt(z, L, o), L.prev[p] = Head(z, o)
  PROVE  /\ ListsOK(z, list_del_init(L, p))
         /\ Free(z, list_del_init(L, p)) = [Free(z, L) EXCEPT ![o] = @ \ {p}]
         /\ \A q \in Nodes(z) : list_del_init(L, p).next[q] =
              IF q = p THEN p ELSE IF q = Head(z, o) THEN L.next[p] ELSE L.next[q]
<1> DEFINE N == NumPages[z]
           M == MaxOrder[z]
           top == Head(z, M)
           K == list_del_init(L, p)
           h == Head(z, o)
<1>1. /\ N \in Nat /\ M \in Nat /\ Nodes(z) = 0 .. N + M /\ top = N + M
      /\ \A r \in 0 .. M : Head(z, r) = N + r /\ Head(z, r) \in Nodes(z)
  BY ZoneTypes
<1>2. TypedLists(z, L)
  BY DEF ListsOK
<1>3. /\ p \in 0 .. N - 1 /\ L.next[p] # p /\ (L.next[p] < N => o = M) /\ (L.next[p] >= N => L.next[p] = h)
      /\ \A r \in 0 .. M : p \in FreeAt(z, L, r) => r = o
  BY <1>2, FreeOnce
<1>4. p \in Nodes(z) /\ h \in Nodes(z) /\ h # p /\ h = N + o /\ L.next[p] \in 0 .. N + M
  <2>1. p \in Nodes(z) /\ h \in Nodes(z) /\ h # p /\ h = N + o
    BY <1>1, <1>3
  <2>2. QED
    BY <1>1, <1>2, <2>1 DEF TypedLists
<1>5. /\ TypedLists(z, K)
      /\ \A q \in Nodes(z) :
           /\ K.next[q] = IF q = p THEN p ELSE IF q = h THEN L.next[p] ELSE L.next[q]
           /\ K.prev[q] = IF q = p THEN p ELSE IF q = L.next[p] THEN h ELSE L.prev[q]
  <2>1. L.prev[p] = h
    OBVIOUS
  <2> HIDE DEF h
  <2>2. QED
    BY <1>2, <1>3, <1>4, <2>1, DelNode
<1> HIDE DEF K, N, M, top, h
<1>6. \A r \in 0 .. M : \A q : q \in FreeAt(z, K, r) <=> q \in FreeAt(z, L, r) /\ q # p
  <2> SUFFICES ASSUME NEW r \in 0 .. M, NEW q \in 0 .. N - 1
               PROVE  q \in FreeAt(z, K, r) <=> q \in FreeAt(z, L, r) /\ q # p
    BY DEF FreeAt, N
  <2>1. q \in Nodes(z) /\ q # h
    BY <1>1, <1>4
  <2>2. CASE q = p
    BY <1>5, <2>1, <2>2 DEF FreeAt
  <2>3. CASE q # p
    BY <1>5, <2>1, <2>3 DEF FreeAt
  <2>4. QED
    BY <2>2, <2>3
<1>7. /\ \A q \in 0 .. N - 1 : L.next[q] = q => L.prev[q] = q
      /\ \A r \in 0 .. M : L.next[Head(z, r)] \in FreeAt(z, L, r) \cup {Head(z, r)}
      /\ \A r \in 0 .. M - 1 : \A q \in FreeAt(z, L, r) : L.prev[q] = Head(z, r)
      /\ \A q \in FreeAt(z, L, M) : L.next[q] \in FreeAt(z, L, M) \cup {top}
      /\ \A q \in FreeAt(z, L, M) \cup {top} : L.next[q] # top => L.prev[L.next[q]] = q
  BY DEF ListsOK, N, M, top
<1>8. \A r \in 0 .. M : \A q \in FreeAt(z, L, r) :
        q \in 0 .. N - 1 /\ q \in Nodes(z) /\ L.next[q] # q /\ (\A s \in 0 .. M : q \in FreeAt(z, L, s) => s = r)
  <2> SUFFICES ASSUME NEW r \in 0 .. M, NEW q \in FreeAt(z, L, r)
               PROVE  q \in 0 .. N - 1 /\ q \in Nodes(z) /\ L.next[q] # q
                      /\ (\A s \in 0 .. M : q \in FreeAt(z, L, s) => s = r)
    OBVIOUS
  <2>1. q \in 0 .. N - 1 /\ L.next[q] # q /\ (\A s \in 0 .. M : q \in FreeAt(z, L, s) => s = r)
    BY <1>2, FreeOnce DEF N, M
  <2>2. QED
    BY <1>1, <2>1
<1>9. M \in 0 .. M /\ top \in Nodes(z) /\ p \in FreeAt(z, L, o) /\ o \in 0 .. M /\ L.prev[p] = h
  BY <1>1 DEF h, M, top
<1>10. L.next[p] < N => o = M /\ L.next[p] \in FreeAt(z, L, M)
  BY <1>1, <1>3, <1>7, <1>9
<1>11. ASSUME NEW q \in 0 .. N - 1, K.next[q] = q PROVE K.prev[q] = q
  <2>1. q \in Nodes(z) /\ q # h
    BY <1>1, <1>4
  <2>2. CASE q = p
    BY <1>5, <2>1, <2>2
  <2>3. CASE q # p
    <3>1. L.next[q] = q /\ L.prev[q] = q
      BY <1>5, <1>7, <1>11, <2>1, <2>3
    <3>2. q # L.next[p]
      BY <1>1, <1>8, <1>9, <1>10, <3>1
    <3>3. QED
      BY <1>5, <2>1, <2>3, <3>1, <3>2
  <2>4. QED
    BY <2>2, <2>3
<1>12. ASSUME NEW r \in 0 .. M PROVE K.next[Head(z, r)] \in FreeAt(z, K, r) \cup {Head(z, r)}
  <2>1. Head(z, r) \in Nodes(z) /\ Head(z, r) # p /\ (r # o <=> Head(z, r) # h)
    BY <1>1, <1>3, <1>4
  <2>2. CASE r # o
    <3>1. K.next[Head(z, r)] = L.next[Head(z, r)]
      BY <1>5, <2>1, <2>2
    <3>2. p \notin FreeAt(z, L, r)
      BY <1>3, <2>2
    <3>3. QED
      BY <1>6, <1>7, <3>1, <3>2
  <2>3. CASE r = o
    <3>1. K.next[Head(z, r)] = L.next[p] /\ Head(z, r) = h
      BY <1>5, <2>1, <2>3 DEF h
    <3>2. CASE L.next[p] < N
      BY <1>3, <1>6, <1>10, <2>3, <3>1, <3>2
    <3>3. CASE L.next[p] >= N
      BY <1>3, <3>1, <3>3
    <3>4. QED
      BY <1>1, <1>4, <3>2, <3>3
  <2>4. QED
    BY <2>2, <2>3
<1>13. ASSUME NEW r \in 0 .. M - 1, NEW q \in FreeAt(z, K, r) PROVE K.prev[q] = Head(z, r)
  <2>1. r \in 0 .. M /\ r # M
    BY <1>1
  <2>2. q \in FreeAt(z, L, r) /\ q # p /\ q \in Nodes(z) /\ q \in 0 .. N - 1 /\ L.prev[q] = Head(z, r)
    BY <1>6, <1>7, <1>8, <2>1
  <2>3. q # L.next[p]
    BY <1>1, <1>8, <1>9, <1>10, <2>1, <2>2
  <2>4. QED
    BY <1>5, <2>2, <2>3
<1>14. ASSUME NEW q \in FreeAt(z, K, M)
       PROVE  /\ q \in FreeAt(z, L, M) /\ q # p /\ K.next[q] = L.next[q]
              /\ K.next[q] \in FreeAt(z, K, M) \cup {top}
  <2>1. q \in FreeAt(z, L, M) /\ q # p /\ q \in Nodes(z) /\ q \in 0 .. N - 1 /\ q # h
    BY <1>1, <1>4, <1>6, <1>8, <1>9
  <2>2. K.next[q] = L.next[q] /\ L.next[q] \in FreeAt(z, L, M) \cup {top}
    BY <1>5, <1>7, <2>1
  <2>3. L.next[q] # p
    <3>1. ASSUME L.next[q] = p PROVE FALSE
      <4>1. p # top
        BY <1>1, <1>3
      <4>2. L.prev[p] = q
        BY <1>7, <2>1, <3>1, <4>1
      <4>3. QED
        BY <1>9, <2>1, <4>2
    <3>2. QED
      BY <3>1
  <2>4. QED
    BY <1>6, <1>9, <2>1, <2>2, <2>3
<1>15. ASSUME NEW q \in FreeAt(z, K, M) \cup {top}, K.next[q] # top PROVE K.prev[K.next[q]] = q
  <2>1. CASE q \in FreeAt(z, K, M)
    <3> DEFINE t == L.next[q]
    <3>1. K.next[q] = t /\ t \in FreeAt(z, L, M) /\ t # p /\ L.prev[t] = q /\ q # p
      BY <1>6, <1>7, <1>9, <1>14, <1>15, <2>1
    <3>2. t \in Nodes(z)
      BY <1>8, <1>9, <3>1
    <3>3. t # L.next[p]
      <4>1. ASSUME t = L.next[p] PROVE FALSE
        <5>1. t < N
          BY <1>1, <1>8, <1>9, <3>1
        <5>2. o = M /\ t # top
          BY <1>1, <1>10, <4>1, <5>1
        <5>3. L.prev[t] = p
          BY <1>7, <1>9, <4>1, <5>2
        <5>4. QED
          BY <3>1, <5>3
      <4>2. QED
        BY <4>1
    <3>4. QED
      BY <1>5, <3>1, <3>2, <3>3
  <2>2. CASE q = top /\ o = M
    <3>1. h = top /\ top # p
      BY <1>1, <1>4, <2>2 DEF h, top
    <3>2. K.next[top] = L.next[p] /\ L.next[p] # top
      BY <1>5, <1>9, <1>15, <2>2, <3>1
    <3>3. L.next[p] \in Nodes(z) /\ L.next[p] # p
      BY <1>1, <1>3, <1>4
    <3>4. QED
      BY <1>5, <2>2, <3>1, <3>2, <3>3
  <2>3. CASE q = top /\ o # M
    <3>1. K.next[top] = L.next[top] /\ top # h /\ top # p
      BY <1>1, <1>3, <1>4, <1>5, <1>9, <2>3
    <3> DEFINE t == L.next[top]
    <3>2. t \in FreeAt(z, L, M) /\ L.prev[t] = top
      BY <1>7, <1>9, <1>15, <2>3, <3>1 DEF top
    <3>3. t \in Nodes(z) /\ t \in 0 .. N - 1 /\ t # p
      BY <1>3, <1>8, <1>9, <2>3, <3>2, ZenonT(30)
    <3>4. t # L.next[p]
      BY <1>1, <1>3, <1>4, <2>3, <3>3
    <3>5. QED
      BY <1>5, <2>3, <3>1, <3>2, <3>3, <3>4
  <2>4. QED
    BY <2>1, <2>2, <2>3
<1>16. ListsOK(z, K)
  BY <1>5, <1>11, <1>12, <1>13, <1>14, <1>15 DEF ListsOK, N, M, top
<1>17. Free(z, K) = [Free(z, L) EXCEPT ![o] = @ \ {p}]
  <2>1. \A r \in 0 .. M : FreeAt(z, K, r) = IF r = o THEN FreeAt(z, L, r) \ {p} ELSE FreeAt(z, L, r)
    BY <1>3, <1>6, ZenonT(30)
  <2>2. QED
    BY <1>9, <2>1, ZenonT(30) DEF Free, M
<1>18. QED
  BY <1>5, <1>16, <1>17 DEF K, h

(* A block on no list becomes the only one on the list of an order: what   *)
(* was on the list falls off it, still free.                               *)
LEMMA PutOK ==
  ASSUME NEW z \in Zones, NEW L, ListsOK(z, L), NEW o \in 0 .. MaxOrder[z],
         NEW p \in 0 .. NumPages[z] - 1, L.next[p] = p
  PROVE  /\ list_add(L, Head(z, o), p) = Alone(L, Head(z, o), p)
         /\ list_add_tail(L, Head(z, o), p) = Alone(L, Head(z, o), p)
         /\ ListsOK(z, Alone(L, Head(z, o), p))
         /\ Free(z, Alone(L, Head(z, o), p)) = [Free(z, L) EXCEPT ![o] = @ \cup {p}]
         /\ \A q \in Nodes(z) : Alone(L, Head(z, o), p).next[q] =
              IF q = p THEN Head(z, o) ELSE IF q = Head(z, o) THEN p ELSE L.next[q]
<1> DEFINE N == NumPages[z]
           M == MaxOrder[z]
           top == Head(z, M)
           h == Head(z, o)
           K == Alone(L, h, p)
<1>1. /\ N \in Nat /\ M \in Nat /\ Nodes(z) = 0 .. N + M /\ top = N + M
      /\ \A r \in 0 .. M : Head(z, r) = N + r /\ Head(z, r) \in Nodes(z)
  <2>1. /\ N \in Nat /\ M \in Nat /\ Nodes(z) = 0 .. N + M
        /\ \A r \in 0 .. M : Head(z, r) = N + r /\ Head(z, r) \in Nodes(z)
    BY ZoneTypes, ZenonT(30)
  <2>2. M \in 0 .. M
    BY <2>1
  <2>3. QED
    BY <2>1, <2>2, ZenonT(30)
<1>2. TypedLists(z, L) /\ L.prev[p] = p
  BY DEF ListsOK
<1>3. list_add(L, h, p) = K /\ list_add_tail(L, h, p) = K
  BY <1>2 DEF list_add, list_add_tail, Alone
<1>4. p \in Nodes(z) /\ h \in Nodes(z) /\ h # p /\ h = N + o
  BY <1>1
<1> HIDE DEF N, M, top, h
<1>5. /\ TypedLists(z, K)
      /\ \A q \in Nodes(z) :
           /\ K.next[q] = IF q = p THEN h ELSE IF q = h THEN p ELSE L.next[q]
           /\ K.prev[q] = IF q = p THEN h ELSE IF q = h THEN p ELSE L.prev[q]
  BY <1>2, <1>4, AddNode
<1> HIDE DEF K
<1>6. \A r \in 0 .. M : p \notin FreeAt(z, L, r)
  BY DEF FreeAt
<1>7. \A r \in 0 .. M : \A q : q \in FreeAt(z, K, r) <=> q \in FreeAt(z, L, r) \/ (r = o /\ q = p)
  <2> SUFFICES ASSUME NEW r \in 0 .. M, NEW q \in 0 .. N - 1
               PROVE  q \in FreeAt(z, K, r) <=> q \in FreeAt(z, L, r) \/ (r = o /\ q = p)
    BY DEF FreeAt, N
  <2>1. q \in Nodes(z) /\ q # h
    BY <1>1, <1>4
  <2>2. CASE q = p
    <3>1. K.next[q] = h /\ h >= N /\ h \in Nat
      BY <1>1, <1>4, <1>5, <2>1, <2>2
    <3>2. h = Head(z, r) <=> r = o
      <4>1. Head(z, r) = N + r /\ h = N + o /\ N \in Int /\ r \in Int /\ o \in Int
        BY <1>1, <1>4
      <4>2. QED
        BY <4>1
    <3>3. ~(h < N)
      BY <1>1, <3>1
    <3>4. q \in FreeAt(z, K, r) <=> r = o
      BY <2>1, <3>1, <3>2, <3>3 DEF FreeAt, N
    <3>5. QED
      BY <1>6, <2>2, <3>4
  <2>3. CASE q # p
    BY <1>5, <2>1, <2>3 DEF FreeAt
  <2>4. QED
    BY <2>2, <2>3
<1>8. /\ \A q \in 0 .. N - 1 : L.next[q] = q => L.prev[q] = q
      /\ \A r \in 0 .. M : L.next[Head(z, r)] \in FreeAt(z, L, r) \cup {Head(z, r)}
      /\ \A r \in 0 .. M - 1 : \A q \in FreeAt(z, L, r) : L.prev[q] = Head(z, r)
      /\ \A q \in FreeAt(z, L, M) : L.next[q] \in FreeAt(z, L, M) \cup {top}
      /\ \A q \in FreeAt(z, L, M) \cup {top} : L.next[q] # top => L.prev[L.next[q]] = q
  BY DEF ListsOK, N, M, top
<1>9. \A r \in 0 .. M : \A q \in FreeAt(z, L, r) : q \in 0 .. N - 1 /\ q \in Nodes(z) /\ q # p /\ q # h
  <2>1. \A r \in 0 .. M : \A q \in FreeAt(z, L, r) : q \in 0 .. N - 1
    BY DEF FreeAt, N
  <2>2. QED
    BY <1>1, <1>4, <1>6, <2>1
<1>10. M \in 0 .. M /\ top \in Nodes(z) /\ top # p /\ o \in 0 .. M /\ p \in 0 .. N - 1
  BY <1>1 DEF M, N
<1>11. ASSUME NEW q \in 0 .. N - 1, K.next[q] = q PROVE K.prev[q] = q
  <2>1. q \in Nodes(z) /\ q # h
    BY <1>1, <1>4
  <2>2. QED
    BY <1>4, <1>5, <1>8, <1>11, <2>1
<1>12. ASSUME NEW r \in 0 .. M PROVE K.next[Head(z, r)] \in FreeAt(z, K, r) \cup {Head(z, r)}
  <2>1. Head(z, r) \in Nodes(z) /\ Head(z, r) # p /\ (r # o <=> Head(z, r) # h)
    BY <1>1, <1>4, <1>10
  <2>2. CASE r # o
    BY <1>5, <1>7, <1>8, <2>1, <2>2
  <2>3. CASE r = o
    BY <1>5, <1>7, <2>1, <2>3
  <2>4. QED
    BY <2>2, <2>3
<1>13. ASSUME NEW r \in 0 .. M - 1, NEW q \in FreeAt(z, K, r) PROVE K.prev[q] = Head(z, r)
  <2>1. r \in 0 .. M
    BY <1>1
  <2>2. CASE q \in FreeAt(z, L, r)
    BY <1>5, <1>8, <1>9, <2>1, <2>2
  <2>3. CASE r = o /\ q = p
    BY <1>4, <1>5, <2>3 DEF h
  <2>4. QED
    BY <1>7, <2>1, <2>2, <2>3
<1>14. ASSUME NEW q \in FreeAt(z, K, M) PROVE K.next[q] \in FreeAt(z, K, M) \cup {top}
  <2>1. CASE q \in FreeAt(z, L, M)
    BY <1>5, <1>7, <1>8, <1>9, <1>10, <2>1
  <2>2. CASE M = o /\ q = p
    BY <1>4, <1>5, <2>2 DEF h, top
  <2>3. QED
    BY <1>7, <1>10, <2>1, <2>2
<1>15. ASSUME NEW q \in FreeAt(z, K, M) \cup {top}, K.next[q] # top PROVE K.prev[K.next[q]] = q
  <2>1. CASE q \in FreeAt(z, L, M)
    <3>1. K.next[q] = L.next[q] /\ L.next[q] \in FreeAt(z, L, M) /\ L.prev[L.next[q]] = q
      BY <1>5, <1>8, <1>9, <1>10, <1>15, <2>1
    <3>2. QED
      BY <1>5, <1>9, <1>10, <3>1
  <2>2. CASE M = o /\ q = p
    BY <1>4, <1>5, <1>15, <2>2 DEF h, top
  <2>3. CASE q = top /\ o = M
    <3>1. top = h
      BY <2>3 DEF top, h
    <3>2. K.next[q] = p
      BY <1>4, <1>5, <2>3, <3>1
    <3>3. QED
      BY <1>4, <1>5, <2>3, <3>1, <3>2
  <2>4. CASE q = top /\ o # M
    <3>1. top # h
      BY <1>1, <1>4, <2>4
    <3>2. K.next[q] = L.next[top]
      BY <1>5, <1>10, <2>4, <3>1
    <3>3. L.next[top] \in FreeAt(z, L, M) /\ L.prev[L.next[top]] = top
      BY <1>8, <1>10, <1>15, <2>4, <3>2 DEF top
    <3>4. QED
      BY <1>5, <1>9, <1>10, <2>4, <3>2, <3>3
  <2>5. QED
    BY <1>7, <1>10, <2>1, <2>2, <2>3, <2>4
<1>16. ListsOK(z, K)
  BY <1>5, <1>11, <1>12, <1>13, <1>14, <1>15 DEF ListsOK, N, M, top
<1>17. Free(z, K) = [Free(z, L) EXCEPT ![o] = @ \cup {p}]
  <2>1. \A r \in 0 .. M : FreeAt(z, K, r) = IF r = o THEN FreeAt(z, L, r) \cup {p} ELSE FreeAt(z, L, r)
    BY <1>7
  <2>2. QED
    BY <1>10, <2>1, ZenonT(30) DEF Free, M
<1>18. QED
  BY <1>3, <1>5, <1>16, <1>17 DEF K, h

(* free_pages.  What holds of every call: its state stays typed.           *)
LEMMA AddTyped ==
  ASSUME NEW z \in Zones, NEW L, TypedLists(z, L), NEW p \in Nodes(z), NEW h \in Nodes(z)
  PROVE  TypedLists(z, list_add(L, h, p))
<1>1. L.next[p] \in Nodes(z)
  BY DEF TypedLists
<1>2. QED
  BY <1>1, ZenonT(30) DEF TypedLists, list_add, ListAddBetween

(* Deleting a page that exists, or none, keeps the links in range.         *)
LEMMA DelTyped ==
  ASSUME NEW z \in Zones, NEW L, TypedLists(z, L), NEW p \in Nat
  PROVE  TypedLists(z, DelPage(L, z, p))
<1>1. CASE p < NumPages[z]
  <2>1. p \in Nodes(z)
    BY <1>1, ZoneTypes
  <2>2. L.next[p] \in Nodes(z) /\ L.prev[p] \in Nodes(z)
    BY <2>1 DEF TypedLists
  <2>3. TypedLists(z, ListDel(L, L.prev[p], L.next[p]))
    BY <2>2, ZenonT(30) DEF TypedLists, ListDel
  <2>4. TypedLists(z, list_del_init(L, p))
    BY <2>1, <2>3, ZenonT(30) DEF TypedLists, list_del_init
  <2>5. QED
    BY <1>1, <2>4 DEF DelPage
<1>2. CASE ~(p < NumPages[z])
  BY <1>2 DEF DelPage
<1>3. QED
  BY <1>1, <1>2

(* What a walk along a list visits.                                        *)
WalkTo(L, h, n, W) == W = [i \in 0 .. n |-> IF i = 0 THEN h ELSE L.next[W[i - 1]]]
Visited(W, h, n) == {W[i] : i \in {k \in 1 .. n : \A j \in 1 .. k : W[j] # h}}

(* The first n steps of a walk exist as a function.                        *)
LEMMA WalkExists ==
  ASSUME NEW L, NEW h, NEW n \in Nat
  PROVE  \E W : WalkTo(L, h, n, W)
<1> DEFINE S == {k \in 0 .. n : \E W : WalkTo(L, h, k, W)}
<1>1. 0 \in S
  <2>1. WalkTo(L, h, 0, [i \in 0 .. 0 |-> h])
    BY DEF WalkTo
  <2>2. QED
    BY <2>1
<1>2. ASSUME NEW k \in 0 .. n - 1, k \in S PROVE k + 1 \in S
  <2>1. PICK V : WalkTo(L, h, k, V)
    BY <1>2
  <2> DEFINE W == [i \in 0 .. k + 1 |-> IF i = 0 THEN h ELSE L.next[V[i - 1]]]
  <2>2. \A i \in 0 .. k : W[i] = V[i]
    BY <2>1 DEF WalkTo
  <2>3. W = [i \in 0 .. k + 1 |-> IF i = 0 THEN h ELSE L.next[W[i - 1]]]
    <3>1. \A i \in 0 .. k + 1 : i # 0 => W[i - 1] = V[i - 1]
      <4>1. \A i \in 0 .. k + 1 : i # 0 => i - 1 \in 0 .. k
        OBVIOUS
      <4> HIDE DEF W
      <4>2. QED
        BY <2>2, <4>1
    <3>2. QED
      BY <3>1, ZenonT(30)
  <2>4. WalkTo(L, h, k + 1, W)
    BY <2>3, ZenonT(30) DEF WalkTo
  <2>5. QED
    BY <2>4
<1>3. 0 .. n \subseteq S
  <2> HIDE DEF S
  <2>1. QED
    BY <1>1, <1>2, Up
<1>4. QED
  BY <1>3

(* Entries are the nodes that a walk of n steps visits before the head.    *)
LEMMA EntriesAre ==
  ASSUME NEW L, NEW h, NEW n \in Nat
  PROVE  \E W : WalkTo(L, h, n, W) /\ Entries(L, h, n) = Visited(W, h, n)
<1> DEFINE W == CHOOSE f : f = [i \in 0 .. n |-> IF i = 0 THEN h ELSE L.next[f[i - 1]]]
<1>1. \E f : f = [i \in 0 .. n |-> IF i = 0 THEN h ELSE L.next[f[i - 1]]]
  <2>1. \E f : WalkTo(L, h, n, f)
    BY WalkExists
  <2>2. QED
    BY <2>1, ZenonT(30) DEF WalkTo
<1>2. W = [i \in 0 .. n |-> IF i = 0 THEN h ELSE L.next[W[i - 1]]]
  BY <1>1, ZenonT(30)
<1>3. Entries(L, h, n) = Visited(W, h, n)
  BY DEF Entries, Visited
<1> HIDE DEF W
<1>4. WalkTo(L, h, n, W)
  BY <1>2 DEF WalkTo
<1>5. QED
  BY <1>3, <1>4

-----------------------------------------------------------------------------
(* A zone with lists L and bits m whose blocks in use are those of O.      *)
ZoneOK(z, L, m, O) ==
  /\ ListsOK(z, L)
  /\ Buddies(NumPages[z], MaxOrder[z], Free(z, L), Held(z, O), Flips(m, stale[z]), stale[z])

(* Before any free: every free block is on its list, and the list of       *)
(* max_order still has its blocks in the order of their addresses.         *)
Chain(z, L) ==
  LET size == Pow2[MaxOrder[z]]
      top == Head(z, MaxOrder[z])
      n == NumPages[z] \div size
  IN  /\ \A o \in 0 .. MaxOrder[z] - 1 : FreeAt(z, L, o) \subseteq {L.next[Head(z, o)]}
      /\ \E c \in 0 .. n :
           LET Entry(k) == IF k < n THEN k * size ELSE top
           IN  /\ FreeAt(z, L, MaxOrder[z]) = {Entry(k) : k \in c .. n - 1}
               /\ L.next[top] = Entry(c)
               /\ \A k \in c .. n - 1 : L.next[Entry(k)] = Entry(k + 1)

(* Before any free, taking the first block of a list and putting a block   *)
(* on an empty list below max_order leave every free block on its list.    *)
ChainFrom(z, L, c) ==
  LET size == Pow2[MaxOrder[z]]
      top == Head(z, MaxOrder[z])
      n == NumPages[z] \div size
      Entry(k) == IF k < n THEN k * size ELSE top
  IN  /\ FreeAt(z, L, MaxOrder[z]) = {Entry(k) : k \in c .. n - 1}
      /\ L.next[top] = Entry(c)
      /\ \A k \in c .. n - 1 : L.next[Entry(k)] = Entry(k + 1)

(* Chain, with the place c of its first block named.                       *)
LEMMA ChainDef ==
  ASSUME NEW z \in Zones, NEW L
  PROVE  Chain(z, L) <=>
           /\ \A o \in 0 .. MaxOrder[z] - 1 : FreeAt(z, L, o) \subseteq {L.next[Head(z, o)]}
           /\ \E c \in 0 .. NumPages[z] \div Pow2[MaxOrder[z]] : ChainFrom(z, L, c)
BY DEF Chain, ChainFrom

(* The blocks of max_order fill the zone.                                  *)
LEMMA ChainSize ==
  ASSUME NEW z \in Zones
  PROVE  LET size == Pow2[MaxOrder[z]]
             n == NumPages[z] \div size
         IN  /\ size \in Nat /\ size > 0 /\ n \in Nat /\ n * size = NumPages[z]
             /\ \A k \in 0 .. n - 1 : k * size \in 0 .. NumPages[z] - 1 /\ k * size + size <= NumPages[z]
<1> DEFINE size == Pow2[MaxOrder[z]]
           n == NumPages[z] \div size
<1>1. NumPages[z] \in Nat /\ MaxOrder[z] \in Nat /\ NumPages[z] % size = 0
  BY ZonesAssumption
<1>2. size \in Nat /\ size > 0
  BY <1>1, Pow2Step
<1> HIDE DEF size
<1>3. n \in Nat
  BY <1>1, <1>2
<1>4. n * size = NumPages[z]
  BY <1>1, <1>2
<1> HIDE DEF n
<1>5. \A k \in 0 .. n - 1 : k * size \in Nat /\ k * size + size <= n * size
  BY <1>2, <1>3
<1>6. QED
  BY <1>1, <1>2, <1>3, <1>4, <1>5 DEF n, size

(* ChainFrom depends on the links of the blocks of max_order only.         *)
LEMMA ChainFromFrame ==
  ASSUME NEW z \in Zones, NEW L, NEW K, NEW c \in 0 .. NumPages[z] \div Pow2[MaxOrder[z]],
         ChainFrom(z, L, c), FreeAt(z, K, MaxOrder[z]) = FreeAt(z, L, MaxOrder[z]),
         \A q \in FreeAt(z, L, MaxOrder[z]) \cup {Head(z, MaxOrder[z])} : K.next[q] = L.next[q]
  PROVE  ChainFrom(z, K, c)
BY ZenonT(30) DEF ChainFrom

(* Taking the first block of max_order moves the chain's place on.         *)
LEMMA ChainTake ==
  ASSUME NEW z \in Zones, NEW L, NEW K, NEW c \in 0 .. NumPages[z] \div Pow2[MaxOrder[z]],
         ChainFrom(z, L, c), TypedLists(z, L), NEW p \in FreeAt(z, L, MaxOrder[z]),
         L.next[Head(z, MaxOrder[z])] = p,
         FreeAt(z, K, MaxOrder[z]) = FreeAt(z, L, MaxOrder[z]) \ {p},
         \A q \in Nodes(z) : K.next[q] =
           IF q = p THEN p ELSE IF q = Head(z, MaxOrder[z]) THEN L.next[p] ELSE L.next[q]
  PROVE  c + 1 \in 0 .. NumPages[z] \div Pow2[MaxOrder[z]] /\ ChainFrom(z, K, c + 1)
<1> DEFINE N == NumPages[z]
           M == MaxOrder[z]
           size == Pow2[M]
           top == Head(z, M)
           n == N \div size
           Entry(k) == IF k < n THEN k * size ELSE top
<1>1. /\ size \in Nat /\ size > 0 /\ n \in Nat /\ n * size = N
      /\ \A k \in 0 .. n - 1 : k * size \in 0 .. N - 1
  BY ChainSize
<1>2. N \in Nat /\ M \in Nat /\ top = N + M /\ top \in Nodes(z) /\ Nodes(z) = 0 .. N + M
  BY ZoneTypes
<1>3. p \in 0 .. N - 1 /\ c \in 0 .. n
  BY DEF FreeAt
<1>4. /\ FreeAt(z, L, M) = {Entry(k) : k \in c .. n - 1}
      /\ L.next[top] = Entry(c)
      /\ \A k \in c .. n - 1 : L.next[Entry(k)] = Entry(k + 1)
  BY ZenonT(30) DEF ChainFrom
<1> HIDE DEF N, M, size, top, n
<1>5. p = Entry(c) /\ c < n /\ p = c * size
  BY <1>1, <1>2, <1>3, <1>4 DEF top, M
<1>6. c + 1 \in 0 .. n /\ c \in c .. n - 1
  BY <1>1, <1>3, <1>5
<1>7. \A k \in c + 1 .. n - 1 : Entry(k) = k * size /\ Entry(k) # p /\ Entry(k) \in 0 .. N - 1
  <2> SUFFICES ASSUME NEW k \in c + 1 .. n - 1
               PROVE  Entry(k) = k * size /\ Entry(k) # p /\ Entry(k) \in 0 .. N - 1
    OBVIOUS
  <2>1. c * size + size <= k * size
    BY <1>1, <1>3
  <2>2. k * size \in 0 .. N - 1 /\ k < n
    BY <1>1, <1>3
  <2>3. QED
    BY <1>1, <1>2, <1>3, <1>5, <2>1, <2>2
<1>8. FreeAt(z, K, M) = {Entry(k) : k \in c + 1 .. n - 1}
  <2>1. c .. n - 1 = {c} \cup (c + 1 .. n - 1)
    BY <1>1, <1>3, <1>6
  <2>2. FreeAt(z, K, M) = FreeAt(z, L, M) \ {p}
    BY DEF M
  <2> HIDE DEF Entry
  <2>3. FreeAt(z, L, M) = {p} \cup {Entry(k) : k \in c + 1 .. n - 1}
    <3>1. {Entry(k) : k \in c .. n - 1} = {Entry(c)} \cup {Entry(k) : k \in c + 1 .. n - 1}
      BY <2>1, ZenonT(30)
    <3>2. QED
      BY <1>4, <1>5, <3>1
  <2>4. p \notin {Entry(k) : k \in c + 1 .. n - 1}
    BY <1>7
  <2>5. QED
    BY <2>2, <2>3, <2>4
<1>9. K.next[top] = Entry(c + 1)
  <2>1. K.next[top] = L.next[p]
    BY <1>2, <1>3 DEF top, M
  <2> HIDE DEF Entry
  <2>2. QED
    BY <1>4, <1>5, <1>6, <2>1, ZenonT(30)
<1>10. \A k \in c + 1 .. n - 1 : K.next[Entry(k)] = Entry(k + 1)
  <2> SUFFICES ASSUME NEW k \in c + 1 .. n - 1 PROVE K.next[Entry(k)] = Entry(k + 1)
    OBVIOUS
  <2> HIDE DEF Entry
  <2>1. k \in c .. n - 1
    BY <1>1, <1>3
  <2>2. Entry(k) # p /\ Entry(k) \in 0 .. N - 1
    BY <1>7
  <2>3. Entry(k) \in Nodes(z) /\ Entry(k) # top
    BY <1>2, <2>2
  <2>4. K.next[Entry(k)] = L.next[Entry(k)]
    BY <2>2, <2>3 DEF top, M
  <2>5. QED
    BY <1>4, <2>1, <2>4
<1>11. QED
  BY <1>6, <1>8, <1>9, <1>10, ZenonT(30) DEF ChainFrom, N, M, size, top, n

(* Deleting the first block of a list leaves a chain ...                   *)
LEMMA ChainRemove ==
  ASSUME NEW z \in Zones, NEW L, ListsOK(z, L), Chain(z, L), NEW o \in 0 .. MaxOrder[z],
         NEW p \in FreeAt(z, L, o), L.next[Head(z, o)] = p, L.prev[p] = Head(z, o)
  PROVE  Chain(z, list_del_init(L, p))
<1> DEFINE K == list_del_init(L, p)
           M == MaxOrder[z]
           h == Head(z, o)
<1>1. /\ \A r \in 0 .. M : FreeAt(z, K, r) = IF r = o THEN FreeAt(z, L, r) \ {p} ELSE FreeAt(z, L, r)
      /\ \A q \in Nodes(z) : K.next[q] = IF q = p THEN p ELSE IF q = h THEN L.next[p] ELSE L.next[q]
  <2>1. Free(z, K) = [Free(z, L) EXCEPT ![o] = @ \ {p}]
    BY RemoveOK
  <2>2. \A r \in 0 .. M : FreeAt(z, K, r) = Free(z, K)[r] /\ FreeAt(z, L, r) = Free(z, L)[r]
    BY DEF Free
  <2>3. DOMAIN Free(z, L) = 0 .. M
    BY DEF Free
  <2> HIDE DEF K
  <2>4. \A r \in 0 .. M : FreeAt(z, K, r) = IF r = o THEN FreeAt(z, L, r) \ {p} ELSE FreeAt(z, L, r)
    BY <2>1, <2>2, <2>3
  <2>5. QED
    BY <2>4, RemoveOK DEF K
<1>2. /\ M \in Nat /\ M \in 0 .. M /\ \A r \in 0 .. M : Head(z, r) \in Nodes(z) /\ Head(z, r) >= NumPages[z]
      /\ \A r \in 0 .. M : Head(z, r) = h => r = o
      /\ NumPages[z] \in Nat /\ Nodes(z) = 0 .. NumPages[z] + M
  BY ZoneTypes
<1>3. TypedLists(z, L)
  BY DEF ListsOK
<1>4. p \in 0 .. NumPages[z] - 1 /\ \A r \in 0 .. M : p \in FreeAt(z, L, r) => r = o
  BY <1>3, FreeOnce
<1>5. /\ \A r \in 0 .. M - 1 : FreeAt(z, L, r) \subseteq {L.next[Head(z, r)]}
      /\ \E c \in 0 .. NumPages[z] \div Pow2[M] : ChainFrom(z, L, c)
  BY ChainDef
<1> HIDE DEF K, M, h
<1>6. \A r \in 0 .. M - 1 : FreeAt(z, K, r) \subseteq {K.next[Head(z, r)]}
  <2> SUFFICES ASSUME NEW r \in 0 .. M - 1 PROVE FreeAt(z, K, r) \subseteq {K.next[Head(z, r)]}
    OBVIOUS
  <2>1. r \in 0 .. M
    BY <1>2
  <2>2. CASE r = o
    BY <1>1, <1>5, <2>1, <2>2
  <2>3. CASE r # o
    <3>1. Head(z, r) # h /\ Head(z, r) # p /\ Head(z, r) \in Nodes(z)
      BY <1>2, <1>4, <2>1, <2>3
    <3>2. QED
      BY <1>1, <1>5, <2>1, <2>3, <3>1
  <2>4. QED
    BY <2>2, <2>3
<1>7. PICK c \in 0 .. NumPages[z] \div Pow2[M] : ChainFrom(z, L, c)
  BY <1>5
<1>8. \E d \in 0 .. NumPages[z] \div Pow2[M] : ChainFrom(z, K, d)
  <2>1. CASE o = M
    <3>1. c + 1 \in 0 .. NumPages[z] \div Pow2[M] /\ ChainFrom(z, K, c + 1)
      <4>1. FreeAt(z, K, M) = FreeAt(z, L, M) \ {p} /\ p \in FreeAt(z, L, M) /\ L.next[Head(z, M)] = p
        BY <1>1, <1>2, <2>1
      <4>2. \A q \in Nodes(z) : K.next[q] = IF q = p THEN p ELSE IF q = Head(z, M) THEN L.next[p] ELSE L.next[q]
        BY <1>1, <2>1 DEF h
      <4>3. QED
        BY <1>3, <1>7, <4>1, <4>2, ChainTake DEF M
    <3>2. QED
      BY <3>1
  <2>2. CASE o # M
    <3>1. FreeAt(z, K, M) = FreeAt(z, L, M) /\ p \notin FreeAt(z, L, M)
      BY <1>1, <1>2, <1>4, <2>2
    <3>2. \A q \in FreeAt(z, L, M) \cup {Head(z, M)} : q \in Nodes(z) /\ q # p /\ q # h
      <4>1. \A q \in FreeAt(z, L, M) : q \in 0 .. NumPages[z] - 1
        BY DEF FreeAt
      <4>2. h >= NumPages[z] /\ Head(z, M) # h /\ Head(z, M) >= NumPages[z] /\ Head(z, M) \in Nodes(z) /\ h \in Nat
        BY <1>2, <2>2 DEF h, M
      <4>3. QED
        BY <1>2, <1>4, <3>1, <4>1, <4>2
    <3>3. ChainFrom(z, K, c)
      BY <1>1, <1>7, <3>1, <3>2, ChainFromFrame DEF M
    <3>4. QED
      BY <3>3
  <2>3. QED
    BY <2>1, <2>2
<1>9. QED
  BY <1>6, <1>8, ChainDef DEF K, M

(* ... and so does putting a block on an empty list.                       *)
LEMMA ChainPut ==
  ASSUME NEW z \in Zones, NEW L, ListsOK(z, L), Chain(z, L), NEW o \in 0 .. MaxOrder[z] - 1,
         NEW p \in 0 .. NumPages[z] - 1, L.next[p] = p, L.next[Head(z, o)] = Head(z, o)
  PROVE  Chain(z, Alone(L, Head(z, o), p))
<1> DEFINE h == Head(z, o)
           K == Alone(L, h, p)
           M == MaxOrder[z]
<1>1. /\ M \in Nat /\ M \in 0 .. M /\ \A r \in 0 .. M : Head(z, r) \in Nodes(z) /\ Head(z, r) >= NumPages[z]
      /\ \A r \in 0 .. M : Head(z, r) = h => r = o
      /\ NumPages[z] \in Nat /\ Nodes(z) = 0 .. NumPages[z] + M /\ o \in 0 .. M /\ o # M
  <2>1. /\ M \in Nat /\ NumPages[z] \in Nat /\ Nodes(z) = 0 .. NumPages[z] + M
        /\ \A r \in 0 .. M : Head(z, r) = NumPages[z] + r /\ Head(z, r) \in Nodes(z)
    BY ZoneTypes
  <2>2. o \in 0 .. M /\ o # M /\ M \in 0 .. M
    BY <2>1
  <2>3. QED
    BY <2>1, <2>2
<1>2. /\ \A r \in 0 .. M : FreeAt(z, K, r) = IF r = o THEN FreeAt(z, L, r) \cup {p} ELSE FreeAt(z, L, r)
      /\ \A q \in Nodes(z) : K.next[q] = IF q = p THEN h ELSE IF q = h THEN p ELSE L.next[q]
  <2>1. /\ Free(z, K) = [Free(z, L) EXCEPT ![o] = @ \cup {p}]
        /\ \A q \in Nodes(z) : K.next[q] = IF q = p THEN h ELSE IF q = h THEN p ELSE L.next[q]
    BY <1>1, PutOK
  <2> HIDE DEF K
  <2>2. \A r \in 0 .. M : FreeAt(z, K, r) = Free(z, K)[r] /\ FreeAt(z, L, r) = Free(z, L)[r]
    BY DEF Free
  <2>3. DOMAIN Free(z, L) = 0 .. M
    BY DEF Free
  <2>4. \A r \in 0 .. M : FreeAt(z, K, r) = IF r = o THEN FreeAt(z, L, r) \cup {p} ELSE FreeAt(z, L, r)
    BY <2>1, <2>2, <2>3, ZenonT(30)
  <2>5. QED
    BY <2>1, <2>4
<1>3. p \notin FreeAt(z, L, M) /\ \A r \in 0 .. M : FreeAt(z, L, r) \subseteq 0 .. NumPages[z] - 1
  BY DEF FreeAt
<1>4. /\ \A r \in 0 .. M - 1 : FreeAt(z, L, r) \subseteq {L.next[Head(z, r)]}
      /\ \E c \in 0 .. NumPages[z] \div Pow2[M] : ChainFrom(z, L, c)
  BY ChainDef
<1> HIDE DEF K, M
<1>5. \A r \in 0 .. M - 1 : FreeAt(z, K, r) \subseteq {K.next[Head(z, r)]}
  <2> SUFFICES ASSUME NEW r \in 0 .. M - 1 PROVE FreeAt(z, K, r) \subseteq {K.next[Head(z, r)]}
    OBVIOUS
  <2>1. r \in 0 .. M /\ Head(z, r) \in Nodes(z) /\ Head(z, r) # p
    BY <1>1
  <2>2. CASE r = o
    <3>1. FreeAt(z, L, o) \subseteq {h} /\ h \notin FreeAt(z, L, o)
      BY <1>1, <1>3, <1>4, <2>2
    <3>2. FreeAt(z, K, o) = {p} /\ K.next[h] = p
      BY <1>1, <1>2, <2>1, <2>2, <3>1
    <3>3. QED
      BY <2>2, <3>2
  <2>3. CASE r # o
    BY <1>1, <1>2, <1>4, <2>1, <2>3
  <2>4. QED
    BY <2>2, <2>3
<1>6. PICK c \in 0 .. NumPages[z] \div Pow2[M] : ChainFrom(z, L, c)
  BY <1>4
<1>7. ChainFrom(z, K, c)
  <2>1. FreeAt(z, K, M) = FreeAt(z, L, M)
    BY <1>1, <1>2
  <2>2. \A q \in FreeAt(z, L, M) \cup {Head(z, M)} : q \in Nodes(z) /\ q # p /\ q # h
    <3>1. h >= NumPages[z] /\ Head(z, M) # h /\ Head(z, M) >= NumPages[z] /\ Head(z, M) \in Nodes(z) /\ h \in Nat
      BY <1>1
    <3> HIDE DEF h
    <3>2. QED
      BY <1>1, <1>3, <3>1
  <2>3. QED
    BY <1>2, <1>6, <2>1, <2>2, ChainFromFrame, ZenonT(30) DEF M
<1>8. QED
  BY <1>5, <1>6, <1>7, ChainDef DEF K, M

(* A walk does not leave a set that is closed under next.                  *)
LEMMA WalkIn ==
  ASSUME NEW L, NEW h, NEW n \in Nat, NEW S, L.next[h] \in S \cup {h},
         \A p \in S : L.next[p] \in S \cup {h}
  PROVE  Entries(L, h, n) \subseteq S
<1>1. PICK W : WalkTo(L, h, n, W) /\ Entries(L, h, n) = Visited(W, h, n)
  BY EntriesAre
<1> DEFINE T == {k \in 0 .. n : W[k] \in S \cup {h}}
<1>2. W[0] = h /\ \A k \in 0 .. n - 1 : W[k + 1] = L.next[W[k]]
  <2>1. \A i \in 0 .. n : W[i] = IF i = 0 THEN h ELSE L.next[W[i - 1]]
    BY <1>1 DEF WalkTo
  <2>2. QED
    BY <2>1
<1>3. 0 \in T
  BY <1>2
<1>4. ASSUME NEW k \in 0 .. n - 1, k \in T PROVE k + 1 \in T
  BY <1>2, <1>4
<1>5. 0 .. n \subseteq T
  <2> HIDE DEF T
  <2>1. QED
    BY <1>3, <1>4, Up
<1>6. ASSUME NEW i \in 1 .. n, \A j \in 1 .. i : W[j] # h PROVE W[i] \in S
  <2>1. i \in T /\ i \in 1 .. i
    BY <1>5
  <2>2. QED
    BY <1>6, <2>1
<1>7. QED
  BY <1>1, <1>6 DEF Visited

(* The blocks on the list of an order are free blocks of that order.       *)
LEMMA ListedFree ==
  ASSUME NEW z \in Zones, NEW L, ListsOK(z, L), NEW o \in 0 .. MaxOrder[z], NEW n \in Nat
  PROVE  Entries(L, Head(z, o), n) \subseteq FreeAt(z, L, o)
<1> DEFINE S == FreeAt(z, L, o)
<1>1. TypedLists(z, L) /\ L.next[Head(z, o)] \in S \cup {Head(z, o)}
  BY DEF ListsOK
<1>2. ASSUME NEW p \in S PROVE L.next[p] \in S \cup {Head(z, o)}
  <2>1. CASE o = MaxOrder[z]
    BY <2>1 DEF ListsOK
  <2>2. CASE o # MaxOrder[z]
    <3>1. /\ L.next[p] < NumPages[z] => o = MaxOrder[z]
          /\ L.next[p] >= NumPages[z] => L.next[p] = Head(z, o)
          /\ p \in 0 .. NumPages[z] - 1
      BY <1>1, FreeOnce
    <3>2. L.next[p] \in Int /\ NumPages[z] \in Int
      <4>1. Nodes(z) = 0 .. NumPages[z] + MaxOrder[z] /\ NumPages[z] \in Nat /\ MaxOrder[z] \in Nat
        BY ZoneTypes
      <4>2. p \in Nodes(z)
        BY <3>1, <4>1
      <4>3. L.next[p] \in Nodes(z)
        BY <1>1, <4>2 DEF TypedLists
      <4>4. QED
        BY <4>1, <4>3
    <3>3. QED
      BY <2>2, <3>1, <3>2
  <2>3. QED
    BY <2>1, <2>2
<1> HIDE DEF S
<1>3. QED
  BY <1>1, <1>2, WalkIn DEF S

(* Before any free, a walk along the list of an order visits every free    *)
(* block of the order.                                                     *)
LEMMA ChainListed ==
  ASSUME NEW z \in Zones, NEW L, Chain(z, L), NEW o \in 0 .. MaxOrder[z], NEW p \in FreeAt(z, L, o)
  PROVE  p \in Entries(L, Head(z, o), Head(z, MaxOrder[z]) + 1)
<1> DEFINE N == NumPages[z]
           M == MaxOrder[z]
           h == Head(z, o)
           max == Head(z, M) + 1
           size == Pow2[M]
           n == N \div size
<1>1. N \in Nat /\ M \in Nat /\ h = N + o /\ max = N + M + 1 /\ max \in Nat /\ o \in Nat
  <2>1. N \in Nat /\ M \in Nat
    BY ZoneTypes
  <2>2. QED
    BY <2>1 DEF Head
<1>2. p \in 0 .. N - 1
  BY DEF FreeAt
<1> HIDE DEF max, h
<1>3. PICK W : WalkTo(L, h, max, W) /\ Entries(L, h, max) = Visited(W, h, max)
  <2>1. max \in Nat
    BY <1>1
  <2>2. QED
    BY <2>1, EntriesAre
<1>4. W[0] = h /\ \A k \in 0 .. max - 1 : W[k + 1] = L.next[W[k]]
  <2>1. \A i \in 0 .. max : W[i] = IF i = 0 THEN h ELSE L.next[W[i - 1]]
    BY <1>3, ZenonT(30) DEF WalkTo
  <2>2. QED
    BY <1>1, <2>1
<1>5. CASE o # M
  <2>1. p = L.next[h]
    BY <1>1, <1>5, ChainDef DEF h
  <2>2. W[1] = p /\ 1 \in 1 .. max
    <3>1. 0 \in 0 .. max - 1 /\ 0 + 1 = 1 /\ 1 \in 1 .. max
      BY <1>1
    <3>2. QED
      BY <1>4, <2>1, <3>1
  <2>3. \A j \in 1 .. 1 : W[j] # h
    BY <1>1, <1>2, <2>2
  <2>4. p \in Visited(W, h, max)
    BY <2>2, <2>3 DEF Visited
  <2>5. QED
    BY <1>3, <2>4 DEF h, max
<1>6. CASE o = M
  <2>1. PICK c \in 0 .. n : ChainFrom(z, L, c)
    BY ChainDef
  <2>2. /\ size \in Nat /\ size > 0 /\ n \in Nat
        /\ \A k \in 0 .. n - 1 : k * size \in 0 .. N - 1
    BY ChainSize
  <2>3. n <= N
    <3>1. n \in 0 .. N
      BY <1>1, <2>2, DivAtMost, ZenonT(30)
    <3>2. QED
      BY <1>1, <3>1
  <2> HIDE DEF size, n
  <2> DEFINE Entry(k) == IF k < n THEN k * size ELSE h
  <2>4. /\ FreeAt(z, L, M) = {Entry(k) : k \in c .. n - 1} /\ L.next[h] = Entry(c)
        /\ \A k \in c .. n - 1 : L.next[Entry(k)] = Entry(k + 1)
    BY <1>6, <2>1, ZenonT(30) DEF ChainFrom, size, n, h
  <2>5. \A k \in c .. n - 1 : Entry(k) # h
    BY <1>1, <2>1, <2>2
  <2>6. PICK k \in c .. n - 1 : p = Entry(k)
    BY <1>6, <2>4
  <2> HIDE DEF Entry
  <2> DEFINE m == n - 1 - c
             S == {j \in 0 .. m : W[j + 1] = Entry(c + j)}
  <2>7. c \in Nat /\ k \in Nat /\ m \in Nat /\ m + 1 <= max - 1 /\ k - c \in 0 .. m /\ c + (k - c) = k
    BY <1>1, <2>1, <2>2, <2>3, <2>6
  <2>8. 0 \in S
    <3>1. 0 \in 0 .. max - 1 /\ c + 0 = c /\ 0 \in 0 .. m
      BY <1>1, <2>7
    <3>2. QED
      BY <1>4, <2>4, <3>1
  <2>9. ASSUME NEW j \in 0 .. m - 1, j \in S PROVE j + 1 \in S
    <3>1. j + 1 \in 0 .. max - 1 /\ j + 1 \in 0 .. m /\ c + j \in c .. n - 1 /\ c + (j + 1) = (c + j) + 1
      BY <1>1, <2>2, <2>7
    <3>2. W[(j + 1) + 1] = L.next[W[j + 1]]
      BY <1>4, <3>1
    <3>3. QED
      BY <2>4, <2>9, <3>1, <3>2
  <2>10. 0 .. m \subseteq S
    <3> HIDE DEF S, m
    <3>1. QED
      BY <2>7, <2>8, <2>9, Up
  <2>11. \A j \in 0 .. m : W[j + 1] = Entry(c + j) /\ c + j \in c .. n - 1
    BY <2>1, <2>2, <2>7, <2>10
  <2>12. \A j \in 1 .. (k - c) + 1 : W[j] # h
    <3> SUFFICES ASSUME NEW j \in 1 .. (k - c) + 1 PROVE W[j] # h
      OBVIOUS
    <3>1. j - 1 \in 0 .. m /\ (j - 1) + 1 = j
      BY <2>7
    <3>2. QED
      BY <2>5, <2>11, <3>1
  <2>13. W[(k - c) + 1] = p /\ (k - c) + 1 \in 1 .. max
    BY <1>1, <2>6, <2>7, <2>11
  <2>14. p \in Visited(W, h, max)
    BY <2>12, <2>13 DEF Visited
  <2>15. QED
    BY <1>3, <2>14 DEF h, max
<1>7. QED
  BY <1>5, <1>6

(* In a zone in order, blocks in use are apart.                            *)
LEMMA HeldApart ==
  ASSUME NEW z \in Zones, NEW L, NEW m, NEW O, ZoneOK(z, L, m, O),
         NEW a \in O, NEW b \in O, a \in Promise!Blocks, b \in Promise!Blocks, a # b,
         a.zone = z, b.zone = z
  PROVE  Pages(a) \cap Pages(b) = {}
<1> DEFINE N == NumPages[z]
           M == MaxOrder[z]
           U == Held(z, O)
           B == Both(M, Free(z, L), U)
<1>1. Tiled(N, M, B)
  BY DEF ZoneOK, Buddies, Both
<1>2. a \in Record /\ b \in Record
  BY BlocksAre
<1>3. a = Block(z, a.page, a.order) /\ b = Block(z, b.page, b.order)
  BY <1>2, BlockFields
<1>4. a.order \in 0 .. M /\ b.order \in 0 .. M /\ a.page \in 0 .. N - 1 /\ b.page \in 0 .. N - 1
  BY BlocksAre
<1>5. a.page \in U[a.order] /\ b.page \in U[b.order]
  BY <1>3, <1>4, HeldIs
<1>6. a.page \in B[a.order] /\ b.page \in B[b.order]
  BY <1>4, <1>5 DEF Both
<1>7. ~(a.page = b.page /\ a.order = b.order)
  BY <1>3
<1>8. a.page + Pow2[a.order] <= b.page \/ b.page + Pow2[b.order] <= a.page
  BY <1>1, <1>4, <1>6, <1>7, ZenonT(30) DEF Tiled
<1>9. QED
  BY <1>2, <1>8, PagesApart

(* A block in use is on no list: its first page points to itself.         *)
LEMMA Unlinked ==
  ASSUME NEW z \in Zones, NEW L, NEW bits, NEW O, ZoneOK(z, L, bits, O)
  PROVE  \A o \in 0 .. MaxOrder[z] : \A p \in Held(z, O)[o] :
           p \in 0 .. NumPages[z] - 1 /\ L.next[p] = p /\ L.prev[p] = p
<1> DEFINE U == Held(z, O)
<1> USE DEF ZoneOK
<1> SUFFICES ASSUME NEW o \in 0 .. MaxOrder[z], NEW p \in U[o]
             PROVE  p \in 0 .. NumPages[z] - 1 /\ L.next[p] = p /\ L.prev[p] = p
  OBVIOUS
<1> DEFINE N == NumPages[z]
           M == MaxOrder[z]
           B == Both(M, Free(z, L), U)
<1>1. N \in Nat /\ M \in Nat /\ Nodes(z) = 0 .. N + M
  BY ZoneTypes
<1>2. TypedLists(z, L)
  BY ZenonT(30) DEF ListsOK
<1>3. p \in 0 .. N - 1
  BY DEF Buddies, Blocks
<1>4. Tiled(N, M, B) /\ p \in B[o]
  BY ZenonT(30) DEF Buddies, Both
<1>5. p \in p .. p + Pow2[o] - 1
  <2>1. Pow2[o] \in Nat /\ Pow2[o] > 0
    BY <1>1, Pow2Step
  <2>2. QED
    BY <1>1, <1>3, <2>1
<1>6. ASSUME NEW r \in 0 .. M, p \in FreeAt(z, L, r) PROVE FALSE
  <2>1. p \in Free(z, L)[r] /\ p \in B[r]
    BY <1>6 DEF Free, Both
  <2>2. r = o
    BY <1>1, <1>4, <1>5, <2>1, OneBlock
  <2>3. QED
    BY <2>1, <2>2 DEF Buddies
<1>7. L.next[p] \in 0 .. N + M
  <2>1. L.next \in [Nodes(z) -> Nodes(z)]
    BY <1>2 DEF TypedLists
  <2>2. p \in 0 .. N + M
    BY <1>1, <1>3
  <2>3. QED
    BY <1>1, <2>1, <2>2, ZenonT(30)
<1>8. L.next[p] = p
  BY <1>3, <1>6, <1>7, NotFree, ZenonT(30)
<1>9. QED
  BY <1>3, <1>8, ZenonT(30) DEF ListsOK
=============================================================================
