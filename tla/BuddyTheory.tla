---------------------------- MODULE BuddyTheory -----------------------------
(***************************************************************************)
(* What the proofs about the page allocator rest on: powers of two; how    *)
(* free blocks and blocks in use tile a zone, and what splitting a block,  *)
(* merging two buddies, giving out a block and taking it back do to the    *)
(* tiling and to the bits.                                                 *)
(***************************************************************************)
EXTENDS PageAlloc, WellFoundedInduction, TLAPS

USE SMTT(30), Z3T(30), SMTT(30), ZenonT(30)

(* Induction over the numbers up to n, stated about sets of numbers.       *)
LEMMA Least ==
  ASSUME NEW T \in SUBSET Nat, T # {}
  PROVE  \E i \in T : \A j \in T : i <= j
<1> DEFINE R == OpToRel(<, Nat)
<1>1. \E i \in T : \A j \in T : <<j, i>> \notin R
  BY NatLessThanWellFounded, WFMin, ZenonT(30)
<1>2. R = {s \in Nat \X Nat : s[1] < s[2]}
  BY ZenonT(30) DEF OpToRel
<1> HIDE DEF R
<1>3. \A i, j \in Nat : <<j, i>> \notin R => i <= j
  BY <1>2
<1>4. PICK i \in T : \A j \in T : <<j, i>> \notin R
  BY <1>1
<1>5. \A j \in T : i <= j
  BY <1>3, <1>4, ZenonT(30)
<1>6. QED
  BY <1>5

(* A set that has 0 and with each number below n the next one has all      *)
(* numbers up to n.                                                        *)
LEMMA Up ==
  ASSUME NEW n \in Nat, NEW S, 0 \in S, \A k \in 0 .. n - 1 : k \in S => k + 1 \in S
  PROVE  0 .. n \subseteq S
<1> DEFINE T == (1 .. n) \ S
<1> SUFFICES ASSUME T # {} PROVE FALSE
  OBVIOUS
<1>1. PICK i \in T : \A j \in T : i <= j
  <2>1. T \in SUBSET Nat
    OBVIOUS
  <2> HIDE DEF T
  <2>2. QED
    BY <2>1, Least
<1>2. i - 1 \in 0 .. n - 1 /\ i - 1 \in S
  BY <1>1
<1>3. QED
  BY <1>1, <1>2

(* The same downwards.                                                     *)
LEMMA Down ==
  ASSUME NEW n \in Nat, NEW S, n \in S, \A k \in 0 .. n - 1 : k + 1 \in S => k \in S
  PROVE  0 .. n \subseteq S
<1> DEFINE T == {k \in 0 .. n : n - k \in S}
<1>1. 0 \in T
  OBVIOUS
<1>2. ASSUME NEW k \in 0 .. n - 1, k \in T PROVE k + 1 \in T
  <2>1. n - (k + 1) \in 0 .. n - 1 /\ (n - (k + 1)) + 1 = n - k
    OBVIOUS
  <2>2. QED
    BY <1>2, <2>1
<1>3. 0 .. n \subseteq T
  <2> HIDE DEF T
  <2>1. QED
    BY <1>1, <1>2, Up
<1>4. ASSUME NEW k \in 0 .. n PROVE k \in S
  <2>1. n - k \in T /\ n - (n - k) = k
    BY <1>3
  <2>2. QED
    BY <2>1
<1>5. QED
  BY <1>4

-----------------------------------------------------------------------------
(* Blocks by their orders: B[o] is the set of the first pages of blocks of *)
(* 2^o pages, in a zone of n pages and max_order m.                        *)
Blocks(n, m) == [0 .. m -> SUBSET (0 .. n - 1)]

(* The blocks B are aligned, apart, and together the whole zone.           *)
Tiled(n, m, B) ==
  /\ B \in Blocks(n, m)
  /\ \A o \in 0 .. m : \A p \in B[o] : p % Pow2[o] = 0 /\ p + Pow2[o] <= n
  /\ \A o, r \in 0 .. m : \A p \in B[o], q \in B[r] :
       (p = q /\ o = r) \/ p + Pow2[o] <= q \/ q + Pow2[r] <= p
  /\ \A x \in 0 .. n - 1 : \E o \in 0 .. m : \E p \in B[o] : p <= x /\ x < p + Pow2[o]

(* A bit below max_order is 1 when exactly one of its two buddies is in F, *)
(* and only where st is 1 both may be.                                     *)
BitsOf(n, m, F, bits, st) ==
  \A o \in 0 .. m - 1 : \A i \in 0 .. n - 1 :
    LET left == i * Pow2[o + 1]
        right == left + Pow2[o]
    IN  /\ <<o, i>> \notin st => ~(left \in F[o] /\ right \in F[o])
        /\ <<o, i>> \in bits <=> ~(left \in F[o] <=> right \in F[o])

(* The free blocks F and the blocks in use U tile the zone, and the bits   *)
(* are those of F.  The bits are what has changed since boot, when st was  *)
(* the set of bits that were 1.                                            *)
Buddies(n, m, F, U, bits, st) ==
  /\ F \in Blocks(n, m) /\ U \in Blocks(n, m)
  /\ \A o \in 0 .. m : F[o] \cap U[o] = {}
  /\ Tiled(n, m, [o \in 0 .. m |-> F[o] \cup U[o]])
  /\ BitsOf(n, m, F, bits, st)

(* Pow2 is the function its recursive definition says, on all of Nat.      *)
PowTo(n, g) == g = [i \in 0 .. n |-> IF i = 0 THEN 1 ELSE 2 * g[i - 1]]

(* The powers of two up to n exist as a function ...                       *)
LEMMA PowToExists == \A n \in Nat : \E g : PowTo(n, g)
<1> SUFFICES ASSUME NEW n \in Nat PROVE \E g : PowTo(n, g)
  OBVIOUS
<1> DEFINE S == {k \in 0 .. n : \E g : PowTo(k, g)}
<1>1. 0 \in S
  <2>1. PowTo(0, [i \in 0 .. 0 |-> 1])
    BY DEF PowTo
  <2>2. QED
    BY <2>1
<1>2. ASSUME NEW k \in 0 .. n - 1, k \in S PROVE k + 1 \in S
  <2>1. PICK g : PowTo(k, g)
    BY <1>2
  <2> DEFINE h == [i \in 0 .. k + 1 |-> IF i = 0 THEN 1 ELSE 2 * g[i - 1]]
  <2>2. \A i \in 0 .. k : h[i] = g[i]
    BY <2>1 DEF PowTo
  <2>3. h = [i \in 0 .. k + 1 |-> IF i = 0 THEN 1 ELSE 2 * h[i - 1]]
    <3>1. \A i \in 0 .. k + 1 : i # 0 => h[i - 1] = g[i - 1]
      <4>1. \A i \in 0 .. k + 1 : i # 0 => i - 1 \in 0 .. k
        OBVIOUS
      <4> HIDE DEF h
      <4>2. QED
        BY <2>2, <4>1
    <3>2. QED
      BY <3>1
  <2>4. PowTo(k + 1, h)
    BY <2>3, ZenonT(30) DEF PowTo
  <2>5. QED
    BY <2>4
<1>3. 0 .. n \subseteq S
  <2> HIDE DEF S
  <2>1. QED
    BY <1>1, <1>2, Up
<1>4. QED
  BY <1>3

(* ... and two such functions agree where both are defined.                *)
LEMMA PowToUnique ==
  ASSUME NEW n \in Nat, NEW m \in Nat, m <= n, NEW g, NEW h, PowTo(m, g), PowTo(n, h)
  PROVE  g[m] = h[m]
<1> DEFINE S == {k \in 0 .. m : g[k] = h[k]}
<1>1. 0 \in S
  BY DEF PowTo
<1>2. ASSUME NEW k \in 0 .. m - 1, k \in S PROVE k + 1 \in S
  BY <1>2 DEF PowTo
<1>3. 0 .. m \subseteq S
  <2> HIDE DEF S
  <2>1. QED
    BY <1>1, <1>2, Up
<1>4. QED
  BY <1>3

(* Pow2 is what its recursive definition says: 1 << order.                 *)
LEMMA Pow2Def == Pow2 = [n \in Nat |-> IF n = 0 THEN 1 ELSE 2 * Pow2[n - 1]]
<1> DEFINE G(n) == CHOOSE g : PowTo(n, g)
           f == [n \in Nat |-> G(n)[n]]
<1>1. \A n \in Nat : PowTo(n, G(n))
  BY PowToExists, ZenonT(30)
<1> HIDE DEF G
<1>2. ASSUME NEW n \in Nat PROVE f[n] = IF n = 0 THEN 1 ELSE 2 * f[n - 1]
  <2>1. G(n)[n] = IF n = 0 THEN 1 ELSE 2 * G(n)[n - 1]
    BY <1>1 DEF PowTo
  <2>2. n # 0 => G(n - 1)[n - 1] = G(n)[n - 1]
    <3>1. SUFFICES ASSUME n # 0 PROVE G(n - 1)[n - 1] = G(n)[n - 1]
      OBVIOUS
    <3>2. n - 1 \in Nat /\ n - 1 <= n
      BY <3>1
    <3>3. PowTo(n - 1, G(n - 1)) /\ PowTo(n, G(n))
      BY <1>1, <3>2
    <3>4. QED
      BY <3>2, <3>3, PowToUnique
  <2>3. QED
    BY <2>1, <2>2
<1>3. f = [n \in Nat |-> IF n = 0 THEN 1 ELSE 2 * f[n - 1]]
  BY <1>2
<1>4. \E g : g = [n \in Nat |-> IF n = 0 THEN 1 ELSE 2 * g[n - 1]]
  <2> HIDE DEF f
  <2>1. QED
    BY <1>3
<1>5. QED
  BY <1>4 DEF Pow2

(* Powers of two are positive and double from one order to the next.       *)
LEMMA Pow2Step ==
  /\ Pow2[0] = 1
  /\ \A n \in Nat : Pow2[n] \in Nat /\ Pow2[n] > 0 /\ Pow2[n + 1] = 2 * Pow2[n]
<1>1. \A n \in Nat : Pow2[n] = IF n = 0 THEN 1 ELSE 2 * Pow2[n - 1]
  BY Pow2Def
<1>2. ASSUME NEW n \in Nat PROVE Pow2[n] \in Nat /\ Pow2[n] > 0
  <2> DEFINE S == {k \in 0 .. n : Pow2[k] \in Nat /\ Pow2[k] > 0}
  <2>1. 0 \in S
    BY <1>1
  <2>2. ASSUME NEW k \in 0 .. n - 1, k \in S PROVE k + 1 \in S
    BY <1>1, <2>2
  <2>3. 0 .. n \subseteq S
    <3> HIDE DEF S
    <3>1. QED
      BY <2>1, <2>2, Up
  <2>4. QED
    BY <2>3
<1>3. \A n \in Nat : Pow2[n + 1] = 2 * Pow2[n]
  BY <1>1
<1>4. QED
  BY <1>1, <1>2, <1>3

(* Powers of two multiply as orders add.                                   *)
LEMMA Pow2Sum == \A a, b \in Nat : Pow2[a + b] = Pow2[a] * Pow2[b]
<1> SUFFICES ASSUME NEW a \in Nat, NEW b \in Nat PROVE Pow2[a + b] = Pow2[a] * Pow2[b]
  OBVIOUS
<1> DEFINE S == {k \in 0 .. b : Pow2[a + k] = Pow2[a] * Pow2[k]}
<1>1. 0 \in S
  BY Pow2Step
<1>2. ASSUME NEW k \in 0 .. b - 1, k \in S PROVE k + 1 \in S
  <2>1. Pow2[a + (k + 1)] = 2 * Pow2[a + k] /\ Pow2[k + 1] = 2 * Pow2[k]
    <3>1. a + k \in Nat /\ a + (k + 1) = (a + k) + 1 /\ k \in Nat
      OBVIOUS
    <3>2. QED
      BY <3>1, Pow2Step
  <2>2. Pow2[a] \in Nat /\ Pow2[k] \in Nat
    BY Pow2Step
  <2>3. 2 * (Pow2[a] * Pow2[k]) = Pow2[a] * (2 * Pow2[k])
    BY <2>2
  <2>4. QED
    BY <1>2, <2>1, <2>3
<1>3. 0 .. b \subseteq S
  <2> HIDE DEF S
  <2>1. QED
    BY <1>1, <1>2, Up
<1>4. QED
  BY <1>3

(* Alignment and pairs of buddies, d being the size of a block.            *)
LEMMA Multiple ==
  ASSUME NEW d \in Nat, d > 0, NEW p \in Nat
  PROVE  p % d = 0 <=> \E k \in Nat : p = k * d
<1>1. ASSUME p % d = 0 PROVE \E k \in Nat : p = k * d
  <2>1. p = d * (p \div d) + (p % d) /\ p \div d \in Nat
    OBVIOUS
  <2>2. p = (p \div d) * d
    BY <1>1, <2>1
  <2>3. QED
    BY <2>1, <2>2
<1>2. ASSUME NEW k \in Nat, p = k * d PROVE p % d = 0
  BY <1>2
<1>3. QED
  BY <1>1, <1>2, ZenonT(30)

(* A quotient is at most the number divided.                               *)
LEMMA DivAtMost ==
  ASSUME NEW d \in Nat, d > 0, NEW p \in Nat
  PROVE  p \div d \in 0 .. p
<1> DEFINE k == p \div d
<1>1. k \in Nat /\ p = d * k + (p % d) /\ p % d \in Nat
  OBVIOUS
<1> HIDE DEF k
<1>2. k <= d * k
  BY <1>1
<1>3. k <= p
  BY <1>1, <1>2
<1>4. QED
  BY <1>1, <1>3 DEF k

(* A block is one half of one pair of buddies only.                        *)
LEMMA PairUnique ==
  ASSUME NEW d \in Nat, d > 0, NEW i \in Nat, NEW j \in Nat, NEW a \in {0, d}, NEW b \in {0, d},
         i * (2 * d) + a = j * (2 * d) + b
  PROVE  i = j /\ a = b
<1>1. (2 * i) * d = i * (2 * d) /\ (2 * j) * d = j * (2 * d)
  OBVIOUS
<1>2. ASSUME NEW u \in Nat, NEW v \in Nat, u < v PROVE u * d + d <= v * d
  BY <1>2
<1>3. ASSUME i < j PROVE FALSE
  <2>1. (2 * i + 1) * d + d <= (2 * j) * d
    <3>1. 2 * i + 1 \in Nat /\ 2 * j \in Nat /\ 2 * i + 1 < 2 * j
      BY <1>3
    <3>2. QED
      BY <1>2, <3>1
  <2>2. (2 * i + 1) * d = (2 * i) * d + d
    OBVIOUS
  <2>3. QED
    BY <1>1, <2>1, <2>2
<1>4. ASSUME j < i PROVE FALSE
  <2>1. (2 * j + 1) * d + d <= (2 * i) * d
    <3>1. 2 * j + 1 \in Nat /\ 2 * i \in Nat /\ 2 * j + 1 < 2 * i
      BY <1>4
    <3>2. QED
      BY <1>2, <3>1
  <2>2. (2 * j + 1) * d = (2 * j) * d + d
    OBVIOUS
  <2>3. QED
    BY <1>1, <2>1, <2>2
<1>5. QED
  BY <1>3, <1>4

(* The pair of a block, and the two blocks of a pair.                      *)
LEMMA PairOf ==
  ASSUME NEW d \in Nat, d > 0, NEW p \in Nat, p % d = 0
  PROVE  /\ p \div (2 * d) \in 0 .. p
         /\ \E a \in {0, d} : p = (p \div (2 * d)) * (2 * d) + a
<1> DEFINE i == p \div (2 * d)
           r == p % (2 * d)
<1>1. i \in Nat /\ r \in 0 .. (2 * d) - 1 /\ p = (2 * d) * i + r
  OBVIOUS
<1>2. PICK k \in Nat : p = k * d
  BY Multiple
<1> HIDE DEF i, r
<1>3. r = (k - 2 * i) * d
  BY <1>1, <1>2
<1>4. k - 2 * i \in {0, 1}
  <2>1. ASSUME k - 2 * i < 0 PROVE FALSE
    BY <1>1, <1>3, <2>1
  <2>2. ASSUME k - 2 * i > 1 PROVE FALSE
    <3>1. (k - 2 * i) * d >= 2 * d
      BY <1>1, <2>2
    <3>2. QED
      BY <1>1, <1>3, <3>1
  <2>3. QED
    BY <1>1, <2>1, <2>2
<1>5. r \in {0, d}
  BY <1>3, <1>4
<1>6. i <= p
  <2>1. i <= (2 * d) * i
    BY <1>1
  <2>2. QED
    BY <1>1, <2>1
<1>7. p = i * (2 * d) + r
  BY <1>1
<1>8. QED
  BY <1>1, <1>5, <1>6, <1>7 DEF i

(* Both halves of an aligned block are aligned.                            *)
LEMMA HalvesAligned ==
  ASSUME NEW d \in Nat, d > 0, NEW p \in Nat, p % (2 * d) = 0
  PROVE  /\ p % d = 0 /\ (p + d) % d = 0
         /\ p \div (2 * d) = (p + d) \div (2 * d)
<1>1. PICK k \in Nat : p = k * (2 * d)
  BY Multiple
<1>2. p = (2 * k) * d /\ p + d = (2 * k + 1) * d
  BY <1>1
<1>3. 2 * k \in Nat /\ 2 * k + 1 \in Nat /\ p + d \in Nat
  OBVIOUS
<1>4. p % d = 0 /\ (p + d) % d = 0
  BY <1>2, <1>3, Multiple
<1>5. p \div (2 * d) = k /\ (p + d) \div (2 * d) = k
  BY <1>1
<1>6. QED
  BY <1>4, <1>5

(* Splitting a block into its halves, and merging two buddies.             *)
SplitAt(B, o, p) == [B EXCEPT ![o + 1] = @ \ {p}, ![o] = @ \cup {p, p + Pow2[o]}]
MergeAt(B, o, p) == [B EXCEPT ![o] = @ \ {p, p + Pow2[o]}, ![o + 1] = @ \cup {p}]

(* Splitting a block of a tiled zone leaves it tiled ...                   *)
LEMMA SplitTiled ==
  ASSUME NEW n \in Nat, NEW m \in Nat, NEW B, Tiled(n, m, B), NEW o \in 0 .. m - 1, NEW p \in B[o + 1]
  PROVE  Tiled(n, m, SplitAt(B, o, p))
<1> DEFINE C == SplitAt(B, o, p)
           d == Pow2[o]
<1>1. B \in Blocks(n, m) /\ o \in 0 .. m /\ o + 1 \in 0 .. m
  BY DEF Tiled
<1>2. d \in Nat /\ d > 0 /\ Pow2[o + 1] = 2 * d /\ \A r \in 0 .. m : Pow2[r] \in Nat /\ Pow2[r] > 0
  BY Pow2Step
<1>3. p \in 0 .. n - 1 /\ p % (2 * d) = 0 /\ p + 2 * d <= n
  BY <1>1, <1>2, ZenonT(30) DEF Tiled, Blocks
<1>4. p % d = 0 /\ (p + d) % d = 0 /\ p + d \in 0 .. n - 1
  <2>1. p \in Nat /\ p + d \in 0 .. n - 1
    BY <1>2, <1>3
  <2> HIDE DEF d
  <2>2. QED
    BY <1>2, <1>3, <2>1, HalvesAligned, ZenonT(30)
<1>5. C \in Blocks(n, m)
  BY <1>1, <1>3, <1>4 DEF Blocks, SplitAt
<1>6. \A r \in 0 .. m : \A q : q \in C[r] <=>
        (q \in B[r] /\ ~(r = o + 1 /\ q = p)) \/ (r = o /\ q \in {p, p + d})
  BY <1>1 DEF Blocks, SplitAt
<1> HIDE DEF C, d
<1>7. \A r \in 0 .. m : \A q \in C[r] : q % Pow2[r] = 0 /\ q + Pow2[r] <= n
  <2>1. \A r \in 0 .. m : \A q \in B[r] : q % Pow2[r] = 0 /\ q + Pow2[r] <= n
    BY DEF Tiled
  <2>2. Pow2[o] = d
    BY DEF d
  <2>3. QED
    BY <1>2, <1>3, <1>4, <1>6, <2>1, <2>2
<1>8. \A r, s \in 0 .. m : \A q \in C[r], t \in C[s] :
        (q = t /\ r = s) \/ q + Pow2[r] <= t \/ t + Pow2[s] <= q
  <2> SUFFICES ASSUME NEW r \in 0 .. m, NEW s \in 0 .. m, NEW q \in C[r], NEW t \in C[s]
               PROVE  (q = t /\ r = s) \/ q + Pow2[r] <= t \/ t + Pow2[s] <= q
    OBVIOUS
  <2>1. q \in Nat /\ t \in Nat /\ Pow2[o] = d
    BY <1>5 DEF Blocks, d
  <2>2. \A k \in 0 .. m : \A u \in B[k], v \in 0 .. m : \A w \in B[v] :
          (u = w /\ k = v) \/ u + Pow2[k] <= w \/ w + Pow2[v] <= u
    BY DEF Tiled
  <2>3. CASE q \in B[r] /\ ~(r = o + 1 /\ q = p) /\ t \in B[s] /\ ~(s = o + 1 /\ t = p)
    BY <2>2, <2>3
  <2>4. CASE (r = o /\ q \in {p, p + d}) /\ t \in B[s] /\ ~(s = o + 1 /\ t = p)
    <3>1. p + 2 * d <= t \/ t + Pow2[s] <= p
      BY <1>1, <1>2, <2>2, <2>4
    <3>2. QED
      BY <1>2, <1>3, <2>1, <2>4, <3>1
  <2>5. CASE q \in B[r] /\ ~(r = o + 1 /\ q = p) /\ (s = o /\ t \in {p, p + d})
    <3>1. p + 2 * d <= q \/ q + Pow2[r] <= p
      BY <1>1, <1>2, <2>2, <2>5
    <3>2. QED
      BY <1>2, <1>3, <2>1, <2>5, <3>1
  <2>6. CASE (r = o /\ q \in {p, p + d}) /\ (s = o /\ t \in {p, p + d})
    BY <1>2, <1>3, <2>1, <2>6
  <2>7. QED
    BY <1>6, <2>3, <2>4, <2>5, <2>6
<1>9. \A x \in 0 .. n - 1 : \E r \in 0 .. m : \E q \in C[r] : q <= x /\ x < q + Pow2[r]
  <2> SUFFICES ASSUME NEW x \in 0 .. n - 1 PROVE \E r \in 0 .. m : \E q \in C[r] : q <= x /\ x < q + Pow2[r]
    OBVIOUS
  <2>1. PICK r \in 0 .. m : \E q \in B[r] : q <= x /\ x < q + Pow2[r]
    BY DEF Tiled
  <2>2. PICK q \in B[r] : q <= x /\ x < q + Pow2[r]
    BY <2>1
  <2>3. CASE r = o + 1 /\ q = p
    <3>1. p \in C[o] /\ p + d \in C[o] /\ Pow2[o] = d
      BY <1>1, <1>6 DEF d
    <3>2. x < p + d \/ (p + d <= x /\ x < (p + d) + d)
      BY <1>2, <1>3, <2>2, <2>3
    <3>3. QED
      BY <1>1, <2>2, <2>3, <3>1, <3>2
  <2>4. CASE ~(r = o + 1 /\ q = p)
    BY <1>6, <2>2, <2>4
  <2>5. QED
    BY <2>3, <2>4
<1>10. QED
  BY <1>5, <1>7, <1>8, <1>9 DEF Tiled, C

(* ... and so does merging two buddies.                                    *)
LEMMA MergeTiled ==
  ASSUME NEW n \in Nat, NEW m \in Nat, NEW B, Tiled(n, m, B), NEW o \in 0 .. m - 1, NEW p \in B[o],
         p % Pow2[o + 1] = 0, p + Pow2[o] \in B[o]
  PROVE  Tiled(n, m, MergeAt(B, o, p))
<1> DEFINE C == MergeAt(B, o, p)
           d == Pow2[o]
<1>1. B \in Blocks(n, m) /\ o \in 0 .. m /\ o + 1 \in 0 .. m
  BY DEF Tiled
<1>2. d \in Nat /\ d > 0 /\ Pow2[o + 1] = 2 * d /\ \A r \in 0 .. m : Pow2[r] \in Nat /\ Pow2[r] > 0
  BY Pow2Step
<1>3. p \in 0 .. n - 1 /\ p % (2 * d) = 0 /\ p + 2 * d <= n
  <2>1. p \in 0 .. n - 1
    BY <1>1 DEF Blocks
  <2>2. (p + d) + d <= n
    BY <1>1 DEF Tiled
  <2>3. QED
    BY <1>2, <2>1, <2>2
<1>4. C \in Blocks(n, m)
  BY <1>1, <1>3 DEF Blocks, MergeAt
<1>5. \A r \in 0 .. m : \A q : q \in C[r] <=>
        (q \in B[r] /\ ~(r = o /\ q \in {p, p + d})) \/ (r = o + 1 /\ q = p)
  BY <1>1 DEF Blocks, MergeAt
<1>6. Pow2[o] = d /\ p \in B[o] /\ p + d \in B[o]
  OBVIOUS
<1> HIDE DEF C, d
<1>7. \A r \in 0 .. m : \A q \in C[r] : q % Pow2[r] = 0 /\ q + Pow2[r] <= n
  <2>1. \A r \in 0 .. m : \A q \in B[r] : q % Pow2[r] = 0 /\ q + Pow2[r] <= n
    BY DEF Tiled
  <2>2. QED
    BY <1>2, <1>3, <1>5, <2>1, ZenonT(30)
<1>8. \A r, s \in 0 .. m : \A q \in C[r], t \in C[s] :
        (q = t /\ r = s) \/ q + Pow2[r] <= t \/ t + Pow2[s] <= q
  <2> SUFFICES ASSUME NEW r \in 0 .. m, NEW s \in 0 .. m, NEW q \in C[r], NEW t \in C[s]
               PROVE  (q = t /\ r = s) \/ q + Pow2[r] <= t \/ t + Pow2[s] <= q
    OBVIOUS
  <2>1. q \in Nat /\ t \in Nat
    BY <1>4 DEF Blocks
  <2>2. \A k \in 0 .. m : \A u \in B[k], v \in 0 .. m : \A w \in B[v] :
          (u = w /\ k = v) \/ u + Pow2[k] <= w \/ w + Pow2[v] <= u
    BY DEF Tiled
  <2>3. ASSUME NEW k \in 0 .. m, NEW u \in B[k], u \in Nat, ~(k = o /\ u \in {p, p + d})
        PROVE  u + Pow2[k] <= p \/ p + 2 * d <= u
    <3>1. u + Pow2[k] <= p \/ p + d <= u
      BY <1>1, <1>6, <2>2, <2>3
    <3>2. u + Pow2[k] <= p + d \/ (p + d) + d <= u
      BY <1>1, <1>6, <2>2, <2>3
    <3>3. QED
      BY <1>2, <1>3, <2>3, <3>1, <3>2
  <2>4. CASE r = o + 1 /\ q = p
    BY <1>2, <1>5, <2>1, <2>3, <2>4
  <2>5. CASE s = o + 1 /\ t = p
    BY <1>2, <1>5, <2>1, <2>3, <2>5
  <2>6. CASE q \in B[r] /\ t \in B[s]
    BY <2>2, <2>6
  <2>7. QED
    BY <1>5, <2>4, <2>5, <2>6
<1>9. \A x \in 0 .. n - 1 : \E r \in 0 .. m : \E q \in C[r] : q <= x /\ x < q + Pow2[r]
  <2> SUFFICES ASSUME NEW x \in 0 .. n - 1 PROVE \E r \in 0 .. m : \E q \in C[r] : q <= x /\ x < q + Pow2[r]
    OBVIOUS
  <2>1. PICK r \in 0 .. m : \E q \in B[r] : q <= x /\ x < q + Pow2[r]
    BY DEF Tiled
  <2>2. PICK q \in B[r] : q <= x /\ x < q + Pow2[r]
    BY <2>1
  <2>3. CASE r = o /\ q \in {p, p + d}
    <3>1. p \in C[o + 1]
      BY <1>1, <1>5
    <3>2. p <= x /\ x < p + Pow2[o + 1]
      BY <1>2, <1>3, <1>6, <2>2, <2>3
    <3>3. QED
      BY <1>1, <3>1, <3>2
  <2>4. CASE ~(r = o /\ q \in {p, p + d})
    BY <1>5, <2>2, <2>4
  <2>5. QED
    BY <2>3, <2>4
<1>10. QED
  BY <1>4, <1>7, <1>8, <1>9 DEF Tiled, C

(* The bits in which m differs from what they were at boot.                *)
Flips(m, st) == (m \ st) \cup (st \ m)

(* Toggling a bit flips it.                                                *)
LEMMA ToggleFlips ==
  ASSUME NEW m, NEW st, NEW p, NEW o
  PROVE  /\ Flips(Toggle(m, p, o), st) = Toggle(Flips(m, st), p, o)
         /\ Bit(p, o) \in Flips(m, st) <=> ~(Bit(p, o) \in m <=> Bit(p, o) \in st)
<1> DEFINE b == Bit(p, o)
<1>1. /\ Toggle(m, p, o) = IF b \in m THEN m \ {b} ELSE m \cup {b}
      /\ Toggle(Flips(m, st), p, o)
           = IF b \in Flips(m, st) THEN Flips(m, st) \ {b} ELSE Flips(m, st) \cup {b}
  BY DEF Toggle
<1> HIDE DEF b
<1>2. Flips(Toggle(m, p, o), st) = Toggle(Flips(m, st), p, o)
  BY <1>1 DEF Flips
<1>3. b \in Flips(m, st) <=> ~(b \in m <=> b \in st)
  BY DEF Flips
<1>4. QED
  BY <1>2, <1>3 DEF b

(* When a block of F below max_order leaves F, or joins it while its bit   *)
(* has not changed or was 1 at boot, toggling its bit keeps the bits       *)
(* exact.                                                                  *)
LEMMA TogglePair ==
  ASSUME NEW n \in Nat, NEW m \in Nat, NEW F \in Blocks(n, m), NEW G \in Blocks(n, m), NEW bits, NEW st,
         BitsOf(n, m, F, bits, st), NEW o \in 0 .. m - 1, NEW p \in 0 .. n - 1, p % Pow2[o] = 0,
         \A r \in 0 .. m : r # o => G[r] = F[r],
         \/ p \in F[o] /\ G[o] = F[o] \ {p}
         \/ p \notin F[o] /\ G[o] = F[o] \cup {p} /\ (Bit(p, o) \notin bits \/ Bit(p, o) \in st)
  PROVE  BitsOf(n, m, G, Toggle(bits, p, o), st)
<1> DEFINE d == Pow2[o]
           i == p \div Pow2[o + 1]
           new == Toggle(bits, p, o)
<1>1. d \in Nat /\ d > 0 /\ Pow2[o + 1] = 2 * d /\ o \in 0 .. m
  BY Pow2Step
<1>2. i \in 0 .. n - 1 /\ \E a \in {0, d} : p = i * (2 * d) + a
  <2>1. p \div (2 * d) \in 0 .. p /\ \E a \in {0, d} : p = (p \div (2 * d)) * (2 * d) + a
    BY <1>1, PairOf
  <2>2. QED
    BY <1>1, <2>1
<1>3. Bit(p, o) = <<o, i>>
  BY DEF Bit
<1>4. /\ \A r, j : <<r, j>> # <<o, i>> => (<<r, j>> \in new <=> <<r, j>> \in bits)
      /\ <<o, i>> \in new <=> <<o, i>> \notin bits
  BY <1>3 DEF Toggle
<1>5. PICK a \in {0, d} : p = i * (2 * d) + a
  BY <1>2
<1> HIDE DEF i, d, new
<1> SUFFICES ASSUME NEW r \in 0 .. m - 1, NEW j \in 0 .. n - 1
             PROVE  LET left == j * Pow2[r + 1]
                        right == left + Pow2[r]
                    IN  /\ (<<r, j>> \notin st => ~(left \in G[r] /\ right \in G[r]))
                        /\ <<r, j>> \in new <=> ~(left \in G[r] <=> right \in G[r])
  BY ZenonT(30) DEF BitsOf, new
<1> DEFINE left == j * Pow2[r + 1]
           right == left + Pow2[r]
<1>6. /\ (<<r, j>> \notin st => ~(left \in F[r] /\ right \in F[r]))
      /\ <<r, j>> \in bits <=> ~(left \in F[r] <=> right \in F[r])
  BY DEF BitsOf
<1>7. CASE r # o
  BY <1>4, <1>6, <1>7
<1>8. CASE r = o /\ j # i
  <2>1. left # p /\ right # p
    <3>1. left = j * (2 * d) + 0 /\ right = j * (2 * d) + d
      BY <1>1, <1>8 DEF d
    <3>2. i \in Nat /\ j \in Nat /\ 0 \in {0, d} /\ d \in {0, d}
      BY <1>2
    <3> HIDE DEF left, right
    <3>3. QED
      BY <1>1, <1>5, <1>8, <3>1, <3>2, PairUnique
  <2>2. <<r, j>> # <<o, i>>
    BY <1>8
  <2> HIDE DEF left, right
  <2>3. QED
    BY <1>4, <1>6, <1>8, <2>1, <2>2 DEF left, right
<1>9. CASE r = o /\ j = i
  <2>1. left = i * (2 * d) /\ right = i * (2 * d) + d /\ p \in {left, right} /\ left # right
    <3>1. left = i * (2 * d) /\ right = i * (2 * d) + d
      BY <1>1, <1>9 DEF d
    <3>2. QED
      BY <1>1, <1>2, <1>5, <3>1
  <2> HIDE DEF left, right
  <2>2. /\ <<o, i>> \notin st => ~(left \in F[o] /\ right \in F[o])
        /\ <<o, i>> \in bits <=> ~(left \in F[o] <=> right \in F[o])
    BY <1>6, <1>9 DEF left, right
  <2>3. CASE p \in F[o] /\ G[o] = F[o] \ {p}
    <3>1. /\ <<o, i>> \notin st => ~(left \in G[o] /\ right \in G[o])
          /\ <<o, i>> \in new <=> ~(left \in G[o] <=> right \in G[o])
      BY <1>4, <2>1, <2>2, <2>3
    <3>2. QED
      BY <1>9, <3>1 DEF left, right
  <2>4. CASE p \notin F[o] /\ G[o] = F[o] \cup {p} /\ (Bit(p, o) \notin bits \/ Bit(p, o) \in st)
    <3>1. /\ <<o, i>> \notin st => ~(left \in G[o] /\ right \in G[o])
          /\ <<o, i>> \in new <=> ~(left \in G[o] <=> right \in G[o])
      BY <1>3, <1>4, <2>1, <2>2, <2>4
    <3>2. QED
      BY <1>9, <3>1 DEF left, right
  <2>5. QED
    BY <2>3, <2>4
<1>10. QED
  BY <1>7, <1>8, <1>9

(* A page of a block is the first page of no other block.                  *)
LEMMA OneBlock ==
  ASSUME NEW n \in Nat, NEW m \in Nat, NEW B, Tiled(n, m, B), NEW o \in 0 .. m, NEW p \in B[o],
         NEW x \in p .. p + Pow2[o] - 1, NEW r \in 0 .. m, x \in B[r]
  PROVE  x = p /\ r = o
<1>1. Pow2[o] \in Nat /\ Pow2[r] \in Nat /\ Pow2[r] > 0 /\ p \in Nat
  <2>1. B[o] \in SUBSET (0 .. n - 1)
    BY DEF Tiled, Blocks
  <2>2. QED
    BY <2>1, Pow2Step
<1>2. (p = x /\ o = r) \/ p + Pow2[o] <= x \/ x + Pow2[r] <= p
  BY DEF Tiled
<1>3. QED
  BY <1>1, <1>2

Both(m, F, U) == [o \in 0 .. m |-> F[o] \cup U[o]]

(* __alloc_from_zone takes a block off its list.                           *)
LEMMA TakeBuddies ==
  ASSUME NEW n \in Nat, NEW m \in Nat, NEW F, NEW U, NEW bits, NEW st, Buddies(n, m, F, U, bits, st),
         NEW o \in 0 .. m, NEW p \in F[o]
  PROVE  Buddies(n, m, [F EXCEPT ![o] = @ \ {p}], [U EXCEPT ![o] = @ \cup {p}],
                 IF o = m THEN bits ELSE Toggle(bits, p, o), st)
<1> DEFINE G == [F EXCEPT ![o] = @ \ {p}]
           V == [U EXCEPT ![o] = @ \cup {p}]
<1>1. F \in Blocks(n, m) /\ U \in Blocks(n, m) /\ Tiled(n, m, Both(m, F, U)) /\ BitsOf(n, m, F, bits, st)
  BY DEF Buddies, Both
<1>2. p \in 0 .. n - 1 /\ p % Pow2[o] = 0
  BY <1>1 DEF Blocks, Tiled, Both
<1>3. G \in Blocks(n, m) /\ V \in Blocks(n, m)
  BY <1>1, <1>2 DEF Blocks
<1>4. /\ G[o] = F[o] \ {p} /\ V[o] = U[o] \cup {p}
      /\ \A r \in 0 .. m : r # o => G[r] = F[r] /\ V[r] = U[r]
  BY <1>1 DEF Blocks
<1> HIDE DEF G, V
<1>5. \A r \in 0 .. m : G[r] \cap V[r] = {} /\ G[r] \cup V[r] = F[r] \cup U[r]
  <2> SUFFICES ASSUME NEW r \in 0 .. m PROVE G[r] \cap V[r] = {} /\ G[r] \cup V[r] = F[r] \cup U[r]
    OBVIOUS
  <2>1. F[r] \cap U[r] = {}
    BY DEF Buddies
  <2>2. CASE r = o
    BY <1>4, <2>1, <2>2
  <2>3. CASE r # o
    BY <1>4, <2>1, <2>3
  <2>4. QED
    BY <2>2, <2>3
<1>6. Both(m, G, V) = Both(m, F, U)
  BY <1>5 DEF Both
<1>7. BitsOf(n, m, G, IF o = m THEN bits ELSE Toggle(bits, p, o), st)
  <2>1. CASE o = m
    <3>1. \A r \in 0 .. m - 1 : G[r] = F[r]
      BY <1>4, <2>1
    <3>2. QED
      BY <1>1, <2>1, <3>1, ZenonT(30) DEF BitsOf
  <2>2. CASE o # m
    <3>1. o \in 0 .. m - 1
      BY <2>2
    <3>2. BitsOf(n, m, G, Toggle(bits, p, o), st)
      BY <1>1, <1>2, <1>3, <1>4, <3>1, TogglePair
    <3>3. QED
      BY <2>2, <3>2
  <2>3. QED
    BY <2>1, <2>2
<1>8. QED
  BY <1>1, <1>3, <1>5, <1>6, <1>7, ZenonT(30) DEF Buddies, Both, G, V

(* free_pages puts a block on its list.                                    *)
LEMMA PutBuddies ==
  ASSUME NEW n \in Nat, NEW m \in Nat, NEW F, NEW U, NEW bits, NEW st, Buddies(n, m, F, U, bits, st),
         NEW o \in 0 .. m, NEW p \in U[o], Bit(p, o) \notin bits \/ Bit(p, o) \in st
  PROVE  Buddies(n, m, [F EXCEPT ![o] = @ \cup {p}], [U EXCEPT ![o] = @ \ {p}], Toggle(bits, p, o), st)
<1> DEFINE G == [F EXCEPT ![o] = @ \cup {p}]
           V == [U EXCEPT ![o] = @ \ {p}]
<1>1. F \in Blocks(n, m) /\ U \in Blocks(n, m) /\ Tiled(n, m, Both(m, F, U)) /\ BitsOf(n, m, F, bits, st)
  BY DEF Buddies, Both
<1>2. p \in 0 .. n - 1 /\ p % Pow2[o] = 0
  BY <1>1 DEF Blocks, Tiled, Both
<1>3. G \in Blocks(n, m) /\ V \in Blocks(n, m)
  BY <1>1, <1>2 DEF Blocks
<1>4. /\ G[o] = F[o] \cup {p} /\ V[o] = U[o] \ {p}
      /\ \A r \in 0 .. m : r # o => G[r] = F[r] /\ V[r] = U[r]
  BY <1>1 DEF Blocks
<1> HIDE DEF G, V
<1>5. \A r \in 0 .. m : G[r] \cap V[r] = {} /\ G[r] \cup V[r] = F[r] \cup U[r]
  <2> SUFFICES ASSUME NEW r \in 0 .. m PROVE G[r] \cap V[r] = {} /\ G[r] \cup V[r] = F[r] \cup U[r]
    OBVIOUS
  <2>1. F[r] \cap U[r] = {}
    BY DEF Buddies
  <2>2. CASE r = o
    BY <1>4, <2>1, <2>2
  <2>3. CASE r # o
    BY <1>4, <2>1, <2>3
  <2>4. QED
    BY <2>2, <2>3
<1>6. Both(m, G, V) = Both(m, F, U)
  BY <1>5 DEF Both
<1>7. BitsOf(n, m, G, Toggle(bits, p, o), st)
  <2>1. CASE o = m
    <3>1. \A r \in 0 .. m - 1 : \A i : <<r, i>> \in Toggle(bits, p, o) <=> <<r, i>> \in bits
      BY <2>1 DEF Toggle, Bit
    <3>2. \A r \in 0 .. m - 1 : G[r] = F[r]
      BY <1>4, <2>1
    <3>3. QED
      BY <1>1, <3>1, <3>2, ZenonT(30) DEF BitsOf
  <2>2. CASE o # m
    <3>1. o \in 0 .. m - 1 /\ p \notin F[o]
      BY <2>2 DEF Buddies
    <3>2. QED
      BY <1>1, <1>2, <1>3, <1>4, <3>1, TogglePair
  <2>3. QED
    BY <2>1, <2>2
<1>8. QED
  BY <1>1, <1>3, <1>5, <1>6, <1>7, ZenonT(30) DEF Buddies, Both, G, V

(* __alloc_from_zone keeps the first half of a block and puts the second   *)
(* on the list of its order.                                               *)
LEMMA SplitBuddies ==
  ASSUME NEW n \in Nat, NEW m \in Nat, NEW F, NEW U, NEW bits, NEW st, Buddies(n, m, F, U, bits, st),
         NEW o \in 0 .. m - 1, NEW p \in U[o + 1]
  PROVE  /\ p + Pow2[o] \in 0 .. n - 1
         /\ \A r \in 0 .. m : p + Pow2[o] \notin F[r]
         /\ Buddies(n, m, [F EXCEPT ![o] = @ \cup {p + Pow2[o]}],
                    [U EXCEPT ![o + 1] = @ \ {p}, ![o] = @ \cup {p}], Toggle(bits, p, o), st)
<1> DEFINE d == Pow2[o]
           q == p + d
           B == Both(m, F, U)
           G == [F EXCEPT ![o] = @ \cup {q}]
           V == [U EXCEPT ![o + 1] = @ \ {p}, ![o] = @ \cup {p}]
<1>1. F \in Blocks(n, m) /\ U \in Blocks(n, m) /\ Tiled(n, m, B) /\ BitsOf(n, m, F, bits, st)
  BY DEF Buddies, Both
<1>2. o \in 0 .. m /\ o + 1 \in 0 .. m /\ d \in Nat /\ d > 0 /\ Pow2[o + 1] = 2 * d
  BY Pow2Step
<1>3. \A r \in 0 .. m : B[r] = F[r] \cup U[r]
  BY DEF Both
<1> HIDE DEF d, B
<1>4. p \in 0 .. n - 1 /\ p % (2 * d) = 0 /\ p + 2 * d <= n /\ p \in B[o + 1]
  <2>1. p \in B[o + 1] /\ B[o + 1] \in SUBSET (0 .. n - 1)
    BY <1>1, <1>2, <1>3 DEF Blocks, Tiled
  <2>2. p % Pow2[o + 1] = 0 /\ p + Pow2[o + 1] <= n
    BY <1>1, <1>2, <2>1 DEF Tiled
  <2>3. QED
    BY <1>2, <2>1, <2>2
<1>5. q \in 0 .. n - 1 /\ p \in Nat
  BY <1>2, <1>4
<1>6. p % d = 0 /\ q % d = 0 /\ p \div (2 * d) = q \div (2 * d)
  BY <1>2, <1>4, <1>5, HalvesAligned, ZenonT(30)
<1>7. Bit(q, o) = Bit(p, o) /\ Toggle(bits, q, o) = Toggle(bits, p, o)
  BY <1>2, <1>6, ZenonT(30) DEF Bit, Toggle
<1>8. \A r \in 0 .. m : q \notin B[r]
  <2>1. q \in p .. p + Pow2[o + 1] - 1 /\ q # p
    BY <1>2, <1>5
  <2>2. QED
    BY <1>1, <1>2, <1>4, <2>1, OneBlock
<1>9. p \notin B[o]
  <2>1. p \in p .. p + Pow2[o + 1] - 1 /\ o # o + 1
    BY <1>2, <1>5
  <2>2. QED
    BY <1>1, <1>2, <1>4, <2>1, OneBlock, ZenonT(30)
<1>10. Bit(p, o) \notin bits
  <2> DEFINE i == p \div (2 * d)
  <2>1. i \in 0 .. n - 1 /\ p = i * Pow2[o + 1]
    <3>1. PICK k \in Nat : p = k * (2 * d)
      BY <1>2, <1>4, <1>5, Multiple
    <3>2. i = k /\ k <= p
      BY <1>2, <1>5, <3>1
    <3>3. QED
      BY <1>2, <1>4, <3>1, <3>2
  <2>2. <<o, i>> \in bits <=> ~(p \in F[o] <=> q \in F[o])
    BY <1>1, <2>1 DEF BitsOf, d
  <2>3. QED
    BY <1>2, <1>3, <1>8, <1>9, <2>2 DEF Bit
<1>11. G \in Blocks(n, m) /\ V \in Blocks(n, m)
  BY <1>1, <1>4, <1>5 DEF Blocks
<1>12. /\ G[o] = F[o] \cup {q} /\ V[o] = U[o] \cup {p} /\ G[o + 1] = F[o + 1] /\ V[o + 1] = U[o + 1] \ {p}
       /\ \A r \in 0 .. m : r # o => G[r] = F[r]
       /\ \A r \in 0 .. m : r # o /\ r # o + 1 => V[r] = U[r]
  BY <1>1, <1>2 DEF Blocks
<1> HIDE DEF G, V
<1>13. BitsOf(n, m, G, Toggle(bits, p, o), st)
  <2>1. BitsOf(n, m, G, Toggle(bits, q, o), st)
    <3>1. q \notin F[o] /\ Bit(q, o) \notin bits /\ q % Pow2[o] = 0
      BY <1>2, <1>3, <1>6, <1>7, <1>8, <1>10 DEF d
    <3>2. QED
      BY <1>1, <1>5, <1>11, <1>12, <3>1, TogglePair
  <2>2. QED
    BY <1>7, <2>1
<1>14. \A r \in 0 .. m : F[r] \cap U[r] = {}
  BY DEF Buddies
<1>15. p # q /\ o # o + 1
  BY <1>2, <1>5
<1>16. ASSUME NEW r \in 0 .. m PROVE G[r] \cap V[r] = {} /\ G[r] \cup V[r] = SplitAt(B, o, p)[r]
  <2>1. /\ r = o => SplitAt(B, o, p)[r] = B[r] \cup {p, q}
        /\ r = o + 1 => SplitAt(B, o, p)[r] = B[r] \ {p}
        /\ r # o /\ r # o + 1 => SplitAt(B, o, p)[r] = B[r]
    BY <1>1, <1>2, <1>15, ZenonT(30) DEF SplitAt, Tiled, Blocks, d
  <2>2. CASE r = o
    BY <1>3, <1>8, <1>9, <1>12, <1>14, <1>15, <2>1, <2>2
  <2>3. CASE r = o + 1
    <3>1. p \notin F[o + 1]
      BY <1>2, <1>14
    <3>2. QED
      BY <1>3, <1>12, <1>14, <1>15, <2>1, <2>3, <3>1
  <2>4. CASE r # o /\ r # o + 1
    BY <1>3, <1>12, <1>14, <2>1, <2>4
  <2>5. QED
    BY <2>2, <2>3, <2>4
<1>17. Both(m, G, V) = SplitAt(B, o, p)
  <2>1. DOMAIN SplitAt(B, o, p) = 0 .. m /\ SplitAt(B, o, p) = [r \in 0 .. m |-> SplitAt(B, o, p)[r]]
    BY <1>1, ZenonT(30) DEF SplitAt, Tiled, Blocks
  <2>2. QED
    BY <1>16, <2>1 DEF Both
<1>18. Tiled(n, m, SplitAt(B, o, p))
  BY <1>1, <1>4, SplitTiled
<1>19. Buddies(n, m, G, V, Toggle(bits, p, o), st)
  BY <1>11, <1>13, <1>16, <1>17, <1>18, ZenonT(30) DEF Buddies, Both
<1>20. QED
  BY <1>3, <1>5, <1>8, <1>19 DEF G, V, d

(* free_pages finds the bit set: the buddy is free, and the two blocks     *)
(* become one, in use, of the next order.                                  *)
LEMMA MergeBuddies ==
  ASSUME NEW n \in Nat, NEW m \in Nat, NEW F, NEW U, NEW bits, NEW st, Buddies(n, m, F, U, bits, st),
         NEW o \in 0 .. m - 1, NEW p \in U[o], Bit(p, o) \in bits, p \div Pow2[o + 1] = 0
  PROVE  \E q \in F[o] :
           /\ {p, q} = {0, Pow2[o]}
           /\ Buddies(n, m, [F EXCEPT ![o] = @ \ {q}], [U EXCEPT ![o] = @ \ {p}, ![o + 1] = @ \cup {0}],
                      Toggle(bits, p, o), st)
<1> DEFINE d == Pow2[o]
           B == Both(m, F, U)
<1>1. F \in Blocks(n, m) /\ U \in Blocks(n, m) /\ Tiled(n, m, B) /\ BitsOf(n, m, F, bits, st)
  BY DEF Buddies, Both
<1>2. o \in 0 .. m /\ o + 1 \in 0 .. m /\ d \in Nat /\ d > 0 /\ Pow2[o + 1] = 2 * d
  BY Pow2Step
<1>3. \A r \in 0 .. m : B[r] = F[r] \cup U[r]
  BY DEF Both
<1> HIDE DEF d, B
<1>4. p \in 0 .. n - 1 /\ p % d = 0 /\ p \in Nat
  <2>1. p \in B[o] /\ B[o] \in SUBSET (0 .. n - 1)
    BY <1>1, <1>2, <1>3 DEF Tiled, Blocks
  <2>2. p % Pow2[o] = 0
    BY <1>1, <1>2, <2>1 DEF Tiled
  <2>3. QED
    BY <2>1, <2>2 DEF d
<1>5. p \in {0, d}
  <2>1. PICK a \in {0, d} : p = (p \div (2 * d)) * (2 * d) + a
    BY <1>2, <1>4, PairOf
  <2>2. p \div (2 * d) = 0 /\ 0 * (2 * d) = 0
    BY <1>2
  <2>3. p = 0 + a
    BY <2>1, <2>2, ZenonT(30)
  <2>4. QED
    BY <1>2, <2>3
<1> DEFINE q == d - p
<1>6. q \in {0, d} /\ {p, q} = {0, d} /\ q # p /\ q \in Nat
  BY <1>2, <1>5
<1>7. q \in F[o]
  <2>1. <<o, 0>> \in bits
    BY DEF Bit
  <2>2. 0 \in 0 .. n - 1 /\ 0 * Pow2[o + 1] = 0 /\ 0 + Pow2[o] = d
    BY <1>2, <1>4 DEF d
  <2>3. 0 \in F[o] \/ d \in F[o]
    <3>1. LET left == 0 * Pow2[o + 1]
              right == left + Pow2[o]
          IN  <<o, 0>> \in bits <=> ~(left \in F[o] <=> right \in F[o])
      BY <1>1, <2>2 DEF BitsOf
    <3>2. QED
      BY <2>1, <2>2, <3>1
  <2>4. p \notin F[o]
    BY <1>2 DEF Buddies
  <2>5. QED
    BY <1>5, <1>6, <2>3, <2>4
<1>8. q \in 0 .. n - 1 /\ q % Pow2[o] = 0 /\ Bit(q, o) = Bit(p, o) /\ Toggle(bits, q, o) = Toggle(bits, p, o)
  <2>1. q \in 0 .. n - 1
    BY <1>1, <1>2, <1>7 DEF Blocks
  <2>2. q % d = 0
    BY <1>2, <1>6
  <2>3. q \div (2 * d) = 0
    BY <1>2, <1>6
  <2> HIDE DEF q
  <2>4. Bit(q, o) = Bit(p, o)
    BY <1>2, <2>3 DEF Bit
  <2>5. QED
    BY <2>1, <2>2, <2>4 DEF d, Toggle
<1> DEFINE G == [F EXCEPT ![o] = @ \ {q}]
           V == [U EXCEPT ![o] = @ \ {p}, ![o + 1] = @ \cup {0}]
<1> HIDE DEF q
<1>9. G \in Blocks(n, m) /\ V \in Blocks(n, m)
  BY <1>1, <1>4 DEF Blocks
<1>10. o # o + 1
  BY <1>2
<1>11. /\ G[o] = F[o] \ {q} /\ V[o] = U[o] \ {p} /\ V[o + 1] = U[o + 1] \cup {0}
       /\ \A r \in 0 .. m : r # o => G[r] = F[r]
       /\ \A r \in 0 .. m : r # o /\ r # o + 1 => V[r] = U[r]
  BY <1>1, <1>2, <1>10 DEF Blocks
<1> HIDE DEF G, V
<1>12. BitsOf(n, m, G, Toggle(bits, p, o), st)
  <2>1. BitsOf(n, m, G, Toggle(bits, q, o), st)
    BY <1>1, <1>7, <1>8, <1>9, <1>11, TogglePair
  <2>2. QED
    BY <1>8, <2>1
<1>13. \A r \in 0 .. m : F[r] \cap U[r] = {}
  BY DEF Buddies
<1>14. 0 \in B[o] /\ d \in B[o] /\ 0 \notin B[o + 1]
  <2>1. 0 \in B[o] /\ d \in B[o]
    <3>1. p \in B[o] /\ q \in B[o] /\ 0 \in {p, q} /\ d \in {p, q}
      BY <1>2, <1>3, <1>6, <1>7, ZenonT(30)
    <3>2. QED
      BY <3>1
  <2>2. 0 \in 0 .. 0 + Pow2[o] - 1
    BY <1>2 DEF d
  <2>3. QED
    BY <1>1, <1>2, <1>10, <2>1, <2>2, OneBlock
<1>15. ASSUME NEW r \in 0 .. m PROVE G[r] \cap V[r] = {} /\ G[r] \cup V[r] = MergeAt(B, o, 0)[r]
  <2>1. /\ r = o => MergeAt(B, o, 0)[r] = B[r] \ {p, q}
        /\ r = o + 1 => MergeAt(B, o, 0)[r] = B[r] \cup {0}
        /\ r # o /\ r # o + 1 => MergeAt(B, o, 0)[r] = B[r]
    <3>1. 0 + Pow2[o] = d
      BY <1>2 DEF d
    <3>2. B \in Blocks(n, m)
      BY <1>1 DEF Tiled
    <3>3. QED
      BY <1>2, <1>6, <1>10, <3>1, <3>2, ZenonT(30) DEF MergeAt, Blocks
  <2>2. CASE r = o
    <3>1. p \notin F[o] /\ q \notin U[o]
      BY <1>2, <1>7, <1>13
    <3>2. QED
      BY <1>3, <1>11, <1>13, <2>1, <2>2, <3>1
  <2>3. CASE r = o + 1
    BY <1>3, <1>10, <1>11, <1>13, <1>14, <2>1, <2>3
  <2>4. CASE r # o /\ r # o + 1
    BY <1>3, <1>11, <1>13, <2>1, <2>4
  <2>5. QED
    BY <2>2, <2>3, <2>4
<1>16. Both(m, G, V) = MergeAt(B, o, 0)
  <2>1. MergeAt(B, o, 0) = [r \in 0 .. m |-> MergeAt(B, o, 0)[r]]
    BY <1>1, ZenonT(30) DEF MergeAt, Tiled, Blocks
  <2>2. QED
    BY <1>15, <2>1 DEF Both
<1>17. Tiled(n, m, MergeAt(B, o, 0))
  <2>1. 0 % Pow2[o + 1] = 0 /\ 0 + Pow2[o] = d
    BY <1>2 DEF d
  <2>2. QED
    BY <1>1, <1>14, <2>1, MergeTiled
<1>18. Buddies(n, m, G, V, Toggle(bits, p, o), st)
  BY <1>9, <1>12, <1>15, <1>16, <1>17, ZenonT(30) DEF Buddies, Both
<1>19. QED
  BY <1>6, <1>7, <1>18, ZenonT(30) DEF G, V, d

(* Of two aligned blocks that share a page the smaller lies in the larger. *)
LEMMA Nested ==
  ASSUME NEW d \in Nat, d > 0, NEW c \in Nat, NEW f \in Nat, NEW p \in Nat, NEW x \in Nat,
         f % (d * c) = 0, p % d = 0, f <= x, x < f + d * c, p <= x, x < p + d
  PROVE  f <= p /\ p + d <= f + d * c
<1>1. d * c \in Nat /\ d * c > 0
  OBVIOUS
<1>2. PICK k \in Nat : f = k * (d * c)
  BY <1>1, Multiple, ZenonT(30)
<1>3. PICK j \in Nat : p = j * d
  BY Multiple, ZenonT(30)
<1> DEFINE a == k * c
<1>4. a \in Nat /\ f = a * d /\ f + d * c = (a + c) * d
  BY <1>2
<1> HIDE DEF a
<1>5. a <= j
  <2>1. ASSUME j + 1 <= a PROVE FALSE
    <3>1. (j + 1) * d <= a * d
      BY <1>4, <2>1
    <3>2. (j + 1) * d = j * d + d
      OBVIOUS
    <3>3. QED
      BY <1>3, <1>4, <3>1, <3>2
  <2>2. QED
    BY <1>4, <2>1
<1>6. j + 1 <= a + c
  <2>1. ASSUME a + c <= j PROVE FALSE
    <3>1. (a + c) * d <= j * d
      BY <1>4, <2>1
    <3>2. QED
      BY <1>3, <1>4, <3>1
  <2>2. QED
    BY <1>4, <2>1
<1>7. a * d <= j * d
  BY <1>4, <1>5
<1>8. (j + 1) * d <= (a + c) * d
  BY <1>4, <1>6
<1>9. (j + 1) * d = j * d + d
  OBVIOUS
<1>10. QED
  BY <1>3, <1>4, <1>7, <1>8, <1>9

(* Of two aligned blocks with a common page the smaller is in the larger.  *)
LEMMA NestedOrders ==
  ASSUME NEW o \in Nat, NEW r \in Nat, o <= r, NEW f \in Nat, NEW p \in Nat, NEW x \in Nat,
         f % Pow2[r] = 0, p % Pow2[o] = 0, f <= x, x < f + Pow2[r], p <= x, x < p + Pow2[o]
  PROVE  f <= p /\ p + Pow2[o] <= f + Pow2[r]
<1>1. r - o \in Nat /\ o + (r - o) = r
  OBVIOUS
<1>2. Pow2[r] = Pow2[o] * Pow2[r - o]
  BY <1>1, Pow2Sum
<1>3. Pow2[o] \in Nat /\ Pow2[o] > 0 /\ Pow2[r - o] \in Nat
  BY <1>1, Pow2Step
<1> DEFINE d == Pow2[o]
           c == Pow2[r - o]
<1>4. /\ d \in Nat /\ d > 0 /\ c \in Nat /\ f % (d * c) = 0 /\ p % d = 0 /\ x < f + d * c /\ x < p + d
      /\ Pow2[r] = d * c
  BY <1>2, <1>3
<1> HIDE DEF d, c
<1>5. f <= p /\ p + d <= f + d * c
  BY <1>4, Nested, ZenonT(30)
<1>6. QED
  BY <1>4, <1>5 DEF d

(* No page of the block of order o at p is in a block of U.                *)
Unused(m, U, p, o) ==
  \A r \in 0 .. m : \A q \in U[r] : q + Pow2[r] <= p \/ p + Pow2[o] <= q

(* It lies in a block of F of its order or a larger one.                   *)
Inside(m, F, p, o) ==
  \E r \in o .. m : \E f \in F[r] : f <= p /\ p + Pow2[o] <= f + Pow2[r]

(* No bit that was 1 at boot is that of a smaller pair in the block.       *)
Clean(st, p, o) ==
  \A b \in st : b[1] < o => b[2] * Pow2[b[1] + 1] \notin p .. p + Pow2[o] - 1

(* Whole blocks that nobody has are not left in parts, where no bit was 1  *)
(* at boot: two buddies never are both free, so each lies in one free      *)
(* block.                                                                  *)
LEMMA FreeInside ==
  ASSUME NEW n \in Nat, NEW m \in Nat, NEW F, NEW U, NEW bits,
         NEW st \in SUBSET (Nat \X Nat), Buddies(n, m, F, U, bits, st)
  PROVE  \A o \in 0 .. m : \A p \in Nat :
           p % Pow2[o] = 0 /\ p + Pow2[o] <= n /\ Unused(m, U, p, o) /\ Clean(st, p, o)
             => Inside(m, F, p, o)
<1> DEFINE B == Both(m, F, U)
           P(o) == \A p \in Nat :
                     p % Pow2[o] = 0 /\ p + Pow2[o] <= n /\ Unused(m, U, p, o) /\ Clean(st, p, o)
                       => Inside(m, F, p, o)
           S == {o \in 0 .. m : P(o)}
<1>1. Tiled(n, m, B) /\ F \in Blocks(n, m) /\ U \in Blocks(n, m) /\ BitsOf(n, m, F, bits, st)
  BY DEF Buddies, Both
<1>2. 0 \in S
  <2> SUFFICES ASSUME NEW p \in Nat, p + Pow2[0] <= n, Unused(m, U, p, 0) PROVE Inside(m, F, p, 0)
    OBVIOUS
  <2>1. Pow2[0] = 1 /\ p \in 0 .. n - 1
    BY Pow2Step
  <2>2. PICK r \in 0 .. m : \E f \in B[r] : f <= p /\ p < f + Pow2[r]
    BY <1>1, <2>1 DEF Tiled
  <2>3. PICK f \in B[r] : f <= p /\ p < f + Pow2[r]
    BY <2>2
  <2>4. f \in Nat /\ Pow2[r] \in Nat
    <3>1. f \in 0 .. n - 1
      BY <1>1, <2>3 DEF Tiled, Blocks
    <3>2. QED
      BY <3>1, Pow2Step
  <2>5. f \notin U[r]
    BY <2>1, <2>3, <2>4 DEF Unused
  <2>6. f \in F[r]
    BY <2>3, <2>5 DEF Both
  <2>7. p + Pow2[0] <= f + Pow2[r] /\ r \in 0 .. m
    BY <2>1, <2>3, <2>4
  <2>8. QED
    BY <2>3, <2>6, <2>7 DEF Inside
<1>3. ASSUME NEW o \in 0 .. m - 1, o \in S PROVE o + 1 \in S
  <2> DEFINE d == Pow2[o]
  <2>1. d \in Nat /\ d > 0 /\ Pow2[o + 1] = 2 * d /\ o \in Nat /\ o + 1 \in 0 .. m
    BY Pow2Step
  <2> SUFFICES ASSUME NEW p \in Nat, p % Pow2[o + 1] = 0, p + Pow2[o + 1] <= n, Unused(m, U, p, o + 1),
                      Clean(st, p, o + 1)
               PROVE  Inside(m, F, p, o + 1)
    BY <2>1
  <2>2. p % d = 0 /\ (p + d) % d = 0
    <3>1. p % (2 * d) = 0
      BY <2>1
    <3> HIDE DEF d
    <3>2. QED
      BY <2>1, <3>1, HalvesAligned
  <2>3. ASSUME NEW q \in {p, p + d} PROVE Inside(m, F, q, o)
    <3>1. q \in Nat /\ q % Pow2[o] = 0 /\ p <= q /\ q + d <= p + Pow2[o + 1]
      BY <2>1, <2>2
    <3>2. q + Pow2[o] <= n
      BY <2>1, <3>1
    <3>3. Unused(m, U, q, o)
      <4> SUFFICES ASSUME NEW r \in 0 .. m, NEW u \in U[r] PROVE u + Pow2[r] <= q \/ q + Pow2[o] <= u
        BY DEF Unused
      <4>1. u \in Nat /\ Pow2[r] \in Nat
        <5>1. u \in 0 .. n - 1
          BY <1>1 DEF Blocks
        <5>2. QED
          BY <5>1, Pow2Step
      <4>2. u + Pow2[r] <= p \/ p + Pow2[o + 1] <= u
        BY DEF Unused
      <4>3. QED
        BY <2>1, <3>1, <4>1, <4>2
    <3>4. Clean(st, q, o)
      <4> SUFFICES ASSUME NEW b \in st, b[1] < o
                   PROVE  b[2] * Pow2[b[1] + 1] \notin q .. q + Pow2[o] - 1
        BY DEF Clean
      <4>1. b[1] \in Nat /\ b[1] < o + 1
        BY <2>1
      <4>2. b[2] * Pow2[b[1] + 1] \notin p .. p + Pow2[o + 1] - 1
        BY <4>1 DEF Clean
      <4>3. q .. q + Pow2[o] - 1 \subseteq p .. p + Pow2[o + 1] - 1
        BY <2>1, <3>1
      <4>4. QED
        BY <4>2, <4>3
    <3>5. QED
      BY <1>3, <3>1, <3>2, <3>3, <3>4
  <2>4. ASSUME NEW q \in {p, p + d}, NEW r \in o .. m, NEW f \in F[r], r # o,
               f <= q, q + d <= f + Pow2[r]
        PROVE  Inside(m, F, p, o + 1)
    <3>1. r \in Nat /\ o + 1 \in Nat /\ o + 1 <= r /\ r \in o + 1 .. m /\ r \in 0 .. m
      BY <2>1, <2>4
    <3>2. f \in Nat /\ f % Pow2[r] = 0 /\ q \in Nat /\ Pow2[r] \in Nat
      <4>1. f \in B[r]
        BY <3>1 DEF Both
      <4>2. f \in 0 .. n - 1 /\ f % Pow2[r] = 0
        BY <1>1, <3>1, <4>1 DEF Tiled, Blocks
      <4>3. QED
        BY <2>1, <3>1, <4>2, Pow2Step
    <3>3. p <= q /\ q < p + Pow2[o + 1] /\ q < f + Pow2[r]
      BY <2>1, <2>4, <3>2
    <3>4. f <= p /\ p + Pow2[o + 1] <= f + Pow2[r]
      BY <2>4, <3>1, <3>2, <3>3, NestedOrders, ZenonT(30)
    <3>5. QED
      BY <3>1, <3>4 DEF Inside
  <2>5. CASE p \in F[o] /\ p + d \in F[o]
    <3>1. \E i \in 0 .. n - 1 : p = i * Pow2[o + 1]
      <4>1. PICK i \in Nat : p = i * (2 * d)
        <5>1. p % (2 * d) = 0 /\ 2 * d \in Nat /\ 2 * d > 0
          BY <2>1
        <5>2. QED
          BY <5>1, Multiple, ZenonT(30)
      <4>2. i <= p /\ p \in 0 .. n - 1
        <5>1. i * (2 * d) >= i
          BY <2>1
        <5>2. p + 2 * d <= n
          BY <2>1
        <5>3. QED
          BY <2>1, <4>1, <5>1, <5>2
      <4>3. QED
        BY <2>1, <4>1, <4>2
    <3>2. PICK i \in 0 .. n - 1 : p = i * Pow2[o + 1]
      BY <3>1
    <3>3. <<o, i>> \notin st
      <4>1. o < o + 1 /\ p \in p .. p + Pow2[o + 1] - 1
        BY <2>1
      <4>2. ASSUME <<o, i>> \in st PROVE FALSE
        <5>1. i * Pow2[o + 1] \notin p .. p + Pow2[o + 1] - 1
          BY <4>1, <4>2 DEF Clean
        <5>2. QED
          BY <3>2, <4>1, <5>1
      <4>3. QED
        BY <4>2
    <3>4. QED
      BY <1>1, <2>5, <3>2, <3>3, ZenonT(30) DEF BitsOf
  <2>6. CASE p \notin F[o] \/ p + d \notin F[o]
    <3>1. PICK q \in {p, p + d} : q \notin F[o]
      BY <2>6
    <3>2. PICK r \in o .. m : \E f \in F[r] : f <= q /\ q + d <= f + Pow2[r]
      BY <2>3 DEF Inside
    <3>3. PICK f \in F[r] : f <= q /\ q + d <= f + Pow2[r]
      BY <3>2
    <3>4. r # o
      <4>1. ASSUME r = o PROVE FALSE
        <5>1. f \in 0 .. n - 1
          BY <1>1, <4>1 DEF Blocks
        <5>2. f = q
          BY <2>1, <3>3, <4>1, <5>1
        <5>3. QED
          BY <3>1, <4>1, <5>2
      <4>2. QED
        BY <4>1
    <3>5. QED
      BY <2>4, <3>3, <3>4
  <2>7. QED
    BY <2>5, <2>6
<1>4. 0 .. m \subseteq S
  <2> HIDE DEF S
  <2>1. QED
    BY <1>2, <1>3, Up
<1>5. QED
  BY <1>4

(* A bit has changed when one of its two buddies is wholly unused and the  *)
(* other is not.                                                           *)
LEMMA BitsRight ==
  ASSUME NEW n \in Nat, NEW m \in Nat, NEW F, NEW U, NEW bits,
         NEW st \in SUBSET (Nat \X Nat), Buddies(n, m, F, U, bits, st),
         NEW o \in 0 .. m - 1, NEW i \in Nat, i * Pow2[o + 1] + Pow2[o + 1] <= n,
         CleanInside(st, o, i)
  PROVE  <<o, i>> \in bits <=>
           (Unused(m, U, i * Pow2[o + 1], o) # Unused(m, U, i * Pow2[o + 1] + Pow2[o], o))
<1> DEFINE B == Both(m, F, U)
           d == Pow2[o]
           left == i * Pow2[o + 1]
           right == left + d
<1>1. /\ Tiled(n, m, B) /\ F \in Blocks(n, m) /\ U \in Blocks(n, m) /\ BitsOf(n, m, F, bits, st)
      /\ \A r \in 0 .. m : F[r] \cap U[r] = {}
  BY DEF Buddies, Both
<1>2. d \in Nat /\ d > 0 /\ Pow2[o + 1] = 2 * d /\ o \in Nat /\ o \in 0 .. m
  BY Pow2Step
<1>3. left \in Nat /\ left % Pow2[o + 1] = 0 /\ i \in 0 .. n - 1
  <2>1. 2 * d \in Nat /\ 2 * d > 0 /\ left = i * (2 * d)
    BY <1>2
  <2>2. left \in Nat /\ i <= left
    <3> HIDE DEF d
    <3>1. i * (2 * d) >= i /\ i * (2 * d) \in Nat
      BY <1>2
    <3>2. QED
      BY <2>1, <3>1
  <2>3. left % (2 * d) = 0
    BY <2>1, <2>2, Multiple
  <2>4. left + 2 * d <= n
    BY <1>2
  <2> HIDE DEF left, d
  <2>5. i \in 0 .. n - 1
    BY <2>1, <2>2, <2>4
  <2>6. QED
    BY <1>2, <2>2, <2>3, <2>5
<1>4. left + 2 * d <= n
  BY <1>2
<1>5. <<o, i>> \in bits <=> ~(left \in F[o] <=> right \in F[o])
  BY <1>1, <1>3 DEF BitsOf
<1>6. ASSUME NEW b \in st, b[1] < o
      PROVE  b[2] * Pow2[b[1] + 1] \notin left .. left + Pow2[o + 1] - 1
  BY <1>6 DEF CleanInside
<1> HIDE DEF left, d
<1>7. right \in Nat /\ left % d = 0 /\ right % d = 0 /\ right + d = left + 2 * d
  <2>1. left % (2 * d) = 0
    BY <1>2, <1>3
  <2>2. left % d = 0 /\ (left + d) % d = 0
    BY <1>2, <1>3, <2>1, HalvesAligned, ZenonT(30)
  <2>3. left + d \in Nat /\ (left + d) + d = left + 2 * d
    BY <1>2, <1>3
  <2>4. QED
    BY <2>2, <2>3
<1> HIDE DEF right
<1>8. ASSUME NEW p \in F[o] PROVE Unused(m, U, p, o)
  <2> SUFFICES ASSUME NEW r \in 0 .. m, NEW q \in U[r] PROVE q + Pow2[r] <= p \/ p + Pow2[o] <= q
    BY DEF Unused
  <2>1. p \in B[o] /\ q \in B[r]
    BY <1>2 DEF Both
  <2>2. ~(p = q /\ o = r)
    BY <1>1
  <2> HIDE DEF B
  <2>3. QED
    BY <1>1, <1>2, <2>1, <2>2 DEF Tiled
<1>9. ASSUME NEW p \in {left, right}, Unused(m, U, p, o), p \notin F[o]
      PROVE  Inside(m, F, left, o + 1)
  <2>1. p \in Nat /\ p % Pow2[o] = 0 /\ p + Pow2[o] <= n
    BY <1>2, <1>3, <1>4, <1>7 DEF d, right
  <2>2. Clean(st, p, o)
    <3>1. p .. p + Pow2[o] - 1 \subseteq left .. left + Pow2[o + 1] - 1
      BY <1>2, <1>3 DEF d, right
    <3>2. QED
      BY <1>6, <3>1 DEF Clean
  <2>3. Inside(m, F, p, o)
    BY <1>2, <1>9, <2>1, <2>2, FreeInside
  <2>4. PICK r \in o .. m : \E f \in F[r] : f <= p /\ p + d <= f + Pow2[r]
    BY <2>3 DEF Inside, d
  <2>5. PICK f \in F[r] : f <= p /\ p + d <= f + Pow2[r]
    BY <2>4
  <2>6. r \in 0 .. m /\ r \in Nat /\ f \in Nat /\ Pow2[r] \in Nat /\ f % Pow2[r] = 0
    <3>1. r \in 0 .. m /\ r \in Nat
      BY <1>2
    <3>2. f \in B[r]
      BY <3>1 DEF Both
    <3> HIDE DEF B
    <3>3. f \in 0 .. n - 1 /\ f % Pow2[r] = 0
      BY <1>1, <3>1, <3>2 DEF Tiled, Blocks
    <3>4. QED
      BY <3>1, <3>3, Pow2Step
  <2>7. r # o
    <3>1. ASSUME r = o PROVE FALSE
      <4>1. f = p
        BY <1>2, <2>1, <2>5, <2>6, <3>1 DEF d
      <4>2. QED
        BY <1>9, <3>1, <4>1
    <3>2. QED
      BY <3>1
  <2>8. o + 1 \in Nat /\ o + 1 <= r /\ r \in o + 1 .. m
    BY <1>2, <2>6, <2>7
  <2>9. left <= p /\ p < left + Pow2[o + 1] /\ p < f + Pow2[r]
    <3>1. p = left \/ p = left + d
      BY DEF right
    <3>2. left <= p /\ p < left + Pow2[o + 1]
      BY <1>2, <1>3, <3>1
    <3>3. p < f + Pow2[r]
      BY <1>2, <2>1, <2>5, <2>6
    <3>4. QED
      BY <3>2, <3>3
  <2>10. f <= left /\ left + Pow2[o + 1] <= f + Pow2[r]
    BY <1>3, <2>1, <2>5, <2>6, <2>8, <2>9, NestedOrders
  <2>11. QED
    BY <2>8, <2>10 DEF Inside
<1>10. ASSUME Inside(m, F, left, o + 1), NEW p \in {left, right} PROVE Unused(m, U, p, o) /\ p \notin F[o]
  <2>1. PICK r \in o + 1 .. m : \E f \in F[r] : f <= left /\ left + Pow2[o + 1] <= f + Pow2[r]
    BY <1>10 DEF Inside
  <2>2. PICK f \in F[r] : f <= left /\ left + Pow2[o + 1] <= f + Pow2[r]
    BY <2>1
  <2>3. r \in 0 .. m /\ r # o /\ f \in B[r]
    BY <1>2 DEF Both
  <2>4. f \in Nat /\ Pow2[r] \in Nat
    <3>1. f \in 0 .. n - 1
      BY <1>1, <2>3 DEF Tiled, Blocks
    <3>2. QED
      BY <2>3, <3>1, Pow2Step
  <2>5. p \in Nat /\ f <= p /\ p + d <= f + Pow2[r]
    BY <1>2, <1>3, <2>2, <2>4 DEF right
  <2>6. ASSUME NEW s \in 0 .. m, NEW q \in B[s], ~(f = q /\ r = s) PROVE q + Pow2[s] <= p \/ p + d <= q
    <3>1. q \in Nat /\ Pow2[s] \in Nat
      <4>1. q \in 0 .. n - 1
        BY <1>1 DEF Tiled, Blocks
      <4>2. QED
        BY <4>1, Pow2Step
    <3> HIDE DEF B
    <3>2. f + Pow2[r] <= q \/ q + Pow2[s] <= f
      BY <1>1, <2>3, <2>6 DEF Tiled
    <3>3. QED
      BY <1>2, <2>4, <2>5, <3>1, <3>2
  <2>7. Unused(m, U, p, o)
    <3> SUFFICES ASSUME NEW s \in 0 .. m, NEW q \in U[s] PROVE q + Pow2[s] <= p \/ p + Pow2[o] <= q
      BY DEF Unused
    <3>1. q \in B[s] /\ ~(f = q /\ r = s)
      BY <1>1 DEF Both
    <3>2. QED
      BY <2>6, <3>1 DEF d
  <2>8. p \notin F[o]
    <3>1. ASSUME p \in F[o] PROVE FALSE
      <4>1. p \in B[o]
        BY <1>2, <3>1 DEF Both
      <4>2. p + Pow2[o] <= p \/ p + d <= p
        BY <1>2, <2>3, <2>6, <4>1
      <4>3. QED
        BY <1>2, <2>5, <4>2 DEF d
    <3>2. QED
      BY <3>1
  <2>9. QED
    BY <2>7, <2>8
<1>11. Unused(m, U, left, o) \in BOOLEAN /\ Unused(m, U, right, o) \in BOOLEAN
  BY DEF Unused
<1>12. <<o, i>> \in bits <=> (Unused(m, U, left, o) # Unused(m, U, right, o))
  <2> DEFINE A == Unused(m, U, left, o)
             C == Unused(m, U, right, o)
             E == Inside(m, F, left, o + 1)
  <2>1. left \in F[o] => A /\ (C <=> right \in F[o])
    BY <1>8, <1>9, <1>10
  <2>2. right \in F[o] => C /\ (A <=> left \in F[o])
    BY <1>8, <1>9, <1>10
  <2>3. left \notin F[o] /\ right \notin F[o] => (A <=> C)
    BY <1>9, <1>10
  <2>4. A \in BOOLEAN /\ C \in BOOLEAN
    BY <1>11
  <2> HIDE DEF A, C
  <2>5. QED
    BY <1>5, <2>1, <2>2, <2>3, <2>4 DEF A, C
<1>13. QED
  BY <1>12 DEF left, right, d

(* mem_map[pfn >> (order + 1)] is the pair's first page only for the first *)
(* pair of the zone.                                                       *)
LEMMA FirstPair ==
  ASSUME NEW p \in Nat, NEW d \in Nat, d >= 2, p \div d = p - (p % d)
  PROVE  p \div d = 0
<1> DEFINE q == p \div d
           m == p % d
<1>1. q \in 0 .. p /\ m \in 0 .. d - 1 /\ p = d * q + m
  <2>1. d > 0
    OBVIOUS
  <2>2. q \in 0 .. p
    BY <2>1, DivAtMost
  <2>3. QED
    BY <2>1, <2>2
<1>2. q = p - m
  OBVIOUS
<1> HIDE DEF q, m
<1>3. q \in Nat /\ m \in Nat /\ q = d * q
  BY <1>1, <1>2
<1>4. ASSUME q > 0 PROVE FALSE
  <2>1. d * q >= 2 * q
    BY <1>3
  <2>2. QED
    BY <1>3, <1>4, <2>1
<1>5. q = 0
  BY <1>3, <1>4
<1>6. QED
  BY <1>5 DEF q

(* A pair of blocks that has a bit lies in its zone.                       *)
LEMMA PairFits ==
  ASSUME NEW N \in Nat, NEW d \in Nat, d > 0, NEW i \in 0 .. (N \div d) - 1
  PROVE  i \in Nat /\ i * d \in Nat /\ i * d + d <= N
<1> DEFINE k == N \div d
<1>1. k \in Nat /\ d * k <= N
  <2>1. k \in 0 .. N
    BY DivAtMost
  <2>2. N = d * k + (N % d) /\ N % d >= 0
    OBVIOUS
  <2> HIDE DEF k
  <2>3. d * k \in Nat /\ N % d \in Nat
    BY <2>1
  <2>4. QED
    BY <2>1, <2>2, <2>3
<1>2. i \in Nat /\ i + 1 <= k
  BY <1>1
<1> HIDE DEF k
<1>3. d * (i + 1) <= d * k
  BY <1>1, <1>2
<1>4. d * (i + 1) = i * d + d /\ i * d \in Nat /\ d * k \in Nat
  BY <1>1, <1>2
<1>5. QED
  BY <1>1, <1>2, <1>3, <1>4

-----------------------------------------------------------------------------
(* Blocks in use and their pages.                                          *)
Block(z, p, o) == [zone |-> z, page |-> p, order |-> o]
Record == [zone : Zones, page : Nat, order : Nat]

(* The blocks of zone z in a set of blocks, by their orders.               *)
Held(z, O) ==
  [o \in 0 .. MaxOrder[z] |->
     {p \in 0 .. NumPages[z] - 1 : [zone |-> z, page |-> p, order |-> o] \in O}]

(* The pages of the blocks of zone z in O.                                 *)
UsedOf(z, O) == UNION {Pages(b) : b \in {c \in O : c.zone = z}}

(* A block is its zone, its first page and its order.                      *)
LEMMA BlockFields ==
  /\ \A z, p, o : Block(z, p, o).zone = z /\ Block(z, p, o).page = p /\ Block(z, p, o).order = o
  /\ \A b \in Record : b = Block(b.zone, b.page, b.order)
  /\ \A z, p, o, y, q, r : Block(z, p, o) = Block(y, q, r) => z = y /\ p = q /\ o = r
<1>1. \A z, p, o : Block(z, p, o).zone = z /\ Block(z, p, o).page = p /\ Block(z, p, o).order = o
  BY DEF Block
<1>2. \A b \in Record : b = Block(b.zone, b.page, b.order)
  BY DEF Block, Record
<1>3. ASSUME NEW z, NEW p, NEW o, NEW y, NEW q, NEW r, Block(z, p, o) = Block(y, q, r)
      PROVE  z = y /\ p = q /\ o = r
  BY <1>1, <1>3
<1>4. QED
  BY <1>1, <1>2, <1>3

(* Held has the first pages of the blocks of O.                            *)
LEMMA HeldIs ==
  ASSUME NEW z, NEW O
  PROVE  /\ Held(z, O) = [o \in 0 .. MaxOrder[z] |-> {p \in 0 .. NumPages[z] - 1 : Block(z, p, o) \in O}]
         /\ \A o \in 0 .. MaxOrder[z] : \A p \in 0 .. NumPages[z] - 1 :
              p \in Held(z, O)[o] <=> Block(z, p, o) \in O
BY DEF Held, Block

(* What one more block in use does to Held ...                             *)
LEMMA HeldAdd ==
  ASSUME NEW z \in Zones, NEW O, NEW o \in 0 .. MaxOrder[z], NEW p \in 0 .. NumPages[z] - 1
  PROVE  /\ Held(z, O \cup {Block(z, p, o)}) = [Held(z, O) EXCEPT ![o] = @ \cup {p}]
         /\ \A y \in Zones : y # z => Held(y, O \cup {Block(z, p, o)}) = Held(y, O)
<1> DEFINE Q == O \cup {Block(z, p, o)}
<1>1. \A r \in 0 .. MaxOrder[z] :
        {q \in 0 .. NumPages[z] - 1 : Block(z, q, r) \in Q} =
          {q \in 0 .. NumPages[z] - 1 : Block(z, q, r) \in O} \cup (IF r = o THEN {p} ELSE {})
  BY BlockFields
<1>2. Held(z, Q) = [Held(z, O) EXCEPT ![o] = @ \cup {p}]
  <2> DEFINE G == Held(z, Q)
             H == Held(z, O)
  <2>1. \A r \in 0 .. MaxOrder[z] : G[r] = IF r = o THEN H[r] \cup {p} ELSE H[r]
    <3> SUFFICES ASSUME NEW r \in 0 .. MaxOrder[z] PROVE G[r] = IF r = o THEN H[r] \cup {p} ELSE H[r]
      OBVIOUS
    <3>1. /\ G[r] = {q \in 0 .. NumPages[z] - 1 : Block(z, q, r) \in Q}
          /\ H[r] = {q \in 0 .. NumPages[z] - 1 : Block(z, q, r) \in O}
      BY DEF Held, Block
    <3> HIDE DEF G, H, Q
    <3>2. QED
      BY <1>1, <3>1
  <2>2. G = [r \in 0 .. MaxOrder[z] |-> G[r]] /\ H = [r \in 0 .. MaxOrder[z] |-> H[r]]
    BY DEF Held
  <2> HIDE DEF G, H
  <2>3. G = [H EXCEPT ![o] = @ \cup {p}]
    BY <2>1, <2>2, ZenonT(30)
  <2>4. QED
    BY <2>3 DEF G, H
<1>3. ASSUME NEW y \in Zones, y # z PROVE Held(y, Q) = Held(y, O)
  <2>1. \A r \in 0 .. MaxOrder[y] : \A q : Block(y, q, r) \in Q <=> Block(y, q, r) \in O
    BY <1>3, BlockFields
  <2> HIDE DEF Q
  <2>2. QED
    BY <2>1 DEF Held, Block
<1>4. QED
  BY <1>2, <1>3, ZenonT(30)

(* ... and one block less.                                                 *)
Returned(z, O, p, o) == O \ {Block(z, p, o)}
Without(U, o, p) == [U EXCEPT ![o] = @ \ {p}]

(* Held after a block has been returned.                                   *)
LEMMA HeldRemove ==
  ASSUME NEW z \in Zones, NEW O, NEW o \in 0 .. MaxOrder[z], NEW p \in 0 .. NumPages[z] - 1
  PROVE  /\ Held(z, Returned(z, O, p, o)) = Without(Held(z, O), o, p)
         /\ \A y \in Zones : y # z => Held(y, Returned(z, O, p, o)) = Held(y, O)
<1> DEFINE Q == O \ {Block(z, p, o)}
<1>1. \A r \in 0 .. MaxOrder[z] :
        {q \in 0 .. NumPages[z] - 1 : Block(z, q, r) \in Q} =
          {q \in 0 .. NumPages[z] - 1 : Block(z, q, r) \in O} \ (IF r = o THEN {p} ELSE {})
  BY BlockFields
<1>2. Held(z, Q) = [Held(z, O) EXCEPT ![o] = @ \ {p}]
  <2> DEFINE G == Held(z, Q)
             H == Held(z, O)
  <2>1. \A r \in 0 .. MaxOrder[z] : G[r] = IF r = o THEN H[r] \ {p} ELSE H[r]
    <3> SUFFICES ASSUME NEW r \in 0 .. MaxOrder[z] PROVE G[r] = IF r = o THEN H[r] \ {p} ELSE H[r]
      OBVIOUS
    <3>1. /\ G[r] = {q \in 0 .. NumPages[z] - 1 : Block(z, q, r) \in Q}
          /\ H[r] = {q \in 0 .. NumPages[z] - 1 : Block(z, q, r) \in O}
      BY DEF Held, Block
    <3> HIDE DEF G, H, Q
    <3>2. QED
      BY <1>1, <3>1
  <2>2. G = [r \in 0 .. MaxOrder[z] |-> G[r]] /\ H = [r \in 0 .. MaxOrder[z] |-> H[r]]
    BY DEF Held
  <2> HIDE DEF G, H
  <2>3. G = [H EXCEPT ![o] = @ \ {p}]
    BY <2>1, <2>2, ZenonT(30)
  <2>4. QED
    BY <2>3 DEF G, H
<1>3. ASSUME NEW y \in Zones, y # z PROVE Held(y, Q) = Held(y, O)
  <2>1. \A r \in 0 .. MaxOrder[y] : \A q : Block(y, q, r) \in Q <=> Block(y, q, r) \in O
    BY <1>3, BlockFields
  <2> HIDE DEF Q
  <2>2. QED
    BY <2>1 DEF Held, Block
<1>4. QED
  BY <1>2, <1>3, ZenonT(30) DEF Returned, Without

(* Blocks with pages apart, and the number of pages of a block.            *)
LEMMA PagesApart ==
  ASSUME NEW a \in Record, NEW b \in Record,
         \/ a.zone # b.zone
         \/ a.page + Pow2[a.order] <= b.page
         \/ b.page + Pow2[b.order] <= a.page
  PROVE  Pages(a) \cap Pages(b) = {}
<1>1. /\ a.page \in Nat /\ Pow2[a.order] \in Nat /\ Pow2[a.order] > 0
      /\ b.page \in Nat /\ Pow2[b.order] \in Nat /\ Pow2[b.order] > 0
  BY Pow2Step DEF Record
<1>2. ASSUME NEW x, x \in Pages(a), x \in Pages(b) PROVE FALSE
  <2>1. PICK i \in a.page .. a.page + Pow2[a.order] - 1 : x = <<a.zone, i>>
    BY <1>2 DEF Pages
  <2>2. PICK j \in b.page .. b.page + Pow2[b.order] - 1 : x = <<b.zone, j>>
    BY <1>2 DEF Pages
  <2>3. a.zone = b.zone /\ i = j
    BY <2>1, <2>2
  <2>4. QED
    BY <1>1, <2>1, <2>2, <2>3
<1>3. QED
  BY <1>2

(* Blocks of one zone without a common page lie one behind the other.      *)
LEMMA PagesOverlap ==
  ASSUME NEW a \in Record, NEW b \in Record, Pages(a) \cap Pages(b) = {}, a.zone = b.zone
  PROVE  a.page + Pow2[a.order] <= b.page \/ b.page + Pow2[b.order] <= a.page
<1>1. /\ a.page \in Nat /\ Pow2[a.order] \in Nat /\ Pow2[a.order] > 0
      /\ b.page \in Nat /\ Pow2[b.order] \in Nat /\ Pow2[b.order] > 0
  BY Pow2Step DEF Record
<1>2. ASSUME b.page < a.page + Pow2[a.order], a.page < b.page + Pow2[b.order] PROVE FALSE
  <2>1. CASE a.page <= b.page
    <3>1. <<a.zone, b.page>> \in Pages(a) /\ <<a.zone, b.page>> \in Pages(b)
      BY <1>1, <1>2, <2>1 DEF Pages
    <3>2. QED
      BY <3>1
  <2>2. CASE b.page <= a.page
    <3>1. <<a.zone, a.page>> \in Pages(a) /\ <<a.zone, a.page>> \in Pages(b)
      BY <1>1, <1>2, <2>2 DEF Pages
    <3>2. QED
      BY <3>1
  <2>3. QED
    BY <1>1, <2>1, <2>2
<1>3. QED
  BY <1>1, <1>2

(* The blocks of the promise are the aligned ones inside a zone.           *)
LEMMA BlocksAre ==
  /\ \A b : b \in Promise!Blocks <=>
       /\ b \in Record /\ b.order <= MaxOrder[b.zone]
       /\ b.page % Pow2[b.order] = 0 /\ b.page + Pow2[b.order] <= NumPages[b.zone]
  /\ \A b \in Promise!Blocks :
       /\ b.zone \in Zones /\ b.order \in 0 .. MaxOrder[b.zone] /\ b.page \in 0 .. NumPages[b.zone] - 1
       /\ Pow2[b.order] \in Nat /\ Pow2[b.order] > 0 /\ b # NULL
<1>1. \A b : b \in Promise!Blocks <=>
        /\ b \in Record /\ b.order <= MaxOrder[b.zone]
        /\ b.page % Pow2[b.order] = 0 /\ b.page + Pow2[b.order] <= NumPages[b.zone]
  BY DEF Promise!Blocks, Record
<1>2. ASSUME NEW b \in Promise!Blocks
      PROVE  /\ b.zone \in Zones /\ b.order \in 0 .. MaxOrder[b.zone] /\ b.page \in 0 .. NumPages[b.zone] - 1
             /\ Pow2[b.order] \in Nat /\ Pow2[b.order] > 0 /\ b # NULL
  <2>1. b \in Record /\ b.order <= MaxOrder[b.zone] /\ b.page + Pow2[b.order] <= NumPages[b.zone]
    BY <1>1
  <2>2. b.zone \in Zones /\ b.page \in Nat /\ b.order \in Nat
    BY <2>1 DEF Record
  <2>3. NumPages[b.zone] \in Nat /\ MaxOrder[b.zone] \in Nat
    BY <2>2, ZonesAssumption
  <2>4. Pow2[b.order] \in Nat /\ Pow2[b.order] > 0
    BY <2>2, Pow2Step
  <2>5. b # NULL
    BY <2>1, ZonesAssumption DEF Record
  <2>6. QED
    BY <2>1, <2>2, <2>3, <2>4, <2>5
<1>3. QED
  BY <1>1, <1>2

(* The pages in use with one more block.                                   *)
LEMMA UsedAdd ==
  ASSUME NEW O, NEW b, NEW z
  PROVE  UsedOf(z, O \cup {b}) = IF b.zone = z THEN UsedOf(z, O) \cup Pages(b) ELSE UsedOf(z, O)
BY DEF UsedOf
=============================================================================
