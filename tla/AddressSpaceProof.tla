------------------------- MODULE AddressSpaceProof -------------------------
(***************************************************************************)
(* The areas of a program stay apart and its reference counts exact, for   *)
(* every set of program headers, every layout and any number of pages.     *)
(***************************************************************************)
EXTENDS AddressSpace, SequenceTheorems, FiniteSetTheorems, TLAPS

USE SMTT(30), Z3T(30), SMTT(30), ZenonT(30)

(* A set of numbers from 1 to n that has, with each number, all smaller    *)
(* ones is an interval; so a nonempty set has a least member.              *)
LEMMA Prefix ==
  ASSUME NEW n \in Nat, NEW S \in SUBSET (1 .. n), \A i \in S : 1 .. i \subseteq S
  PROVE  Cardinality(S) \in 0 .. n /\ S = 1 .. Cardinality(S)
<1> DEFINE k == Cardinality(S)
<1>1. IsFiniteSet(1 .. n) /\ Cardinality(1 .. n) = n
  BY FS_Interval
<1>2. IsFiniteSet(S) /\ k <= n
  <2>1. IsFiniteSet(S) /\ Cardinality(S) <= Cardinality(1 .. n)
    BY <1>1, FS_Subset, ZenonT(30)
  <2>2. QED
    BY <1>1, <2>1
<1>3. k \in Nat
  BY <1>2, FS_CardinalityType
<1>4. ASSUME NEW i \in S PROVE i <= k
  <2>1. Cardinality(1 .. i) = i
    BY FS_Interval
  <2>2. Cardinality(1 .. i) <= k
    BY <1>2, FS_Subset
  <2>3. QED
    BY <2>1, <2>2
<1>5. S \subseteq 1 .. k
  BY <1>3, <1>4
<1>6. IsFiniteSet(1 .. k) /\ Cardinality(1 .. k) = k
  BY <1>3, FS_Interval
<1>7. S = 1 .. k
  BY <1>5, <1>6, FS_Subset, ZenonT(30)
<1>8. QED
  BY <1>2, <1>3, <1>7

(* A set of numbers with a member has a least one.                         *)
LEMMA Least ==
  ASSUME NEW n \in Nat, NEW T \in SUBSET (1 .. n), T # {}
  PROVE  \E i \in T : \A j \in T : i <= j
<1> DEFINE S == {i \in 1 .. n : \A j \in 1 .. i : j \notin T}
           c == Cardinality(S)
<1>1. S \in SUBSET (1 .. n) /\ \A i \in S : 1 .. i \subseteq S
  OBVIOUS
<1>2. c \in 0 .. n /\ S = 1 .. c
  <2> HIDE DEF S
  <2>1. QED
    BY <1>1, Prefix
<1>3. PICK t \in T : TRUE
  BY ZenonT(30)
<1>4. t \notin 1 .. c
  BY <1>2
<1>5. c + 1 \in 1 .. n /\ c + 1 \notin S
  <2> HIDE DEF S, c
  <2>1. QED
    BY <1>2, <1>4
<1>6. PICK j \in 1 .. c + 1 : j \in T
  <2> HIDE DEF c
  <2>1. QED
    BY <1>5
<1>7. \A i \in T : i \notin 1 .. c
  BY <1>2
<1>8. QED
  <2> HIDE DEF S, c
  <2>1. QED
    BY <1>2, <1>6, <1>7

(* A sequence with an entry more after its k-th, and one whose i-th entry  *)
(* has taken in the one after it.                                          *)
Inserted(s, a, k, t) ==
  /\ t \in Seq(Area) /\ Len(t) = Len(s) + 1 /\ k \in 0 .. Len(s)
  /\ \A i \in 1 .. Len(s) + 1 :
       t[i] = IF i <= k THEN s[i] ELSE IF i = k + 1 THEN a ELSE s[i - 1]

Joined(s, i, t) ==
  /\ t \in Seq(Area) /\ Len(t) = Len(s) - 1 /\ i \in 1 .. Len(s) - 1
  /\ \A j \in 1 .. Len(s) - 1 :
       t[j] = IF j < i THEN s[j]
              ELSE IF j = i THEN [s[i] EXCEPT !.end = s[i + 1].end] ELSE s[j + 1]

Sorted(s) == \A i, j \in 1 .. Len(s) : i < j => s[i].start <= s[j].start

(* The list after an insertion.                                            *)
LEMMA InsertSeq ==
  ASSUME NEW s \in Seq(Area), NEW k \in 0 .. Len(s), NEW a \in Area
  PROVE  Inserted(s, a, k, SubSeq(s, 1, k) \o <<a>> \o SubSeq(s, k + 1, Len(s)))
<1> DEFINE u == SubSeq(s, 1, k)
           v == SubSeq(s, k + 1, Len(s))
           w == u \o <<a>>
<1>1. Len(s) \in Nat /\ \A i \in 1 .. Len(s) : s[i] \in Area
  OBVIOUS
<1>2. u \in Seq(Area) /\ Len(u) = k /\ \A i \in 1 .. k : u[i] = s[i]
  <2>1. \A i \in 1 .. k : s[i] \in Area
    BY <1>1
  <2>2. u \in Seq(Area) /\ Len(u) = (IF 1 <= k THEN k - 1 + 1 ELSE 0) /\ \A i \in 1 .. k - 1 + 1 : u[i] = s[1 + i - 1]
    BY <2>1, SubSeqProperties
  <2>3. QED
    BY <2>2
<1>3. v \in Seq(Area) /\ Len(v) = Len(s) - k /\ \A i \in 1 .. Len(s) - k : v[i] = s[k + i]
  <2>1. \A i \in k + 1 .. Len(s) : s[i] \in Area
    BY <1>1
  <2>2. /\ v \in Seq(Area) /\ Len(v) = (IF k + 1 <= Len(s) THEN Len(s) - (k + 1) + 1 ELSE 0)
        /\ \A i \in 1 .. Len(s) - (k + 1) + 1 : v[i] = s[k + 1 + i - 1]
    BY <1>1, <2>1, SubSeqProperties
  <2>3. QED
    BY <1>1, <2>2
<1>4. <<a>> \in Seq(Area) /\ Len(<<a>>) = 1 /\ <<a>>[1] = a
  OBVIOUS
<1> HIDE DEF u, v
<1>5. w \in Seq(Area) /\ Len(w) = k + 1 /\ \A i \in 1 .. k + 1 : w[i] = IF i <= k THEN s[i] ELSE a
  BY <1>2, <1>4, ConcatProperties
<1> HIDE DEF w
<1>6. /\ w \o v \in Seq(Area) /\ Len(w \o v) = k + 1 + (Len(s) - k)
      /\ \A i \in 1 .. k + 1 + (Len(s) - k) : (w \o v)[i] = IF i <= k + 1 THEN w[i] ELSE v[i - (k + 1)]
  <2>1. /\ w \o v \in Seq(Area) /\ Len(w \o v) = Len(w) + Len(v)
        /\ \A i \in 1 .. Len(w) + Len(v) : (w \o v)[i] = IF i <= Len(w) THEN w[i] ELSE v[i - Len(w)]
    BY <1>3, <1>5, ConcatProperties, ZenonT(30)
  <2>2. QED
    BY <1>3, <1>5, <2>1
<1>7. \A i \in 1 .. Len(s) + 1 :
        (w \o v)[i] = IF i <= k THEN s[i] ELSE IF i = k + 1 THEN a ELSE s[i - 1]
  <2> SUFFICES ASSUME NEW i \in 1 .. Len(s) + 1
               PROVE  (w \o v)[i] = IF i <= k THEN s[i] ELSE IF i = k + 1 THEN a ELSE s[i - 1]
    BY ZenonT(30)
  <2>1. (w \o v)[i] = IF i <= k + 1 THEN w[i] ELSE v[i - (k + 1)]
    <3>1. i \in 1 .. k + 1 + (Len(s) - k)
      BY <1>1
    <3>2. QED
      BY <1>6, <3>1
  <2>2. i <= k + 1 => w[i] = IF i <= k THEN s[i] ELSE a
    BY <1>1, <1>5
  <2>3. i > k + 1 => v[i - (k + 1)] = s[i - 1]
    <3>1. i > k + 1 => i - (k + 1) \in 1 .. Len(s) - k /\ k + (i - (k + 1)) = i - 1
      BY <1>1
    <3>2. QED
      BY <1>3, <3>1
  <2> HIDE DEF w
  <2>4. QED
    BY <1>1, <2>1, <2>2, <2>3
<1>8. Inserted(s, a, k, w \o v)
  <2> DEFINE t == w \o v
  <2>1. t \in Seq(Area) /\ Len(t) = Len(s) + 1 /\ k \in 0 .. Len(s)
    BY <1>1, <1>6
  <2>2. \A i \in 1 .. Len(s) + 1 :
          t[i] = IF i <= k THEN s[i] ELSE IF i = k + 1 THEN a ELSE s[i - 1]
    BY <1>7, ZenonT(30)
  <2> HIDE DEF t
  <2>3. Inserted(s, a, k, t)
    BY <2>1, <2>2, ZenonT(30) DEF Inserted
  <2>4. QED
    BY <2>3 DEF t
<1>9. QED
  BY <1>8 DEF u, v, w

(* The list after a join.                                                  *)
LEMMA JoinSeq ==
  ASSUME NEW s \in Seq(Area), NEW i \in 1 .. Len(s) - 1
  PROVE  Joined(s, i, SubSeq(s, 1, i - 1) \o <<[s[i] EXCEPT !.end = s[i + 1].end]>>
                        \o SubSeq(s, i + 2, Len(s)))
<1> DEFINE u == SubSeq(s, 1, i - 1)
           a == [s[i] EXCEPT !.end = s[i + 1].end]
           v == SubSeq(s, i + 2, Len(s))
           w == u \o <<a>>
<1>1. Len(s) \in Nat /\ \A j \in 1 .. Len(s) : s[j] \in Area
  OBVIOUS
<1>2. u \in Seq(Area) /\ Len(u) = i - 1 /\ \A j \in 1 .. i - 1 : u[j] = s[j]
  <2>1. \A j \in 1 .. i - 1 : s[j] \in Area
    BY <1>1
  <2>2. /\ u \in Seq(Area) /\ Len(u) = (IF 1 <= i - 1 THEN i - 1 - 1 + 1 ELSE 0)
        /\ \A j \in 1 .. i - 1 - 1 + 1 : u[j] = s[1 + j - 1]
    BY <2>1, SubSeqProperties
  <2>3. QED
    BY <2>2
<1>3. v \in Seq(Area) /\ Len(v) = Len(s) - (i + 1) /\ \A j \in 1 .. Len(s) - (i + 1) : v[j] = s[i + 1 + j]
  <2>1. \A j \in i + 2 .. Len(s) : s[j] \in Area
    BY <1>1
  <2>2. /\ v \in Seq(Area) /\ Len(v) = (IF i + 2 <= Len(s) THEN Len(s) - (i + 2) + 1 ELSE 0)
        /\ \A j \in 1 .. Len(s) - (i + 2) + 1 : v[j] = s[i + 2 + j - 1]
    BY <1>1, <2>1, SubSeqProperties
  <2>3. QED
    BY <1>1, <2>2
<1>4. a \in Area
  <2>1. s[i] \in Area /\ s[i + 1] \in Area
    BY <1>1
  <2>2. s[i + 1].end \in Nat
    BY <2>1 DEF Area
  <2>3. QED
    BY <2>1, <2>2, ZenonT(30) DEF Area
<1> HIDE DEF u, v, a
<1>5. <<a>> \in Seq(Area) /\ Len(<<a>>) = 1 /\ <<a>>[1] = a
  BY <1>4
<1>6. w \in Seq(Area) /\ Len(w) = i /\ \A j \in 1 .. i : w[j] = IF j < i THEN s[j] ELSE a
  BY <1>2, <1>5, ConcatProperties
<1> HIDE DEF w
<1>7. /\ w \o v \in Seq(Area) /\ Len(w \o v) = i + (Len(s) - (i + 1))
      /\ \A j \in 1 .. i + (Len(s) - (i + 1)) : (w \o v)[j] = IF j <= i THEN w[j] ELSE v[j - i]
  BY <1>3, <1>6, ConcatProperties
<1>8. \A j \in 1 .. Len(s) - 1 :
        (w \o v)[j] = IF j < i THEN s[j] ELSE IF j = i THEN a ELSE s[j + 1]
  BY <1>1, <1>3, <1>6, <1>7
<1>9. Joined(s, i, w \o v)
  <2>1. a = [s[i] EXCEPT !.end = s[i + 1].end]
    BY DEF a
  <2>2. Len(w \o v) = Len(s) - 1
    BY <1>1, <1>7
  <2>3. QED
    BY <1>7, <1>8, <2>1, <2>2, ZenonT(30) DEF Joined
<1>10. QED
  BY <1>9 DEF u, v, w, a

-----------------------------------------------------------------------------
(* What keeps areas apart: they are in order of their starts, which no     *)
(* join or insertion changes; and as long as the lowest starts high enough *)
(* they do not overlap and end in the address space.                       *)
High(s) == s # <<>> => s[1].start >= LowLimit
Apart(s) == \A i, j \in 1 .. Len(s) : i < j => s[i].end <= s[j].start
Good(s) ==
  /\ \A i \in 1 .. Len(s) : s[i].start <= s[i].end
  /\ Sorted(s)
  /\ High(s) => Apart(s) /\ \A i \in 1 .. Len(s) : s[i].end <= Limit

(* From b up to e there is no area, and it is clear which are below.       *)
Clear(s, b, e) ==
  \A i \in 1 .. Len(s) : s[i].end <= b \/ (e <= s[i].start /\ b < s[i].start)

(* The parts of an area have their types.                                  *)
LEMMA AreaType ==
  ASSUME NEW s \in Seq(Area)
  PROVE  /\ Len(s) \in Nat
         /\ \A i \in 1 .. Len(s) : s[i] \in Area /\ s[i].start \in Nat /\ s[i].end \in Nat
                                   /\ s[i].file \in BOOLEAN
<1>1. \A i \in 1 .. Len(s) : s[i] \in Area
  OBVIOUS
<1>2. QED
  BY <1>1 DEF Area

(* Inserting an area where none is keeps the list in order.                *)
LEMMA InsertGood ==
  ASSUME NEW s \in Seq(Area), Good(s), NEW a \in Area, NEW k, NEW t, Inserted(s, a, k, t),
         a.start <= a.end,
         \A i \in 1 .. k : s[i].start <= a.start,
         \A i \in k + 1 .. Len(s) : s[i].start > a.start,
         High(s) /\ a.start >= LowLimit => Clear(s, a.start, a.end) /\ a.end <= Limit
  PROVE  Good(t)
<1>1. /\ Len(s) \in Nat /\ k \in 0 .. Len(s) /\ Len(t) = Len(s) + 1 /\ t \in Seq(Area)
      /\ \A i \in 1 .. Len(s) + 1 :
           t[i] = IF i <= k THEN s[i] ELSE IF i = k + 1 THEN a ELSE s[i - 1]
  BY AreaType DEF Inserted
<1>2. a.start \in Nat /\ a.end \in Nat /\ LowLimit \in Nat
  BY LayoutAssumption DEF Area
<1>3. ASSUME NEW i \in 1 .. Len(t) PROVE t[i].start <= t[i].end
  <2>1. CASE i <= k
    BY <1>1, <2>1 DEF Good
  <2>2. CASE i = k + 1
    BY <1>1, <2>2
  <2>3. CASE i > k + 1
    <3>1. i - 1 \in 1 .. Len(s) /\ t[i] = s[i - 1]
      BY <1>1, <2>3
    <3>2. QED
      BY <3>1 DEF Good
  <2>4. QED
    BY <1>1, <2>1, <2>2, <2>3
<1>4. Sorted(t)
  <2>1. ASSUME NEW i \in 1 .. Len(t), NEW j \in 1 .. Len(t), i < j
        PROVE  t[i].start <= t[j].start
    <3>1. CASE j <= k
      BY <1>1, <2>1, <3>1 DEF Good, Sorted
    <3>2. CASE j = k + 1
      BY <1>1, <2>1, <3>2
    <3>3. CASE j > k + 1 /\ i = k + 1
      <4>1. s[j - 1].start > a.start /\ s[j - 1].start \in Nat
        BY <1>1, <3>3, AreaType
      <4>2. t[i] = a /\ t[j] = s[j - 1]
        BY <1>1, <3>3
      <4>3. a.start \in Nat
        BY DEF Area
      <4>4. QED
        BY <4>1, <4>2, <4>3
    <3>4. CASE j > k + 1 /\ i <= k
      <4>0. i \in 1 .. Len(s) /\ j - 1 \in 1 .. Len(s) /\ i < j - 1
        BY <1>1, <3>4
      <4>1. s[i].start <= s[j - 1].start
        BY <4>0 DEF Good, Sorted
      <4>2. QED
        BY <1>1, <3>4, <4>1
    <3>5. CASE j > k + 1 /\ i > k + 1
      <4>0. i - 1 \in 1 .. Len(s) /\ j - 1 \in 1 .. Len(s) /\ i - 1 < j - 1
        BY <1>1, <2>1, <3>5
      <4>1. s[i - 1].start <= s[j - 1].start
        BY <4>0 DEF Good, Sorted
      <4>2. QED
        BY <1>1, <3>5, <4>1
    <3>6. QED
      BY <1>1, <3>1, <3>2, <3>3, <3>4, <3>5
  <2>2. QED
    BY <2>1 DEF Sorted
<1>5. ASSUME High(t)
      PROVE  Apart(t) /\ \A i \in 1 .. Len(t) : t[i].end <= Limit
  <2>1. t[1].start >= LowLimit
    BY <1>1, <1>5 DEF High
  <2>2. a.start >= LowLimit /\ \A i \in 1 .. Len(s) : s[i].start >= LowLimit
    <3>1. \A i \in 1 .. Len(t) : t[i].start >= t[1].start /\ t[i].start \in Nat
      BY <1>1, <1>4, AreaType DEF Sorted
    <3>2. \A i \in 1 .. Len(t) : t[i].start >= LowLimit
      BY <1>2, <2>1, <3>1
    <3>3. t[k + 1] = a
      BY <1>1
    <3>4. \A i \in 1 .. Len(s) : s[i] = t[i] \/ s[i] = t[i + 1]
      BY <1>1
    <3>5. ASSUME NEW i \in 1 .. Len(s) PROVE s[i].start >= LowLimit
      <4>1. i \in 1 .. Len(t) /\ i + 1 \in 1 .. Len(t)
        BY <1>1
      <4>2. QED
        BY <3>2, <3>4, <4>1
    <3>6. QED
      BY <1>1, <3>2, <3>3, <3>5
  <2>3. High(s)
    BY <2>2, <1>1 DEF High
  <2>4. Apart(s) /\ Clear(s, a.start, a.end) /\ a.end <= Limit /\ \A i \in 1 .. Len(s) : s[i].end <= Limit
    BY <2>2, <2>3 DEF Good
  <2>5. ASSUME NEW i \in 1 .. Len(s) PROVE IF i <= k THEN s[i].end <= a.start ELSE a.end <= s[i].start
    <3>1. /\ s[i].start \in Nat /\ s[i].end \in Nat /\ s[i].start <= s[i].end
          /\ s[i].end <= a.start \/ (a.end <= s[i].start /\ a.start < s[i].start)
      BY <2>4, AreaType DEF Clear, Good
    <3>2. CASE i <= k
      BY <1>1, <1>2, <3>1, <3>2
    <3>3. CASE i > k
      <4>1. s[i].start > a.start
        BY <1>1, <3>3
      <4>2. QED
        BY <1>1, <1>2, <3>1, <3>3, <4>1
    <3>4. QED
      BY <1>1, <3>2, <3>3
  <2>6. ASSUME NEW i \in 1 .. Len(t), NEW j \in 1 .. Len(t), i < j
        PROVE  t[i].end <= t[j].start
    <3>1. CASE j <= k
      BY <1>1, <2>4, <2>6, <3>1 DEF Apart
    <3>2. CASE j = k + 1
      BY <1>1, <2>5, <2>6, <3>2
    <3>3. CASE j > k + 1 /\ i = k + 1
      <4>1. a.end <= s[j - 1].start
        BY <1>1, <2>5, <3>3
      <4>2. QED
        BY <1>1, <3>3, <4>1
    <3>4. CASE j > k + 1 /\ i <= k
      <4>0. i \in 1 .. Len(s) /\ j - 1 \in 1 .. Len(s) /\ i < j - 1
        BY <1>1, <3>4
      <4>1. s[i].end <= s[j - 1].start
        BY <2>4, <4>0 DEF Apart
      <4>2. QED
        BY <1>1, <3>4, <4>1
    <3>5. CASE j > k + 1 /\ i > k + 1
      <4>0. i - 1 \in 1 .. Len(s) /\ j - 1 \in 1 .. Len(s) /\ i - 1 < j - 1
        BY <1>1, <2>6, <3>5
      <4>1. s[i - 1].end <= s[j - 1].start
        BY <2>4, <4>0 DEF Apart
      <4>2. QED
        BY <1>1, <3>5, <4>1
    <3>6. QED
      BY <1>1, <3>1, <3>2, <3>3, <3>4, <3>5
  <2>7. ASSUME NEW i \in 1 .. Len(t) PROVE t[i].end <= Limit
    <3>1. t[i] = a \/ \E j \in 1 .. Len(s) : t[i] = s[j]
      <4>1. CASE i > k + 1
        <5>1. i - 1 \in 1 .. Len(s) /\ t[i] = s[i - 1]
          BY <1>1, <4>1
        <5>2. QED
          BY <5>1
      <4>2. CASE i <= k + 1
        BY <1>1, <4>2
      <4>3. QED
        BY <1>1, <4>1, <4>2
    <3>2. QED
      BY <2>4, <3>1
  <2>8. QED
    BY <2>6, <2>7 DEF Apart
<1>6. QED
  BY <1>3, <1>4, <1>5 DEF Good

(* Joining two neighbours keeps the list in order.                         *)
LEMMA JoinGood ==
  ASSUME NEW s \in Seq(Area), Good(s), NEW i, NEW t, Joined(s, i, t), s[i].end = s[i + 1].start
  PROVE  Good(t)
<1>1. /\ Len(s) \in Nat /\ i \in 1 .. Len(s) - 1 /\ Len(t) = Len(s) - 1 /\ t \in Seq(Area)
      /\ \A j \in 1 .. Len(s) - 1 :
           t[j] = IF j < i THEN s[j]
                  ELSE IF j = i THEN [s[i] EXCEPT !.end = s[i + 1].end] ELSE s[j + 1]
  BY AreaType DEF Joined
<1>2. \A j \in 1 .. Len(s) : s[j] \in Area /\ s[j].start \in Nat /\ s[j].end \in Nat
  BY AreaType
<1>3. t[i].start = s[i].start /\ t[i].end = s[i + 1].end
  <2>1. t[i] = [s[i] EXCEPT !.end = s[i + 1].end] /\ s[i] \in Area
    BY <1>1, <1>2
  <2>2. QED
    BY <2>1 DEF Area
<1>4. \A j \in 1 .. Len(t) : t[j].start = s[IF j <= i THEN j ELSE j + 1].start
                             /\ t[j].end = s[IF j < i THEN j ELSE j + 1].end
  <2> SUFFICES ASSUME NEW j \in 1 .. Len(t)
               PROVE  t[j].start = s[IF j <= i THEN j ELSE j + 1].start
                      /\ t[j].end = s[IF j < i THEN j ELSE j + 1].end
    OBVIOUS
  <2>1. j < i => t[j] = s[j]
    BY <1>1
  <2>2. j > i => t[j] = s[j + 1]
    BY <1>1
  <2>3. QED
    BY <1>1, <1>3, <2>1, <2>2
<1>5. \A j \in 1 .. Len(t) : t[j].start <= t[j].end
  <2>1. s[i].start <= s[i].end /\ s[i + 1].start <= s[i + 1].end
    BY <1>1 DEF Good
  <2>2. t[i].start <= t[i].end
    BY <1>1, <1>2, <1>3, <2>1
  <2>3. ASSUME NEW j \in 1 .. Len(t) PROVE t[j].start <= t[j].end
    <3>1. CASE j < i
      <4>1. j \in 1 .. Len(s)
        BY <1>1
      <4>2. t[j] = s[j]
        BY <1>1, <3>1
      <4>3. QED
        BY <4>1, <4>2 DEF Good
    <3>2. CASE j > i
      <4>1. j + 1 \in 1 .. Len(s)
        BY <1>1
      <4>2. t[j] = s[j + 1]
        BY <1>1, <3>2
      <4>3. QED
        BY <4>1, <4>2 DEF Good
    <3>3. QED
      BY <1>1, <2>2, <3>1, <3>2
  <2>4. QED
    BY <2>3
<1>6. Sorted(t)
  <2>1. ASSUME NEW j \in 1 .. Len(t), NEW l \in 1 .. Len(t), j < l
        PROVE  t[j].start <= t[l].start
    <3> DEFINE f == IF j <= i THEN j ELSE j + 1
               g == IF l <= i THEN l ELSE l + 1
    <3>1. f \in 1 .. Len(s) /\ g \in 1 .. Len(s) /\ f < g
      BY <1>1, <2>1
    <3>2. t[j].start = s[f].start /\ t[l].start = s[g].start
      BY <1>4
    <3>3. QED
      BY <3>1, <3>2 DEF Good, Sorted
  <2>2. QED
    BY <2>1 DEF Sorted
<1>7. ASSUME High(t)
      PROVE  Apart(t) /\ \A j \in 1 .. Len(t) : t[j].end <= Limit
  <2>1. t[1].start = s[1].start /\ t # <<>>
    BY <1>1, <1>4
  <2>2. High(s)
    BY <1>7, <2>1 DEF High
  <2>3. Apart(s) /\ \A j \in 1 .. Len(s) : s[j].end <= Limit
    BY <2>2 DEF Good
  <2>4. ASSUME NEW j \in 1 .. Len(t), NEW l \in 1 .. Len(t), j < l
        PROVE  t[j].end <= t[l].start
    <3> DEFINE f == IF j < i THEN j ELSE j + 1
               g == IF l <= i THEN l ELSE l + 1
    <3>1. f \in 1 .. Len(s) /\ g \in 1 .. Len(s) /\ f < g
      BY <1>1, <2>4
    <3>2. t[j].end = s[f].end /\ t[l].start = s[g].start
      BY <1>4
    <3>3. QED
      BY <2>3, <3>1, <3>2 DEF Apart
  <2>5. ASSUME NEW j \in 1 .. Len(t) PROVE t[j].end <= Limit
    <3> DEFINE f == IF j < i THEN j ELSE j + 1
    <3>1. f \in 1 .. Len(s) /\ t[j].end = s[f].end
      BY <1>1, <1>4
    <3>2. QED
      BY <2>3, <3>1
  <2>6. QED
    BY <2>4, <2>5 DEF Apart
<1>8. QED
  BY <1>5, <1>6, <1>7 DEF Good

-----------------------------------------------------------------------------
(* insert_vma puts an area behind those that start no higher.              *)
LEMMA InsertPlace ==
  ASSUME areas \in Seq(Area), Sorted(areas), NEW a \in Area
  PROVE  \E k : /\ Inserted(areas, a, k, InsertVma(a))
                /\ \A i \in 1 .. k : areas[i].start <= a.start
                /\ \A i \in k + 1 .. Len(areas) : areas[i].start > a.start
<1> DEFINE n == Len(areas)
           S == {i \in 1 .. n : \A j \in 1 .. i : areas[j].start <= a.start}
           k == Cardinality(S)
<1>1. n \in Nat /\ \A i \in 1 .. n : areas[i].start \in Nat
  BY AreaType
<1>2. S \in SUBSET (1 .. n) /\ \A i \in S : 1 .. i \subseteq S
  BY <1>1
<1>3. k \in 0 .. n /\ S = 1 .. k
  <2> HIDE DEF S
  <2>1. QED
    BY <1>1, <1>2, Prefix
<1>4. \A i \in 1 .. k : areas[i].start <= a.start
  <2>1. ASSUME NEW i \in S PROVE areas[i].start <= a.start
    BY <1>1
  <2> HIDE DEF S
  <2>2. QED
    BY <1>3, <2>1
<1>5. ASSUME NEW i \in k + 1 .. n PROVE areas[i].start > a.start
  <2>1. i \notin S /\ i \in 1 .. n
    <3> HIDE DEF S, k
    <3>1. QED
      BY <1>1, <1>3
  <2>2. PICK j \in 1 .. i : ~(areas[j].start <= a.start)
    BY <2>1
  <2>3. areas[j].start <= areas[i].start
    <3> HIDE DEF S, k
    <3>1. QED
      BY <1>1, <2>1, <2>2 DEF Sorted
  <2>4. a.start \in Nat /\ areas[j].start \in Nat /\ areas[i].start \in Nat
    BY <1>1, <2>1, <2>2 DEF Area
  <2>5. QED
    BY <2>2, <2>3, <2>4
<1>6. InsertVma(a) = SubSeq(areas, 1, k) \o <<a>> \o SubSeq(areas, k + 1, n)
  BY DEF InsertVma
<1> HIDE DEF k
<1>7. Inserted(areas, a, k, InsertVma(a))
  BY <1>3, <1>6, InsertSeq
<1>8. QED
  BY <1>4, <1>5, <1>7

(* do_mmap's choice: where is_valid_vaddr_for_vma allows it the address    *)
(* asked for, else a gap that cpu_assign_vma_vaddr found.                  *)
LEMMA ValidClear ==
  ASSUME areas \in Seq(Area), Good(areas), NEW addr \in Nat, NEW len \in Nat, IsValid(addr, len)
  PROVE  Clear(areas, addr, addr + len)
<1> SUFFICES ASSUME NEW i \in 1 .. Len(areas)
             PROVE  areas[i].end <= addr \/ (addr + len <= areas[i].start /\ addr < areas[i].start)
  BY DEF Clear
<1>1. areas[i].start \in Nat /\ areas[i].end \in Nat /\ areas[i].start <= areas[i].end
  BY AreaType DEF Good
<1>2. /\ ~(areas[i].start >= addr /\ areas[i].end <= addr + len)
      /\ ~(addr >= areas[i].start /\ addr < areas[i].end)
      /\ ~(addr + len > areas[i].start /\ addr + len < areas[i].end)
  BY DEF IsValid
<1>3. QED
  BY <1>1, <1>2

(* A difference that is not negative does not wrap.                        *)
LEMMA NoWrap == ASSUME NEW x \in Int, 0 <= x, x < Word PROVE Wrap(x) = x
<1>1. Word \in Nat
  BY LayoutAssumption
<1>2. QED
  BY <1>1 DEF Wrap

(* The place that cpu_assign_vma_vaddr picks is clear of all areas.        *)
LEMMA AssignClear ==
  ASSUME areas \in Seq(Area), Good(areas), NEW len \in Nat, AssignVaddr(len) # None
  PROVE  /\ AssignVaddr(len) \in Nat
         /\ High(areas) => /\ Clear(areas, AssignVaddr(len), AssignVaddr(len) + len)
                           /\ AssignVaddr(len) + len <= Limit
<1> DEFINE n == Len(areas)
           fits == {i \in 1 .. n : RoomBefore(i, len) \/ RoomAfter(i, len)}
           c == CHOOSE k \in fits : \A j \in fits : k <= j
           p == AssignVaddr(len)
<1>1. n \in Nat /\ LowLimit \in Nat /\ Limit \in Nat /\ Word \in Nat /\ 2 * Limit < Word /\ LowLimit <= Limit
  BY AreaType, LayoutAssumption
<1>2. \A i \in 1 .. n : areas[i].start \in Nat /\ areas[i].end \in Nat /\ areas[i].start <= areas[i].end
  BY AreaType DEF Good
<1>3. fits # {}
  BY DEF AssignVaddr
<1>4. c \in fits
  <2>1. \E k \in fits : \A j \in fits : k <= j
    <3>1. fits \in SUBSET (1 .. n)
      OBVIOUS
    <3> HIDE DEF fits
    <3>2. QED
      BY <1>1, <1>3, <3>1, Least, ZenonT(30)
  <2>2. QED
    BY <2>1
<1>5. p = (IF RoomBefore(c, len) THEN EmptyBefore(c) ELSE areas[c].end) + 1
  BY <1>3 DEF AssignVaddr
<1>6. c \in 1 .. n /\ (RoomBefore(c, len) \/ RoomAfter(c, len))
  BY <1>4
<1> HIDE DEF c, fits, p
<1>7. EmptyBefore(c) \in Nat /\ EmptyAfter(c) \in Nat
  <2>1. c # 1 => c - 1 \in 1 .. n
    BY <1>1, <1>6
  <2>2. c # n => c + 1 \in 1 .. n
    BY <1>1, <1>6
  <2>3. QED
    BY <1>1, <1>2, <2>1, <2>2 DEF EmptyBefore, EmptyAfter
<1>8. p \in Nat
  BY <1>2, <1>5, <1>6, <1>7
<1>9. ASSUME High(areas)
      PROVE  Clear(areas, p, p + len) /\ p + len <= Limit
  <2>1. Apart(areas) /\ \A i \in 1 .. n : areas[i].end <= Limit
    BY <1>9 DEF Good
  <2>2. areas[1].start >= LowLimit /\ 1 \in 1 .. n
    <3>1. areas # <<>>
      BY <1>1, <1>6
    <3>2. QED
      BY <1>1, <1>6, <1>9, <3>1 DEF High
  <2>3. CASE RoomBefore(c, len)
    <3>1. EmptyBefore(c) <= areas[c].start /\ \A i \in 1 .. c - 1 : areas[i].end <= EmptyBefore(c)
      <4>1. CASE c = 1
        BY <1>1, <2>2, <4>1 DEF EmptyBefore
      <4>2. CASE c # 1
        <5>1. c - 1 \in 1 .. n /\ EmptyBefore(c) = areas[c - 1].end
          BY <1>1, <1>6, <4>2 DEF EmptyBefore
        <5>2. areas[c - 1].end <= areas[c].start
          BY <1>6, <2>1, <5>1 DEF Apart
        <5>3. ASSUME NEW i \in 1 .. c - 1 PROVE areas[i].end <= areas[c - 1].end
          <6>1. i \in 1 .. n /\ (i = c - 1 \/ i < c - 1)
            BY <1>1, <1>6
          <6>2. i < c - 1 => areas[i].end <= areas[c - 1].start
            BY <2>1, <5>1, <6>1 DEF Apart
          <6>3. QED
            BY <1>2, <5>1, <6>1, <6>2
        <5>4. QED
          BY <5>1, <5>2, <5>3
      <4>3. QED
        BY <4>1, <4>2
    <3>2. areas[c].start <= Limit /\ areas[c].start \in Nat
      BY <1>1, <1>2, <1>6, <2>1
    <3>3. Wrap(areas[c].start - EmptyBefore(c)) = areas[c].start - EmptyBefore(c)
      <4> DEFINE gap == areas[c].start - EmptyBefore(c)
      <4>1. gap \in Int /\ 0 <= gap /\ gap < Word
        <5>1. EmptyBefore(c) <= areas[c].start /\ areas[c].start < Word /\ Word \in Nat
          BY <1>1, <3>1, <3>2
        <5>2. QED
          BY <1>7, <3>2, <5>1
      <4> HIDE DEF gap
      <4>2. Wrap(gap) = gap
        BY <4>1, NoWrap
      <4>3. QED
        BY <4>2 DEF gap
    <3>4. areas[c].start - EmptyBefore(c) > len + 2
      BY <2>3, <3>3 DEF RoomBefore
    <3>5. p = EmptyBefore(c) + 1 /\ p + len < areas[c].start
      BY <1>5, <1>7, <2>3, <3>2, <3>4
    <3>6. ASSUME NEW i \in 1 .. n
          PROVE  areas[i].end <= p \/ (p + len <= areas[i].start /\ p < areas[i].start)
      <4>1. CASE i < c
        <5>1. areas[i].end <= EmptyBefore(c)
          BY <1>6, <3>1, <4>1
        <5>2. QED
          BY <1>2, <1>7, <3>5, <5>1
      <4>2. CASE i >= c
        <5>1. areas[c].start <= areas[i].start
          BY <1>2, <1>6, <4>2 DEF Good, Sorted
        <5>2. QED
          BY <1>2, <1>8, <3>2, <3>5, <5>1
      <4>3. QED
        BY <1>6, <4>1, <4>2
    <3>7. QED
      BY <1>1, <1>8, <3>2, <3>5, <3>6 DEF Clear
  <2>4. CASE ~RoomBefore(c, len)
    <3>1. areas[c].end <= EmptyAfter(c) /\ EmptyAfter(c) <= Limit
          /\ \A i \in c + 1 .. n : EmptyAfter(c) <= areas[i].start
      <4>1. CASE c = n
        BY <1>1, <1>6, <2>1, <4>1 DEF EmptyAfter
      <4>2. CASE c # n
        <5>1. c + 1 \in 1 .. n /\ c < c + 1 /\ EmptyAfter(c) = areas[c + 1].start
          BY <1>1, <1>6, <4>2 DEF EmptyAfter
        <5>2. areas[c].end <= areas[c + 1].start
          BY <1>6, <2>1, <5>1 DEF Apart
        <5>3. ASSUME NEW i \in c + 1 .. n PROVE areas[c + 1].start <= areas[i].start
          <6>1. i \in 1 .. n /\ (i = c + 1 \/ c + 1 < i)
            BY <1>1, <1>6
          <6>2. QED
            BY <1>2, <5>1, <6>1 DEF Good, Sorted
        <5>4. areas[c + 1].start <= Limit
          BY <1>1, <1>2, <2>1, <5>1
        <5>5. QED
          BY <5>1, <5>2, <5>3, <5>4
      <4>3. QED
        BY <4>1, <4>2
    <3>2. areas[c].end \in Nat
      BY <1>2, <1>6
    <3>3. Wrap(EmptyAfter(c) - areas[c].end) = EmptyAfter(c) - areas[c].end
      <4> DEFINE gap == EmptyAfter(c) - areas[c].end
      <4>1. gap \in Int /\ 0 <= gap /\ gap < Word
        <5>1. areas[c].end <= EmptyAfter(c) /\ EmptyAfter(c) < Word /\ Word \in Nat
          BY <1>1, <1>7, <3>1
        <5>2. QED
          BY <1>7, <3>2, <5>1
      <4> HIDE DEF gap
      <4>2. Wrap(gap) = gap
        BY <4>1, NoWrap
      <4>3. QED
        BY <4>2 DEF gap
    <3>4. EmptyAfter(c) - areas[c].end > len + 2
      BY <1>6, <2>4, <3>3 DEF RoomAfter
    <3>5. p = areas[c].end + 1 /\ p + len < EmptyAfter(c)
      BY <1>5, <1>7, <2>4, <3>2, <3>4
    <3>6. ASSUME NEW i \in 1 .. n
          PROVE  areas[i].end <= p \/ (p + len <= areas[i].start /\ p < areas[i].start)
      <4>1. CASE i <= c
        <5>1. i < c => areas[i].end <= areas[c].start
          BY <1>6, <2>1 DEF Apart
        <5>2. areas[i].end <= areas[c].end
          BY <1>2, <1>6, <4>1, <5>1
        <5>3. QED
          BY <1>2, <3>2, <3>5, <5>2
      <4>2. CASE i > c
        <5>1. EmptyAfter(c) <= areas[i].start
          BY <1>6, <3>1, <4>2
        <5>2. QED
          BY <1>2, <1>7, <1>8, <3>5, <5>1
      <4>3. QED
        BY <1>6, <4>1, <4>2
    <3>7. QED
      BY <1>1, <1>7, <1>8, <3>1, <3>5, <3>6 DEF Clear
  <2>5. QED
    BY <2>3, <2>4
<1>10. QED
  BY <1>8, <1>9 DEF p

-----------------------------------------------------------------------------
(* How many areas map the file, after an insertion and after a join.       *)
FileAreas(s) == {i \in 1 .. Len(s) : s[i].file}

(* The areas that map the file are finitely many.                          *)
LEMMA FilesFinite ==
  ASSUME NEW s \in Seq(Area)
  PROVE  IsFiniteSet(FileAreas(s)) /\ Cardinality(FileAreas(s)) \in Nat
<1>1. Len(s) \in Nat
  BY AreaType
<1>2. IsFiniteSet(1 .. Len(s)) /\ FileAreas(s) \in SUBSET (1 .. Len(s))
  BY <1>1, FS_Interval DEF FileAreas
<1>3. QED
  BY <1>2, FS_Subset, FS_CardinalityType

(* An insertion adds one if the new area maps the file.                    *)
LEMMA InsertCount ==
  ASSUME NEW s \in Seq(Area), NEW a \in Area, NEW k, NEW t, Inserted(s, a, k, t)
  PROVE  Cardinality(FileAreas(t)) = Cardinality(FileAreas(s)) + (IF a.file THEN 1 ELSE 0)
<1> DEFINE F == FileAreas(s)
           G == FileAreas(t) \ {k + 1}
           q == [i \in F |-> IF i <= k THEN i ELSE i + 1]
<1>1. /\ Len(s) \in Nat /\ k \in 0 .. Len(s) /\ Len(t) = Len(s) + 1 /\ t \in Seq(Area)
      /\ \A i \in 1 .. Len(s) + 1 :
           t[i] = IF i <= k THEN s[i] ELSE IF i = k + 1 THEN a ELSE s[i - 1]
  BY AreaType DEF Inserted
<1>2. ASSUME NEW i \in F PROVE q[i] \in G
  <2>1. i \in 1 .. Len(s) /\ s[i].file
    BY DEF FileAreas
  <2>2. CASE i <= k
    <3>1. i \in 1 .. Len(t) /\ t[i] = s[i] /\ i # k + 1
      BY <1>1, <2>1, <2>2
    <3>2. QED
      BY <2>1, <2>2, <3>1 DEF FileAreas
  <2>3. CASE ~(i <= k)
    <3>1. i + 1 \in 1 .. Len(t) /\ t[i + 1] = s[i] /\ i + 1 # k + 1
      BY <1>1, <2>1, <2>3
    <3>2. QED
      BY <2>1, <2>3, <3>1 DEF FileAreas
  <2>4. QED
    BY <2>2, <2>3
<1>3. \A i, j \in F : q[i] = q[j] => i = j
  BY <1>1 DEF FileAreas
<1>4. ASSUME NEW j \in G PROVE \E i \in F : q[i] = j
  <2>1. j \in 1 .. Len(t) /\ t[j].file /\ j # k + 1
    BY DEF FileAreas
  <2>2. CASE j <= k
    <3>1. j \in F
      BY <1>1, <2>1, <2>2 DEF FileAreas
    <3>2. QED
      BY <2>2, <3>1
  <2>3. CASE ~(j <= k)
    <3>1. j - 1 \in 1 .. Len(s) /\ s[j - 1] = t[j] /\ ~(j - 1 <= k) /\ j - 1 + 1 = j
      BY <1>1, <2>1, <2>3
    <3>2. j - 1 \in F
      BY <2>1, <3>1 DEF FileAreas
    <3>3. q[j - 1] = j
      BY <3>1, <3>2
    <3>4. QED
      BY <3>2, <3>3
  <2>4. QED
    BY <2>2, <2>3
<1>5. q \in [F -> G]
  BY <1>2
<1> HIDE DEF q, F, G
<1>6. ExistsBijection(F, G)
  <2>1. q \in Bijection(F, G)
    BY <1>3, <1>4, <1>5 DEF Bijection, Injection, Surjection, IsInjective
  <2>2. QED
    BY <2>1 DEF ExistsBijection
<1>7. IsFiniteSet(G) /\ Cardinality(G) = Cardinality(F) /\ Cardinality(G) \in Nat
  BY <1>6, FilesFinite, FS_Bijection, FS_CardinalityType DEF F
<1>8. k + 1 \in 1 .. Len(t) /\ t[k + 1] = a /\ k + 1 \notin G
  BY <1>1 DEF G
<1>9. CASE a.file
  <2>1. FileAreas(t) = G \cup {k + 1}
    BY <1>8, <1>9 DEF G, FileAreas
  <2>2. QED
    BY <1>7, <1>8, <1>9, <2>1, FS_AddElement, ZenonT(30) DEF F
<1>10. CASE ~a.file
  <2>1. FileAreas(t) = G
    BY <1>8, <1>10 DEF G, FileAreas
  <2>2. QED
    BY <1>7, <1>10, <2>1 DEF F
<1>11. QED
  BY <1>9, <1>10

(* A join takes one away if its areas map the file.                        *)
LEMMA JoinCount ==
  ASSUME NEW s \in Seq(Area), NEW i, NEW t, Joined(s, i, t), s[i].file = s[i + 1].file
  PROVE  Cardinality(FileAreas(s)) = Cardinality(FileAreas(t)) + (IF s[i].file THEN 1 ELSE 0)
<1> DEFINE F == FileAreas(t)
           G == FileAreas(s) \ {i + 1}
           q == [j \in F |-> IF j <= i THEN j ELSE j + 1]
<1>1. /\ Len(s) \in Nat /\ i \in 1 .. Len(s) - 1 /\ Len(t) = Len(s) - 1 /\ t \in Seq(Area)
      /\ \A j \in 1 .. Len(s) - 1 :
           t[j] = IF j < i THEN s[j]
                  ELSE IF j = i THEN [s[i] EXCEPT !.end = s[i + 1].end] ELSE s[j + 1]
  BY AreaType DEF Joined
<1>2. t[i].file = s[i].file
  <2>1. t[i] = [s[i] EXCEPT !.end = s[i + 1].end] /\ s[i] \in Area
    BY <1>1, AreaType
  <2>2. QED
    BY <2>1 DEF Area
<1>3. \A j \in 1 .. Len(t) : t[j].file = s[IF j <= i THEN j ELSE j + 1].file
  BY <1>1, <1>2
<1>4. ASSUME NEW j \in F PROVE q[j] \in G
  <2> DEFINE f == IF j <= i THEN j ELSE j + 1
  <2>1. j \in 1 .. Len(t) /\ t[j].file
    BY DEF FileAreas
  <2>2. f \in 1 .. Len(s) /\ f # i + 1 /\ s[f].file /\ q[j] = f
    BY <1>1, <1>3, <2>1
  <2>3. QED
    BY <2>2 DEF FileAreas
<1>5. \A j, l \in F : q[j] = q[l] => j = l
  BY <1>1 DEF FileAreas
<1>6. ASSUME NEW l \in G PROVE \E j \in F : q[j] = l
  <2> DEFINE g == IF l <= i THEN l ELSE l - 1
  <2>1. l \in 1 .. Len(s) /\ s[l].file /\ l # i + 1
    BY DEF FileAreas
  <2>2. g \in 1 .. Len(t) /\ (IF g <= i THEN g ELSE g + 1) = l
    BY <1>1, <2>1
  <2>3. t[g].file
    BY <1>3, <2>1, <2>2
  <2>4. g \in F
    BY <2>2, <2>3 DEF FileAreas
  <2> HIDE DEF g
  <2>5. QED
    BY <2>2, <2>4
<1>7. q \in [F -> G]
  BY <1>4
<1> HIDE DEF q, F, G
<1>8. ExistsBijection(F, G)
  <2>1. q \in Bijection(F, G)
    BY <1>5, <1>6, <1>7 DEF Bijection, Injection, Surjection, IsInjective
  <2>2. QED
    BY <2>1 DEF ExistsBijection
<1>9. IsFiniteSet(G) /\ Cardinality(G) = Cardinality(F) /\ Cardinality(G) \in Nat
  BY <1>1, <1>8, FilesFinite, FS_Bijection, FS_CardinalityType DEF F
<1>10. i + 1 \in 1 .. Len(s) /\ i + 1 \notin G
  BY <1>1 DEF G
<1>11. CASE s[i].file
  <2>1. FileAreas(s) = G \cup {i + 1}
    BY <1>10, <1>11, ZenonT(30) DEF G, FileAreas
  <2>2. QED
    BY <1>9, <1>10, <1>11, <2>1, FS_AddElement, ZenonT(30) DEF F
<1>12. CASE ~s[i].file
  <2>1. FileAreas(s) = G
    BY <1>10, <1>12 DEF G, FileAreas
  <2>2. QED
    BY <1>9, <1>12, <2>1 DEF F
<1>13. QED
  BY <1>11, <1>12

-----------------------------------------------------------------------------
(* The inductive invariant.  While the loader maps, no page is mapped and  *)
(* no two neighbours can be joined, so that the next join takes in the     *)
(* area just inserted; every entry of the page table is writable, so that  *)
(* user code faults only where there is none.                              *)
Entries(p) == {v \in Pages : pte[v] # None /\ pte[v].page = p}

ASInv ==
  /\ TypeOK /\ Good(areas) /\ Fresh \subseteq DOMAIN refcnt
  /\ mode = "load" => Joins(areas) = {} /\ \A v \in Pages : pte[v] = None
  /\ \A v \in Pages : pte[v] # None => pte[v].rw
  /\ RefsExact /\ RightPage

(* There are finitely many pages.                                          *)
LEMMA EntriesFinite ==
  ASSUME NEW S \in SUBSET Pages
  PROVE  IsFiniteSet(S) /\ Cardinality(S) \in Nat
<1>1. IsFiniteSet(Pages)
  BY LayoutAssumption, FS_Interval DEF Pages
<1>2. QED
  BY <1>1, FS_Subset, FS_CardinalityType

(* The invariant holds at first.                                           *)
LEMMA SpaceInit == Init => ASInv
<1> SUFFICES ASSUME Init PROVE ASInv
  OBVIOUS
<1>1. /\ areas = <<>> /\ mapped = 0 /\ fileRefs = 1 /\ mode = "load" /\ spoilt = {}
      /\ pte = [v \in Pages |-> None]
  BY DEF Init
<1>2. PICK n \in 1 .. Slots :
        refcnt = [p \in (0 .. n - 1) \cup Fresh |-> IF p \in Fresh THEN 0 ELSE 1]
  BY DEF Init
<1>3. Slots \in Nat /\ MaxHeaders \in Nat /\ Fresh \cap Nat = {}
  BY LayoutAssumption
<1>4. DOMAIN refcnt = (0 .. n - 1) \cup Fresh /\ Cached = 0 .. n - 1
  BY <1>2, <1>3 DEF Cached
<1>5. TypeOK
  BY <1>1, <1>2, <1>3, <1>4 DEF TypeOK
<1>6. Good(areas) /\ Joins(areas) = {}
  BY <1>1 DEF Good, Sorted, Apart, Joins
<1>7. RefsExact
  <2>1. ASSUME NEW p \in DOMAIN refcnt
        PROVE  refcnt[p] = Cardinality({v \in Pages : pte[v] # None /\ pte[v].page = p})
                            + (IF p \in Cached THEN 1 ELSE 0)
    <3>1. {v \in Pages : pte[v] # None /\ pte[v].page = p} = {}
      BY <1>1
    <3>2. refcnt[p] = IF p \in Cached THEN 1 ELSE 0
      BY <1>2, <1>3, <1>4
    <3>3. Cardinality({v \in Pages : pte[v] # None /\ pte[v].page = p}) = 0
      BY <3>1, FS_EmptySet
    <3>4. QED
      BY <3>2, <3>3
  <2>2. {i \in 1 .. Len(areas) : areas[i].file} = {}
    BY <1>1
  <2>3. fileRefs = 1 + Cardinality({i \in 1 .. Len(areas) : areas[i].file})
    BY <1>1, <2>2, FS_EmptySet
  <2>4. QED
    BY <2>1, <2>3 DEF RefsExact
<1>8. RightPage
  BY <1>1 DEF RightPage
<1>9. QED
  BY <1>1, <1>4, <1>5, <1>6, <1>7, <1>8 DEF ASInv

-----------------------------------------------------------------------------
(* After an insertion into a list without neighbours to join, a pair to    *)
(* join has the new area in it.                                            *)
LEMMA JoinsNew ==
  ASSUME NEW s \in Seq(Area), Joins(s) = {}, NEW a, NEW k, NEW t, Inserted(s, a, k, t),
         NEW i \in Joins(t)
  PROVE  i = k \/ i = k + 1
<1>1. /\ Len(s) \in Nat /\ k \in 0 .. Len(s) /\ Len(t) = Len(s) + 1
      /\ \A j \in 1 .. Len(s) + 1 :
           t[j] = IF j <= k THEN s[j] ELSE IF j = k + 1 THEN a ELSE s[j - 1]
  BY AreaType DEF Inserted
<1>2. i \in 1 .. Len(t) - 1 /\ t[i].end = t[i + 1].start /\ t[i].file = t[i + 1].file /\ t[i].prot = t[i + 1].prot
  BY DEF Joins
<1>3. CASE i < k
  <2>1. t[i] = s[i] /\ t[i + 1] = s[i + 1] /\ i \in 1 .. Len(s) - 1
    BY <1>1, <1>2, <1>3
  <2>2. i \in Joins(s)
    BY <1>2, <2>1 DEF Joins
  <2>3. QED
    BY <2>2
<1>4. CASE i > k + 1
  <2>1. t[i] = s[i - 1] /\ t[i + 1] = s[i - 1 + 1] /\ i - 1 \in 1 .. Len(s) - 1
    BY <1>1, <1>2, <1>4
  <2>2. i - 1 \in Joins(s)
    BY <1>2, <2>1 DEF Joins
  <2>3. QED
    BY <2>2
<1>5. QED
  BY <1>1, <1>2, <1>3, <1>4

(* do_mmap, with insert_vma and try_join.                                  *)
LEMMA MmapStep ==
  ASSUME ASInv, mode = "load", NEW done \in {"load", "user"},
         NEW f \in BOOLEAN, NEW prot \in SUBSET Bits, NEW off \in Nat,
         NEW addr \in Nat, NEW len \in Nat, addr + len <= Limit,
         DoMmap([file |-> f, prot |-> prot, off |-> off], addr, len, done),
         mapped' \in 0 .. MaxHeaders, UNCHANGED <<pte, refcnt, spoilt>>
  PROVE  ASInv'
<1> DEFINE place == Place(addr, len)
           start == IF place = None THEN 0 ELSE place
           end == IF place = None THEN 0 ELSE place + len
           a == [start |-> start, end |-> end, file |-> f, prot |-> prot, off |-> off]
           new == InsertVma(a)
           i == CHOOSE k \in Joins(new) : \A j \in Joins(new) : k <= j
<1>1. TypeOK /\ areas \in Seq(Area) /\ Good(areas) /\ RefsExact /\ Joins(areas) = {} /\ Sorted(areas)
      /\ fileRefs \in Nat /\ \A v \in Pages : pte[v] = None
  BY DEF ASInv, TypeOK, Good
<1>2. fileRefs = 1 + Cardinality(FileAreas(areas))
  BY <1>1 DEF RefsExact, FileAreas
<1>3. Cached' = Cached
  BY DEF Cached
<1>4. ASSUME areas' \in Seq(Area), Good(areas'), fileRefs' \in Nat,
             mode' \in {"load", "user", "poison"},
             mode' = "load" => Joins(areas') = {},
             fileRefs' = 1 + Cardinality(FileAreas(areas'))
      PROVE  ASInv'
  <2>1. TypeOK'
    BY <1>1, <1>3, <1>4 DEF TypeOK
  <2>2. RefsExact'
    <3>1. fileRefs' = 1 + Cardinality({j \in 1 .. Len(areas') : areas'[j].file})
      BY <1>4 DEF FileAreas
    <3>2. QED
      BY <1>1, <1>3, <3>1 DEF RefsExact
  <2>3. RightPage' /\ \A v \in Pages : pte'[v] = None
    BY <1>1 DEF RightPage
  <2>4. QED
    BY <1>4, <2>1, <2>2, <2>3 DEF ASInv
<1>5. place # None =>
        /\ place \in Nat
        /\ High(areas) => Clear(areas, place, place + len) /\ place + len <= Limit
  <2> SUFFICES ASSUME place # None
               PROVE  /\ place \in Nat
                      /\ High(areas) => Clear(areas, place, place + len) /\ place + len <= Limit
    OBVIOUS
  <2>1. CASE addr # 0 /\ IsValid(addr, len)
    <3>1. place = addr
      BY <2>1 DEF Place
    <3>2. QED
      BY <1>1, <2>1, <3>1, ValidClear
  <2>2. CASE ~(addr # 0 /\ IsValid(addr, len))
    <3>1. place = AssignVaddr(len)
      BY <2>2 DEF Place
    <3>2. AssignVaddr(len) # None
      BY <3>1
    <3>3. QED
      BY <1>1, <3>1, <3>2, AssignClear
  <2>3. QED
    BY <2>1, <2>2
<1>6. QED
  <2>1. /\ start \in Nat /\ end \in Nat /\ start <= end
        /\ High(areas) /\ start >= LowLimit => Clear(areas, start, end) /\ end <= Limit
    <3>1. LowLimit \in Nat \ {0}
      BY LayoutAssumption
    <3> HIDE DEF place
    <3>2. CASE place = None
      BY <3>1, <3>2
    <3>3. CASE place # None
      BY <1>5, <3>3
    <3>4. QED
      BY <3>2, <3>3
  <2>2. DoMmap([file |-> f, prot |-> prot, off |-> off], addr, len, done) <=>
          IF Joins(new) = {}
          THEN /\ areas' = new /\ mode' = done
               /\ fileRefs' = fileRefs + (IF f THEN 1 ELSE 0)
          ELSE /\ areas' = SubSeq(new, 1, i - 1)
                           \o <<[new[i] EXCEPT !.end = new[i + 1].end]>>
                           \o SubSeq(new, i + 2, Len(new))
               /\ mode' = "poison"
               /\ fileRefs' = fileRefs
    BY ZenonT(30) DEF DoMmap
  <2> HIDE DEF start, end
  <2>3. a \in Area /\ a.start = start /\ a.end = end /\ a.file = f /\ a.start <= a.end
    BY <2>1 DEF Area
  <2> HIDE DEF a
  <2>4. PICK k : /\ Inserted(areas, a, k, new)
                 /\ \A j \in 1 .. k : areas[j].start <= a.start
                 /\ \A j \in k + 1 .. Len(areas) : areas[j].start > a.start
    BY <1>1, <2>3, InsertPlace
  <2>5. new \in Seq(Area)
    BY <2>4 DEF Inserted
  <2>6. Good(new)
    BY <1>1, <2>1, <2>3, <2>4, InsertGood
  <2>7. Cardinality(FileAreas(new)) = Cardinality(FileAreas(areas)) + (IF f THEN 1 ELSE 0)
    BY <1>1, <2>3, <2>4, InsertCount
  <2>8. Cardinality(FileAreas(areas)) \in Nat
    BY <1>1, FilesFinite
  <2> HIDE DEF new
  <2>9. CASE Joins(new) = {}
    <3>1. areas' = new /\ mode' = done /\ fileRefs' = fileRefs + (IF f THEN 1 ELSE 0)
      BY <2>2, <2>9
    <3>2. fileRefs' \in Nat /\ fileRefs' = 1 + Cardinality(FileAreas(new))
      BY <1>1, <1>2, <2>7, <2>8, <3>1
    <3>3. QED
      BY <1>4, <2>5, <2>6, <2>9, <3>1, <3>2
  <2>10. CASE Joins(new) # {}
    <3>1. i \in Joins(new)
      <4>1. Joins(new) \in SUBSET (1 .. Len(new)) /\ Len(new) \in Nat
        BY <2>5 DEF Joins
      <4>2. QED
        BY <2>10, <4>1, Least, ZenonT(30)
    <3>2. i \in 1 .. Len(new) - 1 /\ new[i].end = new[i + 1].start /\ new[i].file = new[i + 1].file
      BY <3>1, ZenonT(30) DEF Joins
    <3> HIDE DEF i
    <3>3. /\ mode' = "poison" /\ fileRefs' = fileRefs
          /\ areas' = SubSeq(new, 1, i - 1) \o <<[new[i] EXCEPT !.end = new[i + 1].end]>>
                           \o SubSeq(new, i + 2, Len(new))
      BY <2>2, <2>10, ZenonT(30)
    <3>4. Joined(new, i, areas')
      BY <2>5, <3>2, <3>3, JoinSeq
    <3>5. areas' \in Seq(Area)
      BY <3>4 DEF Joined
    <3>6. Good(areas')
      BY <2>5, <2>6, <3>2, <3>4, JoinGood
    <3>7. new[i].file = f
      <4>1. i = k \/ i = k + 1
        BY <1>1, <2>4, <3>1, JoinsNew
      <4>2. new[k + 1] = a
        BY <1>1, <2>4 DEF Inserted
      <4>3. QED
        BY <2>3, <3>2, <4>1, <4>2
    <3>8. Cardinality(FileAreas(new)) = Cardinality(FileAreas(areas')) + (IF f THEN 1 ELSE 0)
      BY <2>5, <3>2, <3>4, <3>7, JoinCount, ZenonT(30)
    <3>9. Cardinality(FileAreas(areas')) \in Nat
      BY <3>5, FilesFinite
    <3>10. fileRefs' = 1 + Cardinality(FileAreas(areas'))
      BY <1>2, <2>7, <2>8, <3>3, <3>8, <3>9
    <3>11. QED
      BY <1>1, <1>4, <3>3, <3>5, <3>6, <3>10
  <2>11. QED
    BY <2>9, <2>10

-----------------------------------------------------------------------------
(* A page fault that maps a page where there was none: a cached page in    *)
(* its place of an area of the file, or a page alloc_pages gave.           *)
LEMMA MapStep ==
  ASSUME ASInv, mode = "user", NEW v \in Pages, pte[v] = None,
         NEW page \in DOMAIN refcnt, NEW prot, MapPage(v, page, prot),
         \/ /\ page \in Cached
            /\ \E i \in 1 .. Len(areas) :
                 /\ areas[i].file /\ areas[i].start <= v /\ v < areas[i].end
                 /\ page - areas[i].off = v - areas[i].start
         \/ page \in Fresh /\ refcnt[page] = 0,
         UNCHANGED <<areas, mapped, fileRefs, spoilt, mode>>
  PROVE  ASInv'
<1> DEFINE e == [page |-> page, rw |-> TRUE]
<1>1. /\ TypeOK /\ refcnt \in [DOMAIN refcnt -> Nat] /\ RefsExact /\ RightPage
      /\ pte \in [Pages -> [page : DOMAIN refcnt, rw : BOOLEAN] \cup {None}]
      /\ Cached \subseteq 0 .. Slots - 1 /\ Fresh \subseteq DOMAIN refcnt /\ Slots \in Nat
  BY LayoutAssumption DEF ASInv, TypeOK
<1>2. pte' = [pte EXCEPT ![v] = e] /\ refcnt' = [refcnt EXCEPT ![page] = refcnt[page] + 1]
  BY DEF MapPage, Rw
<1>3. DOMAIN refcnt' = DOMAIN refcnt /\ Cached' = Cached
  BY <1>1, <1>2 DEF Cached
<1>4. e # None /\ e \in [page : DOMAIN refcnt, rw : BOOLEAN] /\ e.page = page /\ e.rw
  <2>1. DOMAIN refcnt \subseteq Nat \cup Fresh
    BY <1>1 DEF Cached
  <2>2. e \in [page : DOMAIN refcnt, rw : BOOLEAN] /\ e.page = page /\ e.rw
    OBVIOUS
  <2>3. e \in [page : Nat \cup Fresh, rw : BOOLEAN]
    BY <2>1
  <2> HIDE DEF e
  <2>4. e # None
    BY <2>3, LayoutAssumption
  <2>5. QED
    BY <2>2, <2>4
<1>5. pte'[v] = e /\ \A w \in Pages \ {v} : pte'[w] = pte[w]
  BY <1>1, <1>2
<1> HIDE DEF e
<1>6. refcnt'[page] = refcnt[page] + 1 /\ \A p \in DOMAIN refcnt \ {page} : refcnt'[p] = refcnt[p]
  BY <1>1, <1>2
<1>7. TypeOK'
  <2>1. refcnt' \in [DOMAIN refcnt -> Nat]
    BY <1>1, <1>2
  <2>2. pte' \in [Pages -> [page : DOMAIN refcnt, rw : BOOLEAN] \cup {None}]
    BY <1>1, <1>2, <1>4
  <2>3. QED
    BY <1>1, <1>3, <2>1, <2>2 DEF TypeOK
<1>8. \A w \in Pages : pte'[w] # None => pte'[w].rw
  BY <1>4, <1>5 DEF ASInv
<1>9. RefsExact'
  <2>1. ASSUME NEW p \in DOMAIN refcnt
        PROVE  refcnt'[p] = Cardinality({w \in Pages : pte'[w] # None /\ pte'[w].page = p})
                            + (IF p \in Cached THEN 1 ELSE 0)
    <3> DEFINE S == Entries(p)
               T == {w \in Pages : pte'[w] # None /\ pte'[w].page = p}
    <3>1. refcnt[p] = Cardinality(S) + (IF p \in Cached THEN 1 ELSE 0)
      BY <1>1 DEF RefsExact, Entries
    <3>2. IsFiniteSet(S) /\ Cardinality(S) \in Nat
      BY EntriesFinite DEF Entries
    <3>3. CASE p = page
      <4>1. T = S \cup {v} /\ v \notin S
        BY <1>4, <1>5, <3>3 DEF Entries
      <4>2. Cardinality(T) = Cardinality(S) + 1
        BY <3>2, <4>1, FS_AddElement, ZenonT(30)
      <4>3. QED
        BY <1>6, <3>1, <3>2, <3>3, <4>2
    <3>4. CASE p # page
      <4>1. T = S
        BY <1>4, <1>5, <3>4 DEF Entries
      <4>2. QED
        BY <1>6, <3>1, <3>4, <4>1, ZenonT(30)
    <3>5. QED
      BY <3>3, <3>4
  <2>2. QED
    BY <1>1, <1>3, <2>1 DEF RefsExact
<1>10. RightPage'
  <2>1. ASSUME page \notin Cached, NEW w \in Pages, pte[w] # None, pte[w].page = page
        PROVE  FALSE
    <3>1. refcnt[page] = 0 /\ refcnt[page] = Cardinality(Entries(page))
      <4>1. refcnt[page] = Cardinality(Entries(page)) + (IF page \in Cached THEN 1 ELSE 0)
        BY <1>1 DEF RefsExact, Entries
      <4>2. Cardinality(Entries(page)) \in Nat
        BY EntriesFinite DEF Entries
      <4>3. QED
        BY <2>1, <4>1, <4>2
    <3>2. Entries(page) = {}
      <4>1. IsFiniteSet(Entries(page))
        BY EntriesFinite DEF Entries
      <4>2. QED
        BY <3>1, <4>1, FS_EmptySet
    <3>3. QED
      BY <2>1, <3>2 DEF Entries
  <2>2. ASSUME NEW u \in Pages, pte'[u] # None, pte'[u].page \in Cached
        PROVE  \E i \in 1 .. Len(areas) :
                 /\ areas[i].file /\ areas[i].start <= u /\ u < areas[i].end
                 /\ pte'[u].page - areas[i].off = u - areas[i].start
    <3>1. CASE u = v
      <4>1. pte'[u].page = page /\ page \notin Fresh
        BY <1>4, <1>5, <2>2, <3>1 DEF Cached
      <4>2. QED
        BY <3>1, <4>1
    <3>2. CASE u # v
      <4>1. pte'[u] = pte[u]
        BY <1>5, <3>2
      <4>2. QED
        BY <1>1, <2>2, <4>1 DEF RightPage
    <3>3. QED
      BY <3>1, <3>2
  <2>3. ASSUME NEW u \in Pages, pte'[u] # None, pte'[u].page \notin Cached, NEW w \in Pages \ {u}
        PROVE  pte'[w] = None \/ pte'[w].page # pte'[u].page
    <3>1. CASE u = v
      <4>1. pte'[u].page = page /\ pte'[w] = pte[w]
        BY <1>4, <1>5, <3>1
      <4>2. QED
        BY <2>1, <2>3, <4>1
    <3>2. CASE w = v
      <4>1. pte'[w].page = page /\ pte'[u] = pte[u]
        BY <1>4, <1>5, <3>2
      <4>2. QED
        BY <2>1, <2>3, <4>1
    <3>3. CASE u # v /\ w # v
      <4>1. pte'[w] = pte[w] /\ pte'[u] = pte[u]
        BY <1>5, <3>3
      <4>2. QED
        BY <1>1, <2>3, <4>1 DEF RightPage
    <3>4. QED
      BY <3>1, <3>2, <3>3
  <2>4. QED
    BY <1>3, <2>2, <2>3 DEF RightPage
<1>11. QED
  BY <1>1, <1>3, <1>7, <1>8, <1>9, <1>10 DEF ASInv

(* A step that maps nothing and only ends the program.                     *)
LEMMA StopStep ==
  ASSUME ASInv, mode = "user", mode' \in {"user", "segfault", "sigbus", "wild"},
         spoilt' \subseteq Cached,
         UNCHANGED <<areas, mapped, fileRefs, pte, refcnt>>
  PROVE  ASInv'
<1>1. TypeOK'
  BY DEF ASInv, TypeOK, Cached
<1>2. RefsExact'
  BY DEF ASInv, RefsExact, Cached
<1>3. RightPage'
  BY DEF ASInv, RightPage, Cached
<1>4. QED
  BY <1>1, <1>2, <1>3 DEF ASInv

(* kernel_page_fault: since every entry is writable there was none.        *)
LEMMA FaultStep ==
  ASSUME ASInv, NEW v \in Pages, NEW write \in BOOLEAN, PageFault(v, write)
  PROVE  ASInv'
<1> DEFINE h == Holding(v)
           c == CHOOSE i \in h : \A j \in h : i <= j
           a == areas[c]
<1>1. /\ mode = "user" /\ FreePages # {} /\ pte[v] = None
      /\ UNCHANGED <<areas, mapped, fileRefs, spoilt>>
  BY DEF PageFault, ASInv
<1>2. TypeOK /\ areas \in Seq(Area) /\ spoilt \subseteq Cached /\ v \in Nat
  BY LayoutAssumption DEF ASInv, TypeOK, Pages
<1>3. CASE h = {}
  <2>1. mode' = "segfault" /\ UNCHANGED <<pte, refcnt>>
    BY <1>3 DEF PageFault
  <2>2. QED
    BY <1>1, <1>2, <2>1, StopStep
<1>4. CASE h # {}
  <2>1. c \in h
    <3>1. h \in SUBSET (1 .. Len(areas)) /\ Len(areas) \in Nat
      BY <1>2, AreaType DEF Holding
    <3> HIDE DEF h
    <3>2. QED
      BY <1>4, <3>1, Least, ZenonT(30)
  <2>2. c \in 1 .. Len(areas) /\ a.start <= v /\ v < a.end
    BY <2>1 DEF Holding
  <2>3. FindVma(v) = a
    BY DEF FindVma
  <2> HIDE DEF c, h
  <2>4. a \in Area /\ a.start \in Nat /\ a.end \in Nat /\ a.off \in Nat
    BY <1>2, <2>2, AreaType DEF Area
  <2>5. CASE a.file
    <3>1. RamfsFault(v, write, a)
      BY <1>4, <2>3, <2>5 DEF PageFault, h
    <3>2. CASE FilePage(v, a) >= Slots
      <4>1. mode' = "wild" /\ UNCHANGED <<pte, refcnt>>
        BY <3>1, <3>2 DEF RamfsFault
      <4>2. QED
        BY <1>1, <1>2, <4>1, StopStep
    <3>3. CASE ~(FilePage(v, a) >= Slots) /\ ~HasPage(FilePage(v, a))
      <4>1. mode' = "sigbus" /\ UNCHANGED <<pte, refcnt>>
        BY <3>1, <3>3 DEF RamfsFault
      <4>2. QED
        BY <1>1, <1>2, <4>1, StopStep
    <3>4. CASE ~(FilePage(v, a) >= Slots) /\ HasPage(FilePage(v, a))
      <4>1. MapPage(v, FilePage(v, a), a.prot) /\ UNCHANGED mode
        BY <1>1, <3>1, <3>4 DEF RamfsFault
      <4>2. FilePage(v, a) \in Cached /\ FilePage(v, a) \in DOMAIN refcnt
        BY <3>4 DEF HasPage, Cached
      <4>3. FilePage(v, a) - a.off = v - a.start
        BY <1>2, <2>4 DEF FilePage
      <4>4. QED
        BY <1>1, <2>2, <2>5, <4>1, <4>2, <4>3, MapStep
    <3>5. QED
      BY <3>2, <3>3, <3>4
  <2>6. CASE ~a.file
    <3>1. AnonymousFault(v, a)
      BY <1>4, <2>3, <2>6 DEF PageFault, h
    <3>2. MapPage(v, AllocPages, a.prot) /\ UNCHANGED mode
      BY <1>1, <3>1 DEF AnonymousFault
    <3>3. AllocPages \in Fresh /\ refcnt[AllocPages] = 0 /\ AllocPages \in DOMAIN refcnt
      <4>1. AllocPages \in FreePages
        BY <1>1 DEF AllocPages
      <4>2. QED
        BY <4>1 DEF FreePages, ASInv
    <3>4. QED
      BY <1>1, <3>2, <3>3, MapStep
  <2>7. QED
    BY <2>5, <2>6
<1>5. QED
  BY <1>3, <1>4

(* Every step keeps the invariant.                                         *)
LEMMA SpaceStep == ASInv /\ [Next]_vars => ASInv'
<1> SUFFICES ASSUME ASInv, [Next]_vars PROVE ASInv'
  OBVIOUS
<1>1. ASSUME NEW h \in Headers, MapSegment(h) PROVE ASInv'
  <2>1. /\ h.vaddr \in Nat /\ h.pages \in Nat /\ h.prot \in SUBSET {"READ", "WRITE", "EXEC"} /\ h.off \in Nat
        /\ h.vaddr + h.pages <= Limit
    BY LayoutAssumption
  <2>2. mapped' \in 0 .. MaxHeaders
    <3>1. mapped' = mapped + 1 /\ mapped < MaxHeaders
      BY <1>1 DEF MapSegment
    <3>2. mapped \in 0 .. MaxHeaders /\ MaxHeaders \in Nat
      BY LayoutAssumption DEF ASInv, TypeOK
    <3>3. QED
      BY <3>1, <3>2
  <2>3. mode = "load" /\ UNCHANGED <<pte, refcnt, spoilt>>
    BY <1>1 DEF MapSegment
  <2>4. Private(h.prot) \in SUBSET Bits
    BY <2>1 DEF Private, Bits
  <2>5. DoMmap([file |-> TRUE, prot |-> Private(h.prot), off |-> h.off], h.vaddr, h.pages, "load")
    BY <1>1 DEF MapSegment
  <2>6. QED
    BY <2>1, <2>2, <2>3, <2>4, <2>5, MmapStep, ZenonT(30)
<1>2. CASE MapStack
  <2>1. StackBottom \in Nat /\ StackPages \in Nat /\ StackBottom + StackPages <= Limit
    BY LayoutAssumption
  <2>2. /\ mode = "load" /\ UNCHANGED <<pte, refcnt, spoilt>> /\ mapped' \in 0 .. MaxHeaders
        /\ DoMmap([file |-> FALSE, prot |-> {"READ", "WRITE"}, off |-> 0], StackBottom, StackPages, "user")
    BY <1>2 DEF MapStack, ASInv, TypeOK
  <2>3. {"READ", "WRITE"} \in SUBSET Bits
    BY DEF Bits
  <2>4. QED
    BY <2>1, <2>2, <2>3, MmapStep, ZenonT(30)
<1>3. ASSUME NEW v \in Pages, NEW write \in BOOLEAN, PageFault(v, write) PROVE ASInv'
  BY <1>3, FaultStep
<1>4. ASSUME NEW v \in Pages, UserWrite(v) PROVE ASInv'
  <2>1. spoilt' \subseteq Cached /\ mode = "user" /\ UNCHANGED <<areas, mapped, fileRefs, pte, refcnt, mode>>
    BY <1>4 DEF UserWrite, ASInv, TypeOK
  <2>2. QED
    BY <2>1, StopStep
<1>5. CASE UNCHANGED vars
  <2>1. TypeOK'
    BY <1>5 DEF vars, ASInv, TypeOK, Cached
  <2>2. RefsExact'
    BY <1>5 DEF vars, ASInv, RefsExact, Cached
  <2>3. RightPage'
    BY <1>5 DEF vars, ASInv, RightPage, Cached
  <2>4. QED
    BY <1>5, <2>1, <2>2, <2>3 DEF vars, ASInv
<1>6. QED
  BY <1>1, <1>2, <1>3, <1>4, <1>5 DEF Next

(* Everything the invariant says holds for ever: the types too.            *)
THEOREM SpaceInvariant == Spec => []ASInv
<1>1. QED
  BY SpaceInit, SpaceStep, PTL DEF Spec

(* For every set of program headers and every layout: wherever do_mmap     *)
(* puts the areas that collide, insert_vma keeps them in order and no two  *)
(* overlap, as long as the lowest starts at X86_LOW_LIMIT or above.        *)
THEOREM SpaceAreasDisjoint == Spec => []AreasDisjoint
<1>1. ASInv => AreasDisjoint
  BY DEF ASInv, Good, High, Apart, AreasDisjoint
<1>2. QED
  BY <1>1, SpaceInvariant, PTL

(* For every program: the counts of pages and of the file are exact,       *)
(* through every fault of kernel_page_fault and every join of try_join.    *)
THEOREM SpaceRefsExact == Spec => []RefsExact
<1>1. ASInv => RefsExact
  BY DEF ASInv
<1>2. QED
  BY <1>1, SpaceInvariant, PTL

(* For every program: a fault maps a page of the file only where a header  *)
(* put that part of the file, and never a fresh page twice.                *)
THEOREM SpaceRightPage == Spec => []RightPage
<1>1. ASInv => RightPage
  BY DEF ASInv
<1>2. QED
  BY <1>1, SpaceInvariant, PTL

(* For every program the area list, the page table and the counts keep     *)
(* their types: no page or file count ever falls below zero.               *)
THEOREM SpaceTypeOK == Spec => []TypeOK
<1>1. ASInv => TypeOK
  BY DEF ASInv
<1>2. QED
  BY <1>1, SpaceInvariant, PTL
=============================================================================
