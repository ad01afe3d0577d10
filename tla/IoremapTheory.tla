--------------------------- MODULE IoremapTheory ----------------------------
(***************************************************************************)
(* What the proofs about ioremap rest on: the zones of the vmap region,    *)
(* and the operators that make page tables.                                *)
(*                                                                         *)
(* get_vm_zone's list of zones for every region, page size and sequence of *)
(* calls: the zones never overlap, and the search is a first fit.  The     *)
(* list's invariant alone is not inductive, the loop in between has its    *)
(* own (ScanInv): addr is past every zone behind p and before every zone   *)
(* from p on, the zone still fits there as far as the region goes, and no  *)
(* address below addr would have done.                                     *)
(*                                                                         *)
(* Then the tables, as values: the numbers of slots (a page's indices are  *)
(* the digits of its number in base Radix), the tree the kernel's tables   *)
(* are (Tree), what entering a level (Enter, a table made if need be) and  *)
(* writing an entry do to the tree and to the pages mapped through it, and *)
(* where map_contiguous's loops begin and go.                              *)
(***************************************************************************)
EXTENDS Ioremap, TLAPS

USE SMTT(30), Z3T(30), SMTT(30), ZenonT(30)

ScanInv ==
  scan # Idle =>
    /\ scan.addr >= ZoneStart /\ scan.addr + scan.size <= ZoneEnd
    /\ \A i \in 1 .. scan.p - 1 : End(zones[i]) <= scan.addr
    /\ \A i \in scan.p .. Len(zones) : scan.addr <= zones[i].start
    /\ \A a \in ZoneStart .. scan.addr - 1 : ~Fits(a, scan.size)

IInv == TypeOK /\ ZonesDisjoint /\ ScanInv

-----------------------------------------------------------------------------
(* The list t is the list s with z put in at place k.                      *)
IsInsert(t, s, k, z) ==
  /\ t \in Seq(Zone) /\ Len(t) = Len(s) + 1
  /\ \A i \in 1 .. Len(s) + 1 :
       t[i] = IF i < k THEN s[i] ELSE IF i = k THEN z ELSE s[i - 1]

(* The list after an insertion ...                                         *)
LEMMA InsertSeq ==
  ASSUME NEW s \in Seq(Zone), NEW k \in 1 .. Len(s) + 1, NEW z \in Zone
  PROVE  IsInsert(Insert(s, k, z), s, k, z)
<1>1. Len(s) \in Nat /\ \A i \in 1 .. Len(s) : s[i] \in Zone
  OBVIOUS
<1>2. Insert(s, k, z) \in [1 .. Len(s) + 1 -> Zone]
  BY <1>1 DEF Insert
<1>3. QED
  BY <1>1, <1>2 DEF Insert, IsInsert

(* ... and after a removal.                                                *)
LEMMA DeleteSeq ==
  ASSUME NEW s \in Seq(Zone), NEW k \in 1 .. Len(s)
  PROVE  /\ Delete(s, k) \in Seq(Zone)
         /\ Len(Delete(s, k)) = Len(s) - 1
         /\ \A i \in 1 .. Len(s) - 1 : Delete(s, k)[i] = IF i < k THEN s[i] ELSE s[i + 1]
<1>1. Len(s) \in Nat /\ Len(s) - 1 \in Nat /\ \A i \in 1 .. Len(s) : s[i] \in Zone
  OBVIOUS
<1>2. Delete(s, k) \in [1 .. Len(s) - 1 -> Zone]
  BY <1>1 DEF Delete
<1>3. QED
  BY <1>1, <1>2 DEF Delete

-----------------------------------------------------------------------------
(* The invariant holds at first.                                           *)
LEMMA InitIInv == Init => IInv
  BY RegionAssumption DEF Init, IInv, TypeOK, ZonesDisjoint, ScanInv, Zone

(* The first test of the loop: the list ahead of p is all above addr, so   *)
(* `continue' is never taken, and nothing wraps.                           *)
LEMMA ScanAhead ==
  ASSUME IInv, scan # Idle
  PROVE  /\ scan.p \in 1 .. Len(zones) + 1 /\ scan.addr \in Nat /\ scan.size \in Nat
         /\ scan \in [p : Nat, addr : Nat, size : Nat]
         /\ scan.size + scan.addr < Word
         /\ Len(zones) \in Nat
         /\ \A i \in 1 .. Len(zones) :
              zones[i].start \in Nat /\ zones[i].size \in Nat /\ End(zones[i]) \in Nat
         /\ scan.p <= Len(zones) => zones[scan.p].start >= scan.addr
<1>1. /\ scan \in [p : Nat, addr : Nat, size : Nat] /\ scan.p \in 1 .. Len(zones) + 1
      /\ zones \in Seq(Zone)
  BY DEF IInv, TypeOK
<1>2. \A i \in 1 .. Len(zones) :
        zones[i].start \in Nat /\ zones[i].size \in Nat /\ End(zones[i]) \in Nat
  <2> SUFFICES ASSUME NEW i \in 1 .. Len(zones)
               PROVE  zones[i].start \in Nat /\ zones[i].size \in Nat /\ End(zones[i]) \in Nat
    OBVIOUS
  <2>1. zones[i] \in Zone
    BY <1>1
  <2>. QED BY <2>1 DEF Zone, End
<1>3. scan.addr + scan.size <= ZoneEnd
  BY DEF IInv, ScanInv
<1>4. scan.size + scan.addr < Word
  BY <1>1, <1>3, RegionAssumption DEF ZoneEnd
<1>5. scan.p <= Len(zones) => zones[scan.p].start >= scan.addr
  BY <1>1, <1>2 DEF IInv, ScanInv
<1>6. QED
  BY <1>1, <1>2, <1>4, <1>5

(* Between addr and the end of a zone whose gap is too small nothing fits. *)
LEMMA PassedNoFit ==
  ASSUME IInv, scan # Idle, scan.p <= Len(zones), TooSmall(zones[scan.p]),
         NEW a \in ZoneStart .. End(zones[scan.p]) - 1
  PROVE  ~Fits(a, scan.size)
<1>1. /\ scan.p \in 1 .. Len(zones) /\ scan.addr \in Nat /\ scan.size \in Nat
      /\ zones[scan.p].start \in Nat /\ End(zones[scan.p]) \in Nat
      /\ a \in Int /\ a >= ZoneStart /\ a < End(zones[scan.p])
  <2>1. scan.p \in 1 .. Len(zones)
    BY ScanAhead
  <2>2. End(zones[scan.p]) \in Nat
    BY <2>1, ScanAhead
  <2>. QED BY <2>1, <2>2, ScanAhead, RegionAssumption
<1>2. CASE a < scan.addr
  BY <1>1, <1>2, RegionAssumption DEF IInv, ScanInv
<1>3. CASE a >= scan.addr
  <2>1. a + scan.size > zones[scan.p].start /\ End(zones[scan.p]) > a
    BY <1>1, <1>3 DEF TooSmall
  <2>2. Fits(a, scan.size) =>
          a + scan.size <= zones[scan.p].start \/ End(zones[scan.p]) <= a
    BY <1>1 DEF Fits
  <2>. QED BY <1>1, <2>1, <2>2
<1>4. QED
  BY <1>1, <1>2, <1>3

(* Starting a search keeps the invariant.                                  *)
LEMMA GetVmZoneIInv ==
  ASSUME IInv, NEW size \in Sizes, GetVmZone(size)
  PROVE  IInv'
<1>1. Padded(size) \in Nat /\ Padded(size) <= ZoneSize
  BY RegionAssumption DEF GetVmZone, Padded
<1>2. /\ scan' = [p |-> 1, addr |-> ZoneStart, size |-> Padded(size)] /\ zones' = zones
      /\ Len(zones) \in Nat
  BY DEF GetVmZone, IInv, TypeOK
<1>3. TypeOK'
  BY <1>1, <1>2, RegionAssumption DEF IInv, TypeOK
<1>4. ZonesDisjoint'
  BY <1>2 DEF IInv, ZonesDisjoint
<1>5. ScanInv'
  BY <1>1, <1>2, RegionAssumption DEF IInv, ZonesDisjoint, ScanInv, ZoneEnd
<1>6. QED
  BY <1>3, <1>4, <1>5 DEF IInv

(* Passing a zone keeps the invariant and the search goes on.              *)
LEMMA ScanNextIInv ==
  ASSUME IInv, ScanNext
  PROVE  IInv' /\ scan' # Idle
<1> DEFINE z == zones[scan.p]
<1>1. /\ scan # Idle /\ scan.p \in 1 .. Len(zones) /\ scan.addr \in Nat /\ scan.size \in Nat
      /\ scan \in [p : Nat, addr : Nat, size : Nat]
      /\ Len(zones) \in Nat /\ z.start >= scan.addr
      /\ \A i \in 1 .. Len(zones) :
           zones[i].start \in Nat /\ zones[i].size \in Nat /\ End(zones[i]) \in Nat
  BY ScanAhead DEF ScanNext
<1>2. /\ TooSmall(z) /\ ~NoRoom(End(z)) /\ zones' = zones
      /\ scan' = [p |-> scan.p + 1, addr |-> End(z), size |-> scan.size]
  <2>1. ~(z.start < scan.addr)
    BY <1>1
  <2>. QED BY <2>1 DEF ScanNext, Past, Advance
<1>3. scan'.p = scan.p + 1 /\ scan'.addr = End(z) /\ scan'.size = scan.size
      /\ scan' \in [p : Nat, addr : Nat, size : Nat]
  <2>1. End(z) \in Nat
    BY <1>1
  <2>. HIDE DEF z
  <2>. QED BY <1>1, <1>2, <2>1
<1>4. TypeOK'
  BY <1>1, <1>2, <1>3 DEF IInv, TypeOK
<1>5. ZonesDisjoint'
  BY <1>2 DEF IInv, ZonesDisjoint
<1>6. ScanInv'
  <2>1. End(z) >= ZoneStart
    <3>1. z.start \in Nat /\ z.size \in Nat /\ z.start >= scan.addr /\ scan.addr \in Nat
      BY <1>1
    <3>2. scan.addr >= ZoneStart
      BY <1>1 DEF IInv, ScanInv
    <3>. QED BY <3>1, <3>2, RegionAssumption DEF End
  <2>2. End(z) + scan.size <= ZoneEnd
    <3>1. End(z) \in Nat /\ scan.size \in Nat
      BY <1>1
    <3>2. ~(End(z) > ZoneEnd - scan.size)
      BY <1>2 DEF NoRoom
    <3>. HIDE DEF z
    <3>. QED BY <3>1, <3>2, RegionAssumption DEF ZoneEnd
  <2>3. \A i \in 1 .. scan.p : End(zones[i]) <= End(z)
    <3> SUFFICES ASSUME NEW i \in 1 .. scan.p - 1 PROVE End(zones[i]) <= End(z)
      BY <1>1
    <3>1. End(zones[i]) <= z.start
      <4>1. i \in 1 .. Len(zones) /\ scan.p \in 1 .. Len(zones) /\ i < scan.p
        BY <1>1
      <4>2. ZonesDisjoint
        BY DEF IInv
      <4>3. QED
        BY <4>1, <4>2 DEF ZonesDisjoint
    <3>2. z.start \in Nat /\ z.size \in Nat /\ End(z) \in Nat /\ End(zones[i]) \in Nat
      BY <1>1
    <3>3. z.start <= End(z)
      BY <3>2 DEF End
    <3>. QED BY <3>1, <3>2, <3>3
  <2>4. \A i \in scan.p + 1 .. Len(zones) : End(z) <= zones[i].start
    BY <1>1 DEF IInv, ZonesDisjoint
  <2>5. \A a \in ZoneStart .. End(z) - 1 : ~Fits(a, scan.size)
    BY <1>1, <1>2, PassedNoFit
  <2>6. \A a : Fits(a, scan.size)' = Fits(a, scan.size)
    BY <1>2, <1>3 DEF Fits
  <2>7. scan'.p - 1 = scan.p
    BY <1>1, <1>3
  <2>. HIDE DEF z
  <2>. QED BY <1>2, <1>3, <2>1, <2>2, <2>3, <2>4, <2>5, <2>6, <2>7 DEF ScanInv
<1>7. QED
  BY <1>3, <1>4, <1>5, <1>6, RegionAssumption DEF IInv

(* Where the search stops, the zones from p on begin past the new one.     *)
LEMMA FoundGap ==
  ASSUME IInv, ScanFound
  PROVE  \A i \in scan.p .. Len(zones) : scan.addr + scan.size <= zones[i].start
<1> SUFFICES ASSUME NEW i \in scan.p .. Len(zones)
             PROVE  scan.addr + scan.size <= zones[i].start
  OBVIOUS
<1> DEFINE k == scan.p
<1>1. scan # Idle
  BY DEF ScanFound
<1>2. /\ k \in 1 .. Len(zones) /\ i \in 1 .. Len(zones)
      /\ scan.addr \in Nat /\ scan.size \in Nat
  BY <1>1, ScanAhead
<1>3. /\ zones[k].start \in Nat /\ zones[k].size \in Nat /\ End(zones[k]) \in Nat
      /\ zones[i].start \in Nat
  BY <1>1, <1>2, ScanAhead
<1>4. scan.addr + scan.size <= zones[k].start
  <2>1. ~(k > Len(zones))
    BY <1>2
  <2>2. ~(scan.size + scan.addr > zones[k].start)
    BY <2>1 DEF ScanFound, TooSmall
  <2>. HIDE DEF k
  <2>. QED BY <1>2, <1>3, <2>2
<1>5. zones[k].start <= End(zones[k])
  BY <1>3 DEF End
<1>6. k < i => End(zones[k]) <= zones[i].start
  BY <1>2 DEF IInv, ZonesDisjoint
<1> HIDE DEF k
<1>7. k = i \/ k < i
  BY <1>2 DEF k
<1>8. QED
  BY <1>2, <1>3, <1>4, <1>5, <1>6, <1>7

(* Linking the new zone in keeps the invariant.                            *)
LEMMA ScanFoundIInv ==
  ASSUME IInv, ScanFound
  PROVE  IInv'
<1> DEFINE k == scan.p
           n == Len(zones)
           z == [start |-> scan.addr, size |-> scan.size]
<1>1. /\ scan # Idle /\ k \in 1 .. n + 1 /\ scan.addr \in Nat /\ scan.size \in Nat
      /\ n \in Nat /\ zones \in Seq(Zone)
      /\ \A i \in 1 .. n :
           zones[i].start \in Nat /\ zones[i].size \in Nat /\ End(zones[i]) \in Nat
  BY ScanAhead DEF ScanFound, IInv, TypeOK
<1>2. z \in Zone /\ z.start = scan.addr /\ End(z) = scan.addr + scan.size
  BY <1>1 DEF Zone, End
<1>3. /\ zones' = Insert(zones, k, z) /\ scan' = Idle
      /\ k <= n => ~TooSmall(zones[k])
  BY <1>1 DEF ScanFound
<1>4. /\ zones' \in Seq(Zone) /\ Len(zones') = n + 1
      /\ \A i \in 1 .. n + 1 :
           zones'[i] = IF i < k THEN zones[i] ELSE IF i = k THEN z ELSE zones[i - 1]
  <2>1. k \in 1 .. Len(zones) + 1 /\ z \in Zone /\ zones \in Seq(Zone)
    BY <1>1, <1>2
  <2> HIDE DEF k, z
  <2>2. IsInsert(Insert(zones, k, z), zones, k, z)
    BY <2>1, InsertSeq
  <2>. QED BY <1>3, <2>2 DEF IsInsert
<1> HIDE DEF k, n, z
<1>5. TypeOK' /\ ScanInv'
  BY <1>3, <1>4 DEF TypeOK, ScanInv
<1>6. /\ scan.addr >= ZoneStart /\ End(z) <= ZoneEnd
      /\ \A i \in 1 .. k - 1 : End(zones[i]) <= scan.addr
      /\ \A i \in 1 .. n : zones[i].start >= ZoneStart /\ End(zones[i]) <= ZoneEnd
      /\ \A i, j \in 1 .. n : i < j => End(zones[i]) <= zones[j].start
  BY <1>1, <1>2 DEF IInv, ScanInv, ZonesDisjoint, k, n
<1>7. \A i \in k .. n : End(z) <= zones[i].start
  BY <1>2, FoundGap DEF k, n
<1>8. ZonesDisjoint'
  <2>1. ASSUME NEW i \in 1 .. n + 1
        PROVE  zones'[i].start >= ZoneStart /\ End(zones'[i]) <= ZoneEnd
    <3>1. CASE i < k
      <4>1. i \in 1 .. n /\ zones'[i] = zones[i]
        BY <1>1, <1>4, <3>1 DEF k, n
      <4>. QED BY <1>6, <4>1
    <3>2. CASE i = k
      BY <1>2, <1>4, <1>6, <3>2
    <3>3. CASE i > k
      <4>1. i - 1 \in 1 .. n /\ zones'[i] = zones[i - 1]
        BY <1>1, <1>4, <3>3 DEF k, n
      <4>. QED BY <1>6, <4>1
    <3>. QED BY <1>1, <3>1, <3>2, <3>3
  <2>2. ASSUME NEW i \in 1 .. n + 1, NEW j \in 1 .. n + 1, i < j
        PROVE  End(zones'[i]) <= zones'[j].start
    <3>1. CASE j < k
      <4>1. i \in 1 .. n /\ j \in 1 .. n /\ zones'[i] = zones[i] /\ zones'[j] = zones[j]
        BY <1>1, <1>4, <2>2, <3>1
      <4>. QED BY <1>6, <2>2, <4>1
    <3>2. CASE j = k
      <4>1. zones'[i] = zones[i] /\ zones'[j] = z /\ i \in 1 .. k - 1
        BY <1>1, <1>4, <2>2, <3>2
      <4>. QED BY <1>2, <1>6, <4>1
    <3>3. CASE j > k /\ i = k
      <4>1. zones'[i] = z /\ zones'[j] = zones[j - 1] /\ j - 1 \in k .. n
        BY <1>1, <1>4, <2>2, <3>3
      <4>. QED BY <1>7, <4>1
    <3>4. CASE j > k /\ i < k
      <4>1. zones'[i] = zones[i] /\ zones'[j] = zones[j - 1] /\ j - 1 \in 1 .. n /\ i < j - 1
            /\ i \in 1 .. n
        BY <1>1, <1>4, <2>2, <3>4
      <4>. QED BY <1>6, <4>1
    <3>5. CASE j > k /\ i > k
      <4>1. /\ ~(i < k) /\ i # k /\ ~(j < k) /\ j # k
            /\ i - 1 < j - 1 /\ i - 1 \in 1 .. n /\ j - 1 \in 1 .. n
        BY <1>1, <2>2, <3>5
      <4>2. zones'[i] = zones[i - 1] /\ zones'[j] = zones[j - 1]
        BY <1>4, <4>1
      <4>. QED BY <1>6, <4>1, <4>2
    <3>. QED BY <1>1, <3>1, <3>2, <3>3, <3>4, <3>5
  <2>. QED BY <1>4, <2>1, <2>2 DEF ZonesDisjoint, ZoneEnd
<1>9. QED
  BY <1>5, <1>8 DEF IInv

(* remove_vm_zone keeps the invariant.                                     *)
LEMMA RemoveVmZoneIInv ==
  ASSUME IInv, NEW k \in 1 .. Len(zones), RemoveVmZone(k)
  PROVE  IInv'
<1> DEFINE n == Len(zones)
<1>1. /\ n \in Nat /\ zones \in Seq(Zone) /\ scan = Idle /\ scan' = scan
      /\ zones' = Delete(zones, k)
  BY DEF IInv, TypeOK, RemoveVmZone
<1>2. /\ zones' \in Seq(Zone) /\ Len(zones') = n - 1
      /\ \A i \in 1 .. n - 1 : zones'[i] = IF i < k THEN zones[i] ELSE zones[i + 1]
  BY <1>1, DeleteSeq, ZenonT(30)
<1> DEFINE m(i) == IF i < k THEN i ELSE i + 1
<1>3. \A i \in 1 .. n - 1 : m(i) \in 1 .. n /\ zones'[i] = zones[m(i)]
  BY <1>1, <1>2
<1>4. \A i, j \in 1 .. n - 1 : i < j => m(i) < m(j)
  BY <1>1
<1> HIDE DEF m
<1>5. ZonesDisjoint'
  BY <1>2, <1>3, <1>4 DEF IInv, ZonesDisjoint
<1>6. QED
  BY <1>1, <1>2, <1>5 DEF IInv, TypeOK, ScanInv

-----------------------------------------------------------------------------
(* Every step keeps the invariant.                                         *)
LEMMA NextIInv == IInv /\ [Next]_vars => IInv'
<1> SUFFICES ASSUME IInv, [Next]_vars PROVE IInv'
  OBVIOUS
<1>1. CASE ScanOut
  BY <1>1 DEF ScanOut, IInv, TypeOK, ZonesDisjoint, ScanInv
<1>2. CASE UNCHANGED vars
  BY <1>2 DEF vars, IInv, TypeOK, ZonesDisjoint, ScanInv, Fits
<1>3. QED
  BY <1>1, <1>2, GetVmZoneIInv, ScanNextIInv, ScanFoundIInv, RemoveVmZoneIInv DEF Next

(* The inductive invariant: get_vm_zone's list and its loop.               *)
THEOREM VmZoneInvariant == Spec => []IInv
  BY InitIInv, NextIInv, PTL DEF Spec

(* The zones of the vmap region are in address order and never overlap.    *)
THEOREM VmZonesDisjoint == Spec => [](TypeOK /\ ZonesDisjoint)
<1>1. IInv => TypeOK /\ ZonesDisjoint
  BY DEF IInv
<1>2. QED
  BY <1>1, VmZoneInvariant, PTL

(* What a step of get_vm_zone that ends the search does.                   *)
LEMMA NextFits ==
  ASSUME IInv, Next, scan # Idle, scan' = Idle
  PROVE  \/ zones' = zones /\ \A a \in ZoneStart .. ZoneEnd : ~Fits(a, scan.size)
         \/ /\ zones' # zones /\ Fits(scan.addr, scan.size)
            /\ \A a \in ZoneStart .. scan.addr - 1 : ~Fits(a, scan.size)
<1>1. /\ scan.p \in 1 .. Len(zones) + 1 /\ scan.addr \in Nat /\ scan.size \in Nat
      /\ scan.size + scan.addr < Word /\ Len(zones) \in Nat
      /\ \A i \in 1 .. Len(zones) :
           zones[i].start \in Nat /\ zones[i].size \in Nat /\ End(zones[i]) \in Nat
  BY ScanAhead
<1>2. CASE ScanFound
  <2>1. zones' = Insert(zones, scan.p, [start |-> scan.addr, size |-> scan.size])
    BY <1>2 DEF ScanFound
  <2>2. Len(zones') = Len(zones) + 1
    BY <1>1, <2>1, InsertSeq DEF IInv, TypeOK, Zone, IsInsert
  <2>3. ASSUME NEW i \in 1 .. Len(zones)
        PROVE  scan.addr + scan.size <= zones[i].start \/ End(zones[i]) <= scan.addr
    <3>1. i \in 1 .. scan.p - 1 \/ i \in scan.p .. Len(zones)
      BY <1>1
    <3>. QED BY <1>2, <3>1, FoundGap DEF IInv, ScanInv
  <2>4. Fits(scan.addr, scan.size)
    BY <2>3 DEF Fits, IInv, ScanInv
  <2>. QED BY <1>1, <2>2, <2>4 DEF IInv, ScanInv
<1>3. CASE ScanOut
  <2> DEFINE z == zones[scan.p]
  <2>1. /\ scan.p \in 1 .. Len(zones) /\ End(z) \in Nat /\ zones' = zones
        /\ TooSmall(z) /\ End(z) > ZoneEnd - scan.size
    <3>1. scan.p \in 1 .. Len(zones)
      BY <1>1, <1>3 DEF ScanOut
    <3>2. End(z) \in Nat
      BY <1>1, <3>1
    <3>3. ~(scan.size + scan.addr >= Word)
      BY <1>1, RegionAssumption
    <3>4. TooSmall(z) /\ NoRoom(End(z)) /\ zones' = zones
      BY <1>3, <3>3 DEF ScanOut, Past
    <3>. QED BY <3>1, <3>2, <3>4 DEF NoRoom
  <2>2. ASSUME NEW a \in ZoneStart .. ZoneEnd
        PROVE  ~Fits(a, scan.size)
    <3>1. CASE a < End(z)
      BY <2>1, <3>1, PassedNoFit, RegionAssumption
    <3>2. CASE a >= End(z)
      <4>1. a + scan.size > ZoneEnd
        BY <1>1, <2>1, <3>2, RegionAssumption DEF ZoneEnd
      <4>2. ~(a + scan.size <= ZoneEnd)
        BY <1>1, <4>1, RegionAssumption DEF ZoneEnd
      <4>. QED BY <4>2 DEF Fits
    <3>. QED BY <2>1, <3>1, <3>2, RegionAssumption DEF ZoneEnd
  <2>. QED BY <2>1, <2>2
<1>4. CASE ScanNext
  BY <1>4, ScanNextIInv
<1>. QED
  BY <1>2, <1>3, <1>4 DEF Next, GetVmZone, RemoveVmZone

(* get_vm_zone is a first fit: it gives up only when no address of the     *)
(* region would do, and otherwise takes the lowest one that does.          *)
THEOREM VmZoneFirstFit == Spec => FirstFit
<1>1. IInv /\ [Next]_vars =>
        [scan # Idle /\ scan' = Idle =>
           \/ zones' = zones /\ \A a \in ZoneStart .. ZoneEnd : ~Fits(a, scan.size)
           \/ /\ zones' # zones /\ Fits(scan.addr, scan.size)
              /\ \A a \in ZoneStart .. scan.addr - 1 : ~Fits(a, scan.size)]_vars
  BY NextFits DEF vars
<1>2. QED
  BY <1>1, VmZoneInvariant, PTL DEF Spec, FirstFit

-----------------------------------------------------------------------------
(* Numbers of slots.                                                       *)

(* Division with a remainder.                                              *)
LEMMA DivRest ==
  ASSUME NEW a \in Nat, NEW d \in Nat \ {0}
  PROVE  a \div d \in Nat /\ a % d \in 0 .. d - 1 /\ a = (a \div d) * d + (a % d)
  OBVIOUS

(* A quotient is at least q when the number has q times the divisor ...    *)
LEMMA DivLeast ==
  ASSUME NEW a \in Nat, NEW d \in Nat \ {0}, NEW q \in Nat, q * d <= a
  PROVE  q <= a \div d
<1>1. a \div d \in Nat /\ a % d \in 0 .. d - 1 /\ a = (a \div d) * d + (a % d)
  BY DivRest, ZenonT(30)
<1>2. a < (a \div d) * d + d
  BY <1>1
<1> DEFINE e == a \div d
<1>3. e \in Nat /\ q * d < e * d + d
  BY <1>1, <1>2
<1> HIDE DEF e
<1>4. q * d < (e + 1) * d
  BY <1>3
<1>5. SUFFICES ASSUME q >= e + 1 PROVE FALSE
  BY <1>3 DEF e
<1>6. PICK k \in Nat : q = e + 1 + k
  <2>1. q - (e + 1) \in Nat /\ q = e + 1 + (q - (e + 1))
    BY <1>3, <1>5
  <2>2. QED
    BY <2>1
<1>7. q * d = (e + 1) * d + k * d /\ k * d >= 0
  BY <1>3, <1>6
<1>8. QED
  BY <1>3, <1>4, <1>7

(* ... and below q when it has less.                                       *)
LEMMA DivBelow ==
  ASSUME NEW a \in Nat, NEW d \in Nat \ {0}, NEW q \in Nat, a < q * d
  PROVE  a \div d < q
<1> DEFINE e == a \div d
<1>1. e \in Nat /\ e * d <= a
  BY DivRest
<1> HIDE DEF e
<1>2. SUFFICES ASSUME e >= q PROVE FALSE
  BY <1>1 DEF e
<1>3. PICK k \in Nat : e = q + k
  <2>1. e - q \in Nat /\ e = q + (e - q)
    BY <1>1, <1>2
  <2>2. QED
    BY <2>1
<1>4. e * d = q * d + k * d /\ k * d >= 0
  BY <1>3
<1>5. QED
  BY <1>1, <1>4

(* Quotients of a sum and of its summands.                                 *)
LEMMA DivSum ==
  ASSUME NEW a \in Nat, NEW b \in Nat, NEW d \in Nat \ {0}
  PROVE  (a \div d) + (b \div d) <= (a + b) \div d
<1> DEFINE e == a \div d
           f == b \div d
<1>1. e \in Nat /\ e * d <= a
  BY DivRest
<1>2. f \in Nat /\ f * d <= b
  BY DivRest
<1> HIDE DEF e, f
<1>3. (e + f) * d <= a + b /\ e + f \in Nat
  BY <1>1, <1>2
<1>4. e + f <= (a + b) \div d
  BY <1>3, DivLeast
<1>5. QED
  BY <1>4 DEF e, f

(* The larger number has the larger quotient.                              *)
LEMMA DivUp ==
  ASSUME NEW a \in Nat, NEW b \in Nat, a <= b, NEW d \in Nat \ {0}
  PROVE  a \div d <= b \div d
<1> DEFINE e == a \div d
<1>1. e \in Nat /\ e * d <= b
  BY DivRest
<1> HIDE DEF e
<1>2. e <= b \div d
  BY <1>1, DivLeast
<1>3. QED
  BY <1>2 DEF e

(* The number of entry i of the table with the number a.                   *)
Slot(a, i) == a * Radix + i

(* A slot's number has one table and one entry.                            *)
LEMMA SlotOnce ==
  ASSUME NEW a \in Nat, NEW b \in Nat, NEW i \in 0 .. Radix - 1, NEW j \in 0 .. Radix - 1,
         Slot(a, i) = Slot(b, j)
  PROVE  a = b /\ i = j
<1>1. Radix \in Nat /\ a * Radix \in Nat /\ b * Radix \in Nat
  BY TableAssumption
<1>2. a * Radix + i = b * Radix + j
  BY DEF Slot
<1>3. ASSUME NEW x \in Nat, NEW y \in Nat, NEW u \in 0 .. Radix - 1, NEW v \in 0 .. Radix - 1,
             x * Radix + u = y * Radix + v, x < y
      PROVE  FALSE
  <2>1. PICK k \in Nat : y = x + 1 + k
    <3>1. y - (x + 1) \in Nat /\ y = x + 1 + (y - (x + 1))
      BY <1>3
    <3>2. QED
      BY <3>1
  <2>2. y * Radix = x * Radix + Radix + k * Radix /\ k * Radix \in Nat /\ x * Radix \in Nat
    BY <1>1, <2>1
  <2>3. QED
    BY <1>1, <1>3, <2>2
<1>4. a = b
  BY <1>2, <1>3
<1>5. QED
  BY <1>1, <1>2, <1>4

(* A page's slot.                                                          *)
LEMMA SlotOf ==
  ASSUME NEW p \in Nat
  PROVE  /\ Upper(p) \in Nat /\ p % Radix \in 0 .. Radix - 1 /\ p = Slot(Upper(p), p % Radix)
         /\ \A a \in Nat : \A i \in 0 .. Radix - 1 : p >= Slot(a, i) => Upper(p) >= a
<1>1. Radix \in Nat \ {0}
  BY TableAssumption
<1>2. Upper(p) \in Nat /\ p % Radix \in 0 .. Radix - 1 /\ p = Slot(Upper(p), p % Radix)
  BY <1>1, DivRest, ZenonT(30) DEF Upper, Slot
<1>3. ASSUME NEW a \in Nat, NEW i \in 0 .. Radix - 1, p >= Slot(a, i) PROVE Upper(p) >= a
  <2>1. a * Radix <= p
    <3>1. a * Radix \in Nat
      BY <1>1
    <3>2. QED
      BY <1>1, <1>3, <3>1 DEF Slot
  <2>2. a <= p \div Radix
    BY <1>1, <2>1, DivLeast
  <2>3. QED
    BY <1>2, <2>2 DEF Upper
<1>4. QED
  BY <1>2, <1>3

(* Slots are numbered in the order of tables and entries ...               *)
LEMMA SlotUp ==
  ASSUME NEW a \in Nat, NEW i \in 0 .. Radix - 1
  PROVE  Slot(a, i) \in Nat /\ Slot(a, i + 1) = Slot(a, i) + 1
<1>1. Radix \in Nat \ {0} /\ a * Radix \in Nat
  BY TableAssumption
<1>2. QED
  BY <1>1 DEF Slot

(* ... as are, weakly, the slots of tables and entries that may be equal ... *)
LEMMA SlotMono ==
  ASSUME NEW a \in Nat, NEW b \in Nat, a <= b, NEW i \in 0 .. Radix - 1
  PROVE  Slot(a, i) <= Slot(b, i)
<1>1. Radix \in Nat \ {0} /\ a * Radix \in Nat
  BY TableAssumption
<1>2. PICK k \in Nat : b = a + k
  <2>1. b - a \in Nat /\ b = a + (b - a)
    OBVIOUS
  <2>2. QED
    BY <2>1
<1>3. b * Radix = a * Radix + k * Radix /\ k * Radix \in Nat
  BY <1>1, <1>2
<1>4. QED
  BY <1>1, <1>3 DEF Slot

(* ... the first one of a table after the last one of the table before.    *)
LEMMA SlotCarry ==
  ASSUME NEW a \in Nat, NEW i \in 0 .. Radix - 1, ~(i + 1 < Radix)
  PROVE  Slot(a + 1, 0) = Slot(a, i) + 1
<1>1. Radix \in Nat \ {0} /\ a * Radix \in Nat
  BY TableAssumption
<1>2. (a + 1) * Radix = a * Radix + Radix
  BY <1>1
<1>3. QED
  BY <1>1, <1>2 DEF Slot

-----------------------------------------------------------------------------
(* The state of map_contiguous's loops, and how far they are.              *)
Loop == [n : Nat, count : Nat, from : Nat, big : BOOLEAN, then : {"kernel", "done"},
         i4 : Nat, i3 : 0 .. Radix - 1, i2 : 0 .. Radix - 1, i1 : 0 .. Radix - 1, last : Nat]
Above(m) == Slot(Slot(m.i4, m.i3), m.i2)
PageAt(m) == Slot(Above(m), m.i1)

(* Numbers of the loops' slots.                                            *)
LEMMA LoopSlots ==
  ASSUME NEW m \in Loop
  PROVE  Slot(m.i4, m.i3) \in Nat /\ Above(m) \in Nat /\ PageAt(m) \in Nat
<1>1. m.i4 \in Nat /\ m.i3 \in 0 .. Radix - 1 /\ m.i2 \in 0 .. Radix - 1 /\ m.i1 \in 0 .. Radix - 1
  BY DEF Loop
<1>2. Slot(m.i4, m.i3) \in Nat
  BY <1>1, SlotUp, ZenonT(30)
<1>3. Above(m) \in Nat
  BY <1>1, <1>2, SlotUp DEF Above
<1>4. QED
  BY <1>1, <1>2, <1>3, SlotUp DEF PageAt

(* An iteration of the loops goes on to the next slot.                     *)
LEMMA NextSlot ==
  ASSUME NEW m \in Loop
  PROVE  /\ NextEntry(m) \in Loop /\ Above(NextEntry(m)) >= Above(m)
         /\ m.big => Above(NextEntry(m)) = Above(m) + 1
         /\ ~m.big => PageAt(NextEntry(m)) = PageAt(m) + 1
         /\ NextEntry(m).n = m.n /\ NextEntry(m).count = m.count /\ NextEntry(m).from = m.from
         /\ NextEntry(m).big = m.big /\ NextEntry(m).last = m.last /\ NextEntry(m).then = m.then
<1> DEFINE k == NextEntry(m)
<1>1. /\ m.i4 \in Nat /\ m.i3 \in 0 .. Radix - 1 /\ m.i2 \in 0 .. Radix - 1
      /\ m.i1 \in 0 .. Radix - 1
      /\ m.big \in BOOLEAN /\ Radix \in Nat /\ Radix > 1
  BY TableAssumption DEF Loop
<1>2. Slot(m.i4, m.i3) \in Nat /\ Above(m) \in Nat /\ PageAt(m) \in Nat
  BY LoopSlots
<1>3. /\ k.n = m.n /\ k.count = m.count /\ k.from = m.from /\ k.big = m.big /\ k.last = m.last
      /\ k.then = m.then
      /\ k \in Loop
  <2>1. CASE ~m.big /\ m.i1 + 1 < Radix
    BY <1>1, <2>1 DEF NextEntry, Loop
  <2>2. CASE ~(~m.big /\ m.i1 + 1 < Radix) /\ m.i2 + 1 < Radix
    <3>1. k = [m EXCEPT !.i1 = 0, !.i2 = @ + 1]
      BY <2>2 DEF NextEntry
    <3>2. 0 \in 0 .. Radix - 1 /\ m.i2 + 1 \in 0 .. Radix - 1
      BY <1>1, <2>2
    <3> HIDE DEF k
    <3>3. QED
      BY <3>1, <3>2, ZenonT(30) DEF Loop
  <2>3. CASE ~(~m.big /\ m.i1 + 1 < Radix) /\ ~(m.i2 + 1 < Radix) /\ m.i3 + 1 < Radix
    <3>1. k = [m EXCEPT !.i1 = 0, !.i2 = 0, !.i3 = @ + 1]
      BY <2>3 DEF NextEntry
    <3>2. 0 \in 0 .. Radix - 1 /\ m.i3 + 1 \in 0 .. Radix - 1
      BY <1>1, <2>3
    <3> HIDE DEF k
    <3>3. QED
      BY <3>1, <3>2, ZenonT(30) DEF Loop
  <2>4. CASE ~(~m.big /\ m.i1 + 1 < Radix) /\ ~(m.i2 + 1 < Radix) /\ ~(m.i3 + 1 < Radix)
    <3>1. k = [m EXCEPT !.i1 = 0, !.i2 = 0, !.i3 = 0, !.i4 = @ + 1]
      BY <2>4 DEF NextEntry
    <3>2. 0 \in 0 .. Radix - 1 /\ m.i4 + 1 \in Nat
      BY <1>1, <2>4
    <3> HIDE DEF k
    <3>3. QED
      BY <3>1, <3>2, ZenonT(30) DEF Loop
  <2>5. QED
    BY <2>1, <2>2, <2>3, <2>4
<1>4. CASE ~m.big /\ m.i1 + 1 < Radix
  <2>1. k.i4 = m.i4 /\ k.i3 = m.i3 /\ k.i2 = m.i2 /\ k.i1 = m.i1 + 1
    BY <1>4 DEF NextEntry, Loop
  <2>2. Above(k) = Above(m)
    BY <2>1 DEF Above
  <2>3. PageAt(k) = PageAt(m) + 1
    BY <1>1, <1>2, <2>1, <2>2, SlotUp DEF PageAt
  <2>4. QED
    BY <1>2, <1>3, <1>4, <2>2, <2>3
<1>5. ASSUME m.big \/ ~(m.i1 + 1 < Radix) PROVE Above(k) = Above(m) + 1 /\ k.i1 = 0
  <2>1. CASE m.i2 + 1 < Radix
    <3>1. k.i4 = m.i4 /\ k.i3 = m.i3 /\ k.i2 = m.i2 + 1 /\ k.i1 = 0
      BY <1>5, <2>1 DEF NextEntry, Loop
    <3>2. QED
      BY <1>1, <1>2, <3>1, SlotUp DEF Above
  <2>2. CASE ~(m.i2 + 1 < Radix) /\ m.i3 + 1 < Radix
    <3>1. k.i4 = m.i4 /\ k.i3 = m.i3 + 1 /\ k.i2 = 0 /\ k.i1 = 0
      BY <1>5, <2>2 DEF NextEntry, Loop
    <3>2. Slot(k.i4, k.i3) = Slot(m.i4, m.i3) + 1
      BY <1>1, <3>1, SlotUp, ZenonT(30)
    <3>3. Slot(Slot(m.i4, m.i3) + 1, 0) = Slot(Slot(m.i4, m.i3), m.i2) + 1
      BY <1>1, <1>2, <2>2, SlotCarry
    <3>4. QED
      BY <3>1, <3>2, <3>3 DEF Above
  <2>3. CASE ~(m.i2 + 1 < Radix) /\ ~(m.i3 + 1 < Radix)
    <3>1. k.i4 = m.i4 + 1 /\ k.i3 = 0 /\ k.i2 = 0 /\ k.i1 = 0
      BY <1>5, <2>3 DEF NextEntry, Loop
    <3>2. Slot(k.i4, k.i3) = Slot(m.i4, m.i3) + 1
      BY <1>1, <2>3, <3>1, SlotCarry
    <3>3. Slot(Slot(m.i4, m.i3) + 1, 0) = Slot(Slot(m.i4, m.i3), m.i2) + 1
      BY <1>1, <1>2, <2>3, SlotCarry
    <3>4. QED
      BY <3>1, <3>2, <3>3 DEF Above
  <2>4. QED
    BY <2>1, <2>2, <2>3
<1>6. CASE m.big
  BY <1>2, <1>3, <1>5, <1>6
<1>7. CASE ~m.big /\ ~(m.i1 + 1 < Radix)
  <2>1. Slot(Above(m) + 1, 0) = Slot(Above(m), m.i1) + 1
    BY <1>1, <1>2, <1>7, SlotCarry
  <2>2. PageAt(k) = PageAt(m) + 1
    BY <1>5, <1>7, <2>1 DEF PageAt
  <2>3. QED
    BY <1>2, <1>3, <1>5, <1>7, <2>2
<1>8. QED
  BY <1>4, <1>6, <1>7

(* Indices into a table, and what a table has there.                       *)
Digit == 0 .. Radix - 1
Entry == {Absent} \cup {Down(t) : t \in Nat} \cup {Leaf(f, b) : f \in Nat, b \in BOOLEAN}
Row == [Digit -> Entry]

(* The kinds of entries differ.                                            *)
LEMMA EntryKinds ==
  ASSUME NEW t \in Nat, NEW u \in Nat, NEW f \in Nat, NEW b \in BOOLEAN
  PROVE  /\ Absent \in Entry /\ Down(t) \in Entry /\ Leaf(f, b) \in Entry
         /\ Down(t) # Absent /\ Leaf(f, b) # Absent /\ Leaf(f, b) # Down(t)
         /\ Down(t).to = t /\ (Down(t) = Down(u) => t = u)
<1>1. Absent \in Entry /\ Down(t) \in Entry /\ Leaf(f, b) \in Entry
  BY DEF Entry
<1>2. Down(t).to = t /\ Down(u).to = u
  BY DEF Down
<1>3. Absent.kind = "absent" /\ Down(t).kind = "table" /\ Leaf(f, b).kind \in {"big", "page"}
  BY DEF Absent, Down, Leaf
<1>4. QED
  BY <1>1, <1>2, <1>3

(* What an entry of the kernel's tables can be, by the level of its table; *)
(* at[t] is the number of the slot that leads to table t.                  *)
EntryOK(ts, roots, lv, at, t, i) ==
  \/ ts[t][i] = Absent
  \/ /\ lv[t] > 1
     /\ \E u \in 2 .. Len(ts) :
          ts[t][i] = Down(u) /\ u \notin roots /\ lv[u] = lv[t] - 1 /\ at[u] = Slot(at[t], i)
  \/ lv[t] = 1 /\ \E f \in Nat : ts[t][i] = Leaf(f, FALSE)
  \/ lv[t] = 2 /\ Slot(at[t], i) < Identity /\ \E f \in Nat : ts[t][i] = Leaf(f, TRUE)

(* The tables other than the tasks' top levels are a tree with root 1:     *)
(* lv is a table's level, at the number of the slot that leads to it.      *)
Tree(ts, roots, lv, at) ==
  /\ ts \in Seq(Row) /\ Len(ts) >= 1 /\ roots \subseteq 2 .. Len(ts)
  /\ lv \in [1 .. Len(ts) -> 1 .. 4] /\ at \in [1 .. Len(ts) -> Nat] /\ lv[1] = 4 /\ at[1] = 0
  /\ \A t \in (1 .. Len(ts)) \ roots : \A i \in Digit : EntryOK(ts, roots, lv, at, t, i)

(* Absent entries have been filled, the tables of tasks left alone.        *)
Grown(ts, us, roots) ==
  /\ Len(us) >= Len(ts) /\ \A r \in roots : us[r] = ts[r]
  /\ \A t \in 1 .. Len(ts) : \A i \in Digit : ts[t][i] # Absent => us[t][i] = ts[t][i]

(* Two functions agree on the first n tables.                              *)
Keeps(f, g, n) == \A t \in 1 .. n : g[t] = f[t]

(* The step of map_contiguous from table t to the next one, which is made  *)
(* if need be.                                                             *)
EnterTo(ts, us, u, t, i, roots, lv, at, lv2, at2) ==
  /\ Tree(us, roots, lv2, at2) /\ Grown(ts, us, roots)
  /\ Keeps(lv, lv2, Len(ts)) /\ Keeps(at, at2, Len(ts))
  /\ u \in 2 .. Len(us) /\ u \notin roots /\ us[t][i] = Down(u)
  /\ lv2[u] = lv[t] - 1 /\ at2[u] = Slot(at[t], i)

(* A table that is there.                                                  *)
LEMMA EnterOld ==
  ASSUME NEW ts, NEW roots, NEW lv, NEW at, Tree(ts, roots, lv, at),
         NEW t \in (1 .. Len(ts)) \ roots, NEW i \in Digit,
         lv[t] > 1, lv[t] = 2 => Slot(at[t], i) >= Identity, ts[t][i] # Absent
  PROVE  EnterTo(ts, ts, ts[t][i].to, t, i, roots, lv, at, lv, at)
<1>1. Len(ts) \in Nat /\ at[t] \in Nat /\ lv[t] \in 1 .. 4 /\ i \in 0 .. Radix - 1
  BY DEF Tree, Digit
<1>2. Slot(at[t], i) \in Nat /\ Identity \in Nat
  BY <1>1, SlotUp, TableAssumption, ZenonT(30)
<1>3. EntryOK(ts, roots, lv, at, t, i)
  BY DEF Tree
<1>4. PICK u \in 2 .. Len(ts) :
        ts[t][i] = Down(u) /\ u \notin roots /\ lv[u] = lv[t] - 1 /\ at[u] = Slot(at[t], i)
  <2>1. lv[t] # 1 /\ ~(lv[t] = 2 /\ Slot(at[t], i) < Identity)
    BY <1>1, <1>2
  <2>2. QED
    BY <1>3, <2>1, ZenonT(30) DEF EntryOK
<1>5. Down(u).to = u
  BY <1>4 DEF Down
<1>6. Grown(ts, ts, roots) /\ Keeps(lv, lv, Len(ts)) /\ Keeps(at, at, Len(ts))
  BY <1>1 DEF Grown, Keeps
<1>7. QED
  BY <1>4, <1>5, <1>6 DEF EnterTo

(* Rows after an entry has been written.                                   *)
LEMMA Written ==
  ASSUME NEW ts \in Seq(Row), NEW t \in 1 .. Len(ts), NEW i \in Digit, NEW e \in Entry
  PROVE  LET us == [ts EXCEPT ![t][i] = e]
         IN  /\ us \in Seq(Row) /\ Len(us) = Len(ts)
             /\ \A v \in 1 .. Len(ts) : v # t => us[v] = ts[v]
             /\ \A j \in Digit : us[t][j] = IF j = i THEN e ELSE ts[t][j]
<1> DEFINE r == [ts[t] EXCEPT ![i] = e]
           us == [ts EXCEPT ![t] = r]
<1>1. ts[t] \in Row
  OBVIOUS
<1>2. r \in Row /\ \A j \in Digit : r[j] = IF j = i THEN e ELSE ts[t][j]
  BY <1>1 DEF Row
<1> HIDE DEF r
<1>3. /\ us \in Seq(Row) /\ Len(us) = Len(ts) /\ us[t] = r
      /\ \A v \in 1 .. Len(ts) : v # t => us[v] = ts[v]
  BY <1>2
<1>4. us = [ts EXCEPT ![t][i] = e]
  BY DEF r
<1> HIDE DEF us
<1>5. QED
  BY <1>2, <1>3, <1>4, ZenonT(30)

(* A table that is made.                                                   *)
LEMMA EnterNew ==
  ASSUME NEW ts, NEW roots, NEW lv, NEW at, Tree(ts, roots, lv, at),
         NEW t \in (1 .. Len(ts)) \ roots, NEW i \in Digit, lv[t] > 1, ts[t][i] = Absent
  PROVE  LET n == Len(ts) + 1
         IN  EnterTo(ts, Append([ts EXCEPT ![t][i] = Down(n)], Clear), n, t, i, roots, lv, at,
                     [v \in 1 .. n |-> IF v = n THEN lv[t] - 1 ELSE lv[v]],
                     [v \in 1 .. n |-> IF v = n THEN Slot(at[t], i) ELSE at[v]])
<1> DEFINE n == Len(ts) + 1
           ws == [ts EXCEPT ![t][i] = Down(n)]
           us == Append(ws, Clear)
           lv2 == [v \in 1 .. n |-> IF v = n THEN lv[t] - 1 ELSE lv[v]]
           at2 == [v \in 1 .. n |-> IF v = n THEN Slot(at[t], i) ELSE at[v]]
<1>1. /\ ts \in Seq(Row) /\ Len(ts) \in Nat /\ Len(ts) >= 1 /\ roots \subseteq 2 .. Len(ts)
      /\ lv \in [1 .. Len(ts) -> 1 .. 4] /\ at \in [1 .. Len(ts) -> Nat] /\ lv[1] = 4 /\ at[1] = 0
      /\ \A v \in (1 .. Len(ts)) \ roots : \A j \in Digit : EntryOK(ts, roots, lv, at, v, j)
  BY DEF Tree
<1>2. Slot(at[t], i) \in Nat /\ n \in Nat /\ n \in 2 .. n /\ n \notin roots
  <2>1. at[t] \in Nat /\ i \in 0 .. Radix - 1
    BY <1>1 DEF Digit
  <2>2. Slot(at[t], i) \in Nat
    BY <2>1, SlotUp, ZenonT(30)
  <2>3. QED
    BY <1>1, <2>2
<1>3. Down(n) \in Entry /\ Down(n) # Absent /\ Clear \in Row /\ \A j \in Digit : Clear[j] = Absent
  <2>1. Absent \in Entry /\ Down(n) \in Entry /\ Down(n) # Absent
    BY <1>2, EntryKinds, ZenonT(30)
  <2>2. QED
    BY <2>1 DEF Clear, Row, Digit
<1>4. /\ ws \in Seq(Row) /\ Len(ws) = Len(ts)
      /\ \A v \in 1 .. Len(ts) : v # t => ws[v] = ts[v]
      /\ \A j \in Digit : ws[t][j] = IF j = i THEN Down(n) ELSE ts[t][j]
  <2> HIDE DEF n
  <2> QED
    BY <1>1, <1>3, Written
<1> HIDE DEF ws
<1>5. us \in Seq(Row) /\ Len(us) = n /\ us[n] = Clear /\ \A v \in 1 .. Len(ts) : us[v] = ws[v]
  BY <1>1, <1>3, <1>4
<1>6. /\ lv2 \in [1 .. n -> 1 .. 4] /\ at2 \in [1 .. n -> Nat] /\ lv2[n] = lv[t] - 1
      /\ at2[n] = Slot(at[t], i)
      /\ \A v \in 1 .. Len(ts) : lv2[v] = lv[v] /\ at2[v] = at[v]
  <2>1. lv[t] - 1 \in 1 .. 4
    BY <1>1
  <2> QED
    BY <1>1, <1>2, <2>1
<1> HIDE DEF us, lv2, at2, n
<1>7. n = Len(ts) + 1
  BY DEF n
<1>8. \A v \in 1 .. Len(ts) : \A j \in Digit :
           us[v][j] = IF v = t /\ j = i THEN Down(n) ELSE ts[v][j]
  BY <1>4, <1>5
<1>9. ASSUME NEW v \in (1 .. n) \ roots, NEW j \in Digit PROVE EntryOK(us, roots, lv2, at2, v, j)
  <2>1. CASE v = n
    BY <1>3, <1>5, <2>1, ZenonT(30) DEF EntryOK
  <2>2. CASE v = t /\ j = i
    BY <1>1, <1>2, <1>5, <1>6, <1>8, <2>2, ZenonT(30) DEF EntryOK
  <2>3. CASE v # n /\ ~(v = t /\ j = i)
    <3>1. v \in (1 .. Len(ts)) \ roots /\ us[v][j] = ts[v][j] /\ lv2[v] = lv[v] /\ at2[v] = at[v]
      <4>1. v \in 1 .. Len(ts)
        BY <1>1, <1>7, <2>3
      <4>2. QED
        BY <1>6, <1>8, <2>3, <4>1
    <3>2. EntryOK(ts, roots, lv, at, v, j)
      BY <1>1, <3>1
    <3>3. \A u \in 2 .. Len(ts) : u \in 2 .. Len(us) /\ lv2[u] = lv[u] /\ at2[u] = at[u]
      BY <1>1, <1>5, <1>6, <1>7
    <3>4. QED
      BY <3>1, <3>2, <3>3, ZenonT(30) DEF EntryOK
  <2>4. QED
    BY <2>1, <2>2, <2>3
<1>10. Tree(us, roots, lv2, at2)
  <2>1. 1 \in 1 .. Len(ts) /\ n >= 1 /\ roots \subseteq 2 .. n
    BY <1>1, <1>7
  <2>2. QED
    BY <1>1, <1>5, <1>6, <1>9, <2>1 DEF Tree
<1>11. Grown(ts, us, roots)
  <2>1. ASSUME NEW r \in roots PROVE us[r] = ts[r]
    <3>1. r \in 1 .. Len(ts) /\ r # t
      BY <1>1
    <3>2. QED
      BY <1>4, <1>5, <3>1
  <2>2. n >= Len(ts)
    BY <1>1, <1>7
  <2>3. \A v \in 1 .. Len(ts) : \A j \in Digit : ts[v][j] # Absent => us[v][j] = ts[v][j]
    BY <1>8
  <2>4. QED
    BY <1>5, <2>1, <2>2, <2>3 DEF Grown
<1>12. us[t][i] = Down(n)
  BY <1>8
<1>13. EnterTo(ts, us, n, t, i, roots, lv, at, lv2, at2)
  BY <1>2, <1>5, <1>6, <1>10, <1>11, <1>12 DEF EnterTo, Keeps
<1>14. QED
  BY <1>13 DEF n, us, ws, lv2, at2

(* Whether it is there or made.                                            *)
LEMMA EnterOK ==
  ASSUME NEW ts, NEW roots, NEW lv, NEW at, Tree(ts, roots, lv, at),
         NEW t \in (1 .. Len(ts)) \ roots, NEW i \in Digit,
         lv[t] > 1, lv[t] = 2 => Slot(at[t], i) >= Identity
  PROVE  \E lv2, at2 :
           EnterTo(ts, Enter(ts, t, i).tables, Enter(ts, t, i).next, t, i, roots, lv, at, lv2, at2)
<1>1. CASE ts[t][i] = Absent
  <2>1. /\ Enter(ts, t, i).tables = Append([ts EXCEPT ![t][i] = Down(Len(ts) + 1)], Clear)
        /\ Enter(ts, t, i).next = Len(ts) + 1
    BY <1>1 DEF Enter
  <2> DEFINE n == Len(ts) + 1
  <2>2. EnterTo(ts, Append([ts EXCEPT ![t][i] = Down(n)], Clear), n, t, i, roots, lv, at,
                [v \in 1 .. n |-> IF v = n THEN lv[t] - 1 ELSE lv[v]],
                [v \in 1 .. n |-> IF v = n THEN Slot(at[t], i) ELSE at[v]])
    BY <1>1, EnterNew, ZenonT(30)
  <2>3. QED
    BY <2>1, <2>2
<1>2. CASE ts[t][i] # Absent
  <2>1. Enter(ts, t, i).tables = ts /\ Enter(ts, t, i).next = ts[t][i].to
    BY <1>2 DEF Enter
  <2>2. QED
    BY <1>2, <2>1, EnterOld, ZenonT(30)
<1>3. QED
  BY <1>1, <1>2

(* An entry of the lowest level, or for a 2 MiB page, is written.          *)
LEMMA WriteTree ==
  ASSUME NEW ts, NEW roots, NEW lv, NEW at, Tree(ts, roots, lv, at),
         NEW t \in (1 .. Len(ts)) \ roots, NEW i \in Digit, NEW f \in Nat, NEW b \in BOOLEAN,
         IF b THEN lv[t] = 2 /\ Slot(at[t], i) < Identity ELSE lv[t] = 1
  PROVE  Tree([ts EXCEPT ![t][i] = Leaf(f, b)], roots, lv, at)
<1> DEFINE us == [ts EXCEPT ![t][i] = Leaf(f, b)]
<1>1. /\ ts \in Seq(Row) /\ Len(ts) \in Nat
      /\ \A v \in (1 .. Len(ts)) \ roots : \A j \in Digit : EntryOK(ts, roots, lv, at, v, j)
  BY DEF Tree
<1>2. Leaf(f, b) \in Entry
  BY DEF Entry
<1>3. /\ us \in Seq(Row) /\ Len(us) = Len(ts)
      /\ \A v \in 1 .. Len(ts) : v # t => us[v] = ts[v]
      /\ \A j \in Digit : us[t][j] = IF j = i THEN Leaf(f, b) ELSE ts[t][j]
  BY <1>1, <1>2, Written
<1> HIDE DEF us
<1>4. ASSUME NEW v \in (1 .. Len(ts)) \ roots, NEW j \in Digit
      PROVE EntryOK(us, roots, lv, at, v, j)
  <2>1. CASE v = t /\ j = i
    <3>1. us[v][j] = Leaf(f, b)
      BY <1>3, <2>1
    <3>2. QED
      BY <2>1, <3>1, ZenonT(30) DEF EntryOK
  <2>2. CASE ~(v = t /\ j = i)
    <3>1. us[v][j] = ts[v][j] /\ EntryOK(ts, roots, lv, at, v, j)
      BY <1>1, <1>3, <2>2
    <3>2. QED
      BY <1>3, <3>1, ZenonT(30) DEF EntryOK
  <2>3. QED
    BY <2>1, <2>2
<1>5. Tree(us, roots, lv, at)
  BY <1>3, <1>4 DEF Tree
<1>6. QED
  BY <1>5 DEF us

(* The entries that lead to a page, level by level.                        *)
Path(ts, i4, i3, i2, t3, t2, t1) ==
  ts[1][i4] = Down(t3) /\ ts[t3][i3] = Down(t2) /\ ts[t2][i2] = Down(t1)

(* The entries of the tree lead page p to frame f.                         *)
Mapped(ts, p, f) ==
  \E t3, t2, t1 \in Nat :
    /\ Path(ts, Index(4, p), Index(3, p), Index(2, p), t3, t2, t1)
    /\ ts[t1][Index(1, p)] = Leaf(f, FALSE)

(* An entry that leads to a table.                                         *)
LEMMA DownOK ==
  ASSUME NEW ts, NEW roots, NEW lv, NEW at, Tree(ts, roots, lv, at),
         NEW t \in (1 .. Len(ts)) \ roots, NEW i \in Digit, NEW u \in Nat, ts[t][i] = Down(u)
  PROVE  /\ lv[t] > 1 /\ u \in (1 .. Len(ts)) \ roots /\ u # 1
         /\ lv[u] = lv[t] - 1 /\ at[u] = Slot(at[t], i)
<1>1. EntryOK(ts, roots, lv, at, t, i)
  BY DEF Tree
<1>2. \A f \in Nat : Down(u) # Leaf(f, FALSE) /\ Down(u) # Leaf(f, TRUE) /\ Down(u) # Absent
  BY EntryKinds, ZenonT(30)
<1>3. lv[t] > 1 /\ \E v \in 2 .. Len(ts) :
          ts[t][i] = Down(v) /\ v \notin roots /\ lv[v] = lv[t] - 1 /\ at[v] = Slot(at[t], i)
  BY <1>1, <1>2, ZenonT(30) DEF EntryOK
<1>4. PICK v \in 2 .. Len(ts) :
          ts[t][i] = Down(v) /\ v \notin roots /\ lv[v] = lv[t] - 1 /\ at[v] = Slot(at[t], i)
  BY <1>3
<1>5. v = u /\ Len(ts) \in Nat
  <2>1. Down(u).to = u /\ Down(v).to = v
    BY DEF Down
  <2>2. Len(ts) \in Nat
    BY DEF Tree
  <2>3. QED
    BY <1>4, <2>1, <2>2
<1>6. QED
  BY <1>3, <1>4, <1>5

(* The tables on a path are those of its slots.                            *)
LEMMA PathAt ==
  ASSUME NEW ts, NEW roots, NEW lv, NEW at, Tree(ts, roots, lv, at),
         NEW i4 \in Digit, NEW i3 \in Digit, NEW i2 \in Digit,
         NEW t3 \in Nat, NEW t2 \in Nat, NEW t1 \in Nat, Path(ts, i4, i3, i2, t3, t2, t1)
  PROVE  /\ t3 \in (1 .. Len(ts)) \ roots /\ t2 \in (1 .. Len(ts)) \ roots
         /\ t1 \in (1 .. Len(ts)) \ roots
         /\ lv[1] = 4 /\ lv[t3] = 3 /\ lv[t2] = 2 /\ lv[t1] = 1
         /\ at[t2] = Slot(i4, i3) /\ at[t1] = Slot(Slot(i4, i3), i2)
<1>1. 1 \in (1 .. Len(ts)) \ roots /\ lv[1] = 4 /\ at[1] = 0
  BY DEF Tree
<1>2. ts[1][i4] = Down(t3) /\ ts[t3][i3] = Down(t2) /\ ts[t2][i2] = Down(t1)
  BY DEF Path
<1>3. t3 \in (1 .. Len(ts)) \ roots /\ lv[t3] = 3 /\ at[t3] = i4
  <2>1. t3 \in (1 .. Len(ts)) \ roots /\ lv[t3] = lv[1] - 1 /\ at[t3] = Slot(at[1], i4)
    BY <1>1, <1>2, DownOK
  <2>2. Slot(0, i4) = i4
    BY TableAssumption DEF Slot, Digit
  <2>3. QED
    BY <1>1, <2>1, <2>2
<1>4. t2 \in (1 .. Len(ts)) \ roots /\ lv[t2] = 2 /\ at[t2] = Slot(i4, i3)
  <2>1. t2 \in (1 .. Len(ts)) \ roots /\ lv[t2] = lv[t3] - 1 /\ at[t2] = Slot(at[t3], i3)
    BY <1>2, <1>3, DownOK
  <2>2. QED
    BY <1>3, <2>1
<1>5. t1 \in (1 .. Len(ts)) \ roots /\ lv[t1] = lv[t2] - 1 /\ at[t1] = Slot(at[t2], i2)
  BY <1>2, <1>4, DownOK
<1>6. QED
  BY <1>1, <1>3, <1>4, <1>5

(* A path is there as long as only absent entries are written.             *)
LEMMA PathGrown ==
  ASSUME NEW ts, NEW roots, NEW lv, NEW at, Tree(ts, roots, lv, at),
         NEW us, Grown(ts, us, roots),
         NEW i4 \in Digit, NEW i3 \in Digit, NEW i2 \in Digit,
         NEW t3 \in Nat, NEW t2 \in Nat, NEW t1 \in Nat, Path(ts, i4, i3, i2, t3, t2, t1)
  PROVE  Path(us, i4, i3, i2, t3, t2, t1)
<1>1. 1 \in 1 .. Len(ts) /\ t3 \in 1 .. Len(ts) /\ t2 \in 1 .. Len(ts)
  <2>1. t3 \in 1 .. Len(ts) /\ t2 \in 1 .. Len(ts)
    BY PathAt, ZenonT(30)
  <2>2. 1 \in 1 .. Len(ts)
    BY DEF Tree
  <2>3. QED
    BY <2>1, <2>2
<1>2. Down(t3) # Absent /\ Down(t2) # Absent /\ Down(t1) # Absent
  BY EntryKinds, ZenonT(30)
<1>3. QED
  BY <1>1, <1>2 DEF Path, Grown

(* Filling absent entries twice is filling absent entries.                 *)
LEMMA GrownTrans ==
  ASSUME NEW ts, NEW us, NEW ws, NEW roots, Grown(ts, us, roots), Grown(us, ws, roots),
         Len(ts) \in Nat, Len(us) \in Nat, Len(ws) \in Nat
  PROVE  Grown(ts, ws, roots)
<1>1. Len(ws) >= Len(ts) /\ \A t \in 1 .. Len(ts) : t \in 1 .. Len(us)
  BY DEF Grown
<1>2. QED
  BY <1>1 DEF Grown

(* The indices of a page.                                                  *)
LEMMA Indices ==
  ASSUME NEW p \in Nat
  PROVE  /\ Index(1, p) \in Digit /\ Index(2, p) \in Digit /\ Index(3, p) \in Digit
         /\ Index(4, p) \in Digit
         /\ Upper(Upper(Upper(p))) \in Nat
         /\ p < Top => /\ Index(4, p) = Upper(Upper(Upper(p)))
                       /\ Slot(Slot(Index(4, p), Index(3, p)), Index(2, p)) = Upper(p)
                       /\ Slot(Upper(p), Index(1, p)) = p
<1>1. /\ Index(1, p) = p % Radix /\ Index(2, p) = Upper(p) % Radix
      /\ Index(3, p) = Upper(Upper(p)) % Radix /\ Index(4, p) = Upper(Upper(Upper(p))) % Radix
  BY DEF Index
<1>2. Upper(p) \in Nat /\ p % Radix \in Digit /\ p = Slot(Upper(p), p % Radix)
  BY SlotOf DEF Digit
<1>3. /\ Upper(Upper(p)) \in Nat /\ Upper(p) % Radix \in Digit
      /\ Upper(p) = Slot(Upper(Upper(p)), Upper(p) % Radix)
  BY <1>2, SlotOf DEF Digit
<1> DEFINE q == Upper(Upper(p))
<1> HIDE DEF q
<1>4. Upper(q) \in Nat /\ q % Radix \in Digit /\ q = Slot(Upper(q), q % Radix)
  BY <1>3, SlotOf DEF Digit, q
<1>5. Upper(q) % Radix \in Digit
  BY <1>4, SlotOf DEF Digit
<1>6. ASSUME p < Top PROVE Upper(q) % Radix = Upper(q)
  <2>1. Radix \in Nat \ {0} /\ Radix * Radix \in Nat /\ Radix * Radix * Radix \in Nat
    BY TableAssumption
  <2>2. Upper(p) < Radix * Radix * Radix
    BY <1>6, <2>1, DivBelow DEF Top, Upper
  <2>3. q < Radix * Radix
    BY <1>2, <2>1, <2>2, DivBelow, ZenonT(30) DEF Upper, q
  <2>4. Upper(q) < Radix
    BY <1>3, <2>1, <2>3, DivBelow, ZenonT(30) DEF Upper, q
  <2>5. Upper(q) = Slot(0, Upper(q)) /\ Upper(q) \in 0 .. Radix - 1
    BY <1>4, <2>1, <2>4 DEF Slot
  <2>6. Upper(q) = Slot(Upper(Upper(q)), Upper(q) % Radix) /\ Upper(Upper(q)) \in Nat
    BY <1>4, SlotOf
  <2>7. QED
    BY <1>5, <2>5, <2>6, SlotOnce DEF Digit
<1>7. QED
  BY <1>1, <1>2, <1>3, <1>4, <1>5, <1>6 DEF q

(* A mapping is there as long as only absent entries are written ...       *)
LEMMA MappedGrown ==
  ASSUME NEW ts, NEW roots, NEW lv, NEW at, Tree(ts, roots, lv, at),
         NEW us, Grown(ts, us, roots), NEW p \in Nat, NEW f \in Nat, Mapped(ts, p, f)
  PROVE  Mapped(us, p, f)
<1>1. /\ Index(1, p) \in Digit /\ Index(2, p) \in Digit /\ Index(3, p) \in Digit
      /\ Index(4, p) \in Digit
  BY Indices
<1>2. PICK t3 \in Nat, t2 \in Nat, t1 \in Nat :
        /\ Path(ts, Index(4, p), Index(3, p), Index(2, p), t3, t2, t1)
        /\ ts[t1][Index(1, p)] = Leaf(f, FALSE)
  BY ZenonT(30) DEF Mapped
<1>3. Path(us, Index(4, p), Index(3, p), Index(2, p), t3, t2, t1)
  BY <1>1, <1>2, PathGrown
<1>4. t1 \in 1 .. Len(ts) /\ Leaf(f, FALSE) # Absent
  <2>1. t1 \in 1 .. Len(ts)
    BY <1>1, <1>2, PathAt
  <2>2. QED
    BY <2>1, EntryKinds, ZenonT(30)
<1>5. us[t1][Index(1, p)] = Leaf(f, FALSE)
  BY <1>1, <1>2, <1>4, ZenonT(30) DEF Grown
<1>6. QED
  BY <1>3, <1>5, ZenonT(30) DEF Mapped

(* ... and as long as the entry written is that of another page.           *)
LEMMA MappedWrite ==
  ASSUME NEW ts, NEW roots, NEW lv, NEW at, Tree(ts, roots, lv, at),
         NEW w \in (1 .. Len(ts)) \ roots, NEW i \in Digit, lv[w] = 1, NEW g \in Nat,
         NEW p \in Nat, p < Top, NEW f \in Nat, p # Slot(at[w], i), Mapped(ts, p, f)
  PROVE  Mapped([ts EXCEPT ![w][i] = Leaf(g, FALSE)], p, f)
<1> DEFINE e == Leaf(g, FALSE)
           us == [ts EXCEPT ![w][i] = e]
           j4 == Index(4, p)
           j3 == Index(3, p)
           j2 == Index(2, p)
           j1 == Index(1, p)
<1>1. /\ j4 \in Digit /\ j3 \in Digit /\ j2 \in Digit /\ j1 \in Digit
      /\ Slot(Slot(j4, j3), j2) = Upper(p) /\ Slot(Upper(p), j1) = p
  BY Indices, ZenonT(30)
<1>2. PICK t3 \in Nat, t2 \in Nat, t1 \in Nat :
        Path(ts, j4, j3, j2, t3, t2, t1) /\ ts[t1][j1] = Leaf(f, FALSE)
  BY ZenonT(30) DEF Mapped
<1>3. ts \in Seq(Row) /\ 1 \in 1 .. Len(ts)
  BY DEF Tree
<1>4. e \in Entry
  BY EntryKinds, ZenonT(30)
<1> HIDE DEF e, j4, j3, j2, j1
<1>5. /\ us \in Seq(Row) /\ Len(us) = Len(ts)
      /\ \A v \in 1 .. Len(ts) : v # w => us[v] = ts[v]
      /\ \A j \in Digit : us[w][j] = IF j = i THEN e ELSE ts[w][j]
  BY <1>3, <1>4, Written
<1> HIDE DEF us
<1>6. /\ t3 \in 1 .. Len(ts) /\ t2 \in 1 .. Len(ts) /\ t1 \in 1 .. Len(ts)
      /\ lv[1] = 4 /\ lv[t3] = 3 /\ lv[t2] = 2 /\ at[t1] = Slot(Slot(j4, j3), j2)
  BY <1>1, <1>2, PathAt
<1>7. Path(us, j4, j3, j2, t3, t2, t1)
  BY <1>2, <1>3, <1>5, <1>6 DEF Path
<1>8. us[t1][j1] = Leaf(f, FALSE)
  BY <1>1, <1>2, <1>5, <1>6, ZenonT(30)
<1>9. Mapped(us, p, f)
  BY <1>7, <1>8, ZenonT(30) DEF Mapped, j4, j3, j2, j1
<1>10. QED
  BY <1>9 DEF us, e

-----------------------------------------------------------------------------
(* The tables map_contiguous goes through, level by level.                 *)
A3(ts, m) == Enter(ts, 1, m.i4)
A2(ts, m) == Enter(A3(ts, m).tables, A3(ts, m).next, m.i3)
A1(ts, m) == Enter(A2(ts, m).tables, A2(ts, m).next, m.i2)

(* The tables after some levels have been entered, and where the loops are *)
(* then: u is the table of the third, the second or the first level.       *)
WalkTo(ts, us, roots, lv2, at2) ==
  Tree(us, roots, lv2, at2) /\ Grown(ts, us, roots)

At3(ts, us, u, m, roots, lv, at) ==
  /\ WalkTo(ts, us, roots, lv, at)
  /\ u \in (1 .. Len(us)) \ roots /\ u \in Nat /\ lv[u] = 3 /\ at[u] = m.i4
  /\ us[1][m.i4] = Down(u)

At2(ts, us, t, u, m, roots, lv, at) ==
  /\ WalkTo(ts, us, roots, lv, at)
  /\ u \in (1 .. Len(us)) \ roots /\ u \in Nat /\ lv[u] = 2 /\ at[u] = Slot(m.i4, m.i3)
  /\ t \in Nat /\ us[1][m.i4] = Down(t) /\ us[t][m.i3] = Down(u)

At1(ts, us, u, m, roots, lv, at) ==
  /\ WalkTo(ts, us, roots, lv, at)
  /\ u \in (1 .. Len(us)) \ roots /\ u \in Nat /\ lv[u] = 1 /\ at[u] = Above(m)
  /\ \E t3, t2 \in Nat : Path(us, m.i4, m.i3, m.i2, t3, t2, u)

(* One level down, ...                                                     *)
LEMMA Walk3 ==
  ASSUME NEW ts, NEW roots, NEW lv, NEW at, Tree(ts, roots, lv, at),
         NEW m \in Loop, m.i4 \in Digit
  PROVE  \E lv2, at2 : At3(ts, A3(ts, m).tables, A3(ts, m).next, m, roots, lv2, at2)
<1> DEFINE us == Enter(ts, 1, m.i4).tables
           u == Enter(ts, 1, m.i4).next
<1>1. Len(ts) \in Nat /\ 1 \in (1 .. Len(ts)) \ roots /\ lv[1] = 4 /\ at[1] = 0
  BY DEF Tree
<1>2. \E lv2, at2 : EnterTo(ts, us, u, 1, m.i4, roots, lv, at, lv2, at2)
  BY <1>1, EnterOK
<1> HIDE DEF us, u
<1>3. PICK lv2, at2 : EnterTo(ts, us, u, 1, m.i4, roots, lv, at, lv2, at2)
  BY <1>2, ZenonT(30)
<1>4. Slot(0, m.i4) = m.i4
  BY TableAssumption DEF Slot, Digit
<1>5. Tree(us, roots, lv2, at2) /\ Grown(ts, us, roots) /\ us[1][m.i4] = Down(u)
  BY <1>3, ZenonT(30) DEF EnterTo
<1>6. u \in 2 .. Len(us) /\ u \notin roots /\ lv2[u] = lv[1] - 1 /\ at2[u] = Slot(at[1], m.i4)
  BY <1>3, ZenonT(30) DEF EnterTo
<1>7. Len(us) \in Nat
  BY <1>5 DEF Tree
<1>8. u \in (1 .. Len(us)) \ roots /\ u \in Nat /\ lv2[u] = 3 /\ at2[u] = m.i4
  BY <1>1, <1>4, <1>6, <1>7
<1>9. At3(ts, us, u, m, roots, lv2, at2)
  BY <1>5, <1>8, ZenonT(30) DEF At3, WalkTo
<1>10. QED
  BY <1>9, ZenonT(30) DEF us, u, A3

(* From the table one level down to the one below it.                      *)
LEMMA Down2 ==
  ASSUME NEW ts, Len(ts) \in Nat, NEW us, NEW u, NEW roots, NEW lv, NEW at,
         NEW m \in Loop, m.i4 \in Digit, At3(ts, us, u, m, roots, lv, at)
  PROVE  \E lv2, at2 :
           At2(ts, Enter(us, u, m.i3).tables, u, Enter(us, u, m.i3).next, m, roots, lv2, at2)
<1> DEFINE ws == Enter(us, u, m.i3).tables
           w == Enter(us, u, m.i3).next
<1>1. m.i3 \in Digit
  BY DEF Loop, Digit
<1>2. /\ Tree(us, roots, lv, at) /\ Grown(ts, us, roots) /\ us[1][m.i4] = Down(u)
      /\ u \in (1 .. Len(us)) \ roots /\ u \in Nat /\ lv[u] = 3 /\ at[u] = m.i4
  BY ZenonT(30) DEF At3, WalkTo
<1>3. \E lv2, at2 : EnterTo(us, ws, w, u, m.i3, roots, lv, at, lv2, at2)
  <2>1. lv[u] > 1 /\ lv[u] # 2
    BY <1>2
  <2>2. QED
    BY <1>1, <1>2, <2>1, EnterOK, ZenonT(30)
<1> HIDE DEF ws, w
<1>4. PICK lv2, at2 : EnterTo(us, ws, w, u, m.i3, roots, lv, at, lv2, at2)
  BY <1>3, ZenonT(30)
<1>5. /\ Tree(ws, roots, lv2, at2) /\ Grown(us, ws, roots) /\ ws[u][m.i3] = Down(w)
      /\ w \in 2 .. Len(ws) /\ w \notin roots /\ lv2[w] = lv[u] - 1
      /\ at2[w] = Slot(at[u], m.i3)
  BY <1>4, ZenonT(30) DEF EnterTo
<1>6. Len(us) \in Nat /\ Len(ws) \in Nat /\ 1 \in 1 .. Len(us)
  BY <1>2, <1>5 DEF Tree
<1>7. w \in (1 .. Len(ws)) \ roots /\ w \in Nat /\ lv2[w] = 2 /\ at2[w] = Slot(m.i4, m.i3)
  BY <1>2, <1>5, <1>6
<1>8. Grown(ts, ws, roots)
  BY <1>2, <1>5, <1>6, GrownTrans
<1>9. ws[1][m.i4] = Down(u)
  <2>1. Down(u) # Absent
    BY <1>2, EntryKinds, ZenonT(30)
  <2>2. QED
    BY <1>2, <1>5, <1>6, <2>1, ZenonT(30) DEF Grown
<1>10. At2(ts, ws, u, w, m, roots, lv2, at2)
  BY <1>2, <1>5, <1>7, <1>8, <1>9, ZenonT(30) DEF At2, WalkTo
<1>11. QED
  BY <1>10, ZenonT(30) DEF ws, w

(* ... two levels down from the top table, ...                             *)
LEMMA Walk2 ==
  ASSUME NEW ts, NEW roots, NEW lv, NEW at, Tree(ts, roots, lv, at),
         NEW m \in Loop, m.i4 \in Digit
  PROVE  \E lv2, at2 :
           At2(ts, A2(ts, m).tables, A3(ts, m).next, A2(ts, m).next, m, roots, lv2, at2)
<1>1. PICK lv3, at3 : At3(ts, A3(ts, m).tables, A3(ts, m).next, m, roots, lv3, at3)
  BY Walk3, ZenonT(30)
<1>2. Len(ts) \in Nat
  BY DEF Tree
<1>3. QED
  BY <1>1, <1>2, Down2, ZenonT(30) DEF A2

(* From the table two levels down to the last one.                         *)
LEMMA Down1 ==
  ASSUME NEW ts, Len(ts) \in Nat, NEW us, NEW t, NEW u, NEW roots, NEW lv, NEW at,
         NEW m \in Loop, m.i4 \in Digit, Above(m) >= Identity,
         At2(ts, us, t, u, m, roots, lv, at)
  PROVE  \E lv2, at2 :
           At1(ts, Enter(us, u, m.i2).tables, Enter(us, u, m.i2).next, m, roots, lv2, at2)
<1> DEFINE ws == Enter(us, u, m.i2).tables
           w == Enter(us, u, m.i2).next
<1>1. m.i3 \in Digit /\ m.i2 \in Digit
  BY DEF Loop, Digit
<1>2. /\ Tree(us, roots, lv, at) /\ Grown(ts, us, roots) /\ t \in Nat
      /\ us[1][m.i4] = Down(t) /\ us[t][m.i3] = Down(u)
      /\ u \in (1 .. Len(us)) \ roots /\ u \in Nat /\ lv[u] = 2 /\ at[u] = Slot(m.i4, m.i3)
  BY ZenonT(30) DEF At2, WalkTo
<1>3. Slot(at[u], m.i2) = Above(m)
  BY <1>2, ZenonT(30) DEF Above
<1>4. \E lv2, at2 : EnterTo(us, ws, w, u, m.i2, roots, lv, at, lv2, at2)
  <2>1. lv[u] > 1
    BY <1>2
  <2>2. QED
    BY <1>1, <1>2, <1>3, <2>1, EnterOK, ZenonT(30)
<1> HIDE DEF ws, w
<1>5. PICK lv2, at2 : EnterTo(us, ws, w, u, m.i2, roots, lv, at, lv2, at2)
  BY <1>4, ZenonT(30)
<1>6. /\ Tree(ws, roots, lv2, at2) /\ Grown(us, ws, roots) /\ ws[u][m.i2] = Down(w)
      /\ w \in 2 .. Len(ws) /\ w \notin roots /\ lv2[w] = lv[u] - 1
      /\ at2[w] = Slot(at[u], m.i2)
  BY <1>5, ZenonT(30) DEF EnterTo
<1>7. Len(us) \in Nat /\ Len(ws) \in Nat /\ 1 \in (1 .. Len(us)) \ roots
  BY <1>2, <1>6 DEF Tree
<1>8. w \in (1 .. Len(ws)) \ roots /\ w \in Nat /\ lv2[w] = 1 /\ at2[w] = Above(m)
  BY <1>2, <1>3, <1>6, <1>7
<1>9. Grown(ts, ws, roots)
  BY <1>2, <1>6, <1>7, GrownTrans
<1>10. t \in 1 .. Len(us)
  BY <1>2, <1>7, DownOK
<1>11. Path(ws, m.i4, m.i3, m.i2, t, u, w)
  <2>1. Down(t) # Absent /\ Down(u) # Absent
    BY <1>2, EntryKinds, ZenonT(30)
  <2>2. 1 \in 1 .. Len(us)
    BY <1>7
  <2>3. ws[1][m.i4] = Down(t) /\ ws[t][m.i3] = Down(u)
    BY <1>1, <1>2, <1>6, <1>10, <2>1, <2>2, ZenonT(30) DEF Grown
  <2>4. QED
    BY <1>6, <2>3, ZenonT(30) DEF Path
<1>12. At1(ts, ws, w, m, roots, lv2, at2)
  BY <1>2, <1>6, <1>8, <1>9, <1>11, ZenonT(30) DEF At1, WalkTo
<1>13. QED
  BY <1>12, ZenonT(30) DEF ws, w

(* ... and three levels down.                                              *)
LEMMA Walk1 ==
  ASSUME NEW ts, NEW roots, NEW lv, NEW at, Tree(ts, roots, lv, at),
         NEW m \in Loop, m.i4 \in Digit, Above(m) >= Identity
  PROVE  \E lv2, at2 : At1(ts, A1(ts, m).tables, A1(ts, m).next, m, roots, lv2, at2)
<1>1. PICK lv3, at3 :
        At2(ts, A2(ts, m).tables, A3(ts, m).next, A2(ts, m).next, m, roots, lv3, at3)
  BY Walk2, ZenonT(30)
<1>2. Len(ts) \in Nat
  BY DEF Tree
<1>3. QED
  BY <1>1, <1>2, Down1, ZenonT(30) DEF A1

(* The loops' indices are those of their page.                             *)
LEMMA PageIndices ==
  ASSUME NEW m \in Loop, m.i4 \in Digit
  PROVE  /\ Index(1, PageAt(m)) = m.i1 /\ Index(2, PageAt(m)) = m.i2
         /\ Index(3, PageAt(m)) = m.i3 /\ Index(4, PageAt(m)) = m.i4
<1> DEFINE p == PageAt(m)
           q == Slot(m.i4, m.i3)
<1>1. /\ m.i4 \in 0 .. Radix - 1 /\ m.i3 \in 0 .. Radix - 1 /\ m.i2 \in 0 .. Radix - 1
      /\ m.i1 \in 0 .. Radix - 1 /\ m.i4 \in Nat
  BY DEF Loop, Digit
<1>2. q \in Nat /\ Above(m) \in Nat /\ p \in Nat /\ p = Slot(Above(m), m.i1)
      /\ Above(m) = Slot(q, m.i2)
  BY LoopSlots DEF PageAt, Above
<1> HIDE DEF p, q
<1>3. /\ Index(1, p) = p % Radix /\ Index(2, p) = Upper(p) % Radix
      /\ Index(3, p) = Upper(Upper(p)) % Radix /\ Index(4, p) = Upper(Upper(Upper(p))) % Radix
  BY DEF Index
<1>4. Upper(p) = Above(m) /\ p % Radix = m.i1
  <2>1. Upper(p) \in Nat /\ p % Radix \in 0 .. Radix - 1 /\ p = Slot(Upper(p), p % Radix)
    BY <1>2, SlotOf
  <2>2. QED
    BY <1>1, <1>2, <2>1, SlotOnce
<1>5. Upper(Above(m)) = q /\ Above(m) % Radix = m.i2
  <2> DEFINE a == Above(m)
  <2>1. a \in Nat /\ a = Slot(q, m.i2)
    BY <1>2
  <2> HIDE DEF a
  <2>2. Upper(a) \in Nat /\ a % Radix \in 0 .. Radix - 1 /\ a = Slot(Upper(a), a % Radix)
    BY <2>1, SlotOf
  <2>3. Upper(a) = q /\ a % Radix = m.i2
    BY <1>1, <1>2, <2>1, <2>2, SlotOnce
  <2>4. QED
    BY <2>3 DEF a
<1>6. Upper(q) = m.i4 /\ q % Radix = m.i3
  <2>1. q = Slot(m.i4, m.i3)
    BY DEF q
  <2>2. Upper(q) \in Nat /\ q % Radix \in 0 .. Radix - 1 /\ q = Slot(Upper(q), q % Radix)
    BY <1>2, SlotOf
  <2>3. QED
    BY <1>1, <2>1, <2>2, SlotOnce
<1>7. m.i4 % Radix = m.i4
  <2>1. Upper(m.i4) \in Nat /\ m.i4 % Radix \in 0 .. Radix - 1
        /\ m.i4 = Slot(Upper(m.i4), m.i4 % Radix)
    BY <1>1, SlotOf, ZenonT(30)
  <2>2. Slot(0, m.i4) = m.i4
    BY <1>1, TableAssumption DEF Slot
  <2>3. QED
    BY <1>1, <2>1, <2>2, SlotOnce
<1>8. QED
  BY <1>3, <1>4, <1>5, <1>6, <1>7 DEF p

(* What tasks rely on: their tables stay, and what the kernel's top level  *)
(* has.                                                                    *)
Safe(ts, us, roots) ==
  /\ Len(us) >= Len(ts) /\ \A r \in roots : us[r] = ts[r]
  /\ \A i \in Digit : ts[1][i] # Absent => us[1][i] = ts[1][i]

(* A write to a table that is neither the root nor a task's is safe.       *)
LEMMA SafeWrite ==
  ASSUME NEW ts, NEW ws, NEW us, NEW roots, NEW w, Grown(ts, ws, roots), Len(us) = Len(ws),
         \A v \in 1 .. Len(ws) : v # w => us[v] = ws[v],
         w # 1, 1 \in 1 .. Len(ws), 1 \in 1 .. Len(ts),
         w \notin roots, \A r \in roots : r \in 1 .. Len(ws)
  PROVE  Safe(ts, us, roots)
<1>1. Len(us) >= Len(ts)
  BY ZenonT(30) DEF Grown
<1>2. \A r \in roots : us[r] = ts[r]
  BY ZenonT(30) DEF Grown
<1>3. \A i \in Digit : ts[1][i] # Absent => us[1][i] = ts[1][i]
  BY ZenonT(30) DEF Grown
<1>4. QED
  BY <1>1, <1>2, <1>3, ZenonT(30) DEF Safe

(* An iteration for a 2 MiB page: its write, ...                           *)
LEMMA BigWrite ==
  ASSUME NEW ts, Len(ts) \in Nat \ {0}, NEW ws, NEW t, NEW w, NEW roots, NEW lv, NEW at,
         NEW m \in Loop, m.i4 \in Digit, Above(m) < Identity, NEW f \in Nat,
         At2(ts, ws, t, w, m, roots, lv, at)
  PROVE  /\ Safe(ts, [ws EXCEPT ![w][m.i2] = Leaf(f, TRUE)], roots)
         /\ Tree([ws EXCEPT ![w][m.i2] = Leaf(f, TRUE)], roots, lv, at)
<1> DEFINE e == Leaf(f, TRUE)
           us == [ws EXCEPT ![w][m.i2] = e]
<1>1. m.i2 \in Digit /\ e \in Entry
  BY EntryKinds, ZenonT(30) DEF Loop, Digit
<1>2. /\ Tree(ws, roots, lv, at) /\ Grown(ts, ws, roots)
      /\ w \in (1 .. Len(ws)) \ roots /\ lv[w] = 2 /\ at[w] = Slot(m.i4, m.i3)
  BY ZenonT(30) DEF At2, WalkTo
<1>3. Slot(at[w], m.i2) < Identity
  BY <1>2, ZenonT(30) DEF Above
<1>4. Tree(us, roots, lv, at)
  BY <1>1, <1>2, <1>3, WriteTree, ZenonT(30)
<1> HIDE DEF e
<1>5. /\ us \in Seq(Row) /\ Len(us) = Len(ws)
      /\ \A v \in 1 .. Len(ws) : v # w => us[v] = ws[v]
      /\ \A j \in Digit : us[w][j] = IF j = m.i2 THEN e ELSE ws[w][j]
  <2>1. ws \in Seq(Row)
    BY <1>2 DEF Tree
  <2>2. QED
    BY <1>1, <1>2, <2>1, Written
<1> HIDE DEF us
<1>6. Safe(ts, us, roots)
  <2>1. w # 1 /\ 1 \in 1 .. Len(ws) /\ 1 \in 1 .. Len(ts) /\ \A r \in roots : r \in 1 .. Len(ws)
    BY <1>2 DEF Tree
  <2>2. QED
    <3>1. w \notin roots
      BY <1>2, ZenonT(30)
    <3>2. QED
      BY <1>2, <1>5, <2>1, <3>1, SafeWrite, ZenonT(30)
<1>7. QED
  BY <1>4, <1>6, ZenonT(30) DEF us, e

(* ... and all of it.                                                      *)
LEMMA BigStep ==
  ASSUME NEW ts, NEW roots, NEW lv, NEW at, Tree(ts, roots, lv, at),
         NEW m \in Loop, m.i4 \in Digit, Above(m) < Identity, NEW f \in Nat
  PROVE  LET us == [A2(ts, m).tables EXCEPT ![A2(ts, m).next][m.i2] = Leaf(f, TRUE)]
         IN  Safe(ts, us, roots) /\ \E lv2, at2 : Tree(us, roots, lv2, at2)
<1>1. PICK lv2, at2 :
        At2(ts, A2(ts, m).tables, A3(ts, m).next, A2(ts, m).next, m, roots, lv2, at2)
  BY Walk2, ZenonT(30)
<1>2. Len(ts) \in Nat \ {0}
  BY DEF Tree
<1>3. QED
  BY <1>1, <1>2, BigWrite, ZenonT(30)

(* An iteration for a page: its write, ...                                 *)
LEMMA PageWrite ==
  ASSUME NEW ts, NEW roots, NEW lv, NEW at, Tree(ts, roots, lv, at),
         NEW ws, NEW w, NEW lv2, NEW at2,
         NEW m \in Loop, m.i4 \in Digit, Above(m) >= Identity, NEW f \in Nat,
         At1(ts, ws, w, m, roots, lv2, at2)
  PROVE  LET us == [ws EXCEPT ![w][m.i1] = Leaf(f, FALSE)]
         IN  /\ Safe(ts, us, roots) /\ Tree(us, roots, lv2, at2)
             /\ Mapped(us, PageAt(m), f)
             /\ \A p, g \in Nat : p < Top /\ p # PageAt(m) /\ Mapped(ts, p, g) => Mapped(us, p, g)
<1> DEFINE e == Leaf(f, FALSE)
           us == [ws EXCEPT ![w][m.i1] = e]
<1>1. m.i1 \in Digit /\ m.i2 \in Digit /\ m.i3 \in Digit /\ e \in Entry
  BY EntryKinds, ZenonT(30) DEF Loop, Digit
<1>2. /\ Tree(ws, roots, lv2, at2) /\ Grown(ts, ws, roots)
      /\ w \in (1 .. Len(ws)) \ roots /\ w \in Nat /\ lv2[w] = 1 /\ at2[w] = Above(m)
      /\ \E t3, t2 \in Nat : Path(ws, m.i4, m.i3, m.i2, t3, t2, w)
  BY ZenonT(30) DEF At1, WalkTo
<1>3. Slot(at2[w], m.i1) = PageAt(m)
  BY <1>2, ZenonT(30) DEF PageAt
<1>4. Tree(us, roots, lv2, at2)
  BY <1>1, <1>2, <1>3, WriteTree, ZenonT(30)
<1>5. ASSUME NEW p \in Nat, NEW g \in Nat, p < Top, p # PageAt(m), Mapped(ts, p, g)
      PROVE  Mapped(us, p, g)
  <2>1. Mapped(ws, p, g)
    BY <1>2, <1>5, MappedGrown, ZenonT(30)
  <2>2. QED
    BY <1>1, <1>2, <1>3, <1>5, <2>1, MappedWrite, ZenonT(30)
<1> HIDE DEF e
<1>6. /\ us \in Seq(Row) /\ Len(us) = Len(ws)
      /\ \A v \in 1 .. Len(ws) : v # w => us[v] = ws[v]
      /\ \A j \in Digit : us[w][j] = IF j = m.i1 THEN e ELSE ws[w][j]
  <2>1. ws \in Seq(Row)
    BY <1>2 DEF Tree
  <2>2. QED
    BY <1>1, <1>2, <2>1, Written
<1> HIDE DEF us
<1>7. w # 1 /\ 1 \in 1 .. Len(ws) /\ 1 \in 1 .. Len(ts) /\ \A r \in roots : r \in 1 .. Len(ws)
  BY <1>2 DEF Tree
<1>8. Safe(ts, us, roots)
  <2>1. w \notin roots
    BY <1>2, ZenonT(30)
  <2>2. QED
    BY <1>2, <1>6, <1>7, <2>1, SafeWrite, ZenonT(30)
<1>9. Mapped(us, PageAt(m), f)
  <2>1. PICK t3 \in Nat, t2 \in Nat : Path(ws, m.i4, m.i3, m.i2, t3, t2, w)
    BY <1>2, ZenonT(30)
  <2>2. t3 \in 1 .. Len(ws) /\ t2 \in 1 .. Len(ws) /\ lv2[t3] = 3 /\ lv2[t2] = 2
    BY <1>1, <1>2, <2>1, PathAt
  <2>3. w # t3 /\ w # t2
    BY <1>2, <2>2
  <2>4. Path(us, m.i4, m.i3, m.i2, t3, t2, w)
    BY <1>6, <1>7, <2>1, <2>2, <2>3, ZenonT(30) DEF Path
  <2>5. us[w][m.i1] = Leaf(f, FALSE)
    BY <1>1, <1>6, ZenonT(30) DEF e
  <2>6. QED
    BY <1>2, <2>4, <2>5, PageIndices, ZenonT(30) DEF Mapped
<1>10. QED
  BY <1>4, <1>5, <1>8, <1>9, ZenonT(30) DEF us, e

(* ... and all of it.                                                      *)
LEMMA PageStep ==
  ASSUME NEW ts, NEW roots, NEW lv, NEW at, Tree(ts, roots, lv, at),
         NEW m \in Loop, m.i4 \in Digit, Above(m) >= Identity, NEW f \in Nat
  PROVE  LET us == [A1(ts, m).tables EXCEPT ![A1(ts, m).next][m.i1] = Leaf(f, FALSE)]
         IN  /\ Safe(ts, us, roots) /\ \E lv2, at2 : Tree(us, roots, lv2, at2)
             /\ Mapped(us, PageAt(m), f)
             /\ \A p, g \in Nat : p < Top /\ p # PageAt(m) /\ Mapped(ts, p, g) => Mapped(us, p, g)
<1>1. PICK lv2, at2 : At1(ts, A1(ts, m).tables, A1(ts, m).next, m, roots, lv2, at2)
  BY Walk1, ZenonT(30)
<1> DEFINE ws == A1(ts, m).tables
           w == A1(ts, m).next
           us == [ws EXCEPT ![w][m.i1] = Leaf(f, FALSE)]
<1>2. At1(ts, ws, w, m, roots, lv2, at2)
  BY <1>1, ZenonT(30)
<1> HIDE DEF ws, w
<1>3. /\ Safe(ts, us, roots) /\ Tree(us, roots, lv2, at2) /\ Mapped(us, PageAt(m), f)
      /\ \A p, g \in Nat : p < Top /\ p # PageAt(m) /\ Mapped(ts, p, g) => Mapped(us, p, g)
  BY <1>2, PageWrite, ZenonT(60)
<1> HIDE DEF us
<1>4. /\ Safe(ts, us, roots) /\ \E lv3, at3 : Tree(us, roots, lv3, at3)
      /\ Mapped(us, PageAt(m), f)
      /\ \A p, g \in Nat : p < Top /\ p # PageAt(m) /\ Mapped(ts, p, g) => Mapped(us, p, g)
  BY <1>3, ZenonT(30)
<1>5. QED
  BY <1>4, ZenonT(30) DEF us, ws, w

(* Quotients of multiples, rounded down and up.                            *)
LEMMA DivExact ==
  ASSUME NEW q \in Nat, NEW d \in Nat \ {0}
  PROVE  (q * d) \div d = q /\ Ceil(q * d, d) = q
<1>1. q * d \in Nat /\ q * d + d - 1 \in Nat /\ (q + 1) * d = q * d + d
  OBVIOUS
<1> DEFINE a == q * d
           b == q * d + d - 1
<1> HIDE DEF a, b
<1>2. a \div d >= q /\ b \div d >= q
  <2>1. a \in Nat /\ b \in Nat /\ q * d <= a /\ q * d <= b
    BY <1>1 DEF a, b
  <2>2. q <= a \div d
    BY <2>1, DivLeast
  <2>3. q <= b \div d
    BY <2>1, DivLeast
  <2>4. QED
    BY <2>1, <2>2, <2>3
<1>3. a \div d < q + 1 /\ b \div d < q + 1
  <2>1. a \in Nat /\ b \in Nat /\ a < (q + 1) * d /\ b < (q + 1) * d /\ q + 1 \in Nat
    BY <1>1 DEF a, b
  <2>2. a \div d < q + 1
    BY <2>1, DivBelow
  <2>3. b \div d < q + 1
    BY <2>1, DivBelow
  <2>4. QED
    BY <2>2, <2>3
<1>4. a \div d \in Nat /\ b \div d \in Nat
  BY <1>1, DivRest DEF a, b
<1>5. a \div d = q /\ b \div d = q
  BY <1>2, <1>3, <1>4
<1>6. QED
  BY <1>5 DEF a, b, Ceil

(* The top-level indices of a region's first page and of its length.       *)
LEMMA TopIndices ==
  ASSUME NEW a \in Nat, NEW b \in Nat, a + b < Top
  PROVE  Index(4, a) + Index(4, b) \in Digit
<1>1. Radix \in Nat \ {0} /\ Top \in Nat
  BY TableAssumption DEF Top
<1>2. a < Top /\ b < Top /\ a + b \in Nat
  BY <1>1
<1>3. /\ Index(4, a) = Upper(Upper(Upper(a))) /\ Index(4, b) = Upper(Upper(Upper(b)))
      /\ Upper(Upper(Upper(a + b))) \in Digit
  BY <1>2, Indices
<1>4. ASSUME NEW x \in Nat, NEW y \in Nat, NEW z \in Nat, x + y <= z
      PROVE  /\ Upper(x) \in Nat /\ Upper(y) \in Nat /\ Upper(z) \in Nat
             /\ Upper(x) + Upper(y) <= Upper(z)
  <2>1. Upper(x) \in Nat /\ Upper(y) \in Nat /\ Upper(z) \in Nat /\ Upper(x + y) \in Nat
    BY <1>4, SlotOf
  <2>2. Upper(x) + Upper(y) <= Upper(x + y)
    BY <1>1, DivSum DEF Upper
  <2>3. Upper(x + y) <= Upper(z)
    BY <1>1, <1>4, DivUp DEF Upper
  <2>4. QED
    BY <2>1, <2>2, <2>3
<1>5. /\ Upper(a) \in Nat /\ Upper(b) \in Nat /\ Upper(a + b) \in Nat
      /\ Upper(a) + Upper(b) <= Upper(a + b)
  BY <1>2, <1>4
<1>6. /\ Upper(Upper(a)) \in Nat /\ Upper(Upper(b)) \in Nat /\ Upper(Upper(a + b)) \in Nat
      /\ Upper(Upper(a)) + Upper(Upper(b)) <= Upper(Upper(a + b))
  BY <1>4, <1>5
<1>7. /\ Upper(Upper(Upper(a))) \in Nat /\ Upper(Upper(Upper(b))) \in Nat
      /\ Upper(Upper(Upper(a))) + Upper(Upper(Upper(b))) <= Upper(Upper(Upper(a + b)))
  BY <1>4, <1>6
<1>8. QED
  BY <1>1, <1>3, <1>7 DEF Digit

(* Loops that begin at the page of an address.                             *)
Begun(m, from, vaddr, size, big, then) ==
  /\ m \in Loop /\ m.last \in Digit /\ m.last >= Index(4, vaddr \div PageSize)
  /\ vaddr \div PageSize \in Nat /\ vaddr \div PageSize < Top
  /\ PageAt(m) = vaddr \div PageSize /\ Above(m) = Upper(vaddr \div PageSize)
  /\ m.n = Ceil(size, PageBytes(big)) /\ m.count = 0 /\ m.from = from
  /\ m.big = big /\ m.then = then

(* map_contiguous's loops do.                                              *)
LEMMA LoopsOK ==
  ASSUME NEW from \in Nat, NEW vaddr \in Nat, NEW size \in Nat, NEW big \in BOOLEAN,
         NEW then \in {"kernel", "done"},
         (vaddr \div PageSize) + (size \div PageSize) < Top
  PROVE  Begun(Loops(from, vaddr, size, big, then), from, vaddr, size, big, then)
<1> DEFINE page == vaddr \div PageSize
           len == size \div PageSize
           n == Ceil(size, PageBytes(big))
           m == Loops(from, vaddr, size, big, then)
<1>1. Radix \in Nat \ {0} /\ PageSize \in Nat \ {0} /\ Top \in Nat
  BY TableAssumption, RegionAssumption DEF Top
<1>2. page \in Nat /\ len \in Nat /\ page < Top
  <2>1. page \in Nat /\ len \in Nat
    BY <1>1, DivRest
  <2>2. QED
    BY <1>1, <2>1
<1>3. n \in Nat
  <2>1. PageBytes(big) \in Nat \ {0}
    <3>1. PageSize * Radix \in Nat \ {0}
      BY <1>1
    <3>2. QED
      BY <1>1, <3>1 DEF PageBytes
  <2>2. size + PageBytes(big) - 1 \in Nat
    BY <2>1
  <2>3. QED
    BY <2>1, <2>2, DivRest DEF Ceil
<1> HIDE DEF n
<1>4. m = [n |-> n, count |-> 0, from |-> from, big |-> big, then |-> then,
           i4 |-> Index(4, page), i3 |-> Index(3, page),
           i2 |-> Index(2, page), i1 |-> Index(1, page),
           last |-> Index(4, page) + Index(4, len)]
  BY DEF Loops, n
<1> HIDE DEF m, page, len
<1>5. /\ Index(1, page) \in Digit /\ Index(2, page) \in Digit /\ Index(3, page) \in Digit
      /\ Index(4, page) \in Digit
      /\ Slot(Slot(Index(4, page), Index(3, page)), Index(2, page)) = Upper(page)
      /\ Slot(Upper(page), Index(1, page)) = page
  BY <1>2, Indices
<1>6. Index(4, page) + Index(4, len) \in Digit /\ Index(4, len) \in Nat
  <2>1. page + len < Top
    BY DEF page, len
  <2>2. Index(4, len) \in Digit
    BY <1>2, Indices
  <2>3. QED
    BY <1>1, <1>2, <2>1, <2>2, TopIndices DEF Digit
<1>7. m \in Loop
  <2>1. /\ Index(4, page) \in Nat /\ Index(4, page) + Index(4, len) \in Nat
        /\ Index(1, page) \in 0 .. Radix - 1 /\ Index(2, page) \in 0 .. Radix - 1
        /\ Index(3, page) \in 0 .. Radix - 1
    BY <1>1, <1>5, <1>6 DEF Digit
  <2>2. QED
    BY <1>3, <1>4, <2>1 DEF Loop
<1>8. PageAt(m) = page /\ Above(m) = Upper(page)
  BY <1>4, <1>5 DEF PageAt, Above
<1>9. m.last \in Digit /\ m.last >= Index(4, page)
  <2>1. m.last = Index(4, page) + Index(4, len)
    BY <1>4
  <2>2. QED
    BY <1>1, <1>5, <1>6, <2>1 DEF Digit
<1>10. m.n = n /\ m.count = 0 /\ m.from = from /\ m.big = big /\ m.then = then
  BY <1>4
<1>11. QED
  BY <1>2, <1>7, <1>8, <1>9, <1>10 DEF Begun, m, page, n
=============================================================================
