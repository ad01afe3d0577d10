------------------------------- MODULE VmZone -------------------------------
(***************************************************************************)
(* kernel/vm.c: the zones of the kernel's vmap region.  get_vm_zone finds  *)
(* the first gap of the size asked for plus a guard page in a list sorted  *)
(* by address; remove_vm_zone unlinks a zone.  The linked list is a        *)
(* sequence; an iteration of get_vm_zone's loop is a step and `scan' its   *)
(* local state: the place p points to, addr and the padded size.  Nothing  *)
(* else uses the list meanwhile.                                           *)
(***************************************************************************)
EXTENDS Integers, Sequences

CONSTANTS
  Word,         \* 2^64
  PageSize,
  ZoneStart,    \* VMAP_ZONE_START
  ZoneSize,     \* VMAP_ZONE_SIZE
  Sizes,        \* the sizes asked for
  MaxZones,     \* bound: how many zones there may be (a size may wrap to 0)
  Idle

ASSUME RegionAssumption ==
  /\ Word \in Nat /\ PageSize \in Nat \ {0} /\ ZoneStart \in Nat /\ ZoneSize \in Nat
  /\ ZoneStart + 2 * ZoneSize < Word /\ PageSize < Word
  /\ Sizes \subseteq 0 .. Word - 1
  /\ MaxZones \in Nat
  /\ Idle \notin [p : Nat, addr : Nat, size : Nat]

ZoneEnd == ZoneStart + ZoneSize

VARIABLES
  zones,        \* vm_zone_list: [start, size] of each zone, in list order
  scan          \* the loop of an open get_vm_zone, or Idle

vars == <<zones, scan>>

Init == zones = <<>> /\ scan = Idle

End(z) == z.start + z.size

(* size += PAGE_SIZE, in 64 bits.                                          *)
Padded(size) == IF size + PageSize >= Word THEN size + PageSize - Word ELSE size + PageSize

(* get_vm_zone, up to the loop; a size beyond the region returns NULL.     *)
GetVmZone(size) ==
  /\ scan = Idle /\ Len(zones) < MaxZones
  /\ Padded(size) <= ZoneSize
  /\ scan' = [p |-> 1, addr |-> ZoneStart, size |-> Padded(size)]
  /\ UNCHANGED zones

(* The loop's address after it has passed zone z.                          *)
Past_Start(z) == z.start + PageSize
Past(z) == End(z)

(* The test that a gap is too small.                                       *)
TooSmall_IgnoresSize(z) == scan.addr >= z.start
TooSmall(z) == scan.size + scan.addr > z.start

(* The test that no later gap can be large enough.                         *)
NoRoom_OffByPage(addr) == addr + PageSize > ZoneEnd - scan.size
NoRoom(addr) == addr > ZoneEnd - scan.size

(* p = &tmp->next.                                                         *)
Advance_Stays(p) == p
Advance_Two(p) == p + 2
Advance(p) == p + 1

(* Iterations that pass a zone: one below addr, or whose gap is too small. *)
ScanNext ==
  /\ scan # Idle /\ scan.p <= Len(zones)
  /\ LET z == zones[scan.p]
         addr == IF z.start < scan.addr THEN scan.addr ELSE Past(z)
     IN  /\ \/ z.start < scan.addr
            \/ scan.size + scan.addr < Word /\ TooSmall(z) /\ ~NoRoom(Past(z))
         /\ scan' = [p |-> Advance(scan.p), addr |-> addr, size |-> scan.size]
  /\ UNCHANGED zones

(* goto out.                                                               *)
ScanOut ==
  /\ scan # Idle /\ scan.p <= Len(zones)
  /\ LET z == zones[scan.p]
     IN  /\ z.start >= scan.addr
         /\ \/ scan.size + scan.addr >= Word
            \/ TooSmall(z) /\ NoRoom(Past(z))
  /\ scan' = Idle
  /\ UNCHANGED zones

(* found: the new zone is linked in at p.                                  *)
Insert(s, k, z) ==
  [i \in 1 .. Len(s) + 1 |-> IF i < k THEN s[i] ELSE IF i = k THEN z ELSE s[i - 1]]
ScanFound ==
  /\ scan # Idle
  /\ \/ scan.p > Len(zones)
     \/ /\ scan.p <= Len(zones)
        /\ LET z == zones[scan.p]
           IN  z.start >= scan.addr /\ scan.size + scan.addr < Word /\ ~TooSmall(z)
  /\ zones' = Insert(zones, scan.p, [start |-> scan.addr, size |-> scan.size])
  /\ scan' = Idle

(* remove_vm_zone(addr): the first zone that starts at addr.               *)
Delete(s, k) == [i \in 1 .. Len(s) - 1 |-> IF i < k THEN s[i] ELSE s[i + 1]]
RemoveVmZone(k) ==
  /\ scan = Idle
  /\ \A j \in 1 .. k - 1 : zones[j].start # zones[k].start
  /\ zones' = Delete(zones, k)
  /\ UNCHANGED scan

Next ==
  \/ \E size \in Sizes : GetVmZone(size)
  \/ ScanNext
  \/ ScanOut
  \/ ScanFound
  \/ \E k \in 1 .. Len(zones) : RemoveVmZone(k)

Spec == Init /\ [][Next]_vars

FairSpec == Spec /\ WF_vars(ScanNext \/ ScanOut \/ ScanFound)

-----------------------------------------------------------------------------
Zone == [start : Nat, size : Nat]

(* Type correctness of the list and of the loop.                           *)
TypeOK ==
  /\ zones \in Seq(Zone)
  /\ scan = Idle \/ /\ scan \in [p : Nat, addr : Nat, size : Nat]
                    /\ scan.p \in 1 .. Len(zones) + 1

(* The zones lie in the region, in the order of their addresses, and no    *)
(* two overlap, whatever has been removed and put into the gaps since.     *)
ZonesDisjoint ==
  /\ \A i \in 1 .. Len(zones) :
       zones[i].start >= ZoneStart /\ End(zones[i]) <= ZoneEnd
  /\ \A i, j \in 1 .. Len(zones) : i < j => End(zones[i]) <= zones[j].start

(* An address where a zone of this size could be put.                      *)
Fits(a, size) ==
  /\ a >= ZoneStart /\ a + size <= ZoneEnd
  /\ \A i \in 1 .. Len(zones) : a + size <= zones[i].start \/ End(zones[i]) <= a

(* get_vm_zone gives up only when the zone fits nowhere in the region, and *)
(* otherwise takes an address where it fits with none that fits below it.  *)
FirstFit ==
  [][scan # Idle /\ scan' = Idle =>
       \/ zones' = zones /\ \A a \in ZoneStart .. ZoneEnd : ~Fits(a, scan.size)
       \/ /\ zones' # zones /\ Fits(scan.addr, scan.size)
          /\ \A a \in ZoneStart .. scan.addr - 1 : ~Fits(a, scan.size)]_vars

(* Every call returns: the loop ends.                                      *)
ScanEnds == scan # Idle ~> scan = Idle
=============================================================================
