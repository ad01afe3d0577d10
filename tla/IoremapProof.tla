---------------------------- MODULE IoremapProof ----------------------------
(***************************************************************************)
(* ioremap's page tables for every radix, every layout that                *)
(* LayoutAssumption allows and any sequence of calls: Ioremap implements   *)
(* VmZone, tasks see the kernel's mappings, and zones are mapped.          *)
(*                                                                         *)
(* The inductive invariant (AllInv) has three parts.  The tables are a     *)
(* tree apart from the tasks' top levels, which are copies, and the open   *)
(* loops of a map_contiguous are at a slot above the 2 MiB pages (MapInv). *)
(* Zones are whole pages as long as requests are (WholeOK).  Each zone is  *)
(* done, or is the one in the open loops and mapped as far as they have    *)
(* come (ZonesInv).  Zones are disjoint, so an iteration writes no entry   *)
(* of another zone: that is where VmZone's invariant is needed.            *)
(***************************************************************************)
EXTENDS IoremapTheory

USE SMTT(30), Z3T(30), SMTT(30), ZenonT(30)

(* The tasks' top levels are apart from the kernel's tree.                 *)
Roots == {tasks[j].root : j \in DOMAIN tasks}
TablesOK == \E lv, at : Tree(tables, Roots, lv, at)

(* A task's top level is the kernel's in the slots it had.                 *)
Task == [root : Nat, had : SUBSET Digit]
TaskOK ==
  /\ tasks \in Seq(Task)
  /\ \A j \in DOMAIN tasks :
       /\ tables[tasks[j].root] =
            [i \in Digit |-> IF i \in tasks[j].had THEN tables[1][i] ELSE Absent]
       /\ \A i \in tasks[j].had : tables[1][i] # Absent

(* The loops of an open map_contiguous.                                    *)
LoopOK ==
  map = NoMap \/ /\ map \in Loop /\ scan = Idle
                 /\ map.count <= map.n /\ map.last \in Digit
                 /\ ~map.big => Above(map) >= Identity /\ map.then = "done"
                 /\ map.big => /\ map.n = Identity /\ map.then = "kernel" /\ zones = <<>>
                               /\ map.count < map.n => Above(map) = map.count

(* Physical addresses are numbers.                                         *)
PhysOK == \A z \in DOMAIN phys : phys[z] \in Nat

(* The invariant of the tables, the tasks and the loops.                   *)
MapInv == IInv /\ TablesOK /\ TaskOK /\ LoopOK /\ PhysOK

-----------------------------------------------------------------------------
(* ioremap does with zones what VmZone says.                               *)
LEMMA ZoneStep == TablesNext => [Next]_vars
<1>1. MapStep \/ MapRest \/ MapEnd \/ CreatePageTable => UNCHANGED vars
  BY ZenonT(30) DEF MapStep, MapRest, MapEnd, CreatePageTable
<1>2. ASSUME NEW size \in Sizes, CallIoremap(size) \/ TooLarge(size) PROVE [Next]_vars
  BY <1>2 DEF CallIoremap, TooLarge, Next
<1>3. Scan \/ NoZone \/ MapZone => Next
  BY ZenonT(30) DEF Scan, NoZone, MapZone, Next
<1>4. ASSUME NEW k \in 1 .. Len(zones), Remove(k) PROVE Next
  BY <1>4 DEF Remove, Next
<1>5. QED
  BY <1>1, <1>2, <1>3, <1>4 DEF TablesNext

(* The zones' variables are among those of Ioremap.                        *)
LEMMA StutterZone == UNCHANGED allVars => UNCHANGED vars
  BY DEF allVars

(* Ioremap's steps, seen in the zones and the search, are those of VmZone: *)
(* map_contiguous and the page tables' calls leave vm_zones alone.  What is *)
(* proved of get_vm_zone holds of ioremap.                                 *)
THEOREM IoremapImplementsVmZone == TablesSpec => Spec
<1>1. TablesInit => Init
  BY DEF TablesInit
<1>2. [TablesNext]_allVars => [Next]_vars
  BY ZoneStep, StutterZone
<1>3. QED
  BY <1>1, <1>2, PTL DEF TablesSpec, Spec

(* get_vm_zone's promises hold of ioremap: zones never overlap, and the    *)
(* search is a first fit (ZonesDisjoint, FirstFit).                        *)
THEOREM IoremapZonesDisjoint == TablesSpec => [](TypeOK /\ ZonesDisjoint) /\ FirstFit
  BY IoremapImplementsVmZone, VmZonesDisjoint, VmZoneFirstFit, PTL

-----------------------------------------------------------------------------
(* Tasks whose tables are left alone.                                      *)
LEMMA TasksKept ==
  ASSUME TablesOK, TaskOK, Safe(tables, tables', Roots), tasks' = tasks
  PROVE  TaskOK' /\ Roots' = Roots
<1>1. Roots' = Roots
  BY DEF Roots
<1>2. ASSUME NEW j \in DOMAIN tasks
      PROVE  /\ tables'[tasks[j].root] =
                  [i \in Digit |-> IF i \in tasks[j].had THEN tables'[1][i] ELSE Absent]
             /\ \A i \in tasks[j].had : tables'[1][i] # Absent
  <2>1. tasks[j].root \in Roots
    BY DEF Roots
  <2>2. tables'[tasks[j].root] = tables[tasks[j].root]
    BY <2>1 DEF Safe
  <2>3. tasks[j].had \subseteq Digit
    <3>1. tasks[j] \in Task
      BY DEF TaskOK
    <3>2. QED
      BY <3>1 DEF Task
  <2>4. \A i \in tasks[j].had : tables[1][i] # Absent /\ tables'[1][i] = tables[1][i]
    BY <2>3, ZenonT(30) DEF TaskOK, Safe
  <2>5. tables[tasks[j].root] =
          [i \in Digit |-> IF i \in tasks[j].had THEN tables[1][i] ELSE Absent]
    BY DEF TaskOK
  <2>6. QED
    BY <2>2, <2>4, <2>5
<1>3. QED
  BY <1>1, <1>2 DEF TaskOK

(* The state of open loops is not that of none.                            *)
LEMMA LoopNotNoMap ==
  ASSUME NEW m \in Loop PROVE m # NoMap
<1>1. "from" \in DOMAIN m
  BY DEF Loop
<1>2. "from" \notin DOMAIN NoMap
  BY DEF NoMap
<1>3. QED
  BY <1>1, <1>2

(* Iterations keep the loops' state.                                       *)
LEMMA StepLoop ==
  ASSUME NEW m \in Loop, m.count < m.n, NEW k, k = [NextEntry(m) EXCEPT !.count = @ + 1]
  PROVE  /\ k \in Loop /\ k.count = m.count + 1 /\ Above(k) >= Above(m) /\ Above(m) \in Nat
         /\ m.big => Above(k) = Above(m) + 1
         /\ ~m.big => PageAt(k) = PageAt(m) + 1
         /\ k.n = m.n /\ k.from = m.from /\ k.big = m.big /\ k.last = m.last /\ k.then = m.then
<1> DEFINE e == NextEntry(m)
<1>1. /\ e \in Loop /\ Above(e) >= Above(m)
      /\ m.big => Above(e) = Above(m) + 1
      /\ ~m.big => PageAt(e) = PageAt(m) + 1
      /\ e.n = m.n /\ e.count = m.count /\ e.from = m.from
      /\ e.big = m.big /\ e.last = m.last /\ e.then = m.then
  BY NextSlot
<1> HIDE DEF e
<1>2. m.count + 1 \in Nat
  BY DEF Loop
<1>3. k = [e EXCEPT !.count = m.count + 1]
  BY <1>1 DEF e
<1>4. /\ k \in Loop /\ k.count = m.count + 1
      /\ k.n = e.n /\ k.from = e.from /\ k.big = e.big /\ k.last = e.last /\ k.then = e.then
      /\ k.i4 = e.i4 /\ k.i3 = e.i3 /\ k.i2 = e.i2 /\ k.i1 = e.i1
  BY <1>1, <1>2, <1>3, ZenonT(30) DEF Loop
<1>5. Above(k) = Above(e) /\ PageAt(k) = PageAt(e)
  BY <1>4 DEF Above, PageAt
<1>6. Above(m) \in Nat
  BY LoopSlots
<1>7. QED
  BY <1>1, <1>4, <1>5, <1>6

(* The frame an iteration maps (MapStep) is a frame's number.              *)
LEMMA FrameNat ==
  ASSUME NEW m \in Loop PROVE Frame(m) \in Nat
<1>1. /\ m.from \in Nat /\ m.count \in Nat /\ PageSize \in Nat \ {0} /\ Radix \in Nat
      /\ PageBytes(m.big) \in Nat
  <2>1. m.from \in Nat /\ m.count \in Nat
    BY DEF Loop
  <2>2. PageSize \in Nat \ {0} /\ Radix \in Nat
    BY RegionAssumption, TableAssumption
  <2>3. PageSize * Radix \in Nat
    BY <2>2
  <2>4. QED
    BY <2>1, <2>2, <2>3 DEF PageBytes
<1>2. m.from + m.count * PageBytes(m.big) \in Nat
  BY <1>1
<1>3. QED
  BY <1>1, <1>2, DivRest DEF Frame

(* The invariant as mapping goes on: the tables are a tree, tasks' tables  *)
(* and the loops are in order.                                             *)
LEMMA MapStepInv ==
  ASSUME MapInv, MapStep
  PROVE  /\ TablesOK' /\ TaskOK' /\ LoopOK'
         /\ ~map.big => /\ Mapped(tables', PageAt(map), Frame(map))
                        /\ \A p, g \in Nat : p < Top /\ p # PageAt(map) /\ Mapped(tables, p, g)
                                            => Mapped(tables', p, g)
<1>1. /\ map \in Loop /\ scan = Idle /\ map.count <= map.n /\ map.last \in Digit
      /\ ~map.big => Above(map) >= Identity /\ map.then = "done"
      /\ map.big => /\ map.n = Identity /\ map.then = "kernel" /\ zones = <<>>
                    /\ map.count < map.n => Above(map) = map.count
  BY ZenonT(30) DEF MapInv, LoopOK, MapStep, Running
<1>2. /\ map.count < map.n /\ map.i4 <= map.last /\ map' = [NextEntry(map) EXCEPT !.count = @ + 1]
      /\ UNCHANGED <<vars, phys, tasks, maps, stopped, whole>>
      /\ tables' = IF map.big
                     THEN [A2(tables, map).tables EXCEPT
                            ![A2(tables, map).next][map.i2] = Leaf(Frame(map), TRUE)]
                     ELSE [A1(tables, map).tables EXCEPT
                            ![A1(tables, map).next][map.i1] = Leaf(Frame(map), FALSE)]
  BY ZenonT(30) DEF MapStep, A1, A2, A3
<1>3. /\ map.count \in Nat /\ map.n \in Nat /\ map.big \in BOOLEAN /\ map.i4 \in Digit
      /\ Identity \in Nat /\ Radix \in Nat
  BY <1>1, <1>2, TableAssumption DEF Loop, Digit
<1>4. PICK lv, at : Tree(tables, Roots, lv, at)
  BY DEF MapInv, TablesOK
<1>5. /\ Safe(tables, tables', Roots) /\ \E lv2, at2 : Tree(tables', Roots, lv2, at2)
      /\ ~map.big => /\ Mapped(tables', PageAt(map), Frame(map))
                     /\ \A p, g \in Nat : p < Top /\ p # PageAt(map) /\ Mapped(tables, p, g)
                                         => Mapped(tables', p, g)
  <2>1. Frame(map) \in Nat
    BY <1>1, FrameNat
  <2>2. CASE map.big
    <3>1. Above(map) < Identity
      BY <1>1, <1>2, <1>3, <2>2
    <3>2. QED
      BY <1>1, <1>2, <1>3, <1>4, <2>1, <2>2, <3>1, BigStep, ZenonT(30)
  <2>3. CASE ~map.big
    <3>1. Above(map) >= Identity
      BY <1>1, <2>3
    <3>2. QED
      BY <1>1, <1>2, <1>3, <1>4, <2>1, <2>3, <3>1, PageStep, ZenonT(30)
  <2>4. QED
    BY <2>2, <2>3
<1>6. TaskOK' /\ Roots' = Roots
  BY <1>2, <1>5, TasksKept DEF MapInv
<1>7. TablesOK'
  BY <1>5, <1>6 DEF TablesOK
<1>8. /\ map' \in Loop /\ map'.count = map.count + 1 /\ Above(map') >= Above(map)
      /\ Above(map) \in Nat
      /\ map.big => Above(map') = Above(map) + 1
      /\ map'.n = map.n /\ map'.big = map.big /\ map'.last = map.last /\ map'.then = map.then
  BY <1>1, <1>2, StepLoop, ZenonT(30)
<1>9. LoopOK'
  <2>1. scan' = scan /\ zones' = zones
    BY <1>2 DEF vars
  <2>2. Above(map') \in Nat /\ map'.count <= map'.n
    BY <1>2, <1>3, <1>8, LoopSlots
  <2>3. CASE map.big
    BY <1>1, <1>2, <1>3, <1>8, <2>1, <2>2, <2>3, ZenonT(30) DEF LoopOK
  <2>4. CASE ~map.big
    BY <1>1, <1>2, <1>3, <1>8, <2>1, <2>2, <2>4 DEF LoopOK
  <2>5. QED
    BY <2>3, <2>4
<1>10. QED
  BY <1>5, <1>6, <1>7, <1>9

(* The outer loop alone.                                                   *)
LEMMA MapRestInv ==
  ASSUME MapInv, MapRest
  PROVE  TablesOK' /\ TaskOK' /\ LoopOK' /\ Grown(tables, tables', Roots)
<1>1. /\ map \in Loop /\ scan = Idle /\ map.count <= map.n /\ map.last \in Digit
      /\ ~map.big => Above(map) >= Identity /\ map.then = "done"
      /\ map.big => map.n = Identity /\ map.then = "kernel" /\ zones = <<>>
  BY DEF MapInv, LoopOK, MapRest, Running
<1>2. /\ map.count = map.n /\ map.i4 <= map.last /\ map' = [map EXCEPT !.i4 = @ + 1]
      /\ UNCHANGED <<vars, phys, tasks, maps, stopped, whole>>
      /\ tables' = Enter(tables, 1, map.i4).tables
  BY DEF MapRest
<1>3. /\ map.count \in Nat /\ map.n \in Nat /\ map.big \in BOOLEAN /\ map.i4 \in Digit
      /\ map.i4 \in Nat
      /\ map.i3 \in 0 .. Radix - 1 /\ map.i2 \in 0 .. Radix - 1 /\ Identity \in Nat /\ Radix \in Nat
  BY <1>1, <1>2, TableAssumption DEF Loop, Digit
<1>4. PICK lv, at : Tree(tables, Roots, lv, at)
  BY DEF MapInv, TablesOK
<1>5. 1 \in (1 .. Len(tables)) \ Roots /\ lv[1] = 4
  BY <1>4 DEF Tree
<1>6. PICK lv2, at2 :
        EnterTo(tables, tables', Enter(tables, 1, map.i4).next, 1, map.i4, Roots, lv, at, lv2, at2)
  <2>1. \E lv2, at2 :
          EnterTo(tables, Enter(tables, 1, map.i4).tables, Enter(tables, 1, map.i4).next,
                  1, map.i4, Roots, lv, at, lv2, at2)
    BY <1>3, <1>4, <1>5, EnterOK
  <2>2. QED
    BY <1>2, <2>1
<1>7. Tree(tables', Roots, lv2, at2) /\ Grown(tables, tables', Roots)
  BY <1>6 DEF EnterTo
<1>8. Safe(tables, tables', Roots)
  BY <1>5, <1>7 DEF Grown, Safe
<1>9. TaskOK' /\ Roots' = Roots
  BY <1>2, <1>8, TasksKept DEF MapInv
<1>10. TablesOK'
  BY <1>7, <1>9 DEF TablesOK
<1>11. /\ map' \in Loop /\ map'.count = map.count /\ map'.n = map.n /\ map'.big = map.big
       /\ map'.last = map.last /\ map'.then = map.then
       /\ map'.i4 = map.i4 + 1 /\ map'.i3 = map.i3 /\ map'.i2 = map.i2
  <2>1. map.i4 + 1 \in Nat
    BY <1>3
  <2>2. QED
    BY <1>1, <1>2, <2>1 DEF Loop
<1>12. Above(map') >= Above(map) /\ Above(map) \in Nat /\ Above(map') \in Nat
  <2>1. Above(map) \in Nat /\ Above(map') \in Nat /\ Slot(map.i4, map.i3) \in Nat
        /\ Slot(map'.i4, map'.i3) \in Nat
    BY <1>1, <1>11, LoopSlots
  <2>2. Slot(map.i4, map.i3) <= Slot(map.i4 + 1, map.i3)
    BY <1>3, SlotMono
  <2>3. Slot(Slot(map.i4, map.i3), map.i2) <= Slot(Slot(map.i4 + 1, map.i3), map.i2)
    BY <1>3, <1>11, <2>1, <2>2, SlotMono
  <2>4. QED
    BY <1>11, <2>1, <2>3 DEF Above
<1>13. LoopOK'
  <2>1. scan' = scan /\ zones' = zones
    BY <1>2 DEF vars
  <2>2. CASE map.big
    BY <1>1, <1>2, <1>3, <1>11, <2>1, <2>2 DEF LoopOK
  <2>3. CASE ~map.big
    BY <1>1, <1>2, <1>3, <1>11, <1>12, <2>1, <2>3 DEF LoopOK
  <2>4. QED
    BY <2>2, <2>3
<1>14. QED
  BY <1>7, <1>9, <1>10, <1>13

(* Pages above the 2 MiB pages are in tables above them.                   *)
LEMMA AboveIdentity ==
  ASSUME NEW p \in Nat, Identity * Radix <= p
  PROVE  Upper(p) >= Identity
<1>1. Radix \in Nat /\ Radix > 1 /\ Identity \in Nat /\ Identity * Radix \in Nat
  BY TableAssumption
<1>2. p >= Slot(Identity, 0) /\ 0 \in 0 .. Radix - 1
  BY <1>1 DEF Slot
<1>3. QED
  BY <1>1, <1>2, SlotOf

(* The end of a map_contiguous: paging_init's second one begins, or none.  *)
LEMMA MapEndInv ==
  ASSUME MapInv, MapEnd
  PROVE  LoopOK'
<1>1. /\ scan = Idle
      /\ map' = IF map.then = "kernel"
              THEN Loops(0, KernelPage * PageSize, KernelPages * PageSize, FALSE, "done")
              ELSE NoMap
      /\ UNCHANGED vars
  BY DEF MapInv, LoopOK, MapEnd, Running
<1>2. /\ PageSize \in Nat \ {0} /\ KernelPage \in Nat /\ KernelPages \in Nat
      /\ KernelPage * PageSize \in Nat /\ KernelPages * PageSize \in Nat
  BY RegionAssumption, TableAssumption
<1>3. /\ (KernelPage * PageSize) \div PageSize = KernelPage
      /\ (KernelPages * PageSize) \div PageSize = KernelPages
      /\ Ceil(KernelPages * PageSize, PageSize) = KernelPages
  BY <1>2, DivExact
<1> DEFINE m == Loops(0, KernelPage * PageSize, KernelPages * PageSize, FALSE, "done")
<1>4. /\ m \in Loop /\ m.last \in Digit /\ m.big = FALSE /\ m.then = "done" /\ m.count = 0
      /\ Above(m) = Upper(KernelPage)
  <2>1. ((KernelPage * PageSize) \div PageSize) + ((KernelPages * PageSize) \div PageSize) < Top
    BY <1>3, LayoutAssumption
  <2> DEFINE va == KernelPage * PageSize
             sz == KernelPages * PageSize
  <2>2. va \in Nat /\ sz \in Nat /\ (va \div PageSize) + (sz \div PageSize) < Top
        /\ va \div PageSize = KernelPage
    BY <1>2, <1>3, <2>1
  <2> HIDE DEF va, sz
  <2>3. Begun(Loops(0, va, sz, FALSE, "done"), 0, va, sz, FALSE, "done")
    BY <2>2, LoopsOK, ZenonT(30)
  <2>4. QED
    BY <2>2, <2>3, ZenonT(30) DEF Begun, va, sz
<1> HIDE DEF m
<1>5. Above(m) >= Identity
  BY <1>2, <1>4, AboveIdentity, LayoutAssumption
<1>6. m.count <= m.n
  BY <1>4 DEF Loop
<1>7. CASE map.then = "kernel"
  <2>1. map' = m /\ scan' = Idle
    BY <1>1, <1>7 DEF m, vars
  <2>2. QED
    BY <1>4, <1>5, <1>6, <2>1 DEF LoopOK
<1>8. QED
  BY <1>1, <1>7, ZenonT(30) DEF LoopOK

(* A zone lies in one page table, above the 2 MiB pages.                   *)
LEMMA ZonePages ==
  ASSUME NEW start \in Nat, NEW size \in Nat, start >= ZoneStart, start + size <= ZoneEnd
  PROVE  /\ (start \div PageSize) + (size \div PageSize) < Top
         /\ start \div PageSize \in Nat /\ Identity * Radix <= start \div PageSize
<1>1. /\ PageSize \in Nat \ {0} /\ ZoneStart \in Nat /\ ZoneEnd \in Nat /\ start + size \in Nat
      /\ Identity * Radix \in Nat /\ Top \in Nat
  BY RegionAssumption, TableAssumption DEF ZoneEnd, Top
<1>2. /\ start \div PageSize \in Nat /\ size \div PageSize \in Nat /\ ZoneEnd \div PageSize \in Nat
      /\ (start + size) \div PageSize \in Nat /\ ZoneStart \div PageSize \in Nat
  BY <1>1, DivRest, ZenonT(30)
<1>3. (start \div PageSize) + (size \div PageSize) <= (start + size) \div PageSize
  BY <1>1, DivSum
<1>4. (start + size) \div PageSize <= ZoneEnd \div PageSize
  BY <1>1, DivUp
<1>5. ZoneStart \div PageSize <= start \div PageSize
  BY <1>1, DivUp
<1>6. ZoneEnd \div PageSize + 1 < Top /\ Identity * Radix <= ZoneStart \div PageSize
  BY LayoutAssumption
<1>7. QED
  BY <1>1, <1>2, <1>3, <1>4, <1>5, <1>6

(* Loops that begin at the first page of a zone.                           *)
ZoneBegun(m, p, start, size) ==
  /\ m \in Loop /\ m.last \in Digit /\ m.last >= Index(4, start \div PageSize)
  /\ PageAt(m) = start \div PageSize /\ Above(m) >= Identity
  /\ m.n = Ceil(size, PageSize) /\ m.count = 0 /\ m.from = p
  /\ m.big = FALSE /\ m.then = "done"

(* map_vm_zone's loops.                                                    *)
LEMMA ZoneLoops ==
  ASSUME NEW p \in Nat, NEW start \in Nat, NEW size \in Nat,
         start >= ZoneStart, start + size <= ZoneEnd
  PROVE  ZoneBegun(Loops(p, start, size, FALSE, "done"), p, start, size)
<1> DEFINE m == Loops(p, start, size, FALSE, "done")
<1>1. /\ (start \div PageSize) + (size \div PageSize) < Top
      /\ start \div PageSize \in Nat /\ Identity * Radix <= start \div PageSize
  BY ZonePages
<1>2. /\ m \in Loop /\ m.last \in Digit /\ m.last >= Index(4, start \div PageSize)
      /\ PageAt(m) = start \div PageSize /\ Above(m) = Upper(start \div PageSize)
      /\ m.n = Ceil(size, PageBytes(FALSE)) /\ m.count = 0 /\ m.from = p
      /\ m.big = FALSE /\ m.then = "done"
  <2>1. Begun(m, p, start, size, FALSE, "done")
    BY <1>1, LoopsOK, ZenonT(30)
  <2>2. QED
    BY <2>1, ZenonT(30) DEF Begun
<1> HIDE DEF m
<1>3. Upper(start \div PageSize) >= Identity
  BY <1>1, AboveIdentity
<1>4. PageBytes(FALSE) = PageSize
  BY DEF PageBytes
<1>5. QED
  BY <1>2, <1>3, <1>4, ZenonT(30) DEF ZoneBegun, m

(* A new page table is a root apart from the kernel's tree.                *)
LEMMA NewRoot ==
  ASSUME NEW ts, NEW roots, NEW lv, NEW at, Tree(ts, roots, lv, at)
  PROVE  LET n == Len(ts) + 1
         IN  Tree(Append(ts, ts[1]), roots \cup {n},
                  [t \in 1 .. n |-> IF t = n THEN 4 ELSE lv[t]],
                  [t \in 1 .. n |-> IF t = n THEN 0 ELSE at[t]])
<1> DEFINE n == Len(ts) + 1
           us == Append(ts, ts[1])
           more == roots \cup {n}
           lv2 == [t \in 1 .. n |-> IF t = n THEN 4 ELSE lv[t]]
           at2 == [t \in 1 .. n |-> IF t = n THEN 0 ELSE at[t]]
<1>1. /\ ts \in Seq(Row) /\ Len(ts) \in Nat /\ Len(ts) >= 1 /\ roots \subseteq 2 .. Len(ts)
      /\ lv \in [1 .. Len(ts) -> 1 .. 4] /\ at \in [1 .. Len(ts) -> Nat] /\ lv[1] = 4 /\ at[1] = 0
      /\ \A v \in (1 .. Len(ts)) \ roots : \A j \in Digit : EntryOK(ts, roots, lv, at, v, j)
  BY DEF Tree
<1>2. us \in Seq(Row) /\ Len(us) = n /\ \A v \in 1 .. Len(ts) : us[v] = ts[v]
  <2>1. ts[1] \in Row
    BY <1>1
  <2>2. QED
    BY <1>1, <2>1
<1>3. /\ lv2 \in [1 .. n -> 1 .. 4] /\ at2 \in [1 .. n -> Nat]
      /\ \A v \in 1 .. Len(ts) : lv2[v] = lv[v] /\ at2[v] = at[v]
  BY <1>1
<1> HIDE DEF us, lv2, at2, n, more
<1>4. n = Len(ts) + 1 /\ more = roots \cup {n}
  BY DEF n, more
<1>5. ASSUME NEW v \in (1 .. n) \ more, NEW j \in Digit PROVE EntryOK(us, more, lv2, at2, v, j)
  <2>1. v \in (1 .. Len(ts)) \ roots
    BY <1>1, <1>4
  <2>2. EntryOK(ts, roots, lv, at, v, j) /\ us[v][j] = ts[v][j] /\ lv2[v] = lv[v] /\ at2[v] = at[v]
    BY <1>1, <1>2, <1>3, <2>1
  <2>3. \A u \in 2 .. Len(ts) :
          u \in 2 .. Len(us) /\ lv2[u] = lv[u] /\ at2[u] = at[u]
            /\ (u \notin roots => u \notin more)
    BY <1>1, <1>2, <1>3, <1>4
  <2>4. QED
    BY <2>2, <2>3, ZenonT(30) DEF EntryOK
<1>6. Tree(us, more, lv2, at2)
  <2>1. 1 \in 1 .. Len(ts) /\ n >= 1 /\ more \subseteq 2 .. n
    <3>1. \A r \in more : r \in 2 .. n
      BY <1>1, <1>4
    <3>2. 1 \in 1 .. Len(ts) /\ n >= 1
      BY <1>1, <1>4
    <3>3. QED
      BY <3>1, <3>2
  <2>2. QED
    BY <1>1, <1>2, <1>3, <1>5, <2>1 DEF Tree
<1>7. QED
  BY <1>6 DEF us, lv2, at2, n, more

(* cpu_mm_create_page_table.                                               *)
LEMMA CreateInv ==
  ASSUME MapInv, CreatePageTable
  PROVE  TablesOK' /\ TaskOK' /\ Grown(tables, tables', Roots)
<1> DEFINE n == Len(tables) + 1
           had == {i \in Digit : tables[1][i] # Absent}
           new == [root |-> n, had |-> had]
<1>1. tables' = Append(tables, tables[1]) /\ tasks' = Append(tasks, new)
  BY DEF CreatePageTable, TopLevel, Digit
<1>2. PICK lv, at : Tree(tables, Roots, lv, at)
  BY DEF MapInv, TablesOK
<1>3. /\ tables \in Seq(Row) /\ Len(tables) \in Nat /\ Len(tables) >= 1
      /\ Roots \subseteq 2 .. Len(tables)
      /\ tables[1] \in Row
  BY <1>2 DEF Tree
<1>4. tasks \in Seq(Task) /\ Len(tasks) \in Nat /\ DOMAIN tasks = 1 .. Len(tasks)
  BY DEF MapInv, TaskOK
<1>5. new \in Task /\ new.root = n /\ new.had = had
  <2>1. had \subseteq Digit
    OBVIOUS
  <2> HIDE DEF had
  <2>2. QED
    BY <1>3, <2>1 DEF Task
<1> HIDE DEF new, had
<1>6. /\ tasks' \in Seq(Task) /\ DOMAIN tasks' = 1 .. Len(tasks) + 1 /\ tasks'[Len(tasks) + 1] = new
      /\ \A j \in DOMAIN tasks : tasks'[j] = tasks[j]
  BY <1>1, <1>4, <1>5
<1>7. Len(tables') = n /\ tables'[n] = tables[1] /\ \A t \in 1 .. Len(tables) :
           tables'[t] = tables[t]
  BY <1>1, <1>3
<1>8. Roots' = Roots \cup {n}
  BY <1>4, <1>5, <1>6 DEF Roots
<1>9. TablesOK'
  <2>1. Tree(tables', Roots \cup {n}, [t \in 1 .. n |-> IF t = n THEN 4 ELSE lv[t]],
             [t \in 1 .. n |-> IF t = n THEN 0 ELSE at[t]])
    BY <1>1, <1>2, NewRoot, ZenonT(30)
  <2>2. QED
    BY <1>8, <2>1 DEF TablesOK
<1>10. ASSUME NEW j \in DOMAIN tasks'
       PROVE  /\ tables'[tasks'[j].root] =
                   [i \in Digit |-> IF i \in tasks'[j].had THEN tables'[1][i] ELSE Absent]
              /\ \A i \in tasks'[j].had : tables'[1][i] # Absent
  <2>1. tables'[1] = tables[1]
    BY <1>3, <1>7
  <2>2. CASE j = Len(tasks) + 1
    <3>1. tasks'[j].root = n /\ tasks'[j].had = had
      BY <1>5, <1>6, <2>2
    <3>2. tables[1] = [i \in Digit |-> IF i \in had THEN tables[1][i] ELSE Absent]
      BY <1>3 DEF Row, had
    <3>3. \A i \in had : tables[1][i] # Absent
      BY DEF had
    <3>4. QED
      BY <1>7, <2>1, <3>1, <3>2, <3>3
  <2>3. CASE j \in DOMAIN tasks
    <3>1. tasks'[j] = tasks[j] /\ tasks[j].root \in Roots
      BY <1>6, <2>3 DEF Roots
    <3>2. tables'[tasks[j].root] = tables[tasks[j].root]
      <4>1. \A r \in Roots : r \in 1 .. Len(tables)
        BY <1>3
      <4>2. QED
        BY <1>7, <3>1, <4>1
    <3>3. QED
      BY <2>1, <2>3, <3>1, <3>2 DEF MapInv, TaskOK
  <2>4. QED
    BY <1>4, <1>6, <2>2, <2>3
<1>11. TaskOK'
  BY <1>6, <1>10 DEF TaskOK
<1>12. Grown(tables, tables', Roots)
  BY <1>3, <1>7 DEF Grown
<1>13. QED
  BY <1>9, <1>11, <1>12

(* The zone found lies in the region; phys and the loops for it.           *)
LEMMA MapZoneInv ==
  ASSUME MapInv, MapZone
  PROVE  /\ LoopOK' /\ PhysOK' /\ Found \in Zone
         /\ Found.start >= ZoneStart /\ Found.start + Found.size <= ZoneEnd
         /\ \E p \in Phys :
              /\ p \in Nat /\ ZoneBegun(map', p, Found.start, Found.size)
              /\ phys' = [z \in DOMAIN phys \cup {Found} |-> IF z = Found THEN p ELSE phys[z]]
<1>1. IInv /\ scan # Idle /\ scan' = Idle
  BY DEF MapInv, MapZone, ScanFound
<1>2. scan.addr \in Nat /\ scan.size \in Nat
  BY <1>1, ScanAhead
<1>3. /\ Found \in Zone /\ Found.start \in Nat /\ Found.size \in Nat
      /\ Found.start >= ZoneStart /\ Found.start + Found.size <= ZoneEnd
  BY <1>1, <1>2 DEF Found, Zone, IInv, ScanInv
<1>4. PICK p \in Phys :
        /\ map' = Loops(p, Found.start, Found.size, FALSE, "done")
        /\ phys' = [z \in DOMAIN phys \cup {Found} |-> IF z = Found THEN p ELSE phys[z]]
  BY ZenonT(30) DEF MapZone
<1>5. p \in Nat
  BY TableAssumption
<1>6. ZoneBegun(map', p, Found.start, Found.size)
  BY <1>3, <1>4, <1>5, ZoneLoops, ZenonT(30)
<1>7. map'.n \in Nat
  BY <1>6 DEF ZoneBegun, Loop
<1>8. LoopOK'
  BY <1>1, <1>6, <1>7 DEF LoopOK, ZoneBegun
<1>9. PhysOK'
  BY <1>4, <1>5 DEF MapInv, PhysOK
<1>10. QED
  BY <1>3, <1>4, <1>5, <1>6, <1>8, <1>9, ZenonT(30)

(* paging_init's first map_contiguous.                                     *)
LEMMA InitMapInv == TablesInit => MapInv
<1> SUFFICES ASSUME TablesInit PROVE MapInv
  OBVIOUS
<1>1. IInv /\ scan = Idle /\ zones = <<>>
  BY InitIInv DEF TablesInit, Init
<1>2. PhysOK
  BY DEF TablesInit, PhysOK
<1>3. TaskOK /\ Roots = {}
  BY DEF TablesInit, TaskOK, Roots
<1>4. TablesOK
  <2> DEFINE lv == [t \in 1 .. 1 |-> 4]
             at == [t \in 1 .. 1 |-> 0]
  <2>1. Clear \in Row /\ \A i \in Digit : Clear[i] = Absent
    BY DEF Clear, Row, Digit, Entry
  <2>2. tables \in Seq(Row) /\ Len(tables) = 1 /\ tables[1] = Clear
    BY <2>1 DEF TablesInit
  <2>3. ASSUME NEW t \in (1 .. Len(tables)) \ {}, NEW i \in Digit
        PROVE EntryOK(tables, {}, lv, at, t, i)
    <3>1. t = 1
      BY <2>2
    <3>2. tables[t][i] = Absent
      BY <2>1, <2>2, <3>1
    <3>3. QED
      BY <3>2 DEF EntryOK
  <2>4. lv \in [1 .. 1 -> 1 .. 4] /\ at \in [1 .. 1 -> Nat] /\ lv[1] = 4 /\ at[1] = 0
    OBVIOUS
  <2> HIDE DEF lv, at
  <2>5. Tree(tables, {}, lv, at)
    BY <2>2, <2>3, <2>4 DEF Tree
  <2>6. QED
    BY <1>3, <2>5 DEF TablesOK
<1>5. LoopOK
  <2> DEFINE d == PageSize * Radix
             size == Identity * PageSize * Radix
  <2>1. PageSize \in Nat \ {0} /\ Radix \in Nat \ {0} /\ Identity \in Nat
        /\ KernelPages \in Nat /\ KernelPage \in Nat
    BY RegionAssumption, TableAssumption
  <2>2. d \in Nat \ {0} /\ size \in Nat /\ size = Identity * d
        /\ size = (Identity * Radix) * PageSize
        /\ Identity * Radix \in Nat
    BY <2>1
  <2> HIDE DEF d
  <2>3. size \div PageSize = Identity * Radix /\ Ceil(size, d) = Identity
    <3>1. Ceil(Identity * d, d) = Identity
      BY <2>1, <2>2, DivExact
    <3> DEFINE q == Identity * Radix
    <3>2. q \in Nat /\ size = q * PageSize
      BY <2>2
    <3> HIDE DEF q
    <3>3. (q * PageSize) \div PageSize = q
      BY <2>1, <3>2, DivExact
    <3> HIDE DEF size
    <3>4. QED
      BY <2>2, <3>1, <3>2, <3>3 DEF q
  <2>4. Upper(0) = 0 /\ 0 \div PageSize = 0
    <3>1. 0 * Radix = 0 /\ 0 * PageSize = 0
      BY <2>1
    <3>2. (0 * Radix) \div Radix = 0 /\ (0 * PageSize) \div PageSize = 0
      BY <2>1, DivExact
    <3>3. QED
      BY <3>1, <3>2 DEF Upper
  <2>5. (0 \div PageSize) + (size \div PageSize) < Top
    <3>1. Identity * Radix <= KernelPage /\ KernelPage + KernelPages < Top
      BY LayoutAssumption
    <3>2. Top \in Nat
      BY <2>1 DEF Top
    <3> HIDE DEF size
    <3>3. QED
      BY <2>1, <2>2, <2>3, <2>4, <3>1, <3>2
  <2>6. map = Loops(0, 0, size, TRUE, "kernel")
    BY DEF TablesInit
  <2> HIDE DEF size
  <2>7. Begun(map, 0, 0, size, TRUE, "kernel")
    BY <2>2, <2>5, <2>6, LoopsOK, ZenonT(30)
  <2>8. PageBytes(TRUE) = d
    BY DEF PageBytes, d
  <2>9. /\ map \in Loop /\ map.last \in Digit /\ map.count = 0 /\ map.n = Identity
        /\ map.big = TRUE /\ map.then = "kernel" /\ Above(map) = 0
    BY <2>3, <2>4, <2>7, <2>8, ZenonT(30) DEF Begun
  <2>10. QED
    BY <1>1, <2>1, <2>9 DEF LoopOK
<1>6. QED
  BY <1>1, <1>2, <1>3, <1>4, <1>5 DEF MapInv

(* Steps that leave the tables alone, ...                                  *)
LEMMA TablesKept ==
  ASSUME TablesOK, TaskOK, tables' = tables, tasks' = tasks
  PROVE  TablesOK' /\ TaskOK'
<1>1. Roots' = Roots
  BY DEF Roots
<1>2. TablesOK'
  BY <1>1 DEF TablesOK
<1>3. TaskOK'
  BY DEF TaskOK
<1>4. QED
  BY <1>2, <1>3

(* ... and the loops.                                                      *)
LEMMA QuietInv ==
  ASSUME MapInv, UNCHANGED <<tables, tasks, map>>, map = NoMap \/ UNCHANGED <<zones, scan>>
  PROVE  TablesOK' /\ TaskOK' /\ LoopOK'
<1>1. TablesOK' /\ TaskOK'
  BY TablesKept DEF MapInv
<1>2. LoopOK'
  BY DEF MapInv, LoopOK
<1>3. QED
  BY <1>1, <1>2

(* Every step of Ioremap keeps the invariant of the tables, tasks and loops. *)
LEMMA NextMapInv ==
  ASSUME MapInv, [TablesNext]_allVars
  PROVE  MapInv'
<1>1. IInv'
  <2>1. [Next]_vars
    BY ZoneStep, StutterZone
  <2>2. QED
    BY <2>1, NextIInv DEF MapInv
<1>2. PhysOK /\ LoopOK /\ TablesOK /\ TaskOK
  BY DEF MapInv
<1>3. CASE MapStep
  BY <1>1, <1>2, <1>3, MapStepInv, ZenonT(30) DEF MapInv, MapStep, PhysOK
<1>4. CASE MapRest
  BY <1>1, <1>2, <1>4, MapRestInv DEF MapInv, MapRest, PhysOK
<1>5. CASE MapEnd
  <2>1. TablesOK' /\ TaskOK' /\ PhysOK'
    BY <1>2, <1>5, TablesKept DEF MapEnd, PhysOK
  <2>2. QED
    BY <1>1, <1>5, <2>1, MapEndInv DEF MapInv
<1>7. ASSUME NEW size \in Sizes, CallIoremap(size) \/ TooLarge(size) PROVE MapInv'
  <2>1. UNCHANGED <<tables, tasks, map, phys>> /\ map = NoMap
    BY <1>7 DEF CallIoremap, TooLarge, Quiet
  <2>2. QED
    BY <1>1, <1>2, <2>1, QuietInv DEF MapInv, PhysOK
<1>8. CASE Scan \/ NoZone
  <2>1. UNCHANGED <<tables, tasks, map, phys>> /\ map = NoMap
    BY <1>8 DEF Scan, NoZone, Quiet, tvars
  <2>2. QED
    BY <1>1, <1>2, <2>1, QuietInv DEF MapInv, PhysOK
<1>9. CASE MapZone
  <2>1. TablesOK' /\ TaskOK'
    BY <1>2, <1>9, TablesKept DEF MapZone
  <2>2. QED
    BY <1>1, <1>9, <2>1, MapZoneInv DEF MapInv
<1>10. ASSUME NEW k \in 1 .. Len(zones), Remove(k) PROVE MapInv'
  <2>1. /\ UNCHANGED <<tables, tasks, map>> /\ map = NoMap
        /\ phys' = [z \in DOMAIN phys \ {zones[k]} |-> phys[z]]
    BY <1>10 DEF Remove, Quiet
  <2>2. PhysOK'
    BY <1>2, <2>1 DEF PhysOK
  <2>3. QED
    BY <1>1, <2>1, <2>2, QuietInv DEF MapInv
<1>11. CASE CreatePageTable
  <2>1. map' = map /\ map = NoMap /\ phys' = phys
    BY <1>11 DEF CreatePageTable, Quiet
  <2>2. PhysOK' /\ LoopOK'
    BY <1>2, <2>1 DEF PhysOK, LoopOK
  <2>3. QED
    BY <1>1, <1>11, <2>2, CreateInv DEF MapInv
<1>12. CASE UNCHANGED allVars
  <2>1. UNCHANGED <<tables, tasks, map, zones, scan, phys>>
    BY <1>12 DEF allVars, tvars, vars
  <2>2. QED
    BY <1>1, <1>2, <2>1, QuietInv DEF MapInv, PhysOK
<1>13. QED
  BY <1>3, <1>4, <1>5, <1>7, <1>8, <1>9, <1>10, <1>11, <1>12 DEF TablesNext

(* The invariant holds.  The kernel's tables are a tree: no table is in two *)
(* places (map_contiguous allocates one for an absent entry only), and none *)
(* is a task's top level, for any sequence of ioremap, remove_vm_zone and  *)
(* cpu_mm_create_page_table.                                               *)
THEOREM IoremapTables == TablesSpec => []MapInv
  BY InitMapInv, NextMapInv, PTL DEF TablesSpec

(* A task's page table has all of the kernel's mappings, those made later  *)
(* too, in the top-level slots copied by cpu_mm_create_page_table, and none *)
(* elsewhere (SeenByTasks).                                                *)
THEOREM IoremapSeenByTasks == TablesSpec => []SeenByTasks
<1>1. MapInv => SeenByTasks
  <2> SUFFICES ASSUME MapInv, NEW j \in DOMAIN tasks, NEW p \in KernelSpace
               PROVE  Translate(tasks[j].root, p) =
                        IF Index(4, p) \in tasks[j].had THEN Translate(1, p) ELSE Missing
    BY DEF SeenByTasks
  <2> DEFINE r == tasks[j].root
             i == Index(4, p)
  <2>1. i \in Digit
    <3>1. p \in Nat
      <4>1. CASE p \in 0 .. Identity * Radix - 1
        BY <4>1, TableAssumption
      <4>2. CASE p \in KernelPage .. KernelPage + KernelPages - 1
        BY <4>2, TableAssumption
      <4>3. ASSUME NEW k \in Remapped, p \in PagesOf(zones[k]) PROVE p \in Nat
        <5>1. k \in 1 .. Len(zones) /\ zones \in Seq(Zone)
          BY DEF Remapped, MapInv, IInv, TypeOK
        <5>2. zones[k] \in Zone
          BY <5>1
        <5>3. zones[k].start \in Nat
          BY <5>2 DEF Zone
        <5>4. zones[k].start \div PageSize \in Nat
          BY <5>3, DivRest, RegionAssumption
        <5>5. QED
          BY <4>3, <5>4 DEF PagesOf
      <4>4. QED
        BY <4>1, <4>2, <4>3 DEF KernelSpace
    <3>2. QED
      BY <3>1, Indices
  <2> HIDE DEF i
  <2>2. tables[r] = [x \in Digit |-> IF x \in tasks[j].had THEN tables[1][x] ELSE Absent]
    BY DEF MapInv, TaskOK
  <2>3. tables[r][i] = IF i \in tasks[j].had THEN tables[1][i] ELSE Absent
    BY <2>1, <2>2
  <2> HIDE DEF r
  <2>4. CASE i \in tasks[j].had
    <3>1. tables[r][i] = tables[1][i]
      BY <2>3, <2>4
    <3>2. Translate(r, p) = Translate(1, p)
      BY <3>1 DEF Translate, i
    <3>3. QED
      BY <2>4, <3>2 DEF i, r
  <2>5. CASE i \notin tasks[j].had
    <3>1. tables[r][i] = Absent
      BY <2>3, <2>5
    <3>2. Translate(r, p) = Missing
      BY <3>1 DEF Translate, i
    <3>3. QED
      BY <2>5, <3>2 DEF i, r
  <2>6. QED
    BY <2>4, <2>5
<1>2. QED
  BY <1>1, IoremapTables, PTL

(* Multiples of the page size; a zone's first page, its number of pages.   *)
Whole(x) == \E q \in Nat : x = q * PageSize
First(z) == z.start \div PageSize
Count(z) == Ceil(z.size, PageSize)
WholeZone(z) == z \in Zone /\ Whole(z.start) /\ Whole(z.size)

(* Zones and the gap found begin and end with a page.                      *)
WholeOK ==
  whole => /\ \A k \in 1 .. Len(zones) : WholeZone(zones[k])
           /\ scan # Idle => Whole(scan.addr) /\ Whole(scan.size)

(* The pages of zone z up to n are mapped to the device's from f on.       *)
MappedTo(ts, f, z, c) == Mapped(ts, First(z) + c, (f + c * PageSize) \div PageSize)

(* All of zone z that lies in its first top-level slot is mapped.          *)
Done(ts, f, z) ==
  \A c \in 0 .. Count(z) - 1 :
    Index(4, First(z) + c) = Index(4, First(z)) => MappedTo(ts, f, z, c)

(* The loops are at zone z: what is behind them is mapped.                 *)
Open(ts, m, f, z) ==
  /\ m.big = FALSE /\ m.from = f /\ m.n = Count(z) /\ m.last >= Index(4, First(z))
  /\ m.count < m.n => PageAt(m) = First(z) + m.count
  /\ \A c \in 0 .. m.count - 1 : MappedTo(ts, f, z, c)

(* All zones but the one at place j are done.                              *)
Finished(ts, f, zs, j) ==
  \A k \in 1 .. Len(zs) : k # j /\ zs[k] \in DOMAIN f => Done(ts, f[zs[k]], zs[k])

(* While requests are whole pages, every zone is done, or open in the      *)
(* loops.                                                                  *)
ZonesInv ==
  whole =>
    \/ zones = <<>>
    \/ map = NoMap /\ Finished(tables, phys, zones, 0)
    \/ /\ map \in Loop
       /\ \E j \in Remapped :
            Open(tables, map, phys[zones[j]], zones[j]) /\ Finished(tables, phys, zones, j)

(* The inductive invariant of Ioremap.                                     *)
AllInv == MapInv /\ WholeOK /\ ZonesInv

-----------------------------------------------------------------------------
(* Multiples of the page size.                                             *)
LEMMA WholeSum ==
  ASSUME NEW a, NEW b, Whole(a), Whole(b)
  PROVE  a + b \in Nat /\ Whole(a + b) /\ a \in Nat
<1>1. PageSize \in Nat
  BY RegionAssumption
<1>2. PICK q \in Nat : a = q * PageSize
  BY DEF Whole
<1>3. PICK r \in Nat : b = r * PageSize
  BY DEF Whole
<1>4. a + b = (q + r) * PageSize /\ q + r \in Nat /\ a \in Nat /\ b \in Nat
  BY <1>1, <1>2, <1>3
<1>5. QED
  BY <1>4 DEF Whole

(* A multiple's quotient, and that multiples are a page apart.             *)
LEMMA WholeOf ==
  ASSUME NEW a \in Nat, a % PageSize = 0
  PROVE  Whole(a)
<1>1. a \div PageSize \in Nat /\ a = (a \div PageSize) * PageSize + (a % PageSize)
  BY DivRest, RegionAssumption
<1> DEFINE q == a \div PageSize
<1>2. q \in Nat /\ a = q * PageSize + 0
  BY <1>1
<1> HIDE DEF q
<1>3. a = q * PageSize
  BY <1>2, RegionAssumption
<1>4. QED
  BY <1>2, <1>3 DEF Whole

(* The size get_vm_zone looks for.                                         *)
LEMMA WholePadded ==
  ASSUME NEW size \in Sizes, size % PageSize = 0
  PROVE  Whole(Padded(size))
<1>1. size \in Nat /\ Word \in Nat /\ PageSize \in Nat \ {0} /\ Word % PageSize = 0
  BY RegionAssumption, LayoutAssumption
<1>2. PICK q \in Nat : size = q * PageSize
  BY <1>1, WholeOf, ZenonT(30) DEF Whole
<1>3. PICK w \in Nat : Word = w * PageSize
  BY <1>1, WholeOf, ZenonT(30) DEF Whole
<1>4. size + PageSize = (q + 1) * PageSize /\ q + 1 \in Nat
  BY <1>1, <1>2
<1>5. CASE size + PageSize >= Word
  <2>1. w <= q + 1
    <3>1. (w * PageSize) \div PageSize <= ((q + 1) * PageSize) \div PageSize
      <4>1. w * PageSize \in Nat /\ (q + 1) * PageSize \in Nat /\ w * PageSize <= (q + 1) * PageSize
        BY <1>1, <1>3, <1>4, <1>5
      <4> DEFINE a == w * PageSize
                 b == (q + 1) * PageSize
      <4> HIDE DEF a, b
      <4>2. a \in Nat /\ b \in Nat /\ a <= b
        BY <4>1 DEF a, b
      <4>3. a \div PageSize <= b \div PageSize
        BY <1>1, <4>2, DivUp
      <4>4. QED
        BY <4>3 DEF a, b
    <3>2. (w * PageSize) \div PageSize = w
      BY <1>1, DivExact
    <3>3. ((q + 1) * PageSize) \div PageSize = q + 1
      BY <1>1, <1>4, DivExact
    <3>4. QED
      BY <3>1, <3>2, <3>3
  <2>2. PICK r \in Nat : q + 1 = w + r
    <3>1. q + 1 - w \in Nat /\ q + 1 = w + (q + 1 - w)
      BY <2>1
    <3>2. QED
      BY <3>1
  <2>3. (q + 1) * PageSize = w * PageSize + r * PageSize /\ r * PageSize \in Nat
    BY <1>1, <2>2
  <2>4. Padded(size) = r * PageSize
    BY <1>1, <1>3, <1>4, <1>5, <2>3 DEF Padded
  <2>5. QED
    BY <2>4 DEF Whole
<1>6. CASE ~(size + PageSize >= Word)
  BY <1>4, <1>6 DEF Padded, Whole
<1>7. QED
  BY <1>5, <1>6

(* Pages of a zone.                                                        *)
LEMMA ZoneCount ==
  ASSUME NEW z, WholeZone(z)
  PROVE  /\ z.start \in Nat /\ z.size \in Nat /\ First(z) \in Nat /\ Count(z) \in Nat
         /\ z.start = First(z) * PageSize /\ z.size = Count(z) * PageSize
         /\ End(z) = (First(z) + Count(z)) * PageSize
<1>1. PageSize \in Nat \ {0} /\ z.start \in Nat /\ z.size \in Nat
  BY RegionAssumption DEF WholeZone, Zone
<1>2. PICK q \in Nat : z.start = q * PageSize
  BY DEF WholeZone, Whole
<1>3. PICK r \in Nat : z.size = r * PageSize
  BY DEF WholeZone, Whole
<1>4. First(z) = q
  <2>1. (q * PageSize) \div PageSize = q
    BY <1>1, DivExact
  <2>2. QED
    BY <1>2, <2>1 DEF First
<1>5. Count(z) = r
  <2>1. Ceil(r * PageSize, PageSize) = r
    BY <1>1, DivExact
  <2>2. QED
    BY <1>3, <2>1 DEF Count
<1>6. End(z) = (q + r) * PageSize
  BY <1>1, <1>2, <1>3 DEF End
<1>7. QED
  BY <1>1, <1>2, <1>3, <1>4, <1>5, <1>6

(* Zones that do not overlap have no page in common.                       *)
LEMMA PagesApart ==
  ASSUME NEW z, WholeZone(z), NEW n \in Nat, End(z) <= n * PageSize
  PROVE  First(z) + Count(z) <= n
<1>1. PageSize \in Nat \ {0} /\ First(z) \in Nat /\ Count(z) \in Nat
      /\ End(z) = (First(z) + Count(z)) * PageSize
  BY ZoneCount, RegionAssumption
<1> DEFINE m == First(z) + Count(z)
           a == m * PageSize
           b == n * PageSize
<1>2. m \in Nat /\ a \in Nat /\ b \in Nat /\ a <= b
  BY <1>1
<1>3. a \div PageSize = m /\ b \div PageSize = n
  <2> HIDE DEF m
  <2>1. (m * PageSize) \div PageSize = m
    BY <1>1, <1>2, DivExact
  <2>2. (n * PageSize) \div PageSize = n
    BY <1>1, DivExact
  <2>3. QED
    BY <2>1, <2>2
<1> HIDE DEF a, b, m
<1>4. a \div PageSize <= b \div PageSize
  BY <1>1, <1>2, DivUp
<1>5. QED
  BY <1>3, <1>4 DEF m

(* ... nor one beyond the page table.                                      *)
LEMMA PagesBelowTop ==
  ASSUME NEW z, WholeZone(z), End(z) <= ZoneEnd
  PROVE  First(z) + Count(z) < Top
<1>1. /\ PageSize \in Nat \ {0} /\ First(z) \in Nat /\ Count(z) \in Nat /\ ZoneEnd \in Nat
      /\ End(z) = (First(z) + Count(z)) * PageSize
  BY ZoneCount, RegionAssumption DEF ZoneEnd
<1> DEFINE m == First(z) + Count(z)
           a == m * PageSize
<1>2. m \in Nat /\ a \in Nat /\ a <= ZoneEnd
  BY <1>1
<1> HIDE DEF m
<1>3. a \div PageSize = m
  BY <1>1, <1>2, DivExact
<1> HIDE DEF a
<1>4. a \div PageSize <= ZoneEnd \div PageSize
  BY <1>1, <1>2, DivUp, ZenonT(30)
<1>5. ZoneEnd \div PageSize \in Nat /\ Top \in Nat /\ ZoneEnd \div PageSize + 1 < Top
  <2>1. ZoneEnd \div PageSize \in Nat
    BY <1>1, DivRest, ZenonT(30)
  <2>2. Top \in Nat
    BY TableAssumption DEF Top
  <2>3. QED
    BY <2>1, <2>2, LayoutAssumption
<1>6. QED
  BY <1>2, <1>3, <1>4, <1>5 DEF m

(* The zones of a state: whole ones, in the region, none overlapping.      *)
LEMMA ZonesApart ==
  ASSUME IInv, \A i \in 1 .. Len(zones) : WholeZone(zones[i]),
         NEW k \in 1 .. Len(zones), NEW j \in 1 .. Len(zones), k # j
  PROVE  \/ First(zones[k]) + Count(zones[k]) <= First(zones[j])
         \/ First(zones[j]) + Count(zones[j]) <= First(zones[k])
<1>1. /\ First(zones[k]) \in Nat /\ zones[k].start = First(zones[k]) * PageSize
      /\ First(zones[j]) \in Nat /\ zones[j].start = First(zones[j]) * PageSize
  BY ZoneCount
<1>2. End(zones[k]) <= zones[j].start \/ End(zones[j]) <= zones[k].start
  <2>1. Len(zones) \in Nat
    BY DEF IInv, TypeOK
  <2>2. k < j \/ j < k
    BY <2>1
  <2>3. QED
    BY <2>2 DEF IInv, ZonesDisjoint
<1>3. CASE End(zones[k]) <= zones[j].start
  <2>1. End(zones[k]) <= First(zones[j]) * PageSize
    BY <1>1, <1>3
  <2>2. QED
    BY <1>1, <2>1, PagesApart
<1>4. CASE End(zones[j]) <= zones[k].start
  <2>1. End(zones[j]) <= First(zones[k]) * PageSize
    BY <1>1, <1>4
  <2>2. QED
    BY <1>1, <2>1, PagesApart
<1>5. QED
  BY <1>2, <1>3, <1>4

(* The first page of a zone, and the top-level slot it has.                *)
LEMMA ZoneTop ==
  ASSUME IInv, \A i \in 1 .. Len(zones) : WholeZone(zones[i]), NEW k \in 1 .. Len(zones)
  PROVE  /\ First(zones[k]) \in Nat /\ Count(zones[k]) \in Nat
         /\ First(zones[k]) + Count(zones[k]) < Top
<1>1. End(zones[k]) <= ZoneEnd
  BY DEF IInv, ZonesDisjoint
<1>2. QED
  BY <1>1, ZoneCount, PagesBelowTop

-----------------------------------------------------------------------------
(* Zones that are put in or taken out.                                     *)
LEMMA WholeStep ==
  ASSUME MapInv, WholeOK, [TablesNext]_allVars
  PROVE  WholeOK'
<1> SUFFICES ASSUME whole' PROVE (/\ \A k \in 1 .. Len(zones) : WholeZone(zones[k])
                                  /\ scan # Idle => Whole(scan.addr) /\ Whole(scan.size))'
  BY DEF WholeOK
<1>1. whole /\ IInv
  BY ZenonT(30) DEF MapInv, TablesNext, MapStep, MapRest, MapEnd, CallIoremap,
         TooLarge, Scan, NoZone,
         MapZone, Remove, CreatePageTable, allVars, tvars
<1>2. /\ \A k \in 1 .. Len(zones) : WholeZone(zones[k])
      /\ scan # Idle => Whole(scan.addr) /\ Whole(scan.size)
  BY <1>1 DEF WholeOK
<1>3. CASE MapStep \/ MapRest \/ MapEnd \/ CreatePageTable \/ UNCHANGED allVars
  <2>1. UNCHANGED <<zones, scan>>
    BY <1>3, ZenonT(30) DEF MapStep, MapRest, MapEnd, CreatePageTable, allVars, vars
  <2>2. QED
    BY <1>2, <2>1
<1>4. ASSUME NEW size \in Sizes, TooLarge(size) PROVE UNCHANGED <<zones, scan>>
  BY <1>4 DEF TooLarge, vars
<1>5. ASSUME NEW size \in Sizes, CallIoremap(size)
      PROVE  zones' = zones /\ Whole(scan'.addr) /\ Whole(scan'.size)
  <2>1. size % PageSize = 0 /\ zones' = zones
        /\ scan' = [p |-> 1, addr |-> ZoneStart, size |-> Padded(size)]
    BY <1>5, ZenonT(30) DEF CallIoremap, GetVmZone
  <2>2. Whole(Padded(size))
    BY <2>1, WholePadded
  <2>3. Whole(ZoneStart)
    BY WholeOf, RegionAssumption, LayoutAssumption
  <2>4. QED
    BY <2>1, <2>2, <2>3
<1>6. CASE Scan
  <2>1. scan # Idle /\ scan.p \in 1 .. Len(zones) /\ ScanNext
    BY <1>1, <1>6, ScanAhead DEF Scan, ScanNext
  <2>2. WholeZone(zones[scan.p])
    BY <1>2, <2>1
  <2>3. Whole(End(zones[scan.p]))
    BY <2>2, WholeSum DEF WholeZone, End
  <2>4. /\ zones' = zones /\ scan'.size = scan.size
        /\ scan'.addr \in {scan.addr, End(zones[scan.p])}
    BY <2>1 DEF ScanNext, Past
  <2>5. QED
    BY <1>2, <2>1, <2>3, <2>4
<1>7. CASE NoZone
  BY <1>2, <1>7 DEF NoZone, ScanOut
<1>8. CASE MapZone
  <2>1. /\ scan # Idle /\ scan' = Idle /\ scan.p \in 1 .. Len(zones) + 1 /\ zones \in Seq(Zone)
        /\ zones' = Insert(zones, scan.p, Found)
    BY <1>1, <1>8, ScanAhead, ZenonT(30) DEF MapZone, ScanFound, Found, IInv, TypeOK
  <2>2. Found \in Zone /\ Whole(scan.addr) /\ Whole(scan.size)
    BY <1>2, <1>8, <2>1, MapZoneInv
  <2>3. WholeZone(Found)
    BY <2>2 DEF WholeZone, Found
  <2>4. IsInsert(zones', zones, scan.p, Found)
    BY <2>1, <2>2, InsertSeq
  <2>5. Len(zones) \in Nat
    BY <2>1
  <2>6. ASSUME NEW k \in 1 .. Len(zones') PROVE WholeZone(zones'[k])
    <3>1. /\ k \in 1 .. Len(zones) + 1
          /\ zones'[k] = IF k < scan.p THEN zones[k] ELSE IF k = scan.p THEN Found ELSE zones[k - 1]
      BY <2>4 DEF IsInsert
    <3>2. CASE k < scan.p
      <4>1. k \in 1 .. Len(zones)
        BY <2>1, <2>5, <3>1, <3>2
      <4>2. QED
        BY <1>2, <3>1, <3>2, <4>1
    <3>3. CASE k = scan.p
      BY <2>3, <3>1, <3>3
    <3>4. CASE k > scan.p
      <4>1. k - 1 \in 1 .. Len(zones) /\ ~(k < scan.p) /\ k # scan.p
        BY <2>1, <2>5, <3>1, <3>4
      <4>2. QED
        BY <1>2, <3>1, <4>1
    <3>5. QED
      BY <2>1, <2>5, <3>1, <3>2, <3>3, <3>4
  <2>7. QED
    BY <2>1, <2>6
<1>9. ASSUME NEW k \in 1 .. Len(zones), Remove(k)
      PROVE  scan' = Idle /\ \A i \in 1 .. Len(zones') : WholeZone(zones'[i])
  <2>1. scan' = Idle /\ zones' = Delete(zones, k) /\ zones \in Seq(Zone) /\ Len(zones) \in Nat
    BY <1>1, <1>9 DEF Remove, RemoveVmZone, IInv, TypeOK
  <2>2. /\ Len(zones') = Len(zones) - 1
        /\ \A i \in 1 .. Len(zones) - 1 : zones'[i] = IF i < k THEN zones[i] ELSE zones[i + 1]
    BY <2>1, DeleteSeq, ZenonT(30)
  <2>3. ASSUME NEW i \in 1 .. Len(zones') PROVE WholeZone(zones'[i])
    <3>1. i \in 1 .. Len(zones) /\ i + 1 \in 1 .. Len(zones) /\ i \in 1 .. Len(zones) - 1
      BY <2>1, <2>2
    <3>2. WholeZone(zones[i]) /\ WholeZone(zones[i + 1])
      BY <1>2, <3>1
    <3>3. QED
      BY <2>2, <3>1, <3>2
  <2>4. QED
    BY <2>1, <2>3
<1>10. QED
  BY <1>2, <1>3, <1>4, <1>5, <1>6, <1>7, <1>8, <1>9 DEF TablesNext

(* The frame of a zone's page is a frame's number.                         *)
LEMMA FrameOfNat ==
  ASSUME NEW f \in Nat, NEW c \in Nat
  PROVE  (f + c * PageSize) \div PageSize \in Nat
<1>1. PageSize \in Nat \ {0} /\ f + c * PageSize \in Nat
  BY RegionAssumption
<1>2. QED
  BY <1>1, DivRest

(* What is mapped stays mapped when no entry of the zone is written.       *)
LEMMA DoneKept ==
  ASSUME NEW ts, NEW us, NEW f \in Nat, NEW z, First(z) \in Nat, Count(z) \in Nat,
         First(z) + Count(z) < Top, Done(ts, f, z),
         \A p, g \in Nat :
           p < Top /\ First(z) <= p /\ p < First(z) + Count(z) /\ Mapped(ts, p, g)
             => Mapped(us, p, g)
  PROVE  Done(us, f, z)
<1> SUFFICES ASSUME NEW c \in 0 .. Count(z) - 1, Index(4, First(z) + c) = Index(4, First(z))
             PROVE  MappedTo(us, f, z, c)
  BY DEF Done
<1>1. MappedTo(ts, f, z, c)
  BY DEF Done
<1>2. Top \in Nat
  BY TableAssumption DEF Top
<1>3. c \in Nat /\ First(z) + c \in Nat /\ First(z) + c < Top /\ First(z) <= First(z) + c
      /\ First(z) + c < First(z) + Count(z)
  BY <1>2
<1>4. (f + c * PageSize) \div PageSize \in Nat
  BY <1>3, FrameOfNat
<1>5. QED
  BY <1>1, <1>3, <1>4 DEF MappedTo

(* The same for all zones.                                                 *)
LEMMA FinishedKept ==
  ASSUME IInv, PhysOK, \A i \in 1 .. Len(zones) : WholeZone(zones[i]),
         NEW ts, NEW us, NEW j, Finished(ts, phys, zones, j),
         \A p, g \in Nat : p < Top /\ Mapped(ts, p, g) => Mapped(us, p, g)
  PROVE  Finished(us, phys, zones, j)
<1> SUFFICES ASSUME NEW k \in 1 .. Len(zones), k # j, zones[k] \in DOMAIN phys
             PROVE  Done(us, phys[zones[k]], zones[k])
  BY DEF Finished
<1>1. /\ First(zones[k]) \in Nat /\ Count(zones[k]) \in Nat
      /\ First(zones[k]) + Count(zones[k]) < Top
      /\ phys[zones[k]] \in Nat
  BY ZoneTop DEF PhysOK
<1>2. Done(ts, phys[zones[k]], zones[k])
  BY DEF Finished
<1>3. QED
  BY <1>1, <1>2, DoneKept

(* Tables that only grow keep what is mapped.                              *)
LEMMA GrownKeeps ==
  ASSUME TablesOK, Grown(tables, tables', Roots), NEW p \in Nat, NEW g \in Nat, Mapped(tables, p, g)
  PROVE  Mapped(tables', p, g)
<1>1. PICK lv, at : Tree(tables, Roots, lv, at)
  BY DEF TablesOK
<1>2. QED
  BY <1>1, MappedGrown

(* An iteration maps the next page of its zone and touches no other one.   *)
LEMMA MapStepZones ==
  ASSUME AllInv, whole, MapStep, zones # <<>>
  PROVE  ZonesInv'
<1>1. /\ MapInv /\ IInv /\ PhysOK /\ map \in Loop /\ map.count < map.n
      /\ map' = [NextEntry(map) EXCEPT !.count = @ + 1] /\ UNCHANGED <<zones, scan, phys, whole>>
  BY ZenonT(30) DEF AllInv, MapInv, LoopOK, MapStep, Running, vars
<1>2. \A i \in 1 .. Len(zones) : WholeZone(zones[i])
  BY DEF AllInv, WholeOK
<1>3. PICK j \in Remapped :
           Open(tables, map, phys[zones[j]], zones[j]) /\ Finished(tables, phys, zones, j)
  BY <1>1, LoopNotNoMap DEF AllInv, ZonesInv
<1> DEFINE z == zones[j]
           f == phys[z]
<1>4. /\ j \in 1 .. Len(zones) /\ z \in DOMAIN phys /\ f \in Nat
      /\ First(z) \in Nat /\ Count(z) \in Nat /\ First(z) + Count(z) < Top
  <2>1. j \in 1 .. Len(zones) /\ z \in DOMAIN phys
    BY DEF Remapped
  <2>2. QED
    BY <1>1, <1>2, <2>1, ZoneTop DEF PhysOK
<1>5. /\ map.big = FALSE /\ map.from = f /\ map.n = Count(z) /\ map.last >= Index(4, First(z))
      /\ PageAt(map) = First(z) + map.count
      /\ \A c \in 0 .. map.count - 1 : MappedTo(tables, f, z, c)
  BY <1>1, <1>3 DEF Open
<1> HIDE DEF z, f
<1>6. /\ Mapped(tables', PageAt(map), Frame(map))
      /\ \A p, g \in Nat :
           p < Top /\ p # PageAt(map) /\ Mapped(tables, p, g) => Mapped(tables', p, g)
  BY <1>1, <1>5, MapStepInv
<1>7. map.count \in Nat /\ map.n \in Nat
  BY <1>1 DEF Loop
<1>8. Frame(map) = (f + map.count * PageSize) \div PageSize
  BY <1>5 DEF Frame, PageBytes
<1>9. ASSUME NEW c \in 0 .. map.count PROVE MappedTo(tables', f, z, c)
  <2>1. CASE c = map.count
    BY <1>5, <1>6, <1>8, <2>1 DEF MappedTo
  <2>2. CASE c # map.count
    <3>1. MappedTo(tables, f, z, c)
      BY <1>5, <1>7, <2>2
    <3>2. Top \in Nat
      BY TableAssumption DEF Top
    <3>3. c \in Nat /\ First(z) + c \in Nat /\ First(z) + c < Top
          /\ First(z) + c # First(z) + map.count
      BY <1>1, <1>4, <1>5, <1>7, <2>2, <3>2
    <3>4. (f + c * PageSize) \div PageSize \in Nat
      BY <1>4, <3>3, FrameOfNat, ZenonT(30)
    <3>5. QED
      BY <1>5, <1>6, <3>1, <3>3, <3>4 DEF MappedTo
  <2>3. QED
    BY <2>1, <2>2
<1>10. /\ map' \in Loop /\ map'.count = map.count + 1 /\ PageAt(map') = PageAt(map) + 1
       /\ map'.n = map.n /\ map'.from = map.from /\ map'.big = map.big /\ map'.last = map.last
  BY <1>1, <1>5, StepLoop, ZenonT(30)
<1>11. Open(tables', map', f, z)
  <2>1. map'.count - 1 = map.count /\ PageAt(map') = First(z) + map'.count
    <3> DEFINE a == map.count
               b == map'.count
               p == PageAt(map)
               q == PageAt(map')
               n == First(z)
    <3>1. a \in Nat /\ n \in Nat /\ b = a + 1 /\ p = n + a /\ q = p + 1
      BY <1>4, <1>5, <1>7, <1>10
    <3> HIDE DEF a, b, p, q, n
    <3>2. b - 1 = a /\ q = n + b
      BY <3>1
    <3>3. QED
      BY <3>2 DEF a, b, p, q, n
  <2>2. QED
    BY <1>5, <1>9, <1>10, <2>1 DEF Open
<1>12. Finished(tables', phys, zones, j)
  <2> SUFFICES ASSUME NEW k \in 1 .. Len(zones), k # j, zones[k] \in DOMAIN phys
               PROVE  Done(tables', phys[zones[k]], zones[k])
    BY DEF Finished
  <2> DEFINE y == zones[k]
  <2>1. /\ First(y) \in Nat /\ Count(y) \in Nat /\ First(y) + Count(y) < Top /\ phys[y] \in Nat
    BY <1>1, <1>2, ZoneTop DEF PhysOK
  <2>2. First(y) + Count(y) <= First(z) \/ First(z) + Count(z) <= First(y)
    BY <1>1, <1>2, <1>4, ZonesApart DEF z
  <2>3. Done(tables, phys[y], y)
    BY <1>3 DEF Finished
  <2> HIDE DEF y
  <2>4. ASSUME NEW p \in Nat, NEW g \in Nat,
               p < Top, First(y) <= p, p < First(y) + Count(y), Mapped(tables, p, g)
        PROVE  Mapped(tables', p, g)
    <3>1. p # First(z) + map.count
      <4> DEFINE a == First(y)
                 b == Count(y)
                 d == First(z)
                 n == Count(z)
                 i == map.count
      <4>1. a \in Nat /\ b \in Nat /\ d \in Nat /\ n \in Nat /\ i \in Nat
        BY <1>4, <1>7, <2>1, ZenonT(30)
      <4>2. i < n
        BY <1>1, <1>5, ZenonT(30)
      <4>3. (a + b <= d \/ d + n <= a) /\ a <= p /\ p < a + b
        BY <2>2, <2>4, ZenonT(30)
      <4> HIDE DEF a, b, d, n, i
      <4>4. p # d + i
        BY <4>1, <4>2, <4>3
      <4>5. QED
        BY <4>4, ZenonT(30) DEF d, i
    <3>2. QED
      BY <1>5, <1>6, <2>4, <3>1
  <2>5. Done(tables', phys[y], y)
    BY <2>1, <2>3, <2>4, DoneKept
  <2>6. QED
    BY <2>5 DEF y
<1>13. Remapped' = Remapped
  BY <1>1 DEF Remapped
<1>14. QED
  BY <1>1, <1>10, <1>11, <1>12, <1>13 DEF ZonesInv, z, f

(* The outer loop alone maps nothing.                                      *)
LEMMA MapRestZones ==
  ASSUME AllInv, whole, MapRest, zones # <<>>
  PROVE  ZonesInv'
<1>1. /\ MapInv /\ IInv /\ PhysOK /\ TablesOK /\ map \in Loop /\ map.count = map.n
      /\ map' = [map EXCEPT !.i4 = @ + 1] /\ UNCHANGED <<zones, scan, phys, whole>>
  BY DEF AllInv, MapInv, LoopOK, MapRest, Running, vars
<1>2. \A i \in 1 .. Len(zones) : WholeZone(zones[i])
  BY DEF AllInv, WholeOK
<1>3. PICK j \in Remapped :
           Open(tables, map, phys[zones[j]], zones[j]) /\ Finished(tables, phys, zones, j)
  BY <1>1, LoopNotNoMap DEF AllInv, ZonesInv
<1>4. Grown(tables, tables', Roots)
  BY <1>1, MapRestInv
<1>5. \A p, g \in Nat : Mapped(tables, p, g) => Mapped(tables', p, g)
  BY <1>1, <1>4, GrownKeeps
<1>6. Finished(tables', phys, zones, j)
  BY <1>1, <1>2, <1>3, <1>5, FinishedKept
<1>7. /\ map' \in Loop /\ map'.count = map.count /\ map'.n = map.n /\ map'.from = map.from
      /\ map'.big = map.big /\ map'.last = map.last /\ map.count \in Nat /\ map.n \in Nat
  <2>1. map.i4 + 1 \in Nat
    BY <1>1 DEF Loop
  <2>2. QED
    BY <1>1, <2>1 DEF Loop
<1> DEFINE z == zones[j]
           f == phys[z]
<1>8. f \in Nat /\ First(z) \in Nat
  <2>1. j \in 1 .. Len(zones) /\ z \in DOMAIN phys
    BY DEF Remapped
  <2>2. QED
    BY <1>1, <1>2, <2>1, ZoneTop DEF PhysOK
<1>9. Open(tables, map, f, z)
  BY <1>3
<1> HIDE DEF z, f
<1>10. ASSUME NEW c \in 0 .. map.count - 1 PROVE MappedTo(tables', f, z, c)
  <2>1. MappedTo(tables, f, z, c)
    BY <1>9 DEF Open
  <2>2. c \in Nat /\ First(z) + c \in Nat
    BY <1>7, <1>8
  <2>3. (f + c * PageSize) \div PageSize \in Nat
    BY <1>8, <2>2, FrameOfNat, ZenonT(30)
  <2>4. QED
    BY <1>5, <2>1, <2>2, <2>3 DEF MappedTo
<1>11. Open(tables', map', f, z)
  <2>1. ~(map'.count < map'.n)
    BY <1>1, <1>7
  <2>2. QED
    BY <1>7, <1>9, <1>10, <2>1 DEF Open
<1>12. Remapped' = Remapped
  BY <1>1 DEF Remapped
<1>13. QED
  BY <1>1, <1>6, <1>7, <1>11, <1>12 DEF ZonesInv, z, f

(* The top-level index of a page grows with the page.                      *)
LEMMA TopIndexUp ==
  ASSUME NEW m \in Loop, NEW p \in Nat, p < Top, p >= PageAt(m)
  PROVE  Index(4, p) >= m.i4
<1>1. /\ m.i4 \in Nat /\ m.i3 \in 0 .. Radix - 1 /\ m.i2 \in 0 .. Radix - 1
      /\ m.i1 \in 0 .. Radix - 1
  BY DEF Loop
<1>2. Slot(m.i4, m.i3) \in Nat /\ Above(m) \in Nat
  BY LoopSlots
<1>3. Upper(p) \in Nat /\ Upper(p) >= Above(m)
  BY <1>1, <1>2, SlotOf, ZenonT(30) DEF PageAt
<1>4. Upper(Upper(p)) \in Nat /\ Upper(Upper(p)) >= Slot(m.i4, m.i3)
  BY <1>1, <1>2, <1>3, SlotOf, ZenonT(30) DEF Above
<1>5. Upper(Upper(Upper(p))) >= m.i4
  BY <1>1, <1>4, SlotOf, ZenonT(30)
<1>6. QED
  BY <1>5, Indices

(* When the outer loop ends, all of the zone's first slot is mapped.       *)
LEMMA MapEndZones ==
  ASSUME AllInv, whole, MapEnd, zones # <<>>
  PROVE  ZonesInv'
<1>1. /\ MapInv /\ IInv /\ PhysOK /\ map \in Loop /\ map.i4 > map.last /\ map.last \in Digit
      /\ UNCHANGED <<zones, scan, phys, whole, tables>>
  BY DEF AllInv, MapInv, LoopOK, MapEnd, Running, vars
<1>2. \A i \in 1 .. Len(zones) : WholeZone(zones[i])
  BY DEF AllInv, WholeOK
<1>3. PICK j \in Remapped :
           Open(tables, map, phys[zones[j]], zones[j]) /\ Finished(tables, phys, zones, j)
  BY <1>1, LoopNotNoMap DEF AllInv, ZonesInv
<1> DEFINE z == zones[j]
           f == phys[z]
<1>4. /\ j \in 1 .. Len(zones) /\ First(z) \in Nat /\ Count(z) \in Nat /\ First(z) + Count(z) < Top
  <2>1. j \in 1 .. Len(zones)
    BY DEF Remapped
  <2>2. QED
    BY <1>1, <1>2, <2>1, ZoneTop
<1>5. /\ map.big = FALSE /\ map.n = Count(z) /\ map.last >= Index(4, First(z))
      /\ map.count < map.n => PageAt(map) = First(z) + map.count
      /\ \A c \in 0 .. map.count - 1 : MappedTo(tables, f, z, c)
  BY <1>3 DEF Open
<1>6. map' = NoMap
  BY <1>1, <1>5, ZenonT(30) DEF MapInv, LoopOK, MapEnd, Running
<1> HIDE DEF z, f
<1>7. map.count \in Nat /\ map.n \in Nat /\ map.i4 \in Nat /\ map.last \in Nat /\ map.count <= map.n
  BY <1>1, LoopNotNoMap DEF Loop, MapInv, LoopOK
<1>8. Done(tables, f, z)
  <2> SUFFICES ASSUME NEW c \in 0 .. Count(z) - 1, Index(4, First(z) + c) = Index(4, First(z))
               PROVE  MappedTo(tables, f, z, c)
    BY DEF Done
  <2>1. SUFFICES ASSUME c >= map.count PROVE FALSE
    BY <1>5, <1>7
  <2>2. Top \in Nat
    BY TableAssumption DEF Top
  <2>3. /\ First(z) + c \in Nat /\ First(z) + c < Top /\ map.count < map.n
        /\ First(z) + c >= First(z) + map.count
    BY <1>4, <1>5, <1>7, <2>1, <2>2
  <2>4. First(z) + c >= PageAt(map)
    BY <1>5, <2>3
  <2>5. Index(4, First(z) + c) >= map.i4
    BY <1>1, <2>3, <2>4, TopIndexUp
  <2>6. Index(4, First(z)) \in Nat
    <3>1. Index(4, First(z)) \in Digit
      BY <1>4, Indices
    <3>2. QED
      BY <3>1 DEF Digit
  <2>7. QED
    BY <1>1, <1>5, <1>7, <2>5, <2>6
<1>9. Finished(tables, phys, zones, 0)
  BY <1>3, <1>8 DEF Finished, z, f
<1>10. QED
  BY <1>1, <1>6, <1>9 DEF ZonesInv

(* A new zone is open, and the others are as they were.                    *)
LEMMA MapZoneZones ==
  ASSUME AllInv, whole, MapZone, MapInv', WholeOK'
  PROVE  ZonesInv'
<1>1. /\ MapInv /\ IInv /\ PhysOK /\ map = NoMap /\ scan # Idle /\ UNCHANGED <<whole, tables>>
      /\ scan.p \in 1 .. Len(zones) + 1 /\ zones \in Seq(Zone) /\ Len(zones) \in Nat
      /\ zones' = Insert(zones, scan.p, Found)
  <2>1. /\ MapInv /\ IInv /\ PhysOK /\ map = NoMap /\ scan # Idle /\ UNCHANGED <<whole, tables>>
        /\ zones' = Insert(zones, scan.p, Found)
    BY ZenonT(30) DEF AllInv, MapInv, MapZone, Quiet, ScanFound, Found
  <2>2. scan.p \in 1 .. Len(zones) + 1 /\ zones \in Seq(Zone) /\ Len(zones) \in Nat
    BY <2>1, ScanAhead DEF IInv, TypeOK
  <2>3. QED
    BY <2>1, <2>2
<1>2. \A i \in 1 .. Len(zones') : WholeZone(zones'[i])
  BY <1>1 DEF WholeOK
<1>3. Finished(tables, phys, zones, 0)
  <2>1. CASE zones = <<>>
    BY <2>1 DEF Finished
  <2>2. CASE zones # <<>>
    BY <1>1, <2>2, LoopNotNoMap DEF AllInv, ZonesInv
  <2>3. QED
    BY <2>1, <2>2
<1>4. PICK p \in Phys :
        /\ p \in Nat /\ ZoneBegun(map', p, Found.start, Found.size)
        /\ phys' = [z \in DOMAIN phys \cup {Found} |-> IF z = Found THEN p ELSE phys[z]]
  BY <1>1, MapZoneInv, ZenonT(30)
<1>5. Found \in Zone
  BY <1>1, MapZoneInv
<1> DEFINE j == scan.p
           new == Found
<1>6. IsInsert(zones', zones, j, new)
  BY <1>1, <1>5, InsertSeq
<1> HIDE DEF j, new
<1>7. /\ j \in 1 .. Len(zones) + 1 /\ Len(zones') = Len(zones) + 1 /\ zones'[j] = new
      /\ \A i \in 1 .. Len(zones) + 1 :
           zones'[i] = IF i < j THEN zones[i] ELSE IF i = j THEN new ELSE zones[i - 1]
  BY <1>1, <1>6 DEF IsInsert, j
<1>8. j \in Remapped' /\ phys'[zones'[j]] = p
  BY <1>4, <1>7 DEF Remapped, new
<1>9. map' \in Loop /\ Open(tables', map', p, new)
  <2>1. First(new) = Found.start \div PageSize /\ Count(new) = Ceil(Found.size, PageSize)
        /\ First(new) \in Nat
    <3>1. zones'[j] = new /\ j \in 1 .. Len(zones')
      BY <1>7
    <3>2. First(new) \in Nat
      BY <1>2, <3>1, ZoneCount
    <3>3. QED
      BY <3>2 DEF First, Count, new
  <2>2. 0 .. 0 - 1 = {} /\ First(new) + 0 = First(new)
    BY <2>1
  <2>3. QED
    BY <1>4, <2>1, <2>2, ZenonT(30) DEF ZoneBegun, Open
<1>10. Finished(tables', phys', zones', j)
  <2> SUFFICES ASSUME NEW k \in 1 .. Len(zones'), k # j, zones'[k] \in DOMAIN phys'
               PROVE  Done(tables', phys'[zones'[k]], zones'[k])
    BY DEF Finished
  <2>1. CASE zones'[k] = new
    <3>1. End(new) <= new.start
      <4>1. ZonesDisjoint' /\ j \in 1 .. Len(zones') /\ (k < j \/ j < k) /\ zones'[j] = new
        BY <1>1, <1>7 DEF MapInv, IInv
      <4>2. QED
        BY <2>1, <4>1 DEF ZonesDisjoint
    <3>2. WholeZone(new)
      BY <1>2, <2>1
    <3>3. First(new) \in Nat /\ Count(new) \in Nat /\ new.start = First(new) * PageSize
      BY <3>2, ZoneCount
    <3>4. Count(new) = 0
      <4>1. First(new) + Count(new) <= First(new)
        BY <3>1, <3>2, <3>3, PagesApart
      <4>2. QED
        BY <3>3, <4>1
    <3>5. QED
      BY <2>1, <3>4 DEF Done
  <2>2. CASE zones'[k] # new
    <3>1. PICK i \in 1 .. Len(zones) : zones'[k] = zones[i]
      <4>1. CASE k < j
        <5>1. k \in 1 .. Len(zones) /\ zones'[k] = zones[k]
          BY <1>1, <1>7, <4>1
        <5>2. QED
          BY <5>1
      <4>2. CASE k > j
        <5>1. k - 1 \in 1 .. Len(zones) /\ ~(k < j)
          BY <1>1, <1>7, <4>2
        <5>2. zones'[k] = zones[k - 1]
          BY <1>7, <5>1
        <5>3. QED
          BY <5>1, <5>2
      <4>3. QED
        BY <1>1, <1>7, <4>1, <4>2
    <3>2. zones[i] \in DOMAIN phys /\ phys'[zones[i]] = phys[zones[i]]
      BY <1>4, <2>2, <3>1 DEF new
    <3>3. i # 0
      BY <1>1
    <3>4. QED
      BY <1>1, <1>3, <3>1, <3>2, <3>3 DEF Finished
  <2>3. QED
    BY <2>1, <2>2
<1>11. Open(tables', map', phys'[zones'[j]], zones'[j])
  BY <1>7, <1>8, <1>9
<1>12. ZonesInv'
  BY <1>8, <1>9, <1>10, <1>11 DEF ZonesInv
<1>13. QED
  BY <1>12

(* A zone that is removed leaves the others as they were.                  *)
LEMMA RemoveZones ==
  ASSUME AllInv, whole, NEW k \in 1 .. Len(zones), Remove(k)
  PROVE  ZonesInv'
<1>1. /\ map = NoMap /\ map' = NoMap /\ tables' = tables /\ zones' = Delete(zones, k)
      /\ phys' = [z \in DOMAIN phys \ {zones[k]} |-> phys[z]]
  BY DEF Remove, Quiet, RemoveVmZone
<1>2. zones \in Seq(Zone) /\ Len(zones) \in Nat
  BY DEF AllInv, MapInv, IInv, TypeOK
<1>3. Finished(tables, phys, zones, 0)
  BY <1>1, <1>2, LoopNotNoMap DEF AllInv, ZonesInv
<1>4. /\ Len(zones') = Len(zones) - 1
      /\ \A i \in 1 .. Len(zones) - 1 : zones'[i] = IF i < k THEN zones[i] ELSE zones[i + 1]
  BY <1>1, <1>2, DeleteSeq
<1>5. ASSUME NEW i \in 1 .. Len(zones'), zones'[i] \in DOMAIN phys'
      PROVE  Done(tables', phys'[zones'[i]], zones'[i])
  <2>1. PICK n \in 1 .. Len(zones) : zones'[i] = zones[n]
    <3>1. i \in 1 .. Len(zones) - 1 /\ i \in 1 .. Len(zones) /\ i + 1 \in 1 .. Len(zones)
      BY <1>2, <1>4
    <3>2. QED
      BY <1>4, <3>1
  <2>2. zones[n] \in DOMAIN phys /\ phys'[zones[n]] = phys[zones[n]] /\ n # 0
    BY <1>1, <1>2, <1>5, <2>1
  <2>3. QED
    BY <1>1, <1>3, <2>1, <2>2, ZenonT(30) DEF Finished
<1>6. QED
  BY <1>1, <1>5, ZenonT(30) DEF ZonesInv, Finished

(* Every step keeps what is mapped for the zones: an iteration extends the *)
(* open zone, the rest leave all entries of all zones alone.               *)
LEMMA NextZonesInv ==
  ASSUME AllInv, [TablesNext]_allVars
  PROVE  AllInv'
<1>1. MapInv /\ WholeOK /\ ZonesInv
  BY DEF AllInv
<1>2. MapInv'
  BY <1>1, NextMapInv
<1>3. WholeOK'
  BY <1>1, WholeStep
<1>4. ZonesInv'
  <2>1. SUFFICES ASSUME whole' PROVE ZonesInv'
    BY DEF ZonesInv
  <2>2. whole
    BY <2>1, ZenonT(30) DEF TablesNext, MapStep, MapRest, MapEnd, CallIoremap,
           TooLarge, Scan, NoZone,
                MapZone, Remove, CreatePageTable, allVars, tvars
  <2>3. CASE MapStep
    <3>1. zones' = zones
      BY <2>3, ZenonT(30) DEF MapStep, vars
    <3>2. QED
      BY <2>2, <2>3, <3>1, MapStepZones DEF ZonesInv
  <2>4. CASE MapRest
    <3>1. zones' = zones
      BY <2>4 DEF MapRest, vars
    <3>2. QED
      BY <2>2, <2>4, <3>1, MapRestZones DEF ZonesInv
  <2>5. CASE MapEnd
    <3>1. zones' = zones
      BY <2>5 DEF MapEnd, vars
    <3>2. QED
      BY <2>2, <2>5, <3>1, MapEndZones DEF ZonesInv
  <2>6. ASSUME UNCHANGED <<zones, phys, map, tables>> PROVE ZonesInv'
    <3>1. Remapped' = Remapped
      BY <2>6 DEF Remapped
    <3>2. QED
      BY <1>1, <2>2, <2>6, <3>1 DEF ZonesInv
  <2>7. CASE UNCHANGED allVars
    BY <2>6, <2>7 DEF allVars, tvars, vars
  <2>8. ASSUME NEW size \in Sizes, CallIoremap(size) \/ TooLarge(size) PROVE ZonesInv'
    BY <2>6, <2>8 DEF CallIoremap, GetVmZone, TooLarge, vars
  <2>9. CASE Scan \/ NoZone
    BY <2>6, <2>9 DEF Scan, ScanNext, NoZone, ScanOut, tvars
  <2>10. CASE MapZone
    BY <1>2, <1>3, <2>2, <2>10, MapZoneZones
  <2>11. ASSUME NEW k \in 1 .. Len(zones), Remove(k) PROVE ZonesInv'
    BY <2>2, <2>11, RemoveZones
  <2>12. CASE CreatePageTable
    <3>1. UNCHANGED <<zones, phys, map>> /\ map = NoMap
      BY <2>12 DEF CreatePageTable, Quiet, vars
    <3>2. Grown(tables, tables', Roots)
      BY <1>1, <2>12, CreateInv
    <3>3. \A p, g \in Nat : Mapped(tables, p, g) => Mapped(tables', p, g)
      BY <1>1, <3>2, GrownKeeps DEF MapInv
    <3>4. zones = <<>> \/ Finished(tables, phys, zones, 0)
      BY <1>1, <2>2, <3>1, LoopNotNoMap DEF ZonesInv
    <3>5. Finished(tables, phys, zones, 0) => Finished(tables', phys, zones, 0)
      BY <1>1, <2>2, <3>3, FinishedKept DEF MapInv, WholeOK
    <3>6. QED
      BY <3>1, <3>4, <3>5 DEF ZonesInv
  <2>13. QED
    BY <2>3, <2>4, <2>5, <2>7, <2>8, <2>9, <2>10, <2>11, <2>12 DEF TablesNext
<1>5. QED
  BY <1>2, <1>3, <1>4 DEF AllInv

(* What the processor finds, and cpu_mm_get_phys_address.                  *)
LEMMA MappedTranslate ==
  ASSUME NEW p \in Nat, NEW f \in Nat, Mapped(tables, p, f)
  PROVE  Translate(1, p) = Leaf(f, FALSE) /\ GetPhys(1, p) = Leaf(f, FALSE)
<1>1. PICK t3 \in Nat, t2 \in Nat, t1 \in Nat :
        /\ Path(tables, Index(4, p), Index(3, p), Index(2, p), t3, t2, t1)
        /\ tables[t1][Index(1, p)] = Leaf(f, FALSE)
  BY ZenonT(30) DEF Mapped
<1>2. /\ tables[1][Index(4, p)] = Down(t3) /\ tables[t3][Index(3, p)] = Down(t2)
      /\ tables[t2][Index(2, p)] = Down(t1)
  BY <1>1 DEF Path
<1>3. /\ Down(t3).to = t3 /\ Down(t2).to = t2 /\ Down(t1).to = t1 /\ Down(t1).kind = "table"
      /\ Down(t3) # Absent /\ Down(t2) # Absent /\ Down(t1) # Absent
  <2>1. Down(t3) # Absent /\ Down(t2) # Absent /\ Down(t1) # Absent
    BY EntryKinds, ZenonT(30)
  <2>2. QED
    BY <2>1 DEF Down
<1>4. Translate(1, p) = Leaf(f, FALSE)
  BY <1>1, <1>2, <1>3, ZenonT(30) DEF Translate
<1>5. GetPhys(1, p) = Leaf(f, FALSE)
  BY <1>1, <1>2, <1>3, ZenonT(30) DEF GetPhys
<1>6. QED
  BY <1>4, <1>5, ZenonT(30)

(* The invariant says what ZonesMapped does once no map_contiguous is open: *)
(* every page of the zone that the outer loop reached has its entry.       *)
LEMMA AllMapped == AllInv => ZonesMapped
<1> SUFFICES ASSUME AllInv, Quiet, whole, NEW k \in Remapped, NEW p \in PagesOf(zones[k]),
                    Index(4, p) = Index(4, zones[k].start \div PageSize)
             PROVE  LET z == zones[k]
                        right == Leaf((phys[z] + p * PageSize - z.start) \div PageSize, FALSE)
                    IN  Translate(1, p) = right /\ GetPhys(1, p) = right
  BY ZenonT(30) DEF ZonesMapped
<1> DEFINE z == zones[k]
           f == phys[z]
           c == p - First(z)
<1>1. k \in 1 .. Len(zones) /\ k # 0 /\ z \in DOMAIN phys /\ f \in Nat
  BY DEF Remapped, AllInv, MapInv, PhysOK
<1>2. WholeZone(z)
  BY <1>1 DEF AllInv, WholeOK
<1>3. Done(tables, f, z)
  <2>1. zones # <<>> /\ map = NoMap
    BY <1>1 DEF Quiet
  <2>2. Finished(tables, phys, zones, 0)
    BY <2>1, LoopNotNoMap DEF AllInv, ZonesInv
  <2>3. QED
    BY <1>1, <2>2 DEF Finished
<1>4. /\ z.start \in Nat /\ First(z) \in Nat /\ Count(z) \in Nat /\ z.start = First(z) * PageSize
      /\ End(z) = (First(z) + Count(z)) * PageSize /\ PageSize \in Nat \ {0}
  BY <1>2, ZoneCount, RegionAssumption
<1>5. p \in Nat /\ p >= First(z) /\ p * PageSize < End(z)
  <2>1. p \in First(z) .. End(z) \div PageSize /\ p * PageSize < End(z)
    BY DEF PagesOf, First
  <2>2. QED
    BY <1>4, <2>1
<1> HIDE DEF z, f
<1>6. c \in 0 .. Count(z) - 1 /\ First(z) + c = p
  <2>1. p < First(z) + Count(z)
    <3> DEFINE m == First(z) + Count(z)
    <3>1. m \in Nat /\ p * PageSize \in Nat /\ p * PageSize < m * PageSize
      BY <1>4, <1>5
    <3> HIDE DEF m
    <3>2. (p * PageSize) \div PageSize < m
      <4> DEFINE a == p * PageSize
      <4>1. a \in Nat /\ a < m * PageSize
        BY <3>1
      <4> HIDE DEF a
      <4>2. a \div PageSize < m
        BY <1>4, <3>1, <4>1, DivBelow, ZenonT(30)
      <4>3. QED
        BY <4>2 DEF a
    <3>3. (p * PageSize) \div PageSize = p
      BY <1>4, <1>5, DivExact
    <3>4. QED
      BY <3>2, <3>3 DEF m
  <2>2. QED
    BY <1>4, <1>5, <2>1
<1>7. f + c * PageSize = f + p * PageSize - z.start
  <2>1. c \in Nat /\ p = First(z) + c
    BY <1>4, <1>6
  <2> HIDE DEF c
  <2>2. p * PageSize = First(z) * PageSize + c * PageSize /\ c * PageSize \in Nat
        /\ First(z) * PageSize \in Nat
    BY <1>4, <2>1
  <2>3. QED
    BY <1>1, <1>4, <2>2
<1> HIDE DEF c
<1>8. Mapped(tables, p, (f + c * PageSize) \div PageSize)
  <2>1. Index(4, First(z) + c) = Index(4, First(z))
    BY <1>6 DEF First, z
  <2>2. QED
    BY <1>3, <1>6, <2>1 DEF Done, MappedTo
<1>9. c \in Nat /\ (f + c * PageSize) \div PageSize \in Nat
  <2>1. c \in Nat
    BY <1>4, <1>6
  <2>2. QED
    BY <1>1, <2>1, FrameOfNat, ZenonT(30)
<1>10. /\ Translate(1, p) = Leaf((f + c * PageSize) \div PageSize, FALSE)
       /\ GetPhys(1, p) = Leaf((f + c * PageSize) \div PageSize, FALSE)
  BY <1>5, <1>8, <1>9, MappedTranslate, ZenonT(30)
<1>11. QED
  BY <1>7, <1>10, ZenonT(30) DEF z, f

(* With whole pages asked for, each page of a zone in the zone's first     *)
(* top-level slot is mapped to its own page of the device and to no other, *)
(* whatever is mapped and unmapped around it (ZonesMapped): map_vm_zone's  *)
(* entries are not overwritten as long as the zone is there.               *)
THEOREM IoremapZonesMapped == TablesSpec => []ZonesMapped
<1>1. TablesInit => AllInv
  <2>1. TablesInit => WholeOK /\ ZonesInv
    BY RegionAssumption DEF TablesInit, Init, WholeOK, ZonesInv
  <2>2. QED
    BY <2>1, InitMapInv DEF AllInv
<1>2. QED
  BY <1>1, NextZonesInv, AllMapped, PTL DEF TablesSpec
=============================================================================
