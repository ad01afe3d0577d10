------------------------------ MODULE Ioremap ------------------------------
(***************************************************************************)
(* The kernel's page table (arch/x86_64/paging.c) and ioremap over the     *)
(* zones of VmZone: paging_init, then calls of ioremap and remove_vm_zone, *)
(* and new page tables for tasks.  An entry that map_contiguous writes is  *)
(* a step, with the tables it makes on the way; `map' is the state of its  *)
(* four loops.  Addresses are VmZone's, a page number is an address over   *)
(* PageSize; a table has Radix entries.                                    *)
(*                                                                         *)
(* alloc_pages returns a cleared page, so a new table has no entries.      *)
(* The model stops (`stopped') when ioremap gets no zone.                  *)
(***************************************************************************)
EXTENDS VmZone

CONSTANTS
  Radix,        \* 512
  Identity,     \* number of 2 MiB pages paging_init maps at address 0 here
  KernelPage, KernelPages,    \* where the kernel's own pages are
  Phys,         \* physical addresses passed to ioremap
  MaxTasks, MaxMaps    \* bounds: page tables of tasks, calls of ioremap

ASSUME TableAssumption ==
  /\ Radix \in Nat \ {0, 1} /\ Identity \in Nat /\ KernelPage \in Nat /\ KernelPages \in Nat
  /\ Phys \subseteq Nat /\ MaxTasks \in Nat /\ MaxMaps \in Nat

(* Pages one page table covers.                                            *)
Top == Radix * Radix * Radix * Radix

(* The kernel and the vmap region are above the 2 MiB pages and end below  *)
(* the top; the region begins with a page, and pages fill the addresses.   *)
ASSUME LayoutAssumption ==
  /\ Identity * Radix <= KernelPage /\ Identity * Radix <= ZoneStart \div PageSize
  /\ KernelPage + KernelPages < Top /\ ZoneEnd \div PageSize + 1 < Top
  /\ ZoneStart % PageSize = 0 /\ Word % PageSize = 0

VARIABLES
  tables,       \* the tables made so far, the first is kernel_pgtable
  map,          \* the loops of an open map_contiguous, or NoMap
  phys,         \* zone->phys_addr of the zones ioremap has made
  tasks,        \* roots of the tasks' page tables, with the slots then used
  maps, stopped,
  whole         \* history: all sizes asked for were whole pages

tvars == <<tables, map, phys, tasks, maps, stopped, whole>>
allVars == <<vars, tvars>>

Absent == [kind |-> "absent"]
Clear == [i \in 0 .. Radix - 1 |-> Absent]
Down(t) == [kind |-> "table", to |-> t]
Leaf(frame, big) == [kind |-> IF big THEN "big" ELSE "page", frame |-> frame]
NoMap == [n |-> 0]

(* PML4_FROM_VA ... PTE_FROM_VA, by page number: a level up is a shift.    *)
Upper(page) == page \div Radix
Index(level, page) ==
  <<page, Upper(page), Upper(Upper(page)), Upper(Upper(Upper(page)))>>[level] % Radix

(* map_contiguous up to its loops; size and addresses in bytes.            *)
Ceil(a, b) == (a + b - 1) \div b
PageBytes(big) == IF big THEN PageSize * Radix ELSE PageSize
Loops(from, vaddr, size, big, then) ==
  LET page == vaddr \div PageSize
  IN  [n |-> Ceil(size, PageBytes(big)), count |-> 0, from |-> from, big |-> big, then |-> then,
       i4 |-> Index(4, page), i3 |-> Index(3, page), i2 |-> Index(2, page), i1 |-> Index(1, page),
       last |-> Index(4, page) + Index(4, size \div PageSize)]

(* paging_init: the first map is open from the start.                      *)
TablesInit ==
  /\ Init
  /\ tables = <<Clear>>
  /\ map = Loops(0, 0, Identity * PageSize * Radix, TRUE, "kernel")
  /\ phys = [z \in {} |-> 0] /\ tasks = <<>> /\ maps = 0
  /\ stopped = FALSE /\ whole = TRUE

(* The table entry i of table t leads to, made if it is absent.            *)
Enter(ts, t, i) ==
  IF ts[t][i] = Absent
    THEN [tables |-> Append([ts EXCEPT ![t][i] = Down(Len(ts) + 1)], Clear), next |-> Len(ts) + 1]
    ELSE [tables |-> ts, next |-> ts[t][i].to]

(* The indices of the next iteration, each loop going on where the inner   *)
(* one has ended.                                                          *)
NextEntry_NoReset(m) ==
  LET j2 == m.i2 + 1
  IN  IF ~m.big /\ m.i1 + 1 < Radix THEN [m EXCEPT !.i1 = @ + 1]
      ELSE IF j2 < Radix THEN [m EXCEPT !.i2 = j2]
      ELSE IF m.i3 + 1 < Radix THEN [m EXCEPT !.i2 = 0, !.i3 = @ + 1]
      ELSE [m EXCEPT !.i2 = 0, !.i3 = 0, !.i4 = @ + 1]
NextEntry(m) ==
  IF ~m.big /\ m.i1 + 1 < Radix THEN [m EXCEPT !.i1 = @ + 1]
  ELSE IF m.i2 + 1 < Radix THEN [m EXCEPT !.i1 = 0, !.i2 = @ + 1]
  ELSE IF m.i3 + 1 < Radix THEN [m EXCEPT !.i1 = 0, !.i2 = 0, !.i3 = @ + 1]
  ELSE [m EXCEPT !.i1 = 0, !.i2 = 0, !.i3 = 0, !.i4 = @ + 1]

Running == map # NoMap /\ ~stopped
Frame(m) == (m.from + m.count * PageBytes(m.big)) \div PageSize

MapStep ==
  /\ Running /\ map.count < map.n /\ map.i4 <= map.last
  /\ LET a == Enter(tables, 1, map.i4)
         b == Enter(a.tables, a.next, map.i3)
         c == Enter(b.tables, b.next, map.i2)
     IN  tables' = IF map.big
                     THEN [b.tables EXCEPT ![b.next][map.i2] = Leaf(Frame(map), TRUE)]
                     ELSE [c.tables EXCEPT ![c.next][map.i1] = Leaf(Frame(map), FALSE)]
  /\ map' = [NextEntry(map) EXCEPT !.count = @ + 1]
  /\ UNCHANGED <<vars, phys, tasks, maps, stopped, whole>>

(* The outer loop goes on when all is mapped, and makes tables it does not *)
(* need.                                                                   *)
MapRest ==
  /\ Running /\ map.count = map.n /\ map.i4 <= map.last
  /\ tables' = Enter(tables, 1, map.i4).tables
  /\ map' = [map EXCEPT !.i4 = @ + 1]
  /\ UNCHANGED <<vars, phys, tasks, maps, stopped, whole>>

MapEnd ==
  /\ Running /\ map.i4 > map.last
  /\ map' = IF map.then = "kernel"
              THEN Loops(0, KernelPage * PageSize, KernelPages * PageSize, FALSE, "done")
              ELSE NoMap
  /\ UNCHANGED <<vars, tables, phys, tasks, maps, stopped, whole>>

-----------------------------------------------------------------------------
Quiet == map = NoMap /\ ~stopped

(* ioremap: get_vm_zone; the search goes on in VmZone's steps.             *)
CallIoremap(size) ==
  /\ Quiet /\ GetVmZone(size)
  /\ maps < MaxMaps /\ maps' = maps + 1
  /\ whole' = (whole /\ size % PageSize = 0)
  /\ UNCHANGED <<tables, map, phys, tasks, stopped>>

Scan == Quiet /\ ScanNext /\ UNCHANGED tvars

(* No zone: ioremap stores the address through a null pointer.             *)
NoZone ==
  /\ Quiet /\ ScanOut
  /\ stopped' = TRUE
  /\ UNCHANGED <<tables, map, phys, tasks, maps, whole>>

TooLarge(size) ==
  /\ Quiet /\ scan = Idle /\ Padded(size) > ZoneSize
  /\ stopped' = TRUE
  /\ UNCHANGED <<vars, tables, map, phys, tasks, maps, whole>>

(* The zone is found; map_vm_zone begins.                                  *)
Found == [start |-> scan.addr, size |-> scan.size]
MapZone ==
  /\ Quiet /\ ScanFound
  /\ \E p \in Phys :
       /\ map' = Loops(p, Found.start, Found.size, FALSE, "done")
       /\ phys' = [z \in DOMAIN phys \cup {Found} |-> IF z = Found THEN p ELSE phys[z]]
  /\ UNCHANGED <<tables, tasks, maps, stopped, whole>>

(* remove_vm_zone leaves the page table alone.                             *)
Remove(k) ==
  /\ Quiet /\ RemoveVmZone(k)
  /\ phys' = [z \in DOMAIN phys \ {zones[k]} |-> phys[z]]
  /\ UNCHANGED <<tables, map, tasks, maps, stopped, whole>>

(* cpu_mm_create_page_table: a copy of the kernel's top level.             *)
TopLevel_Clear == Clear
TopLevel == tables[1]
CreatePageTable ==
  /\ Quiet /\ scan = Idle /\ Len(tasks) < MaxTasks
  /\ tables' = Append(tables, TopLevel)
  /\ tasks' = Append(tasks, [root |-> Len(tables) + 1,
                             had |-> {i \in 0 .. Radix - 1 : tables[1][i] # Absent}])
  /\ UNCHANGED <<vars, map, phys, maps, stopped, whole>>

TablesNext ==
  \/ MapStep \/ MapRest \/ MapEnd
  \/ \E size \in Sizes : CallIoremap(size) \/ TooLarge(size)
  \/ Scan \/ NoZone \/ MapZone
  \/ \E k \in 1 .. Len(zones) : Remove(k)
  \/ CreatePageTable

TablesSpec ==
  /\ TablesInit /\ [][TablesNext]_allVars
  /\ WF_allVars(Scan \/ NoZone \/ MapZone)

-----------------------------------------------------------------------------
(* The frame a page has under a page table: what the processor finds.      *)
Missing == Absent
Translate(root, page) ==
  LET e4 == tables[root][Index(4, page)]
      e3 == tables[e4.to][Index(3, page)]
      e2 == tables[e3.to][Index(2, page)]
      e1 == tables[e2.to][Index(1, page)]
  IN  IF e4 = Absent \/ e3 = Absent \/ e2 = Absent THEN Missing
      ELSE IF e2.kind = "big" THEN Leaf(e2.frame + Index(1, page), FALSE)
      ELSE e1

(* cpu_mm_get_phys_address: of a 2 MiB page it returns the first frame.    *)
GetPhys(root, page) ==
  LET e4 == tables[root][Index(4, page)]
      e3 == tables[e4.to][Index(3, page)]
      e2 == tables[e3.to][Index(2, page)]
  IN  IF e4 = Absent \/ e3 = Absent \/ e2 = Absent THEN Missing
      ELSE IF e2.kind = "big" THEN Leaf(e2.frame, FALSE)
      ELSE tables[e2.to][Index(1, page)]

Remapped == {k \in 1 .. Len(zones) : zones[k] \in DOMAIN phys}
PagesOf(z) == {p \in z.start \div PageSize .. End(z) \div PageSize :
                 z.start <= p * PageSize /\ p * PageSize < End(z)}

(* As long as sizes are whole numbers of pages: each page of a zone that   *)
(* ioremap returned translates to its page of the device, and so does      *)
(* cpu_mm_get_phys_address, whatever was mapped there before or has been   *)
(* mapped elsewhere since; only what lies beyond the first 512 GiB slot of *)
(* a zone is missing.                                                      *)
ZonesMapped ==
  Quiet /\ whole =>
    \A k \in Remapped : \A p \in PagesOf(zones[k]) :
      LET z == zones[k]
          right == Leaf((phys[z] + p * PageSize - z.start) \div PageSize, FALSE)
      IN  Index(4, p) = Index(4, z.start \div PageSize) =>
            Translate(1, p) = right /\ GetPhys(1, p) = right

(* The pages the kernel uses: its own, the first ones of physical memory,  *)
(* and those of the zones.                                                 *)
KernelSpace ==
  (0 .. Identity * Radix - 1) \cup (KernelPage .. KernelPage + KernelPages - 1)
    \cup UNION {PagesOf(zones[k]) : k \in Remapped}

(* A task's page table has all the kernel's mappings, those made later     *)
(* too, in the top-level slots that were in use when it was made, and no   *)
(* mapping made later in the others.                                       *)
SeenByTasks ==
  \A j \in DOMAIN tasks : \A p \in KernelSpace :
    Translate(tasks[j].root, p) =
      IF Index(4, p) \in tasks[j].had THEN Translate(1, p) ELSE Missing
=============================================================================
