---------------------------- MODULE AddressSpace ----------------------------
(***************************************************************************)
(* The address space of one program: mm/mmap.c, mm/vma.c, mm/page_fault.c, *)
(* arch/x86_64/vma.c, and what the ELF loader, cpu_setup_process, ramfs    *)
(* and map_contiguous do for them.  The loader maps one area per program   *)
(* header and then the stack; user code then touches pages, which are      *)
(* mapped on demand.  Addresses and lengths are in pages (every one of     *)
(* them is page aligned), differences wrap as size_t does.                 *)
(***************************************************************************)
EXTENDS Integers, Sequences, FiniteSets

CONSTANTS
  Word,           \* 2^52: the number of pages of a 64-bit address space
  LowLimit,       \* X86_LOW_LIMIT
  Limit,          \* X86_LIMIT
  StackBottom,    \* USER_STACK_BOTTOM
  StackPages,     \* USER_STACK_SIZE
  Headers,        \* program headers: [vaddr, pages, prot, off]
  MaxHeaders,     \* bound: program headers of one file
  Slots,          \* length of the inode's page array, two for a file of one or two pages
  Fresh,          \* pages alloc_pages can return
  None

(* Bits of vm_area->prot.                                                  *)
Bits == {"READ", "WRITE", "EXEC", "MAYWRITE"}

ASSUME LayoutAssumption ==
  /\ Word \in Nat /\ LowLimit \in Nat \ {0} /\ Limit \in Nat /\ StackBottom \in Nat \ {0}
  /\ LowLimit < StackBottom /\ StackBottom + StackPages <= Limit /\ 2 * Limit < Word
  /\ StackPages \in Nat /\ MaxHeaders \in Nat /\ Slots \in Nat
  /\ Fresh \cap Nat = {} /\ None \notin Fresh \cup Nat
  /\ Headers \subseteq [vaddr : Nat, pages : Nat, prot : SUBSET {"READ", "WRITE", "EXEC"}, off : Nat]
  /\ \A h \in Headers : h.vaddr + h.pages <= Limit
  /\ None \notin [page : Nat \cup Fresh, rw : BOOLEAN]

VARIABLES
  areas,          \* procmm->vm_areas: [start, end, file, prot, off], in list order
  mapped,         \* calls of do_mmap by elf_load_segments so far
  fileRefs,       \* file->refcnt
  pte,            \* page table: [page, rw] of each page, or None
  refcnt,         \* page->refcnt of the file's cached pages, by their slots, and of
                  \* the fresh ones
  spoilt,         \* pages of the file's cache that user code has written to
  mode            \* "load", "user", or why the kernel stopped

vars == <<areas, mapped, fileRefs, pte, refcnt, spoilt, mode>>

Pages == 0 .. Limit - 1

(* The slots of the page array that hold a page.                           *)
Cached == DOMAIN refcnt \ Fresh

(* vfs_open leaves one reference on the file, and the cache one on each of *)
(* its pages, which fill the array or the beginning of it.                 *)
Init ==
  /\ areas = <<>> /\ mapped = 0 /\ fileRefs = 1 /\ mode = "load" /\ spoilt = {}
  /\ pte = [v \in Pages |-> None]
  /\ \E n \in 1 .. Slots :
       refcnt = [p \in (0 .. n - 1) \cup Fresh |-> IF p \in Fresh THEN 0 ELSE 1]

(* is_valid_vaddr_for_vma.                                                 *)
IsValid_NotInside(addr, len) ==
  \A i \in 1 .. Len(areas) :
    LET a == areas[i]
    IN  /\ ~(addr >= a.start /\ addr < a.end)
        /\ ~(addr + len > a.start /\ addr + len < a.end)
IsValid(addr, len) ==
  \A i \in 1 .. Len(areas) :
    LET a == areas[i]
    IN  /\ ~(a.start >= addr /\ a.end <= addr + len)
        /\ ~(addr >= a.start /\ addr < a.end)
        /\ ~(addr + len > a.start /\ addr + len < a.end)

(* cpu_assign_vma_vaddr: a page into the first gap, before or after an     *)
(* area, that is more than two pages too long; None where there is none.   *)
Wrap(n) == n % Word
EmptyBefore(i) == IF i = 1 THEN LowLimit ELSE areas[i - 1].end
EmptyAfter(i) == IF i = Len(areas) THEN Limit ELSE areas[i + 1].start
RoomBefore(i, len) == Wrap(areas[i].start - EmptyBefore(i)) > len + 2
RoomAfter(i, len) == Wrap(EmptyAfter(i) - areas[i].end) > len + 2
AssignVaddr(len) ==
  LET fits == {i \in 1 .. Len(areas) : RoomBefore(i, len) \/ RoomAfter(i, len)}
      i == CHOOSE k \in fits : \A j \in fits : k <= j
  IN  IF fits = {} THEN None
      ELSE (IF RoomBefore(i, len) THEN EmptyBefore(i) ELSE areas[i].end) + 1

(* Where do_mmap puts an area.                                             *)
Place(addr, len) ==
  IF addr # 0 /\ IsValid(addr, len) THEN addr ELSE AssignVaddr(len)

(* insert_vma, without its join: before the first area that starts higher. *)
InsertVma(a) ==
  LET k == Cardinality({i \in 1 .. Len(areas) :
                          \A j \in 1 .. i : areas[j].start <= a.start})
  IN  SubSeq(areas, 1, k) \o <<a>> \o SubSeq(areas, k + 1, Len(areas))

(* The first pair of neighbours that try_join merges.  All areas of a      *)
(* program map the same file or none, and the flags and operations go with *)
(* that.                                                                   *)
Joins(s) ==
  {i \in 1 .. Len(s) - 1 : /\ s[i].end = s[i + 1].start
                           /\ s[i].file = s[i + 1].file /\ s[i].prot = s[i + 1].prot}

(* do_mmap, insert_vma and try_join.  An area that cannot be placed keeps  *)
(* the start and end its memory held: 0, since alloc_pages cleared it and  *)
(* only try_join frees areas.  That loop goes on after a merge from the    *)
(* entry that list_del has just poisoned, which ends the model.            *)
DoMmap(a, addr, len, done) ==
  LET place == Place(addr, len)
      start == IF place = None THEN 0 ELSE place
      end == IF place = None THEN 0 ELSE place + len
      new == InsertVma([start |-> start, end |-> end, file |-> a.file,
                        prot |-> a.prot, off |-> a.off])
      i == CHOOSE k \in Joins(new) : \A j \in Joins(new) : k <= j
  IN  IF Joins(new) = {}
      THEN /\ areas' = new /\ mode' = done
           /\ fileRefs' = fileRefs + (IF a.file THEN 1 ELSE 0)
      ELSE /\ areas' = SubSeq(new, 1, i - 1)
                       \o <<[new[i] EXCEPT !.end = new[i + 1].end]>>
                       \o SubSeq(new, i + 2, Len(new))
           /\ mode' = "poison"
           /\ UNCHANGED <<fileRefs>>

(* An iteration of elf_load_segments: a private mapping of the file, whose *)
(* VM_WRITE do_mmap turns into VM_MAYWRITE.                                *)
Private(prot) == IF "WRITE" \in prot THEN (prot \ {"WRITE"}) \cup {"MAYWRITE"} ELSE prot
MapSegment(h) ==
  /\ mode = "load" /\ mapped < MaxHeaders
  /\ mapped' = mapped + 1
  /\ DoMmap([file |-> TRUE, prot |-> Private(h.prot), off |-> h.off], h.vaddr, h.pages, "load")
  /\ UNCHANGED <<pte, refcnt, spoilt>>

(* cpu_setup_process: the stack; the program then starts.                  *)
MapStack ==
  /\ mode = "load"
  /\ DoMmap([file |-> FALSE, prot |-> {"READ", "WRITE"}, off |-> 0], StackBottom, StackPages, "user")
  /\ UNCHANGED <<mapped, pte, refcnt, spoilt>>

(* find_vma_for_address: the first area that holds v.                      *)
Holding(v) == {i \in 1 .. Len(areas) : areas[i].start <= v /\ v < areas[i].end}
FindVma(v) == areas[CHOOSE i \in Holding(v) : \A j \in Holding(v) : i <= j]

(* Whether map_contiguous lets user code write: it sets PTE_RW_FLAG in     *)
(* every entry and leaves the flags computed from the area's unused.       *)
Rw(prot) == TRUE

(* cpu_mm_map_page for one page, with the page_ref of the fault handler:   *)
(* the tables above the entry are made as needed and allow everything.     *)
MapPage_NoRef(v, page, prot) ==
  /\ pte' = [pte EXCEPT ![v] = [page |-> page, rw |-> Rw(prot)]]
  /\ refcnt' = [refcnt EXCEPT ![page] = IF page \in Fresh THEN 1 ELSE @]
MapPage(v, page, prot) ==
  /\ pte' = [pte EXCEPT ![v] = [page |-> page, rw |-> Rw(prot)]]
  /\ refcnt' = [refcnt EXCEPT ![page] = @ + 1]

FreePages == {p \in Fresh : refcnt[p] = 0}
AllocPages == CHOOSE p \in FreePages : TRUE

(* vm_fault.pgoffset + vma->fpg_off.                                       *)
FilePage_NoOffset(v, a) == v - a.start
FilePage(v, a) == v - a.start + a.off

(* if (!page): the slot is empty.                                          *)
HasPage_Unchecked(page) == TRUE
HasPage(page) == page \in Cached

(* ramfs_vma_fault, with kernel_page_fault's end.  A slot beyond the array *)
(* is read as well: what follows depends on what lies there.               *)
RamfsFault(v, write, a) ==
  LET page == FilePage(v, a)
  IN  IF page >= Slots THEN mode' = "wild" /\ UNCHANGED <<pte, refcnt>>
      ELSE IF ~HasPage(page) THEN mode' = "sigbus" /\ UNCHANGED <<pte, refcnt>>
      ELSE /\ UNCHANGED mode
           /\ IF pte[v] = None THEN MapPage(v, page, a.prot)
              ELSE IF write /\ "MAYWRITE" \in a.prot
              THEN /\ pte' = [pte EXCEPT ![v] = [page |-> AllocPages, rw |-> Rw(a.prot \cup {"WRITE"})]]
                   /\ refcnt' = [refcnt EXCEPT ![AllocPages] = 1, ![page] = @ - 1]
              ELSE UNCHANGED <<pte, refcnt>>

(* anonymous_page_handler, with kernel_page_fault's end: the only          *)
(* anonymous area is the stack, which has VM_WRITE and not VM_MAYWRITE.    *)
AnonymousFault(v, a) ==
  /\ UNCHANGED mode
  /\ IF pte[v] = None THEN MapPage(v, AllocPages, a.prot) ELSE UNCHANGED <<pte, refcnt>>

(* kernel_page_fault, for an access the page table does not allow.         *)
PageFault(v, write) ==
  /\ mode = "user" /\ FreePages # {}
  /\ pte[v] # None => write /\ ~pte[v].rw
  /\ IF Holding(v) = {} THEN mode' = "segfault" /\ UNCHANGED <<pte, refcnt>>
     ELSE IF FindVma(v).file THEN RamfsFault(v, write, FindVma(v))
     ELSE AnonymousFault(v, FindVma(v))
  /\ UNCHANGED <<areas, mapped, fileRefs, spoilt>>

(* A write of user code that the page table allows.                        *)
UserWrite(v) ==
  /\ mode = "user" /\ pte[v] # None /\ pte[v].rw
  /\ spoilt' = spoilt \cup ({pte[v].page} \cap Cached)
  /\ UNCHANGED <<areas, mapped, fileRefs, pte, refcnt, mode>>

Next ==
  \/ \E h \in Headers : MapSegment(h)
  \/ MapStack
  \/ \E v \in Pages, write \in BOOLEAN : PageFault(v, write)
  \/ \E v \in Pages : UserWrite(v)

Spec == Init /\ [][Next]_vars

-----------------------------------------------------------------------------
Area == [start : Nat, end : Nat, file : BOOLEAN, prot : SUBSET Bits, off : Nat]

(* Type correctness of the area list, the page table and the counters.     *)
TypeOK ==
  /\ areas \in Seq(Area)
  /\ mapped \in 0 .. MaxHeaders /\ fileRefs \in Nat
  /\ refcnt \in [DOMAIN refcnt -> Nat] /\ Cached \subseteq 0 .. Slots - 1
  /\ pte \in [Pages -> [page : DOMAIN refcnt, rw : BOOLEAN] \cup {None}]
  /\ spoilt \subseteq Cached
  /\ mode \in {"load", "user", "poison", "segfault", "sigbus", "wild"}

(* Whatever headers a file has and wherever do_mmap moves the areas that   *)
(* collide, the list stays in address order and no two areas overlap, as   *)
(* long as the lowest starts at X86_LOW_LIMIT or above (below it the first *)
(* gap of cpu_assign_vma_vaddr wraps and any length seems to fit).         *)
AreasDisjoint ==
  (areas # <<>> => areas[1].start >= LowLimit) =>
    \A i, j \in 1 .. Len(areas) : i < j => areas[i].end <= areas[j].start

(* A page's count is one for the file's cache and one for each page table  *)
(* entry that leads to it, and the file's is one for the opener and one    *)
(* for each area that maps it: neither is freed in use or kept for ever.   *)
RefsExact ==
  /\ \A p \in DOMAIN refcnt :
       refcnt[p] = Cardinality({v \in Pages : pte[v] # None /\ pte[v].page = p})
                   + (IF p \in Cached THEN 1 ELSE 0)
  /\ fileRefs = 1 + Cardinality({i \in 1 .. Len(areas) : areas[i].file})

(* A page of the file appears in user space only where a program header    *)
(* put that part of the file, and a fresh page in no two places.           *)
RightPage ==
  \A v \in Pages : pte[v] # None =>
    IF pte[v].page \in Cached
    THEN \E i \in 1 .. Len(areas) :
           /\ areas[i].file /\ areas[i].start <= v /\ v < areas[i].end
           /\ pte[v].page - areas[i].off = v - areas[i].start
    ELSE \A w \in Pages \ {v} : pte[w] = None \/ pte[w].page # pte[v].page

(* list.h: poisoned pointers are there "to verify that nobody uses         *)
(* non-initialized list entries"; try_join follows none.                   *)
NoPoisonUsed == mode # "poison"

(* page_fault.c: a write to an area with VM_MAYWRITE "implies a copy on    *)
(* write", so a program never changes the file it was loaded from.         *)
PrivateWritesStayPrivate == spoilt = {}
=============================================================================
