----------------------------- MODULE PageAlloc -----------------------------
(***************************************************************************)
(* The page allocator, mm/page_alloc.c: a buddy allocator over the memory  *)
(* zones, with free lists threaded through struct page and one bit per     *)
(* pair of buddies.                                                        *)
(*                                                                         *)
(* The lists are the pointers themselves: free_pages and __alloc_from_zone *)
(* pass list_add and list_add_tail the list's head as the new entry, and   *)
(* what that does depends on the links.  Nodes of zone z are its pages     *)
(* 0 .. NumPages[z] - 1, then the heads of free_areas[0 .. MaxOrder[z]].   *)
(*                                                                         *)
(* mem_init clears no bitmap: `stale' is what their memory held at boot.   *)
(* The maps are apart from each other, and from all else, as MemInit       *)
(* shows them to be for all zone sizes but those it names.                 *)
(*                                                                         *)
(* alloc_pages is one step.  free_pages calls itself; each call is a step  *)
(* and `pending' is the call not yet executed.  When no zone can serve a   *)
(* request alloc_pages dereferences NULL: the model has no step then.      *)
(***************************************************************************)
EXTENDS ListHead, FiniteSets

CONSTANTS
  NumZones,     \* state.num_zones
  Mapped,       \* zones with MEMZONE_IDENTITY_MAPPED
  NumPages,     \* zone->usable_num_pages, a multiple of 2^MaxOrder
  MaxOrder,     \* zone->max_order
  MaxPgOrder,   \* MAX_PG_ORDER: no map is set for this order
  Leftovers,    \* what the memory of the maps may hold at boot
  Orders,       \* the orders callers of alloc_pages ask for
  Excess,       \* bound: how far merges may overcount available_pages
  NULL

Zones == 1 .. NumZones

(* 1 << n.                                                                 *)
Pow2[n \in Nat] == IF n = 0 THEN 1 ELSE 2 * Pow2[n - 1]

(* The bits <<order, i>> of a zone's maps.                                 *)
BitRange(z) == (0 .. MaxOrder[z]) \X (0 .. NumPages[z] \div 2)

ASSUME ZonesAssumption ==
  /\ NumZones \in Nat /\ Mapped \subseteq Zones
  /\ NumPages \in [Zones -> Nat] /\ MaxOrder \in [Zones -> Nat] /\ Orders \subseteq Nat
  /\ MaxPgOrder \in Nat
  /\ \A z \in Zones : MaxOrder[z] <= MaxPgOrder /\ NumPages[z] % Pow2[MaxOrder[z]] = 0
  /\ \A s \in Leftovers : DOMAIN s = Zones /\ \A z \in Zones : s[z] \subseteq BitRange(z)
  /\ NULL \notin [zone : Zones, page : Nat, order : Nat]

VARIABLES
  lists,        \* the list_heads of each zone's pages and free areas
  map,          \* free_areas[order].map: the set of bits <<order, i>> that are 1
  stale,        \* what map was at boot
  available,    \* zone->available_pages
  pending,      \* the call of free_pages to execute next
  owned,        \* the blocks callers have
  past          \* how far the frees so far have gone: see FreePages

vars == <<lists, map, stale, available, pending, owned, past>>

Head(z, order) == NumPages[z] + order

(* __init_memmap and __init_free_lists: the whole zone in blocks of        *)
(* max_order, in the order of their addresses.                             *)
InitFreeLists(z) ==
  LET top == Head(z, MaxOrder[z])
      n == NumPages[z] \div Pow2[MaxOrder[z]]
      Added[p \in 0 .. n] ==
        IF p = 0 THEN InitListHeads(0 .. top)
        ELSE list_add_tail(Added[p - 1], (p - 1) * Pow2[MaxOrder[z]], top)
  IN  Added[n]

Init ==
  /\ lists = [z \in Zones |-> InitFreeLists(z)]
  /\ stale \in Leftovers /\ map = stale
  /\ available = NumPages
  /\ pending = NULL /\ owned = {} /\ past = "allocs"

-----------------------------------------------------------------------------
Bit(pfn, order) == <<order, pfn \div Pow2[order + 1]>>

(* __toggle_bit_pfn_zone, on the set of the bits that are 1.               *)
Toggle_OwnBit(bits, pfn, order) ==
  LET b == <<order, pfn \div Pow2[order]>> IN IF b \in bits THEN bits \ {b} ELSE bits \cup {b}
Toggle(bits, pfn, order) ==
  LET b == Bit(pfn, order) IN IF b \in bits THEN bits \ {b} ELSE bits \cup {b}

(* The buddy that __alloc_from_zone puts on the list of a smaller order.   *)
Buddy_NextPage(page, order) == page + 1
Buddy(page, order) == page + Pow2[order]

(* list_add_tail(&free_areas[order].list, &buddy->list).                   *)
PutBuddy_Lost(L, head, buddy) == L
PutBuddy(L, head, buddy) == list_add_tail(L, head, buddy)

(* __alloc_from_zone: the page it returns and the lists and bits it        *)
(* leaves, or NULL and nothing changed; `larger' is what its call of       *)
(* itself for the next order returns.                                      *)
AllocFrom(z, order, larger) ==
  LET head == Head(z, order)
      page == lists[z].next[head]
  IN  IF ~list_empty(lists[z], head)
      THEN [page |-> page,
            lists |-> list_del_init(lists[z], page),
            map |-> IF order = MaxOrder[z] THEN map[z] ELSE Toggle(map[z], page, order)]
      ELSE IF larger = NULL THEN NULL
      ELSE [page |-> larger.page,
            lists |-> PutBuddy(larger.lists, head, Buddy(larger.page, order)),
            map |-> Toggle(larger.map, larger.page, order)]

AllocFromZone(z) ==
  LET Alloc[order \in 0 .. MaxOrder[z]] ==
        AllocFrom(z, order, IF order = MaxOrder[z] THEN NULL ELSE Alloc[order + 1])
  IN  Alloc

(* The zones alloc_pages(PGALLOC_KERNEL, order) tries to allocate from.    *)
Serves(z, order) ==
  /\ z \in Mapped
  /\ order <= MaxOrder[z] /\ Pow2[order] <= available[z]
  /\ AllocFromZone(z)[order] # NULL

(* zone->available_pages after a block is taken.                           *)
Charge_One(z, order) == available[z] - 1
Charge(z, order) == available[z] - Pow2[order]

AllocPages(z, order) ==
  /\ pending = NULL /\ past # "broken"
  /\ Serves(z, order) /\ \A y \in 1 .. z - 1 : ~Serves(y, order)
  /\ LET r == AllocFromZone(z)[order]
     IN  /\ lists' = [lists EXCEPT ![z] = r.lists]
         /\ map' = [map EXCEPT ![z] = r.map]
         /\ owned' = owned \cup {[zone |-> z, page |-> r.page, order |-> order]}
  /\ available' = [available EXCEPT ![z] = Charge(z, order)]
  /\ UNCHANGED <<stale, pending, past>>

(* page_unref drops the last reference to a page: free_pages(p, 0).  Which *)
(* one is the last is left open; the blocks of higher orders (slabs, task  *)
(* stacks) are never freed.  Every merge counts pages again, so            *)
(* available_pages has no bound of its own.                                *)
PageUnref(b) ==
  /\ pending = NULL /\ past # "broken"
  /\ b \in owned /\ b.order = 0
  /\ available[b.zone] < NumPages[b.zone] + Excess
  /\ owned' = owned \ {b}
  /\ pending' = b
  /\ UNCHANGED <<lists, map, stale, available, past>>

(* free_pages returns at once for a block it cannot hold.                  *)
FreeRejected ==
  /\ pending # NULL
  /\ pending.order > MaxOrder[pending.zone] \/ pending.page % Pow2[pending.order] # 0
  /\ pending' = NULL
  /\ UNCHANGED <<lists, map, stale, available, owned, past>>

(* A block of MAX_PG_ORDER: free_areas[MAX_PG_ORDER].map is NULL, and      *)
(* toggling a bit of it a page fault that ends in kernel_page_fault's hlt. *)
FreeFaults ==
  /\ pending # NULL
  /\ pending.order = MaxPgOrder
  /\ pending.order <= MaxOrder[pending.zone] /\ pending.page % Pow2[pending.order] = 0
  /\ available' = [available EXCEPT ![pending.zone] = @ + Pow2[pending.order]]
  /\ pending' = NULL /\ past' = "broken"
  /\ UNCHANGED <<lists, map, stale, owned>>

(* free_pages: the bit is 1 now, and the block goes on its free list, by   *)
(* list_add(free, &p->list).  Otherwise mem_map[pfn >> (order + 1)] and    *)
(* the page 2^order after it leave their lists and the former is freed as  *)
(* a block of the next order.  `past' remembers whether any block has been *)
(* freed, merged, and merged wrongly: because the bit was 1 at boot, with  *)
(* a page that is not the pair's first, or at max_order, where there is no *)
(* buddy (its page may lie beyond mem_map; the model then changes no list  *)
(* and, as after every wrong merge, accepts no further call).              *)
DelPage(L, z, page) == IF page < NumPages[z] THEN list_del_init(L, page) ELSE L

FreePages ==
  /\ pending # NULL
  /\ LET z == pending.zone
         pfn == pending.page
         order == pending.order
         bits == Toggle(map[z], pfn, order)
         buddy == pfn \div Pow2[order + 1]
     IN  /\ order <= MaxOrder[z] /\ order # MaxPgOrder /\ pfn % Pow2[order] = 0
         /\ available' = [available EXCEPT ![z] = @ + Pow2[order]]
         /\ map' = [map EXCEPT ![z] = bits]
         /\ \/ /\ Bit(pfn, order) \in bits
               /\ lists' = [lists EXCEPT ![z] = list_add(@, Head(z, order), pfn)]
               /\ pending' = NULL
               /\ past' = IF past = "allocs" THEN "frees" ELSE past
            \/ /\ Bit(pfn, order) \notin bits
               /\ lists' = [lists EXCEPT ![z] =
                              DelPage(DelPage(@, z, buddy), z, buddy + Pow2[order])]
               /\ pending' = [zone |-> z, page |-> buddy, order |-> order + 1]
               /\ past' = IF \/ past = "broken" \/ order = MaxOrder[z]
                             \/ buddy # pfn - (pfn % Pow2[order + 1])
                             \/ Bit(pfn, order) \in stale[z]
                          THEN "broken" ELSE "merges"
  /\ UNCHANGED <<stale, owned>>

Next ==
  \/ \E z \in Zones, order \in Orders : AllocPages(z, order)
  \/ \E b \in owned : PageUnref(b)
  \/ FreeRejected
  \/ FreeFaults
  \/ FreePages

Spec == Init /\ [][Next]_vars

-----------------------------------------------------------------------------
Pages(b) == {b.zone} \X (b.page .. b.page + Pow2[b.order] - 1)
AllPages(z) == {z} \X (0 .. NumPages[z] - 1)
OwnedPages == UNION {Pages(b) : b \in owned}

(* The blocks a walk of the free list of each order finds.                 *)
Listed(z) ==
  UNION {{[zone |-> z, page |-> p, order |-> o] :
            p \in Entries(lists[z], Head(z, o), Head(z, MaxOrder[z]) + 1)}
         : o \in 0 .. MaxOrder[z]}

(* Type correctness of the allocator's state.                              *)
TypeOK ==
  /\ \A z \in Zones :
       LET nodes == 0 .. Head(z, MaxOrder[z]) IN
       /\ lists[z] \in [next : [nodes -> nodes], prev : [nodes -> nodes]]
       /\ map[z] \subseteq BitRange(z)
  /\ available \in [Zones -> Nat]
  /\ \A b \in owned : b.zone \in Zones /\ Pages(b) \subseteq AllPages(b.zone)
  /\ past \in {"allocs", "frees", "merges", "broken"}

(* Until a merge goes wrong, the blocks callers have and the blocks on     *)
(* the free lists never share a page, whatever the bitmaps held at boot:   *)
(* __alloc_from_zone's splits and free_pages' list_add, head and entry     *)
(* swapped, hand out no page twice.                                        *)
NoOverlap ==
  past # "broken" =>
    LET blocks == owned \cup (UNION {Listed(z) : z \in Zones})
                  \cup (IF pending = NULL THEN {} ELSE {pending})
    IN  \A a, b \in blocks : a # b => Pages(a) \cap Pages(b) = {}

(* Until a page is freed, every page is in a block someone has or on a     *)
(* free list: splitting a block for a smaller order loses nothing.         *)
NothingLost ==
  past = "allocs" /\ pending = NULL =>
    \A z \in Zones : AllPages(z) \subseteq OwnedPages \cup UNION {Pages(b) : b \in Listed(z)}

(* None of the bits that were 1 at boot is that of a pair of lower order   *)
(* which starts inside pair i of order o: free_pages merges all it can.    *)
CleanInside(bits, o, i) ==
  \A b \in bits : b[1] < o =>
    b[2] * Pow2[b[1] + 1] \notin i * Pow2[o + 1] .. i * Pow2[o + 1] + Pow2[o + 1] - 1

(* The bit of such a pair of buddies has changed since boot exactly when   *)
(* one of the two is wholly free and the other is not.  So the bit that    *)
(* free_pages tests tells it whether the buddy can be merged if it was 0   *)
(* at boot, and tells it the opposite if it was 1, through any alternation *)
(* of splits, frees and merges, even of blocks that fell off their list.   *)
BitsExact ==
  past # "broken" /\ pending = NULL =>
    \A z \in Zones : \A o \in 0 .. MaxOrder[z] - 1 :
      \A i \in 0 .. (NumPages[z] \div Pow2[o + 1]) - 1 :
        LET Free(p) == Pages([zone |-> z, page |-> p, order |-> o]) \cap OwnedPages = {}
            changed == (<<o, i>> \in map[z]) # (<<o, i>> \in stale[z])
        IN  CleanInside(stale[z], o, i) =>
              (changed <=> Free(i * Pow2[o + 1]) # Free(i * Pow2[o + 1] + Pow2[o]))

(* Until blocks merge, available_pages is the number of pages nobody has,  *)
(* so alloc_pages skips no zone that could serve and tries none below its  *)
(* count.  (A merge counts the merged pages again.)                        *)
AvailableExact ==
  past \in {"allocs", "frees"} /\ pending = NULL =>
    \A z \in Zones : available[z] = Cardinality(AllPages(z) \ OwnedPages)

(* Up to the first merge that goes wrong the allocator does what           *)
(* PageAllocator promises, whatever the bitmaps held at boot: each         *)
(* alloc_pages hands out an aligned block of unowned pages.                *)
Promise == INSTANCE PageAllocator
ImplementsPromise == Promise!Spec

(* "SHOULD be aligned to (1 << order) pages" (free_pages): every block     *)
(* free_pages is called with, by page_unref or by itself, is aligned.      *)
FreeAligned ==
  pending # NULL => pending.page % Pow2[pending.order] = 0
=============================================================================
