------------------------------ MODULE MemInit ------------------------------
(***************************************************************************)
(* From the boot loader's memory map to the zones of the page allocator:   *)
(* initialize_memory (arch/x86_64/init_mem.c) and mem_init                 *)
(* (mm/page_alloc.c), and the conversions between pages and addresses that *)
(* rest on what they leave.  An iteration of each of their loops is a      *)
(* step.                                                                   *)
(*                                                                         *)
(* Physical addresses are page frame numbers.  The array of page           *)
(* structures and the bitmaps of all zones lie one after the other from    *)
(* the start of the largest zone; a place there is a number of bytes.      *)
(***************************************************************************)
EXTENDS Integers, Sequences, FiniteSets

CONSTANTS
  MemMaps,      \* memory maps: sequences of [type, base, pages]
  Frame4G,      \* the frame at 4 GiB
  PageBytes,    \* PAGE_SIZE
  StructBytes,  \* sizeof(struct page)
  MaxOrder      \* MAX_PG_ORDER

ASSUME MemAssumption ==
  /\ PageBytes \in Nat \ {0} /\ StructBytes \in Nat \ {0} /\ MaxOrder \in Nat /\ Frame4G \in Nat
  /\ \A m \in MemMaps : m \in Seq([type : Nat, base : Nat, pages : Nat \ {0}])

VARIABLES
  entries,      \* the memory map
  at,           \* index of the loop under way
  zone,         \* state.zones
  biggest,      \* state.biggest_mapped_idx, 0 for none
  maintenance,  \* state.allocator_maintenance_memory
  used,         \* state.total_maintenance_used
  mstage

memVars == <<entries, at, zone, biggest, maintenance, used, mstage>>

Order == 0 .. MaxOrder - 1

MemStart ==
  /\ entries \in MemMaps /\ at = 1 /\ zone = <<>>
  /\ biggest = 0 /\ maintenance = 0 /\ used = 0 /\ mstage = "scan"

(* initialize_memory: entries of a type other than 0 are no memory.        *)
NewZone(e) ==
  [base |-> e.base, abs |-> e.pages, start |-> e.base, usable |-> 0, order |-> 0,
   sizes |-> [i \in Order |-> 0], map |-> 0, bits |-> [i \in {} |-> 0], identity |-> FALSE,
   placed |-> FALSE, available |-> 0]
ScanEntry ==
  /\ mstage = "scan" /\ at <= Len(entries)
  /\ zone' = IF entries[at].type = 0 THEN Append(zone, NewZone(entries[at])) ELSE zone
  /\ at' = at + 1
  /\ UNCHANGED <<entries, biggest, maintenance, used, mstage>>

NextLoop(from, to) ==
  /\ mstage = from /\ at > (IF from = "scan" THEN Len(entries) ELSE Len(zone))
  /\ at' = 1 /\ mstage' = to
  /\ UNCHANGED <<entries, zone, biggest, maintenance, used>>

(* The bytes of the bitmap of an order, a bit for each pair of blocks.     *)
BitmapBytes_NoWords(pages, i) ==
  LET floor == pages \div (8 * 2^(i + 1)) IN IF floor = 0 THEN 4 ELSE floor
BitmapBytes(pages, i) ==
  LET floor == pages \div (8 * 2^(i + 1))
  IN  IF floor = 0 THEN 4 ELSE IF floor % 4 = 0 THEN floor ELSE floor + 4 - (floor % 4)

SumTo(f) == LET sum[n \in 0 .. MaxOrder] == IF n = 0 THEN 0 ELSE f[n - 1] + sum[n - 1]
            IN  sum[MaxOrder]

(* mem_init's first loop.                                                  *)
Larger(z) == biggest = 0 \/ zone[z].abs > zone[biggest].abs
MeasureZone ==
  /\ mstage = "measure" /\ at <= Len(zone)
  /\ LET sizes == [i \in Order |-> BitmapBytes(zone[at].abs, i)]
         low == zone[at].base + zone[at].abs < Frame4G
     IN  /\ zone' = [zone EXCEPT ![at].sizes = sizes, ![at].identity = low]
         /\ biggest' = IF low /\ Larger(at) THEN at ELSE biggest
         /\ maintenance' = maintenance + SumTo(sizes) + zone[at].abs * StructBytes
  /\ at' = at + 1
  /\ UNCHANGED <<entries, used, mstage>>

(* Nothing below 4 GiB: a null pointer; too little: the processor halts.   *)
Measured ==
  /\ mstage = "measure" /\ at > Len(zone)
  /\ at' = 1
  /\ mstage' = IF biggest = 0 THEN "fault"
               ELSE IF zone[biggest].abs * PageBytes < maintenance THEN "halted" ELSE "place"
  /\ UNCHANGED <<entries, zone, biggest, maintenance, used>>

(* __get_max_order, and the truncation to whole blocks of that order.      *)
MaxOrderOf(pages) ==
  LET small == {i \in 0 .. MaxOrder : pages \div 2^i = 0}
      i == CHOOSE k \in small : \A j \in small : k <= j
  IN  IF small = {} THEN MaxOrder ELSE IF pages % 2^i # 0 THEN i - 1 ELSE i
Whole(pages) == (pages \div 2^MaxOrderOf(pages)) * 2^MaxOrderOf(pages)

(* __initialize_offsets of zone z with that many pages, frames from start. *)
Place(z, pages, start) ==
  LET top == MaxOrderOf(pages)
      maps == {o \in Order : o <= top}
      first == used + StructBytes * Whole(pages)
      offset[o \in 0 .. MaxOrder] ==
        IF o = 0 THEN first
        ELSE IF o - 1 \in maps THEN offset[o - 1] + (zone[z].sizes[o - 1] \div 4) * 4 ELSE offset[o - 1]
  IN  /\ zone' = [zone EXCEPT ![z].usable = Whole(pages), ![z].order = top, ![z].start = start,
                              ![z].map = used, ![z].bits = [o \in maps |-> offset[o]],
                              ![z].placed = TRUE]
      /\ used' = offset[MaxOrder]

(* mem_init's second loop leaves out the largest zone, ...                 *)
PlaceZone ==
  /\ mstage = "place" /\ at <= Len(zone)
  /\ IF at = biggest THEN UNCHANGED <<zone, used>> ELSE Place(at, zone[at].abs, zone[at].start)
  /\ at' = at + 1
  /\ UNCHANGED <<entries, biggest, maintenance, mstage>>

(* ... which __init_maintenance_zone shortens by the pages it uses itself. *)
Reserved == maintenance \div PageBytes + (IF maintenance % PageBytes # 0 THEN 1 ELSE 0)
FirstFrame_Down == maintenance \div PageBytes
FirstFrame == Reserved
PlaceBiggest ==
  /\ mstage = "biggest"
  /\ Place(biggest, zone[biggest].abs - Reserved, FirstFrame)
  /\ mstage' = "lists"
  /\ UNCHANGED <<entries, at, biggest, maintenance>>

(* The last loop: all pages are free.                                      *)
FreeLists ==
  /\ mstage = "lists" /\ at <= Len(zone)
  /\ zone' = [zone EXCEPT ![at].available = zone[at].usable]
  /\ at' = at + 1
  /\ UNCHANGED <<entries, biggest, maintenance, used, mstage>>

MemNext ==
  \/ ScanEntry \/ NextLoop("scan", "measure")
  \/ MeasureZone \/ Measured
  \/ PlaceZone \/ NextLoop("place", "biggest")
  \/ PlaceBiggest
  \/ FreeLists \/ NextLoop("lists", "ready")

-----------------------------------------------------------------------------
(* The parts of the maintenance memory handed out so far.                  *)
Placed == {z \in DOMAIN zone : zone[z].placed}
Regions ==
  {[from |-> zone[z].map, len |-> StructBytes * zone[z].usable, of |-> <<z>>] : z \in Placed}
    \cup UNION {{[from |-> zone[z].bits[o], len |-> zone[z].sizes[o], of |-> <<z, o>>] :
                   o \in DOMAIN zone[z].bits} : z \in Placed}

(* A zone's pairs of blocks of an order.                                   *)
Pairs(z, o) == zone[z].usable \div 2^(o + 1)

(* The arrays of page structures and the bitmaps of all zones lie apart,   *)
(* within the memory mem_init has counted for them and, once the largest   *)
(* zone has been shortened, in its reserved pages; and every pair has a    *)
(* bit in the bitmap of its order, except that up to seven pairs at the    *)
(* end have none when the length, rounded down to bytes, needed no         *)
(* rounding up to words.                                                   *)
MapsApart ==
  /\ \A r, s \in Regions : r # s => r.from + r.len <= s.from \/ s.from + s.len <= r.from
  /\ \A r \in Regions : r.from + r.len <= used
  /\ biggest # 0 /\ mstage \in {"place", "biggest", "lists", "ready"} =>
       used <= maintenance /\ maintenance <= Reserved * PageBytes
  /\ \A z \in Placed : \A o \in DOMAIN zone[z].bits :
       LET bits == 8 * zone[z].sizes[o]
       IN  \/ Pairs(z, o) <= bits
           \/ bits = 8 * (zone[z].abs \div 2^(o + 4)) /\ Pairs(z, o) < bits + 8

(* get_zone_and_pfn_from_page and get_phys_addr_from_page, of the page     *)
(* structure at a place: the frame of its page.                            *)
ZoneOf(place) ==
  CHOOSE z \in DOMAIN zone :
    /\ zone[z].map <= place /\ place < zone[z].map + StructBytes * zone[z].usable
    /\ \A y \in 1 .. z - 1 :
         ~(zone[y].map <= place /\ place < zone[y].map + StructBytes * zone[y].usable)
FrameOf(place) ==
  LET z == ZoneOf(place) IN zone[z].start + (place - zone[z].map) \div StructBytes

(* get_page_from_paddr: the place of the structure of a frame's page.      *)
PageOf(frame) ==
  LET z == CHOOSE y \in DOMAIN zone :
             zone[y].base <= frame /\ frame < zone[y].base + zone[y].usable
  IN  zone[z].map + StructBytes * (frame - zone[z].start)

(* Where the structure of a zone's k-th page lies, and the frame the page  *)
(* should have.                                                            *)
StructOf(z, k) == zone[z].map + StructBytes * k
TrueFrame(z, k) == zone[z].base + k + (IF z = biggest THEN Reserved ELSE 0)
SomePages(z) == {k \in {0, 1, zone[z].usable \div 2, zone[z].usable - 1} : k < zone[z].usable}

(* Every page structure belongs to a frame of its own zone and back, but   *)
(* in the largest zone the frame is too low by the zone's base, and        *)
(* get_page_from_paddr finds only frames that are below the zone's usable  *)
(* length: there a page can share its frame with page structures.          *)
PagesRight ==
  mstage = "ready" =>
    \A z \in DOMAIN zone : \A k \in SomePages(z) :
      LET frame == FrameOf(StructOf(z, k))
          off == IF z = biggest THEN zone[z].base ELSE 0
      IN  /\ frame + off = TrueFrame(z, k)
          /\ off = 0 /\ frame < zone[z].base + zone[z].usable => PageOf(frame) = StructOf(z, k)
          /\ off = 0 => frame < zone[z].base + zone[z].abs
=============================================================================
