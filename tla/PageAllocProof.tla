--------------------------- MODULE PageAllocProof ---------------------------
(***************************************************************************)
(* The page allocator hands out no page twice, for any number of zones of  *)
(* any size and any max_order, and whatever the memory of the bitmaps held *)
(* at boot.                                                                *)
(***************************************************************************)
EXTENDS ZoneTheory, FiniteSetTheorems

USE SMTT(30), Z3T(30), SMTT(30), ZenonT(30)

(* The blocks callers have, and the one free_pages has in hand.            *)
InUse == owned \cup (IF pending = NULL THEN {} ELSE {pending})

(* The blocks callers have fit their zones and are apart.                  *)
OwnedOK ==
  /\ owned \subseteq Promise!Blocks
  /\ \A a, b \in owned : a # b => Pages(a) \cap Pages(b) = {}

(* free_pages' arguments.                                                  *)
PendingOK ==
  pending # NULL =>
    /\ pending \in [zone : Zones, page : Nat, order : Nat]
    /\ pending.page < NumPages[pending.zone]
    /\ past # "broken" => pending \in Promise!Blocks /\ pending \notin owned
    /\ past \in {"allocs", "frees"} => pending.order = 0

ZonesOK == past # "broken" => \A z \in Zones : ZoneOK(z, lists[z], map[z], InUse)

ChainsOK == past = "allocs" => \A z \in Zones : Chain(z, lists[z])

CountsOK ==
  past \in {"allocs", "frees"} =>
    \A z \in Zones : available[z] = Cardinality(AllPages(z) \ UsedOf(z, InUse))

(* The inductive invariant.                                                *)
IInv ==
  /\ DOMAIN lists = Zones /\ DOMAIN map = Zones /\ stale \in Leftovers /\ TypeOK
  /\ OwnedOK /\ PendingOK /\ ZonesOK /\ ChainsOK /\ CountsOK

-----------------------------------------------------------------------------
(* Zones in order after a step, since no step touches what was at boot.    *)
LEMMA ZonesNext ==
  ASSUME stale' = stale, \A z \in Zones : ZoneOK(z, lists'[z], map'[z], InUse')
  PROVE  ZonesOK'
BY DEF ZonesOK, ZoneOK

(* A block of order o has 2^o pages.                                       *)
LEMMA PagesCount ==
  ASSUME NEW b \in Record
  PROVE  IsFiniteSet(Pages(b)) /\ Cardinality(Pages(b)) = Pow2[b.order]
<1> DEFINE T == b.page .. b.page + Pow2[b.order] - 1
<1>1. b.page \in Nat /\ Pow2[b.order] \in Nat /\ Pow2[b.order] > 0
  BY Pow2Step DEF Record
<1>2. IsFiniteSet(T) /\ Cardinality(T) = Pow2[b.order]
  <2> DEFINE lo == b.page
             hi == b.page + Pow2[b.order] - 1
  <2>1. lo \in Int /\ hi \in Int /\ ~(lo > hi) /\ hi - lo + 1 = Pow2[b.order]
    BY <1>1
  <2> HIDE DEF lo, hi
  <2>2. IsFiniteSet(lo .. hi) /\ Cardinality(lo .. hi) = IF lo > hi THEN 0 ELSE hi - lo + 1
    BY <2>1, FS_Interval
  <2>3. QED
    BY <2>1, <2>2 DEF lo, hi
<1>3. IsFiniteSet({b.zone}) /\ Cardinality({b.zone}) = 1
  BY FS_Singleton, ZenonT(30)
<1> HIDE DEF T
<1>4. IsFiniteSet({b.zone} \X T) /\ Cardinality({b.zone} \X T) = 1 * Pow2[b.order]
  <2>1. /\ IsFiniteSet({b.zone} \X T)
        /\ Cardinality({b.zone} \X T) = Cardinality({b.zone}) * Cardinality(T)
    BY <1>2, <1>3, FS_Product
  <2>2. QED
    BY <1>2, <1>3, <2>1
<1>5. QED
  BY <1>1, <1>4 DEF Pages, T

(* A zone has as many pages as its number says.                            *)
LEMMA AllPagesCount ==
  ASSUME NEW z \in Zones
  PROVE  IsFiniteSet(AllPages(z)) /\ Cardinality(AllPages(z)) = NumPages[z]
<1> DEFINE hi == NumPages[z] - 1
           T == 0 .. hi
<1>1. hi \in Int /\ NumPages[z] \in Nat
  BY ZonesAssumption
<1>2. IsFiniteSet(T) /\ Cardinality(T) = IF 0 > hi THEN 0 ELSE hi - 0 + 1
  <2> HIDE DEF hi
  <2>1. QED
    BY <1>1, FS_Interval
<1>3. Cardinality(T) = NumPages[z]
  BY <1>1, <1>2
<1>4. IsFiniteSet({z}) /\ Cardinality({z}) = 1
  BY FS_Singleton
<1> HIDE DEF T
<1>5. IsFiniteSet({z} \X T) /\ Cardinality({z} \X T) = Cardinality({z}) * Cardinality(T)
  BY <1>2, <1>4, FS_Product
<1>6. QED
  BY <1>1, <1>3, <1>4, <1>5 DEF AllPages, T

(* The pages of a block are pages of its zone.                             *)
LEMMA InZone ==
  ASSUME NEW b \in Promise!Blocks
  PROVE  IsFiniteSet(AllPages(b.zone)) /\ Pages(b) \subseteq AllPages(b.zone)
<1>1. /\ b.zone \in Zones /\ b.page \in 0 .. NumPages[b.zone] - 1 /\ Pow2[b.order] \in Nat
      /\ b.page + Pow2[b.order] <= NumPages[b.zone] /\ NumPages[b.zone] \in Nat
  BY BlocksAre, ZonesAssumption
<1>2. Pages(b) \subseteq AllPages(b.zone)
  BY <1>1 DEF Pages, AllPages
<1>3. QED
  BY <1>1, <1>2, AllPagesCount

(* A block joins the blocks in use: so many pages fewer are left.          *)
LEMMA CountLess ==
  ASSUME NEW b \in Promise!Blocks, NEW O, \A c \in O : c.zone = b.zone => Pages(c) \cap Pages(b) = {}
  PROVE  LET z == b.zone
         IN  /\ Cardinality(AllPages(z) \ UsedOf(z, O)) \in Nat
             /\ Cardinality(AllPages(z) \ UsedOf(z, O \cup {b})) \in Nat
             /\ Cardinality(AllPages(z) \ UsedOf(z, O)) =
                  Cardinality(AllPages(z) \ UsedOf(z, O \cup {b})) + Pow2[b.order]
<1> DEFINE z == b.zone
           S == AllPages(z) \ UsedOf(z, O)
           T == AllPages(z) \ UsedOf(z, O \cup {b})
<1>1. IsFiniteSet(AllPages(z)) /\ Pages(b) \subseteq AllPages(z)
  BY InZone
<1>2. Pages(b) \cap UsedOf(z, O) = {}
  BY DEF UsedOf
<1>3. Pages(b) \subseteq S /\ T = S \ Pages(b)
  <2>1. UsedOf(z, O \cup {b}) = UsedOf(z, O) \cup Pages(b)
    <3>1. UsedOf(z, O \cup {b}) = IF b.zone = z THEN UsedOf(z, O) \cup Pages(b) ELSE UsedOf(z, O)
      BY UsedAdd, ZenonT(30)
    <3>2. QED
      BY <3>1
  <2>2. QED
    BY <1>1, <1>2, <2>1, ZenonT(30)
<1>4. IsFiniteSet(S)
  BY <1>1, FS_Difference, ZenonT(30)
<1>5. IsFiniteSet(Pages(b)) /\ Cardinality(Pages(b)) = Pow2[b.order]
  BY BlocksAre, PagesCount
<1> HIDE DEF S, T
<1>6. IsFiniteSet(T) /\ Cardinality(T) = Cardinality(S) - Cardinality(S \cap Pages(b))
  BY <1>3, <1>4, FS_Difference, ZenonT(30)
<1>7. S \cap Pages(b) = Pages(b)
  BY <1>3
<1>8. Cardinality(S) \in Nat /\ Cardinality(T) \in Nat /\ Pow2[b.order] \in Nat
  BY <1>4, <1>6, FS_CardinalityType, BlocksAre
<1>9. Cardinality(T) = Cardinality(S) - Pow2[b.order]
  BY <1>5, <1>6, <1>7, ZenonT(30)
<1>10. Cardinality(S) = Cardinality(T) + Pow2[b.order]
  BY <1>8, <1>9
<1>11. QED
  BY <1>8, <1>10 DEF S, T

-----------------------------------------------------------------------------
(* mem_init sets the invariant up.                                         *)
LEMMA InitIInv == Init => IInv
<1> SUFFICES ASSUME Init PROVE IInv
  OBVIOUS
<1>1. /\ lists = [z \in Zones |-> InitFreeLists(z)] /\ stale \in Leftovers /\ map = stale
      /\ available = NumPages /\ pending = NULL /\ owned = {} /\ past = "allocs"
  BY DEF Init
<1>2. /\ \A z \in Zones : lists[z] = InitFreeLists(z) /\ map[z] = stale[z] /\ map[z] \subseteq BitRange(z)
      /\ DOMAIN map = Zones
  BY <1>1, ZonesAssumption
<1>3. InUse = {}
  BY <1>1 DEF InUse
<1>4. \A z \in Zones : ZoneOK(z, lists[z], map[z], InUse) /\ Chain(z, lists[z])
  BY <1>2, <1>3, InitZone
<1>5. TypeOK
  <2>1. \A z \in Zones : TypedLists(z, lists[z])
    BY <1>4 DEF ZoneOK, ListsOK
  <2>2. available \in [Zones -> Nat]
    BY <1>1, ZonesAssumption
  <2>3. QED
    BY <1>1, <1>2, <2>1, <2>2 DEF TypeOK, TypedLists, Nodes
<1>6. CountsOK
  <2> SUFFICES ASSUME NEW z \in Zones PROVE available[z] = Cardinality(AllPages(z) \ UsedOf(z, InUse))
    BY DEF CountsOK
  <2>1. AllPages(z) \ UsedOf(z, InUse) = AllPages(z)
    BY <1>3 DEF UsedOf
  <2>2. Cardinality(AllPages(z)) = NumPages[z]
    BY AllPagesCount
  <2>3. QED
    BY <1>1, <2>1, <2>2
<1>7. OwnedOK /\ PendingOK
  BY <1>1 DEF OwnedOK, PendingOK
<1>8. QED
  BY <1>1, <1>2, <1>4, <1>5, <1>6, <1>7 DEF IInv, ZonesOK, ChainsOK

(* alloc_pages keeps the invariant.                                        *)
LEMMA AllocPagesIInv ==
  ASSUME IInv, NEW z \in Zones, NEW o \in Orders, AllocPages(z, o)
  PROVE  IInv' /\ Promise!Alloc
<1> DEFINE N == NumPages[z]
           M == MaxOrder[z]
           r == AllocFromZone(z)[o]
           b == Block(z, r.page, o)
           U == Held(z, owned)
<1>1. /\ pending = NULL /\ past # "broken" /\ r # NULL /\ o <= M /\ Pow2[o] <= available[z]
      /\ lists' = [lists EXCEPT ![z] = r.lists] /\ map' = [map EXCEPT ![z] = r.map]
      /\ owned' = owned \cup {b} /\ available' = [available EXCEPT ![z] = available[z] - Pow2[o]]
      /\ pending' = pending /\ past' = past /\ stale' = stale
  BY DEF AllocPages, Serves, Charge, Block
<1>2. /\ DOMAIN lists = Zones /\ DOMAIN map = Zones /\ stale \in Leftovers /\ TypeOK
      /\ OwnedOK /\ ZonesOK /\ ChainsOK /\ CountsOK
  BY DEF IInv
<1>3. o \in 0 .. M /\ N \in Nat /\ M \in Nat /\ Pow2[o] \in Nat /\ o \in Nat
  <2>1. o \in Nat /\ N \in Nat /\ M \in Nat
    BY ZonesAssumption, ZoneTypes
  <2>2. QED
    BY <1>1, <2>1, Pow2Step
<1>4. InUse = owned /\ InUse' = owned \cup {b}
  BY <1>1 DEF InUse
<1>5. \A y \in Zones : ZoneOK(y, lists[y], map[y], owned)
  BY <1>1, <1>2, <1>4 DEF ZonesOK
<1>6. map[z] \subseteq BitRange(z)
  BY <1>2 DEF TypeOK, BitRange
<1>7. ZoneReady(z, U)
  BY <1>5, <1>6 DEF ZoneReady, ZoneOK
<1>8. Allocated(z, U, o, r)
  BY <1>1, <1>3, <1>7, AllocZone
<1> HIDE DEF r
<1>9. /\ r.page \in 0 .. N - 1 /\ r.page \notin U[o] /\ ListsOK(z, r.lists) /\ r.map \subseteq BitRange(z)
      /\ Buddies(N, M, Free(z, r.lists), [U EXCEPT ![o] = @ \cup {r.page}],
                 Flips(r.map, stale[z]), stale[z])
      /\ Chain(z, lists[z]) => Chain(z, r.lists)
  BY <1>8 DEF Allocated
<1>10. /\ lists'[z] = r.lists /\ map'[z] = r.map /\ DOMAIN lists' = Zones /\ DOMAIN map' = Zones
       /\ \A y \in Zones : y # z => lists'[y] = lists[y] /\ map'[y] = map[y]
  BY <1>1, <1>2
<1>11. Held(z, InUse') = [U EXCEPT ![o] = @ \cup {r.page}] /\ \A y \in Zones : y # z => Held(y, InUse') = Held(y, owned)
  BY <1>3, <1>4, <1>9, HeldAdd
<1>12. \A y \in Zones : ZoneOK(y, lists'[y], map'[y], InUse')
  <2>1. ZoneOK(z, lists'[z], map'[z], InUse')
    BY <1>9, <1>10, <1>11 DEF ZoneOK
  <2>2. \A y \in Zones : y # z => ZoneOK(y, lists'[y], map'[y], InUse')
    BY <1>5, <1>10, <1>11 DEF ZoneOK
  <2>3. QED
    BY <2>1, <2>2
<1>13. b \in Record /\ b.zone = z /\ b.page = r.page /\ b.order = o
  BY <1>3, <1>9 DEF Block, Record
<1>14. b \in Promise!Blocks
  <2>1. r.page \in [U EXCEPT ![o] = @ \cup {r.page}][o]
    BY <1>3, <1>7 DEF ZoneReady, Buddies, Blocks
  <2>2. r.page % Pow2[o] = 0 /\ r.page + Pow2[o] <= N
    <3> DEFINE V == [U EXCEPT ![o] = @ \cup {r.page}]
               B == [k \in 0 .. M |-> Free(z, r.lists)[k] \cup V[k]]
    <3>1. r.page \in B[o]
      BY <1>3, <2>1
    <3>2. Tiled(N, M, B)
      BY <1>9 DEF Buddies
    <3> HIDE DEF B
    <3>3. QED
      BY <1>3, <3>1, <3>2 DEF Tiled
  <2>3. QED
    BY <1>1, <1>13, <2>2, BlocksAre
<1>15. b \notin owned
  BY <1>3, <1>9, HeldIs
<1> HIDE DEF b
<1>16. \A a \in owned : a \in Promise!Blocks /\ a # b /\ Pages(a) \cap Pages(b) = {}
  <2> SUFFICES ASSUME NEW a \in owned PROVE a \in Promise!Blocks /\ a # b /\ Pages(a) \cap Pages(b) = {}
    OBVIOUS
  <2>1. a \in Promise!Blocks /\ a # b
    BY <1>2, <1>15 DEF OwnedOK
  <2>2. CASE a.zone = z
    BY <1>4, <1>12, <1>13, <1>14, <2>1, <2>2, HeldApart
  <2>3. CASE a.zone # z
    BY <1>13, <2>1, <2>3, BlocksAre, PagesApart
  <2>4. QED
    BY <2>1, <2>2, <2>3
<1>17. OwnedOK'
  <2>1. owned' \subseteq Promise!Blocks
    BY <1>1, <1>14, <1>16
  <2>2. \A c, d \in owned' : c # d => Pages(c) \cap Pages(d) = {}
    <3>1. \A c, d \in owned : c # d => Pages(c) \cap Pages(d) = {}
      BY <1>2 DEF OwnedOK
    <3>2. QED
      BY <1>1, <1>16, <3>1
  <2>3. QED
    BY <2>1, <2>2 DEF OwnedOK
<1>18. available' \in [Zones -> Nat] /\ available'[z] = available[z] - Pow2[o] /\ \A y \in Zones : y # z => available'[y] = available[y]
  <2>1. available \in [Zones -> Nat]
    BY <1>2 DEF TypeOK
  <2>2. available[z] - Pow2[o] \in Nat
    BY <1>1, <1>3, <2>1
  <2>3. QED
    BY <1>1, <2>1, <2>2
<1>19. TypeOK'
  <2>1. \A y \in Zones : TypedLists(y, lists'[y])
    BY <1>12 DEF ZoneOK, ListsOK
  <2>2. \A y \in Zones : map'[y] \subseteq BitRange(y)
    BY <1>2, <1>9, <1>10 DEF TypeOK, BitRange
  <2>3. \A c \in owned' : c.zone \in Zones /\ Pages(c) \subseteq AllPages(c.zone)
    <3>1. \A c \in owned' : c \in Promise!Blocks
      BY <1>17 DEF OwnedOK
    <3>2. QED
      BY <3>1, InZone, BlocksAre
  <2>4. past' \in {"allocs", "frees", "merges", "broken"}
    BY <1>1, <1>2 DEF TypeOK
  <2>5. QED
    BY <1>18, <2>1, <2>2, <2>3, <2>4 DEF TypeOK, TypedLists, Nodes, BitRange
<1>20. CountsOK'
  <2> SUFFICES ASSUME past' \in {"allocs", "frees"}, NEW y \in Zones
               PROVE  available'[y] = Cardinality(AllPages(y) \ UsedOf(y, InUse'))
    BY DEF CountsOK
  <2>1. available[y] = Cardinality(AllPages(y) \ UsedOf(y, owned))
    BY <1>1, <1>2, <1>4 DEF CountsOK
  <2>2. CASE y = z
    <3>1. /\ Cardinality(AllPages(z) \ UsedOf(z, owned \cup {b})) \in Nat
          /\ Cardinality(AllPages(z) \ UsedOf(z, owned)) =
               Cardinality(AllPages(z) \ UsedOf(z, owned \cup {b})) + Pow2[o]
      BY <1>13, <1>14, <1>16, CountLess, ZenonT(30)
    <3>2. QED
      BY <1>3, <1>4, <1>18, <2>1, <2>2, <3>1
  <2>3. CASE y # z
    <3>1. UsedOf(y, owned \cup {b}) = UsedOf(y, owned)
      BY <1>13, <2>3, UsedAdd, ZenonT(30)
    <3>2. QED
      BY <1>4, <1>18, <2>1, <2>3, <3>1
  <2>4. QED
    BY <2>2, <2>3
<1>21. ChainsOK'
  BY <1>1, <1>2, <1>9, <1>10 DEF ChainsOK
<1>22. PendingOK'
  BY <1>1 DEF PendingOK
<1>23. Promise!Alloc
  <2>1. b \in owned' /\ owned' = owned \cup {b} /\ b \notin owned
    BY <1>1, <1>15 DEF b
  <2>2. b.order <= MaxOrder[b.zone] /\ b.page % Pow2[b.order] = 0 /\ b.page + Pow2[b.order] <= NumPages[b.zone]
    BY <1>14, BlocksAre
  <2>3. \A a \in owned : Promise!Disjoint(a, b)
    BY <1>16 DEF Promise!Disjoint, Promise!Pages, Pages
  <2>4. QED
    BY <2>1, <2>2, <2>3 DEF Promise!Alloc
<1>24. ZonesOK'
  BY <1>1, <1>12, ZonesNext
<1>25. QED
  BY <1>1, <1>2, <1>10, <1>17, <1>19, <1>20, <1>21, <1>22, <1>23, <1>24 DEF IInv

(* page_unref, up to its call of free_pages, keeps the invariant.          *)
LEMMA PageUnrefIInv ==
  ASSUME IInv, NEW b \in owned, PageUnref(b)
  PROVE  IInv'
<1>1. /\ pending = NULL /\ past # "broken" /\ b.order = 0 /\ owned' = owned \ {b} /\ pending' = b
      /\ lists' = lists /\ map' = map /\ stale' = stale /\ available' = available /\ past' = past
  BY DEF PageUnref
<1>2. /\ DOMAIN lists = Zones /\ DOMAIN map = Zones /\ stale \in Leftovers /\ TypeOK /\ OwnedOK
      /\ ZonesOK /\ ChainsOK /\ CountsOK
  BY DEF IInv
<1>3. b \in Promise!Blocks /\ b # NULL /\ b \in Record /\ b.page \in 0 .. NumPages[b.zone] - 1 /\ b.zone \in Zones
  BY <1>2, BlocksAre DEF OwnedOK
<1>4. InUse' = InUse
  BY <1>1, <1>3 DEF InUse
<1>5. OwnedOK'
  BY <1>1, <1>2 DEF OwnedOK
<1>6. PendingOK'
  <2>1. b.page < NumPages[b.zone]
    BY <1>3, ZoneTypes
  <2>2. QED
    BY <1>1, <1>3, <2>1 DEF PendingOK, Record
<1>7. TypeOK'
  BY <1>1, <1>2 DEF TypeOK
<1>8. ChainsOK' /\ CountsOK'
  BY <1>1, <1>2, <1>4 DEF ChainsOK, CountsOK
<1>9. ZonesOK'
  <2>1. \A z \in Zones : ZoneOK(z, lists'[z], map'[z], InUse')
    BY <1>1, <1>2, <1>4 DEF ZonesOK
  <2>2. QED
    BY <1>1, <2>1, ZonesNext
<1>10. QED
  BY <1>1, <1>2, <1>5, <1>6, <1>7, <1>8, <1>9 DEF IInv

(* free_pages rejects a block only after a merge that went wrong.          *)
LEMMA FreeRejectedIInv ==
  ASSUME IInv, FreeRejected
  PROVE  IInv' /\ past = "broken"
<1>1. /\ pending # NULL /\ pending' = NULL /\ lists' = lists /\ map' = map /\ available' = available
      /\ owned' = owned /\ past' = past /\ stale' = stale
      /\ pending.order > MaxOrder[pending.zone] \/ pending.page % Pow2[pending.order] # 0
  BY DEF FreeRejected
<1>2. past = "broken"
  <2>1. ASSUME past # "broken" PROVE FALSE
    <3>1. pending \in Promise!Blocks
      BY <1>1, <2>1 DEF IInv, PendingOK
    <3>2. /\ pending.order <= MaxOrder[pending.zone] /\ pending.page % Pow2[pending.order] = 0
          /\ pending.order \in 0 .. MaxOrder[pending.zone] /\ pending.zone \in Zones
      BY <3>1, BlocksAre
    <3>3. QED
      BY <1>1, <3>2, ZoneTypes
  <2>2. QED
    BY <2>1
<1>3. OwnedOK' /\ TypeOK' /\ PendingOK' /\ ZonesOK' /\ ChainsOK' /\ CountsOK'
  BY <1>1, <1>2 DEF IInv, OwnedOK, TypeOK, PendingOK, ZonesOK, ChainsOK, CountsOK
<1>4. QED
  BY <1>1, <1>2, <1>3 DEF IInv

(* free_pages stops at a block of MAX_PG_ORDER, with the types kept.       *)
LEMMA FreeFaultsIInv ==
  ASSUME IInv, FreeFaults
  PROVE  IInv'
<1> DEFINE z == pending.zone
           n == Pow2[pending.order]
<1>1. /\ pending # NULL /\ pending' = NULL /\ lists' = lists /\ map' = map /\ owned' = owned
      /\ stale' = stale /\ past' = "broken" /\ available' = [available EXCEPT ![z] = @ + n]
  BY DEF FreeFaults
<1>2. TypeOK /\ PendingOK
  BY DEF IInv
<1>3. available' \in [Zones -> Nat]
  <2>1. available \in [Zones -> Nat]
    BY <1>2 DEF TypeOK
  <2>2. z \in Zones /\ pending.order \in Nat
    BY <1>1, <1>2 DEF PendingOK
  <2>3. n \in Nat
    BY <2>2, Pow2Step
  <2> HIDE DEF z, n
  <2>4. available[z] + n \in Nat
    BY <2>1, <2>2, <2>3
  <2>5. QED
    BY <1>1, <2>1, <2>4, ZenonT(30)
<1>4. OwnedOK' /\ PendingOK' /\ ZonesOK' /\ ChainsOK' /\ CountsOK'
  BY <1>1 DEF IInv, OwnedOK, PendingOK, ZonesOK, ChainsOK, CountsOK
<1>5. TypeOK'
  BY <1>1, <1>2, <1>3 DEF TypeOK
<1>6. QED
  BY <1>1, <1>4, <1>5 DEF IInv

(* free_pages keeps the types, whether it adds, merges or merges wrongly.  *)
LEMMA FreeTyped ==
  ASSUME IInv, FreePages
  PROVE  /\ TypeOK' /\ OwnedOK' /\ DOMAIN lists' = Zones /\ DOMAIN map' = Zones /\ stale' = stale
         /\ pending' # NULL =>
              pending' \in Record /\ pending'.page < NumPages[pending'.zone]
<1> DEFINE z == pending.zone
           p == pending.page
           o == pending.order
           q == p \div Pow2[o + 1]
<1>1. /\ pending # NULL /\ o <= MaxOrder[z] /\ owned' = owned /\ stale' = stale
      /\ available' = [available EXCEPT ![z] = @ + Pow2[o]]
      /\ map' = [map EXCEPT ![z] = Toggle(map[z], p, o)]
      /\ \/ /\ lists' = [lists EXCEPT ![z] = list_add(@, Head(z, o), p)]
            /\ pending' = NULL
            /\ past' = IF past = "allocs" THEN "frees" ELSE past
         \/ /\ lists' = [lists EXCEPT ![z] = DelPage(DelPage(@, z, q), z, q + Pow2[o])]
            /\ pending' = Block(z, q, o + 1)
            /\ past' \in {"broken", "merges"}
  BY DEF FreePages, Block
<1>2. DOMAIN lists = Zones /\ DOMAIN map = Zones /\ TypeOK /\ OwnedOK /\ PendingOK
  BY DEF IInv
<1>3. pending \in Record /\ z \in Zones /\ p \in Nat /\ o \in Nat /\ p < NumPages[z]
  BY <1>1, <1>2 DEF PendingOK, Record
<1> HIDE DEF z, p, o
<1>4. /\ NumPages[z] \in Nat /\ MaxOrder[z] \in Nat /\ p \in 0 .. NumPages[z] - 1 /\ o \in 0 .. MaxOrder[z]
      /\ p \in Nodes(z) /\ Head(z, o) \in Nodes(z)
  <2>1. NumPages[z] \in Nat /\ MaxOrder[z] \in Nat /\ Nodes(z) = 0 .. NumPages[z] + MaxOrder[z]
    BY <1>3, ZoneTypes
  <2>2. p \in 0 .. NumPages[z] - 1 /\ o \in 0 .. MaxOrder[z]
    BY <1>1, <1>3, <2>1
  <2>3. Head(z, o) \in Nodes(z)
    BY <1>3, <2>2, ZoneTypes
  <2>4. p \in Nodes(z)
    BY <2>1, <2>2
  <2>5. QED
    BY <2>1, <2>2, <2>3, <2>4
<1>5. q \in 0 .. p /\ Pow2[o] \in Nat /\ o + 1 \in Nat
  <2>1. Pow2[o + 1] \in Nat /\ Pow2[o + 1] > 0 /\ Pow2[o] \in Nat /\ o + 1 \in Nat
    BY <1>3, Pow2Step
  <2>2. QED
    BY <1>3, <2>1, DivAtMost
<1> HIDE DEF q
<1>6. \A y \in Zones : TypedLists(y, lists[y]) /\ map[y] \subseteq BitRange(y)
  BY <1>2 DEF TypeOK, TypedLists, Nodes, BitRange
<1>7. DOMAIN lists' = Zones /\ \A y \in Zones : TypedLists(y, lists'[y])
  <2>1. CASE lists' = [lists EXCEPT ![z] = list_add(@, Head(z, o), p)]
    <3>1. TypedLists(z, list_add(lists[z], Head(z, o), p))
      BY <1>3, <1>4, <1>6, AddTyped, ZenonT(30)
    <3>2. QED
      BY <1>2, <1>3, <1>6, <2>1, <3>1
  <2>2. CASE lists' = [lists EXCEPT ![z] = DelPage(DelPage(@, z, q), z, q + Pow2[o])]
    <3>1. q \in Nat /\ q + Pow2[o] \in Nat
      BY <1>3, <1>5
    <3>2. TypedLists(z, DelPage(lists[z], z, q))
      BY <1>3, <1>6, <3>1, DelTyped
    <3>3. TypedLists(z, DelPage(DelPage(lists[z], z, q), z, q + Pow2[o]))
      BY <1>3, <3>1, <3>2, DelTyped
    <3>4. QED
      BY <1>2, <1>3, <1>6, <2>2, <3>3
  <2>3. QED
    BY <1>1, <2>1, <2>2
<1>8. DOMAIN map' = Zones /\ \A y \in Zones : map'[y] \subseteq BitRange(y)
  <2>1. Toggle(map[z], p, o) \subseteq BitRange(z)
    BY <1>3, <1>4, <1>6, ToggleTyped
  <2>2. QED
    BY <1>1, <1>2, <1>6, <2>1
<1>9. available' \in [Zones -> Nat]
  <2>1. available \in [Zones -> Nat]
    BY <1>2 DEF TypeOK
  <2>2. available[z] + Pow2[o] \in Nat
    BY <1>3, <1>5, <2>1
  <2>3. QED
    BY <1>1, <2>1, <2>2, ZenonT(30)
<1>10. past' \in {"allocs", "frees", "merges", "broken"}
  BY <1>1, <1>2 DEF TypeOK
<1>11. OwnedOK'
  BY <1>1, <1>2 DEF OwnedOK
<1>12. \A b \in owned' : b.zone \in Zones /\ Pages(b) \subseteq AllPages(b.zone)
  BY <1>1, <1>2 DEF TypeOK
<1>13. TypeOK'
  BY <1>7, <1>8, <1>9, <1>10, <1>12 DEF TypeOK, TypedLists, Nodes, BitRange
<1>14. pending' # NULL => pending' \in Record /\ pending'.page < NumPages[pending'.zone]
  <2>1. Block(z, q, o + 1) \in Record
    BY <1>3, <1>5 DEF Block, Record
  <2>2. q < NumPages[z]
    BY <1>3, <1>4, <1>5
  <2>3. QED
    BY <1>1, <2>1, <2>2, BlockFields
<1>15. QED
  BY <1>1, <1>7, <1>8, <1>11, <1>13, <1>14

(* The block goes on its list.                                             *)
LEMMA FreeAdds ==
  ASSUME IInv, FreePages, past # "broken", pending' = NULL,
         Bit(pending.page, pending.order) \in Toggle(map[pending.zone], pending.page, pending.order),
         lists' = [lists EXCEPT ![pending.zone] = list_add(@, Head(pending.zone, pending.order), pending.page)]
  PROVE  /\ \A z \in Zones : ZoneOK(z, lists'[z], map'[z], InUse')
         /\ past \in {"allocs", "frees"} =>
              \A z \in Zones : available'[z] = Cardinality(AllPages(z) \ UsedOf(z, InUse'))
<1> DEFINE z == pending.zone
           p == pending.page
           o == pending.order
           N == NumPages[z]
           M == MaxOrder[z]
           L == lists[z]
           K == list_add(L, Head(z, o), p)
           bits == Toggle(map[z], p, o)
           O == Returned(z, InUse, p, o)
<1>1. /\ pending # NULL /\ owned' = owned
      /\ available' = [available EXCEPT ![z] = @ + Pow2[o]]
      /\ map' = [map EXCEPT ![z] = bits]
      /\ lists' = [lists EXCEPT ![z] = list_add(@, Head(z, o), p)]
      /\ Bit(p, o) \in bits
  BY DEF FreePages
<1>2. DOMAIN lists = Zones /\ DOMAIN map = Zones /\ TypeOK /\ OwnedOK /\ PendingOK /\ ZonesOK /\ CountsOK
  BY DEF IInv
<1>3. pending \in Promise!Blocks /\ pending \notin owned
  BY <1>1, <1>2 DEF PendingOK
<1>4. /\ z \in Zones /\ pending \in Record /\ o \in 0 .. M /\ p \in 0 .. N - 1 /\ Pow2[o] \in Nat
      /\ N \in Nat /\ M \in Nat /\ pending = Block(z, p, o)
  BY <1>3, BlocksAre, BlockFields, ZoneTypes
<1>5. InUse = owned \cup {pending} /\ InUse' = owned /\ InUse' = InUse \ {pending}
  BY <1>1, <1>3 DEF InUse
<1>6. \A y \in Zones : ZoneOK(y, lists[y], map[y], InUse)
  BY <1>2 DEF ZonesOK
<1> HIDE DEF z, p, o
<1>7. Bit(p, o) \notin map[z]
  BY <1>1 DEF Toggle
<1>8. ZoneOK(z, K, bits, O) /\ \A y \in Zones : y # z => Held(y, O) = Held(y, InUse)
  <2>1. z \in Zones /\ o \in 0 .. MaxOrder[z] /\ p \in 0 .. NumPages[z] - 1
    BY <1>4
  <2>2. ZoneOK(z, L, map[z], InUse) /\ Block(z, p, o) \in InUse
    BY <1>4, <1>5, <1>6
  <2> HIDE DEF L
  <2>3. QED
    BY <1>7, <2>1, <2>2, PutZone
<1>9. InUse' = O
  BY <1>4, <1>5 DEF Returned
<1> HIDE DEF K, bits, O
<1>10. /\ lists'[z] = K /\ map'[z] = bits
       /\ \A y \in Zones : y # z => lists'[y] = lists[y] /\ map'[y] = map[y]
  BY <1>1, <1>2, <1>4 DEF K
<1>11. ZoneOK(z, lists'[z], map'[z], InUse')
  BY <1>8, <1>9, <1>10, ZenonT(30)
<1>12. \A y \in Zones : y # z => ZoneOK(y, lists'[y], map'[y], InUse')
  BY <1>6, <1>8, <1>9, <1>10, ZenonT(30) DEF ZoneOK
<1>13. \A y \in Zones : ZoneOK(y, lists'[y], map'[y], InUse')
  BY <1>11, <1>12
<1>14. ASSUME past \in {"allocs", "frees"}, NEW y \in Zones
       PROVE  available'[y] = Cardinality(AllPages(y) \ UsedOf(y, InUse'))
  <2>1. available \in [Zones -> Nat] /\ available[y] = Cardinality(AllPages(y) \ UsedOf(y, owned \cup {pending}))
    BY <1>2, <1>5, <1>14, ZenonT(30) DEF CountsOK, TypeOK
  <2>2. available'[z] = available[z] + Pow2[o] /\ (y # z => available'[y] = available[y])
    BY <1>1, <1>4, <2>1
  <2>3. CASE y = z
    <3>1. \A c \in owned : c.zone = pending.zone => Pages(c) \cap Pages(pending) = {}
      <4> SUFFICES ASSUME NEW c \in owned, c.zone = pending.zone PROVE Pages(c) \cap Pages(pending) = {}
        OBVIOUS
      <4>1. c \in Promise!Blocks /\ c # pending /\ c \in InUse /\ pending \in InUse
        BY <1>2, <1>3, <1>5 DEF OwnedOK
      <4>2. ZoneOK(z, L, map[z], InUse) /\ pending.zone = z
        BY <1>4, <1>6 DEF z
      <4>3. QED
        BY <1>3, <1>4, <4>1, <4>2, HeldApart
    <3>2. Cardinality(AllPages(z) \ UsedOf(z, owned)) =
            Cardinality(AllPages(z) \ UsedOf(z, owned \cup {pending})) + Pow2[o]
      BY <1>3, <3>1, CountLess, ZenonT(30) DEF z, o
    <3>3. QED
      BY <1>5, <2>1, <2>2, <2>3, <3>2
  <2>4. CASE y # z
    <3>1. UsedOf(y, owned \cup {pending}) = UsedOf(y, owned)
      BY <2>4, UsedAdd, ZenonT(30) DEF z
    <3>2. QED
      BY <1>5, <2>1, <2>2, <2>4, <3>1, ZenonT(30)
  <2>5. QED
    BY <2>3, <2>4
<1>15. QED
  BY <1>13, <1>14

(* What MergeZone needs of the lists and bits, and says of them.           *)
CanMerge(z, p, o) ==
  /\ z \in Zones /\ o \in 0 .. MaxOrder[z] - 1 /\ p \in 0 .. NumPages[z] - 1
  /\ ZoneOK(z, lists[z], map[z], InUse) /\ Block(z, p, o) \in InUse
  /\ p \div Pow2[o + 1] = p - (p % Pow2[o + 1])
  /\ Bit(p, o) \in map[z] /\ Bit(p, o) \notin stale[z]

HasMerged(z, p, o) ==
  /\ p \div Pow2[o + 1] = 0
  /\ ZoneOK(z, PairOff(lists[z], z, o), Toggle(map[z], p, o), Merged(z, InUse, p, o))
  /\ Block(z, 0, o + 1) \in Promise!Blocks /\ Block(z, 0, o + 1) \notin InUse
  /\ \A y \in Zones : y # z => Held(y, Merged(z, InUse, p, o)) = Held(y, InUse)

(* A merge with the pair's first page leaves the zone in order.            *)
LEMMA MergeHere == ASSUME NEW z, NEW p, NEW o, CanMerge(z, p, o) PROVE HasMerged(z, p, o)
<1>1. z \in Zones /\ o \in 0 .. MaxOrder[z] - 1 /\ p \in 0 .. NumPages[z] - 1
  BY DEF CanMerge
<1>2. ZoneOK(z, lists[z], map[z], InUse) /\ Block(z, p, o) \in InUse
  BY DEF CanMerge
<1>3. /\ p \div Pow2[o + 1] = p - (p % Pow2[o + 1])
      /\ Bit(p, o) \in map[z] /\ Bit(p, o) \notin stale[z]
  BY DEF CanMerge
<1>4. /\ p \div Pow2[o + 1] = 0
      /\ ZoneOK(z, PairOff(lists[z], z, o), Toggle(map[z], p, o), Merged(z, InUse, p, o))
      /\ Block(z, 0, o + 1) \in Promise!Blocks /\ Block(z, 0, o + 1) \notin InUse
      /\ \A y \in Zones : y # z => Held(y, Merged(z, InUse, p, o)) = Held(y, InUse)
  BY <1>1, <1>2, <1>3, MergeZone
<1>5. QED
  BY <1>4, ZenonT(30) DEF HasMerged

(* The block merges with its buddy.                                        *)
LEMMA FreeMerges ==
  ASSUME IInv, FreePages, past # "broken",
         Bit(pending.page, pending.order) \notin Toggle(map[pending.zone], pending.page, pending.order),
         pending.order # MaxOrder[pending.zone],
         Bit(pending.page, pending.order) \notin stale[pending.zone],
         pending.page \div Pow2[pending.order + 1] = pending.page - (pending.page % Pow2[pending.order + 1]),
         lists' = [lists EXCEPT ![pending.zone] =
                     DelPage(DelPage(@, pending.zone, pending.page \div Pow2[pending.order + 1]),
                             pending.zone, (pending.page \div Pow2[pending.order + 1]) + Pow2[pending.order])],
         pending' = Block(pending.zone, pending.page \div Pow2[pending.order + 1], pending.order + 1)
  PROVE  /\ \A z \in Zones : ZoneOK(z, lists'[z], map'[z], InUse')
         /\ pending' \in Promise!Blocks /\ pending' \notin owned'
<1> DEFINE z == pending.zone
           p == pending.page
           o == pending.order
           N == NumPages[z]
           M == MaxOrder[z]
           L == lists[z]
           K == PairOff(L, z, o)
           bits == Toggle(map[z], p, o)
           b == Block(z, 0, o + 1)
           O == Merged(z, InUse, p, o)
<1>1. pending # NULL /\ owned' = owned /\ map' = [map EXCEPT ![z] = bits] /\ Bit(p, o) \notin bits
  BY ZenonT(30) DEF FreePages
<1>2. DOMAIN lists = Zones /\ DOMAIN map = Zones /\ OwnedOK /\ PendingOK /\ ZonesOK
  BY DEF IInv
<1>3. pending \in Promise!Blocks /\ pending \notin owned
  BY <1>1, <1>2 DEF PendingOK
<1>4. /\ z \in Zones /\ pending \in Record /\ o \in 0 .. M /\ p \in 0 .. N - 1
      /\ N \in Nat /\ M \in Nat /\ pending = Block(z, p, o) /\ o # M
  BY <1>3, BlocksAre, BlockFields, ZoneTypes
<1>5. p \div Pow2[o + 1] = p - (p % Pow2[o + 1]) /\ Bit(p, o) \notin stale[z]
  OBVIOUS
<1>6. \A y \in Zones : ZoneOK(y, lists[y], map[y], InUse)
  BY <1>2 DEF ZonesOK
<1>7. lists' = [lists EXCEPT ![z] = DelPage(DelPage(@, z, p \div Pow2[o + 1]), z, (p \div Pow2[o + 1]) + Pow2[o])]
  OBVIOUS
<1>8. pending' = Block(z, p \div Pow2[o + 1], o + 1)
  OBVIOUS
<1> HIDE DEF z, p, o
<1>9. o \in 0 .. M - 1 /\ Bit(p, o) \in map[z]
  <2>1. o \in 0 .. M - 1
    BY <1>4
  <2>2. Bit(p, o) \in map[z]
    BY <1>1, ZenonT(30) DEF bits, Toggle
  <2>3. QED
    BY <2>1, <2>2, ZenonT(30)
<1>10. InUse = owned \cup {pending} /\ Block(z, p, o) \in InUse
  BY <1>1, <1>4 DEF InUse
<1>11. /\ p \div Pow2[o + 1] = 0 /\ ZoneOK(z, K, bits, O)
       /\ b \in Promise!Blocks /\ b \notin InUse
       /\ \A y \in Zones : y # z => Held(y, O) = Held(y, InUse)
  <2>1. z \in Zones /\ o \in 0 .. MaxOrder[z] - 1 /\ p \in 0 .. NumPages[z] - 1
    BY <1>4, <1>9, ZenonT(30)
  <2>2. ZoneOK(z, L, map[z], InUse) /\ Block(z, p, o) \in InUse /\ Bit(p, o) \in map[z]
    BY <1>6, <1>9, <1>10, <2>1, ZenonT(30)
  <2>3. CanMerge(z, p, o)
    BY <1>5, <2>1, <2>2, ZenonT(30) DEF CanMerge
  <2> HIDE DEF N, M, L, K, bits, b, O
  <2>4. HasMerged(z, p, o)
    BY <2>3, MergeHere, ZenonT(30)
  <2>5. QED
    BY <2>4, ZenonT(30) DEF HasMerged, K, L, bits, b, O
<1>12. lists' = [lists EXCEPT ![z] = K] /\ pending' = b
  BY <1>7, <1>8, <1>11, ZenonT(30) DEF PairOff
<1>13. InUse' = O
  <2>1. b # NULL
    <3>1. b \in Record
      BY <1>4 DEF Block, Record
    <3>2. QED
      BY <3>1, ZonesAssumption DEF Record
  <2> HIDE DEF b
  <2>2. InUse' = owned \cup {b}
    BY <1>1, <1>12, <2>1 DEF InUse
  <2>3. InUse \ {Block(z, p, o)} = owned
    BY <1>3, <1>4, <1>10
  <2>4. QED
    BY <2>2, <2>3 DEF Merged, b
<1> HIDE DEF K, bits, b, O
<1>14. /\ lists'[z] = K /\ map'[z] = bits
       /\ \A y \in Zones : y # z => lists'[y] = lists[y] /\ map'[y] = map[y]
  BY <1>1, <1>2, <1>4, <1>12, ZenonT(30)
<1>15. ZoneOK(z, lists'[z], map'[z], InUse')
  BY <1>11, <1>13, <1>14, ZenonT(30)
<1>16. \A y \in Zones : y # z => ZoneOK(y, lists'[y], map'[y], InUse')
  BY <1>6, <1>11, <1>13, <1>14, ZenonT(30) DEF ZoneOK
<1>17. QED
  BY <1>1, <1>10, <1>11, <1>12, <1>15, <1>16, ZenonT(30)

(* A call of free_pages keeps the invariant.                               *)
LEMMA FreePagesIInv == IInv /\ FreePages => IInv'
<1> SUFFICES ASSUME IInv, FreePages PROVE IInv'
  OBVIOUS
<1> DEFINE z == pending.zone
           p == pending.page
           o == pending.order
           q == p \div Pow2[o + 1]
           bits == Toggle(map[z], p, o)
           Adds == /\ Bit(p, o) \in bits
                   /\ lists' = [lists EXCEPT ![z] = list_add(@, Head(z, o), p)]
                   /\ pending' = NULL
                   /\ past' = IF past = "allocs" THEN "frees" ELSE past
           Wrong == \/ past = "broken" \/ o = MaxOrder[z] \/ q # p - (p % Pow2[o + 1])
                    \/ Bit(p, o) \in stale[z]
           Merges == /\ Bit(p, o) \notin bits
                     /\ lists' = [lists EXCEPT ![z] = DelPage(DelPage(@, z, q), z, q + Pow2[o])]
                     /\ pending' = Block(z, q, o + 1)
                     /\ past' = IF Wrong THEN "broken" ELSE "merges"
<1>1. Adds \/ Merges
  BY DEF FreePages, Block
<1>2. /\ TypeOK' /\ OwnedOK' /\ DOMAIN lists' = Zones /\ DOMAIN map' = Zones /\ stale' = stale
      /\ pending' # NULL => pending' \in Record /\ pending'.page < NumPages[pending'.zone]
  BY FreeTyped
<1>3. TypeOK /\ stale' \in Leftovers
  BY <1>2 DEF IInv
<1>4. CASE past' = "broken"
  <2>1. PendingOK'
    BY <1>2, <1>4 DEF PendingOK, Record
  <2>2. ZonesOK' /\ ChainsOK' /\ CountsOK'
    BY <1>4 DEF ZonesOK, ChainsOK, CountsOK
  <2>3. QED
    BY <1>2, <1>3, <2>1, <2>2, ZenonT(30) DEF IInv
<1>5. CASE Adds /\ past' # "broken"
  <2>1. past # "broken" /\ past' # "allocs" /\ pending' = NULL
    BY <1>5
  <2>2. past' \in {"allocs", "frees"} => past \in {"allocs", "frees"}
    BY <1>5
  <2>3. /\ \A y \in Zones : ZoneOK(y, lists'[y], map'[y], InUse')
        /\ past \in {"allocs", "frees"} =>
             \A y \in Zones : available'[y] = Cardinality(AllPages(y) \ UsedOf(y, InUse'))
    BY <1>5, <2>1, FreeAdds
  <2>4. PendingOK' /\ ChainsOK'
    BY <2>1 DEF PendingOK, ChainsOK
  <2>5. ZonesOK'
    BY <1>2, <2>3, ZonesNext
  <2>6. CountsOK'
    BY <2>2, <2>3, ZenonT(30) DEF CountsOK, AllPages, UsedOf, Pages
  <2>7. QED
    BY <1>2, <1>3, <2>4, <2>5, <2>6, ZenonT(30) DEF IInv
<1>6. CASE Merges /\ past' # "broken"
  <2>1. /\ past # "broken" /\ o # MaxOrder[z] /\ q = p - (p % Pow2[o + 1])
        /\ Bit(p, o) \notin stale[z] /\ past' = "merges"
    BY <1>6
  <2>2. /\ \A y \in Zones : ZoneOK(y, lists'[y], map'[y], InUse')
        /\ pending' \in Promise!Blocks /\ pending' \notin owned'
    BY <1>6, <2>1, FreeMerges, ZenonT(30)
  <2>3. ZonesOK'
    BY <1>2, <2>2, ZonesNext
  <2>4. ChainsOK' /\ CountsOK'
    BY <2>1 DEF ChainsOK, CountsOK
  <2>5. PendingOK'
    BY <1>2, <2>1, <2>2 DEF PendingOK, Record
  <2>6. QED
    BY <1>2, <1>3, <2>3, <2>4, <2>5, ZenonT(30) DEF IInv
<1>7. QED
  BY <1>1, <1>4, <1>5, <1>6, ZenonT(30)

(* Every step keeps the invariant.                                         *)
LEMMA NextIInv == IInv /\ [Next]_vars => IInv'
<1> SUFFICES ASSUME IInv, [Next]_vars PROVE IInv'
  OBVIOUS
<1>1. CASE UNCHANGED vars
  <2>1. /\ lists' = lists /\ map' = map /\ available' = available /\ pending' = pending
        /\ owned' = owned /\ past' = past /\ stale' = stale
    BY <1>1 DEF vars
  <2>2. TypeOK' /\ OwnedOK' /\ PendingOK' /\ DOMAIN lists' = Zones /\ DOMAIN map' = Zones
    BY <2>1 DEF IInv, TypeOK, OwnedOK, PendingOK
  <2>3. InUse' = InUse
    BY <2>1 DEF InUse
  <2>4. ZonesOK'
    <3>1. CASE past = "broken"
      BY <2>1, <3>1 DEF ZonesOK
    <3>2. CASE past # "broken"
      <4>1. \A z \in Zones : ZoneOK(z, lists'[z], map'[z], InUse')
        BY <2>1, <2>3, <3>2 DEF IInv, ZonesOK
      <4>2. QED
        BY <2>1, <4>1, ZonesNext
    <3>3. QED
      BY <3>1, <3>2
  <2>5. ChainsOK' /\ CountsOK'
    BY <2>1, <2>3 DEF IInv, ChainsOK, CountsOK
  <2>6. QED
    BY <2>1, <2>2, <2>4, <2>5 DEF IInv
<1>2. ASSUME NEW z \in Zones, NEW order \in Orders, AllocPages(z, order) PROVE IInv'
  BY <1>2, AllocPagesIInv
<1>3. ASSUME NEW b \in owned, PageUnref(b) PROVE IInv'
  BY <1>3, PageUnrefIInv
<1>4. CASE FreeRejected
  BY <1>4, FreeRejectedIInv
<1>5. CASE FreeFaults
  BY <1>5, FreeFaultsIInv
<1>6. CASE FreePages
  BY <1>6, FreePagesIInv
<1>7. QED
  BY <1>1, <1>2, <1>3, <1>4, <1>5, <1>6 DEF Next

(* The lists, the bits, the counts and the owned blocks agree in every     *)
(* reachable state, for any zones and any content of the bitmaps at boot:  *)
(* until a merge of free_pages goes wrong, the free blocks and those in    *)
(* use tile each zone, and each bit below max_order has changed since boot *)
(* exactly when one of its two buddies is a free block and one is not.     *)
THEOREM PageAllocInvariant == Spec => []IInv
<1>1. Init => IInv
  BY InitIInv
<1>2. IInv /\ [Next]_vars => IInv'
  BY NextIInv
<1>3. QED
  BY <1>1, <1>2, PTL DEF Spec

(* Type correctness of the allocator's state, for any zones.               *)
THEOREM PageAllocTypeOK == Spec => []TypeOK
<1>1. IInv => TypeOK
  BY DEF IInv
<1>2. QED
  BY <1>1, PageAllocInvariant, PTL

(* For any zones and any content of the bitmaps at boot, alloc_pages hands *)
(* out aligned blocks of 2^order unowned pages and page_unref takes back   *)
(* one of them: splits, merges and what falls off a list never show in     *)
(* what the callers have, up to the first merge that goes wrong, which is  *)
(* the last call the model accepts.                                        *)
THEOREM PageAllocRefines == Spec => ImplementsPromise
<1>1. Init => Promise!Init
  BY DEF Init, Promise!Init
<1>2. IInv /\ [Next]_vars => [Promise!Alloc \/ Promise!Free]_owned
  <2> SUFFICES ASSUME IInv, [Next]_vars PROVE [Promise!Alloc \/ Promise!Free]_owned
    OBVIOUS
  <2>1. CASE UNCHANGED vars
    BY <2>1 DEF vars
  <2>2. ASSUME NEW z \in Zones, NEW order \in Orders, AllocPages(z, order) PROVE Promise!Alloc
    BY <2>2, AllocPagesIInv
  <2>3. ASSUME NEW b \in owned, PageUnref(b) PROVE Promise!Free
    BY <2>3 DEF PageUnref, Promise!Free
  <2>4. CASE FreeRejected
    BY <2>4 DEF FreeRejected
  <2>5. CASE FreeFaults
    BY <2>5 DEF FreeFaults
  <2>6. CASE FreePages
    BY <2>6 DEF FreePages
  <2>7. QED
    BY <2>1, <2>2, <2>3, <2>4, <2>5, <2>6 DEF Next
<1>3. QED
  BY <1>1, <1>2, PageAllocInvariant, PTL DEF Spec, ImplementsPromise, Promise!Spec

(* Until blocks merge, available_pages is the number of pages nobody has,  *)
(* for any zones: what alloc_pages compares with 2^order is exact.         *)
THEOREM PageAllocCounts == Spec => []AvailableExact
<1>1. IInv => AvailableExact
  <2> SUFFICES ASSUME IInv, past \in {"allocs", "frees"}, pending = NULL, NEW z \in Zones
               PROVE  available[z] = Cardinality(AllPages(z) \ OwnedPages)
    BY DEF AvailableExact
  <2>1. InUse = owned
    BY DEF InUse
  <2>2. available[z] = Cardinality(AllPages(z) \ UsedOf(z, owned))
    BY <2>1 DEF IInv, CountsOK
  <2>3. ASSUME NEW x \in AllPages(z) PROVE x \in OwnedPages <=> x \in UsedOf(z, owned)
    <3>1. ASSUME NEW b \in owned, x \in Pages(b) PROVE b.zone = z
      BY <3>1 DEF AllPages, Pages
    <3>2. x \in OwnedPages <=> \E b \in owned : x \in Pages(b)
      BY DEF OwnedPages
    <3>3. x \in UsedOf(z, owned) <=> \E b \in owned : b.zone = z /\ x \in Pages(b)
      BY DEF UsedOf
    <3>4. QED
      BY <3>1, <3>2, <3>3
  <2>4. AllPages(z) \ OwnedPages = AllPages(z) \ UsedOf(z, owned)
    BY <2>3
  <2>5. QED
    BY <2>2, <2>4
<1>2. QED
  BY <1>1, PageAllocInvariant, PTL

(* A block of zone z that is in use or free.                               *)
Tile(z, b) ==
  /\ b \in Record /\ b.zone = z /\ b.order \in 0 .. MaxOrder[z]
  /\ b.page \in Both(MaxOrder[z], Free(z, lists[z]), Held(z, InUse))[b.order]

(* Two tiles, of one zone or of two, have no page in common.               *)
LEMMA TilesApart ==
  ASSUME IInv, past # "broken", NEW y \in Zones, NEW z \in Zones, NEW a, NEW b,
         Tile(y, a), Tile(z, b), a # b
  PROVE  Pages(a) \cap Pages(b) = {}
<1> DEFINE M == MaxOrder[z]
           B == Both(M, Free(z, lists[z]), Held(z, InUse))
<1>1. a \in Record /\ b \in Record
  BY DEF Tile
<1>2. CASE y # z
  BY <1>1, <1>2, PagesApart DEF Tile
<1>3. CASE y = z
  <2>1. ZoneOK(z, lists[z], map[z], InUse)
    BY DEF IInv, ZonesOK
  <2>2. Tiled(NumPages[z], M, B)
    BY <2>1 DEF ZoneOK, Buddies, Both
  <2>3. /\ a.order \in 0 .. M /\ b.order \in 0 .. M /\ a.page \in B[a.order] /\ b.page \in B[b.order]
        /\ a.zone = b.zone
    BY <1>3 DEF Tile
  <2> HIDE DEF B
  <2>4. ~(a.page = b.page /\ a.order = b.order)
    BY <1>1, <2>3, BlockFields
  <2>5. a.page + Pow2[a.order] <= b.page \/ b.page + Pow2[b.order] <= a.page
    BY <2>2, <2>3, <2>4 DEF Tiled
  <2>6. QED
    BY <1>1, <2>5, PagesApart
<1>4. QED
  BY <1>2, <1>3

(* Blocks in use are tiles ...                                             *)
LEMMA UsedTile ==
  ASSUME IInv, past # "broken", NEW b \in InUse
  PROVE  b.zone \in Zones /\ Tile(b.zone, b)
<1>1. OwnedOK /\ PendingOK
  BY DEF IInv
<1>2. b \in Promise!Blocks
  <2>1. CASE b \in owned
    BY <1>1, <2>1 DEF OwnedOK
  <2>2. CASE b \notin owned
    <3>1. pending # NULL /\ b = pending
      BY <2>2 DEF InUse
    <3>2. QED
      BY <1>1, <3>1 DEF PendingOK
  <2>3. QED
    BY <2>1, <2>2
<1>3. /\ b \in Record /\ b.zone \in Zones /\ b.order \in 0 .. MaxOrder[b.zone]
      /\ b.page \in 0 .. NumPages[b.zone] - 1
  BY <1>2, BlocksAre
<1>4. b.page \in Held(b.zone, InUse)[b.order]
  BY <1>3, BlockFields, HeldIs
<1>5. QED
  BY <1>3, <1>4 DEF Tile, Both

(* ... and so are those a walk along a free list visits.                   *)
LEMMA ListedTile ==
  ASSUME IInv, past # "broken", NEW z \in Zones, NEW b \in Listed(z)
  PROVE  Tile(z, b)
<1> DEFINE max == Head(z, MaxOrder[z]) + 1
<1>1. PICK o \in 0 .. MaxOrder[z] : \E p \in Entries(lists[z], Head(z, o), max) : b = Block(z, p, o)
  BY DEF Listed, Block
<1>2. PICK p \in Entries(lists[z], Head(z, o), max) : b = Block(z, p, o)
  BY <1>1
<1>3. max \in Nat /\ MaxOrder[z] \in Nat
  <2>1. NumPages[z] \in Nat /\ MaxOrder[z] \in Nat
    BY ZoneTypes
  <2>2. QED
    BY <2>1 DEF Head
<1>4. ListsOK(z, lists[z])
  BY DEF IInv, ZonesOK, ZoneOK
<1> HIDE DEF max
<1>5. p \in FreeAt(z, lists[z], o)
  BY <1>2, <1>3, <1>4, ListedFree
<1>6. p \in 0 .. NumPages[z] - 1 /\ p \in Free(z, lists[z])[o]
  BY <1>5 DEF FreeAt, Free
<1>7. b \in Record /\ b.zone = z /\ b.page = p /\ b.order = o
  BY <1>2, <1>3, <1>6 DEF Block, Record
<1>8. QED
  BY <1>6, <1>7 DEF Tile, Both

(* For any zones and any content of the bitmaps at boot, no page is in two *)
(* of the blocks that callers have, that the free lists hold and that      *)
(* free_pages has in hand, until a merge goes wrong: alloc_pages hands out *)
(* no page twice.                                                          *)
THEOREM PageAllocNoOverlap == Spec => []NoOverlap
<1>1. IInv => NoOverlap
  <2> DEFINE blocks == owned \cup (UNION {Listed(z) : z \in Zones}) \cup (IF pending = NULL THEN {} ELSE {pending})
  <2> SUFFICES ASSUME IInv, past # "broken", NEW a \in blocks, NEW b \in blocks, a # b
               PROVE  Pages(a) \cap Pages(b) = {}
    BY DEF NoOverlap
  <2>1. ASSUME NEW c \in blocks PROVE \E z \in Zones : Tile(z, c)
    <3>1. CASE c \in InUse
      BY <3>1, UsedTile
    <3>2. CASE c \notin InUse
      <4>1. PICK z \in Zones : c \in Listed(z)
        <5> DEFINE D == UNION {Listed(z) : z \in Zones}
                   P == IF pending = NULL THEN {} ELSE {pending}
        <5>1. c \in D
          <6>1. c \in owned \cup D \cup P
            OBVIOUS
          <6>2. InUse = owned \cup P
            BY DEF InUse
          <6> HIDE DEF D, P
          <6>3. QED
            BY <3>2, <6>1, <6>2
        <5>2. QED
          BY <5>1
      <4>2. QED
        BY <4>1, ListedTile
    <3>3. QED
      BY <3>1, <3>2
  <2>2. PICK y \in Zones : Tile(y, a)
    BY <2>1
  <2>3. PICK z \in Zones : Tile(z, b)
    BY <2>1
  <2>4. QED
    BY <2>2, <2>3, TilesApart
<1>2. QED
  BY <1>1, PageAllocInvariant, PTL

(* For any zones, until a page is freed every page is in a block someone   *)
(* has or on a free list: splitting blocks loses none.                     *)
THEOREM PageAllocNothingLost == Spec => []NothingLost
<1>1. IInv => NothingLost
  <2> SUFFICES ASSUME IInv, past = "allocs", pending = NULL, NEW z \in Zones, NEW x \in AllPages(z)
               PROVE  x \in OwnedPages \cup UNION {Pages(b) : b \in Listed(z)}
    BY DEF NothingLost
  <2> DEFINE N == NumPages[z]
             M == MaxOrder[z]
             F == Free(z, lists[z])
             U == Held(z, owned)
             B == [o \in 0 .. M |-> F[o] \cup U[o]]
  <2>1. ZoneOK(z, lists[z], map[z], owned) /\ Chain(z, lists[z])
    <3>1. InUse = owned
      BY DEF InUse
    <3>2. QED
      BY <3>1 DEF IInv, ZonesOK, ChainsOK
  <2>2. Tiled(N, M, B)
    BY <2>1, ZenonT(30) DEF ZoneOK, Buddies
  <2>3. PICK i \in 0 .. N - 1 : x = <<z, i>>
    BY DEF AllPages
  <2> HIDE DEF B
  <2>4. PICK o \in 0 .. M : \E p \in B[o] : p <= i /\ i < p + Pow2[o]
    BY <2>2 DEF Tiled
  <2>5. PICK p \in B[o] : p <= i /\ i < p + Pow2[o]
    BY <2>4
  <2>6. p \in 0 .. N - 1 /\ N \in Nat /\ M \in Nat /\ Pow2[o] \in Nat
    <3>1. p \in 0 .. N - 1
      BY <2>2, <2>5 DEF Tiled, Blocks
    <3>2. N \in Nat /\ M \in Nat
      BY ZoneTypes
    <3>3. QED
      BY <3>1, <3>2, Pow2Step
  <2>7. x \in Pages(Block(z, p, o))
    <3>1. i \in p .. p + Pow2[o] - 1
      BY <2>3, <2>5, <2>6
    <3>2. QED
      BY <2>3, <3>1, BlockFields DEF Pages
  <2>8. CASE p \in U[o]
    <3>1. Block(z, p, o) \in owned
      BY <2>6, <2>8, HeldIs
    <3>2. QED
      BY <2>7, <3>1 DEF OwnedPages
  <2>9. CASE p \in F[o]
    <3>1. p \in FreeAt(z, lists[z], o)
      BY <2>9 DEF Free
    <3>2. p \in Entries(lists[z], Head(z, o), Head(z, MaxOrder[z]) + 1)
      BY <2>1, <3>1, ChainListed
    <3>3. Block(z, p, o) \in Listed(z)
      BY <3>2 DEF Listed, Block
    <3>4. QED
      BY <2>7, <3>3
  <2>10. QED
    BY <2>5, <2>8, <2>9 DEF B
<1>2. QED
  BY <1>1, PageAllocInvariant, PTL

(* For any zones and any content of the bitmaps at boot, the bit of a pair *)
(* of buddies in which no smaller pair's bit was 1 at boot has changed     *)
(* since then exactly when one of the two is wholly free and the other is  *)
(* not, until a merge goes wrong: what free_pages tests is right where the *)
(* bit was 0, and wrong where it was 1, whatever the order of splits,      *)
(* frees and merges.                                                       *)
THEOREM PageAllocBits == Spec => []BitsExact
<1>1. IInv => BitsExact
  <2> DEFINE Clear(z, p, o) == Pages(Block(z, p, o)) \cap OwnedPages = {}
  <2> SUFFICES ASSUME IInv, past # "broken", pending = NULL, NEW z \in Zones, NEW o \in 0 .. MaxOrder[z] - 1,
                      NEW i \in 0 .. (NumPages[z] \div Pow2[o + 1]) - 1, CleanInside(stale[z], o, i)
               PROVE  (<<o, i>> \in map[z]) # (<<o, i>> \in stale[z])
                        <=> Clear(z, i * Pow2[o + 1], o) # Clear(z, i * Pow2[o + 1] + Pow2[o], o)
    BY ZenonT(30) DEF BitsExact, Block
  <2> DEFINE N == NumPages[z]
             M == MaxOrder[z]
             U == Held(z, owned)
             bits == Flips(map[z], stale[z])
             d == Pow2[o + 1]
             left == i * Pow2[o + 1]
             right == i * Pow2[o + 1] + Pow2[o]
  <2>1. N \in Nat /\ M \in Nat /\ o \in 0 .. M /\ d \in Nat /\ d > 0 /\ Pow2[o] \in Nat
    <3>1. N \in Nat /\ M \in Nat /\ o \in Nat /\ o + 1 \in Nat
      BY ZoneTypes
    <3>2. QED
      BY <3>1, Pow2Step
  <2>2. /\ OwnedOK /\ Buddies(N, M, Free(z, lists[z]), U, bits, stale[z])
        /\ stale[z] \in SUBSET (Nat \X Nat)
    <3>1. InUse = owned
      BY DEF InUse
    <3>2. OwnedOK /\ Buddies(N, M, Free(z, lists[z]), U, bits, stale[z])
      BY <3>1 DEF IInv, ZonesOK, ZoneOK
    <3>3. stale[z] \subseteq BitRange(z)
      BY ZonesAssumption DEF IInv
    <3>4. BitRange(z) \subseteq Nat \X Nat
      BY <2>1 DEF BitRange
    <3>5. QED
      BY <3>2, <3>3, <3>4
  <2>3. i \in Nat /\ left \in Nat /\ left + d <= N
    BY <2>1, PairFits, ZenonT(30)
  <2>4. ASSUME NEW p \in Nat PROVE Clear(z, p, o) <=> Unused(M, U, p, o)
    <3>1. owned \subseteq Promise!Blocks /\ U \in Blocks(N, M)
      BY <2>2 DEF OwnedOK, Buddies
    <3>2. (\A b \in owned : Pages(Block(z, p, o)) \cap Pages(b) = {}) <=> Unused(M, U, p, o)
      BY <2>1, <3>1, ClearUnused
    <3>3. Clear(z, p, o) <=> \A b \in owned : Pages(Block(z, p, o)) \cap Pages(b) = {}
      BY DEF OwnedPages
    <3>4. QED
      BY <3>2, <3>3
  <2>5. <<o, i>> \in bits <=> (Unused(M, U, left, o) # Unused(M, U, right, o))
    <3>1. Buddies(N, M, Free(z, lists[z]), U, bits, stale[z]) /\ stale[z] \in SUBSET (Nat \X Nat)
      BY <2>2
    <3>2. N \in Nat /\ M \in Nat /\ i \in Nat /\ left + d <= N
      BY <2>1, <2>3
    <3> HIDE DEF bits
    <3>3. QED
      BY <3>1, <3>2, BitsRight
  <2>6. right \in Nat
    BY <2>1, <2>3
  <2> HIDE DEF left, right, Clear
  <2>7. (Clear(z, left, o) <=> Unused(M, U, left, o)) /\ (Clear(z, right, o) <=> Unused(M, U, right, o))
    BY <2>3, <2>4, <2>6
  <2>8. /\ Unused(M, U, left, o) \in BOOLEAN /\ Unused(M, U, right, o) \in BOOLEAN
        /\ Clear(z, left, o) \in BOOLEAN /\ Clear(z, right, o) \in BOOLEAN
    BY DEF Unused, Clear
  <2>9. <<o, i>> \in bits <=> (Clear(z, left, o) # Clear(z, right, o))
    BY <2>5, <2>7, <2>8
  <2>10. <<o, i>> \in bits <=> (<<o, i>> \in map[z]) # (<<o, i>> \in stale[z])
    BY DEF Flips
  <2>11. QED
    BY <2>9, <2>10 DEF left, right
<1>2. QED
  BY <1>1, PageAllocInvariant, PTL
=============================================================================
