-------------------------------- MODULE Buddy --------------------------------
(***************************************************************************)
(* The physical page allocator: the buddy system of kernel/mm/buddy.c and  *)
(* the page bitmap kernel/mm/memory.c keeps above it, from the moment      *)
(* buddy_init starts to release the free ranges the bitmap records.        *)
(*                                                                         *)
(* No lock protects this code and no interrupt handler calls it; it runs   *)
(* on one CPU at a time, so an operation is one step, except that the loop *)
(* of buddy_page_free takes one step per block it releases (`todo' holds   *)
(* the range still to release, and nothing else runs meanwhile).           *)
(***************************************************************************)
EXTENDS Integers, FiniteSets, SequencesExt

CONSTANTS
  NrPages,        \* pfn_max: the page frames below the memory limit
  MaxOrder,       \* MAX_ORDER: the free lists are those of orders 0..MaxOrder-1
  AllocSizes,     \* the sizes, in pages, callers allocate
  Frees,          \* how callers release: never, in reverse order, in any order
  PagesZeroed,    \* is the page array zero when buddy_init runs?  Nothing in
                  \* the kernel clears it (mm_phy_page_alloc, not zalloc)
  LastPageAvail   \* does the bitmap record the last page of memory as free?

ASSUME NrPagesAssumption == NrPages \in Nat /\ NrPages > 1
ASSUME MaxOrderAssumption == MaxOrder \in Nat \ {0}
ASSUME AllocSizesAssumption == AllocSizes \subseteq 1..NrPages
ASSUME FreesAssumption == Frees \in {"none", "lifo", "any"}
ASSUME FlagsAssumption == PagesZeroed \in BOOLEAN /\ LastPageAvail \in BOOLEAN

VARIABLES
  used,           \* the pages whose bit in mem_map is MEM_PAGE_USED
  flag,           \* page -> PAGE_FLAG_BUDDY
  order,          \* page -> order
  free,           \* order -> free_area[order].free_pages, first page first
  count,          \* order -> free_area[order].count; below zero where the
                  \* unsigned field has wrapped
  nr_free_pages,  \* the zone's counter
  r,              \* the cursor of buddy_init's scan; NrPages when it is over
  todo,           \* what buddy_page_free has still to release
  held,           \* the callers' allocations, oldest first
  ret,            \* what the last mm_phy_page_alloc returned, as a frame number
  reserved        \* the pages USED at boot (it never changes)

vars == <<used, flag, order, free, count, nr_free_pages, r, todo, held, ret,
          reserved>>

-----------------------------------------------------------------------------
(* Page frames, blocks and their buddies.                                  *)

NOTFOUND == -1                        \* PFN_NOTFOUND
TopOrder == MaxOrder - 1
Orders   == 0..TopOrder
Pfns     == 0..NrPages-1

\* 1 << k: the pages of a block of order k.
Size[k \in 0..MaxOrder] == IF k = 0 THEN 1 ELSE 2 * Size[k - 1]

\* The frames whose page structure the code may touch.  A buddy may lie beyond
\* the zone's last page, and the frames below 0 are touched when a failed
\* bitmap_find is used as a frame number.
Slots == -Size[MaxOrder]..((NrPages - 1) \div Size[TopOrder] + 1) * Size[TopOrder] - 1

Block(p, k) == p..p + Size[k] - 1

\* The head of the block of order k that p lies in (buddy_pfn & pfn).
HeadOf(p, k) == p - (p % Size[k])

\* __find_buddy_pfn: pfn ^ (1 << order).
BuddyOf(p, k) == IF (p \div Size[k]) % 2 = 0 THEN p + Size[k] ELSE p - Size[k]

\* Slip: the order is not compared.
IsBuddyAnyOrder(p, k) == flag[p]
\* page_is_buddy
IsBuddy(p, k) == flag[p] /\ order[p] = k

\* The loop of buddy_page_alloc tests sz & (1 == 0), which is 0: it never runs.
OrderOf(nr) == 0

\* The greatest block buddy_page_free can cut off the front of a range.
LargestOrder(range) ==
  Max({k \in Orders : range.pfn % Size[k] = 0 /\ range.nr >= Size[k]})

-----------------------------------------------------------------------------
(* __buddy_page_free: merge upwards while the buddy is a buddy.            *)

\* The order at which merging stops.  Merging clears no flag, so whether it goes
\* on at order j can be read off the state before the first merge.
MergedOrder(p, k) ==
  Min({j \in k..TopOrder : \/ j = TopOrder
                           \/ ~IsBuddy(BuddyOf(HeadOf(p, j), j), j)})

\* The buddies merged on the way from order k to order top, by order.
MergedBuddies(p, k, top) == [j \in k..top-1 |-> BuddyOf(HeadOf(p, j), j)]

\* Slip: del_page_from_free_list without its list_remove.
KeepMerged(p, k, top) ==
  [j \in Orders |-> IF j = top THEN Append(free[j], HeadOf(p, top)) ELSE free[j]]
\* The free lists after the block of order k at p is released.
ListsAfterFree(p, k, top) ==
  [j \in Orders |->
     IF j \in k..top-1 THEN RemoveFirst(free[j], MergedBuddies(p, k, top)[j])
     ELSE IF j = top THEN Append(free[j], HeadOf(p, top))
     ELSE free[j]]

\* One turn of the loop of buddy_page_free.  del_page_from_free_list clears every
\* flag but PAGE_FLAG_BUDDY, so a page that leaves a list still looks like a buddy.
FreeBlock ==
  /\ todo.nr > 0
  /\ LET p   == todo.pfn
         k   == LargestOrder(todo)
         top == MergedOrder(p, k)
     IN /\ free'  = ListsAfterFree(p, k, top)
        /\ count' = [j \in Orders |-> IF j \in k..top-1 THEN count[j] - 1
                                      ELSE IF j = top THEN count[j] + 1
                                      ELSE count[j]]
        /\ flag'  = [flag EXCEPT ![HeadOf(p, top)] = TRUE]
        /\ order' = [order EXCEPT ![HeadOf(p, top)] = top]
        /\ todo'  = [pfn |-> p + Size[k], nr |-> todo.nr - Size[k]]
  /\ UNCHANGED <<used, nr_free_pages, r, held, ret, reserved>>

\* buddy_page_free up to its loop.
StartFree(pfn, nr) ==
  /\ nr_free_pages' = nr_free_pages + nr
  /\ todo' = [pfn |-> pfn, nr |-> nr]

-----------------------------------------------------------------------------
(* buddy_init: release every range of free pages the bitmap records.       *)

\* bitmap_find over the rest of the map, for a free and for a used page.
FindAvail(from) == LET found == {p \in Pfns : p >= from /\ p \notin used}
                   IN IF found = {} THEN NOTFOUND ELSE Min(found)
\* Slips: the second bitmap_find looks for a free page as well, and it starts at
\* the first bit of the byte.
FindUsedFree(from) == FindAvail(from)
FindUsedByte(from) == LET found == {p \in Pfns : p >= from - (from % 8) /\ p \in used}
                      IN IF found = {} THEN NOTFOUND ELSE Min(found)
FindUsed(from)  == LET found == {p \in Pfns : p >= from /\ p \in used}
                   IN IF from = NOTFOUND \/ found = {} THEN NOTFOUND ELSE Min(found)

BootRange ==
  /\ todo.nr = 0 /\ r < NrPages
  /\ LET first == FindAvail(r)
         next  == FindUsed(first)
         end   == IF next = NOTFOUND THEN NrPages ELSE next
     IN /\ StartFree(first, end - first)
        /\ r' = end
  /\ UNCHANGED <<used, flag, order, free, count, held, ret, reserved>>

Booted == r = NrPages
Ready  == Booted /\ todo.nr = 0

-----------------------------------------------------------------------------
(* mm_phy_page_alloc and mm_phy_page_free.                                 *)

\* Slip: the search ends one order early.
SearchBelowTop(nr) == {k \in OrderOf(nr)..TopOrder - 1 : count[k] # 0}
\* The orders buddy_page_alloc finds a block at.
Candidates(nr) == {k \in OrderOf(nr)..TopOrder : count[k] # 0}

\* expand_buddy: the upper halves that go back to the lists, by order.
UpperHalves(page, k, nr) == [j \in OrderOf(nr)..k-1 |-> page + Size[j]]

\* The page of the first block is taken, the block split down to OrderOf(nr).
\* (A list that is empty while its count is not gives a NULL page, which is not
\* followed any further.)
AllocPages(nr) ==
  /\ Ready /\ Candidates(nr) # {}
  /\ LET k    == Min(Candidates(nr))
         page == Head(free[k])
         back == UpperHalves(page, k, nr)
     IN /\ free[k] # <<>>
        /\ free'  = [j \in Orders |-> IF j = k THEN Tail(free[j])
                                      ELSE IF j \in DOMAIN back THEN Append(free[j], back[j])
                                      ELSE free[j]]
        /\ count' = [j \in Orders |-> IF j = k THEN count[j] - 1
                                      ELSE IF j \in DOMAIN back THEN count[j] + 1
                                      ELSE count[j]]
        /\ flag'  = [p \in Slots |-> flag[p] \/ p \in Range(back)]
        /\ order' = [p \in Slots |-> IF p \in Range(back)
                                     THEN CHOOSE j \in DOMAIN back : back[j] = p
                                     ELSE order[p]]
        /\ used'  = used \cup ((page..page + nr - 1) \cap Pfns)
        /\ held'  = Append(held, [pfn |-> page, nr |-> nr])
        /\ ret'   = page
  /\ nr_free_pages' = nr_free_pages - nr
  /\ UNCHANGED <<r, todo, reserved>>

\* PFN_NOTFOUND: the error is logged, and setting the bits from there on sets none.
AllocFails(nr) ==
  /\ Ready /\ Candidates(nr) = {}
  /\ ret' = NOTFOUND
  /\ UNCHANGED <<used, flag, order, free, count, nr_free_pages, r, todo, held, reserved>>

\* Which allocations a caller may release now.
Releasable == CASE Frees = "none" -> {}
                [] Frees = "lifo" -> {i \in DOMAIN held : i = Len(held)}
                [] Frees = "any"  -> DOMAIN held

FreePages(i) ==
  /\ Ready
  /\ LET b == held[i]
     IN /\ used' = used \ (b.pfn..b.pfn + b.nr - 1)
        /\ StartFree(b.pfn, b.nr)
  /\ held' = RemoveAt(held, i)
  /\ UNCHANGED <<flag, order, free, count, r, ret, reserved>>

-----------------------------------------------------------------------------

\* What an uninitialised page structure may hold.
AnyFlag  == IF PagesZeroed THEN {FALSE} ELSE BOOLEAN
AnyOrder == IF PagesZeroed THEN {0} ELSE Orders

\* What mem_map_init leaves AVAIL is any set of pages above the kernel's own.
Init ==
  /\ reserved \in {U \in SUBSET Pfns : /\ 0 \in U /\ U # Pfns
                                       /\ NrPages - 1 \in U <=> ~LastPageAvail}
  /\ used = reserved
  /\ flag \in [Slots -> AnyFlag]
  /\ order \in [Slots -> AnyOrder]
  /\ free = [k \in Orders |-> <<>>]
  /\ count = [k \in Orders |-> 0]
  /\ nr_free_pages = 0
  /\ r = 0
  /\ todo = [pfn |-> 0, nr |-> 0]
  /\ held = <<>>
  /\ ret = NOTFOUND

Next == \/ BootRange
        \/ FreeBlock
        \/ \E nr \in AllocSizes : AllocPages(nr) \/ AllocFails(nr)
        \/ \E i \in Releasable : FreePages(i)

\* Boot and buddy_page_free are loops of one CPU that nothing blocks.
Spec == Init /\ [][Next]_vars /\ WF_vars(BootRange) /\ WF_vars(FreeBlock)

-----------------------------------------------------------------------------
(* Properties.                                                             *)

FreeHeads  == {h \in Slots \X Orders : h[1] \in Range(free[h[2]])}
PagesOf(heads) == UNION {Block(h[1], h[2]) : h \in heads}
HeldPages  == UNION {Block(b.pfn, 0) \cup (b.pfn..b.pfn + b.nr - 1) : b \in Range(held)}
TodoPages  == todo.pfn..todo.pfn + todo.nr - 1

\* Every variable has its type, also while a range is being released.
TypeOK ==
  /\ used \subseteq Pfns /\ reserved \subseteq Pfns
  /\ flag \in [Slots -> BOOLEAN]
  /\ order \in [Slots -> Orders]
  /\ free \in [Orders -> Seq(Slots)]
  /\ count \in [Orders -> Int]
  /\ nr_free_pages \in Int
  /\ r \in 0..NrPages
  /\ todo \in [pfn : Int, nr : Nat]
  /\ held \in Seq([pfn : Slots, nr : AllocSizes])
  /\ ret \in Pfns \cup {NOTFOUND}

\* The counter of a free list is the length of the list, and every block on it
\* is aligned, lies in the zone, and its first page says it is a free block of
\* that order: what list_front's caller and page_is_buddy (buddy.c) rely on.
ListsExact ==
  \A k \in Orders :
    /\ count[k] = Len(free[k])
    /\ \A p \in Range(free[k]) :
         /\ HeadOf(p, k) = p /\ Block(p, k) \subseteq Pfns
         /\ IsBuddy(p, k)

\* No page is in two free blocks, no list holds a block twice, and no free page
\* is held by a caller or was never memory to begin with: __buddy_page_free
\* merged nothing that was not free, and expand_buddy gave back only what it had.
NoDoubleUse ==
  /\ \A g, h \in FreeHeads : g # h => Block(g[1], g[2]) \cap Block(h[1], h[2]) = {}
  /\ \A k \in Orders : IsInjective(free[k])
  /\ PagesOf(FreeHeads) \cap (HeldPages \cup reserved) = {}
  /\ \A i, j \in DOMAIN held :
       i # j => (held[i].pfn..held[i].pfn + held[i].nr - 1)
                  \cap (held[j].pfn..held[j].pfn + held[j].nr - 1) = {}

\* Between two operations of the allocator nothing is lost: the bitmap of
\* memory.c says AVAIL of exactly the pages in the free blocks of buddy.c, and
\* nr_free_pages counts them.
Accounting ==
  Ready => /\ Pfns \ used = PagesOf(FreeHeads)
           /\ nr_free_pages = Cardinality(PagesOf(FreeHeads))
           /\ used = HeldPages \cup reserved

\* After every release two free buddies of one order have been merged: no pair
\* of them remains below the top order, whatever was split in between.
Coalesced ==
  \A k \in Orders \ {TopOrder} : \A p \in Range(free[k]) :
    BuddyOf(p, k) \notin Range(free[k])

\* The free lists are what page_is_buddy and the next split or merge rely on, and agree
\* with the bitmap.
ListsRight == ListsExact /\ Coalesced /\ Accounting

\* buddy_init's scan of the bitmap reaches the end of memory.
BootEnds == <>Ready

\* The pages the allocator answers for: those on its lists, those it is about to
\* put there, and before that those the scan has not reached.
Avail == PagesOf(FreeHeads) \cup TodoPages \cup {p \in Pfns \ reserved : p >= r}

Promise == INSTANCE PageAllocator WITH
             Pages <- Pfns, None <- NOTFOUND,
             avail <- Avail, held <- {b.pfn : b \in Range(held)}
\* buddy.c and memory.c together keep the promise of mm.h.
PageAllocatorSpec == Promise!Spec

=============================================================================
