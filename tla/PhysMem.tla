------------------------------- MODULE PhysMem -------------------------------
(***************************************************************************)
(* The three allocators of kernel/mm/memory.c one after the other, and     *)
(* what each hands to the next: reserved_mem_alloc behind the kernel's     *)
(* image, block_page_alloc on the bitmap mem_map_init makes of the memory  *)
(* map, and the buddy system buddy_init gives the rest to.                 *)
(*                                                                         *)
(* One CPU boots and nothing interrupts, so a call is one step.  The buddy *)
(* system is what PageAllocator promises of it here: some free page, or    *)
(* none.  Module Buddy has its details.                                    *)
(***************************************************************************)
EXTENDS Integers, FiniteSets, FiniteSetsExt

CONSTANTS
  PgSize,        \* bytes in a page
  MemoryMaps,    \* the memory maps a boot loader may pass: sets of available regions
  KernEnd,       \* kern_end
  MbootEnds,     \* where the boot loader's tables may end
  Requests,      \* the sizes, in pages, callers ask for at boot
  PageArray,     \* pages that hold the array of page structures
  EarlyLimit     \* bound: the pages asked for before there is a bitmap

ASSUME SizesAssumption == PgSize \in Nat \ {0} /\ KernEnd \in Nat /\ MbootEnds \subseteq Nat
ASSUME RequestsAssumption == Requests \subseteq Nat \ {0} /\ PageArray \in Nat \ {0}
\* Available regions start on a page, as firmware reports them: the frame number of a
\* start inside a page is rounded down (memory.c:107).  None is empty.
ASSUME MapsAssumption ==
  \A map \in MemoryMaps :
    /\ map # {} /\ IsFiniteSet(map)
    /\ \A m \in map : m.addr \in Nat /\ m.addr % PgSize = 0 /\ m.len \in Nat \ {0}

VARIABLES
  phase,         \* "start", "bitmap" once mm_ready, "buddy" once buddy_mem_ready
  regions,       \* the memory map
  reserved_end,  \* the end of what is reserved, in bytes
  pfn_max,       \* the frames the bitmap covers, 0 before there is one
  used,          \* the frames whose bit is MEM_PAGE_USED
  zone,          \* the frames the buddy system has to give
  held,          \* the allocations of callers: first frame and length
  ret            \* the frame the last mm_phy_page_alloc returned

vars == <<phase, regions, reserved_end, pfn_max, used, zone, held, ret>>

NOTFOUND  == -1                                  \* PFN_NOTFOUND
Align(a)  == ((a + PgSize - 1) \div PgSize) * PgSize
Frames(b) == b.pfn..b.pfn + b.nr - 1
Block(pfn, nr) == [pfn |-> pfn, nr |-> nr]

\* reserved_mem_allocator_init, which runs on first use.
Init == /\ phase = "start"
        /\ regions \in MemoryMaps
        /\ \E end \in MbootEnds : reserved_end = Align(Max({KernEnd, end}))
        /\ pfn_max = 0 /\ used = {} /\ zone = {} /\ held = {}
        /\ ret = NOTFOUND

\* The pages callers hold.
Taken == MapThenSumSet(LAMBDA b : b.nr, held)

\* mm_phy_page_alloc before mm_ready: reserved_mem_alloc, which cannot fail.
EarlyAlloc(nr) ==
  /\ phase = "start" /\ Taken + nr <= EarlyLimit
  /\ ret' = reserved_end \div PgSize
  /\ held' = held \cup {Block(ret', nr)}
  /\ reserved_end' = Align(reserved_end + nr * PgSize)
  /\ UNCHANGED <<phase, regions, pfn_max, used, zone>>

-----------------------------------------------------------------------------
(* mem_map_init.                                                           *)

PhyAddrLimit == Align(Max({m.addr + m.len : m \in regions}))
BitmapBytes  == (PhyAddrLimit \div PgSize + 7) \div 8
\* Slip: the end is left inside a page.
EndUnaligned == reserved_end + BitmapBytes
\* The end of what is reserved after the bitmap is.
EndWithMap   == Align(reserved_end + BitmapBytes)
\* The pages of the bitmap.
BitmapBlock  == Block(reserved_end \div PgSize, Align(BitmapBytes) \div PgSize)

\* Slip: the length is not corrected where the start is.
AvailableUncut(m, end) ==
  LET base == Max({m.addr, end})
  IN base \div PgSize..base \div PgSize + m.len \div PgSize - 1
\* The frames of a region that are above what is reserved, from its start rounded down,
\* as many as fit its length.
Available(m, end) ==
  LET base == Max({m.addr, end})
      len  == m.addr + m.len - base
  IN base \div PgSize..base \div PgSize + len \div PgSize - 1

MemMapInit ==
  /\ phase = "start" /\ phase' = "bitmap"
  /\ pfn_max' = PhyAddrLimit \div PgSize
  /\ reserved_end' = EndWithMap
  /\ used' = (0..pfn_max' - 1)
               \ UNION {Available(m, reserved_end') :
                          m \in {r \in regions : r.addr + r.len > reserved_end'}}
  /\ held' = held \cup {BitmapBlock}
  /\ UNCHANGED <<regions, zone, ret>>

-----------------------------------------------------------------------------
(* block_page_alloc.                                                       *)

Pfns == 0..pfn_max - 1
\* bitmap_find of a free and of a used frame in [from, end) (module Bitmap).
FirstOf(S) == IF S = {} THEN NOTFOUND ELSE Min(S)
FindAvail(from) == FirstOf({p \in Pfns \ used : p >= from})
\* Slip: the range is one page too short.
FindUsedShort(from, nr) == FirstOf({p \in used : p >= from /\ p < from + nr - 1})
FindUsed(from, nr) == FirstOf({p \in used : p >= from /\ p < from + nr})

\* Where the search goes on, by where it is: behind the used frame it met in the run of
\* nr frames from the next free one.
BlockPageAlloc(nr) ==
  LET scan[i \in 0..pfn_max] ==
        LET l == FindAvail(i)
            u == FindUsed(l, nr)
        IN IF i = pfn_max \/ l = NOTFOUND THEN NOTFOUND
           ELSE IF u = NOTFOUND THEN l ELSE scan[u]
  IN scan[0]

\* mm_phy_page_alloc between mm_ready and buddy_mem_ready.  The range bitmap_find
\* searches ends with the bitmap, so a run cut short there is taken for a run.
BitmapAlloc(nr) ==
  /\ phase = "bitmap"
  /\ ret' = BlockPageAlloc(nr)
  /\ used' = IF ret' = NOTFOUND THEN used ELSE used \cup (Frames(Block(ret', nr)) \cap Pfns)
  /\ held' = IF ret' = NOTFOUND THEN held ELSE held \cup {Block(ret', nr)}
  /\ UNCHANGED <<phase, regions, reserved_end, pfn_max, zone>>

\* mm_phy_page_free of a page table (pgdir_walk), in both later phases.
Free(b) ==
  /\ phase # "start" /\ b.nr = 1 /\ b.pfn * PgSize >= reserved_end
  /\ used' = used \ Frames(b)
  /\ held' = held \ {b}
  /\ zone' = IF phase = "buddy" THEN zone \cup Frames(b) ELSE zone
  /\ UNCHANGED <<phase, regions, reserved_end, pfn_max, ret>>

-----------------------------------------------------------------------------
(* buddy_init, and the buddy system after it.                              *)

\* What the scan of the bitmap releases: runs of free frames, the last up to the end.
\* If there is no free frame behind a used one, the failed search is used as a frame.
Released(full) ==
  LET next(i, S) == FirstOf({p \in S : p >= i})
      scan[i \in 0..pfn_max] ==
        LET l == next(i, Pfns \ full)
            r == IF l = NOTFOUND THEN NOTFOUND ELSE next(l, full)
            e == IF r = NOTFOUND THEN pfn_max ELSE r
        IN IF i = pfn_max THEN {} ELSE (l..e - 1) \cup scan[e]
  IN scan[0]

UsedWithArray(array) == used \cup (Frames(array) \cap Pfns)

\* The last frame of memory is free here, since boot takes little and from below: with
\* it in use, the whole of memory would be released.
BuddyInit ==
  /\ phase = "bitmap"
  /\ LET array == Block(BlockPageAlloc(PageArray), PageArray)
     IN /\ array.pfn # NOTFOUND /\ array.pfn + PageArray < pfn_max /\ pfn_max - 1 \notin used
        /\ used' = UsedWithArray(array)
        /\ held' = held \cup {array}
        /\ ret' = array.pfn
  /\ zone' = Released(used')
  /\ phase' = "buddy"
  /\ UNCHANGED <<regions, reserved_end, pfn_max>>

\* mm_phy_page_alloc of one page from the buddy system.
BuddyAlloc ==
  /\ phase = "buddy"
  /\ \/ \E p \in zone : /\ ret' = p /\ zone' = zone \ {p}
                        /\ used' = used \cup {p}
                        /\ held' = held \cup {Block(p, 1)}
     \/ zone = {} /\ ret' = NOTFOUND /\ UNCHANGED <<zone, used, held>>
  /\ UNCHANGED <<phase, regions, reserved_end, pfn_max>>

Next == \/ MemMapInit \/ BuddyInit \/ BuddyAlloc
        \/ \E nr \in Requests : EarlyAlloc(nr) \/ BitmapAlloc(nr)
        \/ \E b \in held : Free(b)

Spec == Init /\ [][Next]_vars

-----------------------------------------------------------------------------
(* Properties.                                                             *)

\* Every variable has its type.
TypeOK ==
  /\ phase \in {"start", "bitmap", "buddy"}
  /\ regions \in MemoryMaps
  /\ reserved_end \in Nat /\ reserved_end % PgSize = 0
  /\ pfn_max \in Nat /\ used \subseteq Pfns /\ zone \subseteq Pfns
  /\ \A b \in held : b.pfn \in Nat /\ b.nr \in Nat \ {0}
  /\ ret \in Nat \cup {NOTFOUND}

Reserved == 0..reserved_end \div PgSize - 1
\* The frames that lie in available memory with all their bytes.
Memory == {p \in Pfns : \A a \in p * PgSize..(p + 1) * PgSize - 1 :
                          \E m \in regions : a \in m.addr..m.addr + m.len - 1}

\* Across the three allocators no frame has two owners: callers' allocations do not meet
\* each other nor what the buddy system has to give, none of those is part of the kernel,
\* the boot loader's tables or the bitmap, and all of them are memory.  Only what was
\* asked for before there was a bitmap is part of what is reserved.
NoPageTwice ==
  /\ \A b, c \in held : b # c => Frames(b) \cap Frames(c) = {}
  /\ zone \cap (Reserved \cup UNION {Frames(b) : b \in held}) = {}
  /\ zone \subseteq Memory
  /\ phase # "start" =>
       \A b \in held : \/ Frames(b) \subseteq Reserved
                       \/ Frames(b) \cap Reserved = {} /\ Frames(b) \cap Pfns \subseteq Memory

\* From mem_map_init on the bitmap has it right: a frame is used exactly if it is no
\* memory, reserved or held, and in the last phase the others are the buddy system's.
BitmapExact ==
  phase # "start" =>
    /\ used = Pfns \cap ((Pfns \ Memory) \cup Reserved \cup UNION {Frames(b) : b \in held})
    /\ phase = "buddy" => zone = Pfns \ used

\* No frame has two owners, and the bitmap of memory.c knows all that have one.
PagesRight == NoPageTwice /\ BitmapExact

\* block_page_alloc fails only if there is no run of the size, and returns pages beyond
\* the end of memory only then (memory.c:50).
Runs(nr) == {p \in Pfns : p..p + nr - 1 \subseteq Pfns \ used}
OverrunsOnlyWhenFull ==
  [][\A nr \in Requests : BitmapAlloc(nr) =>
       \/ ret' \in Runs(nr)
       \/ Runs(nr) = {} /\ (ret' = NOTFOUND \/ ret' + nr > pfn_max)]_vars
=============================================================================
