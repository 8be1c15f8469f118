-------------------------------- MODULE Paging --------------------------------
(***************************************************************************)
(* The kernel's page tables, arch/x86_64/mm.c, from the tables boot.S      *)
(* leaves to the end of arch_smp_init: a tree of four levels of tables     *)
(* from kernel_pgd, in which a region is mapped with the largest pages     *)
(* that fit, and a large page is split when part of it is mapped again.    *)
(*                                                                         *)
(* Addresses are physical page numbers where the code only shifts them;    *)
(* bytes are kept where it aligns them.  One processor changes the tables. *)
(* The others, once started, only look at them, between any two steps; so  *)
(* one step is one turn of pgdir_walk, and expand_page is two.             *)
(***************************************************************************)
EXTENDS Integers, FiniteSets, SequencesExt

CONSTANTS
  E,              \* NPDENTRIES and NPTENTRIES
  PgSize,         \* PGSIZE
  Limits,         \* the physical memory limits machines have, in pages
  Kmaps,          \* the regions arch_kmap is asked for: [phy, sz], in bytes
  MaxKmaps,       \* bound: the calls of arch_kmap
  MpPage          \* MP_BASE, where the other processors start, in pages

\* The pages an entry of level l stands for; KERN_BASE, in pages.
Cover(l) == <<1, E, E * E, E * E * E>>[l]
KernPage == (E \div 2) * Cover(4)

ASSUME EAssumption == E \in Nat \ {0, 1} /\ E % 2 = 0
ASSUME PgSizeAssumption == PgSize \in Nat \ {0}
ASSUME LimitsAssumption == Limits \subseteq 1..KernPage
ASSUME KmapsAssumption ==
  \A k \in Kmaps : /\ k.phy \in Nat /\ k.sz \in Nat \ {0}
                   /\ k.phy + k.sz <= KernPage * PgSize
ASSUME BoundsAssumption == MaxKmaps \in Nat /\ MpPage \in 0..E - 1
\* What TablesRight rests on besides: with fewer entries the first tables would not fit into
\* what boot.S maps, and a larger region could put a page of level 3 where tables hang.
ASSUME TableSizeAssumption == E >= 4
ASSUME KmapSizeAssumption == \A k \in Kmaps : k.sz < Cover(3) * PgSize

Levels   == 1..4                      \* page table, page directory, pud, pgd
Index    == 0..E - 1
Idx(page, l) == (page \div Cover(l)) % E
Phys     == 0..KernPage - 1
BootPages == 0..Cover(3) - 1          \* what boot.S maps: PHY_BOOT_BASE bytes

\* The tables of boot.S lie in the kernel's own pages, above the trampoline.
Pgd == E
Pud == E + 1
Pmd == E + 2
RamStart == E + 3                     \* the first page the allocators hand out

None     == [kind |-> "none",  at |-> 0]
Page(p)  == [kind |-> "page",  at |-> p]   \* above level 1 it has PTE_PS
Table(f) == [kind |-> "table", at |-> f]
Empty    == [i \in Index |-> None]

VARIABLES
  tbl,            \* the tables in use: frame -> index -> entry
  hole,           \* the entry expand_page is replacing, with its level
  phase,          \* how far the boot has come
  limit,          \* phy_addr_limit, in pages
  page1gb,        \* FEAT_X86_Page1GB
  parts,          \* the calls of __map_region still to make, the first under way
  walk,           \* the table and level pgdir_walk has reached
  kmaps,          \* how often arch_kmap was called
  asked, removal  \* the region asked for, in pages; is it to be cleared?

vars == <<tbl, hole, phase, limit, page1gb, parts, walk, kmaps, asked, removal>>
machine == <<limit, page1gb>>

NoHole == [frame |-> 0, level |-> 0, old |-> None]
Root   == [frame |-> Pgd, level |-> 4]

\* boot.S: the low entry and the kernel's of the pgd share one pud, with one pmd of
\* large pages.
Init ==
  /\ tbl = [f \in {Pgd, Pud, Pmd} |-> [i \in Index |->
              CASE f = Pgd -> IF i \in {0, E \div 2} THEN Table(Pud) ELSE None
                [] f = Pud -> IF i = 0 THEN Table(Pmd) ELSE None
                [] f = Pmd -> Page(i * Cover(2))]]
  /\ hole = NoHole
  /\ phase = "boot"
  /\ limit \in Limits
  /\ page1gb \in BOOLEAN
  /\ parts = <<>>
  /\ walk = Root
  /\ kmaps = 0
  /\ asked = {} /\ removal = FALSE

-----------------------------------------------------------------------------
(* Looking a page up.                                                      *)

\* What entry i of the table of level l under a large page would say: the entries
\* expand_page writes.
Part(e, i, l) == IF e.kind = "page" THEN Page(e.at + i * Cover(l)) ELSE None

\* Likewise, of the address the processor computes.
Within(e, i, l) == IF e.kind = "page" THEN Page(e.at + i * Cover(l)) ELSE None

\* The entry the tables t hold for a page, as if every page were a small one.
Lookup(t, page) ==
  LET at[l \in Levels] ==
        IF l = 4 THEN t[Pgd][Idx(page, 4)]
        ELSE LET up == at[l + 1]
             IN IF up.kind = "table" THEN t[up.at][Idx(page, l)]
                                     ELSE Within(up, Idx(page, l), l)
  IN at[1]

\* check_pgtable: 0 stands for a page that is not mapped.
CheckPgtable(page) == Lookup(tbl, page).at

-----------------------------------------------------------------------------
(* arch_map_region: cut a region into parts mapped with pages of one size. *)

Align(x, n)     == ((x + n - 1) \div n) * n
AlignDown(x, n) == x - (x % n)

\* One call of __map_region: from byte v on, with pages of level l.
Region(v, phy, size, l) ==
  [at   |-> AlignDown(v, Cover(l) * PgSize) \div PgSize,
   phys |-> (phy - (v % (Cover(l) * PgSize))) \div PgSize,
   to   |-> Align(v + size, Cover(l) * PgSize) \div PgSize,
   level |-> l,
   size |-> size]

\* Slip: the end of the large pages is rounded up.
EndUp(v, size)   == Align(v + size, Cover(2) * PgSize)
\* va_e1, where the large pages end.
LargeEnd(v, size) == AlignDown(v + size, Cover(2) * PgSize)

Regions(v, phy, size) ==
  LET delta == v - phy
      s1    == Align(v, Cover(2) * PgSize)
      e1    == LargeEnd(v, size)
      s2    == Align(v, Cover(3) * PgSize)
      e2    == AlignDown(v + size, Cover(3) * PgSize)
      first == AlignDown(v, PgSize)
      end   == Align(v + size, PgSize)
      \* Nothing is done for a size of 0.
      R(from, to, l) == IF from = to THEN <<>>
                        ELSE <<Region(from, from - delta, to - from, l)>>
  IN IF e1 <= s1 THEN R(first, end, 1)
     ELSE R(first, s1, 1)
            \o (IF e2 > s2 /\ page1gb
                THEN R(s1, s2, 2) \o R(s2, e2, 3) \o R(e2, e1, 2)
                ELSE R(s1, e1, 2))
            \o R(e1, end, 1)

\* A call of arch_map_region: the parts, and what they must come to.
MapRegion(v, phy, size, clear) ==
  /\ parts' = Regions(v, phy, size)
  /\ walk' = Root
  /\ asked' = {p % KernPage : p \in v \div PgSize..Align(v + size, PgSize) \div PgSize - 1}
  /\ removal' = clear
  /\ UNCHANGED <<tbl, hole, limit, page1gb>>

Idle == parts = <<>>

-----------------------------------------------------------------------------
(* Who calls it.                                                           *)

\* mem_init: arch_map_kernel_page maps memory beyond what the boot code has mapped.
MapKernelPage ==
  /\ Idle /\ phase = "boot"
  /\ phase' = "kernel"
  /\ IF limit > Cover(3)
     THEN MapRegion((KernPage + Cover(3)) * PgSize, Cover(3) * PgSize,
                    (limit - Cover(3)) * PgSize, FALSE)
     ELSE UNCHANGED <<tbl, hole, parts, walk, asked, removal, limit, page1gb>>
  /\ UNCHANGED kmaps

\* arch_kmap maps the region unless its first page is there already.
NeedsMap(page) == CheckPgtable(KernPage + page) # page

\* arch_kmap: the frame buffer, the ACPI tables, the interrupt controllers, the
\* timer.  The offset in the first page is not added to the size.
Kmap(k) ==
  /\ Idle /\ phase = "kernel"
  /\ kmaps < MaxKmaps
  /\ NeedsMap(k.phy \div PgSize)
  /\ LET phy == AlignDown(k.phy, PgSize)
     IN MapRegion(KernPage * PgSize + phy, phy, k.sz, FALSE)
  /\ kmaps' = kmaps + 1
  /\ UNCHANGED phase

\* Slip: the page is there already, so it is not mapped again.
MapTrampolineOnce ==
  /\ Idle /\ phase = "kernel"
  /\ phase' = "smp"
  /\ UNCHANGED <<tbl, hole, parts, walk, kmaps, asked, removal>> /\ UNCHANGED machine
\* arch_smp_init: map the trampoline at its own address; the processors start.
MapTrampoline ==
  /\ Idle /\ phase = "kernel"
  /\ phase' = "smp"
  /\ MapRegion(MpPage * PgSize, MpPage * PgSize, 1, FALSE)
  /\ UNCHANGED kmaps

\* arch_smp_init: clear that page again (PG_CLEAR).
ClearTrampoline ==
  /\ Idle /\ phase = "smp"
  /\ phase' = "clear"
  /\ MapRegion(MpPage * PgSize, 0, 1, TRUE)
  /\ UNCHANGED kmaps

\* arch_clear_low_page
ClearLowPage ==
  /\ Idle /\ phase = "clear"
  /\ phase' = "done"
  /\ tbl' = [tbl EXCEPT ![Pgd][0] = None]
  /\ UNCHANGED <<hole, parts, walk, kmaps, asked, removal>> /\ UNCHANGED machine

-----------------------------------------------------------------------------
(* pgdir_walk with PG_ALLOC, one level a step, and __map_region's store.   *)

Now       == Head(parts)
I         == Idx(Now.at, walk.level)
Entry     == tbl[walk.frame][I]
\* Is this the level __map_region wants, or the last one?
AtLevel   == walk.level \in {1, Now.level}

\* Slip: one page past the limit.
FromLimit == {p \in RamStart..limit : p \notin DOMAIN tbl
                /\ \A q \in p + 1..limit : q \in DOMAIN tbl}
\* The highest free page.
FromAbove == {p \in RamStart..limit - 1 : p \notin DOMAIN tbl
                /\ \A q \in p + 1..limit - 1 : q \in DOMAIN tbl}
\* The lowest free page.
FromBelow == {p \in RamStart..limit - 1 : p \notin DOMAIN tbl
                /\ \A q \in RamStart..p - 1 : q \in DOMAIN tbl}
\* mm_phy_page_zalloc: for the kernel's own mapping, by the bitmap, the lowest free page;
\* later any free page, for which the highest stands, the last to be mapped.  The frame
\* buffer's arch_kmap still has the bitmap and its lowest page: all memory is mapped by
\* then, so every free page can be written to and one is as good as another.
Frames == IF phase = "kernel" /\ kmaps = 0 THEN FromBelow ELSE FromAbove

\* The tables once the entry reached points to a new, empty one.
WithTable(f) == LET linked == [tbl EXCEPT ![walk.frame][I] = Table(f)]
                IN [g \in DOMAIN tbl \cup {f} |-> IF g = f THEN Empty ELSE linked[g]]

Descend ==
  /\ ~Idle /\ hole = NoHole
  /\ Entry.kind = "table" /\ ~AtLevel
  /\ walk' = [frame |-> Entry.at, level |-> walk.level - 1]
  /\ UNCHANGED <<tbl, hole, phase, parts, kmaps, asked, removal>> /\ UNCHANGED machine

\* No entry above the level wanted: a new, empty table.
NewTable ==
  /\ ~Idle /\ hole = NoHole
  /\ Entry.kind = "none" /\ ~AtLevel
  /\ \E f \in Frames : tbl' = WithTable(f)
  /\ UNCHANGED <<hole, phase, parts, walk, kmaps, asked, removal>> /\ UNCHANGED machine

\* expand_page, whatever level is wanted: the entry first points to the new table...
Expand ==
  /\ ~Idle /\ hole = NoHole
  /\ Entry.kind = "page" /\ walk.level > 1
  /\ \E f \in Frames :
       /\ tbl' = WithTable(f)
       /\ hole' = [frame |-> f, level |-> walk.level - 1, old |-> Entry]
  /\ UNCHANGED <<phase, parts, walk, kmaps, asked, removal>> /\ UNCHANGED machine

\* ... which is then filled.
Filled == [i \in Index |-> Part(hole.old, i, hole.level)]
Fill ==
  /\ hole # NoHole
  /\ tbl' = [tbl EXCEPT ![hole.frame] = Filled]
  /\ hole' = NoHole
  /\ walk' = [frame |-> hole.frame, level |-> hole.level]
  /\ UNCHANGED <<phase, parts, kmaps, asked, removal>> /\ UNCHANGED machine

\* Slip: the loop forgets the address.
SamePage == /\ UNCHANGED <<parts, asked>>
            /\ walk' = Root
\* On to the next page of this part, or to the next part.
NextPage ==
  LET step == Cover(Now.level)
  IN /\ parts' = IF Now.at + step < Now.to
                 THEN <<[Now EXCEPT !.at = @ + step, !.phys = @ + step]>> \o Tail(parts)
                 ELSE Tail(parts)
     /\ walk' = Root
     /\ asked' = IF parts' = <<>> THEN {} ELSE asked

Store == IF removal THEN None ELSE Page(Now.phys)

\* *pte = paddr | attr
Write ==
  /\ ~Idle /\ hole = NoHole
  /\ AtLevel /\ (walk.level = 1 \/ Entry.kind = "none")
  /\ tbl' = [tbl EXCEPT ![walk.frame][I] = Store]
  /\ NextPage
  /\ UNCHANGED <<hole, phase, kmaps, removal>> /\ UNCHANGED machine

\* Slip: the table is not given back.
KeepTables(t, f) == t
\* mm_phy_page_free of a table.
FreeTable(t, f) == Restrict(t, DOMAIN t \ {f})

\* "try to shrink page": a table where a large page is wanted is given back.
Shrink ==
  /\ ~Idle /\ hole = NoHole
  /\ AtLevel /\ walk.level > 1 /\ Entry.kind = "table"
  /\ tbl' = FreeTable([tbl EXCEPT ![walk.frame][I] = Store], Entry.at)
  /\ NextPage
  /\ UNCHANGED <<hole, phase, kmaps, removal>> /\ UNCHANGED machine

-----------------------------------------------------------------------------

Walk == Descend \/ NewTable \/ Expand \/ Fill \/ Write \/ Shrink

Next == \/ MapKernelPage \/ MapTrampoline \/ ClearTrampoline \/ ClearLowPage
        \/ \E k \in Kmaps : Kmap(k)
        \/ Walk

\* The loops of __map_region and pgdir_walk go on: nothing blocks them.
Spec == Init /\ [][Next]_vars /\ WF_vars(Walk)

-----------------------------------------------------------------------------
(* Properties.                                                             *)

\* The tables once expand_page under way has filled its table: what a processor
\* that still has the large page in its TLB sees.
Settled == IF hole = NoHole THEN tbl ELSE [tbl EXCEPT ![hole.frame] = Filled]
Mapped(t) == {p \in Phys : Lookup(t, KernPage + p).kind = "page"}

Entries == [kind : {"none", "page"}, at : Phys]
           \cup [kind : {"table"}, at : RamStart..limit - 1 \cup {Pud, Pmd}]
PartType == [at : 0..2 * KernPage, phys : Phys, to : 0..2 * KernPage, level : 1..3,
             size : Nat \ {0}]

\* Every variable has its type; the tables are pages below the memory limit.
TypeOK ==
  /\ DOMAIN tbl \subseteq RamStart..limit - 1 \cup {Pgd, Pud, Pmd}
  /\ \A f \in DOMAIN tbl : tbl[f] \in [Index -> Entries]
  /\ hole # NoHole => hole.frame \in DOMAIN tbl /\ hole.level \in 1..2
  /\ phase \in {"boot", "kernel", "smp", "clear", "done"}
  /\ limit \in Limits /\ page1gb \in BOOLEAN
  /\ parts \in Seq(PartType)
  /\ walk.frame \in DOMAIN tbl /\ walk.level \in Levels
  /\ kmaps \in 0..MaxKmaps
  /\ asked \subseteq Phys /\ removal \in BOOLEAN

\* Whatever was split, shrunk or mapped over, an address of the kernel half shows
\* the physical page at its distance from KERN_BASE, or nothing; and the low half,
\* which shares its tables, the page of the same number (mem_layout.h).
DirectOrNothing ==
  \A p \in Phys : /\ Lookup(tbl, KernPage + p) \in {None, Page(p)}
                  /\ Lookup(tbl, p) \in {None, Page(p)}

\* Every table in use hangs in the tree at exactly one place, except the pud both
\* halves share until arch_clear_low_page; so a table that is given back (Shrink)
\* is used no more, and none is lost.
TablesHangOnce ==
  LET links == {l \in (DOMAIN tbl) \X Index : tbl[l[1]][l[2]].kind = "table"}
      to(f) == {l \in links : tbl[l[1]][l[2]].at = f}
  IN /\ \A l \in links : tbl[l[1]][l[2]].at \in DOMAIN tbl
     /\ \A f \in DOMAIN tbl \ {Pgd} :
          Cardinality(to(f)) = IF f = Pud /\ phase # "done" THEN 2 ELSE 1

\* The code reaches a table at kaddr of its frame, so the frame must be in the
\* direct mapping already: why memory.c wants "as low page as possible" for the
\* tables that map the rest of memory.
TablesMapped == DOMAIN tbl \subseteq Mapped(Settled)

\* The page tables are a direct mapping and nothing else, whole and within reach.
TablesRight == DirectOrNothing /\ TablesHangOnce /\ TablesMapped

\* From when arch_smp_init starts the other processors.
OthersRun == phase \in {"clear", "done"} \/ (phase = "smp" /\ Idle)

\* Once other processors may run, no page of the direct mapping vanishes from under
\* them, not even for a moment, but for the page they started in: expand_page, which
\* empties an entry before it fills the new table, has no work left to do.
OthersUndisturbed ==
  [][OthersRun => (Mapped(tbl) \ {MpPage}) \subseteq Mapped(tbl')]_vars

\* arch_map_region comes to an end, however it has to split tables.
MapReturns == ~Idle ~> Idle

Promise == INSTANCE DirectMap WITH
             Pages <- Phys, Boot <- BootPages, Removable <- {MpPage},
             mapped <- Mapped(Settled)
\* The tables implement the direct mapping: a region asked for is there, all of it,
\* when arch_map_region returns, nothing beyond it was touched and nothing that was
\* there is gone, at no step of the way.
DirectMapSpec == Promise!Spec

=============================================================================
