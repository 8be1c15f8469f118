---------------------------- MODULE PageAllocator ----------------------------
(***************************************************************************)
(* What the physical page interface of include/kernel/mm.h promises: a     *)
(* page is either available or held by exactly one caller, an allocation   *)
(* turns an available page into a held one, and fails only when there is   *)
(* none.  Which page is returned is left open.  Buddy implements it.       *)
(***************************************************************************)
EXTENDS Integers

CONSTANTS Pages,     \* the page frames the allocator may ever hand out
          None       \* the answer of a failed allocation

VARIABLES avail,     \* the pages free for allocation
          held,      \* the pages callers hold
          ret        \* the answer of the last allocation, None if it failed

vars == <<avail, held, ret>>

\* Which pages are memory is found out at boot.
Init == avail \in SUBSET Pages /\ held = {} /\ ret = None

\* mm_phy_page_alloc succeeds: some available page becomes the caller's.
Alloc == \E p \in avail : /\ avail' = avail \ {p}
                          /\ held' = held \cup {p}
                          /\ ret' = p

\* mm_phy_page_alloc fails, and may only do so when nothing is available.
Fail == /\ avail = {}
        /\ ret' = None
        /\ UNCHANGED <<avail, held>>

\* mm_phy_page_free returns a held page.
Free == \E p \in held : /\ held' = held \ {p}
                        /\ avail' = avail \cup {p}
                        /\ UNCHANGED ret

Next == Alloc \/ Fail \/ Free

Spec == Init /\ [][Next]_vars
=============================================================================
