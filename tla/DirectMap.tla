------------------------------ MODULE DirectMap ------------------------------
(***************************************************************************)
(* What include/arch/x86_64/mem_layout.h promises of the upper half of the *)
(* address space ("Kernel Direct Mapping"): physical page p appears at     *)
(* KERN_BASE + p or not at all, and what has appeared stays, except what   *)
(* is taken away by request.  Paging implements it.                        *)
(***************************************************************************)
EXTENDS Integers

CONSTANTS Pages,      \* the physical pages of the direct mapping
          Boot,       \* those the boot code has mapped
          Removable   \* those a caller may have taken away again

VARIABLES mapped,     \* the pages that appear in the direct mapping
          asked,      \* what the request under way asks for
          removal     \* is that their removal?

vars == <<mapped, asked, removal>>

Init == mapped = Boot /\ asked = {} /\ removal = FALSE

\* A request: map a region, or take one away.
Begin == /\ asked = {}
         /\ \/ asked' \in SUBSET Pages /\ removal' = FALSE
            \/ asked' \in SUBSET Removable /\ removal' = TRUE
         /\ UNCHANGED mapped

\* Some pages asked for appear, or disappear, and no other page does; the request
\* is over when all have.
Advance == /\ IF removal THEN mapped' \subseteq mapped /\ mapped \ mapped' \subseteq asked
                          ELSE mapped \subseteq mapped' /\ mapped' \ mapped \subseteq asked
           /\ UNCHANGED removal
           /\ asked' \in {asked, {}}
           /\ asked' = {} => IF removal THEN asked \cap mapped' = {}
                                        ELSE asked \subseteq mapped'

Next == Begin \/ Advance

Spec == Init /\ [][Next]_vars
=============================================================================
