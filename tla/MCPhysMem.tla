------------------------------ MODULE MCPhysMem ------------------------------
(***************************************************************************)
(* PhysMem for TLC.  A page has two bytes, so a region may end inside one. *)
(* Every map has a region up to the end of memory; below there may be      *)
(* holes before and behind the end of the kernel, and a region that is     *)
(* covered by what is reserved.                                            *)
(***************************************************************************)
EXTENDS PhysMem

Region(a, e) == [addr |-> a, len |-> e - a]
Maps == {{Region(0, e), Region(a, 22)} : e \in 1..5, a \in {6, 8}}
          \cup {{Region(0, e), Region(6, f), Region(a, 20)} :
                  e \in {2, 3}, f \in 9..13, a \in {14, 16}}
          \cup {{Region(0, 3), Region(6, f), Region(14, 16)} : f \in 12..13}
=============================================================================
