------------------------------- MODULE MCPaging -------------------------------
(***************************************************************************)
(* Paging for TLC: memory limits below, inside and beyond the first pud,   *)
(* and regions of one to six pages that start and end anywhere in or       *)
(* around the large pages they cover.                                      *)
(***************************************************************************)
EXTENDS Paging

SomeLimits == {16, 40, 72}
SomeKmaps == [phy : {75, 80, 83, 148}, sz : {2, 11}]
=============================================================================
