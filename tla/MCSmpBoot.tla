------------------------------ MODULE MCSmpBoot ------------------------------
(***************************************************************************)
(* SmpBoot for TLC.  The processors are numbered and started in order, so  *)
(* there is no symmetry to use.                                            *)
(***************************************************************************)
EXTENDS SmpBoot
=============================================================================
