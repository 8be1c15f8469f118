-------------------------------- MODULE MCSlab --------------------------------
(***************************************************************************)
(* Slab for TLC.  Liveness is checked, so no symmetry is used.             *)
(***************************************************************************)
EXTENDS Slab
=============================================================================
