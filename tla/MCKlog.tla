-------------------------------- MODULE MCKlog --------------------------------
(***************************************************************************)
(* Klog for TLC: what code and handlers call.  Liveness is checked, so no  *)
(* symmetry is used.                                                       *)
(***************************************************************************)
EXTENDS Klog

AllCalls == {"info", "log", "panic"}
Logging  == {"info"}
=============================================================================
