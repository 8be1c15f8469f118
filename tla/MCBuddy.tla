------------------------------- MODULE MCBuddy -------------------------------
(***************************************************************************)
(* Buddy for TLC: the sizes callers ask for.                               *)
(***************************************************************************)
EXTENDS Buddy

SinglePages == {1}
=============================================================================
