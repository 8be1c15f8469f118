------------------------------ MODULE MCScreen ------------------------------
(***************************************************************************)
(* Screen for TLC: a font of 2 by 2 pixels on a screen with a margin at    *)
(* the right and at the bottom.                                            *)
(***************************************************************************)
EXTENDS Screen

\* The boot loader's menu, or a cleared display.
LeftByLoader == {"menu"}
=============================================================================
