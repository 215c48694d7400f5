--------------------------- MODULE MCFlexSession ---------------------------
(* Instances of FlexSession for TLC.                                       *)
EXTENDS FlexSession, TLC
=============================================================================
