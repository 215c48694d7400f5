---------------------------- MODULE MCFlexTimers ----------------------------
(* Instances of FlexTimers for TLC.                                        *)
EXTENDS FlexTimers, TLC
=============================================================================
