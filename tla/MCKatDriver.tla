---------------------------- MODULE MCKatDriver ----------------------------
(* Instances of KatDriver for TLC.                                         *)
EXTENDS KatDriver, TLC

TunePoll == <<"TP">>
StatePoll == <<"MD", "TP">>
FreqSymmetry == Permutations(Freqs)
=============================================================================
