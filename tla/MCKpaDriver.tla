---------------------------- MODULE MCKpaDriver ----------------------------
(* Instances of KpaDriver for TLC.                                         *)
EXTENDS KpaDriver, TLC

MCPollSeq == <<"OS", "TM", "FL">>   \* one of the three telemetry queries
MCShortPoll == <<"OS", "FL">>
BandSymmetry == Permutations(Bands)
=============================================================================
