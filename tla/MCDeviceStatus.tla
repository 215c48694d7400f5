--------------------------- MODULE MCDeviceStatus ---------------------------
(* An instance of DeviceStatus for TLC.                                    *)
EXTENDS DeviceStatus

Limits == [amp |-> 1, tuner |-> 1]
StrictAmp == [amp |-> TRUE, tuner |-> FALSE]
=============================================================================
