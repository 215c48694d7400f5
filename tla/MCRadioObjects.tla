--------------------------- MODULE MCRadioObjects ---------------------------
(* RadioObjects with the settings that make a difference.                  *)
EXTENDS RadioObjects

MCAntenna == [s \in Slices |-> IF s = 0 THEN "ANT1" ELSE "ANT2"]
Shown(conn, state, fault) == [conn |-> conn, state |-> state, fault |-> fault]
MCParked == [s \in Slices |-> IF s = 0 THEN 14200 ELSE 7100]
MCAmpStart == Shown("Disconnected", "Standby", FALSE)
MCAmpStates == {MCAmpStart, Shown("Connected", "Operate", FALSE), Shown("Connected", "Operate", TRUE),
                Shown("Degraded", "Operate", FALSE)}
Full == [profile |-> "aethersdr_operational", variant |-> "current",
         meters |-> TRUE, interlock |-> TRUE, disable |-> FALSE, runtime |-> TRUE, rf |-> TRUE, vita |-> TRUE]
MCScenes == {{"key", "amp"}, {"slice", "tuner"}, {"slice", "client"}}
MCConfigs == {Full, [Full EXCEPT !.disable = TRUE, !.meters = FALSE], [Full EXCEPT !.interlock = FALSE, !.meters = FALSE, !.vita = FALSE],
              [Full EXCEPT !.rf = FALSE, !.meters = FALSE], [Full EXCEPT !.variant = "no_hack_fields"]}
=============================================================================
