--------------------------- MODULE ControlPolicy ---------------------------
(* Which device commands a configuration permits: the validation of the    *)
(* operational section (crates/config), the effective policy that egb      *)
(* reports and hands to the drivers (crates/egb: effective_control_policy) *)
(* the drivers' own test before a command is written (ensure_can_send) and *)
(* what the GUI shows and sets (crates/egb-gui).                           *)
EXTENDS Naturals

(* kpa500 and kat500: dry_run, allow_control, allow_rf_risk.               *)
Device == [dry : BOOLEAN, control : BOOLEAN, rf : BOOLEAN]
(* operational: enable_real_controls, a confirmation that reads as it      *)
(* must, and one permission for each control.                              *)
Operational == [real : BOOLEAN, confirm : BOOLEAN, tune : BOOLEAN,
                bypass : BOOLEAN, antenna : BOOLEAN, standby : BOOLEAN,
                operate : BOOLEAN, clear : BOOLEAN]
Config == [kpa : Device, kat : Device, op : Operational]

Valid(cfg) ==
    /\ cfg.op.real => cfg.op.confirm
    /\ cfg.op.operate \/ cfg.op.tune \/ cfg.op.clear => cfg.op.real

Confirmed(cfg) == cfg.op.real /\ cfg.op.confirm
Risked(dev) == ~dev.dry /\ dev.rf
Controlled(dev) == ~dev.dry /\ dev.control

(* What is reported as enabled.                                            *)
Enabled(cfg) ==
    [tune    |-> Risked(cfg.kat) \/ (Confirmed(cfg) /\ cfg.op.tune),
     bypass  |-> Controlled(cfg.kat) \/ (Confirmed(cfg) /\ cfg.op.bypass),
     antenna |-> Controlled(cfg.kat) \/ (Confirmed(cfg) /\ cfg.op.antenna),
     standby |-> Controlled(cfg.kpa) \/ (Confirmed(cfg) /\ cfg.op.standby),
     operate |-> Risked(cfg.kpa) \/ (Confirmed(cfg) /\ cfg.op.operate),
     clear   |-> Confirmed(cfg) /\ cfg.op.clear]

(* What the drivers are given: one permission for each class of commands   *)
(* of a device, which any of its controls opens.                           *)
Effective(cfg) ==
    LET on == Enabled(cfg)
    IN  [kpa |-> [dry |-> cfg.kpa.dry /\ ~(on.standby \/ on.operate \/ on.clear),
                  control |-> cfg.kpa.control \/ on.standby,
                  rf |-> cfg.kpa.rf \/ on.operate],
         kat |-> [dry |-> cfg.kat.dry /\ ~(on.tune \/ on.bypass \/ on.antenna),
                  control |-> cfg.kat.control \/ on.bypass \/ on.antenna,
                  rf |-> cfg.kat.rf \/ on.tune]]

(* What the drivers let through.                                           *)
CanSend(cfg) ==
    LET eff == Effective(cfg)
    IN  [tune    |-> Risked(eff.kat),
         bypass  |-> Controlled(eff.kat),
         antenna |-> Controlled(eff.kat),
         standby |-> Controlled(eff.kpa),
         operate |-> Risked(eff.kpa)]

(* The label of the mode in which the bridge says it runs.                 *)
Mode(cfg) ==
    LET on == Enabled(cfg)
    IN  IF on.operate THEN "RF-RISK OPERATE"
        ELSE IF on.tune \/ on.standby THEN "OPERATIONAL TUNE/STANDBY"
        ELSE "MONITOR ONLY"

(* What the GUI says of the configuration it edits.                        *)
Preview(cfg) ==
    [tune    |-> Risked(cfg.kat) \/ (Confirmed(cfg) /\ cfg.op.tune),
     standby |-> Controlled(cfg.kpa) \/ (Confirmed(cfg) /\ cfg.op.standby),
     operate |-> Risked(cfg.kpa) \/ (Confirmed(cfg) /\ cfg.op.operate)]

Safe == [dry |-> TRUE, control |-> FALSE, rf |-> FALSE]
(* The recommended setup: tune and standby, if the user wants any control. *)
Recommended(cfg, controls) ==
    [kpa |-> Safe, kat |-> Safe,
     op |-> IF controls
            THEN [cfg.op EXCEPT !.real = TRUE, !.confirm = TRUE, !.tune = TRUE,
                      !.standby = TRUE, !.operate = FALSE, !.clear = FALSE]
            ELSE cfg.op]
=============================================================================
