----------------------------- MODULE MCStation -----------------------------
(* Station with two files, two processes and the configurations that     *)
(* differ in what they permit.                                             *)
EXTENDS Station, TLC

NoControls == [real |-> FALSE, confirm |-> FALSE, tune |-> FALSE, bypass |-> FALSE,
               antenna |-> FALSE, standby |-> FALSE, operate |-> FALSE, clear |-> FALSE]
ReadOnly == [kpa |-> Safe, kat |-> Safe, op |-> NoControls]
Risky == [ReadOnly EXCEPT !.kpa = [dry |-> FALSE, control |-> TRUE, rf |-> TRUE]]
(* Not valid: operate without enable_real_controls.                        *)
Unconfirmed == [ReadOnly EXCEPT !.op.operate = TRUE]

MCInstalled == {(DefaultPath :> ReadOnly) @@ (OperationalPath :> Risky),
                (DefaultPath :> Risky) @@ (OperationalPath :> Unconfirmed)}
=============================================================================
