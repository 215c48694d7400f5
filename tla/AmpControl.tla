----------------------------- MODULE AmpControl -----------------------------
(***************************************************************************)
(* What the bridge promises about switching the amplifier between standby  *)
(* and operate.  Clients ask; the newest request not yet picked up         *)
(* replaces the one before it.  The bridge picks a request up at most      *)
(* once, executes it at most once and only if its kind is permitted, and   *)
(* never switches the amplifier otherwise; the operator may at any time.   *)
(***************************************************************************)
EXTENDS Naturals

CONSTANTS None, Permitted     \* Permitted: which of TRUE (operate)
                              \* and FALSE (standby) may be executed

VARIABLES asked,              \* the request nobody picked up yet, or None
          inHand,             \* the request being executed, or None
          operating,          \* whether the amplifier is in operate
          touched             \* how often its operator used the front panel

vars == <<asked, inHand, operating, touched>>

Init == /\ asked = None /\ inHand = None
        /\ operating \in BOOLEAN
        /\ touched = 0

Ask(v) == /\ asked' = v
          /\ UNCHANGED <<inHand, operating, touched>>

PickUp == /\ asked \in Permitted /\ inHand = None
          /\ inHand' = asked /\ asked' = None
          /\ UNCHANGED <<operating, touched>>

Refuse == /\ asked # None /\ asked \notin Permitted
          /\ asked' = None
          /\ UNCHANGED <<inHand, operating, touched>>

(* A command may be lost on the way: the amplifier stays as it is.         *)
Execute == /\ inHand # None
           /\ operating' \in {inHand, operating}
           /\ inHand' = None
           /\ UNCHANGED <<asked, touched>>

Operator == /\ touched' = touched + 1
            /\ operating' \in BOOLEAN
            /\ UNCHANGED <<asked, inHand>>

Next == \/ \E v \in BOOLEAN : Ask(v)
        \/ PickUp \/ Refuse \/ Execute \/ Operator

Spec == Init /\ [][Next]_vars
=============================================================================
