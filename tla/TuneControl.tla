---------------------------- MODULE TuneControl ----------------------------
(***************************************************************************)
(* What the bridge promises about starting the tuner's tune cycle.         *)
(* Clients ask; requests nobody has looked at yet are one request.  A      *)
(* request that comes too soon after an accepted one is suppressed; an     *)
(* accepted one starts at most one tune, and only if tuning is permitted.  *)
(* Apart from that only the operator starts a tune; it ends by itself.     *)
(***************************************************************************)
EXTENDS Naturals

CONSTANT Permitted

VARIABLES pending,     \* requests neither accepted nor suppressed
          cooling,     \* an accepted request is too recent for another
          inHand,      \* an accepted request that has not started its tune
          running,     \* whether the tuner is tuning
          touched      \* how often the operator used the tuner

vars == <<pending, cooling, inHand, running, touched>>

Init == /\ pending = 0 /\ cooling = FALSE /\ inHand = FALSE
        /\ running = FALSE /\ touched = 0

Ask == /\ pending' = pending + 1
       /\ UNCHANGED <<cooling, inHand, running, touched>>

Accept == /\ pending > 0 /\ ~cooling /\ ~inHand
          /\ pending' = pending - 1 /\ cooling' = TRUE /\ inHand' = TRUE
          /\ UNCHANGED <<running, touched>>

Suppress == /\ pending > 0 /\ cooling
            /\ pending' = pending - 1
            /\ UNCHANGED <<cooling, inHand, running, touched>>

Cool == /\ cooling' = FALSE
        /\ UNCHANGED <<pending, inHand, running, touched>>

Start == /\ inHand /\ Permitted
         /\ inHand' = FALSE /\ running' = TRUE
         /\ UNCHANGED <<pending, cooling, touched>>

Abandon == /\ inHand /\ inHand' = FALSE
           /\ UNCHANGED <<pending, cooling, running, touched>>

Finish == /\ running' = FALSE
          /\ UNCHANGED <<pending, cooling, inHand, touched>>

Operator == /\ touched' = touched + 1
            /\ running' \in BOOLEAN
            /\ UNCHANGED <<pending, cooling, inHand>>

Next == \/ Ask \/ Accept \/ Suppress \/ Cool
        \/ Start \/ Abandon \/ Finish \/ Operator

Spec == Init /\ [][Next]_vars
=============================================================================
