-------------------------- MODULE FlexRegistration --------------------------
(***************************************************************************)
(* What the Flex client promises about registering the amplifier with the  *)
(* radio: in one TCP session it sends amplifier create at most once and    *)
(* the commands that follow it (meters, interlock, keepalive and the       *)
(* subscriptions) at most once and never before it; once the radio has     *)
(* removed the amplifier it neither connects nor creates again.            *)
(***************************************************************************)
EXTENDS Naturals

VARIABLES
    place,          \* where the client is
    creates,        \* amplifier create commands of this session
    registrations   \* post-amplifier registrations of this session

rvars == <<place, creates, registrations>>

Init == place = "away" /\ creates = 0 /\ registrations = 0

Connect ==
    /\ place = "away"
    /\ place' = "session" /\ creates' = 0 /\ registrations' = 0

Create ==
    /\ place = "session" /\ creates = 0
    /\ creates' = 1
    /\ UNCHANGED <<place, registrations>>

Register ==
    /\ place = "session" /\ creates = 1 /\ registrations = 0
    /\ registrations' = 1
    /\ UNCHANGED <<place, creates>>

Leave ==
    /\ place = "session"
    /\ place' = "away"
    /\ UNCHANGED <<creates, registrations>>

Removed ==
    /\ place = "session"
    /\ place' = "halted"
    /\ UNCHANGED <<creates, registrations>>

Next == Connect \/ Create \/ Register \/ Leave \/ Removed

Spec == Init /\ [][Next]_rvars
=============================================================================
