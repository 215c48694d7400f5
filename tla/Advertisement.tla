--------------------------- MODULE Advertisement ---------------------------
(* What the bridge says of the amplifier's state, and whether it notices   *)
(* that it says something else.  The bridge starts only when a poll of the *)
(* amplifier was answered in full (crates/egb); a poll of the KPA500       *)
(* driver writes the state and asks for an announcement                    *)
(* (crates/elecraft-kpa500); the Flex session registers the amplifier and  *)
(* then announces it, periodically and on request (crates/flex-injection); *)
(* every PGXL client asks for the status (crates/pgxl-emulator); and a     *)
(* watchdog compares what was last said with what is (crates/egb).         *)
(*                                                                         *)
(* Each of them reads the shared state, lets go of the lock, and writes    *)
(* what it said later: one step for every time the lock is taken.  When an *)
(* announcement is due is the subject of FlexTimers, what a poll may read  *)
(* that of KpaDriver; here a poll is answered in full, in part, or not.    *)
EXTENDS Naturals, FiniteSets

CONSTANTS
    Clients,       \* the PGXL connections
    MaxChanges,    \* bound: changes of the amplifier, by a client or itself
    MaxPartial,    \* bound: polls of which some queries are not answered
    None

ASSUME ConstantsAssumption ==
    /\ IsFiniteSet(Clients)
    /\ {MaxChanges, MaxPartial} \subseteq Nat
    /\ None \notin {"STANDBY", "OPERATE", "FAULT", "UNKNOWN"}

VARIABLES
    config,     \* kpa: kpa500.enabled, and it is not mocked; wait:
                \* amplifier_startup_state_policy = wait_for_first_kpa_poll
    up,         \* the bridge has started
    dev,        \* the amplifier: [operate, fault]
    amp,        \* BridgeState.amp: [operate, fault, state]
    firstPoll,  \* amp.first_poll_completed
    told,       \* last_advertised_flex_amp_state, last_advertised_pgxl_state
    line,       \* the state in last_emitted_amplifier_advertisement_line
    session,    \* the Flex session: [at, line, state]
    client,     \* PGXL clients: [at, state]
    watch,      \* the watchdog: [at, pending]
    alarm,      \* flex_injection.state_advertisement_mismatch
    used        \* how much of each bound is used
ampVars  == <<config, up, dev, amp, firstPoll>>
saidVars == <<told, line>>
vars == <<ampVars, saidVars, session, client, watch, alarm, used>>

Name(operate) == IF operate THEN "OPERATE" ELSE "STANDBY"
States == {"STANDBY", "OPERATE", "FAULT"}
Said == States \cup {"UNKNOWN"}

(* What the radio and the PGXL clients are told.  That an incomplete poll  *)
(* of the last ten seconds counts as well makes no difference: the bridge  *)
(* starts after a complete one, or polls nothing.                          *)
Advertised ==
    IF config.wait /\ ~firstPoll THEN "UNKNOWN"
    ELSE IF amp.fault \/ amp.state = "FAULT" THEN "FAULT" ELSE amp.state

Resting == [at |-> "down", line |-> None, state |-> None]
Idle == [at |-> "idle", state |-> None]

Queries == {"OS", "Rest", "FL"}

Init ==
    /\ config \in [kpa : BOOLEAN, wait : BOOLEAN]
    /\ up = FALSE
    /\ dev \in [operate : BOOLEAN, fault : {FALSE}]
    /\ amp = [operate |-> FALSE, fault |-> FALSE, state |-> "STANDBY"]
    /\ firstPoll = FALSE
    /\ told = [flex |-> None, pgxl |-> None] /\ line = None
    /\ session = Resting
    /\ client = [c \in Clients |-> Idle]
    /\ watch = [at |-> "sleep", pending |-> FALSE]
    /\ alarm = FALSE
    /\ used = [changes |-> 0, partial |-> 0]

Spend(bound, max) == used[bound] < max /\ used' = [used EXCEPT ![bound] = @ + 1]

-----------------------------------------------------------------------------
(* The amplifier and its driver.                                           *)

(* The front panel, a fault, or a fault that is gone.                      *)
AmpChanges ==
    /\ config.kpa /\ Spend("changes", MaxChanges)
    /\ \/ dev' = [dev EXCEPT !.operate = ~@]
       \/ dev' = [dev EXCEPT !.fault = ~@]
    /\ UNCHANGED <<config, up, amp, firstPoll, saidVars, session, client, watch, alarm>>

ParseOs(a) == [a EXCEPT !.operate = dev.operate, !.state = Name(dev.operate)]
ParseFl(a) ==
    IF dev.fault THEN [a EXCEPT !.fault = TRUE, !.state = "FAULT"]
    ELSE [a EXCEPT !.fault = FALSE, !.state = Name(a.operate)]

(* A poll: the queries of `answered', "OS" before "FL", are parsed under   *)
(* one lock, and each that changes something counts as told to the PGXL    *)
(* clients; it also asks for an announcement, see FlexTimers.  "Rest" are  *)
(* the measurements, of which only one change is told apart.               *)
Poll(answered, measured) ==
    LET os == IF "OS" \in answered THEN ParseOs(amp) ELSE amp
        fl == IF "FL" \in answered THEN ParseFl(os) ELSE os
        changed == \/ "Rest" \in answered /\ measured
                   \/ os # amp \/ fl # os
    IN  /\ amp' = fl
        /\ firstPoll' = (firstPoll \/ answered = Queries)
        /\ told' = IF changed
                   THEN [told EXCEPT !.pgxl =
                            IF fl # os THEN fl.state ELSE os.state]
                   ELSE told
        /\ UNCHANGED <<config, dev, line, session, client, watch, alarm>>

(* Mutant of Start: no preflight.                                          *)
StartUnpolled ==
    /\ ~up /\ up' = TRUE
    /\ UNCHANGED <<config, dev, amp, firstPoll, saidVars, session, client, watch, alarm, used>>
(* The preflight: one poll, before anything else is spawned.  The bridge   *)
(* does not start unless all of it was answered; a start that failed is    *)
(* that of a process that is gone.                                         *)
Start ==
    /\ ~up /\ up' = TRUE
    /\ IF config.kpa
       THEN \E measured \in BOOLEAN : Poll(Queries, measured)
       ELSE UNCHANGED <<config, dev, amp, firstPoll, saidVars, session, client, watch, alarm>>
    /\ UNCHANGED used

PollComplete ==
    /\ up /\ config.kpa
    /\ \E measured \in BOOLEAN : Poll(Queries, measured)
    /\ UNCHANGED <<up, used>>
PollPartly ==
    /\ up /\ config.kpa /\ Spend("partial", MaxPartial)
    /\ \E answered \in SUBSET Queries \ {Queries}, measured \in BOOLEAN :
           Poll(answered, measured)
    /\ UNCHANGED up

(* A client's operate or standby request, executed: the verification       *)
(* writes the state, and asks for nothing.                                 *)
Commanded ==
    /\ up /\ config.kpa /\ Spend("changes", MaxChanges)
    /\ \E operate \in BOOLEAN :
           /\ dev' = [dev EXCEPT !.operate = operate]
           /\ amp' = [amp EXCEPT !.operate = operate, !.state = Name(operate)]
    /\ UNCHANGED <<config, up, firstPoll, saidVars, session, client, watch, alarm>>

-----------------------------------------------------------------------------
(* The Flex session.                                                       *)
SessionGoes(at) == session' = [session EXCEPT !.at = at]

(* A connection is made, and the first poll awaited: it is there already,  *)
(* or never comes, and then the amplifier is registered all the same.      *)
Register ==
    /\ up /\ session.at = "down"
    /\ SessionGoes("build")
    /\ UNCHANGED <<ampVars, saidVars, client, watch, alarm, used>>

BuildLine ==
    /\ session.at = "build"
    /\ session' = [session EXCEPT !.at = "trace", !.line = Advertised]
    /\ UNCHANGED <<ampVars, saidVars, client, watch, alarm, used>>

(* What is recorded as advertised is not what the line says, but what is   *)
(* advertised now.                                                         *)
TraceRead ==
    /\ session.at = "trace"
    /\ session' = [session EXCEPT !.at = "record", !.state = Advertised]
    /\ UNCHANGED <<ampVars, saidVars, client, watch, alarm, used>>

(* Mutant of TraceWrite: only the registration is recorded.                *)
TraceWriteOnce ==
    /\ session.at = "record"
    /\ told' = [told EXCEPT !.flex = IF @ = None THEN session.state ELSE @]
    /\ line' = session.line
    /\ session' = [Resting EXCEPT !.at = "up"]
    /\ UNCHANGED <<ampVars, client, watch, alarm, used>>

TraceWrite ==
    /\ session.at = "record"
    /\ told' = [told EXCEPT !.flex = session.state]
    /\ line' = session.line
    /\ session' = [Resting EXCEPT !.at = "up"]
    /\ UNCHANGED <<ampVars, client, watch, alarm, used>>

(* When it is due or requested.  "sub amplifier all" goes to the radio     *)
(* first; when that fails, nothing is recorded.                            *)
Announce ==
    /\ session.at = "up"
    /\ \E sent \in BOOLEAN : SessionGoes(IF sent THEN "build" ELSE "down")
    /\ UNCHANGED <<ampVars, saidVars, client, watch, alarm, used>>

(* The connection is closed or broken where the session reads from it.     *)
Disconnect ==
    /\ session.at = "up"
    /\ SessionGoes("down")
    /\ UNCHANGED <<ampVars, saidVars, client, watch, alarm, used>>

-----------------------------------------------------------------------------
(* The status of a PGXL client: read, compare, write.                      *)
StatusRead(c) ==
    /\ up /\ client[c].at = "idle"
    /\ client' = [client EXCEPT ![c] = [at |-> "compare", state |-> Advertised]]
    /\ UNCHANGED <<ampVars, saidVars, session, watch, alarm, used>>

StatusCompare(c) ==
    /\ client[c].at = "compare"
    /\ client' = [client EXCEPT ![c] =
                     IF told.pgxl = @.state THEN Idle ELSE [@ EXCEPT !.at = "write"]]
    /\ UNCHANGED <<ampVars, saidVars, session, watch, alarm, used>>

StatusWrite(c) ==
    /\ client[c].at = "write"
    /\ told' = [told EXCEPT !.pgxl = client[c].state]
    /\ client' = [client EXCEPT ![c] = Idle]
    /\ UNCHANGED <<ampVars, line, session, watch, alarm, used>>

-----------------------------------------------------------------------------
(* The watchdog, once a second.  A mismatch is kept as a text that names   *)
(* what was seen; a text that differs from that of the last look, although *)
(* it may be about the same field, begins anew.  One that has been there   *)
(* for two seconds is raised.                                              *)
Mismatch == told.flex \notin {None, Advertised} \/ told.pgxl \notin {None, Advertised}

Look ==
    /\ up /\ watch.at = "sleep"
    /\ \/ ~Mismatch /\ watch' = [at |-> "clear", pending |-> FALSE]
       \/ Mismatch /\ watch' = [watch EXCEPT !.pending = TRUE]
       \/ Mismatch /\ watch.pending /\ watch' = [watch EXCEPT !.at = "raise"]
    /\ UNCHANGED <<ampVars, saidVars, session, client, alarm, used>>

Raise ==
    /\ watch.at = "raise"
    /\ alarm' = TRUE
    /\ watch' = [watch EXCEPT !.at = "sleep"]
    /\ UNCHANGED <<ampVars, saidVars, session, client, used>>

Clear ==
    /\ watch.at = "clear"
    /\ alarm' = FALSE
    /\ watch' = [watch EXCEPT !.at = "sleep"]
    /\ UNCHANGED <<ampVars, saidVars, session, client, used>>

-----------------------------------------------------------------------------
Amplifier == AmpChanges \/ Commanded \/ PollComplete \/ PollPartly
Announcing == Register \/ Announce \/ BuildLine \/ TraceRead \/ TraceWrite
Session == Announcing \/ Disconnect
Status(c) == StatusRead(c) \/ StatusCompare(c) \/ StatusWrite(c)
Watchdog == Look \/ Raise \/ Clear

Next ==
    \/ Start
    \/ Amplifier
    \/ Session
    \/ \E c \in Clients : Status(c)
    \/ Watchdog

Spec == Init /\ [][Next]_vars
(* The bridge starts; driver, session, clients and watchdog loop: the      *)
(* amplifier is polled in full again and again, the session connects and   *)
(* announces, and every client goes on asking.                             *)
FairSpec ==
    /\ Spec
    /\ WF_vars(Start)
    /\ WF_vars(PollComplete)
    /\ WF_vars(Announcing)
    /\ \A c \in Clients : WF_vars(Status(c))
    /\ WF_vars(Watchdog)

-----------------------------------------------------------------------------
TypeOK ==
    /\ config \in [kpa : BOOLEAN, wait : BOOLEAN] /\ up \in BOOLEAN
    /\ dev \in [operate : BOOLEAN, fault : BOOLEAN]
    /\ amp \in [operate : BOOLEAN, fault : BOOLEAN, state : States]
    /\ firstPoll \in BOOLEAN
    /\ told \in [flex : Said \cup {None}, pgxl : Said \cup {None}]
    /\ line \in Said \cup {None}
    /\ session \in [at : {"down", "build", "trace", "record", "up"},
                    line : Said \cup {None}, state : Said \cup {None}]
    /\ client \in [Clients -> [at : {"idle", "compare", "write"}, state : Said \cup {None}]]
    /\ watch \in [at : {"sleep", "raise", "clear"}, pending : BOOLEAN]
    /\ alarm \in BOOLEAN
    /\ used.changes \in 0 .. MaxChanges /\ used.partial \in 0 .. MaxPartial

(* When the amplifier changes no more, the radio and the PGXL clients are  *)
(* in the end told what it is, and nothing else again - whatever was read  *)
(* before a change and written after it - and the watchdog has no alarm.   *)
Actual == IF dev.fault THEN "FAULT" ELSE Name(dev.operate)
AdvertisementsSettle ==
    <>[](config.kpa => told.flex = Actual /\ told.pgxl = Actual /\ line = Actual /\ ~alarm)

(* Nobody is told the state that the bridge begins with of an amplifier    *)
(* that was not polled in full: the preflight sees to it when it is there, *)
(* and wait_for_first_kpa_poll when it is not configured.                  *)
KnownBeforeTold ==
    ~firstPoll /\ (config.kpa \/ config.wait) =>
        {told.flex, told.pgxl, line} \subseteq {None, "UNKNOWN"}
=============================================================================
