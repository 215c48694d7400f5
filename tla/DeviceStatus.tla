---------------------------- MODULE DeviceStatus ----------------------------
(* What the bridge says of its two devices, and who writes it.  The shared *)
(* records of the amplifier and the tuner are written by the two serial    *)
(* drivers (crates/elecraft-kpa500, -kat500: port, poll, command), by the  *)
(* strict start-up that a PGXL or TGXL client sets off (crates/pgxl- and   *)
(* tgxl-emulator), by the TGXL presence test and by the stale-state        *)
(* watchdog (crates/egb), and read by the interlock of the Flex session    *)
(* (crates/flex-injection) when the radio asks whether it may transmit.    *)
(*                                                                         *)
(* The drivers appear here by what they do to the two records; KpaDriver   *)
(* and KatDriver have the rest of them.  Time goes in seconds, the period  *)
(* of the watchdog: a timer that is due is served before the next second,  *)
(* in any order with everything else that happens meanwhile.               *)
EXTENDS Integers

CONSTANTS
    PgxlClients, TgxlClients,    \* connections to port 9008 and to port 9010
    StaleAfter,                  \* [amp, tuner]: three polling intervals
    StrictEmulation,             \* [amp, tuner]: pgxl.strict_emulation, tgxl.
    StartupDelay,                \* pgxl.startup_delay_ms, tgxl.
    ForcePresenceTest,           \* tgxl.force_presence_test
    AllowRfRisk,                 \* the effective permission of the KPA500
    None

Clients == PgxlClients \cup TgxlClients
Devices == {"amp", "tuner"}
Device(c) == IF c \in PgxlClients THEN "amp" ELSE "tuner"

ASSUME ConstantsAssumption ==
    /\ PgxlClients \cap TgxlClients = {}
    /\ StaleAfter \in [Devices -> Nat \ {0}]
    /\ StrictEmulation \in [Devices -> BOOLEAN]
    /\ StartupDelay \in Nat \ {0}
    /\ ForcePresenceTest \in BOOLEAN /\ AllowRfRisk \in BOOLEAN
    /\ None \notin Int

VARIABLES
    conn,      \* connection_state of amp and tuner
    age,       \* seconds since last_successful_poll_at, None if there is none
    ampState,  \* amp.state
    line,      \* the serial lines: "closed", "open", and "dead" for good
    serving,   \* clients: "out", "accepted", "starting", "served", "gone"
    sessions,  \* clients.pgxl_sessions, clients.tgxl_sessions
    life,      \* lifecycle.pgxl, lifecycle.tgxl
    startup,   \* seconds to the end of a client's strict start-up, or None
    watch,     \* the watchdog: where it is, and what it has sampled
    silence    \* seconds since the amplifier last answered
shown == <<conn, age, ampState>>
clients == <<serving, sessions, life, startup>>
vars == <<shown, line, clients, watch, silence>>

-----------------------------------------------------------------------------
(* Time.  Nothing tells apart what is older than these limits.             *)
AgeLimit(d) == StaleAfter[d] + (IF d = "amp" THEN 2 ELSE 3)
SilenceLimit == StaleAfter["amp"] + StartupDelay + 2
Older(s, limit) == IF s = None \/ s = limit THEN s ELSE s + 1
(* Mutant of IsStale: a second late.                                       *)
IsStaleLate(d) == age[d] # None /\ age[d] > StaleAfter[d] + 1
IsStale(d) == age[d] # None /\ age[d] > StaleAfter[d]

Asleep == [at |-> "sleep", due |-> FALSE, amp |-> FALSE, tuner |-> FALSE]

(* The bridge starts only when a preflight had every query answered, first *)
(* by the amplifier and then by the tuner; it closes their ports again.    *)
Init ==
    /\ conn = [d \in Devices |-> "Connected"]
    /\ silence \in {0, 1}
    /\ age = [d \in Devices |-> IF d = "amp" THEN silence ELSE 0]
    /\ ampState \in {"Standby", "Operate"}
    /\ line = [d \in Devices |-> "closed"]
    /\ serving = [c \in Clients |-> "out"]
    /\ sessions = [d \in Devices |-> {}]
    /\ life = [d \in Devices |-> "NotStarted"]
    /\ startup = [c \in Clients |-> None]
    /\ watch = Asleep

(* A second passes when nothing that was due is left.                      *)
Tick ==
    /\ watch.at = "sleep" /\ ~watch.due
    /\ \A c \in Clients : startup[c] # 0
    /\ age' = [d \in Devices |-> Older(age[d], AgeLimit(d))]
    /\ startup' = [c \in Clients |->
                      IF startup[c] = None THEN None ELSE startup[c] - 1]
    /\ watch' = [watch EXCEPT !.due = TRUE]
    /\ silence' = Older(silence, SilenceLimit)
    /\ UNCHANGED <<conn, ampState, line, serving, sessions, life>>

-----------------------------------------------------------------------------
(* The drivers.                                                            *)
OpenPort(d) ==
    /\ line[d] = "closed"
    /\ line' = [line EXCEPT ![d] = "open"]
    /\ conn' = [conn EXCEPT ![d] = "Connecting"]
    /\ UNCHANGED <<age, ampState, clients, watch, silence>>

OpenFailed(d) ==
    /\ line[d] = "closed"
    /\ conn' = [conn EXCEPT ![d] = "Disconnected"]
    /\ UNCHANGED <<age, ampState, line, clients, watch, silence>>

(* The end of a poll.  Any answer makes it a successful one, and only what *)
(* was answered is parsed: the state may be as old as the last "^OS".      *)
SayConnected(d) ==
    /\ conn' = [conn EXCEPT ![d] = "Connected"]
    /\ age' = [age EXCEPT ![d] = 0]

PollAnswered(d) ==
    /\ line[d] = "open"
    /\ SayConnected(d)
    /\ IF d = "amp"
       THEN ampState' \in {ampState, "Operate", "Standby"} /\ silence' = 0
       ELSE UNCHANGED <<ampState, silence>>
    /\ UNCHANGED <<line, clients, watch>>

(* Mutant of PollSilent: connected is all it says.                         *)
PollSilentConnected(d) ==
    /\ line[d] # "closed"
    /\ conn' = [conn EXCEPT ![d] = "Connected"]
    /\ UNCHANGED <<age, ampState, line, clients, watch, silence>>

PollSilent(d) ==
    /\ line[d] # "closed"
    /\ conn' = [conn EXCEPT ![d] = "Degraded"]
    /\ UNCHANGED <<age, ampState, line, clients, watch, silence>>

(* A client's operate or standby request, executed and verified: the state *)
(* is written, the time of the last poll is not.                           *)
Verified ==
    /\ line["amp"] = "open"
    /\ ampState' \in {"Operate", "Standby"}
    /\ silence' = 0
    /\ UNCHANGED <<conn, age, line, clients, watch>>

(* The device stops answering; the driver never opens the port again.      *)
Dies(d) ==
    /\ line[d] = "open"
    /\ line' = [line EXCEPT ![d] = "dead"]
    /\ UNCHANGED <<shown, clients, watch, silence>>

-----------------------------------------------------------------------------
(* Clients.  The connection is recorded under one lock; the strict         *)
(* start-up, if there is one, takes the lock again.                        *)
Accept(c) ==
    /\ serving[c] = "out"
    /\ serving' = [serving EXCEPT ![c] = "accepted"]
    /\ sessions' = [sessions EXCEPT ![Device(c)] = @ \cup {c}]
    /\ life' = [life EXCEPT ![Device(c)] = "TcpConnected"]
    /\ UNCHANGED <<shown, line, startup, watch, silence>>

(* Mutant of StartStrict: the state is left as it was.                     *)
StartStrictInPlace(c) ==
    /\ serving[c] = "accepted" /\ StrictEmulation[Device(c)]
    /\ serving' = [serving EXCEPT ![c] = "starting"]
    /\ conn' = [conn EXCEPT ![Device(c)] = "Connecting"]
    /\ ampState' = ampState
    /\ startup' = [startup EXCEPT ![c] = StartupDelay]
    /\ UNCHANGED <<age, line, sessions, life, watch, silence>>

(* The amplifier is said to be powering up until the delay is over,        *)
(* whatever it is doing; of the tuner only the connection matters here.    *)
StartStrict(c) ==
    /\ serving[c] = "accepted" /\ StrictEmulation[Device(c)]
    /\ serving' = [serving EXCEPT ![c] = "starting"]
    /\ conn' = [conn EXCEPT ![Device(c)] = "Connecting"]
    /\ ampState' = IF Device(c) = "amp" THEN "PowerUp" ELSE ampState
    /\ startup' = [startup EXCEPT ![c] = StartupDelay]
    /\ UNCHANGED <<age, line, sessions, life, watch, silence>>

(* The greeting is sent; with the presence test the tuner is first said to *)
(* be there.                                                               *)
Greet(c) ==
    /\ serving[c] = IF StrictEmulation[Device(c)] THEN "starting" ELSE "accepted"
    /\ serving' = [serving EXCEPT ![c] = "served"]
    /\ IF Device(c) = "tuner" /\ ForcePresenceTest
       THEN SayConnected("tuner")
       ELSE UNCHANGED <<conn, age>>
    /\ UNCHANGED <<ampState, line, sessions, life, startup, watch, silence>>

(* The start-up is a task of its own and outlives its client.              *)
EndStrict(c) ==
    /\ startup[c] = 0
    /\ startup' = [startup EXCEPT ![c] = None]
    /\ SayConnected(Device(c))
    /\ ampState' = IF Device(c) = "amp" /\ ampState = "PowerUp" THEN "Standby" ELSE ampState
    /\ UNCHANGED <<line, serving, sessions, life, watch, silence>>

Leave(c) ==
    /\ serving[c] = "served"
    /\ serving' = [serving EXCEPT ![c] = "gone"]
    /\ sessions' = [sessions EXCEPT ![Device(c)] = @ \ {c}]
    /\ life' = [life EXCEPT ![Device(c)] =
                   IF sessions[Device(c)] = {c} THEN "Degraded" ELSE @]
    /\ UNCHANGED <<shown, line, startup, watch, silence>>

-----------------------------------------------------------------------------
(* The stale-state watchdog: both devices are sampled under the read lock, *)
(* and each that was stale is looked at again under the write lock.        *)
StillStale(d) == conn[d] = "Connected" /\ IsStale(d)

Sample ==
    /\ watch.at = "sleep" /\ watch.due
    /\ watch' = [at |-> "amp", due |-> FALSE,
                 amp |-> StillStale("amp"), tuner |-> StillStale("tuner")]
    /\ UNCHANGED <<shown, line, clients, silence>>

(* Mutant of Recheck: what was sampled counts.                             *)
RecheckNot(d) ==
    /\ conn' = IF watch[d] THEN [conn EXCEPT ![d] = "Degraded"] ELSE conn
    /\ UNCHANGED <<age, ampState, line, clients, silence>>
Recheck(d) ==
    /\ conn' = IF watch[d] /\ StillStale(d) THEN [conn EXCEPT ![d] = "Degraded"] ELSE conn
    /\ UNCHANGED <<age, ampState, line, clients, silence>>

(* An amplifier that is no longer stale ends the round, so that the tuner  *)
(* is not looked at.                                                       *)
CheckAmp ==
    /\ watch.at = "amp"
    /\ Recheck("amp")
    /\ watch' = IF watch.amp /\ ~StillStale("amp")
                THEN Asleep ELSE [watch EXCEPT !.at = "tuner"]

CheckTuner ==
    /\ watch.at = "tuner"
    /\ Recheck("tuner")
    /\ watch' = Asleep

-----------------------------------------------------------------------------
Driver(d) == OpenPort(d) \/ OpenFailed(d) \/ PollAnswered(d) \/ PollSilent(d)
Emulator(c) == Accept(c) \/ StartStrict(c) \/ Greet(c) \/ EndStrict(c) \/ Leave(c)
Watchdog == Sample \/ CheckAmp \/ CheckTuner

Next ==
    \/ Tick
    \/ \E d \in Devices : Driver(d)
    \/ Verified
    \/ \E c \in Clients : Emulator(c)
    \/ Watchdog
    \/ \E d \in Devices : Dies(d)

Spec == Init /\ [][Next]_vars
(* Time passes: as a second ends only when the watchdog has run and every  *)
(* start-up whose delay is over has ended, this is fair to them as well.   *)
Clock == Tick \/ Watchdog \/ \E c \in Clients : EndStrict(c)
FairSpec == Spec /\ WF_vars(Clock)

-----------------------------------------------------------------------------
ShownOK ==
    /\ conn \in [Devices -> {"Disconnected", "Connecting", "Connected", "Degraded"}]
    /\ age \in [Devices -> {None} \cup Nat]
    /\ \A d \in Devices : age[d] = None \/ age[d] <= AgeLimit(d)
    /\ ampState \in {"Standby", "Operate", "PowerUp"}
LineOK ==
    /\ line \in [Devices -> {"closed", "open", "dead"}]
    /\ silence \in 0 .. SilenceLimit
ClientsOK ==
    /\ serving \in [Clients -> {"out", "accepted", "starting", "served", "gone"}]
    /\ sessions \in [Devices -> SUBSET Clients]
    /\ life \in [Devices -> {"NotStarted", "TcpConnected", "Degraded"}]
    /\ startup \in [Clients -> {None} \cup (0 .. StartupDelay)]
WatchOK ==
    watch \in [at : {"sleep", "amp", "tuner"}, due : BOOLEAN, amp : BOOLEAN, tuner : BOOLEAN]
TypeOK == ShownOK /\ LineOK /\ ClientsOK /\ WatchOK

(* A device is shown as connected only if it was polled, or said to be     *)
(* there, at most one watchdog period longer ago than the stale limit; the *)
(* tuner one more, because a round may end at the amplifier.               *)
ConnectedIsFresh ==
    /\ conn["amp"] = "Connected" => age["amp"] \in 0 .. StaleAfter["amp"] + 1
    /\ conn["tuner"] = "Connected" => age["tuner"] \in 0 .. StaleAfter["tuner"] + 2

(* The watchdog never degrades a device that was polled between its two    *)
(* looks.                                                                  *)
OnlyStaleDegraded ==
    [][\A d \in Devices : Watchdog /\ conn'[d] # conn[d] => IsStale(d)]_vars

(* The radio is told that it may transmit - interlock_runtime_allows_tx -  *)
(* only while the amplifier answered something within the stale limit and  *)
(* a watchdog period, or a strict start-up longer ago: that renews the     *)
(* time of the last poll without a poll.                                   *)
AllowsTx == AllowRfRisk /\ conn["amp"] = "Connected" /\ ampState = "Operate"
Strict == IF StrictEmulation["amp"] THEN StartupDelay ELSE 0
ReadyWasJustified == AllowsTx => silence <= StaleAfter["amp"] + 1 + Strict

(* An amplifier that stopped answering is in the end no longer shown as    *)
(* connected, although every client's start-up says that it is.            *)
StaleShown == line["amp"] = "dead" ~> [](conn["amp"] # "Connected")
=============================================================================
