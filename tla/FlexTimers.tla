----------------------------- MODULE FlexTimers -----------------------------
(* The timers of one session with the radio: run_session's select! loop     *)
(* decides when the amplifier is announced again.  Three timers send        *)
(* `sub amplifier all`: the burst after the registration, the periodic      *)
(* keepalive and the poll for requests of the KPA500 driver; every turn of  *)
(* the loop also creates the 60 s read timeout anew.  FlexSession models    *)
(* what is said to the radio; this module models when.                      *)
(*                                                                          *)
(* One unit of time is 50 ms, the greatest common divisor of the delays in  *)
(* the code.  Time does not pass while a timer is due.  Timers due together *)
(* fire in any order, as select! picks one at random.  Lines of the radio,  *)
(* pings, meter packets and tuner refreshes only create the read timeout    *)
(* anew and are left out: readLeft is what is left at the least.            *)
EXTENDS Integers

CONSTANTS
    Strategies,   \* pgxl_startup_trigger_strategy values to consider
    Reannounce,   \* amplifier_reannounce_interval, in units
    ReadTimeout,  \* the timeout around reader.next_line(), in units
    MaxRequests,  \* bound: requests of the KPA500 driver
    MaxOpened,  \* bound: sessions; the last one is not lost
    Horizon       \* bound: quiet and waiting count no further

AllStrategies == {"current", "rapid_sub_only", "reannounce_status_only",
                  "reannounce_create_style_status", "no_burst"}
Reasons == {"kpa_state_changed", "kpa_telemetry_changed"}

First == 5        \* 250 ms, until the first announcement of the burst
Idle == 2         \* 100 ms, between looks at the request flag
MaxDelay == 10    \* 500 ms, the longest delay of the request timer
Off == -1         \* a timer put off by a day
Never == -1       \* no transition is waiting to be announced

(* The strategy's number of announcements, their distance, and whether they *)
(* put `sub amplifier all` on the wire.                                     *)
MaxCount(s) == CASE s = "no_burst" -> 0
                 [] s = "rapid_sub_only" -> 20
                 [] OTHER -> 10
Interval(s) == IF s = "rapid_sub_only" THEN 5 ELSE 20
SendsSub(s) == s \in {"current", "rapid_sub_only"}

(* The longest time between two `sub amplifier all`.                        *)
Gap(s) == CASE s = "no_burst" -> Reannounce
            [] SendsSub(s) -> Interval(s) + Reannounce
            [] OTHER -> First + MaxCount(s) * Interval(s) + Reannounce

ASSUME TimersAssumption ==
    /\ Strategies \subseteq AllStrategies /\ Strategies # {}
    /\ Reannounce \in Nat /\ Reannounce > 0
    /\ ReadTimeout \in Nat /\ ReadTimeout > MaxDelay
    /\ MaxRequests \in Nat
    /\ MaxOpened \in Nat
    /\ Horizon \in Nat /\ Horizon > First + Reannounce + 20
    /\ \A s \in Strategies : Horizon > Gap(s)

(* The delay after a requested announcement, by how many are left.          *)
RequestedDelay(left) ==
    IF left \in {4, 5} THEN 5 ELSE IF left \in 1..3 THEN 10 ELSE Idle

VARIABLES
    strategy,    \* startup_trigger
    phase,       \* "down", "open" (connected), "registered"
    startup,     \* amplifier_startup_burst_timer
    count,       \* amplifier_startup_burst_count
    bursting,    \* amplifier_startup_burst_active
    periodic,    \* amplifier_reannounce_timer
    request,     \* amplifier_requested_reannounce_timer
    remaining,   \* requested_reannounce_burst_remaining
    burst,       \* requested_reannounce_burst_reason
    readLeft,    \* what is left of the read timeout
    requested,   \* shared: amplifier_reannounce_requested
    reason,      \* shared: last_amplifier_reannounce_request_reason
    everPgxl,    \* shared: pgxl_session_started_count > 0
    waiting,     \* shared: a transition without first_flex_reannounce_tx_ms,
                 \* as the time it has waited while registered
    lost,        \* history: the request for that transition was taken and not sent
    quiet,       \* history: time since the last `sub amplifier all`
    requests,    \* requests made (bound)
    sessions     \* sessions opened (bound)

timers == <<startup, periodic, request>>
bursts == <<count, bursting, remaining, burst>>
shared == <<requested, reason, everPgxl>>
log == <<waiting, lost, quiet>>
bounds == <<requests, sessions>>
timersVars == <<strategy, phase, timers, bursts, readLeft, shared, log, bounds>>

TimersInit ==
    /\ strategy \in Strategies
    /\ phase = "down"
    /\ startup = Off /\ count = 0 /\ bursting = FALSE
    /\ periodic = Off /\ request = Off
    /\ remaining = 0 /\ burst = "none"
    /\ readLeft = ReadTimeout
    /\ requested = FALSE /\ reason = "none" /\ everPgxl = FALSE
    /\ waiting = Never /\ lost = FALSE /\ quiet = 0
    /\ requests = 0 /\ sessions = 0

Up == phase # "down"
Registered == phase = "registered"

(* The locals of run_session begin anew with every session; what is shared  *)
(* with the other tasks does not.                                           *)
OpenSession ==
    /\ ~Up /\ sessions < MaxOpened
    /\ phase' = "open" /\ sessions' = sessions + 1
    /\ startup' = Off /\ periodic' = Reannounce /\ request' = First
    /\ count' = 0 /\ bursting' = FALSE /\ remaining' = 0 /\ burst' = "none"
    /\ readLeft' = ReadTimeout
    /\ UNCHANGED <<strategy, shared, log, requests>>

(* The registration ends with `sub amplifier all` and arms the burst.       *)
Registration ==
    /\ phase = "open" /\ phase' = "registered"
    /\ count' = 0
    /\ IF strategy = "no_burst"
       THEN bursting' = FALSE /\ startup' = Off
       ELSE bursting' = TRUE /\ startup' = First
    /\ periodic' = Reannounce
    /\ quiet' = 0
    /\ waiting' = IF waiting = Never THEN Never ELSE 0
    /\ readLeft' = ReadTimeout
    /\ UNCHANGED <<strategy, request, remaining, burst, shared, lost, bounds>>

(* record_flex_reannounce_sent: every waiting transition is announced now.  *)
Announced == waiting' = Never /\ lost' = FALSE

\* Mutant of StartupSends.
StartupSendsEndless == Registered /\ ~everPgxl
StartupSends == Registered /\ ~everPgxl /\ count < MaxCount(strategy)

\* Mutant of EndBurst.
EndBurstStillActive == bursting' = bursting /\ startup' = Off /\ periodic' = Reannounce
EndBurst == bursting' = FALSE /\ startup' = Off /\ periodic' = Reannounce

StartupDue ==
    /\ Up /\ startup = 0
    /\ IF StartupSends
       THEN /\ count' = count + 1
            /\ startup' = Interval(strategy)
            /\ quiet' = IF SendsSub(strategy) THEN 0 ELSE quiet
            /\ Announced
            /\ UNCHANGED <<bursting, periodic>>
       ELSE EndBurst /\ UNCHANGED <<count, log>>
    /\ readLeft' = ReadTimeout
    /\ UNCHANGED <<strategy, phase, request, remaining, burst, shared, bounds>>

PeriodicDue ==
    /\ Up /\ periodic = 0
    /\ periodic' = Reannounce
    /\ IF Registered /\ ~bursting
       THEN quiet' = 0 /\ Announced
       ELSE UNCHANGED log
    /\ readLeft' = ReadTimeout
    /\ UNCHANGED <<strategy, phase, startup, request, bursts, shared, bounds>>

\* Mutant of Left.
LeftOfStateOnly == IF requested /\ reason = "kpa_state_changed" THEN 6 ELSE remaining
(* A new request replaces what is left of the burst before it.              *)
Left == IF ~requested THEN remaining
        ELSE IF reason = "kpa_state_changed" THEN 6 ELSE 1
RequestDue ==
    /\ Up /\ request = 0
    /\ IF Registered /\ ~bursting
       THEN /\ requested' = FALSE
            /\ IF Left > 0
               THEN /\ remaining' = Left - 1
                    /\ burst' = IF Left = 1 THEN "none"
                                ELSE IF requested THEN reason ELSE burst
                    /\ request' = RequestedDelay(Left - 1)
                    /\ quiet' = 0
                    /\ Announced
               ELSE /\ request' = Idle
                    /\ UNCHANGED <<remaining, burst, log>>
       ELSE request' = Idle /\ UNCHANGED <<requested, remaining, burst, log>>
    /\ readLeft' = ReadTimeout
    /\ UNCHANGED <<strategy, phase, startup, periodic, count, bursting, reason,
                   everPgxl, bounds>>

(* record_amp_poll_change in the KPA500 driver: one flag and one reason,    *)
(* whatever they held.  A change of state is also logged.                   *)
Request(why) ==
    /\ requests < MaxRequests /\ requests' = requests + 1
    /\ requested' = TRUE /\ reason' = why
    /\ waiting' = IF why = "kpa_state_changed" /\ waiting = Never THEN 0 ELSE waiting
    /\ UNCHANGED <<strategy, phase, timers, bursts, readLeft, everPgxl, lost,
                   quiet, sessions>>

(* The first PGXL client; the count of sessions started never falls.        *)
PgxlConnects ==
    /\ ~everPgxl /\ everPgxl' = TRUE
    /\ UNCHANGED <<strategy, phase, timers, bursts, readLeft, requested, reason,
                   log, bounds>>

(* The connection closes, or the read has timed out.                        *)
SessionEnds(cause) ==
    /\ Up /\ sessions < MaxOpened
    /\ cause = "timeout" => readLeft = 0
    /\ phase' = "down"
    /\ UNCHANGED <<strategy, timers, bursts, readLeft, shared, log, bounds>>

(* The write of a requested announcement fails: the flag is already taken.  *)
RequestSendFails ==
    /\ Registered /\ ~bursting /\ request = 0 /\ Left > 0
    /\ sessions < MaxOpened
    /\ requested' = FALSE
    /\ lost' = (lost \/ (requested /\ waiting # Never))
    /\ phase' = "down"
    /\ UNCHANGED <<strategy, timers, bursts, readLeft, reason, everPgxl, waiting,
                   quiet, bounds>>

Due == 0 \in {startup, periodic, request}
Later(age) == IF age < Horizon THEN age + 1 ELSE age
Less(t) == IF t = Off THEN Off ELSE t - 1
Tick ==
    /\ Up /\ ~Due
    /\ startup' = Less(startup) /\ periodic' = Less(periodic)
    /\ request' = Less(request)
    /\ readLeft' = readLeft - 1
    /\ waiting' = IF Registered /\ waiting # Never THEN Later(waiting) ELSE waiting
    /\ quiet' = IF Registered THEN Later(quiet) ELSE quiet
    /\ UNCHANGED <<strategy, phase, bursts, shared, lost, bounds>>

TimersNext ==
    \/ OpenSession \/ Registration
    \/ StartupDue \/ PeriodicDue \/ RequestDue
    \/ \E why \in Reasons : Request(why)
    \/ PgxlConnects
    \/ \E cause \in {"closed", "timeout"} : SessionEnds(cause)
    \/ RequestSendFails
    \/ Tick

TimersSpec == TimersInit /\ [][TimersNext]_timersVars

(* run reconnects for ever, the radio answers the registration, and tokio   *)
(* fires a timer that is due.                                               *)
Fairness ==
    /\ WF_timersVars(OpenSession) /\ WF_timersVars(Registration) /\ WF_timersVars(Tick)
    /\ WF_timersVars(StartupDue) /\ WF_timersVars(PeriodicDue) /\ WF_timersVars(RequestDue)
FairTimersSpec == TimersSpec /\ Fairness
-----------------------------------------------------------------------------
(* Types: the timers stay within their intervals.                           *)
TimersOK ==
    /\ startup \in Off..20 /\ request \in Off..MaxDelay
    /\ periodic \in Off..Reannounce /\ readLeft \in 0..ReadTimeout
    /\ waiting \in Int /\ waiting >= Never /\ quiet \in Nat
CountsOK ==
    /\ count \in 0..20 /\ remaining \in 0..6
    /\ requests \in 0..MaxRequests /\ sessions \in 0..MaxOpened
NamesOK ==
    /\ strategy \in Strategies /\ phase \in {"down", "open", "registered"}
    /\ burst \in Reasons \cup {"none"} /\ reason \in Reasons \cup {"none"}
FlagsOK == {bursting, requested, everPgxl, lost} \subseteq BOOLEAN
TimersTypeOK == TimersOK /\ CountsOK /\ NamesOK /\ FlagsOK

(* The read timeout that docs/flex-lifecycle-state-machine.md:29 lets end a *)
(* session never elapses: the request timer of at most 500 ms fires first   *)
(* and select! creates the timeout anew.  A radio that falls silent without *)
(* closing the connection is never noticed.                                 *)
ReadNeverTimesOut == Up => readLeft >= ReadTimeout - MaxDelay

(* While the bridge is registered, the radio is asked for the amplifier     *)
(* again within the keepalive interval and one step of the burst; for the   *)
(* strategies whose burst only logs, within the interval and the burst.     *)
PresenceRefreshed == Registered => quiet <= Gap(strategy)

(* A change of the amplifier's state is announced within 1.1 s of           *)
(* registered time, well within the 2 s the latency log calls a pass; only  *)
(* if the connection broke on the very announcement it waits for the        *)
(* keepalive.                                                               *)
AnnouncedInTime ==
    Registered => waiting <= IF lost THEN First + Reannounce ELSE 20 + Idle

(* Every request of the KPA500 driver is taken, across sessions.            *)
RequestServed == requested ~> ~requested
=============================================================================
