----------------------------- MODULE KatDriver -----------------------------
(***************************************************************************)
(* The KAT500 driver task: run_serial_loop of                              *)
(* crates/elecraft-kat500/src/lib.rs.  One task owns the serial port and,  *)
(* turn after turn, sends the Flex frequency with F when it changed,       *)
(* executes the requests TGXL clients left in the shared state (autotune,  *)
(* antenna, bypass), and polls the tuner.  A tune is watched with TP until *)
(* the tuner says it is over or 15 s have passed.                          *)
(*                                                                         *)
(* The tuner and the serial line are the environment: the tuner answers in *)
(* order, may miss a command or not answer it, tunes for as long as it     *)
(* likes, has a front panel and may announce changes; an answer may come   *)
(* later than the driver waits for it.                                     *)
(*                                                                         *)
(* Not modelled: manual relay moves, which are taken and always refused;   *)
(* the measurements VSWR and VFWD, which are stored and only displayed.    *)
(***************************************************************************)
EXTENDS Naturals, Sequences, FiniteSets

CONSTANTS
    DryRun, AllowControl, AllowRfRisk, FollowFlexFrequency,  \* Kat500Settings
    Freqs,        \* frequencies in kHz that frequency_context_wire accepts
    Antennas,
    None,         \* Rust's None, and every frequency out of range
    PollSeq,      \* the poll's queries; the code's are AN BYP MD TP FLT VSWR VFWD
    MaxRequests,  \* bound: requests of TGXL clients
    MaxContext,   \* bound: Flex frequency changes
    MaxPanel,     \* bound: front-panel changes and announcements
    MaxStalls,    \* bound: times the line stalls, so that answers come late
    MaxLine,      \* bound: answers a stalled line can hold back
    MaxLost,      \* bound: commands that are lost or not answered
    MaxPortLoss,  \* bound: times the USB port disappears
    MaxTotal      \* bound: all of these together

PollQuery == {"AN", "BYP", "MD", "TP", "FLT", "VSWR", "VFWD"}
Command == {"T", "SetAN", "SetBYP"}

ASSUME SettingsAssumption ==
    {DryRun, AllowControl, AllowRfRisk, FollowFlexFrequency} \subseteq BOOLEAN
ASSUME NoneAssumption == None \notin Freqs \cup Antennas \cup BOOLEAN
ASSUME PollAssumption == PollSeq \in Seq(PollQuery) /\ PollSeq # << >>
ASSUME BoundsAssumption ==
    {MaxRequests, MaxContext, MaxPanel, MaxStalls, MaxLine, MaxLost,
     MaxPortLoss, MaxTotal}
        \subseteq Nat

Polled == {PollSeq[i] : i \in DOMAIN PollSeq}

VARIABLES
    \* BridgeState.tuner: connected, connection_state, and what a poll reads
    connected, connState, tuner,
    \* BridgeState.desired.tuner_*
    wantTune, wantAntenna, wantBypass,
    \* BridgeState.lifecycle.tune: state and reason, age of entered_at_ms;
    \* controls.last_tune_result, controls.last_tune_frequency_hz
    tune, entered, lastResult, tuneFreq,
    \* BridgeState.radio_context; recent: last_tune_at is within 1500 ms
    freq, followWire, requestedKhz, followMatch, recent,
    \* the driver task: program counter, query job, locals
    pc, locked, job, todo, unsolicited, batch, answered,
    takenAntenna, takenBypass, purpose, target, attempt, heard, late,
    \* the tuner, the driver's port handle, and what the tuner sent that the
    \* driver has not read; nothing arrives while the line is stalled
    dev, portUp, stalled, line,
    \* how much of each bound is used
    used,
    \* history: the accepted tune ran into the 15 s limit
    expired

linkState == <<connected, connState>>
desired   == <<wantTune, wantAntenna, wantBypass>>
lifecycle == <<tune, entered>>
results   == <<lastResult, tuneFreq>>
follow    == <<followWire, requestedKhz, followMatch>>
radio     == <<freq, recent>>
query     == <<job, todo, unsolicited, batch, answered>>
taken     == <<takenAntenna, takenBypass>>
freqVars  == <<purpose, target, attempt, heard>>
link      == <<portUp, stalled>>
shared    == <<linkState, tuner, desired, lifecycle, results, follow, radio>>
world     == <<late, dev, link, line, used, expired>>
vars == <<shared, pc, locked, query, taken, freqVars, world>>

Modes == {"A", "B"}              \* MDA and MDM read alike; MDB is bypass
Line == [q : {"TP", "BYP", "FLT"}, v : BOOLEAN]      \* FLT: a fault code
        \cup [q : {"AN"}, v : Antennas]
        \cup [q : {"MD"}, v : Modes]
        \cup [q : {"F"}, v : Freqs]
        \cup [q : {"T", "RV", "SN", "VSWR", "VFWD"}, v : {0}]

ASSUME NotALineAssumption == None \notin Line

Device == [TP : BOOLEAN, BYP : BOOLEAN, FLT : BOOLEAN, AN : Antennas,
           MD : Modes, F : Freqs]
Tuner == [tuning : BOOLEAN, bypass : BOOLEAN, operate : BOOLEAN,
          antenna : Antennas \cup {None}, fault : BOOLEAN]

Budget == {"requests", "context", "panel", "stalls", "lost", "portLoss"}
Limit(b) == CASE b = "requests" -> MaxRequests
              [] b = "context"  -> MaxContext
              [] b = "panel"    -> MaxPanel
              [] b = "stalls"   -> MaxStalls
              [] b = "lost"     -> MaxLost
              [] b = "portLoss" -> MaxPortLoss
TotalUsed == used["requests"] + used["context"] + used["panel"]
             + used["stalls"] + used["lost"] + used["portLoss"]
Spend(b) == /\ used[b] < Limit(b) /\ TotalUsed < MaxTotal
            /\ used' = [used EXCEPT ![b] = @ + 1]

Init ==
    /\ connected = FALSE /\ connState = "Disconnected"
    /\ tuner = [tuning |-> FALSE, bypass |-> FALSE, operate |-> FALSE,
                antenna |-> None, fault |-> FALSE]
    /\ wantTune = FALSE /\ wantAntenna = None /\ wantBypass = None
    /\ tune = [state |-> "Idle", reason |-> "initial"] /\ entered = "none"
    /\ lastResult = None /\ tuneFreq = None
    /\ freq \in Freqs /\ followWire = None /\ requestedKhz = None
    /\ followMatch = None /\ recent = FALSE
    /\ pc = "open" /\ locked = FALSE
    /\ job = "discover" /\ todo = << >> /\ unsolicited = << >>
    /\ batch = << >> /\ answered = {}
    /\ takenAntenna = None /\ takenBypass = None
    /\ purpose = "follow" /\ target = None /\ attempt = 0 /\ heard = None
    /\ late = FALSE
    /\ dev \in {d \in Device : ~d.TP /\ ~d.FLT /\ ~d.BYP /\ d.MD = "A"}
    /\ portUp \in BOOLEAN /\ stalled = FALSE /\ line = << >>
    /\ used = [b \in Budget |-> 0]
    /\ expired = FALSE

-----------------------------------------------------------------------------
(* Command permissions: ensure_can_send, command_allowed.                  *)
MayControl == ~DryRun /\ AllowControl           \* F, AN<n>, BYPB, BYPN
MayTune    == ~DryRun /\ AllowRfRisk            \* T

(* TuneLifecycleStatus::transition; `reason' is what the code says.        *)
TuneTo(s, r) ==
    IF tune = [state |-> s, reason |-> r] THEN UNCHANGED lifecycle
    ELSE tune' = [state |-> s, reason |-> r] /\ entered' = "fresh"

(* Two transitions under one lock, the first to another state: the second  *)
(* is always recorded.                                                     *)
TuneThrough(s, r) ==
    tune' = [state |-> s, reason |-> r] /\ entered' = "fresh"

-----------------------------------------------------------------------------
(* Opening the port.                                                       *)

StartJob(j, queries) ==
    /\ job' = j /\ todo' = queries
    /\ unsolicited' = << >> /\ batch' = << >> /\ answered' = {}
    /\ pc' = "ask"

StartPoll == StartJob("poll", PollSeq)

(* Whatever was taken and not executed is gone with the turn.              *)
DropTaken == takenAntenna' = None /\ takenBypass' = None

OpenPort ==
    /\ pc = "open" /\ portUp /\ ~stalled
    /\ connected' = TRUE /\ connState' = "Connecting"
    /\ StartJob("discover", <<"RV", "SN">>)
    /\ UNCHANGED <<tuner, desired, lifecycle, results, follow, radio, locked,
                   taken, freqVars, world>>

OpenFailed ==           \* no port, or nobody answers the wake-up probe
    /\ pc = "open" /\ (~portUp \/ stalled)
    /\ connected' = FALSE /\ connState' = "Disconnected"
    /\ UNCHANGED <<tuner, desired, lifecycle, results, follow, radio, pc,
                   locked, query, taken, freqVars, world>>

-----------------------------------------------------------------------------
(* One query or command on the line: send_wire_command.                    *)

Effect(c) == CASE c = "T"      -> [dev EXCEPT !.TP = TRUE]
               [] c = "SetAN"  -> [dev EXCEPT !.AN = takenAntenna]
               [] c = "SetBYP" -> [dev EXCEPT !.BYP = takenBypass]
               [] OTHER        -> dev

DeviceAnswer(c) ==
    CASE c = "SetAN"  -> [q |-> "AN", v |-> takenAntenna]
      [] c = "SetBYP" -> [q |-> "BYP", v |-> takenBypass]
      [] c \in {"TP", "BYP", "FLT", "AN", "MD"} -> [q |-> c, v |-> dev[c]]
      [] OTHER -> [q |-> c, v |-> 0]

(* expected_prefixes: the prefix of T is also that of TP.                  *)
Expected(c) == CASE c = "T"      -> {"T", "TP"}
                 [] c = "SetAN"  -> {"AN"}
                 [] c = "SetBYP" -> {"BYP"}
                 [] OTHER        -> {c}

Arrived == line # << >> /\ ~stalled
Answered == Arrived /\ Head(line).q \in Expected(Head(todo))

(* What a stalled line cannot hold is lost.                                *)
Send(m) == line' = IF stalled /\ Len(line) >= MaxLine THEN line
                   ELSE Append(line, m)

Lost == IF portUp THEN Spend("lost") ELSE UNCHANGED used

Ask ==
    /\ pc = "ask"
    /\ pc' = "wait" /\ unsolicited' = << >>
    /\ \/ /\ portUp
          /\ dev' = Effect(Head(todo))
          /\ \/ Send(DeviceAnswer(Head(todo))) /\ UNCHANGED used
             \/ Spend("lost") /\ UNCHANGED line
       \/ Lost /\ UNCHANGED <<dev, line>>
    /\ UNCHANGED <<shared, locked, job, todo, batch, answered, taken,
                   freqVars, late, link, expired>>

(* A line that is not the answer is kept aside; only a poll looks at it.   *)
ReceiveOther ==
    /\ pc = "wait" /\ Arrived /\ ~Answered
    /\ line' = Tail(line)
    /\ unsolicited' = IF job = "poll" THEN Append(unsolicited, Head(line))
                      ELSE unsolicited
    /\ UNCHANGED <<shared, pc, locked, job, todo, batch, answered, taken,
                   freqVars, late, dev, link, used, expired>>

AfterQuery(next) ==
    /\ todo' = Tail(todo)
    /\ pc' = IF Tail(todo) # << >> THEN "ask" ELSE next

(* Version and serial number are only recorded, answered or not.           *)
Discovered ==
    /\ pc = "wait" /\ job = "discover"
    /\ \/ Answered /\ line' = Tail(line)
       \/ ~Arrived /\ UNCHANGED line
    /\ AfterQuery("turn")
    /\ UNCHANGED <<shared, locked, job, unsolicited, batch, answered, taken,
                   freqVars, late, dev, link, used, expired>>

(* parse_kat500_response                                                   *)
Parsed(t, m) ==
    CASE m.q = "TP"  -> [t EXCEPT !.tuning = m.v]
      [] m.q = "BYP" -> [t EXCEPT !.bypass = m.v]
      [] m.q = "MD"  -> IF m.v = "B"
                        THEN [t EXCEPT !.bypass = TRUE, !.operate = FALSE]
                        ELSE [t EXCEPT !.operate = TRUE]
      [] m.q = "AN"  -> [t EXCEPT !.antenna = m.v]
      [] m.q = "FLT" -> [t EXCEPT !.fault = m.v]
      [] OTHER       -> t

-----------------------------------------------------------------------------
(* poll_status_on_port: all outcomes are applied under one write lock.     *)

(* Mutant: the answer itself is not applied. *)
ReceivePollDropped ==
    /\ pc = "wait" /\ job = "poll" /\ Answered
    /\ line' = Tail(line)
    /\ batch' = batch \o unsolicited
    /\ answered' = answered \cup {Head(todo)}
    /\ AfterQuery("apply")
    /\ UNCHANGED <<shared, locked, job, unsolicited, taken, freqVars, late,
                   dev, link, used, expired>>
(* The answer is applied before the lines that were read before it.        *)
ReceivePoll ==
    /\ pc = "wait" /\ job = "poll" /\ Answered
    /\ line' = Tail(line)
    /\ batch' = Append(batch, Head(line)) \o unsolicited
    /\ answered' = answered \cup {Head(todo)}
    /\ AfterQuery("apply")
    /\ UNCHANGED <<shared, locked, job, unsolicited, taken, freqVars, late,
                   dev, link, used, expired>>

PollUnanswered ==       \* the lines set aside are dropped with the query
    /\ pc = "wait" /\ job = "poll" /\ ~Arrived
    /\ AfterQuery("apply")
    /\ UNCHANGED <<shared, locked, job, unsolicited, batch, answered, taken,
                   freqVars, world>>

ApplyBegin ==
    /\ pc = "apply"
    /\ locked' = TRUE /\ pc' = "fold"
    /\ connected' = TRUE
    /\ connState' = IF answered # {} THEN "Connected" ELSE "Degraded"
    /\ UNCHANGED <<tuner, desired, lifecycle, results, follow, radio, query,
                   taken, freqVars, world>>

ApplyLine ==
    /\ pc = "fold" /\ batch # << >>
    /\ tuner' = Parsed(tuner, Head(batch))
    /\ batch' = Tail(batch)
    /\ UNCHANGED <<linkState, desired, lifecycle, results, follow, radio, pc,
                   locked, job, todo, unsolicited, answered, taken, freqVars,
                   world>>

ApplyEnd ==
    /\ pc = "fold" /\ batch = << >>
    /\ locked' = FALSE /\ pc' = "turn"
    /\ UNCHANGED <<shared, query, taken, freqVars, world>>

-----------------------------------------------------------------------------
(* refresh_tuning_state_if_needed, at the head of process_frequency_follow *)

TurnBegin ==
    /\ pc = "turn"
    /\ \/ ~FollowFlexFrequency /\ pc' = "control" /\ UNCHANGED query
       \/ /\ FollowFlexFrequency
          /\ tuner.tuning \/ tune.state = "Tuning"
          /\ StartJob("refresh", <<"TP">>)
       \/ /\ FollowFlexFrequency
          /\ ~tuner.tuning /\ tune.state # "Tuning"
          /\ pc' = "follow" /\ UNCHANGED query
    /\ UNCHANGED <<shared, locked, taken, freqVars, world>>

Refreshed ==
    /\ pc = "wait" /\ job = "refresh" /\ Answered
    /\ line' = Tail(line)
    /\ tuner' = Parsed(tuner, Head(line))
    /\ IF tuner'.tuning THEN UNCHANGED lifecycle ELSE TuneTo("Idle", "cleared")
    /\ pc' = "follow"
    /\ UNCHANGED <<linkState, desired, results, follow, radio, locked, query,
                   taken, freqVars, late, dev, link, used, expired>>

(* Mutant: a tuning state nobody confirms is kept. *)
RefreshUnansweredKept ==
    /\ pc = "wait" /\ job = "refresh" /\ ~Arrived
    /\ pc' = "follow"
    /\ UNCHANGED <<shared, locked, query, taken, freqVars, world>>
(* Only a lifecycle entered more than 30 s ago lets the state expire.      *)
RefreshUnanswered ==
    /\ pc = "wait" /\ job = "refresh" /\ ~Arrived
    /\ IF entered = "old"
       THEN /\ tuner' = [tuner EXCEPT !.tuning = FALSE]
            /\ TuneThrough("Idle", "expired")
       ELSE UNCHANGED <<tuner, lifecycle>>
    /\ pc' = "follow"
    /\ UNCHANGED <<linkState, desired, results, follow, radio, locked, query,
                   taken, freqVars, world>>

-----------------------------------------------------------------------------
(* process_frequency_follow                                                *)

(* A change before the first confirmation waits one turn.                  *)
Coalesced == /\ requestedKhz # None /\ requestedKhz # freq
             /\ followMatch = None

FollowDue == /\ freq # None
             /\ ~tuner.tuning
             /\ followWire # freq
             /\ ~Coalesced
             /\ MayControl \/ MayTune

(* Mutant: nothing to follow ends the turn, control included. *)
FollowSkipTurn ==
    /\ pc = "follow" /\ ~FollowDue
    /\ StartPoll
    /\ UNCHANGED <<shared, locked, taken, freqVars, world>>
FollowSkip ==
    /\ pc = "follow" /\ ~FollowDue
    /\ requestedKhz' = IF \/ freq # None /\ tuner.tuning
                          \/ freq # None /\ followWire # freq /\ Coalesced
                       THEN freq ELSE requestedKhz
    /\ pc' = "control"
    /\ UNCHANGED <<linkState, tuner, desired, lifecycle, results, followWire,
                   followMatch, radio, locked, query, taken, freqVars, world>>

StartFrequency(p) ==
    /\ purpose' = p /\ target' = freq /\ attempt' = 0 /\ heard' = None
    /\ pc' = "drain"

FollowSend ==
    /\ pc = "follow" /\ FollowDue
    /\ requestedKhz' = freq
    /\ StartFrequency("follow")
    /\ UNCHANGED <<linkState, tuner, desired, lifecycle, results, followWire,
                   followMatch, radio, locked, query, taken, world>>

-----------------------------------------------------------------------------
(* send_frequency_context_confirmed: drain, write F and wait for its exact *)
(* echo, at most twice; then wait for quiet again and record the outcome.  *)

Drained == IF stalled THEN line ELSE << >>

Drain ==
    /\ pc = "drain"
    /\ line' = Drained
    /\ pc' = "freqWrite"
    /\ UNCHANGED <<shared, locked, query, taken, freqVars, late, dev, link,
                   used, expired>>

FreqWrite ==
    /\ pc = "freqWrite"
    /\ pc' = "freqWait" /\ heard' = None
    /\ \/ /\ portUp
          /\ dev' = [dev EXCEPT !.F = target]
          /\ \/ Send([q |-> "F", v |-> target]) /\ UNCHANGED used
             \/ Spend("lost") /\ UNCHANGED line
       \/ Lost /\ UNCHANGED <<dev, line>>
    /\ UNCHANGED <<shared, locked, query, taken, purpose, target, attempt,
                   late, link, expired>>

FreqLine ==
    /\ pc = "freqWait" /\ Arrived
    /\ line' = Tail(line)
    /\ heard' = Head(line)
    /\ pc' = IF Head(line) = [q |-> "F", v |-> target] THEN "quiet" ELSE pc
    /\ UNCHANGED <<shared, locked, query, taken, purpose, target, attempt,
                   late, dev, link, used, expired>>

FreqSilence ==
    /\ pc = "freqWait" /\ ~Arrived
    /\ IF attempt = 0 THEN attempt' = 1 /\ pc' = "freqWrite"
       ELSE pc' = "quiet" /\ UNCHANGED attempt
    /\ UNCHANGED <<shared, locked, query, taken, purpose, target, heard,
                   world>>

AfterFrequency == IF purpose = "follow" THEN "control" ELSE "tuneSend"

(* Mutant: whatever answer came counts as the confirmation. *)
FreqDoneAnyAnswer ==
    /\ pc = "quiet"
    /\ line' = Drained
    /\ tuner' = IF heard = None THEN tuner ELSE Parsed(tuner, heard)
    /\ followWire' = target /\ requestedKhz' = target
    /\ followMatch' = TRUE
    /\ pc' = AfterFrequency
    /\ UNCHANGED <<linkState, desired, lifecycle, results, radio, locked,
                   query, taken, freqVars, late, dev, link, used, expired>>
(* The last line of the last attempt is parsed whatever it is.             *)
FreqDone ==
    /\ pc = "quiet"
    /\ line' = Drained
    /\ tuner' = IF heard = None THEN tuner ELSE Parsed(tuner, heard)
    /\ followWire' = target /\ requestedKhz' = target
    /\ followMatch' = (heard = [q |-> "F", v |-> target])
    /\ pc' = AfterFrequency
    /\ UNCHANGED <<linkState, desired, lifecycle, results, radio, locked,
                   query, taken, freqVars, late, dev, link, used, expired>>

FreqError ==      \* writing or reading fails: only a diagnostic is recorded
    /\ pc \in {"freqWrite", "freqWait"} /\ ~portUp
    /\ pc' = AfterFrequency
    /\ UNCHANGED <<shared, locked, query, taken, freqVars, world>>

-----------------------------------------------------------------------------
(* process_desired_control                                                 *)

TakeRequests ==
    /\ pc = "control"
    /\ wantTune' = FALSE /\ wantAntenna' = None /\ wantBypass' = None
    /\ takenAntenna' = wantAntenna /\ takenBypass' = wantBypass
    /\ pc' = IF wantTune THEN "accept" ELSE "antenna"
    /\ UNCHANGED <<linkState, tuner, lifecycle, results, follow, radio,
                   locked, query, freqVars, world>>

(* The suppressed request ends the turn's control, antenna and bypass too. *)
SuppressTune ==
    /\ pc = "accept" /\ recent
    /\ TuneTo("Cooldown", "duplicate")
    /\ DropTaken /\ StartPoll
    /\ UNCHANGED <<linkState, tuner, desired, results, follow, radio, locked,
                   freqVars, world>>

(* Mutant: an accepted request starts no cooldown. *)
AcceptTuneUncooled ==
    /\ pc = "accept" /\ ~recent
    /\ UNCHANGED recent
    /\ tuneFreq' = freq
    /\ TuneTo("Tuning", "accepted")
    /\ expired' = FALSE
    /\ IF freq # None /\ followWire # freq /\ MayTune
       THEN StartFrequency("tune")
       ELSE pc' = "tuneSend" /\ UNCHANGED freqVars
    /\ UNCHANGED <<linkState, tuner, desired, lastResult, follow, freq,
                   locked, query, taken, late, dev, link, line, used>>
(* Mutant: the tune does not wait for the frequency. *)
AcceptTuneUnfollowed ==
    /\ pc = "accept" /\ ~recent
    /\ recent' = TRUE
    /\ tuneFreq' = freq
    /\ TuneTo("Tuning", "accepted")
    /\ expired' = FALSE
    /\ pc' = "tuneSend" /\ UNCHANGED freqVars
    /\ UNCHANGED <<linkState, tuner, desired, lastResult, follow, freq,
                   locked, query, taken, late, dev, link, line, used>>
AcceptTune ==
    /\ pc = "accept" /\ ~recent
    /\ recent' = TRUE
    /\ tuneFreq' = freq
    /\ TuneTo("Tuning", "accepted")
    /\ expired' = FALSE
    /\ IF freq # None /\ followWire # freq /\ MayTune
       THEN StartFrequency("tune")
       ELSE pc' = "tuneSend" /\ UNCHANGED freqVars
    /\ UNCHANGED <<linkState, tuner, desired, lastResult, follow, freq,
                   locked, query, taken, late, dev, link, line, used>>

TuneFails ==
    /\ lastResult' = "failed" /\ UNCHANGED tuneFreq
    /\ TuneThrough("TuneFailed", "error")
    /\ DropTaken /\ StartPoll

TuneBlocked ==
    /\ pc = "tuneSend" /\ ~MayTune
    /\ TuneFails
    /\ UNCHANGED <<linkState, tuner, desired, follow, radio, locked, freqVars,
                   world>>

TuneSend ==
    /\ pc = "tuneSend" /\ MayTune
    /\ StartJob("tune", <<"T">>)
    /\ UNCHANGED <<shared, locked, taken, freqVars, world>>

TuneUnanswered ==
    /\ pc = "wait" /\ job = "tune" /\ ~Arrived
    /\ TuneFails
    /\ UNCHANGED <<linkState, tuner, desired, follow, radio, locked, freqVars,
                   world>>

TuneAnswered ==
    /\ pc = "wait" /\ job = "tune" /\ Answered
    /\ line' = Tail(line)
    /\ late' = FALSE
    /\ StartJob("tp", <<"TP">>)
    /\ UNCHANGED <<shared, locked, taken, freqVars, dev, link, used, expired>>

-----------------------------------------------------------------------------
(* poll_tune_until_idle: TP every 500 ms, for 15 s; then one VSWR.         *)

(* A TP that leaves the tune running: give up after 15 s, or ask again.    *)
StillTuning(t) ==
    IF late
    THEN /\ tuner' = [t EXCEPT !.tuning = FALSE]
         /\ TuneThrough("Idle", "timeout")
         /\ expired' = TRUE
         /\ StartJob("vswr", <<"VSWR">>)
    ELSE /\ tuner' = t
         /\ StartJob("tp", <<"TP">>)
         /\ UNCHANGED <<lifecycle, expired>>

(* Mutant: any answer ends the tune. *)
TpAnsweredOnce ==
    /\ pc = "wait" /\ job = "tp" /\ Answered
    /\ line' = Tail(line)
    /\ tuner' = Parsed(tuner, Head(line))
    /\ TuneTo("Idle", "tp0")
    /\ StartJob("vswr", <<"VSWR">>)
    /\ UNCHANGED <<linkState, desired, results, follow, radio, locked, taken,
                   freqVars, late, dev, link, used, expired>>
TpAnswered ==
    /\ pc = "wait" /\ job = "tp" /\ Answered
    /\ line' = Tail(line)
    /\ LET t == Parsed(tuner, Head(line))
       IN IF t.tuning THEN StillTuning(t)
          ELSE /\ tuner' = t
               /\ TuneTo("Idle", "tp0")
               /\ StartJob("vswr", <<"VSWR">>)
               /\ UNCHANGED expired
    /\ UNCHANGED <<linkState, desired, results, follow, radio, locked, taken,
                   freqVars, late, dev, link, used>>

TpUnanswered ==
    /\ pc = "wait" /\ job = "tp" /\ ~Arrived
    /\ StillTuning(tuner)
    /\ UNCHANGED <<linkState, desired, results, follow, radio, locked, taken,
                   freqVars, late, dev, link, line, used>>

(* The tune counts as executed, however the watch ended.                   *)
TuneDone ==
    /\ pc = "wait" /\ job = "vswr"
    /\ \/ Answered /\ line' = Tail(line)
       \/ ~Arrived /\ UNCHANGED line
    /\ lastResult' = "executed" /\ UNCHANGED tuneFreq
    /\ TuneThrough("Idle", "completed")
    /\ pc' = "antenna"
    /\ UNCHANGED <<linkState, tuner, desired, follow, radio, locked, query,
                   taken, freqVars, late, dev, link, used, expired>>

-----------------------------------------------------------------------------
(* Antenna, then bypass; an error ends the turn's control.                 *)

AntennaStep ==
    /\ pc = "antenna"
    /\ \/ takenAntenna = None /\ pc' = "bypass" /\ UNCHANGED <<query, taken>>
       \/ /\ takenAntenna # None /\ MayControl
          /\ StartJob("antenna", <<"SetAN">>) /\ UNCHANGED taken
       \/ takenAntenna # None /\ ~MayControl /\ StartPoll /\ DropTaken
    /\ UNCHANGED <<shared, locked, freqVars, world>>

AntennaDone ==
    /\ pc = "wait" /\ job = "antenna"
    /\ \/ /\ Answered /\ line' = Tail(line)
          /\ pc' = "bypass" /\ takenAntenna' = None
          /\ UNCHANGED <<query, takenBypass>>
       \/ ~Arrived /\ UNCHANGED line /\ StartPoll /\ DropTaken
    /\ UNCHANGED <<shared, locked, freqVars, late, dev, link, used, expired>>

BypassStep ==
    /\ pc = "bypass"
    /\ IF takenBypass # None /\ MayControl
       THEN StartJob("bypass", <<"SetBYP">>) /\ UNCHANGED taken
       ELSE StartPoll /\ DropTaken
    /\ UNCHANGED <<shared, locked, freqVars, world>>

BypassDone ==
    /\ pc = "wait" /\ job = "bypass"
    /\ \/ Answered /\ line' = Tail(line)
       \/ ~Arrived /\ UNCHANGED line
    /\ StartPoll /\ DropTaken
    /\ UNCHANGED <<shared, locked, freqVars, late, dev, link, used, expired>>

-----------------------------------------------------------------------------
(* The clock.                                                              *)

CooldownEnds ==
    /\ recent /\ recent' = FALSE
    /\ UNCHANGED <<linkState, tuner, desired, lifecycle, results, follow,
                   freq, pc, locked, query, taken, freqVars, world>>

FifteenSecondsPass ==         \* since poll_tune_until_idle started
    /\ job = "tp" /\ ~late /\ late' = TRUE
    /\ UNCHANGED <<shared, pc, locked, query, taken, freqVars, dev, link,
                   line, used, expired>>

ThirtySecondsPass ==          \* since the lifecycle entered its state
    /\ entered = "fresh" /\ entered' = "old"
    /\ UNCHANGED <<linkState, tuner, desired, tune, results, follow, radio,
                   pc, locked, query, taken, freqVars, world>>

-----------------------------------------------------------------------------
(* TGXL clients and the Flex session, on the shared state.                 *)

Autotune ==
    /\ ~locked /\ Spend("requests")
    /\ wantTune' = TRUE
    /\ TuneTo("TuneRequested", "tgxl")
    /\ UNCHANGED <<linkState, tuner, wantAntenna, wantBypass, results, follow,
                   radio, pc, locked, query, taken, freqVars, late, dev, link,
                   line, expired>>

Activate(a) ==
    /\ ~locked /\ Spend("requests")
    /\ wantAntenna' = a
    /\ UNCHANGED <<linkState, tuner, wantTune, wantBypass, lifecycle, results,
                   follow, radio, pc, locked, query, taken, freqVars, late,
                   dev, link, line, expired>>

Bypass(v) ==
    /\ ~locked /\ Spend("requests")
    /\ wantBypass' = v
    /\ UNCHANGED <<linkState, tuner, wantTune, wantAntenna, lifecycle,
                   results, follow, radio, pc, locked, query, taken, freqVars,
                   late, dev, link, line, expired>>

Operate(v) ==                 \* written to the shared tuner at once
    /\ ~locked /\ Spend("requests")
    /\ tuner' = [tuner EXCEPT !.operate = v]
    /\ UNCHANGED <<linkState, desired, lifecycle, results, follow, radio, pc,
                   locked, query, taken, freqVars, late, dev, link, line,
                   expired>>

FrequencyChange(f) ==
    /\ ~locked /\ Spend("context")
    /\ f # freq /\ freq' = f
    /\ UNCHANGED <<linkState, tuner, desired, lifecycle, results, follow,
                   recent, pc, locked, query, taken, freqVars, late, dev,
                   link, line, expired>>

-----------------------------------------------------------------------------
(* The tuner, its front panel and the port.                                *)

TuneEnds ==
    /\ dev.TP /\ dev' = [dev EXCEPT !.TP = FALSE]
    /\ UNCHANGED <<shared, pc, locked, query, taken, freqVars, late, link,
                   line, used, expired>>

(* A tune started at the front panel, a mode, an antenna, a fault, ...     *)
Panel(q) ==
    /\ Spend("panel")
    /\ \E d \in Device :
         /\ d # dev /\ d = [dev EXCEPT ![q] = d[q]]
         /\ dev' = d
    /\ UNCHANGED <<shared, pc, locked, query, taken, freqVars, late, link,
                   line, expired>>

(* The tuner may report a state it is in without being asked.              *)
Announce(q) ==
    /\ portUp /\ Spend("panel")
    /\ Send([q |-> q, v |-> dev[q]])
    /\ UNCHANGED <<shared, pc, locked, query, taken, freqVars, late, dev,
                   link, expired>>

PortLost ==
    /\ portUp /\ Spend("portLoss")
    /\ portUp' = FALSE /\ stalled' = FALSE /\ line' = << >>
    /\ UNCHANGED <<shared, pc, locked, query, taken, freqVars, late, dev,
                   expired>>

(* A handle opened before the loss stays dead.                             *)
PortBack ==
    /\ ~portUp /\ pc = "open"
    /\ portUp' = TRUE
    /\ UNCHANGED <<shared, pc, locked, query, taken, freqVars, late, dev,
                   stalled, line, used, expired>>

Stall ==
    /\ portUp /\ ~stalled /\ Spend("stalls")
    /\ stalled' = TRUE
    /\ UNCHANGED <<shared, pc, locked, query, taken, freqVars, late, dev,
                   portUp, line, expired>>

Flow ==
    /\ stalled
    /\ stalled' = FALSE
    /\ UNCHANGED <<shared, pc, locked, query, taken, freqVars, late, dev,
                   portUp, line, used, expired>>

-----------------------------------------------------------------------------
Opening  == OpenPort \/ OpenFailed
Querying == Ask \/ ReceiveOther \/ Discovered
Polling  == ReceivePoll \/ PollUnanswered \/ ApplyBegin \/ ApplyLine \/ ApplyEnd
Following == TurnBegin \/ Refreshed \/ RefreshUnanswered \/ FollowSkip
             \/ FollowSend
Sending  == Drain \/ FreqWrite \/ FreqLine \/ FreqSilence \/ FreqDone \/ FreqError
Tuning   == TakeRequests \/ SuppressTune \/ AcceptTune \/ TuneBlocked
            \/ TuneSend \/ TuneUnanswered \/ TuneAnswered \/ TpAnswered
            \/ TpUnanswered \/ TuneDone
Switching == AntennaStep \/ AntennaDone \/ BypassStep \/ BypassDone

Driver == Opening \/ Querying \/ Polling \/ Following \/ Sending \/ Tuning
          \/ Switching
Clock == CooldownEnds \/ FifteenSecondsPass \/ ThirtySecondsPass
OtherTasks ==
    \/ Autotune
    \/ \E a \in Antennas : Activate(a)
    \/ \E v \in BOOLEAN : Bypass(v) \/ Operate(v)
    \/ \E f \in Freqs \cup {None} : FrequencyChange(f)
Reported == Polled \cap {"TP", "BYP", "FLT", "AN", "MD"}
Environment ==
    \/ TuneEnds
    \/ \E q \in Reported \cup {"F"} : Panel(q)
    \/ \E q \in Reported : Announce(q)
    \/ PortLost \/ PortBack \/ Stall \/ Flow

Next == Driver \/ Clock \/ OtherTasks \/ Environment

Spec == Init /\ [][Next]_vars

(* tokio keeps polling the driver task and time passes; the tuner and the  *)
(* operators owe nothing.                                                  *)
FairSpec == /\ Spec
            /\ WF_vars(Driver)
            /\ WF_vars(FifteenSecondsPass) /\ WF_vars(ThirtySecondsPass)
-----------------------------------------------------------------------------
(***************************************************************************)
(* Correctness.                                                            *)
(***************************************************************************)

(* Every variable has a value of its type, group by group.                 *)
SharedTypeOK ==
    /\ connected \in BOOLEAN
    /\ connState \in {"Disconnected", "Connecting", "Connected", "Degraded"}
    /\ tuner \in Tuner
DesiredTypeOK ==
    /\ wantTune \in BOOLEAN
    /\ wantAntenna \in Antennas \cup {None}
    /\ wantBypass \in BOOLEAN \cup {None}
LifecycleTypeOK ==
    /\ tune \in [state : {"Idle", "TuneRequested", "Tuning", "TuneFailed",
                          "Cooldown"},
                 reason : {"initial", "tgxl", "accepted", "duplicate", "error",
                           "tp0", "cleared", "expired", "timeout", "completed"}]
    /\ entered \in {"none", "fresh", "old"}
ResultTypeOK ==
    /\ lastResult \in {None, "executed", "failed"}
    /\ tuneFreq \in Freqs \cup {None}
FollowTypeOK ==
    /\ followWire \in Freqs \cup {None} /\ requestedKhz \in Freqs \cup {None}
    /\ followMatch \in BOOLEAN \cup {None}
RadioTypeOK == freq \in Freqs \cup {None} /\ recent \in BOOLEAN
QueryTypeOK ==
    /\ job \in {"discover", "poll", "refresh", "tune", "tp", "vswr", "antenna",
                "bypass"}
    /\ todo \in Seq(PollQuery \cup Command \cup {"RV", "SN"})
    /\ unsolicited \in Seq(Line) /\ batch \in Seq(Line)
    /\ answered \subseteq PollQuery
TakenTypeOK == /\ takenAntenna \in Antennas \cup {None}
               /\ takenBypass \in BOOLEAN \cup {None}
FreqTypeOK == /\ purpose \in {"follow", "tune"}
              /\ target \in Freqs \cup {None}
              /\ attempt \in {0, 1} /\ heard \in Line \cup {None}
TypeOK ==
    /\ SharedTypeOK /\ DesiredTypeOK /\ LifecycleTypeOK /\ ResultTypeOK
    /\ FollowTypeOK /\ RadioTypeOK /\ QueryTypeOK /\ TakenTypeOK /\ FreqTypeOK
    /\ pc \in {"open", "ask", "wait", "apply", "fold", "turn", "follow",
               "drain", "freqWrite", "freqWait", "quiet", "control", "accept",
               "tuneSend", "antenna", "bypass"}
    /\ locked \in BOOLEAN /\ late \in BOOLEAN
    /\ dev \in Device
    /\ portUp \in BOOLEAN /\ stalled \in BOOLEAN /\ line \in Seq(Line)
    /\ used \in [Budget -> Nat] /\ expired \in BOOLEAN

(* The driver implements TuneControl: polling, following, antenna and      *)
(* bypass commands never start a tune, a request starts at most one, only  *)
(* when permitted, and never within the cooldown of the one before.        *)
Control == INSTANCE TuneControl WITH
    Permitted <- MayTune,
    pending <- (IF wantTune THEN 1 ELSE 0) + (IF pc = "accept" THEN 1 ELSE 0),
    cooling <- recent,
    inHand <- \/ pc = "tuneSend"
              \/ /\ pc \in {"drain", "freqWrite", "freqWait", "quiet"}
                 /\ purpose = "tune"
              \/ pc = "ask" /\ job = "tune",
    running <- dev.TP,
    touched <- used["panel"]
ImplementsControl == Control!Spec

(* A confirmed frequency is the tuner's: with lost commands and retries,   *)
(* as long as answers come in time and nobody else sets the frequency.     *)
ConfirmedFrequencyIsSet ==
    /\ followMatch = TRUE /\ pc \notin {"freqWrite", "freqWait", "quiet"}
    /\ portUp /\ used["stalls"] = 0 /\ used["panel"] = 0
    => dev.F = followWire

(* docs/kat500-band-control-limitation.md:19: the tuner recalls "the best  *)
(* matching memory/bin for the current Flex TX frequency before a tune     *)
(* request": when T is written, the tuner is on the frequency the radio    *)
(* had when the request was accepted, if the line loses nothing.           *)
TuneOnFrequency ==
    /\ pc = "ask" /\ job = "tune" /\ tuneFreq # None
    /\ portUp /\ used["stalls"] = 0 /\ used["panel"] = 0 /\ used["lost"] = 0
    => dev.F = tuneFreq

(* A watch that did not run into its limit ended because the tune did,     *)
(* also when commands were lost or not answered.                           *)
WatchedTuneIsOver ==
    /\ job = "vswr" /\ ~expired
    /\ used["stalls"] = 0 /\ used["panel"] = 0
    => ~dev.TP

LineSettles == <>[](portUp /\ ~stalled)
TunesEnd == []<>~dev.TP

(* Once the line behaves and the tuner is left alone, what the TGXL        *)
(* clients are shown is and remains what the tuner is.                     *)
InStep ==
    /\ "TP" \in Polled => tuner.tuning = dev.TP
    /\ "AN" \in Polled => tuner.antenna = dev.AN
    /\ "FLT" \in Polled => tuner.fault = dev.FLT
    /\ "MD" \in Polled => tuner.operate = (dev.MD # "B")
    /\ "BYP" \in Polled /\ "MD" \in Polled =>
          tuner.bypass = (dev.BYP \/ dev.MD = "B")
SharedStateSettles ==
    LineSettles /\ TunesEnd => <>[](locked \/ InStep)

(* Once the port was opened every autotune request is looked at, even over *)
(* a dead port.                                                            *)
RequestTaken == (<>(pc # "open")) => (wantTune ~> ~wantTune)


(* After a tune of its own the driver clears a tuning state nobody         *)
(* confirms, even over a dead port, when it follows the frequency.         *)
TuningExpires ==
    FollowFlexFrequency /\ TunesEnd =>
    (tuner.tuning /\ entered # "none" ~> ~tuner.tuning)
=============================================================================
