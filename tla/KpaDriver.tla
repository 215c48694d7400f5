----------------------------- MODULE KpaDriver -----------------------------
(***************************************************************************)
(* The KPA500 driver task: run_serial_loop of                              *)
(* crates/elecraft-kpa500/src/lib.rs.  One task owns the serial port and,  *)
(* turn after turn, follows the Flex band with ^BN, executes the operate   *)
(* request other tasks left in the shared state, and polls the amplifier.  *)
(* Every other task touches the shared state only while the driver does    *)
(* not hold its write lock (`locked').                                     *)
(*                                                                         *)
(* The amplifier and the serial line are the environment: the amplifier    *)
(* answers a query in order, may miss a command, and is also operated from *)
(* its front panel; an answer may come later than the driver waits for it. *)
(*                                                                         *)
(* Two writers of the amplifier state are left to other modules: the PGXL  *)
(* emulator's strict startup (off by default, for mock mode) and the stale *)
(* watchdog, which sets only `connected' and `connState'.                  *)
(***************************************************************************)
EXTENDS Naturals, Sequences, FiniteSets

CONSTANTS
    DryRun, AllowControl, AllowRfRisk, FollowFlexBand,  \* Kpa500Settings
    Bands,        \* the bands kpa_band_follow_wire has a number for
    None,         \* Rust's None, Band::Unknown, and "no fault"
    PollSeq,      \* the poll's queries, in order; the code's are OS WS TM VI FL
    MaxRequests,  \* bound: operate/standby requests of the other tasks
    MaxContext,   \* bound: Flex band changes and tuner changes
    MaxPanel,     \* bound: front-panel changes, faults included
    MaxStalls,    \* bound: times the line stalls, so that answers come late
    MaxLine,      \* bound: answers a stalled line can hold back
    MaxLost,      \* bound: commands the amplifier never sees
    MaxPortLoss,  \* bound: times the USB port disappears
    MaxTotal      \* bound: all of these together

Query == {"RVM", "SN", "OS", "WS", "TM", "VI", "FL"}
TeleQuery == {"WS", "TM", "VI"}
Reading == {0, 1}                  \* two values a measurement can tell apart

ASSUME SettingsAssumption ==
    {DryRun, AllowControl, AllowRfRisk, FollowFlexBand} \subseteq BOOLEAN
ASSUME BandsAssumption == None \notin Bands
ASSUME NoneAssumption == None \notin BOOLEAN
ASSUME PollAssumption ==
    /\ PollSeq \in Seq({"OS", "FL"} \cup TeleQuery)
    /\ PollSeq # << >>
    /\ \A i \in DOMAIN PollSeq : PollSeq[i] = "FL" => i = Len(PollSeq)
ASSUME BoundsAssumption ==
    {MaxRequests, MaxContext, MaxPanel, MaxStalls, MaxLine, MaxLost,
     MaxPortLoss, MaxTotal}
        \subseteq Nat

Polled == {PollSeq[i] : i \in DOMAIN PollSeq}
Required == {"OS", "TM", "VI", "FL"} \cap Polled    \* ^WS is not required

VARIABLES
    \* BridgeState.amp
    connected, connState, ampState, operate, fault, meffa, tele,
    firstPollCompleted, firstPollError,
    \* BridgeState.desired.amp_operate, .radio_context, .tuner.tuning
    desired, band, followWire, followConfirmed, followMatch, tuning,
    \* BridgeState.flex_injection.amplifier_reannounce_*
    requested, reason, advertised,
    \* the driver task: program counter, query job, locals
    pc, locked, job, todo, unsolicited, batch, answered, taken, target,
    attempt, heard,
    \* the amplifier, the driver's port handle, and what the amplifier sent
    \* that the driver has not read; nothing arrives while the line is stalled
    devOperate, devFault, devBand, devTele, portUp, stalled, line,
    \* how much of each bound is used
    used

ampVars   == <<connected, connState, ampState, operate, fault, meffa, tele,
               firstPollCompleted, firstPollError>>
parsedVars == <<ampState, operate, fault, meffa, tele>>
ctxVars   == <<band, followWire, followConfirmed, followMatch, tuning>>
annVars   == <<requested, reason, advertised>>
turnVars  == <<taken, target, attempt, heard>>
queryVars == <<job, todo, unsolicited, batch, answered>>
devVars   == <<devOperate, devFault, devBand, devTele>>
linkVars  == <<portUp, stalled>>
shared    == <<ampVars, desired, ctxVars, annVars>>
world     == <<devVars, linkVars, line, used>>
vars == <<shared, pc, locked, queryVars, turnVars, world>>

AmpStates == {"Standby", "Operate", "Fault"}
Line == [q : {"RVM", "SN"}, v : {0}]
        \cup [q : {"OS"}, v : BOOLEAN]
        \cup [q : TeleQuery, v : Reading]
        \cup [q : {"FL"}, v : BOOLEAN]           \* TRUE: a fault code
        \cup [q : {"BN"}, v : Bands]
        \cup [q : {"SP"}, v : {0}]               \* the fault speaker

Budget == {"requests", "context", "panel", "stalls", "lost", "portLoss"}
Limit(b) == CASE b = "requests" -> MaxRequests
              [] b = "context"  -> MaxContext
              [] b = "panel"    -> MaxPanel
              [] b = "stalls"   -> MaxStalls
              [] b = "lost"     -> MaxLost
              [] b = "portLoss" -> MaxPortLoss
TotalUsed == used["requests"] + used["context"] + used["panel"]
             + used["stalls"] + used["lost"] + used["portLoss"]
Spend(b) == /\ used[b] < Limit(b) /\ TotalUsed < MaxTotal
            /\ used' = [used EXCEPT ![b] = @ + 1]

Init ==
    /\ connected = FALSE /\ connState = "Disconnected"
    /\ ampState = "Standby" /\ operate = FALSE /\ fault = FALSE
    /\ meffa = "UNKNOWN"
    /\ tele = [q \in TeleQuery |-> 0]
    /\ firstPollCompleted = FALSE /\ firstPollError = FALSE
    /\ desired = None
    /\ band \in Bands /\ followWire = None
    /\ followConfirmed = None /\ followMatch = None /\ tuning = FALSE
    /\ requested = FALSE /\ reason = None /\ advertised = None
    /\ pc = "open" /\ locked = FALSE
    /\ job = "discover" /\ todo = << >> /\ unsolicited = << >>
    /\ batch = << >> /\ answered = {}
    /\ taken = FALSE /\ target = None /\ attempt = 0 /\ heard = None
    /\ devOperate \in BOOLEAN /\ devFault = FALSE /\ devBand \in Bands
    /\ devTele = [q \in TeleQuery |-> 0]
    /\ portUp \in BOOLEAN /\ stalled = FALSE /\ line = << >>
    /\ used = [b \in Budget |-> 0]

-----------------------------------------------------------------------------
(* Command permissions.                                                    *)

(* ensure_can_send: ^OS1 is RfRisk, ^OS0 and ^BN need allow_control.       *)
CanSend(op) ==
    /\ ~DryRun
    /\ IF op THEN AllowRfRisk ELSE AllowControl

CanFollow == ~DryRun /\ AllowControl

-----------------------------------------------------------------------------
(* Opening the port.                                                       *)

StartJob(j, queries) ==
    /\ job' = j /\ todo' = queries
    /\ unsolicited' = << >> /\ batch' = << >> /\ answered' = {}
    /\ pc' = "ask"

StartPoll == StartJob("poll", PollSeq)

OpenPort ==
    /\ pc = "open" /\ ~locked
    /\ portUp
    /\ connected' = TRUE /\ connState' = "Connecting"
    /\ StartJob("discover", <<"RVM", "SN">>)
    /\ UNCHANGED <<ampState, operate, fault, meffa, tele, firstPollCompleted,
                   firstPollError, desired, ctxVars, annVars, locked,
                   turnVars, world>>

OpenFailed ==     \* and the driver sleeps its backoff before the next attempt
    /\ pc = "open" /\ ~locked
    /\ ~portUp
    /\ connected' = FALSE /\ connState' = "Disconnected"
    /\ UNCHANGED <<ampState, operate, fault, meffa, tele, firstPollCompleted,
                   firstPollError, desired, ctxVars, annVars, pc, locked,
                   queryVars, turnVars, world>>

-----------------------------------------------------------------------------
(* One query on the line: send_command_collect.                            *)

DeviceAnswer(q) ==
    [q |-> q, v |-> CASE q = "OS" -> devOperate
                      [] q = "FL" -> devFault
                      [] q \in TeleQuery -> devTele[q]
                      [] OTHER -> 0]

Arrived == line # << >> /\ ~stalled

(* What a stalled line cannot hold is lost.                                *)
Send(m) == line' = IF stalled /\ Len(line) >= MaxLine THEN line
                   ELSE Append(line, m)

Lost == IF portUp THEN Spend("lost") ELSE UNCHANGED used

Ask ==
    /\ pc = "ask"
    /\ pc' = "wait" /\ unsolicited' = << >>
    /\ \/ /\ portUp
          /\ Send(DeviceAnswer(Head(todo)))
          /\ UNCHANGED used
       \/ Lost /\ UNCHANGED line
    /\ UNCHANGED <<shared, locked, job, todo, batch, answered, turnVars,
                   devVars, linkVars>>

(* A line that is not the answer waited for is kept aside.                 *)
ReceiveOther ==
    /\ pc = "wait" /\ Arrived
    /\ Head(line).q # Head(todo)
    /\ unsolicited' = Append(unsolicited, Head(line))
    /\ line' = Tail(line)
    /\ UNCHANGED <<shared, pc, locked, job, todo, batch, answered, turnVars,
                   devVars, linkVars, used>>

AfterQuery(next) ==
    /\ todo' = Tail(todo)
    /\ pc' = IF Tail(todo) # << >> THEN "ask" ELSE next

ReceiveDiscovery ==       \* the version and serial number are only recorded
    /\ pc = "wait" /\ job = "discover" /\ Arrived
    /\ Head(line).q = Head(todo)
    /\ line' = Tail(line)
    /\ AfterQuery("band")
    /\ UNCHANGED <<shared, locked, job, unsolicited, batch, answered,
                   turnVars, devVars, linkVars, used>>

(* Mutant: the lines set aside are handled after the answer. *)
ReceivePollSwapped ==
    /\ pc = "wait" /\ job = "poll" /\ Arrived
    /\ Head(line).q = Head(todo)
    /\ line' = Tail(line)
    /\ batch' = Append(batch, Head(line)) \o unsolicited
    /\ answered' = answered \cup {Head(todo)}
    /\ AfterQuery("apply")
    /\ UNCHANGED <<shared, locked, job, unsolicited, turnVars, devVars,
                   linkVars, used>>
ReceivePoll ==
    /\ pc = "wait" /\ job = "poll" /\ Arrived
    /\ Head(line).q = Head(todo)
    /\ line' = Tail(line)
    /\ batch' = Append(batch \o unsolicited, Head(line))
    /\ answered' = answered \cup {Head(todo)}
    /\ AfterQuery("apply")
    /\ UNCHANGED <<shared, locked, job, unsolicited, turnVars, devVars,
                   linkVars, used>>

(* The ^OS after a control command; the shared amplifier is written only   *)
(* when the answer is the state asked for, and then by the parser alone.   *)
ReceiveVerify ==
    /\ pc = "wait" /\ job = "verify" /\ Arrived
    /\ Head(line).q = "OS"
    /\ line' = Tail(line)
    /\ IF Head(line).v = taken
       THEN /\ operate' = taken
            /\ ampState' = IF taken THEN "Operate" ELSE "Standby"
       ELSE UNCHANGED <<operate, ampState>>
    /\ StartPoll
    /\ UNCHANGED <<connected, connState, fault, meffa, tele,
                   firstPollCompleted, firstPollError, desired, ctxVars,
                   annVars, locked, turnVars, devVars, linkVars, used>>

(* The wait times out: nothing arrived, or the line holds it back.         *)
(* What was set aside during this query is dropped with it.                *)
GiveUp ==
    /\ pc = "wait"
    /\ ~Arrived
    /\ CASE job = "discover" -> /\ AfterQuery("band")
                                /\ UNCHANGED <<job, unsolicited, batch,
                                               answered>>
         [] job = "poll"     -> /\ AfterQuery("apply")
                                /\ UNCHANGED <<job, unsolicited, batch,
                                               answered>>
         [] job = "verify"   -> StartPoll
    /\ UNCHANGED <<shared, locked, turnVars, world>>

-----------------------------------------------------------------------------
(* The end of a poll: every outcome is applied under one write lock.       *)

ApplyBegin ==
    /\ pc = "apply"
    /\ locked' = TRUE /\ pc' = "fold"
    /\ connected' = TRUE
    /\ connState' = IF answered # {} THEN "Connected" ELSE "Degraded"
    /\ UNCHANGED <<ampState, operate, fault, meffa, tele, firstPollCompleted,
                   firstPollError, desired, ctxVars, annVars, queryVars,
                   turnVars, world>>

(* parse_kpa500_response                                                   *)
(* Mutant: ^OS0 does not clear the operate flag. *)
ParseOsSticky(m) ==
    /\ m.q = "OS"
    /\ operate' = (operate \/ m.v)
    /\ ampState' = IF operate' THEN "Operate" ELSE "Standby"
    /\ UNCHANGED <<fault, meffa, tele>>
ParseOs(m) ==
    /\ m.q = "OS"
    /\ operate' = m.v
    /\ ampState' = IF m.v THEN "Operate" ELSE "Standby"
    /\ UNCHANGED <<fault, meffa, tele>>
(* Mutant: a cleared fault always shows as standby. *)
ParseFaultToStandby(m) ==
    /\ m.q = "FL"
    /\ fault' = m.v
    /\ meffa' = IF m.v THEN meffa ELSE "OK"
    /\ ampState' = IF m.v THEN "Fault" ELSE "Standby"
    /\ UNCHANGED <<operate, tele>>
ParseFault(m) ==
    /\ m.q = "FL"
    /\ fault' = m.v
    /\ meffa' = IF m.v THEN meffa ELSE "OK"
    /\ ampState' = IF m.v THEN "Fault"
                   ELSE IF operate THEN "Operate" ELSE "Standby"
    /\ UNCHANGED <<operate, tele>>
ParseTele(m) ==
    /\ m.q \in TeleQuery
    /\ tele' = [tele EXCEPT ![m.q] = m.v]
    /\ UNCHANGED <<operate, ampState, fault, meffa>>
ParseIgnored(m) ==
    /\ m.q \in {"RVM", "SN", "BN", "SP"}
    /\ UNCHANGED <<operate, ampState, fault, meffa, tele>>

(* record_amp_poll_change                                                  *)
RecordPollChange ==
    IF parsedVars' # parsedVars
    THEN LET stateChanged == ampState' # ampState \/ operate' # operate
         IN /\ requested' = TRUE
            /\ reason' = IF stateChanged THEN "state" ELSE "telemetry"
            /\ advertised' = ampState'
    ELSE UNCHANGED annVars

ApplyLine ==
    /\ pc = "fold" /\ batch # << >>
    /\ LET m == Head(batch)
       IN ParseOs(m) \/ ParseFault(m) \/ ParseTele(m) \/ ParseIgnored(m)
    /\ RecordPollChange
    /\ batch' = Tail(batch)
    /\ UNCHANGED <<connected, connState, firstPollCompleted, firstPollError,
                   desired, ctxVars, pc, locked, job, todo, unsolicited,
                   answered, turnVars, devVars, linkVars, line, used>>

ApplyEnd ==
    /\ pc = "fold" /\ batch = << >>
    /\ locked' = FALSE /\ pc' = "band"
    /\ IF Required \subseteq answered
       THEN firstPollCompleted' = TRUE /\ firstPollError' = FALSE
       ELSE firstPollError' = TRUE /\ UNCHANGED firstPollCompleted
    /\ UNCHANGED <<connected, connState, ampState, operate, fault, meffa,
                   tele, desired, ctxVars, annVars, queryVars, turnVars,
                   world>>

-----------------------------------------------------------------------------
(* process_band_follow                                                     *)

BandFollowDue ==
    /\ FollowFlexBand
    /\ band # None /\ followWire # band
    /\ ~tuning             \* ampState is never a transmit state here
    /\ CanFollow

(* Mutant: nothing to follow ends the turn, control included. *)
FollowSkipTurn ==
    /\ pc = "band" /\ ~BandFollowDue
    /\ StartPoll
    /\ UNCHANGED <<shared, locked, turnVars, world>>
FollowSkip ==
    /\ pc = "band" /\ ~BandFollowDue
    /\ pc' = "control"
    /\ UNCHANGED <<shared, locked, queryVars, turnVars, world>>

FollowDecide ==
    /\ pc = "band" /\ BandFollowDue
    /\ target' = band /\ attempt' = 0
    /\ pc' = "drain"
    /\ UNCHANGED <<shared, locked, queryVars, taken, heard, world>>

(* Stale input is read and dropped until the line is silent for 75 ms;     *)
(* what a stalled line holds back survives.                                *)
Drain ==
    /\ pc = "drain"
    /\ line' = IF stalled THEN line ELSE << >>
    /\ pc' = "bandWrite"
    /\ UNCHANGED <<shared, locked, queryVars, turnVars, devVars, linkVars,
                   used>>

BandWrite ==
    /\ pc = "bandWrite"
    /\ pc' = "bandWait" /\ heard' = None
    /\ \/ /\ portUp
          /\ devBand' = target
          /\ Send([q |-> "BN", v |-> target])
          /\ UNCHANGED used
       \/ Lost /\ UNCHANGED <<devBand, line>>
    /\ UNCHANGED <<shared, locked, queryVars, taken, target, attempt,
                   devOperate, devFault, devTele, linkVars>>

BandWriteError ==               \* the write itself fails: nothing is recorded
    /\ pc \in {"bandWrite", "bandWait"} /\ ~portUp
    /\ pc' = "control"
    /\ UNCHANGED <<shared, locked, queryVars, turnVars, world>>

(* Mutant: a command that was sent counts as confirmed. *)
FollowDoneUnchecked(confirmed) ==
    /\ followWire' = target
    /\ followConfirmed' = confirmed
    /\ followMatch' = TRUE
    /\ pc' = "control"
FollowDone(confirmed) ==
    /\ followWire' = target
    /\ followConfirmed' = confirmed
    /\ followMatch' = (confirmed = target)
    /\ pc' = "control"

BandEcho ==
    /\ pc = "bandWait" /\ Arrived
    /\ line' = Tail(line)
    /\ LET m == Head(line)
       IN IF m.q = "BN" /\ m.v = target
          THEN FollowDone(target) /\ UNCHANGED heard
          ELSE /\ heard' = IF m.q = "BN" THEN m.v ELSE None
               /\ UNCHANGED <<followWire, followConfirmed, followMatch, pc>>
    /\ UNCHANGED <<ampVars, desired, band, tuning, annVars, locked, queryVars,
                   taken, target, attempt, devVars, linkVars, used>>

BandSilence ==
    /\ pc = "bandWait"
    /\ ~Arrived
    /\ IF attempt = 0
       THEN /\ attempt' = 1 /\ pc' = "bandWrite"
            /\ UNCHANGED <<followWire, followConfirmed, followMatch>>
       ELSE FollowDone(heard) /\ UNCHANGED attempt
    /\ UNCHANGED <<ampVars, desired, band, tuning, annVars, locked, queryVars,
                   taken, target, heard, world>>

-----------------------------------------------------------------------------
(* process_desired_control                                                 *)

NoRequest ==
    /\ pc = "control" /\ desired = None
    /\ StartPoll
    /\ UNCHANGED <<shared, locked, turnVars, world>>

(* Mutant: an executed request stays in the shared state. *)
TakeRequestKept ==
    /\ pc = "control" /\ desired # None
    /\ \/ /\ CanSend(desired)
          /\ taken' = desired /\ pc' = "send"
          /\ UNCHANGED <<desired, queryVars>>
       \/ /\ ~CanSend(desired)
          /\ desired' = None
          /\ StartPoll /\ UNCHANGED taken
    /\ UNCHANGED <<ampVars, ctxVars, annVars, locked, target, attempt, heard,
                   world>>
TakeRequest ==
    /\ pc = "control" /\ desired # None
    /\ desired' = None
    /\ \/ /\ CanSend(desired)
          /\ taken' = desired /\ pc' = "send"
          /\ UNCHANGED queryVars
       \/ /\ ~CanSend(desired)
          /\ StartPoll /\ UNCHANGED taken
    /\ UNCHANGED <<ampVars, ctxVars, annVars, locked, target, attempt, heard,
                   world>>

SendControl ==
    /\ pc = "send"
    /\ \/ /\ portUp /\ devOperate' = taken /\ UNCHANGED used
       \/ Lost /\ UNCHANGED devOperate
    /\ StartJob("verify", <<"OS">>)
    /\ UNCHANGED <<shared, locked, turnVars, devFault, devBand, devTele,
                   linkVars, line>>

SendError ==
    /\ pc = "send" /\ ~portUp
    /\ StartPoll
    /\ UNCHANGED <<shared, locked, turnVars, world>>

-----------------------------------------------------------------------------
(* The other tasks, on the shared state.                                   *)

(* A PGXL client's operate/standby or a Flex amplifier status.             *)
Request(v) ==
    /\ ~locked /\ Spend("requests")
    /\ desired' = v
    /\ UNCHANGED <<ampVars, ctxVars, annVars, pc, locked, queryVars, turnVars,
                   devVars, linkVars, line>>

BandChange(b) ==
    /\ ~locked /\ Spend("context")
    /\ b # band /\ band' = b
    /\ UNCHANGED <<ampVars, desired, followWire, followConfirmed, followMatch,
                   tuning, annVars, pc, locked, queryVars, turnVars, devVars,
                   linkVars, line>>

TunerChange ==
    /\ ~locked /\ Spend("context")
    /\ tuning' = ~tuning
    /\ UNCHANGED <<ampVars, desired, band, followWire, followConfirmed,
                   followMatch, annVars, pc, locked, queryVars, turnVars,
                   devVars, linkVars, line>>

(* The Flex task's 100 ms timer takes the reannounce request; only the     *)
(* reason "kpa_state_changed" makes it a burst.                            *)
FlexTakesRequest ==
    /\ ~locked /\ requested
    /\ requested' = FALSE
    /\ UNCHANGED <<ampVars, desired, ctxVars, reason, advertised, pc, locked,
                   queryVars, turnVars, devVars, linkVars, line, used>>

-----------------------------------------------------------------------------
(* The amplifier's front panel and the port.                               *)

(* The amplifier may announce the change by itself.                        *)
PanelOperate ==
    /\ Spend("panel")
    /\ devOperate' = ~devOperate
    /\ \/ UNCHANGED line
       \/ portUp /\ Send([q |-> "OS", v |-> ~devOperate])
    /\ UNCHANGED <<shared, pc, locked, queryVars, turnVars, devFault, devBand,
                   devTele, linkVars>>

PanelFault ==
    /\ Spend("panel")
    /\ devFault' = ~devFault
    /\ UNCHANGED <<shared, pc, locked, queryVars, turnVars, devOperate,
                   devBand, devTele, linkVars, line>>

PanelBand(b) ==
    /\ Spend("panel")
    /\ b # devBand /\ devBand' = b
    /\ UNCHANGED <<shared, pc, locked, queryVars, turnVars, devOperate,
                   devFault, devTele, linkVars, line>>

Measurement(q) ==
    /\ Spend("panel")
    /\ devTele' = [devTele EXCEPT ![q] = 1 - @]
    /\ UNCHANGED <<shared, pc, locked, queryVars, turnVars, devOperate,
                   devFault, devBand, linkVars, line>>

PortLost ==
    /\ portUp /\ Spend("portLoss")
    /\ portUp' = FALSE /\ stalled' = FALSE /\ line' = << >>
    /\ UNCHANGED <<shared, pc, locked, queryVars, turnVars, devVars>>

Stall ==
    /\ portUp /\ ~stalled /\ Spend("stalls")
    /\ stalled' = TRUE
    /\ UNCHANGED <<shared, pc, locked, queryVars, turnVars, devVars, portUp,
                   line>>

Flow ==
    /\ stalled
    /\ stalled' = FALSE
    /\ UNCHANGED <<shared, pc, locked, queryVars, turnVars, devVars, portUp,
                   line, used>>

(* The port is there to be opened again; a handle opened before the loss   *)
(* stays dead, so only a driver that is opening can use it.                *)
PortBack ==
    /\ ~portUp /\ pc = "open"
    /\ portUp' = TRUE
    /\ UNCHANGED <<shared, pc, locked, queryVars, turnVars, devVars, stalled,
                   line, used>>

-----------------------------------------------------------------------------
Opening  == OpenPort \/ OpenFailed
Querying == Ask \/ ReceiveOther \/ ReceiveDiscovery \/ ReceivePoll
            \/ ReceiveVerify \/ GiveUp
Applying == ApplyBegin \/ ApplyLine \/ ApplyEnd
Following == FollowSkip \/ FollowDecide \/ Drain \/ BandWrite
             \/ BandWriteError \/ BandEcho \/ BandSilence
Controlling == NoRequest \/ TakeRequest \/ SendControl \/ SendError

Driver == Opening \/ Querying \/ Applying \/ Following \/ Controlling
OtherTasks ==
    \/ \E v \in BOOLEAN : Request(v)
    \/ \E b \in Bands \cup {None} : BandChange(b)
    \/ TunerChange
    \/ FlexTakesRequest
Environment ==
    \/ PanelOperate \/ PanelFault
    \/ \E b \in Bands : PanelBand(b)
    \/ \E q \in TeleQuery \cap Polled : Measurement(q)
    \/ PortLost \/ PortBack \/ Stall \/ Flow

Next == Driver \/ OtherTasks \/ Environment

Spec == Init /\ [][Next]_vars

(* tokio keeps polling the driver task and the Flex task's timer; the      *)
(* amplifier and the operators owe nothing.                                *)
FairSpec == Spec /\ WF_vars(Driver) /\ WF_vars(FlexTakesRequest)
-----------------------------------------------------------------------------
(***************************************************************************)
(* Correctness.                                                            *)
(***************************************************************************)

(* Every variable has a value of its type, group by group.                 *)
AmpTypeOK ==
    /\ connected \in BOOLEAN
    /\ connState \in {"Disconnected", "Connecting", "Connected", "Degraded"}
    /\ ampState \in AmpStates /\ operate \in BOOLEAN /\ fault \in BOOLEAN
    /\ meffa \in {"UNKNOWN", "OK"}
    /\ tele \in [TeleQuery -> Reading]
    /\ firstPollCompleted \in BOOLEAN /\ firstPollError \in BOOLEAN
CtxTypeOK ==
    /\ band \in Bands \cup {None} /\ followWire \in Bands \cup {None}
    /\ followConfirmed \in Bands \cup {None}
    /\ followMatch \in BOOLEAN \cup {None}
    /\ tuning \in BOOLEAN
AnnTypeOK ==
    /\ requested \in BOOLEAN /\ reason \in {None, "state", "telemetry"}
    /\ advertised \in AmpStates \cup {None}
QueryTypeOK ==
    /\ job \in {"discover", "poll", "verify"} /\ todo \in Seq(Query)
    /\ unsolicited \in Seq(Line) /\ batch \in Seq(Line)
    /\ answered \subseteq Query
TurnTypeOK ==
    /\ taken \in BOOLEAN /\ target \in Bands \cup {None}
    /\ attempt \in {0, 1} /\ heard \in Bands \cup {None}
DevTypeOK ==
    /\ devOperate \in BOOLEAN /\ devFault \in BOOLEAN /\ devBand \in Bands
    /\ devTele \in [TeleQuery -> Reading]
TypeOK ==
    /\ AmpTypeOK /\ CtxTypeOK /\ AnnTypeOK
    /\ QueryTypeOK /\ TurnTypeOK /\ DevTypeOK
    /\ desired \in BOOLEAN \cup {None}
    /\ pc \in {"open", "ask", "wait", "apply", "fold", "band", "drain",
               "bandWrite", "bandWait", "control", "send"}
    /\ locked \in BOOLEAN
    /\ portUp \in BOOLEAN /\ stalled \in BOOLEAN /\ line \in Seq(Line)
    /\ used \in [Budget -> Nat]

(* The three fields every consumer reads agree, even between two lines of  *)
(* a poll: the parsers of ^OS and ^FL write state, operate and fault in    *)
(* different orders, from polls, verifications and late lines.             *)
StateMatchesFlags ==
    /\ ampState = "Operate" => operate
    /\ ampState = "Standby" => ~operate
    /\ ampState = "Fault" => fault

(* A poll that got its ^FL answer leaves a fault visible as FAULT: the     *)
(* ^OS lines of the same poll, late ones included, do not mask it until    *)
(* the next control command or poll.                                       *)
Settled == /\ job = "poll"
           /\ pc \in {"band", "drain", "bandWrite", "bandWait", "control", "send"}
FaultNotMasked ==
    Settled /\ "FL" \in answered => (ampState = "Fault" <=> fault)

(* While the port is there, answers come in time and the operator leaves   *)
(* the band alone, a confirmed band the radio is still on is the band the  *)
(* amplifier is on: lost commands, retries and a band change in the middle *)
(* of a confirmation do not confirm a band that was never set.             *)
ConfirmedBand == /\ followMatch = TRUE /\ followWire = band
                 /\ pc \notin {"bandWrite", "bandWait"}
ConfirmedBandIsSet ==
    ConfirmedBand /\ portUp /\ used["panel"] = 0 /\ used["stalls"] = 0
    => devBand = followWire

(* The driver implements the abstract control of the amplifier: polls,     *)
(* band following, reconnection and verification never switch it, and a    *)
(* request is executed at most once and only if the settings permit it.    *)
Control == INSTANCE AmpControl WITH
    Permitted <- {op \in BOOLEAN : CanSend(op)},
    asked <- desired,
    inHand <- IF pc = "send" THEN taken ELSE None,
    operating <- devOperate,
    touched <- used["panel"]
ImplementsControl == Control!Spec

(* The line stays up and flows from some time on: what the environment     *)
(* has to grant for any of the following.                                  *)
LineSettles == <>[](portUp /\ ~stalled)

(* Once the line behaves and the amplifier is left alone, the shared state *)
(* becomes and remains what the amplifier is; late answers are worked off. *)
InStep ==
    /\ operate = devOperate /\ fault = devFault
    /\ ampState = IF devFault THEN "Fault"
                  ELSE IF devOperate THEN "Operate" ELSE "Standby"
    /\ \A q \in TeleQuery \cap Polled : tele[q] = devTele[q]
SharedStateSettles == LineSettles => <>[](locked \/ InStep)

(* Once the port has been opened no operate request stays unanswered, even *)
(* over a dead port.                                                       *)
RequestTaken == (<>(pc # "open")) => (desired # None ~> desired = None)
=============================================================================
