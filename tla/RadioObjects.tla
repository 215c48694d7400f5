---------------------------- MODULE RadioObjects ----------------------------
(* What the Flex session (crates/flex-injection) keeps of the radio's      *)
(* objects, told in status lines and in answers to its commands: the       *)
(* interlock that the radio asks before it transmits, the meters it        *)
(* publishes values to, the slice that transmits and the tuner.            *)
(*                                                                         *)
(* Lines and commands are two queues of one TCP connection.  When it ends  *)
(* the radio drops the client's objects; the bridge keeps what it was      *)
(* told.  Registration as an amplifier is FlexSession's; the amplifier     *)
(* appears here as what the KPA500 driver shows of it.                     *)
EXTENDS Integers, Sequences, FiniteSets, SequencesExt

CONSTANTS
    Meters,        \* names of meters
    Slices,        \* ids of slices
    Dial,          \* RF_frequency of a slice, in thousandths
    Parked,        \* where each slice is at first
    Antenna,       \* the antenna of each slice
    Tuners,        \* handles of a TunerGeniusXL
    AmpStates, AmpStart,   \* what is shown of the amplifier: [conn, state, fault]
    ClientAntenna, \* what a TGXL client sets as the antenna
    Configs,       \* the settings: [profile, variant, meters, interlock, disable,
                   \* runtime, rf, vita]
    MaxSessions,   \* bound: TCP sessions
    MaxEvents,     \* bound: what radio and amplifier do by themselves
    Scenes,        \* bound: which of these things happen together
    None

ASSUME ConstantsAssumption ==
    /\ Slices \subseteq Nat /\ Slices # {} /\ Dial \subseteq Nat /\ Dial # {}
    /\ IsFiniteSet(Slices) /\ IsFiniteSet(Meters)
    /\ DOMAIN Antenna = Slices /\ Parked \in [Slices -> Dial] /\ AmpStart \in AmpStates
    /\ MaxSessions \in Nat /\ MaxEvents \in Nat
    /\ None \notin Nat \cup Tuners

VARIABLES
    config, scene,
    pc,          \* the session: "away", "session", or answering the radio
    session,     \* the number of the session; its objects carry it
    registered,  \* post_amplifier_registration_sent
    interlock,   \* [id, state, tx]: interlock_handle, last_interlock_state and
                 \* last_interlock_tx_allowed
    answer,      \* what the radio is about to be told: [kind, id]
    meters,      \* meter_handles: the session whose ids are held, 0 for none
    published,   \* the ids in the last packets of values
    context,     \* radio_context: [slice, hz, band, ant]
    tuner,       \* tuner_handle
    amp,         \* what is shown of the amplifier
    radio,       \* [lock, meters, subs, tx, dial, tuner, shown]
    toRadio, toBridge,
    events       \* how much of the bound is used
held == <<interlock, meters, context, tuner>>
vars == <<config, scene, pc, session, registered, answer, held, published, amp, radio,
          toRadio, toBridge, events>>

-----------------------------------------------------------------------------
(* Frequencies.                                                            *)
InBand == [m160 |-> <<1800000, 2000000>>, m80 |-> <<3500000, 4000000>>,
           m60 |-> <<5330500, 5406500>>, m40 |-> <<7000000, 7300000>>,
           m30 |-> <<10100000, 10150000>>, m20 |-> <<14000000, 14350000>>,
           m17 |-> <<18068000, 18168000>>, m15 |-> <<21000000, 21450000>>,
           m12 |-> <<24890000, 24990000>>, m10 |-> <<28000000, 29700000>>,
           m6 |-> <<50000000, 54000000>>]
DefaultHz == 14200000
BandOf(hz) ==
    LET bands == {b \in DOMAIN InBand : InBand[b][1] <= hz /\ hz <= InBand[b][2]} IN
    IF bands = {} THEN "unknown" ELSE CHOOSE b \in bands : TRUE

(* A number with three decimals is taken for MHz, kHz or Hz by its size;   *)
(* zero is no frequency.                                                   *)
ParseHz(v) ==
    CASE v = 0 -> None
      [] v > 0 /\ v < 1000 * 1000 -> v * 1000
      [] v >= 1000 * 1000 /\ v < 1000 * 1000 * 1000 -> v
      [] OTHER -> v \div 1000

-----------------------------------------------------------------------------
(* Lines of the radio.  A slice line has its frequency and the tx key; a   *)
(* tuner goes by a key (removed=1, connected=0, ...): the bare word, by    *)
(* which an amplifier object goes, is not understood of a tuner.           *)
Told(what, ok) == [kind |-> "answer", to |-> what, ok |-> ok]
SliceLine(s, r) == [kind |-> "slice", slice |-> s, dial |-> r.dial[s], tx |-> r.tx = s, ant |-> Antenna[s]]
TransmitLine(r) == [kind |-> "transmit", ant |-> Antenna[r.tx]]
TunerLine(h, gone) == [kind |-> "tuner", handle |-> h, gone |-> gone]
LockLine(state, tx) == [kind |-> "interlock", state |-> state, tx |-> tx]

(* The fields of the amplifier's create beyond the official ones: by the   *)
(* profile, unless an open-trigger variant other than the default decides. *)
Minimal == {"aethersdr_minimal", "aethersdr_operational"}
Verbose == {"pgxl_verbose", "old_good_pgxl"}
ForcedDirect == {"aethersdr_force_direct", "aethersdr_pgxl_direct_lab"}
Plain == {"minimal", "official_pgxl", "pgxl_paired", "strict_real_pgxl"}
Profiles == Minimal \cup Verbose \cup ForcedDirect \cup Plain
Ready == {"connected", "configured", "enabled"}
Direct == {"direct", "lan"}
VariantFields ==
    [no_hack_fields |-> {}, state_only |-> {"state"}, state_ip_port |-> {"state"},
     state_model_ip_port_serial |-> {"state"}, state_connected |-> {"state", "connected"},
     availability_fields |-> {"state", "available", "tx_ready", "control"},
     current_hack_fields |-> {"state"} \cup Ready \cup Direct]
Variants == {"current"} \cup DOMAIN VariantFields
CreateFields(profile, variant) ==
    CASE variant # "current" -> VariantFields[variant]
      [] profile \in Verbose -> {"state"} \cup Ready
      [] profile \in Minimal -> {"state"}
      [] profile \in ForcedDirect -> {"state"} \cup Ready \cup Direct
      [] OTHER -> {}

(* Every session checks its create before it sends it.                     *)
Fits(profile, fields) ==
    /\ profile = "official_pgxl" => fields \cap ({"state"} \cup Ready \cup Direct) = {}
    /\ profile \in Minimal => "state" \in fields /\ fields \cap (Ready \cup Direct) = {}
Refused(c) == ~Fits(c.profile, CreateFields(c.profile, c.variant))

(* An operational bridge starts if this holds; the variant is not looked   *)
(* at.                                                                     *)
MayStart(profile) ==
    /\ profile \notin Verbose \cup {"aethersdr_pgxl_direct_lab"}
    /\ Fits(profile, CreateFields(profile, "current"))
ASSUME ConfigsAssumption ==
    \A c \in Configs : MayStart(c.profile) /\ c.variant \in Variants

(* What follows the registration of the amplifier.                         *)
Commands(c) ==
    (IF c.meters THEN SetToSeq({[kind |-> "meter", meter |-> m] : m \in Meters}) ELSE <<>>)
    \o (IF c.interlock /\ ~c.disable THEN <<[kind |-> "interlock"]>> ELSE <<>>)
    \o <<[kind |-> "sub", what |-> "amplifier"], [kind |-> "sub", what |-> "slice"],
         [kind |-> "sub", what |-> "tx"]>>

Init ==
    /\ config \in Configs /\ scene \in Scenes
    /\ pc = "away" /\ session = 0 /\ registered = FALSE
    /\ interlock = [id |-> 0, state |-> None, tx |-> None]
    /\ answer = None
    /\ meters = [m \in Meters |-> 0] /\ published = [m \in Meters |-> 0]
    /\ context = [slice |-> None, hz |-> DefaultHz, band |-> "m20", ant |-> None]
    /\ tuner = None
    /\ amp = AmpStart
    /\ \E s \in Slices :
          radio = [lock |-> "none", meters |-> {}, subs |-> {}, tx |-> s, dial |-> Parked,
                   tuner |-> None, shown |-> FALSE]
    /\ toRadio = <<>> /\ toBridge = <<>>
    /\ events = 0

-----------------------------------------------------------------------------
(* The session.                                                            *)

(* Mutant of Started: what the interlock permitted is left.                *)
StartedAsItWas == interlock

(* A new session distrusts what the interlock permitted, if there is to be *)
(* one; the handles and the context stay.                                  *)
Started ==
    IF config.disable THEN [interlock EXCEPT !.tx = FALSE]
    ELSE IF config.interlock THEN [interlock EXCEPT !.state = "PENDING", !.tx = FALSE]
    ELSE interlock

Connect ==
    /\ pc = "away" /\ session < MaxSessions
    /\ pc' = "session" /\ session' = session + 1 /\ registered' = FALSE
    /\ interlock' = Started
    /\ UNCHANGED <<config, scene, answer, meters, published, context, tuner, amp, radio,
                   toRadio, toBridge, events>>

Register ==
    /\ pc = "session" /\ ~registered /\ ~Refused(config)
    /\ registered' = TRUE
    /\ toRadio' = toRadio \o Commands(config)
    /\ UNCHANGED <<config, scene, pc, session, answer, held, published, amp, radio, toBridge, events>>

Take(kind) ==
    /\ pc = "session" /\ toBridge # <<>> /\ Head(toBridge).kind = kind
    /\ toBridge' = Tail(toBridge)
    /\ UNCHANGED <<config, scene, session, registered, published, amp, radio, toRadio, events>>

(* Mutant of Upsert: the entry that is there already stays.                *)
UpsertFirst(m) == IF meters[m] = 0 THEN [meters EXCEPT ![m] = session] ELSE meters
Upsert(m) == [meters EXCEPT ![m] = session]

(* Mutant of Created: the first handle is kept.                            *)
CreatedFirst == [interlock EXCEPT !.id = IF @ = 0 THEN session ELSE @, !.tx = FALSE]
Created == [interlock EXCEPT !.id = session, !.tx = FALSE]

(* A rejected create leaves what an earlier session was given, and so does *)
(* an accepted one whose answer names no object: `ok' is accepted and      *)
(* named.                                                                  *)
TakeAnswer ==
    /\ Take("answer")
    /\ LET l == Head(toBridge) IN
       /\ interlock' = IF l.ok /\ l.to = "interlock" THEN Created ELSE interlock
       /\ meters' = IF l.ok /\ l.to \in Meters THEN Upsert(l.to) ELSE meters
    /\ UNCHANGED <<pc, answer, context, tuner>>

(* Mutant of Follows: the first slice with a frequency is followed.        *)
FollowsFirst(l) == context.slice = None \/ context.hz = None \/ context.slice = l.slice
(* The transmitting slice, or any while there is nothing to show.  As there *)
(* is a frequency from the start, that is while no slice is known.         *)
Follows(l) == l.tx \/ context.slice = None \/ context.hz = None

TakeSlice ==
    /\ Take("slice")
    /\ LET l == Head(toBridge)
           hz == ParseHz(l.dial)
       IN context' =
            IF ~Follows(l) THEN context
            ELSE [slice |-> l.slice, ant |-> l.ant,
                  hz |-> IF hz = None THEN context.hz ELSE hz,
                  band |-> IF hz = None THEN context.band ELSE BandOf(hz)]
    /\ UNCHANGED <<pc, answer, interlock, meters, tuner>>

TakeTransmit ==
    /\ Take("transmit")
    /\ context' = [context EXCEPT !.ant = Head(toBridge).ant]
    /\ UNCHANGED <<pc, answer, interlock, meters, tuner>>

(* The line of a tuner that goes may repeat the model; then it clears what *)
(* is held, whatever the handle.                                           *)
TakeTuner ==
    /\ Take("tuner")
    /\ LET l == Head(toBridge) IN
       tuner' \in IF ~l.gone THEN {l.handle}
                  ELSE IF tuner = l.handle THEN {None} ELSE {tuner, None}
    /\ UNCHANGED <<pc, answer, interlock, meters, context>>

AllowsTx ==
    /\ config.rf
    /\ amp.conn = "Connected"
    /\ ~amp.fault /\ amp.state # "Fault"
    /\ amp.state = "Operate"
(* Whatever interlock the line is about; without tx_allowed it forbids.    *)
Observed(l) == [interlock EXCEPT !.state = l.state, !.tx = (l.tx = "1")]

(* A request is answered if there is a handle to name.                     *)
TakeInterlock ==
    /\ Take("interlock")
    /\ LET l == Head(toBridge) IN
       /\ interlock' = Observed(l)
       /\ pc' = IF config.runtime /\ l.state = "PTT_REQUESTED" /\ interlock.id # 0
                THEN "asked" ELSE "session"
    /\ UNCHANGED <<answer, meters, context, tuner>>

Decide ==
    /\ pc = "asked"
    /\ pc' = "decided"
    /\ answer' = [kind |-> IF AllowsTx THEN "ready" ELSE "not_ready", id |-> interlock.id]
    /\ UNCHANGED <<config, scene, session, registered, held, published, amp, radio, toRadio,
                   toBridge, events>>

Answer ==
    /\ pc = "decided"
    /\ toRadio' = Append(toRadio, answer)
    /\ pc' = "session" /\ answer' = None
    /\ UNCHANGED <<config, scene, session, registered, held, published, amp, radio, toBridge, events>>

(* The timer of the values: of each meter that has an id.                  *)
Values == {m \in Meters : meters[m] # 0}
Publish ==
    /\ pc = "session" /\ registered /\ config.vita
    /\ Values # {}
    /\ published' = meters
    /\ UNCHANGED <<config, scene, pc, session, registered, answer, held, amp, radio, toRadio,
                   toBridge, events>>

Ends ==
    /\ pc' = "away" /\ registered' = FALSE /\ answer' = None
    /\ toRadio' = <<>> /\ toBridge' = <<>>
    /\ radio' = [radio EXCEPT !.lock = "none", !.meters = {}, !.subs = {}, !.shown = FALSE]
    /\ UNCHANGED <<config, scene, session, held, published, amp, events>>

(* The connection is lost, wherever the session is.                        *)
Disconnect == pc # "away" /\ Ends

(* The session gives up before it sends a create that does not fit.        *)
RefuseCreate == pc = "session" /\ ~registered /\ Refused(config) /\ Ends

-----------------------------------------------------------------------------
(* The radio.                                                              *)
Says(lines) == toBridge' = toBridge \o lines

Accepts(c) ==
    /\ c.kind \in {"meter", "interlock"}
    /\ radio' = IF c.kind = "meter" THEN [radio EXCEPT !.meters = @ \cup {c.meter}]
                ELSE [radio EXCEPT !.lock = "idle"]
    /\ Says(<<Told(IF c.kind = "meter" THEN c.meter ELSE c.kind, TRUE)>>)

Rejects(c) ==
    /\ c.kind \in {"meter", "interlock"}
    /\ Says(<<Told(IF c.kind = "meter" THEN c.meter ELSE c.kind, FALSE)>>)
    /\ UNCHANGED radio

(* Who subscribes is told what there is.                                   *)
Subscribes(c) ==
    /\ c.kind = "sub"
    /\ radio' = [radio EXCEPT !.subs = @ \cup {c.what},
                              !.shown = @ \/ (c.what = "amplifier" /\ radio.tuner # None)]
    /\ Says(CASE c.what = "slice" -> [i \in 1..Len(SetToSeq(Slices)) |-> SliceLine(SetToSeq(Slices)[i], radio)]
              [] c.what = "tx" -> <<TransmitLine(radio)>>
              [] OTHER -> IF radio.tuner = None THEN <<>> ELSE <<TunerLine(radio.tuner, FALSE)>>)

(* An answer counts if it names the interlock that is waiting for one.     *)
Heeds(c) ==
    /\ c.kind \in {"ready", "not_ready"}
    /\ IF radio.lock = "asked" /\ c.id = session
       THEN /\ radio' = [radio EXCEPT !.lock = IF c.kind = "ready" THEN "transmits" ELSE "idle"]
            /\ Says(<<IF c.kind = "ready" THEN LockLine("TRANSMITTING", "1") ELSE LockLine("NOT_READY", "0")>>)
       ELSE UNCHANGED <<radio, toBridge>>

Obey ==
    /\ toRadio # <<>>
    /\ toRadio' = Tail(toRadio)
    /\ LET c == Head(toRadio) IN Accepts(c) \/ Rejects(c) \/ Subscribes(c) \/ Heeds(c)
    /\ UNCHANGED <<config, scene, pc, session, registered, answer, held, published, amp, events>>

Event(what) ==
    /\ what \in scene
    /\ events < MaxEvents
    /\ events' = events + 1
    /\ UNCHANGED <<config, scene, pc, session, registered, answer, published, toRadio>>
Tells(sub, lines) == IF sub \in radio.subs THEN Says(lines) ELSE UNCHANGED toBridge

(* The operator keys the radio; it asks our interlock, or another one.     *)
Key ==
    /\ Event("key") /\ pc # "away" /\ radio.lock \in {"none", "idle"}
    /\ radio' = [radio EXCEPT !.lock = IF @ = "idle" THEN "asked" ELSE @]
    /\ Says(<<LockLine("PTT_REQUESTED", "absent")>>)
    /\ UNCHANGED <<held, amp>>

Unkey ==
    /\ Event("key") /\ radio.lock \in {"asked", "transmits"}
    /\ radio' = [radio EXCEPT !.lock = "idle"]
    /\ Says(<<LockLine("UNKEY_REQUESTED", "0")>>)
    /\ UNCHANGED <<held, amp>>

Tune ==
    /\ Event("slice")
    /\ \E s \in Slices : \E d \in Dial \ {radio.dial[s]} :
          LET r == [radio EXCEPT !.dial[s] = d] IN
          radio' = r /\ Tells("slice", <<SliceLine(s, r)>>)
    /\ UNCHANGED <<held, amp>>

MoveTx ==
    /\ Event("slice")
    /\ \E s \in Slices \ {radio.tx} :
          LET r == [radio EXCEPT !.tx = s]
              lines == <<SliceLine(radio.tx, r), SliceLine(s, r)>>
          IN /\ radio' = r
             /\ Says((IF "slice" \in radio.subs THEN lines ELSE <<>>)
                     \o (IF "tx" \in radio.subs THEN <<TransmitLine(r)>> ELSE <<>>))
    /\ UNCHANGED <<held, amp>>

TunerComes ==
    /\ Event("tuner") /\ radio.tuner = None
    /\ \E h \in Tuners :
          /\ radio' = [radio EXCEPT !.tuner = h, !.shown = @ \/ "amplifier" \in radio.subs]
          /\ Tells("amplifier", <<TunerLine(h, FALSE)>>)
    /\ UNCHANGED <<held, amp>>

TunerGoes ==
    /\ Event("tuner") /\ radio.tuner # None
    /\ radio' = [radio EXCEPT !.tuner = None]
    /\ Tells("amplifier", <<TunerLine(radio.tuner, TRUE)>>)
    /\ UNCHANGED <<held, amp>>

(* A TGXL client sets the antenna of its Flex radio: the bridge takes it   *)
(* over until the radio names one.                                         *)
ClientSets ==
    /\ Event("client")
    /\ context' = [context EXCEPT !.ant = ClientAntenna]
    /\ UNCHANGED <<interlock, meters, tuner, amp, radio, toBridge>>

AmpChanges ==
    /\ Event("amp")
    /\ \E a \in AmpStates \ {amp} : amp' = a
    /\ UNCHANGED <<held, radio, toBridge>>

TakeLine == TakeAnswer \/ TakeSlice \/ TakeTransmit \/ TakeTuner \/ TakeInterlock
Session == Connect \/ Register \/ TakeLine \/ Decide \/ Answer \/ Publish \/ RefuseCreate
           \/ Disconnect
Radio == Obey \/ Key \/ Unkey \/ Tune \/ MoveTx \/ TunerComes \/ TunerGoes
Next == Session \/ Radio \/ AmpChanges \/ ClientSets
Spec == Init /\ [][Next]_vars

-----------------------------------------------------------------------------
(* Types.                                                                  *)
Antennas == {Antenna[s] : s \in Slices}
LockStates == {"PENDING", "PTT_REQUESTED", "UNKEY_REQUESTED", "TRANSMITTING", "NOT_READY"}
LinesOfRadio ==
    [kind : {"answer"}, to : Meters \cup {"interlock"}, ok : BOOLEAN]
    \cup [kind : {"slice"}, slice : Slices, dial : Dial, tx : BOOLEAN, ant : Antennas]
    \cup [kind : {"transmit"}, ant : Antennas]
    \cup [kind : {"tuner"}, handle : Tuners, gone : BOOLEAN]
    \cup [kind : {"interlock"}, state : LockStates, tx : {"0", "1", "absent"}]
Answers == [kind : {"ready", "not_ready"}, id : Nat]
CommandsOfBridge ==
    [kind : {"meter"}, meter : Meters] \cup [kind : {"interlock"}]
    \cup [kind : {"sub"}, what : {"amplifier", "slice", "tx"}] \cup Answers

BridgeOK ==
    /\ config \in Configs /\ scene \in Scenes
    /\ pc \in {"away", "session", "asked", "decided"}
    /\ session \in 0..MaxSessions /\ registered \in BOOLEAN
    /\ interlock \in [id : Nat, state : LockStates \cup {None}, tx : BOOLEAN \cup {None}]
    /\ answer \in Answers \cup {None} /\ (pc = "decided" => answer \in Answers)
    /\ meters \in [Meters -> Nat] /\ published \in [Meters -> Nat]
    /\ context \in [slice : Slices \cup {None}, hz : Nat,
                    band : DOMAIN InBand \cup {"unknown"},
                    ant : Antennas \cup {ClientAntenna, None}]
    /\ tuner \in Tuners \cup {None}
RadioOK ==
    /\ amp \in AmpStates
    /\ radio \in [lock : {"none", "idle", "asked", "transmits"}, meters : SUBSET Meters,
                  subs : SUBSET {"amplifier", "slice", "tx"}, tx : Slices,
                  dial : [Slices -> Dial], tuner : Tuners \cup {None}, shown : BOOLEAN]
    /\ events \in 0..MaxEvents
TypeOK ==
    /\ BridgeOK /\ RadioOK
    /\ toBridge \in Seq(LinesOfRadio) /\ toRadio \in Seq(CommandsOfBridge)

-----------------------------------------------------------------------------
(* Properties.                                                             *)

(* With an interlock configured, transmission is shown as allowed only if  *)
(* the radio has said so in this session.                                  *)
TxShownWasTold ==
    [][(config.interlock \/ config.disable) /\ interlock'.tx = TRUE /\ pc' # "away"
         => \/ interlock.tx = TRUE /\ session' = session
            \/ TakeInterlock /\ Head(toBridge).tx = "1"]_vars

(* When everything the radio said is read, the bridge shows the slice that *)
(* transmits; its frequency and band, if it has a frequency; its antenna,  *)
(* if no client has set another; the tuner, if the radio has mentioned one *)
(* in this session; and it holds the interlock that this session was given.*)
Quiet == pc = "session" /\ toBridge = <<>> /\ toRadio = <<>> /\ registered
ShownFollowsRadio ==
    Quiet =>
       /\ context.slice = radio.tx
       /\ ParseHz(radio.dial[radio.tx]) # None =>
             context.hz = ParseHz(radio.dial[radio.tx]) /\ context.band = BandOf(context.hz)
       /\ context.ant \in {Antenna[radio.tx], ClientAntenna}
       /\ ~"client" \in scene => context.ant = Antenna[radio.tx]
       /\ radio.shown => tuner = radio.tuner
       /\ radio.lock # "none" => interlock.id = session

(* With the runtime loop no request of our own interlock is left waiting:  *)
(* when everything is read and every answer has arrived, it was answered,  *)
(* with the handle of this session's interlock.                            *)
NoRequestWaits == Quiet /\ config.runtime => radio.lock # "asked"

(* Once the answer to a meter create of this session is read, the values   *)
(* go to the meter it named and not to one of an earlier session.          *)
ValuesGoToOwnMeters ==
    [][published' # published =>
         \A m \in radio.meters : Told(m, TRUE) \in ToSet(toBridge) \/ published'[m] = session]_vars
=============================================================================
