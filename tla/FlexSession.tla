---------------------------- MODULE FlexSession ----------------------------
(***************************************************************************)
(* The Flex client task: run and run_session of                            *)
(* crates/flex-injection/src/lib.rs.  The task connects to the radio,      *)
(* creates an amplifier object when it has been given a client handle,     *)
(* sends the rest of the registration once the object's handle is known    *)
(* or two seconds after the create was accepted, turns the operate         *)
(* requests that clients make through the radio into requests for the      *)
(* KPA500 driver, and connects again when the session ends, unless the     *)
(* radio removed the amplifier.                                            *)
(*                                                                         *)
(* The radio, its other clients and the TCP connection are the             *)
(* environment.  Commands and lines travel in order; a lost connection     *)
(* loses the commands on their way, and the radio may keep the amplifier   *)
(* object of a session it has not yet noticed to be gone.  An object is    *)
(* named by the session that created it.                                   *)
(*                                                                         *)
(* Left out: the meters, keepalive and the interlock, whose answers this   *)
(* part of the task only records; the bursts of reannouncements; the       *)
(* deadlines of the timers.                                                *)
(***************************************************************************)
EXTENDS Naturals, Sequences, FiniteSets

CONSTANTS
    None,           \* Rust's None
    AllowRfRisk, ConnectAssist, ForceOperate, LabProfile,   \* the settings
    MaxSessions,    \* bound: TCP sessions
    MaxSets,        \* bound: operate requests of the radio's clients
    MaxRemovals,    \* bound: amplifier objects the radio removes
    MaxLines        \* bound: lines on their way to the bridge

ASSUME SettingsAssumption ==
    {AllowRfRisk, ConnectAssist, ForceOperate, LabProfile} \subseteq BOOLEAN
ASSUME BoundsAssumption ==
    {MaxSessions, MaxSets, MaxRemovals, MaxLines} \subseteq Nat
ASSUME NoneAssumption == None \notin Nat /\ None \notin BOOLEAN

(* is_lab_mode: in the lab a removed amplifier is created again.           *)
LabMode == LabProfile \/ ForceOperate

VARIABLES
    \* BridgeState.flex_injection and .lifecycle
    connState, ampHandle, removedSeen, accepted, lifeSession, lifeAmp,
    \* BridgeState.desired.amp_operate
    desired,
    \* the task: program counter, FlexSession, flags of run_session
    pc, session, handle, createSent, registered, labSent, assistSent, armed,
    \* the connection and the radio: its amplifier objects, and whether one
    \* of its clients sees the amplifier as set to operate
    linked, toRadio, toBridge, objects, radioOperate,
    \* how much of each bound is used
    used,
    \* history: commands of this session, for FlexRegistration
    creates, registrations

flexVars  == <<connState, ampHandle, removedSeen, accepted, lifeSession,
               lifeAmp>>
taskVars  == <<createSent, registered, labSent, assistSent, armed>>
radioVars == <<objects, radioOperate>>
histVars  == <<creates, registrations>>
wire      == <<linked, toRadio, toBridge>>
vars == <<flexVars, desired, pc, session, handle, taskVars,
          wire, radioVars, used, histVars>>

Objects == 1..MaxSessions
Lifecycle == {"not-started", "connecting", "subscribed", "object-advertised",
              "object-created", "object-accepted", "active", "degraded",
              "removed", "reconnecting"}
CmdKind == {"create", "subscribe", "refresh", "set", "assist"}
Command == [k : {"create", "subscribe", "refresh"}, obj : {None}, op : {None}]
           \cup [k : {"set", "assist"}, obj : Objects, op : BOOLEAN]
\* H: the client handle.  R: the answer to a command of kind k.  S: an
\* amplifier status; full if it has the model or the serial number.
\* X: an amplifier was removed.
Line == [t : {"H"}]
        \cup [t : {"R"}, k : CmdKind, ok : BOOLEAN, obj : Objects \cup {None}]
        \cup [t : {"S"}, obj : Objects, op : BOOLEAN \cup {None},
              full : BOOLEAN]
        \cup [t : {"X"}, obj : Objects]

Init ==
    /\ connState = "Connecting" /\ ampHandle = None
    /\ removedSeen = FALSE /\ accepted = FALSE
    /\ lifeSession = "connecting" /\ lifeAmp = "not-started"
    /\ desired = None
    /\ pc = "away" /\ session = 0 /\ handle = None
    /\ createSent = FALSE /\ registered = FALSE
    /\ labSent = FALSE /\ assistSent = None /\ armed = FALSE
    /\ linked = FALSE /\ toRadio = << >> /\ toBridge = << >>
    /\ objects = {} /\ radioOperate = FALSE
    /\ used = [sets |-> 0, removals |-> 0]
    /\ creates = 0 /\ registrations = 0

-----------------------------------------------------------------------------
(* Connecting, and what run does when a session is over.                   *)

Connect ==
    /\ pc = "away" /\ session < MaxSessions
    /\ pc' = "select" /\ session' = session + 1
    /\ connState' = "Connected" /\ accepted' = FALSE
    /\ lifeSession' = "connecting"
    /\ handle' = None /\ createSent' = FALSE /\ registered' = FALSE
    /\ labSent' = FALSE /\ assistSent' = None /\ armed' = FALSE
    /\ linked' = TRUE /\ toRadio' = << >> /\ toBridge' = <<[t |-> "H"]>>
    /\ creates' = 0 /\ registrations' = 0
    /\ UNCHANGED <<ampHandle, removedSeen, lifeAmp, desired,
                   radioVars, used>>

(* A read or a write finds that the connection is gone; lines that came    *)
(* before it may be lost with it.                                          *)
SessionError ==
    /\ pc = "select" /\ ~linked
    /\ pc' = "ended"
    /\ UNCHANGED <<flexVars, desired, session, handle, taskVars,
                   wire, radioVars, used, histVars>>

(* The radio removed the amplifier: it is not created again but in the lab. *)
HaltsAlways == ~LabMode                                   \* mutant of Halts
Halts == removedSeen /\ ~LabMode

(* What run does when run_session returns, here after a session and in     *)
(* ConnectFails after an attempt.                                          *)
SessionOver(from) ==
    /\ pc = from
    /\ connState' = "Degraded"
    /\ IF Halts
       THEN /\ pc' = "halted"
            /\ lifeSession' = "degraded" /\ lifeAmp' = "removed"
            /\ UNCHANGED ampHandle
       ELSE /\ pc' = "away"
            /\ lifeSession' = "reconnecting" /\ lifeAmp' = "degraded"
            /\ ampHandle' = None
    /\ linked' = FALSE /\ toRadio' = << >> /\ toBridge' = << >>
    /\ UNCHANGED <<removedSeen, accepted, desired, session,
                   handle, taskVars, radioVars, used, histVars>>

ConnectFails == SessionOver("away")

-----------------------------------------------------------------------------
(* Sending.                                                                *)

Cmd(k, obj, op) == [k |-> k, obj |-> obj, op |-> op]

(* A write into a connection that is gone is lost.                         *)
Send(cmds) == toRadio' = IF linked THEN toRadio \o cmds ELSE toRadio

(* send_post_amplifier_registration_commands and the flag set after it.    *)
Registration == <<Cmd("subscribe", None, None)>>
Register ==
    /\ registered' = TRUE
    /\ registrations' = registrations + 1

-----------------------------------------------------------------------------
(* The handlers of one line.                                               *)

NextLine(t) ==
    /\ pc = "select" /\ toBridge # << >> /\ Head(toBridge).t = t
    /\ toBridge' = Tail(toBridge)
    /\ UNCHANGED <<linked, session, connState, createSent,
                   radioVars, used, creates>>

(* The client handle.  The create waits for the KPA500's first poll if it  *)
(* is set to, but never for ever, and nothing is read meanwhile.           *)
ReceiveHandle ==
    /\ NextLine("H")
    /\ pc' = IF createSent THEN "select" ELSE "create"
    /\ lifeSession' = "active"
    /\ UNCHANGED <<ampHandle, removedSeen, accepted, lifeAmp, desired, handle,
                   registered, labSent, assistSent, armed, toRadio,
                   registrations>>

(* The create fits its profile: only an open-trigger variant other than the *)
(* default makes the session give up here (RadioObjects!RefuseCreate).      *)
SendCreate ==
    /\ pc = "create" /\ ~createSent
    /\ pc' = "select"
    /\ createSent' = TRUE /\ creates' = creates + 1
    /\ Send(<<Cmd("create", None, None)>>)
    /\ lifeSession' = "object-created" /\ lifeAmp' = "object-advertised"
    /\ UNCHANGED <<connState, ampHandle, removedSeen, accepted, desired, session, handle, registered, labSent,
                   assistSent, armed, linked, toBridge, radioVars, used,
                   registrations>>

(* The amplifier's lifecycle after an answer: a create that was accepted,   *)
(* and named the object.                                                   *)
LifeAfterCreateActive(created, named) ==       \* mutant of LifeAfterCreate
    IF created THEN "active" ELSE lifeAmp
LifeAfterCreate(created, named) ==
    CASE named -> "active"
      [] created /\ ~named -> "object-accepted"
      [] OTHER -> lifeAmp

(* Any answer lets the registration go on once the object is known; the    *)
(* create's starts the fallback timer while it is not.                     *)
GoesOn(known) == createSent /\ ~registered /\ known # None
ArmsIfKnown(created, known) ==                           \* mutant of Arms
    created /\ ~registered /\ known # None
Arms(created, known) == created /\ ~registered /\ known = None

(* An answer.  The create's may name the object; any answer lets the       *)
(* registration go on if the object is known by now.                       *)
ReceiveAnswer ==
    LET answer == Head(toBridge)
        created == answer.k = "create" /\ answer.ok
        named   == created /\ answer.obj # None
        known   == IF named THEN answer.obj ELSE handle
    IN  /\ NextLine("R")
        /\ handle' = known
        /\ ampHandle' = IF named THEN answer.obj ELSE ampHandle
        /\ accepted' = (accepted \/ created)
        /\ lifeAmp' = LifeAfterCreate(created, named)
        /\ lifeSession' = IF GoesOn(known) \/ (answer.k = "subscribe" /\ answer.ok)
                          THEN "subscribed" ELSE "active"
        /\ armed' = (armed \/ Arms(created, known))
        /\ IF GoesOn(known)
           THEN Register /\ Send(Registration)
           ELSE UNCHANGED <<registered, registrations, toRadio>>
        /\ UNCHANGED <<removedSeen, desired, pc, labSent, assistSent>>

(* observe_amplifier_status: ours if it has our model or serial number, or *)
(* is of the object we know.                                               *)
Ours(status) == status.full \/ status.obj = handle

ReceiveForeign ==
    /\ NextLine("S") /\ ~Ours(Head(toBridge))
    /\ lifeSession' = "active"
    /\ UNCHANGED <<ampHandle, removedSeen, accepted, lifeAmp, desired, pc,
                   handle, registered, labSent, assistSent, armed, toRadio,
                   registrations>>

(* requested_operate and handle_amplifier_status: an operate field is a    *)
(* request, whoever caused it; one that is not allowed is reverted at the  *)
(* radio.                                                                  *)
Asked(status) == ~ForceOperate /\ status.op # None
RefusedStandby(status) ==                             \* mutant of Refused
    Asked(status) /\ status.op = FALSE /\ ~AllowRfRisk
Refused(status) == Asked(status) /\ status.op = TRUE /\ ~AllowRfRisk

NeedsLab == ForceOperate /\ ~labSent
NeedsAssist(status) == ConnectAssist /\ assistSent # status.obj

If(b, cmds) == IF b THEN cmds ELSE << >>
RepliesUnreverted(status) ==                          \* mutant of Replies
    If(~registered, Registration)
    \o If(NeedsLab, <<Cmd("assist", status.obj, TRUE)>>)
    \o If(NeedsAssist(status), <<Cmd("assist", status.obj, TRUE)>>)
Replies(status) ==
    If(~registered, Registration)
    \o If(NeedsLab, <<Cmd("assist", status.obj, TRUE)>>)
    \o If(NeedsAssist(status), <<Cmd("assist", status.obj, TRUE)>>)
    \o If(Refused(status), <<Cmd("set", status.obj, FALSE)>>)

(* A status of our amplifier: the object's handle is taken from it, the    *)
(* registration goes on, the lab's commands are sent, and a request is     *)
(* left for the KPA500 driver or refused.                                  *)
ReceiveStatus ==
    LET status == Head(toBridge)
    IN  /\ NextLine("S") /\ Ours(status)
        /\ handle' = status.obj /\ ampHandle' = status.obj
        /\ lifeAmp' = "active"
        /\ lifeSession' = IF registered THEN "active" ELSE "subscribed"
        /\ IF registered THEN UNCHANGED <<registered, registrations>>
                         ELSE Register
        /\ labSent' = (labSent \/ NeedsLab)
        /\ assistSent' = IF NeedsAssist(status) THEN status.obj
                                                ELSE assistSent
        /\ Send(Replies(status))
        /\ desired' = IF Asked(status) /\ ~Refused(status)
                      THEN status.op ELSE desired
        /\ UNCHANGED <<removedSeen, accepted, pc, armed>>

(* A removed line has no fields: it is ours only by its handle.            *)
ReceiveRemoved ==
    LET ours == Head(toBridge).obj = handle
    IN  /\ NextLine("X")
        /\ IF ours
           THEN /\ pc' = "ended" /\ removedSeen' = TRUE
                /\ handle' = None /\ lifeAmp' = "removed"
                /\ ampHandle' = IF ampHandle = handle THEN None ELSE ampHandle
           ELSE UNCHANGED <<pc, removedSeen, handle, lifeAmp, ampHandle>>
        /\ lifeSession' = "active"
        /\ UNCHANGED <<accepted, desired, registered, labSent, assistSent,
                       armed, toRadio, registrations>>

-----------------------------------------------------------------------------
(* The timers that change what the session has sent.                       *)

(* Mutant of Fallback: it does not look whether the object became known.    *)
FallbackUnchecked ==
    /\ pc = "select" /\ armed
    /\ armed' = FALSE
    /\ IF createSent
       THEN /\ Register /\ Send(Registration)
            /\ lifeSession' = "subscribed"
       ELSE UNCHANGED <<registered, registrations, toRadio, lifeSession>>
    /\ UNCHANGED <<connState, ampHandle, removedSeen, accepted, lifeAmp,
                   desired, pc, session, handle, createSent,
                   labSent, assistSent, linked, toBridge, radioVars, used,
                   creates>>

(* Two seconds after the create was accepted.                              *)
Fallback ==
    /\ pc = "select" /\ armed
    /\ armed' = FALSE
    /\ IF createSent /\ ~registered /\ handle = None
       THEN /\ Register /\ Send(Registration)
            /\ lifeSession' = "subscribed"
       ELSE UNCHANGED <<registered, registrations, toRadio, lifeSession>>
    /\ UNCHANGED <<connState, ampHandle, removedSeen, accepted, lifeAmp,
                   desired, pc, session, handle, createSent,
                   labSent, assistSent, linked, toBridge, radioVars, used,
                   creates>>

(* Every refresh of the amplifier's presence; the connect assist's retry   *)
(* also forgets which object it has set to operate; that no PGXL client    *)
(* ever came, its other condition, is left open.  It comes every thirty    *)
(* seconds: the radio has answered all that was sent before.               *)
Refresh(retry) ==
    /\ pc = "select" /\ registered
    /\ retry => /\ ConnectAssist /\ handle # None
                /\ toRadio = << >> /\ toBridge = << >>
    /\ \A i \in DOMAIN toRadio : toRadio[i].k # "refresh"
    /\ Send(<<Cmd("refresh", None, None)>>)
    /\ assistSent' = IF retry THEN None ELSE assistSent
    /\ UNCHANGED <<flexVars, desired, pc, session, handle,
                   createSent, registered, labSent, armed, linked, toBridge,
                   radioVars, used, histVars>>

-----------------------------------------------------------------------------
(* The other tasks.                                                        *)

KpaTakesRequest ==
    /\ desired # None
    /\ desired' = None
    /\ UNCHANGED <<flexVars, pc, session, handle, taskVars, wire,
                   radioVars, used, histVars>>

-----------------------------------------------------------------------------
(* The radio.                                                              *)

bridgeVars == <<flexVars, desired, pc, session, handle, taskVars,
                histVars>>

Answer(k, ok, obj) == [t |-> "R", k |-> k, ok |-> ok, obj |-> obj]
Status(obj, op, full) == [t |-> "S", obj |-> obj, op |-> op, full |-> full]

Tell(lines) ==
    /\ Len(toBridge) + Len(lines) =< MaxLines
    /\ toBridge' = toBridge \o lines

(* An object may be reported before the answer to its create.              *)
RadioCreates ==
    /\ linked /\ toRadio # << >> /\ Head(toRadio).k = "create"
    /\ \/ \E obj \in {session, None} :
              /\ objects' = objects \cup {session}
              /\ \/ Tell(<<Answer("create", TRUE, obj)>>)
                 \/ Tell(<<Status(session, None, TRUE),
                           Answer("create", TRUE, obj)>>)
       \/ Tell(<<Answer("create", FALSE, None)>>) /\ UNCHANGED objects
    /\ toRadio' = Tail(toRadio)
    /\ UNCHANGED <<bridgeVars, linked, radioOperate, used>>

(* A subscription is answered and followed by the status of every object.  *)
RadioReports ==
    /\ linked /\ toRadio # << >> /\ Head(toRadio).k \in {"subscribe", "refresh"}
    /\ \E order \in [1..Cardinality(objects) -> objects] :
          /\ {order[i] : i \in DOMAIN order} = objects
          /\ Tell(<<Answer(Head(toRadio).k, TRUE, None)>>
                  \o [i \in DOMAIN order |->
                        Status(order[i], None, TRUE)])
    /\ toRadio' = Tail(toRadio)
    /\ UNCHANGED <<bridgeVars, linked, radioVars, used>>

(* amplifier set from the bridge: it may be rejected; if not, the radio    *)
(* reports the new value to every client, the bridge included.             *)
RadioSets ==
    /\ linked /\ toRadio # << >> /\ Head(toRadio).k \in {"set", "assist"}
    /\ LET cmd == Head(toRadio)
       IN  \/ /\ cmd.obj \in objects
              /\ Tell(<<Answer(cmd.k, TRUE, None),
                        Status(cmd.obj, cmd.op, FALSE)>>)
              /\ radioOperate' = cmd.op
           \/ /\ cmd.k = "assist" \/ cmd.obj \notin objects
              /\ Tell(<<Answer(cmd.k, FALSE, None)>>)
              /\ UNCHANGED radioOperate
    /\ toRadio' = Tail(toRadio)
    /\ UNCHANGED <<bridgeVars, linked, objects, used>>

(* The radio reports a new object before the bridge asks for it.           *)
RadioAnnounces ==
    /\ linked /\ session \in objects /\ ~registered
    /\ toBridge = << >> /\ Tell(<<Status(session, None, TRUE)>>)
    /\ UNCHANGED <<bridgeVars, linked, toRadio, radioVars, used>>

ClientSets(op) ==
    /\ linked /\ session \in objects
    /\ used.sets < MaxSets /\ used' = [used EXCEPT !.sets = @ + 1]
    /\ \E full \in BOOLEAN : Tell(<<Status(session, op, full)>>)
    /\ radioOperate' = op
    /\ UNCHANGED <<bridgeVars, linked, toRadio, objects>>

RadioRemoves(obj) ==
    /\ obj \in objects
    /\ LabMode => session < MaxSessions
    /\ used.removals < MaxRemovals
    /\ used' = [used EXCEPT !.removals = @ + 1]
    /\ objects' = objects \ {obj}
    /\ radioOperate' = (radioOperate /\ obj # session)
    /\ IF linked THEN Tell(<<[t |-> "X", obj |-> obj]>>)
                 ELSE UNCHANGED toBridge
    /\ UNCHANGED <<bridgeVars, linked, toRadio>>

(* The connection is lost.  The radio drops the session's object, or keeps *)
(* it until it notices.                                                    *)
LinkLost ==
    /\ linked /\ session < MaxSessions
    /\ linked' = FALSE /\ toRadio' = << >>
    /\ objects' \in {objects, objects \ {session}}
    /\ radioOperate' = FALSE
    /\ UNCHANGED <<bridgeVars, toBridge, used>>

-----------------------------------------------------------------------------
Receive == ReceiveHandle \/ ReceiveAnswer \/ ReceiveForeign \/ ReceiveStatus
           \/ ReceiveRemoved
Bridge == Connect \/ ConnectFails \/ SessionError \/ SessionOver("ended")
          \/ Receive
          \/ SendCreate \/ Fallback
          \/ \E retry \in BOOLEAN : Refresh(retry)
RadioAnswers == RadioCreates \/ RadioReports \/ RadioSets
Environment ==
    \/ KpaTakesRequest \/ RadioAnswers \/ RadioAnnounces
    \/ \E op \in BOOLEAN : ClientSets(op)
    \/ \E obj \in objects : RadioRemoves(obj)
    \/ LinkLost

Next == Bridge \/ Environment

Spec == Init /\ [][Next]_vars

(* The task runs whenever it can; a radio that is connected answers; it is *)
(* reachable again and again.                                              *)
Fairness ==
    /\ WF_vars(Receive) /\ WF_vars(SendCreate) /\ WF_vars(Fallback)
    /\ WF_vars(SessionError) /\ WF_vars(SessionOver("ended")) /\ WF_vars(Connect)
    /\ WF_vars(RadioAnswers)
FairSpec == Spec /\ Fairness

-----------------------------------------------------------------------------
(* Properties.                                                             *)

InSession == pc \in {"create", "select"}

FlexTypeOK ==
    /\ connState \in {"Connecting", "Connected", "Degraded"}
    /\ ampHandle \in Objects \cup {None}
    /\ removedSeen \in BOOLEAN /\ accepted \in BOOLEAN
    /\ lifeSession \in Lifecycle /\ lifeAmp \in Lifecycle
    /\ desired \in BOOLEAN \cup {None}
TaskTypeOK ==
    /\ pc \in {"away", "create", "select", "ended", "halted"}
    /\ session \in 0..MaxSessions
    /\ handle \in Objects \cup {None}
    /\ createSent \in BOOLEAN /\ registered \in BOOLEAN
    /\ labSent \in BOOLEAN /\ armed \in BOOLEAN
    /\ assistSent \in Objects \cup {None}
WireTypeOK ==
    /\ linked \in BOOLEAN
    /\ toRadio \in Seq(Command) /\ toBridge \in Seq(Line)
RadioTypeOK ==
    /\ objects \subseteq Objects /\ radioOperate \in BOOLEAN
    /\ used \in [sets : 0..MaxSets, removals : 0..MaxRemovals]
TypeOK ==
    /\ FlexTypeOK /\ TaskTypeOK /\ WireTypeOK /\ RadioTypeOK
    /\ creates \in 0..1 /\ registrations \in 0..1

(* The handle the other tasks and /status see is the one the session       *)
(* works with, and outside a session there is none.                        *)
HandleShared ==
    /\ InSession => ampHandle = handle
    /\ pc \in {"away", "halted"} => ampHandle = None

(* In a session the amplifier's lifecycle is active only while the handle   *)
(* of its object is known, whatever an earlier session had made of it.     *)
ActiveIsKnown == InSession /\ lifeAmp = "active" => handle # None

(* Without the RF-risk permission no line of the radio, an echo of the     *)
(* bridge's own commands included, asks the KPA500 to operate.             *)
OperateNeedsPermission == ~AllowRfRisk => desired # TRUE

(* The registration is sent once per session and in order, whichever of    *)
(* answer, status and fallback timer comes first, and never again after    *)
(* the radio removed the amplifier.                                        *)
Registrar == INSTANCE FlexRegistration WITH
    place <- CASE pc \in {"create", "select", "ended"} -> "session"
               [] OTHER -> pc
ImplementsRegistration == Registrar!Spec

(* A session whose create was accepted is registered, with or without a    *)
(* status of the object, or ends.                                          *)
RegistrationContinues == (accepted /\ InSession) ~> (registered \/ ~InSession)

(* Whatever ended the session, unless it was the removal of the amplifier, *)
(* the task has a session again.                                           *)
SessionRestored ==
    (pc \in {"away", "ended"} /\ (LabMode \/ ~removedSeen)) ~> InSession

(* An operate request that reaches the bridge without the permission is    *)
(* taken back at the radio while the session lasts.                        *)
Denied ==
    /\ ~AllowRfRisk /\ pc = "select" /\ toBridge # << >>
    /\ Head(toBridge).t = "S" /\ Head(toBridge).obj = session
    /\ Head(toBridge).op = TRUE /\ Ours(Head(toBridge))
OperateReverted == Denied ~> (~radioOperate \/ ~InSession)

=============================================================================
