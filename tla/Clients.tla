------------------------------ MODULE Clients ------------------------------
(* The clients of the two emulated devices (crates/pgxl-emulator and       *)
(* crates/tgxl-emulator), each served by a task of its own, the list of    *)
(* their sessions, and the log that measures how soon a change of the      *)
(* amplifier's state is told to PGXL clients and to the radio              *)
(* (crates/bridge-core: KpaStateTransitionLatency).                        *)
(*                                                                         *)
(* A task holds the shared state only for a moment at a time: between the  *)
(* body it reads, the time it notes and the log it writes, others go on.   *)
(* What requests do is in KpaDriver and KatDriver, strict start-up in      *)
(* DeviceStatus, last_advertised_pgxl_state in Advertisement.              *)
EXTENDS Integers, Sequences, FiniteSets, TLC

CONSTANTS
    PgxlClients, TgxlClients,
    AmpStates,      \* the amplifier's states, by the names PGXL gives them
    Overrides,      \* told for any of them: a fault, before the first poll, a profile
    Second,         \* the unit of time: passed_..._under_2s allows two
    LogSize,        \* transitions that are kept
    Wait,           \* how long an autotune keeps its client waiting
    MaxTime,        \* bound: how far the clock goes
    MaxSessions,    \* bound: connections
    MaxCommands,    \* bound: lines that clients send
    MaxChanges,     \* bound: changes of the amplifier and of the tuner
    MaxFlex,        \* bound: what the radio is told and tells
    None

ASSUME ConstantsAssumption ==
    /\ PgxlClients \cap TgxlClients = {}
    /\ AmpStates # {} /\ None \notin AmpStates \cup Overrides \cup Int
    /\ None \notin BOOLEAN /\ None \notin {"echoed", "matched"}
    /\ Second \in Nat /\ Wait \in Nat /\ LogSize \in Nat \ {0}
    /\ MaxTime \in Nat /\ MaxSessions \in Nat /\ MaxCommands \in Nat
    /\ MaxChanges \in Nat /\ MaxFlex \in Nat

VARIABLES
    now,
    next,      \* clients.next_session_id
    listed,    \* clients.pgxl_sessions and tgxl_sessions: their ids
    count,     \* pgxl_client_count, tgxl_client_count
    flag,      \* pgxl_connected, tgxl_connected
    client,    \* the tasks: [pc, id, reply, state, at]
    shown,     \* the amplifier's state
    changes,   \* history: how often the amplifier has changed
    log,       \* kpa_state_transition_latencies
    flex,      \* a status of the radio that is about to be logged: [at, state]
    used       \* how much of the bounds is used: [commands, flex]
vars == <<now, next, listed, count, flag, client, shown, changes, log, flex, used>>
sessions == <<next, listed, count, flag>>
device == <<shown, changes>>

Members == PgxlClients \cup TgxlClients
Protocols == {"PGXL", "TGXL"}
Protocol(c) == IF c \in PgxlClients THEN "PGXL" ELSE "TGXL"
Of(p) == {c \in Members : Protocol(c) = p}

-----------------------------------------------------------------------------
(* What is answered: the code of the response, None if there is no         *)
(* response; whether it, or the push that follows it, tells the device's   *)
(* state; whether the log is told; whether the client waits.               *)
Reply(code, body) == [code |-> code, body |-> body, logs |-> FALSE, waits |-> FALSE]

(* What can be read is fixed, or the radio's.                              *)
PgxlRead == Reply(0, FALSE)
PgxlReplies ==
    [status |-> [Reply(0, TRUE) EXCEPT !.logs = TRUE],
     operate |-> Reply(0, TRUE), standby |-> Reply(0, TRUE),
     read |-> PgxlRead,                \* info, setup, network, catradio, flexradio
     configure |-> Reply(5, FALSE),    \* unsupported: ifconf, catradio, flexradio, save
     unknown |-> Reply(1, FALSE), garbled |-> Reply(None, FALSE)]

(* Relays go by 1 to 3, and 0 is taken for the first; a move is one step.  *)
RelayTaken(relay, move) == relay \in 0..3 /\ move \in {-1, 1}
Taken(valid, body) == IF valid THEN Reply(0, body) ELSE Reply(2, FALSE)

TgxlRead == Reply(0, FALSE)
TgxlStatus == Reply(0, TRUE)
TgxlReads ==
    [read |-> TgxlRead,                \* auth, info, network, setup, catradio, flexradio
     configure |-> Reply(0, FALSE),    \* accepted: ifconf, setup, catradio, flexradio, save
     status |-> TgxlStatus, btl |-> Reply(5, FALSE),
     unknown |-> Reply(1, FALSE), garbled |-> Reply(None, FALSE)]
TgxlSettings ==
    [operate |-> Taken(TRUE, FALSE), operateNot |-> Taken(FALSE, FALSE),
     bypass |-> Taken(TRUE, FALSE), bypassNot |-> Taken(FALSE, FALSE),
     antenna3 |-> Taken(3 \in 1..3, TRUE), antenna4 |-> Taken(4 \in 1..3, TRUE),
     channel2 |-> Taken(2 \in 1..2, FALSE), channel3 |-> Taken(3 \in 1..2, FALSE)]
TgxlTuning ==
    [autotune |-> [Reply(0, TRUE) EXCEPT !.waits = TRUE],
     relay3 |-> Taken(RelayTaken(3, 1), TRUE), relay4 |-> Taken(RelayTaken(4, 1), TRUE)]
TgxlReplies == TgxlReads @@ TgxlSettings @@ TgxlTuning

Replies(c) == IF c \in PgxlClients THEN PgxlReplies ELSE TgxlReplies
ReplyTo(c) == client[c].reply

-----------------------------------------------------------------------------
(* The log.  A time that was noted before a change was detected says       *)
(* nothing of this change.                                                 *)
Transition(id, to, at) ==
    [id |-> id, to |-> to, detected |-> at, status |-> None, statusMatch |-> None,
     announced |-> None, radio |-> None, radioMatch |-> None, reflection |-> None,
     passed |-> None, radioPassed |-> None]
Passed(at, t) == IF at = None THEN None ELSE at >= t.detected /\ at - t.detected <= 2 * Second
Refreshed(t) == [t EXCEPT !.passed = Passed(t.statusMatch, t), !.radioPassed = Passed(t.radioMatch, t)]

(* Mutant of Concerns: every time concerns every change.                   *)
ConcernsAll(at, t) == TRUE
Concerns(at, t) == at >= t.detected

First(old, at) == IF old = None THEN at ELSE old
StatusSeen(t, at, state) ==
    IF ~Concerns(at, t) THEN t
    ELSE Refreshed([t EXCEPT !.status = First(@, at),
                             !.statusMatch = IF state = t.to THEN First(@, at) ELSE @])
Announced(t, at) == IF ~Concerns(at, t) THEN t ELSE Refreshed([t EXCEPT !.announced = First(@, at)])
RadioSeen(t, at, state) ==
    IF ~Concerns(at, t) THEN t
    ELSE Refreshed([t EXCEPT !.radio = First(@, at),
                             !.radioMatch = IF state = t.to THEN First(@, at) ELSE @,
                             !.reflection = IF state # t.to THEN IF t.radio = None THEN "echoed" ELSE @
                                            ELSE IF t.radioMatch = None THEN "matched" ELSE @])

Kept(l) == IF Len(l) > LogSize THEN Tail(l) ELSE l

-----------------------------------------------------------------------------
Outside == [pc |-> "out", id |-> None, reply |-> None, state |-> None, at |-> None]

Idle(k) == [Outside EXCEPT !.pc = "idle", !.id = k.id]

Init ==
    /\ now = 0 /\ next = 0
    /\ listed = [p \in Protocols |-> {}]
    /\ count = [p \in Protocols |-> 0] /\ flag = [p \in Protocols |-> FALSE]
    /\ client = [c \in Members |-> Outside]
    /\ shown \in AmpStates /\ changes = 0
    /\ log = <<>>
    /\ flex = None
    /\ used = [commands |-> 0, flex |-> 0]

(* A PGXL session has the number before, a TGXL session the one after.     *)
Accept(c) ==
    /\ client[c].pc = "out" /\ next < MaxSessions
    /\ LET p == Protocol(c)
           id == IF p = "PGXL" THEN next ELSE next + 1
       IN /\ next' = next + 1
          /\ listed' = [listed EXCEPT ![p] = @ \cup {id}]
          /\ count' = [count EXCEPT ![p] = @ + 1]
          /\ flag' = [flag EXCEPT ![p] = TRUE]
          /\ client' = [client EXCEPT ![c] = [Outside EXCEPT !.pc = "accepted", !.id = id]]
    /\ UNCHANGED <<now, device, log, flex, used>>

Step(c, from) == client[c].pc = from /\ UNCHANGED <<now, sessions, device, flex>>

Greet(c) ==
    /\ Step(c, "accepted")
    /\ client' = [client EXCEPT ![c] = Idle(client[c])]
    /\ UNCHANGED <<log, used>>

(* One line is read; a frame that is no command gets no answer.            *)
ReadLine(c) ==
    /\ Step(c, "idle") /\ used.commands < MaxCommands
    /\ used' = [used EXCEPT !.commands = @ + 1]
    /\ \E cmd \in DOMAIN Replies(c) :
          LET reply == Replies(c)[cmd] IN
          IF reply.code = None THEN UNCHANGED client
          ELSE client' = [client EXCEPT ![c].reply = reply,
                                        ![c].pc = IF reply.body THEN "body" ELSE "write"]
    /\ UNCHANGED log

(* A status tells the amplifier's state, or what overrides it.             *)
ToldOf(state) == {state} \cup Overrides

(* The body is made from what is shown now.                                *)
ReadBody(c) ==
    /\ Step(c, "body")
    /\ \E told \in ToldOf(shown) :
       client' = [client EXCEPT ![c].state = IF ReplyTo(c).logs THEN told ELSE None,
                                ![c].pc = IF ReplyTo(c).logs THEN "stamp"
                                          ELSE IF ReplyTo(c).waits THEN "wait" ELSE "write",
                                ![c].at = IF ReplyTo(c).waits THEN now + Wait ELSE None]
    /\ UNCHANGED <<log, used>>

Stamp(c) ==
    /\ Step(c, "stamp")
    /\ client' = [client EXCEPT ![c].at = now, ![c].pc = "log"]
    /\ UNCHANGED <<log, used>>

LogStatus(c) ==
    /\ Step(c, "log")
    /\ log' = [i \in DOMAIN log |-> StatusSeen(log[i], client[c].at, client[c].state)]
    /\ client' = [client EXCEPT ![c].pc = "write"]
    /\ UNCHANGED used

Waited(c) ==
    /\ Step(c, "wait") /\ client[c].at <= now
    /\ client' = [client EXCEPT ![c].pc = "write"]
    /\ UNCHANGED <<log, used>>

Write(c) ==
    /\ Step(c, "write")
    /\ client' = [client EXCEPT ![c] = Idle(client[c])]
    /\ UNCHANGED <<log, used>>

(* Mutant of FlagAfter: the last client to leave is taken for the only one. *)
FlagAfterAny(p) == FALSE
FlagAfter(p) == count[p] - 1 > 0

(* The client closes, or cannot be written to.                             *)
Leave(c) ==
    /\ client[c].pc \in {"accepted", "idle", "write"}
    /\ LET p == Protocol(c) IN
       /\ listed' = [listed EXCEPT ![p] = @ \ {client[c].id}]
       /\ count' = [count EXCEPT ![p] = @ - 1]
       /\ flag' = [flag EXCEPT ![p] = FlagAfter(p)]
    /\ client' = [client EXCEPT ![c] = Outside]
    /\ UNCHANGED <<now, next, device, log, flex, used>>

-----------------------------------------------------------------------------
Others == UNCHANGED <<now, sessions, client>>

(* A poll of the KPA500 detects a change and logs it, in one go; states    *)
(* that PGXL gives the same name may change too.                           *)
AmpChanges ==
    /\ changes < MaxChanges
    /\ shown' \in AmpStates
    /\ changes' = changes + 1
    /\ log' = Kept(Append(log, Transition(changes', shown', now)))
    /\ Others /\ UNCHANGED <<flex, used>>

(* The Flex session has announced the amplifier: time and log in one go.   *)
FlexAnnounced ==
    /\ used.flex < MaxFlex /\ flex = None
    /\ log' = [i \in DOMAIN log |-> Announced(log[i], now)]
    /\ used' = [used EXCEPT !.flex = @ + 1]
    /\ Others /\ UNCHANGED <<device, flex>>

(* It has read a status of the amplifier that has a state, noted the time, *)
(* and waits for the log.                                                  *)
FlexStamp ==
    /\ used.flex < MaxFlex /\ flex = None
    /\ \E s \in AmpStates : flex' = [at |-> now, state |-> s]
    /\ used' = [used EXCEPT !.flex = @ + 1]
    /\ Others /\ UNCHANGED <<device, log>>

FlexLog ==
    /\ flex # None
    /\ log' = [i \in DOMAIN log |-> RadioSeen(log[i], flex.at, flex.state)]
    /\ flex' = None
    /\ Others /\ UNCHANGED <<device, used>>

Tick ==
    /\ now < MaxTime
    /\ now' = now + 1
    /\ UNCHANGED <<sessions, client, device, log, flex, used>>

Answering(c) == ReadBody(c) \/ Stamp(c) \/ LogStatus(c) \/ Waited(c) \/ Write(c)
Serve(c) == Accept(c) \/ Greet(c) \/ ReadLine(c) \/ Answering(c) \/ Leave(c)
Next == Tick \/ AmpChanges \/ FlexAnnounced \/ FlexStamp \/ FlexLog \/ \E c \in Members : Serve(c)
Spec == Init /\ [][Next]_vars

-----------------------------------------------------------------------------
(* Properties.                                                             *)

(* The list, the count and the flag of each protocol say which clients are *)
(* served, and no two of its sessions have the same id.                    *)
Served(p) == {c \in Of(p) : client[c].pc # "out"}
ClientsCounted ==
    \A p \in Protocols :
       /\ count[p] = Cardinality(Served(p)) /\ flag[p] = (Served(p) # {})
       /\ listed[p] = {client[c].id : c \in Served(p)}
       /\ Cardinality(listed[p]) = count[p]

(* The log has the last changes, in order; no time in it is from before    *)
(* the change; what it says of two seconds and of the radio's reflection   *)
(* is what its own times say, whoever logged first.                        *)
Times(t) == {t.status, t.statusMatch, t.announced, t.radio, t.radioMatch} \ {None}
InTime(at, t) == at # None /\ at - t.detected <= 2 * Second
LogIsTrue ==
    /\ Len(log) = IF changes < LogSize THEN changes ELSE LogSize
    /\ \A i \in DOMAIN log :
          LET t == log[i] IN
          /\ t.id = changes - Len(log) + i
          /\ \A at \in Times(t) : at >= t.detected
          /\ t.passed = None <=> t.statusMatch = None
          /\ t.passed = TRUE <=> InTime(t.statusMatch, t)
          /\ t.radioPassed = TRUE <=> InTime(t.radioMatch, t)
          /\ t.reflection = "matched" <=> t.radioMatch # None
          /\ t.reflection = None <=> t.radio = None
=============================================================================
