------------------------ MODULE AdvertisementProofs ------------------------
(* Proofs about Advertisement, for any clients and bounds.                 *)
EXTENDS Advertisement, TLAPS

(* Before the start nobody was told anything; after it the amplifier was   *)
(* polled in full, or is unknown to everybody who is about to tell it.     *)
Silent == {None, "UNKNOWN"}
Unknown == ~firstPoll /\ (config.kpa \/ config.wait)
NothingKnown ==
    /\ Unknown =>
        /\ {told.flex, told.pgxl, line, session.line, session.state} \subseteq Silent
        /\ \A c \in Clients : client[c].state \in Silent
    /\ ~up => session.at = "down" /\ \A c \in Clients : client[c].at = "idle"
    /\ up /\ config.kpa => firstPoll
UsedOK == used \in [changes : Nat, partial : Nat]

IInv == TypeOK /\ UsedOK /\ NothingKnown
-----------------------------------------------------------------------------
USE ConstantsAssumption DEF vars, ampVars, saidVars, States, Said

LEMMA InitInv == Init => IInv
<1> SUFFICES ASSUME Init PROVE IInv
  OBVIOUS
<1>1. TypeOK
  <2>1. /\ session \in [at : {"down", "build", "trace", "record", "up"},
                        line : Said \cup {None}, state : Said \cup {None}]
        /\ client \in [Clients ->
                          [at : {"idle", "compare", "write"}, state : Said \cup {None}]]
    BY DEF Init, Resting, Idle
  <2>2. /\ dev \in [operate : BOOLEAN, fault : BOOLEAN]
        /\ amp \in [operate : BOOLEAN, fault : BOOLEAN, state : States]
        /\ firstPoll \in BOOLEAN
        /\ config \in [kpa : BOOLEAN, wait : BOOLEAN] /\ up \in BOOLEAN
    BY DEF Init
  <2>3. /\ told \in [flex : Said \cup {None}, pgxl : Said \cup {None}]
        /\ line \in Said \cup {None}
    BY DEF Init
  <2>4. /\ watch \in [at : {"sleep", "raise", "clear"}, pending : BOOLEAN]
        /\ alarm \in BOOLEAN
        /\ used.changes \in 0 .. MaxChanges /\ used.partial \in 0 .. MaxPartial
    <3>1. MaxChanges \in Nat /\ MaxPartial \in Nat
      OBVIOUS
    <3>2. used.changes = 0 /\ used.partial = 0
      BY DEF Init
    <3>3. watch = [at |-> "sleep", pending |-> FALSE]
      BY DEF Init
    <3>4. alarm \in BOOLEAN
      BY DEF Init
    <3> QED
      BY <3>1, <3>2, <3>3, <3>4
  <2> QED
    BY <2>1, <2>2, <2>3, <2>4 DEF TypeOK
<1>2. UsedOK
  BY DEF Init, UsedOK
<1>3. \A c \in Clients : client[c].state \in Silent
  BY DEF Init, Silent, Idle
<1>4. {told.flex, told.pgxl, line, session.line, session.state} \subseteq Silent
  BY DEF Init, Silent, Resting
<1>5. /\ up = FALSE /\ session.at = "down"
      /\ \A c \in Clients : client[c].at = "idle"
  BY DEF Init, Resting, Idle
<1> QED
  BY <1>1, <1>2, <1>3, <1>4, <1>5 DEF IInv, NothingKnown, Unknown

(* What a poll writes is a state of the amplifier.                         *)
LEMMA PollStep ==
    ASSUME TypeOK, NEW answered \in SUBSET Queries,
           NEW measured \in BOOLEAN, Poll(answered, measured)
    PROVE /\ amp' \in [operate : BOOLEAN, fault : BOOLEAN, state : States]
          /\ firstPoll' = (firstPoll \/ answered = Queries)
          /\ told' \in [flex : Said \cup {None}, pgxl : Said \cup {None}]
          /\ UNCHANGED <<config, dev, line, session, client, watch, alarm>>
<1> DEFINE os == IF "OS" \in answered THEN ParseOs(amp) ELSE amp
           fl == IF "FL" \in answered THEN ParseFl(os) ELSE os
           changed == \/ "Rest" \in answered /\ measured
                      \/ os # amp \/ fl # os
           Amp == [operate : BOOLEAN, fault : BOOLEAN, state : States]
<1>1. /\ amp' = fl
      /\ firstPoll' = (firstPoll \/ answered = Queries)
      /\ told' = IF changed
                 THEN [told EXCEPT !.pgxl = IF fl # os THEN fl.state ELSE os.state]
                 ELSE told
      /\ UNCHANGED <<config, dev, line, session, client, watch, alarm>>
  BY DEF Poll
<1>2. os \in Amp
  BY DEF TypeOK, ParseOs, Name
<1>3. fl \in Amp
  <2> HIDE DEF os
  <2> QED
    BY <1>2 DEF TypeOK, ParseFl, Name
<1>4. told' \in [flex : Said \cup {None}, pgxl : Said \cup {None}]
  <2> HIDE DEF os, fl, changed
  <2> QED
    BY <1>1, <1>2, <1>3 DEF TypeOK
<1> QED
  BY <1>1, <1>3, <1>4

LEMMA StartStep == IInv /\ Start => IInv'
<1> SUFFICES ASSUME IInv, Start PROVE IInv'
  OBVIOUS
<1> USE DEF IInv
<1>0. up = FALSE /\ up' = TRUE /\ used' = used
  BY DEF Start, TypeOK
<1>1. CASE config.kpa
  <2>1. PICK measured \in BOOLEAN : Poll(Queries, measured)
    BY <1>1 DEF Start
  <2>2. Queries \in SUBSET Queries
    OBVIOUS
  <2>3. firstPoll' = TRUE
    BY <2>1, <2>2, PollStep DEF TypeOK
  <2> QED
    <3>0. /\ amp' \in [operate : BOOLEAN, fault : BOOLEAN, state : States]
          /\ told' \in [flex : Said \cup {None}, pgxl : Said \cup {None}]
          /\ UNCHANGED <<config, dev, line, session, client, watch, alarm>>
      BY <2>1, <2>2, PollStep
    <3>1. TypeOK' /\ UsedOK'
      BY <1>0, <2>3, <3>0 DEF TypeOK, UsedOK
    <3>2. NothingKnown'
      BY <1>0, <2>3 DEF NothingKnown, Unknown
    <3> QED
      BY <3>1, <3>2
<1>2. CASE ~config.kpa
  BY <1>0, <1>2 DEF Start, TypeOK, UsedOK, NothingKnown, Unknown, Silent
<1> QED
  BY <1>1, <1>2

LEMMA AmplifierStep == IInv /\ Amplifier => IInv'
<1> SUFFICES ASSUME IInv, Amplifier PROVE IInv'
  OBVIOUS
<1> USE DEF IInv
<1>1. CASE AmpChanges
  <2>1. /\ used' = [used EXCEPT !["changes"] = @ + 1] /\ used["changes"] < MaxChanges
        /\ dev' \in [operate : BOOLEAN, fault : BOOLEAN]
    BY <1>1 DEF AmpChanges, Spend, TypeOK
  <2>2. UNCHANGED <<config, up, amp, firstPoll, saidVars, session, client, watch, alarm>>
    BY <1>1 DEF AmpChanges
  <2> QED
    BY <2>1, <2>2 DEF TypeOK, UsedOK, NothingKnown, Unknown, Silent
<1>2. CASE Commanded
  <2>1. /\ used' = [used EXCEPT !["changes"] = @ + 1] /\ used["changes"] < MaxChanges
        /\ dev' \in [operate : BOOLEAN, fault : BOOLEAN]
        /\ amp' \in [operate : BOOLEAN, fault : BOOLEAN, state : States]
    BY <1>2 DEF Commanded, Spend, TypeOK, Name
  <2>2. UNCHANGED <<config, up, firstPoll, saidVars, session, client, watch, alarm>>
    BY <1>2 DEF Commanded
  <2> QED
    BY <2>1, <2>2 DEF TypeOK, UsedOK, NothingKnown, Unknown, Silent
<1>3. CASE PollComplete
  <2>1. PICK measured \in BOOLEAN : Poll(Queries, measured)
    BY <1>3 DEF PollComplete
  <2>2. UNCHANGED <<up, used>> /\ up /\ config.kpa
    BY <1>3 DEF PollComplete
  <2>3. Queries \in SUBSET Queries
    OBVIOUS
  <2> QED
    BY <2>1, <2>2, <2>3, PollStep DEF TypeOK, UsedOK, NothingKnown, Unknown
<1>4. CASE PollPartly
  <2>1. PICK answered \in SUBSET Queries, measured \in BOOLEAN : Poll(answered, measured)
    BY <1>4 DEF PollPartly
  <2>2. /\ used' = [used EXCEPT !["partial"] = @ + 1] /\ used["partial"] < MaxPartial
        /\ up /\ config.kpa /\ up' = up
    BY <1>4 DEF PollPartly, Spend
  <2> QED
    BY <2>1, <2>2, PollStep DEF TypeOK, UsedOK, NothingKnown, Unknown
<1> QED
  BY <1>1, <1>2, <1>3, <1>4 DEF Amplifier

LEMMA AdvertisedKind ==
    ASSUME TypeOK, NothingKnown
    PROVE /\ Advertised \in Said
          /\ up /\ Unknown => Advertised = "UNKNOWN"
BY DEF Advertised, TypeOK, NothingKnown, Unknown

LEMMA SessionStep == IInv /\ Session => IInv'
<1> SUFFICES ASSUME IInv, Session PROVE IInv'
  OBVIOUS
<1> USE DEF IInv, SessionGoes
<1>1. CASE Register
  BY <1>1 DEF Register, TypeOK, UsedOK, NothingKnown, Unknown, Silent
<1>2. CASE Announce
  BY <1>2 DEF Announce, TypeOK, UsedOK, NothingKnown, Unknown, Silent
<1>3. CASE BuildLine
  <2>1. session' = [session EXCEPT !.at = "trace", !.line = Advertised]
    BY <1>3 DEF BuildLine
  <2>2. UNCHANGED <<ampVars, saidVars, client, watch, alarm, used>>
    BY <1>3 DEF BuildLine
  <2>a. session' \in [at : {"down", "build", "trace", "record", "up"},
                      line : Said \cup {None}, state : Said \cup {None}]
    BY <2>1, AdvertisedKind DEF TypeOK
  <2>3. TypeOK' /\ UsedOK'
    BY <2>a, <2>2 DEF TypeOK, UsedOK
  <2>4. /\ session'.line \in {session.line, Advertised}
        /\ session'.state \in {session.state, Advertised}
    BY <2>1 DEF TypeOK
  <2>6. up
    BY <1>3 DEF TypeOK, NothingKnown, BuildLine
  <2>5. NothingKnown'
    BY <2>2, <2>4, <2>6, AdvertisedKind DEF NothingKnown, Unknown, Silent
  <2> QED
    BY <2>3, <2>5
<1>4. CASE TraceRead
  <2>1. session' = [session EXCEPT !.at = "record", !.state = Advertised]
    BY <1>4 DEF TraceRead
  <2>2. UNCHANGED <<ampVars, saidVars, client, watch, alarm, used>>
    BY <1>4 DEF TraceRead
  <2>a. session' \in [at : {"down", "build", "trace", "record", "up"},
                      line : Said \cup {None}, state : Said \cup {None}]
    BY <2>1, AdvertisedKind DEF TypeOK
  <2>3. TypeOK' /\ UsedOK'
    BY <2>a, <2>2 DEF TypeOK, UsedOK
  <2>4. /\ session'.line \in {session.line, Advertised}
        /\ session'.state \in {session.state, Advertised}
    BY <2>1 DEF TypeOK
  <2>6. up
    BY <1>4 DEF TypeOK, NothingKnown, TraceRead
  <2>5. NothingKnown'
    BY <2>2, <2>4, <2>6, AdvertisedKind DEF NothingKnown, Unknown, Silent
  <2> QED
    BY <2>3, <2>5
<1>5. CASE TraceWrite
  BY <1>5 DEF TraceWrite, Resting, TypeOK, UsedOK, NothingKnown, Unknown, Silent
<1>6. CASE Disconnect
  BY <1>6 DEF Disconnect, TypeOK, UsedOK, NothingKnown, Unknown, Silent
<1> QED
  BY <1>1, <1>2, <1>3, <1>4, <1>5, <1>6 DEF Session, Announcing

LEMMA StatusStep == ASSUME IInv, NEW c \in Clients, Status(c) PROVE IInv'
<1> USE DEF IInv
<1>1. CASE StatusRead(c)
  <2>1. client' = [client EXCEPT ![c] = [at |-> "compare", state |-> Advertised]]
    BY <1>1 DEF StatusRead
  <2>2. UNCHANGED <<ampVars, saidVars, session, watch, alarm, used>> /\ up
    BY <1>1 DEF StatusRead
  <2>3. TypeOK' /\ UsedOK'
    BY <2>1, <2>2, AdvertisedKind DEF TypeOK, UsedOK
  <2>4. \A d \in Clients : client'[d].state \in {client[d].state, Advertised}
    BY <2>1 DEF TypeOK
  <2>5. NothingKnown'
    BY <2>2, <2>4, AdvertisedKind DEF NothingKnown, Unknown, Silent
  <2> QED
    BY <2>3, <2>5
<1>2. CASE StatusCompare(c)
  BY <1>2 DEF StatusCompare, Idle, TypeOK, UsedOK, NothingKnown, Unknown, Silent
<1>3. CASE StatusWrite(c)
  BY <1>3 DEF StatusWrite, Idle, TypeOK, UsedOK, NothingKnown, Unknown, Silent
<1> QED
  BY <1>1, <1>2, <1>3 DEF Status

LEMMA WatchdogStep == IInv /\ Watchdog => IInv'
<1> SUFFICES ASSUME IInv, Watchdog PROVE IInv'
  OBVIOUS
<1>0. UNCHANGED <<ampVars, saidVars, session, client, used>>
  BY DEF Watchdog, Look, Raise, Clear
<1>1. watch' \in [at : {"sleep", "raise", "clear"}, pending : BOOLEAN]
  <2>1. CASE Look
    <3>1. watch \in [at : {"sleep", "raise", "clear"}, pending : BOOLEAN]
      BY DEF IInv, TypeOK
    <3>2. \/ watch' = [at |-> "clear", pending |-> FALSE]
          \/ watch' = [watch EXCEPT !.pending = TRUE]
          \/ watch' = [watch EXCEPT !.at = "raise"]
      BY <2>1 DEF Look
    <3>3. CASE watch' = [at |-> "clear", pending |-> FALSE]
      BY <3>3
    <3>4. CASE watch' = [watch EXCEPT !.pending = TRUE]
      BY <3>1, <3>4
    <3>5. CASE watch' = [watch EXCEPT !.at = "raise"]
      BY <3>1, <3>5
    <3> QED
      BY <3>2, <3>3, <3>4, <3>5
  <2>2. CASE Raise \/ Clear
    BY <2>2 DEF Raise, Clear, IInv, TypeOK
  <2> QED
    BY <2>1, <2>2 DEF Watchdog
<1>2. alarm' \in BOOLEAN
  BY DEF Watchdog, Look, Raise, Clear, IInv, TypeOK
<1>3. TypeOK'
  BY <1>0, <1>1, <1>2 DEF IInv, TypeOK
<1>4. UsedOK' /\ NothingKnown'
  BY <1>0 DEF IInv, UsedOK, NothingKnown, Unknown
<1> QED
  BY <1>3, <1>4 DEF IInv

LEMMA InvHolds == Spec => []IInv
<1>1. IInv /\ [Next]_vars => IInv'
  <2> SUFFICES ASSUME IInv, [Next]_vars PROVE IInv'
    OBVIOUS
  <2>1. CASE UNCHANGED vars
    BY <2>1 DEF IInv, TypeOK, UsedOK, NothingKnown, Unknown
  <2> QED
    BY <2>1, StartStep, AmplifierStep, SessionStep, StatusStep, WatchdogStep DEF Next
<1> QED
  BY <1>1, InitInv, PTL DEF Spec

(* What is known of the amplifier, and what is about to be said of it, is  *)
(* always one of its states.                                               *)
THEOREM TypeCorrect == Spec => []TypeOK
<1>1. IInv => TypeOK
  BY DEF IInv
<1> QED
  BY <1>1, InvHolds, PTL

(* The state that the bridge begins with is told to nobody, and never      *)
(* recorded as told: the preflight polls the amplifier first, and with     *)
(* wait_for_first_kpa_poll one that is not configured stays unknown.       *)
THEOREM KnownBeforeToldHolds == Spec => []KnownBeforeTold
<1>1. IInv => KnownBeforeTold
  BY DEF IInv, NothingKnown, Unknown, KnownBeforeTold, Silent
<1> QED
  BY <1>1, InvHolds, PTL
-----------------------------------------------------------------------------
(* The amplifier is told as it is, and what the session, the clients and   *)
(* the watchdog have read and not yet written says the same.               *)
Settled ==
    /\ up /\ config.kpa
    /\ amp.operate = dev.operate /\ amp.fault = dev.fault
    /\ amp.state \in {Actual, Name(dev.operate)}
    /\ told.flex = Actual /\ told.pgxl = Actual /\ line = Actual
    /\ session.at \in {"trace", "record"} => session.line = Actual
    /\ session.at = "record" => session.state = Actual
    /\ \A c \in Clients : client[c].at # "idle" => client[c].state = Actual
    /\ ~alarm /\ watch.at # "raise"

(* The bridge leaves what is settled as it is while the amplifier does not *)
(* change: no task, no watchdog and no poll says anything else.  A poll of *)
(* a faulty amplifier may not be answered in part: ^OS without ^FL says     *)
(* OPERATE or STANDBY (handle_response), and the PGXL clients count as      *)
(* told.                                                                   *)
StaysSettled ==
    [][Settled /\ dev' = dev /\ (dev.fault => used'.partial = used.partial) => Settled']_vars

LEMMA SettledSays == IInv /\ Settled => Advertised = Actual /\ ~Mismatch
<1> SUFFICES ASSUME IInv, Settled PROVE Advertised = Actual /\ ~Mismatch
  OBVIOUS
<1>1. firstPoll
  BY DEF IInv, NothingKnown, Settled
<1>2. CASE dev.fault
  BY <1>1, <1>2 DEF Settled, Advertised, Actual, Mismatch
<1>3. CASE ~dev.fault
  <2>1. amp.state = Actual /\ Actual \in {"STANDBY", "OPERATE"} /\ ~amp.fault
    BY <1>3 DEF Settled, Actual, Name
  <2> QED
    BY <1>1, <2>1 DEF Settled, Advertised, Mismatch
<1> QED
  BY <1>2, <1>3

(* What a poll makes of an amplifier that is known already.                *)
LEMMA PollSettled ==
    ASSUME IInv, Settled, NEW answered \in SUBSET Queries, NEW measured \in BOOLEAN,
           Poll(answered, measured), dev.fault => answered = Queries
    PROVE  /\ amp'.operate = dev.operate /\ amp'.fault = dev.fault
           /\ amp'.state \in {Actual, Name(dev.operate)}
           /\ told'.flex = Actual /\ told'.pgxl = Actual
<1> DEFINE os == IF "OS" \in answered THEN ParseOs(amp) ELSE amp
           fl == IF "FL" \in answered THEN ParseFl(os) ELSE os
           Known(a) == /\ a \in [operate : BOOLEAN, fault : BOOLEAN, state : States]
                       /\ a.operate = dev.operate /\ a.fault = dev.fault
                       /\ a.state \in {Actual, Name(dev.operate)}
<1>1. /\ amp' = fl
      /\ \/ told' = told
         \/ told' = [told EXCEPT !.pgxl = IF fl # os THEN fl.state ELSE os.state]
  BY DEF Poll
<1>2. Known(amp)
  BY DEF IInv, TypeOK, Settled
<1>3. Known(os)
  BY <1>2 DEF ParseOs, Name
<1>4. Known(fl) /\ ("FL" \in answered => fl.state = Actual)
  <2> HIDE DEF os
  <2>1. CASE "FL" \in answered
    BY <1>3, <2>1 DEF ParseFl, Actual, Name
  <2>2. CASE "FL" \notin answered
    BY <1>3, <2>2
  <2> QED
    BY <2>1, <2>2
<1>5. fl.state = Actual
  <2>1. CASE "FL" \in answered
    BY <1>4, <2>1
  <2>2. CASE "FL" \notin answered
    <3>1. ~dev.fault
      BY <2>2 DEF Queries
    <3>2. Actual = Name(dev.operate)
      BY <3>1 DEF Actual
    <3> QED
      BY <1>4, <3>2
  <2> QED
    BY <2>1, <2>2
<1>6. fl = os => os.state = Actual
  BY <1>5
<1> HIDE DEF os, fl
<1>7. told'.flex = Actual /\ told'.pgxl = Actual
  BY <1>1, <1>5, <1>6 DEF IInv, TypeOK, Settled
<1> QED
  BY <1>1, <1>4, <1>7

LEMMA SettledStep ==
    IInv /\ Settled /\ [Next]_vars /\ dev' = dev
    /\ (dev.fault => used'.partial = used.partial) => Settled'
<1> SUFFICES ASSUME IInv, Settled, [Next]_vars, dev' = dev,
                    dev.fault => used'.partial = used.partial
             PROVE  Settled'
  OBVIOUS
<1>0. /\ Advertised = Actual /\ ~Mismatch /\ Actual' = Actual
      /\ session \in [at : {"down", "build", "trace", "record", "up"},
                      line : Said \cup {None}, state : Said \cup {None}]
      /\ client \in [Clients -> [at : {"idle", "compare", "write"}, state : Said \cup {None}]]
      /\ told \in [flex : Said \cup {None}, pgxl : Said \cup {None}]
  BY SettledSays DEF IInv, TypeOK, Actual
<1>1. CASE Start
  BY <1>1 DEF Start, Settled
<1>2. CASE AmpChanges \/ Commanded
  <2>1. CASE AmpChanges
    <3>1. amp' = amp /\ UNCHANGED <<up, config, told, line, session, client, alarm, watch>>
      BY <2>1 DEF AmpChanges
    <3> QED
      BY <1>0, <3>1 DEF Settled
  <2>2. CASE Commanded
    <3>1. PICK operate \in BOOLEAN :
              /\ dev' = [dev EXCEPT !.operate = operate]
              /\ amp' = [amp EXCEPT !.operate = operate, !.state = Name(operate)]
      BY <2>2 DEF Commanded
    <3>2. UNCHANGED <<up, config, told, line, session, client, alarm, watch>>
      BY <2>2 DEF Commanded
    <3>3. dev.operate = operate
      BY <3>1 DEF IInv, TypeOK
    <3>4. amp'.operate = operate /\ amp'.fault = amp.fault /\ amp'.state = Name(operate)
      BY <3>1 DEF IInv, TypeOK
    <3> QED
      BY <1>0, <3>2, <3>3, <3>4 DEF Settled
  <2> QED
    BY <1>2, <2>1, <2>2
<1>3. CASE PollComplete \/ PollPartly
  <2>1. PICK answered \in SUBSET Queries, measured \in BOOLEAN :
            Poll(answered, measured) /\ (dev.fault => answered = Queries)
    <3>1. CASE PollComplete
      <4>1. PICK measured \in BOOLEAN : Poll(Queries, measured)
        BY <3>1 DEF PollComplete
      <4>2. Queries \in SUBSET Queries
        OBVIOUS
      <4> QED
        BY <4>1, <4>2
    <3>2. CASE PollPartly
      <4>1. used' = [used EXCEPT !["partial"] = @ + 1]
        BY <3>2 DEF PollPartly, Spend
      <4>2. ~dev.fault
        BY <4>1 DEF IInv, UsedOK
      <4>3. PICK answered \in SUBSET Queries, measured \in BOOLEAN : Poll(answered, measured)
        BY <3>2 DEF PollPartly
      <4> QED
        BY <4>2, <4>3
    <3> QED
      BY <1>3, <3>1, <3>2
  <2>2. /\ amp'.operate = dev.operate /\ amp'.fault = dev.fault
        /\ amp'.state \in {Actual, Name(dev.operate)}
        /\ told'.flex = Actual /\ told'.pgxl = Actual
    BY <2>1, PollSettled
  <2>3. UNCHANGED <<config, line, session, client, watch, alarm>> /\ up' = up
    BY <1>3, <2>1 DEF PollComplete, PollPartly, Poll
  <2> QED
    BY <1>0, <2>2, <2>3 DEF Settled
<1>4. CASE Session
  <2>1. UNCHANGED <<up, config, amp, client, watch, alarm>> /\ told'.pgxl = told.pgxl
    BY <1>0, <1>4 DEF Session, Announcing, Register, Announce, BuildLine, TraceRead,
                      TraceWrite, Disconnect
  <2>2. /\ session'.at \in {"trace", "record"} => session'.line = Actual
        /\ session'.at = "record" => session'.state = Actual
    <3>1. CASE Register \/ Announce \/ Disconnect
      BY <1>0, <3>1 DEF Register, Announce, Disconnect, SessionGoes
    <3>2. CASE BuildLine
      BY <1>0, <3>2 DEF BuildLine
    <3>3. CASE TraceRead
      BY <1>0, <3>3 DEF TraceRead, Settled
    <3>4. CASE TraceWrite
      BY <3>4 DEF TraceWrite, Resting
    <3> QED
      BY <1>4, <3>1, <3>2, <3>3, <3>4 DEF Session, Announcing
  <2>3. told'.flex = Actual /\ line' = Actual
    <3>1. CASE TraceWrite
      BY <1>0, <3>1 DEF TraceWrite, Settled
    <3>2. CASE ~TraceWrite
      BY <1>4, <3>2 DEF Session, Announcing, Register, Announce, BuildLine, TraceRead,
                        Disconnect, Settled
    <3> QED
      BY <3>1, <3>2
  <2> QED
    BY <1>0, <2>1, <2>2, <2>3 DEF Settled
<1>5. ASSUME NEW c \in Clients, Status(c) PROVE Settled'
  <2>1. UNCHANGED <<up, config, amp, line, session, watch, alarm>>
    BY <1>5 DEF Status, StatusRead, StatusCompare, StatusWrite
  <2>2. told'.flex = Actual /\ told'.pgxl = Actual
    BY <1>0, <1>5 DEF Status, StatusRead, StatusCompare, StatusWrite, Settled
  <2>3. PICK new : client' = [client EXCEPT ![c] = new] /\ (new.at # "idle" => new.state = Actual)
    <3>1. CASE StatusRead(c)
      <4> DEFINE new == [at |-> "compare", state |-> Advertised]
      <4>1. client' = [client EXCEPT ![c] = new] /\ new.state = Actual
        BY <1>0, <3>1 DEF StatusRead
      <4> QED
        BY <4>1
    <3>2. CASE StatusCompare(c)
      <4>1. client[c].at = "compare" /\ client[c].state = Actual
        BY <3>2 DEF StatusCompare, Settled
      <4>2. CASE told.pgxl = client[c].state
        BY <3>2, <4>2 DEF StatusCompare, Idle
      <4>3. CASE told.pgxl # client[c].state
        BY <4>1, <4>3 DEF Settled
      <4> QED
        BY <4>2, <4>3
    <3>3. CASE StatusWrite(c)
      <4>1. client' = [client EXCEPT ![c] = Idle] /\ Idle.at = "idle"
        BY <3>3 DEF StatusWrite, Idle
      <4> QED
        BY <4>1
    <3> QED
      BY <1>5, <3>1, <3>2, <3>3 DEF Status
  <2>4. \A d \in Clients : client'[d].at # "idle" => client'[d].state = Actual
    BY <1>0, <2>3 DEF Settled
  <2> QED
    BY <1>0, <2>1, <2>2, <2>4 DEF Settled
<1>6. CASE Watchdog
  <2>1. UNCHANGED <<up, config, amp, told, line, session, client>>
    BY <1>6 DEF Watchdog, Look, Raise, Clear
  <2>2. ~alarm' /\ watch'.at # "raise"
    <3>1. CASE Look
      BY <1>0, <3>1 DEF Look, Settled
    <3>2. CASE Raise
      BY <3>2 DEF Raise, Settled
    <3>3. CASE Clear
      BY <3>3 DEF Clear, IInv, TypeOK
    <3> QED
      BY <1>6, <3>1, <3>2, <3>3 DEF Watchdog
  <2> QED
    BY <1>0, <2>1, <2>2 DEF Settled
<1>7. CASE UNCHANGED vars
  BY <1>0, <1>7 DEF Settled
<1> QED
  BY <1>1, <1>2, <1>3, <1>4, <1>5, <1>6, <1>7 DEF Next, Amplifier

(* Once radio and clients are told what the amplifier is, nothing that was *)
(* read before is written after that says something else.                  *)
THEOREM AdvertisementStays == Spec => StaysSettled
<1>1. IInv /\ [Next]_vars =>
        [Settled /\ dev' = dev /\ (dev.fault => used'.partial = used.partial) => Settled']_vars
  BY SettledStep
<1> QED
  BY <1>1, InvHolds, PTL DEF Spec, StaysSettled
=============================================================================
