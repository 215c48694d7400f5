--------------------------- MODULE FlexRadioProofs ---------------------------
(* Proofs about the two modules of the Flex session beside FlexSession:     *)
(* RadioObjects, for every set of slices, meters and tuners and all         *)
(* settings, and FlexTimers, for every strategy, interval and bound.        *)
EXTENDS RadioObjects, FlexTimers, SequenceTheorems, FiniteSetTheorems, TLAPS

-----------------------------------------------------------------------------
(* RadioObjects.                                                           *)
(* Outside a session the radio keeps nothing of the client, and no line or *)
(* command is on its way; a session has a number.                          *)
AwayInv ==
    /\ pc = "away" =>
         /\ radio.lock = "none" /\ radio.meters = {} /\ radio.subs = {} /\ ~radio.shown
         /\ toBridge = <<>> /\ toRadio = <<>> /\ ~registered
    /\ pc # "away" => session > 0

(* Once registered, the slices are subscribed to or the subscription is on *)
(* its way.                                                                *)
SliceSub == [kind |-> "sub", what |-> "slice"]
SubscribedInv == registered => "slice" \in radio.subs \/ Contains(toRadio, SliceSub)

(* What the radio accepted in this session the bridge holds, or is told.   *)
HeldInv ==
    /\ radio.lock # "none" => interlock.id = session \/ Contains(toBridge, Told("interlock", TRUE))
    /\ \A m \in radio.meters : meters[m] = session \/ Contains(toBridge, Told(m, TRUE))

(* A request of our interlock that waits is on its way, behind the answer  *)
(* that brings the handle; or being answered; or its answer is on its way. *)
KeyLine == LockLine("PTT_REQUESTED", "absent")
Asking ==
    \E i \in 1..Len(toBridge) :
        /\ toBridge[i] = KeyLine
        /\ interlock.id = session \/ \E j \in 1..(i - 1) : toBridge[j] = Told("interlock", TRUE)
Answering ==
    \/ pc = "asked" /\ interlock.id = session
    \/ pc = "decided" /\ answer.id = session
Answered == \E i \in 1..Len(toRadio) :
    toRadio[i].kind \in {"ready", "not_ready"} /\ toRadio[i].id = session
WaitingInv == config.runtime /\ radio.lock = "asked" => Asking \/ Answering \/ Answered

TxLine == SliceLine(radio.tx, radio)
(* The lines from i on leave the transmitting slice shown.                 *)
Keeps(l) ==
    /\ l.kind = "slice" /\ l.tx => l = TxLine
    /\ l.kind = "transmit" => l = TransmitLine(radio)
KeptAfter(i) == \A j \in (i + 1)..Len(toBridge) : Keeps(toBridge[j])
Shows ==
    /\ context.slice = radio.tx
    /\ ParseHz(radio.dial[radio.tx]) # None =>
          context.hz = ParseHz(radio.dial[radio.tx]) /\ context.band = BandOf(context.hz)
    /\ context.ant \in {Antenna[radio.tx], ClientAntenna}
    /\ ~"client" \in scene => context.ant = Antenna[radio.tx]
Followed ==
    \/ Shows /\ KeptAfter(0)
    \/ \E i \in 1..Len(toBridge) : toBridge[i] = TxLine /\ KeptAfter(i)
ContextInv == "slice" \in radio.subs => Followed

(* No line of a tuner between the two.                                     *)
NoTuner(i, k) == \A j \in (i + 1)..(k - 1) : toBridge[j].kind # "tuner"
(* Before line k the bridge holds tuner h.                                 *)
HoldsAt(h, k) ==
    \/ tuner = h /\ NoTuner(0, k)
    \/ \E i \in 1..(k - 1) : toBridge[i] = TunerLine(h, FALSE) /\ NoTuner(i, k)
TunerInv ==
    /\ radio.shown => "amplifier" \in radio.subs
    /\ "amplifier" \in radio.subs /\ radio.tuner # None => radio.shown
    /\ radio.shown /\ radio.tuner # None => HoldsAt(radio.tuner, Len(toBridge) + 1)
    /\ radio.shown /\ radio.tuner = None =>
         \/ tuner = None /\ NoTuner(0, Len(toBridge) + 1)
         \/ \E i \in 1..Len(toBridge) : \E h \in Tuners :
               toBridge[i] = TunerLine(h, TRUE) /\ HoldsAt(h, i) /\ NoTuner(i, Len(toBridge) + 1)

ObjectsInv ==
    TypeOK /\ AwayInv /\ SubscribedInv /\ HeldInv /\ WaitingInv /\ ContextInv /\ TunerInv
-----------------------------------------------------------------------------
(* A sequence with every element of a finite set.                          *)
LEMMA SetInSequence ==
    ASSUME NEW T, IsFiniteSet(T)
    PROVE  /\ SetToSeq(T) \in Seq(T)
           /\ \A x \in T : \E i \in 1..Len(SetToSeq(T)) : SetToSeq(T)[i] = x
<1> DEFINE n == Cardinality(T)
<1>1. n \in Nat /\ ExistsBijection(1..n, T)
  BY FS_CardinalityType
<1>2. \E f \in [1..n -> T] : IsInjective(f)
  BY <1>1 DEF ExistsBijection, Bijection, Injection
<1>3. SetToSeq(T) \in [1..n -> T] /\ IsInjective(SetToSeq(T))
  BY <1>2 DEF SetToSeq
<1>4. SetToSeq(T) \in Injection(1..n, T)
  BY <1>3 DEF Injection
<1>5. IsFiniteSet(1..n) /\ Cardinality(1..n) = n
  BY <1>1, FS_Interval
<1>6. SetToSeq(T) \in Surjection(1..n, T)
  BY <1>4, <1>5, FS_Injection
<1>7. SetToSeq(T) \in Seq(T) /\ Len(SetToSeq(T)) = n
  BY <1>1, <1>3
<1> QED
  BY <1>6, <1>7 DEF Surjection

(* What is appended to a queue, and what is taken from it.                 *)
LEMMA Longer ==
    ASSUME NEW T, NEW q \in Seq(T), NEW r \in Seq(T)
    PROVE  /\ q \o r \in Seq(T) /\ Len(q \o r) = Len(q) + Len(r)
           /\ Len(q) \in Nat /\ Len(r) \in Nat
           /\ \A i \in 1..Len(q) : (q \o r)[i] = q[i]
           /\ \A i \in 1..Len(r) : (q \o r)[Len(q) + i] = r[i]
           /\ \A i \in (Len(q) + 1)..(Len(q) + Len(r)) : (q \o r)[i] = r[i - Len(q)]
<1>1. /\ q \o r \in Seq(T) /\ Len(q \o r) = Len(q) + Len(r)
      /\ \A i \in 1..(Len(q) + Len(r)) :
            (q \o r)[i] = IF i <= Len(q) THEN q[i] ELSE r[i - Len(q)]
  BY ConcatProperties
<1>2. Len(q) \in Nat /\ Len(r) \in Nat
  BY LenProperties
<1> QED
  BY <1>1, <1>2

LEMMA Shorter ==
    ASSUME NEW T, NEW q \in Seq(T), q # <<>>
    PROVE  /\ Tail(q) \in Seq(T) /\ Len(Tail(q)) = Len(q) - 1 /\ Len(q) \in Nat \ {0}
           /\ Head(q) = q[1] /\ Head(q) \in T
           /\ \A i \in 1..Len(Tail(q)) : Tail(q)[i] = q[i + 1]
           /\ \A i \in 2..Len(q) : q[i] = Tail(q)[i - 1]
<1>1. /\ Head(q) \in T /\ Tail(q) \in Seq(T) /\ Len(Tail(q)) = Len(q) - 1
      /\ \A i \in 1..Len(Tail(q)) : Tail(q)[i] = q[i + 1]
  BY HeadTailProperties
<1>2. Len(q) \in Nat \ {0}
  BY EmptySeq
<1>3. \A i \in 2..Len(q) : i - 1 \in 1..Len(Tail(q)) /\ (i - 1) + 1 = i
  BY <1>1, <1>2
<1> QED
  BY <1>1, <1>2, <1>3

LEMMA OneLine == \A T : \A x \in T : <<x>> \in Seq(T) /\ Len(<<x>>) = 1 /\ <<x>>[1] = x
OBVIOUS

LEMMA StillContains ==
    ASSUME NEW T, NEW q \in Seq(T), NEW r \in Seq(T), NEW x
    PROVE  /\ Contains(q, x) => Contains(q \o r, x)
           /\ Contains(r, x) => Contains(q \o r, x)
<1>1. ASSUME Contains(q, x) PROVE Contains(q \o r, x)
  BY <1>1, Longer DEF Contains
<1>2. ASSUME Contains(r, x) PROVE Contains(q \o r, x)
  <2>1. PICK i \in 1..Len(r) : r[i] = x
    BY <1>2 DEF Contains
  <2>2. (q \o r)[Len(q) + i] = x /\ Len(q) + i \in 1..Len(q \o r)
    BY <2>1, Longer
  <2> QED
    BY <2>2 DEF Contains
<1> QED
  BY <1>1, <1>2

LEMMA ContainsOrTaken ==
    ASSUME NEW T, NEW q \in Seq(T), q # <<>>, NEW x, Contains(q, x), Head(q) # x
    PROVE  Contains(Tail(q), x)
<1>1. PICK i \in 1..Len(q) : q[i] = x
  BY DEF Contains
<1>2. i # 1
  BY <1>1, Shorter
<1>3. i - 1 \in 1..Len(Tail(q)) /\ Tail(q)[i - 1] = x
  BY <1>1, <1>2, Shorter
<1> QED
  BY <1>3 DEF Contains
-----------------------------------------------------------------------------
(* What is sent after the registration.                                    *)
LEMMA MeterCommands ==
    SetToSeq({[kind |-> "meter", meter |-> m] : m \in Meters}) \in Seq(CommandsOfBridge)
<1> DEFINE D == {[kind |-> "meter", meter |-> m] : m \in Meters}
           f == [m \in Meters |-> [kind |-> "meter", meter |-> m]]
<1>1. f \in Surjection(Meters, D)
  BY DEF Surjection
<1>2. IsFiniteSet(D)
  BY <1>1, FS_Surjection, ConstantsAssumption
<1>3. SetToSeq(D) \in Seq(D)
  BY <1>2, SetInSequence
<1>4. D \subseteq CommandsOfBridge
  BY DEF CommandsOfBridge
<1> QED
  BY <1>3, <1>4, SeqMonotonic

LEMMA CommandsSent ==
    ASSUME NEW c
    PROVE  Commands(c) \in Seq(CommandsOfBridge) /\ Contains(Commands(c), SliceSub)
<1> DEFINE subs == <<[kind |-> "sub", what |-> "amplifier"], [kind |-> "sub", what |-> "slice"],
                     [kind |-> "sub", what |-> "tx"]>>
           lock == IF c.interlock /\ ~c.disable THEN <<[kind |-> "interlock"]>> ELSE <<>>
           own == IF c.meters THEN SetToSeq({[kind |-> "meter", meter |-> m] : m \in Meters})
                  ELSE <<>>
<1>1. subs \in Seq(CommandsOfBridge) /\ Contains(subs, SliceSub)
  <2>1. \A w \in {"amplifier", "slice", "tx"} : [kind |-> "sub", what |-> w] \in CommandsOfBridge
    BY DEF CommandsOfBridge
  <2>2. subs \in Seq(CommandsOfBridge) /\ Len(subs) = 3 /\ subs[2] = SliceSub
    BY <2>1 DEF SliceSub
  <2> QED
    BY <2>2 DEF Contains
<1>2. lock \in Seq(CommandsOfBridge)
  <2>1. [kind |-> "interlock"] \in CommandsOfBridge
    BY DEF CommandsOfBridge
  <2> QED
    BY <2>1
<1>3. own \in Seq(CommandsOfBridge)
  BY MeterCommands
<1> HIDE DEF subs, lock, own
<1>4. own \o lock \in Seq(CommandsOfBridge)
  BY <1>2, <1>3, Longer
<1>5. (own \o lock) \o subs \in Seq(CommandsOfBridge) /\ Contains((own \o lock) \o subs, SliceSub)
  BY <1>1, <1>4, Longer, StillContains
<1>6. Commands(c) = own \o lock \o subs
  BY DEF Commands, own, lock, subs
<1> QED
  BY <1>5, <1>6
-----------------------------------------------------------------------------
USE DEF vars, held

LEMMA ObjectsInit == Init => ObjectsInv
<1> SUFFICES ASSUME Init PROVE ObjectsInv
  OBVIOUS
<1> USE ConstantsAssumption
<1>1. BridgeOK
  <2>1. interlock \in [id : Nat, state : LockStates \cup {None}, tx : BOOLEAN \cup {None}]
    BY DEF Init
  <2>2. context \in [slice : Slices \cup {None}, hz : Nat,
                     band : DOMAIN InBand \cup {"unknown"},
                     ant : Antennas \cup {ClientAntenna, None}]
    <3>1. DefaultHz \in Nat
      BY SMT DEF DefaultHz
    <3>2. "m20" \in DOMAIN InBand
      BY SMT DEF InBand
    <3> QED
      BY <3>1, <3>2 DEF Init
  <2>3. session \in 0..MaxSessions
    BY DEF Init
  <2> QED
    BY <2>1, <2>2, <2>3 DEF Init, BridgeOK
<1>2. RadioOK
  BY DEF Init, RadioOK
<1>3. TypeOK
  BY <1>1, <1>2 DEF Init, TypeOK
<1>4. AwayInv /\ SubscribedInv /\ HeldInv /\ WaitingInv /\ ContextInv /\ TunerInv
  BY DEF Init, AwayInv, SubscribedInv, HeldInv, WaitingInv, ContextInv, TunerInv
<1> QED
  BY <1>3, <1>4 DEF ObjectsInv

(* The lines of the radio are lines.                                       *)
LEMMA LinesTyped ==
    /\ \A w \in Meters \cup {"interlock"} : \A ok \in BOOLEAN : Told(w, ok) \in LinesOfRadio
    /\ \A h \in Tuners : \A gone \in BOOLEAN : TunerLine(h, gone) \in LinesOfRadio
    /\ \A s \in LockStates : \A tx \in {"0", "1", "absent"} : LockLine(s, tx) \in LinesOfRadio
    /\ \A r : r.tx \in Slices => TransmitLine(r) \in LinesOfRadio
    /\ \A s \in Slices : \A r : r.dial[s] \in Dial => SliceLine(s, r) \in LinesOfRadio
BY DEF Told, TunerLine, LockLine, TransmitLine, SliceLine, LinesOfRadio, Antennas

LEMMA BandTyped == \A hz : BandOf(hz) \in DOMAIN InBand \cup {"unknown"}
<1> TAKE hz
<1> DEFINE bands == {b \in DOMAIN InBand : InBand[b][1] <= hz /\ hz <= InBand[b][2]}
<1>1. bands # {} => (CHOOSE b \in bands : TRUE) \in bands
  OBVIOUS
<1>2. BandOf(hz) = IF bands = {} THEN "unknown" ELSE CHOOSE b \in bands : TRUE
  BY DEF BandOf
<1> QED
  BY <1>1, <1>2

(* Only zero is no frequency.                                              *)
LEMMA FrequencyTyped ==
    \A v \in Nat : ParseHz(v) \in Nat \cup {None} /\ (ParseHz(v) = None <=> v = 0)
<1> TAKE v \in Nat
<1>1. None \notin Nat
  BY ConstantsAssumption
<1>2. v \div 1000 \in Nat /\ v * 1000 \in Nat
  OBVIOUS
<1> QED
  BY <1>1, <1>2 DEF ParseHz

LEMMA ObserveTyped ==
    ASSUME interlock \in [id : Nat, state : LockStates \cup {None}, tx : BOOLEAN \cup {None}]
    PROVE  /\ Started \in [id : Nat, state : LockStates \cup {None}, tx : BOOLEAN \cup {None}]
           /\ Started.id = interlock.id
           /\ \A l \in LinesOfRadio : l.kind = "interlock" =>
                /\ Observed(l) \in [id : Nat, state : LockStates \cup {None}, tx : BOOLEAN \cup {None}]
                /\ Observed(l).id = interlock.id /\ Observed(l).tx = (l.tx = "1")
           /\ session \in Nat =>
                /\ Created \in [id : Nat, state : LockStates \cup {None}, tx : BOOLEAN \cup {None}]
                /\ Created.id = session /\ Created.tx = FALSE
<1>1. "PENDING" \in LockStates
  BY DEF LockStates
<1>2. \A l \in LinesOfRadio : l.kind = "interlock" => l.state \in LockStates
  BY DEF LinesOfRadio
<1> QED
  BY <1>1, <1>2 DEF Started, Observed, Created
-----------------------------------------------------------------------------
(* Types.                                                                  *)
LEMMA BridgeStep == ObjectsInv /\ [Next]_vars => BridgeOK'
<1> SUFFICES ASSUME ObjectsInv, [Next]_vars PROVE BridgeOK'
  OBVIOUS
<1> USE ConstantsAssumption DEF ObjectsInv, TypeOK, BridgeOK
<1>1. CASE Connect
  <2>1. session' \in 0..MaxSessions
    BY <1>1 DEF Connect
  <2>2. Started \in [id : Nat, state : LockStates \cup {None}, tx : BOOLEAN \cup {None}]
    BY ObserveTyped
  <2> QED
    BY <1>1, <2>1, <2>2 DEF Connect
<1>2. CASE Register
  BY <1>2 DEF Register
<1>3. CASE TakeAnswer
  <2>1. session \in Nat /\ Head(toBridge) \in LinesOfRadio
    BY <1>3, Shorter DEF TakeAnswer, Take
  <2>2. Created \in [id : Nat, state : LockStates \cup {None}, tx : BOOLEAN \cup {None}]
    BY <2>1, ObserveTyped
  <2>3. \A m \in Meters : Upsert(m) \in [Meters -> Nat]
    BY <2>1 DEF Upsert
  <2> QED
    BY <1>3, <2>1, <2>2, <2>3 DEF TakeAnswer, Take
<1>4. CASE TakeSlice
  <2>1. Head(toBridge) \in LinesOfRadio /\ Head(toBridge).kind = "slice"
    BY <1>4, Shorter DEF TakeSlice, Take
  <2>2. /\ Head(toBridge).slice \in Slices /\ Head(toBridge).dial \in Dial
        /\ Head(toBridge).ant \in Antennas
    BY <2>1 DEF LinesOfRadio
  <2>3. ParseHz(Head(toBridge).dial) \in Nat \cup {None}
    BY <2>2, FrequencyTyped
  <2>4. context' \in [slice : Slices \cup {None}, hz : Nat,
                      band : DOMAIN InBand \cup {"unknown"},
                      ant : Antennas \cup {ClientAntenna, None}]
    BY <1>4, <2>2, <2>3, BandTyped DEF TakeSlice
  <2> QED
    BY <1>4, <2>4 DEF TakeSlice, Take
<1>5. CASE TakeTransmit
  <2>1. Head(toBridge) \in LinesOfRadio /\ Head(toBridge).kind = "transmit"
    BY <1>5, Shorter DEF TakeTransmit, Take
  <2>2. Head(toBridge).ant \in Antennas
    BY <2>1 DEF LinesOfRadio
  <2> QED
    BY <1>5, <2>2 DEF TakeTransmit, Take
<1>6. CASE TakeTuner
  <2>1. Head(toBridge) \in LinesOfRadio /\ Head(toBridge).kind = "tuner"
    BY <1>6, Shorter DEF TakeTuner, Take
  <2>2. Head(toBridge).handle \in Tuners
    BY <2>1 DEF LinesOfRadio
  <2> QED
    BY <1>6, <2>2 DEF TakeTuner, Take
<1>7. CASE TakeInterlock
  <2>1. Head(toBridge) \in LinesOfRadio /\ Head(toBridge).kind = "interlock"
    BY <1>7, Shorter DEF TakeInterlock, Take
  <2> QED
    BY <1>7, <2>1, ObserveTyped DEF TakeInterlock, Take
<1>8. CASE Decide
  BY <1>8 DEF Decide, Answers
<1>9. CASE Answer \/ Publish
  BY <1>9 DEF Answer, Publish
<1>10. CASE RefuseCreate \/ Disconnect
  BY <1>10 DEF RefuseCreate, Disconnect, Ends
<1>11. CASE Obey
  BY <1>11 DEF Obey
<1>12. CASE Key \/ Unkey \/ Tune \/ MoveTx \/ TunerComes \/ TunerGoes \/ AmpChanges
  <2>1. UNCHANGED <<config, scene, pc, session, registered, answer, held, published>>
    BY <1>12 DEF Key, Unkey, Tune, MoveTx, TunerComes, TunerGoes, AmpChanges, Event
  <2> QED
    BY <2>1
<1>13. CASE ClientSets
  BY <1>13 DEF ClientSets, Event
<1>14. CASE UNCHANGED vars
  BY <1>14
<1> QED
  BY <1>1, <1>2, <1>3, <1>4, <1>5, <1>6, <1>7, <1>8, <1>9, <1>10, <1>11, <1>12, <1>13, <1>14
     DEF Next, Session, Radio, TakeLine

LEMMA EventStep ==
    ASSUME RadioOK, NEW what, Event(what)
    PROVE  /\ UNCHANGED <<config, scene, pc, session, registered, answer, published, toRadio>>
           /\ events' \in 0..MaxEvents /\ what \in scene
<1>1. MaxEvents \in Nat /\ events \in 0..MaxEvents /\ events < MaxEvents /\ events' = events + 1
  BY ConstantsAssumption DEF RadioOK, Event
<1> QED
  BY <1>1 DEF Event

LEMMA RadioStep == ObjectsInv /\ [Next]_vars => RadioOK'
<1> SUFFICES ASSUME ObjectsInv, [Next]_vars PROVE RadioOK'
  OBVIOUS
<1> USE ConstantsAssumption DEF ObjectsInv, TypeOK, RadioOK
<1>1. CASE Connect \/ Register \/ Decide \/ Answer \/ Publish
  BY <1>1 DEF Connect, Register, Decide, Answer, Publish
<1>2. CASE TakeLine
  BY <1>2 DEF TakeLine, TakeAnswer, TakeSlice, TakeTransmit, TakeTuner, TakeInterlock, Take
<1>3. CASE RefuseCreate \/ Disconnect
  BY <1>3 DEF RefuseCreate, Disconnect, Ends
<1>4. CASE Obey
  <2> DEFINE c == Head(toRadio)
  <2>1. c \in CommandsOfBridge /\ UNCHANGED <<amp, events>>
    BY <1>4, Shorter DEF Obey
  <2>2. CASE Accepts(c)
    <3>1. c.kind = "meter" => c.meter \in Meters
      BY <2>1 DEF CommandsOfBridge, Answers
    <3> QED
      BY <2>1, <2>2, <3>1 DEF Accepts
  <2>3. CASE Rejects(c)
    BY <2>1, <2>3 DEF Rejects
  <2>4. CASE Subscribes(c)
    <3>1. c.what \in {"amplifier", "slice", "tx"}
      BY <2>1, <2>4 DEF CommandsOfBridge, Answers, Subscribes
    <3> QED
      BY <2>1, <2>4, <3>1 DEF Subscribes
  <2>5. CASE Heeds(c)
    BY <2>1, <2>5 DEF Heeds
  <2> QED
    BY <1>4, <2>2, <2>3, <2>4, <2>5 DEF Obey
<1>5. CASE Key \/ Unkey \/ MoveTx \/ TunerComes \/ TunerGoes
  <2>1. amp' = amp /\ events' \in 0..MaxEvents
    BY <1>5, EventStep DEF Key, Unkey, MoveTx, TunerComes, TunerGoes
  <2>2. CASE Key \/ Unkey
    BY <2>1, <2>2 DEF Key, Unkey
  <2>3. CASE MoveTx
    BY <2>1, <2>3 DEF MoveTx
  <2>4. CASE TunerComes \/ TunerGoes
    BY <2>1, <2>4 DEF TunerComes, TunerGoes
  <2> QED
    BY <1>5, <2>2, <2>3, <2>4
<1>6. CASE Tune
  <2>1. PICK s \in Slices, d \in Dial : radio' = [radio EXCEPT !.dial[s] = d]
    BY <1>6 DEF Tune
  <2>2. amp' = amp /\ events' \in 0..MaxEvents
    BY <1>6, EventStep DEF Tune
  <2> QED
    BY <2>1, <2>2
<1>7. CASE AmpChanges \/ ClientSets
  BY <1>7, EventStep DEF AmpChanges, ClientSets
<1>8. CASE UNCHANGED vars
  BY <1>8
<1> QED
  BY <1>1, <1>2, <1>3, <1>4, <1>5, <1>6, <1>7, <1>8 DEF Next, Session, Radio

(* The lines that answer a subscription to the slices: one of each.        *)
SliceLines == [i \in 1..Len(SetToSeq(Slices)) |-> SliceLine(SetToSeq(Slices)[i], radio)]
LEMMA SliceLinesSent ==
    ASSUME RadioOK
    PROVE  /\ SliceLines \in Seq(LinesOfRadio)
           /\ \A i \in 1..Len(SliceLines) : \E s \in Slices : SliceLines[i] = SliceLine(s, radio)
           /\ \A s \in Slices : \E i \in 1..Len(SliceLines) : SliceLines[i] = SliceLine(s, radio)
<1> DEFINE q == SetToSeq(Slices)
<1>1. q \in Seq(Slices) /\ \A s \in Slices : \E i \in 1..Len(q) : q[i] = s
  BY SetInSequence, ConstantsAssumption
<1>2. Len(q) \in Nat /\ \A i \in 1..Len(q) : q[i] \in Slices
  BY <1>1, LenProperties, ElementOfSeq
<1>3. \A s \in Slices : SliceLine(s, radio) \in LinesOfRadio
  BY LinesTyped DEF RadioOK
<1> HIDE DEF q
<1>4. /\ SliceLines = [i \in 1..Len(q) |-> SliceLine(q[i], radio)]
  BY DEF SliceLines, q
<1>5. SliceLines \in Seq(LinesOfRadio) /\ Len(SliceLines) = Len(q)
  BY <1>2, <1>3, <1>4
<1>6. \A i \in 1..Len(SliceLines) : SliceLines[i] = SliceLine(q[i], radio)
  BY <1>4, <1>5
<1> QED
  BY <1>1, <1>2, <1>5, <1>6

(* What the radio says to a subscription.                                  *)
LinesFor(what) ==
    CASE what = "slice" -> SliceLines
      [] what = "tx" -> <<TransmitLine(radio)>>
      [] OTHER -> IF radio.tuner = None THEN <<>> ELSE <<TunerLine(radio.tuner, FALSE)>>
LEMMA LinesForTyped ==
    ASSUME RadioOK, NEW what PROVE LinesFor(what) \in Seq(LinesOfRadio)
<1>1. SliceLines \in Seq(LinesOfRadio)
  BY SliceLinesSent
<1>2. <<TransmitLine(radio)>> \in Seq(LinesOfRadio)
  BY LinesTyped, OneLine DEF RadioOK
<1>3. radio.tuner # None => <<TunerLine(radio.tuner, FALSE)>> \in Seq(LinesOfRadio)
  BY LinesTyped, OneLine DEF RadioOK
<1>4. <<>> \in Seq(LinesOfRadio)
  BY EmptySeq
<1>5. LinesFor(what) \in {SliceLines, <<TransmitLine(radio)>>, <<TunerLine(radio.tuner, FALSE)>>, <<>>}
  BY DEF LinesFor
<1>6. LinesFor(what) = <<TunerLine(radio.tuner, FALSE)>> =>
        radio.tuner # None \/ LinesFor(what) \in Seq(LinesOfRadio)
  BY <1>1, <1>2, <1>4 DEF LinesFor
<1> QED
  BY <1>1, <1>2, <1>3, <1>4, <1>5, <1>6

(* The ways in which the radio obeys a command.                            *)
MeterGranted(c) ==
    /\ c.kind = "meter" /\ c.meter \in Meters
    /\ radio' = [radio EXCEPT !.meters = @ \cup {c.meter}]
    /\ toBridge' = toBridge \o <<Told(c.meter, TRUE)>>
LockGranted(c) ==
    /\ c.kind = "interlock"
    /\ radio' = [radio EXCEPT !.lock = "idle"]
    /\ toBridge' = toBridge \o <<Told("interlock", TRUE)>>
Denied(c) ==
    /\ c.kind \in {"meter", "interlock"} /\ radio' = radio
    /\ \E w \in Meters \cup {"interlock"} : toBridge' = toBridge \o <<Told(w, FALSE)>>
Subscribed(c) ==
    /\ c.kind = "sub" /\ c.what \in {"amplifier", "slice", "tx"}
    /\ radio' = [radio EXCEPT !.subs = @ \cup {c.what},
                              !.shown = @ \/ (c.what = "amplifier" /\ radio.tuner # None)]
    /\ toBridge' = toBridge \o LinesFor(c.what)
Heeded(c) ==
    /\ c.kind \in {"ready", "not_ready"} /\ radio.lock = "asked" /\ c.id = session
    /\ \/ /\ c.kind = "ready" /\ radio' = [radio EXCEPT !.lock = "transmits"]
          /\ toBridge' = toBridge \o <<LockLine("TRANSMITTING", "1")>>
       \/ /\ c.kind = "not_ready" /\ radio' = [radio EXCEPT !.lock = "idle"]
          /\ toBridge' = toBridge \o <<LockLine("NOT_READY", "0")>>
Unheeded(c) ==
    /\ c.kind \in {"ready", "not_ready"} /\ ~(radio.lock = "asked" /\ c.id = session)
    /\ UNCHANGED <<radio, toBridge>>

LEMMA ObeyCases ==
    ASSUME TypeOK, Obey, NEW c, c = Head(toRadio)
    PROVE  /\ c \in CommandsOfBridge /\ toRadio # <<>> /\ toRadio' = Tail(toRadio)
           /\ UNCHANGED <<config, scene, pc, session, registered, answer, held, published, amp, events>>
           /\ \/ MeterGranted(c) \/ LockGranted(c) \/ Denied(c)
              \/ Subscribed(c) \/ Heeded(c) \/ Unheeded(c)
<1> USE DEF TypeOK
<1>1. c \in CommandsOfBridge /\ toRadio # <<>> /\ toRadio' = Tail(toRadio)
  BY Shorter DEF Obey
<1>2. UNCHANGED <<config, scene, pc, session, registered, answer, held, published, amp, events>>
  BY DEF Obey
<1>3. /\ c.kind = "meter" => c.meter \in Meters
      /\ c.kind = "sub" => c.what \in {"amplifier", "slice", "tx"}
  BY <1>1 DEF CommandsOfBridge, Answers
<1>4. ASSUME Accepts(c) PROVE MeterGranted(c) \/ LockGranted(c)
  <2>1. CASE c.kind = "meter"
    BY <1>3, <1>4, <2>1 DEF Accepts, Says, MeterGranted
  <2>2. CASE c.kind = "interlock"
    BY <1>4, <2>2 DEF Accepts, Says, LockGranted
  <2> QED
    BY <1>4, <2>1, <2>2 DEF Accepts
<1>5. ASSUME Rejects(c) PROVE Denied(c)
  <2>1. CASE c.kind = "meter"
    BY <1>3, <1>5, <2>1 DEF Rejects, Says, Denied
  <2>2. CASE c.kind = "interlock"
    BY <1>5, <2>2 DEF Rejects, Says, Denied
  <2> QED
    BY <1>5, <2>1, <2>2 DEF Rejects
<1>6. ASSUME Subscribes(c) PROVE Subscribed(c)
  <2>1. /\ c.kind = "sub" /\ c.what \in {"amplifier", "slice", "tx"}
        /\ radio' = [radio EXCEPT !.subs = @ \cup {c.what},
                                  !.shown = @ \/ (c.what = "amplifier" /\ radio.tuner # None)]
    BY <1>3, <1>6 DEF Subscribes
  <2>2. CASE c.what = "slice"
    BY <1>6, <2>1, <2>2 DEF Subscribes, Says, Subscribed, LinesFor, SliceLines
  <2>3. CASE c.what = "tx"
    BY <1>6, <2>1, <2>3 DEF Subscribes, Says, Subscribed, LinesFor
  <2>4. CASE c.what = "amplifier"
    BY <1>6, <2>1, <2>4 DEF Subscribes, Says, Subscribed, LinesFor
  <2> QED
    BY <2>1, <2>2, <2>3, <2>4
<1>7. ASSUME Heeds(c) PROVE Heeded(c) \/ Unheeded(c)
  <2>1. CASE radio.lock = "asked" /\ c.id = session
    BY <1>7, <2>1 DEF Heeds, Says, Heeded
  <2>2. CASE ~(radio.lock = "asked" /\ c.id = session)
    BY <1>7, <2>2 DEF Heeds, Unheeded
  <2> QED
    BY <2>1, <2>2
<1> QED
  BY <1>1, <1>2, <1>4, <1>5, <1>6, <1>7 DEF Obey

(* What MoveTx says.                                                       *)
MoveLines(s) ==
    LET r == [radio EXCEPT !.tx = s] IN
    (IF "slice" \in radio.subs THEN <<SliceLine(radio.tx, r), SliceLine(s, r)>> ELSE <<>>)
    \o (IF "tx" \in radio.subs THEN <<TransmitLine(r)>> ELSE <<>>)
LEMMA MoveLinesTyped ==
    ASSUME RadioOK, NEW s \in Slices PROVE MoveLines(s) \in Seq(LinesOfRadio)
<1> DEFINE r == [radio EXCEPT !.tx = s]
           lines == IF "slice" \in radio.subs THEN <<SliceLine(radio.tx, r), SliceLine(s, r)>> ELSE <<>>
           last == IF "tx" \in radio.subs THEN <<TransmitLine(r)>> ELSE <<>>
<1>1. r.tx \in Slices /\ \A x \in Slices : r.dial[x] \in Dial
  BY DEF RadioOK
<1>2. /\ radio.tx \in Slices
      /\ SliceLine(radio.tx, r) \in LinesOfRadio /\ SliceLine(s, r) \in LinesOfRadio
      /\ TransmitLine(r) \in LinesOfRadio
  <2>1. radio.tx \in Slices
    BY DEF RadioOK
  <2> HIDE DEF r
  <2> QED
    BY <1>1, <2>1, LinesTyped
<1> HIDE DEF r
<1>3. lines \in Seq(LinesOfRadio)
  BY <1>2
<1>4. last \in Seq(LinesOfRadio)
  BY <1>2
<1>5. MoveLines(s) = lines \o last
  BY DEF MoveLines, r
<1> HIDE DEF lines, last
<1> QED
  BY <1>3, <1>4, <1>5, Longer

(* What happens to the radio by itself adds lines, and changes nothing of  *)
(* the session but the amplifier, or the antenna that a client sets.       *)
Happens == Key \/ Unkey \/ Tune \/ MoveTx \/ TunerComes \/ TunerGoes \/ AmpChanges \/ ClientSets
LEMMA HappensSays ==
    ASSUME TypeOK, Happens
    PROVE  /\ UNCHANGED <<config, scene, pc, session, registered, answer, interlock, meters, tuner,
                          published, toRadio>>
           /\ ~ClientSets => context' = context
           /\ \E r \in Seq(LinesOfRadio) : toBridge' = toBridge \o r
<1> USE DEF TypeOK
<1>1. /\ UNCHANGED <<config, scene, pc, session, registered, answer, published, toRadio>>
      /\ UNCHANGED <<interlock, meters, tuner>> /\ (~ClientSets => context' = context)
  BY EventStep DEF Happens, Key, Unkey, Tune, MoveTx, TunerComes, TunerGoes, AmpChanges, ClientSets
<1>2. <<>> \in Seq(LinesOfRadio) /\ toBridge \o <<>> = toBridge
  BY ConcatEmptySeq
<1>3. CASE Key \/ Unkey
  <2>1. /\ <<LockLine("PTT_REQUESTED", "absent")>> \in Seq(LinesOfRadio)
        /\ <<LockLine("UNKEY_REQUESTED", "0")>> \in Seq(LinesOfRadio)
    BY LinesTyped, OneLine DEF LockStates
  <2> QED
    BY <1>1, <1>3, <2>1 DEF Key, Unkey, Says
<1>4. CASE Tune
  <2>1. PICK s \in Slices, d \in Dial :
          LET r == [radio EXCEPT !.dial[s] = d] IN Tells("slice", <<SliceLine(s, r)>>)
    BY <1>4 DEF Tune
  <2> DEFINE r == [radio EXCEPT !.dial[s] = d]
  <2>2. r.dial[s] \in Dial
    BY DEF RadioOK
  <2> HIDE DEF r
  <2>3. <<SliceLine(s, r)>> \in Seq(LinesOfRadio)
    BY <2>2, LinesTyped, OneLine
  <2>4. Tells("slice", <<SliceLine(s, r)>>)
    BY <2>1 DEF r
  <2> QED
    BY <1>1, <1>2, <2>3, <2>4 DEF Tells, Says
<1>5. CASE MoveTx
  <2>1. PICK s \in Slices : toBridge' = toBridge \o MoveLines(s)
    BY <1>5 DEF MoveTx, Says, MoveLines
  <2> QED
    BY <1>1, <2>1, MoveLinesTyped
<1>6. CASE TunerComes \/ TunerGoes
  <2>1. PICK h \in Tuners, gone \in BOOLEAN : Tells("amplifier", <<TunerLine(h, gone)>>)
    BY <1>6 DEF TunerComes, TunerGoes, RadioOK
  <2>2. <<TunerLine(h, gone)>> \in Seq(LinesOfRadio)
    BY LinesTyped, OneLine
  <2> QED
    BY <1>1, <1>2, <2>1, <2>2 DEF Tells, Says
<1>7. CASE AmpChanges \/ ClientSets
  BY <1>1, <1>2, <1>7 DEF AmpChanges, ClientSets
<1> QED
  BY <1>3, <1>4, <1>5, <1>6, <1>7 DEF Happens

LEMMA QueuesStep ==
    ObjectsInv /\ [Next]_vars =>
        toBridge' \in Seq(LinesOfRadio) /\ toRadio' \in Seq(CommandsOfBridge)
<1> SUFFICES ASSUME ObjectsInv, [Next]_vars
             PROVE  toBridge' \in Seq(LinesOfRadio) /\ toRadio' \in Seq(CommandsOfBridge)
  OBVIOUS
<1> USE DEF ObjectsInv, TypeOK
<1>1. CASE Connect \/ Decide \/ Publish \/ UNCHANGED vars
  BY <1>1 DEF Connect, Decide, Publish
<1>2. CASE Register
  BY <1>2, CommandsSent, Longer DEF Register
<1>3. CASE TakeLine
  BY <1>3, Shorter DEF TakeLine, TakeAnswer, TakeSlice, TakeTransmit, TakeTuner, TakeInterlock, Take
<1>4. CASE Answer
  <2>1. answer \in CommandsOfBridge
    BY <1>4 DEF Answer, BridgeOK, CommandsOfBridge
  <2> QED
    BY <1>4, <2>1, AppendProperties DEF Answer
<1>5. CASE RefuseCreate \/ Disconnect
  BY <1>5, EmptySeq DEF RefuseCreate, Disconnect, Ends
<1>6. CASE Obey
  <2> DEFINE c == Head(toRadio)
  <2>1. /\ toRadio # <<>> /\ toRadio' = Tail(toRadio)
        /\ \/ MeterGranted(c) \/ LockGranted(c) \/ Denied(c)
           \/ Subscribed(c) \/ Heeded(c) \/ Unheeded(c)
    BY <1>6, ObeyCases
  <2>2. toRadio' \in Seq(CommandsOfBridge)
    BY <2>1, Shorter
  <2>3. CASE MeterGranted(c)
    <3>1. <<Told(c.meter, TRUE)>> \in Seq(LinesOfRadio)
      BY <2>3, LinesTyped, OneLine DEF MeterGranted
    <3> QED
      BY <2>2, <2>3, <3>1, Longer DEF MeterGranted
  <2>4. CASE LockGranted(c)
    <3>1. <<Told("interlock", TRUE)>> \in Seq(LinesOfRadio)
      BY LinesTyped, OneLine
    <3> QED
      BY <2>2, <2>4, <3>1, Longer DEF LockGranted
  <2>5. CASE Denied(c)
    <3>1. PICK w \in Meters \cup {"interlock"} : toBridge' = toBridge \o <<Told(w, FALSE)>>
      BY <2>5 DEF Denied
    <3>2. <<Told(w, FALSE)>> \in Seq(LinesOfRadio)
      BY LinesTyped, OneLine
    <3> QED
      BY <2>2, <3>1, <3>2, Longer
  <2>6. CASE Subscribed(c)
    BY <2>2, <2>6, LinesForTyped, Longer DEF Subscribed
  <2>7. CASE Heeded(c)
    <3>1. /\ <<LockLine("TRANSMITTING", "1")>> \in Seq(LinesOfRadio)
          /\ <<LockLine("NOT_READY", "0")>> \in Seq(LinesOfRadio)
      BY LinesTyped, OneLine DEF LockStates
    <3>2. \A r \in Seq(LinesOfRadio) : toBridge \o r \in Seq(LinesOfRadio)
      BY Longer
    <3> QED
      BY <2>2, <2>7, <3>1, <3>2 DEF Heeded
  <2>8. CASE Unheeded(c)
    BY <2>2, <2>8 DEF Unheeded
  <2> QED
    BY <2>1, <2>3, <2>4, <2>5, <2>6, <2>7, <2>8
<1>7. CASE Happens
  BY <1>7, HappensSays, Longer
<1> QED
  BY <1>1, <1>2, <1>3, <1>4, <1>5, <1>6, <1>7 DEF Next, Session, Radio, Happens

LEMMA TypeStep == ObjectsInv /\ [Next]_vars => TypeOK'
BY BridgeStep, RadioStep, QueuesStep DEF TypeOK
-----------------------------------------------------------------------------
LEMMA AwayStep == ObjectsInv /\ [Next]_vars => AwayInv'
<1> SUFFICES ASSUME ObjectsInv, [Next]_vars PROVE AwayInv'
  OBVIOUS
<1> USE DEF ObjectsInv, TypeOK, AwayInv
<1>0. session \in Nat
  BY ConstantsAssumption DEF BridgeOK
<1>1. CASE Connect
  BY <1>0, <1>1 DEF Connect
<1>2. CASE Register \/ Decide \/ Answer \/ Publish
  BY <1>2 DEF Register, Decide, Answer, Publish
<1>3. CASE TakeLine
  BY <1>3 DEF TakeLine, TakeAnswer, TakeSlice, TakeTransmit, TakeTuner, TakeInterlock, Take
<1>4. CASE RefuseCreate \/ Disconnect
  BY <1>4 DEF RefuseCreate, Disconnect, Ends, RadioOK
<1>5. CASE Obey
  BY <1>5 DEF Obey
<1>6. CASE Key \/ Unkey
  <2>1. pc # "away" /\ UNCHANGED <<pc, session>>
    BY <1>6, EventStep DEF Key, Unkey
  <2> QED
    BY <2>1
<1>7. CASE Tune \/ MoveTx \/ TunerComes \/ TunerGoes
  <2>1. UNCHANGED <<pc, session, registered, toRadio>>
    BY <1>7, EventStep DEF Tune, MoveTx, TunerComes, TunerGoes
  <2>2. ASSUME pc = "away"
        PROVE  /\ UNCHANGED <<toBridge, radio.lock, radio.meters, radio.subs, radio.shown>>
    <3>1. CASE Tune
      BY <2>2, <3>1 DEF Tune, Tells, RadioOK
    <3>2. CASE MoveTx
      BY <2>2, <3>2 DEF MoveTx, Says, RadioOK
    <3>3. CASE TunerComes \/ TunerGoes
      BY <2>2, <3>3 DEF TunerComes, TunerGoes, Tells, RadioOK
    <3> QED
      BY <1>7, <3>1, <3>2, <3>3
  <2> QED
    BY <2>1, <2>2
<1>8. CASE AmpChanges \/ ClientSets
  BY <1>8, EventStep DEF AmpChanges, ClientSets
<1>9. CASE UNCHANGED vars
  BY <1>9
<1> QED
  BY <1>1, <1>2, <1>3, <1>4, <1>5, <1>6, <1>7, <1>8, <1>9 DEF Next, Session, Radio

LEMMA SubscribedStep == ObjectsInv /\ [Next]_vars => SubscribedInv'
<1> SUFFICES ASSUME ObjectsInv, [Next]_vars PROVE SubscribedInv'
  OBVIOUS
<1> USE DEF ObjectsInv, TypeOK, SubscribedInv
<1>1. CASE Connect \/ RefuseCreate \/ Disconnect
  BY <1>1 DEF Connect, RefuseCreate, Disconnect, Ends
<1>2. CASE Register
  BY <1>2, CommandsSent, StillContains DEF Register
<1>3. CASE TakeLine \/ Decide \/ Publish
  BY <1>3 DEF TakeLine, TakeAnswer, TakeSlice, TakeTransmit, TakeTuner, TakeInterlock, Take,
              Decide, Publish
<1>4. CASE Answer
  <2>1. answer \in CommandsOfBridge /\ UNCHANGED <<radio, registered>>
    BY <1>4 DEF Answer, BridgeOK, CommandsOfBridge
  <2>2. toRadio' = toRadio \o <<answer>> /\ <<answer>> \in Seq(CommandsOfBridge)
    BY <1>4, <2>1, AppendIsConcat DEF Answer
  <2> QED
    BY <2>1, <2>2, StillContains
<1>5. CASE Obey
  <2> DEFINE c == Head(toRadio)
  <2>1. /\ toRadio # <<>> /\ toRadio' = Tail(toRadio) /\ registered' = registered
        /\ \/ MeterGranted(c) \/ LockGranted(c) \/ Denied(c)
           \/ Subscribed(c) \/ Heeded(c) \/ Unheeded(c)
    BY <1>5, ObeyCases
  <2>2. CASE Subscribed(c)
    <3>1. radio.subs \cup {c.what} = radio'.subs
      BY <2>2 DEF Subscribed, RadioOK
    <3>2. CASE c = SliceSub
      BY <3>1, <3>2 DEF SliceSub
    <3>3. CASE c # SliceSub
      BY <2>1, <3>1, <3>3, ContainsOrTaken
    <3> QED
      BY <3>2, <3>3
  <2>3. CASE ~Subscribed(c)
    <3>1. c.kind # "sub" /\ radio'.subs = radio.subs
      BY <2>1, <2>3 DEF MeterGranted, LockGranted, Denied, Heeded, Unheeded, RadioOK
    <3>2. c # SliceSub
      BY <3>1 DEF SliceSub
    <3> QED
      BY <2>1, <3>1, <3>2, ContainsOrTaken
  <2> QED
    BY <2>2, <2>3
<1>6. CASE Happens
  <2>1. UNCHANGED <<registered, toRadio>>
    BY <1>6, HappensSays
  <2>2. radio'.subs = radio.subs
    BY <1>6 DEF Happens, Key, Unkey, Tune, MoveTx, TunerComes, TunerGoes, AmpChanges, ClientSets, RadioOK
  <2> QED
    BY <2>1, <2>2
<1>7. CASE UNCHANGED vars
  BY <1>7
<1> QED
  BY <1>1, <1>2, <1>3, <1>4, <1>5, <1>6, <1>7 DEF Next, Session, Radio, Happens
-----------------------------------------------------------------------------
LEMMA HeldWhenSaid ==
    ASSUME ObjectsInv, NEW r \in Seq(LinesOfRadio), toBridge' = toBridge \o r,
           UNCHANGED <<interlock, session, meters>>,
           radio'.lock # "none" => radio.lock # "none" \/ Contains(r, Told("interlock", TRUE)),
           \A m \in radio'.meters : m \in radio.meters \/ Contains(r, Told(m, TRUE))
    PROVE  HeldInv'
BY StillContains DEF ObjectsInv, TypeOK, HeldInv

LEMMA HeldStep == ObjectsInv /\ [Next]_vars => HeldInv'
<1> SUFFICES ASSUME ObjectsInv, [Next]_vars PROVE HeldInv'
  OBVIOUS
<1> USE DEF ObjectsInv, TypeOK
<1>1. CASE Connect
  BY <1>1 DEF Connect, AwayInv, HeldInv
<1>2. CASE RefuseCreate \/ Disconnect
  BY <1>2 DEF RefuseCreate, Disconnect, Ends, HeldInv, RadioOK
<1>3. CASE Register \/ Decide \/ Answer \/ Publish \/ UNCHANGED vars
  BY <1>3 DEF Register, Decide, Answer, Publish, HeldInv
<1>4. CASE TakeAnswer
  <2> DEFINE l == Head(toBridge)
  <2>1. /\ toBridge # <<>> /\ toBridge' = Tail(toBridge) /\ UNCHANGED <<session, radio>>
        /\ interlock' = IF l.ok /\ l.to = "interlock" THEN Created ELSE interlock
        /\ meters' = IF l.ok /\ l.to \in Meters THEN Upsert(l.to) ELSE meters
    BY <1>4 DEF TakeAnswer, Take
  <2>2. interlock.id = session => interlock'.id = session
    BY <2>1, ObserveTyped DEF BridgeOK
  <2>3. \A m \in Meters : meters[m] = session => meters'[m] = session
    BY <2>1 DEF Upsert, BridgeOK
  <2>4. ASSUME radio.lock # "none" PROVE interlock'.id = session \/ Contains(Tail(toBridge), Told("interlock", TRUE))
    <3>1. CASE l = Told("interlock", TRUE)
      <4>1. session \in Nat /\ l.ok /\ l.to = "interlock"
        BY <3>1 DEF Told, BridgeOK
      <4>2. Created.id = session
        BY <4>1, ObserveTyped DEF BridgeOK
      <4> QED
        BY <2>1, <4>1, <4>2
    <3>2. CASE l # Told("interlock", TRUE)
      BY <2>1, <2>2, <2>4, <3>2, ContainsOrTaken DEF HeldInv
    <3> QED
      BY <3>1, <3>2
  <2>5. ASSUME NEW m \in radio.meters
        PROVE  meters'[m] = session \/ Contains(Tail(toBridge), Told(m, TRUE))
    <3>1. m \in Meters
      BY DEF RadioOK
    <3>2. CASE l = Told(m, TRUE)
      BY <2>1, <3>1, <3>2 DEF Told, Upsert, BridgeOK
    <3>3. CASE l # Told(m, TRUE)
      BY <2>1, <2>3, <3>1, <3>3, ContainsOrTaken DEF HeldInv
    <3> QED
      BY <3>2, <3>3
  <2> QED
    BY <2>1, <2>4, <2>5 DEF HeldInv
<1>5. CASE TakeSlice \/ TakeTransmit \/ TakeTuner \/ TakeInterlock
  <2>1. /\ toBridge # <<>> /\ Head(toBridge).kind # "answer"
        /\ toBridge' = Tail(toBridge) /\ UNCHANGED <<session, radio, meters>>
    BY <1>5 DEF TakeSlice, TakeTransmit, TakeTuner, TakeInterlock, Take
  <2>2. \A w \in Meters \cup {"interlock"} : Head(toBridge) # Told(w, TRUE)
    BY <2>1 DEF Told
  <2>3. interlock'.id = interlock.id
    <3>1. Head(toBridge) \in LinesOfRadio
      BY <2>1, Shorter
    <3> QED
      BY <1>5, <3>1, ObserveTyped DEF TakeSlice, TakeTransmit, TakeTuner, TakeInterlock, Take, BridgeOK
  <2>4. radio.meters \subseteq Meters
    BY DEF RadioOK
  <2> QED
    BY <2>1, <2>2, <2>3, <2>4, ContainsOrTaken DEF HeldInv
<1>6. CASE Obey
  <2> DEFINE c == Head(toRadio)
  <2>1. /\ UNCHANGED <<interlock, session, meters>>
        /\ \/ MeterGranted(c) \/ LockGranted(c) \/ Denied(c)
           \/ Subscribed(c) \/ Heeded(c) \/ Unheeded(c)
    BY <1>6, ObeyCases
  <2>2. ASSUME NEW x \in LinesOfRadio PROVE <<x>> \in Seq(LinesOfRadio) /\ Contains(<<x>>, x)
    BY OneLine DEF Contains
  <2>3. CASE MeterGranted(c)
    <3>1. Told(c.meter, TRUE) \in LinesOfRadio
      BY <2>3, LinesTyped DEF MeterGranted
    <3>2. radio'.meters = radio.meters \cup {c.meter} /\ radio'.lock = radio.lock
      BY <2>3 DEF MeterGranted, RadioOK
    <3> QED
      BY <2>1, <2>2, <2>3, <3>1, <3>2, HeldWhenSaid DEF MeterGranted
  <2>4. CASE LockGranted(c)
    <3>1. Told("interlock", TRUE) \in LinesOfRadio
      BY LinesTyped
    <3>2. radio'.meters = radio.meters
      BY <2>4 DEF LockGranted, RadioOK
    <3> QED
      BY <2>1, <2>2, <2>4, <3>1, <3>2, HeldWhenSaid DEF LockGranted
  <2>5. CASE Denied(c)
    <3>1. PICK w \in Meters \cup {"interlock"} : toBridge' = toBridge \o <<Told(w, FALSE)>>
      BY <2>5 DEF Denied
    <3>2. Told(w, FALSE) \in LinesOfRadio /\ radio' = radio
      BY <2>5, LinesTyped DEF Denied
    <3> QED
      BY <2>1, <2>2, <3>1, <3>2, HeldWhenSaid
  <2>6. CASE Subscribed(c)
    <3>1. radio'.meters = radio.meters /\ radio'.lock = radio.lock
      BY <2>6 DEF Subscribed, RadioOK
    <3> QED
      BY <2>1, <2>6, <3>1, LinesForTyped, HeldWhenSaid DEF Subscribed
  <2>7. CASE Heeded(c)
    <3>1. LockLine("TRANSMITTING", "1") \in LinesOfRadio /\ LockLine("NOT_READY", "0") \in LinesOfRadio
      BY LinesTyped DEF LockStates
    <3>2. radio'.meters = radio.meters /\ radio.lock # "none"
      BY <2>7 DEF Heeded, RadioOK
    <3>3. \E r \in Seq(LinesOfRadio) : toBridge' = toBridge \o r
      BY <2>2, <2>7, <3>1 DEF Heeded
    <3> QED
      BY <2>1, <3>2, <3>3, HeldWhenSaid
  <2>8. CASE Unheeded(c)
    BY <2>1, <2>8 DEF Unheeded, HeldInv
  <2> QED
    BY <2>1, <2>3, <2>4, <2>5, <2>6, <2>7, <2>8
<1>7. CASE Happens
  <2>1. radio'.meters = radio.meters /\ (radio'.lock # "none" => radio.lock # "none")
    BY <1>7 DEF Happens, Key, Unkey, Tune, MoveTx, TunerComes, TunerGoes, AmpChanges, ClientSets, RadioOK
  <2> QED
    BY <1>7, <2>1, HappensSays, HeldWhenSaid
<1> QED
  BY <1>1, <1>2, <1>3, <1>4, <1>5, <1>6, <1>7 DEF Next, Session, Radio, TakeLine, Happens
-----------------------------------------------------------------------------
(* A waiting request stays on its way when lines are added or others read. *)
LEMMA AskingWhenSaid ==
    ASSUME TypeOK, NEW r \in Seq(LinesOfRadio), toBridge' = toBridge \o r,
           UNCHANGED <<interlock, session>>, Asking
    PROVE  Asking'
<1>1. PICK i \in 1..Len(toBridge) :
        /\ toBridge[i] = KeyLine
        /\ interlock.id = session \/ \E j \in 1..(i - 1) : toBridge[j] = Told("interlock", TRUE)
  BY DEF Asking
<1>2. /\ i \in 1..Len(toBridge') /\ \A k \in 1..i : toBridge'[k] = toBridge[k]
  BY Longer DEF TypeOK
<1>3. ASSUME interlock.id # session
      PROVE  \E j \in 1..(i - 1) : toBridge'[j] = Told("interlock", TRUE)
  <2>1. PICK j \in 1..(i - 1) : toBridge[j] = Told("interlock", TRUE)
    BY <1>1, <1>3
  <2>2. j \in 1..i
    OBVIOUS
  <2> QED
    BY <1>2, <2>1, <2>2
<1>4. toBridge'[i] = KeyLine /\ interlock'.id = interlock.id /\ session' = session
  BY <1>1, <1>2
<1> QED
  BY <1>2, <1>3, <1>4 DEF Asking, KeyLine

LEMMA AskingWhenRead ==
    ASSUME TypeOK, toBridge # <<>>, toBridge' = Tail(toBridge), session' = session,
           interlock.id = session => interlock'.id = session,
           Head(toBridge) = Told("interlock", TRUE) => interlock'.id = session,
           NEW i \in 2..Len(toBridge), toBridge[i] = KeyLine,
           interlock.id = session \/ \E j \in 1..(i - 1) : toBridge[j] = Told("interlock", TRUE)
    PROVE  Asking'
<1>1. /\ Len(toBridge) \in Nat \ {0} /\ Len(toBridge') = Len(toBridge) - 1
      /\ Head(toBridge) = toBridge[1] /\ \A k \in 2..Len(toBridge) : toBridge[k] = toBridge'[k - 1]
  BY Shorter DEF TypeOK
<1>2. i - 1 \in 1..Len(toBridge') /\ toBridge'[i - 1] = KeyLine
  BY <1>1
<1>3. interlock'.id = session \/ \E j \in 1..((i - 1) - 1) : toBridge'[j] = Told("interlock", TRUE)
  <2>1. CASE interlock.id = session
    BY <2>1
  <2>2. ASSUME NEW j \in 1..(i - 1), toBridge[j] = Told("interlock", TRUE)
        PROVE  \/ interlock'.id = session
               \/ \E k \in 1..((i - 1) - 1) : toBridge'[k] = Told("interlock", TRUE)
    <3>1. CASE j = 1
      BY <1>1, <2>2, <3>1
    <3>2. CASE j # 1
      <4>1. j - 1 \in 1..((i - 1) - 1) /\ toBridge'[j - 1] = toBridge[j]
        BY <1>1, <3>2
      <4> QED
        BY <2>2, <4>1
    <3> QED
      BY <3>1, <3>2
  <2> QED
    BY <2>1, <2>2
<1> QED
  BY <1>2, <1>3 DEF Asking, KeyLine

(* A request that is read is one that the bridge answers: the handle of    *)
(* its interlock came before it.                                           *)
LEMMA WaitingTake == ObjectsInv /\ TakeLine => WaitingInv'
<1> SUFFICES ASSUME ObjectsInv, TakeLine, config'.runtime, radio'.lock = "asked"
             PROVE  Asking' \/ Answering' \/ Answered'
  BY DEF WaitingInv
<1> USE DEF ObjectsInv, TypeOK
<1>1. /\ pc = "session" /\ toBridge # <<>> /\ toBridge' = Tail(toBridge)
      /\ UNCHANGED <<config, session, radio, toRadio>>
      /\ session \in Nat \ {0}
  BY DEF TakeLine, TakeAnswer, TakeSlice, TakeTransmit, TakeTuner, TakeInterlock, Take, AwayInv, BridgeOK
<1>2. Head(toBridge) \in LinesOfRadio /\ Head(toBridge) = toBridge[1]
  BY <1>1, Shorter
<1>3. Asking \/ Answered
  BY <1>1 DEF WaitingInv, Answering
<1>4. CASE Answered
  BY <1>1, <1>4 DEF Answered
<1>5. CASE Asking
  <2>1. PICK i \in 1..Len(toBridge) :
          /\ toBridge[i] = KeyLine
          /\ interlock.id = session \/ \E j \in 1..(i - 1) : toBridge[j] = Told("interlock", TRUE)
    BY <1>5 DEF Asking
  <2>2. CASE TakeAnswer
    <3>1. i \in 2..Len(toBridge)
      BY <1>2, <2>1, <2>2 DEF TakeAnswer, Take, KeyLine, LockLine
    <3>2. Created.id = session /\ (interlock'.id = interlock.id \/ interlock' = Created)
      BY <1>1, <2>2, ObserveTyped DEF TakeAnswer, BridgeOK
    <3>3. Head(toBridge) = Told("interlock", TRUE) => interlock' = Created
      BY <2>2 DEF TakeAnswer, Told
    <3> QED
      BY <1>1, <2>1, <3>1, <3>2, <3>3, AskingWhenRead
  <2>3. CASE TakeSlice \/ TakeTransmit \/ TakeTuner
    <3>1. /\ Head(toBridge).kind \in {"slice", "transmit", "tuner"} /\ interlock' = interlock
      BY <2>3 DEF TakeSlice, TakeTransmit, TakeTuner, Take
    <3>2. Head(toBridge) # KeyLine /\ Head(toBridge) # Told("interlock", TRUE)
      BY <3>1 DEF KeyLine, LockLine, Told
    <3>3. i \in 2..Len(toBridge)
      BY <1>2, <2>1, <3>2
    <3> QED
      BY <1>1, <2>1, <3>1, <3>2, <3>3, AskingWhenRead
  <2>4. CASE TakeInterlock
    <3>1. Head(toBridge).kind = "interlock" /\ interlock'.id = interlock.id
      BY <1>2, <2>4, ObserveTyped DEF TakeInterlock, Take, BridgeOK
    <3>2. CASE i = 1
      <4>1. interlock.id = session
        BY <2>1, <3>2
      <4>2. Head(toBridge).state = "PTT_REQUESTED"
        BY <1>2, <2>1, <3>2 DEF KeyLine, LockLine
      <4>3. pc' = "asked"
        BY <1>1, <2>4, <4>1, <4>2 DEF TakeInterlock
      <4> QED
        BY <1>1, <3>1, <4>1, <4>3 DEF Answering
    <3>3. CASE i # 1
      <4>1. Head(toBridge) # Told("interlock", TRUE)
        BY <3>1 DEF Told
      <4>2. i \in 2..Len(toBridge)
        BY <3>3
      <4> QED
        BY <1>1, <2>1, <3>1, <4>1, <4>2, AskingWhenRead
    <3> QED
      BY <3>2, <3>3
  <2> QED
    BY <2>2, <2>3, <2>4 DEF TakeLine
<1> QED
  BY <1>3, <1>4, <1>5

LEMMA AnsweredWhenSent ==
    ASSUME TypeOK, NEW r \in Seq(CommandsOfBridge), toRadio' = toRadio \o r, session' = session,
           Answered \/ \E k \in 1..Len(r) : r[k].kind \in {"ready", "not_ready"} /\ r[k].id = session
    PROVE  Answered'
<1>1. CASE Answered
  <2>1. PICK i \in 1..Len(toRadio) :
          toRadio[i].kind \in {"ready", "not_ready"} /\ toRadio[i].id = session
    BY <1>1 DEF Answered
  <2>2. i \in 1..Len(toRadio') /\ toRadio'[i] = toRadio[i]
    BY Longer DEF TypeOK
  <2> QED
    BY <2>1, <2>2 DEF Answered
<1>2. ASSUME NEW k \in 1..Len(r), r[k].kind \in {"ready", "not_ready"}, r[k].id = session
      PROVE  Answered'
  <2>1. Len(toRadio) + k \in 1..Len(toRadio') /\ toRadio'[Len(toRadio) + k] = r[k]
    BY Longer DEF TypeOK
  <2> QED
    BY <1>2, <2>1 DEF Answered
<1> QED
  BY <1>1, <1>2

LEMMA WaitingStep == ObjectsInv /\ [Next]_vars => WaitingInv'
<1> SUFFICES ASSUME ObjectsInv, [Next]_vars, config'.runtime, radio'.lock = "asked"
             PROVE  Asking' \/ Answering' \/ Answered'
  BY DEF WaitingInv
<1> USE DEF ObjectsInv, TypeOK
<1>1. CASE Connect
  BY <1>1 DEF Connect, AwayInv
<1>2. CASE RefuseCreate \/ Disconnect
  <2>1. radio'.lock = "none"
    BY <1>2 DEF RefuseCreate, Disconnect, Ends, RadioOK
  <2> QED
    BY <2>1
<1>3. CASE Register
  <2>1. /\ UNCHANGED <<config, radio, toBridge, interlock, session, pc, answer>>
        /\ toRadio' = toRadio \o Commands(config)
    BY <1>3 DEF Register
  <2>2. Asking \/ Answering \/ Answered
    BY <2>1 DEF WaitingInv
  <2>3. Asking \/ Answering => Asking' \/ Answering'
    BY <2>1 DEF Asking, Answering, KeyLine
  <2> QED
    BY <2>1, <2>2, <2>3, CommandsSent, AnsweredWhenSent
<1>4. CASE TakeLine
  BY <1>4, WaitingTake DEF WaitingInv
<1>5. CASE Decide
  <2>1. /\ UNCHANGED <<config, radio, toBridge, toRadio, interlock, session>>
        /\ pc = "asked" /\ pc' = "decided" /\ answer'.id = interlock.id
    BY <1>5 DEF Decide
  <2>2. Asking \/ Answering \/ Answered
    BY <2>1 DEF WaitingInv
  <2> QED
    BY <2>1, <2>2 DEF Asking, Answering, Answered, KeyLine
<1>6. CASE Answer
  <2>1. /\ UNCHANGED <<config, radio, toBridge, interlock, session>>
        /\ pc = "decided" /\ answer \in Answers
    BY <1>6 DEF Answer, BridgeOK
  <2>2. answer \in CommandsOfBridge /\ answer.kind \in {"ready", "not_ready"}
    BY <2>1 DEF CommandsOfBridge, Answers
  <2>3. toRadio' = toRadio \o <<answer>> /\ <<answer>> \in Seq(CommandsOfBridge)
    BY <1>6, <2>2, AppendIsConcat DEF Answer
  <2>4. Asking \/ Answering \/ Answered
    BY <2>1 DEF WaitingInv
  <2>5. CASE Asking
    BY <2>1, <2>5 DEF Asking, KeyLine
  <2>6. CASE Answering
    <3>1. <<answer>>[1].id = session /\ <<answer>>[1] = answer /\ 1 \in 1..Len(<<answer>>)
      BY <2>1, <2>6 DEF Answering
    <3> QED
      BY <2>1, <2>2, <2>3, <3>1, AnsweredWhenSent
  <2>7. CASE Answered
    BY <2>1, <2>3, <2>7, AnsweredWhenSent
  <2> QED
    BY <2>4, <2>5, <2>6, <2>7
<1>7. CASE Publish \/ UNCHANGED vars
  <2>1. UNCHANGED <<config, radio, toBridge, toRadio, interlock, session, pc, answer>>
    BY <1>7 DEF Publish
  <2> QED
    BY <2>1 DEF WaitingInv, Asking, Answering, Answered, KeyLine
<1>8. CASE Obey
  <2> DEFINE c == Head(toRadio)
  <2>1. /\ UNCHANGED <<config, interlock, session, pc, answer>>
        /\ toRadio # <<>> /\ toRadio' = Tail(toRadio)
        /\ \/ MeterGranted(c) \/ LockGranted(c) \/ Denied(c)
           \/ Subscribed(c) \/ Heeded(c) \/ Unheeded(c)
    BY <1>8, ObeyCases
  <2>2. ~LockGranted(c) /\ ~Heeded(c)
    BY DEF LockGranted, Heeded, RadioOK
  <2>3. radio.lock = "asked"
    BY <2>1, <2>2 DEF MeterGranted, Denied, Subscribed, Unheeded, RadioOK
  <2>4. ~(c.kind \in {"ready", "not_ready"} /\ c.id = session)
    BY <2>1, <2>2, <2>3 DEF MeterGranted, Denied, Subscribed, Unheeded
  <2>5. Asking \/ Answering \/ Answered
    BY <2>1, <2>3 DEF WaitingInv
  <2>6. CASE Asking
    <3>1. \E r \in Seq(LinesOfRadio) : toBridge' = toBridge \o r
      <4>1. CASE MeterGranted(c)
        BY <4>1, LinesTyped, OneLine DEF MeterGranted
      <4>2. CASE Denied(c)
        BY <4>2, LinesTyped, OneLine DEF Denied
      <4>3. CASE Subscribed(c)
        BY <4>3, LinesForTyped DEF Subscribed
      <4>4. CASE Unheeded(c)
        BY <4>4, ConcatEmptySeq, EmptySeq DEF Unheeded
      <4> QED
        BY <2>1, <2>2, <4>1, <4>2, <4>3, <4>4
    <3> QED
      BY <2>1, <2>6, <3>1, AskingWhenSaid
  <2>7. CASE Answering
    BY <2>1, <2>7 DEF Answering
  <2>8. CASE Answered
    <3>1. PICK i \in 1..Len(toRadio) :
            toRadio[i].kind \in {"ready", "not_ready"} /\ toRadio[i].id = session
      BY <2>8 DEF Answered
    <3>2. i \in 2..Len(toRadio)
      BY <2>1, <2>4, <3>1, Shorter
    <3>3. i - 1 \in 1..Len(toRadio') /\ toRadio'[i - 1] = toRadio[i]
      BY <2>1, <3>2, Shorter
    <3> QED
      BY <2>1, <3>1, <3>3 DEF Answered
  <2> QED
    BY <2>5, <2>6, <2>7, <2>8
<1>9. CASE Happens
  <2>1. UNCHANGED <<config, interlock, session, pc, answer, toRadio>>
    BY <1>9, HappensSays
  <2>2. PICK r \in Seq(LinesOfRadio) : toBridge' = toBridge \o r
    BY <1>9, HappensSays
  <2>3. CASE radio.lock = "asked"
    <3>1. Asking \/ Answering \/ Answered
      BY <2>1, <2>3 DEF WaitingInv
    <3> QED
      BY <2>1, <2>2, <3>1, AskingWhenSaid DEF Answering, Answered
  <2>4. CASE radio.lock # "asked"
    <3>1. radio.lock = "idle" /\ toBridge' = toBridge \o <<KeyLine>>
      BY <1>9, <2>4 DEF Happens, Key, Unkey, Tune, MoveTx, TunerComes, TunerGoes, AmpChanges,
                        ClientSets, RadioOK, Says, KeyLine
    <3>2. KeyLine \in LinesOfRadio
      BY LinesTyped DEF KeyLine, LockStates
    <3> DEFINE n == Len(toBridge) + 1
    <3>3. /\ n \in 1..Len(toBridge') /\ toBridge'[n] = KeyLine
          /\ \A j \in 1..Len(toBridge) : toBridge'[j] = toBridge[j]
          /\ Len(toBridge) \in Nat
      BY <3>1, <3>2, OneLine, Longer
    <3>4. interlock.id = session \/ \E j \in 1..Len(toBridge) : toBridge[j] = Told("interlock", TRUE)
      BY <3>1 DEF HeldInv, Contains
    <3>5. n - 1 = Len(toBridge) /\ UNCHANGED <<interlock, session>>
      BY <2>1, <3>3
    <3> HIDE DEF n
    <3>6. interlock'.id = session' \/ \E j \in 1..(n - 1) : toBridge'[j] = Told("interlock", TRUE)
      BY <3>3, <3>4, <3>5
    <3> QED
      BY <3>3, <3>6 DEF Asking, KeyLine
  <2> QED
    BY <2>3, <2>4
<1> QED
  BY <1>1, <1>2, <1>3, <1>4, <1>5, <1>6, <1>7, <1>8, <1>9 DEF Next, Session, Radio, Happens
-----------------------------------------------------------------------------
(* The transmitting slice stays followed when lines are added that keep it *)
(* shown, when one of them says it anew, and when lines are read.          *)
LEMMA FollowedWhenSaid ==
    ASSUME TypeOK, Followed, NEW r \in Seq(LinesOfRadio), toBridge' = toBridge \o r,
           TxLine' = TxLine, TransmitLine(radio)' = TransmitLine(radio), Shows => Shows',
           \A k \in 1..Len(r) : Keeps(r[k])
    PROVE  Followed'
<1>1. /\ Len(toBridge') = Len(toBridge) + Len(r) /\ Len(toBridge) \in Nat /\ Len(r) \in Nat
      /\ \A i \in 1..Len(toBridge) : toBridge'[i] = toBridge[i]
      /\ \A i \in (Len(toBridge) + 1)..(Len(toBridge) + Len(r)) : toBridge'[i] = r[i - Len(toBridge)]
  BY Longer DEF TypeOK
<1>2. ASSUME NEW i \in 0..Len(toBridge), KeptAfter(i) PROVE KeptAfter(i)'
  <2> SUFFICES ASSUME NEW j \in (i + 1)..Len(toBridge') PROVE Keeps(toBridge'[j])
    BY <1>1 DEF KeptAfter, Keeps
  <2>1. CASE j <= Len(toBridge)
    BY <1>1, <1>2, <2>1 DEF KeptAfter
  <2>2. CASE j > Len(toBridge)
    <3>1. j - Len(toBridge) \in 1..Len(r) /\ toBridge'[j] = r[j - Len(toBridge)]
      BY <1>1, <2>2
    <3> QED
      BY <3>1
  <2> QED
    BY <1>1, <2>1, <2>2
<1>3. CASE Shows /\ KeptAfter(0)
  BY <1>1, <1>2, <1>3 DEF Followed
<1>4. ASSUME NEW i \in 1..Len(toBridge), toBridge[i] = TxLine, KeptAfter(i) PROVE Followed'
  <2>1. i \in 1..Len(toBridge') /\ i \in 0..Len(toBridge) /\ toBridge'[i] = TxLine'
    BY <1>1, <1>4
  <2> QED
    BY <1>2, <1>4, <2>1 DEF Followed
<1> QED
  BY <1>3, <1>4 DEF Followed

LEMMA FollowedAnew ==
    ASSUME TypeOK, NEW r \in Seq(LinesOfRadio), toBridge' = toBridge \o r,
           NEW k \in 1..Len(r), r[k] = TxLine', \A m \in (k + 1)..Len(r) : Keeps(r[m])'
    PROVE  Followed'
<1>1. /\ Len(toBridge') = Len(toBridge) + Len(r) /\ Len(toBridge) \in Nat /\ Len(r) \in Nat
      /\ \A i \in (Len(toBridge) + 1)..(Len(toBridge) + Len(r)) : toBridge'[i] = r[i - Len(toBridge)]
  BY Longer DEF TypeOK
<1> DEFINE i == Len(toBridge) + k
<1>2. i \in 1..Len(toBridge') /\ toBridge'[i] = TxLine'
  BY <1>1
<1>3. ASSUME NEW j \in (i + 1)..Len(toBridge') PROVE Keeps(toBridge[j])'
  <2>1. j - Len(toBridge) \in (k + 1)..Len(r) /\ toBridge'[j] = r[j - Len(toBridge)]
    BY <1>1
  <2> QED
    BY <2>1 DEF Keeps
<1> HIDE DEF i
<1> QED
  BY <1>2, <1>3 DEF Followed, KeptAfter

LEMMA FollowedWhenRead ==
    ASSUME TypeOK, Followed, toBridge # <<>>, toBridge' = Tail(toBridge), UNCHANGED radio,
           Head(toBridge) = TxLine => Shows', Shows /\ Keeps(Head(toBridge)) => Shows'
    PROVE  Followed'
<1>1. /\ Len(toBridge') = Len(toBridge) - 1 /\ Len(toBridge) \in Nat \ {0}
      /\ Head(toBridge) = toBridge[1]
      /\ \A i \in 1..Len(toBridge') : toBridge'[i] = toBridge[i + 1]
      /\ \A i \in 2..Len(toBridge) : toBridge[i] = toBridge'[i - 1]
  BY Shorter DEF TypeOK
<1>2. ASSUME NEW i \in 0..Len(toBridge'), KeptAfter(i + 1) PROVE KeptAfter(i)'
  <2> SUFFICES ASSUME NEW j \in (i + 1)..Len(toBridge') PROVE Keeps(toBridge'[j])
    BY DEF KeptAfter, Keeps, TxLine
  <2>1. toBridge'[j] = toBridge[j + 1] /\ j + 1 \in ((i + 1) + 1)..Len(toBridge)
    BY <1>1
  <2> QED
    BY <1>2, <2>1 DEF KeptAfter
<1>3. CASE Shows /\ KeptAfter(0)
  <2>1. Keeps(toBridge[1])
    BY <1>1, <1>3 DEF KeptAfter
  <2>2. KeptAfter(0 + 1)
    BY <1>1, <1>3 DEF KeptAfter
  <2>3. KeptAfter(0)'
    BY <1>1, <1>2, <2>2
  <2> QED
    BY <1>1, <1>3, <2>1, <2>3 DEF Followed
<1>4. ASSUME NEW i \in 1..Len(toBridge), toBridge[i] = TxLine, KeptAfter(i) PROVE Followed'
  <2>1. CASE i = 1
    <3>1. KeptAfter(0)'
      BY <1>1, <1>2, <1>4, <2>1
    <3> QED
      BY <1>1, <1>4, <2>1, <3>1 DEF Followed
  <2>2. CASE i # 1
    <3>1. i - 1 \in 1..Len(toBridge') /\ i - 1 \in 0..Len(toBridge') /\ (i - 1) + 1 = i
      BY <1>1, <2>2
    <3>2. toBridge'[i - 1] = TxLine' /\ KeptAfter(i - 1)'
      BY <1>1, <1>2, <1>4, <2>2, <3>1 DEF TxLine
    <3> QED
      BY <3>1, <3>2 DEF Followed
  <2> QED
    BY <2>1, <2>2
<1> QED
  BY <1>3, <1>4 DEF Followed

(* Lines about nothing that transmits.                                     *)
LEMMA OtherLines ==
    ASSUME NEW l, l.kind \notin {"slice", "transmit"}
    PROVE  Keeps(l) /\ l # TxLine
BY DEF Keeps, TxLine, SliceLine

LEMMA SliceLineFields ==
    \A s, r : /\ SliceLine(s, r).kind = "slice" /\ SliceLine(s, r).slice = s
             /\ SliceLine(s, r).dial = r.dial[s] /\ SliceLine(s, r).ant = Antenna[s]
             /\ (SliceLine(s, r).tx => r.tx = s)
             /\ (r.tx = s => SliceLine(s, r).tx)
BY DEF SliceLine

LEMMA TxLineFields ==
    /\ TxLine.tx /\ TxLine.slice = radio.tx
    /\ TxLine.dial = radio.dial[radio.tx] /\ TxLine.ant = Antenna[radio.tx]
<1>1. TxLine.tx
  <2>1. SliceLine(radio.tx, radio).tx = (radio.tx = radio.tx)
    BY Zenon DEF SliceLine
  <2>2. (radio.tx = radio.tx) = TRUE
    OBVIOUS
  <2>3. SliceLine(radio.tx, radio).tx = TRUE
    BY <2>1, <2>2, Zenon
  <2> QED
    BY <2>3, Zenon DEF TxLine
<1>2. TxLine.slice = radio.tx
  BY SMT DEF TxLine, SliceLine
<1>3. TxLine.dial = radio.dial[radio.tx] /\ TxLine.ant = Antenna[radio.tx]
  BY SMT DEF TxLine, SliceLine
<1> QED
  BY <1>1, <1>2, <1>3

LEMMA SliceLineKept ==
    \A s, r : SliceLine(s, r).kind = "slice" /\ (SliceLine(s, r).tx => s = r.tx)
BY SliceLineFields

LEMMA ContextTake == ObjectsInv /\ TakeLine => ContextInv'
<1> SUFFICES ASSUME ObjectsInv, TakeLine, "slice" \in radio.subs
             PROVE  Followed'
  <2>1. TakeLine => UNCHANGED radio
    BY DEF TakeLine, TakeAnswer, TakeSlice, TakeTransmit, TakeTuner, TakeInterlock, Take
  <2> QED
    BY <2>1 DEF ContextInv
<1> USE DEF ObjectsInv, TypeOK
<1> DEFINE l == Head(toBridge)
<1>1. toBridge # <<>> /\ toBridge' = Tail(toBridge) /\ UNCHANGED <<radio, scene>>
  BY DEF TakeLine, TakeAnswer, TakeSlice, TakeTransmit, TakeTuner, TakeInterlock, Take
<1>2. Followed
  BY DEF ContextInv
<1>3. context.hz # None /\ radio.tx # None
  <2>1. context.hz \in Nat /\ radio.tx \in Nat
    BY ConstantsAssumption DEF BridgeOK, RadioOK
  <2> QED
    BY <2>1, ConstantsAssumption
<1>4. /\ l = TxLine => Shows'
      /\ Shows /\ Keeps(l) => Shows'
  <2>1. CASE TakeAnswer \/ TakeTuner \/ TakeInterlock
    <3>1. l.kind \in {"answer", "tuner", "interlock"} /\ context' = context
      BY <2>1 DEF TakeAnswer, TakeTuner, TakeInterlock, Take
    <3>2. l # TxLine
      BY <3>1, OtherLines
    <3>3. Shows => Shows'
      BY <1>1, <3>1 DEF Shows
    <3> QED
      BY <3>2, <3>3
  <2>2. CASE TakeTransmit
    <3>1. l.kind = "transmit" /\ context' = [context EXCEPT !.ant = l.ant]
      BY <2>2 DEF TakeTransmit, Take
    <3>2. l # TxLine
      BY <3>1 DEF TxLine, SliceLine
    <3>3. ASSUME Shows, Keeps(l) PROVE Shows'
      <4>1. l.ant = Antenna[radio.tx]
        BY <3>1, <3>3 DEF Keeps, TransmitLine
      <4>2. /\ context'.slice = context.slice /\ context'.hz = context.hz
            /\ context'.band = context.band /\ context'.ant = l.ant
        BY <3>1 DEF BridgeOK
      <4> QED
        BY <1>1, <3>3, <4>1, <4>2 DEF Shows
    <3> QED
      BY <3>2, <3>3
  <2>3. CASE TakeSlice
    <3> DEFINE hz == ParseHz(l.dial)
    <3>1. /\ l.kind = "slice"
          /\ context' = IF ~Follows(l) THEN context
               ELSE [slice |-> l.slice, ant |-> l.ant,
                     hz |-> IF hz = None THEN context.hz ELSE hz,
                     band |-> IF hz = None THEN context.band ELSE BandOf(hz)]
      BY <2>3 DEF TakeSlice, Take
    <3>2. ASSUME l = TxLine PROVE Shows'
      <4>1. /\ l.tx /\ l.slice = radio.tx /\ l.ant = Antenna[radio.tx]
            /\ l.dial = radio.dial[radio.tx]
        BY <3>2, TxLineFields
      <4>2. /\ context'.slice = radio.tx /\ context'.ant = Antenna[radio.tx]
            /\ ParseHz(radio.dial[radio.tx]) # None =>
                  /\ context'.hz = ParseHz(radio.dial[radio.tx])
                  /\ context'.band = BandOf(ParseHz(radio.dial[radio.tx]))
        BY <3>1, <4>1 DEF Follows
      <4> QED
        BY <1>1, <4>2 DEF Shows
    <3>3. ASSUME Shows, Keeps(l) PROVE Shows'
      <4>1. CASE l.tx
        BY <3>1, <3>2, <3>3, <4>1 DEF Keeps
      <4>2. CASE ~l.tx
        <5>1. ~Follows(l)
          BY <1>3, <3>3, <4>2 DEF Follows, Shows
        <5> QED
          BY <1>1, <3>1, <3>3, <5>1 DEF Shows
      <4> QED
        BY <4>1, <4>2
    <3> QED
      BY <3>2, <3>3
  <2> QED
    BY <2>1, <2>2, <2>3 DEF TakeLine
<1> QED
  BY <1>1, <1>2, <1>4, FollowedWhenRead

(* The slices are told anew to who subscribes to them.                     *)
LEMMA ContextObey == ObjectsInv /\ Obey => ContextInv'
<1> SUFFICES ASSUME ObjectsInv, Obey, "slice" \in radio'.subs
             PROVE  Followed'
  BY DEF ContextInv
<1> USE DEF ObjectsInv, TypeOK
<1> DEFINE c == Head(toRadio)
<1>1. /\ UNCHANGED <<context, scene>>
      /\ \/ MeterGranted(c) \/ LockGranted(c) \/ Denied(c)
         \/ Subscribed(c) \/ Heeded(c) \/ Unheeded(c)
  BY ObeyCases
<1>2. UNCHANGED <<radio.tx, radio.dial>>
  BY <1>1 DEF MeterGranted, LockGranted, Denied, Subscribed, Heeded, Unheeded, RadioOK
<1>3. TxLine' = TxLine /\ TransmitLine(radio)' = TransmitLine(radio) /\ (Shows => Shows')
  BY <1>1, <1>2 DEF TxLine, SliceLine, TransmitLine, Shows
<1>4. CASE Subscribed(c) /\ c.what = "slice"
  <2>1. PICK q \in Seq(LinesOfRadio) : q = SliceLines
    BY SliceLinesSent
  <2>2. toBridge' = toBridge \o q
    BY <1>4, <2>1 DEF Subscribed, LinesFor
  <2>3. PICK k \in 1..Len(q) : q[k] = TxLine
    BY <2>1, SliceLinesSent DEF TxLine, RadioOK
  <2>4. ASSUME NEW m \in 1..Len(q) PROVE Keeps(q[m])'
    <3>1. PICK s \in Slices : q[m] = SliceLine(s, radio)
      BY <2>1, SliceLinesSent
    <3>2. q[m].kind = "slice" /\ (q[m].tx => radio.tx = s)
      BY <3>1, SliceLineFields
    <3>3. q[m].tx => q[m] = TxLine
      BY <3>1, <3>2 DEF TxLine
    <3> QED
      BY <1>3, <3>2, <3>3 DEF Keeps
  <2>5. \A m \in (k + 1)..Len(q) : m \in 1..Len(q)
    OBVIOUS
  <2> QED
    BY <1>3, <2>2, <2>3, <2>4, <2>5, FollowedAnew
<1>5. CASE ~(Subscribed(c) /\ c.what = "slice")
  <2>1. Followed
    <3>1. radio'.subs = radio.subs \/ (Subscribed(c) /\ radio'.subs = radio.subs \cup {c.what})
      BY <1>1 DEF MeterGranted, LockGranted, Denied, Subscribed, Heeded, Unheeded, RadioOK
    <3>2. "slice" \in radio.subs
      BY <1>5, <3>1
    <3> QED
      BY <1>2, <3>2 DEF ContextInv
  <2>2. \E r \in Seq(LinesOfRadio) : toBridge' = toBridge \o r /\ \A k \in 1..Len(r) : Keeps(r[k])
    <3>1. ASSUME NEW l \in LinesOfRadio, toBridge' = toBridge \o <<l>>, Keeps(l)
          PROVE  \E r \in Seq(LinesOfRadio) :
                    toBridge' = toBridge \o r /\ \A k \in 1..Len(r) : Keeps(r[k])
      <4>1. <<l>> \in Seq(LinesOfRadio) /\ \A k \in 1..Len(<<l>>) : <<l>>[k] = l
        BY OneLine
      <4> QED
        BY <3>1, <4>1
    <3>2. ASSUME toBridge' = toBridge
          PROVE  \E r \in Seq(LinesOfRadio) :
                    toBridge' = toBridge \o r /\ \A k \in 1..Len(r) : Keeps(r[k])
      <4>1. /\ <<>> \in Seq(LinesOfRadio) /\ toBridge \o <<>> = toBridge
            /\ \A k \in 1..Len(<<>>) : FALSE
        BY ConcatEmptySeq, EmptySeq
      <4> QED
        BY <3>2, <4>1
    <3>3. CASE MeterGranted(c)
      <4>1. Told(c.meter, TRUE) \in LinesOfRadio /\ Keeps(Told(c.meter, TRUE))
        BY <3>3, LinesTyped, OtherLines DEF MeterGranted, Told
      <4> QED
        BY <3>1, <3>3, <4>1 DEF MeterGranted
    <3>4. CASE LockGranted(c)
      <4>1. Told("interlock", TRUE) \in LinesOfRadio /\ Keeps(Told("interlock", TRUE))
        BY LinesTyped, OtherLines DEF Told
      <4> QED
        BY <3>1, <3>4, <4>1 DEF LockGranted
    <3>5. CASE Denied(c)
      <4>1. PICK w \in Meters \cup {"interlock"} : toBridge' = toBridge \o <<Told(w, FALSE)>>
        BY <3>5 DEF Denied
      <4>2. Told(w, FALSE) \in LinesOfRadio /\ Keeps(Told(w, FALSE))
        BY LinesTyped, OtherLines DEF Told
      <4> QED
        BY <3>1, <4>1, <4>2
    <3>6. CASE Subscribed(c)
      <4>1. CASE c.what = "tx"
        <5>1. TransmitLine(radio) \in LinesOfRadio /\ Keeps(TransmitLine(radio))
          BY LinesTyped DEF RadioOK, Keeps, TransmitLine
        <5> QED
          BY <3>1, <3>6, <4>1, <5>1 DEF Subscribed, LinesFor
      <4>2. CASE c.what = "amplifier"
        <5>1. CASE radio.tuner = None
          BY <3>2, <3>6, <4>2, <5>1, ConcatEmptySeq DEF Subscribed, LinesFor
        <5>2. CASE radio.tuner # None
          <6>1. TunerLine(radio.tuner, FALSE) \in LinesOfRadio /\ Keeps(TunerLine(radio.tuner, FALSE))
            BY <5>2, LinesTyped, OtherLines DEF RadioOK, TunerLine
          <6> QED
            BY <3>1, <3>6, <4>2, <5>2, <6>1 DEF Subscribed, LinesFor
        <5> QED
          BY <5>1, <5>2
      <4> QED
        BY <1>5, <3>6, <4>1, <4>2 DEF Subscribed
    <3>7. CASE Heeded(c)
      <4>1. /\ LockLine("TRANSMITTING", "1") \in LinesOfRadio /\ Keeps(LockLine("TRANSMITTING", "1"))
            /\ LockLine("NOT_READY", "0") \in LinesOfRadio /\ Keeps(LockLine("NOT_READY", "0"))
        BY LinesTyped, OtherLines DEF LockLine, LockStates
      <4> QED
        BY <3>1, <3>7, <4>1 DEF Heeded
    <3>8. CASE Unheeded(c)
      BY <3>2, <3>8 DEF Unheeded
    <3> QED
      BY <1>1, <3>3, <3>4, <3>5, <3>6, <3>7, <3>8
  <2> QED
    BY <1>3, <2>1, <2>2, FollowedWhenSaid
<1> QED
  BY <1>4, <1>5

LEMMA ContextStep == ObjectsInv /\ [Next]_vars => ContextInv'
<1> SUFFICES ASSUME ObjectsInv, [Next]_vars PROVE ContextInv'
  OBVIOUS
<1> USE DEF ObjectsInv, TypeOK
<1> USE DEF ContextInv
<1>1. CASE Connect \/ Register \/ Decide \/ Answer \/ Publish \/ UNCHANGED vars
  <2>1. UNCHANGED <<radio, toBridge, context, scene>>
    BY <1>1 DEF Connect, Register, Decide, Answer, Publish
  <2> QED
    BY <2>1 DEF Followed, KeptAfter, Keeps, Shows, TxLine
<1>2. CASE RefuseCreate \/ Disconnect
  BY <1>2 DEF RefuseCreate, Disconnect, Ends, RadioOK
<1>3. CASE TakeLine
  BY <1>3, ContextTake
<1>4. CASE Obey
  BY <1>4, ContextObey
<1>5. CASE Happens
  <2> SUFFICES ASSUME "slice" \in radio'.subs PROVE Followed'
    OBVIOUS
  <2>1. scene' = scene /\ (~ClientSets => context' = context)
    BY <1>5, HappensSays
  <2>2. radio'.subs = radio.subs
    BY <1>5 DEF Happens, Key, Unkey, Tune, MoveTx, TunerComes, TunerGoes, AmpChanges, ClientSets, RadioOK
  <2>3. ASSUME UNCHANGED <<radio.tx, radio.dial>>, context' = context, NEW r \in Seq(LinesOfRadio),
               toBridge' = toBridge \o r, \A k \in 1..Len(r) : Keeps(r[k])
        PROVE  Followed'
    <3>1. TxLine' = TxLine /\ TransmitLine(radio)' = TransmitLine(radio) /\ (Shows => Shows')
      BY <2>1, <2>3 DEF TxLine, SliceLine, TransmitLine, Shows
    <3> QED
      BY <2>2, <2>3, <3>1, FollowedWhenSaid
  <2>4. /\ <<>> \in Seq(LinesOfRadio) /\ toBridge \o <<>> = toBridge
        /\ \A k \in 1..Len(<<>>) : FALSE
    BY ConcatEmptySeq, EmptySeq
  <2>5. CASE Key \/ Unkey
    <3>1. PICK l \in LinesOfRadio : toBridge' = toBridge \o <<l>> /\ l.kind = "interlock"
      BY <2>5, LinesTyped DEF Key, Unkey, Says, LockLine, LockStates
    <3>2. UNCHANGED <<radio.tx, radio.dial>> /\ context' = context
      BY <2>1, <2>5 DEF Key, Unkey, ClientSets, RadioOK, held
    <3>3. /\ <<l>> \in Seq(LinesOfRadio)
          /\ \A k \in 1..Len(<<l>>) : Keeps(<<l>>[k])
      BY <3>1, OneLine, OtherLines
    <3> QED
      BY <2>3, <3>1, <3>2, <3>3
  <2>6. CASE TunerComes \/ TunerGoes
    <3>1. PICK h \in Tuners, gone \in BOOLEAN : Tells("amplifier", <<TunerLine(h, gone)>>)
      BY <2>6 DEF TunerComes, TunerGoes, RadioOK
    <3>2. UNCHANGED <<radio.tx, radio.dial>> /\ context' = context
      BY <2>6 DEF TunerComes, TunerGoes, RadioOK, held
    <3>3. TunerLine(h, gone) \in LinesOfRadio /\ Keeps(TunerLine(h, gone))
      BY LinesTyped, OtherLines DEF TunerLine
    <3>4. /\ <<TunerLine(h, gone)>> \in Seq(LinesOfRadio)
          /\ \A k \in 1..Len(<<TunerLine(h, gone)>>) : Keeps(<<TunerLine(h, gone)>>[k])
      BY <3>3, OneLine
    <3> QED
      BY <2>3, <2>4, <3>1, <3>2, <3>4 DEF Tells, Says
  <2>7. CASE AmpChanges
    BY <2>3, <2>4, <2>7 DEF AmpChanges, held
  <2>8. CASE ClientSets
    <3>1. toBridge' = toBridge /\ radio' = radio /\ "client" \in scene
      BY <2>8 DEF ClientSets, Event
    <3>2. /\ context'.slice = context.slice /\ context'.hz = context.hz
          /\ context'.band = context.band /\ context'.ant = ClientAntenna
      BY <2>8 DEF ClientSets, BridgeOK
    <3>3. Shows => Shows'
      BY <2>1, <3>1, <3>2 DEF Shows
    <3>4. TxLine' = TxLine /\ TransmitLine(radio)' = TransmitLine(radio)
      BY <3>1 DEF TxLine
    <3>5. Followed
      BY <3>1
    <3> QED
      BY <2>4, <3>1, <3>3, <3>4, <3>5, FollowedWhenSaid
  <2>9. CASE Tune
    <3>1. PICK s \in Slices, d \in Dial :
            /\ radio' = [radio EXCEPT !.dial[s] = d]
            /\ Tells("slice", <<SliceLine(s, [radio EXCEPT !.dial[s] = d])>>)
      BY <2>9 DEF Tune
    <3>2. PICK l : l = SliceLine(s, radio')
      OBVIOUS
    <3>3. toBridge' = toBridge \o <<l>>
      BY <2>2, <3>1, <3>2 DEF Tells, Says
    <3>4. l \in LinesOfRadio
      <4>1. radio'.dial[s] \in Dial
        BY <3>1 DEF RadioOK
      <4> QED
        BY <3>2, <4>1, LinesTyped
    <3>5. <<l>> \in Seq(LinesOfRadio) /\ Len(<<l>>) = 1 /\ <<l>>[1] = l
      BY <3>4, OneLine
    <3>6. context' = context /\ radio'.tx = radio.tx
      BY <2>9, <3>1 DEF Tune, held, RadioOK
    <3>7. CASE s = radio.tx
      <4>1. l = TxLine'
        BY <3>2, <3>6, <3>7 DEF TxLine
      <4>2. PICK q \in Seq(LinesOfRadio) : q = <<l>>
        BY <3>5
      <4>3. /\ 1 \in 1..Len(q) /\ q[1] = TxLine' /\ \A m \in (1 + 1)..Len(q) : Keeps(q[m])'
        BY <3>5, <4>1, <4>2
      <4> QED
        BY <3>3, <4>2, <4>3, FollowedAnew
    <3>8. CASE s # radio.tx
      <4>1. radio'.dial[radio.tx] = radio.dial[radio.tx] /\ radio.tx \in Slices
        BY <3>1, <3>8 DEF RadioOK
      <4>2. TxLine' = TxLine /\ TransmitLine(radio)' = TransmitLine(radio) /\ (Shows => Shows')
        BY <2>1, <3>6, <4>1 DEF TxLine, SliceLine, TransmitLine, Shows
      <4>3. l.kind = "slice" /\ ~l.tx
        BY <3>2, <3>6, <3>8, SliceLineKept
      <4>4. Keeps(l)
        BY <4>3 DEF Keeps
      <4>5. Followed
        BY <2>2, <3>6, <4>1
      <4>6. PICK q \in Seq(LinesOfRadio) : q = <<l>>
        BY <3>5
      <4>7. \A k \in 1..Len(q) : Keeps(q[k])
        BY <3>5, <4>4, <4>6
      <4>8. toBridge' = toBridge \o q
        BY <3>3, <4>6
      <4> QED
        BY <4>2, <4>5, <4>7, <4>8, FollowedWhenSaid
    <3> QED
      BY <3>7, <3>8
  <2>10. CASE MoveTx
    <3>1. PICK s \in Slices :
            radio' = [radio EXCEPT !.tx = s] /\ toBridge' = toBridge \o MoveLines(s)
      BY <2>10 DEF MoveTx, Says, MoveLines
    <3>2. PICK q \in Seq(LinesOfRadio) : q = MoveLines(s)
      BY MoveLinesTyped
    <3>3. PICK l1, l2, l3 : /\ l1 = SliceLine(radio.tx, radio') /\ l2 = SliceLine(s, radio')
                            /\ l3 = TransmitLine(radio')
      OBVIOUS
    <3>4. q = <<l1, l2>> \o (IF "tx" \in radio.subs THEN <<l3>> ELSE <<>>)
      BY <2>2, <3>1, <3>2, <3>3 DEF MoveLines
    <3>5. l2 = TxLine' /\ l3 = TransmitLine(radio')
      BY <3>1, <3>3 DEF TxLine, RadioOK
    <3>6. Keeps(l3)'
      BY <3>3 DEF Keeps, TransmitLine
    <3>7. CASE "tx" \in radio.subs
      <4> DEFINE three == <<l1, l2>> \o <<l3>>
      <4>1. Len(three) = 3 /\ three[2] = l2 /\ three[3] = l3
        OBVIOUS
      <4> HIDE DEF three
      <4>3. q = three
        BY <3>4, <3>7 DEF three
      <4>2. 2 \in 1..Len(q) /\ q[2] = TxLine' /\ \A m \in (2 + 1)..Len(q) : Keeps(q[m])'
        <5>1. Len(q) = 3 /\ q[2] = TxLine' /\ q[3] = l3
          BY <3>5, <4>1, <4>3
        <5>2. \A m \in (2 + 1)..Len(q) : m = 3
          BY <5>1
        <5>3. \A m \in (2 + 1)..Len(q) : q[m] = l3
          BY <5>1, <5>2
        <5>4. \A m \in (2 + 1)..Len(q) : Keeps(q[m])'
          BY <3>6, <5>3 DEF Keeps
        <5> QED
          BY <5>1, <5>4
      <4> QED
        BY <3>1, <3>2, <4>2, FollowedAnew
    <3>8. CASE "tx" \notin radio.subs
      <4>1. q = <<l1, l2>>
        BY <3>4, <3>8
      <4>2. 2 \in 1..Len(q) /\ q[2] = TxLine' /\ \A m \in (2 + 1)..Len(q) : Keeps(q[m])'
        BY <3>5, <4>1
      <4> QED
        BY <3>1, <3>2, <4>2, FollowedAnew
    <3> QED
      BY <3>7, <3>8
  <2> QED
    BY <1>5, <2>5, <2>6, <2>7, <2>8, <2>9, <2>10 DEF Happens
<1> QED
  BY <1>1, <1>2, <1>3, <1>4, <1>5 DEF Next, Session, Radio, Happens
-----------------------------------------------------------------------------
(* What is behind a line does not change which tuner is held before it.    *)
LEMMA HoldsBefore ==
    ASSUME TypeOK, NEW r \in Seq(LinesOfRadio), toBridge' = toBridge \o r, tuner' = tuner,
           NEW h, NEW k \in 1..(Len(toBridge) + 1), HoldsAt(h, k)
    PROVE  HoldsAt(h, k)'
<1>1. /\ Len(toBridge) \in Nat /\ \A i \in 1..Len(toBridge) : toBridge'[i] = toBridge[i]
  BY Longer DEF TypeOK
<1>2. ASSUME NEW i \in Nat, NoTuner(i, k) PROVE NoTuner(i, k)'
  BY <1>1, <1>2 DEF NoTuner
<1>3. CASE tuner = h /\ NoTuner(0, k)
  BY <1>2, <1>3 DEF HoldsAt
<1>4. ASSUME NEW i \in 1..(k - 1), toBridge[i] = TunerLine(h, FALSE), NoTuner(i, k)
      PROVE  HoldsAt(h, k)'
  <2>0. i \in Nat /\ toBridge'[i] = toBridge[i]
    BY <1>1
  <2>1. i \in Nat /\ toBridge'[i] = TunerLine(h, FALSE)
    BY <1>4, <2>0, Zenon
  <2> QED
    BY <1>2, <1>4, <2>1 DEF HoldsAt
<1> QED
  BY <1>3, <1>4 DEF HoldsAt

(* Other lines do not change which tuner is held.                          *)
LEMMA NoTunerBehind ==
    ASSUME TypeOK, NEW r \in Seq(LinesOfRadio), toBridge' = toBridge \o r,
           \A i \in 1..Len(r) : r[i].kind # "tuner",
           NEW i \in 0..Len(toBridge), NoTuner(i, Len(toBridge) + 1)
    PROVE  NoTuner(i, Len(toBridge) + 1)'
<1>1. /\ Len(toBridge') = Len(toBridge) + Len(r) /\ Len(toBridge) \in Nat /\ Len(r) \in Nat
      /\ \A j \in 1..Len(toBridge) : toBridge'[j] = toBridge[j]
      /\ \A j \in (Len(toBridge) + 1)..(Len(toBridge) + Len(r)) : toBridge'[j] = r[j - Len(toBridge)]
  BY Longer DEF TypeOK
<1> SUFFICES ASSUME NEW j \in (i + 1)..Len(toBridge') PROVE toBridge'[j].kind # "tuner"
  BY <1>1 DEF NoTuner
<1>2. CASE j <= Len(toBridge)
  BY <1>1, <1>2 DEF NoTuner
<1>3. CASE j > Len(toBridge)
  <2>1. j - Len(toBridge) \in 1..Len(r) /\ toBridge'[j] = r[j - Len(toBridge)]
    BY <1>1, <1>3
  <2> QED
    BY <2>1
<1> QED
  BY <1>1, <1>2, <1>3

LEMMA HoldsBehind ==
    ASSUME TypeOK, NEW r \in Seq(LinesOfRadio), toBridge' = toBridge \o r, tuner' = tuner,
           \A i \in 1..Len(r) : r[i].kind # "tuner",
           NEW h, HoldsAt(h, Len(toBridge) + 1)
    PROVE  HoldsAt(h, Len(toBridge) + 1)'
<1>1. /\ Len(toBridge') = Len(toBridge) + Len(r) /\ Len(toBridge) \in Nat /\ Len(r) \in Nat
      /\ \A j \in 1..Len(toBridge) : toBridge'[j] = toBridge[j]
  BY Longer DEF TypeOK
<1>2. ASSUME NEW i \in 0..Len(toBridge), NoTuner(i, Len(toBridge) + 1)
      PROVE  NoTuner(i, Len(toBridge) + 1)'
  BY <1>2, NoTunerBehind
<1>3. CASE tuner = h /\ NoTuner(0, Len(toBridge) + 1)
  <2>1. NoTuner(0, Len(toBridge) + 1)'
    BY <1>1, <1>2, <1>3
  <2> QED
    BY <1>3, <2>1 DEF HoldsAt
<1>4. ASSUME NEW i \in 1..Len(toBridge), toBridge[i] = TunerLine(h, FALSE),
             NoTuner(i, Len(toBridge) + 1)
      PROVE  HoldsAt(h, Len(toBridge) + 1)'
  <2>1. i \in 0..Len(toBridge) /\ i \in 1..((Len(toBridge') + 1) - 1)
        /\ toBridge'[i] = TunerLine(h, FALSE)
    <3>1. i \in 0..Len(toBridge) /\ i \in 1..((Len(toBridge') + 1) - 1)
          /\ toBridge'[i] = toBridge[i]
      BY <1>1
    <3> QED
      BY <1>4, <3>1, Zenon
  <2>2. NoTuner(i, Len(toBridge) + 1)'
    BY <1>2, <1>4, <2>1
  <2> QED
    BY <2>1, <2>2 DEF HoldsAt
<1>5. (Len(toBridge) + 1) - 1 = Len(toBridge)
  BY <1>1
<1> QED
  BY <1>3, <1>4, <1>5 DEF HoldsAt

LEMMA TunerKept ==
    ASSUME TypeOK, TunerInv, NEW r \in Seq(LinesOfRadio), toBridge' = toBridge \o r, tuner' = tuner,
           \A i \in 1..Len(r) : r[i].kind # "tuner",
           UNCHANGED <<radio.tuner, radio.shown>>,
           "amplifier" \in radio'.subs <=> "amplifier" \in radio.subs
    PROVE  TunerInv'
<1>1. /\ Len(toBridge') = Len(toBridge) + Len(r) /\ Len(toBridge) \in Nat /\ Len(r) \in Nat
      /\ \A j \in 1..Len(toBridge) : toBridge'[j] = toBridge[j]
  BY Longer DEF TypeOK
<1>2. (radio.shown => "amplifier" \in radio.subs)'
      /\ ("amplifier" \in radio.subs /\ radio.tuner # None => radio.shown)'
  BY DEF TunerInv
<1>3. ASSUME radio.shown, radio.tuner # None PROVE HoldsAt(radio.tuner, Len(toBridge) + 1)'
  <2>1. PICK h : h = radio.tuner
    OBVIOUS
  <2>2. HoldsAt(h, Len(toBridge) + 1)
    BY <1>3, <2>1 DEF TunerInv
  <2>3. HoldsAt(h, Len(toBridge) + 1)'
    BY <2>2, HoldsBehind
  <2> QED
    BY <2>1, <2>3 DEF HoldsAt
<1>4. ASSUME radio.shown, radio.tuner = None
      PROVE  (\/ tuner = None /\ NoTuner(0, Len(toBridge) + 1)
              \/ \E i \in 1..Len(toBridge) : \E h \in Tuners :
                   toBridge[i] = TunerLine(h, TRUE) /\ HoldsAt(h, i) /\ NoTuner(i, Len(toBridge) + 1))'
  <2>1. CASE tuner = None /\ NoTuner(0, Len(toBridge) + 1)
    <3>1. 0 \in 0..Len(toBridge)
      BY <1>1
    <3>2. NoTuner(0, Len(toBridge) + 1)'
      BY <2>1, <3>1, NoTunerBehind
    <3> QED
      BY <2>1, <3>2
  <2>2. ASSUME NEW i \in 1..Len(toBridge), NEW h \in Tuners, toBridge[i] = TunerLine(h, TRUE),
               HoldsAt(h, i), NoTuner(i, Len(toBridge) + 1)
        PROVE  i \in 1..Len(toBridge') /\ toBridge'[i] = TunerLine(h, TRUE) /\ HoldsAt(h, i)'
               /\ NoTuner(i, Len(toBridge) + 1)'
    <3>1. i \in 0..Len(toBridge) /\ i \in 1..(Len(toBridge) + 1) /\ i \in 1..Len(toBridge')
      BY <1>1
    <3>2. HoldsAt(h, i)'
      BY <2>2, <3>1, HoldsBefore
    <3>3. NoTuner(i, Len(toBridge) + 1)'
      BY <2>2, <3>1, NoTunerBehind
    <3> QED
      BY <1>1, <2>2, <3>1, <3>2, <3>3
  <2>3. \/ tuner = None /\ NoTuner(0, Len(toBridge) + 1)
        \/ \E i \in 1..Len(toBridge) : \E h \in Tuners :
              toBridge[i] = TunerLine(h, TRUE) /\ HoldsAt(h, i) /\ NoTuner(i, Len(toBridge) + 1)
    BY <1>4 DEF TunerInv
  <2> QED
    BY <2>1, <2>2, <2>3
<1> QED
  BY <1>2, <1>3, <1>4 DEF TunerInv

(* A line that names the tuner.                                            *)
LEMMA TunerNamed ==
    ASSUME TypeOK, NEW h \in Tuners, NEW gone \in BOOLEAN, tuner' = tuner,
           toBridge' = toBridge \o <<TunerLine(h, gone)>>
    PROVE  /\ ~gone => HoldsAt(h, Len(toBridge) + 1)'
           /\ gone /\ HoldsAt(h, Len(toBridge) + 1) =>
                (\E i \in 1..Len(toBridge) : \E t \in Tuners :
                   toBridge[i] = TunerLine(t, TRUE) /\ HoldsAt(t, i) /\ NoTuner(i, Len(toBridge) + 1))'
<1>1. PICK l \in LinesOfRadio : l = TunerLine(h, gone)
  BY LinesTyped
<1>2. <<l>> \in Seq(LinesOfRadio) /\ Len(<<l>>) = 1 /\ <<l>>[1] = l
  BY <1>1, OneLine
<1>3. PICK q \in Seq(LinesOfRadio) : q = <<l>>
  BY <1>2
<1>4. toBridge' = toBridge \o q
  BY <1>1, <1>3
<1>5. PICK n \in 1..(Len(toBridge) + 1) : n = Len(toBridge) + 1
  BY LenProperties DEF TypeOK
<1>6. n \in 1..Len(toBridge') /\ n = Len(toBridge') /\ toBridge'[n] = l
  <2>1. /\ Len(toBridge') = Len(toBridge) + 1 /\ Len(toBridge) \in Nat
        /\ \A j \in (Len(toBridge) + 1)..(Len(toBridge) + 1) : toBridge'[j] = q[j - Len(toBridge)]
    BY <1>2, <1>3, <1>4, Longer DEF TypeOK
  <2>2. toBridge'[n] = q[1]
    BY <1>5, <2>1
  <2> QED
    BY <1>2, <1>3, <1>5, <2>1, <2>2
<1>7. NoTuner(n, Len(toBridge) + 1)' /\ n \in 1..((Len(toBridge') + 1) - 1)
  BY <1>6 DEF NoTuner
<1>8. ASSUME ~gone PROVE HoldsAt(h, Len(toBridge) + 1)'
  <2>1. toBridge'[n] = TunerLine(h, FALSE)
    <3>1. gone = FALSE
      BY <1>8
    <3> QED
      BY <1>1, <1>6, <3>1, Zenon
  <2> QED
    BY <1>7, <2>1 DEF HoldsAt
<1>9. ASSUME gone, HoldsAt(h, Len(toBridge) + 1)
      PROVE  n \in 1..Len(toBridge') /\ toBridge'[n] = TunerLine(h, TRUE) /\ HoldsAt(h, n)'
             /\ NoTuner(n, Len(toBridge) + 1)'
  <2>1. HoldsAt(h, n)
    BY <1>5, <1>9
  <2>2. HoldsAt(h, n)'
    BY <1>4, <2>1, HoldsBefore
  <2>3. toBridge'[n] = TunerLine(h, TRUE)
    <3>1. gone = TRUE
      BY <1>9
    <3> QED
      BY <1>1, <1>6, <3>1, Zenon
  <2> QED
    BY <1>6, <1>7, <2>2, <2>3
<1> QED
  BY <1>8, <1>9

(* What is held stays the same when the head of the queue is read.         *)
LEMMA TunerRead ==
    ASSUME TypeOK, TunerInv, toBridge # <<>>, toBridge' = Tail(toBridge), UNCHANGED radio,
           NEW l, l = Head(toBridge), l.kind # "tuner" => tuner' = tuner,
           \A h \in Tuners : l = TunerLine(h, FALSE) => tuner' = h,
           \A h \in Tuners : l = TunerLine(h, TRUE) /\ tuner = h => tuner' = None
    PROVE  TunerInv'
<1>1. /\ Len(toBridge') = Len(toBridge) - 1 /\ Len(toBridge) \in Nat \ {0}
      /\ l = toBridge[1]
      /\ \A i \in 2..Len(toBridge) : toBridge[i] = toBridge'[i - 1]
      /\ \A i \in 1..Len(toBridge') : toBridge'[i] = toBridge[i + 1]
  BY Shorter DEF TypeOK
<1>2. ASSUME NEW i \in Nat, NEW k \in 1..Len(toBridge), NoTuner(i + 1, k + 1) PROVE NoTuner(i, k)'
  <2> SUFFICES ASSUME NEW j \in (i + 1)..(k - 1) PROVE toBridge'[j].kind # "tuner"
    BY DEF NoTuner
  <2>1. toBridge'[j] = toBridge[j + 1] /\ j + 1 \in ((i + 1) + 1)..((k + 1) - 1)
    BY <1>1
  <2> QED
    BY <1>2, <2>1 DEF NoTuner
<1>3. ASSUME NEW k \in 1..Len(toBridge), NoTuner(0, k + 1) PROVE tuner' = tuner /\ NoTuner(0, k)'
  <2>1. 1 \in (0 + 1)..((k + 1) - 1) /\ NoTuner(0 + 1, k + 1)
    BY <1>3 DEF NoTuner
  <2>2. l.kind # "tuner"
    BY <1>1, <1>3, <2>1 DEF NoTuner
  <2>3. NoTuner(0, k)'
    BY <1>2, <2>1
  <2> QED
    BY <2>2, <2>3
<1>4. ASSUME NEW h \in Tuners, NEW k \in 1..Len(toBridge), HoldsAt(h, k + 1) PROVE HoldsAt(h, k)'
  <2>1. CASE tuner = h /\ NoTuner(0, k + 1)
    BY <1>3, <2>1 DEF HoldsAt
  <2>2. ASSUME NEW i \in 1..k, toBridge[i] = TunerLine(h, FALSE), NoTuner(i, k + 1)
        PROVE  HoldsAt(h, k)'
    <3>1. CASE i = 1
      <4>1. tuner' = h
        BY <1>1, <2>2, <3>1
      <4>2. NoTuner(0, k)'
        BY <1>2, <2>2, <3>1
      <4> QED
        BY <4>1, <4>2 DEF HoldsAt
    <3>2. CASE i # 1
      <4>1. i - 1 \in 1..(k - 1) /\ i - 1 \in Nat /\ (i - 1) + 1 = i /\ toBridge'[i - 1] = toBridge[i]
        BY <1>1, <3>2
      <4>2. NoTuner(i - 1, k)'
        BY <1>2, <2>2, <4>1
      <4>3. toBridge'[i - 1] = TunerLine(h, FALSE)
        BY <2>2, <4>1, Zenon
      <4> QED
        BY <4>1, <4>2, <4>3 DEF HoldsAt
    <3> QED
      BY <3>1, <3>2
  <2>3. (k + 1) - 1 = k
    OBVIOUS
  <2> QED
    BY <1>4, <2>1, <2>2, <2>3 DEF HoldsAt
<1>5. Len(toBridge) \in 1..Len(toBridge) /\ Len(toBridge') + 1 = Len(toBridge)
  BY <1>1
<1>6. ASSUME radio.shown, radio.tuner # None PROVE HoldsAt(radio.tuner, Len(toBridge) + 1)'
  <2>1. PICK h \in Tuners : h = radio.tuner
    BY <1>6 DEF TypeOK, RadioOK
  <2>2. PICK k \in 1..Len(toBridge) : k = Len(toBridge)
    BY <1>5
  <2>3. HoldsAt(h, k + 1)
    BY <1>6, <2>1, <2>2 DEF TunerInv
  <2>4. HoldsAt(h, k)'
    BY <1>4, <2>3
  <2>5. Len(toBridge') + 1 = k
    BY <1>5, <2>2
  <2> QED
    BY <2>1, <2>4, <2>5
<1>7. ASSUME radio.shown, radio.tuner = None
      PROVE  (\/ tuner = None /\ NoTuner(0, Len(toBridge) + 1)
              \/ \E i \in 1..Len(toBridge) : \E h \in Tuners :
                   toBridge[i] = TunerLine(h, TRUE) /\ HoldsAt(h, i) /\ NoTuner(i, Len(toBridge) + 1))'
  <2>1. PICK k \in 1..Len(toBridge) : k = Len(toBridge)
    BY <1>5
  <2>2. k = Len(toBridge') + 1
    BY <1>5, <2>1
  <2>3. CASE tuner = None /\ NoTuner(0, k + 1)
    <3>1. tuner' = None /\ NoTuner(0, k)'
      BY <1>3, <2>3
    <3> QED
      BY <2>2, <3>1
  <2>4. ASSUME NEW i \in 1..Len(toBridge), NEW h \in Tuners, toBridge[i] = TunerLine(h, TRUE),
               HoldsAt(h, i), NoTuner(i, k + 1)
        PROVE  (\/ tuner = None /\ NoTuner(0, Len(toBridge) + 1)
                \/ \E j \in 1..Len(toBridge) : \E t \in Tuners :
                     toBridge[j] = TunerLine(t, TRUE) /\ HoldsAt(t, j) /\ NoTuner(j, Len(toBridge) + 1))'
    <3>1. CASE i = 1
      <4>1. tuner = h
        BY <2>4, <3>1 DEF HoldsAt
      <4>2. tuner' = None
        BY <1>1, <2>4, <3>1, <4>1
      <4>3. NoTuner(0, k)'
        BY <1>2, <2>4, <3>1
      <4> QED
        BY <2>2, <4>2, <4>3
    <3>2. CASE i # 1
      <4>0. PICK j \in Nat : j = i - 1
        BY <3>2
      <4>1. j \in 1..Len(toBridge') /\ j \in 1..Len(toBridge) /\ j + 1 = i /\ toBridge'[j] = toBridge[i]
        BY <1>1, <3>2, <4>0
      <4>2. NoTuner(j, k)'
        BY <1>2, <2>4, <4>1
      <4>3. toBridge'[j] = TunerLine(h, TRUE)
        BY <2>4, <4>1, Zenon
      <4>4. HoldsAt(h, j)'
        BY <1>4, <2>4, <4>1
      <4> QED
        BY <2>2, <4>1, <4>2, <4>3, <4>4
    <3> QED
      BY <3>1, <3>2
  <2>5. \/ tuner = None /\ NoTuner(0, k + 1)
        \/ \E i \in 1..Len(toBridge) : \E h \in Tuners :
              toBridge[i] = TunerLine(h, TRUE) /\ HoldsAt(h, i) /\ NoTuner(i, k + 1)
    BY <1>7, <2>1 DEF TunerInv
  <2> QED
    BY <2>3, <2>4, <2>5
<1> QED
  BY <1>6, <1>7 DEF TunerInv

LEMMA MoveLinesKinds ==
    ASSUME RadioOK, NEW s \in Slices
    PROVE  \A i \in 1..Len(MoveLines(s)) : MoveLines(s)[i].kind # "tuner"
<1>1. PICK l1, l2, l3 : /\ l1 = SliceLine(radio.tx, [radio EXCEPT !.tx = s])
                        /\ l2 = SliceLine(s, [radio EXCEPT !.tx = s])
                        /\ l3 = TransmitLine([radio EXCEPT !.tx = s])
  OBVIOUS
<1>2. l1.kind = "slice" /\ l2.kind = "slice" /\ l3.kind = "transmit"
  BY <1>1, SliceLineKept DEF TransmitLine
<1>3. MoveLines(s) = (IF "slice" \in radio.subs THEN <<l1, l2>> ELSE <<>>)
                     \o (IF "tx" \in radio.subs THEN <<l3>> ELSE <<>>)
  BY <1>1 DEF MoveLines
<1> DEFINE T == {l1, l2, l3}
           a == IF "slice" \in radio.subs THEN <<l1, l2>> ELSE <<>>
           b == IF "tx" \in radio.subs THEN <<l3>> ELSE <<>>
<1>4. a \in Seq(T)
  OBVIOUS
<1>5. b \in Seq(T)
  BY OneLine, EmptySeq
<1> HIDE DEF a, b
<1>6. MoveLines(s) \in Seq(T)
  BY <1>3, <1>4, <1>5, ConcatProperties DEF a, b
<1>7. \A i \in 1..Len(MoveLines(s)) : MoveLines(s)[i] \in T
  BY <1>6, ElementOfSeq
<1> QED
  BY <1>2, <1>7

LEMMA TunerObey == ObjectsInv /\ Obey => TunerInv'
<1> SUFFICES ASSUME ObjectsInv, Obey PROVE TunerInv'
  OBVIOUS
<1> USE DEF ObjectsInv, TypeOK
<1> DEFINE c == Head(toRadio)
<1>1. /\ tuner' = tuner
      /\ \/ MeterGranted(c) \/ LockGranted(c) \/ Denied(c)
         \/ Subscribed(c) \/ Heeded(c) \/ Unheeded(c)
  BY ObeyCases DEF held
<1>2. ASSUME NEW l \in LinesOfRadio, toBridge' = toBridge \o <<l>>, l.kind # "tuner",
             UNCHANGED <<radio.tuner, radio.shown>>,
             "amplifier" \in radio'.subs <=> "amplifier" \in radio.subs
      PROVE  TunerInv'
  <2>1. PICK q \in Seq(LinesOfRadio) : q = <<l>> /\ Len(q) = 1 /\ q[1] = l
    BY OneLine
  <2>2. \A i \in 1..Len(q) : q[i].kind # "tuner"
    BY <1>2, <2>1
  <2> QED
    BY <1>1, <1>2, <2>1, <2>2, TunerKept
<1>3. CASE MeterGranted(c) \/ LockGranted(c) \/ Denied(c)
  <2>1. PICK w \in Meters \cup {"interlock"}, ok \in BOOLEAN : toBridge' = toBridge \o <<Told(w, ok)>>
    BY <1>3 DEF MeterGranted, LockGranted, Denied
  <2>2. Told(w, ok) \in LinesOfRadio /\ Told(w, ok).kind # "tuner"
    BY LinesTyped DEF Told
  <2>3. UNCHANGED <<radio.tuner, radio.shown, radio.subs>>
    BY <1>3 DEF MeterGranted, LockGranted, Denied, RadioOK
  <2> QED
    BY <1>2, <2>1, <2>2, <2>3
<1>4. CASE Heeded(c)
  <2>1. PICK l \in LinesOfRadio : toBridge' = toBridge \o <<l>> /\ l.kind = "interlock"
    BY <1>4, LinesTyped DEF Heeded, LockLine, LockStates
  <2>2. UNCHANGED <<radio.tuner, radio.shown, radio.subs>>
    BY <1>4 DEF Heeded, RadioOK
  <2> QED
    BY <1>2, <2>1, <2>2
<1>5. CASE Unheeded(c)
  <2>1. /\ <<>> \in Seq(LinesOfRadio) /\ toBridge \o <<>> = toBridge
        /\ \A i \in 1..Len(<<>>) : FALSE
    BY ConcatEmptySeq, EmptySeq
  <2> QED
    BY <1>1, <1>5, <2>1, TunerKept DEF Unheeded
<1>6. CASE Subscribed(c)
  <2>1. /\ radio'.subs = radio.subs \cup {c.what} /\ radio'.tuner = radio.tuner
        /\ radio'.shown = (radio.shown \/ (c.what = "amplifier" /\ radio.tuner # None))
        /\ toBridge' = toBridge \o LinesFor(c.what) /\ c.what \in {"amplifier", "slice", "tx"}
    BY <1>6 DEF Subscribed, RadioOK
  <2>2. CASE c.what = "tx"
    <3>1. TransmitLine(radio) \in LinesOfRadio /\ TransmitLine(radio).kind # "tuner"
      BY LinesTyped DEF RadioOK, TransmitLine
    <3>2. toBridge' = toBridge \o <<TransmitLine(radio)>>
      BY <2>1, <2>2 DEF LinesFor
    <3>3. UNCHANGED <<radio.tuner, radio.shown>> /\ ("amplifier" \in radio'.subs <=> "amplifier" \in radio.subs)
      BY <2>1, <2>2 DEF RadioOK
    <3> QED
      BY <1>2, <3>1, <3>2, <3>3
  <2>3. CASE c.what = "slice"
    <3>1. PICK q \in Seq(LinesOfRadio) : q = SliceLines
      BY SliceLinesSent
    <3>2. \A i \in 1..Len(q) : q[i].kind # "tuner"
      BY <3>1, SliceLinesSent, SliceLineKept
    <3>3. toBridge' = toBridge \o q
      BY <2>1, <2>3, <3>1 DEF LinesFor
    <3>4. UNCHANGED <<radio.tuner, radio.shown>> /\ ("amplifier" \in radio'.subs <=> "amplifier" \in radio.subs)
      BY <2>1, <2>3 DEF RadioOK
    <3> QED
      BY <1>1, <3>2, <3>3, <3>4, TunerKept
  <2>4. CASE c.what = "amplifier" /\ radio.tuner # None
    <3>1. PICK h \in Tuners : h = radio.tuner
      BY <2>4 DEF RadioOK
    <3>2. toBridge' = toBridge \o <<TunerLine(h, FALSE)>>
      BY <2>1, <2>4, <3>1 DEF LinesFor
    <3>3. HoldsAt(h, Len(toBridge) + 1)'
      BY <1>1, <3>2, TunerNamed
    <3>4. HoldsAt(radio.tuner, Len(toBridge) + 1)'
      BY <2>1, <3>1, <3>3
    <3> QED
      BY <2>1, <2>4, <3>4 DEF TunerInv
  <2>5. CASE c.what = "amplifier" /\ radio.tuner = None
    <3>1. radio'.shown = radio.shown /\ "amplifier" \in radio'.subs /\ toBridge' = toBridge
      <4>1. LinesFor(c.what) = <<>>
        BY <2>5 DEF LinesFor
      <4> QED
        BY <2>1, <2>5, <4>1, ConcatEmptySeq DEF RadioOK
    <3>2. \A i, k : NoTuner(i, k)' = NoTuner(i, k)
      BY <3>1 DEF NoTuner
    <3>3. \A h, k : HoldsAt(h, k)' = HoldsAt(h, k)
      BY <1>1, <3>1, <3>2 DEF HoldsAt
    <3>4. radio'.tuner = None /\ (radio'.shown => radio.shown /\ "amplifier" \in radio'.subs)
      BY <2>1, <2>5, <3>1
    <3>5. (\/ tuner = None /\ NoTuner(0, Len(toBridge) + 1)
           \/ \E i \in 1..Len(toBridge) : \E h \in Tuners :
                toBridge[i] = TunerLine(h, TRUE) /\ HoldsAt(h, i) /\ NoTuner(i, Len(toBridge) + 1))'
          \/ ~radio.shown
      BY <1>1, <2>5, <3>1, <3>2, <3>3 DEF TunerInv
    <3> QED
      BY <3>4, <3>5 DEF TunerInv
  <2> QED
    BY <2>1, <2>2, <2>3, <2>4, <2>5
<1> QED
  BY <1>1, <1>3, <1>4, <1>5, <1>6

LEMMA TunerHappens == ObjectsInv /\ Happens => TunerInv'
<1> SUFFICES ASSUME ObjectsInv, Happens PROVE TunerInv'
  OBVIOUS
<1> USE DEF ObjectsInv, TypeOK
<1>1. tuner' = tuner
  BY HappensSays
<1>2. /\ <<>> \in Seq(LinesOfRadio) /\ toBridge \o <<>> = toBridge
      /\ \A i \in 1..Len(<<>>) : FALSE
  BY ConcatEmptySeq, EmptySeq
<1>3. CASE Key \/ Unkey \/ Tune \/ MoveTx \/ AmpChanges \/ ClientSets
  <2>1. UNCHANGED <<radio.tuner, radio.shown, radio.subs>>
    BY <1>3 DEF Key, Unkey, Tune, MoveTx, AmpChanges, ClientSets, RadioOK
  <2>2. \E r \in Seq(LinesOfRadio) : toBridge' = toBridge \o r /\ \A i \in 1..Len(r) : r[i].kind # "tuner"
    <3>1. ASSUME NEW l \in LinesOfRadio, toBridge' = toBridge \o <<l>>, l.kind # "tuner"
          PROVE  \E r \in Seq(LinesOfRadio) : toBridge' = toBridge \o r /\ \A i \in 1..Len(r) : r[i].kind # "tuner"
      <4>1. PICK q \in Seq(LinesOfRadio) : q = <<l>> /\ Len(q) = 1 /\ q[1] = l
        BY OneLine
      <4>2. \A i \in 1..Len(q) : q[i].kind # "tuner"
        BY <3>1, <4>1
      <4> QED
        BY <3>1, <4>1, <4>2
    <3>2. ASSUME toBridge' = toBridge
          PROVE  \E r \in Seq(LinesOfRadio) : toBridge' = toBridge \o r /\ \A i \in 1..Len(r) : r[i].kind # "tuner"
      BY <1>2, <3>2
    <3>3. CASE Key \/ Unkey
      <4>1. PICK l \in LinesOfRadio : toBridge' = toBridge \o <<l>> /\ l.kind = "interlock"
        BY <3>3, LinesTyped DEF Key, Unkey, Says, LockLine, LockStates
      <4> QED
        BY <3>1, <4>1
    <3>4. CASE Tune
      <4>1. PICK s \in Slices, d \in Dial :
              /\ radio' = [radio EXCEPT !.dial[s] = d]
              /\ Tells("slice", <<SliceLine(s, [radio EXCEPT !.dial[s] = d])>>)
        BY <3>4 DEF Tune
      <4>2. PICK l : l = SliceLine(s, [radio EXCEPT !.dial[s] = d])
        OBVIOUS
      <4>3. l.kind = "slice"
        BY <4>2, SliceLineKept
      <4>4. l \in LinesOfRadio
        <5> DEFINE r == [radio EXCEPT !.dial[s] = d]
        <5>1. r.dial[s] \in Dial
          BY DEF RadioOK
        <5>2. l = SliceLine(s, r)
          BY <4>2
        <5> HIDE DEF r
        <5> QED
          BY <5>1, <5>2, LinesTyped
      <4>5. toBridge' = toBridge \o <<l>> \/ toBridge' = toBridge
        BY <4>1, <4>2 DEF Tells, Says
      <4> QED
        BY <3>1, <3>2, <4>3, <4>4, <4>5
    <3>5. CASE MoveTx
      <4>1. PICK s \in Slices : toBridge' = toBridge \o MoveLines(s)
        BY <3>5 DEF MoveTx, Says, MoveLines
      <4>2. MoveLines(s) \in Seq(LinesOfRadio)
        BY MoveLinesTyped
      <4>3. \A i \in 1..Len(MoveLines(s)) : MoveLines(s)[i].kind # "tuner"
        BY MoveLinesKinds
      <4> QED
        BY <4>1, <4>2, <4>3
    <3>6. CASE AmpChanges \/ ClientSets
      BY <3>2, <3>6 DEF AmpChanges, ClientSets
    <3> QED
      BY <1>3, <3>3, <3>4, <3>5, <3>6
  <2> QED
    BY <1>1, <2>1, <2>2, TunerKept
<1>4. CASE TunerComes
  <2>1. PICK h \in Tuners :
          /\ radio' = [radio EXCEPT !.tuner = h, !.shown = @ \/ "amplifier" \in radio.subs]
          /\ Tells("amplifier", <<TunerLine(h, FALSE)>>)
    BY <1>4 DEF TunerComes
  <2>2. /\ radio'.tuner = h /\ radio'.subs = radio.subs /\ h # None
        /\ radio'.shown = (radio.shown \/ "amplifier" \in radio.subs)
    BY <2>1, ConstantsAssumption DEF RadioOK
  <2>3. CASE "amplifier" \in radio.subs
    <3>1. toBridge' = toBridge \o <<TunerLine(h, FALSE)>>
      BY <2>1, <2>3 DEF Tells, Says
    <3>2. HoldsAt(h, Len(toBridge) + 1)'
      BY <1>1, <3>1, TunerNamed
    <3>3. HoldsAt(radio.tuner, Len(toBridge) + 1)'
      BY <2>2, <3>2
    <3> QED
      BY <2>2, <2>3, <3>3 DEF TunerInv
  <2>4. CASE "amplifier" \notin radio.subs
    BY <2>2, <2>4 DEF TunerInv
  <2> QED
    BY <2>3, <2>4
<1>5. CASE TunerGoes
  <2>1. PICK h \in Tuners : h = radio.tuner
    BY <1>5 DEF TunerGoes, RadioOK
  <2>2. radio'.tuner = None /\ radio'.subs = radio.subs /\ radio'.shown = radio.shown
    BY <1>5 DEF TunerGoes, RadioOK
  <2>3. CASE "amplifier" \in radio.subs
    <3>1. toBridge' = toBridge \o <<TunerLine(h, TRUE)>>
      BY <1>5, <2>1, <2>3 DEF TunerGoes, Tells, Says
    <3>2. HoldsAt(h, Len(toBridge) + 1)
      BY <1>5, <2>1, <2>3 DEF TunerInv, TunerGoes
    <3>3. (\E i \in 1..Len(toBridge) : \E t \in Tuners :
             toBridge[i] = TunerLine(t, TRUE) /\ HoldsAt(t, i) /\ NoTuner(i, Len(toBridge) + 1))'
      BY <1>1, <3>1, <3>2, TunerNamed
    <3> QED
      BY <2>2, <2>3, <3>3 DEF TunerInv
  <2>4. CASE "amplifier" \notin radio.subs
    BY <2>2, <2>4 DEF TunerInv
  <2> QED
    BY <2>3, <2>4
<1> QED
  BY <1>3, <1>4, <1>5 DEF Happens

LEMMA TunerStep == ObjectsInv /\ [Next]_vars => TunerInv'
<1> SUFFICES ASSUME ObjectsInv, [Next]_vars PROVE TunerInv'
  OBVIOUS
<1> USE DEF ObjectsInv, TypeOK
<1>1. CASE Connect \/ Register \/ Decide \/ Answer \/ Publish \/ UNCHANGED vars
  <2>1. UNCHANGED <<radio, toBridge, tuner>>
    BY <1>1 DEF Connect, Register, Decide, Answer, Publish, held
  <2> QED
    BY <2>1 DEF TunerInv, HoldsAt, NoTuner
<1>2. CASE RefuseCreate \/ Disconnect
  <2>1. radio'.subs = {} /\ ~radio'.shown
    BY <1>2 DEF RefuseCreate, Disconnect, Ends, RadioOK
  <2> QED
    BY <2>1 DEF TunerInv
<1>3. CASE TakeLine
  <2>1. PICK l : l = Head(toBridge)
    OBVIOUS
  <2>2. toBridge # <<>> /\ toBridge' = Tail(toBridge) /\ UNCHANGED radio
    BY <1>3 DEF TakeLine, TakeAnswer, TakeSlice, TakeTransmit, TakeTuner, TakeInterlock, Take
  <2>3. CASE TakeAnswer \/ TakeSlice \/ TakeTransmit \/ TakeInterlock
    <3>1. l.kind # "tuner" /\ tuner' = tuner
      BY <2>1, <2>3 DEF TakeAnswer, TakeSlice, TakeTransmit, TakeInterlock, Take
    <3>2. \A h \in Tuners : l # TunerLine(h, TRUE) /\ l # TunerLine(h, FALSE)
      BY <3>1 DEF TunerLine
    <3> QED
      BY <2>1, <2>2, <3>1, <3>2, TunerRead
  <2>4. CASE TakeTuner
    <3>1. /\ l.kind = "tuner"
          /\ ~l.gone => tuner' = l.handle
          /\ l.gone /\ tuner = l.handle => tuner' = None
      BY <2>1, <2>4 DEF TakeTuner, Take
    <3>2. \A h \in Tuners : TunerLine(h, FALSE).handle = h /\ ~TunerLine(h, FALSE).gone
      BY DEF TunerLine
    <3>3. \A h \in Tuners : TunerLine(h, TRUE).handle = h /\ TunerLine(h, TRUE).gone
      BY DEF TunerLine
    <3>4. \A h \in Tuners : l = TunerLine(h, FALSE) => tuner' = h
      BY <3>1, <3>2
    <3>5. \A h \in Tuners : l = TunerLine(h, TRUE) /\ tuner = h => tuner' = None
      BY <3>1, <3>3
    <3> QED
      BY <2>1, <2>2, <3>1, <3>4, <3>5, TunerRead
  <2> QED
    BY <1>3, <2>3, <2>4 DEF TakeLine
<1>4. CASE Obey
  BY <1>4, TunerObey
<1>5. CASE Happens
  BY <1>5, TunerHappens
<1> QED
  BY <1>1, <1>2, <1>3, <1>4, <1>5 DEF Next, Session, Radio, Happens
-----------------------------------------------------------------------------
LEMMA ObjectsStep == ObjectsInv /\ [Next]_vars => ObjectsInv'
BY TypeStep, AwayStep, SubscribedStep, HeldStep, WaitingStep, ContextStep, TunerStep
   DEF ObjectsInv

THEOREM ObjectsInvariance == Spec => []ObjectsInv
BY ObjectsInit, ObjectsStep, PTL DEF Spec

(* Lines, commands and what is kept of them have the types the queues      *)
(* promise.                                                                *)
THEOREM ObjectsTypeCorrect == Spec => []TypeOK
<1>1. ObjectsInv => TypeOK
  BY DEF ObjectsInv
<1> QED
  BY ObjectsInvariance, <1>1, PTL

(* What is shown follows the radio, for every set of slices, tuners and    *)
(* meters and any number of sessions.                                      *)
THEOREM RadioFollowed == Spec => []ShownFollowsRadio
<1>1. ObjectsInv => ShownFollowsRadio
  <2> SUFFICES ASSUME ObjectsInv, Quiet
               PROVE  /\ Shows
                      /\ radio.shown => tuner = radio.tuner
                      /\ radio.lock # "none" => interlock.id = session
    BY DEF ShownFollowsRadio, Shows
  <2> USE DEF ObjectsInv, TypeOK
  <2>1. /\ Len(toBridge) = 0 /\ Len(toRadio) = 0 /\ registered
        /\ \A x : ~Contains(toBridge, x) /\ ~Contains(toRadio, x)
    BY EmptySeq DEF Quiet, Contains
  <2>2. Shows
    <3>1. "slice" \in radio.subs
      BY <2>1 DEF SubscribedInv
    <3>2. Followed
      BY <3>1 DEF ContextInv
    <3> QED
      BY <2>1, <3>2 DEF Followed
  <2>3. ASSUME radio.shown PROVE tuner = radio.tuner
    BY <2>1, <2>3 DEF TunerInv, HoldsAt
  <2>4. radio.lock # "none" => interlock.id = session
    BY <2>1 DEF HeldInv
  <2> QED
    BY <2>2, <2>3, <2>4
<1> QED
  BY ObjectsInvariance, <1>1, PTL

(* No request of the radio stays unanswered, whatever sessions, rejections *)
(* and foreign interlocks there were.                                      *)
THEOREM RequestsAnswered == Spec => []NoRequestWaits
<1>1. ObjectsInv => NoRequestWaits
  <2> SUFFICES ASSUME ObjectsInv, Quiet, config.runtime, radio.lock = "asked" PROVE FALSE
    BY DEF NoRequestWaits
  <2>1. Len(toBridge) = 0 /\ Len(toRadio) = 0 /\ pc = "session"
    BY EmptySeq DEF Quiet
  <2> QED
    BY <2>1 DEF ObjectsInv, WaitingInv, Asking, Answering, Answered
<1> QED
  BY ObjectsInvariance, <1>1, PTL

(* No step but the reading of the radio's own permission shows             *)
(* transmission as allowed.                                                *)
THEOREM PermissionTold == Spec => TxShownWasTold
<1>1. ASSUME ObjectsInv, [Next]_vars,
             config.interlock \/ config.disable, interlock'.tx = TRUE, pc' # "away"
      PROVE  \/ interlock.tx = TRUE /\ session' = session
             \/ TakeInterlock /\ Head(toBridge).tx = "1"
  <2> USE DEF ObjectsInv, TypeOK
  <2>1. CASE Connect
    <3>1. Started.tx = FALSE
      BY <1>1 DEF Started, BridgeOK
    <3> QED
      BY <1>1, <2>1, <3>1 DEF Connect
  <2>2. CASE RefuseCreate \/ Disconnect
    BY <1>1, <2>2 DEF RefuseCreate, Disconnect, Ends
  <2>3. CASE TakeAnswer
    <3>1. Created.tx = FALSE
      BY DEF Created, BridgeOK
    <3>2. session' = session /\ interlock' \in {Created, interlock}
      BY <2>3 DEF TakeAnswer, Take
    <3> QED
      BY <1>1, <3>1, <3>2
  <2>4. CASE TakeInterlock
    <3>1. Observed(Head(toBridge)).tx = (Head(toBridge).tx = "1")
      BY DEF Observed, BridgeOK
    <3>2. interlock' = Observed(Head(toBridge))
      BY <2>4 DEF TakeInterlock
    <3> QED
      BY <1>1, <2>4, <3>1, <3>2
  <2>5. CASE Happens
    BY <1>1, <2>5, HappensSays
  <2>6. CASE Register \/ Decide \/ Answer \/ Publish \/ Obey \/ UNCHANGED vars
    BY <1>1, <2>6 DEF Register, Decide, Answer, Publish, Obey, held
  <2>7. CASE TakeSlice \/ TakeTransmit \/ TakeTuner
    BY <1>1, <2>7 DEF TakeSlice, TakeTransmit, TakeTuner, Take
  <2> QED
    BY <1>1, <2>1, <2>2, <2>3, <2>4, <2>5, <2>6, <2>7
       DEF Next, Session, Radio, TakeLine, Happens
<1> QED
  BY ObjectsInvariance, <1>1, PTL DEF Spec, TxShownWasTold

(* The values never go to a meter of an earlier session once the answer    *)
(* that names the new one is read.                                         *)
THEOREM MetersOfSession == Spec => ValuesGoToOwnMeters
<1>1. ASSUME ObjectsInv, [Next]_vars, published' # published, NEW m \in radio.meters
      PROVE  Told(m, TRUE) \in ToSet(toBridge) \/ published'[m] = session
  <2>1. published' = meters
    <3>1. Happens => published' = published
      BY <1>1, HappensSays DEF ObjectsInv
    <3>2. ~Publish => published' = published
      BY <1>1, <3>1
         DEF Next, Session, Radio, TakeLine, Happens, Connect, Register, TakeAnswer, TakeSlice,
             TakeTransmit, TakeTuner, TakeInterlock, Take, Decide, Answer, RefuseCreate,
             Disconnect, Ends, Obey
    <3> QED
      BY <1>1, <3>2 DEF Publish
  <2>2. meters[m] = session \/ Contains(toBridge, Told(m, TRUE))
    BY <1>1 DEF ObjectsInv, HeldInv
  <2>3. Contains(toBridge, Told(m, TRUE)) => Told(m, TRUE) \in ToSet(toBridge)
    <3>1. DOMAIN toBridge = 1..Len(toBridge)
      BY <1>1, LenProperties DEF ObjectsInv, TypeOK
    <3> QED
      BY <3>1 DEF Contains, ToSet
  <2> QED
    BY <2>1, <2>2, <2>3
<1>2. ObjectsInv /\ [Next]_vars =>
        [published' # published =>
           \A m \in radio.meters : Told(m, TRUE) \in ToSet(toBridge) \/ published'[m] = session]_vars
  BY <1>1
<1> QED
  BY ObjectsInvariance, <1>2, PTL DEF Spec, ValuesGoToOwnMeters
-----------------------------------------------------------------------------
(* The radio transmits by the bridge's interlock only if the settings      *)
(* permit RF, and asks it only if they ask for one: interlock_runtime      *)
(* decides long before the radio reads its answer, and answers and creates *)
(* of all kinds are on their way when the connection is lost.              *)
LockWanted == config.interlock /\ ~config.disable
TransmitsIfPermitted ==
    /\ radio.lock # "none" => LockWanted
    /\ radio.lock = "transmits" => config.rf /\ config.runtime

Permitted(c) ==
    /\ c.kind = "interlock" => LockWanted
    /\ c.kind = "ready" => config.rf /\ config.runtime
PermittedInv ==
    /\ TransmitsIfPermitted
    /\ pc \in {"asked", "decided"} => config.runtime
    /\ pc = "decided" => Permitted(answer)
    /\ \A i \in 1..Len(toRadio) : Permitted(toRadio[i])

LEMMA CommandsPermitted ==
    \A i \in 1..Len(Commands(config)) : Permitted(Commands(config)[i])
<1> DEFINE good == {c \in CommandsOfBridge : Permitted(c)}
           subs == <<[kind |-> "sub", what |-> "amplifier"], [kind |-> "sub", what |-> "slice"],
                     [kind |-> "sub", what |-> "tx"]>>
           lock == IF LockWanted THEN <<[kind |-> "interlock"]>> ELSE <<>>
           D == {[kind |-> "meter", meter |-> m] : m \in Meters}
           own == IF config.meters THEN SetToSeq(D) ELSE <<>>
<1>1. subs \in Seq(good)
  <2>1. \A w \in {"amplifier", "slice", "tx"} : [kind |-> "sub", what |-> w] \in good
    BY DEF CommandsOfBridge, Permitted
  <2> HIDE DEF good
  <2> QED
    BY <2>1
<1>2. lock \in Seq(good)
  <2>1. LockWanted => [kind |-> "interlock"] \in good
    BY DEF CommandsOfBridge, Permitted
  <2> HIDE DEF good
  <2> QED
    BY <2>1, OneLine, EmptySeq
<1>3. own \in Seq(good)
  <2> DEFINE f == [m \in Meters |-> [kind |-> "meter", meter |-> m]]
  <2>1. f \in Surjection(Meters, D)
    BY DEF Surjection
  <2>2. IsFiniteSet(D)
    BY <2>1, FS_Surjection, ConstantsAssumption
  <2>3. SetToSeq(D) \in Seq(D)
    BY <2>2, SetInSequence
  <2>4. D \subseteq good
    BY DEF CommandsOfBridge, Permitted
  <2> HIDE DEF good, D
  <2>5. SetToSeq(D) \in Seq(good)
    BY <2>3, <2>4, SeqMonotonic
  <2> QED
    BY <2>5, EmptySeq
<1>4. Commands(config) = own \o lock \o subs
  BY DEF Commands, LockWanted
<1>5. \A c \in good : Permitted(c)
  OBVIOUS
<1> HIDE DEF good, subs, lock, own
<1>6. own \o lock \in Seq(good)
  BY <1>2, <1>3, ConcatProperties
<1>7. Commands(config) \in Seq(good)
  BY <1>1, <1>4, <1>6, ConcatProperties
<1>8. \A i \in 1..Len(Commands(config)) : Commands(config)[i] \in good
  BY <1>7, ElementOfSeq
<1> QED
  BY <1>5, <1>8

LEMMA PermittedStep == ObjectsInv /\ PermittedInv /\ [Next]_vars => PermittedInv'
<1> SUFFICES ASSUME ObjectsInv, PermittedInv, [Next]_vars PROVE PermittedInv'
  OBVIOUS
<1> USE DEF ObjectsInv, TypeOK
<1>0. config' = config /\ \A c : Permitted(c) => Permitted(c)'
  <2>1. config' = config
    <3>1. Happens => config' = config
      BY HappensSays
    <3> QED
      BY <3>1
         DEF Next, Session, Radio, TakeLine, Happens, Connect, Register, TakeAnswer, TakeSlice,
             TakeTransmit, TakeTuner, TakeInterlock, Take, Decide, Answer, Publish, RefuseCreate,
             Disconnect, Ends, Obey
  <2> QED
    BY <2>1 DEF Permitted, LockWanted
<1>1. ASSUME UNCHANGED <<toRadio, radio.lock>>, pc' \in {"asked", "decided"} => pc' = pc /\ answer' = answer
      PROVE  PermittedInv'
  BY <1>0, <1>1 DEF PermittedInv, TransmitsIfPermitted, LockWanted
<1>2. CASE Connect \/ Publish \/ UNCHANGED vars
  BY <1>1, <1>2 DEF Connect, Publish
<1>3. CASE Register
  <2>1. /\ toRadio' = toRadio \o Commands(config) /\ UNCHANGED <<radio, pc, answer>>
        /\ Commands(config) \in Seq(CommandsOfBridge)
    BY <1>3, CommandsSent DEF Register
  <2>2. ASSUME NEW i \in 1..Len(toRadio') PROVE Permitted(toRadio'[i])
    <3>1. /\ Len(toRadio') = Len(toRadio) + Len(Commands(config))
          /\ Len(toRadio) \in Nat /\ Len(Commands(config)) \in Nat
          /\ \A j \in 1..Len(toRadio) : toRadio'[j] = toRadio[j]
          /\ \A j \in (Len(toRadio) + 1)..(Len(toRadio) + Len(Commands(config))) :
                toRadio'[j] = Commands(config)[j - Len(toRadio)]
      BY <2>1, Longer
    <3>2. CASE i <= Len(toRadio)
      BY <3>1, <3>2 DEF PermittedInv
    <3>3. CASE i > Len(toRadio)
      <4>1. /\ i - Len(toRadio) \in 1..Len(Commands(config))
            /\ toRadio'[i] = Commands(config)[i - Len(toRadio)]
        BY <3>1, <3>3
      <4> QED
        BY <4>1, CommandsPermitted
    <3> QED
      BY <3>1, <3>2, <3>3
  <2> QED
    BY <1>0, <2>1, <2>2 DEF PermittedInv, TransmitsIfPermitted, LockWanted
<1>4. CASE TakeLine
  <2>1. UNCHANGED <<toRadio, radio>>
    BY <1>4 DEF TakeLine, TakeAnswer, TakeSlice, TakeTransmit, TakeTuner, TakeInterlock, Take
  <2>2. CASE TakeInterlock
    <3>1. pc' \in {"asked", "session"} /\ (pc' = "asked" => config.runtime)
      BY <2>2 DEF TakeInterlock
    <3> QED
      BY <1>0, <2>1, <3>1 DEF PermittedInv, TransmitsIfPermitted, LockWanted
  <2>3. CASE ~TakeInterlock
    <3>1. pc' = pc /\ answer' = answer
      BY <1>4, <2>3 DEF TakeLine, TakeAnswer, TakeSlice, TakeTransmit, TakeTuner
    <3> QED
      BY <1>1, <2>1, <3>1
  <2> QED
    BY <2>2, <2>3
<1>5. CASE Decide
  <2>1. /\ pc = "asked" /\ pc' = "decided" /\ UNCHANGED <<toRadio, radio>>
        /\ answer' = [kind |-> IF AllowsTx THEN "ready" ELSE "not_ready", id |-> interlock.id]
    BY <1>5 DEF Decide
  <2>2. AllowsTx => config.rf
    BY DEF AllowsTx
  <2>3. Permitted(answer')
    BY <2>1, <2>2 DEF Permitted, PermittedInv
  <2> QED
    BY <1>0, <2>1, <2>3 DEF PermittedInv, TransmitsIfPermitted, LockWanted, Permitted
<1>6. CASE Answer
  <2>1. /\ toRadio' = Append(toRadio, answer) /\ UNCHANGED radio /\ pc' = "session"
        /\ Permitted(answer)
    BY <1>6 DEF Answer, PermittedInv
  <2>2. ASSUME NEW i \in 1..Len(toRadio') PROVE Permitted(toRadio'[i])
    BY <2>1, AppendProperties DEF PermittedInv
  <2> QED
    BY <1>0, <2>1, <2>2 DEF PermittedInv, TransmitsIfPermitted, LockWanted
<1>7. CASE RefuseCreate \/ Disconnect
  <2>1. radio'.lock = "none" /\ Len(toRadio') = 0 /\ pc' = "away"
    BY <1>7 DEF RefuseCreate, Disconnect, Ends, RadioOK
  <2> QED
    BY <2>1 DEF PermittedInv, TransmitsIfPermitted
<1>8. CASE Obey
  <2>1. PICK c : c = Head(toRadio)
    OBVIOUS
  <2>2. /\ toRadio # <<>> /\ toRadio' = Tail(toRadio) /\ UNCHANGED <<pc, answer>>
        /\ \/ MeterGranted(c) \/ LockGranted(c) \/ Denied(c)
           \/ Subscribed(c) \/ Heeded(c) \/ Unheeded(c)
    BY <1>8, <2>1, ObeyCases
  <2>3. Permitted(c) /\ \A i \in 1..Len(toRadio') : Permitted(toRadio'[i])
    <3>1. /\ Len(toRadio') = Len(toRadio) - 1 /\ Len(toRadio) \in Nat \ {0} /\ c = toRadio[1]
          /\ \A i \in 1..Len(toRadio') : toRadio'[i] = toRadio[i + 1]
      BY <2>1, <2>2, Shorter
    <3> QED
      BY <3>1 DEF PermittedInv
  <2>4. TransmitsIfPermitted'
    <3>1. CASE MeterGranted(c) \/ Denied(c) \/ Subscribed(c) \/ Unheeded(c)
      <4>1. radio'.lock = radio.lock
        BY <3>1 DEF MeterGranted, Denied, Subscribed, Unheeded, RadioOK
      <4> QED
        BY <1>0, <4>1 DEF PermittedInv, TransmitsIfPermitted, LockWanted
    <3>2. CASE LockGranted(c)
      <4>1. radio'.lock = "idle" /\ c.kind = "interlock"
        BY <3>2 DEF LockGranted, RadioOK
      <4> QED
        BY <1>0, <2>3, <4>1 DEF TransmitsIfPermitted, LockWanted, Permitted
    <3>3. CASE Heeded(c)
      <4>1. radio.lock = "asked" /\ radio'.lock \in {"transmits", "idle"}
            /\ (radio'.lock = "transmits" => c.kind = "ready")
        BY <3>3 DEF Heeded, RadioOK
      <4> QED
        BY <1>0, <2>3, <4>1 DEF PermittedInv, TransmitsIfPermitted, LockWanted, Permitted
    <3> QED
      BY <2>2, <3>1, <3>2, <3>3
  <2> QED
    BY <1>0, <2>2, <2>3, <2>4 DEF PermittedInv
<1>9. CASE Happens
  <2>1. UNCHANGED <<toRadio, pc, answer>>
    BY <1>9, HappensSays
  <2>2. radio'.lock # "none" => radio.lock # "none"
    BY <1>9 DEF Happens, Key, Unkey, Tune, MoveTx, TunerComes, TunerGoes, AmpChanges, ClientSets, RadioOK
  <2>3. radio'.lock = "transmits" => radio.lock = "transmits"
    BY <1>9 DEF Happens, Key, Unkey, Tune, MoveTx, TunerComes, TunerGoes, AmpChanges, ClientSets, RadioOK
  <2> QED
    BY <1>0, <2>1, <2>2, <2>3 DEF PermittedInv, TransmitsIfPermitted, LockWanted
<1> QED
  BY <1>2, <1>3, <1>4, <1>5, <1>6, <1>7, <1>8, <1>9 DEF Next, Session, Radio, Happens

(* Without the permission nothing that the bridge says makes the radio     *)
(* transmit.                                                               *)
THEOREM TransmitPermitted == Spec => []TransmitsIfPermitted
<1>1. Init => PermittedInv
  BY DEF Init, PermittedInv, TransmitsIfPermitted
<1>2. PermittedInv => TransmitsIfPermitted
  BY DEF PermittedInv
<1> QED
  BY ObjectsInvariance, PermittedStep, <1>1, <1>2, PTL DEF Spec
-----------------------------------------------------------------------------
(* FlexTimers.                                                             *)
USE DEF First, Idle, MaxDelay, Off, Never

(* While a session is up its timers are armed, the burst's as long as it    *)
(* lasts, and the request timer fires before the read times out.            *)
ReadInv ==
    Up => /\ request >= 0 /\ periodic >= 0
          /\ readLeft >= ReadTimeout - MaxDelay + request
          /\ ~bursting => startup = Off

(* The next `sub amplifier all` is never further than the gap allows.       *)
PresenceInv ==
    Registered =>
        /\ strategy = "no_burst" => ~bursting
        /\ bursting => /\ startup >= 0
                       /\ count <= MaxCount(strategy)
                       /\ IF SendsSub(strategy)
                          THEN quiet + startup <= Interval(strategy)
                          ELSE quiet + startup <= First + count * Interval(strategy)
        /\ ~bursting => quiet + periodic <= Gap(strategy)

(* A waiting transition still has its request, unless that was lost; the    *)
(* timer that will announce it is near.                                     *)
AnnounceInv ==
    /\ lost => waiting # Never
    /\ waiting # Never /\ ~lost => requested
    /\ Registered /\ bursting =>
         /\ startup >= 0 /\ request <= startup + Idle
         /\ waiting # Never => waiting + startup <= 20
         /\ lost => waiting + startup <= First
    /\ Registered /\ ~bursting /\ waiting # Never =>
         IF lost THEN waiting + periodic <= First + Reannounce
         ELSE waiting + request <= 20 + Idle
    /\ phase = "open" => request <= First

TimersInv == TimersTypeOK /\ ReadInv /\ PresenceInv /\ AnnounceInv
-----------------------------------------------------------------------------
(* The strategies one by one: all their numbers are literals.               *)
LEMMA StrategyNumbers ==
    ASSUME NEW s \in Strategies
    PROVE  /\ MaxCount(s) \in {0, 10, 20} /\ Interval(s) \in {5, 20}
           /\ s = "no_burst" => ~SendsSub(s) /\ MaxCount(s) = 0
           /\ s # "no_burst" /\ ~SendsSub(s) =>
                /\ MaxCount(s) = 10 /\ Interval(s) = 20
                /\ Gap(s) = 205 + Reannounce
           /\ SendsSub(s) => Gap(s) = Interval(s) + Reannounce
           /\ s = "no_burst" => Gap(s) = Reannounce
           /\ Gap(s) \in Nat /\ Gap(s) >= Reannounce
BY TimersAssumption DEF MaxCount, Interval, SendsSub, Gap, AllStrategies

LEMMA DelayBound ==
    ASSUME NEW n \in 0..6
    PROVE  RequestedDelay(n) \in 2..10
BY DEF RequestedDelay

LEMMA LeftRange == TimersTypeOK => Left \in 0..6 /\ (requested => Left > 0)
BY DEF TimersTypeOK, CountsOK, NamesOK, Left, Reasons

LEMMA TimersInvInit == TimersInit => TimersInv
<1> SUFFICES ASSUME TimersInit PROVE TimersInv
  OBVIOUS
<1> USE TimersAssumption DEF TimersInit
<1>1. TimersOK
  BY DEF TimersOK
<1>2. CountsOK
  BY DEF CountsOK
<1>3. NamesOK /\ FlagsOK
  BY DEF NamesOK, FlagsOK
<1>4. ReadInv /\ PresenceInv /\ AnnounceInv
  BY DEF ReadInv, PresenceInv, AnnounceInv, Up, Registered
<1> QED
  BY <1>1, <1>2, <1>3, <1>4 DEF TimersInv, TimersTypeOK
-----------------------------------------------------------------------------
USE DEF timersVars, timers, bursts, shared, log, bounds, Up, Registered, Announced, EndBurst, Later

LEMMA TimersStep == TimersInv /\ [TimersNext]_timersVars => TimersOK'
<1> SUFFICES ASSUME TimersInv, [TimersNext]_timersVars PROVE TimersOK'
  OBVIOUS
<1> USE TimersAssumption DEF TimersInv, TimersTypeOK, TimersOK, NamesOK, ReadInv
<1>1. CASE OpenSession
  BY <1>1 DEF OpenSession
<1>2. CASE Registration
  BY <1>2 DEF Registration
<1>3. CASE StartupDue
  <2>1. MaxCount(strategy) \in {0, 10, 20} /\ Interval(strategy) \in {5, 20}
    BY StrategyNumbers
  <2> QED
    BY <1>3, <2>1 DEF StartupDue, StartupSends
<1>4. CASE PeriodicDue
  BY <1>4 DEF PeriodicDue
<1>5. CASE RequestDue
  <2>1. Left \in 0..6 /\ (Left > 0 => RequestedDelay(Left - 1) \in 2..10)
    BY LeftRange, DelayBound
  <2> QED
    BY <1>5, <2>1 DEF RequestDue
<1>6. ASSUME NEW why \in Reasons, Request(why) PROVE TimersOK'
  BY <1>6 DEF Request
<1>7. CASE PgxlConnects
  BY <1>7 DEF PgxlConnects
<1>8. ASSUME NEW cause \in {"closed", "timeout"}, SessionEnds(cause) PROVE TimersOK'
  BY <1>8 DEF SessionEnds
<1>9. CASE RequestSendFails
  BY <1>9 DEF RequestSendFails
<1>10. CASE Tick
  BY <1>10 DEF Tick, Due, Less
<1>11. CASE UNCHANGED timersVars
  BY <1>11
<1> QED
  BY <1>1, <1>2, <1>3, <1>4, <1>5, <1>6, <1>7, <1>8, <1>9, <1>10, <1>11 DEF TimersNext

LEMMA CountsStep == TimersInv /\ [TimersNext]_timersVars => CountsOK'
<1> SUFFICES ASSUME TimersInv, [TimersNext]_timersVars PROVE CountsOK'
  OBVIOUS
<1> USE TimersAssumption DEF TimersInv, TimersTypeOK, CountsOK, NamesOK
<1>1. CASE OpenSession
  BY <1>1 DEF OpenSession
<1>2. CASE Registration
  BY <1>2 DEF Registration
<1>3. CASE StartupDue
  <2>1. MaxCount(strategy) \in {0, 10, 20}
    BY StrategyNumbers
  <2> QED
    BY <1>3, <2>1 DEF StartupDue, StartupSends
<1>4. CASE PeriodicDue
  BY <1>4 DEF PeriodicDue
<1>5. CASE RequestDue
  <2>1. Left \in 0..6
    BY LeftRange
  <2> QED
    BY <1>5, <2>1 DEF RequestDue
<1>6. ASSUME NEW why \in Reasons, Request(why) PROVE CountsOK'
  BY <1>6 DEF Request
<1>7. CASE PgxlConnects
  BY <1>7 DEF PgxlConnects
<1>8. ASSUME NEW cause \in {"closed", "timeout"}, SessionEnds(cause) PROVE CountsOK'
  BY <1>8 DEF SessionEnds
<1>9. CASE RequestSendFails
  BY <1>9 DEF RequestSendFails
<1>10. CASE Tick
  BY <1>10 DEF Tick, Due, Less
<1>11. CASE UNCHANGED timersVars
  BY <1>11
<1> QED
  BY <1>1, <1>2, <1>3, <1>4, <1>5, <1>6, <1>7, <1>8, <1>9, <1>10, <1>11 DEF TimersNext

LEMMA NamesStep == TimersInv /\ [TimersNext]_timersVars => NamesOK'
<1> SUFFICES ASSUME TimersInv, [TimersNext]_timersVars PROVE NamesOK'
  OBVIOUS
<1> USE TimersAssumption DEF TimersInv, TimersTypeOK, NamesOK
<1>1. CASE OpenSession
  BY <1>1 DEF OpenSession
<1>2. CASE Registration
  BY <1>2 DEF Registration
<1>3. CASE StartupDue
  BY <1>3 DEF StartupDue, StartupSends
<1>4. CASE PeriodicDue
  BY <1>4 DEF PeriodicDue
<1>5. CASE RequestDue
  BY <1>5 DEF RequestDue
<1>6. ASSUME NEW why \in Reasons, Request(why) PROVE NamesOK'
  BY <1>6 DEF Request
<1>7. CASE PgxlConnects
  BY <1>7 DEF PgxlConnects
<1>8. ASSUME NEW cause \in {"closed", "timeout"}, SessionEnds(cause) PROVE NamesOK'
  BY <1>8 DEF SessionEnds
<1>9. CASE RequestSendFails
  BY <1>9 DEF RequestSendFails
<1>10. CASE Tick
  BY <1>10 DEF Tick, Due, Less
<1>11. CASE UNCHANGED timersVars
  BY <1>11
<1> QED
  BY <1>1, <1>2, <1>3, <1>4, <1>5, <1>6, <1>7, <1>8, <1>9, <1>10, <1>11 DEF TimersNext

LEMMA FlagsStep == TimersInv /\ [TimersNext]_timersVars => FlagsOK'
<1> SUFFICES ASSUME TimersInv, [TimersNext]_timersVars PROVE FlagsOK'
  OBVIOUS
<1> USE TimersAssumption DEF TimersInv, TimersTypeOK, FlagsOK
<1>1. CASE OpenSession
  BY <1>1 DEF OpenSession
<1>2. CASE Registration
  BY <1>2 DEF Registration
<1>3. CASE StartupDue
  BY <1>3 DEF StartupDue, StartupSends
<1>4. CASE PeriodicDue
  BY <1>4 DEF PeriodicDue
<1>5. CASE RequestDue
  BY <1>5 DEF RequestDue
<1>6. ASSUME NEW why \in Reasons, Request(why) PROVE FlagsOK'
  BY <1>6 DEF Request
<1>7. CASE PgxlConnects
  BY <1>7 DEF PgxlConnects
<1>8. ASSUME NEW cause \in {"closed", "timeout"}, SessionEnds(cause) PROVE FlagsOK'
  BY <1>8 DEF SessionEnds
<1>9. CASE RequestSendFails
  BY <1>9 DEF RequestSendFails
<1>10. CASE Tick
  BY <1>10 DEF Tick, Due, Less
<1>11. CASE UNCHANGED timersVars
  BY <1>11
<1> QED
  BY <1>1, <1>2, <1>3, <1>4, <1>5, <1>6, <1>7, <1>8, <1>9, <1>10, <1>11 DEF TimersNext

LEMMA ReadStep == TimersInv /\ [TimersNext]_timersVars => ReadInv'
<1> SUFFICES ASSUME TimersInv, [TimersNext]_timersVars PROVE ReadInv'
  OBVIOUS
<1> USE TimersAssumption DEF TimersInv, TimersTypeOK, TimersOK, ReadInv
<1>1. CASE OpenSession
  BY <1>1 DEF OpenSession
<1>2. CASE Registration
  BY <1>2 DEF Registration
<1>3. CASE StartupDue
  BY <1>3 DEF StartupDue
<1>4. CASE PeriodicDue
  BY <1>4 DEF PeriodicDue
<1>5. CASE RequestDue
  <2>1. Left \in 0..6 /\ (Left > 0 => RequestedDelay(Left - 1) \in 2..10)
    BY LeftRange, DelayBound
  <2> QED
    BY <1>5, <2>1 DEF RequestDue
<1>6. ASSUME NEW why \in Reasons, Request(why) PROVE ReadInv'
  BY <1>6 DEF Request
<1>7. CASE PgxlConnects
  BY <1>7 DEF PgxlConnects
<1>8. ASSUME NEW cause \in {"closed", "timeout"}, SessionEnds(cause) PROVE ReadInv'
  BY <1>8 DEF SessionEnds
<1>9. CASE RequestSendFails
  BY <1>9 DEF RequestSendFails
<1>10. CASE Tick
  BY <1>10 DEF Tick, Due, Less
<1>11. CASE UNCHANGED timersVars
  BY <1>11
<1> QED
  BY <1>1, <1>2, <1>3, <1>4, <1>5, <1>6, <1>7, <1>8, <1>9, <1>10, <1>11 DEF TimersNext

LEMMA PresenceStep == TimersInv /\ [TimersNext]_timersVars => PresenceInv'
<1> SUFFICES ASSUME TimersInv, [TimersNext]_timersVars PROVE PresenceInv'
  OBVIOUS
<1> DEFINE s == strategy
<1>0. /\ s \in Strategies /\ s' = s
      /\ MaxCount(s)' = MaxCount(s) /\ Interval(s)' = Interval(s)
      /\ SendsSub(s)' = SendsSub(s) /\ Gap(s)' = Gap(s)
  BY DEF TimersInv, TimersTypeOK, CountsOK, NamesOK, FlagsOK, TimersNext, OpenSession, Registration, StartupDue, PeriodicDue, RequestDue,
     Request, PgxlConnects, SessionEnds, RequestSendFails, Tick,
     MaxCount, Interval, SendsSub, Gap
<1>a. /\ MaxCount(s) \in {0, 10, 20} /\ Interval(s) \in {5, 20}
      /\ s # "no_burst" /\ ~SendsSub(s) =>
           MaxCount(s) = 10 /\ Interval(s) = 20 /\ Gap(s) = 205 + Reannounce
      /\ SendsSub(s) => Gap(s) = Interval(s) + Reannounce
      /\ s = "no_burst" => ~SendsSub(s) /\ MaxCount(s) = 0
      /\ Gap(s) \in Nat /\ Gap(s) >= Reannounce
  BY <1>0, StrategyNumbers
<1> USE TimersAssumption, <1>0, <1>a DEF TimersInv, TimersTypeOK, TimersOK, CountsOK, NamesOK, FlagsOK, ReadInv, PresenceInv
<1>1. CASE OpenSession
  BY <1>1 DEF OpenSession
<1>2. CASE Registration
  <2>1. CASE strategy = "no_burst"
    BY <1>2, <2>1 DEF Registration
  <2>2. CASE strategy # "no_burst"
    BY <1>2, <2>2 DEF Registration
  <2> QED
    BY <2>1, <2>2
<1>3. CASE StartupDue
  <2>1. CASE Registered /\ StartupSends
    BY <1>3, <2>1 DEF StartupDue, StartupSends
  <2>2. CASE Registered /\ ~StartupSends
    <3>1. quiet <= Gap(s) - Reannounce \/ ~bursting
      BY <1>3, <2>2 DEF StartupDue
    <3> QED
      BY <1>3, <2>2, <3>1 DEF StartupDue
  <2>3. CASE ~Registered
    BY <1>3, <2>3 DEF StartupDue
  <2> QED
    BY <2>1, <2>2, <2>3
<1>4. CASE PeriodicDue
  BY <1>4 DEF PeriodicDue
<1>5. CASE RequestDue
  BY <1>5 DEF RequestDue
<1>6. ASSUME NEW why \in Reasons, Request(why) PROVE PresenceInv'
  BY <1>6 DEF Request
<1>7. CASE PgxlConnects
  BY <1>7 DEF PgxlConnects
<1>8. ASSUME NEW cause \in {"closed", "timeout"}, SessionEnds(cause) PROVE PresenceInv'
  BY <1>8 DEF SessionEnds
<1>9. CASE RequestSendFails
  BY <1>9 DEF RequestSendFails
<1>10. CASE Tick
  BY <1>10 DEF Tick, Due, Less
<1>11. CASE UNCHANGED timersVars
  BY <1>11
<1> QED
  BY <1>1, <1>2, <1>3, <1>4, <1>5, <1>6, <1>7, <1>8, <1>9, <1>10, <1>11 DEF TimersNext

LEMMA AnnounceStep == TimersInv /\ [TimersNext]_timersVars => AnnounceInv'
<1> SUFFICES ASSUME TimersInv, [TimersNext]_timersVars PROVE AnnounceInv'
  OBVIOUS
<1> USE TimersAssumption DEF TimersInv, TimersTypeOK, TimersOK, CountsOK, NamesOK, FlagsOK, ReadInv, AnnounceInv
<1>1. CASE OpenSession
  BY <1>1 DEF OpenSession
<1>2. CASE Registration
  <2>1. CASE strategy = "no_burst"
    BY <1>2, <2>1 DEF Registration
  <2>2. CASE strategy # "no_burst"
    BY <1>2, <2>2 DEF Registration
  <2> QED
    BY <2>1, <2>2
<1>3. CASE StartupDue
  <2>1. Interval(strategy) \in {5, 20}
    BY StrategyNumbers
  <2>2. CASE StartupSends
    BY <1>3, <2>1, <2>2 DEF StartupDue
  <2>3. CASE ~StartupSends
    BY <1>3, <2>3 DEF StartupDue
  <2> QED
    BY <2>2, <2>3
<1>4. CASE PeriodicDue
  BY <1>4 DEF PeriodicDue
<1>5. CASE RequestDue
  <2>1. /\ Left \in 0..6 /\ (requested => Left > 0)
        /\ Left > 0 => RequestedDelay(Left - 1) \in 2..10
    BY LeftRange, DelayBound
  <2> QED
    BY <1>5, <2>1 DEF RequestDue
<1>6. ASSUME NEW why \in Reasons, Request(why) PROVE AnnounceInv'
  BY <1>6 DEF Request
<1>7. CASE PgxlConnects
  BY <1>7 DEF PgxlConnects
<1>8. ASSUME NEW cause \in {"closed", "timeout"}, SessionEnds(cause) PROVE AnnounceInv'
  BY <1>8 DEF SessionEnds
<1>9. CASE RequestSendFails
  BY <1>9 DEF RequestSendFails
<1>10. CASE Tick
  BY <1>10 DEF Tick, Due, Less
<1>11. CASE UNCHANGED timersVars
  BY <1>11
<1> QED
  BY <1>1, <1>2, <1>3, <1>4, <1>5, <1>6, <1>7, <1>8, <1>9, <1>10, <1>11 DEF TimersNext
-----------------------------------------------------------------------------
THEOREM TimersInvariance == TimersSpec => []TimersInv
<1>1. TimersInv /\ [TimersNext]_timersVars => TimersInv'
  BY TimersStep, CountsStep, NamesStep, FlagsStep, ReadStep, PresenceStep, AnnounceStep
     DEF TimersInv, TimersTypeOK
<1> QED
  BY TimersInvInit, <1>1, PTL DEF TimersSpec

(* The timers stay within their intervals, for all intervals.               *)
THEOREM TimersTypeCorrect == TimersSpec => []TimersTypeOK
<1>1. TimersInv => TimersTypeOK
  BY DEF TimersInv
<1> QED
  BY TimersInvariance, <1>1, PTL

(* The 60 s read timeout is unreachable code, whatever its value above      *)
(* 500 ms and whatever the radio does.                                      *)
THEOREM SilenceUnnoticed == TimersSpec => []ReadNeverTimesOut
<1>1. TimersInv => ReadNeverTimesOut
  BY TimersAssumption DEF TimersInv, TimersTypeOK, TimersOK, CountsOK, NamesOK, FlagsOK, ReadInv, ReadNeverTimesOut
<1> QED
  BY TimersInvariance, <1>1, PTL

(* The keepalive is as regular as Gap says, for every strategy and          *)
(* interval.                                                                *)
THEOREM KeepaliveRegular == TimersSpec => []PresenceRefreshed
<1>1. TimersInv => PresenceRefreshed
  <2> SUFFICES ASSUME TimersInv, Registered PROVE quiet <= Gap(strategy)
    BY DEF PresenceRefreshed
  <2>1. CASE ~bursting
    BY <2>1, StrategyNumbers, TimersAssumption DEF TimersInv, TimersTypeOK, TimersOK, CountsOK, NamesOK, FlagsOK, ReadInv, PresenceInv
  <2>2. CASE bursting
    BY <2>2, StrategyNumbers, TimersAssumption DEF TimersInv, TimersTypeOK, TimersOK, CountsOK, NamesOK, FlagsOK, PresenceInv
  <2> QED
    BY <2>1, <2>2
<1> QED
  BY TimersInvariance, <1>1, PTL

(* A state change is announced within 1.1 s of registered time, unless the  *)
(* connection broke on its announcement.                                    *)
THEOREM AnnouncementPrompt == TimersSpec => []AnnouncedInTime
<1>1. TimersInv => AnnouncedInTime
  BY TimersAssumption DEF TimersInv, TimersTypeOK, TimersOK, CountsOK, NamesOK, FlagsOK, ReadInv, AnnounceInv, AnnouncedInTime
<1> QED
  BY TimersInvariance, <1>1, PTL
=============================================================================
