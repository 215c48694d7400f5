-------------------------- MODULE KpaDriverProofs --------------------------
(***************************************************************************)
(* Proofs about KpaDriver, for all settings, bands, poll sequences and     *)
(* bounds.                                                                 *)
(***************************************************************************)
EXTENDS KpaDriver, SequenceTheorems, TLAPS

(* Groups of groups are always expanded.                                   *)
USE DEF shared, world

(* TypeOK is not inductive alone: a query in progress must have a head,    *)
(* and a band being written must be a band.                                *)
IInv == /\ TypeOK
        /\ pc \in {"ask", "wait"} => todo # << >>
        /\ pc \in {"drain", "bandWrite", "bandWait"} => target # None

(* What the value of a line is, by the query it answers.                   *)
LEMMA LineValue ==
  ASSUME NEW m \in Line
  PROVE  /\ m.q = "OS" => m.v \in BOOLEAN
         /\ m.q = "FL" => m.v \in BOOLEAN
         /\ m.q \in TeleQuery => m.v \in Reading
         /\ m.q = "BN" => m.v \in Bands
         /\ m.q \in Query \cup {"BN", "SP"}
BY DEF Line, TeleQuery, Reading, Query

LEMMA AnswerIsLine ==
  ASSUME TypeOK, NEW q \in Query
  PROVE  DeviceAnswer(q) \in Line
BY DEF TypeOK, DevTypeOK, DeviceAnswer, Line, Query, TeleQuery, Reading

LEMMA InitIInv == Init => IInv
<1> SUFFICES ASSUME Init PROVE IInv
  OBVIOUS
<1>1. /\ tele \in [TeleQuery -> Reading]
      /\ devTele \in [TeleQuery -> Reading]
      /\ used \in [Budget -> Nat]
  BY DEF Init, Reading
<1>2. /\ unsolicited \in Seq(Line) /\ batch \in Seq(Line)
      /\ line \in Seq(Line) /\ todo \in Seq(Query)
  BY DEF Init
<1>3. answered \subseteq Query
  BY DEF Init
<1>4. QED
  BY <1>1, <1>2, <1>3
     DEF Init, IInv, TypeOK, AmpTypeOK, CtxTypeOK, AnnTypeOK, QueryTypeOK,
         TurnTypeOK, DevTypeOK, AmpStates

(* A group of variables that a step leaves alone keeps its types.          *)
LEMMA Kept ==
  ASSUME TypeOK
  PROVE  /\ UNCHANGED ampVars => AmpTypeOK'
         /\ UNCHANGED ctxVars => CtxTypeOK'
         /\ UNCHANGED annVars => AnnTypeOK'
         /\ UNCHANGED queryVars => QueryTypeOK' /\ todo' = todo
         /\ UNCHANGED turnVars => TurnTypeOK' /\ target' = target
         /\ UNCHANGED devVars => DevTypeOK'
<1>1. UNCHANGED ampVars => AmpTypeOK'
  BY DEF TypeOK, AmpTypeOK, ampVars
<1>2. UNCHANGED ctxVars => CtxTypeOK'
  BY DEF TypeOK, CtxTypeOK, ctxVars
<1>3. UNCHANGED annVars => AnnTypeOK'
  BY DEF TypeOK, AnnTypeOK, annVars
<1>4. UNCHANGED queryVars => QueryTypeOK' /\ todo' = todo
  BY DEF TypeOK, QueryTypeOK, queryVars
<1>5. UNCHANGED turnVars => TurnTypeOK' /\ target' = target
  BY DEF TypeOK, TurnTypeOK, turnVars
<1>6. UNCHANGED devVars => DevTypeOK'
  BY DEF TypeOK, DevTypeOK, devVars
<1> QED
  BY <1>1, <1>2, <1>3, <1>4, <1>5, <1>6

(* The helpers the actions are built from keep the types of what they set. *)
LEMMA SendType ==
  ASSUME TypeOK, NEW m \in Line, Send(m)
  PROVE  line' \in Seq(Line)
BY DEF TypeOK, Send

LEMMA SpendType ==
  ASSUME TypeOK, NEW b \in Budget, Spend(b)
  PROVE  used' \in [Budget -> Nat]
BY DEF TypeOK, Spend

LEMMA LostType ==
  ASSUME TypeOK, Lost
  PROVE  used' \in [Budget -> Nat]
<1>1. "lost" \in Budget
  BY DEF Budget
<1>2. CASE portUp
  BY <1>1, <1>2, SpendType DEF Lost
<1>3. CASE ~portUp
  BY <1>3 DEF Lost, TypeOK
<1> QED
  BY <1>2, <1>3

LEMMA FirstLine ==
  ASSUME TypeOK, Arrived
  PROVE  Head(line) \in Line /\ Tail(line) \in Seq(Line)
BY DEF TypeOK, Arrived

LEMMA StartPollType ==
  ASSUME StartPoll
  PROVE  QueryTypeOK' /\ todo' # << >> /\ pc' = "ask"
<1>1. PollSeq \in Seq(Query) /\ PollSeq # << >>
  BY PollAssumption DEF Query, TeleQuery
<1> QED
  BY <1>1 DEF StartPoll, StartJob, QueryTypeOK

LEMMA AfterQueryType ==
  ASSUME QueryTypeOK, todo # << >>, NEW next, AfterQuery(next),
         next \notin {"ask", "wait"}
  PROVE  /\ todo' \in Seq(Query)
         /\ pc' \in {"ask", next}
         /\ pc' \in {"ask", "wait"} => todo' # << >>
BY DEF QueryTypeOK, AfterQuery

-----------------------------------------------------------------------------
(* Every action keeps IInv: one lemma for each.                            *)

LEMMA OpenFailedInv ==
  ASSUME IInv, OpenFailed
  PROVE  IInv'
<1>1. AmpTypeOK'
  BY DEF IInv, TypeOK, AmpTypeOK, OpenFailed
<1> QED
  BY <1>1, Kept DEF IInv, TypeOK, OpenFailed, linkVars

LEMMA OpenPortInv ==
  ASSUME IInv, OpenPort
  PROVE  IInv'
<1>1. AmpTypeOK'
  BY DEF IInv, TypeOK, AmpTypeOK, OpenPort
<1>2. QueryTypeOK' /\ todo' # << >>
  BY DEF QueryTypeOK, OpenPort, StartJob, Query
<1> QED
  BY <1>1, <1>2, Kept DEF IInv, TypeOK, OpenPort, StartJob, linkVars

LEMMA AskInv ==
  ASSUME IInv, Ask
  PROVE  IInv'
<1>1. QueryTypeOK' /\ todo' # << >>
  BY DEF IInv, TypeOK, QueryTypeOK, Ask
<1>2. DeviceAnswer(Head(todo)) \in Line
  <2>1. Head(todo) \in Query
    BY DEF IInv, TypeOK, QueryTypeOK, Ask
  <2> QED
    BY <2>1, AnswerIsLine DEF IInv
<1>3. line' \in Seq(Line) /\ used' \in [Budget -> Nat]
  <2>1. CASE Send(DeviceAnswer(Head(todo))) /\ UNCHANGED used
    BY <1>2, <2>1, SendType DEF IInv, TypeOK
  <2>2. CASE Lost /\ UNCHANGED line
    BY <2>2, LostType DEF IInv, TypeOK
  <2> QED
    BY <2>1, <2>2 DEF Ask
<1> QED
  BY <1>1, <1>3, Kept DEF IInv, TypeOK, Ask, linkVars

LEMMA ReceiveOtherInv ==
  ASSUME IInv, ReceiveOther
  PROVE  IInv'
<1>1. Head(line) \in Line /\ Tail(line) \in Seq(Line)
  BY FirstLine DEF IInv, ReceiveOther
<1>2. QueryTypeOK' /\ todo' # << >>
  BY <1>1 DEF IInv, TypeOK, QueryTypeOK, ReceiveOther
<1> QED
  BY <1>1, <1>2, Kept DEF IInv, TypeOK, ReceiveOther, linkVars

LEMMA ReceiveDiscoveryInv ==
  ASSUME IInv, ReceiveDiscovery
  PROVE  IInv'
<1>1. Tail(line) \in Seq(Line)
  BY FirstLine DEF IInv, ReceiveDiscovery
<1>2. /\ todo' \in Seq(Query) /\ pc' \in {"ask", "band"}
      /\ pc' \in {"ask", "wait"} => todo' # << >>
  BY AfterQueryType DEF IInv, TypeOK, ReceiveDiscovery
<1>3. QueryTypeOK'
  BY <1>2 DEF IInv, TypeOK, QueryTypeOK, ReceiveDiscovery
<1> QED
  BY <1>1, <1>2, <1>3, Kept DEF IInv, TypeOK, ReceiveDiscovery, linkVars

LEMMA ReceivePollInv ==
  ASSUME IInv, ReceivePoll
  PROVE  IInv'
<1>1. Head(line) \in Line /\ Tail(line) \in Seq(Line)
  BY FirstLine DEF IInv, ReceivePoll
<1>2. /\ todo' \in Seq(Query) /\ pc' \in {"ask", "apply"}
      /\ pc' \in {"ask", "wait"} => todo' # << >>
  BY AfterQueryType DEF IInv, TypeOK, ReceivePoll
<1>3. batch \o unsolicited \in Seq(Line) /\ Head(todo) \in Query
  BY DEF IInv, TypeOK, QueryTypeOK, ReceivePoll
<1>4. batch' \in Seq(Line) /\ answered' \subseteq Query
  BY <1>1, <1>3 DEF IInv, TypeOK, QueryTypeOK, ReceivePoll
<1>5. QueryTypeOK'
  BY <1>2, <1>4 DEF IInv, TypeOK, QueryTypeOK, ReceivePoll
<1> QED
  BY <1>1, <1>2, <1>5, Kept DEF IInv, TypeOK, ReceivePoll, linkVars

LEMMA ReceiveVerifyInv ==
  ASSUME IInv, ReceiveVerify
  PROVE  IInv'
<1>1. Head(line) \in Line /\ Tail(line) \in Seq(Line)
  BY FirstLine DEF IInv, ReceiveVerify
<1>2. QueryTypeOK' /\ todo' # << >> /\ pc' = "ask"
  BY StartPollType DEF ReceiveVerify
<1>3. AmpTypeOK'
  BY DEF IInv, TypeOK, AmpTypeOK, AmpStates, TurnTypeOK, ReceiveVerify
<1> QED
  BY <1>1, <1>2, <1>3, Kept DEF IInv, TypeOK, ReceiveVerify, linkVars

LEMMA GiveUpInv ==
  ASSUME IInv, GiveUp
  PROVE  IInv'
<1>1. CASE job = "verify"
  <2>1. StartPoll
    BY <1>1 DEF GiveUp
  <2> QED
    BY <2>1, StartPollType, Kept DEF IInv, TypeOK, GiveUp, linkVars
<1>2. CASE job \in {"discover", "poll"}
  <2>1. PICK next \in {"band", "apply"} :
          AfterQuery(next) /\ UNCHANGED <<job, unsolicited, batch, answered>>
    BY <1>2 DEF GiveUp
  <2>2. /\ todo' \in Seq(Query) /\ pc' \in {"ask", next}
        /\ pc' \in {"ask", "wait"} => todo' # << >>
    BY <2>1, AfterQueryType DEF IInv, TypeOK, GiveUp
  <2>3. QueryTypeOK'
    BY <2>1, <2>2 DEF IInv, TypeOK, QueryTypeOK
  <2> QED
    BY <2>2, <2>3, Kept DEF IInv, TypeOK, GiveUp, linkVars
<1> QED
  BY <1>1, <1>2 DEF IInv, TypeOK, QueryTypeOK

LEMMA ApplyBeginInv ==
  ASSUME IInv, ApplyBegin
  PROVE  IInv'
<1>1. AmpTypeOK'
  BY DEF IInv, TypeOK, AmpTypeOK, ApplyBegin
<1> QED
  BY <1>1, Kept DEF IInv, TypeOK, ApplyBegin, linkVars

LEMMA ApplyLineInv ==
  ASSUME IInv, ApplyLine
  PROVE  IInv'
<1> DEFINE m == Head(batch)
<1>1. m \in Line /\ Tail(batch) \in Seq(Line)
  BY DEF IInv, TypeOK, QueryTypeOK, ApplyLine
<1>2. ParseOs(m) \/ ParseFault(m) \/ ParseTele(m) \/ ParseIgnored(m)
  BY DEF ApplyLine
<1>3. /\ operate' \in BOOLEAN /\ ampState' \in AmpStates
      /\ fault' \in BOOLEAN /\ meffa' \in {"UNKNOWN", "OK"}
      /\ tele' \in [TeleQuery -> Reading]
  <2> USE DEF IInv, TypeOK, AmpTypeOK, AmpStates
  <2>1. CASE ParseOs(m)
    BY <1>1, <2>1, LineValue DEF ParseOs
  <2>2. CASE ParseFault(m)
    BY <1>1, <2>2, LineValue DEF ParseFault
  <2>3. CASE ParseTele(m)
    <3>1. m.v \in Reading
      BY <1>1, <2>3, LineValue DEF ParseTele
    <3>2. tele' = [tele EXCEPT ![m.q] = m.v]
      BY <2>3 DEF ParseTele
    <3>3. tele' \in [TeleQuery -> Reading]
      BY <3>1, <3>2
    <3> QED
      BY <2>3, <3>3 DEF ParseTele
  <2>4. CASE ParseIgnored(m)
    BY <2>4 DEF ParseIgnored
  <2> QED
    BY <1>2, <2>1, <2>2, <2>3, <2>4
<1>4. AmpTypeOK'
  BY <1>3 DEF IInv, TypeOK, AmpTypeOK, ApplyLine
<1>5. AnnTypeOK'
  <2>1. RecordPollChange
    BY DEF ApplyLine
  <2>2. CASE UNCHANGED annVars
    BY <2>1, <2>2 DEF IInv, TypeOK, AnnTypeOK, annVars
  <2>3. CASE /\ requested' = TRUE /\ reason' \in {"state", "telemetry"}
             /\ advertised' = ampState'
    BY <1>3, <2>1, <2>3 DEF IInv, TypeOK, AnnTypeOK
  <2> QED
    BY <2>1, <2>2, <2>3 DEF RecordPollChange
<1>6. QueryTypeOK'
  BY <1>1 DEF IInv, TypeOK, QueryTypeOK, ApplyLine
<1> QED
  BY <1>4, <1>5, <1>6, Kept DEF IInv, TypeOK, ApplyLine, linkVars

LEMMA ApplyEndInv ==
  ASSUME IInv, ApplyEnd
  PROVE  IInv'
<1>1. AmpTypeOK'
  BY DEF IInv, TypeOK, AmpTypeOK, ApplyEnd
<1> QED
  BY <1>1, Kept DEF IInv, TypeOK, ApplyEnd, linkVars

LEMMA FollowSkipInv ==
  ASSUME IInv, FollowSkip
  PROVE  IInv'
<1> QED
  BY Kept DEF IInv, TypeOK, FollowSkip, linkVars

LEMMA FollowDecideInv ==
  ASSUME IInv, FollowDecide
  PROVE  IInv'
<1>1. TurnTypeOK' /\ target' # None
  BY DEF IInv, TypeOK, TurnTypeOK, CtxTypeOK, FollowDecide, BandFollowDue
<1> QED
  BY <1>1, Kept DEF IInv, TypeOK, FollowDecide, linkVars

LEMMA DrainInv ==
  ASSUME IInv, Drain
  PROVE  IInv'
<1>1. line' \in Seq(Line)
  BY DEF IInv, TypeOK, Drain
<1> QED
  BY <1>1, Kept DEF IInv, TypeOK, Drain, linkVars

LEMMA BandWriteInv ==
  ASSUME IInv, BandWrite
  PROVE  IInv'
<1>1. TurnTypeOK' /\ target' # None
  BY DEF IInv, TypeOK, TurnTypeOK, BandWrite
<1>2. target \in Bands /\ [q |-> "BN", v |-> target] \in Line
  BY DEF IInv, TypeOK, TurnTypeOK, Line, BandWrite
<1>3. DevTypeOK' /\ line' \in Seq(Line) /\ used' \in [Budget -> Nat]
  <2>1. CASE /\ devBand' = target
             /\ Send([q |-> "BN", v |-> target])
             /\ UNCHANGED used
    BY <1>2, <2>1, SendType DEF IInv, TypeOK, DevTypeOK, BandWrite
  <2>2. CASE Lost /\ UNCHANGED <<devBand, line>>
    BY <2>2, LostType DEF IInv, TypeOK, DevTypeOK, BandWrite
  <2> QED
    BY <2>1, <2>2 DEF BandWrite
<1> QED
  BY <1>1, <1>3, Kept DEF IInv, TypeOK, BandWrite, linkVars

LEMMA BandWriteErrorInv ==
  ASSUME IInv, BandWriteError
  PROVE  IInv'
<1> QED
  BY Kept DEF IInv, TypeOK, BandWriteError, linkVars

LEMMA BandEchoInv ==
  ASSUME IInv, BandEcho
  PROVE  IInv'
<1> DEFINE m == Head(line)
<1>1. m \in Line /\ Tail(line) \in Seq(Line)
  BY FirstLine DEF IInv, BandEcho
<1>2. CASE FollowDone(target) /\ UNCHANGED heard
  <2>1. CtxTypeOK' /\ TurnTypeOK' /\ pc' = "control"
    BY <1>2 DEF IInv, TypeOK, CtxTypeOK, TurnTypeOK, BandEcho, FollowDone
  <2> QED
    BY <1>1, <2>1, Kept DEF IInv, TypeOK, BandEcho, linkVars
<1>3. CASE /\ heard' = IF m.q = "BN" THEN m.v ELSE None
           /\ UNCHANGED <<followWire, followConfirmed, followMatch, pc>>
  <2>1. CtxTypeOK' /\ TurnTypeOK' /\ target' = target
    BY <1>1, <1>3, LineValue
       DEF IInv, TypeOK, CtxTypeOK, TurnTypeOK, BandEcho
  <2> QED
    BY <1>1, <1>3, <2>1, Kept DEF IInv, TypeOK, BandEcho, linkVars
<1> QED
  BY <1>2, <1>3 DEF BandEcho

LEMMA BandSilenceInv ==
  ASSUME IInv, BandSilence
  PROVE  IInv'
<1>1. CASE /\ attempt' = 1 /\ pc' = "bandWrite"
           /\ UNCHANGED <<followWire, followConfirmed, followMatch>>
  <2>1. CtxTypeOK' /\ TurnTypeOK' /\ target' = target
    BY <1>1 DEF IInv, TypeOK, CtxTypeOK, TurnTypeOK, BandSilence
  <2> QED
    BY <1>1, <2>1, Kept DEF IInv, TypeOK, BandSilence, linkVars
<1>2. CASE FollowDone(heard) /\ UNCHANGED attempt
  <2>1. CtxTypeOK' /\ TurnTypeOK' /\ pc' = "control"
    BY <1>2 DEF IInv, TypeOK, CtxTypeOK, TurnTypeOK, BandSilence, FollowDone
  <2> QED
    BY <2>1, Kept DEF IInv, TypeOK, BandSilence, linkVars
<1> QED
  BY <1>1, <1>2 DEF BandSilence

LEMMA NoRequestInv ==
  ASSUME IInv, NoRequest
  PROVE  IInv'
<1>1. QueryTypeOK' /\ todo' # << >> /\ pc' = "ask"
  BY StartPollType DEF NoRequest
<1> QED
  BY <1>1, Kept DEF IInv, TypeOK, NoRequest, linkVars

LEMMA TakeRequestInv ==
  ASSUME IInv, TakeRequest
  PROVE  IInv'
<1>1. CASE taken' = desired /\ pc' = "send" /\ UNCHANGED queryVars
  <2>1. TurnTypeOK'
    BY <1>1 DEF IInv, TypeOK, TurnTypeOK, TakeRequest
  <2> QED
    BY <1>1, <2>1, Kept DEF IInv, TypeOK, TakeRequest, linkVars
<1>2. CASE StartPoll /\ UNCHANGED taken
  <2>1. QueryTypeOK' /\ todo' # << >> /\ pc' = "ask"
    BY <1>2, StartPollType
  <2>2. TurnTypeOK'
    BY <1>2 DEF IInv, TypeOK, TurnTypeOK, TakeRequest
  <2> QED
    BY <2>1, <2>2, Kept DEF IInv, TypeOK, TakeRequest, linkVars
<1> QED
  BY <1>1, <1>2 DEF TakeRequest

LEMMA SendControlInv ==
  ASSUME IInv, SendControl
  PROVE  IInv'
<1>1. QueryTypeOK' /\ todo' # << >> /\ pc' = "ask"
  BY DEF SendControl, StartJob, QueryTypeOK, Query
<1>2. DevTypeOK' /\ used' \in [Budget -> Nat]
  <2>1. CASE devOperate' = taken /\ UNCHANGED used
    BY <2>1 DEF IInv, TypeOK, TurnTypeOK, DevTypeOK, SendControl
  <2>2. CASE Lost /\ UNCHANGED devOperate
    BY <2>2, LostType DEF IInv, TypeOK, DevTypeOK, SendControl
  <2> QED
    BY <2>1, <2>2 DEF SendControl
<1> QED
  BY <1>1, <1>2, Kept DEF IInv, TypeOK, SendControl, linkVars

LEMMA SendErrorInv ==
  ASSUME IInv, SendError
  PROVE  IInv'
<1>1. QueryTypeOK' /\ todo' # << >> /\ pc' = "ask"
  BY StartPollType DEF SendError
<1> QED
  BY <1>1, Kept DEF IInv, TypeOK, SendError, linkVars

LEMMA OtherTasksInv ==
  ASSUME IInv, OtherTasks
  PROVE  IInv'
<1>1. ASSUME NEW v \in BOOLEAN, Request(v) PROVE IInv'
  <2>1. used' \in [Budget -> Nat]
    BY <1>1, SpendType DEF IInv, Request, Budget
  <2> QED
    BY <1>1, <2>1, Kept DEF IInv, TypeOK, Request, linkVars
<1>2. ASSUME NEW b \in Bands \cup {None}, BandChange(b) PROVE IInv'
  <2>1. used' \in [Budget -> Nat]
    BY <1>2, SpendType DEF IInv, BandChange, Budget
  <2>2. CtxTypeOK'
    BY <1>2 DEF IInv, TypeOK, CtxTypeOK, BandChange
  <2> QED
    BY <1>2, <2>1, <2>2, Kept DEF IInv, TypeOK, BandChange, linkVars
<1>3. CASE TunerChange
  <2>1. used' \in [Budget -> Nat]
    BY <1>3, SpendType DEF IInv, TunerChange, Budget
  <2>2. CtxTypeOK'
    BY <1>3 DEF IInv, TypeOK, CtxTypeOK, TunerChange
  <2> QED
    BY <1>3, <2>1, <2>2, Kept DEF IInv, TypeOK, TunerChange, linkVars
<1>4. CASE FlexTakesRequest
  <2>1. AnnTypeOK'
    BY <1>4 DEF IInv, TypeOK, AnnTypeOK, FlexTakesRequest
  <2> QED
    BY <1>4, <2>1, Kept DEF IInv, TypeOK, FlexTakesRequest, linkVars
<1> QED
  BY <1>1, <1>2, <1>3, <1>4 DEF OtherTasks

LEMMA EnvironmentInv ==
  ASSUME IInv, Environment
  PROVE  IInv'
<1>1. CASE PanelOperate
  <2>1. used' \in [Budget -> Nat]
    BY <1>1, SpendType DEF IInv, PanelOperate, Budget
  <2>2. [q |-> "OS", v |-> ~devOperate] \in Line
    BY DEF IInv, TypeOK, DevTypeOK, Line
  <2>3. line' \in Seq(Line)
    BY <1>1, <2>2, SendType DEF IInv, TypeOK, PanelOperate
  <2>4. DevTypeOK'
    BY <1>1 DEF IInv, TypeOK, DevTypeOK, PanelOperate
  <2> QED
    BY <1>1, <2>1, <2>3, <2>4, Kept DEF IInv, TypeOK, PanelOperate, linkVars
<1>2. CASE PanelFault
  <2>1. used' \in [Budget -> Nat]
    BY <1>2, SpendType DEF IInv, PanelFault, Budget
  <2>2. DevTypeOK'
    BY <1>2 DEF IInv, TypeOK, DevTypeOK, PanelFault
  <2> QED
    BY <1>2, <2>1, <2>2, Kept DEF IInv, TypeOK, PanelFault, linkVars
<1>3. ASSUME NEW b \in Bands, PanelBand(b) PROVE IInv'
  <2>1. used' \in [Budget -> Nat]
    BY <1>3, SpendType DEF IInv, PanelBand, Budget
  <2>2. DevTypeOK'
    BY <1>3 DEF IInv, TypeOK, DevTypeOK, PanelBand
  <2> QED
    BY <1>3, <2>1, <2>2, Kept DEF IInv, TypeOK, PanelBand, linkVars
<1>4. ASSUME NEW q \in TeleQuery, Measurement(q) PROVE IInv'
  <2>1. used' \in [Budget -> Nat]
    BY <1>4, SpendType DEF IInv, Measurement, Budget
  <2>2. DevTypeOK'
    BY <1>4 DEF IInv, TypeOK, DevTypeOK, Reading, Measurement
  <2> QED
    BY <1>4, <2>1, <2>2, Kept DEF IInv, TypeOK, Measurement, linkVars
<1>5. CASE PortLost
  <2>1. used' \in [Budget -> Nat]
    BY <1>5, SpendType DEF IInv, PortLost, Budget
  <2>2. line' \in Seq(Line)
    BY <1>5 DEF PortLost
  <2> QED
    BY <1>5, <2>1, <2>2, Kept DEF IInv, TypeOK, PortLost
<1>6. CASE PortBack
  BY <1>6, Kept DEF IInv, TypeOK, PortBack
<1>7. CASE Stall
  <2>1. used' \in [Budget -> Nat]
    BY <1>7, SpendType DEF IInv, Stall, Budget
  <2> QED
    BY <1>7, <2>1, Kept DEF IInv, TypeOK, Stall
<1>8. CASE Flow
  BY <1>8, Kept DEF IInv, TypeOK, Flow
<1> QED
  BY <1>1, <1>2, <1>3, <1>4, <1>5, <1>6, <1>7, <1>8 DEF Environment

LEMMA StutterInv ==
  ASSUME IInv, UNCHANGED vars
  PROVE  IInv'
BY Kept DEF IInv, TypeOK, vars, linkVars

LEMMA StepInv == IInv /\ [Next]_vars => IInv'
<1> SUFFICES ASSUME IInv, [Next]_vars PROVE IInv'
  OBVIOUS
<1>1. CASE Opening
  BY <1>1, OpenPortInv, OpenFailedInv DEF Opening
<1>2. CASE Querying
  BY <1>2, AskInv, ReceiveOtherInv, ReceiveDiscoveryInv, ReceivePollInv,
     ReceiveVerifyInv, GiveUpInv DEF Querying
<1>3. CASE Applying
  BY <1>3, ApplyBeginInv, ApplyLineInv, ApplyEndInv DEF Applying
<1>4. CASE Following
  BY <1>4, FollowSkipInv, FollowDecideInv, DrainInv, BandWriteInv,
     BandWriteErrorInv, BandEchoInv, BandSilenceInv DEF Following
<1>5. CASE Controlling
  BY <1>5, NoRequestInv, TakeRequestInv, SendControlInv, SendErrorInv
     DEF Controlling
<1>6. CASE OtherTasks
  BY <1>6, OtherTasksInv
<1>7. CASE Environment
  BY <1>7, EnvironmentInv
<1>8. CASE UNCHANGED vars
  BY <1>8, StutterInv
<1> QED
  BY <1>1, <1>2, <1>3, <1>4, <1>5, <1>6, <1>7, <1>8 DEF Next, Driver

(* Whatever the settings, the bands, the order of the poll and the         *)
(* behaviour of amplifier and line, every variable keeps its type: a query *)
(* is waited for only while one is outstanding, and what is put on the     *)
(* line is always a line the parsers know.                                 *)
THEOREM TypeCorrect == Spec => []TypeOK
<1>1. IInv => TypeOK
  BY DEF IInv
<1> QED
  BY InitIInv, StepInv, <1>1, PTL DEF Spec

-----------------------------------------------------------------------------
(* Every step of the driver is a step of AmpControl or leaves its          *)
(* variables alone.                                                        *)
LEMMA PanelKept ==
  ASSUME TypeOK, NEW b \in Budget \ {"panel"}, Spend(b)
  PROVE  used'["panel"] = used["panel"]
BY DEF TypeOK, Spend, Budget

LEMMA LostPanel ==
  ASSUME TypeOK, Lost \/ UNCHANGED used
  PROVE  used'["panel"] = used["panel"]
<1>1. CASE Spend("lost")
  BY <1>1, PanelKept DEF Budget
<1> QED
  BY <1>1 DEF Lost

LEMMA ControlStep ==
  ASSUME IInv, [Next]_vars
  PROVE  [Control!Next]_(Control!vars)
<1> USE DEF Control!vars, Control!Next
<1>1. CASE TakeRequest
  <2>1. CASE CanSend(desired) /\ taken' = desired /\ pc' = "send"
    <3>1. desired \in {op \in BOOLEAN : CanSend(op)}
      BY <1>1, <2>1 DEF IInv, TypeOK, TakeRequest
    <3>2. Control!PickUp
      BY <1>1, <2>1, <3>1 DEF Control!PickUp, TakeRequest, devVars
    <3> QED
      BY <3>2
  <2>2. CASE ~CanSend(desired) /\ StartPoll
    <3>1. Control!Refuse
      BY <1>1, <2>2 DEF Control!Refuse, TakeRequest, devVars, StartPoll,
                        StartJob
    <3> QED
      BY <3>1
  <2> QED
    BY <1>1, <2>1, <2>2 DEF TakeRequest
<1>2. CASE SendControl
  <2>1. taken # None /\ used'["panel"] = used["panel"]
    BY <1>2, NoneAssumption, LostPanel DEF IInv, TypeOK, TurnTypeOK, SendControl
  <2>2. Control!Execute
    BY <1>2, <2>1 DEF Control!Execute, SendControl, StartJob, devVars
  <2> QED
    BY <2>2
<1>3. CASE SendError
  <2>1. taken # None
    BY NoneAssumption DEF IInv, TypeOK, TurnTypeOK
  <2>2. Control!Execute
    BY <1>3, <2>1 DEF Control!Execute, SendError, StartPoll, StartJob, devVars
  <2> QED
    BY <2>2
<1>4. CASE \/ Opening \/ Querying \/ Applying \/ Following \/ NoRequest
           \/ UNCHANGED vars
  <2>1. CASE Opening \/ NoRequest
    BY <2>1 DEF Opening, OpenPort, OpenFailed, NoRequest, StartPoll, StartJob,
                turnVars, devVars
  <2>2. CASE Ask
    <3>1. used'["panel"] = used["panel"]
      BY <2>2, LostPanel DEF Ask, IInv
    <3> QED
      BY <2>2, <3>1 DEF Ask, turnVars, devVars
  <2>3. CASE ReceiveOther \/ ReceiveDiscovery \/ ReceivePoll
    BY <2>3 DEF ReceiveOther, ReceiveDiscovery, ReceivePoll, AfterQuery,
                turnVars, devVars
  <2>4. CASE ReceiveVerify \/ GiveUp
    <3>1. CASE ReceiveVerify
      BY <3>1 DEF ReceiveVerify, StartPoll, StartJob, turnVars, devVars
    <3>2. CASE GiveUp
      <4>1. pc = "wait" /\ pc' # "send"
        BY <3>2 DEF GiveUp, AfterQuery, StartPoll, StartJob, IInv, TypeOK,
                    QueryTypeOK
      <4> QED
        BY <3>2, <4>1 DEF GiveUp, devVars
    <3> QED
      BY <2>4, <3>1, <3>2
  <2>5. CASE Applying
    BY <2>5 DEF Applying, ApplyBegin, ApplyLine, ApplyEnd, turnVars, devVars
  <2>6. CASE BandWrite
    <3>1. used'["panel"] = used["panel"]
      BY <2>6, LostPanel DEF BandWrite, IInv
    <3> QED
      BY <2>6, <3>1 DEF BandWrite
  <2>7. CASE \/ FollowSkip \/ FollowDecide \/ Drain \/ BandWriteError
             \/ BandEcho \/ BandSilence
    BY <2>7 DEF FollowSkip, FollowDecide, Drain, BandWriteError, BandEcho,
                BandSilence, FollowDone, turnVars, devVars
  <2>8. CASE UNCHANGED vars
    BY <2>8 DEF vars, turnVars, devVars
  <2> QED
    BY <1>4, <2>1, <2>2, <2>3, <2>4, <2>5, <2>6, <2>7, <2>8
       DEF Querying, Following
<1>5. CASE OtherTasks
  <2>1. ASSUME NEW v \in BOOLEAN, Request(v) PROVE Control!Ask(v)
    <3>1. used'["panel"] = used["panel"]
      BY <2>1, PanelKept DEF Request, IInv, Budget
    <3> QED
      BY <2>1, <3>1 DEF Control!Ask, Request, turnVars, devVars
  <2>2. ASSUME NEW b \in Bands \cup {None}, BandChange(b)
        PROVE  UNCHANGED Control!vars
    <3>1. used'["panel"] = used["panel"]
      BY <2>2, PanelKept DEF BandChange, IInv, Budget
    <3> QED
      BY <2>2, <3>1 DEF BandChange, turnVars, devVars
  <2>3. CASE TunerChange
    <3>1. used'["panel"] = used["panel"]
      BY <2>3, PanelKept DEF TunerChange, IInv, Budget
    <3> QED
      BY <2>3, <3>1 DEF TunerChange, turnVars, devVars
  <2>4. CASE FlexTakesRequest
    BY <2>4 DEF FlexTakesRequest, turnVars, devVars
  <2> QED
    BY <1>5, <2>1, <2>2, <2>3, <2>4 DEF OtherTasks
<1>6. CASE Environment
  <2>1. CASE Stall \/ PortLost
    <3>1. used'["panel"] = used["panel"]
      BY <2>1, PanelKept DEF Stall, PortLost, IInv, Budget
    <3> QED
      BY <2>1, <3>1 DEF Stall, PortLost, turnVars, devVars
  <2>2. CASE PortBack \/ Flow
    BY <2>2 DEF PortBack, Flow, turnVars, devVars
  <2>3. CASE /\ UNCHANGED <<desired, pc, taken>>
             /\ devOperate' \in BOOLEAN
             /\ Spend("panel")
    <3>1. used'["panel"] = used["panel"] + 1
      BY <2>3 DEF Spend, IInv, TypeOK, Budget
    <3>2. Control!Operator
      BY <2>3, <3>1 DEF Control!Operator
    <3> QED
      BY <3>2
  <2>4. ASSUME \/ PanelOperate \/ PanelFault
               \/ \E b \in Bands : PanelBand(b)
               \/ \E q \in TeleQuery \cap Polled : Measurement(q)
        PROVE  /\ UNCHANGED <<desired, pc, taken>>
               /\ devOperate' \in BOOLEAN
               /\ Spend("panel")
    BY <2>4 DEF PanelOperate, PanelFault, PanelBand, Measurement, turnVars,
                devVars, IInv, TypeOK, DevTypeOK
  <2> QED
    BY <1>6, <2>1, <2>2, <2>3, <2>4 DEF Environment
<1> QED
  BY <1>1, <1>2, <1>3, <1>4, <1>5, <1>6 DEF Next, Driver, Controlling

(* The driver implements AmpControl: whatever the settings, the line and   *)
(* the amplifier do, it switches the amplifier only to execute a permitted *)
(* request, and executes a request at most once.                           *)
THEOREM DriverImplementsControl == Spec => ImplementsControl
<1>1. Init => Control!Init
  BY DEF Init, Control!Init, Budget
<1>2. IInv /\ [Next]_vars => [Control!Next]_(Control!vars)
  BY ControlStep
<1> QED
  BY <1>1, <1>2, InitIInv, StepInv, PTL DEF Spec, ImplementsControl, Control!Spec

-----------------------------------------------------------------------------
(* Only a verification and the parsers write state, operate and fault.     *)
LEMMA StateWriters ==
  ASSUME IInv, [Next]_vars
  PROVE  ReceiveVerify \/ ApplyLine \/ UNCHANGED <<ampState, operate, fault>>
<1>1. CASE Opening \/ Querying
  BY <1>1 DEF Opening, OpenPort, OpenFailed, Querying, Ask, ReceiveOther,
              ReceiveDiscovery, ReceivePoll, GiveUp, ampVars
<1>2. CASE Applying
  BY <1>2 DEF Applying, ApplyBegin, ApplyEnd
<1>3. CASE Following
  BY <1>3 DEF Following, FollowSkip, FollowDecide, Drain, BandWrite,
              BandWriteError, BandEcho, BandSilence, ampVars
<1>4. CASE Controlling
  BY <1>4 DEF Controlling, NoRequest, TakeRequest, SendControl, SendError,
              ampVars
<1>5. CASE OtherTasks
  BY <1>5 DEF OtherTasks, Request, BandChange, TunerChange, FlexTakesRequest,
              ampVars
<1>6. CASE Environment
  BY <1>6 DEF Environment, PanelOperate, PanelFault, PanelBand, Measurement,
              PortLost, PortBack, Stall, Flow, ampVars
<1>7. CASE UNCHANGED vars
  BY <1>7 DEF vars, ampVars
<1> QED
  BY <1>1, <1>2, <1>3, <1>4, <1>5, <1>6, <1>7 DEF Next, Driver

(* The parsers keep state, operate and fault in agreement.                 *)
LEMMA FlagsStep ==
  ASSUME IInv, StateMatchesFlags, [Next]_vars
  PROVE  StateMatchesFlags'
<1> USE DEF StateMatchesFlags
<1>1. CASE UNCHANGED <<ampState, operate, fault>>
  BY <1>1
<1>2. CASE ReceiveVerify
  BY <1>2 DEF ReceiveVerify
<1>3. CASE ApplyLine
  <2>1. PICK m : ParseOs(m) \/ ParseFault(m) \/ ParseTele(m) \/ ParseIgnored(m)
    BY <1>3 DEF ApplyLine
  <2> QED
    BY <2>1 DEF ParseOs, ParseFault, ParseTele, ParseIgnored
<1>4. ReceiveVerify \/ ApplyLine \/ UNCHANGED <<ampState, operate, fault>>
  BY StateWriters
<1> QED
  BY <1>1, <1>2, <1>3, <1>4

(* The three fields the Flex task, the PGXL clients and the reports read   *)
(* never contradict each other, wherever the driver is.                    *)
THEOREM StateMatchesFlagsHolds == Spec => []StateMatchesFlags
<1>1. Init => StateMatchesFlags
  BY DEF Init, StateMatchesFlags
<1>2. IInv /\ StateMatchesFlags /\ [Next]_vars => StateMatchesFlags'
  BY FlagsStep
<1> QED
  BY <1>1, <1>2, InitIInv, StepInv, PTL DEF Spec

-----------------------------------------------------------------------------
(* Why a poll does not mask a fault: ^FL is asked last, so its answer is   *)
(* the last line of the batch, behind every ^OS, late ones included.       *)
FaultLast ==
    /\ job = "poll" /\ pc \in {"ask", "wait"} =>
         /\ "FL" \notin answered
         /\ \A i \in DOMAIN todo : todo[i] = "FL" => i = Len(todo)
    /\ job = "poll" /\ pc \in {"apply", "fold"} /\ "FL" \in answered =>
         \/ batch # << >> /\ batch[Len(batch)].q = "FL"
         \/ batch = << >> /\ (ampState = "Fault" <=> fault)
    /\ FaultNotMasked

(* A poll that starts has no answers yet, and asks ^FL last.               *)
LEMMA FaultLastStart ==
  ASSUME StartPoll
  PROVE  FaultLast'
BY PollAssumption
   DEF StartPoll, StartJob, FaultLast, FaultNotMasked, Settled

LEMMA FaultLastQuery ==
  ASSUME IInv, FaultLast, Ask \/ ReceiveOther \/ ReceiveDiscovery \/ GiveUp
  PROVE  FaultLast'
<1> USE DEF FaultLast, FaultNotMasked, Settled
<1>1. CASE Ask \/ ReceiveOther
  BY <1>1 DEF Ask, ReceiveOther
<1>2. CASE ReceiveDiscovery
  BY <1>2 DEF ReceiveDiscovery
<1>3. CASE GiveUp /\ job = "verify"
  BY <1>3, FaultLastStart DEF GiveUp
<1>4. CASE GiveUp /\ job = "discover"
  BY <1>4 DEF GiveUp
<1>5. CASE GiveUp /\ job = "poll"
  <2>1. /\ todo' = Tail(todo) /\ UNCHANGED <<job, answered>>
        /\ pc' \in {"ask", "apply"} /\ "FL" \notin answered
    BY <1>5 DEF GiveUp, AfterQuery
  <2>2. \A i \in DOMAIN todo' : todo'[i] = "FL" => i = Len(todo')
    <3>1. todo \in Seq(Query) /\ todo # << >>
      BY <1>5 DEF IInv, TypeOK, QueryTypeOK, GiveUp
    <3>2. \A i \in DOMAIN todo : todo[i] = "FL" => i = Len(todo)
      BY <1>5 DEF GiveUp
    <3>3. /\ Len(Tail(todo)) = Len(todo) - 1
          /\ \A i \in DOMAIN Tail(todo) : /\ Tail(todo)[i] = todo[i + 1]
                                          /\ i + 1 \in DOMAIN todo
                                          /\ i \in Nat
      BY <3>1
    <3> QED
      BY <2>1, <3>1, <3>2, <3>3
  <2> QED
    BY <1>5, <2>1, <2>2
<1> QED
  BY <1>1, <1>2, <1>3, <1>4, <1>5 DEF IInv, TypeOK, QueryTypeOK

LEMMA FaultLastReceive ==
  ASSUME IInv, FaultLast, ReceivePoll
  PROVE  FaultLast'
<1> USE DEF FaultLast, FaultNotMasked, Settled
<1>1. /\ job = "poll" /\ todo \in Seq(Query) /\ todo # << >>
      /\ "FL" \notin answered
      /\ \A i \in DOMAIN todo : todo[i] = "FL" => i = Len(todo)
  BY DEF IInv, TypeOK, QueryTypeOK, ReceivePoll
<1>2. /\ todo' = Tail(todo) /\ job' = job
      /\ answered' = answered \cup {Head(todo)}
      /\ pc' = IF Tail(todo) # << >> THEN "ask" ELSE "apply"
      /\ Head(line).q = Head(todo)
      /\ batch' = Append(batch \o unsolicited, Head(line))
  BY DEF ReceivePoll, AfterQuery
<1>3. /\ Len(Tail(todo)) = Len(todo) - 1
      /\ \A i \in DOMAIN Tail(todo) : /\ Tail(todo)[i] = todo[i + 1]
                                      /\ i + 1 \in DOMAIN todo
                                      /\ i \in Nat
  BY <1>1
<1>4. CASE Tail(todo) # << >>
  <2>1. Head(todo) # "FL"
    BY <1>1, <1>3, <1>4
  <2>2. \A i \in DOMAIN todo' : todo'[i] = "FL" => i = Len(todo')
    BY <1>1, <1>2, <1>3
  <2> QED
    BY <1>1, <1>2, <1>4, <2>1, <2>2
<1>5. CASE Tail(todo) = << >>
  <2>1. /\ Head(line) \in Line /\ batch \o unsolicited \in Seq(Line)
    BY FirstLine DEF IInv, TypeOK, QueryTypeOK, ReceivePoll
  <2>2. batch' # << >> /\ batch'[Len(batch')] = Head(line)
    BY <1>2, <2>1
  <2>3. "FL" \in answered' => Head(line).q = "FL"
    BY <1>1, <1>2
  <2> QED
    BY <1>2, <1>5, <2>2, <2>3
<1> QED
  BY <1>4, <1>5

LEMMA FaultLastApply ==
  ASSUME IInv, FaultLast, ApplyLine
  PROVE  FaultLast'
<1> USE DEF FaultLast, FaultNotMasked, Settled
<1> DEFINE m == Head(batch)
<1>1. batch \in Seq(Line) /\ batch # << >> /\ batch' = Tail(batch)
  BY DEF IInv, TypeOK, QueryTypeOK, ApplyLine
<1>2. pc = "fold" /\ UNCHANGED <<pc, job, answered>>
  BY DEF ApplyLine
<1>3. CASE Len(batch) # 1
  <2>1. Tail(batch) \in Seq(Line) /\ Len(Tail(batch)) = Len(batch) - 1
    BY <1>1
  <2>2. Tail(batch) # << >>
    BY <1>1, <1>3, <2>1, EmptySeq
  <2>3. Tail(batch)[Len(Tail(batch))] = batch[Len(batch)]
    BY <1>1, <2>2
  <2> QED
    BY <1>1, <1>2, <2>2, <2>3
<1>4. CASE Len(batch) = 1
  <2>1. m = batch[Len(batch)] /\ m \in Line
    BY <1>1, <1>4
  <2>2. batch' = << >>
    BY <1>1, <1>4
  <2>3. CASE m.q = "FL"
    <3>1. ParseFault(m)
      BY <2>3 DEF ApplyLine, ParseOs, ParseTele, ParseIgnored, TeleQuery
    <3>2. ampState' = "Fault" <=> fault'
      BY <2>1, <2>3, <3>1, LineValue DEF ParseFault
    <3> QED
      BY <1>2, <2>2, <3>2
  <2>4. CASE m.q # "FL"
    BY <1>1, <1>2, <2>1, <2>4
  <2> QED
    BY <2>3, <2>4
<1> QED
  BY <1>3, <1>4

LEMMA FaultLastStep ==
  ASSUME IInv, FaultLast, [Next]_vars
  PROVE  FaultLast'
<1> USE DEF FaultLast, FaultNotMasked, Settled
<1>1. CASE OpenPort \/ SendControl
  BY <1>1 DEF OpenPort, SendControl, StartJob
<1>2. CASE ReceiveVerify \/ NoRequest \/ SendError
  BY <1>2, FaultLastStart DEF ReceiveVerify, NoRequest, SendError
<1>3. CASE TakeRequest
  BY <1>3, FaultLastStart DEF TakeRequest, queryVars, ampVars
<1>4. CASE OpenFailed \/ ApplyBegin \/ ApplyEnd
  BY <1>4 DEF OpenFailed, ApplyBegin, ApplyEnd, queryVars
<1>5. CASE Following
  BY <1>5 DEF Following, FollowSkip, FollowDecide, Drain, BandWrite,
              BandWriteError, BandEcho, BandSilence, FollowDone, queryVars,
              ampVars
<1>6. CASE OtherTasks
  BY <1>6 DEF OtherTasks, Request, BandChange, TunerChange, FlexTakesRequest,
              queryVars, ampVars
<1>7. CASE Environment
  BY <1>7 DEF Environment, PanelOperate, PanelFault, PanelBand, Measurement,
              PortLost, PortBack, Stall, Flow, queryVars, ampVars
<1>8. CASE UNCHANGED vars
  BY <1>8 DEF vars, queryVars, ampVars
<1> QED
  BY <1>1, <1>2, <1>3, <1>4, <1>5, <1>6, <1>7, <1>8, FaultLastQuery,
     FaultLastReceive, FaultLastApply
     DEF Next, Driver, Opening, Querying, Applying, Controlling

(* When a poll that read ^FL has been applied, the shared state says FAULT *)
(* exactly when the amplifier reported one, whatever late or unsolicited   *)
(* ^OS lines the poll also read.                                           *)
THEOREM FaultNotMaskedHolds == Spec => []FaultNotMasked
<1>1. Init => FaultLast
  BY DEF Init, FaultLast, FaultNotMasked, Settled
<1>2. IInv /\ FaultLast /\ [Next]_vars => FaultLast'
  BY FaultLastStep
<1>3. FaultLast => FaultNotMasked
  BY DEF FaultLast
<1> QED
  BY <1>1, <1>2, <1>3, InitIInv, StepInv, PTL DEF Spec

-----------------------------------------------------------------------------
(* A confirmed band is the amplifier's band.                               *)

Undisturbed == portUp /\ used["panel"] = 0 /\ used["stalls"] = 0
Confirming == pc \in {"bandWrite", "bandWait"}

(* While nobody disturbs, what is on the line during a confirmation is the *)
(* echo of the band that is being confirmed, and the amplifier is on it.   *)
(* Nothing is confirmed before the port was opened, which is what makes a  *)
(* port that comes back harmless.                                          *)
Undone == pc = "open" => followMatch = None
NotStalled == used["stalls"] = 0 => ~stalled
EchoOnly ==
  Undisturbed =>
    /\ pc = "bandWrite" => line = << >>
    /\ pc = "bandWait" => heard = None
    /\ pc = "bandWait" /\ line # << >> =>
         /\ line = << [q |-> "BN", v |-> target] >>
         /\ devBand = target
    /\ ~Confirming /\ followMatch = TRUE => devBand = followWire
BandInv == Undone /\ NotStalled /\ EchoOnly

(* What is spent on something else leaves these two alone.                 *)
LEMMA SpendOther ==
  ASSUME TypeOK, NEW b \in Budget \ {"panel", "stalls"}, Spend(b) \/ UNCHANGED used
  PROVE  used'["panel"] = used["panel"] /\ used'["stalls"] = used["stalls"]
BY DEF TypeOK, Spend, Budget

LEMMA LostOther ==
  ASSUME TypeOK, Lost \/ UNCHANGED used
  PROVE  used'["panel"] = used["panel"] /\ used'["stalls"] = used["stalls"]
<1>1. Spend("lost") \/ UNCHANGED used
  BY DEF Lost
<1> QED
  BY <1>1, SpendOther DEF Budget

LEMMA SpendDisturbs ==
  ASSUME TypeOK, NEW b \in {"panel", "stalls"}, Spend(b)
  PROVE  /\ used'[b] # 0
         /\ b = "panel" => used'["stalls"] = used["stalls"]
BY DEF TypeOK, Spend, Budget

(* A step that is not about the band leaves the confirmed one alone.       *)
LEMMA BandAside ==
  ASSUME BandInv, ~Confirming, ~Confirming', pc' = "open" => pc = "open",
         followMatch' = followMatch, followWire' = followWire, devBand' = devBand,
         stalled' = stalled, portUp' = portUp,
         used'["panel"] = used["panel"], used'["stalls"] = used["stalls"]
  PROVE  BandInv'
<1>1. Undone' /\ NotStalled'
  BY DEF BandInv, Undone, NotStalled
<1>2. EchoOnly'
  BY DEF BandInv, EchoOnly, Undisturbed, Confirming
<1> QED
  BY <1>1, <1>2 DEF BandInv

(* A step of somebody else, in the middle of a confirmation or not.        *)
LEMMA BandFrame ==
  ASSUME BandInv, pc' = pc, followMatch' = followMatch, followWire' = followWire,
         devBand' = devBand, target' = target, heard' = heard, line' = line,
         stalled' => stalled, portUp' => portUp,
         used'["panel"] = used["panel"], used'["stalls"] = used["stalls"]
  PROVE  BandInv'
<1>1. Undone' /\ NotStalled'
  BY DEF BandInv, Undone, NotStalled
<1>2. EchoOnly'
  BY DEF BandInv, EchoOnly, Undisturbed, Confirming
<1> QED
  BY <1>1, <1>2 DEF BandInv

(* One that disturbs.                                                      *)
LEMMA BandDisturbed ==
  ASSUME BandInv, pc' = pc, followMatch' = followMatch, ~Undisturbed',
         NotStalled'
  PROVE  BandInv'
BY DEF BandInv, Undone, EchoOnly

LEMMA BandQuerying ==
  ASSUME IInv, BandInv, Opening \/ Querying \/ Applying \/ Controlling
  PROVE  BandInv'
<1> USE DEF Confirming, IInv
<1>1. CASE Opening
  BY <1>1, BandAside DEF Opening, OpenPort, OpenFailed, StartJob, ctxVars, turnVars, devVars,
                         linkVars
<1>2. CASE Ask
  <2>1. used'["panel"] = used["panel"] /\ used'["stalls"] = used["stalls"]
    BY <1>2, LostOther DEF Ask
  <2> QED
    BY <1>2, <2>1, BandAside DEF Ask, ctxVars, devVars, linkVars
<1>3. CASE ReceiveOther \/ ReceiveDiscovery \/ ReceivePoll
  BY <1>3, BandAside DEF ReceiveOther, ReceiveDiscovery, ReceivePoll, AfterQuery, ctxVars,
                         devVars, linkVars
<1>4. CASE ReceiveVerify
  BY <1>4, BandAside DEF ReceiveVerify, StartPoll, StartJob, ctxVars, devVars, linkVars
<1>5. CASE GiveUp
  BY <1>5, BandAside DEF GiveUp, StartPoll, StartJob, AfterQuery, TypeOK, QueryTypeOK, ctxVars,
                         devVars, linkVars
<1>6. CASE Applying
  BY <1>6, BandAside DEF Applying, ApplyBegin, ApplyLine, ApplyEnd, ctxVars, devVars, linkVars
<1>7. CASE NoRequest \/ TakeRequest \/ SendError
  BY <1>7, BandAside DEF NoRequest, TakeRequest, SendError, StartPoll, StartJob, ctxVars,
                         devVars, linkVars
<1>8. CASE SendControl
  <2>1. used'["panel"] = used["panel"] /\ used'["stalls"] = used["stalls"]
    BY <1>8, LostOther DEF SendControl
  <2> QED
    BY <1>8, <2>1, BandAside DEF SendControl, StartJob, ctxVars, devVars, linkVars
<1> QED
  BY <1>1, <1>2, <1>3, <1>4, <1>5, <1>6, <1>7, <1>8 DEF Querying, Controlling

(* The confirmation: the line is drained, a band is written once or twice, *)
(* and only its own echo ends it well.                                     *)
LEMMA BandFollowing ==
  ASSUME IInv, BandInv, Following
  PROVE  BandInv'
<1> USE DEF Confirming
<1>0. TypeOK /\ Undone /\ NotStalled /\ EchoOnly /\ line \in Seq(Line)
  BY DEF IInv, BandInv, TypeOK
<1>1. CASE FollowSkip \/ FollowDecide
  BY <1>0, <1>1, BandAside DEF FollowSkip, FollowDecide, ctxVars, devVars, linkVars
<1>2. CASE Drain
  <2>1. /\ pc = "drain" /\ pc' = "bandWrite" /\ UNCHANGED <<used, stalled, portUp>>
        /\ line' = IF stalled THEN line ELSE << >>
    BY <1>2 DEF Drain, linkVars
  <2>2. EchoOnly'
    BY <1>0, <2>1 DEF EchoOnly, NotStalled, Undisturbed
  <2> QED
    BY <1>0, <2>1, <2>2 DEF BandInv, Undone, NotStalled
<1>3. CASE BandWrite
  <2>1. /\ pc = "bandWrite" /\ pc' = "bandWait" /\ heard' = None
        /\ UNCHANGED <<stalled, portUp, target, followMatch, followWire>>
        /\ \/ devBand' = target /\ Send([q |-> "BN", v |-> target])
           \/ UNCHANGED <<devBand, line>>
    BY <1>3 DEF BandWrite, linkVars, ctxVars
  <2>2. used'["panel"] = used["panel"] /\ used'["stalls"] = used["stalls"]
    BY <1>0, <1>3, LostOther DEF BandWrite
  <2>3. EchoOnly'
    <3> SUFFICES ASSUME Undisturbed' PROVE /\ heard' = None
                                          /\ line' # << >> =>
                                               /\ line' = << [q |-> "BN", v |-> target'] >>
                                               /\ devBand' = target'
      BY <2>1 DEF EchoOnly
    <3>1. Undisturbed /\ ~stalled /\ line = << >>
      BY <1>0, <2>1, <2>2 DEF Undisturbed, NotStalled, EchoOnly
    <3> QED
      BY <2>1, <3>1 DEF Send
  <2> QED
    BY <1>0, <2>1, <2>2, <2>3 DEF BandInv, Undone, NotStalled
<1>4. CASE BandWriteError
  <2>1. ~portUp /\ pc' = "control" /\ UNCHANGED <<portUp, stalled, used>>
    BY <1>4 DEF BandWriteError, linkVars
  <2> QED
    BY <1>0, <2>1 DEF BandInv, Undone, NotStalled, EchoOnly, Undisturbed
<1>5. CASE BandEcho
  <2> DEFINE m == Head(line)
  <2>1. /\ pc = "bandWait" /\ line # << >> /\ line' = Tail(line)
        /\ UNCHANGED <<stalled, portUp, target, devBand, used>>
        /\ IF m.q = "BN" /\ m.v = target
           THEN followWire' = target /\ pc' = "control"
           ELSE pc' = pc
    BY <1>5 DEF BandEcho, Arrived, FollowDone, linkVars, devVars
  <2>2. EchoOnly'
    <3> SUFFICES ASSUME Undisturbed' PROVE pc' = "control" /\ devBand' = followWire'
      BY DEF EchoOnly
    <3>1. line = << [q |-> "BN", v |-> target] >> /\ devBand = target
      BY <1>0, <2>1 DEF Undisturbed, EchoOnly
    <3>2. m = [q |-> "BN", v |-> target]
      BY <3>1
    <3> QED
      BY <2>1, <3>1, <3>2
  <2>3. pc' # "open"
    BY <2>1
  <2> QED
    BY <1>0, <2>1, <2>2, <2>3 DEF BandInv, Undone, NotStalled
<1>6. CASE BandSilence
  <2>1. /\ pc = "bandWait" /\ ~Arrived /\ pc' \in {"bandWrite", "control"}
        /\ UNCHANGED <<stalled, portUp, target, devBand, used, line>>
        /\ pc' = "control" => followMatch' = (heard = target)
    BY <1>6 DEF BandSilence, FollowDone, linkVars, devVars
  <2>2. target # None
    BY <2>1 DEF IInv
  <2>3. EchoOnly'
    <3> SUFFICES ASSUME Undisturbed'
        PROVE  /\ pc' = "bandWrite" => line' = << >>
               /\ ~(pc' = "bandWait")
               /\ ~Confirming' => ~followMatch'
      BY Zenon DEF EchoOnly
    <3>1. Undisturbed /\ ~stalled /\ heard = None
      BY <1>0, <2>1 DEF Undisturbed, NotStalled, EchoOnly
    <3>2. line' = << >>
      BY <2>1, <3>1 DEF Arrived
    <3>3. pc' = "control" => ~followMatch'
      BY <2>1, <2>2, <3>1
    <3>4. ~(pc' = "bandWait") /\ (~Confirming' => pc' = "control")
      BY <2>1 DEF Confirming
    <3> QED
      BY <3>2, <3>3, <3>4
  <2> QED
    BY <1>0, <2>1, <2>3 DEF BandInv, Undone, NotStalled
<1> QED
  BY <1>1, <1>2, <1>3, <1>4, <1>5, <1>6 DEF Following

LEMMA BandEnvironment ==
  ASSUME IInv, BandInv, Environment
  PROVE  BandInv'
<1>0. TypeOK /\ Undone /\ NotStalled /\ EchoOnly
  BY DEF IInv, BandInv
<1>1. CASE \/ PanelOperate \/ PanelFault \/ \E b \in Bands : PanelBand(b)
           \/ \E q \in TeleQuery \cap Polled : Measurement(q)
  <2>1. /\ Spend("panel") /\ pc' = pc /\ followMatch' = followMatch /\ stalled' = stalled
    BY <1>1 DEF PanelOperate, PanelFault, PanelBand, Measurement, ctxVars, linkVars
  <2>2. used'["panel"] # 0 /\ used'["stalls"] = used["stalls"]
    BY <1>0, <2>1, SpendDisturbs
  <2> QED
    BY <1>0, <2>1, <2>2, BandDisturbed DEF Undisturbed, NotStalled
<1>2. CASE PortLost
  <2>1. ~portUp' /\ ~stalled' /\ pc' = pc /\ followMatch' = followMatch
    BY <1>2 DEF PortLost, ctxVars
  <2> QED
    BY <2>1, BandDisturbed DEF Undisturbed, NotStalled
<1>3. CASE Stall
  <2>1. Spend("stalls") /\ pc' = pc /\ followMatch' = followMatch
    BY <1>3 DEF Stall, ctxVars
  <2>2. used'["stalls"] # 0
    BY <1>0, <2>1, SpendDisturbs
  <2> QED
    BY <2>1, <2>2, BandDisturbed DEF Undisturbed, NotStalled
<1>4. CASE Flow
  BY <1>4, BandFrame DEF Flow, ctxVars, turnVars, devVars
<1>5. CASE PortBack
  <2>1. pc = "open" /\ pc' = pc /\ followMatch' = None /\ UNCHANGED <<stalled, used>>
    BY <1>0, <1>5 DEF PortBack, ctxVars, Undone
  <2>2. None # TRUE
    BY NoneAssumption, Zenon
  <2>3. EchoOnly'
    BY <2>1, <2>2 DEF EchoOnly
  <2> QED
    BY <1>0, <2>1, <2>3 DEF BandInv, Undone, NotStalled
<1> QED
  BY <1>1, <1>2, <1>3, <1>4, <1>5 DEF Environment

LEMMA BandStep ==
  ASSUME IInv, BandInv, [Next]_vars
  PROVE  BandInv'
<1>0. TypeOK
  BY DEF IInv
<1>1. CASE OtherTasks
  <2>1. used'["panel"] = used["panel"] /\ used'["stalls"] = used["stalls"]
    <3>1. Spend("requests") \/ Spend("context") \/ UNCHANGED used
      BY <1>1 DEF OtherTasks, Request, BandChange, TunerChange, FlexTakesRequest
    <3> QED
      BY <1>0, <3>1, SpendOther DEF Budget
  <2> QED
    BY <1>1, <2>1, BandFrame DEF OtherTasks, Request, BandChange, TunerChange,
       FlexTakesRequest, ctxVars, turnVars, devVars, linkVars
<1>2. CASE UNCHANGED vars
  BY <1>2, BandFrame DEF vars, ctxVars, turnVars, devVars, linkVars
<1> QED
  BY <1>1, <1>2, BandQuerying, BandFollowing, BandEnvironment DEF Next, Driver

(* A band that is recorded as confirmed, and that the radio is still on,   *)
(* is the one the amplifier is on, as long as the port is there, answers   *)
(* come in time and nobody else changes the band: whatever commands are    *)
(* lost, and whatever the radio does in between (send_band_follow_         *)
(* confirmed, for any number of bands).                                    *)
THEOREM ConfirmedBandIsSetHolds == Spec => []ConfirmedBandIsSet
<1>1. Init => BandInv
  <2> SUFFICES ASSUME Init PROVE BandInv
    OBVIOUS
  <2>1. pc = "open" /\ followMatch = None /\ ~stalled
    BY DEF Init
  <2>2. None # TRUE
    BY NoneAssumption, Zenon
  <2> QED
    BY <2>1, <2>2 DEF BandInv, Undone, NotStalled, EchoOnly
<1>2. IInv /\ BandInv /\ [Next]_vars => BandInv'
  BY BandStep
<1>3. BandInv => ConfirmedBandIsSet
  BY DEF BandInv, EchoOnly, ConfirmedBandIsSet, ConfirmedBand, Undisturbed, Confirming
<1> QED
  BY <1>1, <1>2, <1>3, InitIInv, StepInv, PTL DEF Spec

=============================================================================
