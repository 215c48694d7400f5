-------------------------- MODULE KatDriverProofs --------------------------
(***************************************************************************)
(* Proofs about KatDriver, for all settings, frequencies, antennas, poll   *)
(* sequences and bounds.                                                   *)
(***************************************************************************)
EXTENDS KatDriver, SequenceTheorems, TLAPS

(* Groups of groups are always expanded.                                   *)
USE DEF shared, world

Jobs == {"discover", "poll", "refresh", "tune", "tp", "vswr", "antenna",
         "bypass"}

(* What each job puts on the line.                                         *)
QueriesOf(j) == CASE j = "discover" -> {"RV", "SN"}
                  [] j = "poll"     -> PollQuery
                  [] j = "tune"     -> {"T"}
                  [] j = "vswr"     -> {"VSWR"}
                  [] j = "antenna"  -> {"SetAN"}
                  [] j = "bypass"   -> {"SetBYP"}
                  [] OTHER          -> {"TP"}

(* TypeOK is not inductive alone: a query in progress has a head, each job *)
(* sends its own queries, T is sent only if that is permitted, antenna and *)
(* bypass commands carry the request taken, and a frequency being written  *)
(* is a frequency.                                                         *)
QueryInv == /\ pc \in {"ask", "wait"} => todo # << >>
            /\ todo \in Seq(QueriesOf(job))
CommandInv == pc = "ask" => /\ job = "tune" => MayTune
                            /\ job = "antenna" => takenAntenna # None
                            /\ job = "bypass" => takenBypass # None
FreqInv == pc \in {"drain", "freqWrite", "freqWait", "quiet"} => target # None
IInv == TypeOK /\ QueryInv /\ CommandInv /\ FreqInv

LEMMA QueriesAreCommands ==
  ASSUME NEW j \in Jobs
  PROVE  QueriesOf(j) \subseteq PollQuery \cup Command \cup {"RV", "SN"}
BY DEF Jobs, QueriesOf, PollQuery, Command

LEMMA InitIInv == Init => IInv
<1> SUFFICES ASSUME Init PROVE IInv
  OBVIOUS
<1>1. used \in [Budget -> Nat]
  BY DEF Init
<1>2. /\ unsolicited \in Seq(Line) /\ batch \in Seq(Line) /\ line \in Seq(Line)
      /\ todo \in Seq(PollQuery \cup Command \cup {"RV", "SN"})
      /\ todo \in Seq(QueriesOf(job))
      /\ answered \subseteq PollQuery
  BY DEF Init
<1>3. SharedTypeOK /\ DesiredTypeOK
  BY DEF Init, SharedTypeOK, DesiredTypeOK, Tuner
<1>4. LifecycleTypeOK /\ ResultTypeOK /\ FollowTypeOK /\ RadioTypeOK
  BY DEF Init, LifecycleTypeOK, ResultTypeOK, FollowTypeOK, RadioTypeOK
<1>5. QueryTypeOK /\ TakenTypeOK /\ FreqTypeOK
  BY <1>2 DEF Init, QueryTypeOK, TakenTypeOK, FreqTypeOK
<1> QED
  BY <1>1, <1>2, <1>3, <1>4, <1>5
     DEF Init, IInv, TypeOK, QueryInv, CommandInv, FreqInv

-----------------------------------------------------------------------------
(* A group of variables that a step leaves alone keeps its types.          *)
LEMMA Kept ==
  ASSUME TypeOK
  PROVE  /\ UNCHANGED <<linkState, tuner>> => SharedTypeOK'
         /\ UNCHANGED desired => DesiredTypeOK'
         /\ UNCHANGED lifecycle => LifecycleTypeOK'
         /\ UNCHANGED results => ResultTypeOK'
         /\ UNCHANGED follow => FollowTypeOK'
         /\ UNCHANGED radio => RadioTypeOK'
         /\ UNCHANGED query => QueryTypeOK' /\ todo' = todo /\ job' = job
         /\ UNCHANGED taken => /\ TakenTypeOK'
                               /\ takenAntenna' = takenAntenna
                               /\ takenBypass' = takenBypass
         /\ UNCHANGED freqVars => FreqTypeOK' /\ target' = target
         /\ UNCHANGED link => portUp' \in BOOLEAN /\ stalled' \in BOOLEAN
<1>1. UNCHANGED <<linkState, tuner>> => SharedTypeOK'
  BY DEF TypeOK, SharedTypeOK, linkState
<1>2. UNCHANGED desired => DesiredTypeOK'
  BY DEF TypeOK, DesiredTypeOK, desired
<1>3. UNCHANGED lifecycle => LifecycleTypeOK'
  BY DEF TypeOK, LifecycleTypeOK, lifecycle
<1>4. UNCHANGED results => ResultTypeOK'
  BY DEF TypeOK, ResultTypeOK, results
<1>5. UNCHANGED follow => FollowTypeOK'
  BY DEF TypeOK, FollowTypeOK, follow
<1>6. UNCHANGED radio => RadioTypeOK'
  BY DEF TypeOK, RadioTypeOK, radio
<1>7. UNCHANGED query => QueryTypeOK' /\ todo' = todo /\ job' = job
  BY DEF TypeOK, QueryTypeOK, query
<1>8. UNCHANGED taken => /\ TakenTypeOK' /\ takenAntenna' = takenAntenna
                         /\ takenBypass' = takenBypass
  BY DEF TypeOK, TakenTypeOK, taken
<1>9. UNCHANGED freqVars => FreqTypeOK' /\ target' = target
  BY DEF TypeOK, FreqTypeOK, freqVars
<1>10. UNCHANGED link => portUp' \in BOOLEAN /\ stalled' \in BOOLEAN
  BY DEF TypeOK, link
<1> QED
  BY <1>1, <1>2, <1>3, <1>4, <1>5, <1>6, <1>7, <1>8, <1>9, <1>10

(* The helpers the actions are built from keep the types of what they set. *)
LEMMA SendType ==
  ASSUME TypeOK, NEW m \in Line, Send(m)
  PROVE  line' \in Seq(Line)
BY DEF TypeOK, Send

LEMMA SpendType ==
  ASSUME TypeOK, NEW b \in Budget, Spend(b)
  PROVE  used' \in [Budget -> Nat]
BY DEF TypeOK, Spend

LEMMA LostType ==
  ASSUME TypeOK, Lost
  PROVE  used' \in [Budget -> Nat]
<1>1. CASE portUp
  BY <1>1, SpendType DEF Lost, Budget
<1>2. CASE ~portUp
  BY <1>2 DEF Lost, TypeOK
<1> QED
  BY <1>1, <1>2

LEMMA FirstLine ==
  ASSUME TypeOK, Arrived
  PROVE  Head(line) \in Line /\ Tail(line) \in Seq(Line)
BY DEF TypeOK, Arrived

(* A job that starts has its own queries to send.                          *)
LEMMA StartJobType ==
  ASSUME NEW j \in Jobs, NEW s \in Seq(QueriesOf(j)), s # << >>,
         StartJob(j, s)
  PROVE  QueryTypeOK' /\ QueryInv' /\ job' = j /\ pc' = "ask"
<1>1. s \in Seq(PollQuery \cup Command \cup {"RV", "SN"})
  BY QueriesAreCommands
<1>2. QueryTypeOK'
  BY <1>1 DEF StartJob, QueryTypeOK, Jobs
<1>3. QueryInv'
  BY DEF StartJob, QueryInv
<1> QED
  BY <1>2, <1>3 DEF StartJob

LEMMA StartPollType ==
  ASSUME StartPoll
  PROVE  QueryTypeOK' /\ QueryInv' /\ job' = "poll" /\ pc' = "ask"
<1>1. PollSeq \in Seq(QueriesOf("poll")) /\ PollSeq # << >>
  BY PollAssumption DEF QueriesOf
<1> QED
  BY <1>1, StartJobType DEF StartPoll, Jobs

(* A job of one query.                                                     *)
LEMMA StartOneType ==
  ASSUME NEW j \in Jobs, NEW c \in QueriesOf(j), StartJob(j, <<c>>)
  PROVE  QueryTypeOK' /\ QueryInv' /\ job' = j /\ pc' = "ask"
<1>1. <<c>> \in Seq(QueriesOf(j)) /\ <<c>> # << >>
  OBVIOUS
<1> QED
  BY <1>1, StartJobType

LEMMA AfterQueryType ==
  ASSUME TypeOK, QueryInv, todo # << >>, job' = job,
         NEW next \in {"turn", "apply"}, AfterQuery(next)
  PROVE  /\ todo' \in Seq(PollQuery \cup Command \cup {"RV", "SN"})
         /\ QueryInv'
         /\ pc' \in {"ask", next}
<1>1. Tail(todo) \in Seq(QueriesOf(job))
  BY DEF QueryInv
<1>2. Tail(todo) \in Seq(PollQuery \cup Command \cup {"RV", "SN"})
  BY DEF TypeOK, QueryTypeOK
<1> QED
  BY <1>1, <1>2 DEF QueryInv, AfterQuery

(* Parsing a line leaves a tuner.                                          *)
LEMMA ParsedType ==
  ASSUME NEW t \in Tuner, NEW m \in Line
  PROVE  Parsed(t, m) \in Tuner
<1>1. /\ m.q \in {"TP", "BYP", "FLT"} => m.v \in BOOLEAN
      /\ m.q = "AN" => m.v \in Antennas
  BY DEF Line
<1>2. CASE m.q = "TP"
  BY <1>1, <1>2 DEF Parsed, Tuner
<1>3. CASE m.q = "BYP"
  BY <1>1, <1>3 DEF Parsed, Tuner
<1>4. CASE m.q = "MD"
  BY <1>4 DEF Parsed, Tuner
<1>5. CASE m.q = "AN"
  BY <1>1, <1>5 DEF Parsed, Tuner
<1>6. CASE m.q = "FLT"
  BY <1>1, <1>6 DEF Parsed, Tuner
<1>7. CASE m.q \notin {"TP", "BYP", "MD", "AN", "FLT"}
  BY <1>7 DEF Parsed
<1> QED
  BY <1>2, <1>3, <1>4, <1>5, <1>6, <1>7

LEMMA TuneToType ==
  ASSUME TypeOK,
         NEW s \in {"Idle", "TuneRequested", "Tuning", "TuneFailed", "Cooldown"},
         NEW r \in {"initial", "tgxl", "accepted", "duplicate", "error", "tp0",
                    "cleared", "expired", "timeout", "completed"},
         TuneTo(s, r) \/ TuneThrough(s, r)
  PROVE  LifecycleTypeOK'
BY DEF TypeOK, LifecycleTypeOK, TuneTo, TuneThrough, lifecycle

LEMMA DropTakenType == DropTaken => TakenTypeOK'
BY DEF DropTaken, TakenTypeOK

LEMMA StartFrequencyType ==
  ASSUME TypeOK, freq # None, NEW p \in {"follow", "tune"}, StartFrequency(p)
  PROVE  FreqTypeOK' /\ target' # None /\ pc' = "drain"
BY DEF TypeOK, RadioTypeOK, FreqTypeOK, StartFrequency

(* Where the invariant asks nothing of the queries.                        *)
LEMMA Elsewhere ==
  ASSUME QueryInv, todo' = todo, job' = job, pc' \notin {"ask", "wait"}
  PROVE  QueryInv' /\ CommandInv'
BY DEF QueryInv, CommandInv

-----------------------------------------------------------------------------
(* Every action keeps IInv: one lemma for each.                            *)

LEMMA OpenPortInv ==
  ASSUME IInv, OpenPort
  PROVE  IInv'
<1>1. SharedTypeOK'
  BY DEF IInv, TypeOK, SharedTypeOK, OpenPort
<1>2. <<"RV", "SN">> \in Seq(QueriesOf("discover")) /\ <<"RV", "SN">> # << >>
  BY DEF QueriesOf
<1>3. QueryTypeOK' /\ QueryInv' /\ job' = "discover" /\ pc' = "ask"
  BY <1>2, StartJobType DEF OpenPort, Jobs
<1> QED
  BY <1>1, <1>3, Kept DEF IInv, TypeOK, CommandInv, FreqInv, OpenPort

LEMMA OpenFailedInv ==
  ASSUME IInv, OpenFailed
  PROVE  IInv'
<1>1. SharedTypeOK'
  BY DEF IInv, TypeOK, SharedTypeOK, OpenFailed
<1> QED
  BY <1>1, Kept, Elsewhere DEF IInv, TypeOK, FreqInv, OpenFailed

LEMMA AskInv ==
  ASSUME IInv, Ask
  PROVE  IInv'
<1>1. Head(todo) \in QueriesOf(job) /\ job \in Jobs
  BY DEF IInv, TypeOK, QueryTypeOK, QueryInv, Ask, Jobs
<1>2. /\ job = "antenna" => takenAntenna \in Antennas
      /\ job = "bypass" => takenBypass \in BOOLEAN
  BY DEF IInv, TypeOK, TakenTypeOK, CommandInv, Ask
<1>3. DeviceAnswer(Head(todo)) \in Line
  <2>1. CASE job = "antenna"
    BY <1>1, <1>2, <2>1 DEF QueriesOf, DeviceAnswer, Line
  <2>2. CASE job = "bypass"
    BY <1>1, <1>2, <2>2 DEF QueriesOf, DeviceAnswer, Line
  <2>3. CASE job \notin {"antenna", "bypass"}
    <3>1. Head(todo) \in PollQuery \cup {"RV", "SN", "T"}
      BY <1>1, <2>3 DEF QueriesOf, PollQuery, Jobs
    <3> QED
      BY <3>1 DEF DeviceAnswer, Line, PollQuery, IInv, TypeOK, Device
  <2> QED
    BY <2>1, <2>2, <2>3
<1>4. Effect(Head(todo)) \in Device
  <2>1. CASE job = "antenna"
    BY <1>1, <1>2, <2>1 DEF QueriesOf, Effect, Device, IInv, TypeOK
  <2>2. CASE job = "bypass"
    BY <1>1, <1>2, <2>2 DEF QueriesOf, Effect, Device, IInv, TypeOK
  <2>3. CASE job \notin {"antenna", "bypass"}
    <3>1. Head(todo) \in PollQuery \cup {"RV", "SN", "T"}
      BY <1>1, <2>3 DEF QueriesOf, PollQuery, Jobs
    <3> QED
      BY <3>1 DEF Effect, PollQuery, Device, IInv, TypeOK
  <2> QED
    BY <2>1, <2>2, <2>3
<1>5. dev' \in Device /\ line' \in Seq(Line) /\ used' \in [Budget -> Nat]
  <2>1. CASE /\ dev' = Effect(Head(todo))
             /\ Send(DeviceAnswer(Head(todo))) /\ UNCHANGED used
    BY <1>3, <1>4, <2>1, SendType DEF IInv, TypeOK
  <2>2. CASE /\ dev' = Effect(Head(todo))
             /\ Spend("lost") /\ UNCHANGED line
    BY <1>4, <2>2, SpendType DEF IInv, TypeOK, Budget
  <2>3. CASE Lost /\ UNCHANGED <<dev, line>>
    BY <2>3, LostType DEF IInv, TypeOK
  <2> QED
    BY <2>1, <2>2, <2>3 DEF Ask
<1>6. QueryTypeOK' /\ QueryInv' /\ CommandInv'
  BY DEF IInv, TypeOK, QueryTypeOK, QueryInv, CommandInv, Ask
<1> QED
  BY <1>5, <1>6, Kept DEF IInv, TypeOK, FreqInv, Ask

LEMMA ReceiveOtherInv ==
  ASSUME IInv, ReceiveOther
  PROVE  IInv'
<1>1. Head(line) \in Line /\ Tail(line) \in Seq(Line)
  BY FirstLine DEF IInv, ReceiveOther
<1>2. QueryTypeOK' /\ QueryInv' /\ CommandInv'
  BY <1>1 DEF IInv, TypeOK, QueryTypeOK, QueryInv, CommandInv, ReceiveOther
<1> QED
  BY <1>1, <1>2, Kept DEF IInv, TypeOK, FreqInv, ReceiveOther

LEMMA DiscoveredInv ==
  ASSUME IInv, Discovered
  PROVE  IInv'
<1>1. line' \in Seq(Line)
  BY FirstLine DEF IInv, TypeOK, Discovered, Answered
<1>2. /\ todo' \in Seq(PollQuery \cup Command \cup {"RV", "SN"})
      /\ QueryInv' /\ pc' \in {"ask", "turn"}
  BY AfterQueryType DEF IInv, QueryInv, Discovered
<1>3. QueryTypeOK' /\ CommandInv'
  BY <1>2 DEF IInv, TypeOK, QueryTypeOK, CommandInv, Discovered
<1> QED
  BY <1>1, <1>2, <1>3, Kept DEF IInv, TypeOK, FreqInv, Discovered

LEMMA ReceivePollInv ==
  ASSUME IInv, ReceivePoll
  PROVE  IInv'
<1>1. Head(line) \in Line /\ Tail(line) \in Seq(Line)
  BY FirstLine DEF IInv, ReceivePoll, Answered
<1>2. /\ todo' \in Seq(PollQuery \cup Command \cup {"RV", "SN"})
      /\ QueryInv' /\ pc' \in {"ask", "apply"}
  BY AfterQueryType DEF IInv, QueryInv, ReceivePoll
<1>3. Head(todo) \in PollQuery
  BY DEF IInv, QueryInv, QueriesOf, ReceivePoll
<1>4. batch' \in Seq(Line) /\ answered' \subseteq PollQuery
  BY <1>1, <1>3 DEF IInv, TypeOK, QueryTypeOK, ReceivePoll
<1>5. QueryTypeOK' /\ CommandInv'
  BY <1>2, <1>4 DEF IInv, TypeOK, QueryTypeOK, CommandInv, ReceivePoll
<1> QED
  BY <1>1, <1>2, <1>5, Kept DEF IInv, TypeOK, FreqInv, ReceivePoll

LEMMA PollUnansweredInv ==
  ASSUME IInv, PollUnanswered
  PROVE  IInv'
<1>1. /\ todo' \in Seq(PollQuery \cup Command \cup {"RV", "SN"})
      /\ QueryInv' /\ pc' \in {"ask", "apply"}
  BY AfterQueryType DEF IInv, QueryInv, PollUnanswered
<1>2. QueryTypeOK' /\ CommandInv'
  BY <1>1 DEF IInv, TypeOK, QueryTypeOK, CommandInv, PollUnanswered
<1> QED
  BY <1>1, <1>2, Kept DEF IInv, TypeOK, FreqInv, PollUnanswered

LEMMA ApplyBeginInv ==
  ASSUME IInv, ApplyBegin
  PROVE  IInv'
<1>1. SharedTypeOK'
  BY DEF IInv, TypeOK, SharedTypeOK, ApplyBegin
<1> QED
  BY <1>1, Kept, Elsewhere DEF IInv, TypeOK, FreqInv, ApplyBegin

LEMMA ApplyLineInv ==
  ASSUME IInv, ApplyLine
  PROVE  IInv'
<1>1. Head(batch) \in Line /\ Tail(batch) \in Seq(Line)
  BY DEF IInv, TypeOK, QueryTypeOK, ApplyLine
<1>2. SharedTypeOK'
  BY <1>1, ParsedType DEF IInv, TypeOK, SharedTypeOK, linkState, ApplyLine
<1>3. QueryTypeOK'
  BY <1>1 DEF IInv, TypeOK, QueryTypeOK, ApplyLine
<1> QED
  BY <1>2, <1>3, Kept, Elsewhere DEF IInv, TypeOK, FreqInv, ApplyLine

LEMMA ApplyEndInv ==
  ASSUME IInv, ApplyEnd
  PROVE  IInv'
<1> QED
  BY Kept, Elsewhere DEF IInv, TypeOK, FreqInv, ApplyEnd

LEMMA TurnBeginInv ==
  ASSUME IInv, TurnBegin
  PROVE  IInv'
<1>1. CASE pc' \in {"control", "follow"} /\ UNCHANGED query
  BY <1>1, Kept, Elsewhere DEF IInv, TypeOK, FreqInv, TurnBegin
<1>2. CASE StartJob("refresh", <<"TP">>)
  <2>1. QueryTypeOK' /\ QueryInv' /\ job' = "refresh" /\ pc' = "ask"
    BY <1>2, StartOneType DEF QueriesOf, Jobs
  <2> QED
    BY <2>1, Kept DEF IInv, TypeOK, CommandInv, FreqInv, TurnBegin
<1> QED
  BY <1>1, <1>2 DEF TurnBegin

LEMMA RefreshedInv ==
  ASSUME IInv, Refreshed
  PROVE  IInv'
<1>1. Head(line) \in Line /\ Tail(line) \in Seq(Line)
  BY FirstLine DEF IInv, Refreshed, Answered
<1>2. SharedTypeOK'
  BY <1>1, ParsedType DEF IInv, TypeOK, SharedTypeOK, linkState, Refreshed
<1>3. LifecycleTypeOK'
  BY TuneToType, Kept DEF IInv, Refreshed
<1> QED
  BY <1>1, <1>2, <1>3, Kept, Elsewhere DEF IInv, TypeOK, FreqInv, Refreshed

LEMMA RefreshUnansweredInv ==
  ASSUME IInv, RefreshUnanswered
  PROVE  IInv'
<1>1. CASE /\ tuner' = [tuner EXCEPT !.tuning = FALSE]
           /\ TuneThrough("Idle", "expired")
  <2>1. SharedTypeOK'
    BY <1>1 DEF IInv, TypeOK, SharedTypeOK, Tuner, linkState, RefreshUnanswered
  <2>2. LifecycleTypeOK'
    BY <1>1, TuneToType DEF IInv
  <2> QED
    BY <2>1, <2>2, Kept, Elsewhere
       DEF IInv, TypeOK, FreqInv, RefreshUnanswered
<1>2. CASE UNCHANGED <<tuner, lifecycle>>
  BY <1>2, Kept, Elsewhere DEF IInv, TypeOK, FreqInv, RefreshUnanswered
<1> QED
  BY <1>1, <1>2 DEF RefreshUnanswered

LEMMA FollowSkipInv ==
  ASSUME IInv, FollowSkip
  PROVE  IInv'
<1>1. FollowTypeOK'
  BY DEF IInv, TypeOK, FollowTypeOK, RadioTypeOK, FollowSkip
<1> QED
  BY <1>1, Kept, Elsewhere DEF IInv, TypeOK, FreqInv, FollowSkip

LEMMA FollowSendInv ==
  ASSUME IInv, FollowSend
  PROVE  IInv'
<1>1. FollowTypeOK'
  BY DEF IInv, TypeOK, FollowTypeOK, RadioTypeOK, FollowSend
<1>2. FreqTypeOK' /\ target' # None /\ pc' = "drain"
  BY StartFrequencyType DEF IInv, FollowSend, FollowDue
<1> QED
  BY <1>1, <1>2, Kept, Elsewhere DEF IInv, TypeOK, FreqInv, FollowSend

LEMMA DrainInv ==
  ASSUME IInv, Drain
  PROVE  IInv'
<1>1. line' \in Seq(Line)
  BY DEF IInv, TypeOK, Drain, Drained
<1> QED
  BY <1>1, Kept, Elsewhere DEF IInv, TypeOK, FreqInv, Drain

LEMMA FreqWriteInv ==
  ASSUME IInv, FreqWrite
  PROVE  IInv'
<1>1. target \in Freqs /\ [q |-> "F", v |-> target] \in Line
  BY DEF IInv, TypeOK, FreqTypeOK, FreqInv, Line, FreqWrite
<1>2. dev' \in Device /\ line' \in Seq(Line) /\ used' \in [Budget -> Nat]
  <2>1. CASE /\ dev' = [dev EXCEPT !.F = target]
             /\ Send([q |-> "F", v |-> target]) /\ UNCHANGED used
    BY <1>1, <2>1, SendType DEF IInv, TypeOK, Device
  <2>2. CASE /\ dev' = [dev EXCEPT !.F = target]
             /\ Spend("lost") /\ UNCHANGED line
    BY <1>1, <2>2, SpendType DEF IInv, TypeOK, Device, Budget
  <2>3. CASE Lost /\ UNCHANGED <<dev, line>>
    BY <2>3, LostType DEF IInv, TypeOK
  <2> QED
    BY <2>1, <2>2, <2>3 DEF FreqWrite
<1>3. FreqTypeOK' /\ target' = target
  BY DEF IInv, TypeOK, FreqTypeOK, FreqWrite
<1> QED
  BY <1>2, <1>3, Kept, Elsewhere DEF IInv, TypeOK, FreqInv, FreqWrite

LEMMA FreqLineInv ==
  ASSUME IInv, FreqLine
  PROVE  IInv'
<1>1. Head(line) \in Line /\ Tail(line) \in Seq(Line)
  BY FirstLine DEF IInv, FreqLine
<1>2. FreqTypeOK' /\ target' = target
  BY <1>1 DEF IInv, TypeOK, FreqTypeOK, FreqLine
<1>3. pc' \in {"freqWait", "quiet"}
  BY DEF FreqLine
<1> QED
  BY <1>1, <1>2, <1>3, Kept, Elsewhere DEF IInv, TypeOK, FreqInv, FreqLine

LEMMA FreqSilenceInv ==
  ASSUME IInv, FreqSilence
  PROVE  IInv'
<1>1. FreqTypeOK' /\ target' = target
  BY DEF IInv, TypeOK, FreqTypeOK, FreqSilence
<1>2. pc' \in {"freqWrite", "quiet"}
  BY DEF FreqSilence
<1> QED
  BY <1>1, <1>2, Kept, Elsewhere DEF IInv, TypeOK, FreqInv, FreqSilence

LEMMA FreqDoneInv ==
  ASSUME IInv, FreqDone
  PROVE  IInv'
<1>1. line' \in Seq(Line)
  BY DEF IInv, TypeOK, FreqDone, Drained
<1>2. SharedTypeOK'
  BY ParsedType
     DEF IInv, TypeOK, SharedTypeOK, FreqTypeOK, linkState, FreqDone
<1>3. FollowTypeOK'
  BY DEF IInv, TypeOK, FollowTypeOK, FreqTypeOK, FreqDone
<1>4. pc' \in {"control", "tuneSend"}
  BY DEF FreqDone, AfterFrequency
<1> QED
  BY <1>1, <1>2, <1>3, <1>4, Kept, Elsewhere
     DEF IInv, TypeOK, FreqInv, FreqDone

LEMMA FreqErrorInv ==
  ASSUME IInv, FreqError
  PROVE  IInv'
<1>1. pc' \in {"control", "tuneSend"}
  BY DEF FreqError, AfterFrequency
<1> QED
  BY <1>1, Kept, Elsewhere DEF IInv, TypeOK, FreqInv, FreqError

LEMMA TakeRequestsInv ==
  ASSUME IInv, TakeRequests
  PROVE  IInv'
<1>1. DesiredTypeOK' /\ TakenTypeOK'
  BY DEF IInv, TypeOK, DesiredTypeOK, TakenTypeOK, TakeRequests
<1>2. pc' \in {"accept", "antenna"}
  BY DEF TakeRequests
<1> QED
  BY <1>1, <1>2, Kept, Elsewhere DEF IInv, TypeOK, FreqInv, TakeRequests

LEMMA SuppressTuneInv ==
  ASSUME IInv, SuppressTune
  PROVE  IInv'
<1>1. LifecycleTypeOK' /\ TakenTypeOK'
  BY TuneToType, DropTakenType DEF IInv, SuppressTune
<1>2. QueryTypeOK' /\ QueryInv' /\ job' = "poll" /\ pc' = "ask"
  BY StartPollType DEF SuppressTune
<1> QED
  BY <1>1, <1>2, Kept
     DEF IInv, TypeOK, CommandInv, FreqInv, SuppressTune

LEMMA AcceptTuneInv ==
  ASSUME IInv, AcceptTune
  PROVE  IInv'
<1>1. LifecycleTypeOK' /\ RadioTypeOK' /\ ResultTypeOK'
  BY TuneToType
     DEF IInv, TypeOK, RadioTypeOK, ResultTypeOK, AcceptTune
<1>2. CASE freq # None /\ StartFrequency("tune")
  <2>1. FreqTypeOK' /\ target' # None /\ pc' = "drain"
    BY <1>2, StartFrequencyType DEF IInv
  <2> QED
    BY <1>1, <2>1, Kept, Elsewhere DEF IInv, TypeOK, FreqInv, AcceptTune
<1>3. CASE pc' = "tuneSend" /\ UNCHANGED freqVars
  BY <1>1, <1>3, Kept, Elsewhere DEF IInv, TypeOK, FreqInv, AcceptTune
<1> QED
  BY <1>2, <1>3 DEF AcceptTune

LEMMA TuneFailsType ==
  ASSUME IInv, TuneFails
  PROVE  /\ LifecycleTypeOK' /\ ResultTypeOK' /\ TakenTypeOK'
         /\ QueryTypeOK' /\ QueryInv' /\ job' = "poll" /\ pc' = "ask"
<1>1. ResultTypeOK'
  BY DEF IInv, TypeOK, ResultTypeOK, TuneFails
<1> QED
  BY <1>1, TuneToType, DropTakenType, StartPollType DEF IInv, TuneFails

LEMMA TuneBlockedInv ==
  ASSUME IInv, TuneBlocked
  PROVE  IInv'
<1> QED
  BY TuneFailsType, Kept DEF IInv, TypeOK, CommandInv, FreqInv, TuneBlocked

LEMMA TuneUnansweredInv ==
  ASSUME IInv, TuneUnanswered
  PROVE  IInv'
<1> QED
  BY TuneFailsType, Kept DEF IInv, TypeOK, CommandInv, FreqInv, TuneUnanswered

LEMMA TuneSendInv ==
  ASSUME IInv, TuneSend
  PROVE  IInv'
<1>1. QueryTypeOK' /\ QueryInv' /\ job' = "tune" /\ pc' = "ask"
  BY StartOneType DEF TuneSend, QueriesOf, Jobs
<1> QED
  BY <1>1, Kept DEF IInv, TypeOK, CommandInv, FreqInv, TuneSend, MayTune

LEMMA TuneAnsweredInv ==
  ASSUME IInv, TuneAnswered
  PROVE  IInv'
<1>1. Tail(line) \in Seq(Line)
  BY FirstLine DEF IInv, TuneAnswered, Answered
<1>2. QueryTypeOK' /\ QueryInv' /\ job' = "tp" /\ pc' = "ask"
  BY StartOneType DEF TuneAnswered, QueriesOf, Jobs
<1> QED
  BY <1>1, <1>2, Kept DEF IInv, TypeOK, CommandInv, FreqInv, TuneAnswered

(* The watch asks again or ends with VSWR.                                 *)
LEMMA StillTuningType ==
  ASSUME IInv, NEW t \in Tuner, StillTuning(t)
  PROVE  /\ tuner' \in Tuner /\ LifecycleTypeOK' /\ expired' \in BOOLEAN
         /\ QueryTypeOK' /\ QueryInv' /\ job' \in {"tp", "vswr"} /\ pc' = "ask"
<1>1. CASE late
  <2>1. [t EXCEPT !.tuning = FALSE] \in Tuner
    BY DEF Tuner
  <2>2. QueryTypeOK' /\ QueryInv' /\ job' = "vswr" /\ pc' = "ask"
    BY <1>1, StartOneType DEF StillTuning, QueriesOf, Jobs
  <2> QED
    BY <1>1, <2>1, <2>2, TuneToType DEF IInv, StillTuning
<1>2. CASE ~late
  <2>1. QueryTypeOK' /\ QueryInv' /\ job' = "tp" /\ pc' = "ask"
    BY <1>2, StartOneType DEF StillTuning, QueriesOf, Jobs
  <2> QED
    BY <1>2, <2>1, Kept DEF IInv, TypeOK, StillTuning
<1> QED
  BY <1>1, <1>2

LEMMA TpAnsweredInv ==
  ASSUME IInv, TpAnswered
  PROVE  IInv'
<1> DEFINE t == Parsed(tuner, Head(line))
<1>1. t \in Tuner /\ Tail(line) \in Seq(Line)
  BY FirstLine, ParsedType
     DEF IInv, TypeOK, SharedTypeOK, TpAnswered, Answered
<1>2. CASE t.tuning
  <2>1. StillTuning(t)
    BY <1>2 DEF TpAnswered
  <2>2. /\ tuner' \in Tuner /\ LifecycleTypeOK' /\ expired' \in BOOLEAN
        /\ QueryTypeOK' /\ QueryInv' /\ job' \in {"tp", "vswr"}
        /\ pc' = "ask"
    BY <1>1, <2>1, StillTuningType
  <2>3. SharedTypeOK'
    BY <2>2 DEF IInv, TypeOK, SharedTypeOK, linkState, TpAnswered
  <2> QED
    BY <1>1, <2>2, <2>3, Kept
       DEF IInv, TypeOK, CommandInv, FreqInv, TpAnswered
<1>3. CASE ~t.tuning
  <2>1. /\ tuner' = t /\ TuneTo("Idle", "tp0")
        /\ StartJob("vswr", <<"VSWR">>) /\ UNCHANGED expired
    BY <1>3 DEF TpAnswered
  <2>2. QueryTypeOK' /\ QueryInv' /\ job' = "vswr" /\ pc' = "ask"
    BY <2>1, StartOneType DEF QueriesOf, Jobs
  <2>3. SharedTypeOK'
    BY <1>1, <2>1 DEF IInv, TypeOK, SharedTypeOK, linkState, TpAnswered
  <2>4. LifecycleTypeOK'
    BY <2>1, TuneToType DEF IInv
  <2> QED
    BY <1>1, <2>1, <2>2, <2>3, <2>4, Kept
       DEF IInv, TypeOK, CommandInv, FreqInv, TpAnswered
<1> QED
  BY <1>2, <1>3

LEMMA TpUnansweredInv ==
  ASSUME IInv, TpUnanswered
  PROVE  IInv'
<1>1. tuner \in Tuner /\ StillTuning(tuner)
  BY DEF IInv, TypeOK, SharedTypeOK, TpUnanswered
<1>2. /\ tuner' \in Tuner /\ LifecycleTypeOK' /\ expired' \in BOOLEAN
      /\ QueryTypeOK' /\ QueryInv' /\ job' \in {"tp", "vswr"} /\ pc' = "ask"
  BY <1>1, StillTuningType
<1>3. SharedTypeOK'
  BY <1>2 DEF IInv, TypeOK, SharedTypeOK, linkState, TpUnanswered
<1> QED
  BY <1>2, <1>3, Kept DEF IInv, TypeOK, CommandInv, FreqInv, TpUnanswered

LEMMA TuneDoneInv ==
  ASSUME IInv, TuneDone
  PROVE  IInv'
<1>1. line' \in Seq(Line)
  BY FirstLine DEF IInv, TypeOK, TuneDone, Answered
<1>2. LifecycleTypeOK' /\ ResultTypeOK'
  BY TuneToType DEF IInv, TypeOK, ResultTypeOK, TuneDone
<1> QED
  BY <1>1, <1>2, Kept, Elsewhere DEF IInv, TypeOK, FreqInv, TuneDone

LEMMA AntennaStepInv ==
  ASSUME IInv, AntennaStep
  PROVE  IInv'
<1>1. CASE pc' = "bypass" /\ UNCHANGED <<query, taken>>
  BY <1>1, Kept, Elsewhere DEF IInv, TypeOK, FreqInv, AntennaStep
<1>2. CASE /\ takenAntenna # None
           /\ StartJob("antenna", <<"SetAN">>) /\ UNCHANGED taken
  <2>1. QueryTypeOK' /\ QueryInv' /\ job' = "antenna" /\ pc' = "ask"
    BY <1>2, StartOneType DEF QueriesOf, Jobs
  <2> QED
    BY <1>2, <2>1, Kept DEF IInv, TypeOK, CommandInv, FreqInv, AntennaStep
<1>3. CASE StartPoll /\ DropTaken
  BY <1>3, StartPollType, DropTakenType, Kept
     DEF IInv, TypeOK, CommandInv, FreqInv, AntennaStep
<1> QED
  BY <1>1, <1>2, <1>3 DEF AntennaStep

LEMMA AntennaDoneInv ==
  ASSUME IInv, AntennaDone
  PROVE  IInv'
<1>1. line' \in Seq(Line)
  BY FirstLine DEF IInv, TypeOK, AntennaDone, Answered
<1>2. CASE /\ pc' = "bypass" /\ takenAntenna' = None
           /\ UNCHANGED <<query, takenBypass>>
  <2>1. TakenTypeOK'
    BY <1>2 DEF IInv, TypeOK, TakenTypeOK
  <2> QED
    BY <1>1, <1>2, <2>1, Kept, Elsewhere DEF IInv, TypeOK, FreqInv, AntennaDone
<1>3. CASE StartPoll /\ DropTaken
  BY <1>1, <1>3, StartPollType, DropTakenType, Kept
     DEF IInv, TypeOK, CommandInv, FreqInv, AntennaDone
<1> QED
  BY <1>2, <1>3 DEF AntennaDone

LEMMA BypassStepInv ==
  ASSUME IInv, BypassStep
  PROVE  IInv'
<1>1. CASE /\ takenBypass # None
           /\ StartJob("bypass", <<"SetBYP">>) /\ UNCHANGED taken
  <2>1. QueryTypeOK' /\ QueryInv' /\ job' = "bypass" /\ pc' = "ask"
    BY <1>1, StartOneType DEF QueriesOf, Jobs
  <2> QED
    BY <1>1, <2>1, Kept DEF IInv, TypeOK, CommandInv, FreqInv, BypassStep
<1>2. CASE StartPoll /\ DropTaken
  BY <1>2, StartPollType, DropTakenType, Kept
     DEF IInv, TypeOK, CommandInv, FreqInv, BypassStep
<1> QED
  BY <1>1, <1>2 DEF BypassStep

LEMMA BypassDoneInv ==
  ASSUME IInv, BypassDone
  PROVE  IInv'
<1>1. line' \in Seq(Line)
  BY FirstLine DEF IInv, TypeOK, BypassDone, Answered
<1> QED
  BY <1>1, StartPollType, DropTakenType, Kept
     DEF IInv, TypeOK, CommandInv, FreqInv, BypassDone

LEMMA ClockInv ==
  ASSUME IInv, Clock
  PROVE  IInv'
<1>1. CASE CooldownEnds
  <2>1. RadioTypeOK'
    BY <1>1 DEF IInv, TypeOK, RadioTypeOK, CooldownEnds
  <2> QED
    BY <1>1, <2>1, Kept
       DEF IInv, TypeOK, QueryInv, CommandInv, FreqInv, CooldownEnds
<1>2. CASE FifteenSecondsPass
  BY <1>2, Kept
     DEF IInv, TypeOK, QueryInv, CommandInv, FreqInv, FifteenSecondsPass
<1>3. CASE ThirtySecondsPass
  <2>1. LifecycleTypeOK'
    BY <1>3 DEF IInv, TypeOK, LifecycleTypeOK, ThirtySecondsPass
  <2> QED
    BY <1>3, <2>1, Kept
       DEF IInv, TypeOK, QueryInv, CommandInv, FreqInv, ThirtySecondsPass
<1> QED
  BY <1>1, <1>2, <1>3 DEF Clock

LEMMA OtherTasksInv ==
  ASSUME IInv, OtherTasks
  PROVE  IInv'
<1>1. CASE Autotune
  <2>1. used' \in [Budget -> Nat] /\ LifecycleTypeOK' /\ DesiredTypeOK'
    BY <1>1, SpendType, TuneToType
       DEF IInv, TypeOK, DesiredTypeOK, Autotune, Budget
  <2> QED
    BY <1>1, <2>1, Kept
       DEF IInv, TypeOK, QueryInv, CommandInv, FreqInv, Autotune
<1>2. ASSUME NEW a \in Antennas, Activate(a) PROVE IInv'
  <2>1. used' \in [Budget -> Nat] /\ DesiredTypeOK'
    BY <1>2, SpendType DEF IInv, TypeOK, DesiredTypeOK, Activate, Budget
  <2> QED
    BY <1>2, <2>1, Kept
       DEF IInv, TypeOK, QueryInv, CommandInv, FreqInv, Activate
<1>3. ASSUME NEW v \in BOOLEAN, Bypass(v) PROVE IInv'
  <2>1. used' \in [Budget -> Nat] /\ DesiredTypeOK'
    BY <1>3, SpendType DEF IInv, TypeOK, DesiredTypeOK, Bypass, Budget
  <2> QED
    BY <1>3, <2>1, Kept
       DEF IInv, TypeOK, QueryInv, CommandInv, FreqInv, Bypass
<1>4. ASSUME NEW v \in BOOLEAN, Operate(v) PROVE IInv'
  <2>1. used' \in [Budget -> Nat] /\ SharedTypeOK'
    BY <1>4, SpendType
       DEF IInv, TypeOK, SharedTypeOK, Tuner, linkState, Operate, Budget
  <2> QED
    BY <1>4, <2>1, Kept
       DEF IInv, TypeOK, QueryInv, CommandInv, FreqInv, Operate
<1>5. ASSUME NEW f \in Freqs \cup {None}, FrequencyChange(f) PROVE IInv'
  <2>1. used' \in [Budget -> Nat] /\ RadioTypeOK'
    BY <1>5, SpendType DEF IInv, TypeOK, RadioTypeOK, FrequencyChange, Budget
  <2> QED
    BY <1>5, <2>1, Kept
       DEF IInv, TypeOK, QueryInv, CommandInv, FreqInv, FrequencyChange
<1> QED
  BY <1>1, <1>2, <1>3, <1>4, <1>5 DEF OtherTasks

LEMMA EnvironmentInv ==
  ASSUME IInv, Environment
  PROVE  IInv'
<1>1. CASE TuneEnds
  <2>1. dev' \in Device
    BY <1>1 DEF IInv, TypeOK, Device, TuneEnds
  <2> QED
    BY <1>1, <2>1, Kept
       DEF IInv, TypeOK, QueryInv, CommandInv, FreqInv, TuneEnds
<1>2. ASSUME NEW q \in Reported \cup {"F"}, Panel(q) PROVE IInv'
  <2>1. used' \in [Budget -> Nat] /\ dev' \in Device
    BY <1>2, SpendType DEF IInv, Panel, Budget
  <2> QED
    BY <1>2, <2>1, Kept
       DEF IInv, TypeOK, QueryInv, CommandInv, FreqInv, Panel
<1>3. ASSUME NEW q \in Reported, Announce(q) PROVE IInv'
  <2>1. [q |-> q, v |-> dev[q]] \in Line
    BY DEF IInv, TypeOK, Device, Line, Reported
  <2>2. used' \in [Budget -> Nat] /\ line' \in Seq(Line)
    BY <1>3, <2>1, SpendType, SendType DEF IInv, Announce, Budget
  <2> QED
    BY <1>3, <2>2, Kept
       DEF IInv, TypeOK, QueryInv, CommandInv, FreqInv, Announce
<1>4. CASE PortLost
  <2>1. used' \in [Budget -> Nat] /\ line' \in Seq(Line)
    BY <1>4, SpendType DEF IInv, PortLost, Budget
  <2> QED
    BY <1>4, <2>1, Kept
       DEF IInv, TypeOK, QueryInv, CommandInv, FreqInv, PortLost
<1>5. CASE PortBack
  BY <1>5, Kept DEF IInv, TypeOK, QueryInv, CommandInv, FreqInv, PortBack
<1>6. CASE Stall
  <2>1. used' \in [Budget -> Nat]
    BY <1>6, SpendType DEF IInv, Stall, Budget
  <2> QED
    BY <1>6, <2>1, Kept
       DEF IInv, TypeOK, QueryInv, CommandInv, FreqInv, Stall
<1>7. CASE Flow
  <2>1. QueryInv' /\ CommandInv' /\ FreqInv'
    BY <1>7, Kept DEF IInv, QueryInv, CommandInv, FreqInv, Flow
  <2> QED
    BY <1>7, <2>1, Kept DEF IInv, TypeOK, Flow
<1> QED
  BY <1>1, <1>2, <1>3, <1>4, <1>5, <1>6, <1>7 DEF Environment

LEMMA StutterInv ==
  ASSUME IInv, UNCHANGED vars
  PROVE  IInv'
<1> QED
  BY Kept DEF IInv, TypeOK, QueryInv, CommandInv, FreqInv, vars

LEMMA StepInv == IInv /\ [Next]_vars => IInv'
<1> SUFFICES ASSUME IInv, [Next]_vars PROVE IInv'
  OBVIOUS
<1>1. CASE Opening
  BY <1>1, OpenPortInv, OpenFailedInv DEF Opening
<1>2. CASE Querying
  BY <1>2, AskInv, ReceiveOtherInv, DiscoveredInv DEF Querying
<1>3. CASE Polling
  BY <1>3, ReceivePollInv, PollUnansweredInv, ApplyBeginInv, ApplyLineInv,
     ApplyEndInv DEF Polling
<1>4. CASE Following
  BY <1>4, TurnBeginInv, RefreshedInv, RefreshUnansweredInv, FollowSkipInv,
     FollowSendInv DEF Following
<1>5. CASE Sending
  BY <1>5, DrainInv, FreqWriteInv, FreqLineInv, FreqSilenceInv, FreqDoneInv,
     FreqErrorInv DEF Sending
<1>6. CASE Tuning
  BY <1>6, TakeRequestsInv, SuppressTuneInv, AcceptTuneInv, TuneBlockedInv,
     TuneSendInv, TuneUnansweredInv, TuneAnsweredInv, TpAnsweredInv,
     TpUnansweredInv, TuneDoneInv DEF Tuning
<1>7. CASE Switching
  BY <1>7, AntennaStepInv, AntennaDoneInv, BypassStepInv, BypassDoneInv
     DEF Switching
<1>8. CASE Clock
  BY <1>8, ClockInv
<1>9. CASE OtherTasks
  BY <1>9, OtherTasksInv
<1>10. CASE Environment
  BY <1>10, EnvironmentInv
<1>11. CASE UNCHANGED vars
  BY <1>11, StutterInv
<1> QED
  BY <1>1, <1>2, <1>3, <1>4, <1>5, <1>6, <1>7, <1>8, <1>9, <1>10, <1>11
     DEF Next, Driver

(* Whatever the settings, frequencies, antennas, poll sequence and the     *)
(* behaviour of tuner and line, every variable keeps its type: what is put *)
(* on the line and what is parsed from it is always a line of the tuner.   *)
THEOREM TypeCorrect == Spec => []TypeOK
<1>1. IInv => TypeOK
  BY DEF IInv
<1> QED
  BY InitIInv, StepInv, <1>1, PTL DEF Spec

-----------------------------------------------------------------------------
(* Every step of the driver is a step of TuneControl or leaves its         *)
(* variables alone.                                                        *)
InHand == \/ pc = "tuneSend"
          \/ /\ pc \in {"drain", "freqWrite", "freqWait", "quiet"}
             /\ purpose = "tune"
          \/ pc = "ask" /\ job = "tune"
Pending == (IF wantTune THEN 1 ELSE 0) + (IF pc = "accept" THEN 1 ELSE 0)

LEMMA PanelKept ==
  ASSUME TypeOK, NEW b \in Budget \ {"panel"}, Spend(b)
  PROVE  used'["panel"] = used["panel"]
BY DEF TypeOK, Spend, Budget

LEMMA LostPanel ==
  ASSUME TypeOK, Lost \/ Spend("lost") \/ UNCHANGED used
  PROVE  used'["panel"] = used["panel"]
<1>1. CASE Spend("lost")
  BY <1>1, PanelKept DEF Budget
<1> QED
  BY <1>1 DEF Lost

(* What a step must keep to leave the variables of TuneControl alone.      *)
LEMMA ControlStutter ==
  ASSUME Pending' = Pending, recent' = recent, InHand' = InHand,
         dev'.TP = dev.TP, used'["panel"] = used["panel"]
  PROVE  UNCHANGED Control!vars
BY DEF Control!vars, Pending, InHand

(* A step that only leaves a place outside the tune for another.           *)
Outside == {"open", "wait", "apply", "fold", "turn", "follow", "control",
            "antenna", "bypass"}
LEMMA OutsideStutter ==
  ASSUME pc \in Outside, pc' \in Outside \cup {"ask"},
         pc' = "ask" => job' # "tune",
         UNCHANGED <<wantTune, recent>>,
         dev'.TP = dev.TP, used'["panel"] = used["panel"]
  PROVE  UNCHANGED Control!vars
<1>1. Pending' = Pending /\ InHand' = InHand
  BY DEF Outside, Pending, InHand
<1> QED
  BY <1>1, ControlStutter

LEMMA AskControl ==
  ASSUME IInv, Ask
  PROVE  [Control!Next]_(Control!vars)
<1>1. used'["panel"] = used["panel"]
  BY LostPanel DEF IInv, Ask
<1>2. Pending' = Pending /\ recent' = recent /\ ~InHand'
  BY DEF Ask, Pending, InHand, desired, radio
<1>3. Head(todo) \in QueriesOf(job) /\ job \in Jobs
  BY DEF IInv, TypeOK, QueryTypeOK, QueryInv, Ask, Jobs
<1>4. CASE job = "tune"
  <2>1. MayTune /\ InHand
    BY <1>4 DEF IInv, CommandInv, Ask, InHand
  <2>2. CASE dev' = Effect(Head(todo))
    <3>1. dev'.TP = TRUE
      BY <1>3, <1>4, <2>2 DEF QueriesOf, Effect, IInv, TypeOK, Device
    <3>2. Control!Start
      BY <1>1, <1>2, <2>1, <3>1 DEF Control!Start, Pending, InHand
    <3> QED
      BY <3>2 DEF Control!Next
  <2>3. CASE UNCHANGED dev
    <3>1. Control!Abandon
      BY <1>1, <1>2, <2>1, <2>3 DEF Control!Abandon, Pending, InHand
    <3> QED
      BY <3>1 DEF Control!Next
  <2> QED
    BY <2>2, <2>3 DEF Ask
<1>5. CASE job # "tune"
  <2>1. Head(todo) # "T"
    BY <1>3, <1>5 DEF QueriesOf, PollQuery, Jobs
  <2>2. dev'.TP = dev.TP
    BY <2>1 DEF Ask, Effect, IInv, TypeOK, Device
  <2>3. InHand' = InHand
    BY <1>5 DEF Ask, InHand
  <2> QED
    BY <1>1, <1>2, <2>2, <2>3, ControlStutter
<1> QED
  BY <1>4, <1>5

LEMMA SendingControl ==
  ASSUME IInv, Sending
  PROVE  UNCHANGED Control!vars
<1>1. /\ pc \in {"drain", "freqWrite", "freqWait", "quiet"}
      /\ UNCHANGED <<wantTune, recent, purpose>>
  BY DEF Sending, Drain, FreqWrite, FreqLine, FreqSilence, FreqDone,
         FreqError, desired, radio, freqVars
<1>2. pc' \in {"freqWrite", "freqWait", "quiet", AfterFrequency}
  BY <1>1 DEF Sending, Drain, FreqWrite, FreqLine, FreqSilence, FreqDone,
              FreqError
<1>3. dev'.TP = dev.TP
  BY DEF Sending, Drain, FreqWrite, FreqLine, FreqSilence, FreqDone,
         FreqError, IInv, TypeOK, Device
<1>4. used'["panel"] = used["panel"]
  BY LostPanel DEF IInv, Sending, Drain, FreqWrite, FreqLine, FreqSilence,
                   FreqDone, FreqError
<1>5. Pending' = Pending /\ InHand' = InHand
  <2>1. purpose \in {"follow", "tune"}
    BY DEF IInv, TypeOK, FreqTypeOK
  <2> QED
    BY <1>1, <1>2, <2>1 DEF AfterFrequency, Pending, InHand
<1> QED
  BY <1>1, <1>3, <1>4, <1>5, ControlStutter

LEMMA TuningControl ==
  ASSUME IInv, Tuning
  PROVE  [Control!Next]_(Control!vars)
<1>1. UNCHANGED <<dev, used>>
  BY DEF Tuning, TakeRequests, SuppressTune, AcceptTune, TuneBlocked, TuneSend,
         TuneUnanswered, TuneAnswered, TpAnswered, TpUnanswered, TuneDone
<1>2. CASE TakeRequests
  <2>1. Pending' = Pending /\ InHand' = InHand /\ recent' = recent
    BY <1>2 DEF TakeRequests, Pending, InHand, radio, IInv, TypeOK,
                DesiredTypeOK
  <2> QED
    BY <1>1, <2>1, ControlStutter
<1>3. CASE SuppressTune
  <2>1. pc' = "ask" /\ job' = "poll" /\ UNCHANGED <<wantTune, recent>>
    BY <1>3 DEF SuppressTune, StartPoll, StartJob, desired, radio
  <2>2. /\ Pending = (IF wantTune THEN 1 ELSE 0) + 1
        /\ Pending' = (IF wantTune THEN 1 ELSE 0) + 0
        /\ InHand' = InHand
    BY <1>3, <2>1 DEF SuppressTune, Pending, InHand
  <2>3. Pending > 0 /\ Pending' = Pending - 1 /\ InHand' = InHand
    BY <2>2
  <2>4. Control!Suppress
    BY <1>1, <1>3, <2>1, <2>3 DEF Control!Suppress, SuppressTune, Pending, InHand
  <2> QED
    BY <2>4 DEF Control!Next
<1>4. CASE AcceptTune
  <2>1. /\ \/ pc' = "tuneSend"
           \/ pc' = "drain" /\ purpose' = "tune"
        /\ recent' = TRUE /\ UNCHANGED wantTune
    BY <1>4 DEF AcceptTune, StartFrequency, desired
  <2>2. /\ Pending = (IF wantTune THEN 1 ELSE 0) + 1
        /\ Pending' = (IF wantTune THEN 1 ELSE 0) + 0
        /\ ~InHand /\ InHand'
    BY <1>4, <2>1 DEF AcceptTune, Pending, InHand
  <2>3. Pending > 0 /\ Pending' = Pending - 1 /\ ~InHand /\ InHand'
    BY <2>2
  <2>4. Control!Accept
    BY <1>1, <1>4, <2>1, <2>3 DEF Control!Accept, AcceptTune, Pending, InHand
  <2> QED
    BY <2>4 DEF Control!Next
<1>5. CASE TuneBlocked
  <2>1. /\ pc' = "ask" /\ job' = "poll" /\ UNCHANGED <<wantTune, recent>>
    BY <1>5 DEF TuneBlocked, TuneFails, StartPoll, StartJob, desired, radio
  <2>2. Pending' = Pending /\ InHand /\ ~InHand'
    BY <1>5, <2>1 DEF TuneBlocked, Pending, InHand
  <2>3. Control!Abandon
    BY <1>1, <2>1, <2>2 DEF Control!Abandon, Pending, InHand
  <2> QED
    BY <2>3 DEF Control!Next
<1>6. CASE TuneSend
  <2>1. pc' = "ask" /\ job' = "tune" /\ UNCHANGED <<wantTune, recent>>
    BY <1>6 DEF TuneSend, StartJob, desired, radio
  <2>2. Pending' = Pending /\ InHand' = InHand
    BY <1>6, <2>1 DEF TuneSend, Pending, InHand
  <2> QED
    BY <1>1, <2>1, <2>2, ControlStutter
<1>7. CASE TuneUnanswered \/ TuneAnswered \/ TpAnswered \/ TpUnanswered
           \/ TuneDone
  <2>1. pc = "wait" /\ UNCHANGED <<wantTune, recent>>
    BY <1>7 DEF TuneUnanswered, TuneAnswered, TpAnswered, TpUnanswered,
                TuneDone, desired, radio
  <2>2. pc' \in {"ask", "antenna"} /\ (pc' = "ask" => job' # "tune")
    BY <1>7 DEF TuneUnanswered, TuneAnswered, TpAnswered, TpUnanswered,
                TuneDone, TuneFails, StillTuning, StartPoll, StartJob
  <2> QED
    BY <1>1, <2>1, <2>2, OutsideStutter DEF Outside
<1> QED
  BY <1>2, <1>3, <1>4, <1>5, <1>6, <1>7 DEF Tuning

(* Opening, polling, following and switching start no tune.                *)
LEMMA OutsideControl ==
  ASSUME IInv,
         \/ Opening \/ ReceiveOther \/ Discovered \/ Polling \/ Following
         \/ Switching
  PROVE  UNCHANGED Control!vars
<1>1. UNCHANGED <<dev, used, wantTune, recent>>
  BY DEF Opening, OpenPort, OpenFailed, ReceiveOther, Discovered, Polling,
         ReceivePoll, PollUnanswered, ApplyBegin, ApplyLine, ApplyEnd,
         Following, TurnBegin, Refreshed, RefreshUnanswered, FollowSkip,
         FollowSend, Switching, AntennaStep, AntennaDone, BypassStep,
         BypassDone, desired, radio
<1>2. CASE FollowSend
  <2>1. Pending' = Pending /\ InHand' = InHand
    BY <1>1, <1>2 DEF FollowSend, StartFrequency, Pending, InHand
  <2> QED
    BY <1>1, <2>1, ControlStutter
<1>3. CASE ~FollowSend
  <2>1. pc \in Outside
    BY <1>3 DEF Outside, Opening, OpenPort, OpenFailed, ReceiveOther,
         Discovered, Polling, ReceivePoll, PollUnanswered, ApplyBegin,
         ApplyLine, ApplyEnd, Following, TurnBegin, Refreshed,
         RefreshUnanswered, FollowSkip, Switching, AntennaStep, AntennaDone,
         BypassStep, BypassDone
  <2>2. pc' \in Outside \cup {"ask"} /\ (pc' = "ask" => job' # "tune")
    <3>1. CASE Opening \/ ReceiveOther \/ Discovered \/ Polling
      BY <2>1, <3>1 DEF Outside, Opening, OpenPort, OpenFailed, ReceiveOther,
           Discovered, Polling, ReceivePoll, PollUnanswered, ApplyBegin,
           ApplyLine, ApplyEnd, AfterQuery, StartJob, query
    <3>2. CASE Following \/ Switching
      BY <1>3, <3>2 DEF Outside, Following, TurnBegin, Refreshed,
           RefreshUnanswered, FollowSkip, Switching, AntennaStep,
           AntennaDone, BypassStep, BypassDone, StartPoll, StartJob, query
    <3> QED
      BY <3>1, <3>2
  <2> QED
    BY <1>1, <2>1, <2>2, OutsideStutter
<1> QED
  BY <1>2, <1>3

LEMMA OthersControl ==
  ASSUME IInv, Clock \/ OtherTasks \/ Environment
  PROVE  [Control!Next]_(Control!vars)
<1>1. UNCHANGED <<pc, job, purpose>>
  BY DEF Clock, CooldownEnds, FifteenSecondsPass, ThirtySecondsPass,
         OtherTasks, Autotune, Activate, Bypass, Operate, FrequencyChange,
         Environment, TuneEnds, Panel, Announce, PortLost, PortBack, Stall,
         Flow, query, freqVars
<1>2. InHand' = InHand
  BY <1>1 DEF InHand
<1>3. wantTune' = wantTune => Pending' = Pending
  BY <1>1 DEF Pending
<1>4. CASE Clock
  <2>1. UNCHANGED <<wantTune, dev, used>>
    BY <1>4 DEF Clock, CooldownEnds, FifteenSecondsPass, ThirtySecondsPass,
                desired
  <2>2. CASE CooldownEnds
    <3>1. Control!Cool
      BY <1>2, <1>3, <2>1, <2>2
         DEF Control!Cool, CooldownEnds, Pending, InHand
    <3> QED
      BY <3>1 DEF Control!Next
  <2>3. CASE FifteenSecondsPass \/ ThirtySecondsPass
    <3>1. recent' = recent
      BY <2>3 DEF FifteenSecondsPass, ThirtySecondsPass, radio
    <3> QED
      BY <1>2, <1>3, <2>1, <3>1, ControlStutter
  <2> QED
    BY <1>4, <2>2, <2>3 DEF Clock
<1>5. CASE OtherTasks
  <2>1. UNCHANGED <<dev, recent>>
    BY <1>5 DEF OtherTasks, Autotune, Activate, Bypass, Operate,
                FrequencyChange, radio
  <2>2. used'["panel"] = used["panel"]
    BY <1>5, PanelKept DEF IInv, OtherTasks, Autotune, Activate, Bypass,
                           Operate, FrequencyChange, Budget
  <2>3. CASE wantTune' = wantTune
    BY <1>2, <1>3, <2>1, <2>2, <2>3, ControlStutter
  <2>4. CASE wantTune' # wantTune
    <3>1. ~wantTune /\ wantTune'
      BY <1>5, <2>4 DEF OtherTasks, Autotune, Activate, Bypass, Operate,
                        FrequencyChange, desired, IInv, TypeOK, DesiredTypeOK
    <3>2. Pending' = Pending + 1
      BY <1>1, <3>1 DEF Pending
    <3>3. Control!Ask
      BY <1>2, <2>1, <2>2, <3>2 DEF Control!Ask, Pending, InHand
    <3> QED
      BY <3>3 DEF Control!Next
  <2> QED
    BY <2>3, <2>4
<1>6. CASE Environment
  <2>1. UNCHANGED <<wantTune, recent>>
    BY <1>6 DEF Environment, TuneEnds, Panel, Announce, PortLost, PortBack,
                Stall, Flow, desired, radio
  <2>2. CASE TuneEnds
    <3>1. dev'.TP = FALSE /\ used' = used
      BY <2>2 DEF TuneEnds, IInv, TypeOK, Device
    <3>2. Control!Finish
      BY <1>2, <1>3, <2>1, <3>1 DEF Control!Finish, Pending, InHand
    <3> QED
      BY <3>2 DEF Control!Next
  <2>3. CASE \/ \E q \in Reported \cup {"F"} : Panel(q)
             \/ \E q \in Reported : Announce(q)
    <3>1. Spend("panel") /\ dev' \in Device
      BY <2>3 DEF Panel, Announce, IInv, TypeOK
    <3>2. used'["panel"] = used["panel"] + 1 /\ dev'.TP \in BOOLEAN
      BY <3>1 DEF Spend, IInv, TypeOK, Budget, Device
    <3>3. Control!Operator
      BY <1>2, <1>3, <2>1, <3>2 DEF Control!Operator, Pending, InHand
    <3> QED
      BY <3>3 DEF Control!Next
  <2>4. CASE PortLost \/ PortBack \/ Stall \/ Flow
    <3>1. dev' = dev
      BY <2>4 DEF PortLost, PortBack, Stall, Flow
    <3>2. used'["panel"] = used["panel"]
      BY <2>4, PanelKept DEF IInv, PortLost, PortBack, Stall, Flow, Budget
    <3> QED
      BY <1>2, <1>3, <2>1, <3>1, <3>2, ControlStutter
  <2> QED
    BY <1>6, <2>2, <2>3, <2>4 DEF Environment
<1> QED
  BY <1>4, <1>5, <1>6

LEMMA ControlStep ==
  ASSUME IInv, [Next]_vars
  PROVE  [Control!Next]_(Control!vars)
<1>1. CASE Driver
  BY <1>1, AskControl, SendingControl, TuningControl, OutsideControl
     DEF Driver, Querying
<1>2. CASE Clock \/ OtherTasks \/ Environment
  BY <1>2, OthersControl
<1>3. CASE UNCHANGED vars
  <2>1. Pending' = Pending /\ InHand' = InHand
    BY <1>3 DEF vars, Pending, InHand, desired, query, freqVars
  <2>2. UNCHANGED <<recent, dev, used>>
    BY <1>3 DEF vars, radio
  <2> QED
    BY <2>1, <2>2, ControlStutter
<1> QED
  BY <1>1, <1>2, <1>3 DEF Next

LEMMA ControlInit == Init => Control!Init
<1> SUFFICES ASSUME Init PROVE Control!Init
  OBVIOUS
<1>1. Pending = 0 /\ ~InHand
  BY DEF Init, Pending, InHand
<1>2. dev.TP = FALSE /\ used["panel"] = 0 /\ recent = FALSE
  BY DEF Init, Device, Budget
<1> QED
  BY <1>1, <1>2 DEF Control!Init, Pending, InHand

(* Whatever the settings and the environment, the driver implements        *)
(* TuneControl: only an accepted request starts a tune, at most one, only  *)
(* if tuning is permitted, and no request is accepted within the cooldown  *)
(* of the one before.                                                      *)
THEOREM DriverImplementsControl == Spec => ImplementsControl
<1>1. Init => Control!Init
  BY ControlInit
<1>2. IInv /\ [Next]_vars => [Control!Next]_(Control!vars)
  BY ControlStep
<1> QED
  BY InitIInv, StepInv, <1>1, <1>2, PTL
     DEF Spec, ImplementsControl, Control!Spec

-----------------------------------------------------------------------------
(* What is on the line while nobody stalls it or touches the tuner.        *)

(* Panel changes and stalls, the two that disturb, and losses.             *)
Still == used["panel"] = 0 /\ used["stalls"] = 0
Grown == \A b \in Budget : used'[b] = 0 => used[b] = 0

LEMMA SpendGrows ==
  ASSUME TypeOK, NEW b \in Budget, Spend(b)
  PROVE  Grown /\ used'[b] # 0
BY DEF TypeOK, Spend, Budget, Grown

LEMMA KeepGrows == UNCHANGED used => Grown
BY DEF Grown

LEMMA LostGrows ==
  ASSUME TypeOK, Lost
  PROVE  Grown /\ (portUp => used'["lost"] # 0)
BY SpendGrows, KeepGrows DEF Lost, Budget

(* The driver has no hand in the port, and spends nothing but losses.      *)
LEMMA DriverLink == Driver => UNCHANGED link
<1>1. Opening \/ Querying \/ Polling => UNCHANGED link
  BY DEF Opening, OpenPort, OpenFailed, Querying, Ask, ReceiveOther, Discovered, Polling,
         ReceivePoll, PollUnanswered, ApplyBegin, ApplyLine, ApplyEnd
<1>2. Following \/ Sending => UNCHANGED link
  BY DEF Following, TurnBegin, Refreshed, RefreshUnanswered, FollowSkip, FollowSend, Sending,
         Drain, FreqWrite, FreqLine, FreqSilence, FreqDone, FreqError
<1>3. Tuning \/ Switching => UNCHANGED link
  BY DEF Tuning, TakeRequests, SuppressTune, AcceptTune, TuneBlocked, TuneSend, TuneUnanswered,
         TuneAnswered, TpAnswered, TpUnanswered, TuneDone, Switching, AntennaStep, AntennaDone,
         BypassStep, BypassDone
<1> QED
  BY <1>1, <1>2, <1>3 DEF Driver

LEMMA DriverGrows == TypeOK /\ Driver => Grown
<1>1. ASSUME TypeOK, Ask PROVE Grown
  <2>1. UNCHANGED used \/ Spend("lost") \/ Lost
    BY <1>1 DEF Ask
  <2> QED
    BY <1>1, <2>1, SpendGrows, KeepGrows, LostGrows DEF Budget
<1>2. ASSUME TypeOK, FreqWrite PROVE Grown
  <2>1. UNCHANGED used \/ Spend("lost") \/ Lost
    BY <1>2 DEF FreqWrite
  <2> QED
    BY <1>2, <2>1, SpendGrows, KeepGrows, LostGrows DEF Budget
<1>3. Opening \/ ReceiveOther \/ Discovered \/ Polling => UNCHANGED used
  BY DEF Opening, OpenPort, OpenFailed, ReceiveOther, Discovered, Polling,
         ReceivePoll, PollUnanswered, ApplyBegin, ApplyLine, ApplyEnd
<1>4. Following \/ Drain \/ FreqLine \/ FreqSilence \/ FreqDone \/ FreqError => UNCHANGED used
  BY DEF Following, TurnBegin, Refreshed, RefreshUnanswered, FollowSkip, FollowSend,
         Drain, FreqLine, FreqSilence, FreqDone, FreqError
<1>5. Tuning \/ Switching => UNCHANGED used
  BY DEF Tuning, TakeRequests, SuppressTune, AcceptTune, TuneBlocked, TuneSend, TuneUnanswered,
         TuneAnswered, TpAnswered, TpUnanswered, TuneDone, Switching, AntennaStep, AntennaDone,
         BypassStep, BypassDone
<1> QED
  BY <1>1, <1>2, <1>3, <1>4, <1>5, KeepGrows DEF Driver, Querying, Sending

(* What the driver waits for is the only thing on the line, and nothing is *)
(* left when it waits no more.                                             *)
Echo == [q |-> "F", v |-> target]
LineIdle == pc \notin {"wait", "freqWait"} => line = << >>
LineAnswer == pc = "wait" /\ line # << >> =>
                 Head(line).q \in Expected(Head(todo)) /\ Tail(line) = << >>
LineEcho == pc = "freqWait" /\ line # << >> => line = << Echo >>
LineInv == Still => /\ ~stalled /\ (~portUp => line = << >>)
                    /\ LineIdle /\ LineAnswer /\ LineEcho

LEMMA StillGrows == Grown /\ Still' => Still
BY DEF Grown, Still, Budget

(* A step between two queries.                                             *)
LEMMA LineBetween ==
  ASSUME LineInv, Grown, UNCHANGED link, pc \notin {"wait", "freqWait"},
         pc' \notin {"wait", "freqWait"}, line' = line \/ line' = Drained
  PROVE  LineInv'
<1> SUFFICES ASSUME Still' PROVE line' = << >> /\ ~stalled'
  BY DEF LineInv, LineIdle, LineAnswer, LineEcho
<1>1. Still /\ ~stalled /\ line = << >>
  BY StillGrows DEF LineInv, LineIdle
<1> QED
  BY <1>1 DEF Drained, link

(* A query that was answered or given up.                                  *)
LEMMA LineWaited ==
  ASSUME LineInv, Grown, UNCHANGED link, pc = "wait", pc' \notin {"wait", "freqWait"},
         (Answered /\ line' = Tail(line)) \/ (~Arrived /\ line' = line)
  PROVE  LineInv'
<1> SUFFICES ASSUME Still' PROVE line' = << >> /\ ~stalled'
  BY DEF LineInv, LineIdle, LineAnswer, LineEcho
<1>1. Still /\ ~stalled /\ (line # << >> => Tail(line) = << >>)
  BY StillGrows DEF LineInv, LineAnswer
<1> QED
  BY <1>1 DEF Answered, Arrived, link

(* A step of somebody else.                                                *)
LEMMA LineFrame ==
  ASSUME LineInv, Grown, UNCHANGED <<pc, line, todo, target>>,
         stalled' => stalled, portUp' = portUp
  PROVE  LineInv'
BY StillGrows DEF LineInv, LineIdle, LineAnswer, LineEcho, Echo

LEMMA LineDriver ==
  ASSUME IInv, LineInv, Driver
  PROVE  LineInv'
<1>0. TypeOK /\ QueryInv /\ Grown /\ UNCHANGED link
  BY DriverGrows, DriverLink DEF IInv
<1>1. CASE Opening
  BY <1>0, <1>1, LineBetween DEF Opening, OpenPort, OpenFailed, StartJob
<1>2. CASE ApplyBegin \/ ApplyLine \/ ApplyEnd
  BY <1>0, <1>2, LineBetween DEF ApplyBegin, ApplyLine, ApplyEnd
<1>3. CASE TurnBegin \/ FollowSkip \/ FollowSend
  BY <1>0, <1>3, LineBetween DEF TurnBegin, FollowSkip, FollowSend, StartFrequency, StartJob
<1>4. CASE Drain \/ FreqDone
  BY <1>0, <1>4, LineBetween DEF Drain, FreqDone, AfterFrequency
<1>5. CASE TakeRequests \/ SuppressTune \/ AcceptTune
  BY <1>0, <1>5, LineBetween DEF TakeRequests, SuppressTune, AcceptTune, StartFrequency,
     StartPoll, StartJob
<1>6. CASE TuneBlocked \/ TuneSend
  BY <1>0, <1>6, LineBetween DEF TuneBlocked, TuneFails, TuneSend, StartPoll, StartJob
<1>7. CASE AntennaStep \/ BypassStep
  BY <1>0, <1>7, LineBetween DEF AntennaStep, BypassStep, StartPoll, StartJob
<1>8. CASE Discovered \/ ReceivePoll \/ PollUnanswered
  BY <1>0, <1>8, LineWaited DEF Discovered, ReceivePoll, PollUnanswered, AfterQuery
<1>9. CASE Refreshed \/ RefreshUnanswered
  BY <1>0, <1>9, LineWaited DEF Refreshed, RefreshUnanswered
<1>10. CASE TuneUnanswered \/ TuneAnswered
  BY <1>0, <1>10, LineWaited DEF TuneUnanswered, TuneAnswered, TuneFails, StartPoll, StartJob
<1>11. CASE TpAnswered \/ TpUnanswered
  <2>1. /\ pc = "wait" /\ pc' = "ask"
        /\ (Answered /\ line' = Tail(line)) \/ (~Arrived /\ line' = line)
    BY <1>11 DEF TpAnswered, TpUnanswered, StillTuning, StartJob
  <2> QED
    BY <1>0, <2>1, LineWaited
<1>12. CASE TuneDone \/ AntennaDone \/ BypassDone
  BY <1>0, <1>12, LineWaited DEF TuneDone, AntennaDone, BypassDone, StartPoll, StartJob
<1>13. CASE ReceiveOther
  <2>1. ~Still
    BY <1>13 DEF ReceiveOther, Answered, Arrived, LineInv, LineAnswer
  <2> QED
    BY <1>0, <2>1, StillGrows DEF LineInv
<1>14. CASE Ask
  <2> DEFINE c == Head(todo)
  <2>1. c \in PollQuery \cup Command \cup {"RV", "SN"}
    BY <1>0, <1>14 DEF Ask, QueryInv, TypeOK, QueryTypeOK
  <2>2. DeviceAnswer(c).q \in Expected(c)
    BY <2>1 DEF DeviceAnswer, Expected, PollQuery, Command
  <2>3. /\ pc = "ask" /\ pc' = "wait" /\ todo' = todo
        /\ line' = line \/ (portUp /\ Send(DeviceAnswer(c)))
    BY <1>14 DEF Ask
  <2> SUFFICES ASSUME Still'
      PROVE  /\ ~stalled' /\ (~portUp' => line' = << >>)
             /\ line' # << >> => Head(line').q \in Expected(c) /\ Tail(line') = << >>
    BY <2>3 DEF LineInv, LineIdle, LineAnswer, LineEcho
  <2>4. ~stalled /\ line = << >>
    BY <1>0, <2>3, StillGrows DEF LineInv, LineIdle
  <2>5. line' = << >> \/ (portUp /\ line' = << DeviceAnswer(c) >>)
    BY <2>3, <2>4 DEF Send
  <2>6. ASSUME NEW m, line' = << m >>, m.q \in Expected(c)
        PROVE  Head(line').q \in Expected(c) /\ Tail(line') = << >>
    BY <2>6
  <2>7. UNCHANGED <<portUp, stalled>>
    BY <1>0 DEF link
  <2> QED
    BY <2>2, <2>4, <2>5, <2>6, <2>7, Zenon
<1>15. CASE FreqWrite
  <2>1. /\ pc = "freqWrite" /\ pc' = "freqWait" /\ target' = target
        /\ line' = line \/ (portUp /\ Send(Echo))
    BY <1>15 DEF FreqWrite, Echo
  <2> SUFFICES ASSUME Still'
      PROVE  /\ ~stalled' /\ (~portUp' => line' = << >>)
             /\ line' # << >> => line' = << Echo' >>
    BY <2>1 DEF LineInv, LineIdle, LineAnswer, LineEcho
  <2>2. ~stalled /\ line = << >>
    BY <1>0, <2>1, StillGrows DEF LineInv, LineIdle
  <2> QED
    BY <1>0, <2>1, <2>2 DEF link, Send, Echo
<1>16. CASE FreqLine
  <2>1. /\ pc = "freqWait" /\ line # << >> /\ line' = Tail(line)
        /\ pc' = IF Head(line) = Echo THEN "quiet" ELSE pc
    BY <1>16 DEF FreqLine, Arrived, Echo
  <2> SUFFICES ASSUME Still' PROVE pc' = "quiet" /\ line' = << >> /\ ~stalled'
    BY DEF LineInv, LineIdle, LineAnswer, LineEcho
  <2>2. ~stalled /\ line = << Echo >>
    BY <1>0, <2>1, StillGrows DEF LineInv, LineEcho
  <2> QED
    BY <1>0, <2>1, <2>2 DEF link
<1>17. CASE FreqSilence \/ FreqError
  <2>1. /\ pc \in {"freqWrite", "freqWait"} /\ pc' \notin {"wait", "freqWait"}
        /\ line' = line /\ (~Arrived \/ ~portUp)
    BY <1>17 DEF FreqSilence, FreqError, AfterFrequency
  <2> SUFFICES ASSUME Still' PROVE line' = << >> /\ ~stalled'
    BY <2>1 DEF LineInv, LineIdle, LineAnswer, LineEcho
  <2> QED
    BY <1>0, <2>1, StillGrows DEF LineInv, Arrived, link
<1> QED
  BY <1>1, <1>2, <1>3, <1>4, <1>5, <1>6, <1>7, <1>8, <1>9, <1>10, <1>11, <1>12, <1>13, <1>14,
     <1>15, <1>16, <1>17 DEF Driver, Querying, Polling, Following, Sending, Tuning, Switching

(* The others: whatever they spend, a line they touch is disturbed.        *)
LEMMA OthersGrow ==
  ASSUME TypeOK, Clock \/ OtherTasks
  PROVE  /\ Grown /\ UNCHANGED <<pc, query, freqVars, dev, link, line, follow, tuneFreq, expired>>
<1>1. CASE Clock
  BY <1>1, KeepGrows DEF Clock, CooldownEnds, FifteenSecondsPass, ThirtySecondsPass, results
<1>2. CASE OtherTasks
  <2>1. /\ Spend("requests") \/ Spend("context")
        /\ UNCHANGED <<pc, query, freqVars, dev, link, line, follow, tuneFreq, expired>>
    BY <1>2 DEF OtherTasks, Autotune, Activate, Bypass, Operate, FrequencyChange, results
  <2> QED
    BY <2>1, SpendGrows DEF Budget
<1> QED
  BY <1>1, <1>2

LEMMA EnvironmentGrows ==
  ASSUME TypeOK, Environment
  PROVE  /\ Grown
         /\ UNCHANGED <<pc, query, freqVars, follow, tuneFreq, expired>>
         /\ \/ ~Still'
            \/ TuneEnds
            \/ UNCHANGED dev /\ ~portUp' /\ line' = << >> /\ ~stalled'
            \/ UNCHANGED <<dev, line, stalled>> /\ pc = "open"
            \/ UNCHANGED <<dev, line, portUp>> /\ ~stalled'
<1>1. UNCHANGED <<pc, query, freqVars, follow, tuneFreq, expired>>
  BY DEF Environment, TuneEnds, Panel, Announce, PortLost, PortBack, Stall, Flow, results
<1>2. CASE TuneEnds
  BY <1>1, <1>2, KeepGrows DEF TuneEnds
<1>3. CASE \/ \E q \in Reported \cup {"F"} : Panel(q)
           \/ \E q \in Reported : Announce(q)
  <2>1. Spend("panel")
    BY <1>3 DEF Panel, Announce
  <2> QED
    BY <1>1, <2>1, SpendGrows DEF Budget, Still
<1>4. CASE PortLost
  BY <1>1, <1>4, SpendGrows DEF PortLost, Budget
<1>5. CASE PortBack
  BY <1>1, <1>5, KeepGrows DEF PortBack
<1>6. CASE Stall
  <2>1. Spend("stalls")
    BY <1>6 DEF Stall
  <2> QED
    BY <1>1, <2>1, SpendGrows DEF Budget, Still
<1>7. CASE Flow
  BY <1>1, <1>7, KeepGrows DEF Flow
<1> QED
  BY <1>2, <1>3, <1>4, <1>5, <1>6, <1>7 DEF Environment

LEMMA LineStep ==
  ASSUME IInv, LineInv, [Next]_vars
  PROVE  LineInv'
<1>0. TypeOK
  BY DEF IInv
<1>1. CASE Clock \/ OtherTasks
  BY <1>0, <1>1, OthersGrow, LineFrame DEF query, freqVars, link
<1>2. CASE Environment
  <2>1. Grown /\ UNCHANGED <<pc, todo, target>>
    BY <1>0, <1>2, EnvironmentGrows DEF query, freqVars
  <2>2. CASE ~Still'
    BY <2>2 DEF LineInv
  <2>3. CASE TuneEnds \/ (UNCHANGED <<dev, line, portUp>> /\ ~stalled')
    BY <2>1, <2>3, LineFrame DEF TuneEnds, link
  <2>4. CASE ~portUp' /\ line' = << >> /\ ~stalled'
    BY <2>4 DEF LineInv, LineIdle, LineAnswer, LineEcho
  <2>5. CASE UNCHANGED <<line, stalled>> /\ pc = "open"
    <3> SUFFICES ASSUME Still' PROVE line' = << >> /\ ~stalled'
      BY <2>1, <2>5 DEF LineInv, LineIdle, LineAnswer, LineEcho
    <3> QED
      BY <2>1, <2>5, StillGrows DEF LineInv, LineIdle
  <2> QED
    BY <1>0, <1>2, <2>2, <2>3, <2>4, <2>5, EnvironmentGrows
<1>3. CASE UNCHANGED vars
  BY <1>3, LineFrame, KeepGrows DEF vars, query, freqVars, link
<1> QED
  BY <1>1, <1>2, <1>3, LineDriver DEF Next

LEMMA LineInit == Init => LineInv
BY DEF Init, LineInv, LineIdle, LineAnswer, LineEcho

-----------------------------------------------------------------------------
(* A confirmed frequency is the tuner's.                                   *)

Undisturbed == portUp /\ Still
Writing == pc \in {"freqWrite", "freqWait", "quiet"}

(* Nothing is confirmed before the port was opened, which makes a port     *)
(* that comes back harmless.  While a frequency is written, the tuner is   *)
(* on it when its echo is on the line or was read.                         *)
Unfollowed == pc = "open" => followMatch = None /\ followWire = None
EchoTrue ==
  Undisturbed =>
    /\ pc = "freqWait" => heard = None
    /\ pc = "freqWait" /\ line # << >> => dev.F = target
    /\ pc = "quiet" /\ heard = Echo => dev.F = target
    /\ ~Writing /\ followMatch = TRUE => dev.F = followWire
FollowInv == Unfollowed /\ EchoTrue

LEMMA UndisturbedGrows == Grown /\ Undisturbed' /\ portUp => Undisturbed
BY StillGrows DEF Undisturbed

(* A step that is not about the frequency.                                 *)
LEMMA FollowAside ==
  ASSUME FollowInv, Grown, portUp' = portUp, ~Writing, ~Writing', pc' = "open" => pc = "open",
         followMatch' = followMatch, followWire' = followWire, dev'.F = dev.F
  PROVE  FollowInv'
<1>1. Unfollowed'
  BY DEF FollowInv, Unfollowed
<1>2. EchoTrue'
  <2> SUFFICES ASSUME Undisturbed', ~Writing', followMatch' = TRUE PROVE dev'.F = followWire'
    BY DEF EchoTrue, Writing
  <2>1. Undisturbed
    BY UndisturbedGrows DEF Undisturbed
  <2> QED
    BY <2>1 DEF FollowInv, EchoTrue
<1> QED
  BY <1>1, <1>2 DEF FollowInv

LEMMA FollowFrame ==
  ASSUME FollowInv, Grown, portUp' => portUp,
         UNCHANGED <<pc, follow, freqVars, line>>, dev'.F = dev.F
  PROVE  FollowInv'
<1>1. Unfollowed'
  BY DEF FollowInv, Unfollowed, follow
<1>2. Undisturbed' => Undisturbed
  BY UndisturbedGrows DEF Undisturbed
<1>3. EchoTrue'
  BY <1>2 DEF FollowInv, EchoTrue, Writing, Echo, follow, freqVars
<1> QED
  BY <1>1, <1>3 DEF FollowInv

(* Only writing a frequency changes the one the tuner is on.               *)
LEMMA AskFreq == TypeOK /\ Ask => dev'.F = dev.F
BY DEF TypeOK, Device, Ask, Effect

LEMMA FollowSending ==
  ASSUME IInv, LineInv, FollowInv, Sending
  PROVE  FollowInv'
<1>0. TypeOK /\ Grown /\ UNCHANGED link /\ portUp' = portUp
  BY DriverGrows, DriverLink DEF IInv, Driver, link
<1>1. Undisturbed' => Undisturbed /\ ~stalled
  BY <1>0, UndisturbedGrows DEF Undisturbed, LineInv
<1>2. CASE Drain
  <2>1. /\ pc = "drain" /\ pc' = "freqWrite" /\ UNCHANGED <<follow, freqVars, dev>>
    BY <1>2 DEF Drain
  <2> QED
    BY <2>1 DEF FollowInv, Unfollowed, EchoTrue, Writing
<1>3. CASE FreqWrite
  <2>1. /\ pc = "freqWrite" /\ pc' = "freqWait" /\ heard' = None /\ UNCHANGED <<follow, target>>
        /\ dev' = [dev EXCEPT !.F = target] \/ UNCHANGED <<dev, line>>
    BY <1>3 DEF FreqWrite
  <2>2. Undisturbed' => line = << >>
    BY <1>1, <2>1 DEF LineInv, LineIdle, Undisturbed
  <2>3. Undisturbed' /\ line' # << >> => dev'.F = target
    BY <1>0, <2>1, <2>2 DEF TypeOK, Device
  <2> QED
    BY <2>1, <2>3 DEF FollowInv, Unfollowed, EchoTrue, Writing
<1>4. CASE FreqLine
  <2>1. /\ pc = "freqWait" /\ line # << >> /\ heard' = Head(line)
        /\ pc' = IF Head(line) = Echo THEN "quiet" ELSE pc
        /\ UNCHANGED <<follow, target, dev>>
    BY <1>4 DEF FreqLine, Arrived, Echo
  <2>2. Undisturbed' => line = << Echo >> /\ dev.F = target
    BY <1>1, <2>1 DEF LineInv, LineEcho, Undisturbed, FollowInv, EchoTrue
  <2>3. Undisturbed' => pc' = "quiet" /\ dev'.F = target'
    BY <2>1, <2>2
  <2>4. pc' # "open"
    BY <2>1
  <2> QED
    BY <2>3, <2>4 DEF FollowInv, Unfollowed, EchoTrue, Writing
<1>5. CASE FreqSilence
  <2>1. /\ pc = "freqWait" /\ pc' \in {"freqWrite", "quiet"}
        /\ UNCHANGED <<follow, heard, target, dev>>
    BY <1>5 DEF FreqSilence
  <2>2. Undisturbed' => heard' = None
    BY <1>1, <2>1 DEF FollowInv, EchoTrue
  <2>3. Undisturbed' => heard' # Echo'
    <3>1. pc' = "quiet" \/ pc' = "freqWrite"
      BY <2>1
    <3>2. target \in Freqs
      BY <2>1 DEF IInv, FreqInv, TypeOK, FreqTypeOK
    <3>3. Echo \in Line
      BY <3>2 DEF Echo, Line
    <3> QED
      BY <2>1, <2>2, <3>3, NotALineAssumption DEF Echo
  <2> QED
    BY <2>1, <2>3 DEF FollowInv, Unfollowed, EchoTrue, Writing
<1>6. CASE FreqDone
  <2>1. /\ pc = "quiet" /\ pc' \in {"control", "tuneSend"} /\ dev' = dev
        /\ followWire' = target /\ followMatch' = (heard = Echo)
    BY <1>6 DEF FreqDone, AfterFrequency, Echo
  <2>2. Undisturbed' /\ followMatch' = TRUE => dev.F = target
    BY <1>1, <2>1 DEF FollowInv, EchoTrue
  <2> QED
    BY <2>1, <2>2 DEF FollowInv, Unfollowed, EchoTrue, Writing
<1>7. CASE FreqError
  <2>1. ~portUp' /\ pc' \in {"control", "tuneSend"}
    BY <1>0, <1>7 DEF FreqError, AfterFrequency
  <2> QED
    BY <2>1 DEF FollowInv, Unfollowed, EchoTrue, Undisturbed
<1> QED
  BY <1>2, <1>3, <1>4, <1>5, <1>6, <1>7 DEF Sending

(* What every step of the driver but those that send a frequency does.     *)
Steady == Opening \/ Querying \/ Polling \/ Following \/ Tuning \/ Switching
LEMMA SteadySteps ==
  ASSUME TypeOK, Steady
  PROVE  /\ ~Writing /\ ~Writing' /\ (pc' = "open" => pc = "open")
         /\ followMatch' = followMatch /\ followWire' = followWire /\ dev'.F = dev.F
<1> USE DEF Writing, follow
<1>1. CASE Opening
  BY <1>1 DEF Opening, OpenPort, OpenFailed, StartJob
<1>2. CASE Querying
  BY <1>2, AskFreq DEF Querying, Ask, ReceiveOther, Discovered, AfterQuery
<1>3. CASE Polling
  BY <1>3 DEF Polling, ReceivePoll, PollUnanswered, ApplyBegin, ApplyLine, ApplyEnd, AfterQuery
<1>4. CASE Following
  BY <1>4 DEF Following, TurnBegin, Refreshed, RefreshUnanswered, FollowSkip, FollowSend,
     StartFrequency, StartJob
<1>5. CASE TakeRequests \/ SuppressTune \/ AcceptTune
  BY <1>5 DEF TakeRequests, SuppressTune, AcceptTune, StartFrequency, StartPoll, StartJob
<1>6. CASE TuneBlocked \/ TuneSend \/ TuneUnanswered \/ TuneAnswered \/ TuneDone
  BY <1>6 DEF TuneBlocked, TuneFails, TuneSend, TuneUnanswered, TuneAnswered, TuneDone, StartPoll, StartJob
<1>7. CASE TpAnswered \/ TpUnanswered
  <2>1. pc = "wait" /\ pc' = "ask" /\ UNCHANGED <<follow, dev>>
    BY <1>7 DEF TpAnswered, TpUnanswered, StillTuning, StartJob
  <2> QED
    BY <2>1
<1>8. CASE Switching
  BY <1>8 DEF Switching, AntennaStep, AntennaDone, BypassStep, BypassDone, StartPoll, StartJob
<1> QED
  BY <1>1, <1>2, <1>3, <1>4, <1>5, <1>6, <1>7, <1>8 DEF Steady, Tuning

LEMMA FollowStep ==
  ASSUME IInv, LineInv, FollowInv, [Next]_vars
  PROVE  FollowInv'
<1>0. TypeOK
  BY DEF IInv
<1>1. CASE Steady
  <2>1. Grown /\ UNCHANGED link
    BY <1>0, <1>1, DriverGrows, DriverLink DEF Steady, Driver
  <2> QED
    BY <1>0, <1>1, <2>1, SteadySteps, FollowAside DEF link
<1>2. CASE Clock \/ OtherTasks
  BY <1>0, <1>2, OthersGrow, FollowFrame DEF link
<1>3. CASE Environment
  <2>1. Grown /\ UNCHANGED <<pc, freqVars, follow>>
    BY <1>0, <1>3, EnvironmentGrows
  <2>2. Unfollowed'
    BY <2>1 DEF FollowInv, Unfollowed, follow
  <2>3. CASE ~Still' \/ ~portUp'
    BY <2>2, <2>3 DEF FollowInv, EchoTrue, Undisturbed
  <2>4. CASE TuneEnds
    BY <1>0, <2>1, <2>4, FollowFrame DEF TuneEnds, TypeOK, Device, link
  <2>5. CASE UNCHANGED <<dev, line, stalled>> /\ pc = "open"
    <3>1. followMatch' = None /\ ~Writing' /\ pc' = "open"
      BY <2>1, <2>5 DEF FollowInv, Unfollowed, follow, Writing
    <3>2. None # TRUE
      BY NoneAssumption, Zenon
    <3> QED
      BY <2>2, <3>1, <3>2 DEF FollowInv, EchoTrue
  <2>6. CASE UNCHANGED <<dev, line, portUp>>
    BY <2>1, <2>6, FollowFrame
  <2> QED
    BY <1>0, <1>3, <2>3, <2>4, <2>5, <2>6, EnvironmentGrows
<1>4. CASE UNCHANGED vars
  BY <1>4, FollowFrame, KeepGrows DEF vars, link
<1> QED
  BY <1>1, <1>2, <1>3, <1>4, FollowSending DEF Next, Driver, Steady

LEMMA FollowInit == Init => FollowInv
<1> SUFFICES ASSUME Init PROVE FollowInv
  OBVIOUS
<1>1. pc = "open" /\ followMatch = None /\ followWire = None
  BY DEF Init
<1>2. None # TRUE
  BY NoneAssumption, Zenon
<1> QED
  BY <1>1, <1>2 DEF FollowInv, Unfollowed, EchoTrue

(* A frequency that is recorded as confirmed is the one the tuner is on,   *)
(* whatever commands are lost, as long as the port is there, answers come  *)
(* in time and nobody else sets the frequency (send_frequency_context_     *)
(* confirmed, for any number of frequencies, requests and changes).        *)
THEOREM ConfirmedFrequencyIsSetHolds == Spec => []ConfirmedFrequencyIsSet
<1>1. IInv /\ LineInv /\ FollowInv /\ [Next]_vars => LineInv' /\ FollowInv'
  BY LineStep, FollowStep
<1>2. FollowInv => ConfirmedFrequencyIsSet
  BY DEF FollowInv, EchoTrue, ConfirmedFrequencyIsSet, Undisturbed, Still, Writing
<1> QED
  BY <1>1, <1>2, InitIInv, StepInv, LineInit, FollowInit, PTL DEF Spec

-----------------------------------------------------------------------------
(* A tune starts on the frequency that the radio had.                      *)

Calm == Undisturbed /\ used["lost"] = 0
TuneDue == MayTune /\ (pc = "tuneSend" \/ (pc = "ask" /\ job = "tune"))
(* While nothing is lost, the tuner goes where it is sent, and a tune has  *)
(* sent it to the frequency it was accepted for.                           *)
TuneInv ==
  /\ Unfollowed
  /\ Writing \/ pc = "drain" => (purpose = "tune" => target = tuneFreq)
  /\ Calm =>
       /\ pc \in {"freqWait", "quiet"} => dev.F = target
       /\ ~Writing /\ followWire # None => dev.F = followWire
       /\ TuneDue /\ tuneFreq # None => dev.F = tuneFreq

LEMMA CalmGrows == Grown /\ Calm' /\ portUp => Calm
BY UndisturbedGrows DEF Calm, Grown, Budget

(* A step that is about neither the frequency nor a tune.                  *)
LEMMA TuneAside ==
  ASSUME TuneInv, Grown, portUp' = portUp, ~Writing, ~Writing', pc' = "open" => pc = "open",
         followMatch' = followMatch, followWire' = followWire, dev'.F = dev.F,
         tuneFreq' = tuneFreq, pc' # "drain", TuneDue' => TuneDue
  PROVE  TuneInv'
<1>1. Unfollowed'
  BY DEF TuneInv, Unfollowed
<1>2. Calm' => Calm
  BY CalmGrows DEF Calm, Undisturbed
<1> QED
  BY <1>1, <1>2 DEF TuneInv, Writing

LEMMA TuneFrame ==
  ASSUME TuneInv, Grown, portUp' => portUp,
         UNCHANGED <<pc, job, follow, freqVars, tuneFreq>>, dev'.F = dev.F
  PROVE  TuneInv'
<1>1. Unfollowed'
  BY DEF TuneInv, Unfollowed, follow
<1>2. Calm' => Calm
  BY CalmGrows DEF Calm, Undisturbed
<1> QED
  BY <1>1, <1>2 DEF TuneInv, Writing, TuneDue, follow, freqVars

LEMMA TuneSteady ==
  ASSUME IInv, TuneInv, Steady
  PROVE  TuneInv'
<1>0. /\ TypeOK /\ Grown /\ portUp' = portUp /\ ~Writing /\ ~Writing'
      /\ pc' = "open" => pc = "open"
      /\ followMatch' = followMatch /\ followWire' = followWire /\ dev'.F = dev.F
  BY DriverGrows, DriverLink, SteadySteps DEF IInv, Steady, Driver, link
<1>a. ASSUME tuneFreq' = tuneFreq, pc' # "drain", TuneDue' => TuneDue PROVE TuneInv'
  BY <1>0, <1>a, TuneAside
<1> USE DEF TuneDue, results
<1>1. CASE Opening
  BY <1>a, <1>1 DEF Opening, OpenPort, OpenFailed, StartJob
<1>2. CASE ReceiveOther \/ Discovered
  BY <1>a, <1>2 DEF ReceiveOther, Discovered, AfterQuery
<1>3. CASE Ask
  BY <1>a, <1>3 DEF Ask
<1>4. CASE Polling
  BY <1>a, <1>4 DEF Polling, ReceivePoll, PollUnanswered, ApplyBegin, ApplyLine, ApplyEnd, AfterQuery
<1>5. CASE TurnBegin \/ Refreshed \/ RefreshUnanswered \/ FollowSkip
  BY <1>a, <1>5 DEF TurnBegin, Refreshed, RefreshUnanswered, FollowSkip, StartJob
<1>6. CASE FollowSend
  <2>1. pc' = "drain" /\ purpose' = "follow" /\ tuneFreq' = tuneFreq
    BY <1>6 DEF FollowSend, StartFrequency
  <2>2. Unfollowed'
    BY <1>0 DEF TuneInv, Unfollowed
  <2>3. Calm' => Calm
    BY <1>0, CalmGrows DEF Calm, Undisturbed
  <2> QED
    BY <1>0, <2>1, <2>2, <2>3 DEF TuneInv, Writing
<1>7. CASE TakeRequests \/ SuppressTune
  BY <1>a, <1>7 DEF TakeRequests, SuppressTune, StartPoll, StartJob
<1>8. CASE AcceptTune
  <2>1. pc = "accept" /\ tuneFreq' = freq
    BY <1>8 DEF AcceptTune
  <2>2. Unfollowed'
    BY <1>0 DEF TuneInv, Unfollowed
  <2>3. Calm' => (followWire # None => dev.F = followWire)
    BY <1>0, CalmGrows DEF Calm, Undisturbed, TuneInv
  <2>4. CASE pc' = "drain" /\ target' = freq
    BY <1>0, <2>1, <2>2, <2>3, <2>4 DEF TuneInv, Writing
  <2>5. CASE pc' = "tuneSend" /\ ~(freq # None /\ followWire # freq /\ MayTune)
    BY <1>0, <2>1, <2>2, <2>3, <2>5 DEF TuneInv, Writing
  <2> QED
    BY <1>8, <2>4, <2>5 DEF AcceptTune, StartFrequency
<1>9. CASE TuneBlocked \/ TuneUnanswered
  BY <1>a, <1>9 DEF TuneBlocked, TuneUnanswered, TuneFails, StartPoll, StartJob
<1>10. CASE TuneSend
  BY <1>a, <1>10 DEF TuneSend, StartJob
<1>11. CASE TuneAnswered \/ TuneDone
  BY <1>a, <1>11 DEF TuneAnswered, TuneDone, StartJob
<1>12. CASE TpAnswered \/ TpUnanswered
  <2>1. pc' = "ask" /\ job' \in {"tp", "vswr"} /\ tuneFreq' = tuneFreq
    BY <1>12 DEF TpAnswered, TpUnanswered, StillTuning, StartJob
  <2> QED
    BY <1>a, <2>1
<1>13. CASE Switching
  BY <1>a, <1>13 DEF Switching, AntennaStep, AntennaDone, BypassStep, BypassDone, StartPoll, StartJob
<1> QED
  BY <1>1, <1>2, <1>3, <1>4, <1>5, <1>6, <1>7, <1>8, <1>9, <1>10, <1>11, <1>12, <1>13
     DEF Steady, Querying, Following, Tuning

LEMMA TuneSending ==
  ASSUME IInv, TuneInv, Sending
  PROVE  TuneInv'
<1>0. TypeOK /\ Grown /\ portUp' = portUp
  BY DriverGrows, DriverLink DEF IInv, Driver, link
<1>1. Calm' => Calm
  BY <1>0, CalmGrows DEF Calm, Undisturbed
<1>2. CASE Drain
  <2>1. /\ pc = "drain" /\ pc' = "freqWrite" /\ UNCHANGED <<follow, freqVars, dev, tuneFreq>>
    BY <1>2 DEF Drain, results
  <2> QED
    BY <2>1 DEF TuneInv, Unfollowed, Writing, TuneDue, freqVars
<1>3. CASE FreqWrite
  <2>1. /\ pc = "freqWrite" /\ pc' = "freqWait"
        /\ UNCHANGED <<follow, target, purpose, tuneFreq>>
        /\ \/ dev' = [dev EXCEPT !.F = target]
           \/ Lost
    BY <1>3 DEF FreqWrite, results
  <2>2. Calm' => dev'.F = target
    BY <1>0, <2>1, LostGrows DEF Calm, Undisturbed, TypeOK, Device
  <2> QED
    BY <2>1, <2>2 DEF TuneInv, Unfollowed, Writing, TuneDue
<1>4. CASE FreqLine \/ FreqSilence
  <2>1. /\ pc = "freqWait" /\ pc' \in {"freqWrite", "freqWait", "quiet"}
        /\ UNCHANGED <<follow, target, purpose, dev, tuneFreq>>
    BY <1>4 DEF FreqLine, FreqSilence, results
  <2> QED
    BY <1>1, <2>1 DEF TuneInv, Unfollowed, Writing, TuneDue
<1>5. CASE FreqDone
  <2>1. /\ pc = "quiet" /\ pc' = AfterFrequency /\ followWire' = target
        /\ UNCHANGED <<dev, tuneFreq>>
    BY <1>5 DEF FreqDone, results
  <2>2. pc' \in {"control", "tuneSend"} /\ (pc' = "tuneSend" => purpose # "follow")
    BY <2>1 DEF AfterFrequency
  <2>3. purpose # "follow" => target = tuneFreq
    BY <1>0, <2>1 DEF TuneInv, Writing, TypeOK, FreqTypeOK
  <2> QED
    BY <1>1, <2>1, <2>2, <2>3 DEF TuneInv, Unfollowed, Writing, TuneDue
<1>6. CASE FreqError
  <2>1. ~portUp' /\ pc' \in {"control", "tuneSend"}
    BY <1>0, <1>6 DEF FreqError, AfterFrequency
  <2> QED
    BY <2>1 DEF TuneInv, Unfollowed, Calm, Undisturbed, Writing
<1> QED
  BY <1>2, <1>3, <1>4, <1>5, <1>6 DEF Sending

LEMMA TuneStep ==
  ASSUME IInv, TuneInv, [Next]_vars
  PROVE  TuneInv'
<1>0. TypeOK
  BY DEF IInv
<1>1. CASE Clock \/ OtherTasks
  BY <1>0, <1>1, OthersGrow, TuneFrame DEF link, query
<1>2. CASE Environment
  <2>1. Grown /\ UNCHANGED <<pc, job, freqVars, follow, tuneFreq>>
    BY <1>0, <1>2, EnvironmentGrows DEF query
  <2>2. CASE ~Still' \/ ~portUp'
    <3>1. ~Calm'
      BY <2>2 DEF Calm, Undisturbed
    <3> QED
      BY <2>1, <3>1 DEF TuneInv, Unfollowed, Writing, follow, freqVars
  <2>3. CASE TuneEnds
    BY <1>0, <2>1, <2>3, TuneFrame DEF TuneEnds, TypeOK, Device, link
  <2>4. CASE pc = "open"
    <3>1. followWire' = None /\ pc' = "open"
      BY <2>1, <2>4 DEF TuneInv, Unfollowed, follow
    <3> QED
      BY <2>1, <2>4, <3>1 DEF TuneInv, Unfollowed, Writing, TuneDue, follow
  <2>5. CASE UNCHANGED <<dev, line, portUp>>
    BY <2>1, <2>5, TuneFrame
  <2> QED
    BY <1>0, <1>2, <2>2, <2>3, <2>4, <2>5, EnvironmentGrows
<1>3. CASE UNCHANGED vars
  BY <1>3, TuneFrame, KeepGrows DEF vars, link, query, results
<1> QED
  BY <1>1, <1>2, <1>3, TuneSteady, TuneSending DEF Next, Driver, Steady

(* When T is written, the tuner is on the frequency that the radio had     *)
(* when the request was accepted, whether it was followed there before, or *)
(* sent there for the tune, while nothing is lost or late (process_        *)
(* desired_control, for any number of requests and frequency changes).     *)
THEOREM TuneOnFrequencyHolds == Spec => []TuneOnFrequency
<1>1. Init => TuneInv
  BY DEF Init, TuneInv, Unfollowed, Writing, TuneDue
<1>2. IInv /\ TuneInv /\ [Next]_vars => TuneInv'
  BY TuneStep
<1>3. IInv /\ TuneInv => TuneOnFrequency
  BY DEF IInv, CommandInv, TuneInv, TuneOnFrequency, TuneDue, Calm, Undisturbed, Still
<1> QED
  BY <1>1, <1>2, <1>3, InitIInv, StepInv, PTL DEF Spec

-----------------------------------------------------------------------------
(* A watch that ended in time ended because the tune did.                  *)

(* VSWR is asked for and waited for, and what was taken is executed; no    *)
(* other job is begun before the next poll.                                *)
Watched == job = "vswr" => pc \in {"ask", "wait", "antenna", "bypass"}
TpTrue == pc = "wait" /\ job = "tp" /\ line # << >> /\ Head(line).v = FALSE => ~dev.TP
WatchOver == job = "vswr" /\ ~expired => ~dev.TP
WatchInv == Watched /\ (Still => TpTrue /\ WatchOver)

(* No job but a tune makes the tuner tune.                                 *)
LEMMA WatchAside ==
  ASSUME WatchInv, Grown, dev'.TP => dev.TP, Watched', job' = "vswr" => job = "vswr",
         expired' = expired, ~(pc' = "wait" /\ job' = "tp")
  PROVE  WatchInv'
<1>1. Still' => Still
  BY StillGrows
<1> QED
  BY <1>1 DEF WatchInv, WatchOver, TpTrue

LEMMA WatchFrame ==
  ASSUME WatchInv, Grown, dev'.TP => dev.TP,
         UNCHANGED <<pc, job, expired>>, line' = line \/ line' = << >>
  PROVE  WatchInv'
<1>1. Still' => Still
  BY StillGrows
<1> QED
  BY <1>1 DEF WatchInv, Watched, WatchOver, TpTrue

LEMMA WatchDriver ==
  ASSUME IInv, LineInv, WatchInv, Driver
  PROVE  WatchInv'
<1>0. TypeOK /\ Grown
  BY DriverGrows DEF IInv
<1>a. ASSUME dev'.TP => dev.TP, Watched', job' = "vswr" => job = "vswr",
             expired' = expired, ~(pc' = "wait" /\ job' = "tp")
      PROVE  WatchInv'
  BY <1>0, <1>a, WatchAside
<1>b. Watched
  BY DEF WatchInv
<1> USE DEF Watched
<1>1. CASE Opening
  BY <1>a, <1>b, <1>1 DEF Opening, OpenPort, OpenFailed, StartJob, query
<1>2. CASE Discovered \/ Polling
  BY <1>a, <1>b, <1>2 DEF Discovered, Polling, ReceivePoll, PollUnanswered, ApplyBegin, ApplyLine,
     ApplyEnd, AfterQuery, query
<1>3. CASE ReceiveOther
  <2>1. ~Still /\ job' = job /\ pc' = pc
    BY <1>3 DEF ReceiveOther, Answered, Arrived, LineInv, LineAnswer
  <2>2. ~Still'
    BY <1>0, <2>1, StillGrows
  <2> QED
    BY <1>b, <2>1, <2>2 DEF WatchInv
<1>4. CASE Following
  BY <1>a, <1>b, <1>4 DEF Following, TurnBegin, Refreshed, RefreshUnanswered, FollowSkip, FollowSend,
     StartFrequency, StartJob, query
<1>5. CASE Sending
  <2>1. dev'.TP => dev.TP
    BY <1>0, <1>5 DEF Sending, Drain, FreqWrite, FreqLine, FreqSilence, FreqDone, FreqError,
       TypeOK, Device
  <2>2. pc \notin {"ask", "wait", "antenna", "bypass"} /\ pc' # "wait" /\ UNCHANGED <<job, expired>>
    BY <1>5 DEF Sending, Drain, FreqWrite, FreqLine, FreqSilence, FreqDone, FreqError,
       AfterFrequency, query
  <2> QED
    BY <1>a, <1>b, <2>1, <2>2
<1>6. CASE TakeRequests \/ SuppressTune
  BY <1>a, <1>b, <1>6 DEF TakeRequests, SuppressTune, StartPoll, StartJob, query
<1>7. CASE AcceptTune
  <2>1. job # "vswr" /\ job' = job /\ pc' # "wait"
    BY <1>b, <1>7 DEF AcceptTune, StartFrequency, query
  <2> QED
    BY <2>1 DEF WatchInv, TpTrue, WatchOver
<1>8. CASE TuneBlocked \/ TuneSend \/ TuneUnanswered \/ TuneAnswered
  BY <1>a, <1>b, <1>8 DEF TuneBlocked, TuneSend, TuneUnanswered, TuneAnswered, TuneFails,
     StartPoll, StartJob
<1>9. CASE TpUnanswered
  <2>1. pc' = "ask" /\ dev' = dev /\ (job' = "vswr" => expired')
    BY <1>9 DEF TpUnanswered, StillTuning, StartJob
  <2> QED
    BY <2>1 DEF WatchInv, TpTrue, WatchOver
<1>10. CASE TpAnswered
  <2> DEFINE t == Parsed(tuner, Head(line))
  <2>1. /\ pc = "wait" /\ job = "tp" /\ Answered /\ pc' = "ask" /\ dev' = dev
        /\ job' = "vswr" /\ ~expired' => ~t.tuning
    BY <1>10 DEF TpAnswered, StillTuning, StartJob
  <2>2. Head(todo) = "TP"
    BY <1>0, <2>1 DEF IInv, QueryInv, QueriesOf
  <2>3. Head(line).q = "TP" /\ line # << >>
    BY <2>1, <2>2 DEF Answered, Arrived, Expected
  <2>4. t.tuning = Head(line).v
    BY <1>0, <2>3 DEF Parsed, TypeOK, SharedTypeOK, Tuner
  <2>5. Head(line).v \in BOOLEAN
    BY <1>0, <2>3, FirstLine, <2>1 DEF Line, Answered
  <2>6. job' = "vswr" /\ ~expired' => Head(line).v = FALSE
    BY <2>1, <2>4, <2>5
  <2>7. Still' => Still
    BY <1>0, StillGrows
  <2> QED
    BY <2>1, <2>3, <2>6, <2>7 DEF WatchInv, TpTrue, WatchOver
<1>11. CASE TuneDone
  BY <1>a, <1>b, <1>11 DEF TuneDone, query
<1>12. CASE Switching
  BY <1>a, <1>b, <1>12 DEF Switching, AntennaStep, AntennaDone, BypassStep, BypassDone, StartPoll,
     StartJob, query
<1>13. CASE Ask
  <2> DEFINE c == Head(todo)
  <2>1. /\ pc = "ask" /\ pc' = "wait" /\ UNCHANGED <<job, expired>>
        /\ dev' = dev \/ dev' = Effect(c)
        /\ \/ line' = line
           \/ dev' = Effect(c) /\ Send(DeviceAnswer(c))
    BY <1>13 DEF Ask
  <2>2. c \in QueriesOf(job)
    BY <1>13 DEF Ask, IInv, QueryInv
  <2>3. job = "vswr" => c = "VSWR"
    BY <2>2 DEF QueriesOf
  <2>4. job = "tp" => c = "TP"
    BY <2>2 DEF QueriesOf
  <2>5. job \in {"tp", "vswr"} => dev' = dev
    BY <2>1, <2>3, <2>4 DEF Effect
  <2>6. Still' => Still /\ ~stalled /\ line = << >>
    BY <1>0, <2>1, StillGrows DEF LineInv, LineIdle
  <2>7. ASSUME Still', job = "tp", line' # << >>
        PROVE  Head(line').v = dev.TP
    <3>1. line' = << DeviceAnswer("TP") >>
      BY <2>1, <2>4, <2>6, <2>7 DEF Send
    <3> QED
      BY <3>1 DEF DeviceAnswer
  <2>8. Still' => TpTrue'
    BY <2>1, <2>5, <2>7 DEF TpTrue
  <2>9. Still' => WatchOver'
    BY <2>1, <2>5, <2>6 DEF WatchInv, WatchOver
  <2> QED
    BY <1>b, <2>1, <2>8, <2>9 DEF WatchInv
<1> QED
  BY <1>1, <1>2, <1>3, <1>4, <1>5, <1>6, <1>7, <1>8, <1>9, <1>10, <1>11, <1>12, <1>13
     DEF Driver, Querying, Tuning

LEMMA WatchStep ==
  ASSUME IInv, LineInv, WatchInv, [Next]_vars
  PROVE  WatchInv'
<1>0. TypeOK
  BY DEF IInv
<1>1. CASE Clock \/ OtherTasks
  BY <1>0, <1>1, OthersGrow, WatchFrame DEF query
<1>2. CASE Environment
  <2>1. Grown /\ UNCHANGED <<pc, job, expired>>
    BY <1>0, <1>2, EnvironmentGrows DEF query
  <2>2. CASE ~Still'
    BY <2>1, <2>2 DEF WatchInv, Watched
  <2>3. CASE TuneEnds
    BY <1>0, <2>1, <2>3, WatchFrame DEF TuneEnds, TypeOK, Device
  <2>4. CASE dev' = dev /\ (line' = line \/ line' = << >>)
    BY <2>1, <2>4, WatchFrame
  <2> QED
    BY <1>0, <1>2, <2>2, <2>3, <2>4, EnvironmentGrows
<1>3. CASE UNCHANGED vars
  BY <1>3, WatchFrame, KeepGrows DEF vars, query
<1> QED
  BY <1>1, <1>2, <1>3, WatchDriver DEF Next

(* A watch that did not run into its limit ended because the tune did,     *)
(* also when commands were lost or not answered, as long as no answer is   *)
(* late and nobody tunes at the front panel (poll_tune_until_idle).        *)
THEOREM WatchedTuneIsOverHolds == Spec => []WatchedTuneIsOver
<1>1. Init => WatchInv
  BY DEF Init, WatchInv, Watched, TpTrue, WatchOver
<1>2. IInv /\ LineInv /\ WatchInv /\ [Next]_vars => LineInv' /\ WatchInv'
  BY LineStep, WatchStep
<1>3. WatchInv => WatchedTuneIsOver
  BY DEF WatchInv, WatchOver, WatchedTuneIsOver, Still
<1> QED
  BY <1>1, <1>2, <1>3, InitIInv, StepInv, LineInit, PTL DEF Spec
=============================================================================
