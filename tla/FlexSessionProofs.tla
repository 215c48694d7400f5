------------------------- MODULE FlexSessionProofs -------------------------
(***************************************************************************)
(* Proofs about FlexSession, for all settings and bounds.                  *)
(***************************************************************************)
EXTENDS FlexSession, SequenceTheorems, FiniteSetTheorems, TLAPS

(* Groups of variables are always expanded.                                *)
USE DEF flexVars, taskVars, radioVars, histVars, wire

(* The inductive invariant.  The history variables count what the flags    *)
(* say; before the create the session can have heard of no amplifier and   *)
(* sent nothing, as no object is of its number; an object is of a session  *)
(* that was connected; and a removal seen outside the lab leaves only the  *)
(* end of the session and the halt.                                        *)
Counted == /\ creates = IF createSent THEN 1 ELSE 0
           /\ registrations = IF registered THEN 1 ELSE 0
Ordered == /\ registered => createSent
           /\ pc = "create" => ~createSent
Quiet == ~createSent =>
            /\ toRadio = << >> /\ handle = None /\ session \notin objects
            /\ \A i \in DOMAIN toBridge : toBridge[i].t \in {"H", "X"}
Numbered == /\ \A obj \in objects : obj =< session
            /\ linked => session \in Objects
Away == pc = "away" => ampHandle = None /\ lifeAmp # "active"
Stopped == Halts => pc \in {"ended", "halted"} /\ ampHandle = None
Types == FlexTypeOK /\ TaskTypeOK /\ WireTypeOK /\ RadioTypeOK
IInv == /\ Types /\ Counted /\ Ordered /\ Quiet /\ Numbered /\ Away /\ Stopped
        /\ HandleShared /\ ActiveIsKnown /\ OperateNeedsPermission

LEMMA InitIInv == Init => IInv
<1> SUFFICES ASSUME Init PROVE IInv
  OBVIOUS
<1>1. FlexTypeOK
  BY DEF Init, FlexTypeOK, Lifecycle
<1>2. session \in 0..MaxSessions
  BY BoundsAssumption DEF Init
<1>3. TaskTypeOK
  BY <1>2 DEF Init, TaskTypeOK
<1>4. used \in [sets : 0..MaxSets, removals : 0..MaxRemovals]
  BY BoundsAssumption DEF Init
<1>5. WireTypeOK
  <2>1. toRadio \in Seq(Command) /\ toBridge \in Seq(Line)
    BY DEF Init
  <2> QED
    BY <2>1 DEF Init, WireTypeOK
<1>8. RadioTypeOK
  BY <1>4 DEF Init, RadioTypeOK
<1>6. Counted /\ Ordered /\ Quiet /\ Numbered /\ Away /\ Stopped
  BY DEF Init, Counted, Ordered, Quiet, Numbered, Away, Stopped, Halts
<1>7. HandleShared /\ ActiveIsKnown /\ OperateNeedsPermission
  BY NoneAssumption
     DEF Init, HandleShared, ActiveIsKnown, InSession, OperateNeedsPermission
<1> QED
  BY <1>1, <1>3, <1>5, <1>6, <1>7, <1>8 DEF IInv, Types

-----------------------------------------------------------------------------
(* Lines and commands.                                                     *)

LEMMA LineFields ==
  ASSUME NEW l \in Line
  PROVE  /\ l.t \in {"H", "R", "S", "X"}
         /\ l.t = "R" => /\ l.k \in CmdKind /\ l.ok \in BOOLEAN
                         /\ l.obj \in Objects \cup {None}
         /\ l.t = "S" => /\ l.obj \in Objects /\ l.op \in BOOLEAN \cup {None}
                         /\ l.full \in BOOLEAN
         /\ l.t = "X" => l.obj \in Objects
BY DEF Line

LEMMA AnswerIsLine ==
  ASSUME NEW k \in CmdKind, NEW ok \in BOOLEAN, NEW obj \in Objects \cup {None}
  PROVE  Answer(k, ok, obj) \in Line
BY DEF Answer, Line

LEMMA StatusIsLine ==
  ASSUME NEW obj \in Objects, NEW op \in BOOLEAN \cup {None},
         NEW full \in BOOLEAN
  PROVE  Status(obj, op, full) \in Line /\ Status(obj, op, full).t = "S"
BY DEF Status, Line

LEMMA CmdIsCommand ==
  /\ \A k \in {"create", "subscribe", "refresh"} : Cmd(k, None, None) \in Command
  /\ \A k \in {"set", "assist"}, obj \in Objects, op \in BOOLEAN :
       Cmd(k, obj, op) \in Command
BY DEF Cmd, Command

LEMMA RegistrationIsCommands == Registration \in Seq(Command)
BY CmdIsCommand DEF Registration, CmdKind

(* Short sequences of lines.                                               *)
LEMMA LineSeqs ==
  /\ \A l \in Line : <<l>> \in Seq(Line)
  /\ \A l, m \in Line : <<l, m>> \in Seq(Line)
  /\ \A s, t \in Seq(Line) : s \o t \in Seq(Line)
OBVIOUS

LEMMA LinesOf ==
  ASSUME NEW n \in Nat, NEW f \in [1..n -> Line]
  PROVE  f \in Seq(Line)
OBVIOUS

LEMMA SendType ==
  ASSUME WireTypeOK, NEW cmds \in Seq(Command), Send(cmds)
  PROVE  toRadio' \in Seq(Command)
BY DEF WireTypeOK, Send

LEMMA TellType ==
  ASSUME WireTypeOK, NEW lines \in Seq(Line), Tell(lines)
  PROVE  toBridge' \in Seq(Line)
BY DEF WireTypeOK, Tell

(* The first line is a line, and what is left was there before.            *)
LEMMA FirstLine ==
  ASSUME WireTypeOK, NEW t, NextLine(t)
  PROVE  /\ Head(toBridge) \in Line /\ Head(toBridge).t = t
         /\ Head(toBridge) = toBridge[1] /\ 1 \in DOMAIN toBridge
         /\ toBridge' \in Seq(Line)
         /\ \A i \in DOMAIN toBridge' : /\ i + 1 \in DOMAIN toBridge
                                       /\ toBridge'[i] = toBridge[i + 1]
BY HeadTailProperties DEF WireTypeOK, NextLine

-----------------------------------------------------------------------------
(* The bridge's steps keep the invariant.                                  *)

LEMMA ConnectInv == IInv /\ Connect => IInv'
<1> SUFFICES ASSUME IInv, Connect PROVE IInv'
  OBVIOUS
<1> USE DEF Connect
<1>1. session' \in Objects /\ session' = session + 1
  BY BoundsAssumption DEF IInv, Types, TaskTypeOK, Objects
<1>2. FlexTypeOK'
  BY DEF IInv, Types, FlexTypeOK, Lifecycle
<1>3. TaskTypeOK'
  <2>1. session' \in 0..MaxSessions
    BY <1>1, BoundsAssumption DEF Objects
  <2> QED
    BY <2>1 DEF TaskTypeOK
<1>4. WireTypeOK'
  <2>1. [t |-> "H"] \in Line
    BY DEF Line
  <2>2. toRadio' \in Seq(Command) /\ toBridge' \in Seq(Line)
    BY <2>1
  <2> QED
    BY <2>2 DEF WireTypeOK
<1>5. RadioTypeOK'
  BY DEF IInv, Types, RadioTypeOK
<1>6. Counted' /\ Ordered'
  BY DEF Counted, Ordered
<1>7. Numbered' /\ session' \notin objects'
  <2>1. \A obj \in objects : obj \in Nat /\ obj =< session
    BY DEF IInv, Types, RadioTypeOK, Numbered, Objects
  <2> QED
    BY <2>1, <1>1 DEF Numbered, Objects, IInv, Types, TaskTypeOK
<1>8. Quiet'
  BY <1>7 DEF Quiet
<1>9. Away' /\ Stopped'
  BY DEF IInv, Away, Stopped, Halts
<1>10. HandleShared' /\ ActiveIsKnown' /\ OperateNeedsPermission'
  BY DEF IInv, Away, HandleShared, ActiveIsKnown, InSession,
         OperateNeedsPermission
<1> QED
  BY <1>2, <1>3, <1>4, <1>5, <1>6, <1>7, <1>8, <1>9, <1>10 DEF IInv, Types

LEMMA SessionErrorInv == IInv /\ SessionError => IInv'
<1> SUFFICES ASSUME IInv, SessionError PROVE IInv'
  OBVIOUS
<1> USE DEF SessionError
<1>1. FlexTypeOK' /\ TaskTypeOK'
  BY DEF IInv, Types, FlexTypeOK, TaskTypeOK
<1>2. WireTypeOK' /\ RadioTypeOK'
  BY DEF IInv, Types, WireTypeOK, RadioTypeOK
<1>3. Counted' /\ Ordered' /\ Quiet' /\ Numbered' /\ Away' /\ Stopped'
  BY DEF IInv, Counted, Ordered, Quiet, Numbered, Away, Stopped, Halts
<1>4. HandleShared' /\ ActiveIsKnown' /\ OperateNeedsPermission'
  BY DEF IInv, HandleShared, ActiveIsKnown, InSession, OperateNeedsPermission
<1> QED
  BY <1>1, <1>2, <1>3, <1>4 DEF IInv, Types

LEMMA SessionOverInv ==
  ASSUME IInv, NEW from \in {"ended", "away"}, SessionOver(from)
  PROVE  IInv'
<1> USE DEF SessionOver
<1>1. FlexTypeOK' /\ TaskTypeOK'
  BY DEF IInv, Types, FlexTypeOK, TaskTypeOK, Lifecycle
<1>2. WireTypeOK'
  <2>1. toRadio' \in Seq(Command) /\ toBridge' \in Seq(Line)
    OBVIOUS
  <2> QED
    BY <2>1 DEF WireTypeOK
<1>3. RadioTypeOK'
  BY DEF IInv, Types, RadioTypeOK
<1>4. Counted' /\ Ordered' /\ Quiet' /\ Numbered'
  BY DEF IInv, Counted, Ordered, Quiet, Numbered
<1>5. Away' /\ Stopped' /\ HandleShared'
  BY DEF IInv, Away, Stopped, Halts, HandleShared, InSession
<1>6. ActiveIsKnown' /\ OperateNeedsPermission'
  BY DEF IInv, ActiveIsKnown, InSession, OperateNeedsPermission
<1> QED
  BY <1>1, <1>2, <1>3, <1>4, <1>5, <1>6 DEF IInv, Types

LEMMA SendCreateInv == IInv /\ SendCreate => IInv'
<1> SUFFICES ASSUME IInv, SendCreate PROVE IInv'
  OBVIOUS
<1> USE DEF SendCreate
<1>1. FlexTypeOK' /\ TaskTypeOK'
  BY DEF IInv, Types, FlexTypeOK, TaskTypeOK, Lifecycle
<1>2. WireTypeOK'
  <2>1. <<Cmd("create", None, None)>> \in Seq(Command)
    BY CmdIsCommand DEF CmdKind
  <2>2. toRadio' \in Seq(Command)
    BY <2>1, SendType DEF IInv, Types
  <2> QED
    BY <2>2 DEF IInv, Types, WireTypeOK
<1>3. RadioTypeOK'
  BY DEF IInv, Types, RadioTypeOK
<1>4. Counted' /\ Ordered' /\ Quiet' /\ Numbered' /\ Away' /\ Stopped'
  BY DEF IInv, Counted, Ordered, Quiet, Numbered, Away, Stopped, Halts
<1>5. HandleShared' /\ ActiveIsKnown' /\ OperateNeedsPermission'
  BY DEF IInv, HandleShared, ActiveIsKnown, InSession, OperateNeedsPermission
<1> QED
  BY <1>1, <1>2, <1>3, <1>4, <1>5 DEF IInv, Types

LEMMA FallbackInv == IInv /\ Fallback => IInv'
<1> SUFFICES ASSUME IInv, Fallback PROVE IInv'
  OBVIOUS
<1> USE DEF Fallback, Register
<1>1. FlexTypeOK'
  BY DEF IInv, Types, FlexTypeOK, Lifecycle
<1>6. TaskTypeOK'
  BY DEF IInv, Types, TaskTypeOK
<1>2. WireTypeOK'
  <2>1. toRadio' \in Seq(Command)
    BY SendType, RegistrationIsCommands DEF IInv, Types, WireTypeOK
  <2> QED
    BY <2>1 DEF IInv, Types, WireTypeOK
<1>3. RadioTypeOK'
  BY DEF IInv, Types, RadioTypeOK
<1>4. Counted' /\ Ordered' /\ Quiet' /\ Numbered' /\ Away' /\ Stopped'
  BY DEF IInv, Counted, Ordered, Quiet, Numbered, Away, Stopped, Halts
<1>5. HandleShared' /\ ActiveIsKnown' /\ OperateNeedsPermission'
  BY DEF IInv, HandleShared, ActiveIsKnown, InSession, OperateNeedsPermission
<1> QED
  BY <1>1, <1>2, <1>3, <1>4, <1>5, <1>6 DEF IInv, Types

LEMMA RefreshInv ==
  ASSUME IInv, NEW retry \in BOOLEAN, Refresh(retry)
  PROVE  IInv'
<1> USE DEF Refresh
<1>1. FlexTypeOK' /\ TaskTypeOK'
  BY DEF IInv, Types, FlexTypeOK, TaskTypeOK
<1>2. WireTypeOK'
  <2>1. <<Cmd("refresh", None, None)>> \in Seq(Command)
    BY CmdIsCommand DEF CmdKind
  <2>2. toRadio' \in Seq(Command)
    BY <2>1, SendType DEF IInv, Types
  <2> QED
    BY <2>2 DEF IInv, Types, WireTypeOK
<1>3. RadioTypeOK'
  BY DEF IInv, Types, RadioTypeOK
<1>4. Counted' /\ Ordered' /\ Quiet' /\ Numbered' /\ Away' /\ Stopped'
  BY DEF IInv, Counted, Ordered, Quiet, Numbered, Away, Stopped, Halts
<1>5. HandleShared' /\ ActiveIsKnown' /\ OperateNeedsPermission'
  BY DEF IInv, HandleShared, ActiveIsKnown, InSession, OperateNeedsPermission
<1> QED
  BY <1>1, <1>2, <1>3, <1>4, <1>5 DEF IInv, Types

(* What taking the next line keeps; an answer or a status is heard only    *)
(* after the create.                                                       *)
LEMMA NextLineKept ==
  ASSUME IInv, NEW t, NextLine(t)
  PROVE  /\ toBridge' \in Seq(Line) /\ RadioTypeOK' /\ Numbered'
         /\ ~createSent => \A i \in DOMAIN toBridge' : toBridge'[i].t \in {"H", "X"}
         /\ t \in {"R", "S"} => createSent
         /\ ~Halts
<1>1. toBridge' \in Seq(Line)
  BY FirstLine DEF IInv, Types
<1>2. RadioTypeOK' /\ Numbered'
  BY DEF NextLine, IInv, Types, RadioTypeOK, Numbered
<1>3. ASSUME ~createSent
      PROVE  \A i \in DOMAIN toBridge' : toBridge'[i].t \in {"H", "X"}
  BY <1>3, FirstLine DEF IInv, Types, Quiet
<1>4. ASSUME t \in {"R", "S"} PROVE createSent
  BY <1>4, FirstLine DEF IInv, Types, Quiet
<1>5. ~Halts
  BY DEF NextLine, IInv, Stopped
<1> QED
  BY <1>1, <1>2, <1>3, <1>4, <1>5

LEMMA ReceiveHandleInv == IInv /\ ReceiveHandle => IInv'
<1> SUFFICES ASSUME IInv, ReceiveHandle PROVE IInv'
  OBVIOUS
<1> USE DEF ReceiveHandle
<1>1. /\ toBridge' \in Seq(Line) /\ RadioTypeOK' /\ Numbered'
      /\ ~createSent => \A i \in DOMAIN toBridge' : toBridge'[i].t \in {"H", "X"}
  BY NextLineKept
<1>2. FlexTypeOK'
  BY DEF IInv, Types, FlexTypeOK, Lifecycle, NextLine
<1>3. TaskTypeOK'
  BY DEF IInv, Types, TaskTypeOK, NextLine
<1>4. WireTypeOK'
  BY <1>1 DEF IInv, Types, WireTypeOK, NextLine
<1>5. Counted' /\ Ordered'
  BY DEF IInv, Counted, Ordered, NextLine
<1>6. Quiet'
  BY <1>1 DEF IInv, Quiet, NextLine
<1>7. Away' /\ Stopped'
  BY NextLineKept DEF IInv, Away, Stopped, Halts, NextLine
<1>8. HandleShared' /\ ActiveIsKnown' /\ OperateNeedsPermission'
  BY DEF IInv, HandleShared, ActiveIsKnown, InSession, OperateNeedsPermission,
         NextLine
<1> QED
  BY <1>1, <1>2, <1>3, <1>4, <1>5, <1>6, <1>7, <1>8 DEF IInv, Types

LEMMA ReceiveForeignInv == IInv /\ ReceiveForeign => IInv'
<1> SUFFICES ASSUME IInv, ReceiveForeign PROVE IInv'
  OBVIOUS
<1> USE DEF ReceiveForeign
<1>1. /\ toBridge' \in Seq(Line) /\ RadioTypeOK' /\ Numbered' /\ ~Halts
      /\ ~createSent => \A i \in DOMAIN toBridge' : toBridge'[i].t \in {"H", "X"}
  BY NextLineKept
<1>2. FlexTypeOK'
  BY DEF IInv, Types, FlexTypeOK, Lifecycle, NextLine
<1>3. TaskTypeOK'
  BY DEF IInv, Types, TaskTypeOK, NextLine
<1>4. WireTypeOK'
  BY <1>1 DEF IInv, Types, WireTypeOK, NextLine
<1>5. Counted' /\ Ordered'
  BY DEF IInv, Counted, Ordered, NextLine
<1>6. Quiet' /\ Away' /\ Stopped'
  BY <1>1 DEF IInv, Quiet, Away, Stopped, Halts, NextLine
<1>8. HandleShared' /\ ActiveIsKnown' /\ OperateNeedsPermission'
  BY DEF IInv, HandleShared, ActiveIsKnown, InSession, OperateNeedsPermission,
         NextLine
<1> QED
  BY <1>1, <1>2, <1>3, <1>4, <1>5, <1>6, <1>8 DEF IInv, Types

(* Every answer comes after the create, and what it adds to the handle is  *)
(* shared at once.                                                         *)
LEMMA ReceiveAnswerInv == IInv /\ ReceiveAnswer => IInv'
<1> SUFFICES ASSUME IInv, ReceiveAnswer PROVE IInv'
  OBVIOUS
<1> DEFINE answer == Head(toBridge)
           created == answer.k = "create" /\ answer.ok
           named == created /\ answer.obj # None
           known == IF named THEN answer.obj ELSE handle
<1>1. /\ NextLine("R") /\ UNCHANGED <<removedSeen, desired, pc, labSent, assistSent>>
      /\ handle' = known /\ ampHandle' = IF named THEN answer.obj ELSE ampHandle
      /\ accepted' = (accepted \/ created)
      /\ lifeAmp' = LifeAfterCreate(created, named)
      /\ lifeSession' \in {"subscribed", "active"}
      /\ armed' = (armed \/ Arms(created, known))
      /\ IF GoesOn(known)
         THEN Register /\ Send(Registration)
         ELSE UNCHANGED <<registered, registrations, toRadio>>
  BY DEF ReceiveAnswer
<1>2. /\ toBridge' \in Seq(Line) /\ RadioTypeOK' /\ Numbered' /\ ~Halts
      /\ createSent
  BY <1>1, NextLineKept
<1>3. /\ answer.k \in CmdKind /\ answer.ok \in BOOLEAN
      /\ answer.obj \in Objects \cup {None}
  BY <1>1, FirstLine, LineFields DEF IInv, Types
<1>4. created \in BOOLEAN /\ named \in BOOLEAN
  BY <1>3
<1>5. known \in Objects \cup {None} /\ ampHandle' \in Objects \cup {None}
  BY <1>1, <1>3 DEF IInv, Types, FlexTypeOK, TaskTypeOK
<1> HIDE DEF answer
<1>6. lifeAmp' \in Lifecycle
  BY <1>1 DEF LifeAfterCreate, IInv, Types, FlexTypeOK, Lifecycle
<1>7. FlexTypeOK'
  <2>1. accepted' \in BOOLEAN
    BY <1>1
  <2> QED
    BY <1>1, <1>5, <1>6, <2>1 DEF IInv, Types, FlexTypeOK, Lifecycle, NextLine
<1>8. registered' \in BOOLEAN /\ toRadio' \in Seq(Command)
  BY <1>1, SendType, RegistrationIsCommands
     DEF Register, IInv, Types, TaskTypeOK, WireTypeOK
<1>9. TaskTypeOK'
  <2>1. armed' \in BOOLEAN
    BY <1>1
  <2> QED
    BY <1>1, <1>5, <1>8, <2>1 DEF IInv, Types, TaskTypeOK, NextLine
<1>10. WireTypeOK'
  BY <1>1, <1>2, <1>8 DEF IInv, Types, WireTypeOK, NextLine
<1>11. Counted' /\ Ordered' /\ Quiet'
  BY <1>1, <1>2
     DEF GoesOn, Register, IInv, Counted, Ordered, Quiet, NextLine
<1>12. Away' /\ Stopped'
  BY <1>1, <1>2 DEF Away, Stopped, Halts, NextLine
<1>13. HandleShared'
  BY <1>1 DEF IInv, HandleShared, InSession, NextLine
<1>14. ActiveIsKnown'
  BY <1>1 DEF LifeAfterCreate, IInv, ActiveIsKnown, InSession, NextLine
<1>15. OperateNeedsPermission'
  BY <1>1 DEF IInv, OperateNeedsPermission
<1> QED
  BY <1>2, <1>7, <1>9, <1>10, <1>11, <1>12, <1>13, <1>14, <1>15 DEF IInv, Types

LEMMA RepliesAreCommands ==
  ASSUME NEW status \in Line, status.t = "S"
  PROVE  Replies(status) \in Seq(Command)
<1> DEFINE assist == Cmd("assist", status.obj, TRUE)
           revert == Cmd("set", status.obj, FALSE)
<1>1. assist \in Command /\ revert \in Command
  BY CmdIsCommand, LineFields DEF CmdKind
<1> HIDE DEF assist, revert
<1>2. ASSUME NEW b, NEW cmds \in Seq(Command)
      PROVE  If(b, cmds) \in Seq(Command)
  BY DEF If
<1>3. <<assist>> \in Seq(Command) /\ <<revert>> \in Seq(Command)
  BY <1>1
<1>4. /\ If(~registered, Registration) \in Seq(Command)
      /\ If(NeedsLab, <<assist>>) \in Seq(Command)
      /\ If(NeedsAssist(status), <<assist>>) \in Seq(Command)
      /\ If(Refused(status), <<revert>>) \in Seq(Command)
  BY <1>2, <1>3, RegistrationIsCommands
<1>5. If(~registered, Registration) \o If(NeedsLab, <<assist>>)
      \o If(NeedsAssist(status), <<assist>>) \o If(Refused(status), <<revert>>)
      \in Seq(Command)
  BY <1>4
<1> QED
  BY <1>5 DEF Replies, assist, revert

(* A request that is left for the driver is one that is allowed.           *)
LEMMA ReceiveStatusInv == IInv /\ ReceiveStatus => IInv'
<1> SUFFICES ASSUME IInv, ReceiveStatus PROVE IInv'
  OBVIOUS
<1> DEFINE status == Head(toBridge)
<1>1. /\ NextLine("S") /\ UNCHANGED <<removedSeen, accepted, pc, armed>>
      /\ handle' = status.obj /\ ampHandle' = status.obj
      /\ lifeAmp' = "active" /\ lifeSession' \in {"active", "subscribed"}
      /\ IF registered THEN UNCHANGED <<registered, registrations>>
                       ELSE Register
      /\ labSent' = (labSent \/ NeedsLab)
      /\ assistSent' \in {status.obj, assistSent}
      /\ Send(Replies(status))
      /\ desired' = IF Asked(status) /\ ~Refused(status)
                    THEN status.op ELSE desired
  BY DEF ReceiveStatus
<1>2. /\ toBridge' \in Seq(Line) /\ RadioTypeOK' /\ Numbered' /\ ~Halts
      /\ createSent
  BY <1>1, NextLineKept
<1>3. /\ status \in Line /\ status.t = "S" /\ status.obj \in Objects
      /\ status.op \in BOOLEAN \cup {None}
  BY <1>1, FirstLine, LineFields DEF IInv, Types
<1>4. toRadio' \in Seq(Command)
  BY <1>1, <1>3, SendType, RepliesAreCommands DEF IInv, Types
<1> HIDE DEF status
<1>5. desired' \in BOOLEAN \cup {None}
  BY <1>1, <1>3 DEF IInv, Types, FlexTypeOK
<1>6. FlexTypeOK'
  BY <1>1, <1>3, <1>5 DEF IInv, Types, FlexTypeOK, Lifecycle, NextLine
<1>7. labSent' \in BOOLEAN
  BY <1>1
<1>8. TaskTypeOK'
  BY <1>1, <1>3, <1>7 DEF Register, IInv, Types, TaskTypeOK, NextLine
<1>9. WireTypeOK'
  BY <1>1, <1>2, <1>4 DEF IInv, Types, WireTypeOK, NextLine
<1>10. Counted' /\ Ordered' /\ Quiet'
  BY <1>1, <1>2 DEF Register, IInv, Counted, Ordered, Quiet, NextLine
<1>11. Away' /\ Stopped'
  BY <1>1, <1>2 DEF Away, Stopped, Halts, NextLine
<1>12. HandleShared'
  BY <1>1 DEF IInv, HandleShared, InSession, NextLine
<1>13. ActiveIsKnown'
  <2>1. handle' # None
    BY <1>1, <1>3, NoneAssumption DEF Objects
  <2> QED
    BY <2>1 DEF ActiveIsKnown
<1>14. OperateNeedsPermission'
  <2>1. CASE Asked(status) /\ ~Refused(status)
    <3>1. ~AllowRfRisk => status.op # TRUE
      BY <2>1 DEF Refused
    <3> QED
      BY <1>1, <2>1, <3>1 DEF OperateNeedsPermission
  <2>2. CASE ~(Asked(status) /\ ~Refused(status))
    BY <1>1, <2>2 DEF IInv, OperateNeedsPermission
  <2> QED
    BY <2>1, <2>2
<1> QED
  BY <1>2, <1>6, <1>8, <1>9, <1>10, <1>11, <1>12, <1>13, <1>14 DEF IInv, Types

LEMMA ReceiveRemovedInv == IInv /\ ReceiveRemoved => IInv'
<1> SUFFICES ASSUME IInv, ReceiveRemoved PROVE IInv'
  OBVIOUS
<1> USE DEF ReceiveRemoved
<1>1. /\ toBridge' \in Seq(Line) /\ RadioTypeOK' /\ Numbered' /\ ~Halts
      /\ ~createSent => \A i \in DOMAIN toBridge' : toBridge'[i].t \in {"H", "X"}
  BY NextLineKept
<1>2. FlexTypeOK'
  BY DEF IInv, Types, FlexTypeOK, Lifecycle, NextLine
<1>3. TaskTypeOK'
  BY DEF IInv, Types, TaskTypeOK, NextLine
<1>4. WireTypeOK'
  BY <1>1 DEF IInv, Types, WireTypeOK, NextLine
<1>5. Counted' /\ Ordered'
  BY DEF IInv, Counted, Ordered, NextLine
<1>6. Quiet'
  BY <1>1 DEF IInv, Quiet, NextLine
<1>7. Away' /\ Stopped' /\ HandleShared'
  BY <1>1 DEF IInv, Away, Stopped, Halts, HandleShared, InSession, NextLine
<1>8. ActiveIsKnown' /\ OperateNeedsPermission'
  BY DEF IInv, ActiveIsKnown, InSession, OperateNeedsPermission, NextLine
<1> QED
  BY <1>1, <1>2, <1>3, <1>4, <1>5, <1>6, <1>7, <1>8 DEF IInv, Types

-----------------------------------------------------------------------------
(* The environment's steps keep the invariant.                             *)

LEMMA KpaTakesRequestInv == IInv /\ KpaTakesRequest => IInv'
<1> SUFFICES ASSUME IInv, KpaTakesRequest PROVE IInv'
  OBVIOUS
<1> USE DEF KpaTakesRequest
<1>1. FlexTypeOK' /\ TaskTypeOK'
  BY DEF IInv, Types, FlexTypeOK, TaskTypeOK
<1>2. WireTypeOK' /\ RadioTypeOK'
  BY DEF IInv, Types, WireTypeOK, RadioTypeOK
<1>3. Counted' /\ Ordered' /\ Quiet' /\ Numbered' /\ Away' /\ Stopped'
  BY DEF IInv, Counted, Ordered, Quiet, Numbered, Away, Stopped, Halts
<1>4. HandleShared' /\ ActiveIsKnown' /\ OperateNeedsPermission'
  BY NoneAssumption
     DEF IInv, HandleShared, ActiveIsKnown, InSession, OperateNeedsPermission
<1> QED
  BY <1>1, <1>2, <1>3, <1>4 DEF IInv, Types

(* What only the wire and the radio can disturb.                           *)
LEMMA RadioStep ==
  ASSUME IInv, UNCHANGED bridgeVars,
         WireTypeOK', RadioTypeOK', Numbered', Quiet'
  PROVE  IInv'
<1> USE DEF bridgeVars
<1>1. FlexTypeOK' /\ TaskTypeOK'
  BY DEF IInv, Types, FlexTypeOK, TaskTypeOK
<1>2. Counted' /\ Ordered' /\ Away' /\ Stopped'
  BY DEF IInv, Counted, Ordered, Away, Stopped, Halts
<1>3. HandleShared' /\ ActiveIsKnown' /\ OperateNeedsPermission'
  BY DEF IInv, HandleShared, ActiveIsKnown, InSession, OperateNeedsPermission
<1> QED
  BY <1>1, <1>2, <1>3 DEF IInv, Types

(* The radio takes a command: there is one only after the create.          *)
LEMMA CommandTaken ==
  ASSUME IInv, UNCHANGED bridgeVars, UNCHANGED linked,
         linked, toRadio # << >>, toRadio' = Tail(toRadio),
         NEW lines \in Seq(Line), Tell(lines)
  PROVE  /\ WireTypeOK' /\ Quiet' /\ createSent
         /\ Head(toRadio) \in Command /\ session \in Objects
<1>1. toRadio' \in Seq(Command) /\ Head(toRadio) \in Command
  BY HeadTailProperties DEF IInv, Types, WireTypeOK
<1>2. WireTypeOK'
  BY <1>1, TellType DEF IInv, Types, WireTypeOK
<1>3. createSent
  BY DEF IInv, Quiet
<1> QED
  BY <1>1, <1>2, <1>3 DEF IInv, Quiet, Numbered, bridgeVars

LEMMA RadioCreatesInv == IInv /\ RadioCreates => IInv'
<1> SUFFICES ASSUME IInv, RadioCreates PROVE IInv'
  OBVIOUS
<1>1. session \in Objects
  BY DEF RadioCreates, IInv, Numbered
<1>2. PICK lines \in Seq(Line) : /\ Tell(lines)
                               /\ objects' \in {objects, objects \cup {session}}
  <2>1. CASE \E obj \in {session, None} :
                 /\ objects' = objects \cup {session}
                 /\ \/ Tell(<<Answer("create", TRUE, obj)>>)
                    \/ Tell(<<Status(session, None, TRUE),
                              Answer("create", TRUE, obj)>>)
    <3>1. PICK obj \in {session, None} :
                 /\ objects' = objects \cup {session}
                 /\ \/ Tell(<<Answer("create", TRUE, obj)>>)
                    \/ Tell(<<Status(session, None, TRUE),
                              Answer("create", TRUE, obj)>>)
      BY <2>1
    <3>2. Answer("create", TRUE, obj) \in Line
      BY <1>1, AnswerIsLine DEF CmdKind
    <3>3. Status(session, None, TRUE) \in Line
      BY <1>1, StatusIsLine
    <3>4. /\ <<Answer("create", TRUE, obj)>> \in Seq(Line)
          /\ <<Status(session, None, TRUE), Answer("create", TRUE, obj)>>
             \in Seq(Line)
      BY <3>2, <3>3, LineSeqs
    <3> QED
      BY <3>1, <3>4
  <2>2. CASE Tell(<<Answer("create", FALSE, None)>>) /\ UNCHANGED objects
    <3>1. Answer("create", FALSE, None) \in Line
      BY AnswerIsLine DEF CmdKind
    <3>2. <<Answer("create", FALSE, None)>> \in Seq(Line)
      BY <3>1, LineSeqs
    <3> QED
      BY <2>2, <3>2
  <2> QED
    BY <2>1, <2>2 DEF RadioCreates
<1>3. WireTypeOK' /\ Quiet'
  BY <1>2, CommandTaken DEF RadioCreates
<1>4. RadioTypeOK'
  BY <1>1, <1>2 DEF RadioCreates, IInv, Types, RadioTypeOK
<1>5. Numbered'
  BY <1>1, <1>2 DEF RadioCreates, IInv, Numbered, Objects, bridgeVars
<1> QED
  BY <1>3, <1>4, <1>5, RadioStep DEF RadioCreates

LEMMA RadioReportsInv == IInv /\ RadioReports => IInv'
<1> SUFFICES ASSUME IInv, RadioReports PROVE IInv'
  OBVIOUS
<1>1. Cardinality(objects) \in Nat
  <2>1. IsFiniteSet(Objects)
    BY FS_Interval, BoundsAssumption DEF Objects
  <2> QED
    BY <2>1, FS_Subset, FS_CardinalityType DEF IInv, Types, RadioTypeOK
<1>2. PICK order \in [1..Cardinality(objects) -> objects] :
          Tell(<<Answer(Head(toRadio).k, TRUE, None)>>
               \o [i \in DOMAIN order |-> Status(order[i], None, TRUE)])
  BY DEF RadioReports
<1> DEFINE first == <<Answer(Head(toRadio).k, TRUE, None)>>
           rest == [i \in DOMAIN order |-> Status(order[i], None, TRUE)]
<1>3. first \in Seq(Line)
  <2>1. Answer(Head(toRadio).k, TRUE, None) \in Line
    BY AnswerIsLine DEF RadioReports, CmdKind
  <2> QED
    BY <2>1, LineSeqs
<1>4. rest \in Seq(Line)
  <2>1. \A i \in 1..Cardinality(objects) :
           Status(order[i], None, TRUE) \in Line
    <3> TAKE i \in 1..Cardinality(objects)
    <3>1. order[i] \in Objects
      BY <1>1 DEF IInv, Types, RadioTypeOK
    <3> QED
      BY <3>1, StatusIsLine
  <2>2. rest \in [1..Cardinality(objects) -> Line]
    BY <2>1
  <2> QED
    BY <1>1, <2>2, LinesOf
<1>5. first \o rest \in Seq(Line)
  BY <1>3, <1>4, LineSeqs
<1> HIDE DEF first, rest
<1>6. Tell(first \o rest)
  BY <1>2 DEF first, rest
<1>7. WireTypeOK' /\ Quiet'
  BY <1>5, <1>6, CommandTaken DEF RadioReports
<1>8. RadioTypeOK' /\ Numbered'
  BY DEF RadioReports, IInv, Types, RadioTypeOK, Numbered, bridgeVars
<1> QED
  BY <1>7, <1>8, RadioStep DEF RadioReports

LEMMA RadioSetsInv == IInv /\ RadioSets => IInv'
<1> SUFFICES ASSUME IInv, RadioSets PROVE IInv'
  OBVIOUS
<1> DEFINE cmd == Head(toRadio)
<1>1. cmd \in Command
  BY HeadTailProperties DEF RadioSets, IInv, Types, WireTypeOK
<1>2. cmd.k \in CmdKind /\ cmd.obj \in Objects /\ cmd.op \in BOOLEAN
  BY <1>1 DEF RadioSets, Command, CmdKind
<1> HIDE DEF cmd
<1>3. PICK lines \in Seq(Line) :
         Tell(lines) /\ (radioOperate' = cmd.op \/ UNCHANGED radioOperate)
  <2>1. CASE /\ cmd.obj \in objects
             /\ Tell(<<Answer(cmd.k, TRUE, None),
                       Status(cmd.obj, cmd.op, FALSE)>>)
             /\ radioOperate' = cmd.op
    <3>1. Answer(cmd.k, TRUE, None) \in Line
      BY <1>2, AnswerIsLine
    <3>2. Status(cmd.obj, cmd.op, FALSE) \in Line
      BY <1>2, <2>1, StatusIsLine DEF IInv, Types, RadioTypeOK
    <3>3. <<Answer(cmd.k, TRUE, None), Status(cmd.obj, cmd.op, FALSE)>>
          \in Seq(Line)
      BY <3>1, <3>2, LineSeqs
    <3> QED
      BY <2>1, <3>3
  <2>2. CASE Tell(<<Answer(cmd.k, FALSE, None)>>) /\ UNCHANGED radioOperate
    <3>1. Answer(cmd.k, FALSE, None) \in Line
      BY <1>2, AnswerIsLine
    <3>2. <<Answer(cmd.k, FALSE, None)>> \in Seq(Line)
      BY <3>1, LineSeqs
    <3> QED
      BY <2>2, <3>2
  <2> QED
    BY <2>1, <2>2 DEF RadioSets, cmd
<1>4. WireTypeOK' /\ Quiet'
  BY <1>3, CommandTaken DEF RadioSets
<1>5. RadioTypeOK'
  BY <1>2, <1>3 DEF RadioSets, IInv, Types, RadioTypeOK
<1>6. Numbered'
  BY DEF RadioSets, IInv, Numbered, bridgeVars
<1> QED
  BY <1>4, <1>5, <1>6, RadioStep DEF RadioSets

(* The radio tells of something nobody asked for.                          *)
LEMMA ToldUnasked ==
  ASSUME IInv, UNCHANGED bridgeVars, UNCHANGED <<linked, toRadio>>,
         NEW l \in Line, Tell(<<l>>),
         l.t \in {"H", "X"} \/ session \in objects,
         objects' \subseteq objects
  PROVE  WireTypeOK' /\ Quiet' /\ Numbered'
<1>1. <<l>> \in Seq(Line)
  BY LineSeqs
<1>2. WireTypeOK'
  BY <1>1, TellType DEF IInv, Types, WireTypeOK
<1>3. Quiet'
  <2> SUFFICES ASSUME ~createSent
               PROVE  Quiet'
    BY DEF Quiet, bridgeVars
  <2>1. l.t \in {"H", "X"}
    BY DEF IInv, Quiet
  <2>2. toBridge \in Seq(Line)
    BY DEF IInv, Types, WireTypeOK
  <2>3. \A i \in DOMAIN toBridge' : toBridge'[i].t \in {"H", "X"}
    BY <2>1, <2>2 DEF Tell, IInv, Quiet
  <2> QED
    BY <2>3 DEF IInv, Quiet, bridgeVars
<1>4. Numbered'
  BY DEF IInv, Numbered, bridgeVars
<1> QED
  BY <1>2, <1>3, <1>4

LEMMA RadioAnnouncesInv == IInv /\ RadioAnnounces => IInv'
<1> SUFFICES ASSUME IInv, RadioAnnounces PROVE IInv'
  OBVIOUS
<1>1. Status(session, None, TRUE) \in Line
  BY StatusIsLine DEF RadioAnnounces, IInv, Types, RadioTypeOK
<1>2. WireTypeOK' /\ Quiet' /\ Numbered'
  BY <1>1, ToldUnasked DEF RadioAnnounces
<1>3. RadioTypeOK'
  BY DEF RadioAnnounces, IInv, Types, RadioTypeOK
<1> QED
  BY <1>2, <1>3, RadioStep DEF RadioAnnounces

LEMMA ClientSetsInv ==
  ASSUME IInv, NEW op \in BOOLEAN, ClientSets(op)
  PROVE  IInv'
<1>1. PICK full \in BOOLEAN : Tell(<<Status(session, op, full)>>)
  BY DEF ClientSets
<1>2. Status(session, op, full) \in Line
  BY StatusIsLine DEF ClientSets, IInv, Types, RadioTypeOK
<1>3. WireTypeOK' /\ Quiet' /\ Numbered'
  BY <1>1, <1>2, ToldUnasked DEF ClientSets
<1>4. used' \in [sets : 0..MaxSets, removals : 0..MaxRemovals]
  BY BoundsAssumption DEF ClientSets, IInv, Types, RadioTypeOK
<1>5. RadioTypeOK'
  BY <1>4 DEF ClientSets, IInv, Types, RadioTypeOK
<1> QED
  BY <1>3, <1>5, RadioStep DEF ClientSets

LEMMA RadioRemovesInv ==
  ASSUME IInv, NEW obj \in objects, RadioRemoves(obj)
  PROVE  IInv'
<1>1. [t |-> "X", obj |-> obj] \in Line
  BY DEF Line, IInv, Types, RadioTypeOK
<1>2. objects' \subseteq objects
  BY DEF RadioRemoves
<1>3. WireTypeOK' /\ Quiet' /\ Numbered'
  <2>1. CASE linked
    BY <1>1, <1>2, <2>1, ToldUnasked DEF RadioRemoves
  <2>2. CASE ~linked
    BY <1>2, <2>2
       DEF RadioRemoves, IInv, Types, WireTypeOK, Quiet, Numbered, bridgeVars
  <2> QED
    BY <2>1, <2>2
<1>4. used' \in [sets : 0..MaxSets, removals : 0..MaxRemovals]
  BY BoundsAssumption DEF RadioRemoves, IInv, Types, RadioTypeOK
<1>5. radioOperate' \in BOOLEAN
  BY DEF RadioRemoves
<1>6. RadioTypeOK'
  BY <1>2, <1>4, <1>5 DEF IInv, Types, RadioTypeOK
<1> QED
  BY <1>3, <1>6, RadioStep DEF RadioRemoves

LEMMA LinkLostInv == IInv /\ LinkLost => IInv'
<1> SUFFICES ASSUME IInv, LinkLost PROVE IInv'
  OBVIOUS
<1>1. toRadio' \in Seq(Command)
  BY DEF LinkLost
<1>2. WireTypeOK'
  BY <1>1 DEF LinkLost, IInv, Types, WireTypeOK
<1>3. RadioTypeOK'
  BY DEF LinkLost, IInv, Types, RadioTypeOK
<1>4. Numbered' /\ Quiet'
  BY DEF LinkLost, IInv, Numbered, Quiet, bridgeVars
<1> QED
  BY <1>2, <1>3, <1>4, RadioStep DEF LinkLost

LEMMA StutterInv == IInv /\ UNCHANGED vars => IInv'
<1> SUFFICES ASSUME IInv, UNCHANGED vars PROVE IInv'
  OBVIOUS
<1>1. WireTypeOK' /\ RadioTypeOK' /\ Numbered' /\ Quiet'
  BY DEF vars, IInv, Types, WireTypeOK, RadioTypeOK, Numbered, Quiet
<1> QED
  BY <1>1, RadioStep DEF vars, bridgeVars

LEMMA StepInv == IInv /\ [Next]_vars => IInv'
<1> SUFFICES ASSUME IInv, [Next]_vars PROVE IInv'
  OBVIOUS
<1>1. CASE Bridge
  BY <1>1, ConnectInv, SessionErrorInv, SessionOverInv, ReceiveHandleInv,
     ReceiveAnswerInv, ReceiveForeignInv, ReceiveStatusInv, ReceiveRemovedInv,
     SendCreateInv, FallbackInv, RefreshInv
     DEF Bridge, ConnectFails, Receive
<1>2. CASE Environment
  BY <1>2, KpaTakesRequestInv, RadioCreatesInv, RadioReportsInv, RadioSetsInv,
     RadioAnnouncesInv, ClientSetsInv, RadioRemovesInv, LinkLostInv
     DEF Environment, RadioAnswers
<1> QED
  BY <1>1, <1>2, StutterInv DEF Next

LEMMA Invariance == Spec => []IInv
BY InitIInv, StepInv, PTL DEF Spec

-----------------------------------------------------------------------------
(* The history variables are bits, so the types are correct: lib.rs's      *)
(* shared and local flags, the lines and the commands.                     *)
THEOREM TypeCorrect == Spec => []TypeOK
<1>1. IInv => TypeOK
  BY DEF IInv, Types, Counted, TypeOK, TaskTypeOK
<1> QED
  BY <1>1, Invariance, PTL

(* The handle in the shared state is the session's (set_amplifier_handle,  *)
(* record_amplifier_removed and the end of run's loop).                    *)
THEOREM HandleSharedHolds == Spec => []HandleShared
<1>1. IInv => HandleShared
  BY DEF IInv
<1> QED
  BY <1>1, Invariance, PTL

(* Only a session that knows the handle calls the amplifier active.        *)
THEOREM ActiveIsKnownHolds == Spec => []ActiveIsKnown
<1>1. IInv => ActiveIsKnown
  BY DEF IInv
<1> QED
  BY <1>1, Invariance, PTL

(* handle_amplifier_status leaves no operate request without permission.   *)
THEOREM OperateNeedsPermissionHolds == Spec => []OperateNeedsPermission
<1>1. IInv => OperateNeedsPermission
  BY DEF IInv
<1> QED
  BY <1>1, Invariance, PTL

-----------------------------------------------------------------------------
(* FlexSession implements FlexRegistration.                                *)

LEMMA RegistrarInit == Init => Registrar!Init
BY DEF Init, Registrar!Init

LEMMA RegistrarStep == IInv /\ [Next]_vars => [Registrar!Next]_Registrar!rvars
<1> SUFFICES ASSUME IInv, [Next]_vars
             PROVE  [Registrar!Next]_Registrar!rvars
  OBVIOUS
<1> USE DEF Registrar!rvars, Registrar!Next
<1>1. CASE Connect
  BY <1>1 DEF Connect, Registrar!Connect
<1>2. CASE SessionOver("ended")
  BY <1>2 DEF SessionOver, Registrar!Leave, Registrar!Removed
<1>3. CASE SessionOver("away")
  BY <1>3 DEF SessionOver, IInv, Stopped
<1>4. CASE SendCreate
  BY <1>4 DEF SendCreate, IInv, Counted, Ordered, Registrar!Create
<1>5. CASE Fallback
  BY <1>5 DEF Fallback, Register, IInv, Counted, Registrar!Register
<1>6. CASE ReceiveAnswer
  <2>1. createSent
    BY <1>6, NextLineKept DEF ReceiveAnswer
  <2> QED
    BY <1>6, <2>1
       DEF ReceiveAnswer, NextLine, GoesOn, Register, IInv, Counted,
           Registrar!Register
<1>7. CASE ReceiveStatus
  <2>1. createSent
    BY <1>7, NextLineKept DEF ReceiveStatus
  <2> QED
    BY <1>7, <2>1
       DEF ReceiveStatus, NextLine, Register, IInv, Counted, Registrar!Register
<1>8. CASE ReceiveHandle \/ ReceiveForeign \/ ReceiveRemoved \/ SessionError
  BY <1>8 DEF ReceiveHandle, ReceiveForeign, ReceiveRemoved, SessionError, NextLine
<1>9. CASE \E retry \in BOOLEAN : Refresh(retry)
  BY <1>9 DEF Refresh
<1>10. CASE Environment
  BY <1>10 DEF Environment, KpaTakesRequest, RadioAnswers, RadioCreates,
               RadioReports, RadioSets, RadioAnnounces, ClientSets,
               RadioRemoves, LinkLost, bridgeVars
<1>11. CASE UNCHANGED vars
  BY <1>11 DEF vars
<1> QED
  BY <1>1, <1>2, <1>3, <1>4, <1>5, <1>6, <1>7, <1>8, <1>9, <1>10, <1>11
     DEF Next, Bridge, ConnectFails, Receive

(* One create and one registration per session, in order, whatever the     *)
(* radio sends and whenever the connection is lost; none after a removal.  *)
THEOREM SessionImplementsRegistration == Spec => ImplementsRegistration
BY RegistrarInit, RegistrarStep, Invariance, PTL
   DEF Spec, ImplementsRegistration, Registrar!Spec
-----------------------------------------------------------------------------
(* While an accepted create waits for the registration, the fallback timer *)
(* is set and will send it: handle_r looks at the handle when it sets the  *)
(* timer, and the timer looks again when it fires, so an answer, a status  *)
(* or a removal in between could have left a session with neither.         *)
FallbackWaits ==
    InSession /\ accepted /\ ~registered =>
        pc = "select" /\ armed /\ createSent /\ handle = None

(* The invariant: who knows the object has registered, and only an answer  *)
(* to a create that was sent accepts it.                                   *)
WaitInv ==
    /\ InSession /\ handle # None => registered
    /\ InSession /\ accepted => createSent
    /\ InSession /\ accepted /\ ~registered => armed

LEMMA WaitStep == IInv /\ WaitInv /\ [Next]_vars => WaitInv'
<1> SUFFICES ASSUME IInv, WaitInv, [Next]_vars PROVE WaitInv'
  OBVIOUS
<1> USE DEF WaitInv, InSession
<1>1. CASE Connect
  BY <1>1 DEF Connect
<1>2. CASE SessionOver("ended") \/ SessionOver("away") \/ SessionError
  BY <1>2 DEF SessionOver, SessionError
<1>3. CASE SendCreate
  BY <1>3 DEF SendCreate
<1>4. CASE Fallback
  BY <1>4 DEF Fallback, Register
<1>5. CASE ReceiveHandle
  BY <1>5 DEF ReceiveHandle, NextLine
<1>6. CASE ReceiveAnswer
  <2>1. createSent /\ createSent' = createSent
    BY <1>6, NextLineKept DEF ReceiveAnswer, NextLine
  <2>2. pc = "select" /\ pc' = pc
    BY <1>6 DEF ReceiveAnswer, NextLine
  <2> DEFINE answer == Head(toBridge)
             created == answer.k = "create" /\ answer.ok
             known == IF created /\ answer.obj # None THEN answer.obj ELSE handle
  <2>3. /\ handle' = known
        /\ accepted' = (accepted \/ created)
        /\ armed' = (armed \/ Arms(created, known))
        /\ IF GoesOn(known) THEN registered' = TRUE ELSE registered' = registered
    BY <1>6 DEF ReceiveAnswer, Register
  <2> HIDE DEF created, known
  <2>4. CASE registered
    BY <2>1, <2>2, <2>3, <2>4
  <2>5. CASE ~registered /\ known # None
    BY <2>1, <2>2, <2>3, <2>5 DEF GoesOn
  <2>6. CASE ~registered /\ known = None
    BY <2>1, <2>2, <2>3, <2>6 DEF GoesOn, Arms
  <2> QED
    BY <2>4, <2>5, <2>6
<1>7. CASE ReceiveForeign
  BY <1>7 DEF ReceiveForeign, NextLine
<1>8. CASE ReceiveStatus
  BY <1>8 DEF ReceiveStatus, NextLine, Register
<1>9. CASE ReceiveRemoved
  BY <1>9 DEF ReceiveRemoved, NextLine
<1>10. CASE \E retry \in BOOLEAN : Refresh(retry)
  BY <1>10 DEF Refresh, flexVars
<1>11. CASE Environment
  <2>1. UNCHANGED <<pc, accepted, handle, createSent, registered, armed>>
    BY <1>11 DEF Environment, KpaTakesRequest, RadioAnswers, RadioCreates,
                 RadioReports, RadioSets, RadioAnnounces, ClientSets,
                 RadioRemoves, LinkLost, bridgeVars
  <2> QED
    BY <2>1
<1>12. CASE UNCHANGED vars
  BY <1>12 DEF vars, flexVars, taskVars
<1> QED
  BY <1>1, <1>2, <1>3, <1>4, <1>5, <1>6, <1>7, <1>8, <1>9, <1>10, <1>11, <1>12
     DEF Next, Bridge, ConnectFails, Receive

(* A session whose create was accepted cannot be left without registration *)
(* and without the timer that will send it.                                *)
THEOREM RegistrationCannotStall == Spec => []FallbackWaits
<1>1. Init => WaitInv
  BY DEF Init, WaitInv, InSession
<1>2. IInv /\ WaitInv => FallbackWaits
  BY DEF IInv, Ordered, WaitInv, FallbackWaits, InSession
<1> QED
  BY <1>1, <1>2, Invariance, WaitStep, PTL DEF Spec
=============================================================================
