--------------------------- MODULE ClientsProofs ---------------------------
(* Proofs about Clients: that the list, the count and the flag of each     *)
(* protocol say which clients are served, for any number of clients, and   *)
(* that the log of the amplifier's changes is true, for any length of it.  *)
EXTENDS Clients, FiniteSetTheorems, TLAPS

-----------------------------------------------------------------------------
(* The sessions.                                                           *)

(* A task's record; what it waits for and has read may be anything.        *)
Task(k) == k = [pc |-> k.pc, id |-> k.id, reply |-> k.reply, state |-> k.state, at |-> k.at]
TasksOK ==
    /\ client = [c \in Members |-> client[c]]
    /\ \A c \in Members : Task(client[c])

(* Where a number may come from: those of PGXL are behind the next one,    *)
(* those of TGXL up to it.                                                 *)
Given(p) == IF p = "PGXL" THEN 0 .. next - 1 ELSE 1 .. next
Ids(p) == {client[c].id : c \in Served(p)}
ProtocolOK(p) ==
    /\ IsFiniteSet(Served(p))
    /\ Ids(p) \subseteq Given(p)
    /\ \A c, d \in Served(p) : client[c].id = client[d].id => c = d
    /\ listed[p] = Ids(p) /\ IsFiniteSet(listed[p])
    /\ count[p] = Cardinality(Served(p)) /\ count[p] = Cardinality(listed[p])
    /\ flag[p] = (Served(p) # {})
TablesOK ==
    /\ next \in Nat
    /\ listed = [p \in Protocols |-> listed[p]]
    /\ count = [p \in Protocols |-> count[p]]
    /\ flag = [p \in Protocols |-> flag[p]]
SessionsOK == TasksOK /\ TablesOK /\ \A p \in Protocols : ProtocolOK(p)

(* A step that neither accepts nor ends a session leaves who is served,    *)
(* and as what.                                                            *)
LEMMA SameSessions ==
    ASSUME SessionsOK, UNCHANGED sessions, TasksOK',
           \A c \in Members : /\ client'[c].pc = "out" <=> client[c].pc = "out"
                              /\ client'[c].id = client[c].id
    PROVE  SessionsOK'
<1>1. TablesOK' BY DEF SessionsOK, TablesOK, sessions
<1>2. ASSUME NEW p \in Protocols PROVE ProtocolOK(p)'
    <2>1. Served(p)' = Served(p) /\ Served(p) \subseteq Members BY DEF Served, Of
    <2>2. Ids(p)' = Ids(p) BY <2>1 DEF Ids
    <2>3. Given(p)' = Given(p) BY DEF Given, sessions
    <2>4. ProtocolOK(p) BY DEF SessionsOK
    <2>5. \A c, d \in Served(p)' : client'[c].id = client'[d].id => c = d
        BY <2>1, <2>4 DEF ProtocolOK
    <2> QED BY <2>1, <2>2, <2>3, <2>4, <2>5 DEF ProtocolOK, sessions
<1> QED BY <1>1, <1>2 DEF SessionsOK

LEMMA SessionsInit == Init => SessionsOK
<1> SUFFICES ASSUME Init PROVE SessionsOK OBVIOUS
<1>1. TasksOK BY DEF Init, TasksOK, Task, Outside
<1>2. TablesOK BY DEF Init, TablesOK
<1>3. ASSUME NEW p \in Protocols PROVE ProtocolOK(p)
    <2>1. Served(p) = {} BY DEF Init, Served, Of, Outside
    <2>2. Ids(p) = {} BY <2>1 DEF Ids
    <2> QED BY <2>1, <2>2, FS_EmptySet DEF Init, ProtocolOK
<1> QED BY <1>1, <1>2, <1>3 DEF SessionsOK

(* A new session's number is none of its protocol's.                       *)
LEMMA AcceptStep ==
    ASSUME SessionsOK, NEW c \in Members, Accept(c)
    PROVE  SessionsOK'
<1> DEFINE q == Protocol(c)
           id == IF q = "PGXL" THEN next ELSE next + 1
<1>0. q \in Protocols BY DEF Protocol, Protocols
<1>1. /\ client[c].pc = "out" /\ next' = next + 1 /\ next \in Nat
      /\ listed' = [listed EXCEPT ![q] = @ \cup {id}]
      /\ count' = [count EXCEPT ![q] = @ + 1]
      /\ flag' = [flag EXCEPT ![q] = TRUE]
      /\ client' = [client EXCEPT ![c] = [Outside EXCEPT !.pc = "accepted", !.id = id]]
    BY DEF Accept, SessionsOK, TablesOK
<1>2. TablesOK'
    <2>1. next' \in Nat BY <1>1
    <2>2. listed' = [p \in Protocols |-> listed'[p]] BY <1>1 DEF SessionsOK, TablesOK
    <2>3. count' = [p \in Protocols |-> count'[p]] BY <1>1 DEF SessionsOK, TablesOK
    <2>4. flag' = [p \in Protocols |-> flag'[p]] BY <1>1 DEF SessionsOK, TablesOK
    <2> QED BY <2>1, <2>2, <2>3, <2>4 DEF TablesOK
<1>3. /\ client'[c].pc = "accepted" /\ client'[c].id = id
      /\ \A d \in Members \ {c} : client'[d] = client[d]
    BY <1>1 DEF SessionsOK, TasksOK, Outside
<1>4. TasksOK' BY <1>1 DEF SessionsOK, TasksOK, Task, Outside
<1> HIDE DEF id
<1>5. ASSUME NEW p \in Protocols, p # q PROVE ProtocolOK(p)'
    <2>1. Served(p)' = Served(p) /\ c \notin Served(p) /\ Served(p) \subseteq Members
        BY <1>3, <1>5 DEF Served, Of
    <2>2. Ids(p)' = Ids(p) BY <1>3, <2>1 DEF Ids
    <2>3. ProtocolOK(p) BY DEF SessionsOK
    <2>4. Given(p) \subseteq Given(p)' BY <1>1 DEF Given
    <2>5. listed'[p] = listed[p] /\ count'[p] = count[p] /\ flag'[p] = flag[p]
        BY <1>0, <1>1, <1>5 DEF SessionsOK, TablesOK
    <2>6. \A d, e \in Served(p)' : client'[d].id = client'[e].id => d = e
        BY <1>3, <2>1, <2>3 DEF ProtocolOK
    <2> QED BY <2>1, <2>2, <2>3, <2>4, <2>5, <2>6 DEF ProtocolOK
<1>6. ProtocolOK(q)'
    <2>1. ProtocolOK(q) BY <1>0 DEF SessionsOK
    <2>2. Served(q) \subseteq Members /\ c \notin Served(q)
        BY <1>1 DEF Served, Of
    <2>3. Served(q)' = Served(q) \cup {c} BY <1>3, <2>2 DEF Served, Of
    <2>4. Ids(q)' = Ids(q) \cup {id} BY <1>3, <2>2, <2>3 DEF Ids
    <2>5. Given(q) \subseteq Given(q)' /\ id \in Given(q)' /\ id \notin Given(q)
        BY <1>1 DEF Given, id
    <2>6. id \notin Ids(q) BY <2>1, <2>5 DEF ProtocolOK
    <2>7. \A d, e \in Served(q)' : client'[d].id = client'[e].id => d = e
        BY <1>3, <2>1, <2>2, <2>3, <2>6 DEF ProtocolOK, Ids
    <2>8. /\ listed'[q] = listed[q] \cup {id} /\ count'[q] = count[q] + 1 /\ flag'[q] = TRUE
        BY <1>0, <1>1 DEF SessionsOK, TablesOK
    <2>9. /\ IsFiniteSet(Served(q)') /\ Cardinality(Served(q)') = count[q] + 1
        <3>1. IsFiniteSet(Served(q)) /\ Cardinality(Served(q)) = count[q] BY <2>1 DEF ProtocolOK
        <3>2. /\ IsFiniteSet(Served(q) \cup {c})
              /\ Cardinality(Served(q) \cup {c}) = Cardinality(Served(q)) + 1
            BY <2>2, <3>1, FS_AddElement
        <3> QED BY <2>3, <3>1, <3>2
    <2>10. /\ IsFiniteSet(listed'[q]) /\ Cardinality(listed'[q]) = count[q] + 1
        <3>1. /\ IsFiniteSet(listed[q]) /\ Cardinality(listed[q]) = count[q]
              /\ id \notin listed[q]
            BY <2>1, <2>6 DEF ProtocolOK
        <3>2. /\ IsFiniteSet(listed[q] \cup {id})
              /\ Cardinality(listed[q] \cup {id}) = Cardinality(listed[q]) + 1
            BY <3>1, FS_AddElement
        <3> QED BY <2>8, <3>1, <3>2
    <2>11. Served(q)' # {} BY <2>3
    <2>12. Ids(q)' \subseteq Given(q)' BY <2>1, <2>4, <2>5 DEF ProtocolOK
    <2>13. listed'[q] = Ids(q)' BY <2>1, <2>4, <2>8 DEF ProtocolOK
    <2> QED BY <2>7, <2>8, <2>9, <2>10, <2>11, <2>12, <2>13 DEF ProtocolOK
<1> QED BY <1>2, <1>4, <1>5, <1>6 DEF SessionsOK

(* A session that ends takes its own number out of the list, and the flag  *)
(* is cleared by the last.                                                 *)
LEMMA LeaveStep ==
    ASSUME SessionsOK, NEW c \in Members, Leave(c)
    PROVE  SessionsOK'
<1> DEFINE q == Protocol(c)
           id == client[c].id
<1>0. q \in Protocols BY DEF Protocol, Protocols
<1>1. /\ client[c].pc # "out" /\ next' = next /\ next \in Nat
      /\ listed' = [listed EXCEPT ![q] = @ \ {id}]
      /\ count' = [count EXCEPT ![q] = @ - 1]
      /\ flag' = [flag EXCEPT ![q] = FlagAfter(q)]
      /\ client' = [client EXCEPT ![c] = Outside]
    BY DEF Leave, SessionsOK, TablesOK
<1>2. TablesOK' BY <1>0, <1>1 DEF SessionsOK, TablesOK
<1>3. /\ client'[c].pc = "out"
      /\ \A d \in Members \ {c} : client'[d] = client[d]
    BY <1>1 DEF SessionsOK, TasksOK, Outside
<1>4. TasksOK' BY <1>1 DEF SessionsOK, TasksOK, Task, Outside
<1>5. ASSUME NEW p \in Protocols, p # q PROVE ProtocolOK(p)'
    <2>1. Served(p)' = Served(p) /\ c \notin Served(p) /\ Served(p) \subseteq Members
        BY <1>3, <1>5 DEF Served, Of
    <2>2. Ids(p)' = Ids(p) BY <1>3, <2>1 DEF Ids
    <2>3. ProtocolOK(p) BY DEF SessionsOK
    <2>4. Given(p)' = Given(p) BY <1>1 DEF Given
    <2>5. listed'[p] = listed[p] /\ count'[p] = count[p] /\ flag'[p] = flag[p]
        BY <1>0, <1>1, <1>5 DEF SessionsOK, TablesOK
    <2>6. \A d, e \in Served(p)' : client'[d].id = client'[e].id => d = e
        BY <1>3, <2>1, <2>3 DEF ProtocolOK
    <2> QED BY <2>1, <2>2, <2>3, <2>4, <2>5, <2>6 DEF ProtocolOK
<1>6. ProtocolOK(q)'
    <2>1. ProtocolOK(q) BY <1>0 DEF SessionsOK
    <2>2. Served(q) \subseteq Members /\ c \in Served(q)
        BY <1>1 DEF Served, Of
    <2>3. Served(q)' = Served(q) \ {c} BY <1>3, <2>2 DEF Served, Of
    <2>4. Ids(q)' = Ids(q) \ {id}
        <3>1. \A d \in Served(q)' : client'[d].id = client[d].id /\ client[d].id # id
            BY <1>3, <2>1, <2>2, <2>3 DEF ProtocolOK
        <3>2. \A d \in Served(q) : client[d].id # id => d \in Served(q)' BY <2>3
        <3> QED BY <2>3, <3>1, <3>2 DEF Ids
    <2>5. Given(q)' = Given(q) BY <1>1 DEF Given
    <2>6. id \in Ids(q) BY <2>2 DEF Ids
    <2>7. \A d, e \in Served(q)' : client'[d].id = client'[e].id => d = e
        BY <1>3, <2>1, <2>2, <2>3 DEF ProtocolOK
    <2>8. /\ listed'[q] = listed[q] \ {id} /\ count'[q] = count[q] - 1
          /\ flag'[q] = (count[q] - 1 > 0)
        BY <1>0, <1>1 DEF SessionsOK, TablesOK, FlagAfter
    <2>9. IsFiniteSet(Served(q)') /\ Cardinality(Served(q)') = count[q] - 1
        <3>1. IsFiniteSet(Served(q)) /\ Cardinality(Served(q)) = count[q] BY <2>1 DEF ProtocolOK
        <3>2. /\ IsFiniteSet(Served(q) \ {c})
              /\ Cardinality(Served(q) \ {c}) = Cardinality(Served(q)) - 1
            BY <2>2, <3>1, FS_RemoveElement
        <3> QED BY <2>3, <3>1, <3>2
    <2>10. IsFiniteSet(listed'[q]) /\ Cardinality(listed'[q]) = count[q] - 1
        <3>1. /\ IsFiniteSet(listed[q]) /\ Cardinality(listed[q]) = count[q]
              /\ id \in listed[q]
            BY <2>1, <2>6 DEF ProtocolOK
        <3>2. /\ IsFiniteSet(listed[q] \ {id})
              /\ Cardinality(listed[q] \ {id}) = Cardinality(listed[q]) - 1
            BY <3>1, FS_RemoveElement
        <3> QED BY <2>8, <3>1, <3>2
    <2>11. flag'[q] = (Served(q)' # {})
        <3> DEFINE S == Served(q) \ {c}
        <3>1. IsFiniteSet(S) /\ Cardinality(S) = count[q] - 1 BY <2>3, <2>9
        <3>2. Cardinality(S) \in Nat BY <3>1, FS_CardinalityType
        <3>3. Cardinality(S) = 0 <=> S = {} BY <3>1, FS_EmptySet
        <3> HIDE DEF S
        <3>4. Cardinality(S) > 0 <=> S # {} BY <3>2, <3>3
        <3>5. flag'[q] = (Cardinality(S) > 0) BY <2>8, <3>1
        <3>6. flag'[q] = (S # {}) BY <3>4, <3>5
        <3> QED BY <2>3, <3>6 DEF S
    <2>12. Ids(q)' \subseteq Given(q)' BY <2>1, <2>4, <2>5 DEF ProtocolOK
    <2>13. listed'[q] = Ids(q)' BY <2>1, <2>4, <2>8 DEF ProtocolOK
    <2> QED BY <2>7, <2>8, <2>9, <2>10, <2>11, <2>12, <2>13 DEF ProtocolOK
<1> QED BY <1>2, <1>4, <1>5, <1>6 DEF SessionsOK

LEMMA SessionsStep == SessionsOK /\ [Next]_vars => SessionsOK'
<1> SUFFICES ASSUME SessionsOK, [Next]_vars PROVE SessionsOK' OBVIOUS
<1>0. TasksOK BY DEF SessionsOK
<1>1. ASSUME NEW c \in Members, Accept(c) PROVE SessionsOK' BY <1>1, AcceptStep
<1>2. ASSUME NEW c \in Members, Leave(c) PROVE SessionsOK' BY <1>2, LeaveStep
<1>3. ASSUME UNCHANGED <<client, sessions>> PROVE SessionsOK'
    BY <1>0, <1>3, SameSessions DEF TasksOK
<1>4. ASSUME NEW c \in Members, Greet(c) \/ ReadLine(c) \/ Answering(c) PROVE SessionsOK'
    <2>1. UNCHANGED sessions
        BY <1>4 DEF Greet, ReadLine, Answering, ReadBody, Stamp, LogStatus, Waited, Write, Step
    <2>2. client[c].pc # "out"
        BY <1>4 DEF Greet, ReadLine, Answering, ReadBody, Stamp, LogStatus, Waited, Write, Step
    <2>3. CASE ReadLine(c) /\ UNCHANGED client BY <1>3, <2>1, <2>3
    <2>4. CASE ~(ReadLine(c) /\ UNCHANGED client)
        <3> DEFINE k == client'[c]
        <3>0. c \in DOMAIN client /\ Task(client[c]) BY <1>0 DEF TasksOK
        <3>1. client' = [client EXCEPT ![c] = k] /\ Task(k) /\ k.pc # "out" /\ k.id = client[c].id
            <4>1. CASE Greet(c) BY <3>0, <4>1 DEF Greet, Idle, Outside, Task
            <4>2. CASE ReadLine(c)
                <5>0. PICK cmd \in DOMAIN Replies(c) :
                          client' = [client EXCEPT
                              ![c].reply = Replies(c)[cmd],
                              ![c].pc = IF Replies(c)[cmd].body THEN "body" ELSE "write"]
                    BY <2>4, <4>2 DEF ReadLine
                <5> DEFINE reply == Replies(c)[cmd]
                           at == IF reply.body THEN "body" ELSE "write"
                <5>1. client' = [client EXCEPT ![c].reply = reply, ![c].pc = at] BY <5>0
                <5>4. at # "out" OBVIOUS
                <5> HIDE DEF reply, at
                <5>2. k = [client[c] EXCEPT !.reply = reply, !.pc = at] BY <3>0, <5>1
                <5>3. client' = [client EXCEPT ![c] = k] BY <5>1, <5>2
                <5> QED BY <3>0, <5>2, <5>3, <5>4 DEF Task
            <4>3. CASE ReadBody(c)
                <5> DEFINE logs == ReplyTo(c).logs
                           waits == ReplyTo(c).waits
                           at == IF logs THEN "stamp" ELSE IF waits THEN "wait" ELSE "write"
                           time == IF waits THEN now + Wait ELSE None
                <5>0. PICK told \in ToldOf(shown) :
                          client' = [client EXCEPT ![c].state = IF logs THEN told ELSE None,
                                                   ![c].pc = at, ![c].at = time]
                    BY <4>3 DEF ReadBody
                <5> DEFINE state == IF logs THEN told ELSE None
                <5>1. client' = [client EXCEPT ![c].state = state, ![c].pc = at,
                                               ![c].at = time]
                    BY <5>0
                <5>4. at # "out" OBVIOUS
                <5> HIDE DEF state, at, time
                <5>2. k = [client[c] EXCEPT !.state = state, !.pc = at, !.at = time]
                    BY <3>0, <5>1
                <5>3. client' = [client EXCEPT ![c] = k] BY <5>1, <5>2
                <5> QED BY <3>0, <5>2, <5>3, <5>4 DEF Task
            <4>4. CASE Stamp(c) BY <3>0, <4>4 DEF Stamp, Task
            <4>5. CASE LogStatus(c) BY <3>0, <4>5 DEF LogStatus, Task
            <4>6. CASE Waited(c) BY <3>0, <4>6 DEF Waited, Task
            <4>7. CASE Write(c) BY <3>0, <4>7 DEF Write, Idle, Outside, Task
            <4> QED BY <1>4, <4>1, <4>2, <4>3, <4>4, <4>5, <4>6, <4>7 DEF Answering
        <3> HIDE DEF k
        <3>2. TasksOK' BY <1>0, <3>1 DEF TasksOK
        <3>3. \A d \in Members : /\ client'[d].pc = "out" <=> client[d].pc = "out"
                                 /\ client'[d].id = client[d].id
            BY <1>0, <2>2, <3>1 DEF TasksOK
        <3> QED BY <2>1, <3>2, <3>3, SameSessions
    <2> QED BY <2>3, <2>4
<1>5. CASE Tick \/ AmpChanges \/ FlexAnnounced \/ FlexStamp \/ FlexLog
    BY <1>3, <1>5 DEF Tick, AmpChanges, FlexAnnounced, FlexStamp, FlexLog, Others
<1>6. CASE UNCHANGED vars BY <1>3, <1>6 DEF vars, sessions
<1> QED BY <1>1, <1>2, <1>4, <1>5, <1>6 DEF Next, Serve

(* The list, the count and the flag of each protocol say which clients are *)
(* served, and no two sessions of a protocol share a number, for any       *)
(* number of clients that come and go (pgxl-emulator and tgxl-emulator:    *)
(* the accept loops and what a session's end does).                        *)
THEOREM ClientsCountedHolds == Spec => []ClientsCounted
<1>1. SessionsOK => ClientsCounted
    <2> SUFFICES ASSUME SessionsOK, NEW p \in Protocols
                 PROVE  /\ count[p] = Cardinality(Served(p)) /\ flag[p] = (Served(p) # {})
                        /\ listed[p] = {client[c].id : c \in Served(p)}
                        /\ Cardinality(listed[p]) = count[p]
        BY DEF ClientsCounted
    <2>1. ProtocolOK(p) BY DEF SessionsOK
    <2> QED BY <2>1 DEF ProtocolOK, Ids
<1> QED BY <1>1, SessionsInit, SessionsStep, PTL DEF Spec

-----------------------------------------------------------------------------
(* The log.                                                                *)

Time == Int \cup {None}
Verdict == BOOLEAN \cup {None}
Entry == [id : Int, to : AmpStates, detected : Int, status : Time, statusMatch : Time,
          announced : Time, radio : Time, radioMatch : Time,
          reflection : {None, "echoed", "matched"}, passed : Verdict, radioPassed : Verdict]

(* What an entry says is what its own times say.                           *)
Late(at, t) == at = None \/ at >= t.detected
Judged(verdict, at, t) ==
    /\ verdict = None <=> at = None
    /\ verdict = TRUE <=> InTime(at, t)
Good(t) ==
    /\ Late(t.status, t) /\ Late(t.statusMatch, t) /\ Late(t.announced, t)
    /\ Late(t.radio, t) /\ Late(t.radioMatch, t)
    /\ Judged(t.passed, t.statusMatch, t)
    /\ Judged(t.radioPassed, t.radioMatch, t)
    /\ t.reflection = "matched" <=> t.radioMatch # None
    /\ t.reflection = None <=> t.radio = None

(* The verdict on a time.                                                  *)
LEMMA VerdictOn ==
    ASSUME NEW t \in Entry, NEW at \in Time, Late(at, t)
    PROVE  Passed(at, t) \in Verdict /\ Judged(Passed(at, t), at, t)
<1>0. None \notin Int /\ None \notin BOOLEAN BY ConstantsAssumption
<1>1. CASE at = None
    <2>1. Passed(at, t) = None BY <1>1 DEF Passed
    <2>2. None # TRUE BY <1>0, Zenon
    <2> QED BY <1>1, <2>1, <2>2 DEF Verdict, Judged, InTime
<1>2. CASE at # None
    <2> DEFINE soon == at >= t.detected /\ at - t.detected <= 2 * Second
    <2>1. at \in Int /\ t.detected \in Int BY <1>2 DEF Time, Entry
    <2>2. soon <=> InTime(at, t) BY <1>2, <2>1 DEF Late, InTime
    <2>3. Passed(at, t) = soon BY <1>2 DEF Passed
    <2>4. soon \in BOOLEAN OBVIOUS
    <2> HIDE DEF soon
    <2>5. Passed(at, t) \in BOOLEAN BY <2>3, <2>4
    <2>6. Passed(at, t) # None BY <1>0, <2>5
    <2>7. Passed(at, t) = TRUE <=> InTime(at, t) BY <2>2, <2>3, <2>4, Zenon
    <2> QED BY <1>2, <2>5, <2>6, <2>7 DEF Verdict, Judged
<1> QED BY <1>1, <1>2

(* Whoever logs first: each of the three writers keeps an entry good.      *)
LEMMA FirstTime ==
    ASSUME NEW t \in Entry, NEW old \in Time, Late(old, t), NEW at \in Int, Concerns(at, t)
    PROVE  First(old, at) \in Int /\ Late(First(old, at), t)
    BY ConstantsAssumption DEF First, Time, Late, Concerns

(* Judging anew what was not touched changes no verdict's truth.           *)
LEMMA RefreshedGood ==
    ASSUME NEW t \in Entry, 
           Late(t.status, t), Late(t.statusMatch, t), Late(t.announced, t),
           Late(t.radio, t), Late(t.radioMatch, t),
           t.reflection = "matched" <=> t.radioMatch # None,
           t.reflection = None <=> t.radio = None
    PROVE  Refreshed(t) \in Entry /\ Good(Refreshed(t)) /\ Refreshed(t).id = t.id
<1> DEFINE u == Refreshed(t)
           v == Passed(t.statusMatch, t)
           w == Passed(t.radioMatch, t)
<1>1. t.statusMatch \in Time /\ t.radioMatch \in Time BY DEF Entry
<1>2. v \in Verdict /\ Judged(v, t.statusMatch, t) BY <1>1, VerdictOn
<1>3. w \in Verdict /\ Judged(w, t.radioMatch, t) BY <1>1, VerdictOn
<1> HIDE DEF v, w
<1>4. u = [t EXCEPT !.passed = v, !.radioPassed = w] BY DEF Refreshed, v, w
<1> HIDE DEF u
<1>5. u \in Entry BY <1>2, <1>3, <1>4 DEF Entry
<1>6. /\ u.detected = t.detected /\ u.id = t.id /\ u.status = t.status
      /\ u.statusMatch = t.statusMatch /\ u.announced = t.announced /\ u.radio = t.radio
      /\ u.radioMatch = t.radioMatch /\ u.reflection = t.reflection
      /\ u.passed = v /\ u.radioPassed = w
    BY <1>4 DEF Entry
<1>7. Judged(u.passed, u.statusMatch, u) BY <1>2, <1>6 DEF Judged, InTime
<1>8. Judged(u.radioPassed, u.radioMatch, u) BY <1>3, <1>6 DEF Judged, InTime
<1>9. /\ Late(u.status, u) /\ Late(u.statusMatch, u) /\ Late(u.announced, u)
      /\ Late(u.radio, u) /\ Late(u.radioMatch, u)
    BY <1>6 DEF Late
<1> QED BY <1>5, <1>6, <1>7, <1>8, <1>9 DEF Good, u

LEMMA StatusSeenGood ==
    ASSUME NEW t \in Entry, Good(t), NEW at \in Int, NEW state
    PROVE  LET u == StatusSeen(t, at, state) IN u \in Entry /\ Good(u) /\ u.id = t.id
<1>1. CASE ~Concerns(at, t) BY <1>1 DEF StatusSeen
<1>2. CASE Concerns(at, t)
    <2> DEFINE first == First(t.status, at)
               match == IF state = t.to THEN First(t.statusMatch, at) ELSE t.statusMatch
               u == [t EXCEPT !.status = first, !.statusMatch = match]
    <2>1. t.status \in Time /\ t.statusMatch \in Time BY DEF Entry
    <2>2. first \in Time /\ Late(first, t) BY <1>2, <2>1, FirstTime DEF Good, Time
    <2>3. match \in Time /\ Late(match, t) BY <1>2, <2>1, FirstTime DEF Good, Time
    <2> HIDE DEF first, match
    <2>4. u \in Entry BY <2>2, <2>3 DEF Entry
    <2>5. /\ u.detected = t.detected /\ u.id = t.id /\ u.status = first
          /\ u.statusMatch = match /\ u.announced = t.announced /\ u.radio = t.radio
          /\ u.radioMatch = t.radioMatch /\ u.reflection = t.reflection
        BY DEF Entry
    <2>6. StatusSeen(t, at, state) = Refreshed(u) BY <1>2 DEF StatusSeen, first, match
    <2> HIDE DEF u
    <2>7. Refreshed(u) \in Entry /\ Good(Refreshed(u)) /\ Refreshed(u).id = u.id
        BY <2>2, <2>3, <2>4, <2>5, RefreshedGood DEF Good, Late
    <2> QED BY <2>5, <2>6, <2>7
<1> QED BY <1>1, <1>2

LEMMA AnnouncedGood ==
    ASSUME NEW t \in Entry, Good(t), NEW at \in Int
    PROVE  LET u == Announced(t, at) IN u \in Entry /\ Good(u) /\ u.id = t.id
<1>1. CASE ~Concerns(at, t) BY <1>1 DEF Announced
<1>2. CASE Concerns(at, t)
    <2> DEFINE first == First(t.announced, at)
               u == [t EXCEPT !.announced = first]
    <2>1. t.announced \in Time BY DEF Entry
    <2>2. first \in Time /\ Late(first, t) BY <1>2, <2>1, FirstTime DEF Good, Time
    <2> HIDE DEF first
    <2>4. u \in Entry BY <2>2 DEF Entry
    <2>5. /\ u.detected = t.detected /\ u.id = t.id /\ u.status = t.status
          /\ u.statusMatch = t.statusMatch /\ u.announced = first /\ u.radio = t.radio
          /\ u.radioMatch = t.radioMatch /\ u.reflection = t.reflection
        BY DEF Entry
    <2>6. Announced(t, at) = Refreshed(u) BY <1>2 DEF Announced, first
    <2> HIDE DEF u
    <2>7. Refreshed(u) \in Entry /\ Good(Refreshed(u)) /\ Refreshed(u).id = u.id
        BY <2>2, <2>4, <2>5, RefreshedGood DEF Good, Late
    <2> QED BY <2>5, <2>6, <2>7
<1> QED BY <1>1, <1>2

LEMMA RadioSeenGood ==
    ASSUME NEW t \in Entry, Good(t), NEW at \in Int, NEW state
    PROVE  LET u == RadioSeen(t, at, state) IN u \in Entry /\ Good(u) /\ u.id = t.id
<1>1. CASE ~Concerns(at, t) BY <1>1 DEF RadioSeen
<1>2. CASE Concerns(at, t)
    <2> DEFINE first == First(t.radio, at)
               match == IF state = t.to THEN First(t.radioMatch, at) ELSE t.radioMatch
               echo == IF state # t.to THEN IF t.radio = None THEN "echoed" ELSE t.reflection
                       ELSE IF t.radioMatch = None THEN "matched" ELSE t.reflection
               u == [t EXCEPT !.radio = first, !.radioMatch = match, !.reflection = echo]
    <2>0. None \notin Int /\ None \notin {"echoed", "matched"} BY ConstantsAssumption
    <2>1. /\ t.radio \in Time /\ t.radioMatch \in Time
          /\ t.reflection \in {None, "echoed", "matched"}
        BY DEF Entry
    <2>2. first \in Int /\ Late(first, t) BY <1>2, <2>1, FirstTime DEF Good
    <2>3. /\ match \in Time /\ Late(match, t)
          /\ match # None <=> state = t.to \/ t.radioMatch # None
        BY <1>2, <2>0, <2>1, FirstTime DEF Good, Time
    <2>4. /\ echo \in {None, "echoed", "matched"} /\ echo # None
          /\ echo = "matched" <=> state = t.to \/ t.radioMatch # None
        BY <2>0, <2>1 DEF Good
    <2>6. RadioSeen(t, at, state) = Refreshed(u) BY <1>2 DEF RadioSeen
    <2> HIDE DEF first, match, echo
    <2>7. u \in Entry BY <2>2, <2>3, <2>4 DEF Entry, Time
    <2>8. /\ u.detected = t.detected /\ u.id = t.id /\ u.status = t.status
          /\ u.statusMatch = t.statusMatch /\ u.announced = t.announced /\ u.radio = first
          /\ u.radioMatch = match /\ u.reflection = echo
        BY DEF Entry
    <2> HIDE DEF u
    <2>9. first # None BY <2>0, <2>2
    <2>10. /\ u.reflection = "matched" <=> u.radioMatch # None
           /\ u.reflection = None <=> u.radio = None
        BY <2>3, <2>4, <2>8, <2>9
    <2>11. /\ Late(u.status, u) /\ Late(u.statusMatch, u) /\ Late(u.announced, u)
           /\ Late(u.radio, u) /\ Late(u.radioMatch, u)
        BY <2>2, <2>3, <2>8 DEF Good, Late
    <2>12. Refreshed(u) \in Entry /\ Good(Refreshed(u)) /\ Refreshed(u).id = u.id
        BY <2>7, <2>10, <2>11, RefreshedGood
    <2> QED BY <2>6, <2>8, <2>12
<1> QED BY <1>1, <1>2

(* What is yet to be logged is a time.                                     *)
TimesOK ==
    /\ now \in Int /\ shown \in AmpStates
    /\ flex # None => flex.at \in Int
    /\ \A c \in Members : client[c].pc = "log" => client[c].at \in Int
EntriesOK ==
    /\ changes \in Nat /\ log \in Seq(Entry)
    /\ Len(log) = IF changes < LogSize THEN changes ELSE LogSize
    /\ \A i \in 1 .. Len(log) : log[i].id = changes - Len(log) + i /\ Good(log[i])
LogOK == TasksOK /\ TimesOK /\ EntriesOK

(* A new entry is of its own change, and says nothing yet.                 *)
LEMMA NewEntry ==
    ASSUME NEW id \in Int, NEW to \in AmpStates, NEW at \in Int
    PROVE  LET t == Transition(id, to, at) IN t \in Entry /\ Good(t) /\ t.id = id
<1> DEFINE t == Transition(id, to, at)
<1>1. t \in Entry BY DEF Transition, Entry, Time, Verdict
<1>2. /\ t.status = None /\ t.statusMatch = None /\ t.announced = None /\ t.radio = None
      /\ t.radioMatch = None /\ t.reflection = None /\ t.passed = None
      /\ t.radioPassed = None /\ t.id = id
    BY DEF Transition
<1>3. None # TRUE /\ None # "matched" BY ConstantsAssumption, Zenon
<1> HIDE DEF t
<1>4. Judged(t.passed, t.statusMatch, t) BY <1>2, <1>3 DEF Judged, InTime
<1>5. Judged(t.radioPassed, t.radioMatch, t) BY <1>2, <1>3 DEF Judged, InTime
<1> QED BY <1>1, <1>2, <1>3, <1>4, <1>5 DEF Good, Late, t

(* A write touches every entry and moves none.                             *)
LEMMA MapKeeps ==
    ASSUME EntriesOK, changes' = changes, DOMAIN log' = DOMAIN log,
           log' = [i \in DOMAIN log |-> log'[i]],
           \A i \in 1 .. Len(log) : /\ log'[i] \in Entry /\ Good(log'[i])
                                   /\ log'[i].id = log[i].id
    PROVE  EntriesOK'
<1>1. Len(log) \in Nat /\ DOMAIN log = 1 .. Len(log) BY DEF EntriesOK
<1>2. log' \in Seq(Entry) /\ Len(log') = Len(log) BY <1>1
<1> QED BY <1>2 DEF EntriesOK

LEMMA AmpChangesKeeps ==
    ASSUME EntriesOK, TimesOK, AmpChanges
    PROVE  EntriesOK'
<1> DEFINE t == Transition(changes', shown', now)
           l == Append(log, t)
           n == Len(log)
<1>1. /\ changes \in Nat /\ changes' = changes + 1 /\ shown' \in AmpStates /\ now \in Int
      /\ log \in Seq(Entry) /\ n \in Nat /\ LogSize \in Nat \ {0}
    BY ConstantsAssumption DEF EntriesOK, TimesOK, AmpChanges
<1>2. t \in Entry /\ Good(t) /\ t.id = changes' BY <1>1, NewEntry
<1> HIDE DEF t
<1>3. /\ l \in Seq(Entry) /\ Len(l) = n + 1 /\ l[n + 1] = t
      /\ \A i \in 1 .. n : l[i] = log[i]
    BY <1>1, <1>2
<1>4. n = IF changes < LogSize THEN changes ELSE LogSize BY DEF EntriesOK
<1>5. \A i \in 1 .. n + 1 : l[i].id = changes - n + i /\ Good(l[i])
    <2> TAKE i \in 1 .. n + 1
    <2>1. CASE i = n + 1 BY <1>1, <1>2, <1>3, <2>1
    <2>2. CASE i \in 1 .. n BY <1>3, <2>2 DEF EntriesOK
    <2> QED BY <1>1, <2>1, <2>2
<1>6. log' = Kept(l) BY DEF AmpChanges, t
<1> HIDE DEF l
<1>7. CASE n + 1 > LogSize
    <2>1. log' = Tail(l) BY <1>3, <1>6, <1>7 DEF Kept
    <2>2. /\ log' \in Seq(Entry) /\ Len(log') = n
          /\ \A i \in 1 .. n : log'[i] = l[i + 1]
        BY <1>1, <1>3, <2>1
    <2>3. n = LogSize /\ changes >= LogSize BY <1>1, <1>4, <1>7
    <2>4. \A i \in 1 .. n : log'[i].id = changes' - n + i /\ Good(log'[i])
        <3> TAKE i \in 1 .. n
        <3>1. i + 1 \in 1 .. n + 1 BY <1>1
        <3>2. l[i + 1].id = changes - n + (i + 1) /\ Good(l[i + 1]) BY <1>5, <3>1
        <3>3. log'[i] = l[i + 1] BY <2>2
        <3>4. changes - n + (i + 1) = changes' - n + i BY <1>1
        <3> QED BY <3>2, <3>3, <3>4
    <2> QED BY <1>1, <2>2, <2>3, <2>4 DEF EntriesOK
<1>8. CASE ~(n + 1 > LogSize)
    <2>1. log' = l BY <1>3, <1>6, <1>8 DEF Kept
    <2>2. n = changes /\ changes < LogSize BY <1>1, <1>4, <1>8
    <2>3. Len(log') = IF changes' < LogSize THEN changes' ELSE LogSize
        BY <1>1, <1>3, <1>8, <2>1, <2>2
    <2>4. \A i \in 1 .. Len(log') : log'[i].id = changes' - Len(log') + i /\ Good(log'[i])
        BY <1>1, <1>3, <1>5, <2>1
    <2> QED BY <1>1, <1>3, <2>1, <2>3, <2>4 DEF EntriesOK
<1> QED BY <1>7, <1>8

(* The three that write the log note the time before.                      *)
LEMMA WritesKeep ==
    ASSUME LogOK, FlexAnnounced \/ FlexLog \/ \E c \in Members : LogStatus(c)
    PROVE  EntriesOK'
<1>1. changes' = changes
    BY DEF FlexAnnounced, FlexLog, LogStatus, Step, device
<1>2. /\ DOMAIN log = 1 .. Len(log) /\ EntriesOK
      /\ \A i \in 1 .. Len(log) : log[i] \in Entry /\ Good(log[i])
    BY DEF LogOK, EntriesOK
<1>3. CASE FlexAnnounced
    <2>1. now \in Int /\ log' = [i \in DOMAIN log |-> Announced(log[i], now)]
        BY <1>3 DEF FlexAnnounced, LogOK, TimesOK
    <2>2. \A i \in 1 .. Len(log) : /\ log'[i] \in Entry /\ Good(log'[i])
                                  /\ log'[i].id = log[i].id
        BY <1>2, <2>1, AnnouncedGood
    <2> QED BY <1>1, <1>2, <2>1, <2>2, MapKeeps
<1>4. CASE FlexLog
    <2>1. flex.at \in Int /\ log' = [i \in DOMAIN log |-> RadioSeen(log[i], flex.at, flex.state)]
        BY <1>4 DEF FlexLog, LogOK, TimesOK
    <2>2. \A i \in 1 .. Len(log) : /\ log'[i] \in Entry /\ Good(log'[i])
                                  /\ log'[i].id = log[i].id
        BY <1>2, <2>1, RadioSeenGood
    <2> QED BY <1>1, <1>2, <2>1, <2>2, MapKeeps
<1>5. ASSUME NEW c \in Members, LogStatus(c) PROVE EntriesOK'
    <2>1. /\ client[c].at \in Int
          /\ log' = [i \in DOMAIN log |-> StatusSeen(log[i], client[c].at, client[c].state)]
        BY <1>5 DEF LogStatus, Step, LogOK, TimesOK
    <2>2. \A i \in 1 .. Len(log) : /\ log'[i] \in Entry /\ Good(log'[i])
                                  /\ log'[i].id = log[i].id
        BY <1>2, <2>1, StatusSeenGood
    <2> QED BY <1>1, <1>2, <2>1, <2>2, MapKeeps
<1> QED BY <1>3, <1>4, <1>5

(* One client's step keeps what is a record a record, and notes a time     *)
(* before it is logged.                                                    *)
LEMMA ServeNotes ==
    ASSUME TasksOK, TimesOK, NEW c \in Members, Serve(c)
    PROVE  TasksOK' /\ TimesOK'
<1> DEFINE k == client'[c]
<1>0. c \in DOMAIN client /\ Task(client[c]) BY DEF TasksOK
<1>1. UNCHANGED <<now, shown, flex>>
    BY DEF Serve, Accept, Greet, ReadLine, Answering, ReadBody, Stamp, LogStatus, Waited, Write,
       Leave, Step, device
<1>2. /\ client' = [client EXCEPT ![c] = k] /\ Task(k)
      /\ k.pc = "log" => k.at \in Int
    <2>1. CASE Accept(c)
        <3>1. PICK id : client' = [client EXCEPT ![c] = [Outside EXCEPT !.pc = "accepted", !.id = id]]
            BY <2>1 DEF Accept
        <3> QED BY <1>0, <3>1 DEF Outside, Task
    <2>2. CASE Leave(c) BY <1>0, <2>2 DEF Leave, Outside, Task
    <2>3. CASE Greet(c) BY <1>0, <2>3 DEF Greet, Idle, Outside, Task
    <2>4. CASE ReadLine(c)
        <3>1. CASE UNCHANGED client
            <4>1. client' = [client EXCEPT ![c] = k] BY <3>1 DEF TasksOK
            <4> QED BY <1>0, <3>1, <4>1 DEF TimesOK
        <3>2. CASE ~UNCHANGED client
            <4>1. PICK cmd \in DOMAIN Replies(c) :
                      client' = [client EXCEPT
                          ![c].reply = Replies(c)[cmd],
                          ![c].pc = IF Replies(c)[cmd].body THEN "body" ELSE "write"]
                BY <2>4, <3>2 DEF ReadLine
            <4> DEFINE reply == Replies(c)[cmd]
                       at == IF reply.body THEN "body" ELSE "write"
            <4>2. client' = [client EXCEPT ![c].reply = reply, ![c].pc = at] BY <4>1
            <4>3. at # "log" OBVIOUS
            <4> HIDE DEF reply, at
            <4>4. k = [client[c] EXCEPT !.reply = reply, !.pc = at] BY <1>0, <4>2
            <4>5. client' = [client EXCEPT ![c] = k] BY <4>2, <4>4
            <4> QED BY <1>0, <4>3, <4>4, <4>5 DEF Task
        <3> QED BY <3>1, <3>2
    <2>5. CASE ReadBody(c)
        <3> DEFINE logs == ReplyTo(c).logs
                   waits == ReplyTo(c).waits
                   at == IF logs THEN "stamp" ELSE IF waits THEN "wait" ELSE "write"
                   time == IF waits THEN now + Wait ELSE None
        <3>1. PICK told \in ToldOf(shown) :
                  client' = [client EXCEPT ![c].state = IF logs THEN told ELSE None,
                                           ![c].pc = at, ![c].at = time]
            BY <2>5 DEF ReadBody
        <3> DEFINE state == IF logs THEN told ELSE None
        <3>2. client' = [client EXCEPT ![c].state = state, ![c].pc = at, ![c].at = time]
            BY <3>1
        <3>3. at # "log" OBVIOUS
        <3> HIDE DEF state, at, time
        <3>4. k = [client[c] EXCEPT !.state = state, !.pc = at, !.at = time] BY <1>0, <3>2
        <3>5. client' = [client EXCEPT ![c] = k] BY <3>2, <3>4
        <3> QED BY <1>0, <3>3, <3>4, <3>5 DEF Task
    <2>6. CASE Stamp(c)
        <3>1. client' = [client EXCEPT ![c].at = now, ![c].pc = "log"] BY <2>6 DEF Stamp
        <3>2. k = [client[c] EXCEPT !.at = now, !.pc = "log"] BY <1>0, <3>1
        <3>3. client' = [client EXCEPT ![c] = k] BY <3>1, <3>2
        <3> QED BY <1>0, <3>2, <3>3 DEF Task, TimesOK
    <2>7. CASE LogStatus(c) BY <1>0, <2>7 DEF LogStatus, Task
    <2>8. CASE Waited(c) BY <1>0, <2>8 DEF Waited, Task
    <2>9. CASE Write(c) BY <1>0, <2>9 DEF Write, Idle, Outside, Task
    <2> QED BY <2>1, <2>2, <2>3, <2>4, <2>5, <2>6, <2>7, <2>8, <2>9 DEF Serve, Answering
<1> HIDE DEF k
<1>3. TasksOK' BY <1>2 DEF TasksOK
<1>4. \A d \in Members : client'[d].pc = "log" => client'[d].at \in Int
    BY <1>0, <1>2 DEF TasksOK, TimesOK
<1> QED BY <1>1, <1>3, <1>4 DEF TimesOK

LEMMA LogInit == Init => LogOK
<1> SUFFICES ASSUME Init PROVE LogOK OBVIOUS
<1>1. TasksOK BY DEF Init, TasksOK, Task, Outside
<1>2. TimesOK BY DEF Init, TimesOK, Outside
<1>3. log = <<>> /\ log \in Seq(Entry) /\ Len(log) = 0 /\ changes = 0 BY DEF Init
<1>4. EntriesOK BY <1>3, ConstantsAssumption DEF EntriesOK
<1> QED BY <1>1, <1>2, <1>4 DEF LogOK

LEMMA LogStep == LogOK /\ [Next]_vars => LogOK'
<1> SUFFICES ASSUME LogOK, [Next]_vars PROVE LogOK' OBVIOUS
<1>0. TasksOK /\ TimesOK /\ EntriesOK BY DEF LogOK
<1>a. ASSUME UNCHANGED <<changes, log>> PROVE EntriesOK' BY <1>0, <1>a DEF EntriesOK
<1>b. ASSUME UNCHANGED client PROVE TasksOK' BY <1>0, <1>b DEF TasksOK
<1>1. CASE Tick
    <2>1. TimesOK' BY <1>0, <1>1 DEF Tick, device, TimesOK
    <2> QED BY <1>1, <1>a, <1>b, <2>1 DEF Tick, device, LogOK
<1>2. CASE AmpChanges
    <2>1. TimesOK' BY <1>0, <1>2 DEF AmpChanges, Others, TimesOK
    <2> QED BY <1>0, <1>2, <1>b, <2>1, AmpChangesKeeps DEF AmpChanges, Others, LogOK
<1>3. CASE FlexAnnounced \/ FlexLog
    <2>1. TimesOK' BY <1>0, <1>3 DEF FlexAnnounced, FlexLog, Others, device, TimesOK
    <2> QED BY <1>3, <1>b, <2>1, WritesKeep DEF FlexAnnounced, FlexLog, Others, LogOK
<1>4. CASE FlexStamp
    <2>1. TimesOK' BY <1>0, <1>4 DEF FlexStamp, Others, device, TimesOK
    <2> QED BY <1>4, <1>a, <1>b, <2>1 DEF FlexStamp, Others, device, LogOK
<1>5. ASSUME NEW c \in Members, Serve(c) PROVE LogOK'
    <2>1. TasksOK' /\ TimesOK' BY <1>0, <1>5, ServeNotes
    <2>2. CASE LogStatus(c) BY <2>1, <2>2, WritesKeep DEF LogOK
    <2>3. CASE ~LogStatus(c)
        <3>1. UNCHANGED <<changes, log>>
            BY <1>5, <2>3 DEF Serve, Accept, Greet, ReadLine, Answering, ReadBody, Stamp, Waited,
               Write, Leave, Step, device
        <3> QED BY <1>a, <2>1, <3>1 DEF LogOK
    <2> QED BY <2>2, <2>3
<1>6. CASE UNCHANGED vars
    <2>1. TimesOK' BY <1>0, <1>6 DEF vars, device, TimesOK
    <2> QED BY <1>6, <1>a, <1>b, <2>1 DEF vars, device, LogOK
<1> QED BY <1>1, <1>2, <1>3, <1>4, <1>5, <1>6 DEF Next

(* The log of the amplifier's changes is true for every length of it and   *)
(* any number of clients: no time in it is from before its change, and its *)
(* verdicts are what its times say, whoever of the clients' tasks and the  *)
(* Flex session logs first (bridge-core: KpaStateTransitionLatency).       *)
THEOREM LogIsTrueHolds == Spec => []LogIsTrue
<1>1. LogOK => LogIsTrue
    <2> SUFFICES ASSUME LogOK PROVE LogIsTrue OBVIOUS
    <2>1. EntriesOK BY DEF LogOK
    <2>2. DOMAIN log = 1 .. Len(log) BY <2>1 DEF EntriesOK
    <2>3. Len(log) = IF changes < LogSize THEN changes ELSE LogSize BY <2>1 DEF EntriesOK
    <2>4. ASSUME NEW i \in DOMAIN log
          PROVE  LET t == log[i] IN
                 /\ t.id = changes - Len(log) + i
                 /\ \A at \in Times(t) : at >= t.detected
                 /\ t.passed = None <=> t.statusMatch = None
                 /\ t.passed = TRUE <=> InTime(t.statusMatch, t)
                 /\ t.radioPassed = TRUE <=> InTime(t.radioMatch, t)
                 /\ t.reflection = "matched" <=> t.radioMatch # None
                 /\ t.reflection = None <=> t.radio = None
        <3>1. Good(log[i]) /\ log[i].id = changes - Len(log) + i BY <2>1, <2>2 DEF EntriesOK
        <3>2. \A at \in Times(log[i]) : at >= log[i].detected
            BY <3>1 DEF Good, Late, Times
        <3> QED BY <3>1, <3>2 DEF Good, Judged
    <2> QED BY <2>3, <2>4 DEF LogIsTrue
<1> QED BY <1>1, LogInit, LogStep, PTL DEF Spec
=============================================================================
