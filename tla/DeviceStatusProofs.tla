------------------------- MODULE DeviceStatusProofs -------------------------
(* Proofs about DeviceStatus, for any number of clients and all limits.    *)
EXTENDS DeviceStatus, TLAPS

(* A connected amplifier past its limit is one the watchdog still has to   *)
(* look at in this second.                                                 *)
AmpFresh ==
    conn["amp"] = "Connected" =>
        /\ age["amp"] \in 0 .. StaleAfter["amp"] + 1
        /\ age["amp"] = StaleAfter["amp"] + 1 =>
              watch.due \/ (watch.at = "amp" /\ watch.amp)

(* An amplifier that ends a round early was polled within this second, so  *)
(* that it will not be stale in the next one.                              *)
SampledStale ==
    watch.at = "amp" /\ watch.amp /\ conn["amp"] = "Connected" =>
        age["amp"] = 0 \/ IsStale("amp")
Calm(n) == conn["amp"] = "Connected" => age["amp"] \in 0 .. n
Limit == StaleAfter["tuner"]
TunerFresh ==
    conn["tuner"] = "Connected" =>
        /\ age["tuner"] \in 0 .. Limit + 2
        /\ age["tuner"] > Limit =>
              \/ watch.at = "sleep" /\ watch.due /\ (age["tuner"] = Limit + 2 => Calm(1))
              \/ watch.at = "amp" /\ watch.tuner /\ (age["tuner"] = Limit + 2 => ~watch.amp)
              \/ watch.at = "tuner" /\ watch.tuner
              \/ watch.at = "sleep" /\ ~watch.due /\ age["tuner"] = Limit + 1 /\ Calm(0)
DueAsleep == watch.due => watch.at = "sleep"

(* While the amplifier is said to operate, it answered at most a start-up  *)
(* before the time of its last poll, and since every start-up that is      *)
(* still running began.                                                    *)
SilenceKnown ==
    ampState = "Operate" =>
        /\ conn["amp"] = "Connected" => silence <= age["amp"] + Strict
        /\ \A c \in PgxlClients : startup[c] # None => silence <= StartupDelay - startup[c]
StartupsStrict ==
    \A c \in Clients : startup[c] # None => StrictEmulation[Device(c)]

IInv == TypeOK /\ AmpFresh /\ SampledStale /\ TunerFresh /\ DueAsleep /\ SilenceKnown /\ StartupsStrict
-----------------------------------------------------------------------------
USE ConstantsAssumption DEF vars, shown, clients, Clients, Devices

LEMMA InitInv == Init => IInv
<1> SUFFICES ASSUME Init PROVE IInv
  OBVIOUS
<1>1. TypeOK
  BY DEF Init, TypeOK, ShownOK, LineOK, ClientsOK, WatchOK, Asleep, SilenceLimit, AgeLimit
<1>2. age["amp"] = silence /\ silence \in {0, 1} /\ age["tuner"] = 0
  BY DEF Init
<1>3. StaleAfter["amp"] \in Nat \ {0} /\ StaleAfter["tuner"] \in Nat \ {0}
  OBVIOUS
<1>4. AmpFresh /\ SampledStale /\ TunerFresh /\ DueAsleep
  BY <1>2, <1>3 DEF Init, Asleep, AmpFresh, SampledStale, TunerFresh, DueAsleep, Limit
<1>5. SilenceKnown
  <2>1. Strict \in Nat
    BY DEF Strict
  <2> QED
    BY <1>2, <2>1 DEF Init, SilenceKnown
<1>6. StartupsStrict
  BY DEF Init, StartupsStrict
<1> QED
  BY <1>1, <1>4, <1>5, <1>6 DEF IInv

LEMMA ShownStep == TypeOK /\ [Next]_vars => ShownOK'
<1> SUFFICES ASSUME TypeOK, [Next]_vars PROVE ShownOK'
  OBVIOUS
<1> USE DEF TypeOK
<1>1. ASSUME Tick PROVE ShownOK'
  BY <1>1 DEF Tick, Older, AgeLimit, SilenceLimit, ShownOK
<1>2. ASSUME NEW d \in Devices, OpenPort(d) PROVE ShownOK'
  BY <1>2 DEF OpenPort, ShownOK
<1>3. ASSUME NEW d \in Devices, OpenFailed(d) PROVE ShownOK'
  BY <1>3 DEF OpenFailed, ShownOK
<1>4. ASSUME NEW d \in Devices, PollAnswered(d) PROVE ShownOK'
  BY <1>4 DEF PollAnswered, SayConnected, SilenceLimit, AgeLimit, ShownOK
<1>5. ASSUME NEW d \in Devices, PollSilent(d) PROVE ShownOK'
  BY <1>5 DEF PollSilent, ShownOK
<1>6. ASSUME Verified PROVE ShownOK'
  BY <1>6 DEF Verified, SilenceLimit, ShownOK
<1>7. ASSUME NEW d \in Devices, Dies(d) PROVE ShownOK'
  BY <1>7 DEF Dies, ShownOK
<1>8. ASSUME NEW c \in Clients, Accept(c) PROVE ShownOK'
  BY <1>8 DEF Accept, Device, ShownOK
<1>9. ASSUME NEW c \in Clients, StartStrict(c) PROVE ShownOK'
  BY <1>9 DEF StartStrict, Device, ShownOK
<1>10. ASSUME NEW c \in Clients, Greet(c) PROVE ShownOK'
  BY <1>10 DEF Greet, SayConnected, AgeLimit, Device, ShownOK
<1>11. ASSUME NEW c \in Clients, EndStrict(c) PROVE ShownOK'
  BY <1>11 DEF EndStrict, SayConnected, AgeLimit, Device, ShownOK
<1>12. ASSUME NEW c \in Clients, Leave(c) PROVE ShownOK'
  BY <1>12 DEF Leave, Device, ShownOK
<1>13. ASSUME Sample PROVE ShownOK'
  BY <1>13 DEF Sample, StillStale, IsStale, ShownOK
<1>14. ASSUME CheckAmp PROVE ShownOK'
  BY <1>14 DEF CheckAmp, Recheck, StillStale, IsStale, Asleep, ShownOK
<1>15. ASSUME CheckTuner PROVE ShownOK'
  BY <1>15 DEF CheckTuner, Recheck, StillStale, IsStale, Asleep, ShownOK
<1>16. CASE UNCHANGED vars
  BY <1>16 DEF ShownOK
<1> QED
  BY <1>1, <1>2, <1>3, <1>4, <1>5, <1>6, <1>7, <1>8, <1>9, <1>10, <1>11, <1>12, <1>13,
       <1>14, <1>15, <1>16
     DEF Next, Driver, Emulator, Watchdog

LEMMA LineStep == TypeOK /\ [Next]_vars => LineOK'
<1> SUFFICES ASSUME TypeOK, [Next]_vars PROVE LineOK'
  OBVIOUS
<1> USE DEF TypeOK
<1>1. ASSUME Tick PROVE LineOK'
  BY <1>1 DEF Tick, Older, AgeLimit, SilenceLimit, LineOK
<1>2. ASSUME NEW d \in Devices, OpenPort(d) PROVE LineOK'
  BY <1>2 DEF OpenPort, LineOK
<1>3. ASSUME NEW d \in Devices, OpenFailed(d) PROVE LineOK'
  BY <1>3 DEF OpenFailed, LineOK
<1>4. ASSUME NEW d \in Devices, PollAnswered(d) PROVE LineOK'
  BY <1>4 DEF PollAnswered, SayConnected, SilenceLimit, AgeLimit, LineOK
<1>5. ASSUME NEW d \in Devices, PollSilent(d) PROVE LineOK'
  BY <1>5 DEF PollSilent, LineOK
<1>6. ASSUME Verified PROVE LineOK'
  BY <1>6 DEF Verified, SilenceLimit, LineOK
<1>7. ASSUME NEW d \in Devices, Dies(d) PROVE LineOK'
  BY <1>7 DEF Dies, LineOK
<1>8. ASSUME NEW c \in Clients, Accept(c) PROVE LineOK'
  BY <1>8 DEF Accept, Device, LineOK
<1>9. ASSUME NEW c \in Clients, StartStrict(c) PROVE LineOK'
  BY <1>9 DEF StartStrict, Device, LineOK
<1>10. ASSUME NEW c \in Clients, Greet(c) PROVE LineOK'
  BY <1>10 DEF Greet, SayConnected, AgeLimit, Device, LineOK
<1>11. ASSUME NEW c \in Clients, EndStrict(c) PROVE LineOK'
  BY <1>11 DEF EndStrict, SayConnected, AgeLimit, Device, LineOK
<1>12. ASSUME NEW c \in Clients, Leave(c) PROVE LineOK'
  BY <1>12 DEF Leave, Device, LineOK
<1>13. ASSUME Sample PROVE LineOK'
  BY <1>13 DEF Sample, StillStale, IsStale, LineOK
<1>14. ASSUME CheckAmp PROVE LineOK'
  BY <1>14 DEF CheckAmp, Recheck, StillStale, IsStale, Asleep, LineOK
<1>15. ASSUME CheckTuner PROVE LineOK'
  BY <1>15 DEF CheckTuner, Recheck, StillStale, IsStale, Asleep, LineOK
<1>16. CASE UNCHANGED vars
  BY <1>16 DEF LineOK
<1> QED
  BY <1>1, <1>2, <1>3, <1>4, <1>5, <1>6, <1>7, <1>8, <1>9, <1>10, <1>11, <1>12, <1>13,
       <1>14, <1>15, <1>16
     DEF Next, Driver, Emulator, Watchdog

LEMMA ClientsStep == TypeOK /\ [Next]_vars => ClientsOK'
<1> SUFFICES ASSUME TypeOK, [Next]_vars PROVE ClientsOK'
  OBVIOUS
<1> USE DEF TypeOK
<1>1. ASSUME Tick PROVE ClientsOK'
  BY <1>1 DEF Tick, Older, AgeLimit, SilenceLimit, ClientsOK
<1>2. ASSUME NEW d \in Devices, OpenPort(d) PROVE ClientsOK'
  BY <1>2 DEF OpenPort, ClientsOK
<1>3. ASSUME NEW d \in Devices, OpenFailed(d) PROVE ClientsOK'
  BY <1>3 DEF OpenFailed, ClientsOK
<1>4. ASSUME NEW d \in Devices, PollAnswered(d) PROVE ClientsOK'
  BY <1>4 DEF PollAnswered, SayConnected, SilenceLimit, AgeLimit, ClientsOK
<1>5. ASSUME NEW d \in Devices, PollSilent(d) PROVE ClientsOK'
  BY <1>5 DEF PollSilent, ClientsOK
<1>6. ASSUME Verified PROVE ClientsOK'
  BY <1>6 DEF Verified, SilenceLimit, ClientsOK
<1>7. ASSUME NEW d \in Devices, Dies(d) PROVE ClientsOK'
  BY <1>7 DEF Dies, ClientsOK
<1>8. ASSUME NEW c \in Clients, Accept(c) PROVE ClientsOK'
  BY <1>8 DEF Accept, Device, ClientsOK
<1>9. ASSUME NEW c \in Clients, StartStrict(c) PROVE ClientsOK'
  BY <1>9 DEF StartStrict, Device, ClientsOK
<1>10. ASSUME NEW c \in Clients, Greet(c) PROVE ClientsOK'
  BY <1>10 DEF Greet, SayConnected, AgeLimit, Device, ClientsOK
<1>11. ASSUME NEW c \in Clients, EndStrict(c) PROVE ClientsOK'
  BY <1>11 DEF EndStrict, SayConnected, AgeLimit, Device, ClientsOK
<1>12. ASSUME NEW c \in Clients, Leave(c) PROVE ClientsOK'
  BY <1>12 DEF Leave, Device, ClientsOK
<1>13. ASSUME Sample PROVE ClientsOK'
  BY <1>13 DEF Sample, StillStale, IsStale, ClientsOK
<1>14. ASSUME CheckAmp PROVE ClientsOK'
  BY <1>14 DEF CheckAmp, Recheck, StillStale, IsStale, Asleep, ClientsOK
<1>15. ASSUME CheckTuner PROVE ClientsOK'
  BY <1>15 DEF CheckTuner, Recheck, StillStale, IsStale, Asleep, ClientsOK
<1>16. CASE UNCHANGED vars
  BY <1>16 DEF ClientsOK
<1> QED
  BY <1>1, <1>2, <1>3, <1>4, <1>5, <1>6, <1>7, <1>8, <1>9, <1>10, <1>11, <1>12, <1>13,
       <1>14, <1>15, <1>16
     DEF Next, Driver, Emulator, Watchdog

LEMMA WatchStep == TypeOK /\ [Next]_vars => WatchOK'
<1> SUFFICES ASSUME TypeOK, [Next]_vars PROVE WatchOK'
  OBVIOUS
<1> USE DEF TypeOK
<1>1. ASSUME Tick PROVE WatchOK'
  BY <1>1 DEF Tick, Older, AgeLimit, SilenceLimit, WatchOK
<1>2. ASSUME NEW d \in Devices, OpenPort(d) PROVE WatchOK'
  BY <1>2 DEF OpenPort, WatchOK
<1>3. ASSUME NEW d \in Devices, OpenFailed(d) PROVE WatchOK'
  BY <1>3 DEF OpenFailed, WatchOK
<1>4. ASSUME NEW d \in Devices, PollAnswered(d) PROVE WatchOK'
  BY <1>4 DEF PollAnswered, SayConnected, SilenceLimit, AgeLimit, WatchOK
<1>5. ASSUME NEW d \in Devices, PollSilent(d) PROVE WatchOK'
  BY <1>5 DEF PollSilent, WatchOK
<1>6. ASSUME Verified PROVE WatchOK'
  BY <1>6 DEF Verified, SilenceLimit, WatchOK
<1>7. ASSUME NEW d \in Devices, Dies(d) PROVE WatchOK'
  BY <1>7 DEF Dies, WatchOK
<1>8. ASSUME NEW c \in Clients, Accept(c) PROVE WatchOK'
  BY <1>8 DEF Accept, Device, WatchOK
<1>9. ASSUME NEW c \in Clients, StartStrict(c) PROVE WatchOK'
  BY <1>9 DEF StartStrict, Device, WatchOK
<1>10. ASSUME NEW c \in Clients, Greet(c) PROVE WatchOK'
  BY <1>10 DEF Greet, SayConnected, AgeLimit, Device, WatchOK
<1>11. ASSUME NEW c \in Clients, EndStrict(c) PROVE WatchOK'
  BY <1>11 DEF EndStrict, SayConnected, AgeLimit, Device, WatchOK
<1>12. ASSUME NEW c \in Clients, Leave(c) PROVE WatchOK'
  BY <1>12 DEF Leave, Device, WatchOK
<1>13. ASSUME Sample PROVE WatchOK'
  BY <1>13 DEF Sample, StillStale, IsStale, WatchOK
<1>14. ASSUME CheckAmp PROVE WatchOK'
  BY <1>14 DEF CheckAmp, Recheck, StillStale, IsStale, Asleep, WatchOK
<1>15. ASSUME CheckTuner PROVE WatchOK'
  BY <1>15 DEF CheckTuner, Recheck, StillStale, IsStale, Asleep, WatchOK
<1>16. CASE UNCHANGED vars
  BY <1>16 DEF WatchOK
<1> QED
  BY <1>1, <1>2, <1>3, <1>4, <1>5, <1>6, <1>7, <1>8, <1>9, <1>10, <1>11, <1>12, <1>13,
       <1>14, <1>15, <1>16
     DEF Next, Driver, Emulator, Watchdog

LEMMA TypeStep == TypeOK /\ [Next]_vars => TypeOK'
BY ShownStep, LineStep, ClientsStep, WatchStep DEF TypeOK

LEMMA AmpStep == IInv /\ [Next]_vars => AmpFresh'
<1> SUFFICES ASSUME TypeOK, AmpFresh, DueAsleep, [Next]_vars PROVE AmpFresh'
  BY DEF IInv
<1> USE DEF TypeOK
<1>1. ASSUME Tick PROVE AmpFresh'
  BY <1>1 DEF Tick, Older, AgeLimit, SilenceLimit, ShownOK, WatchOK, AmpFresh, DueAsleep
<1>2. ASSUME NEW d \in Devices, OpenPort(d) PROVE AmpFresh'
  BY <1>2 DEF OpenPort, ShownOK, WatchOK, AmpFresh, DueAsleep
<1>3. ASSUME NEW d \in Devices, OpenFailed(d) PROVE AmpFresh'
  BY <1>3 DEF OpenFailed, ShownOK, WatchOK, AmpFresh, DueAsleep
<1>4. ASSUME NEW d \in Devices, PollAnswered(d) PROVE AmpFresh'
  BY <1>4 DEF PollAnswered, SayConnected, SilenceLimit, AgeLimit, ShownOK, WatchOK,
       AmpFresh, DueAsleep
<1>5. ASSUME NEW d \in Devices, PollSilent(d) PROVE AmpFresh'
  BY <1>5 DEF PollSilent, ShownOK, WatchOK, AmpFresh, DueAsleep
<1>6. ASSUME Verified PROVE AmpFresh'
  BY <1>6 DEF Verified, SilenceLimit, ShownOK, WatchOK, AmpFresh, DueAsleep
<1>7. ASSUME NEW d \in Devices, Dies(d) PROVE AmpFresh'
  BY <1>7 DEF Dies, ShownOK, WatchOK, AmpFresh, DueAsleep
<1>8. ASSUME NEW c \in Clients, Accept(c) PROVE AmpFresh'
  BY <1>8 DEF Accept, Device, ShownOK, WatchOK, AmpFresh, DueAsleep
<1>9. ASSUME NEW c \in Clients, StartStrict(c) PROVE AmpFresh'
  BY <1>9 DEF StartStrict, Device, ShownOK, WatchOK, AmpFresh, DueAsleep
<1>10. ASSUME NEW c \in Clients, Greet(c) PROVE AmpFresh'
  BY <1>10 DEF Greet, SayConnected, AgeLimit, Device, ShownOK, WatchOK, AmpFresh, DueAsleep
<1>11. ASSUME NEW c \in Clients, EndStrict(c) PROVE AmpFresh'
  BY <1>11 DEF EndStrict, SayConnected, AgeLimit, Device, ShownOK, WatchOK, AmpFresh,
       DueAsleep
<1>12. ASSUME NEW c \in Clients, Leave(c) PROVE AmpFresh'
  BY <1>12 DEF Leave, Device, ShownOK, WatchOK, AmpFresh, DueAsleep
<1>13. ASSUME Sample PROVE AmpFresh'
  BY <1>13 DEF Sample, StillStale, IsStale, ShownOK, WatchOK, AmpFresh, DueAsleep
<1>14. ASSUME CheckAmp PROVE AmpFresh'
  BY <1>14 DEF CheckAmp, Recheck, StillStale, IsStale, Asleep, ShownOK, WatchOK,
       AmpFresh, DueAsleep
<1>15. ASSUME CheckTuner PROVE AmpFresh'
  BY <1>15 DEF CheckTuner, Recheck, StillStale, IsStale, Asleep, ShownOK, WatchOK,
       AmpFresh, DueAsleep
<1>16. CASE UNCHANGED vars
  BY <1>16 DEF ShownOK, WatchOK, AmpFresh, DueAsleep
<1> QED
  BY <1>1, <1>2, <1>3, <1>4, <1>5, <1>6, <1>7, <1>8, <1>9, <1>10, <1>11, <1>12, <1>13,
       <1>14, <1>15, <1>16
     DEF Next, Driver, Emulator, Watchdog

LEMMA SampleStep == IInv /\ [Next]_vars => (SampledStale /\ DueAsleep)'
<1> SUFFICES ASSUME TypeOK, SampledStale, DueAsleep, [Next]_vars PROVE (SampledStale /\ DueAsleep)'
  BY DEF IInv
<1> USE DEF TypeOK
<1>1. ASSUME Tick PROVE (SampledStale /\ DueAsleep)'
  BY <1>1 DEF Tick, Older, AgeLimit, SilenceLimit, ShownOK, WatchOK, SampledStale,
       DueAsleep, IsStale
<1>2. ASSUME NEW d \in Devices, OpenPort(d) PROVE (SampledStale /\ DueAsleep)'
  BY <1>2 DEF OpenPort, ShownOK, WatchOK, SampledStale, DueAsleep, IsStale
<1>3. ASSUME NEW d \in Devices, OpenFailed(d) PROVE (SampledStale /\ DueAsleep)'
  BY <1>3 DEF OpenFailed, ShownOK, WatchOK, SampledStale, DueAsleep, IsStale
<1>4. ASSUME NEW d \in Devices, PollAnswered(d) PROVE (SampledStale /\ DueAsleep)'
  BY <1>4 DEF PollAnswered, SayConnected, SilenceLimit, AgeLimit, ShownOK, WatchOK,
       SampledStale, DueAsleep, IsStale
<1>5. ASSUME NEW d \in Devices, PollSilent(d) PROVE (SampledStale /\ DueAsleep)'
  BY <1>5 DEF PollSilent, ShownOK, WatchOK, SampledStale, DueAsleep, IsStale
<1>6. ASSUME Verified PROVE (SampledStale /\ DueAsleep)'
  BY <1>6 DEF Verified, SilenceLimit, ShownOK, WatchOK, SampledStale, DueAsleep, IsStale
<1>7. ASSUME NEW d \in Devices, Dies(d) PROVE (SampledStale /\ DueAsleep)'
  BY <1>7 DEF Dies, ShownOK, WatchOK, SampledStale, DueAsleep, IsStale
<1>8. ASSUME NEW c \in Clients, Accept(c) PROVE (SampledStale /\ DueAsleep)'
  BY <1>8 DEF Accept, Device, ShownOK, WatchOK, SampledStale, DueAsleep, IsStale
<1>9. ASSUME NEW c \in Clients, StartStrict(c) PROVE (SampledStale /\ DueAsleep)'
  BY <1>9 DEF StartStrict, Device, ShownOK, WatchOK, SampledStale, DueAsleep, IsStale
<1>10. ASSUME NEW c \in Clients, Greet(c) PROVE (SampledStale /\ DueAsleep)'
  BY <1>10 DEF Greet, SayConnected, AgeLimit, Device, ShownOK, WatchOK, SampledStale,
       DueAsleep, IsStale
<1>11. ASSUME NEW c \in Clients, EndStrict(c) PROVE (SampledStale /\ DueAsleep)'
  BY <1>11 DEF EndStrict, SayConnected, AgeLimit, Device, ShownOK, WatchOK, SampledStale,
       DueAsleep, IsStale
<1>12. ASSUME NEW c \in Clients, Leave(c) PROVE (SampledStale /\ DueAsleep)'
  BY <1>12 DEF Leave, Device, ShownOK, WatchOK, SampledStale, DueAsleep, IsStale
<1>13. ASSUME Sample PROVE (SampledStale /\ DueAsleep)'
  BY <1>13 DEF Sample, StillStale, IsStale, ShownOK, WatchOK, SampledStale, DueAsleep,
       IsStale
<1>14. ASSUME CheckAmp PROVE (SampledStale /\ DueAsleep)'
  BY <1>14 DEF CheckAmp, Recheck, StillStale, IsStale, Asleep, ShownOK, WatchOK,
       SampledStale, DueAsleep, IsStale
<1>15. ASSUME CheckTuner PROVE (SampledStale /\ DueAsleep)'
  BY <1>15 DEF CheckTuner, Recheck, StillStale, IsStale, Asleep, ShownOK, WatchOK,
       SampledStale, DueAsleep, IsStale
<1>16. CASE UNCHANGED vars
  BY <1>16 DEF ShownOK, WatchOK, SampledStale, DueAsleep, IsStale
<1> QED
  BY <1>1, <1>2, <1>3, <1>4, <1>5, <1>6, <1>7, <1>8, <1>9, <1>10, <1>11, <1>12, <1>13,
       <1>14, <1>15, <1>16
     DEF Next, Driver, Emulator, Watchdog

LEMMA TunerStep == IInv /\ [Next]_vars => TunerFresh'
<1> SUFFICES ASSUME TypeOK, AmpFresh, SampledStale, TunerFresh, DueAsleep, [Next]_vars PROVE TunerFresh'
  BY DEF IInv
<1> USE DEF TypeOK
<1>1. ASSUME Tick PROVE TunerFresh'
  BY <1>1 DEF Tick, Older, AgeLimit, SilenceLimit, ShownOK, WatchOK, AmpFresh,
       SampledStale, TunerFresh, DueAsleep, Calm, Limit, IsStale
<1>2. ASSUME NEW d \in Devices, OpenPort(d) PROVE TunerFresh'
  BY <1>2 DEF OpenPort, ShownOK, WatchOK, AmpFresh, SampledStale, TunerFresh, DueAsleep,
       Calm, Limit, IsStale
<1>3. ASSUME NEW d \in Devices, OpenFailed(d) PROVE TunerFresh'
  BY <1>3 DEF OpenFailed, ShownOK, WatchOK, AmpFresh, SampledStale, TunerFresh,
       DueAsleep, Calm, Limit, IsStale
<1>4. ASSUME NEW d \in Devices, PollAnswered(d) PROVE TunerFresh'
  BY <1>4 DEF PollAnswered, SayConnected, SilenceLimit, AgeLimit, ShownOK, WatchOK,
       AmpFresh, SampledStale, TunerFresh, DueAsleep, Calm, Limit, IsStale
<1>5. ASSUME NEW d \in Devices, PollSilent(d) PROVE TunerFresh'
  BY <1>5 DEF PollSilent, ShownOK, WatchOK, AmpFresh, SampledStale, TunerFresh,
       DueAsleep, Calm, Limit, IsStale
<1>6. ASSUME Verified PROVE TunerFresh'
  BY <1>6 DEF Verified, SilenceLimit, ShownOK, WatchOK, AmpFresh, SampledStale,
       TunerFresh, DueAsleep, Calm, Limit, IsStale
<1>7. ASSUME NEW d \in Devices, Dies(d) PROVE TunerFresh'
  BY <1>7 DEF Dies, ShownOK, WatchOK, AmpFresh, SampledStale, TunerFresh, DueAsleep,
       Calm, Limit, IsStale
<1>8. ASSUME NEW c \in Clients, Accept(c) PROVE TunerFresh'
  BY <1>8 DEF Accept, Device, ShownOK, WatchOK, AmpFresh, SampledStale, TunerFresh,
       DueAsleep, Calm, Limit, IsStale
<1>9. ASSUME NEW c \in Clients, StartStrict(c) PROVE TunerFresh'
  BY <1>9 DEF StartStrict, Device, ShownOK, WatchOK, AmpFresh, SampledStale, TunerFresh,
       DueAsleep, Calm, Limit, IsStale
<1>10. ASSUME NEW c \in Clients, Greet(c) PROVE TunerFresh'
  BY <1>10 DEF Greet, SayConnected, AgeLimit, Device, ShownOK, WatchOK, AmpFresh,
       SampledStale, TunerFresh, DueAsleep, Calm, Limit, IsStale
<1>11. ASSUME NEW c \in Clients, EndStrict(c) PROVE TunerFresh'
  BY <1>11 DEF EndStrict, SayConnected, AgeLimit, Device, ShownOK, WatchOK, AmpFresh,
       SampledStale, TunerFresh, DueAsleep, Calm, Limit, IsStale
<1>12. ASSUME NEW c \in Clients, Leave(c) PROVE TunerFresh'
  BY <1>12 DEF Leave, Device, ShownOK, WatchOK, AmpFresh, SampledStale, TunerFresh,
       DueAsleep, Calm, Limit, IsStale
<1>13. ASSUME Sample PROVE TunerFresh'
  <2> SUFFICES ASSUME conn["tuner"] = "Connected"
               PROVE  /\ age["tuner"] \in 0 .. Limit + 2
                      /\ age["tuner"] > Limit =>
                            watch'.tuner /\ (age["tuner"] = Limit + 2 => ~watch'.amp)
    BY <1>13 DEF Sample, TunerFresh, Limit
  <2>1. StaleAfter["amp"] >= 1 /\ None \notin Int
    OBVIOUS
  <2>2. (watch'.tuner <=> IsStale("tuner")) /\ (watch'.amp <=> StillStale("amp"))
    BY <1>13 DEF Sample, StillStale, IsStale
  <2>3. age["tuner"] = Limit + 2 => Calm(1)
    BY <1>13 DEF Sample, TunerFresh, Limit
  <2>4. Calm(1) => ~StillStale("amp")
    BY <2>1 DEF Calm, StillStale, IsStale
  <2>5. age["tuner"] \in 0 .. Limit + 2
    BY DEF TunerFresh
  <2> QED
    BY <2>1, <2>2, <2>3, <2>4, <2>5 DEF IsStale, Limit
<1>14. ASSUME CheckAmp PROVE TunerFresh'
  BY <1>14 DEF CheckAmp, Recheck, StillStale, IsStale, Asleep, ShownOK, WatchOK,
       AmpFresh, SampledStale, TunerFresh, DueAsleep, Calm, Limit, IsStale
<1>15. ASSUME CheckTuner PROVE TunerFresh'
  BY <1>15 DEF CheckTuner, Recheck, StillStale, IsStale, Asleep, ShownOK, WatchOK,
       AmpFresh, SampledStale, TunerFresh, DueAsleep, Calm, Limit, IsStale
<1>16. CASE UNCHANGED vars
  BY <1>16 DEF ShownOK, WatchOK, AmpFresh, SampledStale, TunerFresh, DueAsleep, Calm,
       Limit, IsStale
<1> QED
  BY <1>1, <1>2, <1>3, <1>4, <1>5, <1>6, <1>7, <1>8, <1>9, <1>10, <1>11, <1>12, <1>13,
       <1>14, <1>15, <1>16
     DEF Next, Driver, Emulator, Watchdog

LEMMA StartupStep == IInv /\ [Next]_vars => StartupsStrict'
<1> SUFFICES ASSUME TypeOK, StartupsStrict, [Next]_vars PROVE StartupsStrict'
  BY DEF IInv
<1> USE DEF TypeOK
<1>1. ASSUME Tick PROVE StartupsStrict'
  BY <1>1 DEF Tick, Older, AgeLimit, SilenceLimit, ClientsOK, StartupsStrict
<1>2. ASSUME NEW d \in Devices, OpenPort(d) PROVE StartupsStrict'
  BY <1>2 DEF OpenPort, ClientsOK, StartupsStrict
<1>3. ASSUME NEW d \in Devices, OpenFailed(d) PROVE StartupsStrict'
  BY <1>3 DEF OpenFailed, ClientsOK, StartupsStrict
<1>4. ASSUME NEW d \in Devices, PollAnswered(d) PROVE StartupsStrict'
  BY <1>4 DEF PollAnswered, SayConnected, SilenceLimit, AgeLimit, ClientsOK, StartupsStrict
<1>5. ASSUME NEW d \in Devices, PollSilent(d) PROVE StartupsStrict'
  BY <1>5 DEF PollSilent, ClientsOK, StartupsStrict
<1>6. ASSUME Verified PROVE StartupsStrict'
  BY <1>6 DEF Verified, SilenceLimit, ClientsOK, StartupsStrict
<1>7. ASSUME NEW d \in Devices, Dies(d) PROVE StartupsStrict'
  BY <1>7 DEF Dies, ClientsOK, StartupsStrict
<1>8. ASSUME NEW c \in Clients, Accept(c) PROVE StartupsStrict'
  BY <1>8 DEF Accept, Device, ClientsOK, StartupsStrict
<1>9. ASSUME NEW c \in Clients, StartStrict(c) PROVE StartupsStrict'
  BY <1>9 DEF StartStrict, Device, ClientsOK, StartupsStrict
<1>10. ASSUME NEW c \in Clients, Greet(c) PROVE StartupsStrict'
  BY <1>10 DEF Greet, SayConnected, AgeLimit, Device, ClientsOK, StartupsStrict
<1>11. ASSUME NEW c \in Clients, EndStrict(c) PROVE StartupsStrict'
  BY <1>11 DEF EndStrict, SayConnected, AgeLimit, Device, ClientsOK, StartupsStrict
<1>12. ASSUME NEW c \in Clients, Leave(c) PROVE StartupsStrict'
  BY <1>12 DEF Leave, Device, ClientsOK, StartupsStrict
<1>13. ASSUME Sample PROVE StartupsStrict'
  BY <1>13 DEF Sample, StillStale, IsStale, ClientsOK, StartupsStrict
<1>14. ASSUME CheckAmp PROVE StartupsStrict'
  BY <1>14 DEF CheckAmp, Recheck, StillStale, IsStale, Asleep, ClientsOK, StartupsStrict
<1>15. ASSUME CheckTuner PROVE StartupsStrict'
  BY <1>15 DEF CheckTuner, Recheck, StillStale, IsStale, Asleep, ClientsOK, StartupsStrict
<1>16. CASE UNCHANGED vars
  BY <1>16 DEF ClientsOK, StartupsStrict
<1> QED
  BY <1>1, <1>2, <1>3, <1>4, <1>5, <1>6, <1>7, <1>8, <1>9, <1>10, <1>11, <1>12, <1>13,
       <1>14, <1>15, <1>16
     DEF Next, Driver, Emulator, Watchdog

LEMMA SilenceStep == IInv /\ [Next]_vars => SilenceKnown'
<1> SUFFICES ASSUME TypeOK, AmpFresh, StartupsStrict, SilenceKnown, [Next]_vars PROVE SilenceKnown'
  BY DEF IInv
<1> USE DEF TypeOK
<1>1. ASSUME Tick PROVE SilenceKnown'
  BY <1>1 DEF Tick, Older, AgeLimit, SilenceLimit, ShownOK, LineOK, ClientsOK, AmpFresh,
       StartupsStrict, SilenceKnown, Strict
<1>2. ASSUME NEW d \in Devices, OpenPort(d) PROVE SilenceKnown'
  BY <1>2 DEF OpenPort, ShownOK, LineOK, ClientsOK, AmpFresh, StartupsStrict,
       SilenceKnown, Strict
<1>3. ASSUME NEW d \in Devices, OpenFailed(d) PROVE SilenceKnown'
  BY <1>3 DEF OpenFailed, ShownOK, LineOK, ClientsOK, AmpFresh, StartupsStrict,
       SilenceKnown, Strict
<1>4. ASSUME NEW d \in Devices, PollAnswered(d) PROVE SilenceKnown'
  BY <1>4 DEF PollAnswered, SayConnected, SilenceLimit, AgeLimit, ShownOK, LineOK,
       ClientsOK, AmpFresh, StartupsStrict, SilenceKnown, Strict
<1>5. ASSUME NEW d \in Devices, PollSilent(d) PROVE SilenceKnown'
  BY <1>5 DEF PollSilent, ShownOK, LineOK, ClientsOK, AmpFresh, StartupsStrict,
       SilenceKnown, Strict
<1>6. ASSUME Verified PROVE SilenceKnown'
  BY <1>6 DEF Verified, SilenceLimit, ShownOK, LineOK, ClientsOK, AmpFresh,
       StartupsStrict, SilenceKnown, Strict
<1>7. ASSUME NEW d \in Devices, Dies(d) PROVE SilenceKnown'
  BY <1>7 DEF Dies, ShownOK, LineOK, ClientsOK, AmpFresh, StartupsStrict, SilenceKnown,
       Strict
<1>8. ASSUME NEW c \in Clients, Accept(c) PROVE SilenceKnown'
  BY <1>8 DEF Accept, Device, ShownOK, LineOK, ClientsOK, AmpFresh, StartupsStrict,
       SilenceKnown, Strict
<1>9. ASSUME NEW c \in Clients, StartStrict(c) PROVE SilenceKnown'
  BY <1>9 DEF StartStrict, Device, ShownOK, LineOK, ClientsOK, AmpFresh, StartupsStrict,
       SilenceKnown, Strict
<1>10. ASSUME NEW c \in Clients, Greet(c) PROVE SilenceKnown'
  BY <1>10 DEF Greet, SayConnected, AgeLimit, Device, ShownOK, LineOK, ClientsOK,
       AmpFresh, StartupsStrict, SilenceKnown, Strict
<1>11. ASSUME NEW c \in Clients, EndStrict(c) PROVE SilenceKnown'
  BY <1>11 DEF EndStrict, SayConnected, AgeLimit, Device, ShownOK, LineOK, ClientsOK,
       AmpFresh, StartupsStrict, SilenceKnown, Strict
<1>12. ASSUME NEW c \in Clients, Leave(c) PROVE SilenceKnown'
  BY <1>12 DEF Leave, Device, ShownOK, LineOK, ClientsOK, AmpFresh, StartupsStrict,
       SilenceKnown, Strict
<1>13. ASSUME Sample PROVE SilenceKnown'
  BY <1>13 DEF Sample, StillStale, IsStale, ShownOK, LineOK, ClientsOK, AmpFresh,
       StartupsStrict, SilenceKnown, Strict
<1>14. ASSUME CheckAmp PROVE SilenceKnown'
  BY <1>14 DEF CheckAmp, Recheck, StillStale, IsStale, Asleep, ShownOK, LineOK,
       ClientsOK, AmpFresh, StartupsStrict, SilenceKnown, Strict
<1>15. ASSUME CheckTuner PROVE SilenceKnown'
  BY <1>15 DEF CheckTuner, Recheck, StillStale, IsStale, Asleep, ShownOK, LineOK,
       ClientsOK, AmpFresh, StartupsStrict, SilenceKnown, Strict
<1>16. CASE UNCHANGED vars
  BY <1>16 DEF ShownOK, LineOK, ClientsOK, AmpFresh, StartupsStrict, SilenceKnown, Strict
<1> QED
  BY <1>1, <1>2, <1>3, <1>4, <1>5, <1>6, <1>7, <1>8, <1>9, <1>10, <1>11, <1>12, <1>13,
       <1>14, <1>15, <1>16
     DEF Next, Driver, Emulator, Watchdog

LEMMA InductiveInv == Spec => []IInv
<1>1. IInv /\ [Next]_vars => IInv'
  BY TypeStep, AmpStep, SampleStep, TunerStep, StartupStep, SilenceStep DEF IInv
<1> QED
  BY InitInv, <1>1, PTL DEF Spec

(* Every action keeps the types, for all constants.                        *)
THEOREM TypeCorrect == Spec => []TypeOK
<1>1. IInv => TypeOK
  BY DEF IInv
<1> QED
  BY InductiveInv, <1>1, PTL

(* No device is shown as connected long after it was last heard of,        *)
(* whatever drivers, clients and their start-ups do between the watchdog's *)
(* looks.                                                                  *)
THEOREM ConnectedIsFreshHolds == Spec => []ConnectedIsFresh
<1>1. IInv => ConnectedIsFresh
  BY DEF IInv, AmpFresh, TunerFresh, ConnectedIsFresh, Limit
<1> QED
  BY InductiveInv, <1>1, PTL

(* Transmission is allowed only on an amplifier that answered not long ago,*)
(* for any number of overlapping strict start-ups.                         *)
THEOREM ReadyWasJustifiedHolds == Spec => []ReadyWasJustified
<1>1. IInv => ReadyWasJustified
  BY DEF IInv, AmpFresh, SilenceKnown, ReadyWasJustified, AllowsTx, Strict, TypeOK, LineOK
<1> QED
  BY InductiveInv, <1>1, PTL

(* The second look keeps the watchdog from degrading a device that was     *)
(* polled after the first.                                                 *)
THEOREM OnlyStaleDegradedHolds == Spec => OnlyStaleDegraded
<1>1. IInv /\ [Next]_vars => [\A d \in Devices : Watchdog /\ conn'[d] # conn[d] => IsStale(d)]_vars
  BY DEF IInv, TypeOK, ShownOK, Watchdog, Sample, CheckAmp, CheckTuner, Recheck, StillStale
<1> QED
  BY InductiveInv, <1>1, PTL DEF Spec, OnlyStaleDegraded
=============================================================================
