--------------------------- MODULE StationProofs ---------------------------
(* What holds of the processes of Station for any number of processes,     *)
(* files and clicks, and of the control policy for every configuration.    *)
EXTENDS Station, TLAPS

-----------------------------------------------------------------------------
(* The control policy.                                                     *)

(* What the bridge reports as enabled, its driver lets through.            *)
THEOREM EnabledIsSent ==
    ASSUME NEW cfg \in Config
    PROVE  /\ Enabled(cfg).tune => CanSend(cfg).tune
           /\ Enabled(cfg).bypass => CanSend(cfg).bypass
           /\ Enabled(cfg).antenna => CanSend(cfg).antenna
           /\ Enabled(cfg).standby => CanSend(cfg).standby
           /\ Enabled(cfg).operate => CanSend(cfg).operate
    BY DEF Config, Device, Operational, Enabled, CanSend, Effective, Confirmed, Risked, Controlled

(* And the other way round, unless a device's allow_control or             *)
(* allow_rf_risk is set beside dry_run: then another control opens what is *)
(* reported as disabled.  Bypass and antenna open each other.              *)
THEOREM SentIsEnabled ==
    ASSUME NEW cfg \in Config,
           cfg.kpa.dry => ~cfg.kpa.control /\ ~cfg.kpa.rf,
           cfg.kat.dry => ~cfg.kat.control /\ ~cfg.kat.rf
    PROVE  /\ CanSend(cfg).tune => Enabled(cfg).tune
           /\ CanSend(cfg).bypass => Enabled(cfg).bypass \/ Enabled(cfg).antenna
           /\ CanSend(cfg).antenna => Enabled(cfg).bypass \/ Enabled(cfg).antenna
           /\ CanSend(cfg).standby => Enabled(cfg).standby
           /\ CanSend(cfg).operate => Enabled(cfg).operate
<1> DEFINE on == Enabled(cfg)
           eff == Effective(cfg)
<1>1. /\ Risked(cfg.kat) => on.tune
      /\ Controlled(cfg.kat) => on.bypass
      /\ Controlled(cfg.kpa) => on.standby
      /\ Risked(cfg.kpa) => on.operate
    BY DEF Enabled
<1>2. /\ eff.kpa.rf => cfg.kpa.rf \/ on.operate
      /\ eff.kpa.control => cfg.kpa.control \/ on.standby
      /\ eff.kat.rf => cfg.kat.rf \/ on.tune
      /\ eff.kat.control => cfg.kat.control \/ on.bypass \/ on.antenna
    BY DEF Effective
<1> HIDE DEF on
<1>3. CanSend(cfg).operate => on.operate
    BY <1>1, <1>2 DEF CanSend, Risked
<1>4. CanSend(cfg).standby => on.standby
    BY <1>1, <1>2 DEF CanSend, Controlled
<1>5. CanSend(cfg).tune => on.tune
    BY <1>1, <1>2 DEF CanSend, Risked
<1>6. CanSend(cfg).bypass \/ CanSend(cfg).antenna => on.bypass \/ on.antenna
    BY <1>1, <1>2 DEF CanSend, Controlled
<1> QED BY <1>3, <1>4, <1>5, <1>6 DEF on

(* A bridge that says MONITOR ONLY then sends none of these three; bypass, *)
(* antenna and clear are not told by the label.                            *)
THEOREM MonitorsOnly ==
    ASSUME NEW cfg \in Config, Mode(cfg) = "MONITOR ONLY",
           cfg.kpa.dry => ~cfg.kpa.control /\ ~cfg.kpa.rf,
           cfg.kat.dry => ~cfg.kat.control /\ ~cfg.kat.rf
    PROVE  ~CanSend(cfg).operate /\ ~CanSend(cfg).tune /\ ~CanSend(cfg).standby
<1>1. ~Enabled(cfg).operate /\ ~Enabled(cfg).tune /\ ~Enabled(cfg).standby BY DEF Mode
<1> QED BY <1>1, SentIsEnabled

(* The recommended setup makes a valid configuration, the GUI promises of  *)
(* it what the bridge does, and nothing of it operates the amplifier.      *)
THEOREM RecommendedIsSafe ==
    ASSUME NEW cfg \in Config, NEW made, made = Recommended(cfg, TRUE)
    PROVE  /\ made \in Config /\ Valid(made)
           /\ Preview(made).tune <=> CanSend(made).tune
           /\ Preview(made).standby <=> CanSend(made).standby
           /\ Preview(made).operate <=> CanSend(made).operate
           /\ ~CanSend(made).operate
<1>1. made \in Config
    BY DEF Config, Device, Operational, Recommended, Safe
<1>2. /\ made.kpa = Safe /\ made.kat = Safe
      /\ made.op.real = TRUE /\ made.op.confirm = TRUE
      /\ made.op.tune = TRUE /\ made.op.standby = TRUE
      /\ made.op.operate = FALSE /\ made.op.clear = FALSE
    BY DEF Config, Operational, Recommended
<1>a. /\ made.kpa.dry /\ ~made.kpa.control /\ ~made.kpa.rf
      /\ made.kat.dry /\ ~made.kat.control /\ ~made.kat.rf
    BY DEF Recommended, Safe
<1>3. Valid(made) BY <1>2 DEF Valid
<1>4. Confirmed(made) BY <1>2 DEF Confirmed
<1>5. ~Risked(made.kpa) /\ ~Risked(made.kat) /\ ~Controlled(made.kpa) /\ ~Controlled(made.kat)
    BY <1>a DEF Risked, Controlled
<1>6. Preview(made).tune /\ Preview(made).standby /\ ~Preview(made).operate
    BY <1>2, <1>4, <1>5 DEF Preview
<1>7. Enabled(made).tune /\ Enabled(made).standby /\ ~Enabled(made).operate
    BY <1>2, <1>4, <1>5 DEF Enabled
<1>8. CanSend(made).tune /\ CanSend(made).standby /\ ~CanSend(made).operate
    BY <1>a, <1>7 DEF CanSend, Effective, Risked, Controlled
<1> QED BY <1>1, <1>3, <1>6, <1>8

(* Only allow_rf_risk or confirmed real controls operate the amplifier.    *)
LEMMA OperateNeeds ==
    ASSUME NEW cfg, CanSend(cfg).operate, ~cfg.kpa.rf
    PROVE  Confirmed(cfg)
    BY DEF Enabled, CanSend, Effective, Confirmed, Risked, Controlled

-----------------------------------------------------------------------------
(* Type correctness.                                                       *)

(* The types without the configurations' permissions in sight.             *)
FilesOK == file \in [Paths -> Config]
WorldOK ==
    /\ proc \in [Pids -> Process]
    /\ port \in Pids \cup {None} /\ endpoint \in Pids \cup {None}
    /\ amp \in BOOLEAN
HistoryOK ==
    /\ windows \in BOOLEAN /\ clicks \in 0 .. MaxClicks
    /\ mine \subseteq Pids /\ by \in Pids \cup {None} /\ agreed \in BOOLEAN
    /\ refused \subseteq Pids

LEMMA TypeParts == TypeOK <=> FilesOK /\ gui \in Window /\ WorldOK /\ HistoryOK
    BY DEF TypeOK, FilesOK, WorldOK, HistoryOK

LEMMA FreshType ==
    ASSUME FilesOK, NEW path \in Paths
    PROVE  Fresh(path, file[path]) \in Window
<1>1. file[path] \in Config BY DEF FilesOK
<1>2. (IF Valid(file[path]) THEN file[path] ELSE Default) \in Config
    BY <1>1, ConstantsAssumption
<1>3. NoStatus \in Status BY DEF NoStatus, Status
<1> QED BY <1>2, <1>3 DEF Fresh, Window

LEMMA RefreshedType ==
    ASSUME NEW g \in Window, NEW unseen
    PROVE  Refreshed(g, unseen) \in Window
    BY DEF Refreshed, Window

LEMMA StoppedType ==
    ASSUME NEW g \in Window, NEW kept
    PROVE  Stopped(g, kept) \in Window /\ Stopped(g, kept).child = None
    BY DEF Stopped, Window

(* A restart: the child is forgotten, and the start looks for one.         *)
LEMMA RestoppedType ==
    ASSUME NEW g \in Window, NEW kept, NEW h, h = Refreshed(Stopped(g, kept), {})
    PROVE  h \in Window /\ h.child = None /\ h.ack = g.ack
<1>1. Stopped(g, kept) \in Window /\ Stopped(g, kept).child = None BY StoppedType
<1>2. Stopped(g, kept).ack = g.ack BY DEF Stopped, Window
<1> HIDE DEF Stopped
<1>3. h \in Window BY <1>1, RefreshedType
<1> QED BY <1>1, <1>2, <1>3 DEF Refreshed, Window

(* Whom the system spares or does not tell of are processes.               *)
LEMMA RefusedType ==
    ASSUME gui \in Window
    PROVE  Unseen \subseteq SUBSET Pids /\ \A ps : Spared(ps) \subseteq SUBSET Pids
    BY DEF Unseen, Spared, Window

LEMMA LoadedType ==
    ASSUME FilesOK, NEW g \in Window
    PROVE  Loaded(g) \in Window
<1>1. g.path \in Paths /\ file[g.path] \in Config BY DEF FilesOK, Window
<1>2. file[g.path].kpa.rf \in BOOLEAN BY <1>1 DEF Config, Device
<1> QED BY <1>1, <1>2 DEF Loaded, Window

LEMMA RecommendedType ==
    ASSUME NEW cfg \in Config, NEW controls \in BOOLEAN
    PROVE  Recommended(cfg, controls) \in Config
    BY DEF Config, Device, Operational, Recommended, Safe

LEMMA SaveType ==
    ASSUME FilesOK, NEW g \in Window, Save(g)
    PROVE  FilesOK'
<1>1. g.path \in Paths /\ g.config \in Config BY DEF Window
<1> QED BY <1>1 DEF Save, FilesOK

LEMMA KillType ==
    ASSUME WorldOK, NEW killed, Kill(killed)
    PROVE  WorldOK'
<1>1. proc' \in [Pids -> Process]
    BY DEF WorldOK, Kill, Process, Ended, Alive
<1> QED BY <1>1 DEF WorldOK, Kill

LEMMA EndType ==
    ASSUME WorldOK, NEW p \in Pids, NEW how \in Running \cup Ended, End(p, how)
    PROVE  /\ proc' \in [Pids -> Process]
           /\ port' \in Pids \cup {None} /\ endpoint' \in Pids \cup {None}
<1>1. proc' \in [Pids -> Process]
    BY DEF WorldOK, End, Process
<1> QED BY <1>1 DEF WorldOK, End

LEMMA SpawnType ==
    ASSUME FilesOK, WorldOK, NEW g \in Window, NEW killed,
           NEW owned \in SUBSET Pids, NEW p \in Pids, Spawn(p, g, killed, owned)
    PROVE  FilesOK' /\ gui' \in Window /\ WorldOK' /\ mine' \subseteq Pids
<1>1. FilesOK' BY SaveType DEF Spawn
<1>2. gui' \in Window BY DEF Spawn, Window
<1>3. [Unused EXCEPT !.kind = "bridge", !.at = "load", !.path = g.path] \in Process
    BY DEF Unused, Process, Window, Running
<1>4. \A q \in Pids : [proc[q] EXCEPT !.at = "failed"] \in Process /\ proc[q] \in Process
    BY DEF WorldOK, Process, Ended
<1>5. proc' \in [Pids -> Process] BY <1>3, <1>4 DEF Spawn
<1>6. WorldOK' BY <1>5 DEF WorldOK, Spawn
<1> QED BY <1>1, <1>2, <1>6 DEF Spawn

LEMMA StartType ==
    ASSUME FilesOK, WorldOK, refused \subseteq Pids, NEW g \in Window, NEW killed,
           NEW spared \in SUBSET Pids, NEW owned \in SUBSET Pids,
           Start(g, killed, spared, owned)
    PROVE  FilesOK' /\ gui' \in Window /\ WorldOK' /\ mine' \subseteq Pids /\ refused' \subseteq Pids
<1>1. CASE gui' = g /\ Kill(killed) /\ Refuse(spared) /\ mine' = owned /\ UNCHANGED file
    <2>1. WorldOK' BY <1>1, KillType
    <2> QED BY <1>1, <2>1 DEF FilesOK, Refuse
<1>2. ASSUME NEW more \in Spared(Stale \ killed), NEW gone, Refuse(spared \cup more),
             \/ \E p \in Pids : Spawn(p, g, gone, owned)
             \/ gui' = g /\ Save(g) /\ Kill(gone) /\ mine' = owned
      PROVE  FilesOK' /\ gui' \in Window /\ WorldOK' /\ mine' \subseteq Pids /\ refused' \subseteq Pids
    <2>1. refused' \subseteq Pids BY <1>2 DEF Refuse, Spared
    <2>2. CASE \E p \in Pids : Spawn(p, g, gone, owned) BY <2>1, <2>2, SpawnType
    <2>3. CASE gui' = g /\ Save(g) /\ Kill(gone) /\ mine' = owned
        BY <2>1, <2>3, SaveType, KillType
    <2> QED BY <1>2, <2>2, <2>3
<1> QED BY <1>1, <1>2 DEF Start

(* The user's actions keep the types.                                      *)
LEMMA EditType ==
    ASSUME gui \in Window, Edit
    PROVE  gui' \in Window
<1> DEFINE op == gui.config.op
<1>1. gui.config \in Config /\ op \in Operational BY DEF Window, Config
<1>2. {SafeMode(op), TuneMode(op), RiskMode(op)} \subseteq Operational
    BY <1>1 DEF SafeMode, TuneMode, RiskMode, Operational
<1>3. Boxes(op) \subseteq Operational
    BY <1>1 DEF Boxes, Operational
<1>4. Typed(op) \subseteq Operational
    BY <1>1 DEF Typed, Operational
<1>5. PICK edited \in Operational : gui' = [gui EXCEPT !.config.op = edited]
    BY <1>2, <1>3, <1>4 DEF Edit
<1>6. [gui.config EXCEPT !.op = edited] \in Config
    BY <1>1 DEF Config
<1> QED BY <1>5, <1>6 DEF Window

LEMMA ClicksType ==
    ASSUME HistoryOK, Click
    PROVE  clicks' \in 0 .. MaxClicks
    BY ConstantsAssumption DEF HistoryOK, Click

LEMMA UserType ==
    ASSUME FilesOK, gui \in Window, WorldOK, HistoryOK, User
    PROVE  FilesOK' /\ gui' \in Window /\ WorldOK' /\ HistoryOK'
<1>1. User => clicks' \in 0 .. MaxClicks
    BY ClicksType DEF User, Edit, TypePath, Load, SaveConfig, UseRecommended,
       UseOperationalProfile, ClickStart, ClickStop, ClickRestart, ClickCleanRestart,
       Relaunch, RunTool, Interrupt
<1>2. CASE Edit
    <2>1. gui' \in Window BY <1>2, EditType
    <2> QED BY <1>1, <1>2, <2>1 DEF Edit, world, history, FilesOK, WorldOK, HistoryOK
<1>3. CASE TypePath
    <2>1. gui' \in Window BY <1>3 DEF TypePath, Window
    <2> QED BY <1>1, <1>3, <2>1 DEF TypePath, world, history, FilesOK, WorldOK, HistoryOK
<1>4. CASE Load
    <2>1. gui' \in Window BY <1>4, LoadedType DEF Load
    <2>2. gui'.ack \in BOOLEAN BY <2>1 DEF Window
    <2> QED BY <1>1, <1>4, <2>1, <2>2 DEF Load, world, FilesOK, WorldOK, HistoryOK
<1>5. CASE SaveConfig
    <2>1. FilesOK' BY <1>5, SaveType DEF SaveConfig
    <2> QED BY <1>1, <1>5, <2>1 DEF SaveConfig, world, history, WorldOK, HistoryOK
<1>6. CASE UseRecommended
    <2>1. PICK controls \in BOOLEAN :
              gui' = [gui EXCEPT !.config = Recommended(gui.config, controls)]
        BY <1>6 DEF UseRecommended
    <2>2. gui.config \in Config BY DEF Window
    <2>3. gui' \in Window BY <2>1, <2>2, RecommendedType DEF Window
    <2>4. FilesOK'
        <3>1. gui'.path \in Paths /\ gui'.config \in Config BY <2>3 DEF Window
        <3> QED BY <1>6, <3>1 DEF UseRecommended, Save, FilesOK
    <2> QED BY <1>1, <1>6, <2>3, <2>4 DEF UseRecommended, world, history, WorldOK, HistoryOK
<1>7. CASE UseOperationalProfile
    <2> DEFINE h == [gui EXCEPT !.path = OperationalPath]
               g == Loaded(h)
    <2>1. h \in Window BY ConstantsAssumption DEF Window
    <2>2. g \in Window BY <2>1, LoadedType
    <2> HIDE DEF g
    <2>3. /\ gui' = [g EXCEPT !.config = Recommended(g.config, TRUE)]
          /\ agreed' = (agreed \/ g.ack)
          /\ Save(gui')
        BY <1>7 DEF UseOperationalProfile, g
    <2>4. g.config \in Config /\ g.ack \in BOOLEAN BY <2>2 DEF Window
    <2>5. gui' \in Window BY <2>2, <2>3, <2>4, RecommendedType DEF Window
    <2>6. FilesOK'
        <3>1. gui'.path \in Paths /\ gui'.config \in Config BY <2>5 DEF Window
        <3> QED BY <2>3, <3>1 DEF Save, FilesOK
    <2>7. agreed' \in BOOLEAN BY <2>3, <2>4 DEF HistoryOK
    <2> QED BY <1>1, <1>7, <2>5, <2>6, <2>7
         DEF UseOperationalProfile, world, WorldOK, HistoryOK
<1>8. Unseen \subseteq SUBSET Pids /\ \A ps : Spared(ps) \subseteq SUBSET Pids
    BY RefusedType
<1>s. ASSUME NEW g \in Window, NEW killed, NEW spared \in SUBSET Pids,
             NEW owned \in SUBSET Pids, Start(g, killed, spared, owned),
             UNCHANGED <<windows, by, agreed>>
      PROVE  FilesOK' /\ gui' \in Window /\ WorldOK' /\ HistoryOK'
    <2>1. FilesOK' /\ gui' \in Window /\ WorldOK' /\ mine' \subseteq Pids /\ refused' \subseteq Pids
        BY <1>s, StartType DEF HistoryOK
    <2> QED BY <1>1, <1>s, <2>1 DEF HistoryOK
<1>9. CASE ClickStart
    <2>1. PICK unseen \in Unseen : Start(Refreshed(gui, unseen), {}, unseen, mine)
        BY <1>9 DEF ClickStart
    <2>2. Refreshed(gui, unseen) \in Window BY RefreshedType
    <2>3. unseen \in SUBSET Pids /\ mine \in SUBSET Pids BY <1>8 DEF HistoryOK
    <2>4. UNCHANGED <<windows, by, agreed>> BY <1>9 DEF ClickStart
    <2> QED BY <1>s, <2>1, <2>2, <2>3, <2>4
<1>10. CASE ClickStop
    <2>1. PICK kept \in Spared({gui.child}) :
              gui' = Stopped(gui, kept) /\ Kill({gui.child} \ kept) /\ Refuse(kept)
        BY <1>10 DEF ClickStop
    <2>2. WorldOK' BY <2>1, KillType
    <2>3. gui' \in Window BY <2>1, StoppedType
    <2>4. refused' \subseteq Pids BY <1>8, <2>1 DEF Refuse, HistoryOK
    <2> QED BY <1>1, <1>10, <2>2, <2>3, <2>4 DEF ClickStop, FilesOK, HistoryOK
<1>11. CASE ClickRestart
    <2>1. PICK unseen \in Unseen, kept \in Spared({gui.child}) :
              Start(Refreshed(Stopped(Refreshed(gui, unseen), kept), {}), {gui.child} \ kept,
                    unseen \cup kept, mine)
        BY <1>11 DEF ClickRestart
    <2>2. Refreshed(gui, unseen) \in Window BY RefreshedType
    <2>3. Refreshed(Stopped(Refreshed(gui, unseen), kept), {}) \in Window
        BY <2>2, RestoppedType
    <2>4. unseen \cup kept \in SUBSET Pids /\ mine \in SUBSET Pids BY <1>8 DEF HistoryOK
    <2>5. UNCHANGED <<windows, by, agreed>> BY <1>11 DEF ClickRestart
    <2> QED BY <1>s, <2>1, <2>3, <2>4, <2>5
<1>12. CASE ClickCleanRestart
    <2>1. PICK kept \in Spared({gui.child}), more \in Spared(Stale) :
              Start(Refreshed(Stopped(gui, kept), {}),
                    ({gui.child} \ kept) \cup (Stale \ more), kept \cup more, mine)
        BY <1>12 DEF ClickCleanRestart
    <2>2. Refreshed(Stopped(gui, kept), {}) \in Window BY RestoppedType
    <2>3. kept \cup more \in SUBSET Pids /\ mine \in SUBSET Pids BY <1>8 DEF HistoryOK
    <2>4. UNCHANGED <<windows, by, agreed>> BY <1>12 DEF ClickCleanRestart
    <2> QED BY <1>s, <2>1, <2>2, <2>3, <2>4
<1>13. CASE Relaunch
    <2>1. Fresh(DefaultPath, file[DefaultPath]) \in Window BY FreshType, ConstantsAssumption
    <2> QED BY <1>13, <1>s, <2>1 DEF Relaunch
<1>14. CASE RunTool
    <2>1. PICK p \in Pids, path \in Paths, kind \in {"test", "check", "probe"} :
              proc' = [proc EXCEPT ![p] =
                  [@ EXCEPT !.kind = kind, !.at = IF kind = "probe" THEN "probe" ELSE "load",
                               !.path = path]]
        BY <1>14 DEF RunTool
    <2>2. [proc[p] EXCEPT !.kind = kind, !.at = IF kind = "probe" THEN "probe" ELSE "load",
                          !.path = path] \in Process
        BY DEF WorldOK, Process, Running, Steps
    <2>3. proc' \in [Pids -> Process] BY <2>1, <2>2 DEF WorldOK
    <2> QED BY <1>1, <1>14, <2>3 DEF RunTool, history, FilesOK, WorldOK, HistoryOK
<1>15. CASE Interrupt
    <2>1. PICK p \in Pids : End(p, "done") BY <1>15 DEF Interrupt
    <2>2. "done" \in Running \cup Ended BY DEF Ended
    <2>3. /\ proc' \in [Pids -> Process]
          /\ port' \in Pids \cup {None} /\ endpoint' \in Pids \cup {None}
        BY <2>1, <2>2, EndType
    <2> QED BY <1>1, <1>15, <2>3 DEF Interrupt, history, FilesOK, WorldOK, HistoryOK
<1> QED BY <1>2, <1>3, <1>4, <1>5, <1>6, <1>7, <1>9, <1>10, <1>11, <1>12, <1>13, <1>14,
           <1>15 DEF User

LEMMA GuiType ==
    ASSUME gui \in Window, WorldOK, Gui
    PROVE  gui' \in Window
<1>1. CASE Refresh BY <1>1, RefreshedType DEF Refresh
<1>2. CASE PollStatus
    <2>1. CASE endpoint = None BY <1>2, <2>1 DEF PollStatus, Window
    <2>2. CASE endpoint # None
        <3>1. endpoint \in Pids BY <2>2 DEF WorldOK
        <3>2. Identity(endpoint) \in Status
            BY <3>1 DEF WorldOK, Process, Status, Identity
        <3> QED BY <1>2, <2>2, <3>2 DEF PollStatus, Window
    <2> QED BY <2>1, <2>2
<1>3. CASE Verified BY <1>3 DEF Verified, Window
<1> QED BY <1>1, <1>2, <1>3 DEF Gui

(* One process's steps.                                                    *)
LEMMA ProcessType ==
    ASSUME FilesOK, WorldOK, NEW p \in Pids,
           Bridge(p) \/ Command(p) \/ Test(p)
    PROVE  WorldOK'
<1>0. proc[p] \in Process BY DEF WorldOK
<1>1. CASE LoadFile(p)
    <2>1. PICK cfg \in Config, at \in Running \cup Ended :
              proc' = [proc EXCEPT ![p].at = at, ![p].config = cfg]
        <3>1. file[proc[p].path] \in Config BY <1>0 DEF Process, FilesOK
        <3> QED BY <1>1, <3>1 DEF LoadFile, Running, Steps, Ended
    <2>2. [proc[p] EXCEPT !.at = at, !.config = cfg] \in Process
        BY <1>0 DEF Process
    <2>3. proc' \in [Pids -> Process] BY <2>1, <2>2 DEF WorldOK
    <2> QED BY <1>1, <2>3 DEF LoadFile, WorldOK
<1>2. CASE PreflightOpen(p)
    <2>1. [proc[p] EXCEPT !.at = "polling"] \in Process BY <1>0 DEF Process, Running
    <2>2. CASE port = None
        <3>1. proc' \in [Pids -> Process] BY <1>2, <2>1, <2>2 DEF PreflightOpen, WorldOK
        <3> QED BY <1>2, <2>2, <3>1 DEF PreflightOpen, WorldOK
    <2>3. CASE port # None
        <3>1. End(p, "failed") BY <1>2, <2>3 DEF PreflightOpen
        <3>2. /\ proc' \in [Pids -> Process]
              /\ port' \in Pids \cup {None} /\ endpoint' \in Pids \cup {None}
            BY <3>1, EndType DEF Ended
        <3> QED BY <1>2, <3>2 DEF PreflightOpen, WorldOK
    <2> QED BY <2>2, <2>3
<1>3. CASE PreflightEnds(p)
    <2>1. PICK at \in {"up", "failed"} : End(p, at) BY <1>3 DEF PreflightEnds
    <2>2. at \in Running \cup Ended BY DEF Running, Ended
    <2>3. /\ proc' \in [Pids -> Process]
          /\ port' \in Pids \cup {None} /\ endpoint' \in Pids \cup {None}
        BY <2>1, <2>2, EndType
    <2> QED BY <1>3, <2>3 DEF PreflightEnds, WorldOK
<1>4. CASE DriverOpen(p) BY <1>4 DEF DriverOpen, WorldOK
<1>5. CASE BindMetrics(p)
    <2>1. \A m \in {"bound", "gone"} : [proc[p] EXCEPT !.metrics = m] \in Process
        BY <1>0 DEF Process
    <2>2. proc' \in [Pids -> Process]
        BY <1>5, <2>1 DEF BindMetrics, WorldOK
    <2> QED BY <1>5, <2>2 DEF BindMetrics, WorldOK
<1>6. CASE Command(p) BY <1>6 DEF Command, WorldOK
<1>7. CASE TestOpen(p)
    <2>1. CASE port = None BY <1>7, <2>1 DEF TestOpen, WorldOK
    <2>2. CASE port # None
        <3>1. End(p, "failed") BY <1>7, <2>2 DEF TestOpen
        <3>2. /\ proc' \in [Pids -> Process]
              /\ port' \in Pids \cup {None} /\ endpoint' \in Pids \cup {None}
            BY <3>1, EndType DEF Ended
        <3> QED BY <1>7, <3>2 DEF TestOpen, WorldOK
    <2> QED BY <2>1, <2>2
<1>8. CASE TestSend(p)
    <2>1. PICK at \in Running \cup Ended : proc' = [proc EXCEPT ![p].at = at]
        BY <1>8 DEF TestSend, Onward, AfterTest, AfterCheck, Steps, Running, Ended
    <2>2. [proc[p] EXCEPT !.at = at] \in Process BY <1>0 DEF Process
    <2>3. proc' \in [Pids -> Process] BY <2>1, <2>2 DEF WorldOK
    <2>4. amp' \in BOOLEAN BY <1>8 DEF TestSend, WorldOK
    <2> QED BY <1>8, <2>3, <2>4 DEF TestSend, WorldOK
<1>9. CASE TestFails(p)
    <2>1. /\ proc' \in [Pids -> Process]
          /\ port' \in Pids \cup {None} /\ endpoint' \in Pids \cup {None}
        BY <1>9, EndType DEF TestFails, Ended
    <2> QED BY <1>9, <2>1 DEF TestFails, WorldOK
<1>10. CASE ProbeSend(p)
    <2>1. /\ proc' \in [Pids -> Process]
          /\ port' \in Pids \cup {None} /\ endpoint' \in Pids \cup {None}
        BY <1>10, EndType DEF ProbeSend, Ended
    <2>2. amp' \in BOOLEAN BY <1>10 DEF ProbeSend, WorldOK
    <2> QED BY <2>1, <2>2 DEF WorldOK
<1> QED BY <1>1, <1>2, <1>3, <1>4, <1>5, <1>6, <1>7, <1>8, <1>9, <1>10 DEF Bridge, Test

LEMMA TypeInit == Init => TypeOK
<1> SUFFICES ASSUME Init PROVE TypeOK OBVIOUS
<1>1. FilesOK BY ConstantsAssumption DEF Init, FilesOK
<1>2. gui \in Window BY <1>1, FreshType, ConstantsAssumption DEF Init
<1>3. Unused \in Process BY ConstantsAssumption DEF Unused, Process
<1>4. WorldOK BY <1>3 DEF Init, WorldOK
<1>5. 0 \in 0 .. MaxClicks BY ConstantsAssumption
<1>6. HistoryOK BY <1>5 DEF Init, HistoryOK
<1> QED BY <1>1, <1>2, <1>4, <1>6, TypeParts

LEMMA TypeStep == TypeOK /\ [Next]_vars => TypeOK'
<1> SUFFICES ASSUME TypeOK, [Next]_vars PROVE TypeOK' OBVIOUS
<1>0. FilesOK /\ gui \in Window /\ WorldOK /\ HistoryOK BY TypeParts
<1>q. FilesOK' /\ gui' \in Window /\ WorldOK' /\ HistoryOK' => TypeOK'
    BY DEF TypeOK, FilesOK, WorldOK, HistoryOK
<1>1. CASE User BY <1>0, <1>q, <1>1, UserType
<1>2. CASE Gui
    <2>1. gui' \in Window BY <1>0, <1>2, GuiType
    <2>2. UNCHANGED <<windows, file, world, mine, by, agreed>>
        BY <1>2 DEF Gui, Refresh, PollStatus, Verified, history
    <2>3. clicks' \in 0 .. MaxClicks
        BY <1>0, <1>2, ConstantsAssumption DEF Gui, Refresh, PollStatus, Verified, HistoryOK
    <2>4. refused' \subseteq Pids
        BY <1>0, <1>2, RefusedType DEF Gui, Refresh, PollStatus, Verified, Refuse, history, HistoryOK
    <2> QED BY <1>0, <1>q, <2>1, <2>2, <2>3, <2>4 DEF world, FilesOK, WorldOK, HistoryOK
<1>3. ASSUME NEW p \in Pids, Bridge(p) \/ Command(p) \/ Test(p) PROVE TypeOK'
    <2>1. WorldOK' BY <1>0, <1>3, ProcessType
    <2>2. UNCHANGED <<windows, file, gui, clicks, mine, agreed, refused>>
        BY <1>3 DEF Bridge, Command, Test, LoadFile, PreflightOpen, PreflightEnds, DriverOpen,
           BindMetrics, TestOpen, TestSend, ProbeSend, TestFails, history
    <2>3. by' \in Pids \cup {None}
        BY <1>0, <1>3 DEF Bridge, Command, Test, LoadFile, PreflightOpen, PreflightEnds,
           DriverOpen, BindMetrics, TestOpen, TestSend, ProbeSend, TestFails, history, HistoryOK
    <2> QED BY <1>0, <1>q, <2>1, <2>2, <2>3 DEF FilesOK, HistoryOK
<1>4. CASE UNCHANGED vars
    BY <1>0, <1>q, <1>4 DEF vars, world, history, FilesOK, WorldOK, HistoryOK
<1> QED BY <1>1, <1>2, <1>3, <1>4 DEF Next

(* Types of every variable of the station, for any number of processes,    *)
(* files and clicks.                                                       *)
THEOREM TypeCorrect == Spec => []TypeOK
    BY TypeInit, TypeStep, PTL DEF Spec

-----------------------------------------------------------------------------
(* No bridge is lost.                                                      *)

(* What the GUI started are bridges; so a test is none of them.            *)
OwnBridges == \A p \in mine : proc[p].kind = "bridge"

LEMMA OwnBridgesStep == TypeOK /\ OwnBridges /\ [Next]_vars => OwnBridges'
<1> SUFFICES ASSUME TypeOK, OwnBridges, [Next]_vars PROVE OwnBridges' OBVIOUS
<1>0. WorldOK /\ HistoryOK /\ None # "bridge" /\ mine \subseteq Pids
    BY TypeParts, ConstantsAssumption DEF HistoryOK
<1>a. ASSUME \A p \in mine' : p \in mine /\ proc'[p].kind = proc[p].kind
      PROVE  OwnBridges'
    BY <1>a DEF OwnBridges
<1>1. ASSUME NEW killed, Kill(killed), mine' \subseteq mine PROVE OwnBridges'
    BY <1>0, <1>1, <1>a DEF Kill, WorldOK, Process
<1>2. ASSUME NEW g, NEW killed, NEW spared, NEW owned \in SUBSET mine,
             Start(g, killed, spared, owned)
      PROVE  OwnBridges'
    <2>1. ASSUME NEW gone, Kill(gone), mine' = owned PROVE OwnBridges' BY <1>1, <2>1
    <2>2. ASSUME NEW q \in Pids, NEW gone, Spawn(q, g, gone, owned) PROVE OwnBridges'
        BY <1>0, <2>2 DEF Spawn, Unused, OwnBridges, WorldOK, Process
    <2> QED BY <1>2, <2>1, <2>2 DEF Start
<1>3. CASE ClickStart BY <1>2, <1>3 DEF ClickStart
<1>4. CASE ClickStop BY <1>1, <1>4 DEF ClickStop
<1>5. CASE ClickRestart BY <1>2, <1>5 DEF ClickRestart
<1>6. CASE ClickCleanRestart BY <1>2, <1>6 DEF ClickCleanRestart
<1>7. CASE Relaunch
    BY <1>2, <1>7 DEF Relaunch
<1>8. CASE RunTool
    <2>1. PICK q \in Pids, path \in Paths, kind \in {"test", "check", "probe"} :
              /\ proc[q] = Unused
              /\ proc' = [proc EXCEPT ![q] =
                     [@ EXCEPT !.kind = kind, !.at = IF kind = "probe" THEN "probe" ELSE "load",
                               !.path = path]]
        BY <1>8 DEF RunTool
    <2>2. q \notin mine BY <1>0, <2>1 DEF OwnBridges, Unused
    <2> QED BY <1>0, <1>8, <1>a, <2>1, <2>2 DEF RunTool, history, WorldOK
<1>9. CASE Interrupt
    BY <1>0, <1>9, <1>a DEF Interrupt, End, history, WorldOK, Process
<1>10. ASSUME UNCHANGED <<mine, proc>> PROVE OwnBridges'
    BY <1>10 DEF OwnBridges
<1>11. CASE Edit \/ TypePath \/ Load \/ SaveConfig \/ UseRecommended \/ UseOperationalProfile
    BY <1>10, <1>11 DEF Edit, TypePath, Load, SaveConfig, UseRecommended,
       UseOperationalProfile, world, history
<1>12. CASE Gui BY <1>10, <1>12 DEF Gui, Refresh, PollStatus, Verified, world, history
<1>13. ASSUME NEW p \in Pids, Bridge(p) \/ Command(p) \/ Test(p) PROVE OwnBridges'
    <2>1. mine' = mine
        BY <1>13 DEF Bridge, Command, Test, LoadFile, PreflightOpen, PreflightEnds, DriverOpen,
           BindMetrics, TestOpen, TestSend, ProbeSend, TestFails, history
    <2>2. \A q \in Pids : proc'[q].kind = proc[q].kind
        BY <1>0, <1>13 DEF Bridge, Command, Test, LoadFile, PreflightOpen, PreflightEnds,
           DriverOpen, BindMetrics, TestOpen, TestSend, ProbeSend, TestFails, End, WorldOK, Process
    <2> QED BY <1>0, <1>a, <2>1, <2>2
<1>14. CASE UNCHANGED vars BY <1>10, <1>14 DEF vars, world, history
<1> QED BY <1>3, <1>4, <1>5, <1>6, <1>7, <1>8, <1>9, <1>11, <1>12, <1>13, <1>14
     DEF Next, User

(* A step of the processes starts none, and leaves the GUI alone.          *)
LEMMA OnlyEnds ==
    ASSUME TypeOK, NEW killed, Kill(killed), NEW p \in Pids, Alive(p)'
    PROVE  Alive(p) /\ p \notin killed
    BY DEF TypeOK, Kill, Alive, Running, Steps

LEMMA ProcessesOnlyRun ==
    ASSUME TypeOK, NEW p \in Pids, Bridge(p) \/ Command(p) \/ Test(p),
           NEW q \in Pids, Alive(q)'
    PROVE  Alive(q)
<1>0. proc \in [Pids -> Process] BY DEF TypeOK
<1>1. proc' = proc \/ Alive(p)
    BY DEF Bridge, Command, Test, LoadFile, PreflightOpen, PreflightEnds, DriverOpen,
       BindMetrics, TestOpen, TestSend, ProbeSend, TestFails, End, Alive, Running, Steps,
       Switches
<1>2. \A r \in Pids \ {p} : proc'[r] = proc[r]
    BY <1>0 DEF Bridge, Command, Test, LoadFile, PreflightOpen, PreflightEnds, DriverOpen,
       BindMetrics, TestOpen, TestSend, ProbeSend, TestFails, End
<1> QED BY <1>1, <1>2 DEF Alive

(* Who is alive after a start was alive, and not killed, or is new.        *)
LEMMA SpawnOnlyEnds ==
    ASSUME TypeOK, NEW g, NEW gone, NEW owned, NEW q \in Pids, Spawn(q, g, gone, owned),
           NEW p \in Pids, p # q, Alive(p)'
    PROVE  Alive(p) /\ p \notin gone
    BY DEF Spawn, Alive, TypeOK, Running, Steps

(* One start: a bridge that still runs and is not spared is the one beside *)
(* which none is started, or the new one.                                  *)
LEMMA StartKeeps ==
    ASSUME TypeOK, NEW g \in Window, NEW killed, NEW spared \in SUBSET Pids,
           NEW owned \in SUBSET Pids, Start(g, killed, spared, owned),
           \A p \in owned \ (refused \cup spared) :
               Alive(p) => p \in killed \/ (g.child = p /\ g.shown = "Running")
    PROVE  NoBridgeLost'
<1> SUFFICES ASSUME NEW p \in Pids, p \in mine', p \notin refused', Alive(p)'
             PROVE  gui'.child = p
    <2>0. FilesOK /\ WorldOK /\ refused \subseteq Pids BY TypeParts DEF HistoryOK
    <2>1. mine' \subseteq Pids BY <2>0, StartType
    <2> QED BY <2>1 DEF NoBridgeLost
<1>1. CASE gui' = g /\ Kill(killed) /\ Refuse(spared) /\ mine' = owned /\ UNCHANGED file
    <2>1. Alive(p) /\ p \notin killed BY <1>1, OnlyEnds
    <2>2. p \notin refused \cup spared BY <1>1 DEF Refuse
    <2> QED BY <1>1, <2>1, <2>2
<1>2. ASSUME NEW more, NEW gone, g.shown # "Running", killed \subseteq gone,
             Refuse(spared \cup more),
             \/ \E q \in Pids : Spawn(q, g, gone, owned)
             \/ gui' = g /\ Save(g) /\ Kill(gone) /\ mine' = owned
      PROVE  gui'.child = p
    <2>1. p \notin refused \cup spared BY <1>2 DEF Refuse
    <2>2. CASE \E q \in Pids : Spawn(q, g, gone, owned)
        <3>1. PICK q \in Pids : Spawn(q, g, gone, owned) BY <2>2
        <3>2. gui'.child = q BY <3>1 DEF Spawn, Window
        <3>3. CASE p # q
            <4>1. p \in owned BY <3>1, <3>3 DEF Spawn
            <4>2. Alive(p) /\ p \notin gone BY <3>1, <3>3, SpawnOnlyEnds
            <4> QED BY <1>2, <2>1, <4>1, <4>2
        <3> QED BY <3>2, <3>3
    <2>3. CASE gui' = g /\ Save(g) /\ Kill(gone) /\ mine' = owned
        <3>1. Alive(p) /\ p \notin gone BY <2>3, OnlyEnds
        <3> QED BY <1>2, <2>1, <2>3, <3>1
    <2> QED BY <1>2, <2>2, <2>3
<1> QED BY <1>1, <1>2 DEF Start

(* A child that is seen to run is shown to.                                *)
LEMMA RefreshedKeepsChild ==
    ASSUME gui \in Window, NEW unseen, NEW p \in Pids, Alive(p), gui.child = p
    PROVE  /\ Refreshed(gui, unseen).child = p
           /\ p \notin unseen => Refreshed(gui, unseen).shown = "Running"
    BY ConstantsAssumption DEF Refreshed, Window

LEMMA NoBridgeLostStep ==
    TypeOK /\ OwnBridges /\ NoBridgeLost /\ [Next]_vars => NoBridgeLost'
<1> SUFFICES ASSUME TypeOK, OwnBridges, NoBridgeLost, [Next]_vars PROVE NoBridgeLost' OBVIOUS
<1>0. /\ FilesOK /\ gui \in Window /\ WorldOK /\ HistoryOK
      /\ mine \in SUBSET Pids
    BY TypeParts DEF HistoryOK
<1>a. ASSUME gui'.child = gui.child, mine' = mine, refused \subseteq refused',
             \A p \in Pids : Alive(p)' => Alive(p)
      PROVE  NoBridgeLost'
    BY <1>0, <1>a DEF NoBridgeLost
<1>b. ASSUME gui'.child = gui.child, mine' = mine, refused' = refused, UNCHANGED proc
      PROVE  NoBridgeLost'
    BY <1>a, <1>b DEF Alive
<1>1. CASE Edit BY <1>0, <1>1, <1>b DEF Edit, world, history, Window
<1>2. CASE TypePath BY <1>0, <1>2, <1>b DEF TypePath, world, history, Window
<1>3. CASE Load BY <1>0, <1>3, <1>b DEF Load, Loaded, world, history, Window
<1>4. CASE SaveConfig BY <1>0, <1>4, <1>b DEF SaveConfig, world, history
<1>5. CASE UseRecommended
    BY <1>0, <1>5, <1>b DEF UseRecommended, world, history, Window
<1>6. CASE UseOperationalProfile
    <2> DEFINE h == [gui EXCEPT !.path = OperationalPath]
    <2>1. h \in Window /\ h.child = gui.child BY <1>0, ConstantsAssumption DEF Window
    <2>2. Loaded(h) \in Window /\ Loaded(h).child = gui.child
        BY <1>0, <2>1, LoadedType DEF Loaded, Window
    <2> HIDE DEF h
    <2>3. gui' = [Loaded(h) EXCEPT !.config = Recommended(Loaded(h).config, TRUE)]
        BY <1>6 DEF UseOperationalProfile, h
    <2>4. gui'.child = gui.child BY <2>2, <2>3 DEF Window
    <2> QED BY <1>6, <1>b, <2>4 DEF UseOperationalProfile, world
<1>8. Unseen \subseteq SUBSET Pids /\ \A ps : Spared(ps) \subseteq SUBSET Pids
    BY <1>0, RefusedType
<1>9. \A p \in mine \ refused : Alive(p) => p = gui.child BY DEF NoBridgeLost
<1>7. CASE ClickStart
    <2>1. PICK unseen \in Unseen : Start(Refreshed(gui, unseen), {}, unseen, mine)
        BY <1>7 DEF ClickStart
    <2>2. Refreshed(gui, unseen) \in Window BY <1>0, RefreshedType
    <2>3. ASSUME NEW p \in mine \ (refused \cup unseen), Alive(p)
          PROVE  Refreshed(gui, unseen).child = p /\ Refreshed(gui, unseen).shown = "Running"
        <3>1. p \in Pids /\ gui.child = p BY <1>0, <1>9, <2>3
        <3> QED BY <1>0, <2>3, <3>1, RefreshedKeepsChild
    <2>4. unseen \in SUBSET Pids BY <1>8
    <2> HIDE DEF Refreshed
    <2> QED BY <1>0, <2>1, <2>2, <2>3, <2>4, StartKeeps
<1>10. CASE ClickStop
    <2>1. PICK kept \in Spared({gui.child}) : Kill({gui.child} \ kept) /\ Refuse(kept)
        BY <1>10 DEF ClickStop
    <2>2. SUFFICES ASSUME NEW p \in Pids, p \in mine, p \notin refused', Alive(p)' PROVE FALSE
        BY <1>0, <1>10 DEF ClickStop, NoBridgeLost
    <2>3. p \notin refused /\ p \notin kept BY <2>1, <2>2 DEF Refuse
    <2>4. Alive(p) /\ p \notin {gui.child} \ kept BY <2>1, <2>2, OnlyEnds
    <2> QED BY <1>9, <2>2, <2>3, <2>4
<1>11. CASE ClickRestart
    <2>1. PICK unseen \in Unseen, kept \in Spared({gui.child}) :
              Start(Refreshed(Stopped(Refreshed(gui, unseen), kept), {}), {gui.child} \ kept,
                    unseen \cup kept, mine)
        BY <1>11 DEF ClickRestart
    <2>2. Refreshed(gui, unseen) \in Window BY <1>0, RefreshedType
    <2>3. Refreshed(Stopped(Refreshed(gui, unseen), kept), {}) \in Window
        BY <2>2, RestoppedType
    <2>4. \A p \in mine \ (refused \cup (unseen \cup kept)) : Alive(p) => p \in {gui.child} \ kept
        BY <1>9
    <2>5. unseen \cup kept \in SUBSET Pids BY <1>8
    <2> QED BY <1>0, <2>1, <2>3, <2>4, <2>5, StartKeeps
<1>12. CASE ClickCleanRestart
    <2>1. PICK kept \in Spared({gui.child}), more \in Spared(Stale) :
              Start(Refreshed(Stopped(gui, kept), {}),
                    ({gui.child} \ kept) \cup (Stale \ more), kept \cup more, mine)
        BY <1>12 DEF ClickCleanRestart
    <2>2. Refreshed(Stopped(gui, kept), {}) \in Window BY <1>0, RestoppedType
    <2>3. \A p \in mine \ (refused \cup (kept \cup more)) :
              Alive(p) => p \in ({gui.child} \ kept) \cup (Stale \ more)
        BY <1>9
    <2>4. kept \cup more \in SUBSET Pids BY <1>8
    <2> QED BY <1>0, <2>1, <2>2, <2>3, <2>4, StartKeeps
<1>13. CASE Relaunch
    <2>1. Fresh(DefaultPath, file[DefaultPath]) \in Window
        BY <1>0, FreshType, ConstantsAssumption
    <2> QED BY <1>13, <2>1, StartKeeps DEF Relaunch
<1>14. CASE RunTool
    <2>1. PICK q \in Pids, path \in Paths, kind \in {"test", "check", "probe"} :
              /\ proc[q] = Unused
              /\ proc' = [proc EXCEPT ![q] =
                     [@ EXCEPT !.kind = kind, !.at = IF kind = "probe" THEN "probe" ELSE "load",
                               !.path = path]]
        BY <1>14 DEF RunTool
    <2>2. q \notin mine BY <2>1, ConstantsAssumption DEF OwnBridges, Unused
    <2>3. gui' = gui /\ mine' = mine /\ refused' = refused BY <1>14 DEF RunTool, history
    <2>4. \A p \in mine : proc'[p] = proc[p] BY <1>0, <2>1, <2>2 DEF WorldOK
    <2> QED BY <2>3, <2>4 DEF NoBridgeLost, Alive
<1>15. CASE Interrupt
    <2>1. \A p \in Pids : Alive(p)' => Alive(p)
        BY <1>0, <1>15 DEF Interrupt, End, Alive, Running, WorldOK
    <2> QED BY <1>15, <1>a, <2>1 DEF Interrupt, history
<1>16. CASE Refresh
    <2>1. PICK unseen \in Unseen : gui' = Refreshed(gui, unseen) /\ Refuse(unseen)
        BY <1>16 DEF Refresh
    <2>2. \A p \in Pids : Alive(p) /\ gui.child = p => gui'.child = p
        BY <1>0, <2>1, RefreshedKeepsChild
    <2>3. refused \subseteq refused' BY <2>1 DEF Refuse
    <2>4. UNCHANGED <<proc, mine>> BY <1>16 DEF Refresh, world
    <2> QED BY <1>0, <1>9, <2>2, <2>3, <2>4 DEF NoBridgeLost, Alive
<1>17. CASE PollStatus BY <1>0, <1>17, <1>b DEF PollStatus, world, history, Window
<1>18. CASE Verified BY <1>0, <1>18, <1>b DEF Verified, world, history, Window
<1>19. ASSUME NEW p \in Pids, Bridge(p) \/ Command(p) \/ Test(p) PROVE NoBridgeLost'
    <2>1. gui' = gui /\ mine' = mine /\ refused' = refused
        BY <1>19 DEF Bridge, Command, Test, LoadFile, PreflightOpen, PreflightEnds, DriverOpen,
           BindMetrics, TestOpen, TestSend, ProbeSend, TestFails, history
    <2> QED BY <1>19, <1>a, <2>1, ProcessesOnlyRun
<1>20. CASE UNCHANGED vars BY <1>20, <1>b DEF vars, world, history
<1> QED BY <1>1, <1>2, <1>3, <1>4, <1>5, <1>6, <1>7, <1>10, <1>11, <1>12, <1>13, <1>14, <1>15,
           <1>16, <1>17, <1>18, <1>19, <1>20 DEF Next, User, Gui

(* Whatever is clicked, and whenever a bridge ends: one that the GUI       *)
(* started and that still runs is its child, unless the system refused to  *)
(* end it or to say whether it runs; however often it refuses.             *)
THEOREM BridgesKept == Spec => []NoBridgeLost
<1>1. Init => OwnBridges /\ NoBridgeLost BY DEF Init, OwnBridges, NoBridgeLost
<1> QED BY <1>1, TypeInit, TypeStep, OwnBridgesStep, NoBridgeLostStep, PTL DEF Spec

-----------------------------------------------------------------------------
(* allow_rf_risk is agreed to.                                             *)

(* A configuration that may be run: real controls are confirmed in it, or  *)
(* the user has loaded a file with allow_rf_risk.                          *)
Fit(cfg) == CanSend(cfg).operate => agreed \/ Confirmed(cfg)
(* What the GUI holds as acknowledged was loaded, and what a bridge of its *)
(* own loads, or has loaded, is fit.                                       *)
RfInv ==
    /\ gui.ack => agreed
    /\ \A p \in Pids :
           proc[p].kind = "bridge" /\ proc[p].at = "load" => Fit(file[proc[p].path])
    /\ \A p \in Pids :
           proc[p].kind = "bridge" /\ proc[p].config # None => Fit(proc[p].config)

(* What is saved is fit; so is what was fit before.                        *)
LEMMA SaveFits ==
    ASSUME TypeOK, NEW g \in Window, Save(g), g.ack => agreed', agreed => agreed',
           NEW path \in Paths, Fit(file[path]) \/ (Saveable(g) /\ path = g.path)
    PROVE  Fit(file[path])'
<1>1. CASE Saveable(g) /\ path = g.path
    <2>1. file'[path] = g.config BY <1>1 DEF Save, TypeOK
    <2>2. g.config.kpa.rf => agreed' BY <1>1 DEF Saveable, Acknowledged
    <2>3. CanSend(g.config).operate => agreed' \/ Confirmed(g.config)
        BY <2>2, OperateNeeds
    <2> QED BY <2>1, <2>3 DEF Fit
<1>2. CASE ~(Saveable(g) /\ path = g.path)
    <2>1. file'[path] = file[path] BY <1>2 DEF Save, TypeOK
    <2> QED BY <1>2, <2>1 DEF Fit
<1> QED BY <1>1, <1>2

(* The processes are left alone, or only end.                              *)
LEMMA FitKept ==
    ASSUME TypeOK, RfInv, agreed => agreed', gui'.ack => agreed',
           \A p \in Pids : /\ proc'[p].kind = proc[p].kind
                           /\ proc'[p].config = proc[p].config
                           /\ proc'[p].path = proc[p].path
                           /\ proc'[p].at = "load" => proc[p].at = "load",
           \A path \in Paths : Fit(file[path]) => Fit(file[path])'
    PROVE  RfInv'
<1>1. \A p \in Pids : proc[p].path \in Paths BY DEF TypeOK, Process
<1>2. ASSUME NEW p \in Pids, proc'[p].kind = "bridge", proc'[p].at = "load"
      PROVE  Fit(file[proc[p].path])'
    <2>1. Fit(file[proc[p].path]) BY <1>2 DEF RfInv
    <2>2. Fit(file[proc[p].path])' BY <1>1, <2>1
    <2> QED BY <2>2
<1>3. ASSUME NEW p \in Pids, proc'[p].kind = "bridge", proc'[p].config # None
      PROVE  Fit(proc[p].config)'
    <2>1. Fit(proc[p].config) BY <1>3 DEF RfInv
    <2> QED BY <2>1 DEF Fit
<1> QED BY <1>2, <1>3 DEF RfInv

LEMMA KillKeepsFit ==
    ASSUME TypeOK, RfInv, NEW killed, Kill(killed), UNCHANGED <<file, agreed>>,
           gui'.ack => agreed'
    PROVE  RfInv'
<1>1. \A p \in Pids : /\ proc'[p].kind = proc[p].kind
                      /\ proc'[p].config = proc[p].config
                      /\ proc'[p].path = proc[p].path
                      /\ proc'[p].at = "load" => proc[p].at = "load"
    BY DEF Kill, TypeOK, Process
<1>2. \A path \in Paths : Fit(file[path]) => Fit(file[path])' BY DEF Fit
<1> QED BY <1>1, <1>2, FitKept

LEMMA StartFits ==
    ASSUME TypeOK, RfInv, NEW g \in Window, NEW stopped, NEW spared, NEW owned \in SUBSET Pids,
           Start(g, stopped, spared, owned), g.ack => agreed, agreed' = agreed
    PROVE  RfInv'
<1>1. CASE gui' = g /\ Kill(stopped) /\ UNCHANGED file
    BY <1>1, KillKeepsFit
<1>3. ASSUME NEW gone, Saveable(g), gui' = g, Save(g), Kill(gone) PROVE RfInv'
    <2>1. \A path \in Paths : Fit(file[path]) => Fit(file[path])' BY <1>3, SaveFits
    <2>2. \A p \in Pids : /\ proc'[p].kind = proc[p].kind
                          /\ proc'[p].config = proc[p].config
                          /\ proc'[p].path = proc[p].path
                          /\ proc'[p].at = "load" => proc[p].at = "load"
        BY <1>3 DEF Kill, TypeOK, Process
    <2> QED BY <1>3, <2>1, <2>2, FitKept
<1>2. ASSUME NEW q \in Pids, NEW killed, Saveable(g), Spawn(q, g, killed, owned)
      PROVE  RfInv'
    <2>0. Save(g) BY <1>2 DEF Spawn
    <2>1. \A path \in Paths : Fit(file[path]) => Fit(file[path])' BY <2>0, SaveFits
    <2>2. g.path \in Paths BY DEF Window
    <2>3. Fit(file[g.path])' BY <1>2, <2>0, <2>2, SaveFits
    <2>4. gui'.ack => agreed' BY <1>2 DEF Spawn, Window
    <2>5. /\ proc'[q].at = "load" /\ proc'[q].path = g.path /\ proc'[q].config = None
          /\ \A p \in Pids \ {q} : /\ proc'[p].kind = proc[p].kind
                                   /\ proc'[p].config = proc[p].config
                                   /\ proc'[p].path = proc[p].path
                                   /\ proc'[p].at = "load" => proc[p].at = "load"
        BY <1>2 DEF Spawn, Unused, TypeOK, Process
    <2>6. \A p \in Pids : proc[p].path \in Paths BY DEF TypeOK, Process
    <2>7. ASSUME NEW p \in Pids, proc'[p].kind = "bridge", proc'[p].at = "load"
          PROVE  Fit(file[proc[p].path])'
        <3>1. CASE p = q BY <2>3, <2>5, <3>1
        <3>2. CASE p # q
            <4>1. Fit(file[proc[p].path]) BY <2>5, <2>7, <3>2 DEF RfInv
            <4>2. proc'[p].path = proc[p].path BY <2>5, <3>2
            <4>3. \A path \in Paths : path = proc[p].path => Fit(file[path])' BY <2>1, <4>1
            <4> QED BY <2>6, <4>2, <4>3
        <3> QED BY <3>1, <3>2
    <2>8. ASSUME NEW p \in Pids, proc'[p].kind = "bridge", proc'[p].config # None
          PROVE  Fit(proc[p].config)'
        <3>1. p # q BY <2>5, <2>8
        <3>2. Fit(proc[p].config) BY <2>5, <2>8, <3>1 DEF RfInv
        <3>3. proc'[p].config = proc[p].config BY <2>5, <3>1
        <3> QED BY <3>2, <3>3 DEF Fit
    <2> QED BY <2>4, <2>7, <2>8 DEF RfInv
<1> QED BY <1>1, <1>2, <1>3 DEF Start

LEMMA RfStep == TypeOK /\ RfInv /\ [Next]_vars => RfInv'
<1> SUFFICES ASSUME TypeOK, RfInv, [Next]_vars PROVE RfInv' OBVIOUS
<1>0. FilesOK /\ gui \in Window /\ WorldOK /\ HistoryOK /\ mine \in SUBSET Pids
    BY TypeParts DEF HistoryOK
<1>a. gui.ack => agreed BY DEF RfInv
<1>b. ASSUME UNCHANGED <<proc, file>>, agreed => agreed', gui'.ack => agreed'
      PROVE  RfInv'
    <2>1. \A path \in Paths : Fit(file[path]) => Fit(file[path])' BY <1>b DEF Fit
    <2> QED BY <1>b, <2>1, FitKept
<1>c. ASSUME UNCHANGED proc, agreed => agreed', gui'.ack => agreed',
             NEW g \in Window, Save(g), g.ack => agreed'
      PROVE  RfInv'
    <2>1. \A path \in Paths : Fit(file[path]) => Fit(file[path])' BY <1>c, SaveFits
    <2> QED BY <1>c, <2>1, FitKept
<1>1. CASE Edit BY <1>0, <1>a, <1>1, <1>b DEF Edit, world, history, Window
<1>2. CASE TypePath BY <1>0, <1>a, <1>2, <1>b DEF TypePath, world, history, Window
<1>3. CASE Load
    <2>1. agreed => agreed' /\ (gui'.ack => agreed') BY <1>3 DEF Load
    <2> QED BY <1>3, <1>b, <2>1 DEF Load, world
<1>4. CASE SaveConfig
    BY <1>0, <1>a, <1>4, <1>c DEF SaveConfig, world, history
<1>5. CASE UseRecommended
    <2>1. gui' \in Window BY <1>0, <1>5, UserType DEF User
    <2>2. gui'.ack = gui.ack BY <1>0, <1>5 DEF UseRecommended, Window
    <2>3. gui'.path \in Paths /\ gui'.config \in Config BY <2>1 DEF Window
    <2>4. ~gui'.config.kpa.rf BY <1>0, <1>5 DEF UseRecommended, Recommended, Safe, Window
    <2>5. UNCHANGED <<proc, agreed>> /\ Save(gui') BY <1>5 DEF UseRecommended, world, history
    <2>6. \A path \in Paths : Fit(file[path]) => Fit(file[path])'
        <3> TAKE path \in Paths
        <3>1. CASE Saveable(gui') /\ path = gui'.path
            <4>1. file'[path] = gui'.config BY <1>0, <2>5, <3>1 DEF Save, FilesOK
            <4>2. CanSend(gui'.config).operate => Confirmed(gui'.config)
                BY <2>4, OperateNeeds
            <4> QED BY <4>1, <4>2 DEF Fit
        <3>2. CASE ~(Saveable(gui') /\ path = gui'.path)
            <4>1. file'[path] = file[path] BY <1>0, <2>5, <3>2 DEF Save, FilesOK
            <4> QED BY <2>5, <4>1 DEF Fit
        <3> QED BY <3>1, <3>2
    <2> QED BY <1>a, <2>2, <2>5, <2>6, FitKept
<1>6. CASE UseOperationalProfile
    <2>1. gui' \in Window BY <1>0, <1>6, UserType DEF User
    <2> DEFINE h == [gui EXCEPT !.path = OperationalPath]
               g == Loaded(h)
    <2>2. h \in Window BY <1>0, ConstantsAssumption DEF Window
    <2>3. g \in Window BY <1>0, <2>2, LoadedType
    <2> HIDE DEF g
    <2>4. /\ gui' = [g EXCEPT !.config = Recommended(g.config, TRUE)]
          /\ agreed' = (agreed \/ g.ack) /\ Save(gui') /\ UNCHANGED proc
        BY <1>6 DEF UseOperationalProfile, g, world
    <2>5. gui'.ack = g.ack BY <2>3, <2>4 DEF Window
    <2>6. ~gui'.config.kpa.rf BY <2>3, <2>4 DEF Recommended, Safe, Window
    <2>7. gui'.path \in Paths /\ gui'.config \in Config BY <2>1 DEF Window
    <2>8. \A path \in Paths : Fit(file[path]) => Fit(file[path])'
        <3> TAKE path \in Paths
        <3>1. CASE Saveable(gui') /\ path = gui'.path
            <4>1. file'[path] = gui'.config BY <1>0, <2>4, <3>1 DEF Save, FilesOK
            <4>2. CanSend(gui'.config).operate => Confirmed(gui'.config)
                BY <2>6, OperateNeeds
            <4> QED BY <4>1, <4>2 DEF Fit
        <3>2. CASE ~(Saveable(gui') /\ path = gui'.path)
            <4>1. file'[path] = file[path] BY <1>0, <2>4, <3>2 DEF Save, FilesOK
            <4> QED BY <2>4, <4>1 DEF Fit
        <3> QED BY <3>1, <3>2
    <2> QED BY <2>4, <2>5, <2>8, FitKept
<1>8. ASSUME NEW unseen
      PROVE  Refreshed(gui, unseen) \in Window /\ Refreshed(gui, unseen).ack = gui.ack
    BY <1>0, RefreshedType DEF Refreshed, Window
<1>s. ASSUME NEW g \in Window, NEW killed, NEW spared, Start(g, killed, spared, mine),
             g.ack = gui.ack, agreed' = agreed
      PROVE  RfInv'
    BY <1>0, <1>a, <1>s, StartFits
<1>7. CASE ClickStart
    <2>1. PICK unseen \in Unseen : Start(Refreshed(gui, unseen), {}, unseen, mine)
        BY <1>7 DEF ClickStart
    <2>2. agreed' = agreed BY <1>7 DEF ClickStart
    <2> HIDE DEF Refreshed
    <2> QED BY <1>8, <1>s, <2>1, <2>2
<1>9. CASE ClickStop
    <2>1. PICK kept \in Spared({gui.child}) :
              gui' = Stopped(gui, kept) /\ Kill({gui.child} \ kept)
        BY <1>9 DEF ClickStop
    <2>2. gui'.ack = gui.ack BY <1>0, <2>1 DEF Stopped, Window
    <2> QED BY <1>a, <1>9, <2>1, <2>2, KillKeepsFit DEF ClickStop
<1>10. CASE ClickRestart
    <2>1. PICK unseen \in Unseen, kept \in Spared({gui.child}) :
              Start(Refreshed(Stopped(Refreshed(gui, unseen), kept), {}), {gui.child} \ kept,
                    unseen \cup kept, mine)
        BY <1>10 DEF ClickRestart
    <2> DEFINE g == Refreshed(gui, unseen)
               h == Refreshed(Stopped(g, kept), {})
    <2>2. g \in Window /\ g.ack = gui.ack BY <1>8
    <2> HIDE DEF g
    <2>3. h \in Window /\ h.ack = g.ack BY <2>2, RestoppedType
    <2>4. Start(h, {gui.child} \ kept, unseen \cup kept, mine) BY <2>1 DEF g
    <2> HIDE DEF h
    <2>5. agreed' = agreed BY <1>10 DEF ClickRestart
    <2> QED BY <1>s, <2>2, <2>3, <2>4, <2>5
<1>11. CASE ClickCleanRestart
    <2>1. PICK kept \in Spared({gui.child}), more \in Spared(Stale) :
              Start(Refreshed(Stopped(gui, kept), {}),
                    ({gui.child} \ kept) \cup (Stale \ more), kept \cup more, mine)
        BY <1>11 DEF ClickCleanRestart
    <2> DEFINE h == Refreshed(Stopped(gui, kept), {})
    <2>2. h \in Window /\ h.ack = gui.ack BY <1>0, RestoppedType
    <2>3. Start(h, ({gui.child} \ kept) \cup (Stale \ more), kept \cup more, mine) BY <2>1
    <2> HIDE DEF h
    <2>4. agreed' = agreed BY <1>11 DEF ClickCleanRestart
    <2> QED BY <1>s, <2>2, <2>3, <2>4
<1>12. CASE Relaunch
    <2>1. Fresh(DefaultPath, file[DefaultPath]) \in Window BY <1>0, FreshType, ConstantsAssumption
    <2>2. ~Fresh(DefaultPath, file[DefaultPath]).ack BY DEF Fresh
    <2> HIDE DEF Fresh
    <2> QED BY <1>12, <2>1, <2>2, StartFits DEF Relaunch
<1>13. CASE RunTool
    <2>1. PICK q \in Pids, path \in Paths, kind \in {"test", "check", "probe"} :
              proc' = [proc EXCEPT ![q] =
                  [@ EXCEPT !.kind = kind, !.at = IF kind = "probe" THEN "probe" ELSE "load",
                               !.path = path]]
        BY <1>13 DEF RunTool
    <2>2. /\ proc'[q].kind # "bridge"
          /\ \A p \in Pids \ {q} : proc'[p] = proc[p]
        BY <1>0, <2>1 DEF WorldOK, Process
    <2>3. UNCHANGED <<gui, file, agreed>> BY <1>13 DEF RunTool, history
    <2>4. ASSUME NEW p \in Pids, proc'[p].kind = "bridge" PROVE proc'[p] = proc[p]
        BY <2>2, <2>4
    <2> QED BY <2>3, <2>4 DEF RfInv, Fit
<1>14. CASE Interrupt
    <2>1. PICK q \in Pids : End(q, "done") BY <1>14 DEF Interrupt
    <2>2. \A p \in Pids : /\ proc'[p].kind = proc[p].kind
                          /\ proc'[p].config = proc[p].config
                          /\ proc'[p].path = proc[p].path
                          /\ proc'[p].at = "load" => proc[p].at = "load"
        BY <1>0, <2>1 DEF End, WorldOK, Process
    <2>3. UNCHANGED <<gui, file, agreed>> BY <1>14 DEF Interrupt, history
    <2>4. \A path \in Paths : Fit(file[path]) => Fit(file[path])' BY <2>3 DEF Fit
    <2> QED BY <1>a, <2>2, <2>3, <2>4, FitKept
<1>15. CASE Refresh
    <2>1. gui'.ack = gui.ack BY <1>8, <1>15 DEF Refresh
    <2> QED BY <1>15, <1>a, <1>b, <2>1 DEF Refresh, world
<1>16. CASE PollStatus \/ Verified
    <2>1. gui'.ack = gui.ack BY <1>0, <1>16 DEF PollStatus, Verified, Window
    <2>2. UNCHANGED <<proc, file, agreed>>
        BY <1>16 DEF PollStatus, Verified, world, history
    <2> QED BY <1>a, <1>b, <2>1, <2>2
<1>17. ASSUME NEW q \in Pids, LoadFile(q) PROVE RfInv'
    <2>1. /\ proc[q].at = "load" /\ proc'[q].at # "load"
          /\ proc'[q].config = file[proc[q].path] /\ proc'[q].kind = proc[q].kind
          /\ \A p \in Pids \ {q} : proc'[p] = proc[p]
        BY <1>0, <1>17 DEF LoadFile, WorldOK, Process
    <2>2. UNCHANGED <<gui, file, agreed>> BY <1>17 DEF LoadFile, history
    <2>3. ASSUME NEW p \in Pids, proc'[p].kind = "bridge", proc'[p].at = "load"
          PROVE  Fit(file[proc[p].path])'
        BY <2>1, <2>2, <2>3 DEF RfInv, Fit
    <2>4. ASSUME NEW p \in Pids, proc'[p].kind = "bridge", proc'[p].config # None
          PROVE  Fit(proc[p].config)'
        BY <2>1, <2>2, <2>4 DEF RfInv, Fit
    <2> QED BY <1>a, <2>2, <2>3, <2>4 DEF RfInv
<1>18. ASSUME NEW q \in Pids,
              \/ PreflightOpen(q) \/ PreflightEnds(q) \/ DriverOpen(q) \/ BindMetrics(q)
              \/ Command(q) \/ Test(q)
       PROVE  RfInv'
    <2>1. \A p \in Pids : /\ proc'[p].kind = proc[p].kind
                          /\ proc'[p].config = proc[p].config
                          /\ proc'[p].path = proc[p].path
                          /\ proc'[p].at = "load" => proc[p].at = "load"
        BY <1>0, <1>18 DEF PreflightOpen, PreflightEnds, DriverOpen, BindMetrics, Command,
           Test, TestOpen, TestSend, ProbeSend, TestFails, Onward, AfterTest, AfterCheck, End, Steps, WorldOK,
           Process
    <2>2. UNCHANGED <<gui, file, agreed>>
        BY <1>18 DEF PreflightOpen, PreflightEnds, DriverOpen, BindMetrics, Command,
           Test, TestOpen, TestSend, ProbeSend, TestFails, history
    <2>3. \A path \in Paths : Fit(file[path]) => Fit(file[path])' BY <2>2 DEF Fit
    <2> QED BY <1>a, <2>1, <2>2, <2>3, FitKept
<1>19. CASE UNCHANGED vars BY <1>19, <1>a, <1>b DEF vars, world, history
<1> QED BY <1>1, <1>2, <1>3, <1>4, <1>5, <1>6, <1>7, <1>9, <1>10, <1>11, <1>12, <1>13, <1>14,
           <1>15, <1>16, <1>17, <1>18, <1>19 DEF Next, User, Gui, Bridge

(* Whatever is typed, loaded, edited, saved and started, and also when a   *)
(* file is saved while a bridge comes up: no bridge may operate the        *)
(* amplifier by allow_rf_risk unless the user has loaded such a file.      *)
THEOREM RfAgreed == Spec => []RfWasAgreedTo
<1>1. Init => RfInv
    BY ConstantsAssumption DEF Init, RfInv, Unused, Fresh
<1>2. RfInv => RfWasAgreedTo BY DEF RfInv, RfWasAgreedTo, Fit
<1> QED BY <1>1, <1>2, TypeInit, TypeStep, RfStep, PTL DEF Spec

-----------------------------------------------------------------------------
(* The operate test ends in standby.                                       *)

(* Only a bridge gets past the preflight, a probe only probes, and what    *)
(* made the amplifier operate has read its file.                           *)
TestInv ==
    /\ \A p \in Pids : proc[p].at \in {"preflight", "polling", "up"}
           => proc[p].kind = "bridge"
    /\ \A p \in Pids : proc[p].at = "probe" => proc[p].kind = "probe"
    /\ by # None => proc[by].at \notin {"unused", "load"}
    /\ TestEndsInStandby

LEMMA KillKeepsTest ==
    ASSUME TypeOK, TestInv, NEW killed, Kill(killed), by' = by PROVE TestInv'
<1>1. \A p \in Pids : proc'[p].kind = proc[p].kind /\ proc'[p].at \in {proc[p].at, "failed"}
    BY DEF Kill, TypeOK, Process
<1>2. by \in Pids \cup {None} BY DEF TypeOK
<1> QED BY <1>1, <1>2 DEF TestInv, TestEndsInStandby

LEMMA StartKeepsTest ==
    ASSUME TypeOK, TestInv, NEW g, NEW stopped, NEW spared, NEW owned,
           Start(g, stopped, spared, owned), by' = by
    PROVE  TestInv'
<1>0. by \in Pids \cup {None} BY DEF TypeOK
<1>1. ASSUME NEW killed, Kill(killed) PROVE TestInv' BY <1>1, KillKeepsTest
<1>2. ASSUME NEW q \in Pids, NEW killed, Spawn(q, g, killed, owned) PROVE TestInv'
    <2>a. proc[q].at = "unused" BY <1>2 DEF Spawn, Unused
    <2>b. proc'[q].at = "load" BY <1>2 DEF Spawn, Unused
    <2>1. \A p \in Pids \ {q} : /\ proc'[p].kind = proc[p].kind
                                /\ proc'[p].at \in {proc[p].at, "failed"}
        BY <1>2 DEF Spawn, TypeOK, Process
    <2>2. None # q BY ConstantsAssumption
    <2>3. by # q BY <2>a, <2>2 DEF TestInv
    <2>4. by' # None => by \in Pids \ {q} BY <1>0, <2>3
    <2> QED BY <2>b, <2>1, <2>4 DEF TestInv, TestEndsInStandby
<1> QED BY <1>1, <1>2 DEF Start

LEMMA TestStep == TypeOK /\ TestInv /\ [Next]_vars => TestInv'
<1> SUFFICES ASSUME TypeOK, TestInv, [Next]_vars PROVE TestInv' OBVIOUS
<1>0. WorldOK /\ by \in Pids \cup {None} BY TypeParts DEF HistoryOK
<1>a. ASSUME UNCHANGED <<proc, by>> PROVE TestInv'
    BY <1>a DEF TestInv, TestEndsInStandby
<1>b. ASSUME NEW q \in Pids, NEW how \in Ended \cup {"up"}, End(q, how), by' \in {by, q, None},
             how = "up" => proc[q].kind = "bridge",
             how = "done" => proc[q].kind # "test"
      PROVE  TestInv'
    <2>1. /\ proc'[q].at = how
          /\ \A p \in Pids : /\ proc'[p].kind = proc[p].kind
                             /\ p # q => proc'[p].at = proc[p].at
        BY <1>0, <1>b DEF End, WorldOK, Process
    <2>2. how \in {"done", "failed", "up"} BY DEF Ended
    <2>3. \A p \in Pids : proc'[p].at \in {"preflight", "polling", "up"}
              => proc'[p].kind = "bridge"
        BY <1>b, <2>1, <2>2 DEF TestInv
    <2>4. \A p \in Pids : proc'[p].at = "probe" => proc'[p].kind = "probe"
        BY <2>1, <2>2 DEF TestInv
    <2>5. by' # None => proc'[by'].at \notin {"unused", "load"}
        BY <1>0, <1>b, <2>1, <2>2 DEF TestInv
    <2>6. by' # None => proc'[by'].at # "done" \/ proc'[by'].kind # "test"
        BY <1>0, <1>b, <2>1, <2>2 DEF TestInv, TestEndsInStandby
    <2> QED BY <2>3, <2>4, <2>5, <2>6 DEF TestInv, TestEndsInStandby
<1>1. CASE Edit \/ TypePath \/ Load \/ SaveConfig \/ UseRecommended \/ UseOperationalProfile
    BY <1>1, <1>a DEF Edit, TypePath, Load, SaveConfig, UseRecommended,
       UseOperationalProfile, world, history
<1>2. CASE Gui BY <1>2, <1>a DEF Gui, Refresh, PollStatus, Verified, world, history
<1>3. CASE ClickStart \/ ClickRestart \/ ClickCleanRestart
    BY <1>3, StartKeepsTest DEF ClickStart, ClickRestart, ClickCleanRestart
<1>4. CASE ClickStop BY <1>4, KillKeepsTest DEF ClickStop
<1>5. CASE Relaunch
    BY <1>5, StartKeepsTest DEF Relaunch
<1>6. CASE RunTool
    <2>1. PICK q \in Pids, path \in Paths, kind \in {"test", "check", "probe"} :
              /\ proc[q] = Unused
              /\ proc' = [proc EXCEPT ![q] =
                     [@ EXCEPT !.kind = kind, !.at = IF kind = "probe" THEN "probe" ELSE "load",
                               !.path = path]]
        BY <1>6 DEF RunTool
    <2>2. /\ proc[q].at = "unused" /\ proc'[q].at \in {"load", "probe"}
          /\ proc'[q].at = "probe" => proc'[q].kind = "probe"
          /\ \A p \in Pids \ {q} : proc'[p] = proc[p]
        BY <1>0, <2>1 DEF Unused, WorldOK, Process
    <2>3. None # q BY ConstantsAssumption
    <2>4. by # q BY <2>2, <2>3 DEF TestInv
    <2>5. by' = by BY <1>6 DEF RunTool, history
    <2>6. by' # None => by \in Pids \ {q} BY <1>0, <2>4, <2>5
    <2> QED BY <2>2, <2>5, <2>6 DEF TestInv, TestEndsInStandby
<1>7. CASE Interrupt
    <2>1. PICK q \in Pids : proc[q].at = "up" /\ End(q, "done") BY <1>7 DEF Interrupt
    <2>2. proc[q].kind = "bridge" BY <2>1 DEF TestInv
    <2>3. by' = by BY <1>7 DEF Interrupt, history
    <2> QED BY <1>b, <2>1, <2>2, <2>3 DEF Ended
<1>8. ASSUME NEW q \in Pids, LoadFile(q) PROVE TestInv'
    <2>1. /\ proc[q].at = "load" /\ proc'[q].kind = proc[q].kind
          /\ proc'[q].at \in {"failed", "preflight", "done", "connect"}
          /\ proc'[q].at = "preflight" => proc[q].kind = "bridge"
          /\ \A p \in Pids \ {q} : proc'[p] = proc[p]
        BY <1>0, <1>8 DEF LoadFile, WorldOK, Process
    <2>2. None # q BY ConstantsAssumption
    <2>3. by # q BY <2>1, <2>2 DEF TestInv
    <2>4. by' = by BY <1>8 DEF LoadFile, history
    <2>5. by' # None => by \in Pids \ {q} BY <1>0, <2>3, <2>4
    <2> QED BY <2>1, <2>4, <2>5 DEF TestInv, TestEndsInStandby
<1>9. ASSUME NEW q \in Pids, PreflightOpen(q) PROVE TestInv'
    <2>1. by' = by BY <1>9 DEF PreflightOpen, history
    <2>2. CASE port # None
        BY <1>9, <1>b, <2>1, <2>2 DEF PreflightOpen, Ended
    <2>3. CASE port = None
        <3>1. /\ proc[q].at = "preflight" /\ proc'[q].at = "polling"
              /\ proc'[q].kind = proc[q].kind
              /\ \A p \in Pids \ {q} : proc'[p] = proc[p]
            BY <1>0, <1>9, <2>3 DEF PreflightOpen, WorldOK, Process
        <3> QED BY <1>0, <2>1, <3>1 DEF TestInv, TestEndsInStandby
    <2> QED BY <2>2, <2>3
<1>10. ASSUME NEW q \in Pids, PreflightEnds(q) PROVE TestInv'
    <2>1. by' = by /\ proc[q].kind = "bridge"
        BY <1>10 DEF PreflightEnds, history, TestInv
    <2> QED BY <1>10, <1>b, <2>1 DEF PreflightEnds, Ended
<1>11. ASSUME NEW q \in Pids, DriverOpen(q) PROVE TestInv'
    BY <1>11, <1>a DEF DriverOpen, history
<1>12. ASSUME NEW q \in Pids, BindMetrics(q) PROVE TestInv'
    <2>1. \A p \in Pids : proc'[p].kind = proc[p].kind /\ proc'[p].at = proc[p].at
        BY <1>0, <1>12 DEF BindMetrics, WorldOK, Process
    <2>2. by' = by BY <1>12 DEF BindMetrics, history
    <2> QED BY <1>0, <2>1, <2>2 DEF TestInv, TestEndsInStandby
<1>13. ASSUME NEW q \in Pids, Command(q) PROVE TestInv'
    <2>1. proc[q].at = "up" /\ proc' = proc /\ by' \in {q, None} BY <1>13 DEF Command
    <2> QED BY <2>1 DEF TestInv, TestEndsInStandby
<1>14. ASSUME NEW q \in Pids, TestOpen(q) PROVE TestInv'
    <2>1. by' = by BY <1>14 DEF TestOpen, history
    <2>2. CASE port # None
        BY <1>14, <1>b, <2>1, <2>2 DEF TestOpen, Ended
    <2>3. CASE port = None BY <1>14, <1>a, <2>1, <2>3 DEF TestOpen
    <2> QED BY <2>2, <2>3
<1>15. ASSUME NEW q \in Pids, TestSend(q) PROVE TestInv'
    <2>1. PICK executed \in BOOLEAN, verified \in BOOLEAN :
              /\ verified => amp' = (proc[q].at = "operate")
              /\ by' = IF ~amp' THEN None
                       ELSE IF executed /\ proc[q].at = "operate" THEN q ELSE by
              /\ \E at \in Onward(proc[q], verified) : proc' = [proc EXCEPT ![q].at = at]
        BY <1>15 DEF TestSend
    <2>a. PICK at \in Onward(proc[q], verified) : proc' = [proc EXCEPT ![q].at = at]
        BY <2>1
    <2>2. proc[q].at \in Steps \ {"probe"} BY <1>15 DEF TestSend
    <2>3. /\ at \in {"read", "standby", "return", "operate", "rollback", "done", "failed"}
          /\ proc[q].kind = "test" /\ at = "done" => proc[q].at # "operate" /\ verified
        BY <2>a, <2>2 DEF Onward, AfterTest, AfterCheck, Steps
    <2>4. /\ proc'[q].at = at
          /\ \A p \in Pids \ {q} : proc'[p] = proc[p]
          /\ \A p \in Pids : proc'[p].kind = proc[p].kind
        BY <1>0, <2>a DEF WorldOK, Process
    <2>5. \A p \in Pids : proc'[p].at \in {"preflight", "polling", "up"}
              => proc'[p].kind = "bridge"
        BY <2>3, <2>4 DEF TestInv
    <2>6. \A p \in Pids : proc'[p].at = "probe" => proc'[p].kind = "probe"
        BY <2>3, <2>4 DEF TestInv
    <2>7. proc[q].kind = "test" /\ at = "done" => by' = None BY <2>1, <2>3
    <2>8. by' \in {None, by, q} BY <2>1
    <2>9. by' # None => proc'[by'].at \notin {"unused", "load"}
        BY <1>0, <2>3, <2>4, <2>8 DEF TestInv
    <2>10. by' # None => proc'[by'].at # "done" \/ proc'[by'].kind # "test"
        BY <1>0, <2>4, <2>7, <2>8 DEF TestInv, TestEndsInStandby
    <2> QED BY <2>5, <2>6, <2>9, <2>10 DEF TestInv, TestEndsInStandby
<1>16. ASSUME NEW q \in Pids, TestFails(q) PROVE TestInv'
    <2>1. by' = by BY <1>16 DEF TestFails, history
    <2> QED BY <1>16, <1>b, <2>1 DEF TestFails, Ended
<1>18. ASSUME NEW q \in Pids, ProbeSend(q) PROVE TestInv'
    <2>1. by' \in {by, q, None} /\ End(q, "done") BY <1>18 DEF ProbeSend
    <2>2. proc[q].kind = "probe" BY <1>18 DEF ProbeSend, TestInv
    <2> QED BY <1>b, <2>1, <2>2 DEF Ended
<1>17. CASE UNCHANGED vars BY <1>17, <1>a DEF vars, world, history
<1> QED BY <1>1, <1>2, <1>3, <1>4, <1>5, <1>6, <1>7, <1>8, <1>9, <1>10, <1>11, <1>12, <1>13,
           <1>14, <1>15, <1>16, <1>17, <1>18 DEF Next, User, Bridge, Test

(* An operate test that reports success has left the amplifier in standby, *)
(* whatever ran beside it: if it operates, something else made it.         *)
THEOREM TestRollsBack == Spec => []TestEndsInStandby
<1>1. Init => TestInv BY DEF Init, TestInv, TestEndsInStandby, Unused
<1>2. TestInv => TestEndsInStandby BY DEF TestInv
<1> QED BY <1>1, <1>2, TypeInit, TypeStep, TestStep, PTL DEF Spec
=============================================================================
