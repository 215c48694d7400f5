------------------------------ MODULE Station ------------------------------
(* The processes on the station's computer: the GUI with the bridge that   *)
(* it starts and stops (crates/egb-gui), bridges (crates/egb: run_bridge,  *)
(* start_bridge), the tests of the amplifier (test_kpa_operate, test_kpa)  *)
(* and serial probes, which all want the KPA500's serial port; and what    *)
(* they may make the amplifier do.                                         *)
(*                                                                         *)
(* A bridge opens the port twice: for its preflight, which closes it       *)
(* again, and in its driver.  A test opens it for every command.  The      *)
(* port and the status endpoint belong to one process at a time.           *)
EXTENDS ControlPolicy, FiniteSets

CONSTANTS
    Pids,         \* the processes that are started, each once
    Paths,        \* the configuration files
    DefaultPath, OperationalPath,
    Installed,    \* what the files may hold at first
    Default,      \* the built-in configuration
    MaxClicks,    \* bound: what the user does, and looks at the child refused
    None

ASSUME ConstantsAssumption ==
    /\ {DefaultPath, OperationalPath} \subseteq Paths
    /\ Installed \subseteq [Paths -> Config]
    /\ Default \in Config /\ Valid(Default) /\ ~Default.kpa.rf
    /\ MaxClicks \in Nat
    /\ None \notin Pids \cup Config \cup {"bridge", "test", "check", "probe"}

VARIABLES
    windows,    \* the system: on Windows, stale bridges can be killed
    file,       \* Paths -> Config
    gui,        \* the GUI: [path, config, ack, pc, child, shown, status, error]
    proc,       \* Pids -> [kind, at, path, config, metrics]
    port,       \* who has opened the serial port
    endpoint,   \* who answers on the metrics port
    amp,        \* the amplifier operates
    clicks,     \* how much of the bound is used
    mine, by, agreed, \* history: the bridges this GUI started; who made the
                      \* amplifier operate; a file with allow_rf_risk was loaded
    refused           \* history: the processes that the system refused to
                      \* end, or to say whether they run
world == <<proc, port, endpoint, amp>>
history == <<mine, by, agreed, refused>>
vars == <<windows, file, gui, world, clicks, history>>

-----------------------------------------------------------------------------
Steps == {"connect", "read", "standby", "return", "operate", "rollback", "probe"}
Running == {"load", "preflight", "polling", "up"} \cup Steps
Ended == {"done", "failed"}
Alive(p) == proc[p].at \in Running
Unused == [kind |-> None, at |-> "unused", path |-> DefaultPath, config |-> None, metrics |-> "untried"]
NoStatus == [pid |-> None, config |-> None]
(* What a bridge says of itself on its endpoint.                           *)
Identity(p) == [pid |-> p, config |-> proc[p].config]
Fresh(path, held) ==
    [path |-> path, config |-> IF Valid(held) THEN held ELSE Default, ack |-> FALSE, pc |-> "idle",
     child |-> None, shown |-> "Stopped", status |-> NoStatus, error |-> FALSE]

Init ==
    /\ windows \in BOOLEAN
    /\ file \in Installed
    /\ proc = [p \in Pids |-> Unused]
    /\ gui = Fresh(DefaultPath, file[DefaultPath])
    /\ port = None /\ endpoint = None
    /\ amp = FALSE
    /\ clicks = 0
    /\ mine = {} /\ by = None /\ agreed = FALSE /\ refused = {}

(* Whom the system may spare when it is told to kill: who runs.  A child   *)
(* whose state it does not tell is unseen.                                 *)
Spared(killed) == SUBSET {p \in killed \cap Pids : Alive(p)}
Unseen == SUBSET ({gui.child} \ {None})
Refuse(ps) == refused' = refused \cup ps

(* Processes that are killed, or end, let go of what they had.             *)
Kill(killed) ==
    /\ proc' = [p \in Pids |-> IF p \in killed /\ Alive(p)
                               THEN [proc[p] EXCEPT !.at = "failed"] ELSE proc[p]]
    /\ port' = IF port \in killed THEN None ELSE port
    /\ endpoint' = IF endpoint \in killed THEN None ELSE endpoint
    /\ UNCHANGED amp

End(p, how) ==
    /\ proc' = [proc EXCEPT ![p].at = how]
    /\ port' = IF port = p THEN None ELSE port
    /\ endpoint' = IF endpoint = p THEN None ELSE endpoint

-----------------------------------------------------------------------------
(* What the GUI's handlers have in common.                                 *)

(* Mutant of Refreshed: a child that ended is kept.                        *)
RefreshedKeeps(g, unseen) ==
    [g EXCEPT !.shown = IF g.child = None THEN "Stopped" ELSE "Running"]
(* BridgeProcess::refresh: a child that ended is forgotten, one that the   *)
(* system does not tell of is an error and kept.                           *)
Refreshed(g, unseen) ==
    IF g.child = None
    THEN [g EXCEPT !.shown = IF @ = "Error" THEN @ ELSE "Stopped"]
    ELSE IF g.child \in unseen THEN [g EXCEPT !.shown = "Error"]
    ELSE IF Alive(g.child) THEN [g EXCEPT !.shown = "Running"]
    ELSE [g EXCEPT !.child = None,
              !.shown = IF proc[g.child].at = "done" THEN "Stopped" ELSE "Error"]

(* Mutant of Acknowledged: nothing is asked.                               *)
AcknowledgedAlways(g) == TRUE
(* allow_rf_risk is neither saved nor started before it was acknowledged.  *)
Acknowledged(g) == g.config.kpa.rf => g.ack
Saveable(g) == Valid(g.config) /\ Acknowledged(g)
Save(g) == file' = IF Saveable(g) THEN [file EXCEPT ![g.path] = g.config] ELSE file

(* A file that cannot be read as a configuration leaves the old one; to    *)
(* load one with allow_rf_risk is to acknowledge it.                       *)
Loaded(g) ==
    IF Valid(file[g.path])
    THEN [g EXCEPT !.config = file[g.path], !.ack = file[g.path].kpa.rf]
    ELSE g

(* The configuration is saved, and a bridge is spawned on the file; its    *)
(* status is awaited.                                                      *)
Spawn(p, g, killed, owned) ==
    /\ proc[p] = Unused
    /\ Save(g)
    /\ proc' = [q \in Pids |->
           IF q = p THEN [Unused EXCEPT !.kind = "bridge", !.at = "load", !.path = g.path]
           ELSE IF q \in killed /\ Alive(q) THEN [proc[q] EXCEPT !.at = "failed"]
           ELSE proc[q]]
    /\ port' = IF port \in killed THEN None ELSE port
    /\ endpoint' = IF endpoint \in killed THEN None ELSE endpoint
    /\ gui' = [g EXCEPT !.pc = "verify", !.child = p, !.shown = "Starting"]
    /\ mine' = owned \cup {p}
    /\ UNCHANGED amp

(* stop_stale_bridge_processes: whatever is called egb.exe, on Windows.    *)
Stale == IF windows THEN Pids ELSE {}

(* start_bridge: nothing, when a bridge is seen to run, the configuration  *)
(* is not fit to be saved or cannot be; else it is saved and the stale     *)
(* processes are killed, as far as the system does it, before the spawn,   *)
(* for which the program may be missing.                                   *)
Start(g, killed, spared, owned) ==
    \/ /\ gui' = g
       /\ Kill(killed)
       /\ Refuse(spared)
       /\ mine' = owned
       /\ UNCHANGED file
    \/ /\ g.shown # "Running" /\ Saveable(g)
       /\ \E more \in Spared(Stale \ killed) :
              LET gone == killed \cup (Stale \ more)
              IN  /\ Refuse(spared \cup more)
                  /\ \/ \E p \in Pids : Spawn(p, g, gone, owned)
                     \/ gui' = g /\ Save(g) /\ Kill(gone) /\ mine' = owned

Click == gui.pc = "idle" /\ clicks < MaxClicks /\ clicks' = clicks + 1

-----------------------------------------------------------------------------
(* What the user does.                                                     *)
SafeMode(op) == [op EXCEPT !.real = FALSE]
TuneMode(op) == [op EXCEPT !.real = TRUE, !.tune = TRUE, !.standby = TRUE,
                           !.operate = FALSE, !.confirm = TRUE]
RiskMode(op) == [op EXCEPT !.real = TRUE, !.tune = TRUE, !.standby = TRUE,
                           !.operate = TRUE]
Boxes(op) ==
    {[op EXCEPT ![control] = ~@] : control \in {"tune", "standby", "operate"}}
Typed(op) == IF op.operate THEN {[op EXCEPT !.confirm = ~@]} ELSE {}
(* The setup form: the radio buttons, the check boxes, and the text which  *)
(* confirms real controls, that is asked for when operate is ticked.       *)
Edit ==
    /\ Click
    /\ LET op == gui.config.op
       IN  \E edited \in {SafeMode(op), TuneMode(op), RiskMode(op)} \cup Boxes(op) \cup Typed(op) :
               gui' = [gui EXCEPT !.config.op = edited]
    /\ UNCHANGED <<windows, file, world, history>>

(* The name of the file is typed; it is loaded by another button.          *)
TypePath ==
    /\ Click
    /\ \E path \in Paths : gui' = [gui EXCEPT !.path = path]
    /\ UNCHANGED <<windows, file, world, history>>

Load ==
    /\ Click
    /\ gui' = Loaded(gui)
    /\ agreed' = (agreed \/ gui'.ack)
    /\ UNCHANGED <<windows, file, world, mine, by, refused>>

SaveConfig ==
    /\ Click
    /\ Save(gui)
    /\ UNCHANGED <<windows, gui, world, history>>

UseRecommended ==
    /\ Click
    /\ \E controls \in BOOLEAN :
           gui' = [gui EXCEPT !.config = Recommended(gui.config, controls)]
    /\ Save(gui')
    /\ UNCHANGED <<windows, world, history>>

(* The operational profile is loaded and the recommended setup put on it.  *)
UseOperationalProfile ==
    /\ Click
    /\ LET g == Loaded([gui EXCEPT !.path = OperationalPath])
       IN  /\ gui' = [g EXCEPT !.config = Recommended(g.config, TRUE)]
           /\ agreed' = (agreed \/ g.ack)
    /\ Save(gui')
    /\ UNCHANGED <<windows, world, mine, by, refused>>

ClickStart ==
    /\ Click
    /\ \E unseen \in Unseen : Start(Refreshed(gui, unseen), {}, unseen, mine)
    /\ UNCHANGED <<windows, by, agreed>>

(* BridgeProcess::stop: the child is forgotten before it is killed; where  *)
(* that is refused, the error leaves what is shown as it was.              *)
Stopped(g, kept) ==
    [g EXCEPT !.child = None, !.shown = IF g.child \in kept THEN @ ELSE "Stopped"]
(* Mutant of ClickStop: the process is forgotten and not killed.           *)
ClickStopForgets ==
    /\ Click
    /\ gui' = Stopped(gui, {})
    /\ UNCHANGED <<windows, file, world, history>>
ClickStop ==
    /\ Click
    /\ \E kept \in Spared({gui.child}) :
           /\ gui' = Stopped(gui, kept)
           /\ Kill({gui.child} \ kept)
           /\ Refuse(kept)
    /\ UNCHANGED <<windows, file, mine, by, agreed>>

(* A restart ignores whether the stop failed.                              *)
RestartRequired == gui.status.config \notin {None, gui.config}
ClickRestart ==
    /\ Click
    /\ \E unseen \in Unseen, kept \in Spared({gui.child}) :
           LET g == Refreshed(gui, unseen)
           IN  /\ RestartRequired \/ g.shown = "Running"
               /\ Start(Refreshed(Stopped(g, kept), {}), {gui.child} \ kept,
                        unseen \cup kept, mine)
    /\ UNCHANGED <<windows, by, agreed>>

ClickCleanRestart ==
    /\ Click
    /\ \E kept \in Spared({gui.child}), more \in Spared(Stale) :
           Start(Refreshed(Stopped(gui, kept), {}),
                 ({gui.child} \ kept) \cup (Stale \ more), kept \cup more, mine)
    /\ UNCHANGED <<windows, by, agreed>>

(* The GUI is closed and opened again; its bridge goes on.  The settings   *)
(* may have it start one.                                                  *)
Relaunch ==
    /\ Click
    /\ Start(Fresh(DefaultPath, file[DefaultPath]), {}, {}, {})
    /\ UNCHANGED <<windows, by, agreed>>

(* In a terminal: test-kpa-operate, confirmed, or test-kpa; a probe of the *)
(* serial port, which reads no file; or Ctrl+C at a bridge.                *)
RunTool ==
    /\ Click
    /\ \E p \in Pids, path \in Paths, kind \in {"test", "check", "probe"} :
           /\ proc[p] = Unused
           /\ kind = "probe" => path = DefaultPath
           /\ proc' = [proc EXCEPT ![p] =
                  [@ EXCEPT !.kind = kind, !.at = IF kind = "probe" THEN "probe" ELSE "load",
                            !.path = path]]
    /\ UNCHANGED <<windows, file, gui, port, endpoint, amp, history>>

Interrupt ==
    /\ Click
    /\ \E p \in Pids : proc[p].at = "up" /\ End(p, "done")
    /\ UNCHANGED <<windows, file, gui, amp, history>>

User ==
    \/ Edit \/ TypePath \/ Load \/ SaveConfig \/ UseRecommended
    \/ UseOperationalProfile \/ ClickStart \/ ClickStop \/ ClickRestart
    \/ ClickCleanRestart \/ Relaunch \/ RunTool \/ Interrupt

-----------------------------------------------------------------------------
(* What the GUI does by itself.  While it waits for the status of its      *)
(* child, for five seconds at most, it does nothing else.                  *)
Refresh ==
    /\ gui.pc = "idle"
    /\ \E unseen \in Unseen :
           /\ unseen # {} => clicks < MaxClicks
           /\ clicks' = IF unseen = {} THEN clicks ELSE clicks + 1
           /\ gui' = Refreshed(gui, unseen)
           /\ Refuse(unseen)
    /\ UNCHANGED <<windows, file, world, mine, by, agreed>>

(* A status that cannot be had leaves the old one.                         *)
PollStatus ==
    /\ gui.pc = "idle"
    /\ gui' = IF endpoint = None THEN [gui EXCEPT !.error = TRUE]
              ELSE [gui EXCEPT !.error = FALSE,
                        !.status = Identity(endpoint)]
    /\ UNCHANGED <<windows, file, world, clicks, history>>

Verified ==
    /\ gui.pc = "verify"
    /\ gui' = [gui EXCEPT !.pc = "idle"]
    /\ UNCHANGED <<windows, file, world, clicks, history>>

Gui == Refresh \/ PollStatus \/ Verified

-----------------------------------------------------------------------------
(* A bridge.                                                               *)
LoadFile(p) ==
    /\ proc[p].at = "load"
    /\ LET cfg == file[proc[p].path]
           at == IF ~Valid(cfg) THEN "failed"
                 ELSE IF proc[p].kind = "bridge" THEN "preflight"
                 ELSE IF proc[p].kind = "test" /\ cfg.kpa.dry THEN "done" ELSE "connect"
       IN  proc' = [proc EXCEPT ![p].at = at, ![p].config = cfg]
    /\ UNCHANGED <<windows, file, gui, port, endpoint, amp, clicks, history>>

PreflightOpen(p) ==
    /\ proc[p].at = "preflight"
    /\ IF port = None
       THEN /\ port' = p
            /\ proc' = [proc EXCEPT ![p].at = "polling"]
            /\ UNCHANGED endpoint
       ELSE End(p, "failed")
    /\ UNCHANGED <<windows, file, gui, amp, clicks, history>>

PreflightEnds(p) ==
    /\ proc[p].at = "polling"
    /\ \E at \in {"up", "failed"} : End(p, at)
    /\ UNCHANGED <<windows, file, gui, amp, clicks, history>>

(* The driver goes on until it can open the port, the endpoint tries once. *)
DriverOpen(p) ==
    /\ proc[p].at = "up" /\ port = None
    /\ port' = p
    /\ UNCHANGED <<windows, file, gui, proc, endpoint, amp, clicks, history>>

BindMetrics(p) ==
    /\ proc[p].at = "up" /\ proc[p].metrics = "untried"
    /\ IF endpoint = None
       THEN /\ endpoint' = p
            /\ proc' = [proc EXCEPT ![p].metrics = "bound"]
       ELSE /\ proc' = [proc EXCEPT ![p].metrics = "gone"]
            /\ UNCHANGED endpoint
    /\ UNCHANGED <<windows, file, gui, port, amp, clicks, history>>

(* A client's request reaches the driver.                                  *)
Command(p) ==
    /\ proc[p].at = "up" /\ port = p
    /\ \/ CanSend(proc[p].config).operate /\ amp' = TRUE /\ by' = p
       \/ CanSend(proc[p].config).standby /\ amp' = FALSE /\ by' = None
    /\ UNCHANGED <<windows, file, gui, proc, port, endpoint, clicks, mine, agreed, refused>>

-----------------------------------------------------------------------------
(* The tests: they open the port for each of their steps, and end with an  *)
(* error where they cannot.                                                *)
TestOpen(p) ==
    /\ proc[p].at \in Steps /\ port # p
    /\ IF port = None THEN port' = p /\ UNCHANGED <<proc, endpoint>>
       ELSE End(p, "failed")
    /\ UNCHANGED <<windows, file, gui, amp, clicks, history>>

(* The operate test goes through all of its steps, and only its last       *)
(* verification counts.                                                    *)
AfterTest(at, verified) ==
    CASE at = "connect" -> "standby"
      [] at = "standby" -> "operate"
      [] at = "operate" -> "rollback"
      [] OTHER -> IF verified THEN "done" ELSE "failed"
(* The other test reads, and writes if it is told to and not dry; nothing  *)
(* that it verifies counts.                                                *)
AfterCheck(at, dry) ==
    CASE at = "connect" -> {"read"}
      [] at = "read" -> IF dry THEN {"done"} ELSE {"done", "standby", "operate"}
      [] at = "standby" -> {"return"}
      [] at = "return" -> {"done", "operate"}
      [] at = "operate" -> {"rollback"}
      [] OTHER -> {"done"}
Onward(k, verified) ==
    IF k.kind = "test" THEN {AfterTest(k.at, verified)} ELSE AfterCheck(k.at, k.config.kpa.dry)

Switches == {"standby", "return", "operate", "rollback"}
(* Mutant of TestSend: nothing that the test verifies counts.              *)
TestSendUnverified(p) ==
    /\ proc[p].at \in Steps \ {"probe"} /\ port = p
    /\ port' = None
    /\ \E executed \in BOOLEAN, verified \in BOOLEAN :
           LET on == proc[p].at = "operate"
           IN  /\ amp' = IF executed /\ proc[p].at \in Switches THEN on ELSE amp
               /\ verified => amp' = on
               /\ by' = IF ~amp' THEN None ELSE IF executed /\ on THEN p ELSE by
               /\ \E at \in Onward(proc[p], TRUE) : proc' = [proc EXCEPT ![p].at = at]
    /\ UNCHANGED <<windows, file, gui, endpoint, clicks, mine, agreed, refused>>
(* Nothing acknowledges a command: it may not be executed, and what the    *)
(* verification does not read back is no error.                            *)
TestSend(p) ==
    /\ proc[p].at \in Steps \ {"probe"} /\ port = p
    /\ port' = None
    /\ \E executed \in BOOLEAN, verified \in BOOLEAN :
           LET on == proc[p].at = "operate"
           IN  /\ amp' = IF executed /\ proc[p].at \in Switches THEN on ELSE amp
               /\ verified => amp' = on
               /\ by' = IF ~amp' THEN None ELSE IF executed /\ on THEN p ELSE by
               /\ \E at \in Onward(proc[p], verified) : proc' = [proc EXCEPT ![p].at = at]
    /\ UNCHANGED <<windows, file, gui, endpoint, clicks, mine, agreed, refused>>

(* A probe writes what it is given, without a look at any configuration.   *)
ProbeSend(p) ==
    /\ proc[p].at = "probe" /\ port = p
    /\ End(p, "done")
    /\ \/ amp' = TRUE /\ by' = p
       \/ amp' = FALSE /\ by' = None
       \/ UNCHANGED <<amp, by>>
    /\ UNCHANGED <<windows, file, gui, clicks, mine, agreed, refused>>

(* A command that cannot be written ends the test.                         *)
TestFails(p) ==
    /\ proc[p].at \in Switches \cup {"probe"} /\ port = p
    /\ End(p, "failed")
    /\ UNCHANGED <<windows, file, gui, amp, clicks, history>>

-----------------------------------------------------------------------------
Bridge(p) ==
    \/ LoadFile(p) \/ PreflightOpen(p) \/ PreflightEnds(p)
    \/ DriverOpen(p) \/ BindMetrics(p)
Test(p) == TestOpen(p) \/ TestSend(p) \/ ProbeSend(p) \/ TestFails(p)

Next ==
    \/ User
    \/ Gui
    \/ \E p \in Pids : Bridge(p) \/ Command(p) \/ Test(p)

Spec == Init /\ [][Next]_vars
(* The user need not do anything.  Processes run, the GUI draws its frames *)
(* and asks for the status, and its wait for a child ends.                 *)
FairSpec ==
    /\ Spec
    /\ WF_vars(Refresh) /\ WF_vars(PollStatus) /\ WF_vars(Verified)
    /\ \A p \in Pids : WF_vars(Bridge(p)) /\ WF_vars(Test(p))

-----------------------------------------------------------------------------
Process == [kind : {None, "bridge", "test", "check", "probe"}, at : Running \cup Ended \cup {"unused"},
            path : Paths, config : Config \cup {None},
            metrics : {"untried", "bound", "gone"}]
Status == [pid : Pids \cup {None}, config : Config \cup {None}]
Window == [path : Paths, config : Config, ack : BOOLEAN, pc : {"idle", "verify"},
           child : Pids \cup {None}, shown : {"Stopped", "Starting", "Running", "Error"},
           status : Status, error : BOOLEAN]
TypeOK ==
    /\ windows \in BOOLEAN
    /\ file \in [Paths -> Config]
    /\ gui \in Window
    /\ proc \in [Pids -> Process]
    /\ {port, endpoint, by} \subseteq Pids \cup {None}
    /\ amp \in BOOLEAN /\ agreed \in BOOLEAN
    /\ clicks \in 0 .. MaxClicks
    /\ mine \subseteq Pids /\ refused \subseteq Pids

(* The GUI loses a bridge that it started only where the system refused   *)
(* to end it, or to say whether it runs: any other that still runs is its  *)
(* child, whatever was clicked and whenever the process ended.             *)
NoBridgeLost == \A p \in mine \ refused : Alive(p) => gui.child = p

(* A bridge may make the amplifier operate because allow_rf_risk is set in *)
(* its file only if the user has loaded a file that says so; else real     *)
(* controls were confirmed in the file.                                    *)
RfWasAgreedTo ==
    \A p \in Pids : proc[p].kind = "bridge" /\ proc[p].config # None
                    /\ CanSend(proc[p].config).operate
        => agreed \/ Confirmed(proc[p].config)

(* An operate test that reports success has left the amplifier in standby: *)
(* if it operates, something else made it.                                 *)
TestEndsInStandby == by # None => proc[by].at # "done" \/ proc[by].kind # "test"

(* When the user does nothing more, the GUI comes to show what is: that    *)
(* its bridge runs, and the status of the process that answers.  Where     *)
(* stale bridges are killed, and the system has spared no other process,   *)
(* a bridge of the GUI has the serial port, and the status shown is its.   *)
Answered == gui.status = Identity(endpoint)
Settled ==
    /\ gui.shown = "Running" <=> gui.child # None /\ Alive(gui.child)
    /\ gui.error <=> endpoint = None
    /\ endpoint # None => Answered
    /\ windows /\ gui.child # None /\ refused \subseteq {gui.child} => port = gui.child /\ endpoint = gui.child
GuiSettles == <>[]Settled
=============================================================================
