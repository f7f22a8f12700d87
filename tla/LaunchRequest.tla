---------------------------- MODULE LaunchRequest ----------------------------
(***************************************************************************)
(* What a launch asks for, on its way into a session: from the Hub or a    *)
(* command line (hub.rs, cli.rs) through a request (runtime_daemon.rs) to  *)
(* wroidd (ipc.rs), from there through the command line of a worker        *)
(* (process.rs) to its options (launch_v2.rs, play_v2.rs) and the session  *)
(* (game_session.rs).  On the way the profile is loaded four times and the *)
(* devices are looked for twice, while editors save, cables are pulled and *)
(* releases are installed.  A width stands for the height too.             *)
(***************************************************************************)
EXTENDS Naturals

CONSTANTS
  Requests,       \* requests of the Hub, and commands
  Asks,           \* what they ask for: [via, root, size, keyboard, mouse, switches, exit, gameMode]
  Contents,       \* what the profile's file may hold: [package, mouse, valid]
  EventNodes,     \* input devices
  Opens,          \* Opens[d]: the kinds that d can be opened as
  NameSays,       \* NameSays[d]: the kinds that the name of d speaks of
  PathSays,       \* PathSays[d]: those that its path speaks of
  PathOrder,      \* PathOrder[d]: the place of its path among the others
  Elsewhere,      \* devices with a path that is not under /dev/input
  NoInput, NoLaunch, NoProfile, NoAsk,
  NoLimit,        \* no exit_after
  Generation,     \* Generation[r]: BRIDGE_WORKER_PROTOCOL_GENERATION of release r
  MaxRelease,     \* releases of each of the files wroid and wroidd
  MaxChanges      \* profiles saved, devices that come or go

ASSUME RequestConstants ==
  /\ Asks \subseteq [via : {"hub", "terminal", "play", "diagnostic"}, root : BOOLEAN, size : Nat,
                     keyboard : EventNodes \cup {NoInput}, mouse : EventNodes \cup {NoInput},
                     switches : SUBSET {"--no-grab", "--no-ui", "--no-launch", "--trace-input"},
                     exit : Nat \cup {NoLimit}, gameMode : BOOLEAN]
  /\ NoInput \notin EventNodes /\ NoLaunch \notin Requests /\ NoLimit \notin Nat

VARIABLES
  launches,       \* each launch, with the session that it becomes
  server,         \* wroidd: [release, serving, child], release 0: it does not run
  profileFile,    \* what the profile's file holds
  plugged,        \* the devices that are there
  installed,      \* the release of the files wroid and wroidd
  changes         \* how often a profile was saved or a device came or went

requestVars == <<launches, server, profileFile, plugged, installed, changes>>

MaxSide == 8192
MaxSeconds == 3600
MaxMillis == 3600000
OfferedSizes == {1280, 1600, 1920}
Features == {"grab", "ui", "game", "trace"}
Switch(f) ==
  CASE f = "grab" -> "--no-grab" [] f = "ui" -> "--no-ui" [] f = "game" -> "--no-launch"
    [] OTHER -> "--trace-input"

NoOptions == [size |-> 0, keyboard |-> NoInput, mouse |-> NoInput, on |-> {}, exit |-> NoLimit]

NoLine == [size |-> 0, keyboard |-> NoInput, mouse |-> NoInput, switches |-> {}, millis |-> NoLimit]

Unused ==
  [at |-> "unused", ask |-> NoAsk, release |-> 0, held |-> NoProfile, options |-> NoOptions,
   state |-> "none", package |-> NoProfile, line |-> NoLine, program |-> "none", worker |-> 0,
   focus |-> "none", played |-> NoProfile, shows |-> NoProfile,
   loads |-> {}, stale |-> {}]  \* history: profiles loaded, and what has changed since

Stands(l, place) == launches[l].at = place
Turns(l, r) == launches' = [launches EXCEPT ![l] = r]

\* of what has ended, wroidd's record is left
Closed(state) == [Unused EXCEPT !.at = "ended", !.state = state]
Finishes(l) == Turns(l, Closed(launches[l].state))
World == <<profileFile, plugged, installed, changes>>

-----------------------------------------------------------------------------
(* Devices and options *)

Openable(kind) == {d \in plugged : kind \in Opens[d]}

OtherKind(kind) == IF kind = "keyboard" THEN "mouse" ELSE "keyboard"

\* device_preference
Preference(d, kind) ==
  (IF kind \in NameSays[d] THEN 4 ELSE 0) + (IF OtherKind(kind) \in NameSays[d] THEN 0 ELSE 2)
  + (IF kind \in PathSays[d] THEN 1 ELSE 0)

\* discover_keyboard_devices, discover_mouse_devices: the first of what can be opened
Discovered(kind) ==
  {d \in Openable(kind) : \A e \in Openable(kind) :
     \/ Preference(d, kind) > Preference(e, kind)
     \/ Preference(d, kind) = Preference(e, kind) /\ PathOrder[d] <= PathOrder[e]}

\* Commands::LaunchV2 and Commands::PlayV2, as they become PlayV2Options
OptionsOf(line, exit) ==
  [size |-> line.size, keyboard |-> line.keyboard, mouse |-> line.mouse, exit |-> exit,
   on |-> {f \in Features : Switch(f) \in line.switches <=> f = "trace"}]

\* --exit-after-seconds, for the user, and --exit-after-ms
Millis(ask) == IF ask.via = "terminal" /\ ask.exit # NoLimit THEN 1000 * ask.exit ELSE ask.exit

\* launch_game: the Hub asks for everything
HubOptions(ask, needsMouse) ==
  [size |-> ask.size, keyboard |-> ask.keyboard,
   mouse |-> IF needsMouse THEN ask.mouse ELSE NoInput,
   on |-> {"grab", "ui", "game"}, exit |-> NoLimit]

\* launch_arguments, with what makes the command a worker's
LaunchArguments(o) ==
  [size |-> o.size, keyboard |-> o.keyboard, mouse |-> o.mouse, millis |-> o.exit,
   switches |-> {Switch(f) : f \in {g \in Features : g \in o.on <=> g = "trace"}}]

\* mutant: the range of --exit-after-ms without its end
WorkerLineParsesShort(line) == line.millis # NoLimit => line.millis \in 1 .. MaxMillis - 1

\* the value_parser of --exit-after-ms; a worker's command has no --exit-after-seconds
WorkerLineParses(line) == line.millis # NoLimit => line.millis \in 1 .. MaxMillis

-----------------------------------------------------------------------------
(* The client *)

\* a Hub may be of a release that is not installed any more
BeginLaunch(l) ==
  /\ Stands(l, "unused")
  /\ \E ask \in Asks : \E r \in 1 .. installed.wroid :
       Turns(l, [launches[l] EXCEPT !.at = "asked", !.ask = ask, !.release = r])
  /\ UNCHANGED server /\ UNCHANGED World

\* anything from outside may fail until the session lives; a process may be killed
Aborts(l) ==
  /\ launches[l].at \notin {"unused", "prepared", "linked", "unlinked", "ended", "unparsed"}
  /\ Finishes(l) /\ UNCHANGED server /\ UNCHANGED World

Loaded(l, load) == [launches[l] EXCEPT !.loads = @ \cup {load}]

\* selected_input_device
Selects(device, kind) == device # NoInput => device \in Openable(kind)

\* the "launch" of handle_action: selected_profile_input_devices, then launch_game
HubLaunches(l) ==
  LET ask == launches[l].ask
  IN  /\ Stands(l, "asked") /\ ask.via = "hub"
      /\ IF /\ profileFile.valid /\ ask.size \in OfferedSizes
            /\ Selects(ask.keyboard, "keyboard")
            /\ profileFile.mouse => Selects(ask.mouse, "mouse")
         THEN Turns(l, [Loaded(l, "client") EXCEPT
                !.at = "request", !.held = profileFile,
                !.options = HubOptions(ask, profileFile.mouse)])
         ELSE Finishes(l)
      /\ UNCHANGED server /\ UNCHANGED World

\* launch_v2_managed
LaunchesManaged(l) ==
  LET ask == launches[l].ask
  IN  /\ Stands(l, "asked") /\ ask.via = "terminal"
      /\ IF profileFile.valid /\ (ask.exit # NoLimit => ask.exit \in 1 .. MaxSeconds)
         THEN Turns(l, [Loaded(l, "client") EXCEPT
                !.at = "request", !.held = profileFile,
                !.options = OptionsOf(ask, Millis(ask))])
         ELSE Finishes(l)
      /\ UNCHANGED server /\ UNCHANGED World

\* start_managed_game: ensure_running wants the daemon that is installed, and replaces no
\* other one under a game
SendsRequest(l) ==
  /\ Stands(l, "request")
  /\ IF server.release \in {0, installed.wroidd} \/ (server.child = NoLaunch /\ server.serving = NoLaunch)
     THEN /\ server' = [server EXCEPT !.release = installed.wroidd]
          /\ Turns(l, [launches[l] EXCEPT !.at = "sent"])
     ELSE Finishes(l) /\ UNCHANGED server
  /\ UNCHANGED World

-----------------------------------------------------------------------------
(* wroidd *)

\* LaunchProfileV2 in dispatch, up to the session that is prepared
Dispatch(l) ==
  LET c == launches[l]
      o == c.options
  IN  /\ Stands(l, "sent") /\ server.serving = NoLaunch /\ server.release # 0
      /\ IF /\ Generation[c.release] = Generation[server.release]
            /\ o.size \in 1 .. MaxSide
            /\ o.exit # NoLimit => o.exit \in 1 .. MaxMillis
            /\ c.held.valid
         THEN /\ server' = [server EXCEPT !.serving = l]
              /\ Turns(l, [c EXCEPT !.at = "prepared", !.state = "preparing",
                                      !.package = c.held.package])
         ELSE Finishes(l) /\ UNCHANGED server
      /\ UNCHANGED World

\* mark_failed, and the daemon goes on
MarksFailed(l) ==
  /\ Turns(l, Closed("failed"))
  /\ server' = [server EXCEPT !.serving = NoLaunch]

\* ManagedProcesses::launch, up to the program: peer_executable reads the link of the
\* client's own file, which leads nowhere when another is in its place
LinkWorker(l) ==
  LET c == launches[l]
      o == c.options
  IN  /\ Stands(l, "prepared")
      /\ \/ /\ server.child = NoLaunch /\ {o.keyboard, o.mouse} \cap Elsewhere = {}
            /\ \E program \in IF c.ask.gameMode THEN {"gamemoderun", "wroid"} ELSE {"wroid"} :
                 Turns(l, [c EXCEPT !.at = IF c.release = installed.wroid THEN "linked" ELSE "unlinked",
                                    !.line = LaunchArguments(o), !.program = program])
            /\ UNCHANGED server
         \/ MarksFailed(l)
      /\ UNCHANGED World

\* ... and on: what is spawned is what the path leads to then
SpawnWorker(l) ==
  /\ \/ /\ Stands(l, "linked")
        /\ server' = [server EXCEPT !.serving = NoLaunch, !.child = l]
        /\ Turns(l, [launches[l] EXCEPT !.at = "spawned", !.state = "running",
                                          !.worker = installed.wroid])
     \/ launches[l].at \in {"linked", "unlinked"} /\ MarksFailed(l)
  /\ UNCHANGED World

\* reap
Reap(l) ==
  /\ launches[l].at \in {"ended", "unparsed"} /\ server.child = l /\ server.serving = NoLaunch
  /\ server' = [server EXCEPT !.child = NoLaunch]
  /\ \E state \in {"stopped", "failed"} : Turns(l, Closed(state))
  /\ UNCHANGED World

-----------------------------------------------------------------------------
(* The worker *)

\* Cli::parse; then launch_v2_worker: the parent is the wroidd that is installed
StartsWorker(l) ==
  LET c == launches[l]
  IN  /\ Stands(l, "spawned")
      /\ CASE ~WorkerLineParses(c.line) -> Turns(l, [c EXCEPT !.at = "unparsed"])
           [] WorkerLineParses(c.line) /\ installed.wroidd = server.release ->
                Turns(l, [c EXCEPT !.at = "adopted", !.options = OptionsOf(c.line, c.line.millis)])
           [] OTHER -> Finishes(l)
      /\ UNCHANGED server /\ UNCHANGED World

\* launch_v2_worker_inner: the profile, and a relay that may not start
PreparesWorker(l) ==
  /\ Stands(l, "adopted")
  /\ IF profileFile.valid
     THEN \E focus \in IF "grab" \in launches[l].options.on /\ ~launches[l].ask.root
                       THEN {"relay", "none"} ELSE {"none"} :
            Turns(l, [Loaded(l, "worker") EXCEPT !.at = "play", !.focus = focus])
     ELSE Finishes(l)
  /\ UNCHANGED server /\ UNCHANGED World

\* `wroid play-v2`, without a daemon and so as root
PlaysDirectly(l) ==
  LET ask == launches[l].ask
  IN  /\ Stands(l, "asked") /\ ask.via = "play"
      /\ IF ask.root
         THEN Turns(l, [launches[l] EXCEPT !.at = "play", !.options = OptionsOf(ask, ask.exit)])
         ELSE Finishes(l)
      /\ UNCHANGED server /\ UNCHANGED World

Given(device, kind) == IF device # NoInput THEN {device} ELSE Discovered(kind)

\* play_v2_with_broker, with GameSessionOptions::new
ChoosesDevices(l) ==
  LET o == launches[l].options
      needsMouse == profileFile.mouse \/ o.mouse # NoInput
  IN  /\ Stands(l, "play")
      /\ \/ /\ profileFile.valid /\ o.size > 0
            /\ \E k \in Given(o.keyboard, "keyboard") :
               \E m \in IF needsMouse THEN Given(o.mouse, "mouse") ELSE {NoInput} :
                 Turns(l, [Loaded(l, "play") EXCEPT !.at = "options",
                               !.options = [o EXCEPT !.keyboard = k, !.mouse = m]])
         \/ Finishes(l)
      /\ UNCHANGED server /\ UNCHANGED World

\* GameSessionOptions::parse of the diagnostic program; --help and --cleanup aside
ParsesOptions(l) ==
  LET ask == launches[l].ask
  IN  /\ Stands(l, "asked") /\ ask.via = "diagnostic"
      /\ IF ask.root /\ ask.size > 0 /\ ask.exit # 0 /\ ask.keyboard # NoInput
         THEN Turns(l, [launches[l] EXCEPT !.at = "options", !.options = OptionsOf(ask, ask.exit)])
         ELSE Finishes(l)
      /\ UNCHANGED server /\ UNCHANGED World

\* android_open_action: what Android is to show
Shown(o, profile) ==
  CASE "game" \in o.on -> profile.package
    [] "game" \notin o.on /\ "ui" \in o.on -> "full ui"
    [] OTHER -> "nothing"

\* run_game_session: the profile once more, the devices, and the session lives
RunsSession(l) ==
  LET o == launches[l].options
  IN  /\ Stands(l, "options")
      /\ IF /\ profileFile.valid /\ o.keyboard \in Openable("keyboard")
            /\ o.mouse # NoInput => o.mouse \in Openable("mouse")
         THEN Turns(l, [launches[l] EXCEPT !.at = "live", !.played = profileFile,
                                              !.shows = Shown(o, profileFile)])
         ELSE Finishes(l)
      /\ UNCHANGED server /\ UNCHANGED World

-----------------------------------------------------------------------------
(* The others *)

\* an editor replaces the profile
SaveProfile ==
  /\ changes < MaxChanges /\ changes' = changes + 1
  /\ \E content \in Contents : profileFile' = content
  /\ launches' = [l \in Requests |->
       IF Stands(l, "live") THEN launches[l]
       ELSE [launches[l] EXCEPT !.stale = @ \cup launches[l].loads]]
  /\ UNCHANGED <<server, plugged, installed>>

Plug(d) ==
  /\ changes < MaxChanges /\ changes' = changes + 1
  /\ plugged' = IF d \in plugged THEN plugged \ {d} ELSE plugged \cup {d}
  /\ UNCHANGED <<launches, server, profileFile, installed>>

\* a build or an installation, of one file after the other
InstallFile(f) ==
  /\ installed[f] < MaxRelease /\ installed' = [installed EXCEPT ![f] = @ + 1]
  /\ launches' = [l \in Requests |->
       IF f = "wroid" /\ Stands(l, "linked") THEN [launches[l] EXCEPT !.stale = @ \cup {"wroid"}]
       ELSE launches[l]]
  /\ UNCHANGED <<server, profileFile, plugged, changes>>

-----------------------------------------------------------------------------

RequestInit ==
  /\ launches = [l \in Requests |-> Unused]
  /\ server = [release |-> 0, serving |-> NoLaunch, child |-> NoLaunch]
  /\ profileFile \in Contents /\ plugged = EventNodes
  /\ installed = [wroid |-> 1, wroidd |-> 1] /\ changes = 0

LaunchStep(l) ==
  \/ BeginLaunch(l) \/ Aborts(l) \/ HubLaunches(l) \/ LaunchesManaged(l) \/ SendsRequest(l)
  \/ Dispatch(l) \/ LinkWorker(l) \/ SpawnWorker(l) \/ Reap(l)
  \/ StartsWorker(l) \/ PreparesWorker(l) \/ PlaysDirectly(l) \/ ChoosesDevices(l)
  \/ ParsesOptions(l) \/ RunsSession(l)

RequestNext ==
  \/ \E l \in Requests : LaunchStep(l)
  \/ SaveProfile
  \/ \E d \in EventNodes : Plug(d)
  \/ \E f \in {"wroid", "wroidd"} : InstallFile(f)

RequestSpec == RequestInit /\ [][RequestNext]_requestVars

-----------------------------------------------------------------------------
(* What whoever launches a game relies on *)

Managed(l) == launches[l].ask.via \in {"hub", "terminal"}

\* The session has what was asked for, in whatever form it was handed on.
RunsWhatWasAsked ==
  \A l \in Requests : Stands(l, "live") =>
    LET r == launches[l]
        ask == r.ask
    IN  /\ r.options.size = ask.size /\ r.options.size > 0
        /\ r.options.on = IF ask.via = "hub" THEN {"grab", "ui", "game"}
                          ELSE {f \in Features : Switch(f) \in ask.switches <=> f = "trace"}
        /\ r.options.exit = IF ask.via = "hub" THEN NoLimit ELSE Millis(ask)
        /\ ask.keyboard # NoInput => r.options.keyboard = ask.keyboard
        /\ r.program = "gamemoderun" => ask.gameMode
        /\ r.focus = "relay" => "grab" \in r.options.on

\* What wroidd accepts, the worker's command line accepts.
AcceptedLinesParse == \A l \in Requests : ~Stands(l, "unparsed")

\* wroidd's record names the package that Android shows, unless the profile was saved
\* meanwhile.
RecordNamesTheGame ==
  \A l \in Requests :
    LET r == launches[l]
    IN  Stands(l, "live") /\ Managed(l) /\ "game" \in r.options.on /\ "client" \notin r.stale =>
          r.state = "running" /\ r.shows = r.package

\* A profile that uses a mouse has one, unless it was saved after the devices were chosen;
\* and the Hub takes no mouse from the desktop for one that does not.
MouseWhenNeeded ==
  \A l \in Requests : Stands(l, "live") =>
    LET r == launches[l]
    IN  /\ r.ask.via # "diagnostic" /\ "play" \notin r.stale /\ r.played.mouse =>
             r.options.mouse # NoInput
        /\ r.ask.via = "hub" /\ {"client", "play"} \cap r.stale = {} /\ ~r.played.mouse =>
             r.options.mouse = NoInput

\* wroidd and its worker speak one protocol, unless the file wroid was replaced between
\* the link and the spawn.
OneProtocol ==
  \A l \in Requests :
    Stands(l, "live") /\ Managed(l) /\ "wroid" \notin launches[l].stale =>
      /\ server.child = l
      /\ Generation[launches[l].worker] = Generation[server.release]

\* A session is the one that was asked for, of the profile that the daemon knows, with the
\* devices that it needs, under a daemon of its protocol (runtime_daemon.rs, process.rs,
\* launch_v2.rs, play_v2.rs).
LaunchIsAsAsked ==
  /\ RunsWhatWasAsked /\ AcceptedLinesParse /\ RecordNamesTheGame
  /\ MouseWhenNeeded /\ OneProtocol
=============================================================================
