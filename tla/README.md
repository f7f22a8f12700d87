# Verification of the Wroid runtime

TLA+ models of the parts of Wroid in which several processes, threads, pages or
layers have to agree. TLC checks them on small instances; TLAPS proves the main
safety properties of eight components for every value of the constants.
`PROJECT.json` lists the components, the runs, the source lines of every
definition, the hazards, the mutants and the theorems.

Run a model with `tlc -config X.cfg M`, a proof with `tlapm M.tla`.

## 1. The system

A game session involves six processes, and a Hub with its pages around them:

```
Hub / CLI --IPC--> wroidd --fork--> worker (launch-v2) --evdev/uinput--> kernel --> Android
   |                 |                   ^        |
 pages               +-- broker thread --+        +-- ticket --> detached watchdog
(Hub, Studio)                |      (socketpair: Open, Verify, Finish)
                             +--pipe--> root helper --> LXC config, node ownership, lxc-stop
```

| Component | State | Operations | Correct when |
|---|---|---|---|
| Touch engine (`wroid-runtime/src/lib.rs`) | active contacts and positions | submit, begin, move, end, cancel_all | the state is what the backend accepted |
| Uinput injector (`wroid-inject/src/{injector,translate,transition,state}.rs`) | slot table, count | inject_frame | the kernel device shows the table |
| Session metrics (`game_session.rs`) | contacts, peak | inject | counts what the engine holds |
| Mouse aim (`mouse_aim.rs`) | active contact, position, residual, gap | activate, move, tick, deactivate, cancel | at most the contact it knows is down |
| Input runtime (`game_session.rs`, `profile_controls.rs`, `joystick.rs`) | held inputs, layers, engaged roles, aims | handle key, mouse, tick, suspend, stop | Android's fingers are what the bindings ask for |
| Event loop (`game_session.rs` 972-1542) | capture, focus, mode | focus, F12, exit hotkey, mode changes | input is captured only while the game has focus and the user wants it |
| Reader threads (`game_session.rs`) | grab, forwarding | capture and forward commands, failure, end | they follow the loop; a device is given back when its reader ends |
| Focus relay (`kwin_focus.rs`, `FocusConnection`) | KWin's script, last focus, client, files | start, report, accept, stop | it knows the active window and leaves nothing behind |
| Cursor overlay (`cursor_overlay.rs`) | surface, input region, sprite, button | enable, show cursor, configure, click, stop | it shows what was asked for; a touch has a cause |
| Daemon records (`wroid-daemon/src/lib.rs`) | session id -> state, pid | prepare, start, mark_*, stop | records follow the lifecycle and the processes |
| Daemon loop (`ipc.rs`, `bin/wroidd.rs`) | socket, lock, stop flag | bind, accept, dispatch, reply, reap, drop | every request ends; supervision lasts |
| Worker processes (`process.rs`) | children, broker threads | launch, request_stop, reap, drop | one child; none is lost |
| Bridge broker (`bridge_broker.rs`) | Initial, Opened, Verified | Open, Verify, Finish, deadline, end of file | the helper is always ended; the answer is true |
| Root helper (`privileged_bridge.rs`, `waydroid_bridge.rs`) | lease, include, managed config, node ownership | recover, install, verify, force stop, restore | the host is as before after every orderly end |
| Waydroid session (`waydroid_session.rs`) | container, render size properties, nested display | start, configure, restart, confirm, stop | the container runs with this session's node, at the size asked for |
| Live tools (`live_keyboard.rs`, `live_mouse_aim.rs`) | the same host state, fingers | run, Esc, Ctrl+C, `--cleanup` | nothing is left unsaid |
| Launch request (`hub.rs`, `cli.rs`, `runtime_daemon.rs`, `process.rs`, `play_v2.rs`) | options, profile, devices, releases | ask, dispatch, spawn, choose, run | what runs is what was asked for |
| Launch transaction (`launch_v2.rs`) | lease, record, ticket, desktop session | launch, stop, restore | the desktop session comes back |
| Daemon client (`runtime_daemon.rs`) | frozen daemon, resume watchdog | start on demand, replace | one daemon; no game lost; nothing frozen |
| Profiles (`wroid-core`, `profile_controls.rs`) | profile files | validate, materialize, write, seed | what is saved is whole and can be played |
| Controls Studio (`editor.rs`, `assets/editor`) | document, drag, preview, background | edits, save, test, capture | the page tells the truth about file and runtime |
| Hub (`hub.rs`, `assets/hub`) | seen host, resolution, package tickets | report, launch, sideload, stop | the page offers what the Hub does; a package is decided once |
| Graphics and compatibility (`graphics.rs`, `compatibility.rs`) | `waydroid.cfg`, backup | report, GPU setup | a setup is a transaction |
| Helper installation (`system_helper.rs`, `desktop.rs`) | staged release, installed helper | deploy, install, validate | the helper is the release that was read |
| First-generation profiles (`wroid-core/src/lib.rs`, `registry.rs`, `profile.rs`, `scaling.rs`) | profile files, registry | import, create, export, rename, edit, scale | a command keeps its word, alone or beside others |
| Terminal play (`run.rs`, `interactive.rs`) | terminal, joysticks, ticks | launch, keys, swipes | sticks follow the keys; the terminal is given back |
| Prompts, ADB and Waydroid wrappers | command output | commands | mostly I/O; see section 8 |

What is hard to test here: the layers of the touch pipeline commit one after
another and the last one can fail; a key may change layer, modifier and several
fingers at once, and every one of its frames may be refused; the daemon is one
thread that reaps, joins, dispatches and answers while workers exit, clients leave
and signals arrive; helper, launch, GPU setup and render size change several things
on the host one after another and can be killed between any two; the same rules are
written twice, in Rust and in the pages' JavaScript; files are shared by processes
that do not know of each other; and the event loop is fed by four threads in any
order. The full list is under "hazards" in `PROJECT.json`.

## 2. Modules

| Module | Models |
|---|---|
| `TouchEngine` | operators on the engine's contact state: validation and commit of a frame |
| `TouchPipeline` | engine, metrics wrapper, injector and kernel device, one action per engine operation |
| `MouseAim` | operators: what each operation of the aim controller leads to, refused frames included |
| `UnifiedRuntime` | the runtime of a session over any control plan; uses `MouseAim` |
| `InputSession` | event loop, keyboard and mouse readers, focus reports, cursor overlay, and what the loop looks at of the runtime |
| `CursorOverlay` | the overlay's thread, the session's handle to it, and Gamescope |
| `FocusRelay` | the relay's thread, KWin, the worker that starts it, and the session's reader |
| `SessionLifecycle` | abstract: what the daemon promises of session records and managed processes |
| `DaemonSessions` | serve loop, records, children, broker threads, clients, signals, crash and restart; implements `SessionLifecycle` |
| `BridgeSession` | worker, broker thread, root helper, host configuration, container |
| `RenderSize` | the render size of a session, from the first boot to the second |
| `LiveTools` | the live keyboard and the live mouse aim, side by side on one host |
| `LaunchRequest` | what a launch asks for, through request, daemon and worker's command line to the session |
| `LaunchTransaction` | launches, tickets and watchdogs, lease, session record, Hub stop, desktop session |
| `DaemonUpgrade` | clients that start or replace a daemon, with the resume watchdog |
| `ProfileRules` | operators: the three validators and the materialization of a profile |
| `StudioEditing` | every edit of the Studio page, judged by `ProfileRules` |
| `StudioPreview` | the page's own interpretation of bindings, beside `UnifiedRuntime` |
| `ProfileStore` | profile, backup and variant files, written by editors and Hubs |
| `StudioBackground` | the calibration image, captures and uploads |
| `Preferences` | the preferences file and its writers |
| `ProfileRegistry` | the commands on first-generation profiles as programs of system calls, one process each |
| `InteractivePlay` | `wroid play` and `wroid run`: terminal, key events, joysticks; over `ProfileRegistry`'s profiles |
| `HostReports` | operators: what the reports and the launch preflight conclude of a host |
| `HubPage` | the Hub's page over `HostReports` |
| `ApkSideload` | upload, install, discard and worker of a package |
| `GpuSetup` | the GPU setup |
| `HelperInstall` | deployment of releases and installation of the root helper |
| `TouchPipelineProofs`, `DaemonSessionsProofs`, `BridgeSessionProofs`, `InputSessionProofs` | the theorems of the module each is named for |
| `LaunchProofs` | those of the commands: launch transaction and launch request, terminal play, commands on profiles |
| `SessionProofs` | the theorems of runtime, preview, relay and overlay |
| `HostProofs` | those of render size, upgrade, helper, packages, live tools, page and GPU setup |
| `StudioProofs` | those of preferences, background, stored profiles and editing |
| `MC...` | instances for TLC |

`DaemonSessions` and `BridgeSession` describe the same broker thread from two
sides. In `DaemonSessions` it is a thread that ends some time after its worker;
`BridgeSession` models what it does, and its `BrokerReturns` (half of
`NobodyWaitsForEver` in `MCLive`) is what justifies the
fairness `DaemonSessions` assumes of it. In the same way `InputSession` keeps of the
runtime what the event loop looks at, and `UnifiedRuntime` models the rest;
`LaunchTransaction` keeps of the game's helper that it stops what runs, and
`BridgeSession` models the helper; `RenderSize` is the middle of the start that is
one step of `BridgeSession`'s worker. `InputSession` takes the overlay's clicks and the
relay's reports as they come; `CursorOverlay` and `FocusRelay` model where they come from.

Parts that share no state are checked side by side in one run: `MCSession`, `MCLive`,
`MCStudio` and `MCHost` have a variable `part`, chosen in the first state, that says which of
their modules acts. The others stutter, so that the states add up and do not multiply.

### TouchPipeline

`active` is `TouchEngine.state`, `slots` the injector's `SlotState`, `metrics` the
contact set and peak of `SessionMetricsInjector`, `device` what the kernel has
applied, `result` what the last submit returned. `Submit` follows the code: validate
against the committed state; plan the slots (`NextStateError`, the errors in the
order of `next_state`); look up each event's slot before or after the frame
(`EmitSlots`); emit; then commit slots, metrics and engine. The emit may fail with
every layer unchanged. Frames have the three shapes the code builds: one event, the
two-event recentering frame, and the frame that cancels all contacts. That last one
is given in closed form (`CancelState`, `EmitCancel`), since the events of distinct
contacts commute. Points are model values, one of them outside the screen.

### UnifiedRuntime and MouseAim

A plan is what `profile_controls.rs` makes of a profile: controls (tap, hold,
joystick, toggle joystick, aim), each in a layer, maybe behind a modifier, and layers
that are held or toggled. `held`, `layers`, `engaged` and `aims` are the runtime's
fields; `finger` is what is down on the engine, which is more than the runtime knows
after a refused frame. An event's handler is a numbered list of steps; `At(c)` is the
runtime after the first c of them, and a refused frame ends the handler there: the
code returns with `?`, the session ends, and `StopRuntime` cancels every contact.
`MouseAim` gives an operation by its outcomes in the same way: `done`, whether it
`fits` the slots, and the controllers that a refused frame leaves behind.

`HandOffFits` makes no promise about a joystick held in opposite directions only, before
or after the change: it is engaged and touches nothing, so that letting go of one direction
puts it down before the holds are lifted, and taking a second one lifts it only after the
holds before it are down. On a full touchscreen either may want a slot more, in the code as here.

Directions stand for the points of a joystick. An aim has one axis, a region of five
positions, and a sensitivity that is a fraction whose remainder is carried.

### InputSession

`at` is the position in `run_event_loop`: its top, the emptying of the report
channel, the wait for a host event, the middle of a key batch, past the loop, and
after `runtime.stop`. The loop's variables are `active` (`input_active`),
`protected` (`focus_protected`), `focused` (`waydroid_focused`), `released`
(`manually_released`), `saw` (`saw_focus_event`), `ctrl` (`control_pressed`), `mode`
and `before` (`toggle_aim_active_before_release`). `kbd` and `mouse` are the readers:
whether they run and forward, what they believe of their grab, and whether the device
is grabbed. `wanted` is history: the toggle aims the user switched on last. There is no
clock: `FocusDone` may find the grace period of a silent relay over (`FallBack`) or
not.

`ReleaseInputToOs`, `ApplyInputMode` and `CaptureInput` are the functions of those
names; `FocusGained`, `FocusLost`, `RelayGone`, `FocusIgnored`, `RelayIsSilent` the
branches of the report loop; `HandleF12`, `DropKey`, `ExitHotkey`, `HandleKey` and
`SyncMode` those of a key batch. Every one of them may meet a reader that fails, and
then ends the loop with the commands to the readers partly obeyed.

What is abstracted:

* The runtime keeps the inputs it believes held, the active aims and the cursor's
  contact. What a failing frame leaves half done is the subject of `UnifiedRuntime`;
  here `StopRuntime` suspends the runtime in any case.
* A physical event and its reader's read of it are one step, so the queue is the only
  place where events wait. Where a batch of keys ends is chosen when the loop takes
  it; a batch of the mouse is one event.
* The session has a mouse, the set-up has succeeded, and signals and the time limit
  are one action (`Interrupted`). The loop keeps a sender of its own channel, so it
  never sees the channel disconnected.

`CaptureIsConsistent` speaks of the grab only for sessions that allow it, since
without that the code does otherwise (section 4).

### CursorOverlay

`handle` is the session's `CursorOverlay`: where it is in `spawn`, in a command or in
its destructor, what it was last told is so, and what may have become so since
(`regions`, `cursors`: a command that timed out stays in the channel). `overlay` is
`OverlayState` with the thread's position: connection, globals, roundtrips, mapping,
emptying of the channel, dispatch. `committed` is the surface as Gamescope has it.
Gamescope configures, closes, gives and takes the seat's pointer and sends its events
through `wire`. A
cursor on a surface narrower than the sprite aborts the session (`Fits`): `i32::clamp`
panics when its bounds are crossed, and the release profile aborts. `orphaned` is
history: the pointer was taken away while its button was down, the one case in which
the promise of the comment at line 854 is not kept (section 4). One axis stands for two.

### FocusRelay

`relay` is the thread of `run_relay` with its last focus and what came through the
channel in this turn; `plugin` is what KWin has of the script, `reports` its calls on
the bus, `line` the socket. `DescendsFrom` climbs a process tree with a bound, as
`process_descends_from` does; `Family`, in the property, is the same by definition.
`StartRelay` may give up while the thread still starts. `HandleClientCommands` always
ends the loop: `set_read_timeout` refuses a timeout of zero. What follows it in the code
(the client's commands, `warp_cursor`, writing a focus to a client) is never reached.

### DaemonSessions

`phase` is the position of the daemon's only thread: top of `serve_until`, in the
join of a reaped child's broker, in accept, in `write_response`, or in the
destructors. A request is dispatched in one step, because nothing else of the
daemon runs meanwhile. What interleaves is what other processes do between these
positions: workers exit, brokers return, clients connect or give up, signals
arrive, the daemon is killed (`Crash`) and another one binds (`Bind`). `GiveUp`
stands for the 3 s read timeout, a closed Hub and a killed client. `Reply` is the
place where an error ends the loop. `WorkerExits` leaves the exit status open;
"term" (death by SIGTERM) may come from a signal that the daemon did not send.
After one second in the destructor a child is killed; the model lets `KillChild`
race the worker's own exit.

### BridgeSession

One worker, broker, helper and touchscreen node per session. The worker follows
`run_game_session` with a broker. The broker has the three `ServerState`s in which
it reads, three states in which it waits for the helper, and two in which it drops
it. The helper has one step for every change another process can see: the lease, the
include, the managed config, the node's ownership. Each step may fail as the code
handles it, and the helper may be killed before any of them. The container boots
with whatever the configuration says at that moment; a desktop user can start or
stop it at any time. `failed` and the ways a helper ended are history kept for the
properties. A failed restore is tried once more by the destructor, which is folded
into `DropManaged`. Android is asked for the touchscreen by name, so `VerifyInput`
accepts any node of that name that still exists. The root (in-process) variant of
the session installs the same guards without a broker; the live tools have that
shape.

### RenderSize

`props` is what Waydroid's two properties persist, `android` the size it booted with
and whether it has said "ready", `session` what the session object has heard and the
output of its own child, `nested` the displays of running Gamescopes. A session boots,
waits, compares, writes width and height (each may fail, or fail after it was written),
reads them back, rolls back what it has written if one is wrong, stops, boots again and
confirms. The worker may be killed and a user may stop Android at any
time. Gamescopes of other programs are left out.

### LiveTools

Both tools follow one ladder: lease, touchscreen, bridge files, boot, live session, then
finger, container, files, lease, whichever step fails. `tool[t]` has the position, the
reader thread, the finger the engine holds and whether a refused frame has left it, what
the tool has said, and what it failed to take back. `--cleanup` is a start of its own.
The tools share files, container and lease, so that one may find what another left.

### LaunchRequest

A launch is one record that moves from place to place (`at`): asked of the Hub, a
terminal or the diagnostic program; a request; the daemon that prepares, links and spawns;
the worker that parses its command line, takes the profile and chooses devices; the live
session. `options` are written into three forms, each translated as the code writes it
(`HubOptions`, `OptionsOf`, `LaunchArguments`), with switches that say what is *not*
wanted. The profile is loaded by the client, the worker, `play_v2` and the session;
devices are looked for by the Hub and by `play_v2`, and opened by the session; meanwhile editors save, cables are
pulled and new files `wroid` and `wroidd` are installed, one after the other. `LinkWorker`
and `SpawnWorker` are the two halves of `ManagedProcesses::launch`: the link of the client's
file, and the start of what is at its path by then. The histories `loads` and `stale` say who has loaded the
profile and for whom it has changed since, so that the property can say "unless it was
saved meanwhile", which the code does not rule out. A width stands for the height as well.
`LaunchTransaction` models what a worker does around the game, and `DaemonSessions` what
the daemon does with its record.

### LaunchTransaction

A launch is a worker process: it locks the lease, writes the record, arms a ticket,
starts its watchdog, notes whether Waydroid runs, stops it, plays, and goes back; the
phases of the ticket are those in the file. Every step may fail, and the worker may be
killed between any two; then the watchdog looks at the phase and at Waydroid and
restores. Identifiers are reused, so that a record or a ticket may name somebody else.
Waydroid does not tell a desktop session from a game's, which is the reason for the
history `debt` (a desktop session was taken down and has not been there since) and
`excuse` (the code has taken a game's session for the desktop's, or has stopped a
desktop session that somebody started after it had asked).

### DaemonUpgrade

`ensure_running`, `replace_stale_daemon` and the launch that follows, for clients of
two releases. A daemon has a position from its boot to its end, a request it has taken,
a game and the signals it has got; `frozen` is SIGSTOP. The resume watchdog is the
process that sends SIGCONT when its client dies. Daemons and clients may be killed.

### Profiles and Controls Studio

`ProfileRules` has the Rust validator (`RustAccepts`), the page's (`JsAccepts`) and the
materialization with the control plan (`PlanBuilds`), with coordinates in thousandths and the roundings of
the code. `StudioEditing` starts from opened profiles and applies the page's edits,
dragging included; undo leads to documents seen before. `StudioPreview` runs the page's
preview and the runtime's interpretation on the same events. `ProfileStore` has the
files as inodes and names: a document is staged in a file named after the process and
renamed, and a thread keeps writing to the inode it opened. `StudioBackground` and
`Preferences` have the page's asynchronous requests.

### First-generation profiles and terminal play

A command of `ProfileRegistry` is a list of system calls (`Program`), taken one by one
by its process: look whether the target is there, load, edit, truncate, write, rename.
Any call may fail and the process may be killed before any of them. `names` leads from
paths to `files`, so that a process goes on writing a file whose name has gone, and two
that write one file may leave a mixture (`Scrap`). Paths are `<<directory, id>>` for the
registry, which `RegistryDir` finds from the environment, sudo's included, or what was
typed. Screens, points and radii are small numbers with the code's rounding.
`disturbed` is history: the paths whose file or content others changed while a command ran;
the property makes no promise about those. `Promised` is what the command does when it is alone,
written without the calls; an export onto the profile itself empties it, there as in
the code (`fs::copy` truncates its target first). A listing (`Entries`, `Look`)
reads the names first and each file in its turn; `ListingIsComplete` says what it then
shows. Names are compared as they are spelled when a binding is added and without the
space around them when a profile is validated; keys are normalized as they are added.

`InteractivePlay` loads such a profile, scales it, launches the game for the right user
and takes one event of the terminal in each turn. Time passes only in `poll` and while a
shell command runs, and is what the ticks of the sticks lose; a poll waits as long as the
next tick allows, or late by `MaxLate`. A terminal tells of
releases only if it is able to and the flags were pushed, and of nothing while it has not the focus.
A stick is known by the number of its binding, and the swipes that are due are carried out in
the order of those numbers.

### The Hub

`HostReports` is what `graphics.rs`, `compatibility.rs` and the preflight of
`handle_action` conclude from a host; `HubPage` is the page, which knows the host by the
last state it loaded. `ApkSideload` has the four files of a ticket, the request threads,
the detached workers, the page and the cleanup of a Hub that starts. `GpuSetup` has the
file, its backup, Waydroid's generated configuration and the desktop session.
`HelperInstall` has the staged release, the installed file with bytes, owner and mode,
the installers through pkexec (one at a time, from a sealed memory file) and sudo (from
the staged file), and install(1) in its own steps.

## 3. Runs

| Run | Instance | Shows | States |
|---|---|---|---|
| `session` | side by side: the runtime (six plans: layers and siblings; stacked layers; a shooter's aim and joystick; an aim with a gap; two aims; none), 3 slots, any frame refused; the overlay (extents below and above the sprite, 2 spots, 2 commands, 4 events); the relay (Waydroid's window, a stranger's, a grandchild's of the worker, one of no process; 2 switches, any refusal); launches (2, alike; 6 kinds of request, at the ends of what is allowed and beyond; 3 contents of the profile, 4 devices, 2 releases, 1 change) | Android's fingers are the bindings'; an input has one owner and a hand-over fits the slots; nothing outlives the session; the overlay and the relay do what they were asked and leave nothing; a launch becomes the session that was asked for | 815,600 |
| `input_session` | keys C and Ctrl, a toggle aim, overlay; 2 events, batches of 2, 1 report | loop and readers agree on who owns the input; the last report decides; nothing is left behind; input can always be recovered | 7,815,220 |
| `daemon_sessions` | 2 clients, 2 ids, symmetric | records match children; no abandoned worker; a failed broker shows as a failed session; `SessionLifecycle` is implemented | 555,942 |
| `bridge_session` | 2 sessions, symmetric | the served bridge is its own; the include always resolves; success means restored | 1,954,495 |
| `live` | side by side: the daemon with 2 clients and 1 id; 1 bridge session; an input session with 1 key, with and without a relay | nobody waits for ever (every request ends, the broker returns); the desktop gets its devices (a silent relay falls back, every end gives them back) | 107,986 |
| `launch` | 2 launches, identifiers that may be reused, 1 crash or failure, 1 act of a user, Hub or stranger | a desktop session taken down stays owed to a live watchdog; the Hub signals the recorded process only; the desktop comes back | 336,552 |
| `studio` | side by side: preview (seven plans); store (editor and Hub, two editors, two Hubs; 2 edits, 1 I/O error); editing (2 edits of 4 profiles); preferences (2 pages, 2 settings, 2 changes each); background (2 images, 2 captures, 2 requests); commands on profiles (2 processes, every command); terminal play (two sticks that share keys with each other and with taps; actions it does not carry out, under sudo; a torn profile; 3 keys, 4 key events) | the preview shows the runtime; what is on disk is whole, SYNCED is true and existing profiles win; valid profiles can be saved and played, and routine edits keep them so; preferences merge; the background on the page is the one on disk; commands keep their word; sticks follow the keys | 1,179,572 |
| `host` | side by side: touch pipeline (4 contacts, 3 slots, 2 points on and 1 off the screen), page (6 hosts), sideloading (1 ticket, 2 threads, 2 workers, 2 faults), upgrade (2 clients, 3 daemons, 1 crash), GPU (3 machines, 2 terminals, 1 mishap), helper (2 installers, 1 deployment, 1 kill), live tools (one of each kind, 2 failures, 2 kernel events), render size (2 widths, 2 heights, 2 sessions, 3 failures) | engine, slot table and device agree after every frame, refused ones included; the page offers what the Hub does; a package is decided once; one daemon serves, its upgrade is gentle; a GPU setup is a transaction; the helper is what was read; a live tool leaves nothing unsaid and ends on Ctrl+C; a game has its size | 490,105 |
| `bridge_daemon_dies` | 1 session | violation: section 4, finding 1 | |
| `launch_loses_desktop` | 2 launches, 1 fault | violation: finding 2 | |
| `stale_socket` | 1 client, 2 daemons, 1 crash | violation: finding 3 | |
| `focus_relay_ends` | the relay of `session` | violation: finding 4 | |

Why the bounds are enough.

* Touch pipeline: four contacts on three slots is the smallest instance in which the
  table is full with a contact left over and the recentering frame meets both a full
  table and one with a single free slot; a frame touches at most two contacts or all.
* Runtime: the plans cover each kind of control, in and outside layers, behind and
  beside modifiers, sharing keys in every way `validate` allows; an aim that
  swaps beside a hold and a tap wants more than three slots, so that frames are refused
  for want of a slot as well as by the backend. A control, a layer and a modifier act on others only through
  shared inputs, of which pairs and triples occur.
* Overlay: two commands are a late one and the one that overrules it; four events make a
  pointer enter, press and be lost, or a surface be resized between two cursors.
* Relay: one step below, at and above the worker in the tree of processes, and two
  switches, so that reports queue behind a turn of the loop.
* Launches: two, because wroidd serves one and owns one worker, and the second meets the
  first; each option at its ends and once outside; one change in the course of a launch is
  enough for each thing that may be stale.
* Input session: two waiting events are the least in which an event outlives another
  that changes hands, and in which a batch holds F12 with a key before or behind it.
  One waiting report is enough: reports are handled one by one, and the next may
  arrive as soon as one is taken. One toggle aim is enough, since aims change together
  or each by its own key. A session that grabs without a relay behaves as a protected
  one whose relay has gone.
* Daemon: two clients, so that one can leave while the other's request is behind it in
  the backlog; two ids, so that a second launch meets the first, and a new daemon's
  session can coexist with a worker the old daemon lost.
* Bridge: the second session starts after the first, or while the helper of a dead
  daemon still runs; a third would meet the same lease.
* Liveness uses one id or session: helpers do not wait for each other (the lease is
  tried, never waited for), and the daemon joins one broker at a time.
* Launch: the second launch is the one that meets what the first has left; a fault and
  an act, in either order, are enough for every way in which a debt arises.
* Studio: two writers meet in every pair of roles the program has; two edits are an
  edit before and one during a save. The four profiles (empty; spaces and
  capitals; two layers and a chord; a macro) reach each rule of the validators within
  two edits, with the limit of 64 layers scaled to 3.
* Commands on profiles: two processes are every pair of commands, on the same and on
  different files; the profiles hold points at the edge, a radius that rounds to nothing,
  an unsupported action, a duplicate but for spaces. In play, a cluster shares a key with
  a tap, and a tick may fall before, in and after a swipe.
* Host: for every part two actors and enough faults for one in each. The page, package
  and helper have one cell of shared state that a third actor would find as the second
  did. Two live tools are both kinds; a failure of the second meets what the first left.

Counters: a client has one request at a time, so the backlog is at most the number of
clients, and a session is used once. Constants named `Max...` bound, in the guards,
queues that are unbounded in the code (`MaxQueue`, `MaxBatch`, `MaxFocus`,
`MaxRequests`), processes (`MaxLaunches`, `MaxWroidds`, `MaxRuns`, `MaxSizings`,
`MaxStarts`, `MaxDeploys`) and faults or acts (`MaxFaults`, `MaxActs`, `MaxCrashes`,
`MaxMishaps`, `MaxKills`, `MaxSlips`, `MaxKernelEvents`, `MaxSizeFaults`, `MaxEvents`,
`MaxChoices`, `MaxChanges`, `MaxRelease`, `MaxEdits`, `MaxAsks`, `MaxSent`, `MaxSwitches`, `MaxTyped`); `MaxResidual` bounds the motion buffered in an
aim's gap. Deadlock is checked where the system never comes to rest (`daemon_sessions`,
`input_session`); elsewhere all sessions,
launches or processes may be over.

Every property of a passing run has a mutant in `PROJECT.json`: a variant of a
mapped definition, kept beside it, with a plausible mistake, under which TLC finds
the property violated.

## 4. Findings

1. *The bridge survives the daemon's death* (`bridge_daemon_dies`). If wroidd dies
   while the helper installs the bridge, `println!` of the READY line
   (`privileged_bridge.rs:291`) panics, and the release profile aborts on panic: no
   guard runs, and include, managed config and node ownership stay until the next
   session's recovery. The bridge-helper design
   (`docs/superpowers/specs/2026-08-09-daemon-owned-bridge-helper-design.md:98-100`)
   says the helper sees end of file and removes the bridge.
2. *The watchdog's restore is undone by the helper* (`launch_loses_desktop`). After a
   crash of the worker the watchdog starts the desktop session as soon as Waydroid is
   stopped and removes its ticket (`launch_v2.rs:1380`); the root helper of the same
   game, at the end of its pipe, stops whatever runs (`privileged_bridge.rs:404-416`).
   When the helper comes second the desktop session is gone and nobody owes it.
   `README.md:215-218` says the watchdog "performs the same restoration if the worker
   crashes".
3. *A killed daemon blocks the next* (`stale_socket`). `ensure_running` takes the
   socket file of a killed wroidd for a running daemon, and a ping that fails ends the
   call (`runtime_daemon.rs:263`) before one is started; only a daemon that starts
   removes the file. `README.md:580` says "`session prepare-v2` starts `wroidd` on
   demand".

4. *The focus relay ends with its first client* (`focus_relay_ends`).
   `handle_client_commands` calls `set_read_timeout(Some(Duration::ZERO))`
   (`kwin_focus.rs:206`), which the standard library documents to be an error, and passes
   it on: the loop ends in the first turn that has a client, and the session, whose first
   line never comes or is followed by the end of the socket, is left to the manual
   hotkey. `README.md:402-404` says "`launch-v2` also tracks the active KWin window:
   switching away from Waydroid immediately cancels touches".

Divergences met on the way, without a run of their own:

* *A client can end the daemon.* `serve_once` (`ipc.rs:333`) passes on the error of
  `write_response`, `serve_until` ends on it, and dropping the server terminates the
  game. It takes a client that leaves before its answer is written.
  `README.md:194-195`: "closing the Hub does not orphan process supervision".
* *`--no-grab` ends with F12.* Recapture tells the keyboard's reader to capture
  whatever the option says (`game_session.rs:1328`), and the reader then grabs the
  device; the comment at line 978 says the option turns the grab off.
* *A toggle aim switches itself on.* A release notes whether any aim is active
  (1230, 1316), and an always-on aim counts. Recapture then activates every aim. The
  comment at 1735-1737 says that this is avoided.
* *The cursor's touch stays down.* Holding the click and pressing the toggle key
  leaves UI mode without lifting the contact (1077); in aim mode the button's release
  goes elsewhere. `docs/input-model.md:58-60`: a contact is released "whenever its
  action key goes up".
* *A stale key stays held.* A press that waits in the channel while the focus goes
  and comes back is handled after the recapture; its release happened while the
  desktop had the keyboard and was not forwarded (`game_session.rs:1366`). The same
  lines of `docs/input-model.md`.
* *A broker nobody owns.* `launch` starts the broker thread and can then fail before
  the spawn (`process.rs:122-138`), which drops the join handle. The thread ends by
  itself when it sees the closed channel, but the bridge-helper design says "No error
  path may leave the bridge broker detached".
* *A failed cleanup is not reported.* When the worker ends without Finish, the broker
  returns `Ok` (`bridge_broker.rs:297`) and the helper's exit status is discarded in
  the destructor. The design says that cleanup failures are not hidden.
* The same design gives the initial `open` five seconds (line 108), the code 120
  (`INITIAL_OPEN_TIMEOUT`).
* *Two tabs of one editor share a temporary file.* Its name has the process in it and
  not the request (`profile_v2.rs:40`), so that two saves at once can rename a torn
  profile into place: `StoreIsTruthful` fails with `Slots = {1, 2}`.
* *A launch between the count and the stop.* A launch that the frozen daemon has
  accepted and not yet dispatched is not a child when the client counts
  (`runtime_daemon.rs:389`); the daemon dispatches it when it is resumed, and the
  SIGTERM that follows stops the game.
* *The pointer that goes keeps its contact.* When Gamescope takes the pointer from the
  seat, the overlay releases the pointer and not the contact its button holds
  (`cursor_overlay.rs:728`); the comment at 854 says "so we never leave a stuck touch".
* *A narrow surface ends the session.* `clamp(0, width - 12)` (`cursor_overlay.rs:532`)
  panics below 12 pixels, and the release profile aborts.
* *A sensitivity that no plan has.* The validators accept any positive sensitivity
  (`profile_v2.rs`, `profile-model.js`), but `materialize_mouse_sensitivity`
  (`profile_controls.rs:593`) refuses one that rounds to less than a thousandth or to more
  thousandths than a `u32` holds. The page's setter bounds what is typed from below only
  (`app.js:984`), so that a valid profile with such a number cannot be played. The theorems
  about editing assume that no such number is opened or typed.
* *An export onto itself.* `wroid profile export --force` to the profile's own file
  truncates it (`registry.rs:271`).
* *A signal leaves a raw terminal.* Terminal play restores it by a destructor, which
  a signal other than the key Ctrl+C skips.
* *Two GPU setups at once* (`graphics.rs:454`) work on the same file and session;
  the property excludes them (`disturbed`), since nothing in the code does.
* *The nested display is learnt before the restart.* The second boot takes the lowest
  free name again; if another Gamescope ends in between, that is another one, and the
  overlay looks for the old one. `RenderSize` has no Gamescope but the session's.

## 5. Fairness

Nothing is assumed of players, users, clients' patience, crashes and failures anywhere.

* `DaemonSessions`: weak fairness of the daemon thread's steps (it never waits on a
  lock of another thread), and of the end of a broker thread whose worker is gone
  (shown by `BridgeSession!BrokerReturns`). That a worker acts on SIGTERM is assumed
  nowhere: the code sends no SIGKILL after a Stop request.
* `BridgeSession`: weak fairness of broker and helper steps, nothing of workers or the
  deadlines. The commands the helper runs (lxc-stop, getevent, dumpsys) have timeouts
  or retry limits and are single steps that may fail.
* `InputSession`: weak fairness of the loop and of the readers once their channel is
  closed; strong fairness of the end of the report loop (`FocusDone`), which new
  reports disable for a moment only, because the loop empties the channel faster than
  windows change; and of the fallback there, since the grace period passes while the
  loop comes by again and again.
* `LaunchTransaction`: weak fairness of a worker's steps except the game itself (`Play`,
  which ends when the player wants), of a watchdog's steps, and of the helper's end of
  file. These are processes that run alone and wait for commands with timeouts.
* `DaemonUpgrade`: weak fairness of daemons, of clients and of the resume watchdogs.
* `LiveTools`: weak fairness of a tool's own steps. Its reader may wait forever for an
  event: that Ctrl+C ends the session all the same is `InterruptEndsSession`.

The other modules have safety properties only. `MCLive` and `MCHost` state the same
fairness for the part that acts.

## 6. Proofs

Each proof module defines an inductive invariant, shows that Init implies it and
that every action preserves it, and derives the properties.

* `TouchPipelineProofs` (any contacts, points, slot count >= 1; assumptions: the
  sentinels are not contacts or points, contacts are finite, on-screen points are
  points). `PipelineInv` is inductive as a whole but no part is by itself: the device
  is right only if the count is, the count only if contacts are in one slot each, and
  the injector's planning cannot fail only because it agrees with the engine. Lemmas
  treat one event (`DownStep`, `MoveStep`, `LiftStep`, `DeviceStep`), then the frames,
  then `Submit`. `LayersAlwaysAgree` is what the run of `host` checks.
* `DaemonSessionsProofs` (any clients and ids, no assumptions). `DaemonInv` adds to the
  properties where the thread may be with what in `serving`, that a child's worker is
  never "none", and that children are at most one as a quantified statement
  (cardinality is derived at the end). `DaemonImplementsLifecycle` maps every step to
  a step of `SessionLifecycle` or a stutter. `BrokerFailureIsAlwaysReported` is an action
  property: of all steps only the join looks at a broker's result.
* `BridgeSessionProofs` (any sessions; `None` is not one). `BridgeInv` says who holds
  the lease (exactly the helper in a leased state), and for every position of that
  helper what include, managed config and ownership are, unless an operation failed.
  `SuccessRestores` follows because `failed` is empty for a helper that succeeds.
* `InputSessionProofs` (any keys, buttons, aims, options and bounds, under the named
  assumptions of the module: the kinds of input are distinct, the relay is asked for
  only if grabbing is allowed, the bounds are positive). `Inv` adds to the properties
  what they rest on. `DevicesKnown`: the mouse's reader leaves the device alone if it
  believes the grab is right, so its belief must be true. `FocusFollowed`: the last
  waiting report is the desktop's state, and the loop follows those before it.
  `Resting` and `Playing`: what a release writes down (`mode`, `before`) is what
  recapture needs to find every wanted aim and the mode that fits. `BatchFits`: the
  keys of a batch are the head of the queue.
* `SessionProofs` (any plan that `IsPlan` accepts, any touchscreen, frame refused and answer
  of the desktop).
  * Runtime: `RuntimeInv` is the types, which control may have which role, and, while the
    session is up, that every control is `Settled` (engaged by exactly what is available to
    it), every finger follows its control, every aim has one finger and all fit the slots.
    Handlers are followed step by step (`At(c)`); one aim's operations are lemmas of their
    own. `AdmissionIsAlwaysSound` then needs `Settled` and what validation says of shared
    inputs for one owner each, and for the hand-over that lifts come before presses.
  * Preview: `PreviewInv` says that the inputs held are the ones the preview has
    (`HeldIn`) and its active layers those of the runtime (`LayersOn`).
  * Relay: `RelayInv` says that KWin runs the script while the relay listens (`ScriptIsThere`),
    that the last report waiting, or else what was heard, is the active window
    (`RelayHears`), and that an end takes files and script back, unless KWin refused (`CleanEnd`).
    `RelayIsAlwaysTrue` assumes `ClimbIsExact`: that the climb through the processes finds
    an ancestor within its bound is an induction over the climb, which TLC evaluates for
    the instance (`InstanceClimb`). `RelayAlwaysCleansUp` needs no assumption.
  * Overlay: `SurfaceInv` numbers the commands on the way as the session asked them last
    (`Reckons`), so that a command that timed out is known to be among them. `TouchInv`
    says that a press on the wire is followed by what lifts it.
* `LaunchProofs` (any launches, identities, faults and acts). `LaunchInv`: a launch has its process
  identifier exactly while its process lives (`HeldWhileAlive`), whom record, helper or Hub
  name has begun (`NamedHaveBegun`), the process the Hub has opened is the recorded one, or
  got the identifier after that one's end (`OpenedIsRecorded`), ticket and watchdog follow
  the worker's position (`TicketsFollowStages`), and a debt the code can know of has its
  ticket (`DebtsAreWritten`). `RestoreIsAlwaysOwed` follows from the last two.
  For `LaunchRequest` (any launches, requests, profiles, devices, releases) `RequestInv` is a
  statement about each launch on its own, at each place of its way: the options are the ones
  that were asked for in whatever form they are (`Carried`, with `ArgumentsReadBack`: the
  worker reads what the daemon wrote), they are within the limits of the command line
  (`Lined`), record and profile agree while the file is what the client loaded (`Recorded`,
  `Moused`), and the daemon serves or owns the launch (`Served`), so that it is not replaced
  by one of another protocol. `LaunchIsAlwaysAsAsked` follows.
  The commands without a launch have parts of their own.
  * Terminal play (any profiles of the format, keys and lags). `PlayInv` says that a stick
    ticks exactly while it points somewhere (`Ticks`), that a swipe which is due goes where
    the keys of its stick point (`SwipesFollowSticks`), that nothing was typed and the
    terminal was left alone before the loop (`QuietBefore`), and that every time the loop
    waits for is a number (`Timed`). `LastEventTells` and `FirstEventTells` say what a queue
    of events makes of a key when one is added behind or read in front.
  * Commands on profiles (any processes, jobs, environments, disks and screens).
    `RegistryIsTrue` says what a command has done when it is over, so `RegistryInv` says for
    every call of its program what it has seen and what it holds (`Stage`): until it writes,
    the disk is as it was except where others were (`Sees`); what it loaded is its source's
    valid profile (`HoldsSource`), what it is about to write is what was promised (`Ready`);
    it has looked whether its target is free (`LookedAtTarget`); and the file that it writes
    is the target's, empty, with everything else as it was (`WritesTarget`). `Over` and `Lists`
    say how a command and a listing end. `Follows` has the pairs of calls that come after
    each other, `OthersFit` shows that the steps of others leave all that alone outside
    `disturbed`, and `FitFits`, for all numbers, that rounding leaves a scaled profile on the
    screen. The proof brought to light that the history has to count a path that is given
    another file with the same content: what is then written to the first file is not seen there.
* `HostProofs`, one part after the other, none of which mentions another.
  * Render size (any sizes, at least two displays): `RenderSizeHolds` needs that the
    session hears "ready" from the Android that runs (`ReadyIsHeard`), that size and
    properties part only between the writes and the next boot (`SizeIsBooted`), that the
    nested display is the first one (`OneGamescope`, `OverlayIsLearnt`), and how far a
    rollback has got (`RollbackSoFar`).
  * Upgrade (any clients, daemons, releases, crashes): `ServingInv` ties lease, socket and
    game to a daemon's position. `FreezeInv` follows a client from the freeze over the
    count to the SIGTERM: the daemon it froze is still the one it asked, held and idle
    unless somebody else has resumed it; `TermAlwaysSparesGames` follows.
  * Helper: `HelperInv` says, for each installer, that the target is its own at every
    position at which it believes so, unless somebody has meddled with the target.
  * Packages: `SideInv` is one conjunction for each ticket, which ties its four files to
    the threads and workers that hold it, and to what the page was told.
  * Live tools (any tools, runs, failures, events; keyboards are not mice): `LiveInv` is a
    statement about each process on its own: what files and container are at every position
    of the ladder while it holds the lease, what it has admitted to leaving when it does
    not, and where its finger is. Who does not hold the lease is off.
  * Page (any hosts among `Worlds`): `PageInv` says that the last choice is saved, or the
    last of the writes on their way (`ChoiceIsLast`), and that a state nobody has overtaken
    is asked for and answered with it (`LoadsTheChoice`).
  * GPU setup: `GpuInv` says of every stage what configuration, backup and desktop are
    (`StagesHold`, `BackupHolds`) unless two run at once, which disturb one another
    (`DisturbOneAnother`), or a step of one had a mishap. The action property follows for each setup.
* `StudioProofs`, in the same way.
  * Preferences: one update at a time, and nobody writes the file between its read and its
    write.
  * Background: one request at a time is alone with the file and the page unless the page
    has let two overlap.
  * Profiles: `StoreInv` says what a process's temporary file holds (`TempsFit`), that what
    is published was whole (`Published`), and what pages and threads may believe.
    `StoreIsAlwaysTruthful` is proved for one thread in each process; with two it is
    false (section 4). `LinksNeverReplace`, that existing profiles win, holds for any
    number of threads and rests on the types alone.
  * Editing (any names, keys, buttons, numbers, screens, layer bound and opened profiles).
    `TheValidatorsAgree` compares the two validators rule by rule on every document of the
    format. `ValidProfilesBuild` follows a valid document without macros through
    materialization and plan: no rounding makes an action unfit, whatever the screen's sides.
    `EditIInv` says that the page's document is one of the format (`EditTypeOK`), that a
    drag holds a control (`DragIsOnControl`), and that the sensitivities of its aims can be
    represented (`AimsFit`); one lemma for each edit keeps it, and one for each routine edit
    shows that it takes no valid profile to an invalid one.

What is assumed of constants is stated in the modules and evaluated by TLC: the sentinels
are none of the values (`MissingIsNobody`, `NoImageIsNone`, `AutomaticIsSomething`), the
hosts of a page are hosts (`HostsAreWorlds`), editors, Hubs and the disk are distinct
(`StoreProcesses`), a torn or missing file is no document
(`StoreContents`), and the bounds are numbers. Of editing it is assumed that key and button
names, normalized and suggested keys fit together as `profile-model.js` and `joystick.rs` have
them (`RuleConstants`), and that what is opened or typed is of the format, with the
sensitivities that a plan can represent (`EditingConstants`; section 4 says why); of terminal
play, that what serde has read as a profile is one of the format (`PlayConstants`). Of the
commands on profiles it is assumed that what is typed has the form of a subcommand, that the
registry which the environment names is the user's, that no file of the first disk has two
names, and that what is a profile there is one of the format (`RegistryConstants`, which
also says that the words of the example are strings: the provers know no literal as one).

Only model-checked: all liveness (fairness and ENABLED are out of the prover's reach),
with it `NobodyWaitsForEver`, the return of the desktop, that Ctrl+C ends a live tool, and
the half of `UpgradesAreGentle` that something happens in the end. A bound such as
`MaxQueue` is a constant of the theorems, so they hold for queues of every length.

## 7. Plan

Done: the core (touch pipeline, daemon, bridge, input session), the runtime with its
aims, the launch around a game, the daemon's upgrade, profiles with Controls Studio,
the Hub, the host tools, overlay and relay, first-generation profiles and terminal play,
with proofs of all but what section 6 names. Next, in this order:

1. The refinement of `InputSession` by the runtime: its three variables as a mapping
   of `UnifiedRuntime`.
2. `LaunchTransaction` over `DaemonSessions`: the worker's exit as the daemon reports it.
3. `InputSession` over `CursorOverlay` and `FocusRelay`, with the overlay's contact and the
   relay's end as events of the loop.

## 8. Not modelled

Argument parsing (but for the options of a launch), prompts, listings, the storage report, doctor and diagnostics, `wroid
input`, ADB and the Waydroid and Android wrappers: sequential I/O without a protocol of
their own. Of the Hub and the editor, HTTP framing, tokens, tabs and assets; of the reports,
the probes and the parsing of their output; of the focus relay, the check
of desktop and version, and the client's commands with the warp of the host cursor, which
are never reached; of the overlay, pixels and damage. Peer
credentials, file ownership and path checks, message framing and sizes appear as
requests or steps that may be refused. Text of configs, details and logs is abstracted.
Of the input devices, the decoding of evdev reports, hot-plugging in a session and the standalone
diagnostic readers are left out; of profiles, the import of version 1 and the text
formats. See "components" in `PROJECT.json` for each part and its reason.
