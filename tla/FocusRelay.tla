----------------------------- MODULE FocusRelay -----------------------------
(***************************************************************************)
(* The focus relay of a launch (commands/kwin_focus.rs): a thread of the   *)
(* worker loads a script into KWin, which reports every window that        *)
(* becomes active over the desktop's D-Bus, decides whether the window is  *)
(* the game's, and tells the session over a socket.  The session reads one *)
(* line when it connects and leaves the rest to a thread of its own        *)
(* (FocusConnection, game_session.rs).                                     *)
(***************************************************************************)
EXTENDS Naturals, Sequences

CONSTANTS
  Windows,       \* what a window says of itself: the class of Waydroid, a process or neither
  Waydroid, Other,
  Parent,        \* the parents of the processes
  Worker, Root,  \* the worker, the first process
  MaxDepth,      \* how far the relay climbs (64)
  MaxSwitches    \* how often the user changes windows

VARIABLES
  launcher,   \* KwinFocusRelay: the worker's side
  relay,      \* the thread: where it is, and the focus it knows
  stopSent,   \* the stop channel holds a message, or has been dropped
  told,       \* what the thread has sent about its start
  relayFiles, \* files in the runtime directory
  plugin,     \* KWin's copy of the script: "none", "loaded", "running"
  window,     \* the active window
  reports,    \* callbacks of the script, on the bus
  reader,     \* the session: where it is, and the focus it knows
  line,       \* the socket: who waits to be accepted, lines not read yet, and the end
  switches,
  broken      \* history: what KWin, the bus or a file has refused

relayVars == <<launcher, relay, stopSent, told, relayFiles, plugin, window, reports, reader, line,
               switches, broken>>

-----------------------------------------------------------------------------
(* Whose window it is *)

\* process_descends_from: from the process upwards; the first process has no parent to
\* climb to, and one that cannot be read has none either
DescendsFrom[n \in 0 .. MaxDepth, p \in DOMAIN Parent] ==
  IF n = 0 THEN FALSE
  ELSE p = Worker \/ (p # Root /\ Parent[p] # p /\ DescendsFrom[n - 1, Parent[p]])

\* focus_event_is_owned
Owned(w) == w = Waydroid \/ (w \in DOMAIN Parent /\ w # Root /\ DescendsFrom[MaxDepth, w])

-----------------------------------------------------------------------------
(* The thread *)

RelayAt(place) == relay' = [relay EXCEPT !.at = place]

SessionUnchanged == UNCHANGED <<window, reader, switches>>

\* the thread's last acts: what it says of its failure, and the two files
RelayEnds(failed) ==
  /\ RelayAt("ended")
  /\ told' = IF failed /\ told = "nothing" THEN "failed" ELSE told
  /\ relayFiles' = {} /\ reports' = <<>>
  /\ line' = [line EXCEPT !.closed = TRUE]

Breaks(what) == broken' = broken \cup {what}

\* the bus, the script's file and a second connection
PrepareScript ==
  /\ relay.at = "start"
  /\ \/ /\ RelayAt("load") /\ relayFiles' = relayFiles \cup {"script"}
        /\ UNCHANGED <<launcher, stopSent, told, plugin, reports, line, broken>>
        /\ SessionUnchanged
     \/ RelayEnds(TRUE) /\ Breaks("bus") /\ UNCHANGED <<launcher, stopSent, plugin>> /\ SessionUnchanged

\* loadScript answers with a number, a negative one when it could not load; an answer
\* that comes too late leaves the script with KWin
LoadScript ==
  /\ relay.at = "load"
  /\ \/ /\ RelayAt("run") /\ plugin' = "loaded"
        /\ UNCHANGED <<launcher, stopSent, told, relayFiles, reports, line, broken>>
        /\ SessionUnchanged
     \/ /\ RelayEnds(TRUE)
        /\ \/ Breaks("bus") /\ UNCHANGED plugin
           \/ Breaks("load") /\ plugin' = "loaded"
        /\ UNCHANGED <<launcher, stopSent>> /\ SessionUnchanged

\* unloadScript, whose answer nobody looks at
Unload(failures) ==
  \/ plugin' = "none" /\ broken' = failures
  \/ UNCHANGED plugin /\ broken' = failures \cup {"unload"}

\* mutant: a script that does not run stays loaded
LeavesLoaded ==
  /\ relay.at = "run"
  /\ \/ /\ RelayAt("ready") /\ plugin' = "running" /\ reports' = <<window>>
        /\ UNCHANGED <<launcher, stopSent, told, relayFiles, line, broken>> /\ SessionUnchanged
     \/ /\ RelayEnds(TRUE) /\ Breaks("bus")
        /\ UNCHANGED <<launcher, stopSent, plugin>> /\ SessionUnchanged

\* the script reports the active window at once
RunScript ==
  /\ relay.at = "run"
  /\ \/ /\ RelayAt("ready") /\ plugin' = "running" /\ reports' = <<window>>
        /\ UNCHANGED <<launcher, stopSent, told, relayFiles, line, broken>> /\ SessionUnchanged
     \/ /\ RelayEnds(TRUE) /\ Unload(broken \cup {"bus"})
        /\ UNCHANGED <<launcher, stopSent>> /\ SessionUnchanged

\* the receiver is there: reports that came before are still on the connection
SayReady ==
  /\ relay.at = "ready" /\ RelayAt("check") /\ told' = "ready"
  /\ UNCHANGED <<launcher, stopSent, relayFiles, plugin, reports, line, broken>>
  /\ SessionUnchanged

\* the loop ends: the script goes first
LoopEnds(failed, failures) ==
  /\ RelayEnds(failed) /\ Unload(failures)
  /\ UNCHANGED <<launcher, stopSent>> /\ SessionUnchanged

CheckStop ==
  /\ relay.at = "check"
  /\ \/ ~stopSent /\ RelayAt("process")
        /\ UNCHANGED <<launcher, stopSent, told, relayFiles, plugin, reports, line, broken>>
        /\ SessionUnchanged
     \/ stopSent /\ LoopEnds(FALSE, broken)

\* one wait for the bus: a report goes through the channel to the end of this turn
ProcessBus ==
  /\ relay.at = "process"
  /\ \/ /\ reports = <<>> /\ RelayAt("accept") /\ UNCHANGED reports
     \/ /\ reports # <<>> /\ reports' = Tail(reports)
        /\ relay' = [relay EXCEPT !.at = "accept", !.heard = Append(@, Owned(Head(reports)))]
     \* several reports in one wait
     \/ /\ Len(reports) > 1 /\ reports' = Tail(reports)
        /\ relay' = [relay EXCEPT !.heard = Append(@, Owned(Head(reports)))]
  /\ UNCHANGED <<launcher, stopSent, told, relayFiles, plugin, line, broken>>
  /\ SessionUnchanged

BusBreaks == relay.at = "process" /\ LoopEnds(TRUE, broken \cup {"bus"})

\* the greeting: the last focus, if there was one
Greeting == IF relay.focus = {} THEN <<>> ELSE <<relay.focus>>

\* accept_client; a greeting to a client that has left ends the loop
AcceptClient ==
  /\ relay.at = "accept"
  /\ \/ /\ line.backlog = "empty" /\ RelayAt("drain")
        /\ UNCHANGED <<told, relayFiles, plugin, reports, line, broken>>
     \/ /\ line.backlog # "empty" /\ (line.backlog = "left" => Greeting = <<>>)
        /\ RelayAt("commands")
        /\ line' = [line EXCEPT !.backlog = "empty", !.lines = Greeting]
        /\ UNCHANGED <<told, relayFiles, plugin, reports, broken>>
     \/ line.backlog = "left" /\ Greeting # <<>> /\ LoopEnds(TRUE, broken)
  /\ UNCHANGED <<launcher, stopSent>> /\ SessionUnchanged

\* handle_client_commands: set_read_timeout refuses a timeout of zero, and the error
\* ends the loop with the first client it has
HandleClientCommands ==
  relay.at = "commands" /\ LoopEnds(TRUE, broken)

DrainFocus ==
  /\ relay.at = "drain"
  /\ relay' = [relay EXCEPT !.at = "check", !.heard = <<>>,
                            !.focus = IF relay.heard = <<>> THEN @
                                      ELSE {relay.heard[Len(relay.heard)]}]
  /\ UNCHANGED <<launcher, stopSent, told, relayFiles, plugin, reports, line, broken>>
  /\ SessionUnchanged

-----------------------------------------------------------------------------
(* The worker, the desktop and the session *)

RelayUnchanged == UNCHANGED <<relay, told, relayFiles, plugin, reports, line, broken>>

\* start, from the wait for the thread on; the wait ends after six seconds
StartRelay ==
  /\ launcher = "starting"
  /\ \/ told = "ready" /\ launcher' = "up" /\ UNCHANGED stopSent
     \/ told # "ready" /\ launcher' = "refusing" /\ stopSent' = TRUE
  /\ RelayUnchanged /\ SessionUnchanged

\* the worker is done with the game; the reader went with its session
DropRelay ==
  /\ launcher = "up" /\ launcher' = "dropping" /\ stopSent' = TRUE
  /\ reader.at # "connecting"
  /\ reader' = [reader EXCEPT !.at = "gone"]
  /\ RelayUnchanged /\ UNCHANGED <<window, switches>>

JoinRelay ==
  /\ launcher \in {"refusing", "dropping"} /\ relay.at = "ended"
  /\ launcher' = "done"
  /\ UNCHANGED stopSent /\ RelayUnchanged /\ SessionUnchanged

\* a script that runs reports each window
SwitchWindow ==
  /\ switches < MaxSwitches /\ switches' = switches + 1
  /\ \E w \in Windows \ {window} :
       /\ window' = w
       /\ reports' = IF plugin = "running" THEN Append(reports, w) ELSE reports
  /\ UNCHANGED <<launcher, relay, stopSent, told, relayFiles, plugin, reader, line, broken>>

LineOnly ==
  UNCHANGED <<launcher, stopSent, window, switches, relay, told, relayFiles, plugin, reports, broken>>

\* FocusConnection::connect; a socket that is gone refuses
ConnectReader ==
  /\ launcher = "up" /\ reader.at = "idle"
  /\ \/ /\ relay.at = "ended"
        /\ reader' = [reader EXCEPT !.at = "unprotected"] /\ UNCHANGED line
     \/ /\ relay.at # "ended"
        /\ reader' = [reader EXCEPT !.at = "connecting"]
        /\ line' = [line EXCEPT !.backlog = "waiting"]
  /\ LineOnly

\* its first line, the end, or neither within FOCUS_CONNECT_TIMEOUT
FirstLine ==
  /\ reader.at = "connecting"
  /\ \/ /\ line.lines # <<>>
        /\ reader' = [reader EXCEPT !.at = "protected", !.focus = Head(line.lines)]
        /\ line' = [line EXCEPT !.lines = Tail(@)]
     \/ /\ line.lines = <<>>
        /\ reader' = [reader EXCEPT !.at = "unprotected"]
        /\ line' = [line EXCEPT !.backlog = IF @ = "waiting" THEN "left" ELSE @]
  /\ LineOnly

\* spawn_focus_reader: a line that is complete, then the end
ReadEnd ==
  /\ reader.at = "protected" /\ line.lines = <<>> /\ line.closed
  /\ reader' = [reader EXCEPT !.at = "unprotected"] /\ UNCHANGED line
  /\ LineOnly

-----------------------------------------------------------------------------

RelayInit ==
  /\ launcher = "starting" /\ stopSent = FALSE /\ told = "nothing"
  /\ relay = [at |-> "start", focus |-> {}, heard |-> <<>>]
  /\ relayFiles = {"socket"} /\ plugin = "none"
  /\ window \in Windows /\ reports = <<>>
  /\ reader = [at |-> "idle", focus |-> {}]
  /\ line = [backlog |-> "empty", lines |-> <<>>, closed |-> FALSE]
  /\ switches = 0 /\ broken = {}

RelayNext ==
  \/ PrepareScript \/ LoadScript \/ RunScript \/ SayReady
  \/ CheckStop \/ ProcessBus \/ BusBreaks \/ AcceptClient \/ HandleClientCommands \/ DrainFocus
  \/ StartRelay \/ DropRelay \/ JoinRelay
  \/ SwitchWindow \/ ConnectReader \/ FirstLine \/ ReadEnd

RelaySpec == RelayInit /\ [][RelayNext]_relayVars

-----------------------------------------------------------------------------

\* the worker and every process it has started, directly or not
Family ==
  {p \in DOMAIN Parent :
     \A S \in SUBSET DOMAIN Parent :
       Worker \in S /\ (\A q \in DOMAIN Parent : Parent[q] \in S => q \in S) => p \in S}

Ours(w) == w = Waydroid \/ w \in Family

\* process_descends_from is right about every window there is: no process is further
\* below the worker than the relay climbs.
ClimbIsExact == \A w \in Windows : Owned(w) = Ours(w)

\* The thread, the socket, the script's file and KWin's copy of it are gone when start has
\* failed or the relay was dropped, at whatever step that was; the copy stays only when
\* KWin answered too late or did not unload it.
RelayCleansUp ==
  launcher = "done" =>
    relay.at = "ended" /\ relayFiles = {} /\ (plugin = "none" \/ broken \cap {"load", "unload"} # {})

\* What the relay has heard and what is on the way to it is the window that is active
\* now, and a window counts as the game's when it is Waydroid's or belongs to a process
\* of the worker.
RelayKnowsTheWindow ==
  relay.at \in {"check", "process", "accept", "commands", "drain"} =>
    IF reports # <<>> THEN reports[Len(reports)] = window
    ELSE IF relay.heard # <<>> THEN relay.heard[Len(relay.heard)] = Ours(window)
    ELSE relay.focus = {Ours(window)}

\* A relay cleans up after itself and judges the active window as it is (kwin_focus.rs).
RelayIsTrue == RelayCleansUp /\ RelayKnowsTheWindow

\* "launch-v2 also tracks the active KWin window: switching away from Waydroid immediately
\* cancels touches and releases the physical keyboard and mouse" (README.md:403): a relay
\* that started goes on until the worker stops it or the desktop fails.
RelayServesUntilStopped == relay.at = "ended" /\ launcher = "up" => broken # {}
=============================================================================
