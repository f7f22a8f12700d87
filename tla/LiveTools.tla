----------------------------- MODULE LiveTools -----------------------------
(***************************************************************************)
(* The two tools a developer runs as root to try controls without a        *)
(* profile: the live keyboard (live_keyboard.rs) and the live mouse aim    *)
(* (live_mouse_aim.rs).  Each process takes the lease on the Waydroid      *)
(* bridge, installs the bridge files, boots Waydroid, turns the events of  *)
(* one evdev device (wroid-input) into touch contacts, and takes           *)
(* everything back, whichever step fails; --cleanup is for a tool that     *)
(* was killed.  The tools share the files, the container and the lease.    *)
(***************************************************************************)
EXTENDS Naturals, Sequences

CONSTANTS
  Keyboards,   \* processes of the live keyboard
  Mice,        \* processes of the live mouse aim
  NoTool,
  MaxRuns,     \* times a tool is started
  MaxSlips,    \* failing operations and kills
  MaxKernelEvents    \* kernel events that reach a tool while it is live

Tools == Keyboards \cup Mice

ASSUME LiveBounds ==
  /\ MaxRuns \in Nat /\ MaxSlips \in Nat /\ MaxKernelEvents \in Nat
  /\ NoTool \notin Tools /\ Keyboards \cap Mice = {}

VARIABLES
  holder,     \* the flock of WaydroidBridgeLease
  bridge,     \* the managed file, by the device node it names, and the include line
  container,  \* Waydroid: whether it is up, and the device node it was booted with
  tool,       \* the processes
  slips

liveVars == <<holder, bridge, container, tool, slips>>

Hosted == <<holder, bridge, container>>

NoBridge == [node |-> NoTool, include |-> FALSE]

Down == [up |-> FALSE, node |-> NoTool]

\* what a process knows: where it is, whether a step has failed, whether
\* DesktopWaydroidSession is active, whether SIGINT has arrived, the reader thread and
\* what it has sent, the report it has not completed, the direction keys, and the
\* contacts on its touchscreen
Stages ==
  {"off", "sweep", "unlink", "open", "write", "include", "boot", "ready", "grab", "live",
   "join", "lift", "stop", "exclude", "erase", "leave"}

NewTool(said, runs) ==
  [at |-> "off", ok |-> TRUE, cleaning |-> FALSE, active |-> FALSE, again |-> FALSE,
   interrupt |-> FALSE, reader |-> "none", grabbed |-> FALSE, sent |-> <<>>, seen |-> 0,
   pending |-> <<>>, stuck |-> FALSE, keys |-> {}, finger |-> "none", tap |-> FALSE, said |-> said, runs |-> runs]

IsAt(t, stage) == tool[t].at = stage

Becomes(t, r) == tool' = [tool EXCEPT ![t] = r]

GoTo(t, stage) == Becomes(t, [tool[t] EXCEPT !.at = stage])

\* an error that `?` hands up, or that is kept for the end
FailsTo(t, stage) ==
  /\ slips < MaxSlips /\ slips' = slips + 1
  /\ Becomes(t, [tool[t] EXCEPT !.at = stage, !.ok = FALSE])

NoSlip == UNCHANGED slips

-----------------------------------------------------------------------------
(* Start: the lease, a stopped container, a bridge swept clean *)

\* run_live_keyboard_session and run_live_mouse_aim_session, or their --cleanup; a
\* lease that is taken turns the process away before it has touched anything
Begin(t) ==
  /\ IsAt(t, "off") /\ tool[t].runs < MaxRuns
  /\ holder = NoTool /\ holder' = t
  /\ \E cleaning \in BOOLEAN :
       Becomes(t, [NewTool("nothing", tool[t].runs + 1) EXCEPT !.at = "sweep", !.cleaning = cleaning])
  /\ UNCHANGED <<bridge, container>> /\ NoSlip

\* ensure_container_stopped, which --cleanup does not ask, and the first half of
\* remove_default_bridge: the include line
Sweep(t) ==
  /\ IsAt(t, "sweep")
  /\ \/ /\ container.up /\ ~tool[t].cleaning
        /\ Becomes(t, [tool[t] EXCEPT !.at = "leave", !.ok = FALSE])
        /\ UNCHANGED bridge /\ NoSlip
     \/ /\ ~container.up \/ tool[t].cleaning
        /\ \/ bridge' = [bridge EXCEPT !.include = FALSE] /\ GoTo(t, "unlink") /\ NoSlip
           \/ UNCHANGED bridge /\ FailsTo(t, "leave")
  /\ UNCHANGED <<holder, container>>

\* its second half: the managed file
SweepFile(t) ==
  /\ IsAt(t, "unlink")
  /\ \/ /\ bridge' = [bridge EXCEPT !.node = NoTool]
        /\ GoTo(t, IF tool[t].cleaning THEN "leave" ELSE "open") /\ NoSlip
     \/ UNCHANGED bridge /\ FailsTo(t, "leave")
  /\ UNCHANGED <<holder, container>>

\* the evdev device and the virtual touchscreen; the SIGINT handler is in place
OpenDevices(t) ==
  /\ IsAt(t, "open")
  /\ (GoTo(t, "write") /\ NoSlip) \/ FailsTo(t, "leave")
  /\ UNCHANGED Hosted

\* InstalledWaydroidBridge::install: the managed file, then the include line, and the
\* managed file is taken back when the line cannot be written
WriteNode(t) ==
  /\ IsAt(t, "write")
  /\ \/ bridge' = [bridge EXCEPT !.node = t] /\ GoTo(t, "include") /\ NoSlip
     \/ UNCHANGED bridge /\ FailsTo(t, "leave")
  /\ UNCHANGED <<holder, container>>

WriteInclude(t) ==
  /\ IsAt(t, "include")
  /\ \/ bridge' = [bridge EXCEPT !.include = TRUE] /\ GoTo(t, "boot") /\ NoSlip
     \/ bridge' \in {bridge, [bridge EXCEPT !.node = NoTool]} /\ FailsTo(t, "leave")
  /\ UNCHANGED <<holder, container>>

-----------------------------------------------------------------------------
(* DesktopWaydroidSession *)

\* the container reads the bridge when it boots
Booted == [up |-> TRUE, node |-> IF bridge.include THEN bridge.node ELSE NoTool]

\* DesktopWaydroidSession::start; one that does not come up is stopped again, as well
\* as that goes, and what was installed is dropped with the error
StartSession(t) ==
  /\ IsAt(t, "boot")
  /\ \/ /\ container' = Booted
        /\ Becomes(t, [tool[t] EXCEPT !.at = "ready", !.active = TRUE]) /\ NoSlip
     \/ /\ container' \in {Booted, Down}
        /\ slips < MaxSlips /\ slips' = slips + 1
        /\ \E active \in {FALSE, container'.up} :
             Becomes(t, [tool[t] EXCEPT !.at = "exclude", !.ok = FALSE, !.again = TRUE,
                                        !.active = active])
  /\ UNCHANGED <<holder, bridge>>

\* stop: Waydroid is stopped though the command complained; a command that does not
\* run leaves the session active; and a container that will not stop is forced
StopOutcomes ==
  [up : {FALSE}, active : {FALSE}, ok : BOOLEAN] \cup [up : BOOLEAN, active : BOOLEAN, ok : {FALSE}]

Stopped(o) == IF o.up THEN container ELSE Down

-----------------------------------------------------------------------------
(* The reader thread and wroid-input *)

Reading(t) == tool[t].reader = "reading"

KeyEvents == [key : {"left", "right", "tap", "esc"}, press : BOOLEAN]

MouseEvents == [key : {"button", "motion"}, press : BOOLEAN]

Exits(e) == e.key = "esc" /\ e.press

ReaderEnds(t, how, r) == [r EXCEPT !.reader = how, !.grabbed = FALSE]

\* KeyboardReader: it ends with the press of Esc, and its device is ungrabbed then
ReadKey(t) ==
  /\ t \in Keyboards /\ Reading(t) /\ tool[t].seen < MaxKernelEvents
  /\ \E e \in KeyEvents :
       LET r == [tool[t] EXCEPT !.sent = Append(@, e), !.seen = @ + 1]
       IN  Becomes(t, IF Exits(e) THEN ReaderEnds(t, "ended", r) ELSE r)
  /\ UNCHANGED Hosted /\ NoSlip

\* MouseEventBatcher: motion since the last button is one event
Pushed(pending, e) ==
  IF e.key = "motion" /\ pending # <<>> /\ pending[Len(pending)] = e THEN pending
                                                                     ELSE Append(pending, e)

\* MouseReader: a report is sent when SYN_REPORT ends it, and SYN_DROPPED forgets it
ReadMouse(t) ==
  /\ t \in Mice /\ Reading(t) /\ tool[t].seen < MaxKernelEvents
  /\ \/ \E e \in MouseEvents :
          Becomes(t, [tool[t] EXCEPT !.pending = Pushed(@, e), !.seen = @ + 1])
     \/ /\ tool[t].pending # <<>>
        /\ Becomes(t, [tool[t] EXCEPT !.sent = @ \o tool[t].pending, !.pending = <<>>])
     \/ /\ tool[t].pending # <<>>
        /\ Becomes(t, [tool[t] EXCEPT !.pending = <<>>])
  /\ UNCHANGED Hosted /\ NoSlip

ReadFails(t) ==
  /\ Reading(t)
  /\ slips < MaxSlips /\ slips' = slips + 1
  /\ Becomes(t, ReaderEnds(t, "failed", tool[t]))
  /\ UNCHANGED Hosted

\* the loop has let its receiver go: the next event the reader has ends it
ReaderLeftAlone(t) ==
  /\ Reading(t) /\ tool[t].at \notin {"grab", "live", "join"}
  /\ Becomes(t, ReaderEnds(t, "ended", tool[t]))
  /\ UNCHANGED Hosted /\ NoSlip

-----------------------------------------------------------------------------
(* The session: Android boots, the device is grabbed, events become touches *)

\* wait_for_android_boot_completed, wait_for_android_input_device, show_full_ui and
\* the trace, none of which asks for the interrupt
AndroidBoots(t) ==
  /\ IsAt(t, "ready")
  /\ (GoTo(t, "grab") /\ NoSlip) \/ FailsTo(t, "lift")
  /\ UNCHANGED Hosted

\* --no-grab or EVIOCGRAB; the reader thread owns the device from here on
Grab(t) ==
  /\ IsAt(t, "grab")
  /\ \/ \E grab \in BOOLEAN :
          Becomes(t, [tool[t] EXCEPT !.at = "live", !.grabbed = grab, !.reader = "reading"])
        /\ NoSlip
     \/ FailsTo(t, "lift")
  /\ UNCHANGED Hosted

\* the next event the loop receives
Received(t) == Head(tool[t].sent)

Rest(t) == [tool[t] EXCEPT !.sent = Tail(@)]

Receives(t, keys) == IsAt(t, "live") /\ tool[t].sent # <<>> /\ Received(t).key \in keys

\* a frame is accepted, or its error ends the loop
Touch(t, r, finger) ==
  \/ Becomes(t, [r EXCEPT !.finger = finger]) /\ NoSlip
  \/ /\ finger # r.finger
     /\ slips < MaxSlips /\ slips' = slips + 1
     /\ Becomes(t, [r EXCEPT !.at = "lift", !.ok = FALSE])

\* VirtualJoystick on one axis: opposed keys are no direction
Steer(keys) ==
  CASE keys = {"left"} -> "left" [] keys = {"right"} -> "right" [] OTHER -> "none"

\* DirectionalKeyState: the key changes before its frame is tried
HandleDirection(t) ==
  /\ Receives(t, {"left", "right"})
  /\ LET e == Received(t)
         keys == IF e.press THEN tool[t].keys \cup {e.key} ELSE tool[t].keys \ {e.key}
     IN  Touch(t, [Rest(t) EXCEPT !.keys = keys], Steer(keys))
  /\ UNCHANGED Hosted

\* a tap is two frames; the second may be refused when the first was not
HandleTap(t) ==
  /\ Receives(t, {"tap"})
  /\ \/ Becomes(t, Rest(t)) /\ NoSlip
     \/ /\ Received(t).press
        /\ slips < MaxSlips /\ slips' = slips + 1
        /\ \E down \in BOOLEAN :
             Becomes(t, [Rest(t) EXCEPT !.tap = down, !.at = "lift", !.ok = FALSE])
  /\ UNCHANGED Hosted

HandleEsc(t) ==
  /\ Receives(t, {"esc"})
  /\ Becomes(t, [Rest(t) EXCEPT !.at = IF Exits(Received(t)) THEN "join" ELSE @])
  /\ UNCHANGED Hosted /\ NoSlip

\* service_hold_timers: the committed position is sent again while a key is held
Reaffirm(t) ==
  /\ IsAt(t, "live") /\ tool[t].keys # {} /\ tool[t].finger # "none"
  /\ FailsTo(t, "lift")
  /\ UNCHANGED Hosted

\* MouseAimController: the button owns the contact, motion moves the one there is
HandleAim(t) ==
  /\ Receives(t, {"button", "motion"})
  /\ LET e == Received(t)
         here == tool[t].finger
     IN  IF e.key = "motion"
         THEN Touch(t, Rest(t), here) \/ (here # "none" /\ FailsTo(t, "lift"))
         ELSE Touch(t, Rest(t), IF e.press THEN "aim" ELSE "none")
  /\ UNCHANGED Hosted

\* Ctrl+C sets a flag once the handler is there
Interrupt(t) ==
  /\ tool[t].at \in {"open", "write", "include", "boot", "ready", "grab", "live", "join"}
  /\ ~tool[t].interrupt
  /\ Becomes(t, [tool[t] EXCEPT !.interrupt = TRUE])
  /\ UNCHANGED Hosted /\ NoSlip

NoticeInterrupt(t) ==
  /\ IsAt(t, "live") /\ tool[t].interrupt
  /\ GoTo(t, "join")
  /\ UNCHANGED Hosted /\ NoSlip

Disconnected(t) ==
  /\ IsAt(t, "live") /\ ~Reading(t) /\ tool[t].sent = <<>>
  /\ Becomes(t, [tool[t] EXCEPT !.at = "lift", !.ok = FALSE])
  /\ UNCHANGED Hosted /\ NoSlip

-----------------------------------------------------------------------------
(* The end: every part of the cleanup is tried, and the first error returned *)

\* mutant: the reader is joined after an interrupt too
JoinAlways(t) ==
  /\ IsAt(t, "join") /\ ~Reading(t)
  /\ Becomes(t, [tool[t] EXCEPT !.at = "lift", !.ok = tool[t].reader # "failed"])
  /\ UNCHANGED Hosted /\ NoSlip

\* the reader is joined unless Ctrl+C has ended the loop: it may be blocked in a read
Join(t) ==
  /\ IsAt(t, "join")
  /\ \/ tool[t].interrupt /\ GoTo(t, "lift")
     \/ /\ ~tool[t].interrupt /\ ~Reading(t)
        /\ Becomes(t, [tool[t] EXCEPT !.at = "lift", !.ok = tool[t].reader # "failed"])
  /\ UNCHANGED Hosted /\ NoSlip

\* mutant: with no key held there is nothing to lift
LiftHeldKeys(t) ==
  /\ IsAt(t, "lift")
  /\ LET r == [tool[t] EXCEPT !.at = "stop", !.keys = {}]
     IN  \/ Becomes(t, [r EXCEPT !.finger = IF tool[t].keys = {} THEN @ ELSE "none"]) /\ NoSlip
         \/ /\ tool[t].finger # "none" /\ tool[t].keys # {}
            /\ slips < MaxSlips /\ slips' = slips + 1
            /\ Becomes(t, [r EXCEPT !.stuck = TRUE, !.ok = FALSE])
  /\ UNCHANGED Hosted

\* release_contact: the keys are let go and the joystick follows, or it is cancelled;
\* MouseAimController.cancel.  The contact of a tap is left to the device's end.
Lift(t) ==
  /\ IsAt(t, "lift")
  /\ LET r == [tool[t] EXCEPT !.at = "stop", !.keys = {}]
     IN  \/ Becomes(t, [r EXCEPT !.finger = "none"]) /\ NoSlip
         \/ /\ tool[t].finger # "none"
            /\ slips < MaxSlips /\ slips' = slips + 1
            /\ Becomes(t, [r EXCEPT !.stuck = TRUE, !.ok = FALSE])
  /\ UNCHANGED Hosted

\* DesktopWaydroidSession::stop
StopSession(t) ==
  /\ IsAt(t, "stop")
  /\ \E o \in StopOutcomes :
       /\ container' = Stopped(o)
       /\ IF o.ok THEN NoSlip ELSE slips < MaxSlips /\ slips' = slips + 1
       /\ Becomes(t, [tool[t] EXCEPT !.at = "exclude", !.active = o.active, !.ok = @ /\ o.ok])
  /\ UNCHANGED <<holder, bridge>>

\* InstalledWaydroidBridge::restore, first the include line ...
Exclude(t) ==
  /\ IsAt(t, "exclude")
  /\ \/ bridge' = [bridge EXCEPT !.include = FALSE] /\ GoTo(t, "erase") /\ NoSlip
     \/ UNCHANGED bridge /\ FailsTo(t, "erase")
  /\ UNCHANGED <<holder, container>>

\* ... then, even so, the managed file; cleanup leaves a failure to Drop, which tries
\* both again
Erase(t) ==
  /\ IsAt(t, "erase")
  /\ \/ bridge' = [bridge EXCEPT !.node = NoTool] /\ NoSlip
     \/ UNCHANGED bridge /\ slips < MaxSlips /\ slips' = slips + 1
  /\ LET left == bridge'.include \/ bridge'.node # NoTool
     IN  Becomes(t, [tool[t] EXCEPT !.at = IF left /\ ~tool[t].again THEN "exclude" ELSE "leave",
                                    !.again = TRUE, !.ok = @ /\ ~left])
  /\ UNCHANGED <<holder, container>>

\* what is dropped at the end of the function: the touchscreen, the session if stop
\* has left it active, and last the lease
Leave(t) ==
  /\ IsAt(t, "leave")
  /\ \E o \in StopOutcomes :
       /\ IF tool[t].active THEN container' = Stopped(o) ELSE o.ok /\ UNCHANGED container
       /\ IF o.ok THEN NoSlip ELSE slips < MaxSlips /\ slips' = slips + 1
  /\ Becomes(t, NewTool(IF ~tool[t].ok THEN "error"
                        ELSE IF tool[t].cleaning THEN "swept" ELSE "success", tool[t].runs))
  /\ holder' = NoTool
  /\ UNCHANGED bridge

-----------------------------------------------------------------------------
(* Around the tools *)

\* a signal other than SIGINT, or SIGINT before the handler: the kernel takes the
\* lease, the grab and the touchscreen; the files and the container stay
Kill(t) ==
  /\ ~IsAt(t, "off")
  /\ slips < MaxSlips /\ slips' = slips + 1
  /\ Becomes(t, NewTool("killed", tool[t].runs))
  /\ holder' = NoTool
  /\ UNCHANGED <<bridge, container>>

\* waydroid session stop, which the tools ask for when a container is in their way
UserStopsWaydroid ==
  /\ holder = NoTool /\ container.up
  /\ container' = Down
  /\ UNCHANGED <<holder, bridge, tool>> /\ NoSlip

LiveInit ==
  /\ holder = NoTool /\ bridge = NoBridge /\ container = Down
  /\ tool = [t \in Tools |-> NewTool("nothing", 0)]
  /\ slips = 0

\* what a process does without anybody's help
ToolStep(t) ==
  \/ Sweep(t) \/ SweepFile(t) \/ OpenDevices(t) \/ WriteNode(t) \/ WriteInclude(t)
  \/ StartSession(t) \/ AndroidBoots(t) \/ Grab(t)
  \/ HandleDirection(t) \/ HandleTap(t) \/ HandleEsc(t) \/ HandleAim(t)
  \/ Reaffirm(t) \/ NoticeInterrupt(t) \/ Disconnected(t)
  \/ Join(t) \/ Lift(t) \/ StopSession(t) \/ Exclude(t) \/ Erase(t) \/ Leave(t)

LiveNext ==
  \/ \E t \in Tools :
       \/ Begin(t) \/ ToolStep(t) \/ Interrupt(t) \/ Kill(t)
       \/ ReadKey(t) \/ ReadMouse(t) \/ ReadFails(t) \/ ReaderLeftAlone(t)
  \/ UserStopsWaydroid

LiveFairness == \A t \in Tools : WF_liveVars(ToolStep(t))

LiveSpec == LiveInit /\ [][LiveNext]_liveVars /\ LiveFairness

-----------------------------------------------------------------------------
(* Properties *)

\* A bridge or a container that a tool has left behind belongs to a tool that was
\* killed or has said that something failed; --cleanup takes the files, not the
\* container.
LeftoversAreAdmitted(t) ==
  /\ bridge.node = t => holder = t \/ tool[t].said \in {"killed", "error"}
  /\ container.node = t => holder = t \/ tool[t].said \in {"killed", "error", "swept"}

\* While a tool turns events into touches, Waydroid runs with the tool's own device,
\* and the files name it.
PlaysItsOwnDevice(t) ==
  IsAt(t, "live") => container = [up |-> TRUE, node |-> t] /\ bridge = [node |-> t, include |-> TRUE]

\* The joystick is where the keys are as long as the loop runs, and after it a contact
\* stays only if the frame that lifts it was refused, whatever frame was refused before.
FingersAreLifted(t) ==
  /\ t \in Keyboards /\ IsAt(t, "live") => tool[t].finger = Steer(tool[t].keys)
  /\ tool[t].at \in {"stop", "exclude", "erase", "leave"} /\ tool[t].finger # "none" => tool[t].stuck
  /\ tool[t].tap => ~tool[t].ok

\* However a live session ends, by Esc, Ctrl+C, a refused frame, a reader that fails, a
\* boot that does not come or a cleanup that fails, nothing is left unsaid.
LiveSessionsAreWhole ==
  \A t \in Tools : LeftoversAreAdmitted(t) /\ PlaysItsOwnDevice(t) /\ FingersAreLifted(t)

\* Ctrl+C ends a session, though its reader may wait for a key that never comes.
InterruptEndsSession == \A t \in Tools : tool[t].interrupt ~> tool[t].at = "off"

=============================================================================
