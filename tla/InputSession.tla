---------------------------- MODULE InputSession ----------------------------
(***************************************************************************)
(* The event loop of a running game session: who owns the keyboard and the *)
(* mouse, the desktop or the game.  The loop is fed by the threads that    *)
(* read the keyboard, the mouse, the focus relay of the desktop and the    *)
(* pointer of the cursor overlay; it commands the first two, which grab    *)
(* and forward their device, and it drives the runtime that turns inputs   *)
(* into touches.  Focus reports, F12, the exit hotkey, failing readers and *)
(* the grace period of a silent relay race with each other.                *)
(*                                                                         *)
(* Of the runtime the module keeps what the loop looks at or must clean    *)
(* up: the inputs it believes held, the active aims, the cursor's touch.   *)
(***************************************************************************)
EXTENDS Naturals, Sequences

CONSTANTS
  Keys,         \* keys of the keyboard other than F12
  Ctrl,         \* the key of the exit hotkey
  ExitKeys,     \* Esc and C: with Ctrl they end the session
  F12,          \* the key that releases and recaptures input
  Buttons,      \* buttons of the mouse
  Left,         \* the button that clicks in UI mode
  Pointer,      \* the pointer button the overlay reports
  Failure,      \* what a failing reader sends
  Aims,         \* aim controllers of the profile
  ToggleKey,    \* the toggle key of each aim, or NoKey if it is always on
  NoKey,
  Options,      \* sessions to look at: is grabbing allowed (no --no-grab), is
                \* the focus relay connected, did the cursor overlay start
  MaxQueue,     \* bound: host events waiting
  MaxBatch,     \* bound: key events read at once
  MaxFocus      \* bound: focus reports waiting

ASSUME InputAssumption ==
  /\ Ctrl \in Keys /\ ExitKeys \subseteq Keys /\ Ctrl \notin ExitKeys
  /\ Left \in Buttons
  /\ Keys \cap Buttons = {}
  /\ {F12, Pointer, Failure} \cap (Keys \cup Buttons) = {}
  /\ F12 # Pointer /\ F12 # Failure /\ Pointer # Failure

ASSUME ProfileAssumption == ToggleKey \in [Aims -> Keys \cup {NoKey}] /\ NoKey \notin Keys

\* the relay is only asked for when grabbing is allowed
ASSUME OptionsAssumption ==
  /\ Options \subseteq [grab : BOOLEAN, relay : BOOLEAN, overlay : BOOLEAN]
  /\ \A o \in Options : o.relay => o.grab

ASSUME BoundsAssumption ==
  MaxQueue \in Nat \ {0} /\ MaxBatch \in Nat \ {0} /\ MaxFocus \in Nat \ {0}

VARIABLES
  config,      \* the options of this session
  at,          \* where run_event_loop is
  batch,       \* key events still to handle of the batch taken
  active,      \* input_active: the game owns the input
  protected,   \* focus_protected: focus reports decide about capture
  focused,     \* waydroid_focused
  released,    \* manually_released
  saw,         \* saw_focus_event
  ctrl,        \* control_pressed
  mode,        \* InputMode: what the mouse does while captured
  before,      \* toggle_aim_active_before_release
  kbd,         \* the keyboard's reader and the grab on its device
  mouse,       \* the mouse's reader; believed is the grab it thinks it has
  overlayOn,   \* the overlay takes clicks and draws the cursor
  queue,       \* host events on their way to the loop
  reports,     \* focus reports on their way to the loop
  relayUp,     \* the relay's connection is open
  desktop,     \* the relay's last report
  physical,    \* inputs that are physically down
  held,        \* the runtime's held_keys and held_mouse_buttons
  aims,        \* active aim controllers
  cursor,      \* the cursor's contact is down
  wanted       \* history: toggle aims that the user last switched on

loopVars    == <<active, released, ctrl, mode, before>>
focusVars   == <<protected, focused, saw>>
deviceVars  == <<kbd, mouse, overlayOn>>
runtimeVars == <<held, aims, cursor>>
desktopVars == <<relayUp, desktop, physical>>
vars == <<config, at, batch, loopVars, focusVars, deviceVars, queue, reports,
          desktopVars, runtimeVars, wanted>>

AlwaysOn == {a \in Aims : ToggleKey[a] = NoKey}
Toggled  == Aims \ AlwaysOn

Inputs == Keys \cup Buttons
Events == [input : Inputs \cup {F12, Pointer, Failure}, move : {"press", "release", "repeat"}]
Event(i, m) == [input |-> i, move |-> m]
IsKey(e) == e.input \in Keys \cup {F12}

Reports == {"focused", "unfocused", "gone"}

Running == at \in {"top", "focus", "host", "keys"}

TypeOK ==
  /\ config \in Options
  /\ at \in {"top", "focus", "host", "keys", "stopping", "over"}
  /\ batch \in 0 .. MaxBatch
  /\ active \in BOOLEAN /\ protected \in BOOLEAN /\ focused \in BOOLEAN
  /\ released \in BOOLEAN /\ saw \in BOOLEAN
  /\ ctrl \in BOOLEAN /\ before \in BOOLEAN
  /\ mode \in {"aim", "ui"}
  /\ kbd \in [alive : BOOLEAN, captured : BOOLEAN, grabbed : BOOLEAN]
  /\ mouse \in [alive : BOOLEAN, forward : BOOLEAN, believed : BOOLEAN, grabbed : BOOLEAN]
  /\ overlayOn \in BOOLEAN /\ relayUp \in BOOLEAN /\ cursor \in BOOLEAN
  /\ queue \in Seq(Events) /\ Len(queue) <= MaxQueue
  /\ reports \in Seq(Reports) /\ Len(reports) <= MaxFocus
  /\ desktop \in Reports
  /\ physical \subseteq Inputs \cup {Pointer}
  /\ held \subseteq Inputs
  /\ aims \subseteq Aims
  /\ wanted \subseteq Toggled

-----------------------------------------------------------------------------
(* The mode the aims ask for, and the one a session boots in. *)

DesiredMode(active_aims) ==
  IF active_aims # {} \/ Toggled = {} \/ ~config.overlay THEN "aim" ELSE "ui"

InitialMode ==
  IF AlwaysOn = {} /\ Toggled # {} /\ config.overlay THEN "ui" ELSE "aim"

(* Commands to the readers.  A reader leaves its device alone when it believes
   that the grab is already what it is asked for. *)

SetKeyboardCapture(k, enabled) == [k EXCEPT !.captured = enabled, !.grabbed = enabled]

\* Mutant of SetMouseMode: the device is not told.
SetMouseMode_NoDevice(m, forward, grab) == [m EXCEPT !.forward = forward, !.believed = grab]

SetMouseMode(m, forward, grab) ==
  [m EXCEPT !.forward = forward, !.believed = grab,
            !.grabbed = IF grab # m.believed THEN grab ELSE @]

\* The commands go to the keyboard first.  A reader that fails or answers too
\* late may or may not have obeyed.
ReadersPartly(k, m) ==
  \/ UNCHANGED <<kbd, mouse>>
  \/ /\ kbd.alive
     /\ kbd' = k
     /\ mouse' \in IF mouse.alive THEN {mouse, m} ELSE {mouse}

-----------------------------------------------------------------------------
(* The runtime. *)

SuspendRuntime == held' = {} /\ aims' = {} /\ cursor' = FALSE

RestoreAim(reactivate) == aims \cup (IF reactivate THEN Aims ELSE AlwaysOn)

\* apply_input_mode, but for the mouse and the overlay
ApplyToRuntime(next, reactivate) ==
  IF next = "aim"
    THEN aims' = RestoreAim(reactivate) /\ UNCHANGED held
    ELSE aims' = {} /\ held' = held \ Buttons

(* Input changes hands.  Every failure ends the loop. *)

ReleaseInputToOs(next) ==
  /\ active' = FALSE
  /\ mode' = DesiredMode(aims)
  /\ before' = (aims # {})
  /\ \/ /\ kbd.alive /\ mouse.alive
        /\ kbd' = SetKeyboardCapture(kbd, FALSE)
        /\ mouse' = SetMouseMode(mouse, FALSE, FALSE)
        /\ overlayOn' = FALSE
        /\ SuspendRuntime
        /\ at' = next
     \/ /\ ReadersPartly(SetKeyboardCapture(kbd, FALSE), SetMouseMode(mouse, FALSE, FALSE))
        /\ overlayOn' \in {overlayOn, FALSE}
        /\ UNCHANGED runtimeVars
        /\ at' = "stopping"

ApplyInputMode(m, reactivate) ==
  /\ mouse.alive
  /\ mouse' = SetMouseMode(mouse, TRUE, config.grab)
  /\ overlayOn' = (m = "ui" /\ config.overlay)
  /\ ApplyToRuntime(m, reactivate)
  /\ UNCHANGED cursor

CaptureInput(next) ==
  \/ /\ kbd.alive
     /\ kbd' = SetKeyboardCapture(kbd, TRUE)
     /\ ApplyInputMode(mode, before)
     /\ active' = TRUE
     /\ at' = next
     /\ UNCHANGED <<mode, before>>
  \/ /\ ReadersPartly(SetKeyboardCapture(kbd, TRUE), SetMouseMode(mouse, TRUE, config.grab))
     /\ at' = "stopping"
     /\ UNCHANGED <<active, mode, before, overlayOn, runtimeVars>>

-----------------------------------------------------------------------------
Init ==
  /\ config \in Options
  /\ desktop \in IF config.relay THEN {"focused", "unfocused"} ELSE {"focused"}
  /\ protected = config.relay
  /\ focused = (desktop = "focused")
  /\ active = focused
  /\ at = "top" /\ batch = 0
  /\ released = FALSE /\ saw = FALSE /\ ctrl = FALSE /\ before = FALSE
  /\ mode = InitialMode
  /\ kbd = [alive |-> TRUE, captured |-> active, grabbed |-> config.grab /\ active]
  /\ mouse = LET started == [alive |-> TRUE, forward |-> active, believed |-> active,
                             grabbed |-> config.grab /\ active]
             IN  IF active /\ mode = "ui" THEN SetMouseMode(started, TRUE, config.grab)
                                          ELSE started
  /\ overlayOn = (active /\ mode = "ui")
  /\ queue = <<>> /\ reports = <<>>
  /\ relayUp = config.relay
  /\ physical = {}
  /\ held = {} /\ cursor = FALSE /\ wanted = {}
  /\ aims = IF active THEN AlwaysOn ELSE {}

-----------------------------------------------------------------------------
(* The loop: the top, the focus reports, one host event. *)

Top ==
  /\ at = "top"
  /\ at' = "focus"
  /\ UNCHANGED <<config, batch, loopVars, focusVars, deviceVars, queue, reports,
                 desktopVars, runtimeVars, wanted>>

\* a signal, or the time limit of a diagnostic session
Interrupted ==
  /\ at = "top"
  /\ at' = "stopping"
  /\ UNCHANGED <<config, batch, loopVars, focusVars, deviceVars, queue, reports,
                 desktopVars, runtimeVars, wanted>>

TakeReport ==
  /\ at = "focus"
  /\ reports # <<>>
  /\ reports' = Tail(reports)
  /\ UNCHANGED <<config, batch, queue, desktopVars, wanted>>

KeepInput == at' = at /\ UNCHANGED <<active, mode, before, deviceVars, runtimeVars>>

\* Mutant of FocusGained: a manual release is not respected.
FocusGained_Always ==
  /\ TakeReport
  /\ Head(reports) = "focused" /\ protected
  /\ saw' = TRUE /\ focused' = TRUE /\ ctrl' = FALSE
  /\ IF ~active THEN CaptureInput("focus") ELSE KeepInput
  /\ UNCHANGED <<protected, released>>

FocusGained ==
  /\ TakeReport
  /\ Head(reports) = "focused" /\ protected
  /\ saw' = TRUE /\ focused' = TRUE /\ ctrl' = FALSE
  /\ IF ~released /\ ~active THEN CaptureInput("focus") ELSE KeepInput
  /\ UNCHANGED <<protected, released>>

\* Mutant of FocusLost: a Ctrl held while the focus is lost is remembered.
FocusLost_KeepsCtrl ==
  /\ TakeReport
  /\ Head(reports) = "unfocused" /\ protected
  /\ saw' = TRUE /\ focused' = FALSE
  /\ IF active THEN ReleaseInputToOs("focus") ELSE KeepInput
  /\ UNCHANGED <<protected, released, ctrl>>

FocusLost ==
  /\ TakeReport
  /\ Head(reports) = "unfocused" /\ protected
  /\ saw' = TRUE /\ focused' = FALSE /\ ctrl' = FALSE
  /\ IF active THEN ReleaseInputToOs("focus") ELSE KeepInput
  /\ UNCHANGED <<protected, released>>

\* Mutant of RelayGone: manual capture is only prepared when input was captured.
RelayGone_OnlyActive ==
  /\ TakeReport
  /\ Head(reports) = "gone" /\ protected
  /\ protected' = FALSE /\ focused' = FALSE /\ released' = (released \/ active) /\ ctrl' = FALSE
  /\ IF active THEN ReleaseInputToOs("focus") ELSE KeepInput
  /\ UNCHANGED saw

RelayGone ==
  /\ TakeReport
  /\ Head(reports) = "gone" /\ protected
  /\ protected' = FALSE /\ focused' = FALSE /\ released' = TRUE /\ ctrl' = FALSE
  /\ IF active THEN ReleaseInputToOs("focus") ELSE KeepInput
  /\ UNCHANGED saw

\* protection has been given up: capture stays manual
FocusIgnored ==
  /\ TakeReport
  /\ ~protected
  /\ IF Head(reports) = "gone"
       THEN UNCHANGED <<saw, focused>>
       ELSE saw' = TRUE /\ focused' = (Head(reports) = "focused")
  /\ KeepInput
  /\ UNCHANGED <<protected, released, ctrl>>

RelayIsSilent == protected /\ ~active /\ ~released /\ ~saw

\* FOCUS_FALLBACK_AFTER has passed
FallBack == RelayIsSilent /\ protected' = FALSE /\ released' = TRUE

FocusDone ==
  /\ at = "focus"
  /\ reports = <<>>
  /\ at' = "host"
  /\ FallBack \/ UNCHANGED <<protected, released>>
  /\ UNCHANGED <<config, batch, active, ctrl, mode, before, focused, saw, deviceVars,
                 queue, reports, desktopVars, runtimeVars, wanted>>

\* IDLE_POLL passes without an event
Idle ==
  /\ at = "host"
  /\ queue = <<>>
  /\ at' = "top"
  /\ UNCHANGED <<config, batch, loopVars, focusVars, deviceVars, queue, reports,
                 desktopVars, runtimeVars, wanted>>

\* The keyboard's reader sent the next n key events as one batch.
TakeKeys(n) ==
  /\ at = "host"
  /\ n <= Len(queue)
  /\ \A i \in 1 .. n : IsKey(queue[i])
  /\ at' = "keys" /\ batch' = n
  /\ UNCHANGED <<config, loopVars, focusVars, deviceVars, queue, reports, desktopVars,
                 runtimeVars, wanted>>

NextKey ==
  /\ at = "keys"
  /\ batch > 0
  /\ batch' = batch - 1
  /\ queue' = Tail(queue)
  /\ UNCHANGED <<config, focusVars, reports, desktopVars>>

HandleF12 ==
  /\ NextKey
  /\ Head(queue).input = F12
  /\ ctrl' = FALSE
  /\ \/ /\ active
        /\ released' = TRUE
        /\ ReleaseInputToOs("keys")
     \/ /\ ~active /\ released /\ (focused \/ ~protected)
        /\ CaptureInput("keys")
        /\ released' = (at' = "stopping")
     \/ /\ ~active /\ (~released \/ (protected /\ ~focused))
        /\ KeepInput
        /\ UNCHANGED released
  /\ UNCHANGED wanted

\* A key event while the desktop owns the input is dropped.
DropKey ==
  /\ NextKey
  /\ Head(queue).input # F12
  /\ ~active
  /\ UNCHANGED <<at, loopVars, deviceVars, runtimeVars, wanted>>

CtrlAfter(e) == IF e.input = Ctrl THEN e.move # "release" ELSE ctrl

ExitHotkey ==
  /\ NextKey
  /\ active
  /\ Head(queue).input \in ExitKeys /\ Head(queue).move = "press" /\ ctrl
  /\ at' = "stopping"
  /\ UNCHANGED <<loopVars, deviceVars, runtimeVars, wanted>>

ToggledBy(k) == {a \in Toggled : ToggleKey[a] = k}

\* handle_keyboard: a key that is held already repeats without effect
HandleKey ==
  LET e     == Head(queue)
      mine  == ToggledBy(e.input)
      flip  == IF e.move = "press" THEN (aims \ mine) \cup (mine \ aims) ELSE aims
  IN  /\ NextKey
      /\ active
      /\ e.input # F12
      /\ ~(e.input \in ExitKeys /\ e.move = "press" /\ ctrl)
      /\ ctrl' = CtrlAfter(e)
      /\ held' = CASE e.move = "press"   -> held \cup {e.input}
                   [] e.move = "release" -> held \ {e.input}
                   [] e.move = "repeat"  -> held
      /\ aims' = flip
      /\ wanted' = IF e.move = "press" THEN (wanted \ mine) \cup (mine \cap flip) ELSE wanted
      /\ UNCHANGED <<at, active, released, mode, before, deviceVars, cursor>>

\* After a batch of keys the mode follows the aims.
SyncMode ==
  /\ at = "keys"
  /\ batch = 0
  /\ LET next == DesiredMode(aims) IN
     IF active /\ next # mode
       THEN \/ /\ ApplyInputMode(next, TRUE)
               /\ mode' = next
               /\ at' = "top"
            \/ /\ at' = "stopping"
               /\ mouse' \in {mouse, IF mouse.alive THEN SetMouseMode(mouse, TRUE, config.grab)
                                                    ELSE mouse}
               /\ UNCHANGED <<mode, overlayOn, runtimeVars>>
       ELSE at' = "top" /\ UNCHANGED <<mode, mouse, overlayOn, runtimeVars>>
  /\ UNCHANGED <<config, batch, active, released, ctrl, before, focusVars, kbd, queue,
                 reports, desktopVars, wanted>>

NextHost ==
  /\ at = "host"
  /\ queue # <<>>
  /\ queue' = Tail(queue)
  /\ UNCHANGED <<config, batch, loopVars, focusVars, deviceVars, reports, desktopVars,
                 wanted>>

\* cursor_down and cursor_up
ClickCursor(e) == cursor' = (e.move = "press") /\ UNCHANGED <<held, aims>>

HandleMouse ==
  LET e == Head(queue) IN
  /\ NextHost
  /\ e.input \in Buttons
  /\ at' = "top"
  /\ CASE ~active -> UNCHANGED runtimeVars
       [] active /\ mode = "aim" ->
            /\ held' = IF e.move = "press" THEN held \cup {e.input} ELSE held \ {e.input}
            /\ UNCHANGED <<aims, cursor>>
       [] active /\ mode = "ui" ->
            IF e.input = Left THEN ClickCursor(e) ELSE UNCHANGED runtimeVars

HandleOverlay ==
  /\ NextHost
  /\ Head(queue).input = Pointer
  /\ at' = "top"
  /\ IF active /\ mode = "ui" THEN ClickCursor(Head(queue)) ELSE UNCHANGED runtimeVars

ReaderFailed ==
  /\ NextHost
  /\ Head(queue).input = Failure
  /\ at' = "stopping"
  /\ UNCHANGED runtimeVars

\* A touch frame is rejected.  What it left half done is undone by StopRuntime.
EngineFails ==
  /\ at \in {"host", "keys"}
  /\ active
  /\ at' = "stopping"
  /\ UNCHANGED <<config, batch, loopVars, focusVars, deviceVars, queue, reports,
                 desktopVars, runtimeVars, wanted>>

\* The loop has ended; runtime.stop suspends the runtime and the loop's state is
\* dropped, the overlay, the channels and the commands to the readers with it.
\* Nothing looks at the inputs any more.
StopRuntime ==
  /\ at = "stopping"
  /\ at' = "over"
  /\ SuspendRuntime
  /\ queue' = <<>> /\ reports' = <<>> /\ batch' = 0
  /\ active' = FALSE /\ protected' = FALSE /\ focused' = FALSE /\ released' = FALSE
  /\ saw' = FALSE /\ ctrl' = FALSE /\ mode' = "aim" /\ before' = FALSE
  /\ overlayOn' = FALSE /\ relayUp' = FALSE /\ physical' = {} /\ wanted' = {}
  /\ UNCHANGED <<config, kbd, mouse, desktop>>

-----------------------------------------------------------------------------
(* The threads that read the devices.  A reader closes its device when it ends,
   which gives up the grab. *)

\* Mutant of CloseKeyboard: the descriptor outlives its reader.
CloseKeyboard_Leaks == kbd' = [kbd EXCEPT !.alive = FALSE, !.captured = FALSE]

CloseKeyboard == kbd' = [alive |-> FALSE, captured |-> FALSE, grabbed |-> FALSE]
CloseMouse ==
  mouse' = [alive |-> FALSE, forward |-> FALSE, believed |-> FALSE, grabbed |-> FALSE]

LoopUnchanged == UNCHANGED <<config, at, batch, loopVars, focusVars, overlayOn, runtimeVars, wanted>>

Send(e) == Len(queue) < MaxQueue /\ queue' = Append(queue, e)

\* An input goes down or up; its reader forwards it or swallows it.
Change(i, forwarded) ==
  /\ Running
  /\ IF i \in physical THEN physical' = physical \ {i} ELSE physical' = physical \cup {i}
  /\ IF forwarded THEN Send(Event(i, IF i \in physical THEN "release" ELSE "press"))
                  ELSE UNCHANGED queue
  /\ LoopUnchanged
  /\ UNCHANGED <<kbd, mouse, reports, relayUp, desktop>>

KeyChanges(k)    == Change(k, kbd.alive /\ kbd.captured)
ButtonChanges(b) == Change(b, mouse.alive /\ mouse.forward)

\* The overlay has an input region only while it is enabled; a press it has seen is
\* followed by a release, be it that the pointer leaves the surface.
PointerChanges ==
  /\ config.overlay
  /\ overlayOn \/ Pointer \in physical
  /\ Change(Pointer, TRUE)

\* F12 is forwarded whoever owns the input
PressF12 ==
  /\ Running
  /\ kbd.alive
  /\ Send(Event(F12, "press"))
  /\ LoopUnchanged
  /\ UNCHANGED <<kbd, mouse, reports, desktopVars>>

\* Of the keys that repeat only Ctrl is looked at.
RepeatCtrl ==
  /\ Running
  /\ Ctrl \in physical
  /\ kbd.alive /\ kbd.captured
  /\ Send(Event(Ctrl, "repeat"))
  /\ LoopUnchanged
  /\ UNCHANGED <<kbd, mouse, reports, desktopVars>>

KeyboardFails ==
  /\ Running
  /\ kbd.alive
  /\ Send(Event(Failure, "press"))
  /\ CloseKeyboard
  /\ LoopUnchanged
  /\ UNCHANGED <<mouse, reports, desktopVars>>

MouseFails ==
  /\ Running
  /\ mouse.alive
  /\ Send(Event(Failure, "press"))
  /\ CloseMouse
  /\ LoopUnchanged
  /\ UNCHANGED <<kbd, reports, desktopVars>>

KeyboardReaderEnds ==
  /\ at = "over"
  /\ kbd.alive
  /\ CloseKeyboard
  /\ LoopUnchanged
  /\ UNCHANGED <<mouse, queue, reports, desktopVars>>

MouseReaderEnds ==
  /\ at = "over"
  /\ mouse.alive
  /\ CloseMouse
  /\ LoopUnchanged
  /\ UNCHANGED <<kbd, queue, reports, desktopVars>>

-----------------------------------------------------------------------------
(* The focus relay, which reports every activation of a window. *)

RelayReports(r) ==
  /\ Running
  /\ relayUp
  /\ Len(reports) < MaxFocus
  /\ reports' = Append(reports, r)
  /\ desktop' = r
  /\ relayUp' = (r # "gone")
  /\ LoopUnchanged
  /\ UNCHANGED <<kbd, mouse, queue, physical>>

Over ==
  /\ at = "over"
  /\ ~kbd.alive /\ ~mouse.alive
  /\ UNCHANGED vars

-----------------------------------------------------------------------------
HandleReport == FocusGained \/ FocusLost \/ RelayGone \/ FocusIgnored
HandleKeys == HandleF12 \/ DropKey \/ ExitHotkey \/ HandleKey

LoopStep ==
  \/ Top \/ HandleReport \/ FocusDone \/ Idle
  \/ \E n \in 1 .. MaxBatch : TakeKeys(n)
  \/ HandleKeys \/ SyncMode \/ HandleMouse \/ HandleOverlay \/ ReaderFailed
  \/ StopRuntime

ReaderEnds == KeyboardReaderEnds \/ MouseReaderEnds

Environment ==
  \/ Interrupted \/ EngineFails
  \/ \E k \in Keys : KeyChanges(k)
  \/ \E b \in Buttons : ButtonChanges(b)
  \/ PointerChanges \/ PressF12 \/ RepeatCtrl
  \/ KeyboardFails \/ MouseFails
  \/ \E r \in Reports : RelayReports(r)

Next == LoopStep \/ ReaderEnds \/ Environment \/ Over

Spec == Init /\ [][Next]_vars

\* The loop and the readers are threads that run.  The loop empties the reports
\* before it looks at the host events, and it is faster than the windows of a desktop
\* change: it finds no report again and again, and then the grace period ends.
LiveSpec ==
  /\ Spec
  /\ WF_vars(LoopStep) /\ SF_vars(FocusDone) /\ SF_vars(FocusDone /\ FallBack)
  /\ WF_vars(KeyboardReaderEnds) /\ WF_vars(MouseReaderEnds)

-----------------------------------------------------------------------------
(* Properties. *)

Clean == held = {} /\ aims = {} /\ ~cursor

\* Whatever order focus reports, F12 and key batches are handled in, the loop and
\* the two readers agree on who owns the input: a live reader forwards exactly
\* while the loop is active, the devices are grabbed exactly then if grabbing is
\* allowed, and the overlay takes clicks exactly in UI mode.
CaptureIsConsistent ==
  Running =>
    /\ kbd.alive => kbd.captured = active
    /\ mouse.alive => mouse.forward = active
    /\ config.grab /\ kbd.alive => kbd.grabbed = active
    /\ config.grab /\ mouse.alive => mouse.grabbed = active
    /\ overlayOn = (active /\ mode = "ui")

\* While focus is protected and every report has been handled, the game owns the
\* input exactly when its window has the focus and the user has not released it.
FocusDecides ==
  Running /\ protected /\ reports = <<>> =>
    active = (desktop = "focused" /\ ~released)

\* Once input is back with the desktop no touch, held input, aim or half-typed
\* exit hotkey is left of it, and a session that is over leaves none either.
ReleasedIsClean ==
  /\ Running /\ ~active => Clean /\ ~ctrl
  /\ at = "over" => Clean

\* Between batches the mouse does what the aims ask for: after focus loss, manual
\* release and recapture in any order, an active aim never leaves the mouse with
\* the UI cursor, nor does a profile with its aims off leave it aiming.
ModeFollowsAim ==
  Running /\ active /\ at # "keys" => mode = DesiredMode(aims)

\* A session that does not own the input can get it back: F12 recaptures it, or
\* a focus report can still come.
AlwaysRecoverable ==
  Running /\ ~active /\ ~released =>
    protected /\ (relayUp \/ \E i \in DOMAIN reports : reports[i] = "gone")

\* Releasing and recapturing the input loses no aim that the user switched on.
WantedAimsReturn ==
  Running /\ active => wanted \subseteq aims

\* A protected session whose relay stays silent falls back to manual capture
\* after the grace period instead of staying dead.
SilentRelayFallsBack ==
  (Running /\ protected /\ ~active /\ ~released /\ ~saw) ~> (saw \/ ~protected \/ ~Running)

\* Every exit of the loop, a failed release or capture included, ends with both
\* devices given back to the desktop.
DevicesReturn ==
  (at = "stopping") ~> (~kbd.grabbed /\ ~mouse.grabbed)

=============================================================================
