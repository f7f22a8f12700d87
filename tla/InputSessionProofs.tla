------------------------- MODULE InputSessionProofs -------------------------
(***************************************************************************)
(* The safety properties of InputSession, for every profile, every set of  *)
(* options and every bound.                                                *)
(*                                                                         *)
(* None of them is inductive by itself.  That the devices follow the loop  *)
(* needs the mouse's reader to know its grab; that the focus decides needs *)
(* the last report under way to be the desktop's; that recapture finds the *)
(* right mode and aims needs what a release writes down about them.        *)
(***************************************************************************)
EXTENDS InputSession, TLAPS

\* The events of the batch under way are the first of the queue, and are keys.
BatchFits ==
  at = "keys" => /\ batch <= Len(queue)
                 /\ \A i \in 1 .. batch : IsKey(queue[i])

\* The mouse's reader believes the truth about a grab that is allowed, and UI mode
\* has an overlay.
DevicesKnown ==
  /\ config.grab => mouse.believed = mouse.grabbed
  /\ mode = "ui" => config.overlay

\* While focus is protected the loop follows the reports it has handled, and the
\* last one under way is the desktop's.
FocusFollowed ==
  Running /\ protected =>
    /\ active = (focused /\ ~released)
    /\ reports = <<>> => focused = (desktop = "focused") /\ desktop # "gone"
    /\ reports # <<>> => reports[Len(reports)] = desktop
    /\ relayUp \/ desktop = "gone"

\* Input that is with the desktop has left nothing behind, can come back, and the
\* loop has written down how.
Resting ==
  Running /\ ~active =>
    /\ Clean /\ ~ctrl
    /\ protected \/ released
    /\ IF before THEN mode = "aim" /\ Aims # {}
                 ELSE mode = DesiredMode(AlwaysOn) /\ wanted = {}

\* Input that is with the game: no aim is missing, and the mode fits them.
Playing ==
  Running /\ active =>
    /\ AlwaysOn \subseteq aims
    /\ wanted \subseteq aims
    /\ at # "keys" => mode = DesiredMode(aims)

OverIsClean == at = "over" => Clean

Inv ==
  /\ TypeOK
  /\ BatchFits
  /\ CaptureIsConsistent
  /\ DevicesKnown
  /\ FocusFollowed
  /\ Resting
  /\ Playing
  /\ OverIsClean

-----------------------------------------------------------------------------
(* Types. *)

KbdType   == [alive : BOOLEAN, captured : BOOLEAN, grabbed : BOOLEAN]
MouseType == [alive : BOOLEAN, forward : BOOLEAN, believed : BOOLEAN, grabbed : BOOLEAN]

\* A command leaves the record of a reader a record of a reader.
LEMMA ReaderTypes ==
  /\ \A k \in KbdType, e \in BOOLEAN : SetKeyboardCapture(k, e) \in KbdType
  /\ \A m \in MouseType, f, g \in BOOLEAN : SetMouseMode(m, f, g) \in MouseType
BY DEF KbdType, MouseType, SetKeyboardCapture, SetMouseMode

\* The options of a session are three truth values.
LEMMA ConfigType ==
  ASSUME TypeOK
  PROVE  config.grab \in BOOLEAN /\ config.relay \in BOOLEAN /\ config.overlay \in BOOLEAN
BY OptionsAssumption DEF TypeOK

\* So does the end of a reader.
LEMMA ClosedTypes ==
  /\ CloseKeyboard => kbd' \in KbdType
  /\ CloseMouse => mouse' \in MouseType
<1>1. [alive |-> FALSE, captured |-> FALSE, grabbed |-> FALSE] \in KbdType BY DEF KbdType
<1>2. [alive |-> FALSE, forward |-> FALSE, believed |-> FALSE, grabbed |-> FALSE] \in MouseType
  BY DEF MouseType
<1> QED BY <1>1, <1>2 DEF CloseKeyboard, CloseMouse

\* What a release writes has the right types.
LEMMA ReleaseTypes ==
  ASSUME TypeOK, NEW next \in {"focus", "keys"}, ReleaseInputToOs(next)
  PROVE  /\ active' \in BOOLEAN /\ mode' \in {"aim", "ui"} /\ before' \in BOOLEAN
         /\ kbd' \in KbdType /\ mouse' \in MouseType /\ overlayOn' \in BOOLEAN
         /\ held' \subseteq Inputs /\ aims' \subseteq Aims /\ cursor' \in BOOLEAN
         /\ at' \in {next, "stopping"}
<1>0. kbd \in KbdType /\ mouse \in MouseType BY DEF TypeOK, KbdType, MouseType
<1>1. kbd' \in KbdType /\ mouse' \in MouseType
  BY <1>0, ReaderTypes DEF ReleaseInputToOs, ReadersPartly
<1>2. active' \in BOOLEAN /\ mode' \in {"aim", "ui"} /\ before' \in BOOLEAN
  BY DEF ReleaseInputToOs, DesiredMode
<1>3. overlayOn' \in BOOLEAN /\ cursor' \in BOOLEAN
  BY DEF ReleaseInputToOs, TypeOK, SuspendRuntime, runtimeVars
<1>4. held' \subseteq Inputs /\ aims' \subseteq Aims
  BY DEF ReleaseInputToOs, TypeOK, SuspendRuntime, runtimeVars
<1>5. at' \in {next, "stopping"} BY DEF ReleaseInputToOs
<1> QED BY <1>1, <1>2, <1>3, <1>4, <1>5

\* What a change of mode writes has the right types.
LEMMA ApplyTypes ==
  ASSUME TypeOK, NEW m, NEW r \in BOOLEAN, ApplyInputMode(m, r)
  PROVE  /\ mouse' \in MouseType /\ overlayOn' \in BOOLEAN /\ cursor' \in BOOLEAN
         /\ held' \subseteq Inputs /\ aims' \subseteq Aims
<1>0. mouse \in MouseType BY DEF TypeOK, MouseType
<1>1. mouse' \in MouseType BY <1>0, ReaderTypes, ConfigType DEF ApplyInputMode
<1>2. overlayOn' \in BOOLEAN /\ cursor' \in BOOLEAN
  BY DEF ApplyInputMode, TypeOK
<1>3. held' \subseteq Inputs /\ aims' \subseteq Aims
  BY DEF ApplyInputMode, ApplyToRuntime, RestoreAim, AlwaysOn, TypeOK
<1> QED BY <1>1, <1>2, <1>3

\* What a capture writes has the right types.
LEMMA CaptureTypes ==
  ASSUME TypeOK, NEW next \in {"focus", "keys"}, CaptureInput(next)
  PROVE  /\ active' \in BOOLEAN /\ mode' \in {"aim", "ui"} /\ before' \in BOOLEAN
         /\ kbd' \in KbdType /\ mouse' \in MouseType /\ overlayOn' \in BOOLEAN
         /\ held' \subseteq Inputs /\ aims' \subseteq Aims /\ cursor' \in BOOLEAN
         /\ at' \in {next, "stopping"}
<1>0. kbd \in KbdType /\ mouse \in MouseType BY DEF TypeOK, KbdType, MouseType
<1>1. CASE /\ kbd.alive
           /\ kbd' = SetKeyboardCapture(kbd, TRUE)
           /\ ApplyInputMode(mode, before)
           /\ active' = TRUE
           /\ at' = next
           /\ UNCHANGED <<mode, before>>
  <2>1. before \in BOOLEAN /\ mode \in {"aim", "ui"} BY DEF TypeOK
  <2>2. kbd' \in KbdType BY <1>0, <1>1, ReaderTypes
  <2> QED BY <1>1, <2>1, <2>2, ApplyTypes
<1>2. CASE /\ ReadersPartly(SetKeyboardCapture(kbd, TRUE), SetMouseMode(mouse, TRUE, config.grab))
           /\ at' = "stopping"
           /\ UNCHANGED <<active, mode, before, overlayOn, runtimeVars>>
  <2>1. kbd' \in KbdType /\ mouse' \in MouseType
    BY <1>0, <1>2, ReaderTypes, ConfigType DEF ReadersPartly
  <2> QED BY <1>2, <2>1 DEF TypeOK, runtimeVars
<1> QED BY <1>1, <1>2 DEF CaptureInput

\* Handling a key of the batch under way shortens the queue and the batch by it.
LEMMA NextKeyFacts ==
  ASSUME TypeOK, BatchFits, NextKey
  PROVE  /\ Head(queue) \in Events /\ IsKey(Head(queue))
         /\ queue' \in Seq(Events) /\ Len(queue') <= MaxQueue
         /\ batch' \in 0 .. MaxBatch /\ batch' <= Len(queue')
         /\ \A i \in 1 .. batch' : IsKey(queue'[i])
<1>1. /\ queue \in Seq(Events) /\ Len(queue) <= MaxQueue /\ batch \in 0 .. MaxBatch
      /\ batch > 0 /\ batch <= Len(queue)
      /\ \A i \in 1 .. batch : IsKey(queue[i])
      /\ batch' = batch - 1 /\ queue' = Tail(queue)
      /\ MaxBatch \in Nat /\ MaxQueue \in Nat
  BY BoundsAssumption DEF TypeOK, BatchFits, NextKey
<1>2. Head(queue) \in Events /\ Head(queue) = queue[1] BY <1>1
<1>3. /\ queue' \in Seq(Events) /\ Len(queue') = Len(queue) - 1
      /\ \A i \in 1 .. Len(queue) - 1 : queue'[i] = queue[i + 1]
  BY <1>1
<1>4. \A i \in 1 .. batch' : IsKey(queue'[i]) BY <1>1, <1>3
<1> QED BY <1>1, <1>2, <1>3, <1>4

\* Sending an event puts it behind the others.
LEMMA SendFacts ==
  ASSUME TypeOK, NEW e \in Events, Send(e)
  PROVE  /\ queue' \in Seq(Events) /\ Len(queue') <= MaxQueue
         /\ Len(queue') = Len(queue) + 1
         /\ \A i \in 1 .. Len(queue) : queue'[i] = queue[i]
BY BoundsAssumption DEF TypeOK, Send

\* What the environment sends is an event.
LEMMA EventTypes ==
  /\ \A i \in Inputs \cup {F12, Pointer, Failure} :
        /\ Event(i, "press") \in Events
        /\ Event(i, "release") \in Events
        /\ Event(i, "repeat") \in Events
BY DEF Event, Events

\* An event added to the queue does not disturb the batch under way.
LEMMA SendKeepsBatch ==
  ASSUME TypeOK, BatchFits, NEW e \in Events, Send(e), UNCHANGED <<at, batch>>
  PROVE  BatchFits'
<1>1. /\ Len(queue') = Len(queue) + 1
      /\ \A i \in 1 .. Len(queue) : queue'[i] = queue[i]
      /\ Len(queue) \in Nat /\ batch \in Nat
  BY SendFacts DEF TypeOK
<1>2. CASE at = "keys"
  <2>1. batch <= Len(queue) /\ \A i \in 1 .. batch : IsKey(queue[i]) BY <1>2 DEF BatchFits
  <2>2. \A i \in 1 .. batch : IsKey(queue'[i]) BY <1>1, <2>1
  <2> QED BY <1>1, <2>1, <2>2 DEF BatchFits
<1>3. CASE at # "keys" BY <1>3 DEF BatchFits
<1> QED BY <1>2, <1>3

\* A focus report is taken off the front.
LEMMA TakeReportFacts ==
  ASSUME TypeOK, TakeReport
  PROVE  /\ reports' \in Seq(Reports) /\ Len(reports') <= MaxFocus
         /\ Head(reports) \in Reports
BY BoundsAssumption DEF TypeOK, TakeReport

\* Every variable a report leaves alone, and the queue, keep their types.
LEMMA ReportTypes ==
  ASSUME TypeOK, BatchFits, HandleReport
  PROVE  TypeOK' /\ BatchFits'
<1>0. TakeReport /\ at = "focus"
  BY DEF HandleReport, FocusGained, FocusLost, RelayGone, FocusIgnored, TakeReport
<1>1. /\ saw' \in BOOLEAN /\ focused' \in BOOLEAN /\ protected' \in BOOLEAN
      /\ released' \in BOOLEAN /\ ctrl' \in BOOLEAN
  BY DEF TypeOK, HandleReport, FocusGained, FocusLost, RelayGone, FocusIgnored
<1>2. /\ active' \in BOOLEAN /\ mode' \in {"aim", "ui"} /\ before' \in BOOLEAN
      /\ kbd' \in KbdType /\ mouse' \in MouseType /\ overlayOn' \in BOOLEAN
      /\ held' \subseteq Inputs /\ aims' \subseteq Aims /\ cursor' \in BOOLEAN
      /\ at' \in {"focus", "stopping"}
  <2>1. CASE KeepInput
    BY <1>0, <2>1 DEF KeepInput, TypeOK, KbdType, MouseType, deviceVars, runtimeVars
  <2>2. CASE CaptureInput("focus") BY <2>2, CaptureTypes
  <2>3. CASE ReleaseInputToOs("focus") BY <2>3, ReleaseTypes
  <2> QED BY <2>1, <2>2, <2>3 DEF HandleReport, FocusGained, FocusLost, RelayGone, FocusIgnored
<1>3. BatchFits' BY <1>2 DEF BatchFits
<1>4. reports' \in Seq(Reports) /\ Len(reports') <= MaxFocus BY <1>0, TakeReportFacts
<1>5. UNCHANGED <<config, batch, queue, relayUp, desktop, physical, wanted>>
  BY <1>0 DEF TakeReport, desktopVars
<1> QED BY <1>1, <1>2, <1>3, <1>4, <1>5 DEF TypeOK, KbdType, MouseType

\* So do the variables a key of the batch leaves alone.
LEMMA KeysTypes ==
  ASSUME TypeOK, BatchFits, HandleKeys
  PROVE  TypeOK' /\ BatchFits'
<1>0. NextKey /\ at = "keys"
  BY DEF HandleKeys, HandleF12, DropKey, ExitHotkey, HandleKey, NextKey
<1>1. /\ Head(queue) \in Events /\ IsKey(Head(queue))
      /\ queue' \in Seq(Events) /\ Len(queue') <= MaxQueue
      /\ batch' \in 0 .. MaxBatch
      /\ BatchFits'
  BY <1>0, NextKeyFacts DEF BatchFits
<1>2. /\ active' \in BOOLEAN /\ mode' \in {"aim", "ui"} /\ before' \in BOOLEAN
      /\ kbd' \in KbdType /\ mouse' \in MouseType /\ overlayOn' \in BOOLEAN
      /\ held' \subseteq Inputs /\ aims' \subseteq Aims /\ cursor' \in BOOLEAN
      /\ at' \in {"keys", "stopping"} /\ wanted' \subseteq Toggled
  <2>1. CASE HandleF12
    <3>1. CASE KeepInput
      BY <1>0, <2>1, <3>1 DEF HandleF12, KeepInput, TypeOK, KbdType, MouseType, deviceVars,
                              runtimeVars
    <3>2. CASE CaptureInput("keys") BY <2>1, <3>2, CaptureTypes DEF HandleF12, TypeOK
    <3>3. CASE ReleaseInputToOs("keys") BY <2>1, <3>3, ReleaseTypes DEF HandleF12, TypeOK
    <3> QED BY <2>1, <3>1, <3>2, <3>3 DEF HandleF12
  <2>2. CASE DropKey \/ ExitHotkey
    BY <1>0, <2>2 DEF DropKey, ExitHotkey, TypeOK, KbdType, MouseType, loopVars, deviceVars,
                      runtimeVars
  <2>3. CASE HandleKey
    <3>1. Head(queue).input \in Inputs
      BY <1>1, <2>3 DEF HandleKey, IsKey, Inputs
    <3>2. Head(queue).move \in {"press", "release", "repeat"} BY <1>1 DEF Events
    <3>3. held' \subseteq Inputs BY <2>3, <3>1, <3>2 DEF HandleKey, TypeOK
    <3>4. aims' \subseteq Aims /\ wanted' \subseteq Toggled
      BY <2>3 DEF HandleKey, TypeOK, ToggledBy, Toggled
    <3> QED
      BY <1>0, <2>3, <3>3, <3>4 DEF HandleKey, TypeOK, KbdType, MouseType, deviceVars
  <2> QED BY <2>1, <2>2, <2>3 DEF HandleKeys
<1>3. ctrl' \in BOOLEAN /\ released' \in BOOLEAN
  <2>1. CtrlAfter(Head(queue)) \in BOOLEAN BY DEF CtrlAfter, TypeOK
  <2> QED BY <2>1 DEF HandleKeys, HandleF12, DropKey, ExitHotkey, HandleKey, loopVars, TypeOK
<1>4. UNCHANGED <<config, focusVars, reports, relayUp, desktop, physical>>
  BY <1>0 DEF NextKey, desktopVars
<1> QED BY <1>1, <1>2, <1>3, <1>4 DEF TypeOK, KbdType, MouseType, focusVars

\* The other steps of the loop keep the types.
LEMMA LoopTypes ==
  ASSUME TypeOK, BatchFits,
         \/ Top \/ Interrupted \/ FocusDone \/ Idle \/ (\E n \in 1 .. MaxBatch : TakeKeys(n))
         \/ SyncMode \/ HandleMouse \/ HandleOverlay \/ ReaderFailed \/ EngineFails
         \/ StopRuntime
  PROVE  TypeOK' /\ BatchFits'
<1>1. CASE Top \/ Interrupted \/ Idle \/ EngineFails
  <2>1. UNCHANGED <<config, batch, loopVars, focusVars, deviceVars, queue, reports,
                    desktopVars, runtimeVars, wanted>>
    BY <1>1 DEF Top, Interrupted, Idle, EngineFails
  <2>2. at' \in {"focus", "stopping", "top"} BY <1>1 DEF Top, Interrupted, Idle, EngineFails
  <2> QED
    BY <2>1, <2>2 DEF TypeOK, BatchFits, loopVars, focusVars, deviceVars, desktopVars, runtimeVars
<1>2. CASE FocusDone
  <2>1. protected' \in BOOLEAN /\ released' \in BOOLEAN BY <1>2 DEF FocusDone, FallBack, TypeOK
  <2>2. /\ UNCHANGED <<config, batch, active, ctrl, mode, before, focused, saw, deviceVars,
                       queue, reports, desktopVars, runtimeVars, wanted>>
        /\ at' = "host"
    BY <1>2 DEF FocusDone
  <2> QED
    BY <2>1, <2>2 DEF TypeOK, BatchFits, deviceVars, desktopVars, runtimeVars
<1>3. CASE \E n \in 1 .. MaxBatch : TakeKeys(n)
  <2>1. PICK n \in 1 .. MaxBatch : TakeKeys(n) BY <1>3
  <2>2. n \in 0 .. MaxBatch BY BoundsAssumption
  <2>3. BatchFits' BY <2>1 DEF TakeKeys, BatchFits, IsKey
  <2> QED
    BY <2>1, <2>2, <2>3 DEF TakeKeys, TypeOK, loopVars, focusVars, deviceVars, desktopVars,
                            runtimeVars
<1>4. CASE SyncMode
  <2>1. /\ mouse' \in MouseType /\ overlayOn' \in BOOLEAN /\ cursor' \in BOOLEAN
        /\ held' \subseteq Inputs /\ aims' \subseteq Aims /\ mode' \in {"aim", "ui"}
        /\ at' \in {"top", "stopping"}
    <3>0. mouse \in MouseType /\ config.grab \in BOOLEAN BY ConfigType DEF TypeOK, MouseType
    <3>1. CASE ApplyInputMode(DesiredMode(aims), TRUE) /\ mode' = DesiredMode(aims) /\ at' = "top"
      BY <3>1, ApplyTypes DEF DesiredMode
    <3>2. CASE /\ at' \in {"top", "stopping"}
               /\ mouse' \in {mouse, SetMouseMode(mouse, TRUE, config.grab)}
               /\ UNCHANGED <<mode, overlayOn, runtimeVars>>
      BY <3>0, <3>2, ReaderTypes DEF TypeOK, runtimeVars
    <3> QED BY <1>4, <3>1, <3>2 DEF SyncMode
  <2> QED
    BY <1>4, <2>1 DEF SyncMode, TypeOK, BatchFits, MouseType, focusVars, desktopVars
<1>5. CASE HandleMouse \/ HandleOverlay \/ ReaderFailed
  <2>1. NextHost /\ at' \in {"top", "stopping"}
    BY <1>5 DEF HandleMouse, HandleOverlay, ReaderFailed
  <2>2. queue' \in Seq(Events) /\ Len(queue') <= MaxQueue
    BY <2>1, BoundsAssumption DEF NextHost, TypeOK
  <2>3. held' \subseteq Inputs /\ aims' \subseteq Aims /\ cursor' \in BOOLEAN
    <3>1. CASE HandleMouse
      <4>1. held' \subseteq Inputs
        BY <3>1 DEF HandleMouse, ClickCursor, runtimeVars, TypeOK, Inputs
      <4>2. aims' \subseteq Aims /\ cursor' \in BOOLEAN
        BY <3>1 DEF HandleMouse, ClickCursor, runtimeVars, TypeOK
      <4> QED BY <4>1, <4>2
    <3>2. CASE HandleOverlay \/ ReaderFailed
      BY <3>2 DEF HandleOverlay, ReaderFailed, ClickCursor, runtimeVars, TypeOK
    <3> QED BY <1>5, <3>1, <3>2
  <2> QED
    BY <2>1, <2>2, <2>3 DEF NextHost, TypeOK, BatchFits, loopVars, focusVars, deviceVars,
                            desktopVars
<1>6. CASE StopRuntime
  <2>1. queue' \in Seq(Events) /\ Len(queue') = 0 /\ reports' \in Seq(Reports) /\ Len(reports') = 0
    BY <1>6 DEF StopRuntime
  <2>2. batch' \in 0 .. MaxBatch /\ MaxQueue \in Nat /\ MaxFocus \in Nat
    BY <1>6, BoundsAssumption DEF StopRuntime
  <2>3. physical' \subseteq Inputs \cup {Pointer} /\ held' \subseteq Inputs /\ aims' \subseteq Aims
        /\ wanted' \subseteq Toggled
    BY <1>6 DEF StopRuntime, SuspendRuntime
  <2>4. /\ at' = "over" /\ mode' = "aim" /\ UNCHANGED <<config, kbd, mouse, desktop>>
        /\ active' \in BOOLEAN /\ protected' \in BOOLEAN /\ focused' \in BOOLEAN
        /\ released' \in BOOLEAN /\ saw' \in BOOLEAN
        /\ ctrl' \in BOOLEAN /\ before' \in BOOLEAN
        /\ overlayOn' \in BOOLEAN /\ relayUp' \in BOOLEAN /\ cursor' \in BOOLEAN
    BY <1>6 DEF StopRuntime, SuspendRuntime
  <2> QED
    BY <2>1, <2>2, <2>3, <2>4 DEF TypeOK, BatchFits
<1> QED BY <1>1, <1>2, <1>3, <1>4, <1>5, <1>6

\* The readers, the relay and time keep the types.
LEMMA EnvironmentTypes ==
  ASSUME TypeOK, BatchFits,
         \/ ReaderEnds
         \/ (\E k \in Keys : KeyChanges(k)) \/ (\E b \in Buttons : ButtonChanges(b))
         \/ PointerChanges \/ PressF12 \/ RepeatCtrl \/ KeyboardFails \/ MouseFails
         \/ (\E r \in Reports : RelayReports(r))
  PROVE  TypeOK' /\ BatchFits'
<1>1. ASSUME NEW i \in Inputs \cup {Pointer}, NEW f \in BOOLEAN, Change(i, f)
      PROVE  TypeOK' /\ BatchFits'
  <2>1. physical' \subseteq Inputs \cup {Pointer} BY <1>1 DEF Change, TypeOK
  <2>2. UNCHANGED <<config, at, batch, loopVars, focusVars, overlayOn, runtimeVars, wanted,
                    kbd, mouse, reports, relayUp, desktop>>
    BY <1>1 DEF Change, LoopUnchanged
  <2>3. /\ queue' \in Seq(Events) /\ Len(queue') <= MaxQueue
        /\ BatchFits'
    <3>1. CASE f
      <4>1. PICK e \in Events : Send(e)
        BY <1>1, <3>1, EventTypes DEF Change
      <4> QED BY <2>2, <4>1, SendFacts, SendKeepsBatch
    <3>2. CASE ~f BY <1>1, <2>2, <3>2 DEF Change, TypeOK, BatchFits
    <3> QED BY <3>1, <3>2
  <2> QED BY <2>1, <2>2, <2>3 DEF TypeOK, loopVars, focusVars, runtimeVars
<1>2. CASE (\E k \in Keys : KeyChanges(k)) \/ (\E b \in Buttons : ButtonChanges(b))
           \/ PointerChanges
  <2>1. /\ (kbd.alive /\ kbd.captured) \in BOOLEAN
        /\ (mouse.alive /\ mouse.forward) \in BOOLEAN
        /\ overlayOn \in BOOLEAN
    BY DEF TypeOK
  <2> QED BY <1>1, <1>2, <2>1 DEF KeyChanges, ButtonChanges, PointerChanges, Inputs
<1>3. CASE PressF12 \/ RepeatCtrl
  <2>1. PICK e \in Events : Send(e)
    BY <1>3, EventTypes, InputAssumption DEF PressF12, RepeatCtrl, Inputs
  <2>2. UNCHANGED <<config, at, batch, loopVars, focusVars, overlayOn, runtimeVars, wanted,
                    kbd, mouse, reports, desktopVars>>
    BY <1>3 DEF PressF12, RepeatCtrl, LoopUnchanged
  <2>3. queue' \in Seq(Events) /\ Len(queue') <= MaxQueue /\ BatchFits'
    BY <2>1, <2>2, SendFacts, SendKeepsBatch
  <2> QED BY <2>2, <2>3 DEF TypeOK, loopVars, focusVars, runtimeVars, desktopVars
<1>4. CASE KeyboardFails \/ MouseFails
  <2>1. Event(Failure, "press") \in Events /\ Send(Event(Failure, "press"))
    BY <1>4, EventTypes DEF KeyboardFails, MouseFails
  <2>2. UNCHANGED <<config, at, batch, loopVars, focusVars, overlayOn, runtimeVars, wanted,
                    reports, desktopVars>>
    BY <1>4 DEF KeyboardFails, MouseFails, LoopUnchanged
  <2>3. queue' \in Seq(Events) /\ Len(queue') <= MaxQueue /\ BatchFits'
    BY <2>1, <2>2, SendFacts, SendKeepsBatch
  <2>4. kbd' \in KbdType /\ mouse' \in MouseType
    BY <1>4, ClosedTypes DEF KeyboardFails, MouseFails, TypeOK, KbdType, MouseType
  <2> QED
    BY <2>2, <2>3, <2>4 DEF TypeOK, KbdType, MouseType, loopVars, focusVars, runtimeVars,
                            desktopVars
<1>5. CASE ReaderEnds
  <2>1. kbd' \in KbdType /\ mouse' \in MouseType
    BY <1>5, ClosedTypes DEF ReaderEnds, KeyboardReaderEnds, MouseReaderEnds, TypeOK, KbdType,
                             MouseType
  <2>2. UNCHANGED <<config, at, batch, loopVars, focusVars, overlayOn, runtimeVars, wanted,
                    queue, reports, desktopVars>>
    BY <1>5 DEF ReaderEnds, KeyboardReaderEnds, MouseReaderEnds, LoopUnchanged
  <2> QED
    BY <2>1, <2>2 DEF TypeOK, BatchFits, KbdType, MouseType, loopVars, focusVars, runtimeVars,
                      desktopVars
<1>7. CASE \E r \in Reports : RelayReports(r)
  <2>1. PICK r \in Reports : RelayReports(r) BY <1>7
  <2>2. reports' \in Seq(Reports) /\ Len(reports') <= MaxFocus
    BY <2>1, BoundsAssumption DEF RelayReports, TypeOK
  <2> QED
    BY <2>1, <2>2 DEF RelayReports, LoopUnchanged, TypeOK, BatchFits, loopVars, focusVars,
                      runtimeVars
<1> QED BY <1>2, <1>3, <1>4, <1>5, <1>7

\* Every step keeps the types.
LEMMA TypeStep ==
  ASSUME TypeOK, BatchFits, [Next]_vars
  PROVE  TypeOK' /\ BatchFits'
<1>1. CASE UNCHANGED vars
  BY <1>1 DEF vars, TypeOK, BatchFits, loopVars, focusVars, deviceVars, desktopVars, runtimeVars
<1>2. CASE Next
  BY <1>1, <1>2, ReportTypes, KeysTypes, LoopTypes, EnvironmentTypes
     DEF Next, LoopStep, Environment, Over
<1> QED BY <1>1, <1>2

-----------------------------------------------------------------------------
(* The devices follow the loop. *)

\* What a command makes of a reader's record.
LEMMA ReaderFields ==
  /\ \A k \in KbdType, e \in BOOLEAN :
        /\ SetKeyboardCapture(k, e).alive = k.alive
        /\ SetKeyboardCapture(k, e).captured = e
        /\ SetKeyboardCapture(k, e).grabbed = e
  /\ \A m \in MouseType, f, g \in BOOLEAN :
        /\ SetMouseMode(m, f, g).alive = m.alive
        /\ SetMouseMode(m, f, g).forward = f
        /\ SetMouseMode(m, f, g).believed = g
        /\ m.believed = m.grabbed => SetMouseMode(m, f, g).grabbed = g
BY DEF KbdType, MouseType, SetKeyboardCapture, SetMouseMode

\* UI mode is only chosen with an overlay.
LEMMA UiNeedsOverlay == \A s : DesiredMode(s) = "ui" => config.overlay
BY DEF DesiredMode

\* A release leaves the devices with the desktop, or ends the loop.
LEMMA ReleaseDevices ==
  ASSUME TypeOK, DevicesKnown, NEW next \in {"focus", "keys"}, ReleaseInputToOs(next),
         UNCHANGED config
  PROVE  CaptureIsConsistent' /\ DevicesKnown'
<1>0. kbd \in KbdType /\ mouse \in MouseType /\ config.grab \in BOOLEAN
  BY ConfigType DEF TypeOK, KbdType, MouseType
<1>1. mode' = "ui" => config'.overlay BY UiNeedsOverlay DEF ReleaseInputToOs
<1>2. config'.grab => mouse'.believed = mouse'.grabbed
  <2>1. mouse' \in {mouse, SetMouseMode(mouse, FALSE, FALSE)}
    BY DEF ReleaseInputToOs, ReadersPartly
  <2> QED BY <1>0, <2>1, ReaderFields DEF DevicesKnown
<1>3. CASE at' = "stopping" BY <1>1, <1>2, <1>3 DEF CaptureIsConsistent, DevicesKnown, Running
<1>4. CASE at' # "stopping"
  <2>1. /\ kbd' = SetKeyboardCapture(kbd, FALSE) /\ mouse' = SetMouseMode(mouse, FALSE, FALSE)
        /\ overlayOn' = FALSE /\ active' = FALSE
    BY <1>4 DEF ReleaseInputToOs
  <2>2. kbd'.captured = FALSE /\ kbd'.grabbed = FALSE /\ mouse'.forward = FALSE
        /\ mouse'.believed = FALSE
    BY <1>0, <2>1, ReaderFields
  <2> QED BY <1>1, <1>2, <2>1, <2>2 DEF CaptureIsConsistent, DevicesKnown
<1> QED BY <1>3, <1>4

\* A change of mode leaves the mouse and the overlay as the mode wants them.
LEMMA ApplyDevices ==
  ASSUME TypeOK, DevicesKnown, NEW m, NEW r, ApplyInputMode(m, r)
  PROVE  /\ mouse'.forward = TRUE
         /\ config.grab => mouse'.grabbed = TRUE /\ mouse'.believed = TRUE
         /\ overlayOn' = (m = "ui" /\ config.overlay)
<1>0. mouse \in MouseType /\ config.grab \in BOOLEAN
  BY ConfigType DEF TypeOK, MouseType
<1>1. mouse' = SetMouseMode(mouse, TRUE, config.grab) BY DEF ApplyInputMode
<1>2. \A g \in BOOLEAN : /\ SetMouseMode(mouse, TRUE, g).forward = TRUE
                        /\ SetMouseMode(mouse, TRUE, g).believed = g
  BY <1>0 DEF SetMouseMode, MouseType
<1>3. config.grab => mouse'.grabbed = config.grab
  BY <1>0, <1>1, ReaderFields DEF DevicesKnown
<1>4. mouse'.forward = TRUE BY <1>0, <1>1, <1>2
<1>5. config.grab => mouse'.believed = TRUE BY <1>0, <1>1, <1>2
<1>6. overlayOn' = (m = "ui" /\ config.overlay) BY DEF ApplyInputMode
<1> QED BY <1>0, <1>3, <1>4, <1>5, <1>6

\* A capture leaves the devices with the game, or ends the loop.
LEMMA CaptureDevices ==
  ASSUME TypeOK, DevicesKnown, NEW next \in {"focus", "keys"}, CaptureInput(next),
         UNCHANGED config
  PROVE  CaptureIsConsistent' /\ DevicesKnown'
<1>0. kbd \in KbdType /\ mouse \in MouseType /\ config.grab \in BOOLEAN
  BY ConfigType DEF TypeOK, KbdType, MouseType
<1>1. mode' = mode BY DEF CaptureInput
<1>2. CASE /\ kbd' = SetKeyboardCapture(kbd, TRUE)
           /\ ApplyInputMode(mode, before)
           /\ active' = TRUE
  <2>1. kbd'.captured = TRUE /\ kbd'.grabbed = TRUE BY <1>0, <1>2, ReaderFields
  <2>2. /\ mouse'.forward = TRUE
        /\ config.grab => mouse'.grabbed = TRUE /\ mouse'.believed = TRUE
        /\ overlayOn' = (mode = "ui" /\ config.overlay)
    BY <1>2, ApplyDevices
  <2>3. overlayOn' = (mode' = "ui") BY <1>1, <2>2 DEF DevicesKnown
  <2> QED BY <1>1, <1>2, <2>1, <2>2, <2>3 DEF CaptureIsConsistent, DevicesKnown
<1>3. CASE /\ ReadersPartly(SetKeyboardCapture(kbd, TRUE), SetMouseMode(mouse, TRUE, config.grab))
           /\ at' = "stopping"
  <2>1. mouse' \in {mouse, SetMouseMode(mouse, TRUE, config.grab)} BY <1>3 DEF ReadersPartly
  <2>2. config'.grab => mouse'.believed = mouse'.grabbed
    BY <1>0, <2>1, ReaderFields DEF DevicesKnown
  <2> QED BY <1>1, <1>3, <2>2 DEF CaptureIsConsistent, DevicesKnown, Running
<1> QED BY <1>2, <1>3 DEF CaptureInput

\* Every step keeps the devices with the owner of the input.
LEMMA DeviceStep ==
  ASSUME TypeOK, CaptureIsConsistent, DevicesKnown, [Next]_vars
  PROVE  CaptureIsConsistent' /\ DevicesKnown'
<1>0. kbd \in KbdType /\ mouse \in MouseType /\ config.grab \in BOOLEAN
  BY ConfigType DEF TypeOK, KbdType, MouseType
<1>1. CASE /\ UNCHANGED <<config, active, mode, deviceVars>>
           /\ Running' => Running
  BY <1>1 DEF CaptureIsConsistent, DevicesKnown, deviceVars
<1>2. CASE HandleReport
  <2>1. at = "focus" /\ UNCHANGED config
    BY <1>2 DEF HandleReport, FocusGained, FocusLost, RelayGone, FocusIgnored, TakeReport
  <2>2. CASE KeepInput BY <1>1, <2>1, <2>2 DEF KeepInput, Running
  <2>3. CASE CaptureInput("focus") BY <2>1, <2>3, CaptureDevices
  <2>4. CASE ReleaseInputToOs("focus") BY <2>1, <2>4, ReleaseDevices
  <2> QED
    BY <1>2, <2>2, <2>3, <2>4 DEF HandleReport, FocusGained, FocusLost, RelayGone, FocusIgnored
<1>3. CASE HandleF12
  <2>1. at = "keys" /\ UNCHANGED config BY <1>3 DEF HandleF12, NextKey
  <2>2. CASE KeepInput BY <1>1, <2>1, <2>2 DEF KeepInput, Running
  <2>3. CASE CaptureInput("keys") BY <2>1, <2>3, CaptureDevices
  <2>4. CASE ReleaseInputToOs("keys") BY <2>1, <2>4, ReleaseDevices
  <2> QED BY <1>3, <2>2, <2>3, <2>4 DEF HandleF12
<1>4. CASE DropKey \/ ExitHotkey \/ HandleKey
  BY <1>1, <1>4 DEF DropKey, ExitHotkey, HandleKey, NextKey, loopVars, Running
<1>5. CASE SyncMode
  <2>0. at = "keys" /\ UNCHANGED <<config, active, kbd>> BY <1>5 DEF SyncMode
  <2>1. CASE /\ ApplyInputMode(DesiredMode(aims), TRUE) /\ mode' = DesiredMode(aims)
             /\ active
    <3>1. /\ mouse'.forward = TRUE
          /\ config.grab => mouse'.grabbed = TRUE /\ mouse'.believed = TRUE
          /\ overlayOn' = (mode' = "ui" /\ config.overlay)
      BY <2>1, ApplyDevices
    <3>2. mode' = "ui" => config.overlay BY <2>1, UiNeedsOverlay
    <3>3. active = TRUE /\ Running BY <2>0, <2>1 DEF TypeOK, Running
    <3> QED BY <2>0, <3>1, <3>2, <3>3 DEF CaptureIsConsistent, DevicesKnown
  <2>2. CASE /\ at' = "stopping"
             /\ mouse' \in {mouse, SetMouseMode(mouse, TRUE, config.grab)}
             /\ UNCHANGED mode
    <3>1. config.grab => mouse'.believed = mouse'.grabbed
      BY <1>0, <2>2, ReaderFields DEF DevicesKnown
    <3> QED BY <2>0, <2>2, <3>1 DEF CaptureIsConsistent, DevicesKnown, Running
  <2>3. CASE UNCHANGED <<mode, mouse, overlayOn>>
    BY <1>1, <2>0, <2>3 DEF deviceVars, Running
  <2> QED BY <1>5, <2>1, <2>2, <2>3 DEF SyncMode
<1>6. CASE StopRuntime
  BY <1>6 DEF StopRuntime, CaptureIsConsistent, DevicesKnown, Running
<1>7. CASE \/ Top \/ Interrupted \/ FocusDone \/ Idle \/ (\E n \in 1 .. MaxBatch : TakeKeys(n))
           \/ HandleMouse \/ HandleOverlay \/ ReaderFailed \/ EngineFails
  <2>1. UNCHANGED <<config, active, mode, deviceVars>> /\ Running
    BY <1>7 DEF Top, Interrupted, FocusDone, Idle, TakeKeys, HandleMouse, HandleOverlay,
                ReaderFailed, NextHost, EngineFails, loopVars, Running
  <2> QED BY <1>1, <2>1
<1>8. CASE KeyboardFails \/ MouseFails \/ ReaderEnds
  <2>1. UNCHANGED <<config, at, active, mode, overlayOn>>
    BY <1>8 DEF KeyboardFails, MouseFails, ReaderEnds, KeyboardReaderEnds, MouseReaderEnds,
                LoopUnchanged, loopVars
  <2>2. kbd' = kbd \/ kbd'.alive = FALSE
    BY <1>8 DEF KeyboardFails, MouseFails, ReaderEnds, KeyboardReaderEnds, MouseReaderEnds,
                CloseKeyboard
  <2>3. mouse' = mouse \/ (mouse'.alive = FALSE /\ mouse'.believed = mouse'.grabbed)
    <3>1. CASE CloseMouse
      <4>1. /\ mouse'.alive = FALSE
            /\ mouse'.believed = FALSE
            /\ mouse'.grabbed = FALSE
        BY <3>1 DEF CloseMouse
      <4> QED BY <4>1
    <3>2. mouse' = mouse \/ CloseMouse
      BY <1>8 DEF KeyboardFails, MouseFails, ReaderEnds, KeyboardReaderEnds, MouseReaderEnds
    <3> QED BY <3>1, <3>2
  <2> QED BY <2>1, <2>2, <2>3 DEF CaptureIsConsistent, DevicesKnown, Running
<1>9. CASE \/ (\E k \in Keys : KeyChanges(k)) \/ (\E b \in Buttons : ButtonChanges(b))
           \/ PointerChanges \/ PressF12 \/ RepeatCtrl
           \/ (\E r \in Reports : RelayReports(r))
  <2>1. UNCHANGED <<config, at, active, mode, deviceVars>>
    BY <1>9 DEF KeyChanges, ButtonChanges, PointerChanges, Change, PressF12, RepeatCtrl,
                RelayReports, LoopUnchanged, loopVars, deviceVars
  <2> QED BY <1>1, <2>1 DEF Running
<1>10. CASE UNCHANGED vars BY <1>1, <1>10 DEF vars, loopVars, deviceVars, Running
<1> QED
  BY <1>2, <1>3, <1>4, <1>5, <1>6, <1>7, <1>8, <1>9, <1>10
     DEF Next, LoopStep, HandleKeys, Environment, Over

-----------------------------------------------------------------------------
(* Steps that change nothing the remaining invariants look at. *)

\* The loop moves on, and drops or refuses an event.
QuietLoop ==
  \/ Top \/ Interrupted \/ Idle \/ EngineFails \/ (\E n \in 1 .. MaxBatch : TakeKeys(n))
  \/ DropKey \/ ExitHotkey \/ ReaderFailed

\* The readers and time; the relay is not among them.
QuietWorld ==
  \/ (\E k \in Keys : KeyChanges(k)) \/ (\E b \in Buttons : ButtonChanges(b))
  \/ PointerChanges \/ PressF12 \/ RepeatCtrl \/ KeyboardFails \/ MouseFails
  \/ ReaderEnds \/ UNCHANGED vars

\* What a quiet step of the loop leaves alone; it does not leave a batch unsynchronised.
LEMMA QuietLoopKeeps ==
  ASSUME QuietLoop
  PROVE  /\ UNCHANGED <<config, loopVars, focusVars, runtimeVars, wanted, reports, desktopVars>>
         /\ Running /\ at' # "over"
         /\ at' \in {"keys", "stopping"} \/ at # "keys"
<1>1. CASE Top \/ Interrupted \/ Idle \/ EngineFails
  BY <1>1 DEF Top, Interrupted, Idle, EngineFails, Running
<1>2. CASE \E n \in 1 .. MaxBatch : TakeKeys(n)
  BY <1>2 DEF TakeKeys, Running
<1>3. CASE DropKey \/ ExitHotkey
  BY <1>3 DEF DropKey, ExitHotkey, NextKey, Running
<1>4. CASE ReaderFailed BY <1>4 DEF ReaderFailed, NextHost, Running
<1> QED BY <1>1, <1>2, <1>3, <1>4 DEF QuietLoop

\* What the readers and time leave alone.
LEMMA QuietWorldKeeps ==
  ASSUME QuietWorld
  PROVE  UNCHANGED <<config, at, loopVars, focusVars, runtimeVars, wanted, reports, relayUp, desktop>>
BY DEF QuietWorld, KeyChanges, ButtonChanges, PointerChanges, Change, PressF12, RepeatCtrl,
       KeyboardFails, MouseFails, ReaderEnds, KeyboardReaderEnds, MouseReaderEnds,
       LoopUnchanged, vars, desktopVars

\* What the relay leaves alone.
LEMMA RelayKeeps ==
  ASSUME NEW r \in Reports, RelayReports(r)
  PROVE  UNCHANGED <<config, at, loopVars, focusVars, runtimeVars, wanted>>
BY DEF RelayReports, LoopUnchanged

\* Every step is one of these, or one that the proofs below look at.
LEMMA StepKinds ==
  ASSUME [Next]_vars
  PROVE  \/ QuietLoop \/ QuietWorld \/ (\E r \in Reports : RelayReports(r))
         \/ HandleReport \/ FocusDone \/ HandleF12 \/ HandleKey \/ SyncMode
         \/ HandleMouse \/ HandleOverlay \/ StopRuntime
BY DEF Next, LoopStep, HandleKeys, Environment, Over, QuietLoop, QuietWorld

-----------------------------------------------------------------------------
(* The focus decides. *)

\* The last report under way stays the last one while the others are handled.
LEMMA LastReport ==
  ASSUME TypeOK, TakeReport
  PROVE  /\ reports' # <<>> => reports'[Len(reports')] = reports[Len(reports)]
         /\ reports' = <<>> => Head(reports) = reports[Len(reports)]
<1>1. /\ reports \in Seq(Reports) /\ reports # <<>> /\ reports' = Tail(reports)
  BY DEF TypeOK, TakeReport
<1>2. /\ Len(reports) \in Nat /\ Len(reports) >= 1 /\ Len(reports') = Len(reports) - 1
      /\ \A i \in 1 .. Len(reports) - 1 : reports'[i] = reports[i + 1]
      /\ Head(reports) = reports[1]
  BY <1>1
<1>3. CASE reports' # <<>>
  <2>1. Len(reports') >= 1 BY <1>1, <1>3
  <2> QED BY <1>2, <1>3, <2>1
<1>4. CASE reports' = <<>>
  <2>1. Len(reports) = 1 BY <1>2, <1>4
  <2> QED BY <1>2, <1>4, <2>1
<1> QED BY <1>3, <1>4

\* What a change of hands says about the owner.
LEMMA OwnerAfter ==
  ASSUME NEW next \in {"focus", "keys"}
  PROVE  /\ ReleaseInputToOs(next) => active' = FALSE
         /\ CaptureInput(next) => at' = "stopping" \/ active' = TRUE
BY DEF ReleaseInputToOs, CaptureInput

\* Every step leaves the loop following the reports.
LEMMA FocusStep ==
  ASSUME TypeOK, FocusFollowed, [Next]_vars
  PROVE  FocusFollowed'
<1>0. active \in BOOLEAN /\ focused \in BOOLEAN /\ released \in BOOLEAN /\ protected \in BOOLEAN
  BY DEF TypeOK
<1>1. CASE /\ UNCHANGED <<active, released, focusVars, reports, relayUp, desktop>>
           /\ Running' => Running
  BY <1>1 DEF FocusFollowed, focusVars
<1>2. CASE QuietLoop
  BY <1>1, <1>2, QuietLoopKeeps DEF loopVars, desktopVars
<1>3. CASE QuietWorld
  BY <1>1, <1>3, QuietWorldKeeps DEF loopVars, Running
<1>4. CASE \E r \in Reports : RelayReports(r)
  <2>1. PICK r \in Reports : RelayReports(r) BY <1>4
  <2>2. UNCHANGED <<at, active, released, focusVars>> BY <2>1, RelayKeeps DEF loopVars
  <2>3. /\ reports' = Append(reports, r) /\ desktop' = r /\ relayUp' = (r # "gone")
        /\ reports \in Seq(Reports)
    BY <2>1 DEF RelayReports, TypeOK
  <2>4. reports' # <<>> /\ reports'[Len(reports')] = r BY <2>3
  <2>5. relayUp' \/ desktop' = "gone" BY <2>3
  <2> QED BY <2>2, <2>3, <2>4, <2>5 DEF FocusFollowed, focusVars, Running
<1>5. CASE HandleReport
  <2>1. TakeReport /\ Running
    BY <1>5 DEF HandleReport, FocusGained, FocusLost, RelayGone, FocusIgnored, TakeReport, Running
  <2>2. UNCHANGED <<relayUp, desktop>> /\ reports # <<>> BY <2>1 DEF TakeReport, desktopVars
  <2>3. ASSUME protected
        PROVE  /\ reports' # <<>> => reports'[Len(reports')] = desktop
               /\ reports' = <<>> => Head(reports) = desktop
               /\ relayUp' \/ desktop' = "gone"
               /\ active = (focused /\ ~released)
    BY <2>1, <2>2, <2>3, LastReport DEF FocusFollowed
  <2>4. CASE FocusGained
    <3>1. focused' = TRUE /\ released' = released /\ Head(reports) = "focused" /\ protected
      BY <2>4 DEF FocusGained
    <3>2. at' = "stopping" \/ (active' \in BOOLEAN /\ (active' <=> ~released))
      BY <2>3, <2>4, <3>1, <1>0, OwnerAfter DEF FocusGained, KeepInput
    <3> QED BY <1>0, <2>2, <2>3, <3>1, <3>2 DEF FocusFollowed, Running
  <2>5. CASE FocusLost
    <3>1. focused' = FALSE /\ Head(reports) = "unfocused" /\ protected BY <2>5 DEF FocusLost
    <3>2. active' = FALSE
      BY <2>5, <1>0, OwnerAfter DEF FocusLost, KeepInput
    <3> QED BY <2>2, <2>3, <3>1, <3>2 DEF FocusFollowed
  <2>6. CASE RelayGone BY <2>6 DEF RelayGone, FocusFollowed
  <2>7. CASE FocusIgnored BY <2>7 DEF FocusIgnored, FocusFollowed
  <2> QED BY <1>5, <2>4, <2>5, <2>6, <2>7 DEF HandleReport
<1>6. CASE FocusDone
  <2>1. CASE FallBack BY <2>1 DEF FallBack, FocusFollowed
  <2>2. CASE UNCHANGED <<protected, released>>
    BY <1>1, <1>6, <2>2 DEF FocusDone, desktopVars, focusVars, Running
  <2> QED BY <1>6, <2>1, <2>2 DEF FocusDone
<1>7. CASE HandleF12
  <2>1. /\ UNCHANGED <<focusVars, reports, desktop, relayUp>>
        /\ Running
    BY <1>7 DEF HandleF12, NextKey, desktopVars, Running
  <2>2. CASE active /\ released' = TRUE /\ ReleaseInputToOs("keys")
    <3>1. active' = FALSE BY <2>2, OwnerAfter
    <3> QED BY <2>1, <2>2, <3>1 DEF FocusFollowed, focusVars
  <2>3. CASE /\ ~active /\ released /\ (focused \/ ~protected)
             /\ CaptureInput("keys")
             /\ released' = (at' = "stopping")
    <3>1. at' = "stopping" \/ (active' = TRUE /\ released' = FALSE) BY <2>3, OwnerAfter
    <3> QED BY <1>0, <2>1, <2>3, <3>1 DEF FocusFollowed, focusVars, Running
  <2>4. CASE KeepInput /\ UNCHANGED released
    BY <1>1, <2>1, <2>4 DEF KeepInput
  <2> QED BY <1>7, <2>2, <2>3, <2>4 DEF HandleF12
<1>8. CASE HandleKey \/ SyncMode
  BY <1>1, <1>8 DEF HandleKey, SyncMode, NextKey, desktopVars, Running
<1>9. CASE HandleMouse \/ HandleOverlay
  BY <1>1, <1>9 DEF HandleMouse, HandleOverlay, NextHost, loopVars, desktopVars, Running
<1>10. CASE StopRuntime BY <1>10 DEF StopRuntime, FocusFollowed
<1> QED BY <1>2, <1>3, <1>4, <1>5, <1>6, <1>7, <1>8, <1>9, <1>10, StepKinds

-----------------------------------------------------------------------------
(* What a release leaves behind, and what a recapture makes of it. *)

\* A release cleans up and writes down the mode and whether there was an aim.
LEMMA ReleaseRests ==
  ASSUME TypeOK, Running, active, Playing, NEW next \in {"focus", "keys"},
         ReleaseInputToOs(next), UNCHANGED <<config, wanted>>, at' # "stopping"
  PROVE  /\ Clean'
         /\ IF before' THEN mode' = "aim" /\ Aims # {}
                       ELSE mode' = DesiredMode(AlwaysOn)' /\ wanted' = {}
<1>1. Clean' BY DEF ReleaseInputToOs, SuspendRuntime, Clean
<1>2. mode' = DesiredMode(aims) /\ before' = (aims # {}) BY DEF ReleaseInputToOs
<1>3. AlwaysOn \subseteq aims /\ wanted \subseteq aims /\ aims \subseteq Aims
  BY DEF Playing, TypeOK
<1>4. CASE aims # {} BY <1>1, <1>2, <1>3, <1>4 DEF DesiredMode
<1>5. CASE aims = {}
  <2>1. AlwaysOn = {} /\ wanted = {} BY <1>3, <1>5
  <2> QED BY <1>1, <1>2, <1>5, <2>1 DEF DesiredMode, AlwaysOn
<1> QED BY <1>4, <1>5

\* A recapture brings back every aim that was on, and its mode.
LEMMA CapturePlays ==
  ASSUME TypeOK, Running, ~active, Resting, NEW next \in {"focus", "keys"},
         CaptureInput(next), UNCHANGED <<config, wanted>>, at' # "stopping"
  PROVE  /\ AlwaysOn' \subseteq aims' /\ wanted' \subseteq aims'
         /\ mode' = DesiredMode(aims)'
<1>1. /\ ApplyToRuntime(mode, before) /\ UNCHANGED <<mode, before>>
  BY DEF CaptureInput, ApplyInputMode
<1>2. aims = {} /\ mode \in {"aim", "ui"} /\ wanted \subseteq Toggled BY DEF Resting, Clean, TypeOK
<1>3. AlwaysOn' = AlwaysOn /\ AlwaysOn \subseteq Aims /\ Toggled \subseteq Aims
  BY DEF AlwaysOn, Toggled
<1>4. CASE before
  <2>1. mode = "aim" /\ Aims # {} BY <1>4 DEF Resting
  <2>2. aims' = Aims BY <1>1, <1>2, <1>3, <1>4, <2>1 DEF ApplyToRuntime, RestoreAim
  <2> QED BY <1>1, <1>2, <1>3, <2>1, <2>2 DEF DesiredMode
<1>5. CASE ~before
  <2>1. mode = DesiredMode(AlwaysOn) /\ wanted = {} BY <1>5 DEF Resting
  <2>2. CASE mode = "aim"
    <3>1. aims' = AlwaysOn BY <1>1, <1>2, <1>5, <2>2 DEF ApplyToRuntime, RestoreAim
    <3>2. DesiredMode(aims)' = DesiredMode(AlwaysOn) BY <3>1, <1>3 DEF DesiredMode, Toggled
    <3> QED BY <1>1, <1>3, <2>1, <3>1, <3>2
  <2>3. CASE mode = "ui"
    <3>1. aims' = {} BY <1>1, <2>3 DEF ApplyToRuntime
    <3>2. AlwaysOn = {} BY <2>1, <2>3 DEF DesiredMode
    <3>3. DesiredMode(aims)' = DesiredMode(AlwaysOn) BY <3>1, <3>2, <1>3 DEF DesiredMode, Toggled
    <3> QED BY <1>1, <1>3, <2>1, <3>1, <3>2, <3>3
  <2> QED BY <1>2, <2>2, <2>3
<1> QED BY <1>4, <1>5

\* The mode the aims ask for is a matter of the profile and the options.
LEMMA DesiredKeeps ==
  ASSUME UNCHANGED config
  PROVE  /\ DesiredMode(AlwaysOn)' = DesiredMode(AlwaysOn)
         /\ UNCHANGED aims => DesiredMode(aims)' = DesiredMode(aims)
         /\ AlwaysOn' = AlwaysOn
BY DEF DesiredMode, AlwaysOn, Toggled

\* Every step leaves input that is with the desktop at rest.
LEMMA RestingStep ==
  ASSUME TypeOK, Resting, Playing, [Next]_vars
  PROVE  Resting'
<1>0. active \in BOOLEAN /\ released \in BOOLEAN /\ protected \in BOOLEAN /\ ctrl \in BOOLEAN
  BY DEF TypeOK
<1>1. CASE /\ UNCHANGED <<config, active, mode, before, runtimeVars, wanted>>
           /\ ctrl' \in {ctrl, FALSE}
           /\ protected' \/ released' \/ ~(protected \/ released)
           /\ Running' => Running
  BY <1>1, DesiredKeeps DEF Resting, Clean, runtimeVars
<1>2. CASE QuietLoop
  BY <1>0, <1>1, <1>2, QuietLoopKeeps DEF loopVars, focusVars
<1>3. CASE QuietWorld \/ \E r \in Reports : RelayReports(r)
  BY <1>0, <1>1, <1>3, QuietWorldKeeps, RelayKeeps DEF loopVars, focusVars, Running
<1>4. CASE HandleReport
  <2>1. UNCHANGED <<config, wanted>> /\ Running
    BY <1>4 DEF HandleReport, FocusGained, FocusLost, RelayGone, FocusIgnored, TakeReport, Running
  <2>2. ctrl' \in {ctrl, FALSE} /\ (FocusIgnored \/ ctrl' = FALSE)
    BY <1>4 DEF HandleReport, FocusGained, FocusLost, RelayGone, FocusIgnored
  <2>3. protected' \/ released' \/ ~(protected \/ released)
    BY <1>4 DEF HandleReport, FocusGained, FocusLost, RelayGone, FocusIgnored
  <2>4. CASE KeepInput BY <1>1, <2>1, <2>2, <2>3, <2>4 DEF KeepInput
  <2>5. CASE CaptureInput("focus")
    BY <2>5, OwnerAfter DEF Resting, Running
  <2>6. CASE active /\ ReleaseInputToOs("focus") /\ (FocusLost \/ RelayGone)
    <3>1. ctrl' = FALSE /\ (protected' \/ released') BY <2>6 DEF FocusLost, RelayGone
    <3>2. CASE at' = "stopping" BY <3>2 DEF Resting, Running
    <3>3. CASE at' # "stopping" BY <2>1, <2>6, <3>1, <3>3, ReleaseRests DEF Resting
    <3> QED BY <3>2, <3>3
  <2> QED
    BY <1>4, <2>4, <2>5, <2>6 DEF HandleReport, FocusGained, FocusLost, RelayGone, FocusIgnored
<1>5. CASE FocusDone
  <2>1. /\ UNCHANGED <<config, active, mode, before, runtimeVars, wanted, ctrl>>
        /\ Running
    BY <1>5 DEF FocusDone, Running
  <2>2. protected' \/ released' \/ ~(protected \/ released) BY <1>5 DEF FocusDone, FallBack
  <2> QED BY <1>1, <2>1, <2>2
<1>6. CASE HandleF12
  <2>1. UNCHANGED <<config, wanted, focusVars>> /\ ctrl' = FALSE /\ Running
    BY <1>6 DEF HandleF12, NextKey, Running
  <2>2. CASE active /\ released' = TRUE /\ ReleaseInputToOs("keys")
    <3>2. CASE at' = "stopping" BY <3>2 DEF Resting, Running
    <3>3. CASE at' # "stopping" BY <2>1, <2>2, <3>3, ReleaseRests DEF Resting
    <3> QED BY <3>2, <3>3
  <2>3. CASE CaptureInput("keys") BY <2>3, OwnerAfter DEF Resting, Running
  <2>4. CASE KeepInput /\ UNCHANGED released
    BY <1>1, <2>1, <2>4 DEF KeepInput, focusVars
  <2> QED BY <1>6, <2>2, <2>3, <2>4 DEF HandleF12
<1>7. CASE HandleKey BY <1>7 DEF HandleKey, Resting
<1>8. CASE SyncMode
  <2>1. CASE active BY <1>8, <2>1 DEF SyncMode, Resting
  <2>2. CASE ~active
    BY <1>0, <1>1, <1>8, <2>2 DEF SyncMode, focusVars, Running
  <2> QED BY <2>1, <2>2
<1>9. CASE HandleMouse \/ HandleOverlay
  <2>1. UNCHANGED <<config, loopVars, focusVars, wanted>> /\ Running
    BY <1>9 DEF HandleMouse, HandleOverlay, NextHost, Running
  <2>2. CASE active BY <2>1, <2>2 DEF Resting, loopVars
  <2>3. CASE ~active
    <3>1. UNCHANGED runtimeVars BY <1>9, <2>3 DEF HandleMouse, HandleOverlay
    <3> QED BY <1>0, <1>1, <2>1, <3>1 DEF loopVars, focusVars
  <2> QED BY <2>2, <2>3
<1>10. CASE StopRuntime BY <1>10 DEF StopRuntime, Resting, Running
<1> QED BY <1>2, <1>3, <1>4, <1>5, <1>6, <1>7, <1>8, <1>9, <1>10, StepKinds

\* Every step leaves the game with its aims and the mode they ask for.
LEMMA PlayingStep ==
  ASSUME TypeOK, Resting, Playing, [Next]_vars
  PROVE  Playing'
<1>1. CASE /\ UNCHANGED <<config, active, mode, aims, wanted>>
           /\ Running' => Running
           /\ at # "keys" \/ at' \in {"keys", "stopping"}
  BY <1>1, DesiredKeeps DEF Playing, Running
<1>2. CASE QuietLoop
  BY <1>1, <1>2, QuietLoopKeeps DEF loopVars, runtimeVars
<1>3. CASE QuietWorld \/ \E r \in Reports : RelayReports(r)
  BY <1>1, <1>3, QuietWorldKeeps, RelayKeeps DEF loopVars, runtimeVars, Running
<1>4. ASSUME NEW next \in {"focus", "keys"}, Running, at = next, UNCHANGED <<config, wanted>>,
             \/ KeepInput \/ ReleaseInputToOs(next) \/ (~active /\ CaptureInput(next))
      PROVE  Playing'
  <2>1. CASE KeepInput BY <1>1, <1>4, <2>1 DEF KeepInput, runtimeVars
  <2>2. CASE ReleaseInputToOs(next) BY <2>2, OwnerAfter DEF Playing
  <2>3. CASE ~active /\ CaptureInput(next)
    <3>1. CASE at' = "stopping" BY <3>1 DEF Playing, Running
    <3>2. CASE at' # "stopping" BY <1>4, <2>3, <3>2, CapturePlays DEF Playing
    <3> QED BY <3>1, <3>2
  <2> QED BY <1>4, <2>1, <2>2, <2>3
<1>5. CASE HandleReport
  <2>1. UNCHANGED <<config, wanted>> /\ at = "focus" /\ Running
    BY <1>5 DEF HandleReport, FocusGained, FocusLost, RelayGone, FocusIgnored, TakeReport, Running
  <2>2. \/ KeepInput \/ ReleaseInputToOs("focus") \/ (~active /\ CaptureInput("focus"))
    BY <1>5 DEF HandleReport, FocusGained, FocusLost, RelayGone, FocusIgnored
  <2> QED BY <1>4, <2>1, <2>2
<1>6. CASE FocusDone BY <1>1, <1>6 DEF FocusDone, runtimeVars, Running
<1>7. CASE HandleF12
  <2>1. UNCHANGED <<config, wanted>> /\ at = "keys" /\ Running
    BY <1>7 DEF HandleF12, NextKey, Running
  <2>2. \/ KeepInput \/ ReleaseInputToOs("keys") \/ (~active /\ CaptureInput("keys"))
    BY <1>7 DEF HandleF12
  <2> QED BY <1>4, <2>1, <2>2
<1>8. CASE HandleKey
  <2>1. DEFINE mine == ToggledBy(Head(queue).input)
               flip == (aims \ mine) \cup (mine \ aims)
  <2>2. /\ at' = "keys" /\ Running /\ active
        /\ \/ aims' = flip /\ wanted' = (wanted \ mine) \cup (mine \cap flip)
           \/ aims' = aims /\ wanted' = wanted
    BY <1>8 DEF HandleKey, NextKey, Running
  <2>3. AlwaysOn \subseteq aims /\ wanted \subseteq aims BY <2>2 DEF Playing
  <2>4. mine \cap AlwaysOn = {} /\ AlwaysOn' = AlwaysOn BY DEF ToggledBy, Toggled, AlwaysOn
  <2>5. AlwaysOn \subseteq aims' /\ wanted' \subseteq aims'
    <3> HIDE DEF mine
    <3> QED BY <2>2, <2>3, <2>4
  <2> QED BY <2>2, <2>4, <2>5 DEF Playing
<1>9. CASE SyncMode
  <2>1. UNCHANGED <<config, active, wanted>> /\ Running /\ at = "keys" BY <1>9 DEF SyncMode, Running
  <2>2. CASE ~active BY <2>1, <2>2 DEF Playing
  <2>3. CASE at' = "stopping" BY <2>3 DEF Playing, Running
  <2>4. CASE active /\ UNCHANGED <<mode, aims>> /\ mode = DesiredMode(aims)
    BY <2>1, <2>4, DesiredKeeps DEF Playing
  <2>5. CASE active /\ ApplyInputMode(DesiredMode(aims), TRUE) /\ mode' = DesiredMode(aims)
    <3>1. AlwaysOn \subseteq aims /\ wanted \subseteq aims /\ aims \subseteq Aims
      BY <2>1, <2>5 DEF Playing, TypeOK
    <3>2. ApplyToRuntime(DesiredMode(aims), TRUE) BY <2>5 DEF ApplyInputMode
    <3>3. AlwaysOn' = AlwaysOn BY <2>1, DesiredKeeps
    <3>4. CASE DesiredMode(aims) = "aim"
      <4>1. aims' = Aims BY <3>1, <3>2, <3>4 DEF ApplyToRuntime, RestoreAim
      <4>2. DesiredMode(aims)' = "aim" BY <2>1, <3>1, <3>4, <4>1 DEF DesiredMode, Toggled, AlwaysOn
      <4> QED BY <2>1, <2>5, <3>1, <3>3, <3>4, <4>1, <4>2 DEF Playing
    <3>5. CASE DesiredMode(aims) = "ui"
      <4>1. aims' = {} /\ aims = {} BY <3>2, <3>5 DEF ApplyToRuntime, DesiredMode
      <4> QED BY <2>1, <2>5, <3>1, <3>3, <4>1, DesiredKeeps DEF Playing
    <3> QED BY <3>4, <3>5 DEF DesiredMode
  <2> QED BY <1>9, <2>2, <2>3, <2>4, <2>5 DEF SyncMode, runtimeVars
<1>10. CASE HandleMouse \/ HandleOverlay
  <2>1. /\ UNCHANGED <<config, active, mode, aims, wanted>>
        /\ at = "host" /\ Running
    BY <1>10 DEF HandleMouse, HandleOverlay, NextHost, ClickCursor, loopVars, runtimeVars, Running,
                 TypeOK
  <2> QED BY <1>1, <2>1
<1>11. CASE StopRuntime BY <1>11 DEF StopRuntime, Playing, Running
<1> QED BY <1>2, <1>3, <1>5, <1>6, <1>7, <1>8, <1>9, <1>10, <1>11, StepKinds

\* A session that is over stays clean.
LEMMA OverStep ==
  ASSUME OverIsClean, [Next]_vars
  PROVE  OverIsClean'
<1>1. CASE UNCHANGED <<at, runtimeVars>> BY <1>1 DEF OverIsClean, Clean, runtimeVars
<1>2. CASE at' # "over" BY <1>2 DEF OverIsClean
<1>3. CASE QuietLoop BY <1>2, <1>3, QuietLoopKeeps
<1>4. CASE QuietWorld \/ \E r \in Reports : RelayReports(r)
  BY <1>1, <1>4, QuietWorldKeeps, RelayKeeps
<1>5. CASE HandleReport
  BY <1>2, <1>5 DEF HandleReport, FocusGained, FocusLost, RelayGone, FocusIgnored, TakeReport,
                    CaptureInput, ReleaseInputToOs, KeepInput
<1>6. CASE HandleF12
  BY <1>2, <1>6 DEF HandleF12, NextKey, CaptureInput, ReleaseInputToOs, KeepInput
<1>7. CASE FocusDone \/ HandleKey \/ SyncMode \/ HandleMouse \/ HandleOverlay
  BY <1>2, <1>7 DEF FocusDone, HandleKey, NextKey, SyncMode, HandleMouse, HandleOverlay
<1>8. CASE StopRuntime BY <1>8 DEF StopRuntime, SuspendRuntime, OverIsClean, Clean
<1> QED BY <1>3, <1>4, <1>5, <1>6, <1>7, <1>8, StepKinds

-----------------------------------------------------------------------------
(* The theorems. *)

\* A session starts with its devices, mode and aims as its owner wants them.
LEMMA InitInv ==
  ASSUME Init
  PROVE  Inv
<1>0. /\ config \in Options
      /\ config.grab \in BOOLEAN /\ config.relay \in BOOLEAN /\ config.overlay \in BOOLEAN
  BY OptionsAssumption DEF Init
<1>1. /\ desktop \in {"focused", "unfocused"} /\ (~config.relay => desktop = "focused")
      /\ protected = config.relay /\ focused = (desktop = "focused") /\ active = focused
      /\ active \in BOOLEAN
  BY <1>0 DEF Init
<1>2. mode = InitialMode /\ mode = DesiredMode(AlwaysOn) /\ mode \in {"aim", "ui"}
  BY DEF Init, InitialMode, DesiredMode
<1>3. DEFINE started == [alive |-> TRUE, forward |-> active, believed |-> active,
                         grabbed |-> config.grab /\ active]
<1>4. /\ started \in MouseType
      /\ started.forward = active /\ started.believed = active
      /\ config.grab => started.grabbed = active
  <2>1. (config.grab /\ active) \in BOOLEAN OBVIOUS
  <2> QED BY <1>0, <1>1, <2>1 DEF MouseType
<1>5. /\ mouse \in MouseType
      /\ mouse.forward = active
      /\ config.grab => mouse.grabbed = active /\ mouse.believed = active
  <2>1. CASE ~(active /\ mode = "ui")
    <3>1. mouse = started BY <2>1 DEF Init
    <3> HIDE DEF started
    <3> QED BY <1>4, <3>1
  <2>2. CASE active /\ mode = "ui"
    <3>1. mouse = SetMouseMode(started, TRUE, config.grab) BY <2>2 DEF Init
    <3> HIDE DEF started
    <3>2. mouse \in MouseType BY <1>0, <1>4, <3>1, ReaderTypes
    <3>3. /\ mouse.forward = TRUE /\ mouse.believed = config.grab
          /\ config.grab => mouse.grabbed = TRUE
      BY <1>0, <1>1, <1>4, <2>2, <3>1 DEF SetMouseMode, MouseType
    <3> QED BY <1>0, <1>1, <2>2, <3>2, <3>3
  <2> QED BY <2>1, <2>2
<1>6. /\ kbd \in KbdType /\ kbd.captured = active
      /\ config.grab => kbd.grabbed = active
  <2>1. (config.grab /\ active) \in BOOLEAN OBVIOUS
  <2>2. kbd = [alive |-> TRUE, captured |-> active, grabbed |-> config.grab /\ active] BY DEF Init
  <2> QED BY <1>0, <1>1, <2>1, <2>2 DEF KbdType
<1>7. overlayOn = (active /\ mode = "ui") /\ (mode = "ui" => config.overlay)
  BY <1>2, UiNeedsOverlay DEF Init
<1>8. /\ queue \in Seq(Events) /\ Len(queue) = 0 /\ reports \in Seq(Reports) /\ Len(reports) = 0
      /\ MaxQueue \in Nat /\ MaxFocus \in Nat /\ MaxBatch \in Nat /\ batch = 0
  BY BoundsAssumption DEF Init
<1>9. TypeOK
  <2>1. /\ held \subseteq Inputs /\ aims \subseteq Aims /\ wanted \subseteq Toggled
        /\ physical \subseteq Inputs \cup {Pointer}
    BY DEF Init, AlwaysOn
  <2>2. /\ released = FALSE /\ saw = FALSE /\ ctrl = FALSE /\ before = FALSE
        /\ cursor = FALSE /\ relayUp = config.relay /\ at = "top"
    BY DEF Init
  <2>3. overlayOn \in BOOLEAN /\ protected \in BOOLEAN /\ focused \in BOOLEAN
    BY <1>0, <1>1, <1>7
  <2>4. /\ desktop \in Reports /\ batch \in 0 .. MaxBatch
        /\ Len(queue) <= MaxQueue /\ Len(reports) <= MaxFocus
    BY <1>1, <1>8 DEF Reports
  <2>5. /\ kbd \in [alive : BOOLEAN, captured : BOOLEAN, grabbed : BOOLEAN]
        /\ mouse \in [alive : BOOLEAN, forward : BOOLEAN, believed : BOOLEAN, grabbed : BOOLEAN]
    BY <1>5, <1>6 DEF KbdType, MouseType
  <2> QED BY <1>0, <1>1, <1>2, <1>8, <2>1, <2>2, <2>3, <2>4, <2>5 DEF TypeOK
<1>10. BatchFits /\ OverIsClean BY DEF Init, BatchFits, OverIsClean
<1>11. CaptureIsConsistent /\ DevicesKnown
  BY <1>5, <1>6, <1>7 DEF CaptureIsConsistent, DevicesKnown
<1>12. FocusFollowed
  <2>1. released = FALSE /\ reports = <<>> /\ relayUp = config.relay BY DEF Init
  <2> QED BY <1>1, <2>1 DEF FocusFollowed
<1>13. Resting
  <2>1. held = {} /\ cursor = FALSE /\ ctrl = FALSE /\ before = FALSE /\ wanted = {} BY DEF Init
  <2>2. ~active => aims = {} BY DEF Init
  <2>3. ~active => protected BY <1>0, <1>1
  <2> QED BY <1>2, <2>1, <2>2, <2>3 DEF Resting, Clean
<1>14. Playing
  <2>1. active => aims = AlwaysOn /\ wanted = {} BY DEF Init
  <2> QED BY <1>2, <2>1 DEF Playing
<1> QED BY <1>9, <1>10, <1>11, <1>12, <1>13, <1>14 DEF Inv

\* The invariant of run_event_loop: it holds however the reports, keys, clicks,
\* failures and reader threads interleave.
THEOREM Invariance == Spec => []Inv
<1>1. Init => Inv BY InitInv
<1>2. Inv /\ [Next]_vars => Inv'
  BY TypeStep, DeviceStep, FocusStep, RestingStep, PlayingStep, OverStep DEF Inv
<1> QED BY <1>1, <1>2, PTL DEF Spec

\* The loop never counts a batch below zero, never overruns its channels and hands
\* the runtime nothing that is not an input of the keyboard or the mouse.
THEOREM TypeCorrect == Spec => []TypeOK
BY Invariance, PTL DEF Inv

\* Readers, devices and overlay follow the owner of the input, after every capture,
\* release and change of mode.
THEOREM DevicesFollow == Spec => []CaptureIsConsistent
BY Invariance, PTL DEF Inv

\* While protection is on, the handled focus reports and F12 alone decide who owns
\* the input.
THEOREM FocusDecidesAlways == Spec => []FocusDecides
<1>1. Inv => FocusDecides
  BY DEF Inv, TypeOK, FocusFollowed, FocusDecides
<1> QED BY <1>1, Invariance, PTL

\* release_input_to_os and runtime.stop leave no touch, aim or held input behind.
THEOREM ReleasedIsCleanAlways == Spec => []ReleasedIsClean
<1>1. Inv => ReleasedIsClean
  BY DEF Inv, Resting, OverIsClean, ReleasedIsClean
<1> QED BY <1>1, Invariance, PTL

\* No order of reports, F12 and the relay's loss leaves the input unreachable.
THEOREM RecoverableAlways == Spec => []AlwaysRecoverable
<1>1. Inv => AlwaysRecoverable
  <2> SUFFICES ASSUME Inv, Running, ~active, ~released
               PROVE  protected /\ (relayUp \/ \E i \in DOMAIN reports : reports[i] = "gone")
    BY DEF AlwaysRecoverable
  <2>1. protected BY DEF Inv, Resting
  <2>2. relayUp \/ desktop = "gone" BY <2>1 DEF Inv, FocusFollowed
  <2>3. CASE desktop = "gone"
    <3>1. reports # <<>> /\ reports[Len(reports)] = "gone" /\ reports \in Seq(Reports)
      BY <2>1, <2>3 DEF Inv, FocusFollowed, TypeOK
    <3>2. Len(reports) \in DOMAIN reports BY <3>1
    <3> QED BY <2>1, <3>1, <3>2
  <2> QED BY <2>1, <2>2, <2>3
<1> QED BY <1>1, Invariance, PTL

\* Between batches the mouse aims exactly when the profile's aims ask for it.
THEOREM ModeFollowsAimAlways == Spec => []ModeFollowsAim
<1>1. Inv => ModeFollowsAim
  BY DEF Inv, Playing, ModeFollowsAim
<1> QED BY <1>1, Invariance, PTL

\* No release and recapture loses an aim the user switched on.
THEOREM WantedAimsReturnAlways == Spec => []WantedAimsReturn
<1>1. Inv => WantedAimsReturn
  BY DEF Inv, Playing, WantedAimsReturn
<1> QED BY <1>1, Invariance, PTL

=============================================================================
