CONSTANTS
  c = c
  always = always
  toggle = toggle
  Keys = {c, ctrl}
  Ctrl = ctrl
  ExitKeys = {c}
  F12 = F12
  Buttons = {left}
  Left = left
  Pointer = Pointer
  Failure = Failure
  Aims = {toggle}
  ToggleKey <- OneToggle
  NoKey = NoKey
  Options <- OverlayOptions
  MaxQueue = 2
  MaxBatch = 2
  MaxFocus = 1
SPECIFICATION Spec
INVARIANTS CaptureIsConsistent FocusDecides ReleasedIsClean AlwaysRecoverable
