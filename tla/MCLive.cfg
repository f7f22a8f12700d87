SPECIFICATION LiveTogether
CONSTANTS
  \* the daemon
  Clients = {k1, k2}
  SessionIds = {s1}
  \* the bridge
  GameSessions = {g1}
  None = None
  \* the input session
  key = key
  toggle = toggle
  Keys = {key}
  Ctrl = key
  ExitKeys = {}
  F12 = F12
  Buttons = {left}
  Left = left
  Pointer = Pointer
  Failure = Failure
  Aims = {toggle}
  ToggleKey <- OneToggle
  NoKey = NoKey
  Options <- LiveOptions
  MaxQueue = 1
  MaxBatch = 1
  MaxFocus = 1
PROPERTIES
  NobodyWaitsForEver DesktopGetsDevices
CHECK_DEADLOCK FALSE
