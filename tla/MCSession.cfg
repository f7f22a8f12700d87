SPECIFICATION SessionSpec
CONSTANTS
  \* the runtime
  keyA = keyA  keyD = keyD  keyW = keyW  keyF = keyF  keyL = keyL  shift = shift
  left = left  right = right
  Keys = {keyA, keyD, keyW, keyF, keyL, shift}
  NoKey = NoKey
  Buttons = {left, right}
  RightButton = right
  Plans <- SessionPlans
  Deltas <- SomeDeltas
  MaxContacts = 3
  Right = 4  Origin = 2  Threshold = 1
  Num = 1  Den = 1  AdsNum = 1  AdsDen = 2
  MaxResidual = 2
  \* the overlay
  Extents = {1, 4}
  Spots = {0, 3}
  Sprite = 2
  NoExtent = 0
  MaxRoundtrips = 2
  MaxAsks = 2
  MaxSent = 4
  \* the relay
  Windows = {0, 9, 4, 5}
  Waydroid = 0
  Other = 9
  Parent <- Tree
  Worker = 2
  Root = 1
  MaxDepth = 4
  MaxSwitches = 2
  \* launches
  q1 = q1  q2 = q2
  kbd = kbd  pad = pad  rat = rat  elsewhere = elsewhere
  Requests = {q1, q2}
  Asks <- SomeAsks
  Contents <- SomeContents
  EventNodes = {kbd, pad, rat, elsewhere}
  Opens <- OpensAs
  NameSays <- OpensAs
  PathSays <- OpensAs
  PathOrder <- InOrder
  Elsewhere = {elsewhere}
  NoInput = NoInput
  NoLaunch = NoLaunch
  NoProfile = NoProfile
  NoAsk = NoAsk
  NoLimit = NoLimit
  Generation <- Generations
  MaxRelease = 2
  MaxChanges = 1
SYMMETRY RequestsAreAlike
INVARIANTS FingersFollowBindings AdmissionIsSound NothingOutlivesSession RelayIsTrue
  LaunchIsAsAsked
PROPERTIES OverlayIsTrue
CHECK_DEADLOCK FALSE
