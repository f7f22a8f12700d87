SPECIFICATION StudioSpec
CONSTANTS
  \* preview
  keyA = keyA  keyD = keyD  keyW = keyW  keyF = keyF  keyL = keyL  shift = shift
  left = left  right = right
  Keys = {keyA, keyD, keyW, keyF, keyL, shift}
  NoKey = NoKey
  Buttons = {left, right}
  RightButton = right
  Plans <- StudioPlans
  Deltas <- SomeDeltas
  MaxContacts = 3
  Right = 4  Origin = 2  Threshold = 1
  Num = 1  Den = 1  AdsNum = 1  AdsDen = 2
  MaxResidual = 2
  \* storage
  e1 = e1  e2 = e2  H1 = H1  H2 = H2
  Editors = {e1, e2}
  Hubs = {H1, H2}
  Slots = {1}
  Old = Old  Current = Current  Derived = Derived  Imported = Imported
  Edits = {d1, d2}
  Torn = Torn  NoFile = NoFile  Disk = Disk
  Casts <- SomeCasts
  \* editing
  None = None
  TrimName <- Trimmed
  Blank = ""
  BaseName = "base"
  Canonical <- Canonicals
  KeyNames = {"f", "g", "v", "w", "a", "ctrl", "esc", "c"}
  Ctrl = "ctrl"
  Esc = "esc"
  C = "c"
  ButtonNames = {"left", "right"}
  One = 1000
  MaxLayers = 3
  Sides = {1, 2, 9, 720}
  MaxMilli = 1000
  Starts <- OpenedProfiles
  TypedNames = {"", "base", "layer", "jump"}
  TypedKeys = {"f", "g", "ctrl"}
  Typed = {0, 668, 1000}
  MouseSpots = {1, 668, 1000}
  DefaultLayers <- LayerNamesInOrder
  ActivationKeys <- KeysInOrder
  Default <- NewControl
  DefaultInput <- NewInput
  Copies <- CopyNames
  Grid = 5
  MaxEdits = 2
  \* preferences
  PrefPages = {hubPage, studioPage}
  PrefFields = {resolution, keyboard}
  PrefValues = {u, v}
  PrefDefault = u
  MaxChanges = 2
  \* background
  Images = {i1, i2}
  Streams = {s1, s2}
  NoImage = NoImage  NoStream = NoStream
  MaxRequests = 2
  \* commands on profiles
  x1 = x1  x2 = x2
  Processes = {x1, x2}
  Jobs <- SomeJobs
  Disks <- SomeDisks
  WmSizes <- WmOutputs
  Trimmed1 <- Spelling1
  NormalKey <- KeySpelling
  NoName = ""
  MaxU32 = 65535
  Homes <- HomesOf
  Root = "root"
  NoWhere = NoWhere
  NoEntry = NoEntry
  Empty = Empty
  Scrap = Scrap
  \* terminal play
  Plays <- SomePlays
  PlayKeys = {"w", "a", "esc"}
  EscKey = "esc"
  NoTick = NoTick
  IdlePoll = 1
  MaxLate = 1
  MaxTyped = 4
SYMMETRY EditsAreAlike
INVARIANTS PreviewShowsTheRuntime  PreferencesMerge 
  PlayIsTrue
PROPERTIES  RegistryIsTrue 
CHECK_DEADLOCK FALSE
