SPECIFICATION AroundSpec
CONSTANTS
  \* the page of the Hub
  Hosts <- SomeHosts
  Presets = {p, q}
  FirstPreset = p
  NoReport = NoReport
  MaxChoices = 1
  MaxEvents = 1
  \* sideloading
  Tickets = {t1}
  Threads = {h1, h2}
  Workers = {w1, w2}
  None = None
  MaxFaults = 2
  MaxStarts = 1
  \* the daemon
  Upgraders = {u1, u2}
  MaxWroidds = 3
  Nobody = Nobody
  Releases = {old, new}
  FirstRelease = old
  MaxCrashes = 1
  \* the GPU
  n1 = n1  n2 = n2
  Machines <- SomeMachines
  Automatic = Automatic
  NoNode = NoNode
  Torn = Torn
  Setups = {s1, s2}
  MaxMishaps = 1
  \* the helper
  Installers = {i1, i2}
  Editions = {old, new}
  OldEdition = old
  Missing = Missing
  Unwritten = Unwritten
  MaxDeploys = 1
  MaxKills = 1
  \* the live tools
  Keyboards = {kb1}
  Mice = {ma1}
  NoTool = NoTool
  MaxRuns = 1
  MaxSlips = 2
  MaxKernelEvents = 2
  \* the render size
  Widths = {1, 2}
  Heights = {1, 2}
  Displays = {1, 2, 3}
  MaxSizings = 2
  MaxSizeFaults = 3
  \* the touch pipeline: four contacts over three slots, so that NoFreeSlot and the
  \* recentering swap at a full table both happen; two points on the screen, one off it
  Contacts = {c1, c2, c3, c4}
  Points = {pa, pb, off}
  OnScreen = {pa, pb}
  NoPoint = NoPoint
  NoContact = NoContact
  SlotCount = 3
INVARIANTS LayersAgree  DecidedOnce  InstalledIsWhatWasRead
  LiveSessionsAreWhole RenderSizeHolds
PROPERTIES UpgradesAreGentle InterruptEndsSession 
CHECK_DEADLOCK FALSE
