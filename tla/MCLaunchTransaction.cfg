SPECIFICATION FairSpec
CONSTANTS
  MaxLaunches = 2
  p1 = p1
  p2 = p2
  Pids <- MCPids
  Identities <- MCIdentities
  Stranger = stranger
  Nobody = nobody
  Hub = hub
  MaxFaults = 1
  MaxActs = 1
INVARIANTS RestoreIsOwed StopHitsRecorded
PROPERTIES DesktopComesBack
CHECK_DEADLOCK FALSE
