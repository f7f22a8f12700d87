SPECIFICATION Spec
CONSTANTS
  MaxLaunches = 2
  p1 = p1
  p2 = p2
  Pids <- MCPids
  Identities <- MCIdentities
  Stranger = stranger
  Nobody = nobody
  Hub = hub
  MaxFaults = 1
  MaxActs = 0
INVARIANT DesktopIsGivenBack
CHECK_DEADLOCK FALSE
