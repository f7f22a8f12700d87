SPECIFICATION UpgradeSpec
CONSTANTS
  Upgraders = {u1}
  MaxWroidds = 2
  Nobody = Nobody
  Releases = {old, new}
  FirstRelease = old
  MaxCrashes = 1
INVARIANT DaemonStartsOnDemand
CHECK_DEADLOCK FALSE
