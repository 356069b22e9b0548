CONSTANTS
  old = old
  new = new
  None = None
  Isolates = {i1}
  Builds = 2
  Bundle <- TwoBuilds
  AgentBytes = {}
  MaxBirths = 1
  MaxTrouble = 1
SPECIFICATION FairSpec
PROPERTY PublicCopyConverges
CHECK_DEADLOCK FALSE
