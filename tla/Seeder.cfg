CONSTANTS
  old = old
  new = new
  None = None
  Isolates = {i1, i2}
  Builds = 3
  Bundle <- ThreeBuilds
  AgentBytes = {agent}
  MaxBirths = 2
  MaxTrouble = 2
SPECIFICATION FairSpec
INVARIANTS TypeOK OnlyBuildsArePublished
PROPERTIES CorpusConverges
CHECK_DEADLOCK FALSE
