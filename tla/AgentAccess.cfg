CONSTANTS
  Agents = {a1}
  Clients = {c1, c2}
  Keys = {k1}
  Requests = {r1}
  None = None
  MinTtl = 1
  MaxTtl = 1
  Ttls = {1, 2}
  MaxNow = 2
SPECIFICATION FairSpec
INVARIANTS TypeOK KilledStaysOut GrantsFollowBinding
PROPERTIES PruneIsInert KillCompletes
CHECK_DEADLOCK FALSE
