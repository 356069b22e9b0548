CONSTANTS
  Agents = {a1, a2}
  Clients = {c1, c2}
  Keys = {k1}
  Requests = {r1, r2}
  None = None
  MinTtl = 1
  MaxTtl = 1
  Ttls = {1}
  MaxNow = 1
SPECIFICATION Spec
INVARIANTS OneClientPerAgent
PROPERTIES NoOrphanAgents
SYMMETRY Symmetry
CHECK_DEADLOCK FALSE
