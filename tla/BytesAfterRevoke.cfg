CONSTANTS
  Docs = {d1}
  Slugs = {}
  Sources = {x, y}
  Requests = {r1, r2}
  None = None
  Keep = Keep
  Doors = {"publish", "update", "revoke"}
  Authors = {"agent"}
  Births = {"private"}
  MaxVersion = 2
  MaxAttempts = 2
SPECIFICATION Spec
SYMMETRY Symmetry
INVARIANT AckedIsPurged
CHECK_DEADLOCK FALSE
