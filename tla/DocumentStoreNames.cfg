CONSTANTS
  Docs = {d1, d2}
  Slugs = {s1}
  Sources = {x}
  Requests = {r1, r2}
  None = None
  Keep = Keep
  Doors = {"publish", "update", "slug", "revoke"}
  Authors = {"operator"}
  Births = {"private"}
  MaxVersion = 2
  MaxAttempts = 3
SPECIFICATION Spec
SYMMETRY Symmetry
INVARIANTS SlugIsUnique
CHECK_DEADLOCK FALSE
