CONSTANTS
  Docs = {d1, d2}
  Slugs = {s1, s2}
  Sources = {x, y}
  Requests = {r1}
  None = None
  Keep = Keep
  Doors = {"publish", "update", "edit", "restore", "slug", "revoke", "promote", "release"}
  Authors = {"agent", "operator"}
  Births = {"public", "private"}
  MaxVersion = 2
  MaxAttempts = 3
SPECIFICATION Spec
SYMMETRY Symmetry
INVARIANTS LiveAndRetiredAreDisjoint
PROPERTIES ShedNamesAreRetired
CHECK_DEADLOCK FALSE
