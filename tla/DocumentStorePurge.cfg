CONSTANTS
  Docs = {d1}
  Slugs = {}
  Sources = {x, y}
  Requests = {r1}
  None = None
  Keep = Keep
  Doors = {"publish", "update", "edit", "restore", "revoke"}
  Authors = {"operator"}
  Births = {"public"}
  MaxVersion = 3
  MaxAttempts = 3
SPECIFICATION FairSpec
PROPERTIES RevokeEventuallyPurges
CHECK_DEADLOCK FALSE
