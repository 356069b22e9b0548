CONSTANTS
  Docs = {d1}
  Slugs = {}
  Sources = {x, y}
  Requests = {r1, r2}
  None = None
  Keep = Keep
  Doors = {"publish", "update", "edit", "restore", "revoke", "promote", "visibility"}
  Authors = {"agent", "operator"}
  Births = {"public", "private"}
  MaxVersion = 3
  MaxAttempts = 3
SPECIFICATION Spec
SYMMETRY Symmetry
INVARIANTS TypeOK LiveVersionsAreStored HistoryIsDense EditsExtendTheirBase PublicIsPublished RevokedIsUnpublished
PROPERTIES AgentsNeverMoveThePublicBytes ImplementsHistory
CHECK_DEADLOCK FALSE
