CONSTANTS
  BACKUP_DEFAULT_LIMIT = 9
  BACKUP_MAX_LIMIT = 12
  Budgets <- Behaviours
SPECIFICATION Spec
INVARIANTS TypeOK WalkIsComplete RoundTrip ServedIsStored NamesStayRetired
CHECK_DEADLOCK FALSE
