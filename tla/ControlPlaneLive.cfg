SPECIFICATION LiveSpec
CONSTANTS
  None = None
  Traffic = {t1}
  Editors = {e1}
  Operations = {}
  Batches = {b1}
  Secrets = {k1}
  Keep = 2
  Sites = 2
  MaxRevision = 3
  MaxGen = 3
  MaxStamp = 0
  MaxCrashes = 1
PROPERTIES UpdatesSettle
CHECK_DEADLOCK FALSE
