SPECIFICATION ScenarioSpec
CONSTANTS
  None = None
  Traffic = {t1, t2}
  Editors = {e1}
  Operations = {o1}
  Batches = {b1}
  Secrets = {k1, k2}
  Keep = 2
  Sites = 2
  MaxRevision = 3
  MaxGen = 3
  MaxStamp = 1
  MaxCrashes = 1
SYMMETRY Symmetry
INVARIANTS NoDanglingReference GenerationLifecycle
PROPERTIES DurableHistory NoStaleCommit
CHECK_DEADLOCK FALSE
