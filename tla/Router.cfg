SPECIFICATION ScenarioSpec
CONSTANTS
  s1 = s1
  s2 = s2
  q1 = q1
  a1 = a1
  u1 = u1
  u2 = u2
  p1 = p1
  NoAccount = NoAccount
  Sources = {s1, s2}
  Quotas = {q1}
  Accounts = {a1}
  Requests = {r1, r2, r3, r4}
  Queries = {u1, u2, p1}
  Probes = {p1}
  Configs <- AllConfigs
  First <- Wide
  Statuses = {"neutral", "rejected", "throttled", "failed"}
  MaxInflight = 2
  MaxQueued = 3
  MaxGen = 3
SYMMETRY Symmetry
INVARIANTS
  TypeOK LeaseAccounting NoSplitCapacity QueueAgreement
  NoLostWakeup
PROPERTIES
  GrantWithinLimits GrantUnderCurrentPolicy SameQueryFIFO HealthSurvivesAdopt
