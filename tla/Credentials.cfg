SPECIFICATION MCSpec
CONSTANTS
    NoCaller = NoCaller
    Ids = {i1}
    Callers = {c1, c2}
    Owners = {}
    AccountMode = FALSE
    Kinds = {"plain", "oauth", "pinned", "external"}
    VersionLimit = 4
    MaxStamp = 2
    MaxTurn = 2
    MaxCrashes = 1
    AccountIds = {i1, i2}
    AccountCallers = {c1}
    AccountOwners = {o1, o2}
    AccountKinds = {"oauth"}
    AccountTurns = 1
    Refs = {r1, r2}
    Missing = Missing
    MaxStarts = 3
    MaxVersion = 2
    Requests = {q1, q2, q3}
    MaxTime = 4
INVARIANTS RestartLosesNothing
PROPERTIES RenewedOnce ImplementsVaultSpec EveryCallReturns AccountsKeepMaterial
CHECK_DEADLOCK FALSE
