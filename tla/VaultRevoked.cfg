CONSTANTS
    Ids = {i1, i2}
    Callers = {c1}
    NoCaller = NoCaller
    Owners = {o1, o2}
    AccountMode = TRUE
    Kinds = {"oauth"}
    VersionLimit = 4
    MaxStamp = 3
    MaxTurn = 1
    MaxCrashes = 1
SPECIFICATION FairSpec
PROPERTY RevokedForever
CHECK_DEADLOCK FALSE
