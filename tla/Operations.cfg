SPECIFICATION MCSpec
CONSTANTS
    r1 = r1
    r2 = r2
    s1 = s1
    NoResource = NoResource
    Jobs = {1, 2, 3, 4}
    Syncs = {s1}
    Resources = {r1, r2}
    Renewing = {2}
    MaxActive = 2
    MaxItems = 3
    MaxChanges = 5
    LastSite = 3
    BrowserMode = {3}
    Unsupported = {2}
    MaxTickets = 2
    MaxForeign = 1
    MaxCrashes = 1
INVARIANTS JobsExclusive ScansAreTrue
PROPERTIES CommitsAreTrue WorkEnds
CHECK_DEADLOCK FALSE
