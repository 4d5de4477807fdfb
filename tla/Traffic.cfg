SPECIFICATION MCSpec
CONSTANTS
    Candidates <- ThreeTargets
    Quotas <- TwoQuotas
    Accounts <- TwoAccounts
    MaxActive = 3
    Affinities = {"x", "y"}
    Types = {"auto", "latency", "load-balance", "fallback", "weighted"}
    Strategies = {"round-robin", "weighted", "least-load", "sticky"}
    Preferences <- SomePreferences
    Scale = 2
    MaxGrants = 9
    MaxWeather = 1
    Buffer = 2
    Limit = 5
    MaxBody = 8
    Protocols = {"chat", "messages", "responses", "gemini"}
    Indices = {c0, c1}
    Invalid = Invalid
    TokenCounts = {1, 2}
    MaxFrames = 3
    l4 = l4
    l5 = l5
    Leases = {l1, l2, l3, l4, l5}
    Size = 2
    Priced = {l1, l2}
    Results <- AllResults
    Statuses <- AllStatuses
INVARIANTS ChoosesBest FairShares FramesAreEvents VerdictIsRight RecordsAreTrue
PROPERTIES RingIsLog
CHECK_DEADLOCK FALSE
