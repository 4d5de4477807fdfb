CONSTANTS
    k1 = k1
    k2 = k2
    a1 = a1
    a2 = a2
    NoSession = NoSession
    Keys = {k1, k2}
    Accounts = {a1, a2}
    MaxSessions = 1
    MaxNodes = 3
    MaxText = 2
    MaxFaults = 2
    Scripts <- AllScripts
    Turns = {1, 2, 3}
    Private = Private
    Kinds = {"local", "made", "child", "parent", "told"}
    MaxChanges = 1
SPECIFICATION MCSpec
INVARIANTS PromptOnce NothingLeftOpen ReplyIsHonest SessionsAreSeparate SubmittedOnce
PROPERTIES CompleteIsWhole EveryTurnEnds
CHECK_DEADLOCK FALSE
