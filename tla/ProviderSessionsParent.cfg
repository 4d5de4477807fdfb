CONSTANTS
  Turns = {1, 2}
  Keys = {k1}
  Private = Private
  Adapters = {"child"}
  MaxSessions = 1
  MaxChanges = 1
SPECIFICATION Spec
INVARIANTS ParentOfChat
