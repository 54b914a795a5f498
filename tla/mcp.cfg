SPECIFICATION FairSpec
CONSTANTS
  Calls = {c1, c2, c3}
  None = None
  MaxChanges = 2
INVARIANTS NoBodyOnSuspect ReadOnlyUntilPanic LaterIndexPickedUp
PROPERTY EveryCallAnswered
CHECK_DEADLOCK FALSE
