SPECIFICATION FairSpec
CONSTANTS
  Lengths = {1, 2}
  Window = 2
  MaxConns = 2
  MaxBytes = 5
  MaxTasks = 2
INVARIANTS StreamIntact AddNeverFails UnreadHasStaleRecord
PROPERTY SendReturns
CHECK_DEADLOCK FALSE
