SPECIFICATION Spec
CONSTANTS
  Lengths = {1}
  Window = 1
  MaxConns = 1
  MaxBytes = 1
  MaxTasks = 2
INVARIANT NothingFreedIsUsed
CHECK_DEADLOCK FALSE
