SPECIFICATION Spec
CONSTANTS
  Others = {base}
  OwnThread = own
  MaxTimers = 1
  MaxTasks = 1
  MaxPending = 1
  CallbackCalls = {}
  Interval = 1
  FixedDelay = {}
  NotRepeated = {}
  MaxNow = 2
INVARIANT MissedAreMadeUp
