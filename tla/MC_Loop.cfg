SPECIFICATION FairSpec
CONSTANTS
  Others = {base}
  OwnThread = own
  MaxTimers = 2
  MaxTasks = 2
  MaxPending = 2
  CallbackCalls = {"add", "remove"}
  Interval = 1
  FixedDelay = {2}
  NotRepeated = {}
  MaxNow = 1
INVARIANTS NoDuplicateTimer PendingRemovalsDone
PROPERTIES ImplementsMailbox RemovedIsGone CheckKeepsTimers TasksRun PendingRemovalsLast
CONSTRAINT FewTimers
