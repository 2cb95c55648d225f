SPECIFICATION Spec
CONSTANTS
  NumSessions = 2
  Leavers = {1}
  MaxTimers = 3
INVARIANTS IdleIsReminded SettledStaySilent GhostsWereEarly
