SPECIFICATION FairSpec
CONSTANTS
  Sessions = {s1, s2}
  Nobody = Nobody
  NumLoops = 1
  MaxDesks = 1
  Leavers = {s1}
  Lines = {"ready", "answer", "chat"}
INVARIANT SeatedWereDealt
PROPERTIES  ResetReaches
