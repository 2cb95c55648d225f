SPECIFICATION Spec
CONSTANTS
  Sessions = {s1, s2}
  Nobody = Nobody
  NumLoops = 2
  MaxDesks = 1
  Leavers = {}
  Lines = {"ready", "answer"}
INVARIANT OneWinner
