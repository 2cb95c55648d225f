SPECIFICATION Spec
CONSTANTS
  Sessions = {s1, s2}
  Nobody = Nobody
  NumLoops = 2
  MaxDesks = 2
  Leavers = {s1, s2}
  Lines = {"ready", "chat"}
INVARIANTS HeardAtDesk LoadBalanced
PROPERTY ImplementsSeating
