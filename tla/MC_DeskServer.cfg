SPECIFICATION FairSpec
CONSTANTS
  MaxPlayers = 4
  Leavers = {1}
  Talkers = {4}
  MaxLines = 1
INVARIANTS OnlyEarlyEndsStay
PROPERTIES ImplementsThreeSeats ReadyAreServed LeaversFreeSeats
CHECK_DEADLOCK FALSE
