SPECIFICATION FairSpec
CONSTANTS
  ThreadNum = 2
  MaxClients = 3
INVARIANTS TasksFindTheirThread EndsOnlyOfFailure NoClientLost
PROPERTIES DealTimerRuns ClientsAreWelcomed
CHECK_DEADLOCK FALSE
