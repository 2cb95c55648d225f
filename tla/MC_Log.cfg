SPECIFICATION FairSpec
CONSTANTS
  Lengths = {1, 2}
  RollSize = 3
  MaxLines = 3
  MaxSeconds = 2
  CanFail = TRUE
  CanFatal = TRUE
INVARIANTS FilesInOrder WriterHasFile FileBounded
PROPERTIES ImplementsMailbox LinesWritten UninitReturnsUnlessMissed
CHECK_DEADLOCK FALSE
