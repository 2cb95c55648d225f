SPECIFICATION FairSpec
CONSTANTS
  Bytes = {"a", "n"}
  LF = "n"
  MAX_MSG_LENGTH = 2
  ChunkSize = 3
  MaxBytes = 8
INVARIANTS OnlyLongLinesRefused ClosedOnce
PROPERTIES ImplementsLineReader LinesAreHandled
CHECK_DEADLOCK FALSE
