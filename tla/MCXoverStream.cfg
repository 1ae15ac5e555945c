SPECIFICATION Spec
CONSTANTS
  Sessions = 3
  Ranges = 4
  MaxStreaming = 2
  MaxRetry = 2
  CmdBuf = 2
  ReplyBuf = 2
  ErrorRanges <- FirstOrLast
  DropRanges <- FirstTwo
INVARIANTS
  NotGivenUp
PROPERTIES
  ReplyAnswers
  SessionsEnd
CHECK_DEADLOCK FALSE
