SPECIFICATION Spec
CONSTANTS
  Role = "responder"
  HeaderSize = 2
  BufferSize = 3
  MaxContent = 4
  MaxPadding = 1
  EndPaddings = {0}
  BeginPaddings = {0}
  AnswerRoom = 2
  Foreign = {}
  RetryAfterError = FALSE
  Signals = FALSE
  MaxWire = 12
  MaxAnswers = 2
INVARIANTS NeverTerminated
CHECK_DEADLOCK FALSE
