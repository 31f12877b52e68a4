SPECIFICATION Spec
CONSTANTS
  Role = "responder"
  HeaderSize = 2
  BufferSize = 3
  MaxContent = 1
  MaxPadding = 1
  EndPaddings = {0}
  BeginPaddings = {0}
  AnswerRoom = 2
  Foreign = {"unknown"}
  RetryAfterError = FALSE
  Signals = FALSE
  MaxWire = 12
  MaxAnswers = 2
INVARIANTS ManagementNotDelivered
CHECK_DEADLOCK FALSE
