SPECIFICATION Spec
CONSTANTS
  Role = "responder"
  HeaderSize = 2
  BufferSize = 3
  MaxContent = 2
  MaxPadding = 2
  EndPaddings = {0, 2}
  BeginPaddings = {0, 2}
  AnswerRoom = 1
  Foreign = {"begin", "other", "abort", "unknown", "get_values"}
  RetryAfterError = FALSE
  Signals = TRUE
  MaxWire = 7
  MaxAnswers = 1
INVARIANTS OnlyOwnRequest RecursionConsumes
PROPERTIES InOrderOnce
CHECK_DEADLOCK FALSE
