SPECIFICATION Spec
CONSTANTS
  Role = "responder"
  BufferSize = 16
  WriteSizes = {3}
  MaxBytes <- MCFewBytes
  ClientViolates = TRUE
  RetryAfterError = TRUE
  SyncsInput = TRUE
  SetsBuffers = TRUE
  Signals = TRUE
INVARIANTS InOrderOnce EndRequestLast
CHECK_DEADLOCK FALSE
