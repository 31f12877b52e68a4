SPECIFICATION FairSpec
CONSTANTS
  Role = "filter"
  HeaderSize = 2
  BufferSize = 3
  MaxContent = 2
  MaxPadding = 1
  EndPaddings = {0}
  BeginPaddings = {0}
  AnswerRoom = 2
  Foreign = {}
  RetryAfterError = FALSE
  Signals = FALSE
  MaxWire = 14
  MaxAnswers = 2
INVARIANTS TypeOK DeliveredExactly EofExact NeverRefused NeverTerminated
PROPERTIES CallReturns ImplementsRequestInput
CHECK_DEADLOCK FALSE
