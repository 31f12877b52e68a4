SPECIFICATION FairSpec
CONSTANTS
  Role = "filter"
  BufferSize = 16
  WriteSizes = {3}
  MaxBytes <- MCMaxBytes
  ClientViolates = FALSE
  RetryAfterError = FALSE
  SyncsInput = FALSE
  SetsBuffers = FALSE
  Signals = FALSE
INVARIANTS TypeOK RecordsAligned NeverTerminated GoneMeansEnded
PROPERTIES ImplementsResponse DestructionEnds
CHECK_DEADLOCK FALSE
