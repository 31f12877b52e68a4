CONSTANTS
  Radix = 4
  High = 2
  Lead = 1
  Types = {1, 3}
  MaxStream = 7
SPECIFICATION Spec
INVARIANTS TypeOK RecordsCarryValues PairsAreTheStream
PROPERTIES FirstValueStands
CHECK_DEADLOCK FALSE
