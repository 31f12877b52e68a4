CONSTANTS
  Clients = {c1, c2}
  Instances = {i1, i2, i3}
  MaxEvents = 5
  MaxUnread = 2
SPECIFICATION FairSpec
INVARIANTS TypeOK HandlesOwned
PROPERTIES OnlyLateAreDropped ResponseIsRead CallsReturn
CHECK_DEADLOCK FALSE
