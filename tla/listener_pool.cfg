SPECIFICATION FairSpec
CONSTANTS
  Threads = {t1, t2}
  Clients = {c1, c2}
  Sockets = {s1, s2}
  MaxFd = 1
  Backlog = 1
  HeaderSize = 1
  BodySize = 1
  ParamsSize = 1
  TrashSize = 2
  MaxLater = 1
  Fragments = FALSE
INVARIANTS TypeOK DescriptorsOwned ServedHasBegun
PROPERTIES RefusalsAreTold RequestsAreServed NoReset ImplementsPool EveryoneIsHandled
CHECK_DEADLOCK FALSE
