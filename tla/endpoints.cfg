SPECIFICATION FairSpec
CONSTANTS
  Processes <- MCProcesses
  Options <- MCOptions
  IPv4 = {"127.0.0.1", "127.0.0.2", "0.0.0.0"}
  IPv6 = {"::1"}
  LongPaths = {"/run/too-long"}
  Ephemeral = {40000}
  UnixTcp = {TRUE, FALSE}
  MaxStops = 3
INVARIANTS TypeOK ListeningIsReachable
PROPERTIES ThrowsOnlyIfTaken ListenedAgain
CHECK_DEADLOCK FALSE
