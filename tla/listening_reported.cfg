SPECIFICATION Spec
CONSTANTS
  Processes <- MCProcesses
  Options <- MCOneAddress
  IPv4 = {"127.0.0.1"}
  IPv6 = {"::1"}
  LongPaths = {"/run/too-long"}
  Ephemeral = {40000, 40001}
  UnixTcp = {FALSE}
  MaxStops = 0
INVARIANTS ListensAsReported
CHECK_DEADLOCK FALSE
