SPECIFICATION Spec
CONSTANTS
  a = a
  b = b
  c = c
  Hosts = {a, b, c}
  Servers <- TwoServers
  Clients <- FirstClient
  Client1 <- NoClient
  Reqs = 1
  Instances = 2
  Dur = 2
  Reps = 2
  Function = "MServerRR"
  Running = {a, b}
  Second = 2
  StatsMax = 2
  ProcessMax = 1
  NetLag = 3
INVARIANTS RowComplete NoOrphan StatsAfter PortsDistinct
CHECK_DEADLOCK FALSE
