SPECIFICATION Spec
CONSTANTS
  a = a
  b = b
  c = c
  Hosts = {a, b, c}
  Servers <- OneServer
  Clients <- FirstClient
  Client1 <- OneClient
  Reqs = 1
  Instances = 2
  Dur = 2
  Reps = 1
  Function = "MServerRR_1"
  Running = {a, b}
  Second = 2
  StatsMax = 2
  ProcessMax = 1
  NetLag = 3
INVARIANT RowComplete
CHECK_DEADLOCK FALSE
