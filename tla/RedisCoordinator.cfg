SPECIFICATION FairSpec
CONSTANTS
  c1 = c1
  c2 = c2
  c3 = c3
  p1 = p1
  p2 = p2
  Clients = {c1, c2, c3}
  Procs = {p1, p2}
  ProcOf <- TwoProcesses
  Max = 2
  Ttl = 3
  Timeout = 2
  HoldMax = 1
  Faults = 1
  Errors = 1
INVARIANTS
  SlotsAccounted
  ClusterCap
PROPERTIES
  FullStallEnds
