SPECIFICATION PortsSpec
CONSTANTS
  t1 = t1
  t2 = t2
  v1 = v1
  v2 = v2
  c1 = c1
  c2 = c2
  Vms <- MCVms
  HostPorts = {1, 2}
  VmPorts = {1, 2}
  Callers = {c1, c2}
  Tasks <- MCTasks
  MaxTimers = 1
  NoPort = NoPort
  NoTarget = NoTarget
  NoTask = NoTask
  Logins = {l1, l2}
  Guests <- MCVms
  MaxTime = 4
  MaxRemovals = 2
  Offered <- MCVms
  Own = {o1}
  Updaters <- MCTasks
  MaxLists = 2
  MaxTasks = 3
  Sessions = {s1}
  ApiDomains = {d1, x}
  Cross = {x}
  VaultVms = {v3}
  Calls <- MCTasks
  NoSession = NoSession
  NoDomain = NoDomain
  MaxIssued = 3
SYMMETRY PortsSymmetry
INVARIANTS HandlesTracked MappedBetweenCalls LoginsSafe ProvidersSafe 
CHECK_DEADLOCK FALSE
