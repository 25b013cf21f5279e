SPECIFICATION AppsSpec
CONSTANTS
  i1 = i1
  i2 = i2
  user = user
  AppInstalls = {i1, i2}
  Users = {user}
  Editors = {i1, i2, user}
  Tags = {a1, a2}
  Apps = {a1, a2}
  Labels = {k1}
  MaxValue = 1
  MaxEdits = 2
  MaxOut = 2
  MaxUrls = 2
  Sessions = {s1, s2}
  Callers = {c1, c2}
  Capacity = 1
  MaxCalls = 4
  McpPorts = {p1}
  Entries = {k2, k3}
  Clients = {b1, b2}
  NoEntry = NoEntry
  MaxConfs = 3
INVARIANTS AppsSafe 
PROPERTIES EndIsReported  
CHECK_DEADLOCK FALSE
