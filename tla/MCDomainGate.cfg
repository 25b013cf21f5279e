SPECIFICATION FairSpec
CONSTANTS
  top = top
  sub = sub
  sys = sys
  None = None
  Domains = {top, sub, sys}
  System = {sys}
  Seeded = {sub, sys}
  Listed = {sub}
  Covers <- MCCovers
  Requests = {r1, r2}
  Commands = {c1}
  MaxRestarts = 1
INVARIANTS WaiterReachable AdmittedByAnswer RefusalExplained DenialHolds TokensConsumedOnce
PROPERTIES EveryCheckReturns
CHECK_DEADLOCK FALSE
