SPECIFICATION Spec
CONSTANTS
  top = top
  sub = sub
  sys = sys
  None = None
  Domains = {top, sub}
  System = {}
  Seeded = {}
  Listed = {}
  Covers <- MCCovers
  Requests = {r1}
  Commands = {c1, c2}
  MaxRestarts = 0
INVARIANTS
  DenylistBlocks
CHECK_DEADLOCK FALSE
