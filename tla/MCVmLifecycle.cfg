SPECIFICATION Spec
CONSTANTS
  Vms = {v1, v2}
  Boots = {b1, b2}
  Closers = {s1}
  Commands = {"delete"}
  SshWorks = FALSE
  NoVm = NoVm
  None = None
SYMMETRY LifeSymmetry
INVARIANTS NoCrossVm AgentLinks
CHECK_DEADLOCK FALSE
