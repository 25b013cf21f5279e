SPECIFICATION FairSpec
CONSTANTS
  Vms = {v1}
  Boots = {b1}
  Closers = {s1, s2}
  Commands = {"stop", "map"}
  SshWorks = TRUE
  NoVm = NoVm
  None = None
PROPERTIES
  StopCompletes
  SetupEnds
CHECK_DEADLOCK FALSE
