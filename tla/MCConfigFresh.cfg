SPECIFICATION ConfigsSpec
CONSTANTS
  t1 = t1
  t2 = t2
  UserDomains = {d1, d2}
  SystemDomains = {s1}
  Editors = {e1, e2}
  MaxOpens = 3
  MaxEdits = 3
  Names = {n1}
  OAuthNames = {o1}
  Togglers <- MCTasks
  Boot = boot
  MaxEnvEdits = 3
  MaxBoots = 2
  Requests <- MCTasks
  DayTicks = 2
  MonthDays = 2
  WeekDays = 2
  Retain = 3
  Skew <- MCSkew
  MaxTick = 8
  MaxSpent = 3
  MaxEmpty = 0
  LimitRows <- MCLimits
  Ids = {1, 2}
  InCap = 1
  OutCap = 1
  HandlerCap = 1
  Crowd = FALSE
  WireCap = 1
  MaxFrames = 0
  Breaks = {}
SYMMETRY ConfigsSymmetry
INVARIANTS FreshSchemaFull
CHECK_DEADLOCK FALSE
