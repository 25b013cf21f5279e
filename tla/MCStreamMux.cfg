SPECIFICATION HostSpec
CONSTANTS
  Ids = {2}
  InCap = 1
  OutCap = 1
  HandlerCap = 1
  Crowd = TRUE
  WireCap = 1
  MaxFrames = 2
  Breaks = {"host"}
INVARIANTS InOrder OneFin EndExplained
PROPERTIES HostLoopAdvances RegisteredReadersEnd
CHECK_DEADLOCK FALSE
