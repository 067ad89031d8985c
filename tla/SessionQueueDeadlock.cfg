SPECIFICATION FairSpec
CONSTANTS
  None = None
  r1 = r1  r2 = r2
  Requests = {r1, r2}
  ControlCap = 2
  Window = 1
  MaxPings = 1
  MaxReloads = 0
PROPERTY
  DisconnectCleansUp
CHECK_DEADLOCK FALSE
