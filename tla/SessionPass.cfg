SPECIFICATION FairSpec
CONSTANTS
  None = None
  r1 = r1  r2 = r2
  Requests = {r1, r2}
  ControlCap = 2
  Window = 2
  MaxPings = 1
  MaxReloads = 1
INVARIANTS
  AtMostOneAfterRevocation
  RunningMeansPublished
  DesyncOnlyWhileRegistering
PROPERTIES
  StuckForever
  DisconnectCleansUpUnlessStuck
  EndIsHeard
  StreamOpenEnds
CHECK_DEADLOCK FALSE
