SPECIFICATION FairSpec
CONSTANTS
  None = None
  r1 = r1  r2 = r2  r3 = r3
  Requests = {r1, r2, r3}
  IdSpace = 3
  QueueCap = 1
INVARIANTS
  ServedByOwnStream
  WaitingIsReachable
PROPERTY
  RequestEndsClean
CHECK_DEADLOCK FALSE
