SPECIFICATION FairSpec
CONSTANTS
  None = None
  r1 = r1  r2 = r2  p1 = p1  s1 = s1  s2 = s2  good = good  bad = bad
  Requests = {r1, r2}
  Replays = {p1}
  Sessions = {s1, s2}
  Password <- MCPassword
  Inspect = {s1}
  Credentials = {good, bad}
  BodySlots = 1
  AuthPermits = 1
  MaxBody = 1
  BufferSize = 1
INVARIANTS
  LimitsConserved
  OnlyAuthorizedPass
  CapturesTellOutcome
PROPERTY
  SlotsComeBack
CHECK_DEADLOCK FALSE
