SPECIFICATION Spec
CONSTANTS
  None = None
  r1 = r1  r2 = r2
  Requests = {r1}
  ControlCap = 2
  Window = 2
  MaxPings = 1
  MaxReloads = 0
INVARIANT
  AnswerComesFirst
CHECK_DEADLOCK FALSE
