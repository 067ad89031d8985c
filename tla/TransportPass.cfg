SPECIFICATION Spec
CONSTANTS
  ClientCallers = {a, b}
  ServerCallers = {}
  Cap = 1
  MaxNoise = 1
  None = None
INVARIANTS
  StreamsInOrder
PROPERTIES
  OpenEnds
  StreamArrives
CHECK_DEADLOCK FALSE
