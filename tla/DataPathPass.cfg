SPECIFICATION Spec
CONSTANTS
  Requests <- MCRequests
  Responses <- MCResponses
  Services = {"eager", "patient", "stubborn"}
  Bytes = {"i", "h", "p", "r", "l", "x", "t", "0", "1", "2", "d"}
  SizeOf <- MCSizeOf
  MaxHead = 6
  MaxInfos = 1
  MaxBody = 2
  MaxCap = 2
  Allowance = 1
  Room = 2
  MaxCaptures = 1
  MaxReplays = 1
INVARIANTS
  ExchangeFaithful
  CapturesAreHonest
  SomebodyGoesOn
PROPERTIES
  ExchangeEnds
CHECK_DEADLOCK FALSE
