SPECIFICATION Spec
CONSTANTS
  c1 = c1
  c2 = c2
  a1 = a1
  a2 = a2
  a3 = a3
  i1 = i1
  i2 = i2
  Conns = {c1, c2}
  Reaper = Reaper
  Attempts = {a1, a2, a3}
  ConnOf <- MCConnOf
  Ids = {i1, i2}
  IdOf <- MCIdOf
  Names = {n1}
  PortStart = 1
  PortEnd = 2
  MaxTunnels = 2
  DnsEnabled = TRUE
  None = None
INVARIANTS
  OwnershipInv
  NoRaceWithBoundSocket
  ReservationGuaranteesRegistration
  DnsRecordsAccounted
  ClosedFreesEverything
PROPERTIES
  RemovedForOwnReason
CHECK_DEADLOCK FALSE
