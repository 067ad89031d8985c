SPECIFICATION FairSpec
CONSTANTS
  c1 = c1
  c2 = c2
  a1 = a1
  a2 = a2
  a3 = a3
  i1 = i1
  i2 = i2
  Conns = {c1, c2}
  Reaper = Reaper
  Attempts = {a1, a3}
  ConnOf <- MCConnOf
  Ids = {i1, i2}
  IdOf <- MCIdOf
  Names = {n1}
  PortStart = 1
  PortEnd = 3
  MaxTunnels = 1
  DnsEnabled = TRUE
  None = None
PROPERTIES
  ImplementsLease
  ReservationsAreTemporary
CHECK_DEADLOCK FALSE
