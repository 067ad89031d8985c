SPECIFICATION FairReaperSpec
CONSTANTS
  NoTunnel = NoTunnel
  h1 = h1  t1 = t1  v1 = v1  v2 = v2
  Http = {h1}
  Tcp = {t1}
  Visitors = {v1, v2}
  IdleTimeout = 2
  MaxTime = 4
INVARIANTS
  StreamsKeepTcpTunnels
PROPERTIES
  EndedStreamsCount
  UnusedTunnelsClose
CHECK_DEADLOCK FALSE
