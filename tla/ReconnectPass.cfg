SPECIFICATION FairLoopSpec
CONSTANTS
  NoEndpoint = NoEndpoint
  e1 = e1  e2 = e2
  Endpoints = {e1, e2}
  InitialDelay = 1
  MaxDelay = 5
  MaxAttempts = 3
INVARIANTS
  PrintedAddressServes
PROPERTIES
  ShutdownEndsClient
  ComesBack
