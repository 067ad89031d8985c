SPECIFICATION Spec
CONSTANTS
  MaxAges = 2
  MaxFaults = 3
  MaxPolls = 1
INVARIANTS
  ServedPairsMatch
  TxtRecordsAccounted
PROPERTIES
  NeverBack
  DueIsReplaced
  ComesUp
