SPECIFICATION FairSpec
CONSTANTS
  TLSEnabled = TRUE
  Idle = 2
  Slow = TRUE
  Lines = 3
  MaxSend = 3
INVARIANTS TypeOK StreamsIntact Accounted DataOnlyAfterAgreement NothingLeaks
PROPERTIES Reclaimed ImplementsRequest EndsWhole NeverSpins
CHECK_DEADLOCK FALSE
