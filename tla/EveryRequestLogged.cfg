SPECIFICATION Spec
CONSTANTS
  TLSEnabled = TRUE
  Idle = 2
  Slow = FALSE
  Lines = 3
  MaxSend = 2
INVARIANT EveryRequestLogged
CHECK_DEADLOCK FALSE
