SPECIFICATION Spec
CONSTANTS
  TLSEnabled = FALSE
  Idle = 3
  Slow = FALSE
  Lines = 3
  MaxSend = 2
INVARIANT SharedTimer
PROPERTY GenuineIdle
CHECK_DEADLOCK FALSE
