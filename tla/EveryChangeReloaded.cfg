SPECIFICATION Spec
CONSTANTS
  Versions <- MCVersions
  KeyOf <- MCKeyOf
  BadCrt <- MCBadCrt
  BadKey <- MCBadKey
  BadCA <- MCBadCA
  None = None
  QueueSize = 2
  MaxSwaps = 3
INVARIANT EveryChangeReloaded
CHECK_DEADLOCK FALSE
