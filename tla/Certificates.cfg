SPECIFICATION FairSpec
CONSTANTS
  Versions <- MCVersions
  KeyOf <- MCKeyOf
  BadCrt <- MCBadCrt
  BadKey <- MCBadKey
  BadCA <- MCBadCA
  None = None
  QueueSize = 2
  MaxSwaps = 3
INVARIANTS ServesUsable FreshWhenQuiet
PROPERTY EventuallyFresh
CHECK_DEADLOCK FALSE
