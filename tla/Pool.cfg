SPECIFICATION FairSpec
CONSTANTS
  Reqs = {r1, r2}
  WithBody = {}
  Idempotent = {r1}
  Conns = {c1, c2, c3}
  NoReq = NoReq
  NoConn = NoConn
  MaxIdleConns = 1
  IdleTimeout = 3
  DialTimeout = 1
  MaxRotations = 1
  MaxCloses = 1
INVARIANTS TypeOK Owned NewDialIsCurrent StaleHidden
PROPERTY Drains
CHECK_DEADLOCK FALSE
