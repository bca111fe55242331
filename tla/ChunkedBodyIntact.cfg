SPECIFICATION Spec
CONSTANTS
  ParseLimit = 100000
  UpstreamAuth = FALSE
  ExtraHeaders = {"X-Corp-Id"}
  TrustXFCC = TRUE
  Requests <- MCRequestsBody
  ACL <- MCACL
  Idle = 2
  ReadTimeout = 2
  WriteTimeout = 2
  Slow = TRUE
  Buffer = 1
  MaxPooled = 1
  DiscardLimit = 1
  MaxBody = 2
  MaxResp = 2
INVARIANT ChunkedBodyIntact
CHECK_DEADLOCK FALSE
