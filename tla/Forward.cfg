SPECIFICATION FairSpec
CONSTANTS
  ParseLimit = 100000
  UpstreamAuth = FALSE
  ExtraHeaders = {"X-Corp-Id"}
  TrustXFCC = TRUE
  Requests <- MCRequests
  ACL <- MCACL
  Idle = 2
  ReadTimeout = 2
  WriteTimeout = 2
  Slow = TRUE
  Buffer = 1
  MaxPooled = 1
  DiscardLimit = 1
  MaxBody = 2
  MaxResp = 2
INVARIANTS TypeOK CompleteIsWhole SentOnce BodyCounted TruncationShows CheckedIsSent
PROPERTIES Finishes ImplementsRequest NeverSpins
CHECK_DEADLOCK FALSE
