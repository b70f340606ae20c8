SPECIFICATION FairSpec
CONSTANTS
  s1 = s1
  s2 = s2
  s3 = s3
  NoSession = NoSession
  Sessions = {s1, s2}
  Responses <- AllResponses
  Batch = 2
  Closes = 2
  Cancels = {s1}
  SlowDns = FALSE
CHECK_DEADLOCK FALSE
INVARIANTS
  OwnAnswerOnly
  NoTruncatedSuccess
  Released
PROPERTIES
  SessionEnds
