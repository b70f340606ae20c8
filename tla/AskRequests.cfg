SPECIFICATION FairSpec
CONSTANTS
  r1 = r1
  r2 = r2
  r3 = r3
  r4 = r4
  here = here
  there = there
  s1 = s1
  t0 = t0
  Requests = {r1, r2, r3, r4}
  Streams = {r1, r3}
  Tools = {r4}
  Addressed = {r2, r3}
  Clients <- Clientele
  Leavers = {r1}
  Ips = {here, there}
  IpOf <- Addresses
  IpMax = 1
  Permits = 1
  Sessions = {s1}
  NoSession = NoSession
  SessionOf <- Conversations
  Earlier <- OneTurn
  MaxTurns = 2
  MaxTokens = 1
  NoLog = {r3}
CHECK_DEADLOCK FALSE
INVARIANTS
  IpAccounted
  GeneratesWithPermit
  ClientIsTold
  SessionPaired
PROPERTIES
  SendsOnClientLoop
  RequestEnds
