SPECIFICATION FairSpec
CONSTANTS
  c1 = c1
  c2 = c2
  c3 = c3
  c4 = c4
  l1 = l1
  l2 = l2
  Calls = {c1, c2, c3, c4}
  Loops = {l1, l2}
  NoLoop = NoLoop
  LoopOf <- LoopsAndThreads
  Mode <- AllModes
  Permits = 1
INVARIANTS
  PermitsConserved
  NoIdlePermit
PROPERTIES
  ResumeOnlySuspended
  ImplementsPool
  AnsweredIfReleased
CHECK_DEADLOCK FALSE
