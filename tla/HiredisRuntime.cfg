SPECIFICATION FairPoolSpec
CONSTANTS
  j1 = j1
  j2 = j2
  j3 = j3
  w1 = w1
  w2 = w2
  Jobs = {j1, j2, j3}
  Workers = {w1, w2}
  Awaited = {j1, j2}
  OnLoop = {j1}
  NoJob = NoJob
  Outages = 1
CHECK_DEADLOCK FALSE
PROPERTIES
  FailsOnce
  JobAnswered
  ShutdownEnds
