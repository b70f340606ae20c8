SPECIFICATION FairWriterSpec
CONSTANTS
  MaxBytes = 1
  Keep = 2
  QueueCap = 2
  MaxLines = 8
  Deaths = 1
  Failures = 1
CHECK_DEADLOCK FALSE
INVARIANTS
  KeepsNewest
PROPERTIES
  EachWritten
