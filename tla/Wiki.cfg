SPECIFICATION Spec
SYMMETRY Symmetry
CONSTANTS
  Ingests = {i1, i2}
  Answers <- MCAnswers
  File <- MCFile
  MaxCrashes = 1
  MayCut = {"page", "index", "log"}
  Listed <- MCListed
  IndexFile = "INDEX.md"
  LogFile = "CHANGELOG.md"
INVARIANTS PagesWhole IndexNamesPages DoneMeansIndexed
CHECK_DEADLOCK FALSE
