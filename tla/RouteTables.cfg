SPECIFICATION Spec
CONSTANTS
  MaxHits = 3
  MaxRoutes = 2
  MaxText = 5
  Alphabet <- MCAlphabet
  Lower <- MCLower
  Terms <- MCTerms
  SmallTable <- MCSmallTable
INVARIANTS CapCoversForced AllowCoversForced ScanIsExact
PROPERTY MoreTermsKeepSections
