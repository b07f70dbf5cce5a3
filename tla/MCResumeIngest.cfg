SPECIFICATION Spec
CONSTANTS
  LowerOf <- MCLowerOf
  Short <- MCShort
  StopWords <- MCStopWords
  Skills <- MCSkills
  Domains <- MCDomains
  Roles <- MCRoles
  ResumeWord = "resume"
  MaxCategoryTokens = 3
  MaxTotalTokens = 3
  Files <- MCFiles
  MaxRuns = 4
  MaxFaults = 2
INVARIANTS
  TypeOK
  RowsAreWhole
  CanonicalIsFixed
  AnsweredWasStored
  AnswersAreOnRecord
  TokensAreBound
CHECK_DEADLOCK FALSE
