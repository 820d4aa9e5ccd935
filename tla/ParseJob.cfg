\* Two calls throw and the process restarts once.
CONSTANTS
  MaxAttempts = 3
  MaxStalls = 1
  MaxFaults = 2
  MaxCrashes = 1
SPECIFICATION FairSpec
INVARIANTS
  TypeOK
  ReadyHasClauses
  ReviewSeesAllClauses
  FileIsRemoved
PROPERTIES
  ParsedStaysParsed
  ParsingEnds
CHECK_DEADLOCK FALSE
