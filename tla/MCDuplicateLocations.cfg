CONSTANTS
  HalfSpace = 8
  HighPatterns = 2
  Files <- MCFiles
  NormalPath <- MCNormalPath
  EmptyPath <- MCEmptyPath
  Jobs <- MCJobs
SPECIFICATION Spec
INVARIANTS
  MissingInReferenceIsTruthful
CHECK_DEADLOCK FALSE
