SPECIFICATION ScriptSpec
CONSTANTS
  Jit = Jit
  Ahead = Ahead
  Configurations = {Jit, Ahead}
  Aot = {Ahead}
  Matrix <- BothModes
  Lines <- EveryLine
  MaxAttempts = 2
  MaxVersions = 2
  MaxInvocations = 2
  MaxBefore = 1
INVARIANTS
  ScriptTypeOK CollectedTogether ReportsAreOfTheSamples CleanLeavesNothingOld
  PassedMeansCompared SuccessMeansMatrixCompared
PROPERTIES AnalyzeKeepsItsInputs EveryMatrixEnds
CHECK_DEADLOCK FALSE
