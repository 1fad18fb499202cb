CONSTANTS
  Compiled <- MCCompiled
  Labels <- MCLabels
  Invocations <- MCInvocations
  MaxRuns = 2
SPECIFICATION Spec
INVARIANTS
  TypeOK
  SuccessMeansReports
  ExitReflectsReports
  PartialOnlyWhenKilled
  ReportsPaired
CHECK_DEADLOCK FALSE
