CONSTANTS
  Compiled <- MCCompiled
  Labels <- MCLabels
  Invocations <- MCInvocations
  MaxRuns = 1
SPECIFICATION Spec
INVARIANTS
  DirectUseAccepted
CHECK_DEADLOCK FALSE
