CONSTANTS
  Compiled <- MCCompiled
  Labels <- MCLabels
  Invocations <- MCInvocations
  MaxRuns = 1
SPECIFICATION Spec
INVARIANTS
  EveryCapturedKernelReported
CHECK_DEADLOCK FALSE
