SPECIFICATION Spec
CONSTANTS
  Configurations = {aot}
  Aot = {aot}
  Lines <- BuildAndRun
  MaxAttempts = 2
  MaxVersions = 1
  MaxInvocations = 1
INVARIANTS BuiltForUnitraceCollects
CHECK_DEADLOCK FALSE
