SPECIFICATION Spec
CONSTANT Requests <- MCRequests
CHECK_DEADLOCK FALSE
INVARIANTS
  TypeOK
  PtiNeverAnswersForASibling
  PtiFindsTheReferencesUnit
  IgaAgreesWithPti
  IgaStraysOnlyBeforeItsFirstRow
