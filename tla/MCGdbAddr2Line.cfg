CONSTANTS
  Count = 5
  PipeCapacity = 2
  ReadSize = 2
SPECIFICATION Spec
INVARIANTS
  TypeOK
  NothingLeaks
  InputPresentUntilOpened
PROPERTIES
  KeepsPromise
  Returns
CHECK_DEADLOCK FALSE
