CONSTANTS
  AddressSpace = 256
  Uint32Space = 64
  OperandLimit = 32
  Requests <- WideRequests
SPECIFICATION Spec
INVARIANTS
  RowsAreTheProgramsRows
CHECK_DEADLOCK FALSE
