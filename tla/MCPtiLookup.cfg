CONSTANTS
  AddressSpace = 256
  Uint32Space = 64
  OperandLimit = 32
  Requests <- MCRequests
SPECIFICATION Spec
INVARIANTS
  TypeOK
  RowsAreTheProgramsRows
  MatchesEveryMappedIp
  NothingOutsideTheSequence
CHECK_DEADLOCK FALSE
