SPECIFICATION TokensSpec
CONSTANTS
  IDs <- MCIDs
  Arrays <- MCArrays
  Operands <- MCOperands
INVARIANTS TokensTypeOK SetSemantics
CHECK_DEADLOCK FALSE
