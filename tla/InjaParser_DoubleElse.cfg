SPECIFICATION Spec
CONSTANTS
  Max = 100
  MaxBytecodes = 8
CHECK_DEADLOCK FALSE
INVARIANTS
  ElseHasConditionalJump
