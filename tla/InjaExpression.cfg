SPECIFICATION Spec
CONSTANTS
  Tokens = {"literal", "context", "header", "default", "first", "(", ")", ",", "[", "]", "==", "not", "}}"}
  Found = {"first"}
  MaxTokens = 9
CHECK_DEADLOCK FALSE
INVARIANTS
  TypeOK
  PrintsTheWritten
  DefinedForTheRegular
