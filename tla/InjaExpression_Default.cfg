SPECIFICATION Spec
CONSTANTS
  Tokens = {"literal", "first", "context", "header", "default", "(", ")", ",", "}}"}
  Found = {"first"}
  MaxTokens = 10
CHECK_DEADLOCK FALSE
INVARIANTS
  FirstArgumentIsImmediate
