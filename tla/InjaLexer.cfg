SPECIFICATION Spec
CONSTANTS
  Templates <- MCTemplates
  Settings <- MCSettings
CHECK_DEADLOCK FALSE
INVARIANTS
  TypeOK
  NothingIsLost
  TextOpensNothing
  StringsEndAsJson
PROPERTIES
  EndsEventually
