SPECIFICATION Spec
CONSTANTS
  MaxChunks = 2
  MaxClock = 1
CHECK_DEADLOCK FALSE
INVARIANTS
  TypeOK
  SignedAsSent
  NothingGoesOnUnsigned
  BodyIsCovered
PROPERTIES
  GoesOn
