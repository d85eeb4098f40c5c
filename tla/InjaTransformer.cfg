SPECIFICATION Spec
CONSTANTS
  none = none
  None = none
  Trap = Trap
  Names <- MCNames
  Lower <- MCLower
  Values <- MCValues
  Empty = ""
  HasPrefix <- MCHasPrefix
  HasSuffix <- MCHasSuffix
  Keys <- MCKeys
  Regexes <- MCRegexes
  Transformations <- MCTransformations
  WireHeaders <- MCWireHeaders
CHECK_DEADLOCK FALSE
INVARIANTS
  TypeOK
  LoopInvariant
  CallIsTransformed
  OrderIsIrrelevant
PROPERTIES
  ReplacesEachHeaderAtOnce
