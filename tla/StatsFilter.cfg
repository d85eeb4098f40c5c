SPECIFICATION Spec
CONSTANTS
  s1 = s1
  s2 = s2
  Streams <- MCStreams
  Prefixes <- MCPrefixes
  FlagSets <- MCFlagSets
  Sizes = {1}
  MaxRequest = 2
  MaxResponse = 1
  MaxClock = 2
  W = 1000
SYMMETRY Symmetry
CHECK_DEADLOCK FALSE
INVARIANTS
  TypeOK
  SharesAreRight
  SamplesAreOfTheStream
  DurationWithinLife
