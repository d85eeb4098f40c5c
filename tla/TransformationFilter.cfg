SPECIFICATION Spec
CONSTANTS
  s1 = s1
  s2 = s2
  none = none
  None = none
  Trap = Trap
  Streams = {s1, s2}
  Names <- MCNames
  Lower <- MCLower
  Values <- MCValues
  Empty = ""
  HasPrefix <- MCHasPrefix
  HasSuffix <- MCHasSuffix
  Keys <- MCKeys
  Regexes <- MCRegexes
  Configs <- MCConfigs
  WireHeaders <- MCWireHeaders
  NullConfig = NullConfig
  Unparsable = Unparsable
  MaxEpoch = 2
SYMMETRY Symmetry
CHECK_DEADLOCK FALSE
INVARIANTS
  TypeOK
  ConfigIsWhole
  GroupsAreThere
  PointerDesignatesMatch
  ResponseFollowsRequest
  FirstMatchApplied
  ErrorsAreContained
