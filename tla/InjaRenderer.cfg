SPECIFICATION SpecAll
CONSTANTS
  Max = 100
  MaxBytecodes = 6
  MaxElements = 2
  MaxLevels = 3
  Reserved = 1
CHECK_DEADLOCK FALSE
INVARIANTS
  TypeOK
  JumpsAreAccountedFor
  AcceptedIsClosed
  StartsClean
  RendererTypeOK
  ValuesAreThere
  LevelsAreTheLoopsAround
  DataIsLiveWithinReserve
PROPERTIES
  NestedEnds
