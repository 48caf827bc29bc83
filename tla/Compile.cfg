SPECIFICATION FairSpec
CONSTANTS
  N = 3
  Unknown = {4}
  EdgeShapes <- SmallEdges
  MapShapes <- SmallMaps
  MaxEdges = 3
  MaxMaps = 1
  Capable = {2, 3}
INVARIANTS
  CycleIsReal
  CompiledIsLayered
PROPERTIES
  CompileReturns
CHECK_DEADLOCK FALSE
