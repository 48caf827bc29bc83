SPECIFICATION FairSpec
CONSTANTS
  Direct = {1}
  Sources = {2, 3}
  Wirings = {{2}, {2, 3}}
  BufSize = 1
  MaxLen = 2
INVARIANTS
  TeeDelivers
  MergeDelivers
  MergeOrder
  Backpressure
PROPERTIES
  AllReleased
CHECK_DEADLOCK FALSE
