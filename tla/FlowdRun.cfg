SPECIFICATION FairSpec
CONSTANTS
  Nodes <- RunNodes
  NumLayers = 2
  LayerOf <- RunLayerOf
  ChanCap = 1
  MayDisconnect = TRUE
  MaxLost = 1
INVARIANTS
  StreamOrder
  ClosedAfterTerminal
  OutcomeRecorded
  TrailIsHonest
PROPERTIES
  HandlerReturns
CHECK_DEADLOCK FALSE
