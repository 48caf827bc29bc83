SPECIFICATION FairSpec
CONSTANTS
  Implements <- MCImplements
  ElemT = "event"
  Graphs <- MCGraphs
  MaxKey = 4
  Registered <- MCRegistered
  Late <- MCLate
  Frames = 2
  MaxFaults = 1
INVARIANTS
  StreamAgrees
  RunsAsInvoke
  WholeInputs
  OneOwner
PROPERTIES
  StreamReturns
  AllReleased
CHECK_DEADLOCK FALSE
