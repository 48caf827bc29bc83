SPECIFICATION FairSpec
CONSTANTS
  Implements <- MCImplements
  ElemT = "event"
  Graphs <- Unfolded
  MaxKey = 4
  Registered <- MCRegistered
  Late <- NoLate
  Frames = 2
  MaxFaults = 0
PROPERTY NeverWedged
CHECK_DEADLOCK FALSE
