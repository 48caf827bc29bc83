SPECIFICATION FairSpec
CONSTANTS
  Nodes <- HitlNodes
  Ports <- HitlPorts
  Values = {"v1", "v2"}
  NoValue = NoValue
  NoNode = NoNode
  NumLayers = 3
  LayerOf <- HitlLayerOf
  Edges <- HitlEdges
  Mappings <- HitlMappings
  InputNames = {}
  Inputs <- HitlInputs
  Checkpointing = TRUE
  HasStore = TRUE
  MaxConc = 0
  HasReducer = TRUE
  Stagers = {"h", "s", "k"}
  Interrupters = {"h", "k", "s"}
  Spontaneous = {}
  Encodable = {"v1", "v2"}
  NoCheckpoint = NoCheckpoint
  Engines <- HitlEngines
  Compiled = "run"
  FlowHash <- HitlFlowHash
  StructHash <- HitlStructHash
  Pos <- HitlPos
  Conds <- HitlConds
  Outputs <- HitlOutputs
  OutPorts <- HitlOutPorts
  Capable <- HitlCapable
  HumanInputs <- HitlAnswers
  MaxResumes = 2
INVARIANTS
  TypeOK
  LayerBarrier
  SettledEdgesStand
  DoneMeansAllRan
  CheckpointIsCut
  StateIsFoldOfLayers
  PortsAsBaseline
PROPERTIES
  NoRerun
  ImplementsDurableRun
  LegEnds
CHECK_DEADLOCK FALSE
