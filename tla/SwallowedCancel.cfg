SPECIFICATION Spec
CONSTANTS
  Nodes <- BranchNodes
  Ports <- BranchPorts
  Values = {"v1", "v2"}
  NoValue = NoValue
  NoNode = NoNode
  NumLayers = 3
  LayerOf <- BranchLayerOf
  Edges <- BranchEdges
  Mappings <- BranchMappings
  InputNames = {"x"}
  Inputs <- BranchInputs
  Checkpointing = FALSE
  HasStore = FALSE
  MaxConc = 1
  HasReducer = FALSE
  Stagers = {"b", "c"}
  Interrupters = {"b"}
  Spontaneous = {"c"}
  Encodable = {"v1", "v2"}
  NoCheckpoint = NoCheckpoint
  Engines = {"e1"}
  Compiled = "e1"
  FlowHash <- BranchHash
  StructHash <- BranchHash
  Pos <- BranchPos
  Conds <- SoleConds
  Outputs <- BranchOutputs
  OutPorts <- BranchOutPorts
  Capable <- NoneCapable
  HumanInputs <- BranchAnswers
  MaxResumes = 0
INVARIANTS
  DoneMeansAllRan
CHECK_DEADLOCK FALSE
