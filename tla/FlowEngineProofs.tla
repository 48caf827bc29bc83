-------------------------- MODULE FlowEngineProofs --------------------------
(***************************************************************************)
(* Theorems about FlowEngine, for every flow that Compile accepts, every    *)
(* schedule of the node tasks, and any number of resumed legs: type         *)
(* correctness, the safety of a run, and that it implements DurableRun.     *)
(***************************************************************************)
EXTENDS FlowEngineRefinement, TLAPS

(***************************************************************************)
(* What the typing of the later steps needs to know about the control       *)
(* state: which layer, which node and which ids the loop at pc is about.    *)
(***************************************************************************)
Ctl ==
  /\ pc \in {"fanout", "reduce", "splice", "edges", "maps", "suspend"} => layer <= NumLayers
  /\ pc \in {"suspend", "redges", "rmaps"} => deferNode \in Nodes
  /\ pc = "imaps" => todo \subseteq InputMaps
  /\ pc = "rmaps" => \A m \in todo : Mappings[m].src = deferNode

TypeInv == TypeOK /\ Ctl

(* The wires are well typed: an edge and a mapping have ends in the flow.   *)
LEMMA EdgeType ==
  ASSUME NEW e \in EdgeIds
  PROVE  /\ Edges[e].src \in Nodes /\ Edges[e].dst \in Nodes
         /\ Edges[e].sport \in Ports /\ Edges[e].dport \in Ports
<1>1. Edges[e] \in EdgeRecord
  BY EdgesAssumption DEF EdgeIds
<1>2. QED
  BY <1>1 DEF EdgeRecord

LEMMA MappingType ==
  ASSUME NEW m \in MapIds
  PROVE  /\ Mappings[m].src \in Nodes \cup {NoNode} /\ Mappings[m].dst \in Nodes
         /\ Mappings[m].sport \in Ports /\ Mappings[m].dport \in Ports
         /\ Mappings[m].sel \in [Values -> PortValue]
         /\ Mappings[m].put \in [PortValue -> [Values -> PortValue]]
         /\ Mappings[m].src = NoNode => Mappings[m].input \in InputNames
<1>1. Mappings[m] \in MappingRecord
  BY MappingsAssumption DEF MapIds
<1>2. QED
  BY <1>1, MappingsAssumption DEF MappingRecord

LEMMA InputType ==
  ASSUME NEW i \in InputIds
  PROVE  Inputs[i].name \in InputNames /\ Inputs[i].node \in Nodes /\ Inputs[i].port \in Ports
<1>1. Inputs[i] \in InputRecord
  BY InputsAssumption DEF InputIds
<1>2. QED
  BY <1>1 DEF InputRecord

(* What a mapping writes is a port value.                                  *)
LEMMA MappedType ==
  ASSUME NEW m \in MapIds, NEW raw \in Values, portValues \in PortMap
  PROVE  Mapped(m, raw) \in PortValue
<1> DEFINE mp == Mappings[m]
           old == portValues[mp.dst][mp.dport]
<1>1. old \in PortValue
  BY MappingType DEF PortMap
<1>2. mp.sel[raw] \in PortValue /\ mp.put[old] \in [Values -> PortValue]
  BY <1>1, MappingType
<1>3. mp.sel[raw] # NoValue => mp.put[old][mp.sel[raw]] \in PortValue
  BY <1>2 DEF PortValue
<1>4. QED
  BY <1>3 DEF Mapped, PortValue

(* Writing a port keeps the port map typed.                                *)
LEMMA SetPortType ==
  ASSUME portValues \in PortMap, NEW n \in Nodes, NEW p \in Ports, NEW v \in PortValue,
         SetPort(n, p, v)
  PROVE  portValues' \in PortMap
BY DEF SetPort, PortMap

LEMMA InitType == Init => TypeInv
<1> SUFFICES ASSUME Init PROVE TypeInv
  OBVIOUS
<1>1. committed \in StateLog
  BY DEF Init, StateLog
<1>2. portValues \in PortMap
  BY DEF Init, PortMap, PortValue
<1>3. layer \in 1..(NumLayers + 1)
  BY LayersAssumption DEF Init
<1>4. resumes \in 0..MaxResumes
  BY OptionsAssumption DEF Init
<1>5. /\ edgeStates \in [EdgeIds -> EdgeFireState]
      /\ task \in [Nodes -> TaskState]
      /\ emitted \in [Nodes -> SUBSET Ports]
      /\ inputs \in [InputNames -> PortValue]
  BY DEF Init, EdgeFireState, TaskState, PortValue
<1>6. Ctl
  BY DEF Init, Ctl
<1>7. engine \in Engines /\ ranOn \in [1..NumLayers -> Engines]
  BY EnginesAssumption DEF Init
<1>8. QED
  BY <1>1, <1>2, <1>3, <1>4, <1>5, <1>6, <1>7
  DEF Init, TypeInv, TypeOK, Phases

(* A seed is a State.                                                      *)
LEMMA SeedType == ASSUME NEW opts \in StateOpts PROVE Seed(opts) \in StateLog
<1>1. {} \in SUBSET Nodes
  OBVIOUS
<1>2. <<{}>> \in Seq(SUBSET Nodes) /\ << >> \in Seq(SUBSET Nodes)
  BY <1>1
<1>3. QED
  BY <1>2 DEF Seed, StateLog

(***************************************************************************)
(* Every action keeps the types.                                           *)
(***************************************************************************)
LEMMA StartType == ASSUME TypeInv, NEW given \in [InputNames -> PortValue],
                          NEW opts \in StateOpts, Start(given, opts)
                   PROVE  TypeInv'
<1>1. Seed(opts) \in StateLog
  BY SeedType
<1>2. EntryNodes \subseteq Nodes
  BY DEF EntryNodes
<1>3. hasCell' \in BOOLEAN
  BY DEF Start
<1>4. /\ pc' = "inputs" /\ todo' = InputIds /\ inputs' = given
      /\ committed' = Seed(opts) /\ activated' = EntryNodes
      /\ UNCHANGED <<layer, portValues, edgeStates, taskVars, pending, deferNode,
                     ctxDone, staged, engine, ranOn, stored, resumes>>
  BY DEF Start
<1>5. QED
  BY <1>1, <1>2, <1>3, <1>4 DEF taskVars, TypeInv, TypeOK, Ctl, Phases, Ended

LEMMA BindInputType == ASSUME TypeInv, NEW i \in InputIds, BindInput(i) PROVE TypeInv'
<1>1. portValues' \in PortMap
  <2>1. portValues \in PortMap /\ inputs[Inputs[i].name] \in PortValue
    BY InputType DEF TypeInv, TypeOK
  <2>2. CASE UNCHANGED portValues
    BY <2>1, <2>2
  <2>3. CASE SetPort(Inputs[i].node, Inputs[i].port, inputs[Inputs[i].name])
    BY <2>1, <2>3, InputType, SetPortType
  <2>4. QED
    BY <2>2, <2>3 DEF BindInput
<1>2. activated' \subseteq Nodes
  BY InputType DEF BindInput, Activate, TypeInv, TypeOK
<1>3. QED
  BY <1>1, <1>2 DEF BindInput, Fail, startFrame, cellVars, taskVars, TypeInv, TypeOK, Ctl, Phases, Ended

LEMMA ApplyMappingType ==
  ASSUME TypeInv, NEW m \in MapIds, NEW raw \in Values, ApplyMapping(m, raw)
  PROVE  /\ portValues' \in PortMap /\ activated' \subseteq Nodes
         /\ pc' \in {pc, "failed"}
<1>1. Mapped(m, raw) \in PortValue
  BY MappedType DEF TypeInv, TypeOK
<1>2. portValues' \in PortMap
  <2>1. CASE UNCHANGED portValues
    BY <2>1 DEF TypeInv, TypeOK
  <2>2. CASE SetPort(Mappings[m].dst, Mappings[m].dport, Mapped(m, raw))
    BY <1>1, <2>2, MappingType, SetPortType DEF TypeInv, TypeOK
  <2>3. QED
    BY <2>1, <2>2 DEF ApplyMapping
<1>3. activated' \subseteq Nodes
  BY MappingType DEF ApplyMapping, Activate, TypeInv, TypeOK
<1>4. QED
  BY <1>2, <1>3 DEF ApplyMapping, Fail

LEMMA StartPhaseType ==
  ASSUME TypeInv, InputsBound \/ InputMapsApplied \/ \E m \in MapIds : ApplyInputMapping(m)
  PROVE  TypeInv'
<1>1. CASE InputsBound
  BY <1>1 DEF InputsBound, InputMaps, startFrame, cellVars, taskVars, TypeInv, TypeOK, Ctl, Phases, Ended
<1>2. CASE InputMapsApplied
  BY <1>2 DEF InputMapsApplied, startFrame, cellVars, taskVars, TypeInv, TypeOK, Ctl, Phases, Ended
<1>3. CASE \E m \in MapIds : ApplyInputMapping(m)
  <2>1. PICK m \in MapIds : ApplyInputMapping(m)
    BY <1>3
  <2> DEFINE raw == inputs[Mappings[m].input]
  <2>2. raw \in PortValue
    <3>1. Mappings[m].src = NoNode
      BY <2>1 DEF ApplyInputMapping, First, TypeInv, Ctl, InputMaps
    <3>2. QED
      BY <3>1, MappingType DEF TypeInv, TypeOK
  <2>3. /\ portValues' \in PortMap /\ activated' \subseteq Nodes
        /\ pc' \in {"imaps", "failed"}
    <3>1. CASE raw = NoValue
      BY <2>1, <3>1, NoValueAssumption DEF ApplyInputMapping, Fail, TypeInv, TypeOK
    <3>2. CASE raw # NoValue
      BY <2>1, <2>2, <3>2, ApplyMappingType DEF ApplyInputMapping, PortValue
    <3>3. QED
      BY <3>1, <3>2
  <2>4. QED
    BY <2>1, <2>3
    DEF ApplyInputMapping, startFrame, cellVars, taskVars, TypeInv, TypeOK, Ctl, Phases, Ended
<1>4. QED
  BY <1>1, <1>2, <1>3

LEMMA NodeOkType ==
  ASSUME TypeInv, NEW n \in Nodes, NEW out \in [OutPorts[engine][n] -> PortValue], NodeOk(n, out)
  PROVE  TypeInv'
<1>1. OutPorts[engine][n] \subseteq Ports
  BY EnginesAssumption DEF TypeInv, TypeOK
<1>2. portValues' \in PortMap
  <2> DEFINE row == [p \in Ports |-> IF p \in OutPorts[engine][n] /\ out[p] # NoValue
                                     THEN out[p] ELSE portValues[n][p]]
  <2>1. portValues \in PortMap
    BY DEF TypeInv, TypeOK
  <2>2. row \in [Ports -> PortValue]
    BY <2>1 DEF PortMap
  <2>3. portValues' = [portValues EXCEPT ![n] = row]
    BY DEF NodeOk
  <2> HIDE DEF row
  <2>4. QED
    BY <2>1, <2>2, <2>3 DEF PortMap
<1>3. emitted' \in [Nodes -> SUBSET Ports]
  BY <1>1 DEF NodeOk, TypeInv, TypeOK
<1>4. task' \in [Nodes -> TaskState]
  BY DEF NodeOk, TypeInv, TypeOK, TaskState
<1>5. UNCHANGED <<pc, pending, staged, nodeFrame>>
  BY DEF NodeOk
<1>6. QED
  BY <1>2, <1>3, <1>4, <1>5 DEF nodeFrame, runFrame, TypeInv, TypeOK, Ctl

LEMMA NodeStepType == ASSUME TypeInv, NEW n \in Nodes, NodeStep(n) PROVE TypeInv'
<1>1. CASE StartNode(n) \/ GiveUpNode(n) \/ NodeErr(n) \/ NodeCanceled(n)
  <2>1. task' \in [Nodes -> TaskState]
    BY <1>1 DEF StartNode, GiveUpNode, NodeErr, NodeCanceled, TypeInv, TypeOK, TaskState
  <2>2. UNCHANGED <<pc, portValues, emitted, pending, staged, nodeFrame>>
    BY <1>1 DEF StartNode, GiveUpNode, NodeErr, NodeCanceled
  <2>3. QED
    BY <2>1, <2>2 DEF nodeFrame, runFrame, TypeInv, TypeOK, Ctl
<1>2. CASE SetState(n)
  BY <1>2 DEF SetState, taskVars, nodeFrame, runFrame, TypeInv, TypeOK, Ctl
<1>3. CASE \E out \in [OutPorts[engine][n] -> PortValue] : NodeOk(n, out)
  BY <1>3, NodeOkType
<1>4. CASE NodeInterrupt(n)
  <2>1. task' \in [Nodes -> TaskState] /\ pending' \subseteq Nodes
    BY <1>4 DEF NodeInterrupt, TypeInv, TypeOK, TaskState
  <2>2. UNCHANGED <<pc, portValues, emitted, staged, nodeFrame>>
    BY <1>4 DEF NodeInterrupt
  <2>3. QED
    BY <2>1, <2>2 DEF nodeFrame, runFrame, TypeInv, TypeOK, Ctl
<1>5. QED
  BY <1>1, <1>2, <1>3, <1>4 DEF NodeStep

LEMMA BarrierType == ASSUME TypeInv, BeginLayer \/ Join \/ Reduce \/ Splice PROVE TypeInv'
<1>1. CASE BeginLayer
  <2>1. task' \in [Nodes -> TaskState]
    BY <1>1 DEF BeginLayer, TypeInv, TypeOK, TaskState
  <2>2. /\ pc' \in {"failed", "fanout"} /\ layer <= NumLayers
        /\ UNCHANGED <<layer, portValues, emitted, pending, ctxDone, staged, committed, runFrame>>
    BY <1>1, LayersAssumption DEF BeginLayer, MoreLayers, Fail
  <2>3. QED
    BY <2>1, <2>2 DEF runFrame, TypeInv, TypeOK, Ctl, Phases, Ended
<1>2. CASE Join
  BY <1>2 DEF Join, Fail, taskVars, nodeFrame, runFrame, TypeInv, TypeOK, Ctl, Phases, Ended
<1>3. CASE Reduce
  <2>1. committed' \in StateLog /\ staged' \subseteq Nodes
    <3>1. committed \in Seq(SUBSET Nodes) /\ staged \in SUBSET Nodes
      BY DEF TypeInv, TypeOK, StateLog
    <3>2. Append(committed, staged) \in Seq(SUBSET Nodes) /\ <<staged>> \in Seq(SUBSET Nodes)
      BY <3>1
    <3>3. Reduced \in StateLog
      BY <3>2 DEF Reduced, StateLog
    <3>4. QED
      BY <1>3, <3>1, <3>3 DEF Reduce, StagedAfter, StateLog
  <2>2. /\ pc' \in {"failed", "splice"} /\ pc = "reduce"
        /\ UNCHANGED <<layer, portValues, taskVars, pending, ctxDone, runFrame>>
    BY <1>3 DEF Reduce, Fail
  <2>3. QED
    BY <2>1, <2>2 DEF taskVars, runFrame, TypeInv, TypeOK, Ctl, Phases, Ended
<1>4. CASE Splice
  <2>1. deferNode' \in Nodes \cup {NoNode} /\ pending' = {}
    BY <1>4 DEF Splice, TypeInv, TypeOK
  <2>2. todo' \subseteq EdgeIds \cup MapIds \cup InputIds
    BY <1>4 DEF Splice, Unsettled, EdgesFrom, TypeInv, TypeOK
  <2>3. pc' \in {"failed", "edges"} /\ pc = "splice" /\ UNCHANGED spliceFrame
    BY <1>4 DEF Splice, Fail
  <2>4. QED
    BY <2>1, <2>2, <2>3 DEF spliceFrame, taskVars, cellVars, TypeInv, TypeOK, Ctl, Phases, Ended
<1>5. QED
  BY <1>1, <1>2, <1>3, <1>4

(* Settling an edge keeps the types.                                       *)
LEMMA SettleEdgeType ==
  ASSUME TypeInv, NEW e \in EdgeIds, NEW s \in EdgeFireState, SettleEdge(e, s)
  PROVE  /\ edgeStates' \in [EdgeIds -> EdgeFireState]
         /\ portValues' \in PortMap /\ activated' \subseteq Nodes
<1>1. edgeStates' \in [EdgeIds -> EdgeFireState]
  BY DEF SettleEdge, TypeInv, TypeOK
<1>2. portValues \in PortMap /\ activated \subseteq Nodes
  BY DEF TypeInv, TypeOK
<1>3. CASE s = "EdgeFired"
  <2>1. portValues[Edges[e].src][Edges[e].sport] \in PortValue
    BY <1>2, EdgeType DEF PortMap
  <2>2. /\ SetPort(Edges[e].dst, Edges[e].dport, portValues[Edges[e].src][Edges[e].sport])
        /\ Activate(Edges[e].dst)
    BY <1>3 DEF SettleEdge
  <2>3. portValues' \in PortMap
    BY <1>2, <2>1, <2>2, EdgeType, SetPortType
  <2>4. QED
    BY <1>1, <1>2, <2>2, <2>3, EdgeType DEF Activate
<1>4. CASE s # "EdgeFired"
  BY <1>1, <1>2, <1>4 DEF SettleEdge
<1>5. QED
  BY <1>3, <1>4

LEMMA FireEdgeType ==
  ASSUME TypeInv, NEW e \in EdgeIds, FireEdge(e) \/ FireDeferred(e) PROVE TypeInv'
<1>1. \/ /\ UNCHANGED <<edgeStates, portValues, activated>>
         /\ pc' \in {pc, "failed"}
      \/ /\ pc' = pc
         /\ \E s \in EdgeFireState : SettleEdge(e, s)
  BY DEF FireEdge, FireDeferred, Fail, Verdict, EdgeFireState
<1>2. /\ edgeStates' \in [EdgeIds -> EdgeFireState]
      /\ portValues' \in PortMap /\ activated' \subseteq Nodes
      /\ pc' \in {pc, "failed"}
  BY <1>1, SettleEdgeType DEF TypeInv, TypeOK
<1>3. todo' \subseteq todo /\ UNCHANGED fireFrame /\ pc \in {"edges", "redges"}
  BY DEF FireEdge, FireDeferred
<1>4. QED
  BY <1>2, <1>3 DEF fireFrame, taskVars, cellVars, TypeInv, TypeOK, Ctl, Phases, Ended

LEMMA FireMappingType ==
  ASSUME TypeInv, NEW m \in MapIds, FireMapping(m) \/ FireDeferredMapping(m) PROVE TypeInv'
<1> DEFINE raw == portValues[Mappings[m].src][Mappings[m].sport]
<1>1. /\ todo' = todo \ {m} /\ UNCHANGED <<edgeStates, fireFrame>>
      /\ pc \in {"maps", "rmaps"}
  BY DEF FireMapping, FireDeferredMapping
<1>2. portValues' \in PortMap /\ activated' \subseteq Nodes /\ pc' \in {pc, "failed"}
  <2>1. \/ UNCHANGED <<pc, activated, portValues>>
        \/ Mappings[m].src \in Nodes /\ raw # NoValue /\ ApplyMapping(m, raw)
    <3>1. CASE FireMapping(m)
      BY <3>1 DEF FireMapping, MapReady, TypeInv, TypeOK
    <3>2. CASE FireDeferredMapping(m)
      BY <3>2 DEF FireDeferredMapping, First, TypeInv, Ctl
    <3>3. QED
      BY <3>1, <3>2
  <2>2. CASE UNCHANGED <<pc, activated, portValues>>
    BY <2>2 DEF TypeInv, TypeOK
  <2>3. CASE Mappings[m].src \in Nodes /\ raw # NoValue /\ ApplyMapping(m, raw)
    <3>1. portValues \in PortMap
      BY DEF TypeInv, TypeOK
    <3>2. raw \in Values
      BY <2>3, <3>1, MappingType DEF PortMap, PortValue
    <3> HIDE DEF raw
    <3>3. QED
      BY <2>3, <3>2, ApplyMappingType
  <2>4. QED
    BY <2>1, <2>2, <2>3
<1>3. QED
  BY <1>1, <1>2 DEF fireFrame, taskVars, cellVars, TypeInv, TypeOK, Ctl, Phases, Ended

(* What Suspend writes is a checkpoint.                                    *)
LEMMA SnapshotType ==
  ASSUME TypeInv, pc = "suspend" PROVE Snapshot \in CheckpointRecord
<1>1. << >> \in StateLog
  BY DEF StateLog
<1>2. (IF hasCell THEN committed ELSE << >>) \in StateLog
  BY <1>1 DEF TypeInv, TypeOK
<1>3. layer \in 1..NumLayers
  BY LayersAssumption DEF TypeInv, TypeOK, Ctl
<1>4. QED
  BY <1>2, <1>3 DEF Snapshot, CheckpointRecord, TypeInv, TypeOK, Ctl

LEMMA LayerEndType ==
  ASSUME TypeInv, EdgesFired \/ LayerFired \/ Suspend \/ Finish \/ DeferredFired \/ Reenter
  PROVE  TypeInv'
<1>1. CASE EdgesFired
  BY <1>1 DEF EdgesFired, MapsFrom, fireFrame, cellVars, taskVars, TypeInv, TypeOK, Ctl, Phases, Ended
<1>2. CASE LayerFired
  <2>1. layer' \in 1..(NumLayers + 1) /\ (pc' = "suspend" => layer' <= NumLayers)
    BY <1>2, LayersAssumption DEF LayerFired, TypeInv, TypeOK, Ctl
  <2>2. /\ pc' \in {"suspend", "layer"} /\ (pc' = "suspend" => deferNode # NoNode)
        /\ UNCHANGED <<activated, portValues, edgeStates, taskVars, pending, deferNode,
                       todo, inputs, ctxDone, cellVars, engine, ranOn, stored, resumes>>
    BY <1>2 DEF LayerFired
  <2>3. QED
    BY <2>1, <2>2 DEF cellVars, taskVars, TypeInv, TypeOK, Ctl, Phases, Ended
<1>3. CASE Suspend
  <2>1. stored' \in CheckpointRecord \cup {NoCheckpoint}
    BY <1>3, SnapshotType DEF Suspend, TypeInv, TypeOK
  <2>2. /\ pc' \in {"suspended", "failed"}
        /\ UNCHANGED <<layer, activated, portValues, edgeStates, taskVars, pending,
                       deferNode, todo, inputs, ctxDone, cellVars, engine, ranOn, resumes>>
    BY <1>3 DEF Suspend, Fail
  <2>3. QED
    BY <2>1, <2>2 DEF cellVars, taskVars, TypeInv, TypeOK, Ctl, Phases, Ended
<1>4. CASE Finish
  <2>1. /\ pc' \in {"failed", "done"}
        /\ UNCHANGED <<layer, activated, portValues, edgeStates, taskVars, pending,
                       deferNode, todo, inputs, ctxDone, cellVars, engine, ranOn, stored, resumes>>
    BY <1>4 DEF Finish
  <2>2. QED
    BY <2>1 DEF cellVars, taskVars, TypeInv, TypeOK, Ctl, Phases, Ended
<1>5. CASE DeferredFired
  BY <1>5 DEF DeferredFired, fireFrame, cellVars, taskVars, TypeInv, TypeOK, Ctl, Phases, Ended
<1>6. CASE Reenter
  BY <1>6 DEF Reenter, cellVars, taskVars, TypeInv, TypeOK, Ctl, Phases, Ended
<1>7. QED
  BY <1>1, <1>2, <1>3, <1>4, <1>5, <1>6

LEMMA ResumeType ==
  ASSUME TypeInv, NEW hi \in HumanInputs, NEW v \in Engines, NEW opts \in StateOpts,
         Resume(hi, v, opts)
  PROVE  TypeInv'
<1>1. stored \in CheckpointRecord
  BY DEF Resume, CanResume, TypeInv, TypeOK
<1>2. hi \in [Ports -> PortValue]
  BY OptionsAssumption
<1>3. /\ stored.activated \subseteq Nodes /\ stored.portValues \in PortMap
      /\ stored.edgeStates \in [EdgeIds -> EdgeFireState]
      /\ stored.suspendLayer \in 1..NumLayers /\ stored.interruptNode \in Nodes
      /\ stored.state \in StateLog /\ stored.task \in [Nodes -> TaskState]
      /\ stored.emitted \in [Nodes -> SUBSET Ports]
      /\ stored.ranOn \in [1..NumLayers -> Engines]
  BY <1>1 DEF CheckpointRecord
<1>4. portValues' \in PortMap
  BY <1>2, <1>3 DEF Resume, Merge, PortMap
<1>5. layer' \in 1..(NumLayers + 1)
  BY <1>3, LayersAssumption DEF Resume, FirstLayer
<1>6. Seed(opts) \in StateLog
  BY SeedType
<1>7. committed' \in StateLog
  BY <1>3, <1>6 DEF Resume
<1>8. hasCell' \in BOOLEAN
  BY DEF Resume
<1>9. resumes' \in 0..MaxResumes
  BY OptionsAssumption DEF Resume, TypeInv, TypeOK
<1>10. emitted' \in [Nodes -> SUBSET Ports]
  BY <1>3 DEF Resume
<1>11. inputs' \in [InputNames -> PortValue]
  BY DEF Resume, PortValue
<1>12. /\ pc' = "redges" /\ activated' = stored.activated \cup {stored.interruptNode}
       /\ edgeStates' = stored.edgeStates /\ todo' \subseteq EdgeIds
       /\ deferNode' = stored.interruptNode /\ staged' = {}
       /\ task' = stored.task /\ pending' = {} /\ ctxDone' = FALSE
       /\ engine' = v /\ stored' = stored
  BY DEF Resume
<1>13. ranOn' \in [1..NumLayers -> Engines]
  BY <1>3 DEF Resume
<1>14. QED
  BY <1>1, <1>3, <1>4, <1>5, <1>7, <1>8, <1>9, <1>10, <1>11, <1>12, <1>13
  DEF TypeInv, TypeOK, Ctl, Phases, Ended

LEMMA OutsideType ==
  ASSUME TypeInv,
         \/ Cancel \/ Crash \/ UNCHANGED vars
         \/ ResumeRejected
  PROVE  TypeInv'
<1>1. CASE Cancel
  BY <1>1 DEF Cancel, cellVars, taskVars, TypeInv, TypeOK, Ctl
<1>2. CASE Crash
  BY <1>2 DEF Crash, cellVars, taskVars, TypeInv, TypeOK, Ctl, Ended
<1>3. CASE UNCHANGED vars
  BY <1>3 DEF vars, cellVars, taskVars, TypeInv, TypeOK, Ctl
<1>4. CASE ResumeRejected
  <2>1. resumes' \in 0..MaxResumes
    BY <1>4, OptionsAssumption DEF ResumeRejected, TypeInv, TypeOK
  <2>2. UNCHANGED <<pc, layer, activated, portValues, edgeStates, taskVars, pending,
                    deferNode, todo, inputs, ctxDone, cellVars, engine, ranOn, stored>>
    BY <1>4 DEF ResumeRejected
  <2>3. QED
    BY <2>1, <2>2 DEF cellVars, taskVars, TypeInv, TypeOK, Ctl
<1>5. QED
  BY <1>1, <1>2, <1>3, <1>4

LEMMA StepType == TypeInv /\ [Next]_vars => TypeInv'
<1> SUFFICES ASSUME TypeInv, [Next]_vars PROVE TypeInv'
  OBVIOUS
<1>1. CASE EngineStep
  BY <1>1, BindInputType, StartPhaseType, BarrierType, FireEdgeType, FireMappingType, LayerEndType
  DEF EngineStep
<1>2. CASE Call
  BY <1>2, StartType, ResumeType, OutsideType DEF Call, StateOpts
<1>3. CASE \E n \in Nodes : NodeStep(n)
  BY <1>3, NodeStepType
<1>4. CASE Cancel \/ Crash \/ UNCHANGED vars
  BY <1>4, OutsideType
<1>5. QED
  BY <1>1, <1>2, <1>3, <1>4 DEF Next

(* Every reachable state of a run and its resumed legs is well typed: no    *)
(* wire, layer or resume leads out of the flow Compile accepted, and what   *)
(* the store holds is nothing or a complete Checkpoint.                    *)
THEOREM TypeCorrect == Spec => []TypeOK
<1>1. Spec => []TypeInv
  BY InitType, StepType, PTL DEF Spec
<1>2. TypeInv => TypeOK
  BY DEF TypeInv
<1>3. QED
  BY <1>1, <1>2, PTL

(***************************************************************************)
(* Safety.                                                                 *)
(*                                                                         *)
(* The inductive invariant divides the flow at the frontier: the first      *)
(* layer whose nodes have not all come back.  Behind it a node has run      *)
(* exactly if it was activated and its edges are settled; from it on,       *)
(* nothing has happened.  A checkpoint is a division of the same kind.      *)
(***************************************************************************)
(* The leg has neither failed nor returned suspended.                      *)
Active == pc \notin {"suspended", "failed", "crashed"}

(* The phases after the fan-out of a layer.                                *)
AfterFanout == {"reduce", "splice", "edges", "maps", "suspend"}
Frontier == IF pc \in AfterFanout THEN layer + 1 ELSE layer

(* What a task can be once its layer has been joined.                      *)
Quiet == Returned \cup {"none"} \cup (IF Spontaneous = {} THEN {} ELSE {"canceled"})

Behind ==
  \A n \in Nodes : LayerOf[n] < Frontier =>
    (n \in activated <=> task[n] # "none") /\ task[n] \in Quiet

Ahead ==
  \A n \in Nodes : LayerOf[n] >= Frontier /\ (pc = "fanout" => LayerOf[n] # layer)
    => task[n] = "none"

AtFrontier ==
  pc = "fanout" => \A n \in LayerNodes(layer) :
    /\ n \in activated <=> task[n] # "none"
    /\ task[n] = "canceled" =>
         Spontaneous # {} \/ ctxDone \/ \E m \in LayerNodes(layer) : task[m] = "err"

Requests ==
  \A n \in pending : /\ pc \in {"fanout", "reduce", "splice"}
                     /\ LayerOf[n] = layer /\ task[n] = "interrupt"

(* The node whose edges are being deferred, or fired after a resume.       *)
Deferring ==
  deferNode # NoNode =>
    /\ pc \in {"edges", "maps", "suspend", "redges", "rmaps"}
    /\ LayerOf[deferNode] = Frontier - 1 /\ task[deferNode] = "interrupt"

(* The edges the engine has yet to decide.                                 *)
Open(e) ==
  IF pc \in {"edges", "maps", "suspend"} /\ LayerOf[Edges[e].src] = layer
  THEN pc = "edges" /\ e \in todo
  ELSE LayerOf[Edges[e].src] >= layer

EdgesSettled == \A e \in EdgeIds : edgeStates[e] = "EdgePending" <=> Open(e)

DeferredEdges ==
  \A e \in EdgeIds :
    /\ edgeStates[e] = "EdgeDeferred" =>
         \/ /\ Edges[e].src = deferNode
            /\ pc \in {"edges", "maps", "suspend"} \/ (pc = "redges" /\ e \in todo)
         \/ /\ task[Edges[e].src] = "interrupt"
            /\ portValues[Edges[e].src][Edges[e].sport] = NoValue
    /\ pc \in {"edges", "maps", "suspend"} /\ Edges[e].src = deferNode /\ ~Open(e)
         => edgeStates[e] = "EdgeDeferred"

Loops ==
  /\ pc \in {"idle", "inputs", "imaps"} => layer = 1
  /\ pc = "edges" => todo \subseteq EdgesFrom(layer)
  /\ pc = "maps" => todo \subseteq MapsFrom(layer)
  /\ pc = "redges" => \A e \in todo : e \in EdgeIds /\ edgeStates[e] = "EdgeDeferred"
  /\ pc = "done" => layer > NumLayers

RunInv ==
  /\ Behind /\ Ahead /\ AtFrontier /\ Requests /\ Deferring
  /\ EdgesSettled /\ DeferredEdges /\ Loops

StoredInv ==
  stored # NoCheckpoint =>
    /\ stored.interruptNode \in stored.activated
    /\ stored.task[stored.interruptNode] = "interrupt"
    /\ LayerOf[stored.interruptNode] = stored.suspendLayer
    /\ \A n \in Nodes :
         /\ stored.task[n] # "none" <=>
              n \in stored.activated /\ LayerOf[n] <= stored.suspendLayer
         /\ stored.task[n] \in Quiet
    /\ \A e \in EdgeIds :
         /\ stored.edgeStates[e] = "EdgePending"
              <=> LayerOf[Edges[e].src] > stored.suspendLayer
         /\ Edges[e].src = stored.interruptNode
              => stored.edgeStates[e] = "EdgeDeferred"
         /\ stored.edgeStates[e] = "EdgeDeferred" =>
              \/ Edges[e].src = stored.interruptNode
              \/ /\ stored.task[Edges[e].src] = "interrupt"
                 /\ stored.portValues[Edges[e].src][Edges[e].sport] = NoValue

SafetyInv == (Active => RunInv) /\ StoredInv

(***************************************************************************)
(* Before the first layer nothing has run, so whatever the inputs activate  *)
(* lies at or beyond the frontier.                                         *)
(***************************************************************************)
LEMMA LayerBounds == /\ NumLayers \in Nat
                     /\ \A n \in Nodes : LayerOf[n] \in Nat /\ 1 <= LayerOf[n] /\ LayerOf[n] <= NumLayers
                     /\ \A e \in EdgeIds : LayerOf[Edges[e].src] < LayerOf[Edges[e].dst]
                     /\ \A m \in MapIds : Mappings[m].src # NoNode =>
                          LayerOf[Mappings[m].src] < LayerOf[Mappings[m].dst]
BY LayersAssumption, TopologicalAssumption

LEMMA InitRun == ASSUME Init PROVE RunInv
<1>1. Frontier = 1 /\ layer = 1 /\ pc = "idle"
  BY DEF Init, Frontier, AfterFanout
<1>2. Behind
  BY <1>1, LayerBounds DEF Behind
<1>3. Ahead /\ AtFrontier /\ Requests /\ Deferring /\ Loops
  BY DEF Init, Ahead, AtFrontier, Requests, Deferring, Loops
<1>4. EdgesSettled
  BY <1>1, LayerBounds, EdgeType DEF Init, EdgesSettled, Open
<1>5. DeferredEdges
  BY DEF Init, DeferredEdges
<1>6. QED
  BY <1>2, <1>3, <1>4, <1>5 DEF RunInv

(* The steps up to the first layer.                                        *)
StartStep ==
  \/ \E given \in [InputNames -> PortValue], opts \in StateOpts : Start(given, opts)
  \/ \E i \in InputIds : BindInput(i)
  \/ InputsBound
  \/ \E m \in MapIds : ApplyInputMapping(m)
  \/ InputMapsApplied

LEMMA StartRun == ASSUME TypeInv, RunInv, StartStep, Active' PROVE RunInv'
<1>1. /\ pc \in {"idle", "inputs", "imaps"} /\ pc' \in {"inputs", "imaps", "layer"}
      /\ UNCHANGED <<layer, edgeStates, task, pending, deferNode>>
  BY DEF StartStep, Start, BindInput, InputsBound, ApplyInputMapping, ApplyMapping,
         InputMapsApplied, Fail, Active, startFrame, taskVars
<1>2. layer = 1 /\ Frontier' = 1 /\ Frontier = 1
  BY <1>1 DEF RunInv, Loops, Frontier, AfterFanout
<1>3. Behind'
  BY <1>1, <1>2, LayerBounds DEF Behind
<1>4. Ahead'
  BY <1>1, <1>2 DEF RunInv, Ahead
<1>5. AtFrontier' /\ Requests' /\ Deferring' /\ Loops'
  BY <1>1, <1>2 DEF RunInv, AtFrontier, Requests, Deferring, Loops
<1>6. EdgesSettled'
  BY <1>1, <1>2 DEF RunInv, EdgesSettled, Open
<1>7. DeferredEdges'
  BY <1>1, <1>2, LayerBounds, EdgeType DEF RunInv, EdgesSettled, Open, DeferredEdges
<1>8. QED
  BY <1>3, <1>4, <1>5, <1>6, <1>7 DEF RunInv

(***************************************************************************)
(* The fan-out of a layer.                                                 *)
(***************************************************************************)
LEMMA BeginLayerRun == ASSUME TypeInv, RunInv, BeginLayer, Active' PROVE RunInv'
<1>1. /\ pc = "layer" /\ pc' = "fanout"
      /\ task' = [n \in Nodes |-> IF n \in LayerNodes(layer) \cap activated
                                  THEN "queued" ELSE task[n]]
      /\ UNCHANGED <<layer, activated, portValues, edgeStates, pending, deferNode>>
  BY DEF BeginLayer, Fail, Active, runFrame
<1>2. Frontier' = Frontier /\ Frontier = layer
  BY <1>1 DEF Frontier, AfterFanout
<1>3. \A n \in Nodes : LayerOf[n] # layer => task'[n] = task[n]
  BY <1>1 DEF LayerNodes
<1>4. layer \in Nat
  BY LayerBounds DEF TypeInv, TypeOK
<1>5. Behind' /\ Ahead'
  BY <1>1, <1>2, <1>3, <1>4, LayerBounds DEF RunInv, Behind, Ahead
<1>6. AtFrontier'
  <2>1. \A n \in LayerNodes(layer) : task[n] = "none"
    BY <1>1, <1>2, <1>4, LayerBounds DEF RunInv, Ahead, LayerNodes
  <2>2. QED
    BY <1>1, <2>1 DEF AtFrontier, LayerNodes
<1>7. Requests' /\ Deferring' /\ Loops'
  BY <1>1, LayerBounds DEF RunInv, Requests, Deferring, Loops, TypeInv, TypeOK
<1>8. EdgesSettled'
  BY <1>1 DEF RunInv, EdgesSettled, Open
<1>9. DeferredEdges'
  <2>1. \A e \in EdgeIds : edgeStates[e] = "EdgeDeferred" => LayerOf[Edges[e].src] < layer
    BY <1>1, <1>4, LayerBounds, EdgeType DEF RunInv, EdgesSettled, Open
  <2>2. QED
    BY <1>1, <1>3, <2>1, <1>4, LayerBounds, EdgeType DEF RunInv, DeferredEdges
<1>10. QED
  BY <1>5, <1>6, <1>7, <1>8, <1>9 DEF RunInv

(* A task that is alive belongs to the layer of the fan-out.               *)
LEMMA LiveIsHere ==
  ASSUME TypeInv, RunInv, pc = "fanout", NEW n \in Nodes, task[n] \in Live
  PROVE  LayerOf[n] = layer
<1>1. layer \in Nat /\ Frontier = layer
  BY LayerBounds DEF TypeInv, TypeOK, Frontier, AfterFanout
<1>2. QED
  BY <1>1, LayerBounds DEF RunInv, Behind, Ahead, Quiet, Returned, Live

(* What the node tasks do to the run: they change the outcome of one live   *)
(* task of the layer, and the ports of its node.                           *)
LEMMA NodeStepShape ==
  ASSUME TypeInv, NEW n \in Nodes, NodeStep(n)
  PROVE  /\ pc = "fanout" /\ task[n] \in Live
         /\ UNCHANGED <<pc, layer, activated, edgeStates, deferNode, todo, ctxDone, stored>>
         /\ \E s \in TaskState \ {"none", "queued"} : task' = [task EXCEPT ![n] = s]
         /\ \A k \in Nodes : k # n => portValues'[k] = portValues[k]
         /\ \/ UNCHANGED pending
            \/ pending' = pending \cup {n} /\ task'[n] = "interrupt"
         /\ task'[n] = "canceled" => FanoutCanceled \/ n \in Spontaneous
<1>1. task \in [Nodes -> TaskState] /\ portValues \in PortMap
  BY DEF TypeInv, TypeOK
<1>2. CASE StartNode(n)
  BY <1>1, <1>2 DEF StartNode, nodeFrame, runFrame, TaskState, Live
<1>3. CASE GiveUpNode(n)
  BY <1>1, <1>3 DEF GiveUpNode, nodeFrame, runFrame, TaskState, Live
<1>4. CASE SetState(n)
  <2>1. task' = [task EXCEPT ![n] = "running"]
    BY <1>1, <1>4 DEF SetState, taskVars
  <2>2. QED
    BY <1>1, <1>4, <2>1 DEF SetState, taskVars, nodeFrame, runFrame, TaskState, Live
<1>5. CASE \E out \in [OutPorts[engine][n] -> PortValue] : NodeOk(n, out)
  BY <1>1, <1>5 DEF NodeOk, nodeFrame, runFrame, TaskState, Live, PortMap
<1>6. CASE NodeErr(n)
  BY <1>1, <1>6 DEF NodeErr, nodeFrame, runFrame, TaskState, Live
<1>7. CASE NodeCanceled(n)
  BY <1>1, <1>7 DEF NodeCanceled, nodeFrame, runFrame, TaskState, Live
<1>8. CASE NodeInterrupt(n)
  BY <1>1, <1>8 DEF NodeInterrupt, nodeFrame, runFrame, TaskState, Live
<1>9. QED
  BY <1>2, <1>3, <1>4, <1>5, <1>6, <1>7, <1>8 DEF NodeStep

LEMMA NodeStepRun == ASSUME TypeInv, RunInv, NEW n \in Nodes, NodeStep(n) PROVE RunInv'
<1>1. /\ pc = "fanout" /\ task[n] \in Live
      /\ UNCHANGED <<pc, layer, activated, edgeStates, deferNode, todo, ctxDone>>
      /\ \A k \in Nodes : k # n => task'[k] = task[k] /\ portValues'[k] = portValues[k]
      /\ task'[n] # "none"
      /\ \/ UNCHANGED pending
         \/ pending' = pending \cup {n} /\ task'[n] = "interrupt"
      /\ task'[n] = "canceled" => FanoutCanceled \/ n \in Spontaneous
  BY NodeStepShape DEF TypeInv, TypeOK, TaskState
<1>2. layer \in Nat /\ Frontier = layer /\ Frontier' = layer
  BY <1>1, LayerBounds DEF TypeInv, TypeOK, Frontier, AfterFanout
<1>3. LayerOf[n] = layer
  BY <1>1, LiveIsHere
<1>4. Behind' /\ Ahead'
  BY <1>1, <1>2, <1>3, LayerBounds DEF RunInv, Behind, Ahead
<1>5. AtFrontier'
  <2>1. \A k \in LayerNodes(layer) : k \in activated <=> task'[k] # "none"
    BY <1>1 DEF RunInv, AtFrontier, LayerNodes, Live
  <2>2. ASSUME FanoutCanceled, Spontaneous = {}
        PROVE  ctxDone \/ \E m \in LayerNodes(layer) : task[m] = "err"
    BY <1>1, <2>2 DEF RunInv, AtFrontier, FanoutCanceled, LayerTasks, LayerNodes
  <2>3. \A m \in LayerNodes(layer) : task[m] = "err" => task'[m] = "err"
    BY <1>1 DEF LayerNodes, Live
  <2>4. ASSUME NEW k \in LayerNodes(layer), task'[k] = "canceled", Spontaneous = {}
        PROVE  ctxDone' \/ \E m \in LayerNodes(layer) : task'[m] = "err"
    <3>1. ctxDone \/ \E m \in LayerNodes(layer) : task[m] = "err"
      <4>1. CASE k = n
        BY <1>1, <2>2, <2>4, <4>1
      <4>2. CASE k # n
        BY <1>1, <2>4, <4>2 DEF RunInv, AtFrontier, LayerNodes
      <4>3. QED
        BY <4>1, <4>2
    <3>2. QED
      BY <1>1, <2>3, <3>1
  <2>5. LayerNodes(layer)' = LayerNodes(layer)
    BY <1>1 DEF LayerNodes
  <2>6. QED
    BY <1>1, <2>1, <2>4, <2>5 DEF AtFrontier
<1>6. Requests'
  <2>1. \A k \in pending : task[k] = "interrupt" /\ k \in Nodes /\ LayerOf[k] = layer
    BY DEF RunInv, Requests, TypeInv, TypeOK
  <2>2. n \notin pending
    BY <1>1, <2>1 DEF Live
  <2>3. QED
    BY <1>1, <1>3, <2>1, <2>2 DEF Requests
<1>7. Deferring' /\ Loops' /\ EdgesSettled'
  BY <1>1 DEF RunInv, Deferring, Loops, EdgesSettled, Open
<1>8. DeferredEdges'
  <2>1. \A e \in EdgeIds : edgeStates[e] = "EdgeDeferred" => LayerOf[Edges[e].src] < layer
    BY <1>1, <1>2, LayerBounds, EdgeType DEF RunInv, EdgesSettled, Open
  <2>2. QED
    BY <1>1, <1>2, <1>3, <2>1, LayerBounds, EdgeType DEF RunInv, DeferredEdges
<1>9. QED
  BY <1>4, <1>5, <1>6, <1>7, <1>8 DEF RunInv

(***************************************************************************)
(* The barrier: Join moves the frontier past the layer, the rest of the     *)
(* engine goroutine's steps leave the tasks alone.                         *)
(***************************************************************************)
LEMMA JoinRun == ASSUME TypeInv, RunInv, Join, Active' PROVE RunInv'
<1>1. /\ pc = "fanout" /\ pc' = "reduce" /\ AllTasksEnded /\ ~LayerFailed
      /\ UNCHANGED <<layer, activated, portValues, edgeStates, task, pending, deferNode, todo>>
  BY DEF Join, Fail, Active, nodeFrame, runFrame, taskVars
<1>2. layer \in Nat /\ Frontier = layer /\ Frontier' = layer + 1
  BY <1>1, LayerBounds DEF TypeInv, TypeOK, Frontier, AfterFanout
<1>3. \A n \in Nodes : LayerOf[n] = layer => task[n] \in Quiet
  <2> SUFFICES ASSUME NEW n \in Nodes, LayerOf[n] = layer, task[n] # "none"
               PROVE  task[n] \in Quiet
    BY DEF Quiet
  <2>1. n \in LayerTasks
    BY DEF LayerTasks, LayerNodes
  <2>2. task[n] \in {"ok", "interrupt", "err", "canceled"}
    BY <1>1, <2>1 DEF AllTasksEnded, TypeInv, TypeOK, TaskState
  <2>3. task[n] # "err"
    BY <1>1, <2>1 DEF LayerFailed, Ignored
  <2>4. CASE task[n] = "canceled" /\ Spontaneous = {}
    <3>1. ~ctxDone
      BY <1>1, <2>1, <2>4 DEF LayerFailed, Ignored
    <3>2. \A m \in LayerNodes(layer) : task[m] # "err"
      BY <1>1 DEF LayerFailed, Ignored, LayerTasks
    <3>3. QED
      BY <1>1, <2>4, <3>1, <3>2 DEF RunInv, AtFrontier, LayerNodes
  <2>5. QED
    BY <2>2, <2>3, <2>4 DEF Quiet, Returned
<1>4. Behind'
  BY <1>1, <1>2, <1>3, LayerBounds DEF RunInv, Behind, AtFrontier, LayerNodes
<1>5. Ahead'
  BY <1>1, <1>2, LayerBounds DEF RunInv, Ahead
<1>6. AtFrontier' /\ Requests' /\ Deferring' /\ Loops'
  BY <1>1 DEF RunInv, AtFrontier, Requests, Deferring, Loops
<1>7. EdgesSettled' /\ DeferredEdges'
  BY <1>1 DEF RunInv, EdgesSettled, Open, DeferredEdges
<1>8. QED
  BY <1>4, <1>5, <1>6, <1>7 DEF RunInv

LEMMA ReduceRun == ASSUME TypeInv, RunInv, Reduce, Active' PROVE RunInv'
<1>1. /\ pc = "reduce" /\ pc' = "splice"
      /\ UNCHANGED <<layer, activated, portValues, edgeStates, task, pending, deferNode, todo>>
  BY DEF Reduce, Fail, Active, runFrame, taskVars
<1>2. Frontier' = Frontier
  BY <1>1 DEF Frontier, AfterFanout
<1>3. Behind' /\ Ahead' /\ AtFrontier' /\ Requests' /\ Deferring' /\ Loops'
  BY <1>1, <1>2 DEF RunInv, Behind, Ahead, AtFrontier, Requests, Deferring, Loops
<1>4. EdgesSettled' /\ DeferredEdges'
  BY <1>1 DEF RunInv, EdgesSettled, Open, DeferredEdges
<1>5. QED
  BY <1>3, <1>4 DEF RunInv

LEMMA SpliceRun == ASSUME TypeInv, RunInv, Splice, Active' PROVE RunInv'
<1>1. /\ pc = "splice" /\ pc' = "edges" /\ pending' = {} /\ todo' = Unsettled(layer)
      /\ deferNode' = NoNode \/ deferNode' \in pending
      /\ UNCHANGED <<layer, activated, portValues, edgeStates, task>>
  BY DEF Splice, Fail, Active, spliceFrame, taskVars
<1>2. layer \in Nat /\ Frontier = layer + 1 /\ Frontier' = layer + 1
  BY <1>1, LayerBounds DEF TypeInv, TypeOK, Frontier, AfterFanout
<1>3. Behind' /\ Ahead' /\ AtFrontier' /\ Requests'
  BY <1>1, <1>2 DEF RunInv, Behind, Ahead, AtFrontier, Requests
<1>4. deferNode' # NoNode => LayerOf[deferNode'] = layer /\ task[deferNode'] = "interrupt"
  BY <1>1 DEF RunInv, Requests
<1>5. Deferring'
  BY <1>1, <1>2, <1>4 DEF Deferring
<1>6. \A e \in EdgeIds : edgeStates[e] = "EdgePending" <=> LayerOf[Edges[e].src] >= layer
  BY <1>1 DEF RunInv, EdgesSettled, Open
<1>7. \A e \in EdgeIds : e \in todo' <=> LayerOf[Edges[e].src] = layer
  BY <1>1, <1>6, <1>2 DEF Unsettled, EdgesFrom
<1>8. Loops'
  BY <1>1 DEF Loops, Unsettled
<1>9. EdgesSettled'
  BY <1>1, <1>2, <1>6, <1>7, LayerBounds, EdgeType DEF EdgesSettled, Open
<1>10. DeferredEdges'
  <2>1. \A e \in EdgeIds : edgeStates[e] = "EdgeDeferred" =>
           task[Edges[e].src] = "interrupt" /\ portValues[Edges[e].src][Edges[e].sport] = NoValue
    BY <1>1 DEF RunInv, DeferredEdges
  <2>2. \A e \in EdgeIds : Edges[e].src = deferNode' => LayerOf[Edges[e].src] = layer
    BY <1>4, EdgeType, NoNodeAssumption
  <2>3. QED
    BY <1>1, <1>7, <2>1, <2>2 DEF DeferredEdges, Open
<1>11. QED
  BY <1>3, <1>5, <1>8, <1>9, <1>10 DEF RunInv

(* Settling an edge whose target lies at or beyond the frontier leaves what *)
(* is behind it as it is.                                                  *)
LEMMA SettleShape ==
  ASSUME TypeInv, NEW e \in EdgeIds, NEW s \in EdgeFireState, SettleEdge(e, s)
  PROVE  /\ edgeStates'[e] = s
         /\ \A f \in EdgeIds : f # e => edgeStates'[f] = edgeStates[f]
         /\ \A n \in Nodes : n # Edges[e].dst =>
              portValues'[n] = portValues[n] /\ (n \in activated' <=> n \in activated)
<1>1. /\ edgeStates \in [EdgeIds -> EdgeFireState] /\ portValues \in PortMap
      /\ Edges[e].dst \in Nodes
  BY EdgeType DEF TypeInv, TypeOK
<1>2. QED
  BY <1>1 DEF SettleEdge, SetPort, Activate, PortMap

LEMMA FireEdgeRun ==
  ASSUME TypeInv, RunInv, NEW e \in EdgeIds, FireEdge(e), Active' PROVE RunInv'
<1>1. /\ pc = "edges" /\ pc' = "edges" /\ e \in todo /\ todo' = todo \ {e}
      /\ UNCHANGED <<layer, task, pending, deferNode>>
  BY DEF FireEdge, FirstBySource, Fail, Active, fireFrame, taskVars
<1>2. PICK s \in EdgeFireState \ {"EdgePending"} :
        /\ SettleEdge(e, s)
        /\ s = "EdgeDeferred" <=> Edges[e].src = deferNode
  <2>1. pc' # "failed"
    BY DEF Active
  <2>2. CASE IsDeferred(e) /\ SettleEdge(e, "EdgeDeferred")
    BY <2>2 DEF IsDeferred, EdgeFireState
  <2>3. CASE ~IsDeferred(e) /\ Verdict(e) # "error" /\ SettleEdge(e, Verdict(e))
    <3>1. Verdict(e) \in EdgeFireState \ {"EdgePending", "EdgeDeferred"}
      BY <2>3 DEF Verdict, EdgeFireState
    <3>2. QED
      BY <2>3, <3>1 DEF IsDeferred
  <2>4. QED
    BY <2>1, <2>2, <2>3 DEF FireEdge, Fail
<1>3. /\ edgeStates'[e] = s
      /\ \A f \in EdgeIds : f # e => edgeStates'[f] = edgeStates[f]
      /\ \A n \in Nodes : n # Edges[e].dst =>
           portValues'[n] = portValues[n] /\ (n \in activated' <=> n \in activated)
  BY <1>2, SettleShape
<1>4. layer \in Nat /\ Frontier = layer + 1 /\ Frontier' = layer + 1
  BY <1>1, LayerBounds DEF TypeInv, TypeOK, Frontier, AfterFanout
<1>5. LayerOf[Edges[e].src] = layer /\ LayerOf[Edges[e].dst] >= Frontier
  BY <1>1, <1>4, LayerBounds, EdgeType DEF RunInv, Loops, EdgesFrom
<1>6. Behind'
  BY <1>1, <1>3, <1>4, <1>5, LayerBounds DEF RunInv, Behind
<1>7. Ahead' /\ AtFrontier' /\ Requests' /\ Deferring' /\ Loops'
  BY <1>1, <1>4 DEF RunInv, Ahead, AtFrontier, Requests, Deferring, Loops, EdgesFrom
<1>8. EdgesSettled'
  <2>1. ~Open(e)' /\ edgeStates'[e] # "EdgePending"
    BY <1>1, <1>2, <1>3, <1>5 DEF Open
  <2>2. \A f \in EdgeIds : f # e => (Open(f)' <=> Open(f))
    BY <1>1 DEF Open
  <2>3. QED
    BY <1>3, <2>1, <2>2 DEF RunInv, EdgesSettled
<1>9. DeferredEdges'
  <2> SUFFICES ASSUME NEW f \in EdgeIds
               PROVE  /\ edgeStates'[f] = "EdgeDeferred" =>
                           \/ Edges[f].src = deferNode
                           \/ /\ task[Edges[f].src] = "interrupt"
                              /\ portValues'[Edges[f].src][Edges[f].sport] = NoValue
                      /\ Edges[f].src = deferNode /\ ~Open(f)' => edgeStates'[f] = "EdgeDeferred"
    BY <1>1 DEF DeferredEdges
  <2>1. CASE f = e
    BY <1>2, <1>3, <2>1
  <2>2. CASE f # e
    <3>1. Open(f)' <=> Open(f)
      BY <1>1, <2>2 DEF Open
    <3>2. ~Open(f) => LayerOf[Edges[f].src] <= layer
      BY <1>4, LayerBounds, EdgeType DEF Open
    <3>3. ~Open(f) => portValues'[Edges[f].src] = portValues[Edges[f].src]
      BY <1>3, <1>4, <1>5, <3>2, LayerBounds, EdgeType
    <3>4. edgeStates[f] = "EdgeDeferred" => ~Open(f)
      BY DEF RunInv, EdgesSettled
    <3>5. QED
      BY <1>1, <1>3, <2>2, <3>1, <3>3, <3>4 DEF RunInv, DeferredEdges
  <2>3. QED
    BY <2>1, <2>2
<1>10. QED
  BY <1>6, <1>7, <1>8, <1>9 DEF RunInv

LEMMA EdgesFiredRun == ASSUME TypeInv, RunInv, EdgesFired PROVE RunInv'
<1>1. /\ pc = "edges" /\ todo = {} /\ pc' = "maps" /\ todo' = MapsFrom(layer)
      /\ UNCHANGED <<layer, activated, portValues, edgeStates, task, pending, deferNode>>
  BY DEF EdgesFired, fireFrame, taskVars
<1>2. Frontier' = Frontier
  BY <1>1 DEF Frontier, AfterFanout
<1>3. Behind' /\ Ahead' /\ AtFrontier' /\ Requests' /\ Deferring' /\ Loops'
  BY <1>1, <1>2 DEF RunInv, Behind, Ahead, AtFrontier, Requests, Deferring, Loops, MapsFrom
<1>4. EdgesSettled'
  BY <1>1 DEF RunInv, EdgesSettled, Open
<1>5. DeferredEdges'
  BY <1>1 DEF RunInv, Open, DeferredEdges
<1>6. QED
  BY <1>3, <1>4, <1>5 DEF RunInv

(* What a mapping step may change: the ports and the activation of its      *)
(* target only.                                                            *)
LEMMA ApplyShape ==
  ASSUME TypeInv, NEW m \in MapIds, NEW raw, ApplyMapping(m, raw)
  PROVE  \A n \in Nodes : n # Mappings[m].dst =>
           portValues'[n] = portValues[n] /\ (n \in activated' <=> n \in activated)
BY MappingType DEF ApplyMapping, SetPort, Activate, TypeInv, TypeOK, PortMap

LEMMA FireMappingRun ==
  ASSUME TypeInv, RunInv, NEW m \in MapIds, FireMapping(m), Active' PROVE RunInv'
<1>1. /\ pc = "maps" /\ pc' = "maps" /\ m \in todo /\ todo' = todo \ {m}
      /\ UNCHANGED <<layer, edgeStates, task, pending, deferNode>>
  BY DEF FireMapping, FirstBySource, ApplyMapping, Fail, Active, fireFrame, taskVars
<1>2. \A n \in Nodes : n # Mappings[m].dst =>
        portValues'[n] = portValues[n] /\ (n \in activated' <=> n \in activated)
  BY ApplyShape DEF FireMapping
<1>3. layer \in Nat /\ Frontier = layer + 1 /\ Frontier' = layer + 1
  BY <1>1, LayerBounds DEF TypeInv, TypeOK, Frontier, AfterFanout
<1>4. LayerOf[Mappings[m].dst] >= Frontier /\ Mappings[m].dst \in Nodes
  BY <1>1, <1>3, LayerBounds, MappingType DEF RunInv, Loops, MapsFrom
<1>5. Behind'
  BY <1>1, <1>2, <1>3, <1>4, LayerBounds DEF RunInv, Behind
<1>6. Ahead' /\ AtFrontier' /\ Requests' /\ Deferring' /\ Loops'
  BY <1>1, <1>3 DEF RunInv, Ahead, AtFrontier, Requests, Deferring, Loops, MapsFrom
<1>7. EdgesSettled'
  BY <1>1 DEF RunInv, EdgesSettled, Open
<1>8. DeferredEdges'
  <2>1. \A f \in EdgeIds : edgeStates[f] = "EdgeDeferred" => LayerOf[Edges[f].src] <= layer
    BY <1>1, <1>3, LayerBounds, EdgeType DEF RunInv, EdgesSettled, Open
  <2>2. \A f \in EdgeIds : edgeStates[f] = "EdgeDeferred" =>
           portValues'[Edges[f].src] = portValues[Edges[f].src]
    BY <1>2, <1>3, <1>4, <2>1, LayerBounds, EdgeType
  <2>3. \A f \in EdgeIds : Open(f)' <=> Open(f)
    BY <1>1 DEF Open
  <2>4. QED
    BY <1>1, <2>2, <2>3 DEF RunInv, DeferredEdges
<1>9. QED
  BY <1>5, <1>6, <1>7, <1>8 DEF RunInv

LEMMA LayerFiredRun == ASSUME TypeInv, RunInv, LayerFired PROVE RunInv'
<1>1. /\ pc = "maps"
      /\ UNCHANGED <<activated, portValues, edgeStates, task, pending, deferNode, todo>>
  BY DEF LayerFired, taskVars
<1>2. layer \in Nat /\ Frontier = layer + 1 /\ Frontier' = layer + 1
  BY <1>1, LayerBounds DEF LayerFired, TypeInv, TypeOK, Frontier, AfterFanout
<1>3. Behind' /\ Ahead'
  BY <1>1, <1>2 DEF RunInv, Behind, Ahead, LayerFired
<1>4. CASE deferNode # NoNode
  <2>1. pc' = "suspend" /\ layer' = layer
    BY <1>4 DEF LayerFired
  <2>2. AtFrontier' /\ Requests' /\ Deferring' /\ Loops' /\ EdgesSettled' /\ DeferredEdges'
    BY <1>1, <1>2, <2>1 DEF RunInv, AtFrontier, Requests, Deferring, Loops,
                            EdgesSettled, Open, DeferredEdges
  <2>3. QED
    BY <1>3, <2>2 DEF RunInv
<1>5. CASE deferNode = NoNode
  <2>1. pc' = "layer" /\ layer' = layer + 1
    BY <1>5 DEF LayerFired
  <2>2. AtFrontier' /\ Requests' /\ Deferring' /\ Loops'
    BY <1>1, <1>5, <2>1 DEF RunInv, AtFrontier, Requests, Deferring, Loops
  <2>3. EdgesSettled'
    BY <1>1, <1>2, <2>1, LayerBounds, EdgeType DEF RunInv, EdgesSettled, Open
  <2>4. DeferredEdges'
    BY <1>1, <1>5, <2>1, EdgeType, NoNodeAssumption DEF RunInv, DeferredEdges
  <2>5. QED
    BY <1>3, <2>2, <2>3, <2>4 DEF RunInv
<1>6. QED
  BY <1>4, <1>5

LEMMA FinishRun == ASSUME TypeInv, RunInv, Finish, Active' PROVE RunInv'
<1>1. /\ pc = "layer" /\ pc' = "done" /\ layer > NumLayers
      /\ UNCHANGED <<layer, activated, portValues, edgeStates, task, pending, deferNode, todo>>
  BY LayerBounds DEF Finish, MoreLayers, Active, taskVars, TypeInv, TypeOK
<1>2. Frontier' = Frontier
  BY <1>1 DEF Frontier, AfterFanout
<1>3. Behind' /\ Ahead' /\ AtFrontier' /\ Requests' /\ Deferring' /\ Loops'
  BY <1>1, <1>2 DEF RunInv, Behind, Ahead, AtFrontier, Requests, Deferring, Loops
<1>4. EdgesSettled' /\ DeferredEdges'
  BY <1>1 DEF RunInv, EdgesSettled, Open, DeferredEdges
<1>5. QED
  BY <1>3, <1>4 DEF RunInv

LEMMA CancelRun == ASSUME TypeInv, RunInv, Cancel PROVE RunInv'
<1>1. /\ ctxDone'
      /\ UNCHANGED <<pc, layer, activated, portValues, edgeStates, task, pending, deferNode, todo>>
  BY DEF Cancel, taskVars
<1>2. Behind' /\ Ahead' /\ AtFrontier' /\ Requests' /\ Deferring' /\ Loops'
  BY <1>1 DEF RunInv, Behind, Ahead, AtFrontier, Requests, Deferring, Loops, Frontier
<1>3. EdgesSettled' /\ DeferredEdges'
  BY <1>1 DEF RunInv, EdgesSettled, Open, DeferredEdges
<1>4. QED
  BY <1>2, <1>3 DEF RunInv

(***************************************************************************)
(* A suspension stores a cut at the frontier, and a resume starts a leg     *)
(* with its frontier just behind it.                                       *)
(***************************************************************************)
LEMMA SuspendStored == ASSUME TypeInv, RunInv, StoredInv, Suspend PROVE StoredInv'
<1>1. CASE stored' = stored
  BY <1>1 DEF StoredInv
<1>2. CASE stored' = Snapshot
  <2>1. /\ stored'.activated = activated /\ stored'.portValues = portValues
        /\ stored'.edgeStates = edgeStates /\ stored'.suspendLayer = layer
        /\ stored'.interruptNode = deferNode /\ stored'.task = task
    BY <1>2 DEF Snapshot
  <2>2. pc = "suspend" /\ deferNode \in Nodes /\ deferNode # NoNode
    BY NoNodeAssumption DEF Suspend, TypeInv, Ctl
  <2>3. layer \in Nat /\ Frontier = layer + 1
    BY <2>2, LayerBounds DEF TypeInv, TypeOK, Frontier, AfterFanout
  <2>4. LayerOf[deferNode] = layer /\ task[deferNode] = "interrupt"
    BY <2>2, <2>3, LayerBounds DEF RunInv, Deferring
  <2>5. deferNode \in activated
    BY <2>2, <2>3, <2>4 DEF RunInv, Behind
  <2>6. \A n \in Nodes : /\ task[n] # "none" <=> n \in activated /\ LayerOf[n] <= layer
                         /\ task[n] \in Quiet
    BY <2>2, <2>3, LayerBounds DEF RunInv, Behind, Ahead, Quiet
  <2>7. \A e \in EdgeIds : ~Open(e) <=> LayerOf[Edges[e].src] <= layer
    BY <2>2, <2>3, LayerBounds, EdgeType DEF Open
  <2>8. \A e \in EdgeIds : edgeStates[e] = "EdgePending" <=> LayerOf[Edges[e].src] > layer
    BY <2>3, <2>7, LayerBounds, EdgeType DEF RunInv, EdgesSettled
  <2>9. \A e \in EdgeIds :
          /\ Edges[e].src = deferNode => edgeStates[e] = "EdgeDeferred"
          /\ edgeStates[e] = "EdgeDeferred" =>
               \/ Edges[e].src = deferNode
               \/ /\ task[Edges[e].src] = "interrupt"
                  /\ portValues[Edges[e].src][Edges[e].sport] = NoValue
    BY <2>2, <2>3, <2>4, <2>7 DEF RunInv, DeferredEdges
  <2>10. QED
    BY <2>1, <2>4, <2>5, <2>6, <2>8, <2>9 DEF StoredInv
<1>3. QED
  BY <1>1, <1>2 DEF Suspend

LEMMA ResumeRun ==
  ASSUME TypeInv, StoredInv, NEW hi \in HumanInputs, NEW v \in Engines, NEW opts \in StateOpts,
         Resume(hi, v, opts)
  PROVE  RunInv'
<1> DEFINE h == stored.interruptNode
<1>1. stored \in CheckpointRecord /\ stored # NoCheckpoint
  BY DEF Resume, CanResume, TypeInv, TypeOK
<1>2. /\ stored.portValues \in PortMap /\ h \in Nodes /\ stored.suspendLayer \in Nat
  BY <1>1, LayerBounds DEF CheckpointRecord
<1>3. /\ pc' = "redges" /\ layer' = stored.suspendLayer + 1 /\ pending' = {}
      /\ activated' = stored.activated \cup {h} /\ edgeStates' = stored.edgeStates
      /\ task' = stored.task /\ deferNode' = h
      /\ todo' = {e \in EdgeIds : stored.edgeStates[e] = "EdgeDeferred"}
  BY DEF Resume, FirstLayer
<1>4. \A n \in Nodes : n # h => portValues'[n] = stored.portValues[n]
  BY <1>2 DEF Resume, PortMap
<1>5. Frontier' = layer'
  BY <1>3 DEF Frontier, AfterFanout
<1>6. Behind' /\ Ahead'
  BY <1>1, <1>2, <1>3, <1>5, LayerBounds DEF StoredInv, Behind, Ahead
<1>7. AtFrontier' /\ Requests'
  BY <1>3 DEF AtFrontier, Requests
<1>8. Deferring'
  BY <1>1, <1>2, <1>3, <1>5 DEF StoredInv, Deferring
<1>9. Loops'
  BY <1>3 DEF Loops
<1>10. EdgesSettled'
  BY <1>1, <1>2, <1>3, LayerBounds, EdgeType DEF StoredInv, EdgesSettled, Open
<1>11. DeferredEdges'
  BY <1>1, <1>3, <1>4, EdgeType DEF StoredInv, DeferredEdges
<1>12. QED
  BY <1>6, <1>7, <1>8, <1>9, <1>10, <1>11 DEF RunInv

LEMMA FireDeferredRun ==
  ASSUME TypeInv, RunInv, NEW e \in EdgeIds, FireDeferred(e), Active' PROVE RunInv'
<1>1. /\ pc = "redges" /\ pc' = "redges" /\ e \in todo /\ todo' = todo \ {e}
      /\ UNCHANGED <<layer, task, pending, deferNode>>
  BY DEF FireDeferred, First, Fail, Active, fireFrame, taskVars
<1>2. layer \in Nat /\ Frontier = layer /\ Frontier' = layer
  BY <1>1, LayerBounds DEF TypeInv, TypeOK, Frontier, AfterFanout
<1>3. deferNode \in Nodes /\ LayerOf[deferNode] = layer - 1 /\ task[deferNode] = "interrupt"
  BY <1>1, <1>2, NoNodeAssumption DEF TypeInv, Ctl, RunInv, Deferring
<1>4. deferNode \in activated
  BY <1>2, <1>3, LayerBounds DEF RunInv, Behind
<1>5. edgeStates[e] = "EdgeDeferred"
  BY <1>1 DEF RunInv, Loops
<1>6. CASE /\ UNCHANGED <<edgeStates, portValues, activated>>
           /\ Verdict(e) \in {"EdgeDeadNoPort", "EdgeDeadSrcSkip"}
  <2>1. /\ task[Edges[e].src] = "interrupt"
        /\ portValues[Edges[e].src][Edges[e].sport] = NoValue
    <3>1. CASE Edges[e].src = deferNode
      BY <1>3, <1>4, <1>6, <3>1 DEF Verdict
    <3>2. CASE Edges[e].src # deferNode
      BY <1>5, <3>2 DEF RunInv, DeferredEdges
    <3>3. QED
      BY <3>1, <3>2
  <2>2. Behind' /\ Ahead' /\ AtFrontier' /\ Requests' /\ Deferring' /\ Loops'
    BY <1>1, <1>2, <1>6 DEF RunInv, Behind, Ahead, AtFrontier, Requests, Deferring, Loops
  <2>3. EdgesSettled'
    BY <1>1, <1>6 DEF RunInv, EdgesSettled, Open
  <2>4. DeferredEdges'
    BY <1>1, <1>6, <2>1 DEF RunInv, DeferredEdges
  <2>5. QED
    BY <2>2, <2>3, <2>4 DEF RunInv
<1>7. CASE \E s \in {"EdgeFired", "EdgeDeadFalse"} : SettleEdge(e, s) /\ Verdict(e) = s
  <2>1. PICK s \in {"EdgeFired", "EdgeDeadFalse"} : SettleEdge(e, s) /\ Verdict(e) = s
    BY <1>7
  <2>2. /\ edgeStates'[e] = s
        /\ \A f \in EdgeIds : f # e => edgeStates'[f] = edgeStates[f]
        /\ \A n \in Nodes : n # Edges[e].dst =>
             portValues'[n] = portValues[n] /\ (n \in activated' <=> n \in activated)
    BY <2>1, SettleShape DEF EdgeFireState
  <2>3. Edges[e].src = deferNode
    <3>1. portValues[Edges[e].src][Edges[e].sport] # NoValue
      BY <2>1 DEF Verdict
    <3>2. QED
      BY <1>5, <3>1 DEF RunInv, DeferredEdges
  <2>4. LayerOf[Edges[e].dst] >= layer /\ Edges[e].dst \in Nodes
    BY <1>2, <1>3, <2>3, LayerBounds, EdgeType
  <2>5. Behind'
    BY <1>1, <1>2, <2>2, <2>4, LayerBounds DEF RunInv, Behind
  <2>6. Ahead' /\ AtFrontier' /\ Requests' /\ Deferring'
    BY <1>1, <1>2 DEF RunInv, Ahead, AtFrontier, Requests, Deferring
  <2>7. Loops'
    BY <1>1, <2>2 DEF RunInv, Loops
  <2>8. EdgesSettled'
    BY <1>1, <1>5, <2>1, <2>2 DEF RunInv, EdgesSettled, Open
  <2>9. DeferredEdges'
    <3>1. \A f \in EdgeIds : edgeStates[f] = "EdgeDeferred" => LayerOf[Edges[f].src] < layer
      BY <1>1, <1>2, LayerBounds, EdgeType DEF RunInv, EdgesSettled, Open
    <3>2. \A f \in EdgeIds : edgeStates[f] = "EdgeDeferred" =>
             portValues'[Edges[f].src] = portValues[Edges[f].src]
      BY <1>2, <2>2, <2>4, <3>1, LayerBounds, EdgeType
    <3>3. QED
      BY <1>1, <2>1, <2>2, <3>2 DEF RunInv, DeferredEdges
  <2>10. QED
    BY <2>5, <2>6, <2>7, <2>8, <2>9 DEF RunInv
<1>8. QED
  BY <1>6, <1>7 DEF FireDeferred, Fail, Active

LEMMA DeferredFiredRun == ASSUME TypeInv, RunInv, DeferredFired PROVE RunInv'
<1>1. /\ pc = "redges" /\ todo = {} /\ pc' = "rmaps"
      /\ UNCHANGED <<layer, activated, portValues, edgeStates, task, pending, deferNode>>
  BY DEF DeferredFired, DeferredVisited, fireFrame, taskVars
<1>2. Frontier' = Frontier
  BY <1>1 DEF Frontier, AfterFanout
<1>3. Behind' /\ Ahead' /\ AtFrontier' /\ Requests' /\ Deferring' /\ Loops'
  BY <1>1, <1>2 DEF RunInv, Behind, Ahead, AtFrontier, Requests, Deferring, Loops
<1>4. EdgesSettled' /\ DeferredEdges'
  BY <1>1 DEF RunInv, EdgesSettled, Open, DeferredEdges
<1>5. QED
  BY <1>3, <1>4 DEF RunInv

LEMMA FireDeferredMappingRun ==
  ASSUME TypeInv, RunInv, NEW m \in MapIds, FireDeferredMapping(m), Active' PROVE RunInv'
<1>1. /\ pc = "rmaps" /\ pc' = "rmaps" /\ m \in todo /\ todo' = todo \ {m}
      /\ UNCHANGED <<layer, edgeStates, task, pending, deferNode>>
  BY DEF FireDeferredMapping, First, ApplyMapping, Fail, Active, fireFrame, taskVars
<1>2. \A n \in Nodes : n # Mappings[m].dst =>
        portValues'[n] = portValues[n] /\ (n \in activated' <=> n \in activated)
  BY ApplyShape DEF FireDeferredMapping
<1>3. layer \in Nat /\ Frontier = layer /\ Frontier' = layer
  BY <1>1, LayerBounds DEF TypeInv, TypeOK, Frontier, AfterFanout
<1>4. LayerOf[Mappings[m].dst] >= layer /\ Mappings[m].dst \in Nodes
  <2>1. deferNode \in Nodes /\ deferNode # NoNode /\ Mappings[m].src = deferNode
    BY <1>1, NoNodeAssumption DEF TypeInv, Ctl
  <2>2. LayerOf[deferNode] = layer - 1
    BY <1>3, <2>1 DEF RunInv, Deferring
  <2>3. QED
    BY <1>3, <2>1, <2>2, LayerBounds, MappingType
<1>5. Behind'
  BY <1>1, <1>2, <1>3, <1>4, LayerBounds DEF RunInv, Behind
<1>6. Ahead' /\ AtFrontier' /\ Requests' /\ Deferring' /\ Loops'
  BY <1>1, <1>3 DEF RunInv, Ahead, AtFrontier, Requests, Deferring, Loops
<1>7. EdgesSettled'
  BY <1>1 DEF RunInv, EdgesSettled, Open
<1>8. DeferredEdges'
  <2>1. \A f \in EdgeIds : edgeStates[f] = "EdgeDeferred" => LayerOf[Edges[f].src] < layer
    BY <1>1, <1>3, LayerBounds, EdgeType DEF RunInv, EdgesSettled, Open
  <2>2. \A f \in EdgeIds : edgeStates[f] = "EdgeDeferred" =>
           portValues'[Edges[f].src] = portValues[Edges[f].src]
    BY <1>2, <1>3, <1>4, <2>1, LayerBounds, EdgeType
  <2>3. QED
    BY <1>1, <2>2 DEF RunInv, DeferredEdges
<1>9. QED
  BY <1>5, <1>6, <1>7, <1>8 DEF RunInv

LEMMA ReenterRun == ASSUME TypeInv, RunInv, Reenter PROVE RunInv'
<1>1. /\ pc = "rmaps" /\ pc' = "layer" /\ deferNode' = NoNode
      /\ UNCHANGED <<layer, activated, portValues, edgeStates, task, pending, todo>>
  BY DEF Reenter, taskVars
<1>2. Frontier' = Frontier
  BY <1>1 DEF Frontier, AfterFanout
<1>3. Behind' /\ Ahead' /\ AtFrontier' /\ Requests' /\ Deferring' /\ Loops'
  BY <1>1, <1>2 DEF RunInv, Behind, Ahead, AtFrontier, Requests, Deferring, Loops
<1>4. EdgesSettled' /\ DeferredEdges'
  BY <1>1 DEF RunInv, EdgesSettled, Open, DeferredEdges
<1>5. QED
  BY <1>3, <1>4 DEF RunInv

(***************************************************************************)
(* The invariant is inductive.                                             *)
(***************************************************************************)
LEMMA RunStep == ASSUME TypeInv, SafetyInv, Next, Active' PROVE RunInv'
<1>1. CASE \E hi \in HumanInputs, v \in Engines, opts \in StateOpts : Resume(hi, v, opts)
  BY <1>1, ResumeRun DEF SafetyInv
<1>2. CASE ResumeRejected
  <2>1. UNCHANGED <<pc, layer, activated, portValues, edgeStates, task, pending, deferNode,
                    todo, ctxDone>>
    BY <1>2 DEF ResumeRejected, taskVars
  <2>2. RunInv
    BY <2>1 DEF SafetyInv, Active
  <2>3. Behind' /\ Ahead' /\ AtFrontier' /\ Requests' /\ Deferring' /\ Loops'
    BY <2>1, <2>2 DEF RunInv, Behind, Ahead, AtFrontier, Requests, Deferring, Loops, Frontier
  <2>4. EdgesSettled' /\ DeferredEdges'
    BY <2>1, <2>2 DEF RunInv, EdgesSettled, Open, DeferredEdges
  <2>5. QED
    BY <2>3, <2>4 DEF RunInv
<1>3. CASE StartStep
  <2>1. Active
    BY <1>3 DEF StartStep, Start, BindInput, InputsBound, ApplyInputMapping, InputMapsApplied, Active
  <2>2. QED
    BY <1>3, <2>1, StartRun DEF SafetyInv
<1>4. CASE BeginLayer \/ Join \/ Reduce \/ Splice \/ EdgesFired \/ LayerFired \/ Finish
           \/ DeferredFired \/ Reenter
  <2>1. Active
    BY <1>4 DEF BeginLayer, Join, Reduce, Splice, EdgesFired, LayerFired, Finish,
                DeferredFired, Reenter, Active
  <2>2. QED
    BY <1>4, <2>1, BeginLayerRun, JoinRun, ReduceRun, SpliceRun, EdgesFiredRun, LayerFiredRun,
       FinishRun, DeferredFiredRun, ReenterRun DEF SafetyInv
<1>5. CASE \E e \in EdgeIds : FireEdge(e) \/ FireDeferred(e)
  <2>1. Active
    BY <1>5 DEF FireEdge, FireDeferred, Active
  <2>2. QED
    BY <1>5, <2>1, FireEdgeRun, FireDeferredRun DEF SafetyInv
<1>6. CASE \E m \in MapIds : FireMapping(m) \/ FireDeferredMapping(m)
  <2>1. Active
    BY <1>6 DEF FireMapping, FireDeferredMapping, Active
  <2>2. QED
    BY <1>6, <2>1, FireMappingRun, FireDeferredMappingRun DEF SafetyInv
<1>7. CASE \E n \in Nodes : NodeStep(n)
  <2>1. Active
    BY <1>7, NodeStepShape DEF Active
  <2>2. QED
    BY <1>7, <2>1, NodeStepRun DEF SafetyInv
<1>8. CASE Cancel
  <2>1. Active
    BY <1>8 DEF Cancel, Active, Ended
  <2>2. QED
    BY <1>8, <2>1, CancelRun DEF SafetyInv
<1>9. CASE Suspend \/ Crash
  BY <1>9 DEF Suspend, Crash, Fail, Active
<1>10. QED
  BY <1>1, <1>2, <1>3, <1>4, <1>5, <1>6, <1>7, <1>8, <1>9
  DEF Next, Call, EngineStep, StartStep, StateOpts

(* Only a suspension writes the store.                                     *)
LEMMA StoreStep == ASSUME TypeInv, Next, ~Suspend PROVE stored' = stored
<1>1. CASE \E n \in Nodes : NodeStep(n)
  BY <1>1, NodeStepShape
<1>2. CASE Call \/ Cancel \/ Crash
  BY <1>2 DEF Call, Start, Resume, ResumeRejected, Cancel, Crash
<1>3. CASE EngineStep
  BY <1>3 DEF EngineStep, BindInput, InputsBound, ApplyInputMapping, InputMapsApplied, startFrame,
     BeginLayer, Join, Reduce, nodeFrame, runFrame, Splice, spliceFrame, FireEdge, EdgesFired,
     FireMapping, LayerFired, Finish, FireDeferred, DeferredFired, FireDeferredMapping, Reenter, fireFrame
<1>4. QED
  BY <1>1, <1>2, <1>3 DEF Next

LEMMA SafetyStep == TypeInv /\ SafetyInv /\ [Next]_vars => SafetyInv'
<1> SUFFICES ASSUME TypeInv, SafetyInv, [Next]_vars PROVE SafetyInv'
  OBVIOUS
<1>1. CASE Next
  <2>1. StoredInv'
    <3>1. CASE Suspend
      BY <3>1, SuspendStored DEF SafetyInv, Suspend, Active
    <3>2. CASE ~Suspend
      BY <1>1, <3>2, StoreStep DEF SafetyInv, StoredInv
    <3>3. QED
      BY <3>1, <3>2
  <2>2. QED
    BY <1>1, <2>1, RunStep DEF SafetyInv
<1>2. CASE UNCHANGED vars
  <2>1. UNCHANGED <<pc, layer, activated, portValues, edgeStates, task, pending, deferNode,
                    todo, ctxDone, stored>>
    BY <1>2 DEF vars, taskVars
  <2>2. RunInv => Behind' /\ Ahead' /\ AtFrontier' /\ Requests' /\ Deferring' /\ Loops'
    BY <2>1 DEF RunInv, Behind, Ahead, AtFrontier, Requests, Deferring, Loops, Frontier
  <2>3. RunInv => EdgesSettled' /\ DeferredEdges'
    BY <2>1 DEF RunInv, EdgesSettled, Open, DeferredEdges
  <2>4. QED
    BY <2>1, <2>2, <2>3 DEF SafetyInv, Active, RunInv, StoredInv
<1>3. QED
  BY <1>1, <1>2

LEMMA Safety == Spec => [](TypeInv /\ SafetyInv)
<1>1. Init => SafetyInv
  <2>1. Init => StoredInv
    BY DEF Init, StoredInv
  <2>2. QED
    BY <2>1, InitRun DEF SafetyInv
<1>2. QED
  BY <1>1, InitType, StepType, SafetyStep, PTL DEF Spec

(***************************************************************************)
(* What follows from it.                                                   *)
(***************************************************************************)
(* FlowDone means that exactly the activated nodes ran to a result, on      *)
(* whichever leg, as long as no node invents a context.Canceled of its own: *)
(* fail-fast never lets the scan of the results (v2/flow/engine.go) pass    *)
(* over a sibling given up because of an error.                            *)
THEOREM DoneIsDone == ASSUME Spontaneous = {} PROVE Spec => []DoneMeansAllRan
<1>1. TypeInv /\ SafetyInv => DoneMeansAllRan
  <2> SUFFICES ASSUME TypeInv, SafetyInv, pc = "done", NEW n \in Nodes
               PROVE  n \in activated <=> task[n] \in Returned
    BY DEF DoneMeansAllRan
  <2>1. RunInv
    BY DEF SafetyInv, Active
  <2>2. LayerOf[n] < Frontier
    BY <2>1, LayerBounds DEF RunInv, Loops, Frontier, AfterFanout, TypeInv, TypeOK
  <2>3. (n \in activated <=> task[n] # "none") /\ task[n] \in Returned \cup {"none"}
    BY <2>1, <2>2 DEF RunInv, Behind, Quiet
  <2>4. QED
    BY <2>3 DEF Returned
<1>2. QED
  BY <1>1, Safety, PTL

(* A resume cannot run a node a second time: a task is queued only for a    *)
(* node that has no outcome in this lineage of legs.                       *)
THEOREM NeverRerun == Spec => NoRerun
<1> DEFINE A == \A n \in Nodes : task'[n] = "queued" /\ task[n] # "queued" => task[n] = "none"
<1>1. TypeInv /\ SafetyInv /\ [Next]_vars => [A]_vars
  <2> SUFFICES ASSUME TypeInv, SafetyInv, Next, NEW n \in Nodes,
                      task'[n] = "queued", task[n] # "queued"
               PROVE  task[n] = "none"
    OBVIOUS
  <2>1. CASE BeginLayer
    <3>1. pc = "layer" /\ n \in LayerNodes(layer) /\ RunInv
      BY <2>1 DEF BeginLayer, SafetyInv, Active
    <3>2. QED
      BY <3>1, LayerBounds DEF RunInv, Ahead, Frontier, AfterFanout, LayerNodes, TypeInv, TypeOK
  <2>2. CASE \E k \in Nodes : NodeStep(k)
    <3>1. PICK k \in Nodes, s \in TaskState \ {"none", "queued"} : task' = [task EXCEPT ![k] = s]
      BY <2>2, NodeStepShape
    <3>2. task'[n] \in {task[n], s}
      BY <3>1 DEF TypeInv, TypeOK
    <3>3. QED
      BY <3>2
  <2>3. CASE \E hi \in HumanInputs, v \in Engines, opts \in StateOpts : Resume(hi, v, opts)
    <3>1. task'[n] = stored.task[n] /\ stored # NoCheckpoint
      BY <2>3 DEF Resume, CanResume
    <3>2. QED
      BY <3>1 DEF SafetyInv, StoredInv, Quiet, Returned
  <2>4. CASE EngineStep /\ ~BeginLayer
    <3>1. task' = task
      BY <2>4 DEF EngineStep, BindInput, InputsBound, ApplyInputMapping, InputMapsApplied, startFrame,
         Join, Reduce, Splice, spliceFrame, FireEdge, EdgesFired, FireMapping, LayerFired, Suspend,
         Finish, FireDeferred, DeferredFired, FireDeferredMapping, Reenter, fireFrame, taskVars
    <3>2. QED
      BY <3>1
  <2>5. CASE \/ \E given \in [InputNames -> PortValue], opts \in StateOpts : Start(given, opts)
             \/ ResumeRejected
             \/ Cancel \/ Crash
    BY <2>5 DEF Start, ResumeRejected, Cancel, Crash, taskVars
  <2>6. QED
    BY <2>1, <2>2, <2>3, <2>4, <2>5 DEF Next, Call, StateOpts
<1>2. QED
  BY <1>1, Safety, PTL DEF Spec, NoRerun

(* Whatever snapshotCheckpoint writes is a consistent cut of the run, with  *)
(* one node waiting and exactly its edges deferred.                        *)
THEOREM CheckpointsAreCuts == ASSUME Spontaneous = {} PROVE Spec => []CheckpointIsCut
<1>1. SafetyInv => CheckpointIsCut
  BY DEF SafetyInv, StoredInv, CheckpointIsCut, Quiet
<1>2. QED
  BY <1>1, Safety, PTL

(* No node's Run overlaps with that of a node that feeds it, and it never   *)
(* starts before every edge into it is settled.                            *)
THEOREM LayersAreBarriers == Spec => []LayerBarrier
<1>1. TypeInv /\ RunInv => LayerBarrier
  <2> SUFFICES ASSUME TypeInv, RunInv, NEW n \in Nodes, task[n] \in Live
               PROVE  /\ \A e \in EdgeIds : Edges[e].dst = n =>
                           edgeStates[e] # "EdgePending" /\ task[Edges[e].src] \notin Live
                      /\ \A m \in MapIds : Mappings[m].dst = n /\ Mappings[m].src # NoNode =>
                           task[Mappings[m].src] \notin Live
    BY DEF LayerBarrier
  <2>1. layer \in Nat /\ Frontier \in Nat
    BY LayerBounds DEF TypeInv, TypeOK, Frontier
  <2>2. pc = "fanout" /\ LayerOf[n] = layer
    BY <2>1, LiveIsHere, LayerBounds DEF RunInv, Behind, Ahead, Quiet, Returned, Live
  <2>3. \A k \in Nodes : LayerOf[k] < layer => task[k] \notin Live
    BY <2>2 DEF RunInv, Behind, Frontier, AfterFanout, Quiet, Returned, Live
  <2>4. \A e \in EdgeIds : Edges[e].dst = n =>
          edgeStates[e] # "EdgePending" /\ task[Edges[e].src] \notin Live
    BY <2>1, <2>2, <2>3, LayerBounds, EdgeType DEF RunInv, EdgesSettled, Open
  <2>5. \A m \in MapIds : Mappings[m].dst = n /\ Mappings[m].src # NoNode =>
          task[Mappings[m].src] \notin Live
    BY <2>1, <2>2, <2>3, LayerBounds, MappingType
  <2>6. QED
    BY <2>4, <2>5
<1>2. Init => LayerBarrier
  BY DEF Init, LayerBarrier, Live
<1>3. TypeInv /\ TypeInv' /\ SafetyInv' /\ LayerBarrier /\ [Next]_vars => LayerBarrier'
  <2> SUFFICES ASSUME TypeInv, TypeInv', SafetyInv', LayerBarrier, [Next]_vars, ~Active'
               PROVE  LayerBarrier'
    <3>1. TypeInv' /\ RunInv' => LayerBarrier'
      BY <1>1, PTL
    <3>2. QED
      BY <3>1 DEF SafetyInv
  <2>1. UNCHANGED <<task, edgeStates>>
    <3>1. CASE \E n \in Nodes : NodeStep(n)
      BY <3>1, NodeStepShape DEF Active
    <3>2. CASE Call
      BY <3>2 DEF Call, Start, Resume, ResumeRejected, Active, taskVars
    <3>3. CASE EngineStep
      BY <3>3 DEF EngineStep, BindInput, InputsBound, ApplyInputMapping, InputMapsApplied, startFrame,
         BeginLayer, Join, Reduce, nodeFrame, runFrame, Splice, spliceFrame, FireEdge, EdgesFired,
         FireMapping, LayerFired, Suspend, Finish, FireDeferred, DeferredFired, FireDeferredMapping,
         Reenter, fireFrame, taskVars, Active
    <3>4. CASE Cancel \/ Crash \/ UNCHANGED vars
      BY <3>4 DEF Cancel, Crash, vars, taskVars
    <3>5. QED
      BY <3>1, <3>2, <3>3, <3>4 DEF Next
  <2>2. QED
    BY <2>1 DEF LayerBarrier
<1>4. QED
  BY <1>2, <1>3, Safety, PTL DEF Spec

(***************************************************************************)
(* What a run keeps over suspensions, crashes and resumed legs: FlowEngine  *)
(* implements DurableRun.                                                  *)
(***************************************************************************)
ResumeStep ==
  \E hi \in HumanInputs, v \in Engines, opts \in StateOpts : Resume(hi, v, opts)

(* The steps that only move the engine goroutine along or end the leg.      *)
LEMMA TaskFrame ==
  ASSUME Next, ~ResumeStep, ~BeginLayer, \A n \in Nodes : ~NodeStep(n)
  PROVE  UNCHANGED <<task, emitted>>
<1>1. CASE Call \/ Cancel \/ Crash
  BY <1>1 DEF Call, ResumeStep, Start, ResumeRejected, Cancel, Crash, taskVars
<1>2. CASE EngineStep
  BY <1>2 DEF EngineStep, BindInput, InputsBound, ApplyInputMapping, InputMapsApplied, startFrame,
     Join, Reduce, Splice, spliceFrame, FireEdge, EdgesFired, FireMapping, LayerFired, Suspend,
     Finish, FireDeferred, DeferredFired, FireDeferredMapping, Reenter, fireFrame, taskVars
<1>3. QED
  BY <1>1, <1>2 DEF Next

(* A leg that is running goes on, ends in one of the four ways, or has not  *)
(* begun; and only Start and Resume begin one.                             *)
LEMMA LegSteps ==
  ASSUME TypeInv, Next, ~ResumeStep
  PROVE  \/ pc' = pc
         \/ pc = "idle" /\ pc' \in Phases \ {"idle"}
         \/ pc \in Phases \ {"idle"} /\ pc' \in Phases \ {"idle"}
         \/ pc \in Phases \ {"idle"} /\ pc' \in {"failed", "crashed"}
         \/ Suspend /\ pc' = "suspended"
         \/ Finish /\ pc' = "done"
<1>1. CASE \E n \in Nodes : NodeStep(n)
  BY <1>1, NodeStepShape
<1>2. CASE Call \/ Cancel
  BY <1>2 DEF Call, ResumeStep, Start, ResumeRejected, Cancel, Phases
<1>3. CASE Crash
  BY <1>3 DEF Crash, Phases, TypeInv, TypeOK, Ended
<1>4. CASE EngineStep
  BY <1>4 DEF EngineStep, BindInput, InputsBound, ApplyInputMapping, ApplyMapping, InputMapsApplied,
     BeginLayer, Join, Reduce, Splice, FireEdge, EdgesFired, FireMapping, LayerFired, Suspend,
     Finish, FireDeferred, DeferredFired, FireDeferredMapping, Reenter, Fail, Phases
<1>5. QED
  BY <1>1, <1>2, <1>3, <1>4 DEF Next

(***************************************************************************)
(* The entry nodes are activated by Start and never forgotten.             *)
(***************************************************************************)
EntryInv ==
  /\ pc # "idle" => EntryNodes \subseteq activated
  /\ stored # NoCheckpoint => EntryNodes \subseteq stored.activated

LEMMA EntryStep == TypeInv /\ EntryInv /\ [Next]_vars => EntryInv'
<1> SUFFICES ASSUME TypeInv, EntryInv, [Next]_vars PROVE EntryInv'
  OBVIOUS
<1>1. CASE ResumeStep
  BY <1>1 DEF ResumeStep, Resume, CanResume, EntryInv
<1>2. CASE Next /\ ~ResumeStep
  <2>1. pc # "idle" => activated \subseteq activated'
    <3>1. CASE \E n \in Nodes : NodeStep(n)
      BY <3>1, NodeStepShape
    <3>2. CASE Call \/ Cancel \/ Crash
      BY <1>2, <3>2 DEF Call, ResumeStep, Start, ResumeRejected, Cancel, Crash
    <3>3. CASE EngineStep
      BY <3>3 DEF EngineStep, BindInput, InputsBound, ApplyInputMapping, ApplyMapping, InputMapsApplied,
         startFrame, BeginLayer, Join, Reduce, nodeFrame, runFrame, Splice, spliceFrame, FireEdge,
         EdgesFired, FireMapping, LayerFired, Suspend, Finish, FireDeferred, DeferredFired,
         FireDeferredMapping, Reenter, fireFrame, Activate, SettleEdge
    <3>4. QED
      BY <1>2, <3>1, <3>2, <3>3 DEF Next
  <2>2. pc = "idle" /\ pc' # "idle" => EntryNodes \subseteq activated'
    <3>1. CASE Call
      BY <1>2, <3>1 DEF Call, ResumeStep, Start, ResumeRejected, Ended
    <3>2. CASE EngineStep \/ Cancel \/ Crash
      BY <3>2 DEF Cancel, Crash, EngineStep, BindInput, InputsBound, ApplyInputMapping,
         InputMapsApplied, BeginLayer, Join, Reduce, Splice, FireEdge, EdgesFired, FireMapping,
         LayerFired, Suspend, Finish, FireDeferred, DeferredFired, FireDeferredMapping, Reenter
    <3>3. CASE \E n \in Nodes : NodeStep(n)
      BY <3>3, NodeStepShape
    <3>4. QED
      BY <1>2, <3>1, <3>2, <3>3 DEF Next
  <2>3. stored' # NoCheckpoint => EntryNodes \subseteq stored'.activated
    <3>1. CASE Suspend
      BY <3>1 DEF Suspend, Snapshot, EntryInv
    <3>2. CASE ~Suspend
      BY <1>2, <3>2, StoreStep DEF EntryInv
    <3>3. QED
      BY <3>1, <3>2
  <2>4. pc' = "idle" => pc = "idle"
    BY <1>2, LegSteps DEF Phases
  <2>5. QED
    BY <2>1, <2>2, <2>3, <2>4 DEF EntryInv
<1>3. CASE UNCHANGED vars
  BY <1>3 DEF vars, EntryInv
<1>4. QED
  BY <1>1, <1>2, <1>3

(***************************************************************************)
(* The refinement, step by step.                                           *)
(***************************************************************************)
status == IF pc \in Phases \ {"idle"} THEN "running" ELSE pc
saved == IF stored = NoCheckpoint THEN NoCheckpoint ELSE ReturnedIn(stored.task)

DurableStep == Durable!Next \/ UNCHANGED <<status, ReturnedIn(task), saved>>

(* A node's Run that returns is Execute: the node has not been executed     *)
(* yet, and none of those it feeds.                                        *)
LEMMA NodeExecutes ==
  ASSUME TypeInv, RunInv, NEW n \in Nodes, NodeStep(n) PROVE DurableStep
<1>1. /\ pc = "fanout" /\ task[n] \in Live /\ pc' = pc /\ stored' = stored
      /\ \A k \in Nodes : k # n => task'[k] = task[k]
  BY NodeStepShape DEF TypeInv, TypeOK
<1>2. status = "running" /\ status' = "running" /\ saved' = saved
  BY <1>1 DEF status, saved, Phases
<1>3. n \notin ReturnedIn(task)
  BY <1>1 DEF ReturnedIn, Returned, Live
<1>4. CASE task'[n] \in Returned
  <2>1. ReturnedIn(task)' = ReturnedIn(task) \cup {n}
    BY <1>1, <1>4 DEF ReturnedIn
  <2>2. \A m \in ReturnedIn(task) : <<n, m>> \notin WireFeeds
    <3> SUFFICES ASSUME NEW m \in Nodes, task[m] \in Returned, <<n, m>> \in WireFeeds PROVE FALSE
      BY DEF ReturnedIn
    <3>1. LayerOf[n] < LayerOf[m]
      BY LayerBounds, NoNodeAssumption DEF WireFeeds, InputMaps
    <3>2. LayerOf[n] = layer /\ layer \in Nat
      BY <1>1, LiveIsHere, LayerBounds
    <3>3. LayerOf[m] > layer
      BY <3>1, <3>2
    <3>4. task[m] = "none"
      BY <1>1, <3>2, <3>3, LayerBounds DEF RunInv, Ahead, Frontier, AfterFanout
    <3>5. QED
      BY <3>4 DEF Returned
  <2>3. Durable!Execute(n)
    BY <1>2, <1>3, <2>1, <2>2 DEF Durable!Execute, status, saved
  <2>4. QED
    BY <2>3 DEF DurableStep, Durable!Next
<1>5. CASE task'[n] \notin Returned
  <2>1. ReturnedIn(task)' = ReturnedIn(task)
    BY <1>1, <1>3, <1>5 DEF ReturnedIn
  <2>2. QED
    BY <1>2, <2>1 DEF DurableStep
<1>6. QED
  BY <1>4, <1>5

(* A Resume, accepted, goes on from the nodes executed at the suspension.   *)
LEMMA ResumeResumes == ASSUME TypeInv, ResumeStep PROVE DurableStep
<1>1. /\ pc \in Ended /\ pc' = "redges" /\ stored # NoCheckpoint /\ stored' = stored
      /\ task' = stored.task
  BY DEF ResumeStep, Resume, CanResume
<1>2. status = pc /\ status' = "running" /\ saved = ReturnedIn(stored.task) /\ saved' = saved
  BY <1>1 DEF status, saved, Phases, Ended
<1>3. saved # NoCheckpoint
  <2>1. saved \in SUBSET Nodes
    BY <1>2 DEF ReturnedIn
  <2>2. QED
    BY <2>1, NoCheckpointAssumption
<1>4. ReturnedIn(task)' = saved
  BY <1>1, <1>2 DEF ReturnedIn
<1>5. Durable!Resume
  BY <1>1, <1>2, <1>3, <1>4 DEF Durable!Resume, Durable!EndedStatus, Ended, status, saved
<1>6. QED
  BY <1>5 DEF DurableStep, Durable!Next

(* A suspension saves what has been executed, which includes the node that  *)
(* asked for it.                                                           *)
LEMMA SuspendSuspends ==
  ASSUME TypeInv, RunInv, Suspend, pc' = "suspended" PROVE DurableStep
<1>1. pc = "suspend" /\ stored' = Snapshot /\ task' = task /\ Snapshot.task = task
  BY DEF Suspend, Fail, Snapshot, taskVars
<1>2. Snapshot # NoCheckpoint
  BY <1>1, SnapshotType, NoCheckpointAssumption
<1>3. status = "running" /\ status' = "suspended" /\ saved' = ReturnedIn(task)
  BY <1>1, <1>2 DEF status, saved, Phases, ReturnedIn
<1>4. ReturnedIn(task) # {} /\ ReturnedIn(task)' = ReturnedIn(task)
  <2>1. deferNode \in Nodes /\ deferNode # NoNode
    BY <1>1, NoNodeAssumption DEF TypeInv, Ctl
  <2>2. task[deferNode] = "interrupt"
    BY <2>1 DEF RunInv, Deferring
  <2>3. QED
    BY <1>1, <2>1, <2>2 DEF ReturnedIn, Returned
<1>5. Durable!Suspend
  BY <1>3, <1>4 DEF Durable!Suspend, status, saved
<1>6. QED
  BY <1>5 DEF DurableStep, Durable!Next

(* A completed run has executed every entry node.                          *)
LEMMA FinishCompletes ==
  ASSUME Spontaneous = {}, TypeInv, RunInv, EntryInv, Finish, pc' = "done" PROVE DurableStep
<1>1. pc = "layer" /\ ~MoreLayers /\ UNCHANGED <<task, stored>>
  BY DEF Finish, taskVars
<1>2. layer > NumLayers /\ Frontier = layer
  BY <1>1, LayerBounds DEF MoreLayers, Frontier, AfterFanout, TypeInv, TypeOK
<1>3. \A n \in Nodes : n \in activated => task[n] \in Returned
  BY <1>2, LayerBounds DEF RunInv, Behind, Quiet, TypeInv, TypeOK
<1>4. EntryNodes \subseteq ReturnedIn(task)
  BY <1>1, <1>3 DEF EntryInv, EntryNodes, ReturnedIn
<1>5. status = "running" /\ status' = "done" /\ saved' = saved /\ ReturnedIn(task)' = ReturnedIn(task)
  BY <1>1 DEF status, saved, Phases, ReturnedIn
<1>6. Durable!Complete
  BY <1>4, <1>5 DEF Durable!Complete, status, saved
<1>7. QED
  BY <1>6 DEF DurableStep, Durable!Next

(* Every other step begins the run, aborts it, or is not seen.             *)
LEMMA OtherSteps ==
  ASSUME TypeInv, SafetyInv, Next, ~ResumeStep, \A n \in Nodes : ~NodeStep(n),
         ~(Suspend /\ pc' = "suspended"), ~(Finish /\ pc' = "done")
  PROVE  DurableStep
<1>1. ReturnedIn(task)' = ReturnedIn(task)
  <2>1. CASE ~BeginLayer
    BY <2>1, TaskFrame DEF ReturnedIn
  <2>2. CASE BeginLayer
    <3>1. pc = "layer" /\ RunInv /\ layer \in Nat
      BY <2>2, LayerBounds DEF BeginLayer, SafetyInv, Active, TypeInv, TypeOK
    <3>2. \A n \in Nodes : LayerOf[n] = layer => task[n] = "none"
      BY <3>1 DEF RunInv, Ahead, Frontier, AfterFanout
    <3>3. \A n \in Nodes : task'[n] = task[n] \/ (LayerOf[n] = layer /\ task'[n] = "queued")
      BY <2>2 DEF BeginLayer, LayerNodes
    <3>4. QED
      BY <3>2, <3>3 DEF ReturnedIn, Returned
  <2>3. QED
    BY <2>1, <2>2
<1>2. saved' = saved
  <2>1. CASE ~Suspend
    BY <2>1, StoreStep DEF saved, ReturnedIn
  <2>2. CASE Suspend
    BY <2>2 DEF Suspend, Fail, saved, ReturnedIn
  <2>3. QED
    BY <2>1, <2>2
<1>3. CASE status' = status
  BY <1>1, <1>2, <1>3 DEF DurableStep
<1>4. CASE pc = "idle" /\ pc' \in Phases \ {"idle"}
  <2>1. Durable!Begin
    BY <1>1, <1>2, <1>4 DEF Durable!Begin, status, saved
  <2>2. QED
    BY <2>1 DEF DurableStep, Durable!Next
<1>5. CASE pc \in Phases \ {"idle"} /\ pc' \in {"failed", "crashed"}
  <2>1. status = "running" /\ status' \in {"failed", "crashed"}
    BY <1>5 DEF status, Phases
  <2>2. Durable!Abort
    BY <1>1, <1>2, <2>1 DEF Durable!Abort, status, saved
  <2>3. QED
    BY <2>2 DEF DurableStep, Durable!Next
<1>6. QED
  BY <1>3, <1>4, <1>5, LegSteps DEF status

(* However nodes interleave, fail, interrupt or die with the process, a run *)
(* and the legs that resume it are one durable run: no node is executed     *)
(* twice or after a node it feeds, and every Resume goes on from what the   *)
(* last suspension saved (Engine.Resume, v2/flow/resume.go).               *)
THEOREM RunIsDurable == ASSUME Spontaneous = {} PROVE Spec => ImplementsDurableRun
<1>1. Init => Durable!Init
  BY DEF Init, Durable!Init, ReturnedIn, Returned, Phases
<1>2. Init => EntryInv
  BY DEF Init, EntryInv
<1>3. TypeInv /\ SafetyInv /\ EntryInv /\ [Next]_vars => [Durable!Next]_(Durable!vars)
  <2> SUFFICES ASSUME TypeInv, SafetyInv, EntryInv, [Next]_vars PROVE DurableStep
    BY DEF DurableStep, Durable!vars, status, saved
  <2>1. CASE UNCHANGED vars
    BY <2>1 DEF vars, taskVars, DurableStep, status, saved, ReturnedIn
  <2>2. CASE ResumeStep
    BY <2>2, ResumeResumes
  <2>3. CASE \E n \in Nodes : NodeStep(n)
    <3>1. RunInv
      BY <2>3, NodeStepShape DEF SafetyInv, Active
    <3>2. QED
      BY <2>3, <3>1, NodeExecutes
  <2>4. CASE Suspend /\ pc' = "suspended"
    <3>1. RunInv
      BY <2>4 DEF Suspend, SafetyInv, Active
    <3>2. QED
      BY <2>4, <3>1, SuspendSuspends
  <2>5. CASE Finish /\ pc' = "done"
    <3>1. RunInv
      BY <2>5 DEF Finish, SafetyInv, Active
    <3>2. QED
      BY <2>5, <3>1, FinishCompletes
  <2>6. QED
    BY <2>1, <2>2, <2>3, <2>4, <2>5, OtherSteps
<1>4. QED
  BY <1>1, <1>2, <1>3, Safety, EntryStep, PTL DEF Spec, ImplementsDurableRun, Durable!Spec
=============================================================================
