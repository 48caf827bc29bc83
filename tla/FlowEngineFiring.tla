-------------------------- MODULE FlowEngineFiring --------------------------
(***************************************************************************)
(* What the firing loops leave behind, over any number of legs: which edges *)
(* fired, which nodes were activated, what a port holds when its node runs, *)
(* and what the graph State is the fold of.                                *)
(***************************************************************************)
EXTENDS FlowEngineProofs

(***************************************************************************)
(* What the firing loops have done, as predicates on the activated nodes    *)
(* act, the port values pv and the edge states es of a run or of a          *)
(* checkpoint.                                                             *)
(***************************************************************************)
VerdictIn(act, pv, e) ==
  LET ed == Edges[e]
      v == pv[ed.src][ed.sport]
  IN IF ed.src \notin act THEN "EdgeDeadSrcSkip"
     ELSE IF v = NoValue THEN "EdgeDeadNoPort"
     ELSE IF Conds[Compiled][e][v] = "true" THEN "EdgeFired"
     ELSE IF Conds[Compiled][e][v] = "false" THEN "EdgeDeadFalse"
     ELSE "error"

Stand(act, pv, es) ==
  \A e \in EdgeIds :
    es[e] \notin {"EdgePending", "EdgeDeferred"} => es[e] = VerdictIn(act, pv, e)

SourceIn(act, pv, m) ==
  Mappings[m].src \in act /\ pv[Mappings[m].src][Mappings[m].sport] # NoValue
CauseIn(act, pv, es, n) ==
  \/ n \in EntryNodes
  \/ \E i \in InputIds : Inputs[i].node = n
  \/ \E m \in InputMaps : Mappings[m].dst = n
  \/ \E e \in EdgeIds : Edges[e].dst = n /\ es[e] = "EdgeFired"
  \/ \E m \in MapIds \ InputMaps : Mappings[m].dst = n /\ SourceIn(act, pv, m)
Caused(act, pv, es) == \A n \in act : CauseIn(act, pv, es, n)

EdgesReached(act, es) == \A e \in EdgeIds : es[e] = "EdgeFired" => Edges[e].dst \in act

(* A mapping whose turn in the loops has come and gone.                    *)
MapVisited(m) ==
  LET src == Mappings[m].src IN
  \/ /\ LayerOf[src] < layer
     /\ ~(pc = "redges" /\ src = deferNode) /\ ~(pc = "rmaps" /\ m \in todo)
  \/ /\ LayerOf[src] = layer /\ src # deferNode
     /\ pc = "suspend" \/ (pc = "maps" /\ m \notin todo)

InputsReached ==
  /\ pc # "idle" => \A i \in InputIds :
       (pc = "inputs" /\ i \in todo) \/ Inputs[i].node \in activated
  /\ pc \notin {"idle", "inputs"} => \A m \in InputMaps :
       (pc = "imaps" /\ m \in todo) \/ Mappings[m].dst \in activated
MapsReached ==
  \A m \in MapIds \ InputMaps :
    MapVisited(m) /\ SourceIn(activated, portValues, m) => Mappings[m].dst \in activated

(* A port that no wire leads into holds only what its node produced.       *)
WireInto(n, p) ==
  \/ \E e \in EdgeIds : Edges[e].dst = n /\ Edges[e].dport = p
  \/ \E m \in MapIds : Mappings[m].dst = n /\ Mappings[m].dport = p
  \/ \E i \in InputIds : Inputs[i].node = n /\ Inputs[i].port = p
Supplied(pv, em) ==
  \A n \in Nodes, p \in Ports : ~WireInto(n, p) /\ pv[n][p] # NoValue => p \in em[n]
Unemitted ==
  /\ \A n \in Nodes : task[n] \notin Returned \/ n \in pending => emitted[n] = {}
  /\ deferNode # NoNode /\ pc \in {"edges", "maps", "suspend"} => emitted[deferNode] = {}

(* The edge that wrote port p of n last.                                   *)
Into(es, n, p) ==
  {e \in EdgeIds : es[e] = "EdgeFired" /\ Edges[e].dst = n /\ Edges[e].dport = p}
LastFired(on, pv, es, tk, n, p, f) ==
  /\ f \in Into(es, n, p) /\ pv[n][p] = pv[Edges[f].src][Edges[f].sport]
  /\ \A e \in Into(es, n, p) :
       \/ e = f \/ FiresBefore(on, e, f)
       \/ tk[Edges[f].src] = "interrupt" /\ LayerOf[Edges[e].src] = LayerOf[Edges[f].src]
EdgesOnly(n, p) == \A m \in MapIds : <<Mappings[m].dst, Mappings[m].dport>> # <<n, p>>
LastWins(on, pv, es, tk, waiting) ==
  \A n \in Nodes, p \in Ports :
    EdgesOnly(n, p) /\ tk[n] \in waiting /\ Into(es, n, p) # {} =>
      \E f \in EdgeIds : LastFired(on, pv, es, tk, n, p, f)
InOrder ==
  pc = "edges" => \A e \in EdgesFrom(layer) \ todo, f \in todo : FiresBefore(ranOn, e, f)
(* The layers to come run on the engine in hand.                           *)
RunsOn == \A l \in 1..NumLayers : l >= layer => ranOn[l] = engine

(* The graph State is the fold of whole layers before layer l.             *)
FoldBefore(log, tk, l) ==
  /\ \A i \in 1..Len(log) : \A m, n \in log[i] : LayerOf[m] = LayerOf[n]
  /\ \A i \in 1..Len(log) : \A n \in log[i] : tk[n] \in Returned /\ LayerOf[n] < l
  /\ \A i, j \in 1..Len(log) :
       \A m \in log[i], n \in log[j] : i < j => LayerOf[m] < LayerOf[n]
FoldFrontier == IF pc \in {"splice", "edges", "maps", "suspend"} THEN layer + 1 ELSE layer
FoldInv ==
  /\ FoldBefore(committed, task, FoldFrontier)
  /\ \A n \in staged : pc \in {"fanout", "reduce"} /\ LayerOf[n] = layer /\ task[n] # "none"
FoldStored ==
  stored # NoCheckpoint => FoldBefore(stored.state, stored.task, stored.suspendLayer + 1)

EdgeInv == Stand(activated, portValues, edgeStates)
CauseInv == Caused(activated, portValues, edgeStates)
ReachInv == EdgesReached(activated, edgeStates) /\ InputsReached /\ MapsReached
EmitInv == Supplied(portValues, emitted) /\ Unemitted
LastInv == LastWins(ranOn, portValues, edgeStates, task, {"none"} \cup Live) /\ InOrder /\ RunsOn

EdgeStored == stored # NoCheckpoint =>
  Stand(stored.activated, stored.portValues, stored.edgeStates)
CauseStored == stored # NoCheckpoint =>
  Caused(stored.activated, stored.portValues, stored.edgeStates)
ReachStored == stored # NoCheckpoint =>
  /\ EdgesReached(stored.activated, stored.edgeStates)
  /\ \A i \in InputIds : Inputs[i].node \in stored.activated
  /\ \A m \in InputMaps : Mappings[m].dst \in stored.activated
  /\ \A m \in MapIds \ InputMaps :
       LayerOf[Mappings[m].src] <= stored.suspendLayer /\ Mappings[m].src # stored.interruptNode
         /\ SourceIn(stored.activated, stored.portValues, m) => Mappings[m].dst \in stored.activated
EmitStored == stored # NoCheckpoint =>
  /\ Supplied(stored.portValues, stored.emitted) /\ stored.emitted[stored.interruptNode] = {}
  /\ \A n \in Nodes : stored.task[n] \notin Returned => stored.emitted[n] = {}
LastStored == stored # NoCheckpoint =>
  LastWins(stored.ranOn, stored.portValues, stored.edgeStates, stored.task, {"none"})

(***************************************************************************)
(* What a step of a leg may do to the run's maps.                          *)
(***************************************************************************)
(* Port p of n is written, and n activated.                                *)
Wrote(n, p) ==
  /\ portValues'[n][p] # NoValue
  /\ \A q \in Ports : q # p => portValues'[n][q] = portValues[n][q]
  /\ \A k \in Nodes : k # n => portValues'[k] = portValues[k]
  /\ activated' = activated \cup {n}

InputWrote(i) ==
  /\ pc = "inputs" /\ todo' = todo \ {i}
  /\ Wrote(Inputs[i].node, Inputs[i].port) /\ edgeStates' = edgeStates

MappingWrote(m) ==
  /\ Wrote(Mappings[m].dst, Mappings[m].dport) /\ edgeStates' = edgeStates
  /\ LayerOf[Mappings[m].dst] >= Frontier
  /\ \/ m \in InputMaps /\ pc = "imaps"
     \/ m \notin InputMaps /\ pc \in {"maps", "rmaps"} /\ SourceIn(activated, portValues, m)

EdgeMoved(e) ==
  LET ed == Edges[e] IN
  /\ LayerOf[ed.src] < Frontier /\ LayerOf[ed.dst] >= Frontier
  /\ edgeStates[e] \in {"EdgePending", "EdgeDeferred"}
  /\ \A f \in EdgeIds : f # e => edgeStates'[f] = edgeStates[f]
  /\ (pc = "edges" /\ FirstBySource(e, todo, Edges)) \/ (pc = "redges" /\ ed.src = deferNode)
  /\ \/ /\ edgeStates'[e] = "EdgeFired" /\ Verdict(e) = "EdgeFired"
        /\ Wrote(ed.dst, ed.dport) /\ portValues'[ed.dst][ed.dport] = portValues[ed.src][ed.sport]
     \/ /\ edgeStates'[e] # "EdgeFired" /\ edgeStates'[e] \in {"EdgeDeferred", Verdict(e)}
        /\ UNCHANGED <<activated, portValues>>

(***************************************************************************)
(* What the engine in hand has in common with the first one.               *)
(***************************************************************************)
LEMMA EngineKept == ASSUME Next, ~ResumeStep PROVE engine' = engine /\ ranOn' = ranOn
<1>1. CASE \E n \in Nodes : NodeStep(n)
  BY <1>1 DEF NodeStep, StartNode, GiveUpNode, SetState, NodeOk, NodeErr, NodeCanceled,
     NodeInterrupt, nodeFrame, runFrame
<1>2. CASE Call \/ Cancel \/ Crash
  BY <1>2 DEF Call, ResumeStep, Start, ResumeRejected, Cancel, Crash
<1>3. CASE EngineStep
  BY <1>3 DEF EngineStep, BindInput, InputsBound, ApplyInputMapping, InputMapsApplied,
     startFrame, BeginLayer, Join, Reduce, nodeFrame, runFrame, Splice, spliceFrame, FireEdge,
     EdgesFired, FireMapping, LayerFired, Suspend, Finish, FireDeferred, DeferredFired,
     FireDeferredMapping, Reenter, fireFrame
<1>4. QED
  BY <1>1, <1>2, <1>3 DEF Next

LEMMA LayerGrows ==
  ASSUME TypeInv, Next, ~ResumeStep PROVE layer \in Nat /\ layer' \in Nat /\ layer' >= layer
<1>1. layer \in Nat
  BY LayerBounds DEF TypeInv, TypeOK
<1>2. CASE LayerFired
  BY <1>1, <1>2 DEF LayerFired
<1>3. CASE ~LayerFired
  <2>1. layer' = layer
    <3>1. CASE \E n \in Nodes : NodeStep(n)
      BY <3>1, NodeStepShape
    <3>2. CASE Call \/ Cancel \/ Crash
      BY <3>2 DEF Call, ResumeStep, Start, ResumeRejected, Cancel, Crash
    <3>3. CASE EngineStep
      BY <1>3, <3>3 DEF EngineStep, BindInput, InputsBound, ApplyInputMapping, InputMapsApplied,
         startFrame, BeginLayer, Join, Reduce, nodeFrame, Splice, spliceFrame, FireEdge,
         EdgesFired, FireMapping, Suspend, Finish, FireDeferred, DeferredFired,
         FireDeferredMapping, Reenter, fireFrame
    <3>4. QED
      BY <3>1, <3>2, <3>3 DEF Next
  <2>2. QED
    BY <1>1, <2>1
<1>4. QED
  BY <1>2, <1>3

(* The conditions that the engine in hand compiled are those the run was    *)
(* started with, over any number of legs and edits: the one thing of an     *)
(* engine besides nodes and wires that settled edges depend on, and the     *)
(* hash guard of resumeWithCell pins it.                                    *)
CondsInv ==
  /\ Conds[engine] = Conds[Compiled]
  /\ stored # NoCheckpoint => Conds[stored.engine] = Conds[Compiled]

LEMMA ConditionsKept == TypeInv /\ CondsInv /\ [Next]_vars => CondsInv'
<1> SUFFICES ASSUME TypeInv, CondsInv, [Next]_vars PROVE CondsInv'
  OBVIOUS
<1>1. CASE Suspend
  <2>1. engine' = engine /\ stored' \in {stored, Snapshot} /\ Snapshot.engine = engine
    BY <1>1 DEF Suspend, Snapshot
  <2>2. QED
    BY <2>1 DEF CondsInv
<1>2. CASE ResumeStep
  <2>1. PICK v \in Engines : /\ engine' = v /\ stored' = stored
                             /\ SameFlow(stored, v) /\ stored # NoCheckpoint
    BY <1>2 DEF ResumeStep, Resume, CanResume
  <2>2. stored.engine \in Engines
    BY <2>1 DEF TypeInv, TypeOK, CheckpointRecord
  <2>3. Conds[v] = Conds[stored.engine]
    BY <2>1, <2>2, HashAssumption DEF SameFlow
  <2>4. QED
    BY <2>1, <2>3 DEF CondsInv
<1>3. CASE Next /\ ~Suspend /\ ~ResumeStep
  <2>1. engine' = engine
    BY <1>3, EngineKept
  <2>2. stored' = stored
    BY <1>3, StoreStep
  <2>3. QED
    BY <2>1, <2>2 DEF CondsInv
<1>4. CASE UNCHANGED vars
  BY <1>4 DEF vars, CondsInv
<1>5. QED
  BY <1>1, <1>2, <1>3, <1>4

LEMMA WriteShape ==
  ASSUME portValues \in PortMap, NEW n \in Nodes, NEW p \in Ports, NEW v, v # NoValue,
         SetPort(n, p, v), Activate(n)
  PROVE  Wrote(n, p) /\ portValues'[n][p] = v
BY DEF SetPort, Activate, Wrote, PortMap

LEMMA MappingWrites ==
  ASSUME TypeInv, NEW m \in MapIds, NEW raw, ApplyMapping(m, raw), pc' # "failed"
  PROVE  Wrote(Mappings[m].dst, Mappings[m].dport) /\ pc' = pc
<1>1. /\ Mapped(m, raw) # NoValue /\ pc' = pc
      /\ SetPort(Mappings[m].dst, Mappings[m].dport, Mapped(m, raw))
      /\ Activate(Mappings[m].dst)
  BY DEF ApplyMapping, Fail
<1>2. Mappings[m].dst \in Nodes /\ Mappings[m].dport \in Ports /\ portValues \in PortMap
  BY MappingType DEF TypeInv, TypeOK
<1> HIDE DEF Mapped
<1>3. QED
  BY <1>1, <1>2, WriteShape

LEMMA InputWrites ==
  ASSUME TypeInv, NEW i \in InputIds, BindInput(i), pc' # "failed"
  PROVE  InputWrote(i)
<1>1. /\ pc = "inputs" /\ todo' = todo \ {i} /\ edgeStates' = edgeStates
      /\ inputs[Inputs[i].name] # NoValue
      /\ SetPort(Inputs[i].node, Inputs[i].port, inputs[Inputs[i].name])
      /\ Activate(Inputs[i].node)
  BY DEF BindInput, Fail, startFrame
<1>2. Inputs[i].node \in Nodes /\ Inputs[i].port \in Ports /\ portValues \in PortMap
  BY InputType DEF TypeInv, TypeOK
<1>3. QED
  BY <1>1, <1>2, WriteShape DEF InputWrote

LEMMA InputMappingWrites ==
  ASSUME TypeInv, RunInv, NEW m \in MapIds, ApplyInputMapping(m), pc' # "failed"
  PROVE  MappingWrote(m)
<1>1. /\ pc = "imaps" /\ m \in todo /\ edgeStates' = edgeStates
      /\ ApplyMapping(m, inputs[Mappings[m].input])
  BY DEF ApplyInputMapping, First, Fail, startFrame
<1>2. Wrote(Mappings[m].dst, Mappings[m].dport)
  BY <1>1, MappingWrites
<1>3. m \in InputMaps
  BY <1>1 DEF TypeInv, Ctl
<1>4. LayerOf[Mappings[m].dst] >= Frontier
  BY <1>1, LayerBounds, MappingType DEF RunInv, Loops, Frontier, AfterFanout
<1>5. QED
  BY <1>1, <1>2, <1>3, <1>4 DEF MappingWrote

LEMMA NodeMappingWrites ==
  ASSUME TypeInv, RunInv, NEW m \in MapIds, FireMapping(m) \/ FireDeferredMapping(m), pc' # "failed"
  PROVE  \/ UNCHANGED <<activated, portValues, edgeStates>>
         \/ MappingWrote(m)
<1> DEFINE src == Mappings[m].src
<1>1. edgeStates' = edgeStates /\ m \in todo
  BY DEF FireMapping, FireDeferredMapping, FirstBySource, First
<1>2. CASE UNCHANGED <<activated, portValues>>
  BY <1>1, <1>2
<1>3. CASE FireMapping(m) /\ MapReady(m)
  <2>1. pc = "maps" /\ ApplyMapping(m, portValues[src][Mappings[m].sport])
    BY <1>3 DEF FireMapping
  <2>2. Wrote(Mappings[m].dst, Mappings[m].dport)
    BY <2>1, MappingWrites
  <2>3. m \in MapsFrom(layer)
    BY <1>1, <2>1 DEF RunInv, Loops
  <2>4. m \notin InputMaps /\ SourceIn(activated, portValues, m)
    BY <1>3, <2>3 DEF MapsFrom, InputMaps, MapReady, SourceIn
  <2>5. LayerOf[Mappings[m].dst] >= Frontier
    BY <2>1, <2>3, LayerBounds, MappingType DEF MapsFrom, Frontier, AfterFanout
  <2>6. QED
    BY <1>1, <2>1, <2>2, <2>4, <2>5 DEF MappingWrote
<1>4. CASE FireDeferredMapping(m) /\ portValues[src][Mappings[m].sport] # NoValue
  <2>1. pc = "rmaps" /\ ApplyMapping(m, portValues[src][Mappings[m].sport])
    BY <1>4 DEF FireDeferredMapping
  <2>2. Wrote(Mappings[m].dst, Mappings[m].dport)
    BY <2>1, MappingWrites
  <2>3. src = deferNode /\ deferNode \in Nodes /\ deferNode # NoNode
    BY <1>1, <2>1, NoNodeAssumption DEF TypeInv, Ctl
  <2>4. layer \in Nat /\ Frontier = layer
    BY <2>1, LayerBounds DEF Frontier, AfterFanout, TypeInv, TypeOK
  <2>5. LayerOf[src] = layer - 1 /\ task[src] = "interrupt"
    BY <2>3, <2>4 DEF RunInv, Deferring
  <2>6. src \in activated
    BY <2>3, <2>4, <2>5, LayerBounds DEF RunInv, Behind
  <2>7. m \notin InputMaps /\ SourceIn(activated, portValues, m)
    BY <1>4, <2>3, <2>6 DEF InputMaps, SourceIn
  <2>8. LayerOf[Mappings[m].dst] >= Frontier
    BY <2>3, <2>4, <2>5, LayerBounds, MappingType
  <2>9. QED
    BY <1>1, <2>1, <2>2, <2>7, <2>8 DEF MappingWrote
<1>5. QED
  BY <1>2, <1>3, <1>4 DEF FireMapping, FireDeferredMapping

(* Settling an edge is a move of that edge, with or without a write.        *)
LEMMA SettleMoves ==
  ASSUME TypeInv, NEW e \in EdgeIds, NEW s \in EdgeFireState, SettleEdge(e, s),
         s = "EdgeFired" => Verdict(e) = "EdgeFired", s \in {"EdgeDeferred", Verdict(e)}
  PROVE  /\ \A f \in EdgeIds : f # e => edgeStates'[f] = edgeStates[f]
         /\ edgeStates'[e] = s
         /\ \/ /\ s = "EdgeFired" /\ Wrote(Edges[e].dst, Edges[e].dport)
               /\ portValues'[Edges[e].dst][Edges[e].dport] = portValues[Edges[e].src][Edges[e].sport]
            \/ s # "EdgeFired" /\ UNCHANGED <<activated, portValues>>
<1>1. edgeStates' = [edgeStates EXCEPT ![e] = s]
  BY DEF SettleEdge
<1>2. (\A f \in EdgeIds : f # e => edgeStates'[f] = edgeStates[f]) /\ edgeStates'[e] = s
  BY <1>1 DEF TypeInv, TypeOK
<1>3. CASE s = "EdgeFired"
  <2>1. portValues[Edges[e].src][Edges[e].sport] # NoValue
    BY <1>3 DEF Verdict
  <2>2. /\ SetPort(Edges[e].dst, Edges[e].dport, portValues[Edges[e].src][Edges[e].sport])
        /\ Activate(Edges[e].dst)
    BY <1>3 DEF SettleEdge
  <2>3. portValues \in PortMap /\ Edges[e].dst \in Nodes /\ Edges[e].dport \in Ports
    BY EdgeType DEF TypeInv, TypeOK
  <2>4. QED
    BY <1>2, <1>3, <2>1, <2>2, <2>3, WriteShape
<1>4. CASE s # "EdgeFired"
  BY <1>2, <1>4 DEF SettleEdge
<1>5. QED
  BY <1>3, <1>4

LEMMA FireEdgeMoves ==
  ASSUME TypeInv, RunInv, NEW e \in EdgeIds, FireEdge(e), pc' # "failed"
  PROVE  EdgeMoved(e)
<1>1. pc = "edges" /\ FirstBySource(e, todo, Edges) /\ e \in todo
  BY DEF FireEdge, FirstBySource
<1>2. layer \in Nat /\ Frontier = layer + 1
  BY <1>1, LayerBounds DEF Frontier, AfterFanout, TypeInv, TypeOK
<1>3. LayerOf[Edges[e].src] = layer
  BY <1>1 DEF RunInv, Loops, EdgesFrom
<1>4. LayerOf[Edges[e].src] < Frontier /\ LayerOf[Edges[e].dst] >= Frontier
  BY <1>2, <1>3, LayerBounds, EdgeType
<1>5. edgeStates[e] = "EdgePending"
  BY <1>1, <1>3 DEF RunInv, EdgesSettled, Open
<1>6. PICK s \in EdgeFireState : /\ SettleEdge(e, s)
                                 /\ s = "EdgeFired" => Verdict(e) = "EdgeFired"
                                 /\ s \in {"EdgeDeferred", Verdict(e)}
  <2>1. CASE IsDeferred(e) /\ SettleEdge(e, "EdgeDeferred")
    BY <2>1 DEF EdgeFireState
  <2>2. CASE Verdict(e) # "error" /\ SettleEdge(e, Verdict(e))
    <3>1. Verdict(e) \in EdgeFireState
      BY <2>2 DEF Verdict, EdgeFireState
    <3>2. QED
      BY <2>2, <3>1
  <2>3. QED
    BY <2>1, <2>2 DEF FireEdge, Fail
<1>7. QED
  BY <1>1, <1>4, <1>5, <1>6, SettleMoves DEF EdgeMoved

LEMMA FireDeferredMoves ==
  ASSUME TypeInv, RunInv, NEW e \in EdgeIds, FireDeferred(e), pc' # "failed"
  PROVE  UNCHANGED <<activated, portValues, edgeStates>> \/ EdgeMoved(e)
<1>1. pc = "redges" /\ e \in todo
  BY DEF FireDeferred, First
<1>2. CASE UNCHANGED <<activated, portValues, edgeStates>>
  BY <1>2
<1>3. CASE Verdict(e) \in {"EdgeFired", "EdgeDeadFalse"} /\ SettleEdge(e, Verdict(e))
  <2>1. layer \in Nat /\ Frontier = layer
    BY <1>1, LayerBounds DEF Frontier, AfterFanout, TypeInv, TypeOK
  <2>2. edgeStates[e] = "EdgeDeferred"
    BY <1>1 DEF RunInv, Loops
  <2>3. portValues[Edges[e].src][Edges[e].sport] # NoValue
    BY <1>3 DEF Verdict
  <2>4. Edges[e].src = deferNode
    BY <2>2, <2>3 DEF RunInv, DeferredEdges
  <2>5. deferNode \in Nodes /\ LayerOf[deferNode] = layer - 1
    BY <1>1, <2>1, NoNodeAssumption DEF TypeInv, Ctl, RunInv, Deferring
  <2>6. LayerOf[Edges[e].src] < Frontier /\ LayerOf[Edges[e].dst] >= Frontier
    BY <2>1, <2>4, <2>5, LayerBounds, EdgeType
  <2>7. Verdict(e) \in EdgeFireState
    BY <1>3 DEF EdgeFireState
  <2>8. QED
    BY <1>1, <1>3, <2>2, <2>4, <2>6, <2>7, SettleMoves DEF EdgeMoved
<1>4. QED
  BY <1>2, <1>3 DEF FireDeferred, Fail

(* The steps that neither run a node nor resume.                           *)
LEMMA StepKinds ==
  ASSUME TypeInv, RunInv, Next, ~ResumeStep, Active', \A n \in Nodes : ~NodeStep(n)
  PROVE  \/ UNCHANGED <<activated, portValues, edgeStates>>
         \/ pc = "idle" /\ activated' = EntryNodes /\ UNCHANGED <<portValues, edgeStates>>
         \/ \E i \in InputIds : InputWrote(i)
         \/ \E m \in MapIds : MappingWrote(m)
         \/ \E e \in EdgeIds : EdgeMoved(e)
<1> pc' # "failed"
  BY DEF Active
<1>1. CASE Call \/ Cancel \/ Crash
  BY <1>1 DEF Call, ResumeStep, Start, ResumeRejected, Cancel, Crash
<1>2. CASE \E i \in InputIds : BindInput(i)
  BY <1>2, InputWrites
<1>3. CASE \E m \in MapIds : ApplyInputMapping(m) \/ FireMapping(m) \/ FireDeferredMapping(m)
  BY <1>3, InputMappingWrites, NodeMappingWrites
<1>4. CASE \E e \in EdgeIds : FireEdge(e) \/ FireDeferred(e)
  BY <1>4, FireEdgeMoves, FireDeferredMoves
<1>5. CASE \/ InputsBound \/ InputMapsApplied \/ BeginLayer \/ Join \/ Reduce \/ Splice
           \/ EdgesFired \/ LayerFired \/ Suspend \/ Finish \/ DeferredFired \/ Reenter
  BY <1>5 DEF InputsBound, InputMapsApplied, startFrame, BeginLayer, Join, Reduce, nodeFrame, runFrame,
     Splice, spliceFrame, EdgesFired, LayerFired, Suspend, Finish, DeferredFired, Reenter, fireFrame
<1>6. QED
  BY <1>1, <1>2, <1>3, <1>4, <1>5 DEF Next, EngineStep

(* What a node task may do: produce ports of its node, all at once.        *)
LEMMA NodeProduces ==
  ASSUME TypeInv, NEW n \in Nodes, NodeStep(n)
  PROVE  /\ \A k \in Nodes : k # n => emitted'[k] = emitted[k] /\ portValues'[k] = portValues[k]
         /\ \/ emitted' = emitted /\ portValues' = portValues
            \/ /\ task'[n] = "ok"
               /\ \A p \in Ports : \/ portValues'[n][p] = portValues[n][p]
                                   \/ p \in emitted'[n] /\ portValues'[n][p] # NoValue
<1>1. CASE \E out \in [OutPorts[engine][n] -> PortValue] : NodeOk(n, out)
  <2>1. PICK out \in [OutPorts[engine][n] -> PortValue] : NodeOk(n, out)
    BY <1>1
  <2>2. portValues \in PortMap /\ emitted \in [Nodes -> SUBSET Ports] /\ task \in [Nodes -> TaskState]
    BY DEF TypeInv, TypeOK
  <2>3. /\ task'[n] = "ok" /\ emitted'[n] = {p \in OutPorts[engine][n] : out[p] # NoValue}
        /\ \A k \in Nodes : k # n => emitted'[k] = emitted[k] /\ portValues'[k] = portValues[k]
    BY <2>1, <2>2 DEF NodeOk, PortMap
  <2>4. \A p \in Ports : portValues'[n][p] = IF p \in OutPorts[engine][n] /\ out[p] # NoValue
                                             THEN out[p] ELSE portValues[n][p]
    BY <2>1, <2>2 DEF NodeOk, PortMap
  <2>5. QED
    BY <2>3, <2>4
<1>2. CASE ~\E out \in [OutPorts[engine][n] -> PortValue] : NodeOk(n, out)
  BY <1>2 DEF NodeStep, StartNode, GiveUpNode, SetState, NodeErr, NodeCanceled, NodeInterrupt, taskVars
<1>3. QED
  BY <1>1, <1>2

(* Behind the frontier nothing moves until the run is resumed.             *)
LEMMA Unmoved ==
  ASSUME TypeInv, RunInv, Next, ~ResumeStep, Active', NEW n \in Nodes, LayerOf[n] < Frontier
  PROVE  /\ portValues'[n] = portValues[n] /\ (n \in activated' <=> n \in activated)
         /\ task'[n] = task[n] /\ emitted'[n] = emitted[n]
<1>1. layer \in Nat /\ LayerOf[n] \in Nat
  BY LayerBounds DEF TypeInv, TypeOK
<1>2. CASE \E k \in Nodes : NodeStep(k)
  <2>1. PICK k \in Nodes : NodeStep(k)
    BY <1>2
  <2>2. pc = "fanout" /\ task[k] \in Live /\ activated' = activated
    BY <2>1, NodeStepShape
  <2>3. LayerOf[k] = layer /\ Frontier = layer
    BY <2>2, LiveIsHere DEF Frontier, AfterFanout
  <2>4. n # k
    BY <1>1, <2>3
  <2>5. task'[n] = task[n]
    BY <2>1, <2>4, NodeStepShape DEF TypeInv, TypeOK
  <2>6. QED
    BY <2>1, <2>2, <2>4, <2>5, NodeProduces
<1>3. CASE \A k \in Nodes : ~NodeStep(k)
  <2>1. task'[n] = task[n] /\ emitted' = emitted
    <3>1. CASE BeginLayer
      <4>1. Frontier = layer /\ emitted' = emitted
        BY <3>1 DEF BeginLayer, Frontier, AfterFanout
      <4>2. n \notin LayerNodes(layer)
        BY <1>1, <4>1 DEF LayerNodes
      <4>3. QED
        BY <3>1, <4>1, <4>2 DEF BeginLayer
    <3>2. CASE ~BeginLayer
      BY <1>3, <3>2, TaskFrame
    <3>3. QED
      BY <3>1, <3>2
  <2>2. CASE UNCHANGED <<activated, portValues>>
    BY <2>1, <2>2
  <2>3. CASE pc \in {"idle", "inputs"}
    BY <2>3, LayerBounds DEF RunInv, Loops, Frontier, AfterFanout
  <2>4. CASE \E m \in MapIds : MappingWrote(m)
    <3>1. PICK m \in MapIds : MappingWrote(m)
      BY <2>4
    <3>2. n # Mappings[m].dst
      BY <3>1, LayerBounds, MappingType DEF MappingWrote, Frontier, TypeInv, TypeOK
    <3>3. QED
      BY <2>1, <3>1, <3>2 DEF MappingWrote, Wrote
  <2>5. CASE \E e \in EdgeIds : EdgeMoved(e)
    <3>1. PICK e \in EdgeIds : EdgeMoved(e)
      BY <2>5
    <3>2. n # Edges[e].dst
      BY <3>1, LayerBounds, EdgeType DEF EdgeMoved, Frontier, TypeInv, TypeOK
    <3>3. QED
      BY <2>1, <3>1, <3>2 DEF EdgeMoved, Wrote
  <2>6. QED
    BY <1>3, <2>2, <2>3, <2>4, <2>5, StepKinds DEF InputWrote
<1>4. QED
  BY <1>2, <1>3

(* A settled edge has its source behind the frontier.                      *)
LEMMA SettledBehind ==
  ASSUME TypeInv, RunInv, NEW e \in EdgeIds, edgeStates[e] # "EdgePending"
  PROVE  Edges[e].src \in Nodes /\ LayerOf[Edges[e].src] < Frontier
<1>1. layer \in Nat /\ Edges[e].src \in Nodes /\ LayerOf[Edges[e].src] \in Nat
  BY LayerBounds, EdgeType DEF TypeInv, TypeOK
<1>2. ~Open(e)
  BY DEF RunInv, EdgesSettled
<1>3. QED
  BY <1>1, <1>2 DEF Open, Frontier, AfterFanout

(* How the edges move in a step that does not resume.                      *)
LEMMA EdgeKinds ==
  ASSUME TypeInv, RunInv, Next, ~ResumeStep, Active', NEW f \in EdgeIds
  PROVE  \/ edgeStates'[f] = edgeStates[f]
         \/ EdgeMoved(f)
<1>1. CASE \E k \in Nodes : NodeStep(k)
  BY <1>1, NodeStepShape
<1>2. CASE \A k \in Nodes : ~NodeStep(k)
  BY <1>2, StepKinds DEF InputWrote, MappingWrote, EdgeMoved
<1>3. QED
  BY <1>1, <1>2

(***************************************************************************)
(* A settled edge keeps its verdict.                                       *)
(***************************************************************************)
LEMMA VerdictNow ==
  ASSUME CondsInv, NEW e \in EdgeIds PROVE Verdict(e) = VerdictIn(activated, portValues, e)
BY DEF CondsInv, Verdict, VerdictIn

LEMMA VerdictUnmoved ==
  ASSUME TypeInv, RunInv, Next, ~ResumeStep, Active', NEW e \in EdgeIds,
         LayerOf[Edges[e].src] < Frontier
  PROVE  VerdictIn(activated', portValues', e) = VerdictIn(activated, portValues, e)
<1>1. /\ portValues'[Edges[e].src] = portValues[Edges[e].src]
      /\ Edges[e].src \in activated' <=> Edges[e].src \in activated
  BY EdgeType, Unmoved
<1>2. QED
  BY <1>1 DEF VerdictIn

LEMMA EdgeStep ==
  ASSUME TypeInv, RunInv, CondsInv, EdgeInv, Next, ~ResumeStep, Active' PROVE EdgeInv'
<1> SUFFICES ASSUME NEW e \in EdgeIds, edgeStates'[e] \notin {"EdgePending", "EdgeDeferred"}
             PROVE  edgeStates'[e] = VerdictIn(activated', portValues', e)
  BY DEF EdgeInv, Stand
<1>1. CASE edgeStates'[e] = edgeStates[e]
  <2>1. LayerOf[Edges[e].src] < Frontier
    BY <1>1, SettledBehind
  <2>2. edgeStates[e] = VerdictIn(activated, portValues, e)
    BY <1>1 DEF EdgeInv, Stand
  <2>3. QED
    BY <1>1, <2>1, <2>2, VerdictUnmoved
<1>2. CASE EdgeMoved(e)
  BY <1>2, VerdictNow, VerdictUnmoved DEF EdgeMoved
<1>3. QED
  BY <1>1, <1>2, EdgeKinds

(* What Resume restores: everything, with the human input merged into the   *)
(* ports of the interrupt node.                                            *)
LEMMA ResumeShape ==
  ASSUME TypeInv, StoredInv, ResumeStep
  PROVE  LET h == stored.interruptNode IN
         /\ stored # NoCheckpoint /\ stored \in CheckpointRecord
         /\ h \in Nodes /\ stored.suspendLayer \in Nat
         /\ pc' = "redges" /\ layer' = stored.suspendLayer + 1
         /\ deferNode' = h /\ pending' = {}
         /\ edgeStates' = stored.edgeStates /\ activated' = stored.activated /\ task' = stored.task
         /\ \A n \in Nodes : n # h => /\ portValues'[n] = stored.portValues[n]
                                      /\ emitted'[n] = stored.emitted[n]
         /\ \A p \in Ports : \/ portValues'[h][p] = stored.portValues[h][p]
                             \/ p \in emitted'[h] /\ portValues'[h][p] # NoValue
<1> DEFINE h == stored.interruptNode
<1>1. stored \in CheckpointRecord /\ stored # NoCheckpoint
  BY DEF ResumeStep, Resume, CanResume, TypeInv, TypeOK
<1>2. /\ stored.portValues \in PortMap /\ h \in Nodes /\ stored.suspendLayer \in Nat
      /\ stored.emitted \in [Nodes -> SUBSET Ports]
  BY <1>1, LayerBounds DEF CheckpointRecord
<1>3. PICK hi \in HumanInputs :
        /\ portValues' = [stored.portValues EXCEPT ![h] = Merge(@, hi)]
        /\ emitted' = [stored.emitted EXCEPT ![h] = {p \in Ports : hi[p] # NoValue}]
  BY DEF ResumeStep, Resume
<1>4. \A n \in Nodes : n # h => /\ portValues'[n] = stored.portValues[n]
                                /\ emitted'[n] = stored.emitted[n]
  BY <1>2, <1>3 DEF PortMap
<1>5. /\ emitted'[h] = {p \in Ports : hi[p] # NoValue}
      /\ portValues'[h] = Merge(stored.portValues[h], hi)
  BY <1>2, <1>3 DEF PortMap
<1>6. \A p \in Ports : \/ portValues'[h][p] = stored.portValues[h][p]
                       \/ p \in emitted'[h] /\ portValues'[h][p] # NoValue
  BY <1>5 DEF Merge
<1>7. activated' = stored.activated
  BY <1>1 DEF ResumeStep, Resume, StoredInv
<1>8. /\ pc' = "redges" /\ layer' = stored.suspendLayer + 1
      /\ deferNode' = h /\ pending' = {}
      /\ edgeStates' = stored.edgeStates /\ task' = stored.task
  BY DEF ResumeStep, Resume, FirstLayer
<1>9. QED
  BY <1>1, <1>2, <1>4, <1>6, <1>7, <1>8

LEMMA EdgeResume ==
  ASSUME TypeInv, StoredInv, EdgeStored, ResumeStep PROVE EdgeInv'
<1> DEFINE h == stored.interruptNode
<1>1. /\ stored # NoCheckpoint /\ edgeStates' = stored.edgeStates
      /\ activated' = stored.activated /\ h \in Nodes
      /\ \A n \in Nodes : n # h => portValues'[n] = stored.portValues[n]
  BY ResumeShape
<1>2. SUFFICES ASSUME NEW e \in EdgeIds, stored.edgeStates[e] \notin {"EdgePending", "EdgeDeferred"}
               PROVE  stored.edgeStates[e] = VerdictIn(activated', portValues', e)
  BY <1>1 DEF EdgeInv, Stand
<1>3. Edges[e].src # h /\ Edges[e].src \in Nodes
  BY <1>1, <1>2, EdgeType DEF StoredInv
<1>4. VerdictIn(activated', portValues', e) = VerdictIn(stored.activated, stored.portValues, e)
  BY <1>1, <1>3 DEF VerdictIn
<1>5. QED
  BY <1>1, <1>2, <1>4 DEF EdgeStored, Stand

(***************************************************************************)
(* Causes.                                                                 *)
(***************************************************************************)
(* Causes are kept as long as no node is deactivated, no port emptied and   *)
(* no fired edge taken back.                                               *)
LEMMA CauseKept ==
  ASSUME NEW act1, NEW act2, NEW pv1, NEW pv2, NEW es1, NEW es2, NEW n \in Nodes,
         CauseIn(act1, pv1, es1, n), act1 \subseteq act2,
         \A k \in Nodes, p \in Ports : pv1[k][p] # NoValue => pv2[k][p] # NoValue,
         \A e \in EdgeIds : es1[e] = "EdgeFired" => es2[e] = "EdgeFired"
  PROVE  CauseIn(act2, pv2, es2, n)
<1>1. \A m \in MapIds \ InputMaps : SourceIn(act1, pv1, m) => SourceIn(act2, pv2, m)
  <2> SUFFICES ASSUME NEW m \in MapIds \ InputMaps, SourceIn(act1, pv1, m)
               PROVE  SourceIn(act2, pv2, m)
    OBVIOUS
  <2>1. Mappings[m].src \in Nodes /\ Mappings[m].sport \in Ports
    BY MappingType DEF InputMaps
  <2>2. QED
    BY <2>1 DEF SourceIn
<1>2. QED
  BY <1>1 DEF CauseIn

(* No port is emptied, no edge unfired, and after Start no node deactivated. *)
LEMMA Grows ==
  ASSUME TypeInv, RunInv, Next, ~ResumeStep, Active'
  PROVE  /\ pc # "idle" => activated \subseteq activated'
         /\ \A n \in Nodes, p \in Ports : portValues[n][p] # NoValue => portValues'[n][p] # NoValue
         /\ \A e \in EdgeIds : edgeStates[e] = "EdgeFired" => edgeStates'[e] = "EdgeFired"
<1>1. \A e \in EdgeIds : edgeStates[e] = "EdgeFired" => edgeStates'[e] = "EdgeFired"
  BY EdgeKinds DEF EdgeMoved
<1>2. CASE \E k \in Nodes : NodeStep(k)
  BY <1>1, <1>2, NodeStepShape, NodeProduces
<1>3. CASE \A k \in Nodes : ~NodeStep(k)
  <2>1. \/ UNCHANGED <<activated, portValues>>
        \/ pc = "idle" /\ UNCHANGED portValues
        \/ \E n \in Nodes, p \in Ports : Wrote(n, p)
    BY <1>3, StepKinds, InputType, MappingType, EdgeType DEF InputWrote, MappingWrote, EdgeMoved
  <2>2. QED
    BY <1>1, <2>1 DEF Wrote
<1>4. QED
  BY <1>2, <1>3

LEMMA CauseStep ==
  ASSUME TypeInv, RunInv, CauseInv, Next, ~ResumeStep, Active' PROVE CauseInv'
<1> activated \subseteq Nodes
  BY DEF TypeInv, TypeOK
<1>1. \A n \in activated : pc # "idle" => CauseIn(activated', portValues', edgeStates', n)
  BY Grows, CauseKept DEF CauseInv, Caused
<1>2. \A n \in activated' : n \in activated \/ CauseIn(activated', portValues', edgeStates', n)
  <2>1. CASE \E k \in Nodes : NodeStep(k)
    BY <2>1, NodeStepShape
  <2>2. CASE UNCHANGED <<activated, portValues, edgeStates>>
    BY <2>2
  <2>3. CASE pc = "idle" /\ activated' = EntryNodes
    BY <2>3 DEF CauseIn
  <2>4. CASE \E i \in InputIds : InputWrote(i)
    BY <2>4 DEF InputWrote, Wrote, CauseIn
  <2>5. CASE \E m \in MapIds : MappingWrote(m)
    <3>1. PICK m \in MapIds : MappingWrote(m)
      BY <2>5
    <3>2. activated' = activated \cup {Mappings[m].dst}
      BY <3>1 DEF MappingWrote, Wrote
    <3>3. CASE m \in InputMaps
      BY <3>2, <3>3 DEF CauseIn
    <3>4. CASE m \notin InputMaps
      <4>1. SourceIn(activated, portValues, m) /\ Mappings[m].src \in Nodes /\ Mappings[m].sport \in Ports
        BY <3>1, <3>4, MappingType DEF MappingWrote, InputMaps
      <4>2. SourceIn(activated', portValues', m)
        BY <3>2, <4>1, Grows DEF SourceIn
      <4>3. QED
        BY <3>2, <3>4, <4>2 DEF CauseIn
    <3>5. QED
      BY <3>3, <3>4
  <2>6. CASE \E e \in EdgeIds : EdgeMoved(e)
    BY <2>6 DEF EdgeMoved, Wrote, CauseIn
  <2>7. QED
    BY <2>1, <2>2, <2>3, <2>4, <2>5, <2>6, StepKinds
<1>3. pc = "idle" => \A n \in activated' : CauseIn(activated', portValues', edgeStates', n)
  <2> SUFFICES ASSUME pc = "idle", NEW n \in activated'
               PROVE  CauseIn(activated', portValues', edgeStates', n)
    OBVIOUS
  <2>1. \/ UNCHANGED <<activated, portValues, edgeStates>>
        \/ activated' = EntryNodes
    <3>1. \A k \in Nodes : ~NodeStep(k)
      BY NodeStepShape
    <3>2. QED
      BY <3>1, StepKinds DEF InputWrote, MappingWrote, EdgeMoved
  <2>2. QED
    BY <2>1 DEF CauseIn, CauseInv, Caused
<1>4. QED
  BY <1>1, <1>2, <1>3 DEF CauseInv, Caused

LEMMA CauseResume ==
  ASSUME TypeInv, StoredInv, CauseStored, ResumeStep PROVE CauseInv'
<1> DEFINE h == stored.interruptNode
<1>1. /\ stored # NoCheckpoint /\ edgeStates' = stored.edgeStates
      /\ activated' = stored.activated /\ stored.activated \subseteq Nodes
  BY ResumeShape DEF CheckpointRecord
<1>2. \A n \in Nodes, p \in Ports : stored.portValues[n][p] # NoValue => portValues'[n][p] # NoValue
  <2> SUFFICES ASSUME NEW n \in Nodes, NEW p \in Ports, stored.portValues[n][p] # NoValue
               PROVE  portValues'[n][p] # NoValue
    OBVIOUS
  <2>1. CASE n = h
    BY <2>1, ResumeShape
  <2>2. CASE n # h
    BY <2>2, ResumeShape
  <2>3. QED
    BY <2>1, <2>2
<1>3. \A n \in stored.activated : CauseIn(stored.activated, stored.portValues, stored.edgeStates, n)
  BY <1>1 DEF CauseStored, Caused
<1>4. \A n \in stored.activated : CauseIn(activated', portValues', edgeStates', n)
  BY <1>1, <1>2, <1>3, CauseKept
<1>5. QED
  BY <1>1, <1>4 DEF CauseInv, Caused

(***************************************************************************)
(* Whatever has a cause is activated once the loops have come by.          *)
(***************************************************************************)
LEMMA NoEdgeBeforeFirstLayer ==
  ASSUME TypeInv, RunInv, pc \in {"idle", "inputs", "imaps"}
  PROVE  \A e \in EdgeIds : edgeStates[e] = "EdgePending"
BY LayerBounds, EdgeType DEF RunInv, Loops, EdgesSettled, Open

LEMMA EdgesReachedStep ==
  ASSUME TypeInv, RunInv, EdgesReached(activated, edgeStates), Next, ~ResumeStep, Active'
  PROVE  EdgesReached(activated', edgeStates')
<1> SUFFICES ASSUME NEW e \in EdgeIds, edgeStates'[e] = "EdgeFired" PROVE Edges[e].dst \in activated'
  BY DEF EdgesReached
<1>1. CASE EdgeMoved(e)
  BY <1>1 DEF EdgeMoved, Wrote
<1>2. CASE edgeStates'[e] = edgeStates[e]
  <2>1. pc # "idle"
    BY <1>2, NoEdgeBeforeFirstLayer
  <2>2. QED
    BY <1>2, <2>1, Grows DEF EdgesReached
<1>3. QED
  BY <1>1, <1>2, EdgeKinds

(* How the phases before the first layer follow each other.                *)
LEMMA StartPhases ==
  ASSUME TypeInv, Next, ~ResumeStep, Active'
  PROVE  /\ pc = "idle" => pc' = "idle" \/ (pc' = "inputs" /\ todo' = InputIds)
         /\ pc = "inputs" => \/ pc' = "inputs" /\ todo' = todo
                             \/ \E i \in InputIds : BindInput(i) /\ pc' = "inputs"
                             \/ todo = {} /\ pc' = "imaps" /\ todo' = InputMaps
         /\ pc = "imaps" => \/ pc' = "imaps" /\ todo' = todo
                            \/ \E m \in MapIds : ApplyInputMapping(m) /\ pc' = "imaps"
                            \/ todo = {} /\ pc' = "layer"
         /\ pc \notin {"idle", "inputs", "imaps"} => pc' \notin {"idle", "inputs", "imaps"}
<1>1. CASE \E k \in Nodes : NodeStep(k)
  BY <1>1, NodeStepShape
<1>2. CASE Call \/ Cancel \/ Crash
  BY <1>2 DEF Call, ResumeStep, Start, ResumeRejected, Cancel, Crash, Active, Ended
<1>3. CASE StartStep
  BY <1>3 DEF StartStep, Start, BindInput, InputsBound, ApplyInputMapping, ApplyMapping,
     InputMapsApplied, Fail, Active
<1>4. CASE EngineStep /\ ~StartStep
  BY <1>4 DEF EngineStep, StartStep, BeginLayer, Join, Reduce, Splice, FireEdge, EdgesFired,
     FireMapping, ApplyMapping, LayerFired, Suspend, Finish, FireDeferred, DeferredFired,
     FireDeferredMapping, Reenter, Fail
<1>5. QED
  BY <1>1, <1>2, <1>3, <1>4 DEF Next

LEMMA InputsReachedStep ==
  ASSUME TypeInv, RunInv, InputsReached, Next, ~ResumeStep, Active' PROVE InputsReached'
<1>1. CASE pc = "idle"
  BY <1>1, StartPhases DEF InputsReached
<1>2. CASE pc = "inputs"
  <2>1. activated \subseteq activated'
    BY <1>2, Grows
  <2>2. CASE \E i \in InputIds : BindInput(i) /\ pc' = "inputs"
    <3>1. PICK i \in InputIds : InputWrote(i) /\ pc' = "inputs"
      BY <2>2, InputWrites
    <3>2. QED
      BY <1>2, <2>1, <3>1 DEF InputsReached, InputWrote, Wrote
  <2>3. CASE (pc' = "inputs" /\ todo' = todo) \/ (todo = {} /\ pc' = "imaps" /\ todo' = InputMaps)
    BY <1>2, <2>1, <2>3 DEF InputsReached
  <2>4. QED
    BY <1>2, <2>2, <2>3, StartPhases
<1>3. CASE pc = "imaps"
  <2>1. activated \subseteq activated'
    BY <1>3, Grows
  <2>2. CASE \E m \in MapIds : ApplyInputMapping(m) /\ pc' = "imaps"
    <3>1. PICK m \in MapIds : ApplyInputMapping(m) /\ pc' = "imaps"
      BY <2>2
    <3>2. MappingWrote(m) /\ todo' = todo \ {m}
      BY <3>1, InputMappingWrites DEF ApplyInputMapping
    <3>3. Mappings[m].dst \in activated'
      BY <3>2 DEF MappingWrote, Wrote
    <3>4. QED
      BY <1>3, <2>1, <3>1, <3>2, <3>3 DEF InputsReached
  <2>3. CASE (pc' = "imaps" /\ todo' = todo) \/ (todo = {} /\ pc' = "layer")
    BY <1>3, <2>1, <2>3 DEF InputsReached
  <2>4. QED
    BY <1>3, <2>2, <2>3, StartPhases
<1>4. CASE pc \notin {"idle", "inputs", "imaps"}
  BY <1>4, StartPhases, Grows DEF InputsReached
<1>5. QED
  BY <1>1, <1>2, <1>3, <1>4

(* A mapping's turn comes in the step that fires it.                       *)
LEMMA VisitedBefore ==
  ASSUME TypeInv, RunInv, Next, ~ResumeStep, Active', NEW m \in MapIds \ InputMaps, MapVisited(m)'
  PROVE  MapVisited(m) \/ FireMapping(m) \/ FireDeferredMapping(m)
<1> DEFINE src == Mappings[m].src
<1>1. src \in Nodes /\ src # NoNode /\ layer \in Nat /\ LayerOf[src] \in Nat /\ 1 <= LayerOf[src]
  BY MappingType, LayerBounds, NoNodeAssumption DEF InputMaps, TypeInv, TypeOK
<1>2. CASE \E k \in Nodes : NodeStep(k)
  BY <1>2, NodeStepShape DEF MapVisited
<1>3. CASE StartStep
  <2>1. layer' = 1 /\ pc' \in {"inputs", "imaps", "layer"}
    BY <1>3 DEF StartStep, Start, BindInput, InputsBound, ApplyInputMapping, ApplyMapping,
       InputMapsApplied, startFrame, Fail, Active, RunInv, Loops
  <2>2. QED
    BY <1>1, <2>1 DEF MapVisited
<1>4. CASE Call \/ Cancel \/ Crash
  <2>1. CASE StartStep
    BY <1>3, <2>1
  <2>2. CASE ~StartStep
    BY <1>4, <2>2 DEF Call, StartStep, StateOpts, ResumeStep, ResumeRejected, Cancel, Crash, Active, MapVisited
  <2>3. QED
    BY <2>1, <2>2
<1>5. CASE BeginLayer \/ Join \/ Reduce \/ Splice \/ Suspend \/ Finish \/ \E e \in EdgeIds : FireEdge(e)
  <2>1. /\ layer' = layer /\ pc \in {"layer", "fanout", "reduce", "splice", "edges", "suspend"}
        /\ pc' \in {"fanout", "reduce", "splice", "edges", "done"}
    BY <1>5 DEF BeginLayer, Join, Reduce, nodeFrame, runFrame, Splice, spliceFrame, Suspend, Finish,
       FireEdge, fireFrame, Fail, Active
  <2>2. QED
    BY <2>1 DEF MapVisited
<1>6. CASE EdgesFired
  <2>1. pc = "edges" /\ pc' = "maps" /\ layer' = layer /\ todo' = MapsFrom(layer)
    BY <1>6 DEF EdgesFired, fireFrame
  <2>2. LayerOf[src] = layer => m \in todo'
    BY <1>1, <2>1 DEF MapsFrom
  <2>3. QED
    BY <2>1, <2>2 DEF MapVisited
<1>7. CASE \E k \in MapIds : FireMapping(k)
  <2>1. PICK k \in MapIds : FireMapping(k)
    BY <1>7
  <2>2. pc = "maps" /\ pc' = "maps" /\ todo' = todo \ {k} /\ UNCHANGED <<layer, deferNode>>
    BY <2>1 DEF FireMapping, ApplyMapping, fireFrame, Fail, Active
  <2>3. QED
    BY <2>1, <2>2 DEF MapVisited
<1>8. CASE LayerFired
  <2>1. pc = "maps" /\ todo = {} /\ UNCHANGED deferNode
    BY <1>8 DEF LayerFired
  <2>2. \/ deferNode # NoNode /\ pc' = "suspend" /\ layer' = layer
        \/ deferNode = NoNode /\ pc' = "layer" /\ layer' = layer + 1
    BY <1>8 DEF LayerFired
  <2>3. QED
    BY <1>1, <2>1, <2>2 DEF MapVisited
<1>9. CASE (\E e \in EdgeIds : FireDeferred(e)) \/ DeferredFired \/ Reenter
  <2>1. CASE \E e \in EdgeIds : FireDeferred(e)
    <3>1. pc = "redges" /\ pc' = "redges" /\ UNCHANGED <<layer, deferNode>>
      BY <2>1 DEF FireDeferred, fireFrame, Fail, Active
    <3>2. QED
      BY <3>1 DEF MapVisited
  <2>2. CASE DeferredFired
    <3>1. /\ pc = "redges" /\ pc' = "rmaps" /\ UNCHANGED <<layer, deferNode>>
          /\ src = deferNode => m \in todo'
      BY <2>2 DEF DeferredFired, fireFrame
    <3>2. QED
      BY <3>1 DEF MapVisited
  <2>3. CASE Reenter
    <3>1. pc = "rmaps" /\ todo = {} /\ pc' = "layer" /\ UNCHANGED layer
      BY <2>3 DEF Reenter
    <3>2. QED
      BY <3>1 DEF MapVisited
  <2>4. QED
    BY <1>9, <2>1, <2>2, <2>3
<1>10. CASE \E k \in MapIds : FireDeferredMapping(k)
  <2>1. PICK k \in MapIds : FireDeferredMapping(k)
    BY <1>10
  <2>2. pc = "rmaps" /\ pc' = "rmaps" /\ todo' = todo \ {k} /\ UNCHANGED <<layer, deferNode>>
    BY <2>1 DEF FireDeferredMapping, ApplyMapping, fireFrame, Fail, Active
  <2>3. QED
    BY <2>1, <2>2 DEF MapVisited
<1>11. QED
  BY <1>2, <1>3, <1>4, <1>5, <1>6, <1>7, <1>8, <1>9, <1>10 DEF Next, EngineStep, StartStep

LEMMA MapsReachedStep ==
  ASSUME TypeInv, RunInv, MapsReached, Next, ~ResumeStep, Active' PROVE MapsReached'
<1> SUFFICES ASSUME NEW m \in MapIds \ InputMaps, MapVisited(m)', SourceIn(activated', portValues', m)
             PROVE  Mappings[m].dst \in activated'
  BY DEF MapsReached
<1> DEFINE src == Mappings[m].src
<1>1. src \in Nodes /\ src # NoNode /\ layer \in Nat /\ LayerOf[src] \in Nat
  BY MappingType, LayerBounds, NoNodeAssumption DEF InputMaps, TypeInv, TypeOK
<1>2. LayerOf[src] < Frontier => SourceIn(activated, portValues, m)
  BY <1>1, Unmoved DEF SourceIn
<1>3. CASE MapVisited(m)
  <2>1. LayerOf[src] < Frontier
    BY <1>1, <1>3 DEF MapVisited, Frontier, AfterFanout
  <2>2. Mappings[m].dst \in activated
    BY <1>2, <1>3, <2>1 DEF MapsReached
  <2>3. pc # "idle"
    BY <1>1, <1>3, LayerBounds DEF MapVisited, RunInv, Loops
  <2>4. QED
    BY <2>2, <2>3, Grows
<1>4. CASE FireMapping(m)
  <2>1. pc = "maps" /\ pc' = "maps" /\ m \in todo /\ UNCHANGED <<layer, deferNode>>
    BY <1>4 DEF FireMapping, FirstBySource, ApplyMapping, fireFrame, Fail, Active
  <2>2. LayerOf[src] = layer /\ Frontier = layer + 1
    BY <2>1 DEF RunInv, Loops, MapsFrom, Frontier, AfterFanout
  <2>3. src # deferNode
    BY <1>1, <2>1, <2>2 DEF MapVisited
  <2>4. MapReady(m)
    BY <1>1, <1>2, <2>2, <2>3 DEF MapReady, SourceIn
  <2>5. ApplyMapping(m, portValues[src][Mappings[m].sport]) /\ pc' # "failed"
    BY <1>4, <2>1, <2>4 DEF FireMapping
  <2>6. QED
    BY <2>5, MappingWrites DEF Wrote
<1>5. CASE FireDeferredMapping(m)
  <2>1. pc = "rmaps" /\ pc' = "rmaps" /\ m \in todo
    BY <1>5 DEF FireDeferredMapping, First, ApplyMapping, Fail, Active
  <2>2. src = deferNode
    BY <2>1 DEF TypeInv, Ctl
  <2>3. LayerOf[src] < Frontier
    BY <1>1, <2>1, <2>2 DEF RunInv, Deferring, Frontier, AfterFanout
  <2>4. ApplyMapping(m, portValues[src][Mappings[m].sport]) /\ pc' # "failed"
    BY <1>2, <1>5, <2>1, <2>3 DEF FireDeferredMapping, SourceIn
  <2>5. QED
    BY <2>4, MappingWrites DEF Wrote
<1>6. QED
  BY <1>3, <1>4, <1>5, VisitedBefore

LEMMA ReachStep ==
  ASSUME TypeInv, RunInv, ReachInv, Next, ~ResumeStep, Active' PROVE ReachInv'
BY EdgesReachedStep, InputsReachedStep, MapsReachedStep DEF ReachInv

LEMMA ReachResume ==
  ASSUME TypeInv, StoredInv, ReachStored, ResumeStep PROVE ReachInv'
<1> DEFINE h == stored.interruptNode
<1>1. /\ stored # NoCheckpoint /\ h \in Nodes /\ stored.suspendLayer \in Nat
      /\ pc' = "redges" /\ layer' = stored.suspendLayer + 1 /\ deferNode' = h
      /\ edgeStates' = stored.edgeStates /\ activated' = stored.activated
      /\ \A n \in Nodes : n # h => portValues'[n] = stored.portValues[n]
  BY ResumeShape
<1>2. EdgesReached(activated', edgeStates') /\ InputsReached'
  BY <1>1 DEF ReachStored, InputsReached
<1>3. MapsReached'
  <2> SUFFICES ASSUME NEW m \in MapIds \ InputMaps, MapVisited(m)', SourceIn(activated', portValues', m)
               PROVE  Mappings[m].dst \in activated'
    BY DEF MapsReached
  <2>1. Mappings[m].src \in Nodes /\ LayerOf[Mappings[m].src] \in Nat
    BY MappingType, LayerBounds DEF InputMaps
  <2>2. LayerOf[Mappings[m].src] <= stored.suspendLayer /\ Mappings[m].src # h
    BY <1>1, <2>1 DEF MapVisited
  <2>3. SourceIn(stored.activated, stored.portValues, m)
    BY <1>1, <2>1, <2>2 DEF SourceIn
  <2>4. QED
    BY <1>1, <2>2, <2>3 DEF ReachStored
<1>4. QED
  BY <1>2, <1>3 DEF ReachInv

(***************************************************************************)
(* What a node produced.                                                   *)
(***************************************************************************)
LEMMA DeferSteps ==
  ASSUME TypeInv, Next, ~ResumeStep, Active', \A n \in Nodes : ~NodeStep(n)
  PROVE  /\ pending' \subseteq pending
         /\ pc' \in {"edges", "maps", "suspend"} =>
              \/ Splice /\ pc' = "edges"
              \/ pc \in {"edges", "maps", "suspend"} /\ deferNode' = deferNode
<1>1. CASE Call \/ Cancel \/ Crash
  BY <1>1 DEF Call, ResumeStep, Start, ResumeRejected, Cancel, Crash
<1>2. CASE EngineStep
  BY <1>2 DEF EngineStep, BindInput, InputsBound, ApplyInputMapping, ApplyMapping, InputMapsApplied,
     startFrame, BeginLayer, Join, Reduce, nodeFrame, runFrame, Splice, FireEdge, EdgesFired,
     FireMapping, LayerFired, Suspend, Finish, FireDeferred, DeferredFired,
     FireDeferredMapping, Reenter, fireFrame, Fail
<1>3. QED
  BY <1>1, <1>2 DEF Next

(* A step that runs no node writes only ports that wires lead into.         *)
LEMMA WritesAreWired ==
  ASSUME TypeInv, RunInv, Next, ~ResumeStep, Active', \A n \in Nodes : ~NodeStep(n),
         NEW n \in Nodes, NEW p \in Ports, ~WireInto(n, p)
  PROVE  portValues'[n][p] = portValues[n][p]
<1>1. CASE \E i \in InputIds : InputWrote(i)
  BY <1>1, InputType DEF InputWrote, Wrote, WireInto
<1>2. CASE \E m \in MapIds : MappingWrote(m)
  BY <1>2, MappingType DEF MappingWrote, Wrote, WireInto
<1>3. CASE \E e \in EdgeIds : EdgeMoved(e)
  BY <1>3, EdgeType DEF EdgeMoved, Wrote, WireInto
<1>4. QED
  BY <1>1, <1>2, <1>3, StepKinds

(* A task that has not returned before a step other than its own has not    *)
(* returned after it, and conversely.                                      *)
LEMMA ReturnsAlone ==
  ASSUME TypeInv, RunInv, Next, ~ResumeStep, Active', \A n \in Nodes : ~NodeStep(n)
  PROVE  /\ emitted' = emitted
         /\ \A n \in Nodes : task'[n] = task[n] \/ (task[n] = "none" /\ task'[n] = "queued")
<1>1. CASE ~BeginLayer
  BY <1>1, TaskFrame
<1>2. CASE BeginLayer
  <2>1. pc = "layer" /\ emitted' = emitted /\ layer \in Nat
    BY <1>2, LayerBounds DEF BeginLayer, TypeInv, TypeOK
  <2>2. \A n \in Nodes : LayerOf[n] = layer => task[n] = "none"
    BY <2>1 DEF RunInv, Ahead, Frontier, AfterFanout
  <2>3. \A n \in Nodes : task'[n] = task[n] \/ (LayerOf[n] = layer /\ task'[n] = "queued")
    BY <1>2 DEF BeginLayer, LayerNodes
  <2>4. QED
    BY <2>1, <2>2, <2>3
<1>3. QED
  BY <1>1, <1>2

LEMMA EmitStep ==
  ASSUME TypeInv, RunInv, EmitInv, Next, ~ResumeStep, Active' PROVE EmitInv'
<1>1. CASE \E k \in Nodes : NodeStep(k)
  <2>1. PICK k \in Nodes : NodeStep(k)
    BY <1>1
  <2>2. /\ pc = "fanout" /\ task[k] \in Live /\ pc' = pc /\ deferNode' = deferNode
        /\ \A n \in Nodes : n # k => task'[n] = task[n]
        /\ pending' = pending \/ (pending' = pending \cup {k} /\ task'[k] = "interrupt")
    BY <2>1, NodeStepShape DEF TypeInv, TypeOK
  <2>3. /\ \A n \in Nodes : n # k => emitted'[n] = emitted[n] /\ portValues'[n] = portValues[n]
        /\ \/ emitted' = emitted /\ portValues' = portValues
           \/ /\ task'[k] = "ok"
              /\ \A p \in Ports : \/ portValues'[k][p] = portValues[k][p]
                                  \/ p \in emitted'[k] /\ portValues'[k][p] # NoValue
    BY <2>1, NodeProduces
  <2>4. emitted[k] = {} /\ k \notin pending
    BY <2>2 DEF EmitInv, Unemitted, Live, Returned, RunInv, Requests
  <2>5. Supplied(portValues', emitted')
    <3> SUFFICES ASSUME NEW n \in Nodes, NEW p \in Ports, ~WireInto(n, p), portValues'[n][p] # NoValue
                 PROVE  p \in emitted'[n]
      BY DEF Supplied
    <3>1. portValues[n][p] # NoValue => p \in emitted[n]
      BY DEF EmitInv, Supplied
    <3>2. CASE n = k
      BY <2>3, <2>4, <3>1, <3>2
    <3>3. CASE n # k
      BY <2>3, <3>1, <3>3
    <3>4. QED
      BY <3>2, <3>3
  <2>6. \A n \in Nodes : task'[n] \notin Returned \/ n \in pending' => emitted'[n] = {}
    <3> SUFFICES ASSUME NEW n \in Nodes, task'[n] \notin Returned \/ n \in pending'
                 PROVE  emitted'[n] = {}
      OBVIOUS
    <3>1. CASE n = k
      <4>1. task'[k] # "ok"
        BY <2>2, <2>4, <3>1 DEF Returned
      <4>2. QED
        BY <2>3, <2>4, <3>1, <4>1
    <3>2. CASE n # k
      BY <2>2, <2>3, <3>2 DEF EmitInv, Unemitted
    <3>3. QED
      BY <3>1, <3>2
  <2>7. QED
    BY <2>2, <2>5, <2>6 DEF EmitInv, Unemitted
<1>2. CASE \A k \in Nodes : ~NodeStep(k)
  <2>1. emitted' = emitted /\ \A n \in Nodes : task'[n] \notin Returned => task[n] \notin Returned
    BY <1>2, ReturnsAlone DEF Returned
  <2>2. Supplied(portValues', emitted')
    BY <1>2, <2>1, WritesAreWired DEF EmitInv, Supplied
  <2>3. \A n \in Nodes : task'[n] \notin Returned \/ n \in pending' => emitted'[n] = {}
    BY <1>2, <2>1, DeferSteps DEF EmitInv, Unemitted
  <2>4. deferNode' # NoNode /\ pc' \in {"edges", "maps", "suspend"} => emitted'[deferNode'] = {}
    <3> SUFFICES ASSUME deferNode' # NoNode, pc' \in {"edges", "maps", "suspend"}
                 PROVE  emitted[deferNode'] = {}
      BY <2>1
    <3>1. CASE Splice /\ pc' = "edges"
      <4>1. deferNode' \in pending
        BY <3>1 DEF Splice, Fail
      <4>2. pending \subseteq Nodes
        BY DEF TypeInv, TypeOK
      <4>3. QED
        BY <4>1, <4>2 DEF EmitInv, Unemitted
    <3>2. CASE pc \in {"edges", "maps", "suspend"} /\ deferNode' = deferNode
      BY <3>2 DEF EmitInv, Unemitted
    <3>3. QED
      BY <1>2, <3>1, <3>2, DeferSteps
  <2>5. QED
    BY <2>2, <2>3, <2>4 DEF EmitInv, Unemitted
<1>3. QED
  BY <1>1, <1>2

LEMMA EmitResume ==
  ASSUME TypeInv, StoredInv, EmitStored, ResumeStep PROVE EmitInv'
<1> DEFINE h == stored.interruptNode
<1>1. /\ stored # NoCheckpoint /\ h \in Nodes /\ pc' = "redges" /\ pending' = {} /\ task' = stored.task
      /\ \A n \in Nodes : n # h => /\ portValues'[n] = stored.portValues[n]
                                   /\ emitted'[n] = stored.emitted[n]
      /\ \A p \in Ports : \/ portValues'[h][p] = stored.portValues[h][p]
                          \/ p \in emitted'[h] /\ portValues'[h][p] # NoValue
  BY ResumeShape
<1>2. stored.emitted[h] = {} /\ stored.task[h] = "interrupt" /\ Supplied(stored.portValues, stored.emitted)
  BY <1>1 DEF EmitStored, StoredInv
<1>3. Supplied(portValues', emitted')
  <2> SUFFICES ASSUME NEW n \in Nodes, NEW p \in Ports, ~WireInto(n, p), portValues'[n][p] # NoValue
               PROVE  p \in emitted'[n]
    BY DEF Supplied
  <2>1. stored.portValues[n][p] # NoValue => p \in stored.emitted[n]
    BY <1>2 DEF Supplied
  <2>2. CASE n = h
    BY <1>1, <1>2, <2>1, <2>2
  <2>3. CASE n # h
    BY <1>1, <2>1, <2>3
  <2>4. QED
    BY <2>2, <2>3
<1>4. \A n \in Nodes : task'[n] \notin Returned \/ n \in pending' => emitted'[n] = {}
  <2> SUFFICES ASSUME NEW n \in Nodes, stored.task[n] \notin Returned PROVE emitted'[n] = {}
    BY <1>1
  <2>1. n # h
    BY <1>2 DEF Returned
  <2>2. QED
    BY <1>1, <2>1 DEF EmitStored
<1>5. QED
  BY <1>1, <1>3, <1>4 DEF EmitInv, Unemitted

(***************************************************************************)
(* The edge that fires last into a port leaves its value there.            *)
(***************************************************************************)
LEMMA EdgesPhase ==
  ASSUME TypeInv, Next, ~ResumeStep, pc' = "edges"
  PROVE  \/ Splice
         \/ \E e \in EdgeIds : FireEdge(e)
         \/ pc = "edges" /\ UNCHANGED <<todo, layer>>
<1>1. CASE \E k \in Nodes : NodeStep(k)
  BY <1>1, NodeStepShape
<1>2. CASE Call \/ Cancel \/ Crash
  BY <1>2 DEF Call, ResumeStep, Start, ResumeRejected, Cancel, Crash
<1>3. CASE EngineStep
  BY <1>3 DEF EngineStep, BindInput, InputsBound, ApplyInputMapping, ApplyMapping, InputMapsApplied,
     BeginLayer, Join, Reduce, EdgesFired, FireMapping, LayerFired, Suspend, Finish, FireDeferred,
     DeferredFired, FireDeferredMapping, Reenter, Fail
<1>4. QED
  BY <1>1, <1>2, <1>3 DEF Next

LEMMA InOrderStep ==
  ASSUME TypeInv, RunInv, InOrder, RunsOn, Next, ~ResumeStep PROVE InOrder'
<1> SUFFICES ASSUME pc' = "edges", NEW e \in EdgesFrom(layer') \ todo', NEW f \in todo'
             PROVE  FiresBefore(ranOn, e, f)
  BY EngineKept DEF InOrder
<1>1. CASE Splice
  <2>1. pc = "splice" /\ todo' = Unsettled(layer) /\ layer' = layer
    BY <1>1 DEF Splice, Fail, spliceFrame
  <2>2. e \in EdgeIds /\ LayerOf[Edges[e].src] = layer /\ layer \in Nat
    BY <2>1, LayerBounds DEF EdgesFrom, TypeInv, TypeOK
  <2>3. edgeStates[e] = "EdgePending"
    BY <2>1, <2>2 DEF RunInv, EdgesSettled, Open
  <2>4. QED
    BY <2>1, <2>3 DEF Unsettled
<1>2. CASE \E k \in EdgeIds : FireEdge(k)
  <2>1. PICK k \in EdgeIds : FireEdge(k)
    BY <1>2
  <2>2. pc = "edges" /\ todo' = todo \ {k} /\ layer' = layer /\ FirstBySource(k, todo, Edges)
    BY <2>1 DEF FireEdge, fireFrame
  <2>3. todo \subseteq EdgesFrom(layer)
    BY <2>2 DEF RunInv, Loops
  <2>4. CASE e = k
    <3>1. f \in todo /\ f # k /\ f \in Nat /\ k \in Nat /\ k \in todo
      BY <2>2, <2>3 DEF EdgesFrom, EdgeIds, FirstBySource
    <3>2. /\ LayerOf[Edges[k].src] = layer /\ LayerOf[Edges[f].src] = layer
          /\ Edges[k].src \in Nodes
      BY <2>3, <3>1, EdgeType DEF EdgesFrom
    <3>3. ranOn[layer] = engine
      BY <3>2, LayersAssumption, LayerBounds DEF RunsOn
    <3>4. \/ Pos[engine][Edges[k].src] < Pos[engine][Edges[f].src]
          \/ Edges[k].src = Edges[f].src /\ k < f
      BY <2>2, <3>1 DEF FirstBySource
    <3>5. QED
      BY <2>4, <3>2, <3>3, <3>4 DEF FiresBefore
  <2>5. CASE e # k
    BY <2>2, <2>5 DEF InOrder
  <2>6. QED
    BY <2>4, <2>5
<1>3. CASE pc = "edges" /\ UNCHANGED <<todo, layer>>
  BY <1>3 DEF InOrder
<1>4. QED
  BY <1>1, <1>2, <1>3, EdgesPhase

(* An edge that fires does so after all that have fired before it, in the   *)
(* order of an uninterrupted run or because it was deferred.               *)
LEMMA FiresLast ==
  ASSUME TypeInv, RunInv, InOrder, NEW e \in EdgeIds, EdgeMoved(e),
         NEW g \in EdgeIds, g # e, edgeStates[g] = "EdgeFired"
  PROVE  \/ FiresBefore(ranOn, g, e)
         \/ task[Edges[e].src] = "interrupt" /\ LayerOf[Edges[g].src] = LayerOf[Edges[e].src]
<1> DEFINE s == Edges[e].src
           r == Edges[g].src
<1>1. /\ r \in Nodes /\ s \in Nodes /\ layer \in Nat /\ LayerOf[r] \in Nat /\ LayerOf[s] \in Nat
      /\ LayerOf[r] < Frontier
  BY SettledBehind, EdgeType, LayerBounds DEF TypeInv, TypeOK
<1>2. LayerOf[r] < LayerOf[s] => FiresBefore(ranOn, g, e)
  BY <1>1 DEF FiresBefore
<1>3. CASE pc = "edges"
  <2>1. Frontier = layer + 1 /\ e \in todo /\ todo \subseteq EdgesFrom(layer)
    BY <1>3 DEF Frontier, AfterFanout, EdgeMoved, FirstBySource, RunInv, Loops
  <2>2. LayerOf[s] = layer
    BY <2>1 DEF EdgesFrom
  <2>3. LayerOf[r] = layer => FiresBefore(ranOn, g, e)
    <3> SUFFICES ASSUME LayerOf[r] = layer PROVE FiresBefore(ranOn, g, e)
      OBVIOUS
    <3>1. g \in EdgesFrom(layer) \ todo
      BY <1>3 DEF RunInv, EdgesSettled, Open, EdgesFrom
    <3>2. QED
      BY <1>3, <2>1, <3>1 DEF InOrder
  <2>4. QED
    BY <1>1, <1>2, <2>1, <2>2, <2>3
<1>4. CASE pc = "redges" /\ s = deferNode
  <2>1. Frontier = layer /\ deferNode # NoNode
    BY <1>1, <1>4, NoNodeAssumption DEF Frontier, AfterFanout
  <2>2. LayerOf[s] = layer - 1 /\ task[s] = "interrupt"
    BY <1>4, <2>1 DEF RunInv, Deferring
  <2>3. QED
    BY <1>1, <1>2, <2>1, <2>2
<1>5. QED
  BY <1>3, <1>4 DEF EdgeMoved

(* A port whose last writer is settled keeps its value until its node runs. *)
LEMMA LastKept ==
  ASSUME TypeInv, RunInv, Next, ~ResumeStep, Active', NEW n \in Nodes, NEW p \in Ports,
         NEW f, LastFired(ranOn, portValues, edgeStates, task, n, p, f),
         Into(edgeStates', n, p) = Into(edgeStates, n, p), portValues'[n][p] = portValues[n][p]
  PROVE  LastFired(ranOn', portValues', edgeStates', task', n, p, f)
<1>1. f \in EdgeIds /\ edgeStates[f] = "EdgeFired"
  BY DEF LastFired, Into
<1>2. Edges[f].src \in Nodes /\ LayerOf[Edges[f].src] < Frontier
  BY <1>1, SettledBehind
<1>3. portValues'[Edges[f].src] = portValues[Edges[f].src] /\ task'[Edges[f].src] = task[Edges[f].src]
  BY <1>2, Unmoved
<1>4. ranOn' = ranOn
  BY EngineKept
<1>5. QED
  BY <1>3, <1>4 DEF LastFired

LEMMA LastStep ==
  ASSUME TypeInv, RunInv, LastInv, Next, ~ResumeStep, Active' PROVE LastInv'
<1> DEFINE Waiting == {"none"} \cup Live
<1>1. InOrder'
  BY InOrderStep DEF LastInv
<1>2. LastWins(ranOn', portValues', edgeStates', task', Waiting)
  <2> SUFFICES ASSUME NEW n \in Nodes, NEW p \in Ports, EdgesOnly(n, p), task'[n] \in Waiting,
                      Into(edgeStates', n, p) # {}
               PROVE  \E f \in EdgeIds : LastFired(ranOn', portValues', edgeStates', task', n, p, f)
    BY DEF LastWins
  <2>1. task[n] \in Waiting
    <3>1. CASE \E k \in Nodes : NodeStep(k)
      BY <3>1, NodeStepShape DEF TypeInv, TypeOK
    <3>2. CASE \A k \in Nodes : ~NodeStep(k)
      BY <3>2, ReturnsAlone
    <3>3. QED
      BY <3>1, <3>2
  <2>2. CASE Into(edgeStates', n, p) = Into(edgeStates, n, p) /\ portValues'[n][p] = portValues[n][p]
    <3>1. PICK f \in EdgeIds : LastFired(ranOn, portValues, edgeStates, task, n, p, f)
      BY <2>1, <2>2 DEF LastInv, LastWins
    <3>2. QED
      BY <2>2, <3>1, LastKept
  <2>3. CASE \E k \in Nodes : NodeStep(k)
    <3>1. PICK k \in Nodes : NodeStep(k)
      BY <2>3
    <3>2. edgeStates' = edgeStates
      BY <3>1, NodeStepShape
    <3>3. portValues'[n] = portValues[n]
      BY <3>1, NodeProduces DEF Live
    <3>4. QED
      BY <2>2, <3>2, <3>3
  <2>4. CASE \E e \in EdgeIds : EdgeMoved(e)
    <3>1. PICK e \in EdgeIds : EdgeMoved(e)
      BY <2>4
    <3>2. \A g \in EdgeIds : g # e => edgeStates'[g] = edgeStates[g]
      BY <3>1 DEF EdgeMoved
    <3>3. edgeStates[e] # "EdgeFired"
      BY <3>1 DEF EdgeMoved
    <3>4. CASE edgeStates'[e] # "EdgeFired" \/ <<Edges[e].dst, Edges[e].dport>> # <<n, p>>
      <4>1. Into(edgeStates', n, p) = Into(edgeStates, n, p)
        BY <3>2, <3>3, <3>4 DEF Into
      <4>2. portValues'[n][p] = portValues[n][p]
        BY <3>1, <3>4, EdgeType DEF EdgeMoved, Wrote
      <4>3. QED
        BY <2>2, <4>1, <4>2
    <3>5. CASE edgeStates'[e] = "EdgeFired" /\ Edges[e].dst = n /\ Edges[e].dport = p
      <4>1. Edges[e].src \in Nodes /\ LayerOf[Edges[e].src] < Frontier
        BY <3>1, EdgeType DEF EdgeMoved
      <4>2. portValues'[Edges[e].src] = portValues[Edges[e].src] /\ task'[Edges[e].src] = task[Edges[e].src]
        BY <4>1, Unmoved
      <4>3. portValues'[n][p] = portValues'[Edges[e].src][Edges[e].sport]
        BY <3>1, <3>5, <4>2 DEF EdgeMoved
      <4>4. \A g \in Into(edgeStates', n, p) : g # e => g \in EdgeIds /\ edgeStates[g] = "EdgeFired"
        BY <3>2 DEF Into
      <4>5. \A g \in Into(edgeStates', n, p) :
              \/ g = e \/ FiresBefore(ranOn, g, e)
              \/ /\ task'[Edges[e].src] = "interrupt"
                 /\ LayerOf[Edges[g].src] = LayerOf[Edges[e].src]
        BY <3>1, <4>2, <4>4, FiresLast DEF LastInv
      <4>6. e \in Into(edgeStates', n, p)
        BY <3>5 DEF Into
      <4>7. ranOn' = ranOn
        BY EngineKept
      <4>8. QED
        BY <4>3, <4>5, <4>6, <4>7 DEF LastFired
    <3>6. QED
      BY <3>4, <3>5
  <2>5. CASE \E i \in InputIds : InputWrote(i)
    BY <2>5, NoEdgeBeforeFirstLayer DEF InputWrote, Into
  <2>6. CASE \E m \in MapIds : MappingWrote(m)
    <3>1. PICK m \in MapIds : MappingWrote(m)
      BY <2>6
    <3>2. edgeStates' = edgeStates /\ portValues'[n][p] = portValues[n][p]
      BY <3>1, MappingType DEF MappingWrote, Wrote, EdgesOnly
    <3>3. QED
      BY <2>2, <3>2
  <2>7. CASE UNCHANGED <<portValues, edgeStates>>
    BY <2>2, <2>7
  <2>8. QED
    BY <2>3, <2>4, <2>5, <2>6, <2>7, StepKinds
<1>3. RunsOn'
  <2>1. engine' = engine /\ ranOn' = ranOn /\ layer' >= layer
    BY EngineKept, LayerGrows
  <2>2. layer \in Nat /\ layer' \in Nat
    BY LayerGrows
  <2>3. QED
    BY <2>1, <2>2 DEF LastInv, RunsOn
<1>4. QED
  BY <1>1, <1>2, <1>3 DEF LastInv

(* What has fired before the suspension keeps its order: those layers are   *)
(* not run again.                                                          *)
LEMMA OrderRestored ==
  ASSUME TypeInv, StoredInv, ResumeStep, NEW e \in EdgeIds, NEW f \in EdgeIds,
         stored.edgeStates[e] = "EdgeFired", FiresBefore(stored.ranOn, e, f)
  PROVE  FiresBefore(ranOn', e, f)
<1>1. PICK l : l = LayerOf[Edges[e].src]
  OBVIOUS
<1>2. l \in 1..NumLayers /\ l <= stored.suspendLayer
  BY <1>1, EdgeType, LayersAssumption, LayerBounds, ResumeShape DEF StoredInv
<1>3. ranOn'[l] = stored.ranOn[l]
  BY <1>2 DEF ResumeStep, Resume
<1>4. QED
  BY <1>1, <1>3 DEF FiresBefore

LEMMA LastResume ==
  ASSUME TypeInv, StoredInv, LastStored, ResumeStep PROVE LastInv'
<1> DEFINE h == stored.interruptNode
<1>1. /\ stored # NoCheckpoint /\ h \in Nodes /\ pc' = "redges" /\ task' = stored.task
      /\ edgeStates' = stored.edgeStates
      /\ \A n \in Nodes : n # h => portValues'[n] = stored.portValues[n]
  BY ResumeShape
<1>2. stored.task[h] = "interrupt" /\ \A n \in Nodes : stored.task[n] \in Quiet
  BY <1>1 DEF StoredInv
<1>3. RunsOn' /\ InOrder'
  <2>1. layer' = stored.suspendLayer + 1 /\ stored.suspendLayer \in Nat
    BY ResumeShape
  <2>2. \A l \in 1..NumLayers : l > stored.suspendLayer => ranOn'[l] = engine'
    BY <2>1 DEF ResumeStep, Resume
  <2>3. QED
    BY <1>1, <2>1, <2>2, LayerBounds DEF RunsOn, InOrder
<1>4. SUFFICES ASSUME NEW n \in Nodes, NEW p \in Ports, EdgesOnly(n, p),
                      stored.task[n] \in {"none"} \cup Live, Into(stored.edgeStates, n, p) # {}
               PROVE  \E f \in EdgeIds :
                        LastFired(ranOn', portValues', stored.edgeStates, stored.task, n, p, f)
  BY <1>1, <1>3 DEF LastInv, LastWins
<1>5. stored.task[n] = "none" /\ n # h
  BY <1>2, <1>4 DEF Quiet, Returned, Live
<1>6. PICK f \in EdgeIds :
        LastFired(stored.ranOn, stored.portValues, stored.edgeStates, stored.task, n, p, f)
  BY <1>1, <1>4, <1>5 DEF LastStored, LastWins
<1>7. Edges[f].src # h /\ Edges[f].src \in Nodes
  BY <1>1, <1>6, EdgeType DEF StoredInv, LastFired, Into
<1>8. \A e \in Into(stored.edgeStates, n, p) :
         \/ e = f \/ FiresBefore(ranOn', e, f)
         \/ /\ stored.task[Edges[f].src] = "interrupt"
            /\ LayerOf[Edges[e].src] = LayerOf[Edges[f].src]
  BY <1>6, OrderRestored DEF LastFired, Into
<1>9. QED
  BY <1>1, <1>5, <1>6, <1>7, <1>8 DEF LastFired

(***************************************************************************)
(* The graph State is the fold of whole layers.                            *)
(***************************************************************************)
LEMMA FoldKept ==
  ASSUME NEW log \in StateLog, NEW tk1, NEW tk2, NEW l \in Nat, NEW k \in Nat, l <= k,
         FoldBefore(log, tk1, l), \A n \in Nodes : LayerOf[n] < l => tk2[n] = tk1[n]
  PROVE  FoldBefore(log, tk2, k)
<1>1. \A i \in 1..Len(log) : log[i] \subseteq Nodes
  BY DEF StateLog
<1>2. \A i \in 1..Len(log) : \A n \in log[i] : tk2[n] \in Returned /\ LayerOf[n] < k
  BY <1>1, LayerBounds DEF FoldBefore
<1>3. QED
  BY <1>2 DEF FoldBefore

LEMMA SeedFold == ASSUME NEW opts, NEW tk, NEW l PROVE FoldBefore(Seed(opts), tk, l)
<1>1. \A i \in 1..Len(Seed(opts)) : Seed(opts)[i] = {}
  BY DEF Seed
<1>2. QED
  BY <1>1 DEF FoldBefore

(* Reducing adds one layer to the fold, or starts it anew.                 *)
LEMMA FoldLayer ==
  ASSUME NEW log \in StateLog, NEW tk, NEW l \in Nat, FoldBefore(log, tk, l), NEW S \in SUBSET Nodes,
         \A n \in S : LayerOf[n] = l /\ tk[n] \in Returned
  PROVE  FoldBefore(Append(log, S), tk, l + 1) /\ FoldBefore(<<S>>, tk, l + 1)
<1> DEFINE new == Append(log, S)
<1>1. /\ Len(log) \in Nat /\ Len(new) = Len(log) + 1 /\ new[Len(log) + 1] = S
      /\ \A i \in 1..Len(log) : new[i] = log[i] /\ log[i] \subseteq Nodes
  BY DEF StateLog
<1>2. \A i \in 1..Len(new) : new[i] = S \/ (i \in 1..Len(log) /\ new[i] = log[i])
  BY <1>1
<1>3. \A i \in 1..Len(log) : \A m \in log[i] : m \in Nodes /\ LayerOf[m] < l /\ LayerOf[m] \in Nat
  BY <1>1, LayerBounds DEF FoldBefore
<1> HIDE DEF new
<1>4. \A i \in 1..Len(new) : \A m, n \in new[i] : LayerOf[m] = LayerOf[n]
  BY <1>2 DEF FoldBefore
<1>5. \A i \in 1..Len(new) : \A n \in new[i] : tk[n] \in Returned /\ LayerOf[n] < l + 1
  BY <1>2, <1>3 DEF FoldBefore
<1>6. \A i, j \in 1..Len(new) :
        \A m \in new[i], n \in new[j] : i < j => LayerOf[m] < LayerOf[n]
  <2> SUFFICES ASSUME NEW i \in 1..Len(new), NEW j \in 1..Len(new), NEW m \in new[i], NEW n \in new[j], i < j
               PROVE  LayerOf[m] < LayerOf[n]
    OBVIOUS
  <2>1. i \in 1..Len(log) /\ new[i] = log[i]
    BY <1>1
  <2>2. CASE j = Len(log) + 1
    BY <1>1, <1>3, <2>1, <2>2
  <2>3. CASE j \in 1..Len(log)
    BY <1>1, <2>1, <2>3 DEF FoldBefore
  <2>4. QED
    BY <1>1, <2>2, <2>3
<1>7. FoldBefore(new, tk, l + 1)
  BY <1>4, <1>5, <1>6 DEF FoldBefore
<1>8. FoldBefore(<<S>>, tk, l + 1)
  BY DEF FoldBefore
<1>9. QED
  BY <1>7, <1>8 DEF new

(* What the steps do to the cell, apart from Start, Reduce and SetState.    *)
LEMMA CellSteps ==
  ASSUME TypeInv, RunInv, Next, ~ResumeStep, Active', \A n \in Nodes : ~NodeStep(n), ~Reduce
  PROVE  /\ staged' = staged
         /\ committed' = committed \/ \E opts \in StateOpts : committed' = Seed(opts)
         /\ FoldFrontier \in Nat /\ FoldFrontier' \in Nat /\ FoldFrontier <= FoldFrontier'
         /\ pc \in {"fanout", "reduce"} => pc' \in {"fanout", "reduce"} /\ layer' = layer
<1>1. layer \in Nat
  BY LayerBounds DEF TypeInv, TypeOK
<1>2. CASE Call \/ Cancel \/ Crash
  BY <1>1, <1>2 DEF Call, ResumeStep, Start, ResumeRejected, Cancel, Crash, cellVars, FoldFrontier,
     StateOpts, Active
<1>3. CASE EngineStep
  <2>1. UNCHANGED <<staged, committed>>
    BY <1>3 DEF EngineStep, BindInput, InputsBound, ApplyInputMapping, InputMapsApplied, startFrame,
       BeginLayer, Join, nodeFrame, Splice, spliceFrame, FireEdge, EdgesFired, FireMapping, LayerFired,
       Suspend, Finish, FireDeferred, DeferredFired, FireDeferredMapping, Reenter, fireFrame, cellVars
  <2>2. CASE StartStep
    BY <1>1, <2>1, <2>2 DEF StartStep, Start, BindInput, InputsBound, ApplyInputMapping, ApplyMapping,
       InputMapsApplied, startFrame, Fail, FoldFrontier, Active
  <2>3. CASE BeginLayer \/ Join \/ Splice \/ EdgesFired \/ LayerFired \/ Suspend \/ Finish
    BY <1>1, <2>1, <2>3 DEF BeginLayer, Join, nodeFrame, Splice, spliceFrame, EdgesFired, fireFrame,
       LayerFired, Suspend, Finish, Fail, FoldFrontier, Active
  <2>4. CASE \/ \E e \in EdgeIds : FireEdge(e) \/ FireDeferred(e)
             \/ DeferredFired \/ Reenter
    BY <1>1, <2>1, <2>4 DEF FireEdge, FireDeferred, DeferredFired, Reenter, fireFrame, Fail,
       FoldFrontier, Active
  <2>5. CASE \E m \in MapIds : FireMapping(m) \/ FireDeferredMapping(m)
    BY <1>1, <2>1, <2>5 DEF FireMapping, FireDeferredMapping, ApplyMapping, fireFrame, Fail,
       FoldFrontier, Active
  <2>6. QED
    BY <1>3, <2>2, <2>3, <2>4, <2>5 DEF EngineStep, StartStep
<1>4. QED
  BY <1>2, <1>3 DEF Next

LEMMA FoldStep ==
  ASSUME Spontaneous = {}, TypeInv, RunInv, FoldInv, Next, ~ResumeStep, Active' PROVE FoldInv'
<1>1. layer \in Nat /\ committed \in StateLog /\ staged \in SUBSET Nodes
  BY LayerBounds DEF TypeInv, TypeOK
<1>2. FoldFrontier \in Nat /\ \A n \in Nodes : LayerOf[n] < FoldFrontier => task'[n] = task[n]
  <2>1. FoldFrontier \in Nat /\ Frontier \in Nat /\ FoldFrontier <= Frontier
    BY <1>1 DEF FoldFrontier, Frontier, AfterFanout
  <2>2. QED
    BY <2>1, LayerBounds, Unmoved
<1>3. CASE \E k \in Nodes : NodeStep(k)
  <2>1. PICK k \in Nodes : NodeStep(k)
    BY <1>3
  <2>2. /\ pc = "fanout" /\ task[k] \in Live /\ UNCHANGED <<pc, layer>>
        /\ \A n \in Nodes : task'[n] = task[n] \/ task'[n] # "none"
    BY <2>1, NodeStepShape DEF TypeInv, TypeOK, TaskState
  <2>3. committed' = committed /\ (staged' = staged \/ staged' = staged \cup {k})
    BY <2>1 DEF NodeStep, StartNode, GiveUpNode, SetState, NodeOk, NodeErr, NodeCanceled,
       NodeInterrupt, nodeFrame
  <2>4. LayerOf[k] = layer /\ task'[k] # "none"
    BY <2>2, LiveIsHere DEF Live
  <2>5. FoldFrontier' = FoldFrontier
    BY <2>2 DEF FoldFrontier
  <2>6. FoldBefore(committed', task', FoldFrontier')
    BY <1>1, <1>2, <2>3, <2>5, FoldKept DEF FoldInv
  <2>7. \A n \in staged' : pc' \in {"fanout", "reduce"} /\ LayerOf[n] = layer' /\ task'[n] # "none"
    BY <1>1, <2>2, <2>3, <2>4 DEF FoldInv
  <2>8. QED
    BY <2>6, <2>7 DEF FoldInv
<1>4. CASE Reduce
  <2>1. /\ pc = "reduce" /\ pc' = "splice" /\ task' = task /\ layer' = layer /\ staged' = {}
        /\ committed' \in {committed, Append(committed, staged), <<staged>>}
    BY <1>4 DEF Reduce, Reduced, Fail, Active, taskVars, StagedAfter
  <2>2. FoldFrontier = layer /\ FoldFrontier' = layer + 1
    BY <2>1 DEF FoldFrontier
  <2>3. \A n \in staged : LayerOf[n] = layer /\ task[n] \in Returned
    <3> SUFFICES ASSUME NEW n \in staged PROVE LayerOf[n] = layer /\ task[n] \in Returned
      OBVIOUS
    <3>1. LayerOf[n] = layer /\ task[n] # "none" /\ n \in Nodes
      BY <1>1 DEF FoldInv
    <3>2. LayerOf[n] < Frontier
      BY <1>1, <2>1, <3>1 DEF Frontier, AfterFanout
    <3>3. QED
      BY <3>1, <3>2 DEF RunInv, Behind, Quiet
  <2>4. FoldBefore(committed, task, layer)
    BY <2>2 DEF FoldInv
  <2>5. FoldBefore(committed, task, layer + 1)
    BY <1>1, <2>4, FoldKept
  <2>6. FoldBefore(Append(committed, staged), task, layer + 1) /\ FoldBefore(<<staged>>, task, layer + 1)
    BY <1>1, <2>3, <2>4, FoldLayer
  <2>7. FoldBefore(committed', task', FoldFrontier')
    BY <2>1, <2>2, <2>5, <2>6
  <2>8. QED
    BY <2>1, <2>7 DEF FoldInv
<1>5. CASE ~Reduce /\ \A k \in Nodes : ~NodeStep(k)
  <2>1. /\ staged' = staged
        /\ committed' = committed \/ \E opts \in StateOpts : committed' = Seed(opts)
        /\ FoldFrontier' \in Nat /\ FoldFrontier <= FoldFrontier'
        /\ pc \in {"fanout", "reduce"} => pc' \in {"fanout", "reduce"} /\ layer' = layer
    BY <1>5, CellSteps
  <2>2. FoldBefore(committed', task', FoldFrontier')
    <3>1. CASE committed' = committed
      <4>1. FoldBefore(committed, task', FoldFrontier')
        BY <1>1, <1>2, <2>1, FoldKept DEF FoldInv
      <4>2. QED
        BY <3>1, <4>1
    <3>2. CASE \E opts \in StateOpts : committed' = Seed(opts)
      BY <3>2, SeedFold
    <3>3. QED
      BY <2>1, <3>1, <3>2
  <2>3. \A n \in staged' : pc' \in {"fanout", "reduce"} /\ LayerOf[n] = layer' /\ task'[n] # "none"
    BY <1>1, <1>5, <2>1, ReturnsAlone DEF FoldInv
  <2>4. QED
    BY <2>2, <2>3 DEF FoldInv
<1>6. QED
  BY <1>3, <1>4, <1>5

LEMMA FoldResume ==
  ASSUME TypeInv, StoredInv, FoldStored, ResumeStep PROVE FoldInv'
<1>1. /\ stored # NoCheckpoint /\ stored.suspendLayer \in Nat /\ pc' = "redges"
      /\ layer' = stored.suspendLayer + 1 /\ task' = stored.task
  BY ResumeShape
<1>2. staged' = {} /\ (committed' = stored.state \/ \E opts \in StateOpts : committed' = Seed(opts))
  BY DEF ResumeStep, Resume
<1>3. FoldFrontier' = stored.suspendLayer + 1
  BY <1>1 DEF FoldFrontier
<1>4. FoldBefore(stored.state, task', FoldFrontier')
  BY <1>1, <1>3 DEF FoldStored
<1>5. FoldBefore(committed', task', FoldFrontier')
  BY <1>2, <1>4, SeedFold
<1>6. QED
  BY <1>2, <1>5 DEF FoldInv

(***************************************************************************)
(* Together: the invariant of the firing loops, kept by every step, by      *)
(* every suspension for the checkpoint, and by every resume from it.        *)
(***************************************************************************)
FiringNow == EdgeInv /\ CauseInv /\ ReachInv /\ EmitInv /\ LastInv
FiringStored == EdgeStored /\ CauseStored /\ ReachStored /\ EmitStored /\ LastStored
FiringInv == CondsInv /\ (Active => FiringNow) /\ FiringStored
FoldingInv == (Active => FoldInv) /\ FoldStored

LEMMA ActiveBefore == ASSUME TypeInv, Next, ~ResumeStep, Active' PROVE Active
BY LegSteps DEF Active, Phases, Finish

LEMMA InitFiring == ASSUME Init PROVE FiringInv /\ FoldingInv
<1>1. FiringStored /\ FoldStored
  BY DEF Init, FiringStored, EdgeStored, CauseStored, ReachStored, EmitStored, LastStored, FoldStored
<1>2. EdgeInv /\ CauseInv
  BY DEF Init, EdgeInv, Stand, CauseInv, Caused
<1>3. ReachInv
  <2>1. EdgesReached(activated, edgeStates) /\ InputsReached
    BY DEF Init, EdgesReached, InputsReached
  <2>2. \A m \in MapIds \ InputMaps : ~MapVisited(m)
    BY MappingType, LayerBounds DEF Init, InputMaps, MapVisited
  <2>3. QED
    BY <2>1, <2>2 DEF ReachInv, MapsReached
<1>4. EmitInv
  BY DEF Init, EmitInv, Supplied, Unemitted
<1>5. LastInv
  <2>1. \A n \in Nodes, p \in Ports : Into(edgeStates, n, p) = {}
    BY DEF Init, Into
  <2>2. QED
    BY <2>1 DEF Init, LastInv, LastWins, InOrder, RunsOn
<1>6. FoldInv
  BY DEF Init, FoldInv, FoldBefore
<1>7. CondsInv
  BY DEF Init, CondsInv
<1>8. QED
  BY <1>1, <1>2, <1>3, <1>4, <1>5, <1>6, <1>7 DEF FiringInv, FiringNow, FoldingInv

LEMMA SuspendFiring ==
  ASSUME TypeInv, RunInv, Suspend, stored' = Snapshot
  PROVE  (FiringNow => FiringStored') /\ (FoldInv => FoldStored')
<1>1. /\ pc = "suspend" /\ layer \in Nat /\ deferNode # NoNode
      /\ stored'.activated = activated /\ stored'.portValues = portValues
      /\ stored'.edgeStates = edgeStates /\ stored'.suspendLayer = layer
      /\ stored'.interruptNode = deferNode /\ stored'.task = task /\ stored'.emitted = emitted
      /\ stored'.state \in {committed, << >>} /\ stored'.ranOn = ranOn
  BY LayerBounds, NoNodeAssumption DEF Suspend, Snapshot, TypeInv, TypeOK, Ctl
<1>2. EdgeInv => EdgeStored'
  BY <1>1 DEF EdgeInv, EdgeStored
<1>3. CauseInv => CauseStored'
  BY <1>1 DEF CauseInv, CauseStored
<1>4. ReachInv => ReachStored'
  <2>1. \A m \in MapIds \ InputMaps :
          LayerOf[Mappings[m].src] <= layer /\ Mappings[m].src # deferNode => MapVisited(m)
    BY <1>1, MappingType, LayerBounds DEF InputMaps, MapVisited
  <2>2. QED
    BY <1>1, <2>1 DEF ReachInv, ReachStored, InputsReached, MapsReached
<1>5. EmitInv => EmitStored'
  BY <1>1 DEF EmitInv, EmitStored, Unemitted
<1>6. LastInv => LastStored'
  BY <1>1 DEF LastInv, LastStored, LastWins
<1>7. FoldInv => FoldStored'
  <2>1. FoldFrontier = layer + 1
    BY <1>1 DEF FoldFrontier
  <2>2. FoldBefore(<< >>, task, layer + 1)
    BY DEF FoldBefore
  <2>3. QED
    BY <1>1, <2>1, <2>2 DEF FoldInv, FoldStored
<1>8. QED
  BY <1>2, <1>3, <1>4, <1>5, <1>6, <1>7 DEF FiringNow, FiringStored

LEMMA StoredStep ==
  ASSUME TypeInv, SafetyInv, Next
  PROVE  (FiringInv => FiringStored') /\ (FoldingInv => FoldStored')
<1>1. CASE stored' = stored
  <2>1. FiringStored => EdgeStored' /\ CauseStored' /\ ReachStored'
    BY <1>1 DEF FiringStored, EdgeStored, CauseStored, ReachStored
  <2>2. FiringStored => EmitStored' /\ LastStored'
    BY <1>1 DEF FiringStored, EmitStored, LastStored
  <2>3. FoldStored => FoldStored'
    BY <1>1 DEF FoldStored
  <2>4. QED
    BY <2>1, <2>2, <2>3 DEF FiringInv, FiringStored, FoldingInv
<1>2. CASE Suspend /\ stored' = Snapshot
  <2>1. RunInv /\ Active
    BY <1>2 DEF Suspend, SafetyInv, Active
  <2>2. QED
    BY <1>2, <2>1, SuspendFiring DEF FiringInv, FoldingInv
<1>3. QED
  BY <1>1, <1>2, StoreStep DEF Suspend

LEMMA FiringStep == TypeInv /\ SafetyInv /\ FiringInv /\ [Next]_vars => FiringInv'
<1> SUFFICES ASSUME TypeInv, SafetyInv, FiringInv, [Next]_vars PROVE FiringInv'
  OBVIOUS
<1>1. CASE Next
  <2>1. ASSUME Active' PROVE FiringNow'
    <3>1. CASE ResumeStep
      <4>1. EdgeInv' /\ CauseInv'
        BY <3>1, EdgeResume, CauseResume DEF SafetyInv, FiringInv, FiringStored
      <4>2. ReachInv' /\ EmitInv' /\ LastInv'
        BY <3>1, ReachResume, EmitResume, LastResume DEF SafetyInv, FiringInv, FiringStored
      <4>3. QED
        BY <4>1, <4>2 DEF FiringNow
    <3>2. CASE ~ResumeStep
      <4>1. RunInv /\ CondsInv /\ FiringNow
        BY <1>1, <2>1, <3>2, ActiveBefore DEF SafetyInv, FiringInv
      <4>2. EdgeInv' /\ CauseInv'
        BY <1>1, <2>1, <3>2, <4>1, EdgeStep, CauseStep DEF FiringNow
      <4>3. ReachInv' /\ EmitInv' /\ LastInv'
        BY <1>1, <2>1, <3>2, <4>1, ReachStep, EmitStep, LastStep DEF FiringNow
      <4>4. QED
        BY <4>2, <4>3 DEF FiringNow
    <3>3. QED
      BY <3>1, <3>2
  <2>2. CondsInv'
    BY ConditionsKept DEF FiringInv
  <2>3. QED
    BY <1>1, <2>1, <2>2, StoredStep DEF FiringInv
<1>2. CASE UNCHANGED vars
  <2>1. UNCHANGED <<pc, layer, activated, portValues, edgeStates, task, emitted, pending, deferNode,
                    todo, engine, ranOn, stored>>
    BY <1>2 DEF vars, taskVars
  <2>2. FiringStored => FiringStored'
    BY <2>1 DEF FiringStored, EdgeStored, CauseStored, ReachStored, EmitStored, LastStored
  <2>3. EdgeInv /\ CauseInv => EdgeInv' /\ CauseInv'
    BY <2>1 DEF EdgeInv, CauseInv
  <2>4. ReachInv => ReachInv'
    BY <2>1 DEF ReachInv, InputsReached, MapsReached, MapVisited
  <2>5. EmitInv /\ LastInv => EmitInv' /\ LastInv'
    BY <2>1 DEF EmitInv, Unemitted, LastInv, InOrder, RunsOn
  <2>6. CondsInv => CondsInv'
    BY <2>1 DEF CondsInv
  <2>7. QED
    BY <2>1, <2>2, <2>3, <2>4, <2>5, <2>6 DEF FiringInv, FiringNow, Active
<1>3. QED
  BY <1>1, <1>2

LEMMA FoldingStep ==
  ASSUME Spontaneous = {} PROVE TypeInv /\ SafetyInv /\ FoldingInv /\ [Next]_vars => FoldingInv'
<1> SUFFICES ASSUME TypeInv, SafetyInv, FoldingInv, [Next]_vars PROVE FoldingInv'
  OBVIOUS
<1>1. CASE Next
  <2>1. ASSUME Active' PROVE FoldInv'
    <3>1. CASE ResumeStep
      BY <3>1, FoldResume DEF SafetyInv, FoldingInv
    <3>2. CASE ~ResumeStep
      BY <1>1, <2>1, <3>2, ActiveBefore, FoldStep DEF SafetyInv, FoldingInv
    <3>3. QED
      BY <3>1, <3>2
  <2>2. QED
    BY <1>1, <2>1, StoredStep DEF FoldingInv
<1>2. CASE UNCHANGED vars
  BY <1>2 DEF vars, taskVars, cellVars, FoldingInv, Active, FoldInv, FoldFrontier, FoldStored
<1>3. QED
  BY <1>1, <1>2

(* A step that ends the leg without completing it changes nothing else.     *)
LEMMA StopsStill ==
  ASSUME TypeInv, [Next]_vars, ~Active'
  PROVE  UNCHANGED <<activated, portValues, edgeStates, task, emitted, committed, engine, ranOn>>
<1> SUFFICES UNCHANGED <<activated, portValues, edgeStates, task, emitted, committed>>
  <2>1. ~ResumeStep
    BY DEF ResumeStep, Resume, Active
  <2>2. engine' = engine /\ ranOn' = ranOn
    BY <2>1, EngineKept DEF vars
  <2>3. QED
    BY <2>2
<1>1. CASE \E n \in Nodes : NodeStep(n)
  BY <1>1, NodeStepShape DEF Active
<1>2. CASE Call
  BY <1>2 DEF Call, Start, Resume, ResumeRejected, Active, taskVars, cellVars
<1>3. CASE EngineStep
  <2>1. UNCHANGED <<edgeStates, task, emitted, committed>>
    BY <1>3 DEF EngineStep, BindInput, InputsBound, ApplyInputMapping, InputMapsApplied, startFrame,
       BeginLayer, Join, Reduce, nodeFrame, runFrame, Splice, spliceFrame, FireEdge, EdgesFired,
       FireMapping, LayerFired, Suspend, Finish, FireDeferred, DeferredFired, FireDeferredMapping,
       Reenter, fireFrame, taskVars, cellVars, Active
  <2>2. UNCHANGED <<activated, portValues>>
    <3>1. CASE \/ \E i \in InputIds : BindInput(i)
               \/ \E e \in EdgeIds : FireEdge(e) \/ FireDeferred(e)
      BY <3>1 DEF BindInput, FireEdge, FireDeferred, Active
    <3>2. CASE \E m \in MapIds : ApplyInputMapping(m) \/ FireMapping(m) \/ FireDeferredMapping(m)
      BY <3>2 DEF ApplyInputMapping, FireMapping, FireDeferredMapping, ApplyMapping, Active
    <3>3. CASE InputsBound \/ InputMapsApplied \/ BeginLayer \/ Join \/ Reduce \/ Splice \/ EdgesFired
      BY <3>3 DEF InputsBound, InputMapsApplied, BeginLayer, Join, Reduce, nodeFrame, runFrame, Splice,
         spliceFrame, EdgesFired
    <3>4. CASE LayerFired \/ Suspend \/ Finish \/ DeferredFired \/ Reenter
      BY <3>4 DEF LayerFired, Suspend, Finish, DeferredFired, Reenter
    <3>5. QED
      BY <1>3, <3>1, <3>2, <3>3, <3>4 DEF EngineStep
  <2>3. QED
    BY <2>1, <2>2
<1>4. CASE Cancel \/ Crash \/ UNCHANGED vars
  BY <1>4 DEF Cancel, Crash, vars, taskVars, cellVars
<1>5. QED
  BY <1>1, <1>2, <1>3, <1>4 DEF Next

(***************************************************************************)
(* What follows from it.                                                   *)
(***************************************************************************)
LEMMA Firing == Spec => [](TypeInv /\ SafetyInv /\ EntryInv /\ FiringInv)
<1>1. Init => EntryInv /\ FiringInv
  BY InitFiring DEF Init, EntryInv
<1>2. QED
  BY <1>1, Safety, EntryStep, FiringStep, PTL DEF Spec

(* However many legs a run took, replaying fireLayerEdges would decide      *)
(* every edge as it was decided, an edge fires only on a value its source   *)
(* produced, and a completed run leaves no edge undecided but those nobody  *)
(* supplied a value for (fireLayerEdges, v2/flow/engine.go).  The sources'  *)
(* output ports are not written by wires.                                  *)
THEOREM EdgesStand ==
  ASSUME \A e \in EdgeIds : ~WireInto(Edges[e].src, Edges[e].sport)
  PROVE  Spec => []SettledEdgesStand
<1>1. TypeInv /\ RunInv /\ CondsInv /\ EdgeInv /\ EmitInv => SettledEdgesStand
  <2> SUFFICES ASSUME TypeInv, RunInv, CondsInv, EdgeInv, EmitInv, NEW e \in EdgeIds
               PROVE  /\ edgeStates[e] \notin {"EdgePending", "EdgeDeferred"} =>
                           edgeStates[e] = Verdict(e)
                      /\ edgeStates[e] = "EdgeFired" => Edges[e].sport \in emitted[Edges[e].src]
                      /\ pc = "done" =>
                           /\ edgeStates[e] # "EdgePending"
                           /\ edgeStates[e] = "EdgeDeferred" => Verdict(e) = "EdgeDeadNoPort"
    BY DEF SettledEdgesStand
  <2>1. edgeStates[e] \notin {"EdgePending", "EdgeDeferred"} => edgeStates[e] = Verdict(e)
    BY VerdictNow DEF EdgeInv, Stand
  <2>2. edgeStates[e] = "EdgeFired" => Edges[e].sport \in emitted[Edges[e].src]
    <3> SUFFICES ASSUME edgeStates[e] = "EdgeFired" PROVE Edges[e].sport \in emitted[Edges[e].src]
      OBVIOUS
    <3>1. portValues[Edges[e].src][Edges[e].sport] # NoValue
      BY <2>1 DEF Verdict
    <3>2. QED
      BY <3>1, EdgeType DEF EmitInv, Supplied
  <2>3. ASSUME pc = "done" PROVE edgeStates[e] # "EdgePending"
    BY <2>3, LayerBounds, EdgeType DEF RunInv, Loops, EdgesSettled, Open, TypeInv, TypeOK
  <2>4. ASSUME pc = "done", edgeStates[e] = "EdgeDeferred" PROVE Verdict(e) = "EdgeDeadNoPort"
    <3>1. task[Edges[e].src] = "interrupt" /\ portValues[Edges[e].src][Edges[e].sport] = NoValue
      BY <2>4 DEF RunInv, DeferredEdges
    <3>2. Edges[e].src \in Nodes /\ LayerOf[Edges[e].src] < Frontier
      BY <2>4, SettledBehind
    <3>3. Edges[e].src \in activated
      BY <3>1, <3>2 DEF RunInv, Behind
    <3>4. QED
      BY <3>1, <3>3 DEF Verdict
  <2>5. QED
    BY <2>1, <2>2, <2>3, <2>4
<1>2. Init => SettledEdgesStand
  BY DEF Init, SettledEdgesStand
<1>3. TypeInv /\ SettledEdgesStand /\ [Next]_vars /\ ~Active' => SettledEdgesStand'
  BY StopsStill DEF SettledEdgesStand, Verdict, Active
<1>4. TypeInv /\ SafetyInv /\ FiringInv /\ Active => SettledEdgesStand
  BY <1>1 DEF SafetyInv, FiringInv, FiringNow
<1>5. QED
  BY <1>2, <1>3, <1>4, Firing, PTL DEF Spec

(* A node is activated only for a cause, and a completed run has activated  *)
(* every node with one: neither a suspension nor a resume loses or invents  *)
(* an activation (v2/flow/engine.go, v2/flow/resume.go).                   *)
THEOREM ActivationIsExact == Spec => []ActivationExact
<1>1. \A n \in Nodes : HasCause(n) <=> CauseIn(activated, portValues, edgeStates, n)
  BY DEF HasCause, CauseIn, MapHasSource, SourceIn
<1>2. TypeInv /\ RunInv /\ EntryInv /\ CauseInv /\ ReachInv => ActivationExact
  <2> SUFFICES ASSUME TypeInv, RunInv, EntryInv, CauseInv, ReachInv PROVE ActivationExact
    OBVIOUS
  <2>1. \A n \in activated : HasCause(n)
    BY <1>1 DEF CauseInv, Caused, TypeInv, TypeOK
  <2>2. ASSUME pc = "done", NEW n \in Nodes, HasCause(n) PROVE n \in activated
    <3>1. layer > NumLayers
      BY <2>2 DEF RunInv, Loops
    <3>2. ASSUME NEW m \in MapIds \ InputMaps PROVE MapVisited(m)
      BY <2>2, <3>1, <3>2, MappingType, LayerBounds DEF InputMaps, MapVisited, TypeInv, TypeOK
    <3>3. QED
      BY <1>1, <2>2, <3>2 DEF CauseIn, EntryInv, ReachInv, EdgesReached, InputsReached, MapsReached
  <2>3. QED
    BY <2>1, <2>2 DEF ActivationExact
<1>3. Init => ActivationExact
  BY DEF Init, ActivationExact
<1>4. TypeInv /\ ActivationExact /\ [Next]_vars /\ ~Active' => ActivationExact'
  BY StopsStill DEF ActivationExact, HasCause, MapHasSource, Active
<1>5. TypeInv /\ SafetyInv /\ EntryInv /\ FiringInv /\ Active => ActivationExact
  BY <1>2 DEF SafetyInv, FiringInv, FiringNow
<1>6. QED
  BY <1>3, <1>4, <1>5, Firing, PTL DEF Spec

(* No two edges fire before each other.                                    *)
LEMMA OrderStrict ==
  ASSUME NEW on \in [1..NumLayers -> Engines], NEW e \in EdgeIds, NEW f \in EdgeIds,
         FiresBefore(on, e, f), FiresBefore(on, f, e)
  PROVE  FALSE
<1>1. e \in Nat /\ f \in Nat
  BY DEF EdgeIds
<1>2. PICK s \in Nodes, r \in Nodes : s = Edges[e].src /\ r = Edges[f].src
  BY EdgeType
<1>3. PICK i \in 1..NumLayers, j \in 1..NumLayers : i = LayerOf[s] /\ j = LayerOf[r]
  BY LayersAssumption
<1>4. i < j \/ (i = j /\ (Pos[on[i]][s] < Pos[on[i]][r] \/ (s = r /\ e < f)))
  BY <1>2, <1>3 DEF FiresBefore
<1>5. j < i \/ (j = i /\ (Pos[on[j]][r] < Pos[on[j]][s] \/ (r = s /\ f < e)))
  BY <1>2, <1>3 DEF FiresBefore
<1>6. i \in Nat /\ j \in Nat
  BY LayersAssumption
<1>7. Pos[on[i]][s] \in Nat /\ Pos[on[i]][r] \in Nat
  <2>1. PICK v \in Engines : v = on[i]
    OBVIOUS
  <2>2. Pos[v] \in [Nodes -> Nat]
    BY EnginesAssumption
  <2>3. QED
    BY <2>1, <2>2
<1>8. QED
  BY <1>1, <1>4, <1>5, <1>6, <1>7

(* Resume reproduces the uninterrupted run: in a port that no mapping       *)
(* writes, a node finds the value of the edge that fires last in the order  *)
(* of fireLayerEdges, or the answer of a node of the same layer that         *)
(* interrupted (v2/flow/engine.go, v2/flow/resume.go).                     *)
THEOREM BaselinePorts == Spec => []PortsAsBaseline
<1>1. TypeInv /\ LastInv => PortsAsBaseline
  <2> SUFFICES ASSUME TypeInv, LastInv, NEW n \in Nodes, NEW p \in Ports, task[n] \in Live, EdgesOnly(n, p),
                      NEW e \in FiredInto(n, p), \A f \in FiredInto(n, p) : f = e \/ FiresBefore(ranOn, f, e)
               PROVE  \E f \in FiredInto(n, p) :
                        /\ portValues[n][p] = portValues[Edges[f].src][Edges[f].sport]
                        /\ \/ f = e
                           \/ /\ task[Edges[f].src] = "interrupt"
                              /\ LayerOf[Edges[f].src] = LayerOf[Edges[e].src]
    BY DEF PortsAsBaseline, EdgesOnly
  <2>1. FiredInto(n, p) = Into(edgeStates, n, p)
    BY DEF FiredInto, Into
  <2>2. PICK f \in EdgeIds : LastFired(ranOn, portValues, edgeStates, task, n, p, f)
    BY <2>1 DEF LastInv, LastWins
  <2>3. f \in FiredInto(n, p) /\ e \in EdgeIds
    BY <2>1, <2>2 DEF LastFired, FiredInto
  <2>4. ~(FiresBefore(ranOn, e, f) /\ FiresBefore(ranOn, f, e))
    BY <2>2, <2>3, OrderStrict DEF TypeInv, TypeOK
  <2>5. QED
    BY <2>1, <2>2, <2>3, <2>4 DEF LastFired
<1>2. Init => PortsAsBaseline
  BY DEF Init, PortsAsBaseline, Live
<1>3. TypeInv /\ PortsAsBaseline /\ [Next]_vars /\ ~Active' => PortsAsBaseline'
  BY StopsStill DEF PortsAsBaseline, FiredInto
<1>4. TypeInv /\ FiringInv /\ Active => PortsAsBaseline
  BY <1>1 DEF FiringInv, FiringNow
<1>5. QED
  BY <1>2, <1>3, <1>4, Firing, PTL DEF Spec

(* The graph State is always the fold of whole layers, in order: no write   *)
(* of a failed layer gets in, none is left for the next layer, and a resume *)
(* goes on from what was folded at the suspension, as long as no node       *)
(* invents a context.Canceled of its own (stateCell, v2/flow/state.go).    *)
THEOREM StateIsFold == ASSUME Spontaneous = {} PROVE Spec => []StateIsFoldOfLayers
<1>1. FoldInv => StateIsFoldOfLayers
  BY DEF FoldInv, FoldBefore, StateIsFoldOfLayers
<1>2. Init => StateIsFoldOfLayers
  BY DEF Init, StateIsFoldOfLayers
<1>3. TypeInv /\ TypeInv' /\ StateIsFoldOfLayers /\ [Next]_vars /\ ~Active' => StateIsFoldOfLayers'
  BY StopsStill DEF StateIsFoldOfLayers, Active, Ended
<1>4. FoldingInv /\ Active => StateIsFoldOfLayers
  BY <1>1 DEF FoldingInv
<1>5. Init => FoldingInv
  BY InitFiring
<1>6. QED
  BY <1>2, <1>3, <1>4, <1>5, Safety, FoldingStep, PTL DEF Spec
=============================================================================
