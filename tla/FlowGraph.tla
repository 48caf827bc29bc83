------------------------------ MODULE FlowGraph ------------------------------
(***************************************************************************)
(* The compiled flow that a v2 Engine runs: the fields of Engine that      *)
(* Compile fills in and runCore only reads (v2/flow/engine.go).  Everything *)
(* here is constant; FlowEngine adds the state of one run.                 *)
(*                                                                         *)
(* A run may be resumed on the engine of an edited flow, or of the same     *)
(* flow over another registry of node types.  What resume's hash guard pins *)
(* is one constant (nodes, edges, mappings and with them the layers); what  *)
(* it does not is a function of the engine.                                *)
(*                                                                         *)
(* Port values are abstract.  What the engine does with a value is kept as  *)
(* functions over Values: a condition's verdict on it, what selectPath      *)
(* takes out of it, what setMappedPort makes of a target port.             *)
(***************************************************************************)
EXTENDS Naturals, Sequences, FiniteSets

CONSTANTS
  Nodes,        \* node ids
  Ports,        \* port names
  Values,       \* what a port may hold
  NoValue,      \* "key absent from the map"; also the error result of Sel, Put
  NoNode,       \* the empty string "" of an absent node id or input name
  NumLayers,    \* len(e.layers)
  LayerOf,      \* LayerOf[n]: index of n's layer, from 1
  Edges,        \* flow.Edges: src, sport, dst, dport
  Mappings,     \* flow.Mappings: src (NoNode: a flow input), sport, input, dst, dport, sel, put
  InputNames,   \* names of flow inputs
  Inputs,       \* flow.Inputs of the flow the run is started on: name, node, port
  Engines,      \* the engines a Resume may be called on
  Compiled,     \* the engine of the first leg
  FlowHash,     \* FlowHash[v], StructHash[v]: flowHash and structHash of engine v
  StructHash,
  Pos,          \* Pos[v][n]: n's place in the concatenation of v's layers
  Conds,        \* Conds[v][e]: the compiled condition of edge e
  Outputs,      \* Outputs[v]: flow.Outputs, as a set of <<node, port>>
  OutPorts,     \* OutPorts[v][n]: the output ports node n declares
  Capable       \* Capable[v]: InterruptCapable nodes whose CanInterrupt() is true

EdgeIds == 1..Len(Edges)
MapIds == 1..Len(Mappings)
InputIds == 1..Len(Inputs)
PortValue == Values \cup {NoValue}

(* What a compiled condition answers for a value: fire, do not fire, or     *)
(* fail (evaluation error, or a value that is not a string).               *)
Verdicts == {"true", "false", "error"}

(* An edge without a Condition fires whenever its source port has a value. *)
Always == [v \in Values |-> "true"]

EdgeRecord == [src : Nodes, sport : Ports, dst : Nodes, dport : Ports]

MappingRecord ==
  [src : Nodes \cup {NoNode}, sport : Ports, input : InputNames \cup {NoNode},
   dst : Nodes, dport : Ports,
   sel : [Values -> PortValue],
   put : [PortValue -> [Values -> PortValue]]]

InputRecord == [name : InputNames, node : Nodes, port : Ports]

ASSUME NoValueAssumption == NoValue \notin Values
ASSUME NoNodeAssumption == NoNode \notin Nodes
ASSUME LayersAssumption ==
  /\ NumLayers \in Nat
  /\ LayerOf \in [Nodes -> 1..NumLayers]
ASSUME EdgesAssumption == Edges \in Seq(EdgeRecord)
ASSUME MappingsAssumption ==
  /\ Mappings \in Seq(MappingRecord)
  /\ \A m \in MapIds : Mappings[m].src = NoNode => Mappings[m].input \in InputNames
ASSUME InputsAssumption == Inputs \in Seq(InputRecord)
ASSUME EnginesAssumption ==
  /\ Compiled \in Engines
  /\ Pos \in [Engines -> [Nodes -> Nat]]
  /\ \A v \in Engines, m, n \in Nodes : Pos[v][m] = Pos[v][n] => m = n
  /\ Conds \in [Engines -> [EdgeIds -> [Values -> Verdicts]]]
  /\ Outputs \in [Engines -> SUBSET (Nodes \X Ports)]
  /\ OutPorts \in [Engines -> [Nodes -> SUBSET Ports]]
  /\ Capable \in [Engines -> SUBSET Nodes]

(* What the two hashes pin besides nodes, edges and mappings, collisions    *)
(* aside.  flowHash is of the whole Flow, so the order of the nodes and the *)
(* outputs are in it, but nothing the registry decides.  structuralHash     *)
(* has the declared ports in it and sorts the nodes, without their Config   *)
(* and without Flow.Outputs.  Both have the condition strings, so over one  *)
(* ConditionEvaluator the compiled conditions are the same.                *)
ASSUME HashAssumption ==
  \A v, w \in Engines :
    /\ FlowHash[v] = FlowHash[w] => Pos[v] = Pos[w] /\ Outputs[v] = Outputs[w]
    /\ StructHash[v] = StructHash[w] => OutPorts[v] = OutPorts[w]
    /\ FlowHash[v] = FlowHash[w] \/ StructHash[v] = StructHash[w] => Conds[v] = Conds[w]

(* What Compile's Kahn layering guarantees: an edge, or a mapping from a    *)
(* node, leads to a strictly later layer.                                  *)
ASSUME TopologicalAssumption ==
  /\ \A e \in EdgeIds : LayerOf[Edges[e].src] < LayerOf[Edges[e].dst]
  /\ \A m \in MapIds : Mappings[m].src # NoNode =>
        LayerOf[Mappings[m].src] < LayerOf[Mappings[m].dst]

LayerNodes(l) == {n \in Nodes : LayerOf[n] = l}
EdgesFrom(l) == {e \in EdgeIds : LayerOf[Edges[e].src] = l}
MapsFrom(l) ==
  {m \in MapIds : Mappings[m].src # NoNode /\ LayerOf[Mappings[m].src] = l}
InputMaps == {m \in MapIds : Mappings[m].src = NoNode}

(* Entry nodes: no incoming edge and no incoming mapping.                  *)
EntryNodes ==
  {n \in Nodes : /\ \A e \in EdgeIds : Edges[e].dst # n
                 /\ \A m \in MapIds : Mappings[m].dst # n}

=============================================================================
